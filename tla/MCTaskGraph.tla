----------------------------- MODULE MCTaskGraph -----------------------------
(* Small programs for TaskGraph: thread 1 executes the body of its implicit task. *)
EXTENDS TaskGraph

T(t) == <<"task", t>>
In(a) == [addr |-> a, out |-> FALSE]
Out(a) == [addr |-> a, out |-> TRUE]
Wait == <<"taskwait">>

\* A program from the body of the implicit task, the bodies of the other tasks that have one,
\* and the dependences and kinds that are not the default.
Program(main, bodies, deps, kinds) ==
    [body |-> [d \in Descriptors |->
                 IF d = "th1" THEN main ELSE IF d \in DOMAIN bodies THEN bodies[d] ELSE <<>>],
     deps |-> [t \in Tasks |-> IF t \in DOMAIN deps THEN deps[t] ELSE <<>>],
     kind |-> [t \in Tasks |-> IF t \in DOMAIN kinds THEN kinds[t] ELSE "task"]]

\* A writer, two readers, a writer that names the address twice.
Fan == Program(<<T("a"), T("b"), T("c"), T("d")>>, <<>>,
               [a |-> <<Out("x")>>, b |-> <<In("x")>>, c |-> <<In("x"), In("y")>>,
                d |-> <<In("x"), Out("x")>>], <<>>)
\* Two addresses, one predecessor counted twice; taskwait in the middle.
Cross == Program(<<T("a"), T("b"), Wait, T("c"), T("d")>>, <<>>,
                 [a |-> <<Out("x"), Out("y")>>, b |-> <<In("y"), Out("x")>>,
                  c |-> <<Out("x")>>, d |-> <<In("x")>>], <<>>)
\* A task whose child outlives it, in a taskgroup; a grandchild.
Nest == Program(<< <<"taskgroup">>, T("a"), <<"taskyield">>, <<"end">>, T("d")>>,
                [a |-> <<T("b")>>, b |-> <<T("c")>>], <<>>, <<>>)
\* Dependences among the children of a task that waits for them; a sibling beside.
Inner == Program(<<T("a"), T("d"), Wait>>, [a |-> <<T("b"), T("c"), Wait>>],
                 [b |-> <<Out("x")>>, c |-> <<In("x")>>, a |-> <<In("y")>>, d |-> <<Out("y")>>], <<>>)
\* Two tasks that wait for their children, whom any thread may hold back or steal.
Twin == Program(<<T("a"), T("b"), Wait>>, [a |-> <<T("c"), Wait>>, b |-> <<T("d"), Wait>>], <<>>, <<>>)
\* An undeferred task between a writer and a writer.
Undeferred == Program(<<T("a"), T("b"), T("c"), Wait>>, <<>>,
                      [a |-> <<Out("x")>>, b |-> <<In("x")>>, c |-> <<Out("x")>>], [b |-> "if0"])
\* A proxy task that others depend on, in a taskgroup; a proxy that waits for a task.
Proxies == Program(<< <<"taskgroup">>, T("a"), T("b"), <<"end">>, T("c")>>, <<>>,
                   [a |-> <<Out("x")>>, b |-> <<In("x")>>, c |-> <<Out("x")>>],
                   [a |-> "proxy", c |-> "proxy"])
\* A proxy below a task that does not wait for it.
Deep == Program(<<T("a"), Wait, T("d")>>, [a |-> <<T("b"), T("c")>>],
                [b |-> <<Out("x")>>, c |-> <<In("x")>>], [b |-> "proxy", d |-> "if0"])

AllPrograms == {Fan, Cross, Nest, Inner, Twin, Undeferred, Proxies, Deep}
=============================================================================
