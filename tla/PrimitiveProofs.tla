--------------------------- MODULE PrimitiveProofs ---------------------------
(***************************************************************************)
(* The two primitives that the rest of the runtime stands on, each for any    *)
(* parameters: sleeping on a flag until it is released (WaitRelease: any      *)
(* flags, nudgers and number of rounds) and the ring of tasks of a thread     *)
(* (TaskDeque: any size, thieves and number of tasks).  They share no state;  *)
(* the two halves of the module do not use each other.                        *)
(***************************************************************************)
EXTENDS WaitRelease, TaskDeque, SequenceTheorems, TLAPS

----------------------------------------------------------------------------
(* I. WaitRelease. *)

(* The inductive invariant.  The mutex has one holder; under it the SLEEP bit *)
(* and th_sleep_loc move together; a release that finds the bit set is never  *)
(* finished before it has cleared it.                                         *)
WaiterHolds  == {"setsleep", "alarm", "setloc", "issleep", "unlock"}
ResumerHolds == {"clear", "nullloc", "signal", "unlock"}

MutexInv ==
    /\ pc \in WaiterHolds <=> mutex = Waiter
    /\ \A r \in Resumers : rpc[r] \in ResumerHolds <=> mutex = r

ReleaserPending ==
    pc \in {"setloc", "issleep", "blocked", "relock"} /\ Sleeping(cur) /\ Released(cur)
        => rpc[cur] \in {"anysleep", "lock", "clear"}

SignalPending == pc = "blocked" /\ ~Sleeping(cur) => \E r \in Resumers : Waking(r)

LocPending ==
    /\ pc = "setloc" => Sleeping(cur)
    /\ sleepLoc # NoFlag /\ ~Sleeping(cur) => \E r \in Resumers : rpc[r] = "nullloc"

DeactInv ==
    /\ pc = "setloc" => ~deact
    /\ pc \in {"blocked", "relock"} => deact
    /\ pc \in {"issleep", "blocked", "relock"} /\ deact => ~activeInPool

ProtocolInv ==
    /\ MutexInv /\ SleepBitOnlyInSuspend /\ SleepLocInSuspend
    /\ ReleaserPending /\ SignalPending /\ LocPending

----------------------------------------------------------------------------
(* Type correctness, in two halves: SMT decides the data, Zenon the variables *)
(* that hold Boolean values.                                                  *)
BooleanTypes ==
    deact \in BOOLEAN /\ inPool \in BOOLEAN /\ activeInPool \in BOOLEAN /\ gdone \in BOOLEAN

DataTypes ==
    /\ flag \in [Flags -> [val : Nat, sleep : BOOLEAN]]
    /\ cur \in Flags /\ round \in Nat /\ pc \in WaiterPC
    /\ sleepLoc \in Flags \cup {NoFlag} /\ mutex \in Resumers \cup {Waiter, NoOne}
    /\ poolActive \in Int
    /\ rpc \in [Resumers -> ResumerPC] /\ released \in [Flags -> Nat]
    /\ seen \in [Nudgers -> Flags \cup Types \cup {NoFlag}]

\* No step of the waiter, of a resumer or of the master leaves the Boolean variables
\* anything but Booleans.
LEMMA BooleanStep == BooleanTypes /\ [Next]_vars => BooleanTypes'
<1> SUFFICES ASSUME BooleanTypes, [Next]_vars PROVE BooleanTypes'
  OBVIOUS
<1> USE DEF BooleanTypes
<1>1. CASE WaiterStep \/ SpuriousWake
  BY <1>1, Zenon DEF WaiterStep, Check, EarlyExit, Return, GDone, Pool, Lock, SetSleep, FalseAlarm, SetLoc,
    Block, Reactivate, Unlock, SpuriousWake, WGoto, pool
<1>2. ASSUME NEW f \in Flags, Release(f) \/ AnySleeping(f) PROVE BooleanTypes'
  BY <1>2, Zenon DEF Release, AnySleeping, wvars, pool
<1>3. ASSUME NEW n \in Nudgers, NudgeRead(n) \/ NudgeType(n) PROVE BooleanTypes'
  BY <1>3, Zenon DEF NudgeRead, NudgeType, wvars, pool
<1>4. ASSUME NEW r \in Resumers, ResumeStep(r) PROVE BooleanTypes'
  BY <1>4, Zenon DEF ResumeStep, ResumeLock, ResumeNone, ResumeClear, ResumeNullLoc, ResumeSignal,
    ResumeUnlock, wvars, pool
<1>5. CASE EnterPool \/ LeavePool \/ Shutdown \/ Reap \/ Terminated \/ UNCHANGED vars
  BY <1>5, Zenon DEF EnterPool, LeavePool, Shutdown, Reap, Terminated, vars, wvars, pool
<1>6. QED
  BY <1>1, <1>2, <1>3, <1>4, <1>5 DEF Next

\* Every step keeps the flag words, the control points and the counters in their types.
LEMMA DataStep == DataTypes /\ [Next]_vars => DataTypes'
<1> SUFFICES ASSUME DataTypes, [Next]_vars PROVE DataTypes'
  OBVIOUS
<1> USE FlagAssumption DEF FlagAssumption, DataTypes, Resumers, Types
<1>1. CASE WaiterStep \/ SpuriousWake
  <2> USE DEF WGoto, WaiterPC
  <2>1. CASE Check \/ EarlyExit \/ GDone \/ Pool \/ Lock \/ SpuriousWake
    BY <2>1 DEF Check, EarlyExit, GDone, Pool, Lock, SpuriousWake, pool
  <2>2. CASE Return \/ SetSleep \/ FalseAlarm
    <3>1. flag' \in [Flags -> [val : Nat, sleep : BOOLEAN]]
      <4>1. CASE Return
        <5>1. [val |-> 0, sleep |-> FALSE] \in [val : Nat, sleep : BOOLEAN]
          OBVIOUS
        <5>2. QED
          BY <4>1, <5>1 DEF Return
      <4>2. CASE SetSleep \/ FalseAlarm
        <5>1. SetSleeping(cur) \/ UnsetSleeping(cur)
          <6>1. SetSleep => SetSleeping(cur)
            BY DEF SetSleep
          <6>2. FalseAlarm => UnsetSleeping(cur)
            BY DEF FalseAlarm
          <6>3. QED
            BY <4>2, <6>1, <6>2
        <5>2. CASE SetSleeping(cur)
          BY <5>2 DEF SetSleeping
        <5>3. CASE UnsetSleeping(cur)
          BY <5>3 DEF UnsetSleeping
        <5>4. QED
          BY <5>1, <5>2, <5>3
      <4>3. QED
        BY <2>2, <4>1, <4>2
    <3>2. cur' \in Flags /\ round' \in Nat /\ pc' \in WaiterPC
      BY <2>2 DEF Return, SetSleep, FalseAlarm
    <3>3. UNCHANGED <<sleepLoc, mutex, poolActive, rpc, released, seen>>
      BY <2>2 DEF Return, SetSleep, FalseAlarm, pool
    <3>4. QED
      BY <3>1, <3>2, <3>3
  <2>3. CASE SetLoc \/ Block \/ Reactivate \/ Unlock
    BY <2>3 DEF SetLoc, Block, Reactivate, Unlock, pool
  <2>4. QED
    BY <1>1, <2>1, <2>2, <2>3 DEF WaiterStep
<1>2. ASSUME NEW f \in Flags, Release(f) \/ AnySleeping(f) PROVE DataTypes'
  <2>1. flag' \in [Flags -> [val : Nat, sleep : BOOLEAN]] /\ released' \in [Flags -> Nat]
    BY <1>2 DEF Release, AnySleeping
  <2>2. rpc' \in [Resumers -> ResumerPC]
    BY <1>2 DEF Release, AnySleeping, RGoto, ResumerPC
  <2>3. UNCHANGED <<cur, round, pc, sleepLoc, mutex, poolActive, seen>>
    BY <1>2 DEF Release, AnySleeping, wvars, pool
  <2>4. QED
    BY <2>1, <2>2, <2>3
<1>3. ASSUME NEW n \in Nudgers, NudgeRead(n) \/ NudgeType(n) PROVE DataTypes'
  <2>1. seen' \in [Nudgers -> Flags \cup Types \cup {NoFlag}]
    <3>1. CASE NudgeRead(n)
      BY <3>1 DEF NudgeRead
    <3>2. CASE NudgeType(n)
      <4>1. PICK t \in Types : seen' = [seen EXCEPT ![n] = t]
        BY <3>2 DEF NudgeType
      <4>2. QED
        BY <4>1
    <3>3. QED
      BY <1>3, <3>1, <3>2
  <2>2. rpc' \in [Resumers -> ResumerPC]
    BY <1>3 DEF NudgeRead, NudgeType, RGoto, ResumerPC
  <2>3. UNCHANGED <<flag, cur, round, pc, sleepLoc, mutex, poolActive, released>>
    BY <1>3 DEF NudgeRead, NudgeType, wvars, pool
  <2>4. QED
    BY <2>1, <2>2, <2>3
<1>4. ASSUME NEW r \in Resumers, ResumeStep(r) PROVE DataTypes'
  <2> USE DEF ResumeStep, ResumeLock, ResumeNone, ResumeClear, ResumeNullLoc, ResumeSignal,
    ResumeUnlock
  <2>1. flag' \in [Flags -> [val : Nat, sleep : BOOLEAN]]
    <3>1. CASE ResumeClear(r)
      BY <3>1 DEF UnsetSleeping
    <3>2. CASE ~ResumeClear(r)
      BY <1>4, <3>2
    <3>3. QED
      BY <3>1, <3>2
  <2>2. rpc' \in [Resumers -> ResumerPC]
    BY <1>4 DEF RGoto, ResumerPC
  <2>3. pc' \in WaiterPC
    BY <1>4 DEF wvars, WaiterPC
  <2>4. /\ sleepLoc' \in Flags \cup {NoFlag} /\ mutex' \in Resumers \cup {Waiter, NoOne}
        /\ seen' \in [Nudgers -> Flags \cup Types \cup {NoFlag}]
    BY <1>4
  <2>5. UNCHANGED <<cur, round, poolActive, released>>
    BY <1>4 DEF wvars, pool
  <2>6. QED
    BY <2>1, <2>2, <2>3, <2>4, <2>5
<1>5. CASE EnterPool \/ LeavePool \/ Shutdown \/ Reap \/ Terminated \/ UNCHANGED vars
  BY <1>5 DEF EnterPool, LeavePool, Shutdown, Reap, Terminated, vars, wvars, pool
<1>6. QED
  BY <1>1, <1>2, <1>3, <1>4, <1>5 DEF Next

\* Type correctness: every reachable state satisfies TypeOK.
THEOREM TypeCorrect == Spec => []TypeOK
<1>1. Init => DataTypes
  BY FlagAssumption DEF FlagAssumption, Init, DataTypes, Resumers, Types, WaiterPC, ResumerPC
<1>2. Init => BooleanTypes
  BY Zenon DEF Init, BooleanTypes
<1>3. DataTypes /\ BooleanTypes => TypeOK
  BY Zenon DEF DataTypes, BooleanTypes, TypeOK
<1>4. QED
  BY <1>1, <1>2, <1>3, BooleanStep, DataStep, PTL DEF Spec

----------------------------------------------------------------------------
\* The waiter's own steps keep the protocol invariant.
LEMMA WaiterKeepsProtocol ==
    DataTypes /\ ProtocolInv /\ (WaiterStep \/ SpuriousWake) => ProtocolInv'
<1> SUFFICES ASSUME DataTypes, ProtocolInv, WaiterStep \/ SpuriousWake PROVE ProtocolInv'
  OBVIOUS
<1> USE FlagAssumption DEF FlagAssumption, DataTypes, ProtocolInv, MutexInv, SleepBitOnlyInSuspend,
    SleepLocInSuspend, ReleaserPending, SignalPending, LocPending, Waking, WaiterHolds,
    ResumerHolds, Sleeping, Released, Checker, Done, WGoto, SetSleeping, UnsetSleeping
<1>1. CASE Check \/ EarlyExit
  BY <1>1 DEF Check, EarlyExit
<1>2. CASE Return
  BY <1>2 DEF Return
<1>3. CASE GDone
  BY <1>3 DEF GDone
<1>4. CASE Pool
  BY <1>4 DEF Pool
<1>5. CASE Lock
  BY <1>5 DEF Lock
<1>6. CASE SetSleep
  BY <1>6 DEF SetSleep
<1>7. CASE FalseAlarm
  BY <1>7 DEF FalseAlarm
<1>8. CASE SetLoc
  BY <1>8 DEF SetLoc
<1>9. CASE Block
  BY <1>9 DEF Block
<1>10. CASE Reactivate
  BY <1>10 DEF Reactivate
<1>11. CASE Unlock
  BY <1>11 DEF Unlock
<1>12. CASE SpuriousWake
  BY <1>12 DEF SpuriousWake
<1>13. QED
  BY <1>1, <1>2, <1>3, <1>4, <1>5, <1>6, <1>7, <1>8, <1>9, <1>10, <1>11, <1>12 DEF WaiterStep

\* The steps of releasers and nudgers keep the protocol invariant.
LEMMA ResumerKeepsProtocol ==
    ASSUME DataTypes, ProtocolInv, NEW r \in Resumers,
           \/ r \in Flags /\ (Release(r) \/ AnySleeping(r))
           \/ r \in Nudgers /\ (NudgeRead(r) \/ NudgeType(r))
           \/ ResumeStep(r)
    PROVE  ProtocolInv'
<1> USE FlagAssumption DEF FlagAssumption, DataTypes, ProtocolInv, MutexInv, SleepBitOnlyInSuspend,
    SleepLocInSuspend, ReleaserPending, SignalPending, LocPending, Waking, WaiterHolds,
    ResumerHolds, Sleeping, Released, Checker, RGoto, UnsetSleeping, wvars, Resumers
<1>1. CASE r \in Flags /\ Release(r)
  BY <1>1 DEF Release
<1>2. CASE r \in Flags /\ AnySleeping(r)
  BY <1>2 DEF AnySleeping
<1>3. CASE r \in Nudgers /\ NudgeRead(r)
  BY <1>3 DEF NudgeRead
<1>4. CASE r \in Nudgers /\ NudgeType(r)
  BY <1>4 DEF NudgeType
<1>5. CASE ResumeLock(r)
  BY <1>5 DEF ResumeLock
<1>6. CASE ResumeNone(r)
  BY <1>6 DEF ResumeNone, ResumeFlag
<1>7. CASE ResumeClear(r)
  BY <1>7 DEF ResumeClear, ResumeFlag
<1>8. CASE ResumeNullLoc(r)
  BY <1>8 DEF ResumeNullLoc
<1>9. CASE ResumeSignal(r)
  BY <1>9 DEF ResumeSignal
<1>10. CASE ResumeUnlock(r)
  BY <1>10 DEF ResumeUnlock
<1>11. QED
  BY <1>1, <1>2, <1>3, <1>4, <1>5, <1>6, <1>7, <1>8, <1>9, <1>10 DEF ResumeStep

\* The master's steps touch nothing of the protocol.
LEMMA MasterKeepsProtocol ==
    ProtocolInv /\ (EnterPool \/ LeavePool \/ Shutdown \/ Reap \/ Terminated \/ UNCHANGED vars)
        => ProtocolInv'
BY DEF ProtocolInv, MutexInv, SleepBitOnlyInSuspend, SleepLocInSuspend, ReleaserPending,
    SignalPending, LocPending, Waking, Sleeping, Released, Checker, EnterPool, LeavePool,
    Shutdown, Reap, Terminated, vars, wvars

\* The protocol invariant holds in every reachable state.
LEMMA ProtocolInvariant == Spec => []ProtocolInv
<1>1. Init => ProtocolInv
  BY FlagAssumption DEF FlagAssumption, Init, Resumers, ProtocolInv, MutexInv,
    SleepBitOnlyInSuspend, SleepLocInSuspend, ReleaserPending, SignalPending, LocPending,
    WaiterHolds, ResumerHolds, Sleeping
<1>2. TypeOK => DataTypes
  BY Zenon DEF TypeOK, DataTypes
<1>3. DataTypes /\ ProtocolInv /\ [Next]_vars => ProtocolInv'
  BY WaiterKeepsProtocol, ResumerKeepsProtocol, MasterKeepsProtocol, Zenon DEF Next, Resumers
<1>4. QED
  BY <1>1, <1>2, <1>3, TypeCorrect, PTL DEF Spec

\* While the waiter is blocked on a released flag, somebody is on the way to wake it:
\* the releaser between its add and its resume, or a resumer about to signal.
THEOREM WakeUpsNotLost == Spec => []NoLostWakeup
<1>1. TypeOK /\ ProtocolInv => NoLostWakeup
  BY DEF TypeOK, ProtocolInv, SignalPending, ReleaserPending, NoLostWakeup
<1>2. QED
  BY <1>1, TypeCorrect, ProtocolInvariant, PTL

\* Outside the suspend call no word carries a SLEEP bit.
THEOREM SleepBitsCleared == Spec => []SleepBitOnlyInSuspend
BY ProtocolInvariant, PTL DEF ProtocolInv

\* th_sleep_loc is NULL whenever the flag object it pointed to may be gone.
THEOREM SleepLocCleared == Spec => []SleepLocInSuspend
BY ProtocolInvariant, PTL DEF ProtocolInv

\* The count of active pool threads is kept by every step: the pool check, the suspend
\* the wake-up and the reaper are the only ones that move it, each with th_active_in_pool.
PoolInv == DeactInv /\ PoolCount

LEMMA PoolStep == PoolInv /\ [Next]_vars => PoolInv'
<1> SUFFICES ASSUME PoolInv, [Next]_vars PROVE PoolInv'
  OBVIOUS
<1> USE DEF PoolInv, DeactInv, PoolCount
<1>1. CASE Pool \/ Block \/ Reactivate
  <2>1. CASE Pool
    BY <2>1 DEF Pool
  <2>2. CASE Block
    BY <2>2 DEF Block, WGoto
  <2>3. CASE Reactivate
    BY <2>3 DEF Reactivate, WGoto
  <2>4. QED
    BY <1>1, <2>1, <2>2, <2>3
<1>2. CASE Check \/ EarlyExit \/ Return \/ GDone \/ Lock
  BY <1>2 DEF Check, EarlyExit, Return, GDone, Lock, WGoto, pool
<1>3. CASE SetSleep \/ FalseAlarm \/ SetLoc \/ Unlock \/ SpuriousWake
  BY <1>3 DEF SetSleep, FalseAlarm, SetLoc, Unlock, SpuriousWake, WGoto, pool
<1>4. ASSUME NEW r \in Resumers, ResumeStep(r) PROVE PoolInv'
  BY <1>4 DEF ResumeStep, ResumeLock, ResumeNone, ResumeClear, ResumeNullLoc, ResumeSignal,
    ResumeUnlock, wvars, pool
<1>5. ASSUME NEW f \in Flags, Release(f) \/ AnySleeping(f) PROVE PoolInv'
  BY <1>5 DEF Release, AnySleeping, wvars, pool
<1>6. ASSUME NEW n \in Nudgers, NudgeRead(n) \/ NudgeType(n) PROVE PoolInv'
  BY <1>6 DEF NudgeRead, NudgeType, wvars, pool
<1>7. CASE EnterPool \/ LeavePool \/ Shutdown \/ Reap \/ Terminated \/ UNCHANGED vars
  BY <1>7 DEF EnterPool, LeavePool, Shutdown, Reap, Terminated, vars, wvars, pool
<1>8. QED
  BY <1>1, <1>2, <1>3, <1>4, <1>5, <1>6, <1>7 DEF Next, WaiterStep

\* __kmp_thread_pool_active_nth agrees with th_active_in_pool, and a blocked thread is
\* not counted.
THEOREM PoolCounted == Spec => []PoolCount
<1>1. Init => PoolInv
  BY DEF Init, PoolInv, DeactInv, PoolCount
<1>2. QED
  BY <1>1, PoolStep, PTL DEF Spec, PoolInv

----------------------------------------------------------------------------
(* II. TaskDeque: the ring of a thread is a bounded deque. *)

\* The tail follows from the head and the count: no index tells an empty ring from a full one.
Level == tail = Wrap(head + ntasks)

\* A thread in __kmp_push_task has a task to push, and is the owner.
PushingTask == \A p \in Takers : point[p] = "push" => p = Owner /\ pushing \in Tasks

RingInv == DequeTypeOK /\ Level /\ PushingTask

----------------------------------------------------------------------------
\* An index is at most once around the ring.
LEMMA WrapOnce ==
    ASSUME NEW s \in Int, NEW a \in Int, s > 0, 0 <= a, a < 2 * s
    PROVE  a % s = (IF a < s THEN a ELSE a - s)
<1>1. CASE a < s  BY <1>1
<1>2. CASE a >= s
  <2>1. a = 1 * s + (a - s) /\ a - s \in 0..(s - 1)  BY <1>2
  <2> QED  BY <1>2, <2>1
<1> QED  BY <1>1, <1>2

LEMMA WrapBack ==
    ASSUME NEW s \in Int, NEW a \in Int, 0 <= a, a < s
    PROVE  (a - 1) % s = (IF a > 0 THEN a - 1 ELSE s - 1)
<1>1. CASE a > 0
  <2>1. a - 1 \in Int /\ 0 <= a - 1 /\ a - 1 < 2 * s /\ a - 1 < s /\ s > 0  BY <1>1
  <2> QED  BY <1>1, <2>1, WrapOnce
<1>2. CASE a = 0
  <2>1. -1 = (-1) * s + (s - 1) /\ s - 1 \in 0..(s - 1)  OBVIOUS
  <2> QED  BY <1>2, <2>1
<1> QED  BY <1>1, <1>2

----------------------------------------------------------------------------
(* One step. *)

LEMMA RingInvInit == DequeInit => RingInv
<1> SUFFICES ASSUME DequeInit PROVE RingInv  OBVIOUS
<1>1. InitialSize \in Nat \ {0} /\ MaxTasks \in Nat  BY SizeAssumption DEF SizeAssumption
<1>2. DequeTypeOK  BY <1>1 DEF DequeInit, DequeTypeOK, Takers, NoTask
<1>3. Level
  <2>1. 0 % InitialSize = 0  BY <1>1, WrapOnce
  <2> QED  BY <1>1, <2>1 DEF DequeInit, Level, Wrap
<1> QED  BY <1>2, <1>3 DEF RingInv, PushingTask, DequeInit

\* What a thread takes is a task or nothing; its history stays in its types.
LEMMA TookTypes ==
    ASSUME DequeTypeOK, NEW p \in Takers, NEW x \in Tasks \union {NoTask}, Took(p, x)
    PROVE  got' \in [Takers -> Tasks \union {NoTask}] /\ taken' \in [Tasks -> Nat]
<1>1. got' \in [Takers -> Tasks \union {NoTask}]  BY DEF DequeTypeOK, Took
<1>2. CASE x \in Tasks
  <2>1. taken[x] + 1 \in Nat  BY <1>2 DEF DequeTypeOK
  <2> QED  BY <1>1, <2>1 DEF DequeTypeOK, Took
<1>3. CASE x \notin Tasks  BY <1>1, <1>3 DEF DequeTypeOK, Took
<1> QED  BY <1>2, <1>3

LEMMA PushCheckKeeps == RingInv /\ PushCheck => RingInv'
<1> SUFFICES ASSUME RingInv, PushCheck PROVE RingInv'  OBVIOUS
<1>1. MaxTasks \in Nat  BY SizeAssumption DEF SizeAssumption
<1>2. UNCHANGED ring /\ UNCHANGED <<got, taken>>  BY DEF PushCheck
<1>3. created' \in Tasks  BY <1>1 DEF RingInv, DequeTypeOK, PushCheck, Tasks
<1>4. DequeTypeOK'
  <2>1. point' \in [Takers -> {"idle", "push", "take"}] /\ pushing' \in Tasks \union {NoTask}
    BY <1>3 DEF RingInv, DequeTypeOK, PushCheck, Goto
  <2>2. created' \in 0..MaxTasks  BY <1>1, <1>3 DEF Tasks
  <2>3. inline' \subseteq Tasks  BY <1>3 DEF RingInv, DequeTypeOK, PushCheck
  <2> QED  BY <1>2, <2>1, <2>2, <2>3 DEF RingInv, DequeTypeOK, ring
<1>5. Level'  BY <1>2 DEF RingInv, Level, Wrap, ring
<1>6. PushingTask'
  BY <1>3 DEF RingInv, DequeTypeOK, PushingTask, PushCheck, Goto, At, Takers
<1> QED  BY <1>4, <1>5, <1>6 DEF RingInv

LEMMA PushKeeps == RingInv /\ Push => RingInv'
<1> SUFFICES ASSUME RingInv, Push PROVE RingInv'  OBVIOUS
<1> USE DEF RingInv
<1>1. pushing \in Tasks  BY DEF Push, At, PushingTask, Takers
<1>2. point' \in [Takers -> {"idle", "push", "take"}]  BY DEF Push, Goto, DequeTypeOK
<1>3. PushingTask'  BY DEF Push, Goto, PushingTask, DequeTypeOK, Takers
<1>4. CASE ntasks >= size
  <2>1. UNCHANGED ring /\ inline' = inline \union {pushing}  BY <1>4 DEF Push
  <2>2. DequeTypeOK'  BY <1>1, <1>2, <2>1 DEF Push, DequeTypeOK, ring
  <2>3. Level'  BY <2>1 DEF Level, Wrap, ring
  <2> QED  BY <1>3, <2>2, <2>3
<1>5. CASE ntasks < size
  <2>1. PutAtTail(pushing) /\ UNCHANGED inline  BY <1>5 DEF Push, DequeTypeOK
  <2>2. tail' = (IF tail + 1 < size THEN tail + 1 ELSE 0)
    <3>1. tail \in Int /\ size \in Int /\ size > 0 /\ 0 <= tail + 1 /\ tail + 1 < 2 * size  BY DEF DequeTypeOK
    <3> QED  BY <2>1, <3>1, WrapOnce DEF PutAtTail, Wrap, DequeTypeOK
  <2>3. tail = (IF head + ntasks < size THEN head + ntasks ELSE head + ntasks - size)
    <3>1. head \in Int /\ ntasks \in Int /\ size \in Int /\ size > 0 /\ 0 <= head + ntasks /\ head + ntasks < 2 * size  BY DEF DequeTypeOK
    <3> QED  BY <3>1, WrapOnce DEF Level, Wrap
  <2>4. DequeTypeOK'
    <3>1. size' \in Nat \ {0} /\ head' \in 0..(size' - 1) /\ tail' \in 0..(size' - 1)
      BY <2>1, <2>2 DEF PutAtTail, DequeTypeOK
    <3>2. ntasks' \in 0..size'  BY <1>5, <2>1 DEF PutAtTail, DequeTypeOK
    <3>3. deque' \in [0..(size' - 1) -> Tasks \union {NoTask}]
      BY <1>1, <2>1 DEF PutAtTail, DequeTypeOK
    <3> QED  BY <1>2, <2>1, <3>1, <3>2, <3>3 DEF Push, DequeTypeOK
  <2>5. Level'
    <3>1. head' = head /\ ntasks' = ntasks + 1 /\ size' = size  BY <2>1 DEF PutAtTail
    <3>2. size \in Nat \ {0} /\ head \in 0..(size - 1) /\ ntasks \in 0..(size - 1)
      BY <1>5 DEF DequeTypeOK
    <3>3. head + (ntasks + 1) \in 0..(2 * size - 1)  BY <3>2
    <3>4. (head + (ntasks + 1)) % size = (IF head + (ntasks + 1) < size THEN head + (ntasks + 1)
                                                     ELSE head + (ntasks + 1) - size)
      BY <3>2, <3>3, WrapOnce
    <3> QED  BY <2>2, <2>3, <3>1, <3>2, <3>4 DEF Level, Wrap
  <2> QED  BY <1>3, <2>4, <2>5
<1> QED  BY <1>4, <1>5 DEF DequeTypeOK

LEMMA PopKeeps == RingInv /\ Pop => RingInv'
<1> SUFFICES ASSUME RingInv, Pop PROVE RingInv'  OBVIOUS
<1> USE DEF RingInv
<1>1. size \in Nat \ {0} /\ head \in 0..(size - 1) /\ tail \in 0..(size - 1) /\ ntasks \in 1..size
  BY DEF DequeTypeOK, Pop
<1>2. tail' = (IF tail > 0 THEN tail - 1 ELSE size - 1)  BY <1>1, WrapBack DEF Pop, Wrap
<1>3. tail = (IF head + ntasks < size THEN head + ntasks ELSE head + ntasks - size)
  <2>1. head \in Int /\ ntasks \in Int /\ size \in Int /\ size > 0 /\ 0 <= head + ntasks /\ head + ntasks < 2 * size  BY <1>1
  <2> QED  BY <2>1, WrapOnce DEF Level, Wrap
<1>4. UNCHANGED <<deque, size, head, created, pushing, inline>> /\ ntasks' = ntasks - 1
  BY DEF Pop
<1>5. DequeTypeOK'
  <2>1. deque[tail'] \in Tasks \union {NoTask}  BY <1>1, <1>2 DEF DequeTypeOK
  <2>2. got' \in [Takers -> Tasks \union {NoTask}] /\ taken' \in [Tasks -> Nat]
    BY <2>1, TookTypes DEF Pop, Takers
  <2>3. point' \in [Takers -> {"idle", "push", "take"}]  BY DEF Pop, Goto, DequeTypeOK
  <2> QED  BY <1>1, <1>2, <1>4, <2>2, <2>3 DEF DequeTypeOK
<1>6. Level'
  <2>1. head \in Int /\ ntasks \in Int /\ size \in Int /\ size > 0 /\ 0 <= head + (ntasks - 1) /\ head + (ntasks - 1) < 2 * size  BY <1>1
  <2>2. (head + (ntasks - 1)) % size = (IF head + (ntasks - 1) < size THEN head + (ntasks - 1)
                                                   ELSE head + (ntasks - 1) - size)
    BY <2>1, WrapOnce
  <2> QED  BY <1>1, <1>2, <1>3, <1>4, <2>2 DEF Level, Wrap
<1>7. PushingTask'  BY DEF Pop, Goto, PushingTask, DequeTypeOK
<1> QED  BY <1>5, <1>6, <1>7

LEMMA StealKeeps == ASSUME NEW p \in Thieves PROVE RingInv /\ Steal(p) => RingInv'
<1> SUFFICES ASSUME RingInv, Steal(p) PROVE RingInv'  OBVIOUS
<1> USE DEF RingInv
<1>1. size \in Nat \ {0} /\ head \in 0..(size - 1) /\ tail \in 0..(size - 1) /\ ntasks \in 1..size
  BY DEF DequeTypeOK, Steal
<1>2. head' = (IF head + 1 < size THEN head + 1 ELSE 0)
  <2>1. head \in Int /\ size \in Int /\ size > 0 /\ 0 <= head + 1 /\ head + 1 < 2 * size  BY <1>1
  <2>2. (head + 1) % size = (IF head + 1 < size THEN head + 1 ELSE head + 1 - size)
    BY <2>1, WrapOnce
  <2> QED  BY <1>1, <2>2 DEF Steal, Wrap
<1>3. tail = (IF head + ntasks < size THEN head + ntasks ELSE head + ntasks - size)
  <2>1. head \in Int /\ ntasks \in Int /\ size \in Int /\ size > 0 /\ 0 <= head + ntasks /\ head + ntasks < 2 * size  BY <1>1
  <2> QED  BY <2>1, WrapOnce DEF Level, Wrap
<1>4. UNCHANGED <<deque, size, tail, created, pushing, inline>> /\ ntasks' = ntasks - 1
  BY DEF Steal
<1>5. DequeTypeOK'
  <2>1. deque[head] \in Tasks \union {NoTask}  BY <1>1 DEF DequeTypeOK
  <2>2. got' \in [Takers -> Tasks \union {NoTask}] /\ taken' \in [Tasks -> Nat]
    BY <2>1, TookTypes DEF Steal, Takers
  <2>3. point' \in [Takers -> {"idle", "push", "take"}]  BY DEF Steal, Goto, DequeTypeOK
  <2> QED  BY <1>1, <1>2, <1>4, <2>2, <2>3 DEF DequeTypeOK
<1>6. Level'
  <2> DEFINE end == head' + (ntasks - 1)
  <2>1. end \in Int /\ size \in Int /\ size > 0 /\ 0 <= end /\ end < 2 * size  BY <1>1, <1>2
  <2> HIDE DEF end
  <2>2. end % size = (IF end < size THEN end ELSE end - size)  BY <2>1, WrapOnce
  <2> QED  BY <1>1, <1>2, <1>3, <1>4, <2>2 DEF end, Level, Wrap
<1>7. PushingTask'  BY DEF Steal, Goto, PushingTask, DequeTypeOK
<1> QED  BY <1>5, <1>6, <1>7

LEMMA RingInvStep == RingInv /\ [DequeNext]_dequeVars => RingInv'
<1> SUFFICES ASSUME RingInv, [DequeNext]_dequeVars PROVE RingInv'  OBVIOUS
<1>1. CASE PushCheck  BY <1>1, PushCheckKeeps
<1>2. CASE Push  BY <1>2, PushKeeps
<1>3. CASE Pop  BY <1>3, PopKeeps
<1>4. ASSUME NEW p \in Takers, Look(p) \/ TakeNothing(p) PROVE RingInv'
  <2>1. UNCHANGED <<ring, created, pushing, inline, got, taken>>  BY <1>4 DEF Look, TakeNothing
  <2>2. point' \in [Takers -> {"idle", "push", "take"}]
    BY <1>4 DEF Look, TakeNothing, Goto, RingInv, DequeTypeOK
  <2>3. DequeTypeOK'  BY <2>1, <2>2 DEF RingInv, DequeTypeOK, ring
  <2>4. Level'  BY <2>1 DEF RingInv, Level, Wrap, ring
  <2>5. PushingTask'  BY <1>4, <2>1 DEF Look, TakeNothing, Goto, RingInv, DequeTypeOK, PushingTask
  <2> QED  BY <2>3, <2>4, <2>5 DEF RingInv
<1>5. ASSUME NEW p \in Thieves, Steal(p) PROVE RingInv'  BY <1>5, StealKeeps
<1>6. CASE UNCHANGED dequeVars  BY <1>6 DEF dequeVars, ring, RingInv, DequeTypeOK, Level, PushingTask, Wrap
<1> QED  BY <1>1, <1>2, <1>3, <1>4, <1>5, <1>6 DEF DequeNext

LEMMA RingInvariant == DequeSpec => []RingInv
BY RingInvInit, RingInvStep, PTL DEF DequeSpec

\* The indices stay inside the ring and no more tasks are counted than it has slots, for every
\* size and every number of thieves (td_deque_head, td_deque_tail, td_deque_ntasks).
THEOREM DequeTypeCorrect == DequeSpec => []DequeTypeOK
BY RingInvariant, PTL DEF RingInv
----------------------------------------------------------------------------
(* The ring implements the deque. *)

Content == Tasks \union {NoTask}
Slot(i) == IF head + (i - 1) < size THEN head + (i - 1) ELSE head + (i - 1) - size

\* The deque, read off the ring from its head.
ItemsSpelled ==
    /\ Items \in Seq(Content) /\ Len(Items) = ntasks
    /\ \A i \in 1..ntasks : Slot(i) \in 0..(size - 1) /\ Items[i] = deque[Slot(i)]

LEMMA ItemsAreSpelled == DequeTypeOK => ItemsSpelled
<1> SUFFICES ASSUME DequeTypeOK PROVE ItemsSpelled  OBVIOUS
<1>1. size \in Int /\ head \in Int /\ ntasks \in Nat /\ size > 0 /\ 0 <= head /\ head < size
      /\ ntasks <= size
  BY DEF DequeTypeOK
<1>2. ASSUME NEW i \in 1..ntasks
      PROVE Wrap(head + i - 1) = Slot(i) /\ Slot(i) \in 0..(size - 1)
  <2> DEFINE at == head + (i - 1)
  <2>1. at \in Int /\ 0 <= at /\ at < 2 * size  BY <1>1
  <2>2. head + i - 1 = at  BY <1>1
  <2> HIDE DEF at
  <2>3. at % size = (IF at < size THEN at ELSE at - size)  BY <1>1, <2>1, WrapOnce
  <2> QED  BY <1>1, <2>1, <2>2, <2>3 DEF at, Slot, Wrap
<1>3. \A i \in 1..ntasks : deque[Wrap(head + i - 1)] \in Content  BY <1>2 DEF DequeTypeOK, Content
<1>4. Items \in [1..ntasks -> Content]  BY <1>3 DEF Items
<1>5. Items \in Seq(Content) /\ Len(Items) = ntasks  BY <1>1, <1>4
<1>6. \A i \in 1..ntasks : Items[i] = deque[Wrap(head + i - 1)]  BY DEF Items
<1> QED  BY <1>2, <1>5, <1>6 DEF ItemsSpelled

\* A push appends: no slot of the deque is the one at the tail.
LEMMA PushAppends ==
    ASSUME RingInv, ItemsSpelled, RingInv', ItemsSpelled', PutAtTail(pushing), ntasks < size,
           pushing \in Tasks
    PROVE  Items' = Append(Items, pushing)
<1>1. size \in Int /\ head \in Int /\ ntasks \in Nat /\ 0 <= head /\ head < size
  BY DEF RingInv, DequeTypeOK
<1>2. head' = head /\ size' = size /\ ntasks' = ntasks + 1 /\ deque' = [deque EXCEPT ![tail] = pushing]
  BY DEF PutAtTail
<1>3. tail = Slot(ntasks + 1)
  <2> DEFINE end == head + ntasks
  <2>1. end \in Int /\ size > 0 /\ 0 <= end /\ end < 2 * size  BY <1>1
  <2> HIDE DEF end
  <2>2. end % size = (IF end < size THEN end ELSE end - size)  BY <1>1, <2>1, WrapOnce
  <2> QED  BY <1>1, <2>2 DEF end, Slot, RingInv, Level, Wrap
<1>4. \A i \in 1..ntasks : Slot(i) # tail  BY <1>1, <1>3 DEF Slot
<1>5. \A i \in 1..(ntasks + 1) : Slot(i)' = Slot(i)  BY <1>2 DEF Slot
<1>6. /\ Append(Items, pushing) \in Seq(Content) /\ Len(Append(Items, pushing)) = ntasks + 1
      /\ \A i \in 1..ntasks : Append(Items, pushing)[i] = Items[i]
      /\ Append(Items, pushing)[ntasks + 1] = pushing
  BY AppendProperties DEF ItemsSpelled, Content
<1>7. Items' \in Seq(Content) /\ Len(Items') = ntasks + 1
      /\ \A i \in 1..(ntasks + 1) : Items'[i] = deque'[Slot(i)]
  BY <1>2, <1>5 DEF ItemsSpelled, Content
<1>8. ASSUME NEW i \in 1..(ntasks + 1) PROVE Items'[i] = Append(Items, pushing)[i]
  <2>1. CASE i = ntasks + 1
    <3>1. tail \in DOMAIN deque  BY DEF RingInv, DequeTypeOK
    <3> QED  BY <1>2, <1>3, <1>6, <1>7, <2>1, <3>1
  <2>2. CASE i # ntasks + 1
    <3>1. i \in 1..ntasks  BY <1>1, <2>2
    <3>2. deque'[Slot(i)] = deque[Slot(i)] 
      BY <1>2, <1>4, <3>1 DEF ItemsSpelled, RingInv, DequeTypeOK
    <3> QED  BY <1>6, <1>7, <3>1, <3>2 DEF ItemsSpelled
  <2> QED  BY <2>1, <2>2
<1> QED  BY <1>6, <1>7, <1>8, SeqEqual

\* A pop drops the last: its slot is the one before the tail.
LEMMA PopTakesLast ==
    ASSUME RingInv, ItemsSpelled, RingInv', ItemsSpelled', Pop
    PROVE  Abs!TakeLast(Owner)
<1>1. size \in Int /\ head \in Int /\ ntasks \in Nat \ {0} /\ 0 <= head /\ head < size /\ ntasks <= size
  BY DEF RingInv, DequeTypeOK, Pop
<1>2. head' = head /\ size' = size /\ ntasks' = ntasks - 1 /\ deque' = deque  BY DEF Pop
<1>3. tail' = Slot(ntasks)
  <2> DEFINE end == head + (ntasks - 1)
  <2>1. end \in Int /\ size > 0 /\ 0 <= end /\ end < 2 * size  BY <1>1
  <2> HIDE DEF end
  <2>2. end % size = (IF end < size THEN end ELSE end - size)  BY <1>1, <2>1, WrapOnce
  <2> QED  BY <1>1, <1>2, <2>2 DEF end, Slot, RingInv, Level, Wrap
<1>4. Items[Len(Items)] = deque[tail']  BY <1>1, <1>3 DEF ItemsSpelled
<1>5. Items # <<>>  BY <1>1 DEF ItemsSpelled
<1>6. \A i \in 1..(ntasks - 1) : Slot(i)' = Slot(i)  BY <1>2 DEF Slot
<1>7. Items' \in Seq(Content) /\ Len(Items') = ntasks - 1
      /\ \A i \in 1..(ntasks - 1) : Items'[i] = deque[Slot(i)]
  BY <1>2, <1>6 DEF ItemsSpelled, Content
<1> DEFINE rest == SubSeq(Items, 1, ntasks - 1)
<1>8. /\ rest \in Seq(Content) /\ Len(rest) = ntasks - 1
      /\ \A i \in 1..(ntasks - 1) : rest[i] = Items[i]
  <2>1. \A i \in 1..(ntasks - 1) : Items[i] \in Content
    BY <1>1, ElementOfSeq DEF ItemsSpelled
  <2>2. /\ rest \in Seq(Content)
        /\ Len(rest) = (IF 1 <= ntasks - 1 THEN ntasks - 1 - 1 + 1 ELSE 0)
        /\ \A i \in 1..(ntasks - 1 - 1 + 1) : rest[i] = Items[1 + i - 1]
    BY <1>1, <2>1, SubSeqProperties
  <2> QED  BY <1>1, <2>2
<1>9. \A i \in 1..(ntasks - 1) : Items[i] = deque[Slot(i)]  BY <1>1 DEF ItemsSpelled
<1> HIDE DEF rest
<1>10. Items' = rest
  <2>1. \A i \in 1..Len(rest) : Items'[i] = rest[i]  BY <1>7, <1>8, <1>9
  <2> QED  BY <1>7, <1>8, <2>1, SeqEqual
<1> QED  BY <1>4, <1>5, <1>10 DEF rest, ItemsSpelled, Abs!TakeLast, Pop, Took

\* A steal drops the first: its slot is the head.
LEMMA StealTakesFirst ==
    ASSUME RingInv, ItemsSpelled, RingInv', ItemsSpelled', NEW p \in Thieves, Steal(p)
    PROVE  Abs!TakeFirst(p)
<1>1. size \in Int /\ head \in Int /\ ntasks \in Nat \ {0} /\ 0 <= head /\ head < size /\ ntasks <= size
  BY DEF RingInv, DequeTypeOK, Steal
<1>2. head' = Wrap(head + 1) /\ size' = size /\ ntasks' = ntasks - 1 /\ deque' = deque
  BY DEF Steal
<1>3. head' = (IF head + 1 < size THEN head + 1 ELSE 0)
  <2> DEFINE next == head + 1
  <2>1. next \in Int /\ size > 0 /\ 0 <= next /\ next < 2 * size  BY <1>1
  <2> HIDE DEF next
  <2>2. next % size = (IF next < size THEN next ELSE next - size)  BY <1>1, <2>1, WrapOnce
  <2> QED  BY <1>1, <1>2, <2>2 DEF next, Wrap
<1>4. Items # <<>> /\ Head(Items) = deque[head]
  <2>1. Slot(1) = head  BY <1>1 DEF Slot
  <2> QED  BY <1>1, <2>1 DEF ItemsSpelled
<1>5. \A i \in 1..(ntasks - 1) : Slot(i)' = Slot(i + 1)  BY <1>1, <1>2, <1>3 DEF Slot
<1>6. Items' \in Seq(Content) /\ Len(Items') = ntasks - 1
      /\ \A i \in 1..(ntasks - 1) : Items'[i] = deque[Slot(i + 1)]
  BY <1>2, <1>5 DEF ItemsSpelled, Content
<1>7. /\ Tail(Items) \in Seq(Content) /\ Len(Tail(Items)) = ntasks - 1
      /\ \A i \in 1..(ntasks - 1) : Tail(Items)[i] = Items[i + 1]
  BY <1>4, HeadTailProperties DEF ItemsSpelled
<1>8. \A i \in 1..(ntasks - 1) : Items[i + 1] = deque[Slot(i + 1)]  BY <1>1 DEF ItemsSpelled
<1>9. Items' = Tail(Items)
  <2>1. \A i \in 1..Len(Items') : Items'[i] = Tail(Items)[i]  BY <1>6, <1>7, <1>8
  <2> QED  BY <1>6, <1>7, <2>1, SeqEqual
<1> QED  BY <1>4, <1>9 DEF Abs!TakeFirst, Steal, Took

LEMMA StepAbs ==
    ASSUME RingInv, ItemsSpelled, RingInv', ItemsSpelled', [DequeNext]_dequeVars
    PROVE  [Abs!Next]_<<Items, got>>
<1>1. ASSUME UNCHANGED <<ring, got>> PROVE UNCHANGED <<Items, got>>
  BY <1>1 DEF ring, Items, Wrap
<1>2. CASE PushCheck  BY <1>1, <1>2 DEF PushCheck
<1>3. CASE Push
  <2>1. CASE ntasks >= size  BY <1>1, <1>3, <2>1 DEF Push
  <2>2. CASE ntasks < size
    <3>1. PutAtTail(pushing) /\ UNCHANGED got  BY <1>3, <2>2 DEF Push, RingInv, DequeTypeOK
    <3>2. pushing \in Tasks  BY <1>3 DEF Push, At, RingInv, PushingTask, Takers
    <3>3. Items' = Append(Items, pushing)  BY <2>2, <3>1, <3>2, PushAppends
    <3>4. Len(Items) < size'  BY <2>2, <3>1 DEF ItemsSpelled, PutAtTail
    <3> QED  BY <3>1, <3>2, <3>3, <3>4 DEF Abs!Next, Abs!Push
  <2> QED  BY <2>1, <2>2 DEF RingInv, DequeTypeOK
<1>4. CASE Pop  BY <1>4, PopTakesLast DEF Abs!Next, Takers
<1>5. ASSUME NEW p \in Takers, Look(p) \/ TakeNothing(p) PROVE UNCHANGED <<Items, got>>
  BY <1>1, <1>5 DEF Look, TakeNothing
<1>6. ASSUME NEW p \in Thieves, Steal(p) PROVE Abs!Next
  BY <1>6, StealTakesFirst DEF Abs!Next, Takers
<1>7. CASE UNCHANGED dequeVars  BY <1>1, <1>7 DEF dequeVars
<1> QED  BY <1>2, <1>3, <1>4, <1>5, <1>6, <1>7 DEF DequeNext

\* What the owner and its thieves do to the ring is what they would do to a deque that is
\* bounded by the size of the ring, one step for one step: the unlocked tests of the number of
\* tasks, the index arithmetic and the order of the updates do not show.
THEOREM RingIsDeque == DequeSpec => Implements
<1>1. DequeInit => Abs!Init
  <2> SUFFICES ASSUME DequeInit PROVE Abs!Init  OBVIOUS
  <2>1. Items = <<>>
    <3>1. ItemsSpelled /\ ntasks = 0  BY RingInvInit, ItemsAreSpelled DEF RingInv, DequeInit
    <3> QED  BY <3>1, EmptySeq DEF ItemsSpelled
  <2> QED  BY <2>1 DEF DequeInit, Abs!Init
<1>2. RingInv => ItemsSpelled  BY ItemsAreSpelled DEF RingInv
<1> QED  BY <1>1, <1>2, RingInvariant, StepAbs, PTL DEF DequeSpec, Implements, Abs!Spec
=============================================================================
