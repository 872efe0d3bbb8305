---------------------------- MODULE WaitRelease ----------------------------
(***************************************************************************)
(* The wait/release protocol every barrier of the OpenMP runtime is built  *)
(* on: __kmp_wait_template and __kmp_release_template of                   *)
(* kmp_wait_release.h with __kmp_suspend_template and                      *)
(* __kmp_resume_template of z_Linux_util.cpp (blocktime finite).           *)
(*                                                                         *)
(* One thread, the waiter, waits round after round on the flags an inner   *)
(* thread of a barrier tree waits on: the b_arrived words of its children, *)
(* then its own b_go word.  Each flag has one releaser.  Nudgers are the   *)
(* threads that look for tasks and wake a sleeping thread through          *)
(* th_sleep_loc (__kmp_null_resume_wrapper).                               *)
(***************************************************************************)
EXTENDS Integers, FiniteSets

CONSTANTS
    Flags,      \* the flag words the waiter waits on in one round
    Go,         \* its own b_go word: waited on last, reset to 0 by the waiter
    First,      \* the flag a round starts with
    Succ,       \* Succ[f]: the flag waited on after f; Succ[Go] = First
    FlagType,   \* FlagType[f]: the width tag of f (flag32, flag64)
    Nudgers,    \* threads that wake the waiter to steal its tasks
    NoFlag,     \* the NULL of th_sleep_loc
    NoOne,      \* the owner of a free th_suspend_mx
    Waiter,     \* the owner of th_suspend_mx when the waiter holds it
    MaxRounds   \* bound on the releases of each flag

Types == {"flag32", "flag64"}
Resumers == Flags \cup Nudgers     \* a releaser is named by its flag

ASSUME FlagAssumption ==
    /\ Go \in Flags /\ First \in Flags /\ Succ \in [Flags -> Flags]
    /\ FlagType \in [Flags -> Types]
    /\ Flags \cap Nudgers = {} /\ NoFlag \notin Flags
    /\ NoOne \notin Resumers \cup {Waiter} /\ Waiter \notin Resumers
    /\ MaxRounds \in Nat

VARIABLES
    flag,       \* flag[f]: the word, its state part (units of STATE_BUMP) and SLEEP bit
    cur, round, \* the flag the waiter waits on, and in which round
    pc,         \* control point of the waiter
    deact,      \* the local "deactivated" of __kmp_suspend_template
    sleepLoc,   \* th_sleep_loc
    mutex,      \* th_suspend_mx
    inPool,     \* th_in_pool
    activeInPool, \* th_active_in_pool
    poolActive, \* this thread's share of __kmp_thread_pool_active_nth
    gdone,      \* __kmp_global.g.g_done
    rpc,        \* control point of each resumer
    released,   \* releases started on each flag
    seen        \* seen[n]: th_sleep_loc as nudger n read it, then the type it read

wvars == <<pc, deact>>
pool  == <<inPool, activeInPool, poolActive>>
vars == <<flag, cur, round, wvars, sleepLoc, mutex, pool, gdone, rpc, released, seen>>

----------------------------------------------------------------------------
(* The flag word (kmp_basic_flag).  done_check compares the whole word with *)
(* the checker, so a set SLEEP bit makes a released flag look unreleased.   *)
Checker(f) == IF f = Go THEN 1 ELSE round
Released(f) == flag[f].val = Checker(f)
Done(f) == Released(f) /\ ~flag[f].sleep
Sleeping(f) == flag[f].sleep

SetSleeping(f)   == flag' = [flag EXCEPT ![f].sleep = TRUE]
UnsetStateBit(f) == flag' = [flag EXCEPT ![f].val = @ - 1]
UnsetSleeping(f) == flag' = [flag EXCEPT ![f].sleep = FALSE]

Init ==
    /\ flag = [f \in Flags |-> [val |-> 0, sleep |-> FALSE]]
    /\ cur = First /\ round = 1
    /\ pc = "check" /\ deact = FALSE
    /\ sleepLoc = NoFlag /\ mutex = NoOne
    /\ inPool = FALSE /\ activeInPool = FALSE /\ poolActive = 0
    /\ gdone = FALSE
    /\ rpc = [r \in Resumers |-> "idle"]
    /\ released = [f \in Flags |-> 0]
    /\ seen = [n \in Nudgers |-> NoFlag]

----------------------------------------------------------------------------
(* The waiter: __kmp_wait_template.  *)
WGoto(from, to) == pc = from /\ pc' = to

\* while (flag->notdone_check()): leave the loop when the flag is released
Check ==
    /\ pc = "check"
    /\ pc' = IF Done(cur) THEN "done" ELSE "gdone"
    /\ UNCHANGED <<flag, cur, round, deact, sleepLoc, mutex, pool, gdone, rpc, released, seen>>

\* The caller's epilogue.  A worker that finds g_done set when it was released from the
\* fork barrier leaves it at once, and its thread ends ...
EarlyExit ==
    /\ cur = Go /\ gdone
    /\ WGoto("done", "exit")
    /\ UNCHANGED <<flag, cur, round, deact, sleepLoc, mutex, pool, gdone, rpc, released, seen>>

\* ... otherwise a b_go word is stored back to KMP_INIT_BARRIER_STATE, a b_arrived word
\* keeps its value; on to the next flag.
Return ==
    /\ ~(cur = Go /\ gdone)
    /\ WGoto("done", "check")
    /\ flag' = IF cur = Go THEN [flag EXCEPT ![Go] = [val |-> 0, sleep |-> FALSE]] ELSE flag
    /\ cur' = Succ[cur]
    /\ round' = IF cur = Go THEN round + 1 ELSE round
    /\ UNCHANGED <<deact, sleepLoc, mutex, pool, gdone, rpc, released, seen>>

\* if (g_done) break, in the loop and again after a suspend
GDone ==
    /\ \/ WGoto("gdone", IF gdone THEN "exit" ELSE "pool")
       \/ WGoto("woken", IF gdone THEN "exit" ELSE "check")
    /\ UNCHANGED <<flag, cur, round, deact, sleepLoc, mutex, pool, gdone, rpc, released, seen>>

\* Follow a transfer between team and pool; then spin on (blocktime not over, or
\* tasks may come) or suspend.
Pool ==
    /\ pc = "pool" /\ pc' \in {"check", "lock"}
    /\ activeInPool' = inPool
    /\ poolActive' = CASE inPool /\ ~activeInPool -> poolActive + 1
                       [] ~inPool /\ activeInPool -> poolActive - 1
                       [] OTHER -> poolActive
    /\ UNCHANGED <<flag, cur, round, deact, sleepLoc, mutex, inPool, gdone, rpc, released, seen>>

(* __kmp_suspend_template.  *)
Lock ==
    /\ mutex = NoOne /\ mutex' = Waiter
    /\ WGoto("lock", "setsleep") \/ WGoto("relock", "issleep")
    /\ UNCHANGED <<flag, cur, round, deact, sleepLoc, pool, gdone, rpc, released, seen>>

SetSleepNoRecheck ==
    /\ SetSleeping(cur) /\ WGoto("setsleep", "setloc") /\ deact' = FALSE
    /\ UNCHANGED <<cur, round, sleepLoc, mutex, pool, gdone, rpc, released, seen>>
\* The old value decides: already released is a false alarm.
SetSleep ==
    /\ SetSleeping(cur)
    /\ WGoto("setsleep", IF Done(cur) THEN "alarm" ELSE "setloc")
    /\ deact' = FALSE
    /\ UNCHANGED <<cur, round, sleepLoc, mutex, pool, gdone, rpc, released, seen>>

FalseAlarmKeepsBit ==
    /\ WGoto("alarm", "unlock")
    /\ UNCHANGED <<flag, cur, round, deact, sleepLoc, mutex, pool, gdone, rpc, released, seen>>
FalseAlarm ==
    /\ WGoto("alarm", "unlock")
    /\ UnsetSleeping(cur)
    /\ UNCHANGED <<cur, round, deact, sleepLoc, mutex, pool, gdone, rpc, released, seen>>

SetLoc ==
    /\ WGoto("setloc", "issleep")
    /\ sleepLoc' = cur
    /\ UNCHANGED <<flag, cur, round, deact, mutex, pool, gdone, rpc, released, seen>>

BlockUncounted ==
    /\ WGoto("issleep", "blocked") /\ Sleeping(cur)
    /\ mutex' = NoOne
    /\ deact' = TRUE
    /\ IF ~deact THEN activeInPool' = FALSE /\ poolActive' = poolActive - 1
       ELSE UNCHANGED <<activeInPool, poolActive>>
    /\ UNCHANGED <<flag, cur, round, sleepLoc, inPool, gdone, rpc, released, seen>>
\* while (flag->is_sleeping()): deactivate on the first pass, then wait on the
\* condition variable, which releases the mutex.
Block ==
    /\ WGoto("issleep", "blocked") /\ Sleeping(cur)
    /\ mutex' = NoOne
    /\ deact' = TRUE
    /\ IF ~deact /\ activeInPool
       THEN activeInPool' = FALSE /\ poolActive' = poolActive - 1
       ELSE UNCHANGED <<activeInPool, poolActive>>
    /\ UNCHANGED <<flag, cur, round, sleepLoc, inPool, gdone, rpc, released, seen>>

\* A condition variable may wake without a signal, and a timed wait may time out.
SpuriousWake ==
    /\ WGoto("blocked", "relock")
    /\ UNCHANGED <<flag, cur, round, deact, sleepLoc, mutex, pool, gdone, rpc, released, seen>>

\* The loop ends: active again, and counted in the pool when it is in it.
Reactivate ==
    /\ WGoto("issleep", "unlock") /\ ~Sleeping(cur)
    /\ IF deact /\ inPool
       THEN activeInPool' = TRUE /\ poolActive' = poolActive + 1
       ELSE UNCHANGED <<activeInPool, poolActive>>
    /\ UNCHANGED <<flag, cur, round, deact, sleepLoc, mutex, inPool, gdone, rpc, released, seen>>

Unlock ==
    /\ WGoto("unlock", "woken")
    /\ mutex' = NoOne
    /\ UNCHANGED <<flag, cur, round, deact, sleepLoc, pool, gdone, rpc, released, seen>>

WaiterStep ==
    \/ Check \/ EarlyExit \/ Return \/ GDone \/ Pool \/ Lock \/ SetSleep \/ FalseAlarm \/ SetLoc
    \/ Block \/ Reactivate \/ Unlock

----------------------------------------------------------------------------
(* The releasers and the nudgers.  *)
RGoto(r, from, to) == rpc[r] = from /\ rpc' = [rpc EXCEPT ![r] = to]

\* The barrier releases a flag once per round: a child after it was let go in
\* the round before, the parent after the waiter arrived (cur = Go).
MayRelease(f) ==
    /\ released[f] < round /\ released[f] < MaxRounds
    /\ f = Go => cur = Go

\* Mutant: the reaper sets g_done and joins, without a release.
ReleaseUnlessDone(f) ==
    /\ ~gdone /\ MayRelease(f) /\ (f = Go => ~inPool)
    /\ RGoto(f, "idle", "anysleep")
    /\ flag' = [flag EXCEPT ![f].val = @ + 1]
    /\ released' = [released EXCEPT ![f] = @ + 1]
    /\ UNCHANGED <<cur, round, wvars, sleepLoc, mutex, pool, gdone, seen>>
\* __kmp_release_template: internal_release, an atomic add of STATE_BUMP.  The
\* master takes a worker out of the pool before it releases it.
Release(f) ==
    /\ MayRelease(f) /\ (f = Go => ~inPool)
    /\ RGoto(f, "idle", "anysleep")
    /\ flag' = [flag EXCEPT ![f].val = @ + 1]
    /\ released' = [released EXCEPT ![f] = @ + 1]
    /\ UNCHANGED <<cur, round, wvars, sleepLoc, mutex, pool, gdone, seen>>

SkipSleepers(f) ==
    /\ RGoto(f, "anysleep", "idle")
    /\ UNCHANGED <<flag, cur, round, wvars, sleepLoc, mutex, pool, gdone, released, seen>>
\* if (flag->is_any_sleeping()) resume the waiter
AnySleeping(f) ==
    /\ RGoto(f, "anysleep", IF Sleeping(f) THEN "lock" ELSE "idle")
    /\ UNCHANGED <<flag, cur, round, wvars, sleepLoc, mutex, pool, gdone, released, seen>>

\* A task-stealing thread finds th_sleep_loc set ...
NudgeRead(n) ==
    /\ sleepLoc # NoFlag
    /\ RGoto(n, "idle", "type")
    /\ seen' = [seen EXCEPT ![n] = sleepLoc]
    /\ UNCHANGED <<flag, cur, round, wvars, sleepLoc, mutex, pool, gdone, released>>

\* ... and reads the type of the flag object, outside the mutex: the object is
\* on the waiter's stack, so once the waiter left it any value may be read.
NudgeType(n) ==
    /\ RGoto(n, "type", "lock")
    /\ \E t \in IF sleepLoc # NoFlag /\ sleepLoc = seen[n] THEN {FlagType[sleepLoc]} ELSE Types :
          seen' = [seen EXCEPT ![n] = t]
    /\ UNCHANGED <<flag, cur, round, wvars, sleepLoc, mutex, pool, gdone, released>>

\* __kmp_resume_template
ResumeLock(r) ==
    /\ mutex = NoOne /\ mutex' = r
    /\ RGoto(r, "lock", "clear")
    /\ UNCHANGED <<flag, cur, round, wvars, sleepLoc, pool, gdone, released, seen>>

\* The flag to wake: a releaser's own, or th_sleep_loc read under the mutex,
\* none when it is NULL or its type is no longer the one the nudger saw.
ResumeFlag(r) ==
    IF r \in Flags THEN r
    ELSE IF sleepLoc # NoFlag /\ FlagType[sleepLoc] = seen[r] THEN sleepLoc ELSE NoFlag

ResumeNone(r) ==
    /\ ResumeFlag(r) = NoFlag
    /\ RGoto(r, "clear", "unlock")
    /\ UNCHANGED <<flag, cur, round, wvars, sleepLoc, mutex, pool, gdone, released, seen>>

ResumeClear(r) ==
    LET f == ResumeFlag(r) IN
    /\ f # NoFlag
    /\ UnsetSleeping(f)
    /\ RGoto(r, "clear", IF Sleeping(f) THEN "nullloc" ELSE "unlock")
    /\ UNCHANGED <<cur, round, wvars, sleepLoc, mutex, pool, gdone, released, seen>>

ResumeKeepLoc(r) ==
    /\ RGoto(r, "nullloc", "signal")
    /\ UNCHANGED <<flag, cur, round, wvars, sleepLoc, mutex, pool, gdone, released, seen>>
ResumeNullLoc(r) ==
    /\ RGoto(r, "nullloc", "signal")
    /\ sleepLoc' = NoFlag
    /\ UNCHANGED <<flag, cur, round, wvars, mutex, pool, gdone, released, seen>>

ResumeSignal(r) ==
    /\ RGoto(r, "signal", "unlock")
    /\ pc' = IF pc = "blocked" THEN "relock" ELSE pc
    /\ UNCHANGED <<flag, cur, round, deact, sleepLoc, mutex, pool, gdone, released, seen>>

ResumeUnlock(r) ==
    /\ RGoto(r, "unlock", "idle")
    /\ mutex' = NoOne
    /\ seen' = [n \in Nudgers |-> IF n = r THEN NoFlag ELSE seen[n]]
    /\ UNCHANGED <<flag, cur, round, wvars, sleepLoc, pool, gdone, released>>

ResumeStep(r) ==
    \/ ResumeLock(r) \/ ResumeNone(r) \/ ResumeClear(r) \/ ResumeNullLoc(r)
    \/ ResumeSignal(r) \/ ResumeUnlock(r)

----------------------------------------------------------------------------
(* The master's view of the waiter while it waits for its next team.  *)

\* __kmp_free_thread puts it in the pool, __kmp_allocate_thread (or
\* __kmp_internal_end before it reaps it) takes it out.
AtGo == cur = Go /\ rpc[Go] = "idle" /\ MayRelease(Go)

EnterPool ==
    /\ AtGo /\ ~inPool /\ ~gdone /\ inPool' = TRUE
    /\ UNCHANGED <<flag, cur, round, wvars, sleepLoc, mutex, activeInPool, poolActive,
                   gdone, rpc, released, seen>>
LeavePool ==
    /\ AtGo /\ inPool /\ inPool' = FALSE
    /\ UNCHANGED <<flag, cur, round, wvars, sleepLoc, mutex, activeInPool, poolActive,
                   gdone, rpc, released, seen>>

\* __kmp_internal_end: g_done is set while the workers are in the pool, and each
\* of them is then released from the fork barrier (__kmp_reap_thread).
Shutdown ==
    /\ AtGo /\ inPool /\ ~gdone /\ gdone' = TRUE
    /\ UNCHANGED <<flag, cur, round, wvars, sleepLoc, mutex, pool, rpc, released, seen>>

\* __kmp_reap_thread, after it has released and joined the worker: a worker that ended
\* while it spun in the pool is taken out of the count.
Reap ==
    /\ pc = "exit" /\ released[Go] = round /\ rpc[Go] = "idle"
    /\ activeInPool /\ activeInPool' = FALSE /\ poolActive' = poolActive - 1
    /\ UNCHANGED <<flag, cur, round, wvars, sleepLoc, mutex, inPool, gdone, rpc, released, seen>>

Terminated ==
    /\ pc = "exit" /\ \A r \in Resumers : rpc[r] = "idle"
    /\ UNCHANGED vars

Next ==
    \/ WaiterStep \/ SpuriousWake
    \/ \E f \in Flags : Release(f) \/ AnySleeping(f)
    \/ \E n \in Nudgers : NudgeRead(n) \/ NudgeType(n)
    \/ \E r \in Resumers : ResumeStep(r)
    \/ EnterPool \/ LeavePool \/ Shutdown \/ Reap \/ Terminated

Spec == Init /\ [][Next]_vars

\* Every thread that is inside the runtime keeps running, and th_suspend_mx does
\* not starve the waiter or a resumer.  Nobody owes a release, a nudge or a spurious
\* wake-up, except that after g_done the reaper does release and reap its worker.
Fairness ==
    /\ WF_vars(WaiterStep) /\ SF_vars(Lock)
    /\ \A f \in Flags : WF_vars(AnySleeping(f))
    /\ \A n \in Nudgers : WF_vars(NudgeType(n))
    /\ \A r \in Resumers : WF_vars(ResumeStep(r)) /\ SF_vars(ResumeLock(r))
    /\ WF_vars(gdone /\ (LeavePool \/ Release(Go) \/ Reap))

FairSpec == Spec /\ Fairness

----------------------------------------------------------------------------
WaiterPC == {"check", "done", "gdone", "pool", "lock", "setsleep", "alarm", "setloc",
             "issleep", "blocked", "relock", "unlock", "woken", "exit"}
ResumerPC == {"idle", "anysleep", "type", "lock", "clear", "nullloc", "signal", "unlock"}

TypeOK ==
    /\ flag \in [Flags -> [val : Nat, sleep : BOOLEAN]]
    /\ cur \in Flags /\ round \in Nat /\ pc \in WaiterPC /\ deact \in BOOLEAN
    /\ sleepLoc \in Flags \cup {NoFlag} /\ mutex \in Resumers \cup {Waiter, NoOne}
    /\ inPool \in BOOLEAN /\ activeInPool \in BOOLEAN /\ poolActive \in Int
    /\ gdone \in BOOLEAN
    /\ rpc \in [Resumers -> ResumerPC] /\ released \in [Flags -> Nat]
    /\ seen \in [Nudgers -> Flags \cup Types \cup {NoFlag}]

\* No wake-up is lost: while the waiter is blocked in pthread_cond_wait its SLEEP bit
\* is set, and if its flag is released too, the releaser has yet to look at the bit
\* and resume it; when the bit is gone, a resumer that holds the mutex signals next.
Waking(r) == rpc[r] \in {"nullloc", "signal"}
NoLostWakeup ==
    pc = "blocked" =>
        \/ \E r \in Resumers : Waking(r)
        \/ Sleeping(cur) /\ (Released(cur) => rpc[cur] \in {"anysleep", "lock", "clear"})

\* The SLEEP bit is on only in the word the waiter is suspending on: no word keeps it
\* when the waiter goes on, where it would make every later exact comparison with the
\* checker fail.
SleepBitOnlyInSuspend ==
    \A f \in Flags : Sleeping(f) =>
        f = cur /\ pc \in {"alarm", "setloc", "issleep", "blocked", "relock"}

\* th_sleep_loc never outlives the suspend call whose flag object it points to (the
\* object is on the waiter's stack).
SleepLocInSuspend ==
    sleepLoc # NoFlag => sleepLoc = cur /\ pc \in {"issleep", "blocked", "relock"}

\* __kmp_thread_pool_active_nth counts the thread exactly while it is active in the
\* pool, through any mixture of transfers, suspends and wake-ups; a blocked thread
\* does not count.
PoolCount ==
    /\ poolActive = IF activeInPool THEN 1 ELSE 0
    /\ pc = "blocked" => ~activeInPool

\* A released flag is eventually noticed, however the release, the suspend, nudges
\* and spurious wake-ups interleave.
ReleaseSeen == \A f \in Flags : (cur = f /\ Released(f)) ~> (pc \in {"done", "exit"})

\* After g_done the worker leaves its wait loop and the barrier, asleep or not, so
\* __kmp_reap_worker can join it; and in the end it counts no more.
ReapedWorkerLeaves == gdone ~> (pc = "exit" /\ poolActive = 0)
============================================================================
