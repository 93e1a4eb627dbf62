----------------------- MODULE CheckpointerSetupProofs -----------------------
(* Proofs about CheckpointerSetup, for every number of processes, migrations,    *)
(* attempts and faults. Exclusion follows from Held, that a process inside whose *)
(* key did not vanish still owns the lock; TablesBeforeUse follows from Complete,*)
(* what each of them knows about the tables while no key has vanished.           *)
EXTENDS CheckpointerSetup, TLAPS

(* Whoever is inside holds the lock unless its key vanished.                     *)
Held == \A p \in Processes : pc[p] \in Inside /\ p \notin lost => lock = p

(* While no key vanished: the process that migrates is at the first statement    *)
(* that is not recorded, and nobody says "done" before the last one is.          *)
Complete ==
  lost = {} =>
    /\ \A p \in Processes : pc[p] = "migrate" => at[p] = version + 1
    /\ \A p \in Processes : pc[p] = "write" => version = Migrations
    /\ \A p \in Processes : local[p] => version = Migrations
    /\ sentinel => version = Migrations

IInv == TypeOK /\ Held /\ Complete

USE FreeAssumption, BoundsAssumption

\* Each initial state satisfies the three.
LEMMA InitInv == Init => IInv
<1> SUFFICES ASSUME Init PROVE IInv
  OBVIOUS
<1>1. TypeOK
  <2>1. \A p \in Processes : ~renewing[p] BY DEF Init
  <2>2. version \in 0..Migrations /\ faults \in Nat BY DEF Init
  <2> QED BY <2>1, <2>2 DEF Init, TypeOK, Labels
<1>2. Held BY DEF Init, Held, Inside
<1>3. Complete BY DEF Init, Complete
<1> QED BY <1>1, <1>2, <1>3 DEF IInv

-------------------------------------------------------------------------------
\* Leaving stops the renewal and leads to the release.
LEMMA LeaveType ==
  ASSUME TypeOK, NEW p \in Processes, NEW next \in {"verify", "done", "failed"}, Leave(p, next)
  PROVE  /\ pc' \in [Processes -> Labels] /\ after' \in [Processes -> {"verify", "done", "failed"}]
         /\ renewing' \in [Processes -> BOOLEAN]
         /\ \A q \in Processes : renewing'[q] => pc'[q] \in Inside
BY DEF Leave, Goto, TypeOK, Labels, Inside

\* A step of a process keeps the types.
LEMMA StepType ==
  ASSUME TypeOK, NEW p \in Processes, Step(p)
  PROVE  TypeOK'
<1>1. CASE Check(p)   BY <1>1 DEF Check, Goto, shared, TypeOK, Labels, Inside
<1>2. CASE Acquire(p) BY <1>2 DEF Acquire, Goto, TypeOK, Labels, Inside
<1>3. CASE Wait(p)    BY <1>3 DEF Wait, Goto, shared, TypeOK, Labels, Inside
<1>4. CASE Recheck(p)
  <2>1. CASE sentinel  BY <1>4, <2>1, LeaveType DEF Recheck, shared, TypeOK
  <2>2. CASE ~sentinel BY <1>4, <2>2 DEF Recheck, Goto, shared, TypeOK, Labels, Inside
  <2> QED BY <2>1, <2>2
<1>5. CASE Open(p)    BY <1>5 DEF Open, Goto, shared, TypeOK, Labels, Inside
<1>6. CASE Migrate(p) BY <1>6 DEF Migrate, Goto, TypeOK, Labels, Inside
<1>7. CASE Write(p)   BY <1>7, LeaveType DEF Write, TypeOK
<1>8. CASE Release(p) BY <1>8 DEF Release, Goto, TypeOK, Labels, Inside
<1>9. CASE Verify(p)  BY <1>9 DEF Verify, Goto, shared, TypeOK, Labels, Inside
<1> QED BY <1>1, <1>2, <1>3, <1>4, <1>5, <1>6, <1>7, <1>8, <1>9 DEF Step

\* So does a fault.
LEMMA FaultType ==
  ASSUME TypeOK, NEW p \in Processes, Unlucky(p)
  PROVE  TypeOK'
<1>1. CASE AcquireUnanswered(p)
  BY <1>1 DEF AcquireUnanswered, Fault, Goto, TypeOK, Labels, Inside
<1>2. CASE WriteUnanswered(p)  BY <1>2, LeaveType DEF WriteUnanswered, Fault, TypeOK
<1>3. CASE NotReleased(p)
  BY <1>3 DEF NotReleased, Fault, Goto, shared, TypeOK, Labels, Inside
<1>4. CASE Raise(p)
  <2>1. CASE pc[p] \in Inside /\ Leave(p, "failed")
    BY <1>4, <2>1, LeaveType DEF Raise, Fault, shared, TypeOK
  <2>2. CASE /\ pc[p] \in {"check", "acquire", "verify"} /\ Goto(p, "failed")
             /\ UNCHANGED <<after, renewing>>
    BY <1>4, <2>2 DEF Raise, Fault, Goto, shared, TypeOK, Labels, Inside
  <2> QED BY <1>4, <2>1, <2>2 DEF Raise
<1>5. CASE Crash(p) BY <1>5 DEF Crash, Fault, Goto, shared, TypeOK, Labels, Inside
<1> QED BY <1>1, <1>2, <1>3, <1>4, <1>5 DEF Unlucky

\* Every step keeps the types.
LEMMA NextType == TypeOK /\ [Next]_vars => TypeOK'
<1> SUFFICES ASSUME TypeOK, [Next]_vars PROVE TypeOK'
  OBVIOUS
<1>1. ASSUME NEW p \in Processes, Begin(p) PROVE TypeOK'
  BY <1>1 DEF Begin, Goto, shared, TypeOK, Labels, Inside
<1>2. ASSUME NEW p \in Processes, StopRenewing(p) PROVE TypeOK'
  BY <1>2 DEF StopRenewing, Fault, shared, TypeOK
<1>3. CASE Expire BY <1>3 DEF Expire, Losers, TypeOK
<1>4. CASE Wipe
  <2>1. lost' \subseteq Processes BY <1>4 DEF Wipe, Losers, TypeOK
  <2>2. faults' \in Nat BY <1>4 DEF Wipe, Fault, TypeOK
  <2>3. sentinel' \in BOOLEAN /\ lock' = Free BY <1>4 DEF Wipe
  <2> QED BY <1>4, <2>1, <2>2, <2>3 DEF Wipe, TypeOK
<1>5. CASE UNCHANGED vars BY <1>5 DEF vars, TypeOK
<1> QED BY <1>1, <1>2, <1>3, <1>4, <1>5, StepType, FaultType DEF Next

-------------------------------------------------------------------------------
\* Only who has no key, or is not inside, gives the lock away.
LEMMA NextHeld == TypeOK /\ Held /\ [Next]_vars => Held'
<1> SUFFICES ASSUME TypeOK, Held, [Next]_vars PROVE Held'
  OBVIOUS
<1> USE DEF TypeOK, Held, Inside, Goto, shared
<1>1. ASSUME NEW p \in Processes, Step(p) PROVE Held'
  <2>1. CASE Acquire(p) BY <2>1 DEF Acquire
  <2>2. CASE Release(p) BY <2>2 DEF Release, Labels
  <2>3. CASE Recheck(p) BY <2>3 DEF Recheck, Leave
  <2>4. CASE Write(p) BY <2>4 DEF Write, Leave
  <2>5. CASE Check(p) \/ Wait(p) \/ Verify(p) BY <2>5 DEF Check, Wait, Verify
  <2>6. CASE Open(p) \/ Migrate(p) BY <2>6 DEF Open, Migrate
  <2> QED BY <1>1, <2>1, <2>2, <2>3, <2>4, <2>5, <2>6 DEF Step
<1>2. ASSUME NEW p \in Processes, Unlucky(p) PROVE Held'
  <2>1. CASE AcquireUnanswered(p) BY <2>1 DEF AcquireUnanswered
  <2>2. CASE WriteUnanswered(p) BY <2>2 DEF WriteUnanswered, Leave
  <2>3. CASE NotReleased(p) BY <2>3 DEF NotReleased
  <2>4. CASE Raise(p) BY <2>4 DEF Raise, Leave
  <2>5. CASE Crash(p) BY <2>5 DEF Crash
  <2> QED BY <1>2, <2>1, <2>2, <2>3, <2>4, <2>5 DEF Unlucky
<1>3. ASSUME NEW p \in Processes, Begin(p) PROVE Held'
  BY <1>3 DEF Begin
<1>4. ASSUME NEW p \in Processes, StopRenewing(p) PROVE Held'
  BY <1>4 DEF StopRenewing
<1>5. CASE Expire BY <1>5 DEF Expire, Losers
<1>6. CASE Wipe BY <1>6 DEF Wipe, Losers
<1>7. CASE UNCHANGED vars BY <1>7 DEF vars
<1> QED BY <1>1, <1>2, <1>3, <1>4, <1>5, <1>6, <1>7 DEF Next

\* While no key vanished, at most one process is inside.
LEMMA Alone ==
  ASSUME Held, lost = {}, NEW p \in Processes, NEW q \in Processes,
         pc[p] \in Inside, pc[q] \in Inside
  PROVE  p = q
BY DEF Held

\* What is known about the tables stays true.
LEMMA NextComplete == IInv /\ [Next]_vars => Complete'
<1> SUFFICES ASSUME IInv, [Next]_vars, lost' = {} PROVE Complete'
  BY DEF Complete
<1>0. TypeOK /\ Held /\ Complete BY DEF IInv
<1> HIDE DEF Held
<1> USE <1>0 DEF TypeOK, Complete, Goto, shared
<1>1. ASSUME NEW p \in Processes, Step(p) PROVE Complete'
  <2>1. lost = {}
    BY <1>1 DEF Step, Check, Acquire, Wait, Recheck, Open, Migrate, Write, Release, Verify
  <2>2. CASE Check(p) BY <2>1, <2>2 DEF Check
  <2>3. CASE Acquire(p) BY <2>1, <2>3 DEF Acquire
  <2>4. CASE Wait(p) BY <2>1, <2>4 DEF Wait
  <2>5. CASE Recheck(p) BY <2>1, <2>5 DEF Recheck, Leave
  <2>6. CASE Open(p) BY <2>1, <2>6 DEF Open
  <2>7. CASE Migrate(p)
    <3>1. \A q \in Processes : q # p => pc[q] \notin Inside
      BY <2>1, <2>7, Alone DEF Migrate, Inside
    <3>2. \A q \in Processes : q # p => pc[q] # "migrate" /\ pc[q] # "write"
      BY <3>1 DEF Inside
    <3>3. at[p] = version + 1 BY <2>1, <2>7 DEF Migrate
    <3>4. CASE at[p] <= Migrations
      BY <2>1, <2>7, <3>2, <3>3, <3>4 DEF Migrate
    <3>5. CASE ~(at[p] <= Migrations)
      BY <2>1, <2>7, <3>2, <3>3, <3>5 DEF Migrate
    <3> QED BY <3>4, <3>5
  <2>8. CASE Write(p) BY <2>1, <2>8 DEF Write, Leave
  <2>9. CASE Release(p)
    <3>1. after[p] \notin {"migrate", "write"} OBVIOUS
    <3> QED BY <2>1, <2>9, <3>1 DEF Release
  <2>10. CASE Verify(p) BY <2>1, <2>10 DEF Verify
  <2> QED BY <1>1, <2>2, <2>3, <2>4, <2>5, <2>6, <2>7, <2>8, <2>9, <2>10 DEF Step
<1>2. ASSUME NEW p \in Processes, Unlucky(p) PROVE Complete'
  <2>1. lost = {}
    BY <1>2 DEF Unlucky, AcquireUnanswered, WriteUnanswered, NotReleased, Raise, Crash
  <2>2. CASE AcquireUnanswered(p) BY <2>1, <2>2 DEF AcquireUnanswered
  <2>3. CASE WriteUnanswered(p) BY <2>1, <2>3 DEF WriteUnanswered, Leave
  <2>4. CASE NotReleased(p)
    <3>1. after[p] \notin {"migrate", "write"} OBVIOUS
    <3> QED BY <2>1, <2>4, <3>1 DEF NotReleased
  <2>5. CASE Raise(p) BY <2>1, <2>5 DEF Raise, Leave
  <2>6. CASE Crash(p) BY <2>1, <2>6 DEF Crash
  <2> QED BY <1>2, <2>2, <2>3, <2>4, <2>5, <2>6 DEF Unlucky
<1>3. ASSUME NEW p \in Processes, Begin(p) PROVE Complete'
  BY <1>3 DEF Begin
<1>4. ASSUME NEW p \in Processes, StopRenewing(p) PROVE Complete'
  BY <1>4 DEF StopRenewing
<1>5. CASE Expire BY <1>5 DEF Expire
<1>6. CASE Wipe BY <1>6 DEF Wipe
<1>7. CASE UNCHANGED vars BY <1>7 DEF vars
<1> QED BY <1>1, <1>2, <1>3, <1>4, <1>5, <1>6, <1>7 DEF Next

\* The three together are inductive.
LEMMA Inductive == Spec => []IInv
<1>1. IInv /\ [Next]_vars => IInv'
  BY NextType, NextHeld, NextComplete DEF IInv
<1> QED BY InitInv, <1>1, PTL DEF Spec

-------------------------------------------------------------------------------
(* Type correctness; the renewal task of RedisLock never outlives the critical   *)
(* section it belongs to.                                                        *)
THEOREM TypeCorrect == Spec => []TypeOK
<1>1. IInv => TypeOK BY DEF IInv
<1> QED BY Inductive, <1>1, PTL

(* Of two processes that are inside ensure_setup's critical section, one lost    *)
(* its key.                                                                      *)
THEOREM MutualExclusion == Spec => []OneAtATime
<1>1. IInv => OneAtATime BY DEF IInv, Held, OneAtATime
<1> QED BY Inductive, <1>1, PTL

(* The sentinel and _setup_done tell the truth about the tables.                 *)
THEOREM SentinelIsTrue == Spec => []TablesBeforeUse
<1>1. IInv => TablesBeforeUse BY DEF IInv, Complete, TablesBeforeUse
<1> QED BY Inductive, <1>1, PTL
===============================================================================
