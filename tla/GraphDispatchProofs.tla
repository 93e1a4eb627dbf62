------------------------- MODULE GraphDispatchProofs -------------------------
(***************************************************************************)
(* Proofs about GraphDispatch, for every number of processes, requests and *)
(* nodes.  TypeOK is inductive by itself.  TokensGenuine is inductive      *)
(* together with it as long as the fencing counter never expires; it       *)
(* carries the action property NoStaleOverwrite and the refinement of      *)
(* FencedOwnership.                                                        *)
(***************************************************************************)
EXTENDS GraphDispatch, TLAPS

(* TypeOK in two halves: the coroutines, and everything else.              *)

RunOK == run \in [Attempts -> RunRecord]

StoreOK ==
    /\ lock \in Locks /\ counter \in Nat /\ cancelFlag \in BOOLEAN
    /\ status \in Statuses /\ ckpt \in Nat
    /\ rows \in [1..NumNodes -> RowRecord]
    /\ phase \in [Procs -> Phases]
    /\ registry \in [Procs -> Attempts \union {NoAttempt}]
    /\ awaited \in [Procs -> Attempts \union {NoAttempt}]
    /\ granted \in Seq(Procs)

\* The halves make the whole.
LEMMA Halves == TypeOK <=> RunOK /\ StoreOK
BY DEF TypeOK, RunOK, StoreOK

-----------------------------------------------------------------------------
(* How the steps change a coroutine.                                       *)

\* The labels the steps go to are labels.
LEMMA Labels ==
    /\ {"retry", "get", "bootCheck", "acquire", "route", "reacquire", "recheck"} \subseteq PCs
    /\ {"acheck", "spawn", "spawned", "running", "ending", "failing"} \subseteq PCs
    /\ {"clear", "release", "cleanup", "ended", "over"} \subseteq PCs
BY DEF PCs, RequestPC, DispatchPC, RunPC, TryPC

\* Replacing one coroutine by a well-formed record keeps the type.
LEMMA RunUpdate ==
    ASSUME RunOK, NEW a \in Attempts, NEW r \in RunRecord, run' = [run EXCEPT ![a] = r]
    PROVE  RunOK'
BY DEF RunOK

\* So does moving on to a label.
LEMMA GotoRun ==
    ASSUME RunOK, NEW a \in Attempts, NEW l \in PCs, Goto(a, l)
    PROVE  RunOK'
BY DEF RunOK, Goto, RunRecord

\* An attempt that is over is a well-formed record.
LEMMA OverRecord == Over \in RunRecord
BY DEF Over, Idle, Free, Locks, RunRecord, PCs, Statuses

\* Ending a request keeps the type.
LEMMA QuitRun ==
    ASSUME RunOK, NEW a \in Attempts, Quit(a)
    PROVE  RunOK'
<1>0. [run[a] EXCEPT !.pc = "ended"] \in RunRecord
  BY DEF RunOK, RunRecord, PCs
<1>1. Left(run[a]) \in RunRecord
  BY <1>0, OverRecord DEF Left
<1> QED
  BY <1>1, RunUpdate DEF Quit

\* Leaving the try block of _run_graph.
LEMMA FinallyRun ==
    ASSUME RunOK, NEW a \in Attempts, Finally(a)
    PROVE  RunOK'
<1>0. "clear" \in PCs /\ "none" \in Statuses /\ run[a] \in RunRecord
  BY DEF RunOK, PCs, RunPC, Statuses
<1>1. Unwound(run[a]) \in RunRecord
  BY <1>0 DEF Unwound, RunRecord
<1> QED
  BY <1>1, RunUpdate DEF Finally

\* Starting a request.
LEMMA EnterRun ==
    ASSUME RunOK, NEW a \in Attempts, NEW p \in Procs, NEW l \in PCs, NEW r \in BOOLEAN,
           Enter(a, p, l, r)
    PROVE  RunOK'
BY DEF RunOK, Enter, Idle, Free, Locks, RunRecord, PCs, Statuses

\* Being granted the lock.
LEMMA GrantRun ==
    ASSUME TypeOK, NEW a \in Attempts, Grant(a)
    PROVE  RunOK'
<1> DEFINE t == counter + 1
           e == Len(granted) + 1
           r == [run[a] EXCEPT !.token = t, !.epoch = e, !.pc = "spawn"]
<1>0. RunOK
  BY Halves
<1>1. t \in Nat /\ e \in Nat
  BY DEF TypeOK
<1>2. run' = [run EXCEPT ![a] = r]
  BY DEF Grant
<1> HIDE DEF t, e
<1>3. "spawn" \in PCs /\ run[a] \in RunRecord
  BY <1>0 DEF PCs, DispatchPC, RunOK
<1>4. r \in RunRecord
  BY <1>1, <1>3 DEF RunRecord
<1> HIDE DEF r
<1> QED
  BY <1>0, <1>2, <1>4, RunUpdate

\* A grant keeps the types of the lock, the counter and the history.
LEMMA GrantStore ==
    ASSUME TypeOK, NEW a \in Attempts, run[a].proc \in Procs, Grant(a)
    PROVE  lock' \in Locks /\ counter' \in Nat /\ granted' \in Seq(Procs)
BY DEF TypeOK, Grant, Locks

(* What the statements on a node row return is a row.                      *)

\* upsert_node.
LEMMA UpsertedRow ==
    ASSUME NEW row \in RowRecord, NEW r \in RunRecord, r.proc \in Procs
    PROVE  Upserted(row, r) \in RowRecord
BY DEF Upserted, RowRecord, RunRecord, Statuses, Terminal

\* complete_node.
LEMMA CompletedRow ==
    ASSUME NEW row \in RowRecord, NEW r, r.proc \in Procs, NEW s \in {"completed", "failed"}
    PROVE  Completed(row, r, s) \in RowRecord
BY DEF Completed, RowRecord, Statuses, Terminal

\* pause_node.
LEMMA PausedRow ==
    ASSUME NEW row \in RowRecord, NEW r, r.proc \in Procs
    PROVE  Paused(row, r) \in RowRecord
BY DEF Paused, RowRecord, Active

\* The bulk update of a cancelled or failed thread.
LEMMA SweptRows ==
    ASSUME StoreOK, NEW s \in {"cancelled", "failed"}
    PROVE  Swept(s) \in [1..NumNodes -> RowRecord]
BY DEF Swept, StoreOK, RowRecord, Statuses, Terminal

-----------------------------------------------------------------------------
\* Every step keeps every variable in its type.
LEMMA TypeStep == TypeOK /\ [Next]_vars => TypeOK'
<1> SUFFICES ASSUME RunOK, StoreOK, [Next]_vars PROVE RunOK' /\ StoreOK'
  BY DEF TypeOK, RunOK, StoreOK
<1>0. TypeOK
  BY Halves
<1>1. ASSUME NEW a \in Attempts, NEW p \in Procs, SubmitQuery(a, p)
      PROVE  RunOK' /\ StoreOK'
  <2>1. RunOK'
    BY <1>1, EnterRun DEF SubmitQuery, PCs, RequestPC, DispatchPC
  <2> QED
    BY <1>1, <2>1 DEF StoreOK, SubmitQuery, Statuses, redisVars, dbVars, procVars
<1>2. ASSUME NEW a \in Attempts, NEW p \in Procs, AckQuery(a, p)
      PROVE  RunOK' /\ StoreOK'
  <2>1. RunOK'
    BY <1>2, EnterRun DEF AckQuery, PCs, RequestPC, DispatchPC
  <2> QED
    BY <1>2, <2>1 DEF StoreOK, AckQuery, Statuses, redisVars, dbVars, procVars
<1>3. ASSUME NEW a \in Attempts, NEW p \in Procs, ResumeQuery(a, p)
      PROVE  RunOK' /\ StoreOK'
  <2>1. RunOK'
    BY <1>3, EnterRun DEF ResumeQuery, PCs, RequestPC, DispatchPC
  <2> QED
    BY <1>3, <2>1 DEF StoreOK, ResumeQuery, Statuses, redisVars, dbVars, procVars
<1>4. ASSUME NEW a \in Attempts, NEW p \in Procs, CancelQuery(a, p)
      PROVE  RunOK' /\ StoreOK'
  <2>1. RunOK'
    BY <1>4, EnterRun DEF CancelQuery, PCs, RequestPC, DispatchPC
  <2> QED
    BY <1>4, <2>1 DEF StoreOK, CancelQuery, Statuses, redisVars, dbVars, procVars
<1>5. ASSUME NEW a \in Attempts, NEW p \in Procs, RetryTask(a, p)
      PROVE  RunOK' /\ StoreOK'
  <2>1. RunOK'
    BY <1>5, EnterRun DEF RetryTask, PCs, RequestPC, DispatchPC
  <2> QED
    BY <1>5, <2>1 DEF StoreOK, RetryTask, Statuses, redisVars, dbVars, procVars
<1>6. ASSUME NEW a \in Attempts, NEW p \in Procs, BootRecover(a, p)
      PROVE  RunOK' /\ StoreOK'
  <2>1. RunOK'
    BY <1>6, EnterRun DEF BootRecover, PCs, RequestPC
  <2> QED
    BY <1>6, <2>1 DEF StoreOK, BootRecover, Phases, redisVars, dbVars, procVars
<1>7. ASSUME NEW p \in Procs, BootIdle(p)
      PROVE  RunOK' /\ StoreOK'
  <2>1. RunOK'
    BY <1>7 DEF BootIdle, RunOK
  <2> QED
    BY <1>7, <2>1 DEF StoreOK, BootIdle, Becomes, Phases, redisVars, dbVars, procVars
<1>8. ASSUME NEW p \in Procs, BootDone(p)
      PROVE  RunOK' /\ StoreOK'
  <2>1. RunOK'
    BY <1>8 DEF BootDone, RunOK
  <2> QED
    BY <1>8, <2>1 DEF StoreOK, BootDone, Becomes, Phases, redisVars, dbVars, procVars
<1>9. ASSUME NEW p \in Procs, Shutdown(p)
      PROVE  RunOK' /\ StoreOK'
  <2>1. RunOK'
    BY <1>9 DEF Shutdown, RunOK
  <2> QED
    BY <1>9, <2>1 DEF StoreOK, Shutdown, Becomes, Phases, redisVars, dbVars, procVars
<1>10. ASSUME NEW p \in Procs, Dies(p)
      PROVE  RunOK' /\ StoreOK'
  <2>1. RunOK'
    BY <1>10, OverRecord DEF Dies, RunOK
  <2> QED
    BY <1>10, <2>1 DEF StoreOK, Dies, Phases, redisVars, dbVars, procVars
<1>11. ASSUME NEW a \in Attempts, PauseTask(a)
      PROVE  RunOK' /\ StoreOK'
  <2>1. RunOK'
    <3> DEFINE r == [run[a] EXCEPT !.paused = TRUE]
    <3>1. run[a] \in RunRecord
      BY DEF RunOK
    <3>2. r \in RunRecord
      BY <3>1 DEF RunRecord
    <3>3. run' = [run EXCEPT ![a] = r]
      BY <1>11 DEF PauseTask
    <3> HIDE DEF r
    <3> QED
      BY <3>2, <3>3, RunUpdate
  <2> QED
    BY <1>11, <2>1 DEF StoreOK, PauseTask, redisVars, dbVars, procVars
<1>12. ASSUME LockExpires
      PROVE  RunOK' /\ StoreOK'
  <2>1. RunOK'
    BY <1>12 DEF LockExpires, RunOK
  <2> QED
    BY <1>12, <2>1 DEF StoreOK, LockExpires, Free, Locks, redisVars, dbVars, procVars
<1>13. ASSUME CounterExpires
      PROVE  RunOK' /\ StoreOK'
  <2>1. RunOK'
    BY <1>13 DEF CounterExpires, RunOK
  <2> QED
    BY <1>13, <2>1 DEF StoreOK, CounterExpires, redisVars, dbVars, procVars
<1>14. ASSUME NEW a \in Attempts, CancelNodes(a)
      PROVE  RunOK' /\ StoreOK'
  <2>1. RunOK'
    BY <1>14, GotoRun DEF CancelNodes, PCs, RequestPC
  <2> QED
    BY <1>14, <2>1, SweptRows DEF StoreOK, CancelNodes, Statuses, redisVars, dbVars, procVars
<1>15. ASSUME NEW a \in Attempts, CancelThread(a)
      PROVE  RunOK' /\ StoreOK'
  <2>1. RunOK'
    BY <1>15, QuitRun DEF CancelThread
  <2> QED
    BY <1>15, <2>1 DEF StoreOK, CancelThread, ThreadEnds, Statuses, Terminal, redisVars, dbVars, procVars
<1>16. ASSUME NEW a \in Attempts, ResumeNode(a)
      PROVE  RunOK' /\ StoreOK'
  <2>1. RunOK'
    BY <1>16, GotoRun DEF ResumeNode, PCs, RequestPC
  <2> QED
    BY <1>16, <2>1 DEF StoreOK, ResumeNode, RowRecord, Statuses, Active, redisVars, dbVars, procVars
<1>17. ASSUME NEW a \in Attempts, StartBackground(a)
      PROVE  RunOK' /\ StoreOK'
  <2>1. RunOK'
    <3> DEFINE r == [run[a] EXCEPT !.pc = "retry", !.bg = TRUE]
    <3>1. run[a] \in RunRecord
      BY DEF RunOK
    <3>2. r \in RunRecord
      BY <3>1, Labels DEF RunRecord
    <3>3. run' = [run EXCEPT ![a] = r]
      BY <1>17 DEF StartBackground
    <3> HIDE DEF r
    <3> QED
      BY <3>2, <3>3, RunUpdate
  <2> QED
    BY <1>17, <2>1 DEF StoreOK, StartBackground, redisVars, dbVars, procVars
<1>18. ASSUME NEW a \in Attempts, BackgroundEnds(a)
      PROVE  RunOK' /\ StoreOK'
  <2>1. RunOK'
    BY <1>18, GotoRun, QuitRun DEF BackgroundEnds, PCs, DispatchPC
  <2> QED
    BY <1>18, <2>1 DEF StoreOK, BackgroundEnds, redisVars, dbVars, procVars
<1>19. ASSUME NEW a \in Attempts, BootGet(a)
      PROVE  RunOK' /\ StoreOK'
  <2>1. RunOK'
    <3> DEFINE n == IF lock.owner \in {NoProc, run[a].proc} THEN "get" ELSE "bootCheck"
               r == [run[a] EXCEPT !.seen = lock, !.pc = n]
    <3>1. n \in PCs
      BY Labels
    <3>2. run' = [run EXCEPT ![a] = r]
      BY <1>19 DEF BootGet
    <3> HIDE DEF n
    <3>3. run[a] \in RunRecord /\ lock \in Locks
      BY DEF RunOK, StoreOK
    <3>4. r \in RunRecord
      BY <3>1, <3>3, Labels DEF RunRecord
    <3> HIDE DEF r
    <3> QED
      BY <3>2, <3>4, RunUpdate
  <2> QED
    BY <1>19, <2>1 DEF StoreOK, BootGet, redisVars, dbVars, procVars
<1>20. ASSUME NEW a \in Attempts, CheckOwnerAlive(a, "bootCheck", "get")
      PROVE  RunOK' /\ StoreOK'
  <2>1. RunOK'
    BY <1>20, GotoRun, QuitRun DEF CheckOwnerAlive, PCs, DispatchPC
  <2> QED
    BY <1>20, <2>1 DEF StoreOK, CheckOwnerAlive, redisVars, dbVars, procVars
<1>21. ASSUME NEW a \in Attempts, CheckOwnerAlive(a, "check", "steal")
      PROVE  RunOK' /\ StoreOK'
  <2>1. RunOK'
    BY <1>21, GotoRun, QuitRun DEF CheckOwnerAlive, PCs, DispatchPC
  <2> QED
    BY <1>21, <2>1 DEF StoreOK, CheckOwnerAlive, redisVars, dbVars, procVars
<1>22. ASSUME NEW a \in Attempts, CheckOwnerAlive(a, "recheck", "resteal")
      PROVE  RunOK' /\ StoreOK'
  <2>1. RunOK'
    BY <1>22, GotoRun, QuitRun DEF CheckOwnerAlive, PCs, DispatchPC
  <2> QED
    BY <1>22, <2>1 DEF StoreOK, CheckOwnerAlive, redisVars, dbVars, procVars
<1>23. ASSUME NEW a \in Attempts, CheckOwnerAlive(a, "acheck", "asteal")
      PROVE  RunOK' /\ StoreOK'
  <2>1. RunOK'
    BY <1>23, GotoRun, QuitRun DEF CheckOwnerAlive, PCs, DispatchPC
  <2> QED
    BY <1>23, <2>1 DEF StoreOK, CheckOwnerAlive, redisVars, dbVars, procVars
<1>24. ASSUME NEW a \in Attempts, GetLockOwner(a, "get", "route", "acquire")
      PROVE  RunOK' /\ StoreOK'
  <2>1. RunOK'
    <3> DEFINE n == IF lock = Free THEN "acquire" ELSE "route"
               r == [run[a] EXCEPT !.seen = lock, !.pc = n]
    <3>1. n \in PCs
      BY Labels
    <3>2. run' = [run EXCEPT ![a] = r]
      BY <1>24 DEF GetLockOwner
    <3> HIDE DEF n
    <3>3. run[a] \in RunRecord /\ lock \in Locks
      BY DEF RunOK, StoreOK
    <3>4. r \in RunRecord
      BY <3>1, <3>3, Labels DEF RunRecord
    <3> HIDE DEF r
    <3> QED
      BY <3>2, <3>4, RunUpdate
  <2> QED
    BY <1>24, <2>1 DEF StoreOK, GetLockOwner, redisVars, dbVars, procVars
<1>25. ASSUME NEW a \in Attempts, GetLockOwner(a, "reget", "recheck", "reacquire")
      PROVE  RunOK' /\ StoreOK'
  <2>1. RunOK'
    <3> DEFINE n == IF lock = Free THEN "reacquire" ELSE "recheck"
               r == [run[a] EXCEPT !.seen = lock, !.pc = n]
    <3>1. n \in PCs
      BY Labels
    <3>2. run' = [run EXCEPT ![a] = r]
      BY <1>25 DEF GetLockOwner
    <3> HIDE DEF n
    <3>3. run[a] \in RunRecord /\ lock \in Locks
      BY DEF RunOK, StoreOK
    <3>4. r \in RunRecord
      BY <3>1, <3>3, Labels DEF RunRecord
    <3> HIDE DEF r
    <3> QED
      BY <3>2, <3>4, RunUpdate
  <2> QED
    BY <1>25, <2>1 DEF StoreOK, GetLockOwner, redisVars, dbVars, procVars
<1>26. ASSUME NEW a \in Attempts, GetLockOwner(a, "aget", "acheck", "spawn")
      PROVE  RunOK' /\ StoreOK'
  <2>1. RunOK'
    <3> DEFINE n == IF lock = Free THEN "spawn" ELSE "acheck"
               r == [run[a] EXCEPT !.seen = lock, !.pc = n]
    <3>1. n \in PCs
      BY Labels
    <3>2. run' = [run EXCEPT ![a] = r]
      BY <1>26 DEF GetLockOwner
    <3> HIDE DEF n
    <3>3. run[a] \in RunRecord /\ lock \in Locks
      BY DEF RunOK, StoreOK
    <3>4. r \in RunRecord
      BY <3>1, <3>3, Labels DEF RunRecord
    <3> HIDE DEF r
    <3> QED
      BY <3>2, <3>4, RunUpdate
  <2> QED
    BY <1>26, <2>1 DEF StoreOK, GetLockOwner, redisVars, dbVars, procVars
<1>27. ASSUME NEW a \in Attempts, AcquireLock(a, "acquire", "aget")
      PROVE  RunOK' /\ StoreOK'
  <2>1. RunOK'
    BY <1>27, <1>0, GrantRun, GotoRun, QuitRun DEF AcquireLock, NoGrant, PCs, DispatchPC
  <2> QED
    BY <1>27, <2>1, GrantStore, <1>0 DEF StoreOK, AcquireLock, NoGrant, At, Alive, redisVars, dbVars, procVars
<1>28. ASSUME NEW a \in Attempts, AcquireLock(a, "reacquire", "over")
      PROVE  RunOK' /\ StoreOK'
  <2>1. RunOK'
    BY <1>28, <1>0, GrantRun, GotoRun, QuitRun DEF AcquireLock, NoGrant, PCs, DispatchPC
  <2> QED
    BY <1>28, <2>1, GrantStore, <1>0 DEF StoreOK, AcquireLock, NoGrant, At, Alive, redisVars, dbVars, procVars
<1>29. ASSUME NEW a \in Attempts, StealLock(a, "steal", "reget")
      PROVE  RunOK' /\ StoreOK'
  <2>1. RunOK'
    BY <1>29, <1>0, GrantRun, GotoRun, QuitRun DEF StealLock, NoGrant, PCs, DispatchPC
  <2> QED
    BY <1>29, <2>1, GrantStore, <1>0 DEF StoreOK, StealLock, NoGrant, At, Alive, redisVars, dbVars, procVars
<1>30. ASSUME NEW a \in Attempts, StealLock(a, "resteal", "over")
      PROVE  RunOK' /\ StoreOK'
  <2>1. RunOK'
    BY <1>30, <1>0, GrantRun, GotoRun, QuitRun DEF StealLock, NoGrant, PCs, DispatchPC
  <2> QED
    BY <1>30, <2>1, GrantStore, <1>0 DEF StoreOK, StealLock, NoGrant, At, Alive, redisVars, dbVars, procVars
<1>31. ASSUME NEW a \in Attempts, StealLock(a, "asteal", "over")
      PROVE  RunOK' /\ StoreOK'
  <2>1. RunOK'
    BY <1>31, <1>0, GrantRun, GotoRun, QuitRun DEF StealLock, NoGrant, PCs, DispatchPC
  <2> QED
    BY <1>31, <2>1, GrantStore, <1>0 DEF StoreOK, StealLock, NoGrant, At, Alive, redisVars, dbVars, procVars
<1>32. ASSUME NEW a \in Attempts, Route(a)
      PROVE  RunOK' /\ StoreOK'
  <2>1. RunOK'
    BY <1>32, GotoRun, QuitRun DEF Route, RunOK, RunRecord, Locks, PCs, DispatchPC
  <2> QED
    BY <1>32, <2>1 DEF StoreOK, Route, redisVars, dbVars, procVars
<1>33. ASSUME NEW a \in Attempts, Spawn(a)
      PROVE  RunOK' /\ StoreOK'
  <2>1. RunOK'
    <3> DEFINE r == [run[a] EXCEPT !.pc = "spawned", !.seen = Free]
    <3>1. run[a] \in RunRecord
      BY DEF RunOK
    <3>2. r \in RunRecord
      BY <3>1, Labels DEF RunRecord, Free, Locks
    <3>3. run' = [run EXCEPT ![a] = r]
      BY <1>33 DEF Spawn
    <3> HIDE DEF r
    <3> QED
      BY <3>2, <3>3, RunUpdate
  <2> QED
    BY <1>33, <2>1 DEF StoreOK, Spawn, redisVars, dbVars, procVars
<1>34. ASSUME NEW a \in Attempts, StartRun(a)
      PROVE  RunOK' /\ StoreOK'
  <2>1. RunOK'
    <3> DEFINE n == IF run[a].resume THEN 3 * ckpt ELSE 0
               r == [run[a] EXCEPT !.pc = "running", !.pos = n]
    <3>1. n \in Nat
      BY DEF StoreOK
    <3>2. run' = [run EXCEPT ![a] = r]
      BY <1>34 DEF StartRun
    <3> HIDE DEF n
    <3>3. run[a] \in RunRecord
      BY DEF RunOK
    <3>4. r \in RunRecord
      BY <3>1, <3>3, Labels DEF RunRecord
    <3> HIDE DEF r
    <3> QED
      BY <3>2, <3>4, RunUpdate
  <2> QED
    BY <1>34, <2>1 DEF StoreOK, StartRun, Statuses, redisVars, dbVars, procVars
<1>35. ASSUME NEW a \in Attempts, EnterNode(a)
      PROVE  RunOK' /\ StoreOK'
  <2>1. RunOK'
    <3> DEFINE n == run[a].pos + 1
               r == [run[a] EXCEPT !.pos = n, !.paused = FALSE]
    <3>1. n \in Nat
      BY DEF RunOK, RunRecord
    <3>2. run' = [run EXCEPT ![a] = r]
      BY <1>35 DEF EnterNode
    <3> HIDE DEF n
    <3>3. run[a] \in RunRecord
      BY DEF RunOK
    <3>4. r \in RunRecord
      BY <3>1, <3>3 DEF RunRecord
    <3> HIDE DEF r
    <3> QED
      BY <3>2, <3>4, RunUpdate
  <2>2. rows' \in [1..NumNodes -> RowRecord]
    BY <1>35, UpsertedRow DEF EnterNode, At, Alive, RunOK, StoreOK
  <2> QED
    BY <1>35, <2>1, <2>2 DEF EnterNode, StoreOK, redisVars, dbVars, procVars
<1>36. ASSUME NEW a \in Attempts, Checkpoint(a)
      PROVE  RunOK' /\ StoreOK'
  <2>1. RunOK'
    <3> DEFINE n == run[a].pos + 1
               r == [run[a] EXCEPT !.pos = n]
    <3>1. n \in Nat
      BY DEF RunOK, RunRecord
    <3>2. run' = [run EXCEPT ![a] = r]
      BY <1>36 DEF Checkpoint
    <3> HIDE DEF n
    <3>3. run[a] \in RunRecord
      BY DEF RunOK
    <3>4. r \in RunRecord
      BY <3>1, <3>3 DEF RunRecord
    <3> HIDE DEF r
    <3> QED
      BY <3>2, <3>4, RunUpdate
  <2>2. run[a].pos \in Nat
    BY DEF RunOK, RunRecord
  <2>3. ckpt' \in Nat
    BY <1>36, <2>2 DEF Checkpoint, Current
  <2> QED
    BY <1>36, <2>1, <2>3 DEF Checkpoint, StoreOK, redisVars, dbVars, procVars
<1>37. ASSUME NEW a \in Attempts, PauseRun(a)
      PROVE  RunOK' /\ StoreOK'
  <2>1. RunOK'
    BY <1>37, FinallyRun DEF PauseRun
  <2>2. rows' \in [1..NumNodes -> RowRecord]
    BY <1>37, PausedRow DEF PauseRun, At, Alive, RunOK, StoreOK
  <2> QED
    BY <1>37, <2>1, <2>2 DEF PauseRun, StoreOK, redisVars, dbVars, procVars
<1>38. ASSUME NEW a \in Attempts, StopRun(a)
      PROVE  RunOK' /\ StoreOK'
  <2>1. RunOK'
    BY <1>38, FinallyRun DEF StopRun
  <2> QED
    BY <1>38, <2>1 DEF StoreOK, StopRun, redisVars, dbVars, procVars
<1>39. ASSUME NEW a \in Attempts, ReadLeaf(a)
      PROVE  RunOK' /\ StoreOK'
  <2>1. RunOK'
    <3> DEFINE n == IF rows[NumNodes].st \in Terminal THEN rows[NumNodes].st ELSE "completed"
               r == [run[a] EXCEPT !.pc = "ending", !.leaf = n]
    <3>1. n \in Statuses
      BY DEF Statuses, Terminal
    <3>2. run' = [run EXCEPT ![a] = r]
      BY <1>39 DEF ReadLeaf
    <3> HIDE DEF n
    <3>3. run[a] \in RunRecord
      BY DEF RunOK
    <3>4. r \in RunRecord
      BY <3>1, <3>3, Labels DEF RunRecord
    <3> HIDE DEF r
    <3> QED
      BY <3>2, <3>4, RunUpdate
  <2> QED
    BY <1>39, <2>1 DEF StoreOK, ReadLeaf, redisVars, dbVars, procVars
<1>40. ASSUME NEW a \in Attempts, FinishRun(a)
      PROVE  RunOK' /\ StoreOK'
  <2>1. RunOK'
    BY <1>40, FinallyRun DEF FinishRun
  <2> QED
    BY <1>40, <2>1 DEF StoreOK, FinishRun, ThreadEnds, RunOK, RunRecord, redisVars, dbVars, procVars
<1>41. ASSUME NEW a \in Attempts, FailRun(a)
      PROVE  RunOK' /\ StoreOK'
  <2>1. RunOK'
    BY <1>41, FinallyRun, GotoRun DEF FailRun, PCs, RunPC, TryPC
  <2> QED
    BY <1>41, <2>1 DEF StoreOK, FailRun, ThreadEnds, Statuses, Terminal, redisVars, dbVars, procVars
<1>42. ASSUME NEW a \in Attempts, FailNodes(a)
      PROVE  RunOK' /\ StoreOK'
  <2>1. RunOK'
    BY <1>42, FinallyRun DEF FailNodes
  <2> QED
    BY <1>42, <2>1, SweptRows DEF StoreOK, FailNodes, redisVars, dbVars, procVars
<1>43. ASSUME NEW a \in Attempts, ClearCancelFlag(a)
      PROVE  RunOK' /\ StoreOK'
  <2>1. RunOK'
    BY <1>43, GotoRun DEF ClearCancelFlag, PCs, RunPC
  <2> QED
    BY <1>43, <2>1 DEF StoreOK, ClearCancelFlag, redisVars, dbVars, procVars
<1>44. ASSUME NEW a \in Attempts, ReleaseLock(a)
      PROVE  RunOK' /\ StoreOK'
  <2>1. RunOK'
    BY <1>44, GotoRun DEF ReleaseLock, PCs, RunPC
  <2> QED
    BY <1>44, <2>1 DEF StoreOK, ReleaseLock, Free, Locks, redisVars, dbVars, procVars
<1>45. ASSUME NEW a \in Attempts, CleanupZombie(a)
      PROVE  RunOK' /\ StoreOK'
  <2>1. RunOK'
    BY <1>45, GotoRun DEF CleanupZombie, PCs, RunPC
  <2> QED
    BY <1>45, <2>1 DEF StoreOK, CleanupZombie, redisVars, dbVars, procVars
<1>46. ASSUME NEW a \in Attempts, FinallyRaises(a)
      PROVE  RunOK' /\ StoreOK'
  <2>1. RunOK'
    BY <1>46, GotoRun DEF FinallyRaises, PCs, RunPC
  <2> QED
    BY <1>46, <2>1 DEF StoreOK, FinallyRaises, redisVars, dbVars, procVars
<1>47. ASSUME NEW a \in Attempts, DoneCallback(a)
      PROVE  RunOK' /\ StoreOK'
  <2>1. RunOK'
    BY <1>47, OverRecord, RunUpdate DEF DoneCallback
  <2> QED
    BY <1>47, <2>1 DEF StoreOK, DoneCallback, redisVars, dbVars, procVars
<1>48. ASSUME NEW a \in Attempts, BackgroundCallback(a)
      PROVE  RunOK' /\ StoreOK'
  <2>1. RunOK'
    <3> DEFINE r == [run[a] EXCEPT !.bg = FALSE]
    <3>1. run[a] \in RunRecord
      BY DEF RunOK
    <3>2. r \in RunRecord
      BY <3>1 DEF RunRecord
    <3>3. run' = [run EXCEPT ![a] = r]
      BY <1>48 DEF BackgroundCallback
    <3> HIDE DEF r
    <3> QED
      BY <3>2, <3>3, RunUpdate
  <2> QED
    BY <1>48, <2>1 DEF StoreOK, BackgroundCallback, redisVars, dbVars, procVars
<1>49. ASSUME NEW p \in Procs, PauseFlags(p)
      PROVE  RunOK' /\ StoreOK'
  <2>1. ASSUME NEW b \in Attempts PROVE run'[b] \in RunRecord
    <3> DEFINE paused == run[b].paused \/ InNode(b)
    <3>1. run'[b] = [run[b] EXCEPT !.paused = paused]
      BY <1>49 DEF PauseFlags
    <3>2. run[b] \in RunRecord /\ run[b].paused \in BOOLEAN
      BY DEF RunOK, RunRecord
    <3>3. paused \in BOOLEAN
      BY <3>2 DEF InNode
    <3> HIDE DEF paused
    <3> QED
      BY <3>1, <3>2, <3>3 DEF RunRecord
  <2>2. RunOK'
    BY <1>49, <2>1 DEF PauseFlags, RunOK
  <2> QED
    BY <1>49, <2>2 DEF StoreOK, PauseFlags, Becomes, Phases, redisVars, dbVars, procVars
<1>50. ASSUME NEW p \in Procs, PauseNodes(p)
      PROVE  RunOK' /\ StoreOK'
  <2>1. RunOK'
    BY <1>50 DEF PauseNodes, RunOK
  <2>2. ASSUME NEW k \in 1..NumNodes
        PROVE  (IF rows[k].st = "running" THEN [rows[k] EXCEPT !.st = "paused", !.srv = TRUE]
                                          ELSE rows[k]) \in RowRecord
    <3>1. rows[k] \in RowRecord /\ "paused" \in Active
      BY DEF StoreOK, Active
    <3> QED
      BY <3>1 DEF RowRecord
  <2>3. rows' \in [1..NumNodes -> RowRecord]
    BY <1>50, <2>2 DEF PauseNodes
  <2> QED
    BY <1>50, <2>1, <2>3 DEF StoreOK, PauseNodes, Becomes, Phases, redisVars, dbVars, procVars
<1>51. ASSUME NEW a \in Attempts, CompleteNode(a)
      PROVE  RunOK' /\ StoreOK'
  <2> DEFINE n == run[a].pos + 1
             r == [run[a] EXCEPT !.pos = n, !.paused = FALSE]
  <2>1. n \in Nat
    BY DEF RunOK, RunRecord
  <2>2. run' = [run EXCEPT ![a] = r] \/ Goto(a, "failing")
    BY <1>51 DEF CompleteNode
  <2> HIDE DEF n
  <2>3. r \in RunRecord
    BY <2>1 DEF RunOK, RunRecord
  <2>4. "failing" \in PCs
    BY DEF PCs, RunPC, TryPC
  <2> HIDE DEF r
  <2>5. RunOK'
    BY <2>2, <2>3, <2>4, RunUpdate, GotoRun
  <2>6. PICK s \in {"completed", "failed"} :
          rows' = [rows EXCEPT ![Current(a)] = Completed(@, run[a], s)]
    BY <1>51 DEF CompleteNode
  <2>7. rows' \in [1..NumNodes -> RowRecord]
    BY <1>51, <2>6, CompletedRow DEF CompleteNode, At, Alive, StoreOK
  <2> QED
    BY <1>51, <2>5, <2>7 DEF CompleteNode, StoreOK, redisVars, dbVars, procVars
<1>52. ASSUME NEW a \in Attempts, DeliverCancel(a)
      PROVE  RunOK' /\ StoreOK'
  <2>1. RunOK'
    <3>1. CASE run[a].pc \in TryPC
      BY <1>52, <3>1, FinallyRun DEF DeliverCancel, Finally
    <3>2. CASE run[a].pc \notin TryPC
      <4> DEFINE r == [run[a] EXCEPT !.pc = "ended", !.cancelled = FALSE]
      <4>1. run' = [run EXCEPT ![a] = r]
        BY <1>52, <3>2 DEF DeliverCancel
      <4>2. run[a] \in RunRecord
        BY DEF RunOK
      <4>3. r \in RunRecord
        BY <4>2, Labels DEF RunRecord
      <4> HIDE DEF r
      <4> QED
        BY <4>1, <4>3, RunUpdate
    <3> QED
      BY <3>1, <3>2
  <2> QED
    BY <1>52, <2>1 DEF DeliverCancel, StoreOK, redisVars, dbVars, procVars
<1>53. ASSUME NEW a \in Attempts, RenewFails(a)
      PROVE  RunOK' /\ StoreOK'
  <2>1. ASSUME NEW b \in Attempts PROVE run'[b] \in RunRecord
    <3> DEFINE lost == run[b].lost \/ b = a
               cancelled == run[b].cancelled \/ b \in Aborted(a)
    <3>1. run'[b] = [run[b] EXCEPT !.lost = lost, !.cancelled = cancelled]
      BY <1>53 DEF RenewFails
    <3>2. lost \in BOOLEAN /\ cancelled \in BOOLEAN
      OBVIOUS
    <3> HIDE DEF lost, cancelled
    <3> QED
      BY <3>1, <3>2 DEF RunOK, RunRecord
  <2>2. RunOK'
    BY <1>53, <2>1 DEF RenewFails, RunOK
  <2> QED
    BY <1>53, <2>2 DEF RenewFails, StoreOK, redisVars, dbVars, procVars
<1>54. CASE UNCHANGED vars
  BY <1>54 DEF vars, RunOK, StoreOK, redisVars, dbVars, procVars
<1> QED
  BY <1>1, <1>2, <1>3, <1>4, <1>5, <1>6, <1>7, <1>8, <1>9, <1>10, <1>11, <1>12, <1>13,
     <1>14, <1>15, <1>16, <1>17, <1>18, <1>19, <1>20, <1>21, <1>22, <1>23, <1>24,
     <1>25, <1>26, <1>27, <1>28, <1>29, <1>30, <1>31, <1>32, <1>33, <1>34, <1>35,
     <1>36, <1>37, <1>38, <1>39, <1>40, <1>41, <1>42, <1>43, <1>44, <1>45, <1>46,
     <1>47, <1>48, <1>49, <1>50, <1>51, <1>52, <1>53, <1>54
  DEF Next, Env, Arrive, Step, Request, Dispatch, Run, Crash, Exit

\* The variables keep their types in every behaviour.
THEOREM Typing == Spec => []TypeOK
<1>1. Init => TypeOK
  <2>1. NoRow \in RowRecord /\ Idle \in RunRecord /\ Free \in Locks
    BY DEF NoRow, RowRecord, Idle, RunRecord, Free, Locks, Statuses, PCs
  <2> SUFFICES ASSUME Init PROVE TypeOK
    OBVIOUS
  <2>2. RunOK
    BY <2>1 DEF Init, RunOK
  <2>3. rows \in [1..NumNodes -> RowRecord]
    BY <2>1 DEF Init
  <2>4. status \in Statuses /\ phase \in [Procs -> Phases]
    BY DEF Init, Statuses, Phases
  <2>5. granted \in Seq(Procs)
    BY DEF Init
  <2>6. StoreOK
    BY <2>1, <2>3, <2>4, <2>5 DEF Init, StoreOK
  <2> QED
    BY <2>2, <2>6, Halves
<1> QED
  BY <1>1, TypeStep, PTL DEF Spec

-----------------------------------------------------------------------------
(* How tokens flow.                                                        *)

\* The coroutine record s follows r: it bears the same token, none, or the
\* one its process read from its own lock.
Inherits(r, s) ==
    /\ \/ s.proc = r.proc /\ s.token = r.token /\ s.epoch = r.epoch
       \/ s.token = 0 /\ s.epoch = 0
       \/ /\ s.proc = r.proc /\ r.seen.owner = r.proc
          /\ s.token = r.seen.token /\ s.epoch = r.seen.epoch
    /\ s.seen \in {r.seen, lock, Free}

RunsFlow == \A b \in Attempts : Inherits(run[b], run'[b])

\* The writer of a row stamps its own token on it, if that is not older, or
\* bears the token of the row.
Stamps(r, old, new) ==
    /\ new.by = r.proc
    /\ \/ r.token >= old.token /\ new.token = r.token /\ new.epoch = r.epoch
       \/ r.token = old.token /\ new.token = old.token /\ new.epoch = old.epoch

SameStamp(old, new) == new.by = old.by /\ new.token = old.token /\ new.epoch = old.epoch

RowsFlow ==
    \A k \in 1..NumNodes :
        \/ SameStamp(rows[k], rows'[k])
        \/ \E a \in Attempts : Stamps(run[a], rows[k], rows'[k])

Flow == granted' = granted /\ lock' \in {lock, Free} /\ RunsFlow /\ RowsFlow

\* Replacing one coroutine by one that inherits from it.
LEMMA UpdateFlow ==
    ASSUME RunOK, NEW a \in Attempts, NEW r, Inherits(run[a], r),
           run' = [run EXCEPT ![a] = r]
    PROVE  RunsFlow
BY DEF RunOK, RunsFlow, Inherits

\* Coroutines that stay as they are.
LEMMA SameFlow == ASSUME UNCHANGED run PROVE RunsFlow
BY DEF RunsFlow, Inherits

\* Moving on to a label.
LEMMA GotoFlow == ASSUME RunOK, NEW a \in Attempts, NEW l, Goto(a, l) PROVE RunsFlow
<1> DEFINE r == [run[a] EXCEPT !.pc = l]
<1>1. Inherits(run[a], r)
  BY DEF RunOK, RunRecord, Inherits
<1>2. run' = [run EXCEPT ![a] = r]
  BY DEF Goto
<1> HIDE DEF r
<1> QED
  BY <1>1, <1>2, UpdateFlow

\* Ending a request.
LEMMA QuitFlow == ASSUME RunOK, NEW a \in Attempts, Quit(a) PROVE RunsFlow
<1>1. Inherits(run[a], Left(run[a]))
  BY DEF RunOK, RunRecord, Inherits, Left, Over, Idle
<1> QED
  BY <1>1, UpdateFlow DEF Quit

\* Leaving the try block of _run_graph.
LEMMA FinallyFlow == ASSUME RunOK, NEW a \in Attempts, Finally(a) PROVE RunsFlow
<1>1. Inherits(run[a], Unwound(run[a]))
  BY DEF RunOK, RunRecord, Inherits, Unwound
<1> QED
  BY <1>1, UpdateFlow DEF Finally

\* Starting a request: it bears no token.
LEMMA EnterFlow ==
    ASSUME RunOK, NEW a \in Attempts, NEW p, NEW l, NEW r, Enter(a, p, l, r)
    PROVE  RunsFlow
BY DEF RunOK, Enter, RunsFlow, Inherits, Idle

\* Rows that stay as they are, or change their status only.
LEMMA StatusFlow ==
    ASSUME StoreOK, \A k \in 1..NumNodes : SameStamp(rows[k], rows'[k])
    PROVE  RowsFlow
BY DEF RowsFlow

\* The bulk update of a cancelled or failed thread.
LEMMA SweptFlow == ASSUME StoreOK, NEW s, rows' = Swept(s) PROVE RowsFlow
BY DEF StoreOK, Swept, RowsFlow, SameStamp, RowRecord

\* upsert_node stamps the row or leaves it alone.
LEMMA UpsertedFlow ==
    ASSUME StoreOK, RunOK, NEW a \in Attempts, NEW k,
           rows' = [rows EXCEPT ![k] = Upserted(@, run[a])]
    PROVE  RowsFlow
<1>1. Upserted(rows[k], run[a]) = rows[k] \/ k \notin 1..NumNodes
      \/ Stamps(run[a], rows[k], Upserted(rows[k], run[a]))
  BY DEF StoreOK, RunOK, RunRecord, RowRecord, Upserted, Stamps
<1> QED
  BY <1>1 DEF StoreOK, RowsFlow, SameStamp

\* complete_node needs the token of the row.
LEMMA CompletedFlow ==
    ASSUME StoreOK, NEW a \in Attempts, NEW k, NEW s,
           rows' = [rows EXCEPT ![k] = Completed(@, run[a], s)]
    PROVE  RowsFlow
<1>1. Completed(rows[k], run[a], s) = rows[k] \/ k \notin 1..NumNodes
      \/ Stamps(run[a], rows[k], Completed(rows[k], run[a], s))
  BY DEF StoreOK, RowRecord, Completed, Stamps
<1> QED
  BY <1>1 DEF StoreOK, RowsFlow, SameStamp

\* pause_node needs the token of the row.
LEMMA PausedFlow ==
    ASSUME StoreOK, NEW a \in Attempts, NEW k,
           rows' = [rows EXCEPT ![k] = Paused(@, run[a])]
    PROVE  RowsFlow
<1>1. Paused(rows[k], run[a]) = rows[k] \/ k \notin 1..NumNodes
      \/ Stamps(run[a], rows[k], Paused(rows[k], run[a]))
  BY DEF StoreOK, RowRecord, Paused, Stamps
<1> QED
  BY <1>1 DEF StoreOK, RowsFlow, SameStamp

\* A step grants the lock or lets the tokens flow.
LEMMA TokenFlow ==
    ASSUME TypeOK, [Next]_vars
    PROVE  \/ Flow /\ (counter' = counter \/ "counterExpiry" \in Events)
           \/ \E a \in Attempts : run[a].proc \in Procs /\ Grant(a) /\ UNCHANGED rows
<1> DEFINE Flows == Flow /\ counter' = counter
<1>0. RunOK /\ StoreOK
  BY Halves
<1>a. ASSUME UNCHANGED rows PROVE RowsFlow
  BY <1>a, <1>0, StatusFlow DEF SameStamp
<1>1. ASSUME NEW a \in Attempts, NEW p \in Procs, SubmitQuery(a, p) PROVE Flows
  BY <1>1, <1>0, <1>a, EnterFlow DEF Flow, SubmitQuery, redisVars, dbVars, procVars
<1>2. ASSUME NEW a \in Attempts, NEW p \in Procs, AckQuery(a, p) PROVE Flows
  BY <1>2, <1>0, <1>a, EnterFlow DEF Flow, AckQuery, redisVars, dbVars, procVars
<1>3. ASSUME NEW a \in Attempts, NEW p \in Procs, ResumeQuery(a, p) PROVE Flows
  BY <1>3, <1>0, <1>a, EnterFlow DEF Flow, ResumeQuery, redisVars, dbVars, procVars
<1>4. ASSUME NEW a \in Attempts, NEW p \in Procs, CancelQuery(a, p) PROVE Flows
  BY <1>4, <1>0, <1>a, EnterFlow DEF Flow, CancelQuery, redisVars, dbVars, procVars
<1>5. ASSUME NEW a \in Attempts, NEW p \in Procs, RetryTask(a, p) PROVE Flows
  BY <1>5, <1>0, <1>a, EnterFlow DEF Flow, RetryTask, redisVars, dbVars, procVars
<1>6. ASSUME NEW a \in Attempts, NEW p \in Procs, BootRecover(a, p) PROVE Flows
  BY <1>6, <1>0, <1>a, EnterFlow DEF Flow, BootRecover, redisVars, dbVars, procVars
<1>7. ASSUME NEW p \in Procs, BootIdle(p) PROVE Flows
  BY <1>7, <1>0, <1>a, SameFlow DEF Flow, BootIdle, redisVars, dbVars, procVars
<1>8. ASSUME NEW p \in Procs, BootDone(p) PROVE Flows
  BY <1>8, <1>0, <1>a, SameFlow DEF Flow, BootDone, redisVars, dbVars, procVars
<1>9. ASSUME NEW p \in Procs, Shutdown(p) PROVE Flows
  BY <1>9, <1>0, <1>a, SameFlow DEF Flow, Shutdown, redisVars, dbVars, procVars
<1>10. ASSUME LockExpires PROVE Flows
  BY <1>10, <1>0, <1>a, SameFlow DEF Flow, LockExpires, redisVars, dbVars, procVars
<1>11. ASSUME NEW a \in Attempts, CancelNodes(a) PROVE Flows
  BY <1>11, <1>0, SweptFlow, GotoFlow DEF Flow, CancelNodes, redisVars, dbVars, procVars
<1>12. ASSUME NEW a \in Attempts, CancelThread(a) PROVE Flows
  BY <1>12, <1>0, <1>a, QuitFlow DEF Flow, CancelThread, redisVars, dbVars, procVars
<1>13. ASSUME NEW a \in Attempts, BackgroundEnds(a) PROVE Flows
  BY <1>13, <1>0, <1>a, QuitFlow, GotoFlow DEF Flow, BackgroundEnds, redisVars, dbVars, procVars
<1>14. ASSUME NEW a \in Attempts, CheckOwnerAlive(a, "bootCheck", "get") PROVE Flows
  BY <1>14, <1>0, <1>a, QuitFlow, GotoFlow DEF Flow, CheckOwnerAlive, redisVars, dbVars, procVars
<1>15. ASSUME NEW a \in Attempts, CheckOwnerAlive(a, "check", "steal") PROVE Flows
  BY <1>15, <1>0, <1>a, QuitFlow, GotoFlow DEF Flow, CheckOwnerAlive, redisVars, dbVars, procVars
<1>16. ASSUME NEW a \in Attempts, CheckOwnerAlive(a, "recheck", "resteal") PROVE Flows
  BY <1>16, <1>0, <1>a, QuitFlow, GotoFlow DEF Flow, CheckOwnerAlive, redisVars, dbVars, procVars
<1>17. ASSUME NEW a \in Attempts, CheckOwnerAlive(a, "acheck", "asteal") PROVE Flows
  BY <1>17, <1>0, <1>a, QuitFlow, GotoFlow DEF Flow, CheckOwnerAlive, redisVars, dbVars, procVars
<1>18. ASSUME NEW a \in Attempts, StopRun(a) PROVE Flows
  BY <1>18, <1>0, <1>a, FinallyFlow DEF Flow, StopRun, redisVars, dbVars, procVars
<1>19. ASSUME NEW a \in Attempts, FinishRun(a) PROVE Flows
  BY <1>19, <1>0, <1>a, FinallyFlow DEF Flow, FinishRun, redisVars, dbVars, procVars
<1>20. ASSUME NEW a \in Attempts, FailRun(a) PROVE Flows
  BY <1>20, <1>0, <1>a, FinallyFlow, GotoFlow DEF Flow, FailRun, redisVars, dbVars, procVars
<1>21. ASSUME NEW a \in Attempts, FailNodes(a) PROVE Flows
  BY <1>21, <1>0, SweptFlow, FinallyFlow DEF Flow, FailNodes, redisVars, dbVars, procVars
<1>22. ASSUME NEW a \in Attempts, ClearCancelFlag(a) PROVE Flows
  BY <1>22, <1>0, <1>a, GotoFlow DEF Flow, ClearCancelFlag, redisVars, dbVars, procVars
<1>23. ASSUME NEW a \in Attempts, ReleaseLock(a) PROVE Flows
  BY <1>23, <1>0, <1>a, GotoFlow DEF Flow, ReleaseLock, redisVars, dbVars, procVars
<1>24. ASSUME NEW a \in Attempts, CleanupZombie(a) PROVE Flows
  BY <1>24, <1>0, <1>a, GotoFlow DEF Flow, CleanupZombie, redisVars, dbVars, procVars
<1>25. ASSUME NEW a \in Attempts, FinallyRaises(a) PROVE Flows
  BY <1>25, <1>0, <1>a, GotoFlow DEF Flow, FinallyRaises, redisVars, dbVars, procVars
<1>26. ASSUME NEW a \in Attempts, PauseRun(a) PROVE Flows
  BY <1>26, <1>0, PausedFlow, FinallyFlow DEF Flow, PauseRun, redisVars, dbVars, procVars
<1>27. ASSUME NEW a \in Attempts, StartBackground(a) PROVE Flows
  <2> DEFINE r == [run[a] EXCEPT !.pc = "retry", !.bg = TRUE]
  <2>1. Inherits(run[a], r)
    BY <1>0 DEF Inherits, RunOK, RunRecord
  <2>2. run' = [run EXCEPT ![a] = r]
    BY <1>27 DEF StartBackground
  <2> HIDE DEF r
  <2>3. RunsFlow
    BY <1>0, <2>1, <2>2, UpdateFlow
  <2> QED
    BY <1>27, <1>0, <2>3, <1>a DEF Flow, StartBackground, redisVars, dbVars, procVars
<1>28. ASSUME NEW a \in Attempts, BootGet(a) PROVE Flows
  <2> DEFINE r == [run[a] EXCEPT !.seen = lock, !.pc = IF lock.owner \in {NoProc, run[a].proc}
                                                        THEN "get" ELSE "bootCheck"]
  <2>1. Inherits(run[a], r)
    BY <1>0 DEF Inherits, RunOK, RunRecord
  <2>2. run' = [run EXCEPT ![a] = r]
    BY <1>28 DEF BootGet
  <2> HIDE DEF r
  <2>3. RunsFlow
    BY <1>0, <2>1, <2>2, UpdateFlow
  <2> QED
    BY <1>28, <1>0, <2>3, <1>a DEF Flow, BootGet, redisVars, dbVars, procVars
<1>29. ASSUME NEW a \in Attempts, GetLockOwner(a, "get", "route", "acquire") PROVE Flows
  <2> DEFINE r == [run[a] EXCEPT !.seen = lock, !.pc = IF lock = Free THEN "acquire" ELSE "route"]
  <2>1. Inherits(run[a], r)
    BY <1>0 DEF Inherits, RunOK, RunRecord
  <2>2. run' = [run EXCEPT ![a] = r]
    BY <1>29 DEF GetLockOwner
  <2> HIDE DEF r
  <2>3. RunsFlow
    BY <1>0, <2>1, <2>2, UpdateFlow
  <2> QED
    BY <1>29, <1>0, <2>3, <1>a DEF Flow, GetLockOwner, redisVars, dbVars, procVars
<1>30. ASSUME NEW a \in Attempts, GetLockOwner(a, "reget", "recheck", "reacquire") PROVE Flows
  <2> DEFINE r == [run[a] EXCEPT !.seen = lock, !.pc = IF lock = Free THEN "reacquire" ELSE "recheck"]
  <2>1. Inherits(run[a], r)
    BY <1>0 DEF Inherits, RunOK, RunRecord
  <2>2. run' = [run EXCEPT ![a] = r]
    BY <1>30 DEF GetLockOwner
  <2> HIDE DEF r
  <2>3. RunsFlow
    BY <1>0, <2>1, <2>2, UpdateFlow
  <2> QED
    BY <1>30, <1>0, <2>3, <1>a DEF Flow, GetLockOwner, redisVars, dbVars, procVars
<1>31. ASSUME NEW a \in Attempts, GetLockOwner(a, "aget", "acheck", "spawn") PROVE Flows
  <2> DEFINE r == [run[a] EXCEPT !.seen = lock, !.pc = IF lock = Free THEN "spawn" ELSE "acheck"]
  <2>1. Inherits(run[a], r)
    BY <1>0 DEF Inherits, RunOK, RunRecord
  <2>2. run' = [run EXCEPT ![a] = r]
    BY <1>31 DEF GetLockOwner
  <2> HIDE DEF r
  <2>3. RunsFlow
    BY <1>0, <2>1, <2>2, UpdateFlow
  <2> QED
    BY <1>31, <1>0, <2>3, <1>a DEF Flow, GetLockOwner, redisVars, dbVars, procVars
<1>32. ASSUME NEW a \in Attempts, Spawn(a) PROVE Flows
  <2> DEFINE r == [run[a] EXCEPT !.pc = "spawned", !.seen = Free]
  <2>1. Inherits(run[a], r)
    BY <1>0 DEF Inherits, RunOK, RunRecord
  <2>2. run' = [run EXCEPT ![a] = r]
    BY <1>32 DEF Spawn
  <2> HIDE DEF r
  <2>3. RunsFlow
    BY <1>0, <2>1, <2>2, UpdateFlow
  <2> QED
    BY <1>32, <1>0, <2>3, <1>a DEF Flow, Spawn, redisVars, dbVars, procVars
<1>33. ASSUME NEW a \in Attempts, StartRun(a) PROVE Flows
  <2> DEFINE r == [run[a] EXCEPT !.pc = "running",
                                !.pos = IF run[a].resume THEN 3 * ckpt ELSE 0]
  <2>1. Inherits(run[a], r)
    BY <1>0 DEF Inherits, RunOK, RunRecord
  <2>2. run' = [run EXCEPT ![a] = r]
    BY <1>33 DEF StartRun
  <2> HIDE DEF r
  <2>3. RunsFlow
    BY <1>0, <2>1, <2>2, UpdateFlow
  <2> QED
    BY <1>33, <1>0, <2>3, <1>a DEF Flow, StartRun, redisVars, dbVars, procVars
<1>34. ASSUME NEW a \in Attempts, EnterNode(a) PROVE Flows
  <2> DEFINE r == [run[a] EXCEPT !.pos = @ + 1, !.paused = FALSE]
  <2>1. Inherits(run[a], r)
    BY <1>0 DEF Inherits, RunOK, RunRecord
  <2>2. run' = [run EXCEPT ![a] = r]
    BY <1>34 DEF EnterNode
  <2> HIDE DEF r
  <2>3. RunsFlow
    BY <1>0, <2>1, <2>2, UpdateFlow
  <2> QED
    BY <1>34, <1>0, <2>3, UpsertedFlow DEF Flow, EnterNode, redisVars, dbVars, procVars
<1>35. ASSUME NEW a \in Attempts, Checkpoint(a) PROVE Flows
  <2> DEFINE r == [run[a] EXCEPT !.pos = @ + 1]
  <2>1. Inherits(run[a], r)
    BY <1>0 DEF Inherits, RunOK, RunRecord
  <2>2. run' = [run EXCEPT ![a] = r]
    BY <1>35 DEF Checkpoint
  <2> HIDE DEF r
  <2>3. RunsFlow
    BY <1>0, <2>1, <2>2, UpdateFlow
  <2> QED
    BY <1>35, <1>0, <2>3, <1>a DEF Flow, Checkpoint, redisVars, dbVars, procVars
<1>36. ASSUME NEW a \in Attempts, ReadLeaf(a) PROVE Flows
  <2> DEFINE r == [run[a] EXCEPT !.pc = "ending",
                                !.leaf = IF rows[NumNodes].st \in Terminal
                                           THEN rows[NumNodes].st ELSE "completed"]
  <2>1. Inherits(run[a], r)
    BY <1>0 DEF Inherits, RunOK, RunRecord
  <2>2. run' = [run EXCEPT ![a] = r]
    BY <1>36 DEF ReadLeaf
  <2> HIDE DEF r
  <2>3. RunsFlow
    BY <1>0, <2>1, <2>2, UpdateFlow
  <2> QED
    BY <1>36, <1>0, <2>3, <1>a DEF Flow, ReadLeaf, redisVars, dbVars, procVars
<1>37. ASSUME NEW a \in Attempts, DoneCallback(a) PROVE Flows
  <2> DEFINE r == Over
  <2>1. Inherits(run[a], r)
    BY <1>0 DEF Inherits, RunOK, RunRecord, Over, Idle, Free
  <2>2. run' = [run EXCEPT ![a] = r]
    BY <1>37 DEF DoneCallback
  <2> HIDE DEF r
  <2>3. RunsFlow
    BY <1>0, <2>1, <2>2, UpdateFlow
  <2> QED
    BY <1>37, <1>0, <2>3, <1>a DEF Flow, DoneCallback, redisVars, dbVars, procVars
<1>38. ASSUME NEW a \in Attempts, BackgroundCallback(a) PROVE Flows
  <2> DEFINE r == [run[a] EXCEPT !.bg = FALSE]
  <2>1. Inherits(run[a], r)
    BY <1>0 DEF Inherits, RunOK, RunRecord
  <2>2. run' = [run EXCEPT ![a] = r]
    BY <1>38 DEF BackgroundCallback
  <2> HIDE DEF r
  <2>3. RunsFlow
    BY <1>0, <2>1, <2>2, UpdateFlow
  <2> QED
    BY <1>38, <1>0, <2>3, <1>a DEF Flow, BackgroundCallback, redisVars, dbVars, procVars
<1>39. ASSUME NEW a \in Attempts, PauseTask(a) PROVE Flows
  <2> DEFINE r == [run[a] EXCEPT !.paused = TRUE]
  <2>1. Inherits(run[a], r)
    BY <1>0 DEF Inherits, RunOK, RunRecord
  <2>2. run' = [run EXCEPT ![a] = r]
    BY <1>39 DEF PauseTask
  <2> HIDE DEF r
  <2>3. RunsFlow
    BY <1>0, <2>1, <2>2, UpdateFlow
  <2> QED
    BY <1>39, <1>0, <2>3, <1>a DEF Flow, PauseTask, redisVars, dbVars, procVars
<1>40. ASSUME NEW a \in Attempts, DeliverCancel(a) PROVE Flows
  <2> DEFINE r == [run[a] EXCEPT !.pc = "ended", !.cancelled = FALSE]
  <2>1. run' = [run EXCEPT ![a] = r] \/ Finally(a)
    BY <1>40 DEF DeliverCancel, Finally
  <2>2. Inherits(run[a], r)
    BY <1>0 DEF Inherits, RunOK, RunRecord
  <2> HIDE DEF r
  <2>3. RunsFlow
    BY <1>0, <2>1, <2>2, UpdateFlow, FinallyFlow
  <2> QED
    BY <1>40, <1>0, <2>3, <1>a DEF Flow, DeliverCancel, redisVars, dbVars, procVars
<1>41. ASSUME NEW a \in Attempts, RenewFails(a) PROVE Flows
  <2>1. ASSUME NEW b \in Attempts PROVE Inherits(run[b], run'[b])
    <3> DEFINE lost == run[b].lost \/ b = a
               cancelled == run[b].cancelled \/ b \in Aborted(a)
    <3>1. run'[b] = [run[b] EXCEPT !.lost = lost, !.cancelled = cancelled]
      BY <1>41 DEF RenewFails
    <3>2. run[b] \in RunRecord
      BY <1>0 DEF RunOK
    <3> HIDE DEF lost, cancelled
    <3> QED
      BY <3>1, <3>2 DEF Inherits, RunRecord
  <2> QED
    BY <1>41, <1>0, <2>1, <1>a DEF Flow, RunsFlow, RenewFails, redisVars, dbVars, procVars
<1>42. ASSUME NEW a \in Attempts, ResumeNode(a) PROVE Flows
  <2>1. RowsFlow
    BY <1>42, <1>0, StatusFlow DEF ResumeNode, StoreOK, RowRecord, SameStamp
  <2> QED
    BY <1>42, <1>0, <2>1, GotoFlow DEF Flow, ResumeNode, redisVars, dbVars, procVars
<1>43. ASSUME NEW a \in Attempts, CompleteNode(a) PROVE Flows
  <2> DEFINE r == [run[a] EXCEPT !.pos = @ + 1, !.paused = FALSE]
  <2>1. run' = [run EXCEPT ![a] = r] \/ Goto(a, "failing")
    BY <1>43 DEF CompleteNode
  <2>2. Inherits(run[a], r)
    BY <1>0 DEF Inherits, RunOK, RunRecord
  <2> HIDE DEF r
  <2>3. RunsFlow
    BY <1>0, <2>1, <2>2, UpdateFlow, GotoFlow
  <2>4. RowsFlow
    BY <1>43, <1>0, CompletedFlow DEF CompleteNode
  <2> QED
    BY <1>43, <2>3, <2>4 DEF Flow, CompleteNode, redisVars, dbVars, procVars
<1>44. ASSUME NEW p \in Procs, Dies(p) PROVE Flows
  <2>1. RunsFlow
    BY <1>44 DEF Dies, RunsFlow, Inherits, Over, Idle
  <2> QED
    BY <1>44, <2>1, <1>a DEF Flow, Dies, redisVars, dbVars, procVars
<1>45. ASSUME NEW p \in Procs, PauseFlags(p) PROVE Flows
  <2>1. RunsFlow
    BY <1>45, <1>0 DEF PauseFlags, RunsFlow, Inherits, RunOK, RunRecord
  <2> QED
    BY <1>45, <2>1, <1>a DEF Flow, PauseFlags, redisVars, dbVars, procVars
<1>46. ASSUME NEW p \in Procs, PauseNodes(p) PROVE Flows
  <2>1. RowsFlow
    BY <1>46, <1>0, StatusFlow DEF PauseNodes, StoreOK, RowRecord, SameStamp
  <2> QED
    BY <1>46, <2>1, SameFlow DEF Flow, PauseNodes, redisVars, dbVars, procVars
<1>47. ASSUME NEW a \in Attempts, Route(a) PROVE Flows
  <2> DEFINE r == [run[a] EXCEPT !.token = run[a].seen.token,
                                 !.epoch = run[a].seen.epoch, !.pc = "spawn"]
  <2>1. \/ Goto(a, "check") \/ Quit(a)
        \/ run[a].seen.owner = run[a].proc /\ run' = [run EXCEPT ![a] = r]
    BY <1>47 DEF Route
  <2>2. run[a].seen.owner = run[a].proc => Inherits(run[a], r)
    BY <1>0 DEF Inherits, RunOK, RunRecord
  <2> HIDE DEF r
  <2>3. RunsFlow
    BY <1>0, <2>1, <2>2, UpdateFlow, GotoFlow, QuitFlow
  <2> QED
    BY <1>47, <2>3, <1>a DEF Flow, Route, redisVars, dbVars, procVars
<1>48. ASSUME CounterExpires PROVE Flow /\ "counterExpiry" \in Events
  BY <1>48, <1>a, SameFlow DEF Flow, CounterExpires, redisVars, dbVars, procVars
<1>49. ASSUME UNCHANGED vars PROVE Flows
  BY <1>49, <1>a, SameFlow DEF Flow, vars, redisVars, dbVars, procVars
<1>50. ASSUME NEW a \in Attempts, AcquireLock(a, "acquire", "aget")
      PROVE  Flows \/ (run[a].proc \in Procs /\ Grant(a) /\ UNCHANGED rows)
  BY <1>50, <1>0, <1>a, GotoFlow, QuitFlow DEF Flow, NoGrant, AcquireLock, At, Alive, redisVars, dbVars, procVars
<1>51. ASSUME NEW a \in Attempts, AcquireLock(a, "reacquire", "over")
      PROVE  Flows \/ (run[a].proc \in Procs /\ Grant(a) /\ UNCHANGED rows)
  BY <1>51, <1>0, <1>a, GotoFlow, QuitFlow DEF Flow, NoGrant, AcquireLock, At, Alive, redisVars, dbVars, procVars
<1>52. ASSUME NEW a \in Attempts, StealLock(a, "steal", "reget")
      PROVE  Flows \/ (run[a].proc \in Procs /\ Grant(a) /\ UNCHANGED rows)
  BY <1>52, <1>0, <1>a, GotoFlow, QuitFlow DEF Flow, NoGrant, StealLock, At, Alive, redisVars, dbVars, procVars
<1>53. ASSUME NEW a \in Attempts, StealLock(a, "resteal", "over")
      PROVE  Flows \/ (run[a].proc \in Procs /\ Grant(a) /\ UNCHANGED rows)
  BY <1>53, <1>0, <1>a, GotoFlow, QuitFlow DEF Flow, NoGrant, StealLock, At, Alive, redisVars, dbVars, procVars
<1>54. ASSUME NEW a \in Attempts, StealLock(a, "asteal", "over")
      PROVE  Flows \/ (run[a].proc \in Procs /\ Grant(a) /\ UNCHANGED rows)
  BY <1>54, <1>0, <1>a, GotoFlow, QuitFlow DEF Flow, NoGrant, StealLock, At, Alive, redisVars, dbVars, procVars
<1> QED
  BY <1>1, <1>2, <1>3, <1>4, <1>5, <1>6, <1>7, <1>8, <1>9, <1>10, <1>11, <1>12, <1>13,
     <1>14, <1>15, <1>16, <1>17, <1>18, <1>19, <1>20, <1>21, <1>22, <1>23, <1>24,
     <1>25, <1>26, <1>27, <1>28, <1>29, <1>30, <1>31, <1>32, <1>33, <1>34, <1>35,
     <1>36, <1>37, <1>38, <1>39, <1>40, <1>41, <1>42, <1>43, <1>44, <1>45, <1>46,
     <1>47, <1>48, <1>49, <1>50, <1>51, <1>52, <1>53, <1>54
  DEF Next, Env, Arrive, Step, Request, Dispatch, Run, Crash, Exit

-----------------------------------------------------------------------------
(* Tokens are genuine.                                                     *)

\* As long as the fencing counter does not expire, the n-th grant hands out
\* token n: a token names one grant, and so one process.
THEOREM GenuineTokens == "counterExpiry" \notin Events => (Spec => []TokensGenuine)
<1> SUFFICES ASSUME "counterExpiry" \notin Events PROVE Spec => []TokensGenuine
  OBVIOUS
<1>1. Init => TokensGenuine
  BY DEF Init, TokensGenuine, Genuine, Idle, Free, NoRow
<1>2. TypeOK /\ TokensGenuine /\ [Next]_vars => TokensGenuine'
  <2> SUFFICES ASSUME TypeOK, TokensGenuine, [Next]_vars PROVE TokensGenuine'
    OBVIOUS
  <2>1. CASE Flow /\ counter' = counter
    <3>1. Genuine(lock.owner, lock.token, lock.epoch)'
      BY <2>1 DEF Flow, TokensGenuine, Genuine, Free
    <3>2. ASSUME NEW b \in Attempts
          PROVE  /\ Genuine(run[b].proc, run[b].token, run[b].epoch)'
                 /\ Genuine(run[b].seen.owner, run[b].seen.token, run[b].seen.epoch)'
      BY <2>1 DEF Flow, RunsFlow, Inherits, TokensGenuine, Genuine, Free
    <3>3. ASSUME NEW k \in 1..NumNodes
          PROVE  Genuine(rows[k].by, rows[k].token, rows[k].epoch)'
      BY <2>1 DEF Flow, RowsFlow, SameStamp, Stamps, TokensGenuine, Genuine
    <3> QED
      BY <2>1, <3>1, <3>2, <3>3 DEF Flow, TokensGenuine
  <2>2. ASSUME NEW a \in Attempts, run[a].proc \in Procs, Grant(a), UNCHANGED rows
        PROVE  TokensGenuine'
    <3> DEFINE e == Len(granted) + 1
    <3>1. /\ counter' = e /\ granted' = Append(granted, run[a].proc)
          /\ lock' = [owner |-> run[a].proc, token |-> e, epoch |-> e]
      BY <2>2 DEF Grant, TokensGenuine
    <3>2. e \in Nat \ {0} /\ Len(granted') = e /\ granted'[e] = run[a].proc
          /\ \A i \in 1..Len(granted) : i \in 1..e /\ granted'[i] = granted[i]
      BY <2>2, <3>1 DEF TypeOK
    <3>3. ASSUME NEW p, NEW t, NEW x, Genuine(p, t, x)
          PROVE  /\ t = x
                 /\ x > 0 => x \in 1..Len(granted') /\ granted'[x] = p
      BY <3>2, <3>3 DEF Genuine
    <3>4. ASSUME NEW b \in Attempts
          PROVE  /\ Genuine(run[b].proc, run[b].token, run[b].epoch)'
                 /\ Genuine(run[b].seen.owner, run[b].seen.token, run[b].seen.epoch)'
      <4>1. run' = [run EXCEPT ![a].token = e, ![a].epoch = e, ![a].pc = "spawn"]
        BY <2>2 DEF Grant, TokensGenuine
      <4> HIDE DEF e
      <4>2. CASE b = a
        <5>1. /\ run'[b].proc = run[a].proc /\ run'[b].seen = run[a].seen
              /\ run'[b].token = e /\ run'[b].epoch = e
          BY <4>1, <4>2 DEF TypeOK, RunRecord
        <5> QED
          BY <3>2, <3>3, <4>2, <5>1 DEF TokensGenuine, Genuine
      <4>3. CASE b # a
        BY <3>3, <4>1, <4>3 DEF TypeOK, TokensGenuine, Genuine
      <4> QED
        BY <4>2, <4>3
    <3>5. ASSUME NEW k \in 1..NumNodes
          PROVE  Genuine(rows[k].by, rows[k].token, rows[k].epoch)'
      BY <2>2, <3>3 DEF TokensGenuine, Genuine
    <3>6. Genuine(lock.owner, lock.token, lock.epoch)'
      BY <3>1, <3>2 DEF Genuine
    <3> QED
      BY <3>1, <3>2, <3>4, <3>5, <3>6 DEF TokensGenuine
  <2> QED
    BY <2>1, <2>2, TokenFlow
<1> QED
  BY <1>1, <1>2, Typing, PTL DEF Spec

\* Two coroutines with one token run on one process, so the exact-token guards
\* of complete_node, pause_node and cleanup_zombie_tasks never take one process
\* for another.
THEOREM TokenNamesProcess == "counterExpiry" \notin Events => (Spec => []OneProcessPerToken)
<1>1. TokensGenuine /\ TypeOK => OneProcessPerToken
  BY DEF TokensGenuine, Genuine, OneProcessPerToken, TypeOK, RunRecord
<1> QED
  BY <1>1, Typing, GenuineTokens, PTL

\* A node row never goes back to an older ownership.
THEOREM NeverStale == "counterExpiry" \notin Events => (Spec => NoStaleOverwrite)
<1>1. TypeOK /\ TokensGenuine /\ [Next]_vars
        => [\A k \in 1..NumNodes : rows'[k].epoch >= rows[k].epoch]_vars
  <2> SUFFICES ASSUME TypeOK, TokensGenuine, [Next]_vars, NEW k \in 1..NumNodes
               PROVE  rows'[k].epoch >= rows[k].epoch
    OBVIOUS
  <2>1. rows[k].epoch \in Nat /\ rows[k].epoch = rows[k].token
    BY DEF TypeOK, RowRecord, TokensGenuine, Genuine
  <2>2. CASE Flow
    <3>1. CASE SameStamp(rows[k], rows'[k])
      BY <2>1, <3>1 DEF SameStamp
    <3>2. ASSUME NEW a \in Attempts, Stamps(run[a], rows[k], rows'[k])
          PROVE  rows'[k].epoch >= rows[k].epoch
      <4>1. run[a].token = run[a].epoch
        BY DEF TokensGenuine, Genuine
      <4> QED
        BY <2>1, <3>2, <4>1 DEF Stamps
    <3> QED
      BY <2>2, <3>1, <3>2 DEF Flow, RowsFlow
  <2>3. CASE UNCHANGED rows
    BY <2>1, <2>3
  <2> QED
    BY <2>2, <2>3, TokenFlow
<1> QED
  BY <1>1, Typing, GenuineTokens, PTL DEF Spec, NoStaleOverwrite

-----------------------------------------------------------------------------
(* The rows implement FencedOwnership and terminal statuses are final.     *)

\* The writes of one run on a row, and those that bear no token.
RunWrites(a, k) ==
    \/ rows' = [rows EXCEPT ![k] = Upserted(@, run[a])]
    \/ \E s \in {"completed", "failed"} :
         rows' = [rows EXCEPT ![k] = Completed(@, run[a], s)]
    \/ rows' = [rows EXCEPT ![k] = Paused(@, run[a])]

OthersWrite ==
    \/ \E s \in {"cancelled", "failed"} : rows' = Swept(s)
    \/ \E k \in 1..NumNodes :
         rows' = [rows EXCEPT ![k].st = IF @ = "paused" THEN "running" ELSE @]
    \/ rows' = [k \in 1..NumNodes |->
                  IF rows[k].st = "running" THEN [rows[k] EXCEPT !.st = "paused", !.srv = TRUE]
                                            ELSE rows[k]]

Writes ==
    /\ granted' = granted
    /\ \/ UNCHANGED rows
       \/ \E a \in Attempts, k \in 1..NumNodes : run[a].proc \in Procs /\ RunWrites(a, k)
       \/ OthersWrite

\* The lock is granted or rows are written in one of these ways.
LEMMA WriteStep ==
    ASSUME TypeOK, [Next]_vars
    PROVE  Writes \/ \E a \in Attempts : run[a].proc \in Procs /\ Grant(a) /\ UNCHANGED rows
<1>1. CASE Env
  BY <1>1 DEF Env, LockExpires, CounterExpires, PauseTask, BootIdle, BootDone, Crash, Dies,
     Shutdown, PauseFlags, PauseNodes, Exit, Writes, OthersWrite, redisVars, dbVars, procVars
<1>2. ASSUME NEW a \in Attempts, Arrive(a) PROVE Writes
  BY <1>2 DEF Arrive, BootRecover, SubmitQuery, AckQuery, ResumeQuery, CancelQuery, RetryTask,
     Writes, redisVars, dbVars, procVars
<1>3. ASSUME NEW a \in Attempts, Request(a) PROVE Writes
  BY <1>3 DEF Request, CancelNodes, CancelThread, ResumeNode, StartBackground, BackgroundEnds, Writes,
     OthersWrite, redisVars, dbVars, procVars
<1>4. ASSUME NEW a \in Attempts, Dispatch(a)
      PROVE  Writes \/ (run[a].proc \in Procs /\ Grant(a) /\ UNCHANGED rows)
  BY <1>4 DEF Dispatch, BootGet, CheckOwnerAlive, GetLockOwner, Route, StealLock, AcquireLock,
     Spawn, NoGrant, At, Alive, Writes, redisVars, dbVars, procVars
<1>5. ASSUME NEW a \in Attempts, Run(a) PROVE Writes
  <2>1. CASE EnterNode(a)
    BY <2>1 DEF EnterNode, At, Alive, Writes, RunWrites, redisVars, dbVars, procVars
  <2>2. CASE CompleteNode(a)
    <3>1. CASE Current(a) \in 1..NumNodes
      BY <2>2, <3>1 DEF CompleteNode, At, Alive, Writes, RunWrites, redisVars, dbVars, procVars
    <3>2. CASE Current(a) \notin 1..NumNodes
      BY <2>2, <3>2 DEF CompleteNode, TypeOK, Writes, redisVars, dbVars, procVars
    <3> QED
      BY <3>1, <3>2
  <2>3. CASE PauseRun(a)
    <3>1. CASE Current(a) \in 1..NumNodes
      BY <2>3, <3>1 DEF PauseRun, At, Alive, Writes, RunWrites, redisVars, dbVars, procVars
    <3>2. CASE Current(a) \notin 1..NumNodes
      BY <2>3, <3>2 DEF PauseRun, TypeOK, Writes, redisVars, dbVars, procVars
    <3> QED
      BY <3>1, <3>2
  <2>4. CASE StartRun(a) \/ Checkpoint(a) \/ StopRun(a) \/ ReadLeaf(a) \/ FinishRun(a)
             \/ FailRun(a) \/ FailNodes(a) \/ DeliverCancel(a)
    BY <2>4 DEF StartRun, Checkpoint, StopRun, ReadLeaf, FinishRun, FailRun, FailNodes,
       DeliverCancel, Writes, OthersWrite, redisVars, dbVars, procVars
  <2>5. CASE ClearCancelFlag(a) \/ ReleaseLock(a) \/ CleanupZombie(a) \/ FinallyRaises(a)
             \/ DoneCallback(a)
    BY <2>5 DEF ClearCancelFlag, ReleaseLock, CleanupZombie, FinallyRaises, DoneCallback,
       Writes, redisVars, dbVars, procVars
  <2> QED
    BY <1>5, <2>1, <2>2, <2>3, <2>4, <2>5 DEF Run
<1>6. ASSUME NEW a \in Attempts, BackgroundCallback(a) \/ RenewFails(a) PROVE Writes
  BY <1>6 DEF BackgroundCallback, RenewFails, Writes, redisVars, dbVars, procVars
<1>7. CASE UNCHANGED vars
  BY <1>7 DEF vars, Writes, dbVars
<1> QED
  BY <1>1, <1>2, <1>3, <1>4, <1>5, <1>6, <1>7 DEF Next, Step

Node == [k \in 1..NumNodes |-> [st |-> rows[k].st, epoch |-> rows[k].epoch, by |-> rows[k].by]]

\* A write on a row is a step of FencedOwnership or leaves its view alone.
LEMMA WritesRefine ==
    ASSUME TypeOK, TokensGenuine, Writes
    PROVE  [Abstract!Next]_<<granted, Node>>
<1>0. ASSUME NEW k \in 1..NumNodes
      PROVE  /\ Node[k] = [st |-> rows[k].st, epoch |-> rows[k].epoch, by |-> rows[k].by]
             /\ rows[k].epoch \in Nat /\ rows[k].token = rows[k].epoch
  BY DEF Node, TypeOK, RowRecord, TokensGenuine, Genuine
<1>a. ASSUME NEW k \in 1..NumNodes
      PROVE  /\ Node[k].st = rows[k].st /\ Node[k].epoch = rows[k].epoch
             /\ Node[k].by = rows[k].by
  BY DEF Node
<1>1. CASE UNCHANGED rows
  BY <1>1 DEF Writes, Node
<1>2. ASSUME NEW a \in Attempts, NEW k \in 1..NumNodes, run[a].proc \in Procs, RunWrites(a, k)
      PROVE  [Abstract!Next]_<<granted, Node>>
  <2> DEFINE p == run[a].proc
             e == run[a].epoch
  <2>1. /\ run[a].token = e /\ e \in Nat
        /\ Abstract!Entitled(p, e)
    BY DEF TypeOK, RunRecord, TokensGenuine, Genuine, Abstract!Entitled
  <2>2. CASE rows' = [rows EXCEPT ![k] = Upserted(@, run[a])]
    <3>1. CASE run[a].token < rows[k].token
      <4>1. rows' = rows
        BY <2>2, <3>1 DEF Upserted, TypeOK
      <4> QED
        BY <4>1, <1>1
    <3>2. CASE ~(run[a].token < rows[k].token)
      <4>1. e >= Node[k].epoch /\ e \in 0..Len(granted)
        <5>1. Node[k].epoch = rows[k].epoch /\ rows[k].token = rows[k].epoch
              /\ rows[k].epoch \in Nat
          BY <1>0, <1>a, <1>2
        <5>2. e >= Node[k].epoch
          BY <2>1, <3>2, <5>1
        <5>3. (e > 0 => e \in 1..Len(granted)) /\ Len(granted) \in Nat
          BY DEF TokensGenuine, Genuine, TypeOK
        <5> QED
          BY <2>1, <5>2, <5>3
      <4>2. Node' = [Node EXCEPT ![k] = [st |-> IF @.st \in Abstract!Terminal THEN @.st
                                                                              ELSE "running",
                                         epoch |-> e, by |-> p]]
        BY <1>0, <2>1, <2>2, <3>2 DEF Node, TypeOK, Upserted, Terminal, Abstract!Terminal
      <4>3. Abstract!Touch(p, e, k)
        BY <2>1, <4>1, <4>2 DEF Abstract!Touch, Writes, Node
      <4> QED
        BY <1>2, <4>1, <4>3 DEF Abstract!Next
    <3> QED
      BY <3>1, <3>2
  <2>3. ASSUME NEW s \in {"completed", "failed"},
               rows' = [rows EXCEPT ![k] = Completed(@, run[a], s)]
        PROVE  [Abstract!Next]_<<granted, Node>>
    <3>1. CASE rows[k].st \notin Terminal /\ rows[k].token = run[a].token
      <4>1. Node[k].epoch = e /\ Node[k].st \notin Abstract!Terminal
        BY <1>0, <1>a, <1>2, <2>1, <3>1 DEF Terminal, Abstract!Terminal
      <4>2. Node' = [Node EXCEPT ![k] = [st |-> s, epoch |-> @.epoch, by |-> p]]
        <5> DEFINE c == Completed(rows[k], run[a], s)
        <5>1. c.st = s /\ c.epoch = rows[k].epoch /\ c.by = p
          BY <1>2, <3>1 DEF TypeOK, RowRecord, Completed
        <5>2. rows' = [rows EXCEPT ![k] = c]
          BY <2>3
        <5> HIDE DEF c
        <5> QED
          BY <1>0, <1>2, <5>1, <5>2 DEF Node, TypeOK
      <4>3. Abstract!Complete(p, k, s)
        BY <2>1, <4>1, <4>2 DEF Abstract!Complete, Writes, Node
      <4> QED
        BY <1>2, <4>3 DEF Abstract!Next
    <3>2. CASE ~(rows[k].st \notin Terminal /\ rows[k].token = run[a].token)
      <4>1. rows' = rows
        BY <2>3, <3>2 DEF Completed, TypeOK
      <4> QED
        BY <4>1, <1>1
    <3> QED
      BY <3>1, <3>2
  <2>4. CASE rows' = [rows EXCEPT ![k] = Paused(@, run[a])]
    <3>1. CASE rows[k].st = "running" /\ rows[k].token = run[a].token
      <4>1. Node[k].epoch = e /\ Node[k].st = "running"
        BY <1>0, <1>a, <1>2, <2>1, <3>1
      <4>2. Node' = [Node EXCEPT ![k] = [st |-> "paused", epoch |-> @.epoch, by |-> p]]
        <5> DEFINE c == Paused(rows[k], run[a])
        <5>1. c.st = "paused" /\ c.epoch = rows[k].epoch /\ c.by = p
          BY <1>2, <3>1 DEF TypeOK, RowRecord, Paused
        <5>2. rows' = [rows EXCEPT ![k] = c]
          BY <2>4
        <5> HIDE DEF c
        <5> QED
          BY <1>0, <1>2, <5>1, <5>2 DEF Node, TypeOK
      <4>3. Abstract!Pause(p, k)
        BY <2>1, <4>1, <4>2 DEF Abstract!Pause, Writes, Node
      <4> QED
        BY <1>2, <4>3 DEF Abstract!Next
    <3>2. CASE ~(rows[k].st = "running" /\ rows[k].token = run[a].token)
      <4>1. rows' = rows
        BY <2>4, <3>2 DEF Paused, TypeOK
      <4> QED
        BY <4>1, <1>1
    <3> QED
      BY <3>1, <3>2
  <2> QED
    BY <1>2, <2>2, <2>3, <2>4 DEF RunWrites
<1>3. ASSUME NEW s \in {"cancelled", "failed"}, rows' = Swept(s)
      PROVE  [Abstract!Next]_<<granted, Node>>
  <2>1. Node' = [k \in 1..NumNodes |->
                   IF Node[k].st \in {"running", "paused"} THEN [Node[k] EXCEPT !.st = s]
                                                           ELSE Node[k]]
    BY <1>0, <1>3 DEF Node, Swept, Active, TypeOK, RowRecord
  <2>2. Abstract!Sweep(s)
    BY <2>1 DEF Abstract!Sweep, Writes, Node
  <2> QED
    BY <2>2 DEF Abstract!Next
<1>4. ASSUME NEW k \in 1..NumNodes,
             rows' = [rows EXCEPT ![k].st = IF @ = "paused" THEN "running" ELSE @]
      PROVE  [Abstract!Next]_<<granted, Node>>
  <2>1. CASE rows[k].st = "paused"
    <3>1. Node' = [Node EXCEPT ![k] = [st |-> "running", epoch |-> @.epoch, by |-> @.by]]
      <4> DEFINE c == [rows[k] EXCEPT !.st = "running"]
      <4>1. c.st = "running" /\ c.epoch = rows[k].epoch /\ c.by = rows[k].by
        BY <1>4 DEF TypeOK, RowRecord
      <4>2. rows' = [rows EXCEPT ![k] = c]
        BY <1>4, <2>1
      <4> HIDE DEF c
      <4> QED
        BY <1>0, <1>4, <4>1, <4>2 DEF Node, TypeOK
    <3>2. Abstract!Resume(k)
      BY <2>1, <3>1 DEF Abstract!Resume, Writes, Node
    <3> QED
      BY <3>2 DEF Abstract!Next
  <2>2. CASE rows[k].st # "paused"
    <3>1. rows' = rows
      BY <1>4, <2>2 DEF TypeOK, RowRecord
    <3> QED
      BY <3>1, <1>1
  <2> QED
    BY <2>1, <2>2
<1>5. CASE rows' = [k \in 1..NumNodes |->
                      IF rows[k].st = "running"
                        THEN [rows[k] EXCEPT !.st = "paused", !.srv = TRUE] ELSE rows[k]]
  <2>1. Node' = [k \in 1..NumNodes |->
                   IF Node[k].st = "running" THEN [Node[k] EXCEPT !.st = "paused"]
                                             ELSE Node[k]]
    <3>1. ASSUME NEW j \in 1..NumNodes
          PROVE  /\ rows'[j].epoch = rows[j].epoch /\ rows'[j].by = rows[j].by
                 /\ rows'[j].st = IF rows[j].st = "running" THEN "paused" ELSE rows[j].st
      BY <1>5 DEF TypeOK, RowRecord
    <3> QED
      BY <1>0, <3>1 DEF Node
  <2>2. Abstract!PauseAll
    BY <2>1 DEF Abstract!PauseAll, Writes, Node
  <2> QED
    BY <2>2 DEF Abstract!Next
<1> QED
  BY <1>1, <1>2, <1>3, <1>4, <1>5 DEF Writes, OthersWrite

\* The rows and the grants of the lock implement FencedOwnership as long as
\* the fencing counter does not expire: no step lets a row obey a process
\* under an epoch that was granted to another one, or an older epoch.
THEOREM Refinement == "counterExpiry" \notin Events => (Spec => ImplementsFencedOwnership)
<1>1. Init => Abstract!Init
  BY DEF Init, Abstract!Init, NoRow
<1>2. TypeOK /\ TokensGenuine /\ [Next]_vars => [Abstract!Next]_(Abstract!vars)
  <2> SUFFICES ASSUME TypeOK, TokensGenuine, [Next]_vars
               PROVE  [Abstract!Next]_<<granted, Node>>
    BY DEF Abstract!vars, Node
  <2>1. ASSUME NEW a \in Attempts, run[a].proc \in Procs, Grant(a), UNCHANGED rows
        PROVE  Abstract!Next
    <3>1. Abstract!Grant(run[a].proc)
      BY <2>1 DEF Grant, Abstract!Grant
    <3> QED
      BY <2>1, <3>1 DEF Abstract!Next
  <2> QED
    BY <2>1, WriteStep, WritesRefine
<1> QED
  BY <1>1, <1>2, Typing, GenuineTokens, PTL DEF Spec, ImplementsFencedOwnership, Abstract!Spec

\* Terminal statuses of nodes, and but for an explicit resume of the thread,
\* are never overwritten, even when tokens are not genuine.
THEOREM TerminalStays == Spec => TerminalIsFinal
<1>1. TypeOK /\ [Next]_vars
        => (\A k \in 1..NumNodes : rows[k].st \in Terminal => rows'[k].st = rows[k].st)
  <2> SUFFICES ASSUME TypeOK, [Next]_vars, NEW k \in 1..NumNodes, rows[k].st \in Terminal
               PROVE  rows'[k].st = rows[k].st
    OBVIOUS
  <2>1. CASE UNCHANGED rows
    BY <2>1
  <2>2. ASSUME NEW a \in Attempts, NEW j \in 1..NumNodes, RunWrites(a, j)
        PROVE  rows'[k].st = rows[k].st
    <3>2. CASE k = j
      <4>1. Upserted(rows[k], run[a]).st = rows[k].st
        BY DEF Upserted
      <4>2. Completed(rows[k], run[a], "completed") = rows[k]
            /\ Completed(rows[k], run[a], "failed") = rows[k]
            /\ Paused(rows[k], run[a]) = rows[k]
        BY DEF Completed, Paused, Terminal
      <4> QED
        BY <2>2, <3>2, <4>1, <4>2 DEF RunWrites, TypeOK
    <3>3. CASE k # j
      BY <2>2, <3>3 DEF RunWrites, TypeOK
    <3> QED
      BY <3>2, <3>3
  <2>3. CASE OthersWrite
    <3>1. rows[k].st \notin Active /\ rows[k] \in RowRecord
      BY DEF Active, Terminal, TypeOK
    <3>2. rows[k].st # "running" /\ rows[k].st # "paused"
      BY DEF Terminal
    <3>3. CASE \E j \in 1..NumNodes :
                 rows' = [rows EXCEPT ![j].st = IF @ = "paused" THEN "running" ELSE @]
      BY <3>2, <3>3 DEF TypeOK, RowRecord
    <3>4. CASE ~ \E j \in 1..NumNodes :
                 rows' = [rows EXCEPT ![j].st = IF @ = "paused" THEN "running" ELSE @]
      BY <2>3, <3>1, <3>2, <3>4 DEF OthersWrite, Swept
    <3> QED
      BY <3>3, <3>4
  <2> QED
    BY <2>1, <2>2, <2>3, WriteStep DEF Writes
<1>2. [Next]_vars => (status \in Terminal => status' \in {status, "running"})
  <2> SUFFICES ASSUME [Next]_vars, status \in Terminal
               PROVE  status' \in {status, "running"}
    OBVIOUS
  <2>1. CASE Env
    BY <2>1 DEF Env, LockExpires, CounterExpires, PauseTask, BootIdle, BootDone, Crash, Dies,
       Shutdown, PauseFlags, PauseNodes, Exit, dbVars
  <2>2. ASSUME NEW a \in Attempts, Arrive(a) PROVE status' \in {status, "running"}
    BY <2>2 DEF Arrive, BootRecover, SubmitQuery, AckQuery, ResumeQuery, CancelQuery,
       RetryTask, Terminal, dbVars
  <2>3. ASSUME NEW a \in Attempts, Request(a) \/ Dispatch(a) \/ BackgroundCallback(a)
                                     \/ RenewFails(a)
        PROVE  status' = status
    BY <2>3 DEF Request, CancelNodes, CancelThread, ThreadEnds, ResumeNode, StartBackground,
       BackgroundEnds, Dispatch, BootGet, CheckOwnerAlive, GetLockOwner, Route, StealLock,
       AcquireLock, Spawn, BackgroundCallback, RenewFails, dbVars
  <2>4. ASSUME NEW a \in Attempts, Run(a) PROVE status' = status
    BY <2>4 DEF Run, StartRun, EnterNode, CompleteNode, Checkpoint, PauseRun, StopRun,
       ReadLeaf, FinishRun, FailRun, FailNodes, ThreadEnds, DeliverCancel, ClearCancelFlag,
       ReleaseLock, CleanupZombie, FinallyRaises, DoneCallback, Terminal, dbVars
  <2>5. CASE UNCHANGED vars
    BY <2>5 DEF vars, dbVars
  <2> QED
    BY <2>1, <2>2, <2>3, <2>4, <2>5 DEF Next, Step
<1> QED
  BY <1>1, <1>2, Typing, PTL DEF Spec, TerminalIsFinal
=============================================================================
