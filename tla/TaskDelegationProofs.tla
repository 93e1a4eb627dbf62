------------------------ MODULE TaskDelegationProofs ------------------------
(* Proofs about TaskDelegation, for every number of processes and coroutines     *)
(* and whichever events may happen.  HandleMeansAwaiting is inductive as it      *)
(* stands; AnswersAreEarned needs that a result which says SUCCESS is a genuine  *)
(* one (ResultsKnown); SettledWhenReturned needs to know who settles which kind  *)
(* of task, and when (WorkerSettles, DriverSettles), and that no try opens again *)
(* (StaysSettled).  That the row implements TaskRow needs a count: every          *)
(* coroutine about to insert an execution has a try without one (ExecutionsPast). *)
(* What a step may do to a coroutine, to the row and to the jobs is stated once   *)
(* each (DriverStep, StatusStep, OutputStep, JobUse, RowUse).                     *)
EXTENDS TaskDelegation, FiniteSetTheorems, SequenceTheorems, TLAPS

USE DriversAssumption

DriverType == driver \in [Drivers -> DriverRecord]
JobType == job \in [Drivers -> JobRecord]
HandleType == handle \in [Procs -> Drivers \union {NoDriver}]
OutputsType == outputs \in Seq(Drivers \union {NoDriver, "error"})

\* A job has a result when it comes to deliver one, so the poll loop, which knows
\* four kinds of result, is never at a loss; and a SUCCESS is one a run of it earned.
WithResult == {"persist", "persistOutput", "combine", "finish", "stored"}
ResultsKnown ==
    \A j \in Drivers : /\ job[j].pc \in WithResult => job[j].res # "none"
                       /\ job[j].res = "SUCCESS" => job[j].answered
AnswersStay == \A j \in Drivers : job[j].answered => job'[j].answered
Results == {"none", "SUCCESS", "PAUSED", "FAILURE", "REVOKED"}

\* What remains of TypeOK: the row and the flags.
RowType ==
    /\ events \subseteq EventKinds
    /\ view \in {"Streaming", "ToolCall"} /\ st \in Statuses
    /\ creator \in Drivers \union {NoDriver} /\ tries \in Nat
FlagType ==
    /\ thinking \in {"none", "empty", "some"}
    /\ pauseFlag \in BOOLEAN /\ cancelFlag \in BOOLEAN /\ nodeFlag \in BOOLEAN
    /\ snapshot \in BOOLEAN

-----------------------------------------------------------------------------
(* What the helpers of the model keep.                                      *)

\* A coroutine not yet used and a job not yet sent are well-typed.
LEMMA IdleTyped == Idle \in DriverRecord /\ Unsent \in JobRecord
BY DEF Idle, Unsent, DriverRecord, JobRecord, DriverPC, Kinds, Statuses, Outcomes, WorkerPC

\* A coroutine that moves on, or returns, is still one.
LEMMA MoveTyped ==
    ASSUME DriverType, NEW d \in Drivers, NEW l \in DriverPC, NEW how \in Outcomes,
           Move(d, l, how)
    PROVE  DriverType'
<1>1. CASE l = "over"
  <2>1. \A q \in Procs \union {NoDriver} :
           [Idle EXCEPT !.pc = "over", !.try = driver[d].try, !.out = how, !.proc = q]
             \in DriverRecord
    BY <1>1, IdleTyped DEF DriverType, DriverRecord
  <2>2. (IF GoesOn(d) THEN driver[d].proc ELSE NoDriver) \in Procs \union {NoDriver}
    BY DEF DriverType, DriverRecord
  <2> QED BY <1>1, <2>1, <2>2 DEF Move, DriverType
<1>2. CASE l # "over"
  <2>1. [driver[d] EXCEPT !.pc = l, !.out = how] \in DriverRecord
    BY DEF DriverType, DriverRecord
  <2> QED BY <1>2, <2>1 DEF Move, DriverType
<1> QED BY <1>1, <1>2

\* The same for one that keeps its outcome.
LEMMA GotoTyped ==
    ASSUME DriverType, NEW d \in Drivers, NEW l \in DriverPC, Goto(d, l)
    PROVE  DriverType'
<1>1. driver[d].out \in Outcomes BY DEF DriverType, DriverRecord
<1> QED BY <1>1, MoveTyped DEF Goto

\* The same for one that returns.
LEMMA EndTyped ==
    ASSUME DriverType, NEW d \in Drivers, NEW how \in Outcomes, End(d, how)
    PROVE  DriverType'
BY MoveTyped DEF End, DriverPC

\* A request makes a coroutine.
LEMMA EnterTyped ==
    ASSUME DriverType, NEW d \in Drivers, NEW p \in Procs, NEW k \in Kinds, NEW l \in DriverPC,
           Enter(d, p, k, l)
    PROVE  DriverType'
<1>1. [Idle EXCEPT !.kind = k, !.proc = p, !.pc = l] \in DriverRecord
  BY IdleTyped DEF DriverRecord
<1> QED BY <1>1 DEF Enter, DriverType

\* So does a retry.
LEMMA RetryTyped ==
    ASSUME DriverType, NEW d \in Drivers, NEW p \in Procs, NEW c \in BOOLEAN, Retry(d, p, c)
    PROVE  DriverType'
<1>1. [Idle EXCEPT !.kind = "retry", !.proc = p, !.pc = "read", !.continue = c] \in DriverRecord
  BY IdleTyped DEF DriverRecord, DriverPC, Kinds
<1> QED BY <1>1 DEF Retry, DriverType

\* A run of a job that comes to a result.
LEMMA FinishTyped ==
    ASSUME JobType, ResultsKnown, NEW j \in Drivers, NEW l \in WorkerPC, NEW res \in Results,
           NEW think \in BOOLEAN, l \in WithResult => res # "none", Finish(j, l, res, think)
    PROVE  JobType' /\ ResultsKnown' /\ AnswersStay
<1>1. [job[j] EXCEPT !.pc = l, !.res = res, !.think = think,
                     !.answered = @ \/ res = "SUCCESS"] \in JobRecord
  BY DEF JobType, JobRecord, Results
<1>2. JobType' BY <1>1 DEF Finish, JobType
<1>3. /\ job'[j].pc = l /\ job'[j].res = res
      /\ job'[j].answered = (job[j].answered \/ res = "SUCCESS")
  BY DEF Finish, JobType, JobRecord
<1>4. \A i \in Drivers \ {j} : job'[i] = job[i] BY DEF Finish, JobType
<1> QED BY <1>2, <1>3, <1>4 DEF ResultsKnown, AnswersStay

\* A run of a job that goes on.
LEMMA WorkerGotoTyped ==
    ASSUME JobType, ResultsKnown, NEW j \in Drivers, NEW l \in WorkerPC,
           l \in WithResult => job[j].res # "none", WorkerGoto(j, l)
    PROVE  JobType' /\ ResultsKnown' /\ AnswersStay
<1>1. [job[j] EXCEPT !.pc = l] \in JobRecord
  BY DEF JobType, JobRecord
<1>2. JobType' BY <1>1 DEF WorkerGoto, JobType
<1>3. job'[j].pc = l /\ job'[j].res = job[j].res /\ job'[j].answered = job[j].answered
  BY DEF WorkerGoto, JobType, JobRecord
<1>4. \A i \in Drivers \ {j} : job'[i] = job[i] BY DEF WorkerGoto, JobType
<1> QED BY <1>2, <1>3, <1>4 DEF ResultsKnown, AnswersStay

\* A revocation changes nothing about a job but that it is revoked.
LEMMA RevokedTyped ==
    ASSUME JobType, NEW p
    PROVE  /\ Revoked(p) \in [Drivers -> JobRecord]
           /\ \A d \in Drivers : /\ Revoked(p)[d].pc = job[d].pc /\ Revoked(p)[d].res = job[d].res
                                 /\ Revoked(p)[d].answered = job[d].answered
<1>1. \A d \in Drivers : [job[d] EXCEPT !.revoked = TRUE] \in JobRecord
  BY DEF JobType, JobRecord
<1>2. \A d \in Drivers : LET r == [job[d] EXCEPT !.revoked = TRUE]
                         IN  r.pc = job[d].pc /\ r.res = job[d].res /\ r.answered = job[d].answered
  BY DEF JobType, JobRecord
<1> QED BY <1>1, <1>2 DEF Revoked, JobType

\* A slot of a registry that is emptied.
LEMMA DiscardTyped ==
    ASSUME HandleType, NEW d \in Drivers, Discard(d)
    PROVE  HandleType'
BY DEF HandleType, Discard

\* Leaving the poll loop.
LEMMA LeaveAwaitTyped ==
    ASSUME DriverType, HandleType, NEW d \in Drivers, NEW how \in Outcomes, LeaveAwait(d, how)
    PROVE  DriverType' /\ HandleType'
<1>1. AfterAwait(d, how) \in DriverPC BY DEF AfterAwait, DriverPC
<1> QED BY <1>1, MoveTyped DEF LeaveAwait, HandleType

\* The poll loop knows every result a job can deliver.
LEMMA ReadResultWays ==
    ASSUME JobType, ResultsKnown, NEW d \in Drivers, ReadResult(d)
    PROVE  /\ At(d, "await")
           /\ \/ Goto(d, "save") /\ UNCHANGED handle
              \/ \E how \in {"ok", "error", "paused"} :
                   LeaveAwait(d, how) /\ (how = "ok" => job[d].res = "SUCCESS")
<1>1. job[d].res \in Results BY DEF JobType, JobRecord, Results
<1>2. job[d].res # "none" BY DEF ReadResult, ResultsKnown, WithResult
<1>3. CASE job[d].res = "SUCCESS" BY <1>3 DEF ReadResult
<1>4. CASE job[d].res = "FAILURE" BY <1>4 DEF ReadResult
<1>5. CASE job[d].res = "REVOKED"
  <2>1. LeaveAwait(d, IF pauseFlag THEN "paused" ELSE "error") BY <1>5 DEF ReadResult
  <2> QED BY <2>1, <1>5 DEF ReadResult
<1>6. CASE job[d].res = "PAUSED" BY <1>6 DEF ReadResult
<1> QED BY <1>1, <1>2, <1>3, <1>4, <1>5, <1>6 DEF Results

-----------------------------------------------------------------------------
(* Type correctness, a variable or a group of them at a time.               *)

\* Every action leaves the coroutines well-typed.
LEMMA StepKeepsDrivers ==
    ASSUME TypeOK, ResultsKnown, NEW d \in Drivers, Step(d)
    PROVE  DriverType'
<1>0. DriverType /\ HandleType BY DEF TypeOK, DriverType, HandleType
<1>1. CASE LookUp(d)
  <2>1. CASE End(d, "none") BY <1>0, <2>1, EndTyped DEF Outcomes
  <2>2. CASE driver' = [driver EXCEPT
                ![d].seen = st,
                ![d].pc = CASE st = "none" -> "create"
                            [] st = "completed" -> "cache"
                            [] OTHER -> "reset"]
    <3>1. \A l \in DriverPC : [driver[d] EXCEPT !.seen = st, !.pc = l] \in DriverRecord
      BY <1>0 DEF TypeOK, DriverType, DriverRecord
    <3>2. {"create", "cache", "reset"} \subseteq DriverPC BY DEF DriverPC
    <3> QED BY <1>0, <2>2, <3>1, <3>2 DEF DriverType
  <2> QED BY <1>1, <2>1, <2>2 DEF LookUp
<1>2. CASE ReadCache(d) BY <1>0, <1>2, GotoTyped DEF ReadCache, DriverPC
<1>3. CASE CreateTask(d) BY <1>0, <1>3, GotoTyped DEF CreateTask, DriverPC
<1>4. CASE ReadTask(d)
  <2>1. CASE End(d, "none") BY <1>0, <2>1, EndTyped DEF Outcomes
  <2>2. CASE driver' = [driver EXCEPT ![d].seen = st,
                         ![d].pc = IF driver[d].continue THEN "prior" ELSE "uncancel"]
    <3>1. \A l \in DriverPC : [driver[d] EXCEPT !.seen = st, !.pc = l] \in DriverRecord
      BY <1>0 DEF TypeOK, DriverType, DriverRecord
    <3>2. {"prior", "uncancel"} \subseteq DriverPC BY DEF DriverPC
    <3> QED BY <1>0, <2>2, <3>1, <3>2 DEF DriverType
  <2> QED BY <1>4, <2>1, <2>2 DEF ReadTask
<1>5. CASE ReadPrior(d)
  <2>1. CASE End(d, "none") BY <1>0, <2>1, EndTyped DEF Outcomes
  <2>2. CASE driver' = [driver EXCEPT ![d].prior = TRUE, ![d].pc = "uncancel"]
    <3>1. "uncancel" \in DriverPC BY DEF DriverPC
    <3>2. [driver[d] EXCEPT !.prior = TRUE, !.pc = "uncancel"] \in DriverRecord
      BY <1>0, <3>1 DEF DriverType, DriverRecord
    <3> QED BY <1>0, <2>2, <3>2 DEF DriverType
  <2> QED BY <1>5, <2>1, <2>2 DEF ReadPrior
<1>6. CASE ClearCancelFlag(d) BY <1>0, <1>6, GotoTyped DEF ClearCancelFlag, DriverPC
<1>7. CASE ClearPauseFlag(d) BY <1>0, <1>7, GotoTyped DEF ClearPauseFlag, DriverPC
<1>8. CASE ResetTask(d)
  <2>1. AfterReset(d) \in DriverPC BY DEF AfterReset, DriverPC
  <2> QED BY <1>0, <1>8, <2>1, GotoTyped, EndTyped DEF ResetTask, Outcomes, DriverPC
<1>9. CASE InsertExecution(d)
  <2>1. AfterReset(d) \in DriverPC BY DEF AfterReset, DriverPC
  <2> QED BY <1>0, <1>9, <2>1, GotoTyped DEF InsertExecution, DriverPC
<1>10. CASE SendJob(d)
  <2>1. "await" \in DriverPC BY DEF DriverPC
  <2>2. /\ driver[d].kind \in Kinds /\ driver[d].proc \in Procs \union {NoDriver}
        /\ Idle \in DriverRecord /\ tries \in Nat
    BY <1>0, IdleTyped DEF TypeOK, DriverType, DriverRecord
  <2>3. [Idle EXCEPT !.pc = "await", !.try = tries, !.kind = driver[d].kind, !.proc = driver[d].proc]
          \in DriverRecord
    BY <2>1, <2>2 DEF DriverRecord
  <2> QED BY <1>0, <1>10, <2>3 DEF SendJob, DriverType
<1>11. CASE SeesCancelFlag(d)
  BY <1>0, <1>11, LeaveAwaitTyped DEF SeesCancelFlag, AwaitRevokes, Outcomes
<1>12. CASE ReadResult(d)
  <2>1. JobType BY DEF TypeOK, JobType
  <2> QED BY <1>0, <1>12, <2>1, ReadResultWays, GotoTyped, LeaveAwaitTyped DEF Outcomes, DriverPC
<1>13. CASE SaveSnapshot(d) BY <1>0, <1>13, LeaveAwaitTyped DEF SaveSnapshot, Outcomes
<1>14. CASE CompleteTask(d) BY <1>0, <1>14, GotoTyped DEF CompleteTask, DriverPC
<1>15. CASE CompleteOutput(d) BY <1>0, <1>15, GotoTyped DEF CompleteOutput, DriverPC
<1>16. CASE CleanupZombie(d) BY <1>0, <1>16, GotoTyped DEF CleanupZombie, DriverPC
<1>17. CASE SetPauseFlag(d) BY <1>0, <1>17, GotoTyped DEF SetPauseFlag, DriverPC
<1>18. CASE RevokeTask(d) BY <1>0, <1>18, GotoTyped, EndTyped DEF RevokeTask, Outcomes, DriverPC
<1>19. CASE PauseTask(d) BY <1>0, <1>19, GotoTyped, EndTyped DEF PauseTask, Outcomes, DriverPC
<1>20. CASE CaptureHandle(d)
  <2>1. "wait" \in DriverPC BY DEF DriverPC
  <2>2. \A w \in BOOLEAN : [driver[d] EXCEPT !.pc = "wait", !.watched = w] \in DriverRecord
    BY <1>0, <2>1 DEF DriverType, DriverRecord
  <2> QED BY <1>0, <1>20, <2>2 DEF CaptureHandle, DriverType
<1>21. CASE WaitForWorker(d) BY <1>0, <1>21, GotoTyped DEF WaitForWorker, DriverPC
<1>22. CASE SetCancelFlag(d) BY <1>0, <1>22, GotoTyped DEF SetCancelFlag, DriverPC
<1>23. CASE RevokeActive(d) BY <1>0, <1>23, GotoTyped DEF RevokeActive, DriverPC
<1>24. CASE CancelTask(d) BY <1>0, <1>24, GotoTyped, EndTyped DEF CancelTask, Outcomes, DriverPC
<1>25. CASE CancelNode(d) BY <1>0, <1>25, EndTyped DEF CancelNode, Outcomes
<1>26. CASE CreateExecution(d) BY <1>0, <1>26, GotoTyped DEF CreateExecution, DriverPC
<1> QED BY <1>1, <1>2, <1>3, <1>4, <1>5, <1>6, <1>7, <1>8, <1>9, <1>10, <1>11, <1>12, <1>13,
           <1>14, <1>15, <1>16, <1>17, <1>18, <1>19, <1>20, <1>21, <1>22, <1>23, <1>24, <1>25,
           <1>26
        DEF Step

\* So do the arrivals, and the steps nothing makes a coroutine take.
LEMMA ArriveKeepsDrivers ==
    ASSUME TypeOK, NEW d \in Drivers, NEW p \in Procs, Arrive(d, p)
    PROVE  DriverType'
<1> USE DEF DriverPC, Kinds
<1>0. DriverType BY DEF TypeOK, DriverType
<1>1. CASE RunTask(d, p) BY <1>0, <1>1, EnterTyped DEF RunTask
<1>2. CASE RetryFresh(d, p) BY <1>0, <1>2, EnterTyped, RetryTyped DEF RetryFresh
<1>3. CASE ContinueTask(d, p) BY <1>0, <1>3, RetryTyped DEF ContinueTask
<1>4. CASE RetryRestartTask(d, p) BY <1>0, <1>4, RetryTyped DEF RetryRestartTask
<1>5. CASE RetryTask(d, p) BY <1>0, <1>5, RetryTyped DEF RetryTask
<1>6. CASE PauseRequest(d, p) BY <1>0, <1>6, EnterTyped DEF PauseRequest
<1>7. CASE ShutdownRequest(d, p) BY <1>0, <1>7, EnterTyped DEF ShutdownRequest
<1>8. CASE CancelRequest(d, p) BY <1>0, <1>8, EnterTyped DEF CancelRequest
<1> QED BY <1>1, <1>2, <1>3, <1>4, <1>5, <1>6, <1>7, <1>8 DEF Arrive

\* A run or a retry that is cancelled because a lock is lost, and a run that ends.
LEMMA LockLostKeepsDrivers ==
    ASSUME TypeOK, NEW d \in Drivers, LockLost(d)
    PROVE  DriverType'
<1>0. DriverType BY DEF TypeOK, DriverType
<1>1. "zombie" \in DriverPC /\ "dead" \in Outcomes BY DEF DriverPC, Outcomes
<1>2. CASE AbortRun(d)
  <2>1. [driver[d] EXCEPT !.pc = "zombie", !.out = "dead"] \in DriverRecord
    BY <1>0, <1>1 DEF DriverType, DriverRecord
  <2> QED BY <1>0, <1>2, <2>1 DEF AbortRun, DriverType
<1>3. CASE AbortRetry(d) BY <1>0, <1>1, <1>3, EndTyped DEF AbortRetry
<1>4. CASE CleanupLater(d)
  <2>1. [driver[d] EXCEPT !.proc = NoDriver] \in DriverRecord
    BY <1>0 DEF DriverType, DriverRecord
  <2> QED BY <1>0, <1>4, <2>1 DEF CleanupLater, DriverType
<1> QED BY <1>2, <1>3, <1>4 DEF LockLost

\* A crash of a process.
LEMMA CrashKeepsDrivers ==
    ASSUME TypeOK, NEW p \in Procs, Crash(p)
    PROVE  DriverType'
<1>1. \A d \in Drivers : \A how \in Outcomes :
         [Idle EXCEPT !.pc = "over", !.try = driver[d].try, !.out = how] \in DriverRecord
  BY IdleTyped DEF TypeOK, DriverRecord, DriverPC
<1>2. \A d \in Drivers :
         (IF At(d, "over") THEN driver[d].out ELSE "dead") \in Outcomes
  BY DEF TypeOK, DriverRecord, Outcomes
<1> QED BY <1>1, <1>2 DEF Crash, TypeOK, DriverType

\* Together: no step breaks the type of a coroutine.
LEMMA NextKeepsDrivers == TypeOK /\ ResultsKnown /\ [Next]_vars => DriverType'
<1> SUFFICES ASSUME TypeOK, ResultsKnown, [Next]_vars PROVE DriverType'
  OBVIOUS
<1>0. DriverType /\ HandleType BY DEF TypeOK, DriverType, HandleType
<1>1. ASSUME NEW d \in Drivers, Step(d) PROVE DriverType'
  BY <1>1, StepKeepsDrivers
<1>2. ASSUME NEW d \in Drivers, Deadline(d) PROVE DriverType'
  BY <1>0, <1>2, LeaveAwaitTyped DEF Deadline, AwaitRevokes, Outcomes
<1>3. ASSUME NEW d \in Drivers, WaitExpires(d) PROVE DriverType'
  BY <1>0, <1>3, GotoTyped DEF WaitExpires, DriverPC
<1>4. ASSUME NEW d \in Drivers, LockLost(d) PROVE DriverType'
  BY <1>4, LockLostKeepsDrivers
<1>5. ASSUME NEW d \in Drivers, NEW p \in Procs, Arrive(d, p) PROVE DriverType'
  BY <1>5, ArriveKeepsDrivers
<1>6. ASSUME NEW j \in Drivers,
             Worker(j) \/ Terminate(j) \/ Redeliver(j) \/ DoRevoke(j) \/ DoPurge(j)
      PROVE  DriverType'
  <2>1. UNCHANGED driver
    BY <1>6 DEF Worker, StartJob, RunHandler, PersistResult, PersistOutput, StreamToEnd,
                BreakStream, CheckPaused, CheckCancelled, InsertResponse, CombineThinking,
                StoreResult, Terminate, Redeliver, DoRevoke, DoPurge
  <2> QED BY <1>0, <2>1 DEF DriverType
<1>7. ASSUME NEW p \in Procs, Crash(p) PROVE DriverType'
  BY <1>7, CrashKeepsDrivers
<1>8. CASE FlagExpires \/ UNCHANGED vars
  BY <1>0, <1>8 DEF FlagExpires, vars, DriverType
<1> QED BY <1>1, <1>2, <1>3, <1>4, <1>5, <1>6, <1>7, <1>8 DEF Next

\* The jobs are sent by the coroutines, changed by the workers and revoked by
\* requests, deadlines and the sweep of an instance that starts.
LEMMA WorkerKeepsJobs ==
    ASSUME JobType, ResultsKnown, NEW j \in Drivers,
           Worker(j) \/ Terminate(j) \/ Redeliver(j) \/ DoRevoke(j) \/ DoPurge(j)
    PROVE  JobType' /\ ResultsKnown' /\ AnswersStay
<1> USE DEF WithResult
<1>0. /\ job[j] \in JobRecord /\ job[j].think \in BOOLEAN /\ job[j].res \in Results
      /\ job[j].pc \in WithResult => job[j].res # "none"
  BY DEF JobType, JobRecord, ResultsKnown, Results
<1>1. CASE StartJob(j)
  <2> {"stream", "handler"} \subseteq WorkerPC BY DEF WorkerPC
  <2> QED BY <1>1, WorkerGotoTyped DEF StartJob
<1>2. CASE RunHandler(j)
  <2> "persist" \in WorkerPC BY DEF WorkerPC
  <2> QED BY <1>2, FinishTyped DEF RunHandler, Results
<1>3. CASE PersistResult(j)
  <2> {"persistOutput", "finish"} \subseteq WorkerPC BY DEF WorkerPC
  <2> QED BY <1>0, <1>3, WorkerGotoTyped DEF PersistResult
<1>4. CASE PersistOutput(j)
  <2> "finish" \in WorkerPC BY DEF WorkerPC
  <2> QED BY <1>0, <1>4, WorkerGotoTyped DEF PersistOutput
<1>5. CASE StreamToEnd(j)
  <2> {"finish", "drained"} \subseteq WorkerPC BY DEF WorkerPC
  <2> QED BY <1>5, FinishTyped DEF StreamToEnd, Results
<1>6. CASE BreakStream(j)
  <2>1. "drained" \in WorkerPC BY DEF WorkerPC
  <2>2. PICK think \in BOOLEAN : job' = [job EXCEPT ![j].pc = "drained", ![j].think = think]
    BY <1>6 DEF BreakStream
  <2>3. [job[j] EXCEPT !.pc = "drained", !.think = think] \in JobRecord
    BY <1>0, <2>1 DEF JobRecord
  <2>4. job' = [job EXCEPT ![j] = [job[j] EXCEPT !.pc = "drained", !.think = think]]
    BY <2>2 DEF JobType
  <2>5. job'[j].pc = "drained" /\ job'[j].res = job[j].res /\ job'[j].answered = job[j].answered
    BY <1>0, <2>4 DEF JobType, JobRecord
  <2>6. \A i \in Drivers \ {j} : job'[i] = job[i] BY <2>4 DEF JobType
  <2> QED BY <2>3, <2>4, <2>5, <2>6 DEF ResultsKnown, AnswersStay, JobType
<1>7. CASE CheckPaused(j)
  <2> {"combine", "finish", "streamed"} \subseteq WorkerPC BY DEF WorkerPC
  <2> QED BY <1>0, <1>7, FinishTyped, WorkerGotoTyped DEF CheckPaused, Results
<1>8. CASE CheckCancelled(j)
  <2> {"respond", "finish"} \subseteq WorkerPC BY DEF WorkerPC
  <2> QED BY <1>8, FinishTyped, WorkerGotoTyped DEF CheckCancelled, Results
<1>9. CASE InsertResponse(j)
  <2> {"combine", "finish"} \subseteq WorkerPC BY DEF WorkerPC
  <2> QED BY <1>0, <1>9, FinishTyped DEF InsertResponse, Results
<1>10. CASE CombineThinking(j)
  <2> "finish" \in WorkerPC BY DEF WorkerPC
  <2> QED BY <1>0, <1>10, FinishTyped DEF CombineThinking
<1>11. CASE StoreResult(j)
  <2> "stored" \in WorkerPC BY DEF WorkerPC
  <2> QED BY <1>0, <1>11, WorkerGotoTyped DEF StoreResult
<1>12. CASE Terminate(j)
  <2> "stored" \in WorkerPC BY DEF WorkerPC
  <2> QED BY <1>12, FinishTyped DEF Terminate, Results
<1>13. CASE Redeliver(j)
  <2>1. "queued" \in WorkerPC BY DEF WorkerPC
  <2>2. [job[j] EXCEPT !.pc = "queued", !.res = "none", !.think = FALSE, !.redelivered = TRUE]
          \in JobRecord
    BY <1>0, <2>1 DEF JobRecord
  <2>3. job' = [job EXCEPT ![j] = [job[j] EXCEPT !.pc = "queued", !.res = "none",
                                                 !.think = FALSE, !.redelivered = TRUE]]
    BY <1>13 DEF Redeliver, JobType
  <2>4. job'[j].pc = "queued" /\ job'[j].res = "none" /\ job'[j].answered = job[j].answered
    BY <1>0, <2>3 DEF JobType, JobRecord
  <2>5. \A i \in Drivers \ {j} : job'[i] = job[i] BY <2>3 DEF JobType
  <2> QED BY <2>2, <2>3, <2>4, <2>5 DEF ResultsKnown, AnswersStay, JobType
<1>14. CASE DoRevoke(j)
  <2>1. [job[j] EXCEPT !.revoked = TRUE] \in JobRecord BY <1>0 DEF JobRecord
  <2>2. \A i \in Drivers : /\ job'[i].pc = job[i].pc /\ job'[i].res = job[i].res
                           /\ job'[i].answered = job[i].answered
    BY <1>14 DEF DoRevoke, JobType, JobRecord
  <2>3. JobType' BY <1>14, <2>1 DEF DoRevoke, JobType
  <2> QED BY <2>2, <2>3 DEF ResultsKnown, AnswersStay
<1>15. CASE DoPurge(j)
  <2> "purged" \in WorkerPC BY DEF WorkerPC
  <2> QED BY <1>15, WorkerGotoTyped DEF DoPurge
<1> QED BY <1>1, <1>2, <1>3, <1>4, <1>5, <1>6, <1>7, <1>8, <1>9, <1>10, <1>11, <1>12, <1>13,
           <1>14, <1>15 DEF Worker

\* A revocation keeps what is known of the results.
LEMMA JobsRevoked ==
    ASSUME JobType, ResultsKnown, NEW p, job' = Revoked(p)
    PROVE  JobType' /\ ResultsKnown' /\ AnswersStay
BY RevokedTyped DEF JobType, ResultsKnown, AnswersStay

\* The ways a step changes the jobs.
LEMMA JobUse ==
    ASSUME [Next]_vars
    PROVE  \/ UNCHANGED job \/ \E p : job' = Revoked(p)
           \/ \E d \in Drivers : SendJob(d)
           \/ \E j \in Drivers :
                Worker(j) \/ Terminate(j) \/ Redeliver(j) \/ DoRevoke(j) \/ DoPurge(j)
<1>1. ASSUME NEW d \in Drivers, Step(d), ~SendJob(d)
      PROVE  UNCHANGED job \/ \E p : job' = Revoked(p)
  BY <1>1 DEF Step, LookUp, ReadCache, CreateTask, CreateExecution, ReadTask, ReadPrior,
       ClearCancelFlag, ClearPauseFlag, ResetTask, InsertExecution, SeesCancelFlag, AwaitRevokes, ReadResult,
       SaveSnapshot, CompleteTask, CompleteOutput, CleanupZombie, SetPauseFlag, RevokeTask,
       PauseTask, CaptureHandle, WaitForWorker, SetCancelFlag, RevokeActive, CancelTask, CancelNode
<1>2. ASSUME NEW d \in Drivers, Deadline(d) \/ WaitExpires(d) \/ LockLost(d)
      PROVE  UNCHANGED job \/ \E p : job' = Revoked(p)
  BY <1>2 DEF Deadline, AwaitRevokes, WaitExpires, LockLost, AbortRun, AbortRetry, CleanupLater
<1>3. ASSUME NEW d \in Drivers, NEW p \in Procs, Arrive(d, p) PROVE UNCHANGED job
  BY <1>3 DEF Arrive, RunTask, RetryFresh, ContinueTask, RetryRestartTask, RetryTask, Retry,
              PauseRequest, ShutdownRequest, CancelRequest
<1>4. CASE FlagExpires \/ UNCHANGED vars \/ \E p \in Procs : Crash(p)
  BY <1>4 DEF FlagExpires, Crash, vars
<1> QED BY <1>1, <1>2, <1>3, <1>4 DEF Next

\* No step breaks the type of a job, forgets an answer or makes up a result.
LEMMA NextKeepsJobs ==
    TypeOK /\ ResultsKnown /\ [Next]_vars => JobType' /\ ResultsKnown' /\ AnswersStay
<1> SUFFICES ASSUME TypeOK, ResultsKnown, [Next]_vars
             PROVE  JobType' /\ ResultsKnown' /\ AnswersStay
  OBVIOUS
<1>0. JobType BY DEF TypeOK, JobType
<1>1. CASE UNCHANGED job BY <1>0, <1>1 DEF JobType, ResultsKnown, AnswersStay
<1>2. CASE \E p : job' = Revoked(p) BY <1>0, <1>2, JobsRevoked
<1>3. ASSUME NEW d \in Drivers, SendJob(d) PROVE JobType' /\ ResultsKnown' /\ AnswersStay
  <2>1. PICK prior \in BOOLEAN : job' = [job EXCEPT ![d].pc = "queued", ![d].prior = prior]
    <3>1. snapshot \in BOOLEAN /\ driver[d].prior \in BOOLEAN BY DEF TypeOK, DriverRecord
    <3> QED BY <1>3, <3>1 DEF SendJob
  <2>2. "queued" \in WorkerPC /\ "queued" \notin WithResult BY DEF WorkerPC, WithResult
  <2>3. [job[d] EXCEPT !.pc = "queued", !.prior = prior] \in JobRecord
    BY <1>0, <2>2 DEF JobType, JobRecord
  <2>4. job' = [job EXCEPT ![d] = [job[d] EXCEPT !.pc = "queued", !.prior = prior]]
    BY <1>0, <2>1 DEF JobType
  <2>5. job'[d].pc = "queued" /\ job'[d].res = job[d].res /\ job'[d].answered = job[d].answered
    BY <1>0, <2>4 DEF JobType, JobRecord
  <2>6. \A i \in Drivers \ {d} : job'[i] = job[i] BY <1>0, <2>4 DEF JobType
  <2> QED BY <1>0, <2>2, <2>3, <2>4, <2>5, <2>6 DEF ResultsKnown, AnswersStay, JobType
<1> QED BY <1>0, <1>1, <1>2, <1>3, JobUse, WorkerKeepsJobs

-----------------------------------------------------------------------------
(* The registries.  All coroutines of a process share the slot of the task,  *)
(* yet none can leave another's handle behind or take part of it away from    *)
(* its own: whoever stops waiting empties the slot.                           *)

OthersRest(d) == \A e \in Drivers \ {d} : driver'[e] = driver[e]

\* A coroutine changes only itself.
LEMMA StepIsOnes ==
    ASSUME DriverType, JobType, ResultsKnown, NEW d \in Drivers,
           \/ Step(d) \/ Deadline(d) \/ WaitExpires(d) \/ LockLost(d)
           \/ \E p \in Procs : Arrive(d, p)
    PROVE  OthersRest(d)
<1> USE DEF DriverType, OthersRest
<1>1. ASSUME NEW l, NEW how, Move(d, l, how) PROVE OthersRest(d) BY <1>1 DEF Move
<1>2. CASE Step(d)
  <2>1. CASE LookUp(d) \/ ReadCache(d) \/ CreateTask(d) \/ ReadTask(d) \/ ReadPrior(d)
    BY <1>1, <2>1 DEF LookUp, ReadCache, CreateTask, ReadTask, ReadPrior, Goto, End
  <2>2. CASE ClearCancelFlag(d) \/ ClearPauseFlag(d) \/ ResetTask(d) \/ InsertExecution(d)
             \/ CreateExecution(d)
    BY <1>1, <2>2 DEF ClearCancelFlag, ClearPauseFlag, ResetTask, InsertExecution,
                      CreateExecution, Goto, End
  <2>3. CASE SendJob(d) BY <2>3 DEF SendJob
  <2>4. CASE ReadResult(d)
    BY <1>1, <2>4, ReadResultWays DEF LeaveAwait, Goto
  <2>5. CASE SeesCancelFlag(d) \/ SaveSnapshot(d) \/ CompleteTask(d) \/ CompleteOutput(d)
             \/ CleanupZombie(d)
    BY <1>1, <2>5 DEF SeesCancelFlag, AwaitRevokes, SaveSnapshot, LeaveAwait, CompleteTask,
                      CompleteOutput, CleanupZombie, Goto
  <2>6. CASE SetPauseFlag(d) \/ RevokeTask(d) \/ PauseTask(d) \/ CaptureHandle(d)
             \/ WaitForWorker(d)
    BY <1>1, <2>6 DEF SetPauseFlag, RevokeTask, PauseTask, CaptureHandle, WaitForWorker, Goto, End
  <2>7. CASE SetCancelFlag(d) \/ RevokeActive(d) \/ CancelTask(d) \/ CancelNode(d)
    BY <1>1, <2>7 DEF SetCancelFlag, RevokeActive, CancelTask, CancelNode, Goto, End
  <2> QED BY <1>2, <2>1, <2>2, <2>3, <2>4, <2>5, <2>6, <2>7 DEF Step
<1>3. CASE Deadline(d) \/ WaitExpires(d) \/ LockLost(d)
  BY <1>1, <1>3 DEF Deadline, AwaitRevokes, LeaveAwait, WaitExpires, LockLost, AbortRun,
                    AbortRetry, CleanupLater, Goto, End
<1>4. ASSUME NEW p \in Procs, Arrive(d, p) PROVE OthersRest(d)
  BY <1>4 DEF Arrive, RunTask, RetryFresh, ContinueTask, RetryRestartTask, RetryTask, Retry,
              PauseRequest, ShutdownRequest, CancelRequest, Enter
<1> QED BY <1>2, <1>3, <1>4

\* What a coroutine does to its registry.
LEMMA HandleUse ==
    ASSUME DriverType, JobType, ResultsKnown, NEW d \in Drivers,
           \/ Step(d) \/ Deadline(d) \/ WaitExpires(d) \/ LockLost(d)
           \/ \E p \in Procs : Arrive(d, p)
    PROVE  \/ UNCHANGED handle /\ driver[d].pc \notin {"await", "save"}
           \/ UNCHANGED handle /\ At(d, "await") /\ Goto(d, "save")
           \/ Discard(d)
           \/ SendJob(d)
<1> USE DEF At
<1>2. CASE Step(d)
  <2>1. CASE LookUp(d) \/ ReadCache(d) \/ CreateTask(d) \/ ReadTask(d) \/ ReadPrior(d)
    BY <2>1 DEF LookUp, ReadCache, CreateTask, ReadTask, ReadPrior
  <2>2. CASE ClearCancelFlag(d) \/ ClearPauseFlag(d) \/ ResetTask(d) \/ InsertExecution(d)
             \/ CreateExecution(d)
    BY <2>2 DEF ClearCancelFlag, ClearPauseFlag, ResetTask, InsertExecution, CreateExecution
  <2>3. CASE ReadResult(d) BY <2>3, ReadResultWays DEF LeaveAwait, Discard
  <2>4. CASE SeesCancelFlag(d) \/ SaveSnapshot(d) \/ CompleteTask(d) \/ CompleteOutput(d)
             \/ CleanupZombie(d)
    BY <2>4 DEF SeesCancelFlag, AwaitRevokes, SaveSnapshot, LeaveAwait, CompleteTask,
                CompleteOutput, CleanupZombie, Discard
  <2>5. CASE SetPauseFlag(d) \/ RevokeTask(d) \/ PauseTask(d) \/ CaptureHandle(d)
             \/ WaitForWorker(d)
    BY <2>5 DEF SetPauseFlag, RevokeTask, PauseTask, CaptureHandle, WaitForWorker
  <2>6. CASE SetCancelFlag(d) \/ RevokeActive(d) \/ CancelTask(d) \/ CancelNode(d)
    BY <2>6 DEF SetCancelFlag, RevokeActive, CancelTask, CancelNode
  <2> QED BY <1>2, <2>1, <2>2, <2>3, <2>4, <2>5, <2>6 DEF Step
<1>3. CASE Deadline(d) \/ WaitExpires(d) \/ LockLost(d)
  BY <1>3 DEF Deadline, AwaitRevokes, LeaveAwait, WaitExpires, LockLost, AbortRun,
              AbortRetry, CleanupLater, DropHandle, Discard
<1>4. ASSUME NEW p \in Procs, Arrive(d, p)
      PROVE  UNCHANGED handle /\ driver[d].pc = "idle"
  BY <1>4 DEF Arrive, RunTask, RetryFresh, ContinueTask, RetryRestartTask, RetryTask, Retry,
              PauseRequest, ShutdownRequest, CancelRequest, Enter
<1> QED BY <1>2, <1>3, <1>4

\* A registry holds only what one of its coroutines polls for.
LEMMA NextKeepsHandles ==
    TypeOK /\ ResultsKnown /\ HandleMeansAwaiting /\ [Next]_vars
        => HandleType' /\ HandleMeansAwaiting'
<1> SUFFICES ASSUME TypeOK, ResultsKnown, HandleMeansAwaiting, [Next]_vars
             PROVE  HandleType' /\ HandleMeansAwaiting'
  OBVIOUS
<1>0. DriverType /\ HandleType /\ JobType BY DEF TypeOK, DriverType, HandleType, JobType
<1> USE DEF DriverType, HandleType, HandleMeansAwaiting
<1>1. ASSUME NEW d \in Drivers,
             \/ Step(d) \/ Deadline(d) \/ WaitExpires(d) \/ LockLost(d)
             \/ \E p \in Procs : Arrive(d, p)
      PROVE  HandleType' /\ HandleMeansAwaiting'
  <2>1. \A e \in Drivers : e # d => driver'[e] = driver[e]
    BY <1>0, <1>1, StepIsOnes DEF OthersRest
  <2>2. CASE UNCHANGED handle /\ driver[d].pc \notin {"await", "save"}
    BY <1>0, <2>1, <2>2
  <2>3. CASE UNCHANGED handle /\ At(d, "await") /\ Goto(d, "save")
    <3>1. driver'[d].proc = driver[d].proc /\ driver'[d].pc = "save"
      BY <1>0, <2>3 DEF Goto, Move, DriverRecord
    <3> QED BY <1>0, <2>1, <2>3, <3>1
  <2>4. CASE Discard(d)
    <3>1. \A p \in Procs : handle'[p] \in {handle[p], NoDriver} /\ handle'[p] # d
      BY <1>0, <2>4 DEF Discard
    <3>2. HandleType' BY <1>0, <2>4 DEF Discard
    <3>3. \A p \in Procs : handle'[p] # NoDriver =>
             handle'[p] = handle[p] /\ handle[p] \in Drivers /\ driver'[handle[p]] = driver[handle[p]]
      BY <1>0, <2>1, <3>1
    <3> QED BY <3>2, <3>3
  <2>5. CASE SendJob(d)
    <3>1. driver'[d].proc = driver[d].proc /\ driver'[d].pc = "await"
      BY <1>0, <2>5 DEF SendJob, DriverRecord
    <3>2. \A p \in Procs : handle'[p] = IF p = driver[d].proc THEN d ELSE handle[p]
      BY <1>0, <2>5 DEF SendJob
    <3>3. HandleType' BY <1>0, <2>5 DEF SendJob
    <3>4. At(d, "send") BY <2>5 DEF SendJob
    <3> QED BY <1>0, <2>1, <3>1, <3>2, <3>3, <3>4 DEF At
  <2> QED BY <1>0, <1>1, <2>2, <2>3, <2>4, <2>5, HandleUse
<1>2. ASSUME NEW j \in Drivers,
             Worker(j) \/ Terminate(j) \/ Redeliver(j) \/ DoRevoke(j) \/ DoPurge(j)
      PROVE  UNCHANGED <<handle, driver>>
  BY <1>2 DEF Worker, StartJob, RunHandler, PersistResult, PersistOutput, StreamToEnd,
              BreakStream, CheckPaused, CheckCancelled, InsertResponse, CombineThinking,
              StoreResult, Terminate, Redeliver, DoRevoke, DoPurge
<1>3. ASSUME NEW p \in Procs, Crash(p) PROVE HandleType' /\ HandleMeansAwaiting'
  <2>1. \A q \in Procs : handle'[q] = IF q = p THEN NoDriver ELSE handle[q]
    BY <1>0, <1>3 DEF Crash
  <2>2. \A e \in Drivers : driver[e].proc # p => driver'[e] = driver[e]
    BY <1>0, <1>3 DEF Crash
  <2>3. HandleType' BY <1>0, <1>3 DEF Crash
  <2> QED BY <1>0, <2>1, <2>2, <2>3
<1>4. CASE UNCHANGED <<handle, driver>> BY <1>0, <1>4
<1>5. CASE FlagExpires \/ UNCHANGED vars BY <1>4, <1>5 DEF FlagExpires, vars
<1> QED BY <1>1, <1>2, <1>3, <1>4, <1>5 DEF Next

-----------------------------------------------------------------------------
(* The row: all that any actor can do to its status.                         *)

StatusStep ==
    \/ UNCHANGED <<st, tries>>
    \/ st = "none" /\ st' = "running" /\ tries' = 1
    \/ st \in Retryable /\ st' = "running" /\ tries' = tries + 1
    \/ st = "running" /\ st' \in Terminal \union {"paused"} /\ tries' = tries
    \/ st = "paused" /\ st' = "cancelled" /\ tries' = tries

\* Only a driver or a job that has an answer writes it, to the latest execution.
OutputStep ==
    \/ UNCHANGED outputs
    \/ outputs' = <<NoDriver>>
    \/ outputs' = Append(outputs, NoDriver)
    \/ Output("error")
    \/ \E d \in Drivers : Output(d) /\ (driver[d].out = "ok" \/ job[d].res = "SUCCESS")

\* No other variable of the row is written except by the one who creates it.
OwnerStep == events' = events /\ view' = view /\ (creator' = creator \/ creator' \in Drivers)

\* Every step is one of those.
LEMMA EveryRowStep == [Next]_vars => StatusStep /\ OutputStep /\ OwnerStep
<1> SUFFICES ASSUME [Next]_vars PROVE StatusStep /\ OutputStep /\ OwnerStep
  OBVIOUS
<1> DEFINE Good == StatusStep /\ OutputStep /\ OwnerStep
<1>1. CASE UNCHANGED rowVars BY <1>1 DEF rowVars, StatusStep, OutputStep, OwnerStep
<1>2. ASSUME NEW d \in Drivers, Step(d) PROVE UNCHANGED rowVars \/ Good
  <2>1. CASE CreateTask(d) BY <2>1 DEF CreateTask, StatusStep, OutputStep, OwnerStep
  <2>2. CASE ResetTask(d) BY <2>2 DEF ResetTask, StatusStep, OutputStep, OwnerStep
  <2>3. CASE InsertExecution(d) BY <2>3 DEF InsertExecution, StatusStep, OutputStep, OwnerStep
  <2>4. CASE CompleteTask(d)
    BY <2>4 DEF CompleteTask, Settle, Open, Terminal, StatusStep, OutputStep, OwnerStep
  <2>5. CASE CompleteOutput(d)
    BY <2>5 DEF CompleteOutput, StatusStep, OutputStep, OwnerStep
  <2>6. CASE CleanupZombie(d)
    BY <2>6 DEF CleanupZombie, Open, Terminal, StatusStep, OutputStep, OwnerStep
  <2>7. CASE PauseTask(d) BY <2>7 DEF PauseTask, Open, StatusStep, OutputStep, OwnerStep
  <2>8. CASE CancelTask(d)
    BY <2>8 DEF CancelTask, Active, Terminal, StatusStep, OutputStep, OwnerStep
  <2>9. CASE LookUp(d) \/ ReadCache(d) \/ ReadTask(d) \/ ReadPrior(d) \/ ClearCancelFlag(d)
             \/ ClearPauseFlag(d) \/ SendJob(d)
    BY <2>9 DEF LookUp, ReadCache, ReadTask, ReadPrior, ClearCancelFlag, ClearPauseFlag, SendJob
  <2>10. CASE SeesCancelFlag(d) \/ ReadResult(d) \/ SaveSnapshot(d) \/ SetPauseFlag(d)
              \/ RevokeTask(d) \/ CaptureHandle(d) \/ WaitForWorker(d) \/ SetCancelFlag(d)
              \/ RevokeActive(d) \/ CancelNode(d)
    BY <2>10 DEF SeesCancelFlag, AwaitRevokes, ReadResult, SaveSnapshot, SetPauseFlag, RevokeTask,
                 CaptureHandle, WaitForWorker, SetCancelFlag, RevokeActive, CancelNode
  <2>11. CASE CreateExecution(d) BY <2>11 DEF CreateExecution, StatusStep, OutputStep, OwnerStep
  <2> QED BY <1>2, <2>1, <2>2, <2>3, <2>4, <2>5, <2>6, <2>7, <2>8, <2>9, <2>10, <2>11 DEF Step
<1>3. ASSUME NEW d \in Drivers, Deadline(d) \/ WaitExpires(d) \/ LockLost(d)
      PROVE  UNCHANGED rowVars \/ Good
  <2>1. CASE CleanupLater(d)
    BY <2>1 DEF CleanupLater, Open, Terminal, StatusStep, OutputStep, OwnerStep
  <2> QED BY <1>3, <2>1 DEF Deadline, AwaitRevokes, WaitExpires, LockLost, AbortRun, AbortRetry
<1>4. ASSUME NEW d \in Drivers, NEW p \in Procs, Arrive(d, p) PROVE UNCHANGED rowVars
  BY <1>4 DEF Arrive, RunTask, RetryFresh, ContinueTask, RetryRestartTask, RetryTask, Retry,
              PauseRequest, ShutdownRequest, CancelRequest
<1>5. ASSUME NEW j \in Drivers, Worker(j) PROVE UNCHANGED rowVars \/ Good
  <2>1. CASE PersistResult(j)
    BY <2>1 DEF PersistResult, Settle, Open, Terminal, StatusStep, OutputStep, OwnerStep
  <2>2. CASE PersistOutput(j) BY <2>2 DEF PersistOutput, StatusStep, OutputStep, OwnerStep
  <2>3. CASE ~PersistResult(j) /\ ~PersistOutput(j)
    BY <1>5, <2>3 DEF Worker, StartJob, RunHandler, StreamToEnd, BreakStream, CheckPaused,
                      CheckCancelled, InsertResponse, CombineThinking, StoreResult
  <2> QED BY <2>1, <2>2, <2>3
<1>6. ASSUME NEW j \in Drivers, Terminate(j) \/ Redeliver(j) \/ DoRevoke(j) \/ DoPurge(j)
      PROVE  UNCHANGED rowVars
  BY <1>6 DEF Terminate, Redeliver, DoRevoke, DoPurge
<1>7. CASE FlagExpires \/ UNCHANGED vars \/ \E p \in Procs : Crash(p)
  BY <1>7, <1>1 DEF FlagExpires, Crash, vars
<1> QED BY <1>1, <1>2, <1>3, <1>4, <1>5, <1>6, <1>7 DEF Next

\* Without an execution there is nothing to write to.
LEMMA WithoutExecution ==
    ASSUME NEW x, outputs = <<>>, Output(x)
    PROVE  outputs' = <<>>
BY DEF Output

\* They keep the type of the row.
LEMMA RowTyped ==
    ASSUME TypeOK, StatusStep, OutputStep, OwnerStep
    PROVE  RowType' /\ OutputsType'
<1> DEFINE Slots == Drivers \union {NoDriver, "error"}
<1>1. RowType'
  BY DEF TypeOK, RowType, StatusStep, OwnerStep, Statuses, Terminal
<1>2. ASSUME NEW x \in Slots, Output(x) PROVE outputs' \in Seq(Slots)
  <2>1. outputs \in Seq(Slots) BY DEF TypeOK
  <2>2. CASE outputs = <<>>
    <3>1. outputs' = <<>> BY <1>2, <2>2, WithoutExecution
    <3> QED BY <3>1
  <2>3. CASE outputs # <<>>
    <3>1. outputs' = [outputs EXCEPT ![Len(outputs)] = x] BY <1>2, <2>3 DEF Output
    <3>2. Len(outputs) \in 1..Len(outputs) BY <2>1, <2>3
    <3> QED BY <1>2, <2>1, <3>1, <3>2, ExceptSeq
  <2> QED BY <2>2, <2>3
<1>3. outputs \in Seq(Slots) BY DEF TypeOK
<1>4. outputs' \in Seq(Slots)
  <2>1. CASE UNCHANGED outputs BY <1>3, <2>1
  <2>2. CASE outputs' = <<NoDriver>> BY <2>2
  <2>3. CASE outputs' = Append(outputs, NoDriver) BY <1>3, <2>3
  <2>4. CASE \E x \in Slots : Output(x) BY <1>2, <2>4
  <2> QED BY <2>1, <2>2, <2>3, <2>4 DEF OutputStep
<1> QED BY <1>1, <1>4 DEF OutputsType

\* Flags, snapshot and thinking keep their types.
LEMMA NextKeepsFlags == TypeOK /\ [Next]_vars => FlagType'
<1> SUFFICES ASSUME TypeOK, [Next]_vars PROVE FlagType'
  OBVIOUS
<1>0. FlagType BY DEF TypeOK, FlagType
<1>1. CASE UNCHANGED <<thinking, redisVars>> BY <1>0, <1>1 DEF redisVars, FlagType
<1>2. ASSUME NEW d \in Drivers, Step(d) PROVE UNCHANGED <<thinking, redisVars>> \/ FlagType'
  <2>1. CASE ClearCancelFlag(d) \/ ClearPauseFlag(d) \/ SaveSnapshot(d)
    BY <1>0, <2>1 DEF ClearCancelFlag, ClearPauseFlag, SaveSnapshot, FlagType
  <2>2. CASE SetPauseFlag(d) \/ SetCancelFlag(d) \/ CancelNode(d)
    BY <1>0, <2>2 DEF SetPauseFlag, SetCancelFlag, CancelNode, FlagType
  <2>3. CASE LookUp(d) \/ ReadCache(d) \/ CreateTask(d) \/ ReadTask(d) \/ ReadPrior(d)
             \/ ResetTask(d) \/ InsertExecution(d) \/ CreateExecution(d) \/ SendJob(d)
    BY <2>3 DEF LookUp, ReadCache, CreateTask, ReadTask, ReadPrior, ResetTask, InsertExecution,
                CreateExecution, SendJob
  <2>4. CASE SeesCancelFlag(d) \/ ReadResult(d) \/ CompleteTask(d) \/ CompleteOutput(d)
             \/ CleanupZombie(d) \/ RevokeTask(d) \/ PauseTask(d) \/ CaptureHandle(d)
             \/ WaitForWorker(d) \/ RevokeActive(d) \/ CancelTask(d)
    BY <2>4 DEF SeesCancelFlag, AwaitRevokes, ReadResult, CompleteTask, CompleteOutput,
                CleanupZombie, RevokeTask, PauseTask, CaptureHandle, WaitForWorker, RevokeActive,
                CancelTask
  <2> QED BY <1>2, <2>1, <2>2, <2>3, <2>4 DEF Step
<1>3. ASSUME NEW d \in Drivers, Deadline(d) \/ WaitExpires(d) \/ LockLost(d)
      PROVE  UNCHANGED <<thinking, redisVars>>
  BY <1>3 DEF Deadline, AwaitRevokes, WaitExpires, LockLost, AbortRun, AbortRetry, CleanupLater
<1>4. ASSUME NEW d \in Drivers, NEW p \in Procs, Arrive(d, p)
      PROVE  UNCHANGED <<thinking, redisVars>>
  BY <1>4 DEF Arrive, RunTask, RetryFresh, ContinueTask, RetryRestartTask, RetryTask, Retry,
              PauseRequest, ShutdownRequest, CancelRequest
<1>5. ASSUME NEW j \in Drivers, Worker(j) PROVE UNCHANGED <<thinking, redisVars>> \/ FlagType'
  BY <1>0, <1>5 DEF Worker, StartJob, RunHandler, PersistResult, PersistOutput, StreamToEnd,
       BreakStream, CheckPaused, CheckCancelled, InsertResponse, CombineThinking, StoreResult,
       redisVars, FlagType
<1>6. ASSUME NEW j \in Drivers, Terminate(j) \/ Redeliver(j) \/ DoRevoke(j) \/ DoPurge(j)
      PROVE  UNCHANGED <<thinking, redisVars>>
  BY <1>6 DEF Terminate, Redeliver, DoRevoke, DoPurge
<1>7. CASE FlagExpires BY <1>0, <1>7 DEF FlagExpires, FlagType
<1>8. CASE UNCHANGED vars \/ \E p \in Procs : Crash(p) BY <1>8, <1>1 DEF Crash, vars
<1> QED BY <1>1, <1>2, <1>3, <1>4, <1>5, <1>6, <1>7, <1>8 DEF Next

-----------------------------------------------------------------------------
(* The coroutines: what they make of a result.  try and out are the history   *)
(* SettledWhenReturned and AnswersAreEarned speak of.                          *)

Ending == {"write", "output", "over", "zombie"}

\* Nobody has an outcome before it has left the poll loop, and a zombie is dead.
OutcomesLate ==
    \A d \in Drivers : /\ driver[d].pc \notin Ending => driver[d].out = "none"
                       /\ driver[d].pc = "zombie" => driver[d].out = "dead"
                       /\ driver[d].pc = "idle" => driver[d].try = 0

SameTry(d) == driver'[d].try = driver[d].try

\* d leaves the poll loop; with ok only for a result that says so.
Leaves(d, how) ==
    /\ driver[d].pc \in {"await", "save"}
    /\ driver'[d].pc = AfterAwait(d, how) /\ driver'[d].out = how
    /\ how = "ok" => job[d].pc = "stored" /\ job[d].res = "SUCCESS"

\* d writes the outcome; afterwards the task is not running.
Writes(d) ==
    /\ CompleteTask(d) \/ CompleteOutput(d)
    /\ driver'[d].pc \in {"output", "over"} /\ driver'[d].out = driver[d].out

DriverStep(d) ==
    \/ driver'[d] = driver[d]
    \/ SendJob(d) /\ driver'[d].pc = "await" /\ driver'[d].out = "none"
    \/ /\ SameTry(d)
       /\ \/ /\ driver'[d].pc \notin Ending \union {"idle"} /\ driver'[d].out = "none"
             /\ driver'[d].pc = "execute" => CreateTask(d)
          \/ At(d, "over") /\ driver'[d].pc = "over" /\ driver'[d].out = driver[d].out
          \/ driver'[d].pc = "over" /\ driver'[d].out = "none"
          \/ driver'[d].pc \in {"zombie", "over"} /\ driver'[d].out = "dead"
          \/ \E how \in {"ok", "error", "paused"} : Leaves(d, how)
          \/ Writes(d)

\* Where a coroutine is after it moved.
LEMMA MoveMoves ==
    ASSUME DriverType, NEW d \in Drivers, NEW l, NEW how, Move(d, l, how)
    PROVE  driver'[d].pc = l /\ driver'[d].out = how /\ SameTry(d)
<1>1. CASE l = "over" BY <1>1 DEF Move, DriverType, DriverRecord, Idle, SameTry
<1>2. CASE l # "over" BY <1>2 DEF Move, DriverType, DriverRecord, SameTry
<1> QED BY <1>1, <1>2

\* An arrival is such a step.
LEMMA ArriveMoves ==
    ASSUME DriverType, OutcomesLate, NEW d \in Drivers, NEW p \in Procs, Arrive(d, p)
    PROVE  DriverStep(d)
<1>1. ASSUME NEW k, NEW l, Enter(d, p, k, l), l \notin Ending \union {"idle", "execute"}
      PROVE  DriverStep(d)
  <2>1. driver'[d].pc = l /\ driver'[d].out = "none" /\ driver'[d].try = 0
    BY <1>1 DEF Enter, Idle, DriverType
  <2> QED BY <1>1, <2>1 DEF Enter, DriverStep, SameTry, OutcomesLate
<1>2. ASSUME NEW c, Retry(d, p, c) PROVE DriverStep(d)
  <2>1. driver'[d].pc = "read" /\ driver'[d].out = "none" /\ driver'[d].try = 0
    BY <1>2 DEF Retry, Idle, DriverType
  <2> QED BY <1>2, <2>1 DEF Retry, DriverStep, SameTry, OutcomesLate, Ending
<1>3. CASE RunTask(d, p) BY <1>1, <1>3 DEF RunTask, Ending
<1>4. CASE RetryFresh(d, p) BY <1>1, <1>2, <1>4 DEF RetryFresh, Ending
<1>5. CASE ContinueTask(d, p) BY <1>2, <1>5 DEF ContinueTask
<1>6. CASE RetryRestartTask(d, p) BY <1>2, <1>6 DEF RetryRestartTask
<1>7. CASE RetryTask(d, p) BY <1>2, <1>7 DEF RetryTask
<1>8. CASE PauseRequest(d, p) BY <1>1, <1>8 DEF PauseRequest, Ending
<1>9. CASE ShutdownRequest(d, p) BY <1>1, <1>9 DEF ShutdownRequest, Ending
<1>10. CASE CancelRequest(d, p) BY <1>1, <1>10 DEF CancelRequest, Ending
<1> QED BY <1>3, <1>4, <1>5, <1>6, <1>7, <1>8, <1>9, <1>10 DEF Arrive

\* So is what a coroutine does next.
LEMMA StepMoves ==
    ASSUME TypeOK, ResultsKnown, OutcomesLate, NEW d \in Drivers,
           Step(d) \/ Deadline(d) \/ WaitExpires(d) \/ LockLost(d)
    PROVE  DriverStep(d)
<1>0. DriverType /\ JobType /\ driver[d] \in DriverRecord
  BY DEF TypeOK, DriverType, JobType
<1>1. ASSUME NEW l, Goto(d, l), l \notin Ending \union {"idle", "execute"},
             driver[d].pc \notin Ending
      PROVE  DriverStep(d)
  BY <1>0, <1>1, MoveMoves DEF Goto, DriverStep, OutcomesLate
<1>2. ASSUME Goto(d, "over"), driver[d].pc \notin Ending PROVE DriverStep(d)
  BY <1>0, <1>2, MoveMoves DEF Goto, DriverStep, OutcomesLate
<1>3. ASSUME End(d, "none") PROVE DriverStep(d)
  BY <1>0, <1>3, MoveMoves DEF End, DriverStep
<1>4. ASSUME NEW how \in {"ok", "error", "paused"}, LeaveAwait(d, how),
             driver[d].pc \in {"await", "save"},
             how = "ok" => job[d].pc = "stored" /\ job[d].res = "SUCCESS"
      PROVE  DriverStep(d)
  <2>1. driver'[d].pc = AfterAwait(d, how) /\ driver'[d].out = how /\ SameTry(d)
    BY <1>0, <1>4, MoveMoves DEF LeaveAwait
  <2> QED BY <1>4, <2>1 DEF DriverStep, Leaves
<1>5. ASSUME NEW l, l \notin Ending \union {"idle", "execute"},
             driver' = [driver EXCEPT ![d].seen = st, ![d].pc = l], driver[d].pc \notin Ending
      PROVE  DriverStep(d)
  <2>1. driver'[d].pc = l /\ driver'[d].out = driver[d].out /\ driver'[d].try = driver[d].try
    BY <1>0, <1>5 DEF DriverType, DriverRecord
  <2> QED BY <1>5, <2>1 DEF DriverStep, SameTry, OutcomesLate
<1>6. CASE LookUp(d)
  <2>1. driver[d].pc \notin Ending BY <1>6 DEF LookUp, At, Ending
  <2>2. End(d, "none") \/ \E l \in {"create", "cache", "reset"} :
          driver' = [driver EXCEPT ![d].seen = st, ![d].pc = l]
    BY <1>6 DEF LookUp
  <2> QED BY <1>3, <1>5, <2>1, <2>2 DEF Ending
<1>7. CASE ReadCache(d) BY <1>1, <1>2, <1>7 DEF ReadCache, At, Ending
<1>8. CASE CreateTask(d)
  <2>1. driver'[d].pc = "execute" /\ driver'[d].out = driver[d].out /\ SameTry(d)
    BY <1>0, <1>8, MoveMoves DEF CreateTask, Goto
  <2>2. driver[d].pc = "create" BY <1>8 DEF CreateTask, At
  <2> QED BY <1>8, <2>1, <2>2 DEF DriverStep, OutcomesLate, Ending
<1>9. CASE ReadTask(d)
  <2>1. driver[d].pc \notin Ending BY <1>9 DEF ReadTask, At, Ending
  <2>2. End(d, "none") \/ \E l \in {"prior", "uncancel"} :
          driver' = [driver EXCEPT ![d].seen = st, ![d].pc = l]
    BY <1>9 DEF ReadTask
  <2> QED BY <1>3, <1>5, <2>1, <2>2 DEF Ending
<1>10. CASE ReadPrior(d)
  <2>1. driver[d].pc \notin Ending BY <1>10 DEF ReadPrior, At, Ending
  <2>2. CASE driver' = [driver EXCEPT ![d].prior = TRUE, ![d].pc = "uncancel"]
    <3>1. /\ driver'[d].pc = "uncancel" /\ driver'[d].out = driver[d].out
          /\ driver'[d].try = driver[d].try
      BY <1>0, <2>2 DEF DriverType, DriverRecord
    <3> QED BY <2>1, <3>1 DEF DriverStep, SameTry, OutcomesLate, Ending
  <2> QED BY <1>3, <1>10, <2>2 DEF ReadPrior
<1>11. CASE ClearCancelFlag(d) BY <1>1, <1>11 DEF ClearCancelFlag, At, Ending
<1>12. CASE ClearPauseFlag(d) BY <1>1, <1>12 DEF ClearPauseFlag, At, Ending
<1>13. CASE ResetTask(d)
  BY <1>1, <1>3, <1>13 DEF ResetTask, AfterReset, At, Ending
<1>14. CASE InsertExecution(d) BY <1>1, <1>14 DEF InsertExecution, AfterReset, At, Ending
<1>15. CASE SendJob(d)
  <2>1. driver'[d].pc = "await" /\ driver'[d].out = "none"
    BY <1>0, <1>15 DEF SendJob, Idle, DriverType, DriverRecord
  <2> QED BY <1>15, <2>1 DEF DriverStep, SendJob, At, OutcomesLate, Ending
<1>16. CASE SeesCancelFlag(d) \/ Deadline(d)
  BY <1>4, <1>16 DEF SeesCancelFlag, Deadline, AwaitRevokes, At
<1>17. CASE ReadResult(d)
  <2>1. At(d, "await") /\ job[d].pc = "stored" BY <1>17 DEF ReadResult
  <2> QED BY <1>0, <1>1, <1>4, <1>17, <2>1, ReadResultWays DEF At, Ending
<1>18. CASE SaveSnapshot(d) BY <1>4, <1>18 DEF SaveSnapshot, At
<1>19. CASE CompleteTask(d) \/ CompleteOutput(d)
  <2>1. driver'[d].pc \in {"output", "over"} /\ driver'[d].out = driver[d].out /\ SameTry(d)
    BY <1>0, <1>19, MoveMoves DEF CompleteTask, CompleteOutput, Goto
  <2> QED BY <1>19, <2>1 DEF DriverStep, Writes
<1>20. CASE CleanupZombie(d)
  <2>1. driver'[d].pc = "over" /\ driver'[d].out = driver[d].out /\ SameTry(d)
    BY <1>0, <1>20, MoveMoves DEF CleanupZombie, Goto
  <2> QED BY <1>20, <2>1 DEF DriverStep, CleanupZombie, At, OutcomesLate
<1>21. CASE SetPauseFlag(d) BY <1>1, <1>21 DEF SetPauseFlag, At, Ending
<1>22. CASE RevokeTask(d) BY <1>1, <1>3, <1>22 DEF RevokeTask, At, Ending
<1>23. CASE PauseTask(d) BY <1>1, <1>3, <1>23 DEF PauseTask, At, Ending
<1>24. CASE CaptureHandle(d)
  <2>1. driver[d].pc \notin Ending BY <1>24 DEF CaptureHandle, At, Ending
  <2>2. /\ driver'[d].pc = "wait" /\ driver'[d].out = driver[d].out
        /\ driver'[d].try = driver[d].try
    BY <1>0, <1>24 DEF CaptureHandle, DriverType, DriverRecord
  <2> QED BY <2>1, <2>2 DEF DriverStep, SameTry, OutcomesLate, Ending
<1>25. CASE WaitForWorker(d) \/ WaitExpires(d)
  BY <1>1, <1>25 DEF WaitForWorker, WaitExpires, At, Ending
<1>26. CASE SetCancelFlag(d) BY <1>1, <1>26 DEF SetCancelFlag, At, Ending
<1>27. CASE RevokeActive(d) BY <1>1, <1>27 DEF RevokeActive, At, Ending
<1>28. CASE CancelTask(d) BY <1>1, <1>3, <1>28 DEF CancelTask, At, Ending
<1>29. CASE CancelNode(d) BY <1>3, <1>29 DEF CancelNode
<1>30. CASE AbortRun(d)
  <2>1. driver'[d].pc = "zombie" /\ driver'[d].out = "dead" /\ SameTry(d)
    BY <1>0, <1>30 DEF AbortRun, DriverType, DriverRecord, SameTry
  <2> QED BY <2>1 DEF DriverStep
<1>31. CASE AbortRetry(d)
  <2>1. driver'[d].pc = "over" /\ driver'[d].out = "dead" /\ SameTry(d)
    BY <1>0, <1>31, MoveMoves DEF AbortRetry, End
  <2> QED BY <2>1 DEF DriverStep
<1>32. CASE CleanupLater(d)
  <2>1. driver'[d].pc = "over" /\ driver'[d].out = driver[d].out /\ SameTry(d)
    BY <1>0, <1>32 DEF CleanupLater, At, DriverType, DriverRecord, SameTry
  <2> QED BY <1>32, <2>1 DEF DriverStep, CleanupLater
<1>33. CASE CreateExecution(d) BY <1>1, <1>33 DEF CreateExecution, At, Ending
<1> QED BY <1>6, <1>7, <1>8, <1>9, <1>10, <1>11, <1>12, <1>13, <1>14, <1>15, <1>16, <1>17, <1>18,
           <1>19, <1>20, <1>21, <1>22, <1>23, <1>24, <1>25, <1>26, <1>27, <1>28, <1>29, <1>30,
           <1>31, <1>32, <1>33
        DEF Step, LockLost

\* So is all that happens to a coroutine.
LEMMA EveryDriverStep ==
    TypeOK /\ ResultsKnown /\ OutcomesLate /\ [Next]_vars => \A d \in Drivers : DriverStep(d)
<1> SUFFICES ASSUME TypeOK, ResultsKnown, OutcomesLate, [Next]_vars, NEW e \in Drivers
             PROVE  DriverStep(e)
  OBVIOUS
<1>0. DriverType /\ JobType BY DEF TypeOK, DriverType, JobType
<1>1. ASSUME NEW d \in Drivers,
             \/ Step(d) \/ Deadline(d) \/ WaitExpires(d) \/ LockLost(d)
             \/ \E p \in Procs : Arrive(d, p)
      PROVE  DriverStep(e)
  <2>1. CASE e = d BY <1>0, <1>1, <2>1, StepMoves, ArriveMoves
  <2>2. CASE e # d BY <1>0, <1>1, <2>2, StepIsOnes DEF OthersRest, DriverStep
  <2> QED BY <2>1, <2>2
<1>2. ASSUME NEW j \in Drivers,
             Worker(j) \/ Terminate(j) \/ Redeliver(j) \/ DoRevoke(j) \/ DoPurge(j)
      PROVE  UNCHANGED driver
  BY <1>2 DEF Worker, StartJob, RunHandler, PersistResult, PersistOutput, StreamToEnd,
              BreakStream, CheckPaused, CheckCancelled, InsertResponse, CombineThinking,
              StoreResult, Terminate, Redeliver, DoRevoke, DoPurge
<1>3. ASSUME NEW p \in Procs, Crash(p) PROVE DriverStep(e)
  <2>1. \/ driver'[e] = driver[e]
        \/ /\ driver'[e].pc = "over" /\ SameTry(e)
           /\ driver'[e].out = IF At(e, "over") THEN driver[e].out ELSE "dead"
    BY <1>3 DEF Crash, Idle, SameTry
  <2> QED BY <2>1 DEF DriverStep
<1>4. CASE UNCHANGED driver BY <1>4 DEF DriverStep
<1>5. CASE FlagExpires \/ UNCHANGED vars BY <1>4, <1>5 DEF FlagExpires, vars
<1> QED BY <1>1, <1>2, <1>3, <1>4, <1>5 DEF Next

\* Outcomes come late, whatever happens.
LEMMA NextKeepsOutcomes ==
    TypeOK /\ ResultsKnown /\ OutcomesLate /\ [Next]_vars => OutcomesLate'
<1> SUFFICES ASSUME TypeOK, ResultsKnown, OutcomesLate, [Next]_vars, NEW d \in Drivers
             PROVE  /\ driver'[d].pc \notin Ending => driver'[d].out = "none"
                    /\ driver'[d].pc = "zombie" => driver'[d].out = "dead"
                    /\ driver'[d].pc = "idle" => driver'[d].try = 0
  BY DEF OutcomesLate
<1>1. DriverStep(d) BY EveryDriverStep
<1>2. CASE driver'[d] = driver[d] BY <1>2 DEF OutcomesLate
<1>3. CASE \E how \in {"ok", "error", "paused"} : Leaves(d, how)
  BY <1>3 DEF Leaves, AfterAwait, Ending
<1>4. CASE Writes(d) BY <1>4 DEF Writes, Ending
<1>5. CASE driver'[d].pc \notin {"idle", "zombie"} /\ driver'[d].out = "none" BY <1>5
<1>6. CASE driver'[d].pc \in {"zombie", "over"} /\ driver'[d].out = "dead" BY <1>6 DEF Ending
<1>7. CASE driver'[d].pc = "over" BY <1>7 DEF Ending
<1> QED BY <1>1, <1>2, <1>3, <1>4, <1>5, <1>6, <1>7 DEF DriverStep, Ending

-----------------------------------------------------------------------------
(* A try is settled before its caller goes on.                               *)

UntriedWithoutRow == st = "none" <=> tries = 0
TriesPast == \A d \in Drivers : driver[d].try <= tries

\* A completion does not stream.
NoStream ==
    view = "ToolCall" =>
        \A j \in Drivers : job[j].pc \notin {"stream", "drained", "streamed", "respond", "combine"}

\* The worker of a completion has settled its try, be it as completed or by
\* finding it settled, when its result can be read.
Persisted == {"persistOutput", "finish", "stored"}
WorkerSettles ==
    view = "ToolCall" =>
        \A d \in Drivers :
            job[d].pc \in Persisted /\ job[d].res = "SUCCESS" /\ driver[d].try = tries
                => st # "running"

\* The driver of every other delegation settles it before it goes on.
DriverSettles ==
    \A d \in Drivers :
        driver[d].pc \in {"output", "over"} /\ driver[d].out \in {"ok", "error"}
            => driver[d].try # tries \/ st # "running"

\* Nothing opens a settled try again.
LEMMA StaysSettled ==
    ASSUME TypeOK, UntriedWithoutRow, StatusStep, NEW n \in Nat, n <= tries,
           n = tries => st # "running", n = tries'
    PROVE  st' # "running"
BY DEF TypeOK, UntriedWithoutRow, StatusStep, Terminal

\* Tries are only counted up.
LEMMA NextKeepsTries ==
    TypeOK /\ ResultsKnown /\ OutcomesLate /\ UntriedWithoutRow /\ TriesPast /\ [Next]_vars
        => UntriedWithoutRow' /\ TriesPast'
<1> SUFFICES ASSUME TypeOK, ResultsKnown, OutcomesLate, UntriedWithoutRow, TriesPast, [Next]_vars
             PROVE  UntriedWithoutRow' /\ TriesPast'
  OBVIOUS
<1>1. StatusStep BY EveryRowStep
<1>2. UntriedWithoutRow'
  <2>1. CASE UNCHANGED <<st, tries>> BY <2>1 DEF UntriedWithoutRow
  <2>2. CASE st' # "none" /\ st = "none" /\ tries' = 1 BY <2>2 DEF UntriedWithoutRow
  <2>3. CASE st' # "none" /\ st # "none" /\ tries' \in {tries, tries + 1}
    <3>1. tries \in Nat /\ tries # 0 BY <2>3 DEF TypeOK, UntriedWithoutRow
    <3> QED BY <2>3, <3>1 DEF UntriedWithoutRow
  <2> QED BY <1>1, <2>1, <2>2, <2>3 DEF StatusStep, Terminal, Retryable
<1>3. tries \in Nat /\ tries' \in Nat /\ tries <= tries'
  BY <1>1 DEF TypeOK, StatusStep, UntriedWithoutRow
<1>4. ASSUME NEW d \in Drivers PROVE driver'[d].try <= tries'
  <2>1. driver[d].try \in Nat /\ driver[d].try <= tries BY DEF TypeOK, DriverRecord, TriesPast
  <2>2. DriverStep(d) BY EveryDriverStep
  <2>3. CASE SendJob(d)
    <3>1. driver'[d].try = tries /\ tries' = tries
      BY <2>3 DEF SendJob, rowVars, TypeOK, DriverRecord
    <3> QED BY <3>1, <1>3
  <2>4. CASE driver'[d].try = driver[d].try BY <1>3, <2>1, <2>4
  <2> QED BY <2>2, <2>3, <2>4 DEF DriverStep, SameTry
<1> QED BY <1>2, <1>4 DEF TriesPast

\* In a completion a result that can be read was persisted.
LEMMA CompletionSteps ==
    ASSUME JobType, NoStream, view = "ToolCall", [Next]_vars, NEW i \in Drivers
    PROVE  /\ job'[i].pc \notin {"stream", "drained", "streamed", "respond", "combine"}
           /\ job'[i].pc \in Persisted /\ job'[i].res = "SUCCESS"
                => \/ PersistResult(i)
                   \/ job[i].pc \in Persisted /\ job[i].res = "SUCCESS" /\ job'[i].pc # "queued"
<1> USE DEF Persisted
<1> DEFINE Streams == {"stream", "drained", "streamed", "respond", "combine"}
           Goal == /\ job'[i].pc \notin Streams
                   /\ job'[i].pc \in Persisted /\ job'[i].res = "SUCCESS"
                        => \/ PersistResult(i)
                           \/ job[i].pc \in Persisted /\ job[i].res = "SUCCESS"
                              /\ job'[i].pc # "queued"
<1>0. job[i].pc \notin Streams BY DEF NoStream
<1>1. CASE job'[i].pc = job[i].pc /\ job'[i].res = job[i].res BY <1>0, <1>1
<1>2. ASSUME NEW j \in Drivers, Worker(j) PROVE Goal
  <2>1. CASE i # j
    BY <1>1, <1>2, <2>1 DEF Worker, StartJob, RunHandler, PersistResult, PersistOutput, StreamToEnd,
         BreakStream, CheckPaused, CheckCancelled, InsertResponse, CombineThinking, StoreResult,
         Finish, WorkerGoto, JobType
  <2>2. CASE i = j
    <3>1. CASE StartJob(i) BY <3>1 DEF StartJob, WorkerGoto, JobType, JobRecord
    <3>2. CASE RunHandler(i) BY <3>2 DEF RunHandler, Finish, JobType, JobRecord
    <3>3. CASE PersistResult(i)
      BY <3>3 DEF PersistResult, WorkerGoto, JobType, JobRecord
    <3>4. CASE PersistOutput(i) BY <3>4 DEF PersistOutput, WorkerGoto, JobType, JobRecord
    <3>5. CASE StoreResult(i) BY <3>5 DEF StoreResult, WorkerGoto, JobType, JobRecord
    <3>6. ~(StreamToEnd(i) \/ BreakStream(i) \/ CheckPaused(i) \/ CheckCancelled(i)
            \/ InsertResponse(i) \/ CombineThinking(i))
      BY <1>0 DEF StreamToEnd, BreakStream, CheckPaused, CheckCancelled, InsertResponse,
                  CombineThinking
    <3> QED BY <1>2, <2>2, <3>1, <3>2, <3>3, <3>4, <3>5, <3>6 DEF Worker
  <2> QED BY <2>1, <2>2
<1>3. ASSUME NEW j \in Drivers, Terminate(j) \/ Redeliver(j) \/ DoRevoke(j) \/ DoPurge(j) PROVE Goal
  <2>1. CASE i # j
    BY <1>1, <1>3, <2>1 DEF Terminate, Redeliver, DoRevoke, DoPurge, Finish, WorkerGoto, JobType
  <2>2. CASE i = j /\ Terminate(j) BY <2>2 DEF Terminate, Finish, JobType, JobRecord
  <2>3. CASE i = j /\ Redeliver(j) BY <2>3 DEF Redeliver, JobType, JobRecord
  <2>4. CASE i = j /\ DoRevoke(j) BY <1>1, <2>4 DEF DoRevoke, JobType, JobRecord
  <2>5. CASE i = j /\ DoPurge(j) BY <2>5 DEF DoPurge, WorkerGoto, JobType, JobRecord
  <2> QED BY <1>3, <2>1, <2>2, <2>3, <2>4, <2>5
<1>4. CASE UNCHANGED job BY <1>1, <1>4
<1>5. CASE \E p : job' = Revoked(p) BY <1>1, <1>5, RevokedTyped
<1>6. ASSUME NEW d \in Drivers, SendJob(d) PROVE Goal
  <2>1. CASE i = d BY <1>6, <2>1 DEF SendJob, JobType, JobRecord
  <2>2. CASE i # d BY <1>1, <1>6, <2>2 DEF SendJob, JobType
  <2> QED BY <2>1, <2>2
<1>7. \/ UNCHANGED job \/ \E p : job' = Revoked(p)
      \/ \E d \in Drivers : SendJob(d)
      \/ \E j \in Drivers : Worker(j) \/ Terminate(j) \/ Redeliver(j) \/ DoRevoke(j) \/ DoPurge(j)
  BY JobUse
<1> QED BY <1>2, <1>3, <1>4, <1>5, <1>6, <1>7

\* The three facts are kept together: a driver relies on its worker.
LEMMA NextSettles ==
    ASSUME TypeOK, ResultsKnown, OutcomesLate, UntriedWithoutRow, TriesPast, NoStream,
           WorkerSettles, DriverSettles, [Next]_vars
    PROVE  NoStream' /\ WorkerSettles' /\ DriverSettles'
<1>0. /\ JobType /\ StatusStep /\ view' = view
      /\ \A d \in Drivers : driver[d].try \in Nat /\ driver[d].try <= tries
  BY EveryRowStep DEF TypeOK, JobType, OwnerStep, DriverRecord, TriesPast
<1>1. NoStream' BY <1>0, CompletionSteps DEF NoStream
<1>2. WorkerSettles'
  <2> SUFFICES ASSUME view = "ToolCall", NEW d \in Drivers, job'[d].pc \in Persisted,
                      job'[d].res = "SUCCESS", driver'[d].try = tries'
               PROVE  st' # "running"
    BY <1>0 DEF WorkerSettles
  <2>1. CASE PersistResult(d)
    BY <2>1 DEF PersistResult, Settle, Open
  <2>2. CASE job[d].pc \in Persisted /\ job[d].res = "SUCCESS"
    <3>1. ~SendJob(d)
      <4> SUFFICES ASSUME SendJob(d) PROVE FALSE
        OBVIOUS
      <4>1. job'[d].pc = "queued" BY <1>0 DEF SendJob, JobType, JobRecord
      <4> QED BY <4>1 DEF Persisted
    <3>2. driver'[d].try = driver[d].try
      BY <3>1, EveryDriverStep DEF DriverStep, SameTry
    <3> QED BY <1>0, <2>2, <3>2, StaysSettled DEF WorkerSettles
  <2> QED BY <1>0, <2>1, <2>2, CompletionSteps
<1>3. DriverSettles'
  <2> SUFFICES ASSUME NEW d \in Drivers, driver'[d].pc \in {"output", "over"},
                      driver'[d].out \in {"ok", "error"}, driver'[d].try = tries'
               PROVE  st' # "running"
    BY DEF DriverSettles
  <2>1. DriverStep(d) BY EveryDriverStep
  <2>2. CASE driver'[d] = driver[d] BY <1>0, <2>2, StaysSettled DEF DriverSettles
  <2>3. ASSUME SameTry(d), NEW how \in {"ok", "error", "paused"}, Leaves(d, how)
        PROVE  st' # "running"
    <3>1. how = "ok" /\ view = "ToolCall" BY <2>3 DEF Leaves, AfterAwait
    <3>2. driver[d].try = tries => st # "running"
      BY <2>3, <3>1 DEF Leaves, WorkerSettles, Persisted
    <3> QED BY <1>0, <2>3, <3>2, StaysSettled DEF SameTry
  <2>4. CASE SameTry(d) /\ Writes(d)
    <3>1. CASE CompleteTask(d) BY <3>1 DEF CompleteTask, Settle, Open
    <3>2. CASE CompleteOutput(d)
      <4>1. driver[d].pc = "output" BY <3>2 DEF CompleteOutput, At
      <4>2. driver[d].try = tries => st # "running"
        BY <2>4, <4>1 DEF DriverSettles, Writes
      <4> QED BY <1>0, <2>4, <4>2, StaysSettled DEF SameTry
    <3> QED BY <2>4, <3>1, <3>2 DEF Writes
  <2>5. CASE SameTry(d) /\ At(d, "over") /\ driver'[d].out = driver[d].out
    <3>1. driver[d].try = tries => st # "running" BY <2>5 DEF DriverSettles, At
    <3> QED BY <1>0, <2>5, <3>1, StaysSettled DEF SameTry
  <2> QED BY <2>1, <2>2, <2>3, <2>4, <2>5 DEF DriverStep, Ending
<1> QED BY <1>1, <1>2, <1>3

-----------------------------------------------------------------------------
(* An answer comes from a job that gave one.                                 *)

\* No step makes up an answer.
LEMMA NextAnswers ==
    ASSUME TypeOK, ResultsKnown, OutcomesLate, AnswersAreEarned, [Next]_vars
    PROVE  AnswersAreEarned'
<1>0. AnswersStay /\ OutputStep BY NextKeepsJobs, EveryRowStep
<1>1. ASSUME NEW d \in Drivers, driver'[d].out = "ok" PROVE job'[d].answered
  <2>1. DriverStep(d) BY EveryDriverStep
  <2>2. driver[d].out = "ok" \/ job[d].res = "SUCCESS"
    BY <1>1, <2>1 DEF DriverStep, Leaves, Writes
  <2>3. job[d].answered BY <2>2 DEF AnswersAreEarned, ResultsKnown
  <2> QED BY <1>0, <2>3 DEF AnswersStay
<1>2. ASSUME NEW k \in 1..Len(outputs'), outputs'[k] \in Drivers PROVE job'[outputs'[k]].answered
  <2> DEFINE Slots == Drivers \union {NoDriver, "error"}
  <2>1. outputs \in Seq(Slots) BY DEF TypeOK
  <2>2. ASSUME NEW x \in Slots, x \in Drivers => job[x].answered, Output(x)
        PROVE  job[outputs'[k]].answered
    <3>2. CASE outputs = <<>>
      <4>1. outputs' = <<>> BY <2>2, <3>2, WithoutExecution
      <4> QED BY <4>1
    <3>3. CASE outputs # <<>>
      <4>0. outputs' = [outputs EXCEPT ![Len(outputs)] = x] BY <2>2, <3>3 DEF Output
      <4>1. Len(outputs) \in 1..Len(outputs) BY <2>1, <3>3
      <4>2. k \in 1..Len(outputs) /\ outputs'[k] = IF k = Len(outputs) THEN x ELSE outputs[k]
        BY <2>1, <4>0, <4>1, ExceptSeq
      <4> QED BY <1>2, <2>2, <4>2 DEF AnswersAreEarned
    <3> QED BY <3>2, <3>3
  <2>3. CASE UNCHANGED outputs BY <1>0, <1>2, <2>3 DEF AnswersAreEarned, AnswersStay
  <2>4. CASE outputs' = <<NoDriver>> BY <1>2, <2>4
  <2>5. CASE outputs' = Append(outputs, NoDriver)
    <3>1. k \in 1..Len(outputs) /\ outputs'[k] = outputs[k] BY <1>2, <2>1, <2>5
    <3> QED BY <1>0, <1>2, <3>1 DEF AnswersAreEarned, AnswersStay
  <2>6. CASE Output("error") BY <1>0, <1>2, <2>2, <2>6 DEF AnswersStay
  <2>7. ASSUME NEW d \in Drivers, Output(d), driver[d].out = "ok" \/ job[d].res = "SUCCESS"
        PROVE  job'[outputs'[k]].answered
    <3>1. job[d].answered BY <2>7 DEF AnswersAreEarned, ResultsKnown
    <3> QED BY <1>0, <1>2, <2>2, <2>7, <3>1 DEF AnswersStay
  <2> QED BY <1>0, <2>3, <2>4, <2>5, <2>6, <2>7 DEF OutputStep, AnswersStay
<1> QED BY <1>1, <1>2 DEF AnswersAreEarned

-----------------------------------------------------------------------------
(* Somebody is at work for a task that runs, or it was left so.               *)

\* d is at work for the try that is open, on its way to send a job for it, or it
\* left a task at a pause or a crash.
Works(d) ==
    \/ driver[d].out \in {"paused", "dead"}
    \/ driver[d].pc \in {"insert", "create", "execute", "send"}
    \/ driver[d].pc = "unflag" /\ driver[d].kind = "graph"
    \/ driver[d].pc \in {"await", "save", "write"} /\ driver[d].try = tries
Attended == st = "running" => \E d \in Drivers : Works(d)

\* Whoever opens a try works for it.
LEMMA OpensAtWork ==
    ASSUME TypeOK, [Next]_vars, ~(st' = st /\ tries' = tries), st' = "running"
    PROVE  \E d \in Drivers : Works(d)'
<1>0. DriverType BY DEF TypeOK, DriverType
<1>1. ASSUME NEW d \in Drivers, Step(d) PROVE Works(d)'
  <2>1. CASE CreateTask(d)
    BY <1>0, <2>1, MoveMoves DEF CreateTask, Goto, Works
  <2>2. CASE ResetTask(d) /\ st \in Retryable
    BY <1>0, <2>2, MoveMoves DEF ResetTask, Goto, Works
  <2>3. ~(CompleteTask(d) \/ CleanupZombie(d) \/ PauseTask(d) \/ CancelTask(d))
    BY DEF CompleteTask, CleanupZombie, PauseTask, CancelTask, Settle, Open, Active
  <2>4. ~(ResetTask(d) /\ st \notin Retryable) BY DEF ResetTask
  <2>5. ~(LookUp(d) \/ ReadCache(d) \/ ReadTask(d) \/ ReadPrior(d) \/ ClearCancelFlag(d)
          \/ ClearPauseFlag(d) \/ InsertExecution(d) \/ CreateExecution(d) \/ SendJob(d)
          \/ CompleteOutput(d))
    BY DEF LookUp, ReadCache, ReadTask, ReadPrior, ClearCancelFlag, ClearPauseFlag,
           InsertExecution, CreateExecution, SendJob, CompleteOutput, rowVars
  <2>6. ~(SeesCancelFlag(d) \/ ReadResult(d) \/ SaveSnapshot(d) \/ SetPauseFlag(d)
          \/ RevokeTask(d) \/ CaptureHandle(d) \/ WaitForWorker(d) \/ SetCancelFlag(d)
          \/ RevokeActive(d) \/ CancelNode(d))
    BY DEF SeesCancelFlag, AwaitRevokes, ReadResult, SaveSnapshot, SetPauseFlag, RevokeTask,
           CaptureHandle, WaitForWorker, SetCancelFlag, RevokeActive, CancelNode, rowVars
  <2> QED BY <1>1, <2>1, <2>2, <2>3, <2>4, <2>5, <2>6 DEF Step
<1>2. ~ \E d \in Drivers : Deadline(d) \/ WaitExpires(d) \/ LockLost(d)
  BY DEF Deadline, AwaitRevokes, WaitExpires, LockLost, AbortRun, AbortRetry, CleanupLater, Open,
         rowVars
<1>3. ~ \E d \in Drivers, p \in Procs : Arrive(d, p)
  BY DEF Arrive, RunTask, RetryFresh, ContinueTask, RetryRestartTask, RetryTask, Retry,
         PauseRequest, ShutdownRequest, CancelRequest, rowVars
<1>4. ~ \E j \in Drivers : Worker(j)
  BY DEF Worker, StartJob, RunHandler, PersistResult, PersistOutput, StreamToEnd, BreakStream,
         CheckPaused, CheckCancelled, InsertResponse, CombineThinking, StoreResult, Settle, Open,
         rowVars
<1>5. ~ \E j \in Drivers : Terminate(j) \/ Redeliver(j) \/ DoRevoke(j) \/ DoPurge(j)
  BY DEF Terminate, Redeliver, DoRevoke, DoPurge, rowVars
<1>6. ~(FlagExpires \/ UNCHANGED vars \/ \E p \in Procs : Crash(p))
  BY DEF FlagExpires, Crash, vars, rowVars
<1> QED BY <1>1, <1>2, <1>3, <1>4, <1>5, <1>6 DEF Next

\* While a try stays open, whoever works for it goes on, or leaves it at a pause or
\* a crash; only a delegation that settled it ends otherwise.
LEMMA StaysAtWork ==
    ASSUME TypeOK, ResultsKnown, OutcomesLate, DriverSettles', NEW d \in Drivers, Works(d),
           Step(d) \/ Deadline(d) \/ WaitExpires(d) \/ LockLost(d) \/ \E p \in Procs : Arrive(d, p),
           st = "running", st' = "running", tries' = tries
    PROVE  Works(d)'
<1>0. DriverType /\ JobType /\ driver[d] \in DriverRecord BY DEF TypeOK, DriverType, JobType
<1>1. driver[d].pc \in {"insert", "create", "execute", "send", "unflag", "await", "save"}
                          \union Ending
  BY DEF Works, OutcomesLate, Ending
<1>2. ~ \E p \in Procs : Arrive(d, p)
  <2>1. driver[d].pc # "idle" BY <1>1 DEF Ending
  <2> QED BY <2>1 DEF Arrive, RunTask, RetryFresh, ContinueTask, RetryRestartTask, RetryTask, Retry,
                      PauseRequest, ShutdownRequest, CancelRequest, Enter
<1>3. CASE LockLost(d)
  <2>1. CASE AbortRun(d)
    <3>1. driver'[d].out = "dead" BY <1>0, <2>1 DEF AbortRun, DriverType, DriverRecord
    <3> QED BY <3>1 DEF Works
  <2>2. CASE AbortRetry(d)
    <3>1. driver'[d].out = "dead" BY <1>0, <2>2, MoveMoves DEF AbortRetry, End
    <3> QED BY <3>1 DEF Works
  <2>3. CASE CleanupLater(d)
    <3>1. driver[d].pc = "over" /\ driver'[d].out = driver[d].out
      BY <1>0, <2>3 DEF CleanupLater, At, DriverType, DriverRecord
    <3> QED BY <3>1 DEF Works
  <2> QED BY <1>3, <2>1, <2>2, <2>3 DEF LockLost
<1>4. ASSUME NEW how \in {"ok", "error", "paused"}, LeaveAwait(d, how),
             driver[d].pc \in {"await", "save"}
      PROVE  Works(d)'
  <2>1. driver'[d].pc = AfterAwait(d, how) /\ driver'[d].out = how /\ driver'[d].try = driver[d].try
    BY <1>0, <1>4, MoveMoves DEF LeaveAwait, SameTry
  <2>2. driver[d].out = "none" BY <1>4 DEF OutcomesLate, Ending
  <2>3. driver[d].try = tries BY <1>4, <2>2 DEF Works
  <2>4. CASE driver'[d].pc = "over" BY <2>1, <2>3, <2>4 DEF DriverSettles, Works
  <2>5. CASE driver'[d].pc = "write" BY <2>1, <2>3, <2>5 DEF Works
  <2> QED BY <2>1, <2>4, <2>5 DEF AfterAwait
<1>5. CASE driver[d].pc = "insert"
  <2>1. CASE InsertExecution(d)
    <3>1. /\ driver'[d].pc = AfterReset(d) /\ driver'[d].kind = driver[d].kind
      BY <1>0, <2>1 DEF InsertExecution, AfterReset, Goto, Move, DriverType, DriverRecord
    <3> QED BY <3>1 DEF AfterReset, Works
  <2>2. ~(Deadline(d) \/ WaitExpires(d)) BY <1>5 DEF Deadline, AwaitRevokes, WaitExpires, At
  <2> QED BY <1>2, <1>3, <1>5, <2>1, <2>2
          DEF Step, At, LookUp, ReadCache, CreateTask, CreateExecution, ReadTask, ReadPrior, ClearCancelFlag,
              ClearPauseFlag, ResetTask, SendJob, SeesCancelFlag, AwaitRevokes, ReadResult,
              SaveSnapshot, CompleteTask, CompleteOutput, CleanupZombie, SetPauseFlag, RevokeTask,
              PauseTask, CaptureHandle, WaitForWorker, SetCancelFlag, RevokeActive, CancelTask,
              CancelNode
<1>6. CASE driver[d].pc \in {"create", "execute", "send", "unflag"}
  <2>0. driver[d].out = "none" BY <1>6 DEF OutcomesLate, Ending
  <2>1. CASE CreateTask(d) \/ CreateExecution(d)
    BY <1>0, <2>1, MoveMoves DEF CreateTask, CreateExecution, Goto, Works
  <2>2. CASE SendJob(d)
    <3>1. driver'[d].pc = "await" /\ driver'[d].try = tries
      BY <1>0, <2>2 DEF SendJob, DriverType, DriverRecord
    <3> QED BY <3>1 DEF Works
  <2>3. CASE ClearPauseFlag(d)
    <3>1. driver[d].pc = "unflag" BY <2>3 DEF ClearPauseFlag, At
    <3>2. driver[d].kind = "graph" BY <2>0, <3>1 DEF Works
    <3> QED BY <1>0, <2>3, <3>2, MoveMoves DEF ClearPauseFlag, Goto, Works
  <2>4. ~(Deadline(d) \/ WaitExpires(d)) BY <1>6 DEF Deadline, AwaitRevokes, WaitExpires, At
  <2> QED BY <1>2, <1>3, <1>6, <2>1, <2>2, <2>3, <2>4
          DEF Step, At, LookUp, ReadCache, ReadTask, ReadPrior, ClearCancelFlag, InsertExecution,
              ResetTask, SeesCancelFlag, AwaitRevokes, ReadResult,
              SaveSnapshot, CompleteTask, CompleteOutput, CleanupZombie, SetPauseFlag, RevokeTask,
              PauseTask, CaptureHandle, WaitForWorker, SetCancelFlag, RevokeActive, CancelTask,
              CancelNode
<1>7. CASE driver[d].pc \in {"await", "save"}
  <2>0. driver[d].try = tries BY <1>7 DEF Works, OutcomesLate, Ending
  <2>1. CASE SeesCancelFlag(d) \/ Deadline(d)
    BY <1>4, <1>7, <2>1 DEF SeesCancelFlag, Deadline, AwaitRevokes
  <2>2. CASE SaveSnapshot(d) BY <1>4, <1>7, <2>2 DEF SaveSnapshot
  <2>3. CASE ReadResult(d)
    <3>1. CASE Goto(d, "save")
      <4>1. driver'[d].pc = "save" /\ driver'[d].try = driver[d].try
        BY <1>0, <3>1, MoveMoves DEF Goto, SameTry
      <4> QED BY <2>0, <4>1 DEF Works
    <3> QED BY <1>0, <1>4, <1>7, <2>3, <3>1, ReadResultWays
  <2>4. ~WaitExpires(d) BY <1>7 DEF WaitExpires, At
  <2> QED BY <1>2, <1>3, <1>7, <2>1, <2>2, <2>3, <2>4
          DEF Step, At, LookUp, ReadCache, CreateTask, CreateExecution, ReadTask, ReadPrior, ClearCancelFlag,
              ClearPauseFlag, InsertExecution, ResetTask, SendJob,
              CompleteTask, CompleteOutput, CleanupZombie, SetPauseFlag, RevokeTask,
              PauseTask, CaptureHandle, WaitForWorker, SetCancelFlag, RevokeActive, CancelTask,
              CancelNode
<1>8. CASE driver[d].pc \in Ending
  <2>1. ~CompleteTask(d)
    BY DEF CompleteTask, Settle, Open
  <2>2. CASE CompleteOutput(d) \/ CleanupZombie(d)
    <3>1. driver'[d].out = driver[d].out /\ driver[d].pc \notin {"await", "save", "write"}
      BY <1>0, <2>2, MoveMoves DEF CompleteOutput, CleanupZombie, Goto, At
    <3>2. driver[d].out \in {"paused", "dead"} BY <1>8, <3>1 DEF Works, Ending
    <3> QED BY <3>1, <3>2 DEF Works
  <2>3. ~(Deadline(d) \/ WaitExpires(d))
    BY <1>8 DEF Deadline, AwaitRevokes, WaitExpires, At, Ending
  <2> QED BY <1>2, <1>3, <1>8, <2>1, <2>2, <2>3
          DEF Step, At, Ending, LookUp, ReadCache, CreateTask, CreateExecution, ReadTask, ReadPrior,
              ClearCancelFlag, ClearPauseFlag, InsertExecution, ResetTask, SendJob,
              SeesCancelFlag, AwaitRevokes, ReadResult, SaveSnapshot, SetPauseFlag, RevokeTask,
              PauseTask, CaptureHandle, WaitForWorker, SetCancelFlag, RevokeActive, CancelTask,
              CancelNode
<1> QED BY <1>1, <1>5, <1>6, <1>7, <1>8

\* So a task that runs is attended, or was left.
LEMMA NextAttends ==
    ASSUME TypeOK, ResultsKnown, OutcomesLate, DriverSettles', Attended, [Next]_vars
    PROVE  Attended'
<1> SUFFICES ASSUME st' = "running" PROVE \E d \in Drivers : Works(d)'
  BY DEF Attended
<1>0. DriverType /\ JobType BY DEF TypeOK, DriverType, JobType
<1>1. CASE ~(st' = st /\ tries' = tries) BY <1>1, OpensAtWork
<1>2. CASE st' = st /\ tries' = tries
  <2>1. PICK e \in Drivers : Works(e) BY <1>2 DEF Attended
  <2>2. CASE driver'[e] = driver[e] BY <1>2, <2>1, <2>2 DEF Works
  <2>3. ASSUME NEW d \in Drivers,
               \/ Step(d) \/ Deadline(d) \/ WaitExpires(d) \/ LockLost(d)
               \/ \E p \in Procs : Arrive(d, p)
        PROVE  Works(e)'
    <3>1. CASE e = d BY <1>2, <2>1, <2>3, <3>1, StaysAtWork
    <3>2. CASE e # d
      <4>1. OthersRest(d) BY <1>0, <2>3, StepIsOnes
      <4>2. driver'[e] = driver[e] BY <3>2, <4>1 DEF OthersRest
      <4> QED BY <1>2, <2>1, <4>2 DEF Works
    <3> QED BY <3>1, <3>2
  <2>4. ASSUME NEW j \in Drivers,
               Worker(j) \/ Terminate(j) \/ Redeliver(j) \/ DoRevoke(j) \/ DoPurge(j)
        PROVE  UNCHANGED driver
    BY <2>4 DEF Worker, StartJob, RunHandler, PersistResult, PersistOutput, StreamToEnd,
                BreakStream, CheckPaused, CheckCancelled, InsertResponse, CombineThinking,
                StoreResult, Terminate, Redeliver, DoRevoke, DoPurge
  <2>5. ASSUME NEW p \in Procs, Crash(p) PROVE Works(e)'
    <3>1. \/ driver'[e] = driver[e] \/ driver'[e].out = "dead"
          \/ At(e, "over") /\ driver'[e].out = driver[e].out
      BY <2>5 DEF Crash, Idle
    <3> QED BY <1>2, <2>1, <3>1 DEF Works, At
  <2>6. CASE \E p \in Procs : Crash(p) BY <2>5, <2>6
  <2>7. CASE FlagExpires \/ UNCHANGED vars BY <2>2, <2>7 DEF FlagExpires, vars
  <2> QED BY <2>2, <2>3, <2>4, <2>6, <2>7 DEF Next
<1> QED BY <1>1, <1>2

-----------------------------------------------------------------------------
(* The row as TaskRow has it.  A reset opens a try before its execution is      *)
(* inserted; coroutines that are about to insert one are counted, as each of     *)
(* them has a try without one.  So has the row that lacks its first execution.   *)

Inserters == {d \in Drivers : At(d, "insert")}
ExecutionsPast ==
    /\ IsFiniteSet(Inserters) /\ Len(outputs) + Cardinality(Inserters) <= tries
    /\ tries > 0 => Cardinality(Inserters) < tries

\* Whoever is about to insert the first execution has found or made a row.
ExecutorsKnow == \A d \in Drivers : At(d, "execute") => tries > 0

Given == {d \in Drivers : job[d].answered}
rowView == <<st, tries, outputs, Given>>

\* A coroutine that is not about to insert an execution joins nobody who is.
LEMMA InsertersKept ==
    ASSUME IsFiniteSet(Inserters), Inserters' \subseteq Inserters
    PROVE  IsFiniteSet(Inserters') /\ Cardinality(Inserters') <= Cardinality(Inserters)
BY FS_Subset

\* The first execution is inserted for a row.
LEMMA NextExecutes ==
    ASSUME TypeOK, ResultsKnown, OutcomesLate, UntriedWithoutRow, ExecutorsKnow, [Next]_vars
    PROVE  ExecutorsKnow'
<1> SUFFICES ASSUME NEW d \in Drivers, driver'[d].pc = "execute" PROVE tries' > 0
  BY DEF ExecutorsKnow, At
<1>1. DriverStep(d) /\ StatusStep BY EveryDriverStep, EveryRowStep
<1>2. tries \in Nat /\ tries' \in Nat /\ (tries > 0 => tries' > 0)
  BY <1>1 DEF StatusStep, TypeOK
<1>3. CASE CreateTask(d) BY <1>2, <1>3 DEF CreateTask, UntriedWithoutRow
<1>4. CASE driver'[d] = driver[d] BY <1>2, <1>4 DEF ExecutorsKnow, At
<1> QED BY <1>1, <1>3, <1>4 DEF DriverStep, Leaves, AfterAwait, Writes

\* Only a reset makes a coroutine insert an execution of another try.
LEMMA InsertersGrow ==
    ASSUME TypeOK, ResultsKnown, NEW d \in Drivers, driver'[d].pc = "insert", driver[d].pc # "insert",
           Step(d) \/ Deadline(d) \/ WaitExpires(d) \/ LockLost(d) \/ \E p \in Procs : Arrive(d, p)
    PROVE  ResetTask(d) /\ st \in Retryable
<1>0. DriverType /\ JobType /\ driver[d] \in DriverRecord BY DEF TypeOK, DriverType, JobType
<1>1. ~ \E l, how : l # "insert" /\ Move(d, l, how) BY <1>0, MoveMoves
<1>2. ~ \E l : l # "insert" /\ Goto(d, l) BY <1>1 DEF Goto
<1>3. ~ \E how : End(d, how) BY <1>1 DEF End
<1>4. ~ \E how : LeaveAwait(d, how) BY <1>1 DEF LeaveAwait, AfterAwait
<1>5. ~ \E l : l # "insert" /\ driver' = [driver EXCEPT ![d].seen = st, ![d].pc = l]
  BY <1>0 DEF DriverType, DriverRecord
<1>6. CASE Step(d)
  <2>1. ~(LookUp(d) \/ ReadCache(d) \/ CreateTask(d) \/ ReadTask(d))
    BY <1>2, <1>3, <1>5 DEF LookUp, ReadCache, CreateTask, ReadTask
  <2>2. ~ReadPrior(d)
    <3>1. driver' # [driver EXCEPT ![d].prior = TRUE, ![d].pc = "uncancel"]
      BY <1>0 DEF DriverType, DriverRecord
    <3> QED BY <1>3, <3>1 DEF ReadPrior
  <2>3. ~(ClearCancelFlag(d) \/ ClearPauseFlag(d) \/ InsertExecution(d) \/ CreateExecution(d))
    BY <1>2 DEF ClearCancelFlag, ClearPauseFlag, InsertExecution, CreateExecution, AfterReset
  <2>4. ResetTask(d) => st \in Retryable BY <1>2, <1>3 DEF ResetTask, AfterReset
  <2>5. ~SendJob(d) BY <1>0 DEF SendJob, Idle, DriverType, DriverRecord
  <2>6. ~(SeesCancelFlag(d) \/ SaveSnapshot(d)) BY <1>4 DEF SeesCancelFlag, AwaitRevokes, SaveSnapshot
  <2>7. ~ReadResult(d) BY <1>0, <1>2, <1>4, ReadResultWays
  <2>8. ~(CompleteTask(d) \/ CompleteOutput(d) \/ CleanupZombie(d))
    BY <1>2 DEF CompleteTask, CompleteOutput, CleanupZombie
  <2>9. ~(SetPauseFlag(d) \/ RevokeTask(d) \/ PauseTask(d) \/ WaitForWorker(d) \/ SetCancelFlag(d))
    BY <1>2, <1>3 DEF SetPauseFlag, RevokeTask, PauseTask, WaitForWorker, SetCancelFlag
  <2>10. ~(RevokeActive(d) \/ CancelTask(d) \/ CancelNode(d))
    BY <1>2, <1>3 DEF RevokeActive, CancelTask, CancelNode
  <2>11. ~CaptureHandle(d) BY <1>0 DEF CaptureHandle, DriverType, DriverRecord
  <2> QED BY <1>6, <2>1, <2>2, <2>3, <2>4, <2>5, <2>6, <2>7, <2>8, <2>9, <2>10, <2>11 DEF Step
<1>7. ~(Deadline(d) \/ WaitExpires(d) \/ LockLost(d))
  <2>1. ~(Deadline(d) \/ WaitExpires(d)) BY <1>2, <1>4 DEF Deadline, AwaitRevokes, WaitExpires
  <2>2. ~AbortRun(d) BY <1>0 DEF AbortRun, DriverType, DriverRecord
  <2>3. ~AbortRetry(d) BY <1>3 DEF AbortRetry
  <2>4. ~CleanupLater(d) BY <1>0 DEF CleanupLater, DriverType, DriverRecord
  <2> QED BY <2>1, <2>2, <2>3, <2>4 DEF LockLost
<1>8. ~ \E p \in Procs : Arrive(d, p)
  <2>1. \A p \in Procs, k \in Kinds : \A l : Enter(d, p, k, l) => driver'[d].pc = l
    BY <1>0 DEF Enter, Idle, DriverType
  <2>2. \A p \in Procs, c \in BOOLEAN : Retry(d, p, c) => driver'[d].pc = "read"
    BY <1>0 DEF Retry, Idle, DriverType
  <2> QED BY <2>1, <2>2 DEF Arrive, RunTask, RetryFresh, ContinueTask, RetryRestartTask, RetryTask,
             PauseRequest, ShutdownRequest, CancelRequest, Kinds
<1> QED BY <1>6, <1>7, <1>8

\* Who writes the row.
LEMMA RowUse ==
    ASSUME [Next]_vars
    PROVE  \/ UNCHANGED rowVars
           \/ \E d \in Drivers :
                \/ CreateTask(d) \/ CreateExecution(d) \/ ResetTask(d) \/ InsertExecution(d)
                \/ CompleteTask(d) \/ CleanupLater(d) \/ CompleteOutput(d) \/ CleanupZombie(d) \/ PauseTask(d) \/ CancelTask(d)
           \/ \E j \in Drivers : PersistResult(j) \/ PersistOutput(j)
<1>1. ASSUME NEW d \in Drivers, Step(d)
      PROVE  \/ UNCHANGED rowVars
             \/ CreateTask(d) \/ CreateExecution(d) \/ ResetTask(d) \/ InsertExecution(d)
             \/ CompleteTask(d) \/ CleanupLater(d) \/ CompleteOutput(d) \/ CleanupZombie(d) \/ PauseTask(d) \/ CancelTask(d)
  <2>1. CASE LookUp(d) \/ ReadCache(d) \/ ReadTask(d) \/ ReadPrior(d) \/ ClearCancelFlag(d)
             \/ ClearPauseFlag(d) \/ SendJob(d)
    BY <2>1 DEF LookUp, ReadCache, ReadTask, ReadPrior, ClearCancelFlag, ClearPauseFlag, SendJob
  <2>2. CASE SeesCancelFlag(d) \/ ReadResult(d) \/ SaveSnapshot(d) \/ SetPauseFlag(d)
             \/ RevokeTask(d) \/ CaptureHandle(d) \/ WaitForWorker(d) \/ SetCancelFlag(d)
             \/ RevokeActive(d) \/ CancelNode(d)
    BY <2>2 DEF SeesCancelFlag, AwaitRevokes, ReadResult, SaveSnapshot, SetPauseFlag, RevokeTask,
                CaptureHandle, WaitForWorker, SetCancelFlag, RevokeActive, CancelNode
  <2> QED BY <1>1, <2>1, <2>2 DEF Step
<1>2. ASSUME NEW d \in Drivers, Deadline(d) \/ WaitExpires(d) \/ LockLost(d)
      PROVE  UNCHANGED rowVars \/ CleanupLater(d)
  BY <1>2 DEF Deadline, AwaitRevokes, WaitExpires, LockLost, AbortRun, AbortRetry, CleanupLater
<1>3. ASSUME NEW d \in Drivers, NEW p \in Procs, Arrive(d, p) PROVE UNCHANGED rowVars
  BY <1>3 DEF Arrive, RunTask, RetryFresh, ContinueTask, RetryRestartTask, RetryTask, Retry,
              PauseRequest, ShutdownRequest, CancelRequest
<1>4. ASSUME NEW j \in Drivers, Worker(j)
      PROVE  UNCHANGED rowVars \/ PersistResult(j) \/ PersistOutput(j)
  BY <1>4 DEF Worker, StartJob, RunHandler, StreamToEnd, BreakStream, CheckPaused,
              CheckCancelled, InsertResponse, CombineThinking, StoreResult
<1>5. ASSUME NEW j \in Drivers, Terminate(j) \/ Redeliver(j) \/ DoRevoke(j) \/ DoPurge(j)
      PROVE  UNCHANGED rowVars
  BY <1>5 DEF Terminate, Redeliver, DoRevoke, DoPurge
<1>6. CASE FlagExpires \/ UNCHANGED vars \/ \E p \in Procs : Crash(p)
  BY <1>6 DEF FlagExpires, Crash, vars
<1> QED BY <1>1, <1>2, <1>3, <1>4, <1>5, <1>6 DEF Next

\* A job that succeeds writes nothing else of the row in that step.
LEMMA AnswersGrow ==
    ASSUME TypeOK, ResultsKnown, [Next]_vars
    PROVE  \/ Given' = Given
           \/ \E j \in Drivers : Given' = Given \union {j} /\ UNCHANGED rowVars
<1> USE DEF Given
<1>0. JobType /\ AnswersStay BY NextKeepsJobs DEF TypeOK, JobType
<1>1. CASE \A i \in Drivers : job'[i].answered = job[i].answered BY <1>1
<1>2. ASSUME NEW j \in Drivers, Worker(j) \/ Terminate(j) \/ Redeliver(j) \/ DoRevoke(j) \/ DoPurge(j)
      PROVE  \A i \in Drivers \ {j} : job'[i] = job[i]
  BY <1>0, <1>2 DEF Worker, StartJob, RunHandler, PersistResult, PersistOutput, StreamToEnd,
       BreakStream, CheckPaused, CheckCancelled, InsertResponse, CombineThinking, StoreResult,
       Terminate, Redeliver, DoRevoke, DoPurge, Finish, WorkerGoto, JobType
<1>3. ASSUME NEW j \in Drivers, PersistResult(j) \/ PersistOutput(j)
      PROVE  job'[j].answered = job[j].answered
  BY <1>0, <1>3 DEF PersistResult, PersistOutput, WorkerGoto, JobType, JobRecord
<1>4. ASSUME NEW j \in Drivers, ~PersistResult(j), ~PersistOutput(j),
             Worker(j) \/ Terminate(j) \/ Redeliver(j) \/ DoRevoke(j) \/ DoPurge(j)
      PROVE  UNCHANGED rowVars
  BY <1>4 DEF Worker, StartJob, RunHandler, StreamToEnd, BreakStream, CheckPaused,
       CheckCancelled, InsertResponse, CombineThinking, StoreResult, Terminate, Redeliver,
       DoRevoke, DoPurge
<1>5. ASSUME NEW j \in Drivers, Worker(j) \/ Terminate(j) \/ Redeliver(j) \/ DoRevoke(j) \/ DoPurge(j)
      PROVE  \/ Given' = Given
             \/ Given' = Given \union {j} /\ UNCHANGED rowVars
  <2>1. \A i \in Drivers \ {j} : job'[i] = job[i] BY <1>2, <1>5
  <2>2. job[j].answered \in BOOLEAN /\ job'[j].answered \in BOOLEAN
    BY <1>0, NextKeepsJobs DEF JobType, JobRecord
  <2>3. job[j].answered => job'[j].answered BY <1>0 DEF AnswersStay
  <2>4. Given' = Given \/ Given' = Given \union {j} BY <2>1, <2>3
  <2>5. PersistResult(j) \/ PersistOutput(j) => Given' = Given BY <1>3, <2>1
  <2> QED BY <1>4, <1>5, <2>4, <2>5
<1>6. CASE \E p : job' = Revoked(p) BY <1>0, <1>1, <1>6, RevokedTyped
<1>7. ASSUME NEW d \in Drivers, SendJob(d) PROVE \A i \in Drivers : job'[i].answered = job[i].answered
  BY <1>0, <1>7 DEF SendJob, JobType, JobRecord
<1> QED BY <1>1, <1>5, <1>6, <1>7, JobUse

\* Which steps of a coroutine count a try or write an output.
LEMMA OnesRow ==
    ASSUME NEW d \in Drivers, ~(ResetTask(d) /\ st \in Retryable),
           Step(d) \/ Deadline(d) \/ WaitExpires(d) \/ LockLost(d) \/ \E p \in Procs : Arrive(d, p)
    PROVE  \/ CreateTask(d) /\ st = "none"
           \/ InsertExecution(d) \/ CreateExecution(d) \/ CompleteOutput(d)
           \/ UNCHANGED <<tries, outputs>>
<1>1. CASE Step(d)
  <2>1. CASE CreateTask(d) \/ ResetTask(d) BY <2>1 DEF CreateTask, ResetTask
  <2>2. CASE LookUp(d) \/ ReadCache(d) \/ ReadTask(d) \/ ReadPrior(d) \/ ClearCancelFlag(d)
             \/ ClearPauseFlag(d) \/ SendJob(d)
    BY <2>2 DEF LookUp, ReadCache, ReadTask, ReadPrior, ClearCancelFlag, ClearPauseFlag, SendJob,
                rowVars
  <2>3. CASE SeesCancelFlag(d) \/ ReadResult(d) \/ SaveSnapshot(d) \/ SetPauseFlag(d)
             \/ RevokeTask(d) \/ CaptureHandle(d) \/ WaitForWorker(d) \/ SetCancelFlag(d)
             \/ RevokeActive(d) \/ CancelNode(d)
    BY <2>3 DEF SeesCancelFlag, AwaitRevokes, ReadResult, SaveSnapshot, SetPauseFlag, RevokeTask,
                CaptureHandle, WaitForWorker, SetCancelFlag, RevokeActive, CancelNode, rowVars
  <2>4. CASE CompleteTask(d) \/ CleanupZombie(d) \/ PauseTask(d) \/ CancelTask(d)
    BY <2>4 DEF CompleteTask, CleanupZombie, PauseTask, CancelTask
  <2> QED BY <1>1, <2>1, <2>2, <2>3, <2>4 DEF Step
<1>2. CASE Deadline(d) \/ WaitExpires(d) \/ LockLost(d)
  BY <1>2 DEF Deadline, AwaitRevokes, WaitExpires, LockLost, AbortRun, AbortRetry, CleanupLater, rowVars
<1>3. ASSUME NEW p \in Procs, Arrive(d, p) PROVE UNCHANGED <<tries, outputs>>
  BY <1>3 DEF Arrive, RunTask, RetryFresh, ContinueTask, RetryRestartTask, RetryTask, Retry,
              PauseRequest, ShutdownRequest, CancelRequest, rowVars
<1> QED BY <1>1, <1>2, <1>3

\* There is at most one execution for each try.
LEMMA NextCounts ==
    ASSUME TypeOK, ResultsKnown, UntriedWithoutRow, ExecutorsKnow, ExecutionsPast, [Next]_vars
    PROVE  ExecutionsPast'
<1>0. DriverType /\ JobType /\ tries \in Nat /\ Len(outputs) \in Nat
  BY DEF TypeOK, DriverType, JobType
<1>1. IsFiniteSet(Inserters) /\ Cardinality(Inserters) \in Nat
  BY FS_CardinalityType DEF ExecutionsPast
<1>2. ASSUME Inserters' \subseteq Inserters, UNCHANGED tries, Len(outputs') = Len(outputs)
      PROVE  ExecutionsPast'
  BY <1>0, <1>1, <1>2, InsertersKept, FS_CardinalityType DEF ExecutionsPast
<1>3. ASSUME NEW x, Output(x) PROVE Len(outputs') = Len(outputs)
  <2>1. CASE outputs = <<>> BY <1>3, <2>1, WithoutExecution
  <2>2. CASE outputs # <<>> BY <1>3, <2>2 DEF Output, TypeOK
  <2> QED BY <2>1, <2>2
<1>4. ASSUME NEW d \in Drivers,
             \/ Step(d) \/ Deadline(d) \/ WaitExpires(d) \/ LockLost(d)
             \/ \E p \in Procs : Arrive(d, p)
      PROVE  ExecutionsPast'
  <2>1. \A e \in Drivers \ {d} : driver'[e] = driver[e]
    BY <1>0, <1>4, StepIsOnes DEF OthersRest
  <2>2. Inserters' \subseteq Inserters \union {d} BY <2>1 DEF Inserters, At
  <2>3. CASE ResetTask(d) /\ st \in Retryable
    <3>1. d \notin Inserters BY <2>3 DEF ResetTask, Inserters, At
    <3>2. /\ IsFiniteSet(Inserters \union {d})
          /\ Cardinality(Inserters \union {d}) = Cardinality(Inserters) + 1
      BY <1>1, <3>1, FS_AddElement
    <3>3. /\ IsFiniteSet(Inserters') /\ Cardinality(Inserters') \in Nat
          /\ Cardinality(Inserters') <= Cardinality(Inserters) + 1
      BY <2>2, <3>2, FS_Subset, FS_CardinalityType
    <3>4. tries' = tries + 1 /\ outputs' = outputs BY <2>3 DEF ResetTask
    <3>5. tries > 0 BY <1>0, <2>3 DEF UntriedWithoutRow, Retryable
    <3> QED BY <1>0, <1>1, <3>3, <3>4, <3>5 DEF ExecutionsPast
  <2>4. CASE ~(ResetTask(d) /\ st \in Retryable)
    <3>1. Inserters' \subseteq Inserters
      BY <1>4, <2>1, <2>4, InsertersGrow DEF Inserters, At
    <3>2. CASE CreateTask(d) /\ st = "none"
      <4>1. tries = 0 BY <3>2 DEF UntriedWithoutRow
      <4>2. tries' = 1 /\ outputs' = outputs BY <3>2 DEF CreateTask
      <4>3. Len(outputs) = 0 BY <1>0, <1>1, <4>1 DEF ExecutionsPast
      <4>4. Cardinality(Inserters) = 0 BY <1>0, <1>1, <4>1 DEF ExecutionsPast
      <4>5. IsFiniteSet(Inserters') /\ Cardinality(Inserters') <= 0
        BY <1>1, <3>1, <4>4, InsertersKept
      <4>6. Cardinality(Inserters') \in Nat BY <4>5, FS_CardinalityType
      <4> QED BY <4>2, <4>3, <4>5, <4>6 DEF ExecutionsPast
    <3>3. CASE InsertExecution(d)
      <4>1. d \in Inserters BY <3>3 DEF InsertExecution, Inserters
      <4>2. driver'[d].pc # "insert"
        BY <1>0, <3>3, MoveMoves DEF InsertExecution, Goto, AfterReset
      <4>3. Inserters' \subseteq Inserters \ {d} BY <3>1, <4>2 DEF Inserters, At
      <4>4. /\ IsFiniteSet(Inserters \ {d})
            /\ Cardinality(Inserters \ {d}) = Cardinality(Inserters) - 1
        BY <1>1, <4>1, FS_RemoveElement
      <4>5. /\ IsFiniteSet(Inserters') /\ Cardinality(Inserters') \in Nat
            /\ Cardinality(Inserters') <= Cardinality(Inserters) - 1
        BY <4>3, <4>4, FS_Subset, FS_CardinalityType
      <4>6. tries' = tries /\ Len(outputs') <= Len(outputs) + 1 /\ Len(outputs') \in Nat
        BY <1>0, <3>3 DEF InsertExecution, TypeOK
      <4> QED BY <1>0, <1>1, <4>5, <4>6 DEF ExecutionsPast
    <3>4. CASE UNCHANGED <<tries, outputs>> BY <1>2, <3>1, <3>4
    <3>5. CASE CompleteOutput(d)
      BY <1>2, <1>3, <3>1, <3>5 DEF CompleteOutput
    <3>6. CASE CreateExecution(d)
      <4>1. tries > 0 BY <3>6 DEF CreateExecution, ExecutorsKnow
      <4>2. tries' = tries /\ (Len(outputs') = Len(outputs) \/ Len(outputs') = 1)
        BY <3>6 DEF CreateExecution
      <4>3. /\ IsFiniteSet(Inserters') /\ Cardinality(Inserters') \in Nat
            /\ Cardinality(Inserters') <= Cardinality(Inserters)
        BY <1>1, <3>1, InsertersKept, FS_CardinalityType
      <4>4. /\ Len(outputs) + Cardinality(Inserters) <= tries /\ Cardinality(Inserters) < tries
            /\ Cardinality(Inserters) \in Nat
        BY <1>1, <4>1 DEF ExecutionsPast
      <4>5. /\ Len(outputs') + Cardinality(Inserters') <= tries'
            /\ Cardinality(Inserters') < tries'
        <5>1. CASE Len(outputs') = Len(outputs) BY <1>0, <4>2, <4>3, <4>4, <5>1
        <5>2. CASE Len(outputs') = 1 BY <1>0, <4>2, <4>3, <4>4, <5>2
        <5> QED BY <4>2, <5>1, <5>2
      <4> QED BY <4>3, <4>5 DEF ExecutionsPast
    <3>7. (CreateTask(d) /\ st = "none") \/ InsertExecution(d) \/ CreateExecution(d)
          \/ CompleteOutput(d) \/ UNCHANGED <<tries, outputs>>
      BY <1>4, <2>4, OnesRow
    <3> QED BY <3>2, <3>3, <3>4, <3>5, <3>6, <3>7
  <2> QED BY <2>3, <2>4
<1>5. ASSUME NEW j \in Drivers,
             Worker(j) \/ Terminate(j) \/ Redeliver(j) \/ DoRevoke(j) \/ DoPurge(j)
      PROVE  ExecutionsPast'
  <2>1. UNCHANGED driver
    BY <1>5 DEF Worker, StartJob, RunHandler, PersistResult, PersistOutput, StreamToEnd,
                BreakStream, CheckPaused, CheckCancelled, InsertResponse, CombineThinking,
                StoreResult, Terminate, Redeliver, DoRevoke, DoPurge
  <2>2. Inserters' \subseteq Inserters BY <2>1 DEF Inserters, At
  <2>3. CASE PersistOutput(j) BY <1>2, <1>3, <2>2, <2>3 DEF PersistOutput
  <2>4. CASE ~PersistOutput(j)
    <3>1. UNCHANGED <<tries, outputs>>
      BY <1>5, <2>4 DEF Worker, StartJob, RunHandler, PersistResult, StreamToEnd,
                BreakStream, CheckPaused, CheckCancelled, InsertResponse, CombineThinking,
                StoreResult, Terminate, Redeliver, DoRevoke, DoPurge, rowVars
    <3> QED BY <1>2, <2>2, <3>1
  <2> QED BY <2>3, <2>4
<1>6. ASSUME NEW p \in Procs, Crash(p) PROVE ExecutionsPast'
  <2>1. UNCHANGED <<tries, outputs>> BY <1>6 DEF Crash, rowVars
  <2>2. \A e \in Drivers : driver'[e] = driver[e] \/ driver'[e].pc = "over"
    BY <1>0, <1>6 DEF Crash, DriverType, Idle
  <2>3. Inserters' \subseteq Inserters BY <2>2 DEF Inserters, At
  <2> QED BY <1>2, <2>1, <2>3
<1>7. CASE FlagExpires \/ UNCHANGED vars
  <2>1. UNCHANGED <<tries, outputs, driver>> BY <1>7 DEF FlagExpires, vars, rowVars
  <2>2. Inserters' \subseteq Inserters BY <2>1 DEF Inserters, At
  <2> QED BY <1>2, <2>1, <2>2
<1> QED BY <1>4, <1>5, <1>6, <1>7 DEF Next

-----------------------------------------------------------------------------
(* The theorems.                                                             *)

IInv ==
    /\ TypeOK /\ ResultsKnown /\ HandleMeansAwaiting
    /\ OutcomesLate /\ UntriedWithoutRow /\ TriesPast
    /\ NoStream /\ WorkerSettles /\ DriverSettles
    /\ AnswersAreEarned /\ Attended /\ ExecutorsKnow /\ ExecutionsPast

\* The invariant holds at the start, of a new task and of a paused one.
LEMMA InitInv == Init => IInv
<1> SUFFICES ASSUME Init PROVE IInv
  OBVIOUS
<1>1. TypeOK
  <2>1. job \in [Drivers -> JobRecord] /\ driver \in [Drivers -> DriverRecord]
    BY IdleTyped DEF Init
  <2>2. outputs \in Seq(Drivers \union {NoDriver, "error"})
    <3>1. outputs = <<>> \/ outputs = <<NoDriver>> BY DEF Init
    <3>2. CASE outputs = <<>> BY <3>2
    <3>3. CASE outputs = <<NoDriver>> BY <3>3
    <3> QED BY <3>1, <3>2, <3>3
  <2>3. st \in Statuses /\ tries \in Nat /\ events \subseteq EventKinds
    BY ScenariosAssumption DEF Init, Statuses
  <2> QED BY <2>1, <2>2, <2>3 DEF Init, TypeOK
<1>2. \A d \in Drivers : /\ driver[d].pc = "idle" /\ driver[d].out = "none" /\ driver[d].try = 0
                         /\ job[d].pc = "unsent" /\ job[d].res = "none"
  BY DEF Init, Idle, Unsent
<1>3. ResultsKnown /\ OutcomesLate /\ NoStream /\ WorkerSettles /\ DriverSettles
  BY <1>2 DEF ResultsKnown, WithResult, OutcomesLate, NoStream, WorkerSettles, Persisted,
              DriverSettles
<1>4. HandleMeansAwaiting BY DEF Init, HandleMeansAwaiting
<1>5. UntriedWithoutRow /\ TriesPast BY <1>2 DEF Init, UntriedWithoutRow, TriesPast
<1>6. AnswersAreEarned
  <2>1. \A k \in 1..Len(outputs) : outputs[k] \notin Drivers BY DEF Init
  <2> QED BY <1>2, <2>1 DEF AnswersAreEarned
<1>7. Attended /\ ExecutorsKnow BY <1>2 DEF Init, Attended, ExecutorsKnow, At
<1>8. ExecutionsPast
  <2>1. Inserters = {} BY <1>2 DEF Inserters, At
  <2>2. IsFiniteSet(Inserters) /\ Cardinality(Inserters) = 0 BY <2>1, FS_EmptySet
  <2>3. (outputs = <<>> /\ tries = 0) \/ (outputs = <<NoDriver>> /\ tries = 1) BY DEF Init
  <2>4. Len(outputs) = tries /\ tries \in Nat
    <3>1. CASE outputs = <<>> /\ tries = 0 BY <3>1
    <3>2. CASE outputs = <<NoDriver>> /\ tries = 1 BY <3>2
    <3> QED BY <2>3, <3>1, <3>2
  <2>5. Len(outputs) \in Nat /\ Len(outputs) <= tries /\ tries \in Nat BY <2>4
  <2> QED BY <2>2, <2>5 DEF ExecutionsPast
<1> QED BY <1>1, <1>3, <1>4, <1>5, <1>6, <1>7, <1>8 DEF IInv

\* Every step keeps it.
LEMMA NextInv == IInv /\ [Next]_vars => IInv'
<1> SUFFICES ASSUME IInv, [Next]_vars PROVE IInv'
  OBVIOUS
<1> USE DEF IInv
<1>1. HandleType' /\ HandleMeansAwaiting' BY NextKeepsHandles
<1>2. DriverType' /\ JobType' /\ ResultsKnown' /\ FlagType'
  BY NextKeepsDrivers, NextKeepsJobs, NextKeepsFlags
<1>3. RowType' /\ OutputsType' BY EveryRowStep, RowTyped
<1>4. TypeOK'
  BY <1>1, <1>2, <1>3
  DEF TypeOK, DriverType, JobType, HandleType, OutputsType, RowType, FlagType
<1>5. OutcomesLate' /\ UntriedWithoutRow' /\ TriesPast'
  BY NextKeepsOutcomes, NextKeepsTries
<1>6. NoStream' /\ WorkerSettles' /\ DriverSettles' BY NextSettles
<1>7. AnswersAreEarned' BY NextAnswers
<1>8. Attended' BY <1>6, NextAttends
<1>9. ExecutorsKnow' /\ ExecutionsPast' BY NextExecutes, NextCounts
<1> QED BY <1>1, <1>2, <1>4, <1>5, <1>6, <1>7, <1>8, <1>9

\* So it holds throughout.
LEMMA Invariance == Spec => []IInv
<1>1. Init => IInv BY InitInv
<1>2. IInv /\ [Next]_vars => IInv' BY NextInv
<1> QED BY <1>1, <1>2, PTL DEF Spec

\* Every step of the model is a step of TaskRow or leaves its row alone.
LEMMA RowMoves ==
    ASSUME IInv, [Next]_vars
    PROVE  [Row!Next]_rowView
<1> USE DEF Row!Terminal, Row!Retryable
<1>0. /\ TypeOK /\ ResultsKnown /\ AnswersAreEarned /\ UntriedWithoutRow
      /\ ExecutorsKnow /\ ExecutionsPast
      /\ outputs \in Seq(Drivers \union {NoDriver, "error"}) /\ tries \in Nat
      /\ Len(outputs) \in Nat
  BY DEF IInv, TypeOK
<1>1. ASSUME NEW j \in Drivers, Given' = Given \union {j}, UNCHANGED rowVars
      PROVE  [Row!Next]_rowView
  <2>1. Row!Succeed(j) BY <1>1 DEF Row!Succeed, Given, rowVars
  <2> QED BY <2>1 DEF Row!Next
<1>2. ASSUME Given' = Given, NEW s \in Terminal \union {"paused"}, UNCHANGED <<tries, outputs>>,
             st' = IF Open THEN s ELSE st
      PROVE  [Row!Next]_rowView
  <2>1. CASE Open
    <3>1. Row!Leave(s) BY <1>2, <2>1 DEF Row!Leave, Open, Given
    <3> QED BY <3>1 DEF Row!Next, Terminal
  <2>2. CASE ~Open BY <1>2, <2>2 DEF rowView
  <2> QED BY <2>1, <2>2
<1>3. ASSUME Given' = Given, NEW x \in Given \union {"error"}, Output(x), UNCHANGED <<st, tries>>
      PROVE  [Row!Next]_rowView
  <2>1. CASE outputs = <<>> BY <1>3, <2>1, WithoutExecution DEF rowView
  <2>2. CASE outputs # <<>>
    <3>1. Row!Answer(x) BY <1>3, <2>2 DEF Row!Answer, Output, Given
    <3> QED BY <1>3, <3>1 DEF Row!Next, Given
  <2> QED BY <2>1, <2>2
<1>4. ASSUME NEW d \in Drivers, Given' = Given,
             \/ CreateTask(d) \/ CreateExecution(d) \/ ResetTask(d) \/ InsertExecution(d)
             \/ CompleteTask(d) \/ CleanupLater(d) \/ CompleteOutput(d) \/ CleanupZombie(d) \/ PauseTask(d) \/ CancelTask(d)
      PROVE  [Row!Next]_rowView
  <2>1. CASE CreateTask(d)
    <3>1. CASE st = "none"
      <4>1. Row!Create BY <1>4, <2>1, <3>1 DEF CreateTask, Row!Create, Given
      <4> QED BY <4>1 DEF Row!Next
    <3>2. CASE st # "none" BY <1>4, <2>1, <3>2 DEF CreateTask, rowView
    <3> QED BY <3>1, <3>2
  <2>2. CASE ResetTask(d)
    <3>1. CASE st \in Retryable
      <4>1. Row!Reopen BY <1>4, <2>2, <3>1 DEF ResetTask, Retryable, Row!Reopen, Given
      <4> QED BY <4>1 DEF Row!Next
    <3>2. CASE st \notin Retryable BY <1>4, <2>2, <3>2 DEF ResetTask, rowView
    <3> QED BY <3>1, <3>2
  <2>3. CASE InsertExecution(d)
    <3>1. d \in Inserters BY <2>3 DEF InsertExecution, Inserters
    <3>2. Cardinality(Inserters) \in Nat /\ Cardinality(Inserters) # 0
      BY <1>0, <3>1, FS_CardinalityType, FS_EmptySet DEF ExecutionsPast
    <3>3. Len(outputs) < tries BY <1>0, <3>2 DEF ExecutionsPast
    <3>4. CASE outputs # <<>>
      <4>1. Row!Execute BY <1>4, <2>3, <3>3, <3>4 DEF InsertExecution, Row!Execute, Given
      <4> QED BY <4>1 DEF Row!Next
    <3>5. CASE outputs = <<>> BY <1>4, <2>3, <3>5 DEF InsertExecution, rowView
    <3> QED BY <3>4, <3>5
  <2>4. CASE CompleteTask(d)
    BY <1>2, <1>4, <2>4 DEF CompleteTask, Settle, Terminal
  <2>5. CASE CompleteOutput(d)
    <3>1. driver[d].out = "ok" => d \in Given BY <1>0 DEF AnswersAreEarned, Given
    <3> QED BY <1>3, <1>4, <2>5, <3>1 DEF CompleteOutput
  <2>6. CASE CleanupZombie(d)
    <3>1. CASE creator = d BY <1>2, <1>4, <2>6, <3>1 DEF CleanupZombie, Terminal
    <3>2. CASE creator # d BY <1>4, <2>6, <3>2 DEF CleanupZombie, rowView
    <3> QED BY <3>1, <3>2
  <2>7. CASE PauseTask(d) BY <1>2, <1>4, <2>7 DEF PauseTask
  <2>8. CASE CancelTask(d)
    <3>1. CASE st = "paused"
      <4>1. Row!Cancel BY <1>4, <2>8, <3>1 DEF CancelTask, Active, Row!Cancel, Given
      <4> QED BY <4>1 DEF Row!Next
    <3>2. CASE st # "paused" BY <1>2, <1>4, <2>8, <3>2 DEF CancelTask, Active, Open, Terminal
    <3> QED BY <3>1, <3>2
  <2>9. CASE CreateExecution(d)
    <3>1. CASE outputs = <<>>
      <4>1. tries > 0 BY <1>0, <2>9 DEF CreateExecution, ExecutorsKnow
      <4>2. outputs' = Append(outputs, NoDriver) BY <2>9, <3>1 DEF CreateExecution
      <4>3. Row!Execute BY <1>0, <1>4, <2>9, <3>1, <4>1, <4>2 DEF CreateExecution, Row!Execute, Given
      <4> QED BY <4>3 DEF Row!Next
    <3>2. CASE outputs # <<>> BY <1>4, <2>9, <3>2 DEF CreateExecution, rowView
    <3> QED BY <3>1, <3>2
  <2>10. CASE CleanupLater(d)
    <3>1. CASE creator = d BY <1>2, <1>4, <2>10, <3>1 DEF CleanupLater, Terminal
    <3>2. CASE creator # d BY <1>4, <2>10, <3>2 DEF CleanupLater, rowView
    <3> QED BY <3>1, <3>2
  <2> QED BY <1>4, <2>1, <2>2, <2>3, <2>4, <2>5, <2>6, <2>7, <2>8, <2>9, <2>10
<1>5. ASSUME NEW j \in Drivers, Given' = Given, PersistResult(j) \/ PersistOutput(j)
      PROVE  [Row!Next]_rowView
  <2>1. CASE PersistResult(j) BY <1>2, <1>5, <2>1 DEF PersistResult, Settle, Terminal
  <2>2. CASE PersistOutput(j)
    <3>1. job[j].res = "SUCCESS" => j \in Given BY <1>0 DEF ResultsKnown, Given
    <3> QED BY <1>3, <1>5, <2>2, <3>1 DEF PersistOutput
  <2> QED BY <1>5, <2>1, <2>2
<1>6. CASE Given' = Given /\ UNCHANGED rowVars BY <1>6 DEF rowVars, rowView
<1> QED BY <1>0, <1>1, <1>4, <1>5, <1>6, AnswersGrow, RowUse

\* Rows, flags, jobs, registries and coroutines keep their types through every
\* delegation, retry, pause, cancellation and fault.
THEOREM TaskTyping == Spec => []TypeOK
<1>1. IInv => TypeOK BY DEF IInv
<1> QED BY <1>1, Invariance, PTL

\* Every handle of a registry is that of a coroutine of the same process which
\* polls for its job, so retry_fresh_task never waits for a worker nobody waits
\* for, and revoke_celery_task revokes a job somebody waits for.
THEOREM HandlesAwait == Spec => []HandleMeansAwaiting
<1>1. IInv => HandleMeansAwaiting BY DEF IInv
<1> QED BY <1>1, Invariance, PTL

\* A delegation that ended with an answer or an error has left its try settled or
\* paused: by persist_task_result in the worker of a completion, by complete_task
\* of the driver otherwise.
THEOREM Settled == Spec => []SettledWhenReturned
<1>1. IInv => SettledWhenReturned BY DEF IInv, DriverSettles, SettledWhenReturned, At
<1> QED BY <1>1, Invariance, PTL

\* An output of an execution, and the ok a caller got from _await_result, was given
\* by a job of which a run succeeded, however often it was delivered.
THEOREM AnswersEarned == Spec => []AnswersAreEarned
<1>1. IInv => AnswersAreEarned BY DEF IInv
<1> QED BY <1>1, Invariance, PTL

\* The row and its executions keep the promises of TaskRow: one outcome for each
\* try, at most one execution for each try, outputs written to the newest execution
\* only and from jobs that succeeded, whatever order workers, drivers and requests
\* write in.
THEOREM RowRefinement == Spec => ImplementsTaskRow
<1>1. Init => Row!Init
  <2> SUFFICES ASSUME Init PROVE Given = {}
    BY DEF Init, Row!Init, Given
  <2> QED BY DEF Init, Unsent, Given
<1>2. IInv /\ [Next]_vars => [Row!Next]_(Row!vars)
  BY RowMoves DEF Row!vars, rowView, Given
<1> QED BY <1>1, <1>2, Invariance, PTL DEF Spec, ImplementsTaskRow, Row!Spec

\* A task that is running with every coroutine over was left so by a pause, by a
\* crash, or by the cancellation of a run or of a retry when a lock was lost:
\* deadlines, requests, sweeps and redeliveries end what runs.
THEOREM LeftOnlySo == Spec => []LeftByPauseOrCrash
<1>1. IInv => LeftByPauseOrCrash
  <2> SUFFICES ASSUME IInv, st = "running", \A d \in Drivers : driver[d].pc \in {"idle", "over"}
               PROVE  \E d \in Drivers : driver[d].out \in {"paused", "dead"}
    BY DEF LeftByPauseOrCrash
  <2>1. PICK d \in Drivers : Works(d) BY DEF IInv, Attended
  <2> QED BY <2>1 DEF Works
<1> QED BY <1>1, Invariance, PTL
=============================================================================
