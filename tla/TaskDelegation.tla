---------------------------- MODULE TaskDelegation ----------------------------
(***************************************************************************)
(* One task of a node: the row in fin_agents.tasks, the Celery jobs that   *)
(* work for it and the coroutines of the main-thread processes that create *)
(* it, wait for its jobs, retry, pause and cancel it                       *)
(* (celery_task/workers/task_delegation.py, users/queries/{retry,          *)
(* lifecycle}.py, langgraph/models/node_utils/task_runner.py,              *)
(* langgraph/lifecycle/threads/nodes/tasks).                               *)
(*                                                                         *)
(* A driver is one such coroutine; it sends at most one job, which bears   *)
(* its name.  Every Redis command, every SQL statement (the connections    *)
(* are in autocommit mode) and every stretch of Python between two awaits  *)
(* that touches the process-local registry is a step of its own.           *)
(***************************************************************************)
EXTENDS Integers, Sequences, FiniteSets

CONSTANTS
    Procs,     \* main-thread processes
    Drivers,   \* coroutines, each used once
    NoDriver,  \* no driver, no job
    Scenarios  \* what may happen: sets of EventKinds

\* "graph": the node runs its task again; "retry", "fresh", "pause", "cancel",
\* "shutdown": the requests; "crash": a process dies; "abort": a run of the thread
\* loses its lock and a coroutine is cancelled for it; "redeliver": a worker dies and the
\* broker delivers the job again; "expire": the TTL of a flag ends; "boot": an
\* instance starts and sweeps the jobs it takes for stale; "again": the task may
\* have been paused before.
EventKinds == {"graph", "retry", "fresh", "pause", "cancel", "shutdown", "crash",
               "abort", "redeliver", "expire", "boot", "again"}

ASSUME DriversAssumption == NoDriver \notin Drivers /\ "error" \notin Drivers
ASSUME ScenariosAssumption == Scenarios \subseteq SUBSET EventKinds

VARIABLES
    events,    \* bound: the scenario of this behaviour, never changed
    \* PostgreSQL
    view,      \* tasks.view_type
    st,        \* tasks.status, "none" before the row exists
    creator,   \* the driver whose fencing token the row bears
    outputs,   \* task_executions.output by retry_num: a job, "error" or NoDriver
    thinking,  \* llm_responses.thinking of the latest response of the task
    \* Redis
    pauseFlag, snapshot,    \* fin:pause:task, fin:stream_snapshot
    cancelFlag, nodeFlag,   \* cancel flags of the thread and of the node
    job,       \* the Celery jobs and their results
    \* Main-thread processes
    handle,    \* ThreadRegistry._celery_results[task_id] of each process
    driver,    \* the coroutines
    \* History
    tries      \* how often the status became 'running'

rowVars == <<events, view, st, creator, outputs, tries>>
redisVars == <<pauseFlag, snapshot, cancelFlag, nodeFlag>>
vars == <<rowVars, thinking, redisVars, job, handle, driver>>

Terminal == {"completed", "failed", "cancelled", "wrong"}
Statuses == Terminal \union {"none", "running", "paused"}
Active == {"running", "paused"}
Retryable == {"completed", "failed", "cancelled", "paused"}

\* What a driver is: run_task of a graph run, retry_task or one of the
\* requests that only change the status.
Kinds == {"graph", "retry", "fresh", "pause", "cancelTask", "cancelThread", "shutdown"}
DriverPC ==
    {"idle", "over",
     "look", "cache", "create", "execute",      \* run_task, create_task
     "read", "prior", "uncancel",               \* retry_task
     "unflag", "reset", "insert",               \* both
     "send", "await", "save", "write", "output", "zombie",
     "flag", "revoke", "pause", "capture", "wait",
     "cancelFlag", "cancelRevoke", "cancelTasks", "cancelNode"}

\* How a delegation ended.
Outcomes == {"none", "ok", "error", "paused", "dead"}

DriverRecord ==
    [pc : DriverPC, kind : Kinds, proc : Procs \union {NoDriver},
     seen : Statuses,       \* the status read first
     continue : BOOLEAN,    \* mode compact_and_continue
     prior : BOOLEAN,       \* prior_thinking_full is not empty
     try : Nat,             \* history: tries when the job was sent
     watched : BOOLEAN,     \* retry_fresh found a handle to wait for
     out : Outcomes]

Idle == [pc |-> "idle", kind |-> "graph", proc |-> NoDriver, seen |-> "none",
         continue |-> FALSE, prior |-> FALSE, try |-> 0, watched |-> FALSE, out |-> "none"]

WorkerPC == {"unsent", "queued", "handler", "persist", "persistOutput", "stream", "drained", "streamed",
             "respond", "combine", "finish", "stored", "purged"}
JobRecord ==
    [pc : WorkerPC, revoked : BOOLEAN,
     res : {"none", "SUCCESS", "PAUSED", "FAILURE", "REVOKED"},
     prior : BOOLEAN,           \* the argument prior_thinking is not empty
     think : BOOLEAN,           \* the result has thinking
     redelivered : BOOLEAN,     \* bound: one job, once
     answered : BOOLEAN]        \* history: a run of the job succeeded
Unsent == [pc |-> "unsent", revoked |-> FALSE, res |-> "none", prior |-> FALSE,
           think |-> FALSE, redelivered |-> FALSE, answered |-> FALSE]

\* The task is new, or a stream that was paused in a run that is over.
Init ==
    /\ events \in Scenarios
    /\ view \in {"Streaming", "ToolCall"}
    /\ \/ st = "none" /\ outputs = <<>> /\ tries = 0 /\ pauseFlag = FALSE /\ snapshot = FALSE
       \/ /\ "again" \in events /\ view = "Streaming"
          /\ st = "paused" /\ outputs = <<NoDriver>> /\ tries = 1 /\ pauseFlag = TRUE /\ snapshot = TRUE
    /\ creator = NoDriver /\ thinking = "none" /\ cancelFlag = FALSE /\ nodeFlag = FALSE
    /\ job = [d \in Drivers |-> Unsent]
    /\ handle = [p \in Procs |-> NoDriver]
    /\ driver = [d \in Drivers |-> Idle]

At(d, l) == driver[d].pc = l

\* The run of the graph that made the row goes on in its process when run_task
\* returns.
GoesOn(d) == driver[d].kind = "graph" /\ creator = d /\ ~At(d, "zombie")

\* A coroutine that returns leaves its locals behind.
Move(d, l, how) ==
    driver' = [driver EXCEPT ![d] =
                 IF l = "over"
                   THEN [Idle EXCEPT !.pc = "over", !.try = driver[d].try, !.out = how,
                                     !.proc = IF GoesOn(d) THEN driver[d].proc ELSE NoDriver]
                   ELSE [@ EXCEPT !.pc = l, !.out = how]]
Goto(d, l) == Move(d, l, driver[d].out)
End(d, how) == Move(d, "over", how)
Enter(d, p, k, l) ==
    /\ driver[d].pc = "idle"
    /\ driver' = [driver EXCEPT ![d] = [Idle EXCEPT !.kind = k, !.proc = p, !.pc = l]]

\* A node is run by one run of the graph at a time, unless a run has lost its
\* lock and not yet been aborted.
InGraph(d) == driver[d].kind = "graph" /\ driver[d].pc \notin {"idle", "over"}

-----------------------------------------------------------------------------
(* run_task of a node and create_task.                                     *)

RunTask(d, p) ==
    /\ st = "none" \/ "graph" \in events
    /\ "abort" \in events \/ ~ \E e \in Drivers : InGraph(e)
    /\ Enter(d, p, "graph", "look")
    /\ UNCHANGED <<rowVars, thinking, redisVars, job, handle>>

\* get_existing_task_for_node.  A fresh task_id is another row.
LookUp(d) ==
    /\ At(d, "look")
    /\ IF st \in {"none", "completed", "paused", "failed"}
         THEN driver' = [driver EXCEPT
                ![d].seen = st,
                ![d].pc = CASE st = "none" -> "create"
                            [] st = "completed" -> "cache"
                            [] OTHER -> "reset"]
         ELSE End(d, "none")
    /\ UNCHANGED <<rowVars, thinking, redisVars, job, handle>>

\* The output of a completed task is served; without output it is run again.
ReadCache(d) ==
    /\ At(d, "cache")
    /\ IF outputs # <<>> /\ outputs[Len(outputs)] # NoDriver
         THEN Goto(d, "over") ELSE Goto(d, "reset")
    /\ UNCHANGED <<rowVars, thinking, redisVars, job, handle>>

\* INSERT ... ON CONFLICT DO NOTHING.
CreateTask(d) ==
    /\ At(d, "create")
    /\ IF st = "none"
         THEN st' = "running" /\ creator' = d /\ tries' = 1
         ELSE UNCHANGED <<st, creator, tries>>
    /\ Goto(d, "execute")
    /\ UNCHANGED <<events, view, outputs, thinking, redisVars, job, handle>>

\* The second INSERT: on a conflict only the input is written again.
CreateExecution(d) ==
    /\ At(d, "execute")
    /\ outputs' = IF outputs = <<>> THEN <<NoDriver>> ELSE outputs
    /\ Goto(d, "send")
    /\ UNCHANGED <<events, view, st, creator, tries, thinking, redisVars, job, handle>>

-----------------------------------------------------------------------------
(* retry_task, directly or from the requests that check the status first;   *)
(* it reads the row itself, which may have changed by then.                 *)

Retry(d, p, continue) ==
    /\ driver[d].pc = "idle"
    /\ driver' = [driver EXCEPT ![d] = [Idle EXCEPT !.kind = "retry", !.proc = p,
                                                    !.pc = "read", !.continue = continue]]
    /\ UNCHANGED <<rowVars, thinking, redisVars, job, handle>>

RetryTask(d, p) == "retry" \in events /\ st # "none" /\ \E continue \in BOOLEAN : Retry(d, p, continue)
ContinueTask(d, p) == "retry" \in events /\ st = "paused" /\ Retry(d, p, TRUE)
RetryRestartTask(d, p) == "retry" \in events /\ st \in Retryable /\ Retry(d, p, FALSE)

\* 409 unless the status is retryable, 422 to continue what does not stream.
ReadTask(d) ==
    /\ At(d, "read")
    /\ LET continue == driver[d].continue
       IN  IF st \in Retryable /\ (continue => view = "Streaming")
             THEN driver' = [driver EXCEPT ![d].seen = st,
                                           ![d].pc = IF continue THEN "prior" ELSE "uncancel"]
             ELSE End(d, "none")
    /\ UNCHANGED <<rowVars, thinking, redisVars, job, handle>>

\* The snapshot of a paused task, else the last response; 422 without either.
ReadPrior(d) ==
    /\ At(d, "prior")
    /\ IF (driver[d].seen = "paused" /\ snapshot) \/ thinking = "some"
         THEN driver' = [driver EXCEPT ![d].prior = TRUE, ![d].pc = "uncancel"]
         ELSE End(d, "none")
    /\ UNCHANGED <<rowVars, thinking, redisVars, job, handle>>

ClearCancelFlag(d) ==
    /\ At(d, "uncancel")
    /\ cancelFlag' = FALSE
    /\ Goto(d, "unflag")
    /\ UNCHANGED <<rowVars, thinking, pauseFlag, snapshot, nodeFlag, job, handle>>

\* clear_task_pause_flag deletes the snapshot too.
ClearPauseFlag(d) ==
    /\ At(d, "unflag")
    /\ pauseFlag' = FALSE /\ snapshot' = FALSE
    /\ Goto(d, IF driver[d].kind = "graph" THEN "create" ELSE "reset")
    /\ UNCHANGED <<rowVars, thinking, cancelFlag, nodeFlag, job, handle>>

\* Where run_task and retry_task go on after the reset.
AfterReset(d) ==
    IF driver[d].kind # "graph" THEN "send"
    ELSE IF driver[d].seen = "paused" THEN "unflag" ELSE "create"

\* The UPDATE of reset_task_for_retry.  When it changes no row retry_task
\* ends with 409; run_task does not look.
ResetTask(d) ==
    /\ At(d, "reset")
    /\ IF st \in Retryable
         THEN st' = "running" /\ tries' = tries + 1 /\ Goto(d, "insert")
         ELSE /\ UNCHANGED <<st, tries>>
              /\ IF driver[d].kind = "graph" THEN Goto(d, AfterReset(d)) ELSE End(d, "none")
    /\ UNCHANGED <<events, view, creator, outputs, thinking, redisVars, job, handle>>

\* Copies the newest execution, if there is one.
InsertExecution(d) ==
    /\ At(d, "insert")
    /\ outputs' = IF outputs = <<>> THEN outputs ELSE Append(outputs, NoDriver)
    /\ Goto(d, AfterReset(d))
    /\ UNCHANGED <<events, view, st, creator, tries, thinking, redisVars, job, handle>>

-----------------------------------------------------------------------------
(* delegate_completion, delegate_stream, the background task of a retry:   *)
(* send the job, register its handle, poll, write the outcome.             *)

\* delegate_stream continues from the snapshot of the task if there is one.  What
\* was read before is not used again.
SendJob(d) ==
    /\ At(d, "send")
    /\ LET prior == IF driver[d].kind = "graph" /\ view = "Streaming" THEN snapshot
                                                                      ELSE driver[d].prior
       IN  job' = [job EXCEPT ![d].pc = "queued", ![d].prior = prior]
    /\ driver' = [driver EXCEPT ![d] = [Idle EXCEPT !.pc = "await", !.try = tries,
                                         !.kind = driver[d].kind, !.proc = driver[d].proc]]
    /\ handle' = [handle EXCEPT ![driver[d].proc] = d]
    /\ UNCHANGED <<rowVars, thinking, redisVars>>

\* Where the caller of _await_result goes on.  The worker has written the
\* result of a completion; a paused retry is left to the one who paused it;
\* every other exception, TaskPausedError in a graph run included, ends in
\* complete_task(failed=True).
AfterAwait(d, how) ==
    IF \/ driver[d].kind = "graph" /\ how = "ok" /\ view = "ToolCall"
       \/ driver[d].kind # "graph" /\ how = "paused"
      THEN "over" ELSE "write"

\* Mutant: the handle is kept.
LeaveAwaitKeepingHandle(d, how) ==
    /\ Move(d, AfterAwait(d, how), how)
    /\ UNCHANGED handle

\* The finally block discards the handle of the task, whose ever it is.
LeaveAwait(d, how) ==
    /\ Move(d, AfterAwait(d, how), how)
    /\ handle' = [handle EXCEPT ![driver[d].proc] = NoDriver]

\* revoke_celery_task pops the handle and revokes the job it stands for.
Revoked(p) ==
    [d \in Drivers |-> IF d = handle[p] THEN [job[d] EXCEPT !.revoked = TRUE] ELSE job[d]]

\* The deadline, the cancel flag of the thread, that of the node (known to
\* completions only).
AwaitRevokes(d) ==
    /\ At(d, "await")
    /\ LeaveAwait(d, "error")
    /\ job' = Revoked(driver[d].proc)
    /\ UNCHANGED <<rowVars, thinking, redisVars>>

Deadline(d) == AwaitRevokes(d)
SeesCancelFlag(d) == (cancelFlag \/ (nodeFlag /\ view = "ToolCall")) /\ AwaitRevokes(d)

\* Mutant: a paused result is taken for an answer.
ReadResultAsAnswer(d) ==
    /\ At(d, "await") /\ job[d].pc = "stored"
    /\ LeaveAwait(d, IF job[d].res \in {"SUCCESS", "PAUSED"} THEN "ok" ELSE "error")
    /\ UNCHANGED <<rowVars, thinking, redisVars, job>>

\* Mutant: polls on when the job was revoked.
ReadResultUnlessRevoked(d) ==
    /\ At(d, "await") /\ job[d].pc = "stored"
    /\ job[d].res # "REVOKED"
    /\ LeaveAwait(d, IF job[d].res = "SUCCESS" THEN "ok" ELSE "error")
    /\ UNCHANGED <<rowVars, thinking, redisVars, job>>

ReadResult(d) ==
    /\ At(d, "await") /\ job[d].pc = "stored"
    /\ CASE job[d].res = "SUCCESS" -> LeaveAwait(d, "ok")
         [] job[d].res = "FAILURE" -> LeaveAwait(d, "error")
         [] job[d].res = "REVOKED" -> LeaveAwait(d, IF pauseFlag THEN "paused" ELSE "error")
         [] job[d].res = "PAUSED" ->
              IF job[d].think THEN Goto(d, "save") /\ UNCHANGED handle
                               ELSE LeaveAwait(d, "paused")
    /\ UNCHANGED <<rowVars, thinking, redisVars, job>>

SaveSnapshot(d) ==
    /\ At(d, "save")
    /\ snapshot' = TRUE
    /\ LeaveAwait(d, "paused")
    /\ UNCHANGED <<rowVars, thinking, pauseFlag, cancelFlag, nodeFlag, job>>

\* The UPDATE of complete_task and persist_task_result.
Open == st = "running"

\* Mutant: the result's own word for it is stored.
SettleWithResult(ok) == st' = IF Open THEN (IF ok THEN "success" ELSE "failed") ELSE st

Settle(ok) == st' = IF Open THEN (IF ok THEN "completed" ELSE "failed") ELSE st

\* Their second UPDATE: the output of the latest execution.
Output(x) ==
    outputs' = IF outputs = <<>> THEN outputs ELSE [outputs EXCEPT ![Len(outputs)] = x]

Discard(d) == handle' = [handle EXCEPT ![driver[d].proc] = NoDriver]

\* Mutant: only a success is written, the worker is trusted with the rest.
CompleteUnlessFailed(d) ==
    /\ At(d, "write")
    /\ IF driver[d].out = "ok" THEN Settle(TRUE) ELSE UNCHANGED st
    /\ IF Open /\ driver[d].out = "ok"
         THEN Goto(d, "output") /\ UNCHANGED handle
         ELSE Goto(d, "over") /\ Discard(d)
    /\ UNCHANGED <<events, view, creator, outputs, tries, thinking, redisVars, job>>

CompleteTask(d) ==
    /\ At(d, "write")
    /\ Settle(driver[d].out = "ok")
    /\ IF Open THEN Goto(d, "output") /\ UNCHANGED handle
               ELSE Goto(d, "over") /\ Discard(d)
    /\ UNCHANGED <<events, view, creator, outputs, tries, thinking, redisVars, job>>

CompleteOutput(d) ==
    /\ At(d, "output")
    /\ Output(IF driver[d].out = "ok" THEN d ELSE "error")
    /\ Goto(d, "over") /\ Discard(d)
    /\ UNCHANGED <<events, view, st, creator, tries, thinking, redisVars, job>>

\* The renewal that finds the lock of a run lost cancels what is in the one slot
\* the thread has in the registry of the process (executor.py:106): the run, or
\* the background task of a retry, of this task or of another, if that was
\* registered since.  CancelledError is no Exception: nobody writes anything ...
InBackground(d) ==
    driver[d].kind \in {"retry", "fresh"}
    /\ driver[d].pc \in {"send", "await", "save", "write", "output"}

DropHandle(d) == IF driver[d].pc \in {"await", "save"} THEN Discard(d) ELSE UNCHANGED handle

AbortRetry(d) ==
    /\ "abort" \in events
    /\ InBackground(d)
    /\ End(d, "dead")
    /\ DropHandle(d)
    /\ UNCHANGED <<rowVars, thinking, redisVars, job>>

\* ... until the finally block of the run cleans up by fencing token.
AbortRun(d) ==
    /\ "abort" \in events
    /\ InGraph(d) /\ ~At(d, "zombie")
    /\ driver' = [driver EXCEPT ![d].pc = "zombie", ![d].out = "dead"]
    /\ DropHandle(d)
    /\ UNCHANGED <<rowVars, thinking, redisVars, job>>

CleanupZombie(d) ==
    /\ At(d, "zombie")
    /\ st' = IF Open /\ creator = d THEN "wrong" ELSE st
    /\ Goto(d, "over")
    /\ UNCHANGED <<events, view, creator, outputs, tries, thinking, redisVars, job, handle>>

\* A run that loses its lock after run_task has returned cleans up as well, under
\* a retry of the task if there is one.
CleanupLater(d) ==
    /\ "abort" \in events
    /\ At(d, "over") /\ driver[d].proc # NoDriver
    /\ st' = IF Open /\ creator = d THEN "wrong" ELSE st
    /\ driver' = [driver EXCEPT ![d].proc = NoDriver]
    /\ UNCHANGED <<events, view, creator, outputs, tries, thinking, redisVars, job, handle>>

LockLost(d) == AbortRun(d) \/ AbortRetry(d) \/ CleanupLater(d)

-----------------------------------------------------------------------------
(* The requests that change the status, and the shutdown.                  *)

PauseRequest(d, p) ==
    /\ "pause" \in events /\ st # "none"
    /\ Enter(d, p, "pause", "flag")
    /\ UNCHANGED <<rowVars, thinking, redisVars, job, handle>>

\* retry_fresh_task of a running task pauses it first.
RetryFresh(d, p) ==
    /\ "fresh" \in events
    /\ \/ /\ st = "running"
          /\ Enter(d, p, "fresh", "flag")
          /\ UNCHANGED <<rowVars, thinking, redisVars, job, handle>>
       \/ st \in Retryable /\ Retry(d, p, FALSE)

\* pause_all_running_tasks_on_shutdown.
ShutdownRequest(d, p) ==
    /\ "shutdown" \in events
    /\ Enter(d, p, "shutdown", IF st = "running" THEN "flag" ELSE "pause")
    /\ UNCHANGED <<rowVars, thinking, redisVars, job, handle>>

SetPauseFlag(d) ==
    /\ At(d, "flag")
    /\ pauseFlag' = TRUE
    /\ Goto(d, IF driver[d].kind # "shutdown" /\ view = "ToolCall" THEN "revoke" ELSE "pause")
    /\ UNCHANGED <<rowVars, thinking, snapshot, cancelFlag, nodeFlag, job, handle>>

\* A request revokes what the registry of its process holds, before the row is
\* paused; the shutdown does after.
RevokeTask(d) ==
    /\ At(d, "revoke")
    /\ job' = Revoked(driver[d].proc)
    /\ Discard(d)
    /\ CASE driver[d].kind = "shutdown" -> End(d, "none")
         [] driver[d].kind = "cancelTask" -> Goto(d, "cancelTasks")
         [] OTHER -> Goto(d, "pause")
    /\ UNCHANGED <<rowVars, thinking, redisVars>>

PauseTask(d) ==
    /\ At(d, "pause")
    /\ st' = IF Open THEN "paused" ELSE st
    /\ CASE driver[d].kind = "shutdown" -> Goto(d, "revoke")
         [] driver[d].kind = "fresh" -> Goto(d, "capture")
         [] OTHER -> End(d, "none")
    /\ UNCHANGED <<events, view, creator, outputs, tries, thinking, redisVars, job, handle>>

\* Looks for the handle after the pause, to wait until it is gone.
CaptureHandle(d) ==
    /\ At(d, "capture")
    /\ driver' = [driver EXCEPT ![d].pc = "wait",
                                ![d].watched = handle[driver[d].proc] # NoDriver]
    /\ UNCHANGED <<rowVars, thinking, redisVars, job, handle>>

WaitForWorker(d) ==
    /\ At(d, "wait")
    /\ driver[d].watched => handle[driver[d].proc] = NoDriver
    /\ Goto(d, "read")
    /\ UNCHANGED <<rowVars, thinking, redisVars, job, handle>>

WaitExpires(d) ==
    /\ At(d, "wait")
    /\ Goto(d, "read")
    /\ UNCHANGED <<rowVars, thinking, redisVars, job, handle>>

\* cancel_task_by_uuid, and cancel_query with cancel_thread.
CancelRequest(d, p) ==
    /\ "cancel" \in events /\ st # "none"
    /\ Enter(d, p, "cancelTask", "revoke") \/ Enter(d, p, "cancelThread", "cancelFlag")
    /\ UNCHANGED <<rowVars, thinking, redisVars, job, handle>>

SetCancelFlag(d) ==
    /\ At(d, "cancelFlag")
    /\ cancelFlag' = TRUE
    /\ Goto(d, "cancelRevoke")
    /\ UNCHANGED <<rowVars, thinking, pauseFlag, snapshot, nodeFlag, job, handle>>

\* cancel_thread revokes the tasks that are active.
RevokeActive(d) ==
    /\ At(d, "cancelRevoke")
    /\ IF st \in Active
         THEN job' = Revoked(driver[d].proc) /\ Discard(d)
         ELSE UNCHANGED <<job, handle>>
    /\ Goto(d, "cancelTasks")
    /\ UNCHANGED <<rowVars, thinking, redisVars>>

CancelTask(d) ==
    /\ At(d, "cancelTasks")
    /\ st' = IF st \in Active THEN "cancelled" ELSE st
    /\ IF driver[d].kind = "cancelTask" THEN Goto(d, "cancelNode") ELSE End(d, "none")
    /\ UNCHANGED <<events, view, creator, outputs, tries, thinking, redisVars, job, handle>>

\* No task of the node is active: cancel_node sets the flag of the node unless
\* the node has ended.
CancelNode(d) ==
    /\ At(d, "cancelNode")
    /\ nodeFlag' \in (IF st \in Active THEN {nodeFlag} ELSE {nodeFlag, TRUE})
    /\ End(d, "none")
    /\ UNCHANGED <<rowVars, thinking, pauseFlag, snapshot, cancelFlag, job, handle>>

-----------------------------------------------------------------------------
(* The Celery workers.  A worker may be told to terminate at any point and  *)
(* may learn of a revocation late or, after a restart, never.               *)

WorkerGoto(j, l) == job' = [job EXCEPT ![j].pc = l]
Finish(j, l, res, think) ==
    job' = [job EXCEPT ![j].pc = l, ![j].res = res, ![j].think = think,
                       ![j].answered = @ \/ res = "SUCCESS"]

StartJob(j) ==
    /\ job[j].pc = "queued"
    /\ WorkerGoto(j, IF view = "Streaming" THEN "stream" ELSE "handler")
    /\ UNCHANGED <<rowVars, thinking, redisVars, handle, driver>>

\* run_completion: the handler returns or raises.
RunHandler(j) ==
    /\ job[j].pc = "handler"
    /\ \E res \in {"SUCCESS", "FAILURE"} : Finish(j, "persist", res, FALSE)
    /\ UNCHANGED <<rowVars, thinking, redisVars, handle, driver>>

\* Mutant: the result is stored without being persisted.
ReturnUnpersisted(j) ==
    /\ job[j].pc = "persist"
    /\ WorkerGoto(j, "finish")
    /\ UNCHANGED <<rowVars, thinking, redisVars, handle, driver>>

\* Mutant: the status is written whatever it is.
PersistAnyway(j) ==
    /\ job[j].pc = "persist"
    /\ st' = "completed"
    /\ WorkerGoto(j, "persistOutput")
    /\ UNCHANGED <<events, view, creator, outputs, tries, thinking, redisVars, handle, driver>>

PersistResult(j) ==
    /\ job[j].pc = "persist"
    /\ Settle(job[j].res = "SUCCESS")
    /\ WorkerGoto(j, IF Open THEN "persistOutput" ELSE "finish")
    /\ UNCHANGED <<events, view, creator, outputs, tries, thinking, redisVars, handle, driver>>

PersistOutput(j) ==
    /\ job[j].pc = "persistOutput"
    /\ Output(IF job[j].res = "SUCCESS" THEN j ELSE "error")
    /\ WorkerGoto(j, "finish")
    /\ UNCHANGED <<events, view, st, creator, tries, thinking, redisVars, handle, driver>>

\* run_stream_core: the loop over the tokens ends with the last one, with an
\* error of the model, or early when a flag is seen.  Which of them it was is
\* not remembered: the flags are read again, the pause flag first.
StreamToEnd(j) ==
    /\ job[j].pc = "stream"
    /\ \/ Finish(j, "finish", "FAILURE", FALSE)
       \/ \E think \in BOOLEAN : Finish(j, "drained", "none", think)
    /\ UNCHANGED <<rowVars, thinking, redisVars, handle, driver>>

BreakStream(j) ==
    /\ job[j].pc = "stream"
    /\ cancelFlag \/ pauseFlag
    /\ \E think \in BOOLEAN :
         job' = [job EXCEPT ![j].pc = "drained", ![j].think = think]
    /\ UNCHANGED <<rowVars, thinking, redisVars, handle, driver>>

CheckPaused(j) ==
    /\ job[j].pc = "drained"
    /\ IF pauseFlag
         THEN Finish(j, IF job[j].prior THEN "combine" ELSE "finish", "PAUSED", job[j].think)
         ELSE WorkerGoto(j, "streamed")
    /\ UNCHANGED <<rowVars, thinking, redisVars, handle, driver>>

CheckCancelled(j) ==
    /\ job[j].pc = "streamed"
    /\ IF cancelFlag THEN Finish(j, "finish", "FAILURE", FALSE) ELSE WorkerGoto(j, "respond")
    /\ UNCHANGED <<rowVars, thinking, redisVars, handle, driver>>

InsertResponse(j) ==
    /\ job[j].pc = "respond"
    /\ thinking' = IF job[j].think THEN "some" ELSE "empty"
    /\ Finish(j, IF job[j].prior THEN "combine" ELSE "finish", "SUCCESS", job[j].think)
    /\ UNCHANGED <<rowVars, redisVars, handle, driver>>

\* run_stream_compact_continue: the thinking of the latest response becomes
\* the prior thinking and the new one.
CombineThinking(j) ==
    /\ job[j].pc = "combine"
    /\ thinking' = IF thinking = "none" THEN "none" ELSE "some"
    /\ Finish(j, "finish", job[j].res, TRUE)
    /\ UNCHANGED <<rowVars, redisVars, handle, driver>>

\* The result reaches the result backend.
StoreResult(j) ==
    /\ job[j].pc = "finish"
    /\ WorkerGoto(j, "stored")
    /\ UNCHANGED <<rowVars, thinking, redisVars, handle, driver>>

Terminate(j) ==
    /\ job[j].revoked
    /\ job[j].pc \notin {"unsent", "stored", "purged"}
    /\ Finish(j, "stored", "REVOKED", FALSE)
    /\ UNCHANGED <<rowVars, thinking, redisVars, handle, driver>>

\* A worker has taken the job.
InWorker(j) == job[j].pc \notin {"unsent", "queued", "stored", "purged"}

\* task_acks_late: the job of a worker that died is delivered again.
Redeliver(j) ==
    /\ "redeliver" \in events
    /\ InWorker(j)
    /\ \A i \in Drivers : ~job[i].redelivered
    /\ job' = [job EXCEPT ![j].pc = "queued", ![j].res = "none", ![j].think = FALSE,
                          ![j].redelivered = TRUE]
    /\ UNCHANGED <<rowVars, thinking, redisVars, handle, driver>>

\* cleanup_stale_celery_tasks: an instance that starts revokes what the workers
\* report as active and empties the queues.  Whose the jobs are, nobody asks; a
\* message that is gone has neither a result nor a revocation.
DoRevoke(j) ==
    /\ "boot" \in events
    /\ InWorker(j) /\ ~job[j].revoked
    /\ job' = [job EXCEPT ![j].revoked = TRUE]
    /\ UNCHANGED <<rowVars, thinking, redisVars, handle, driver>>
DoPurge(j) ==
    /\ "boot" \in events
    /\ job[j].pc = "queued"
    /\ WorkerGoto(j, "purged")
    /\ UNCHANGED <<rowVars, thinking, redisVars, handle, driver>>

Worker(j) ==
    \/ StartJob(j)
    \/ RunHandler(j)
    \/ PersistResult(j)
    \/ PersistOutput(j)
    \/ StreamToEnd(j)
    \/ BreakStream(j)
    \/ CheckPaused(j)
    \/ CheckCancelled(j)
    \/ InsertResponse(j)
    \/ CombineThinking(j)
    \/ StoreResult(j)

-----------------------------------------------------------------------------

Crash(p) ==
    /\ "crash" \in events
    /\ \E d \in Drivers : driver[d].proc = p
    /\ driver' = [d \in Drivers |->
                    IF driver[d].proc # p THEN driver[d]
                    ELSE [Idle EXCEPT !.pc = "over", !.try = driver[d].try,
                                      !.out = IF At(d, "over") THEN driver[d].out ELSE "dead"]]
    /\ handle' = [handle EXCEPT ![p] = NoDriver]
    /\ UNCHANGED <<rowVars, thinking, redisVars, job>>

\* GRAPH_CANCEL_TTL_SECONDS, the TTL of all three flags.
FlagExpires ==
    /\ "expire" \in events
    /\ \/ pauseFlag /\ pauseFlag' = FALSE /\ UNCHANGED <<cancelFlag, nodeFlag>>
       \/ cancelFlag /\ cancelFlag' = FALSE /\ UNCHANGED <<pauseFlag, nodeFlag>>
       \/ nodeFlag /\ nodeFlag' = FALSE /\ UNCHANGED <<pauseFlag, cancelFlag>>
    /\ UNCHANGED <<rowVars, thinking, snapshot, job, handle, driver>>

\* What a coroutine does next when no deadline fires.
Step(d) ==
    \/ LookUp(d) \/ ReadCache(d) \/ CreateTask(d) \/ CreateExecution(d)
    \/ ReadTask(d) \/ ReadPrior(d) \/ ClearCancelFlag(d)
    \/ ClearPauseFlag(d) \/ ResetTask(d) \/ InsertExecution(d)
    \/ SendJob(d) \/ SeesCancelFlag(d) \/ ReadResult(d) \/ SaveSnapshot(d)
    \/ CompleteTask(d) \/ CompleteOutput(d) \/ CleanupZombie(d)
    \/ SetPauseFlag(d) \/ RevokeTask(d) \/ PauseTask(d)
    \/ CaptureHandle(d) \/ WaitForWorker(d)
    \/ SetCancelFlag(d) \/ RevokeActive(d) \/ CancelTask(d) \/ CancelNode(d)

Arrive(d, p) ==
    \/ RunTask(d, p) \/ RetryFresh(d, p)
    \/ ContinueTask(d, p) \/ RetryRestartTask(d, p) \/ RetryTask(d, p)
    \/ PauseRequest(d, p) \/ ShutdownRequest(d, p) \/ CancelRequest(d, p)

Next ==
    \/ \E d \in Drivers : Step(d) \/ Deadline(d) \/ WaitExpires(d) \/ LockLost(d)
    \/ \E d \in Drivers, p \in Procs : Arrive(d, p)
    \/ \E j \in Drivers : Worker(j) \/ Terminate(j) \/ Redeliver(j) \/ DoRevoke(j) \/ DoPurge(j)
    \/ \E p \in Procs : Crash(p)
    \/ FlagExpires

Spec == Init /\ [][Next]_vars

\* The event loop runs every coroutine, the workers run every job; nothing is
\* assumed of deadlines, revocations, redeliveries and expiries.
FairSpec == Spec /\ \A d \in Drivers : WF_vars(Step(d)) /\ WF_vars(Worker(d))

-----------------------------------------------------------------------------
(* Properties.                                                             *)

TypeOK ==
    /\ events \subseteq EventKinds
    /\ view \in {"Streaming", "ToolCall"} /\ st \in Statuses
    /\ creator \in Drivers \union {NoDriver}
    /\ outputs \in Seq(Drivers \union {NoDriver, "error"})
    /\ thinking \in {"none", "empty", "some"}
    /\ pauseFlag \in BOOLEAN /\ cancelFlag \in BOOLEAN /\ nodeFlag \in BOOLEAN
    /\ snapshot \in BOOLEAN
    /\ job \in [Drivers -> JobRecord]
    /\ handle \in [Procs -> Drivers \union {NoDriver}]
    /\ driver \in [Drivers -> DriverRecord]
    /\ tries \in Nat

\* No delegation ends with its try still open: a completion leaves the status
\* to its worker, a stream to its driver, and whatever pause, cancellation,
\* retry or late job comes in between, when the caller goes on one of them has
\* settled the try (or the task was paused).
SettledWhenReturned ==
    \A d \in Drivers :
        At(d, "over") /\ driver[d].out \in {"ok", "error"} /\ driver[d].try = tries
            => st # "running"

\* Every handle in a registry is of a driver of that process that waits for
\* its job, although all drivers of the task share one slot: retry_fresh_task
\* never waits for a worker nobody waits for.
HandleMeansAwaiting ==
    \A p \in Procs :
        handle[p] # NoDriver =>
            driver[handle[p]].proc = p /\ driver[handle[p]].pc \in {"await", "save"}

\* What counts as an answer was given by a job that ran to its end: a driver
\* returns ok, and an execution gets an output, only for such a job.
AnswersAreEarned ==
    /\ \A d \in Drivers : driver[d].out = "ok" => job[d].answered
    /\ \A k \in 1..Len(outputs) : outputs[k] \in Drivers => job[outputs[k]].answered

\* A delegation ends even if no deadline ever fires: every way a job can end,
\* whoever paused, revoked or cancelled it, is understood by its poll loop.
DelegationEnds == \A d \in Drivers : At(d, "send") ~> At(d, "over")

\* The row of the task keeps the promises of TaskRow: within one try the status
\* is settled once, there is at most one execution for each try, and an output is
\* written to the newest of them only, an error or the answer of a job of which a
\* run succeeded, whatever order workers, drivers and requests write in.
Row == INSTANCE TaskRow WITH Jobs <- Drivers, NoJob <- NoDriver,
                             given <- {d \in Drivers : job[d].answered}
ImplementsTaskRow == Row!Spec

\* A task is left running with nobody at work for it only by a crash, by a
\* cancellation because a run of its thread has lost the lock (the cleanup of the
\* run finds the rows it created and not those it reset; a retry that sat in the
\* registry slot of the thread has no cleanup at all, executor.py:106,
\* users/queries/retry.py:192, 272), or by a pause that hit a retry between the
\* removal of the flag and the reset of the row (users/queries/retry.py:148, 274):
\* whatever deadline, request, sweep, retry or redelivery interleaves, what runs
\* is ended by somebody.
LeftByPauseOrCrash ==
    st = "running" /\ (\A d \in Drivers : driver[d].pc \in {"idle", "over"})
        => \E d \in Drivers : driver[d].out \in {"paused", "dead"}
=============================================================================
