---------------------------- MODULE GraphDispatch ----------------------------
(***************************************************************************)
(* Ownership of one graph run ("thread") by the FastAPI main-thread        *)
(* instances: backend/main_thread/{lock,executor,registry,startup}.py, the *)
(* lifespan of main.py, and the requests that change the thread's status   *)
(* or call dispatch_graph_run.                                             *)
(*                                                                         *)
(* A request and the asyncio task it spawns are one attempt.  An attempt   *)
(* walks through the awaits of its request, of dispatch_graph_run and of   *)
(* _run_graph; every Redis script, every PostgreSQL statement and every    *)
(* stretch of Python between two awaits that touches the process-local     *)
(* registry is a step of its own, so attempts interleave exactly where the *)
(* event loop lets them.                                                   *)
(*                                                                         *)
(* A process (port + pid) never comes back: a restarted instance has a     *)
(* new pid and is another element of Procs.                                *)
(***************************************************************************)
EXTENDS Integers, Sequences, FiniteSets

CONSTANTS
    Procs,      \* main-thread processes, one per (port, pid)
    NoProc,     \* owner of a lock that does not exist
    Attempts,   \* requests that may call dispatch_graph_run, each used once
    NoAttempt,  \* empty registry entry
    NumNodes,   \* nodes of the (linear) graph
    Events      \* which of EventKinds may happen

\* "ack", "retry", "cancel", "pause": the user acknowledges the query, retries
\* or continues a task, cancels the query, pauses a task.  "crash": a process
\* dies at any point.  "shutdown": a process is told to terminate.  "stall": a
\* process or Redis is unresponsive for longer than the lock TTL or the
\* health-check timeout.  "redisError": a Redis call of the finally block
\* raises.  "counterExpiry": the EXPIRE of the fencing counter (20 lock TTLs
\* after the last acquire or steal) fires.
EventKinds ==
    {"ack", "retry", "cancel", "pause", "crash", "shutdown", "stall", "redisError",
     "counterExpiry"}

ASSUME ProcsAssumption == NoProc \notin Procs
ASSUME AttemptsAssumption == NoAttempt \notin Attempts
ASSUME NumNodesAssumption == NumNodes \in Nat \ {0}
ASSUME EventsAssumption == Events \subseteq EventKinds

VARIABLES
    \* Redis
    lock,        \* fin:thread:lock:{thread_id}; field epoch is history
    counter,     \* fin:thread:fencing:{thread_id}, 0 when the key is missing
    cancelFlag,  \* thread cancel flag
    \* PostgreSQL
    status,      \* user_queries.status
    rows,        \* one fin_agents.nodes row per node; epoch and by (the last
                 \* process whose write was accepted) are history
    ckpt,        \* nodes finished according to the last LangGraph checkpoint
    \* Main-thread processes
    phase,       \* uvicorn life cycle of each process
    registry,    \* registry._tasks[thread_id] of each process
    awaited,     \* the task the lifespan of each process waits for in wait_all
    \* Attempts: the coroutine of each, see RunRecord
    run,
    \* History
    granted      \* the processes the lock was granted to, in order

redisVars == <<lock, counter, cancelFlag>>
dbVars == <<status, rows, ckpt>>
procVars == <<phase, registry, awaited>>
vars == <<redisVars, dbVars, procVars, run, granted>>

Terminal == {"completed", "failed", "cancelled", "wrong"}
Statuses == {"none", "received", "running"} \union Terminal
Active == {"running", "paused"}
Phases == {"off", "booting", "serving", "draining", "pausing", "waiting", "dead"}

\* Where an attempt is suspended: in its request (cancel_query, retry_task or
\* the loop of the recovery), in the background task of a retry, in
\* dispatch_graph_run or in _run_graph.
RequestPC == {"cascade", "cascadeThread", "unpause", "background", "bootGet", "bootCheck"}
DispatchPC == {"get", "route", "check", "steal", "reget", "recheck", "resteal",
               "reacquire", "acquire", "aget", "acheck", "asteal", "spawn"}
TryPC == {"running", "ending", "failing", "sweep"}
RunPC == {"spawned", "clear", "release", "cleanup"} \union TryPC
PCs == {"idle", "retry", "ended", "over"} \union RequestPC \union DispatchPC \union RunPC

Locks == [owner : Procs \union {NoProc}, token : Nat, epoch : Nat]
Free == [owner |-> NoProc, token |-> 0, epoch |-> 0]

\* srv is the column is_last_paused_by_server.
RowRecord == [st : Statuses \union Active, srv : BOOLEAN, token : Nat, epoch : Nat,
              by : Procs \union {NoProc}]
NoRow == [st |-> "none", srv |-> TRUE, token |-> 0, epoch |-> 0, by |-> NoProc]

RunRecord ==
    [pc : PCs,
     proc : Procs \union {NoProc},  \* the process it runs on
     token : Nat,           \* its fencing token (ContextVar); 0: no lock taken
     epoch : Nat,           \* history: the grant the token stands for
     seen : Locks,          \* what the last get_lock_owner returned
     resume : BOOLEAN,      \* dispatch_graph_run(resume=...)
     bg : BOOLEAN,          \* dispatched by the background task of a retry that
                            \* has not ended yet
     pos : Nat,             \* steps done: each node is entered, completed and
                            \* checkpointed
     paused : BOOLEAN,      \* pause flag of the task the node waits for
     leaf : Statuses,       \* the status complete_thread is about to write
     lost : BOOLEAN,        \* lock_lost_event
     cancelled : BOOLEAN]   \* task.cancel() called, CancelledError pending

Idle == [pc |-> "idle", proc |-> NoProc, token |-> 0, epoch |-> 0, seen |-> Free,
         resume |-> FALSE, bg |-> FALSE, pos |-> 0, paused |-> FALSE,
         leaf |-> "none", lost |-> FALSE, cancelled |-> FALSE]
Over == [Idle EXCEPT !.pc = "over"]

Alive(p) == p \in Procs /\ phase[p] \notin {"off", "dead"}

\* The next step of a is the one at l.  A pending CancelledError comes first.
At(a, l) == run[a].pc = l /\ Alive(run[a].proc) /\ ~run[a].cancelled
Goto(a, l) == run' = [run EXCEPT ![a].pc = l]

\* The coroutine of a returns or raises; a background task still has its done
\* callback to run.
Left(r) == IF r.bg THEN [r EXCEPT !.pc = "ended"] ELSE Over
Quit(a) == run' = [run EXCEPT ![a] = Left(@)]

Init ==
    /\ lock = Free /\ counter = 0 /\ cancelFlag = FALSE
    /\ status = "none" /\ rows = [k \in 1..NumNodes |-> NoRow] /\ ckpt = 0
    /\ phase = [p \in Procs |-> "off"]
    /\ registry = [p \in Procs |-> NoAttempt]
    /\ awaited = [p \in Procs |-> NoAttempt]
    /\ run = [a \in Attempts |-> Idle]
    /\ granted = <<>>

-----------------------------------------------------------------------------
(* Requests.  An idle attempt starts on process p at label l.              *)

Enter(a, p, l, r) ==
    /\ run[a].pc = "idle"
    /\ run' = [run EXCEPT ![a] = [Idle EXCEPT !.pc = l, !.proc = p, !.resume = r]]

\* A fresh submission of the query (a new thread_id), then dispatch.
SubmitQuery(a, p) ==
    /\ status = "none"
    /\ status' = "received"
    /\ Enter(a, p, "get", FALSE)
    /\ UNCHANGED <<redisVars, rows, ckpt, procVars, granted>>

\* ack_query dispatches too, again from the start, unless the thread ended.
AckQuery(a, p) ==
    /\ "ack" \in Events
    /\ status \in {"received", "running"}
    /\ status' = "running"
    /\ Enter(a, p, "get", FALSE)
    /\ UNCHANGED <<redisVars, rows, ckpt, procVars, granted>>

ResumeQuery(a, p) ==
    /\ status \in {"cancelled", "failed"}
    /\ status' = "running"
    /\ Enter(a, p, "get", TRUE)
    /\ UNCHANGED <<redisVars, rows, ckpt, procVars, granted>>

\* cancel_query sets the flag, whatever the status; the cascade follows.
CancelQuery(a, p) ==
    /\ "cancel" \in Events
    /\ status # "none"
    /\ cancelFlag' = TRUE
    /\ Enter(a, p, "cascade", FALSE)
    /\ UNCHANGED <<lock, counter, dbVars, procVars, granted>>

\* One UPDATE of the active nodes.
Swept(s) ==
    [k \in 1..NumNodes |-> IF rows[k].st \in Active THEN [rows[k] EXCEPT !.st = s] ELSE rows[k]]

\* Mutant: the last writer wins.
ThreadEndsAnyway(s) == status' = s

\* The first terminal status of the thread wins; no fencing token is compared.
ThreadEnds(s) == status' = IF status \in Terminal THEN status ELSE s

\* cancel_thread: its connection is in autocommit mode, each UPDATE commits
\* alone.
CancelNodes(a) ==
    /\ At(a, "cascade")
    /\ rows' = Swept("cancelled")
    /\ Goto(a, "cascadeThread")
    /\ UNCHANGED <<redisVars, status, ckpt, procVars, granted>>

CancelThread(a) ==
    /\ At(a, "cascadeThread")
    /\ ThreadEnds("cancelled")
    /\ Quit(a)
    /\ UNCHANGED <<redisVars, rows, ckpt, procVars, granted>>

\* retry_task (also continue_task) of a task of a node that has begun: clear
\* the cancel flag; set the paused node to running; start and register the
\* background task that redoes the Celery task.
RetryTask(a, p) ==
    /\ "retry" \in Events
    /\ \E k \in 1..NumNodes : rows[k].st # "none"
    /\ cancelFlag' = FALSE
    /\ Enter(a, p, "unpause", TRUE)
    /\ UNCHANGED <<lock, counter, dbVars, procVars, granted>>

ResumeNode(a) ==
    /\ At(a, "unpause")
    /\ \E k \in 1..NumNodes :
         /\ rows[k].st # "none"
         /\ rows' = [rows EXCEPT ![k].st = IF @ = "paused" THEN "running" ELSE @]
    /\ Goto(a, "background")
    /\ UNCHANGED <<redisVars, status, ckpt, procVars, granted>>

StartBackground(a) ==
    /\ At(a, "background")
    /\ registry' = [registry EXCEPT ![run[a].proc] = a]
    /\ run' = [run EXCEPT ![a].pc = "retry", ![a].bg = TRUE]
    /\ UNCHANGED <<redisVars, dbVars, phase, awaited, granted>>

\* _run_retry_background: the Celery task fails, is paused or leaves siblings
\* that are not done, or the graph is dispatched again.
BackgroundEnds(a) ==
    /\ At(a, "retry")
    /\ Quit(a) \/ Goto(a, "get")
    /\ UNCHANGED <<redisVars, dbVars, procVars, granted>>

\* The query of recover_running_threads returns the thread.
RecoverySelects ==
    /\ status = "running"
    /\ \E k \in 1..NumNodes : rows[k].st \in Active /\ rows[k].srv

\* lifespan startup: run the recovery query, then serve.  A booting process
\* does not listen yet.
BootRecover(a, p) ==
    /\ phase[p] = "off"
    /\ RecoverySelects
    /\ phase' = [phase EXCEPT ![p] = "booting"]
    /\ Enter(a, p, "bootGet", TRUE)
    /\ UNCHANGED <<redisVars, dbVars, registry, awaited, granted>>

Becomes(p, from, to) ==
    /\ phase[p] = from
    /\ phase' = [phase EXCEPT ![p] = to]

\* No request is being served by p.
NoRequest(p) ==
    \A a \in Attempts :
        run[a].proc = p => run[a].pc \notin RequestPC \union DispatchPC \/ run[a].bg

BootIdle(p) ==
    /\ ~RecoverySelects
    /\ Becomes(p, "off", "serving")
    /\ UNCHANGED <<redisVars, dbVars, registry, awaited, run, granted>>

\* lifespan reaches its yield once the recovery dispatch has returned.
BootDone(p) ==
    /\ NoRequest(p)
    /\ Becomes(p, "booting", "serving")
    /\ UNCHANGED <<redisVars, dbVars, registry, awaited, run, granted>>

BootGet(a) ==
    /\ At(a, "bootGet")
    /\ run' = [run EXCEPT ![a].seen = lock,
                          ![a].pc = IF lock.owner \in {NoProc, run[a].proc}
                                      THEN "get" ELSE "bootCheck"]
    /\ UNCHANGED <<redisVars, dbVars, procVars, granted>>

-----------------------------------------------------------------------------
(* dispatch_graph_run.                                                     *)

\* check_owner_alive: the TCP connect can only succeed when the process
\* exists, and may fail while it is not (yet, or any longer) listening or,
\* with a stall, when it is.
SeenDead(p) == p \in Procs => phase[p] # "serving" \/ "stall" \in Events

\* Mutant: waits until the owner is gone.
WaitForOwner(a, from, ifDead) ==
    /\ At(a, from)
    /\ SeenDead(run[a].seen.owner) /\ Goto(a, ifDead)
    /\ UNCHANGED <<redisVars, dbVars, procVars, granted>>

\* A live owner ends the dispatch: ThreadRoutingError, or a skipped recovery.
CheckOwnerAlive(a, from, ifDead) ==
    /\ At(a, from)
    /\ \/ Alive(run[a].seen.owner) /\ Quit(a)
       \/ SeenDead(run[a].seen.owner) /\ Goto(a, ifDead)
    /\ UNCHANGED <<redisVars, dbVars, procVars, granted>>

GetLockOwner(a, from, ifSome, ifNone) ==
    /\ At(a, from)
    /\ run' = [run EXCEPT ![a].seen = lock,
                          ![a].pc = IF lock = Free THEN ifNone ELSE ifSome]
    /\ UNCHANGED <<redisVars, dbVars, procVars, granted>>

\* The INCR and SET both Lua scripts end with, and the token they return.
Grant(a) ==
    /\ counter' = counter + 1
    /\ granted' = Append(granted, run[a].proc)
    /\ lock' = [owner |-> run[a].proc, token |-> counter + 1, epoch |-> Len(granted) + 1]
    /\ run' = [run EXCEPT ![a].token = counter + 1,
                          ![a].epoch = Len(granted) + 1,
                          ![a].pc = "spawn"]

\* The script returned nil: dispatch goes on at l, or gives up (l is "over").
NoGrant(a, l) ==
    /\ IF l = "over" THEN Quit(a) ELSE Goto(a, l)
    /\ UNCHANGED <<lock, counter, granted>>

AcquireLock(a, from, ifHeld) ==
    /\ At(a, from)
    /\ \/ lock = Free /\ Grant(a)
       \/ lock # Free /\ NoGrant(a, ifHeld)
    /\ UNCHANGED <<cancelFlag, dbVars, procVars>>

StealLock(a, from, ifChanged) ==
    /\ At(a, from)
    /\ \/ lock.owner = run[a].seen.owner /\ Grant(a)
       \/ lock.owner # run[a].seen.owner /\ NoGrant(a, ifChanged)
    /\ UNCHANGED <<cancelFlag, dbVars, procVars>>

\* Whatever task is registered is not done: a graph run or a retry.
IsRunning(p) ==
    /\ registry[p] # NoAttempt
    /\ LET r == run[registry[p]] IN r.pc \in RunPC \/ (r.bg /\ r.pc # "ended")

\* Python after the first GET has returned: is_mine, is_running.
Route(a) ==
    /\ At(a, "route")
    /\ LET r == run[a]
           mine == r.seen.owner = r.proc
       IN  \/ ~mine /\ Goto(a, "check")
           \/ mine /\ IsRunning(r.proc) /\ Quit(a)
           \/ /\ mine /\ ~IsRunning(r.proc)
              /\ run' = [run EXCEPT ![a].token = r.seen.token,
                                    ![a].epoch = r.seen.epoch,
                                    ![a].pc = "spawn"]
    /\ UNCHANGED <<redisVars, dbVars, procVars, granted>>

\* create_task and register: no await in between.  The background task that
\* dispatches is over with it: wait_all does not wait for the new task.
Spawn(a) ==
    /\ At(a, "spawn")
    /\ registry' = [registry EXCEPT ![run[a].proc] = a]
    /\ awaited' = [awaited EXCEPT ![run[a].proc] = IF @ = a THEN NoAttempt ELSE @]
    /\ run' = [run EXCEPT ![a].pc = "spawned", ![a].seen = Free]
    /\ UNCHANGED <<redisVars, dbVars, phase, granted>>

Dispatch(a) ==
    \/ BootGet(a)
    \/ CheckOwnerAlive(a, "bootCheck", "get")
    \/ GetLockOwner(a, "get", "route", "acquire")
    \/ Route(a)
    \/ CheckOwnerAlive(a, "check", "steal")
    \/ StealLock(a, "steal", "reget")
    \/ GetLockOwner(a, "reget", "recheck", "reacquire")
    \/ CheckOwnerAlive(a, "recheck", "resteal")
    \/ StealLock(a, "resteal", "over")
    \/ AcquireLock(a, "reacquire", "over")
    \/ AcquireLock(a, "acquire", "aget")
    \/ GetLockOwner(a, "aget", "acheck", "spawn")
    \/ CheckOwnerAlive(a, "acheck", "asteal")
    \/ StealLock(a, "asteal", "over")
    \/ Spawn(a)

-----------------------------------------------------------------------------
(* _run_graph: the try block.                                              *)

\* First step of the task: renew loop started, 'received' -> 'running' on a
\* fresh run, the last checkpoint loaded on a resumed one.
StartRun(a) ==
    /\ At(a, "spawned")
    /\ run' = [run EXCEPT ![a].pc = "running",
                          ![a].pos = IF run[a].resume THEN 3 * ckpt ELSE 0]
    /\ status' = IF ~run[a].resume /\ status = "received" THEN "running" ELSE status
    /\ UNCHANGED <<redisVars, rows, ckpt, procVars, granted>>

\* The node whose entry, completion or checkpoint is the next step of a.
Current(a) == run[a].pos \div 3 + 1
InNode(a) == run[a].pc = "running" /\ run[a].pos % 3 = 1

\* Mutant: no comparison of tokens.
UpsertedAnyToken(row, r) ==
    [st    |-> IF row.st \in Terminal THEN row.st ELSE "running",
     srv   |-> TRUE, token |-> r.token, epoch |-> r.epoch, by |-> r.proc]

\* upsert_node: a lower token leaves the row alone, a terminal row keeps its
\* status, the stored token is the greatest seen.
Upserted(row, r) ==
    IF r.token < row.token
      THEN row
      ELSE [st    |-> IF row.st \in Terminal THEN row.st ELSE "running",
            srv   |-> IF row.st \in Terminal THEN row.srv ELSE TRUE,
            token |-> r.token, epoch |-> r.epoch, by |-> r.proc]

EnterNode(a) ==
    /\ At(a, "running") /\ run[a].pos % 3 = 0 /\ Current(a) \in 1..NumNodes
    /\ rows' = [rows EXCEPT ![Current(a)] = Upserted(@, run[a])]
    /\ run' = [run EXCEPT ![a].pos = @ + 1, ![a].paused = FALSE]
    /\ UNCHANGED <<redisVars, status, ckpt, procVars, granted>>

\* Mutant: no comparison of tokens.
CompletedAnyToken(row, r, s) ==
    IF row.st \notin Terminal THEN [row EXCEPT !.st = s, !.by = r.proc] ELSE row

\* complete_node and pause_node need the exact token.
Completed(row, r, s) ==
    IF row.st \notin Terminal /\ row.token = r.token
      THEN [row EXCEPT !.st = s, !.by = r.proc] ELSE row

Paused(row, r) ==
    IF row.st = "running" /\ row.token = r.token
      THEN [row EXCEPT !.st = "paused", !.srv = FALSE, !.by = r.proc] ELSE row

\* The node ends with its tasks.  A failure the node caught in its steps leads
\* to the next node, an exception out of the graph.
CompleteNode(a) ==
    /\ At(a, "running") /\ InNode(a)
    /\ \E s \in {"completed", "failed"} :
         /\ rows' = [rows EXCEPT ![Current(a)] = Completed(@, run[a], s)]
         /\ \/ run' = [run EXCEPT ![a].pos = @ + 1, ![a].paused = FALSE]
            \/ s = "failed" /\ Goto(a, "failing")
    /\ UNCHANGED <<redisVars, status, ckpt, procVars, granted>>

\* LangGraph saves its checkpoint after the node; nothing fences it.
Checkpoint(a) ==
    /\ At(a, "running") /\ run[a].pos % 3 = 2
    /\ ckpt' = Current(a)
    /\ run' = [run EXCEPT ![a].pos = @ + 1]
    /\ UNCHANGED <<redisVars, status, rows, procVars, granted>>

\* The try block is left; what its locals hold does not matter any more.
Unwound(r) ==
    [r EXCEPT !.pc = "clear", !.resume = FALSE, !.pos = 0, !.paused = FALSE, !.leaf = "none",
              !.cancelled = FALSE]
Finally(a) == run' = [run EXCEPT ![a] = Unwound(@)]

\* TaskPausedError: the task of the node was paused.
PauseRun(a) ==
    /\ At(a, "running") /\ InNode(a) /\ run[a].paused
    /\ rows' = [rows EXCEPT ![Current(a)] = Paused(@, run[a])]
    /\ Finally(a)
    /\ UNCHANGED <<redisVars, status, ckpt, procVars, granted>>

\* ThreadCancelledError: the poll of the node's task saw the cancel flag.
StopRun(a) ==
    /\ At(a, "running") /\ InNode(a) /\ cancelFlag
    /\ Finally(a)
    /\ UNCHANGED <<redisVars, dbVars, procVars, granted>>

\* complete_thread: read the status of the last node, then end the thread.
ReadLeaf(a) ==
    /\ At(a, "running") /\ run[a].pos = 3 * NumNodes
    /\ LET leaf == rows[NumNodes].st
       IN  run' = [run EXCEPT ![a].pc = "ending",
                              ![a].leaf = IF leaf \in Terminal THEN leaf ELSE "completed"]
    /\ UNCHANGED <<redisVars, dbVars, procVars, granted>>

FinishRun(a) ==
    /\ At(a, "ending")
    /\ ThreadEnds(run[a].leaf)
    /\ Finally(a)
    /\ UNCHANGED <<redisVars, rows, ckpt, procVars, granted>>

\* An exception: complete_thread(failed=True) ends the thread and, if that
\* changed it, fails the active nodes in a second statement.
FailRun(a) ==
    /\ At(a, "failing")
    /\ ThreadEnds("failed")
    /\ IF status \in Terminal THEN Finally(a) ELSE Goto(a, "sweep")
    /\ UNCHANGED <<redisVars, rows, ckpt, procVars, granted>>

FailNodes(a) ==
    /\ At(a, "sweep")
    /\ rows' = Swept("failed")
    /\ Finally(a)
    /\ UNCHANGED <<redisVars, status, ckpt, procVars, granted>>

\* CancelledError.  From the try block it leads to the finally block, whether
\* the lock was lost or not; before the first step the body never runs; in
\* the finally block it skips what is left of it.
DeliverCancel(a) ==
    /\ run[a].cancelled /\ Alive(run[a].proc)
    /\ run' = [run EXCEPT ![a] =
                 IF @.pc \in TryPC THEN Unwound(@)
                                   ELSE [@ EXCEPT !.pc = "ended", !.cancelled = FALSE]]
    /\ UNCHANGED <<redisVars, dbVars, procVars, granted>>

(* _run_graph: the finally block.                                          *)

ClearCancelFlag(a) ==
    /\ At(a, "clear")
    /\ cancelFlag' = FALSE
    /\ Goto(a, "release")
    /\ UNCHANGED <<lock, counter, dbVars, procVars, granted>>

\* Mutant: the fencing counter is deleted with the lock.
ReleaseWithCounter(a) ==
    /\ At(a, "release")
    /\ lock' = IF lock.owner = run[a].proc THEN Free ELSE lock
    /\ counter' = IF lock.owner = run[a].proc THEN 0 ELSE counter
    /\ Goto(a, IF run[a].lost /\ run[a].token > 0 THEN "cleanup" ELSE "ended")
    /\ UNCHANGED <<cancelFlag, dbVars, procVars, granted>>

\* release_lock compares port and pid, not the token.
ReleaseLock(a) ==
    /\ At(a, "release")
    /\ lock' = IF lock.owner = run[a].proc THEN Free ELSE lock
    /\ Goto(a, IF run[a].lost /\ run[a].token > 0 THEN "cleanup" ELSE "ended")
    /\ UNCHANGED <<counter, cancelFlag, dbVars, procVars, granted>>

\* cleanup_zombie_tasks writes rows of fin_agents.tasks only.
CleanupZombie(a) ==
    /\ At(a, "cleanup")
    /\ Goto(a, "ended")
    /\ UNCHANGED <<redisVars, dbVars, procVars, granted>>

\* A Redis call of the finally block raises: the rest of it is skipped.
FinallyRaises(a) ==
    /\ "redisError" \in Events
    /\ At(a, "clear") \/ At(a, "release")
    /\ Goto(a, "ended")
    /\ UNCHANGED <<redisVars, dbVars, procVars, granted>>

\* The done callback pops by thread id: whatever task is registered.
DoneCallback(a) ==
    /\ At(a, "ended")
    /\ registry' = [registry EXCEPT ![run[a].proc] = NoAttempt]
    /\ awaited' = [awaited EXCEPT ![run[a].proc] = IF @ = a THEN NoAttempt ELSE @]
    /\ run' = [run EXCEPT ![a] = Over]
    /\ UNCHANGED <<redisVars, dbVars, phase, granted>>

\* So does the one of the background task that has just dispatched a run.
BackgroundCallback(a) ==
    /\ run[a].bg /\ run[a].pc \in RunPC
    /\ Alive(run[a].proc)
    /\ registry' = [registry EXCEPT ![run[a].proc] = NoAttempt]
    /\ run' = [run EXCEPT ![a].bg = FALSE]
    /\ UNCHANGED <<redisVars, dbVars, phase, awaited, granted>>

Request(a) ==
    \/ CancelNodes(a)
    \/ CancelThread(a)
    \/ ResumeNode(a)
    \/ StartBackground(a)
    \/ BackgroundEnds(a)

Run(a) ==
    \/ StartRun(a)
    \/ EnterNode(a)
    \/ CompleteNode(a)
    \/ Checkpoint(a)
    \/ PauseRun(a)
    \/ StopRun(a)
    \/ ReadLeaf(a)
    \/ FinishRun(a)
    \/ FailRun(a)
    \/ FailNodes(a)
    \/ DeliverCancel(a)
    \/ ClearCancelFlag(a)
    \/ ReleaseLock(a)
    \/ CleanupZombie(a)
    \/ FinallyRaises(a)
    \/ DoneCallback(a)

\* The renew loop lives from the task's first step to its finally block,
\* unless it found the lock lost.
Renewing(a) == run[a].pc \in TryPC /\ Alive(run[a].proc) /\ ~run[a].lost

\* The task that the renew loop of a cancels: the one found in the registry.
Aborted(a) == IF IsRunning(run[a].proc) THEN {registry[run[a].proc]} ELSE {}

\* One turn of _renew_lock_loop that finds the lock gone or foreign.  (A turn
\* that extends the TTL changes nothing here: see LockExpires.)
RenewFails(a) ==
    /\ Renewing(a)
    /\ lock.owner # run[a].proc
    /\ run' = [b \in Attempts |->
                 [run[b] EXCEPT !.lost = @ \/ b = a,
                                !.cancelled = @ \/ b \in Aborted(a)]]
    /\ UNCHANGED <<redisVars, dbVars, procVars, granted>>

-----------------------------------------------------------------------------
(* Redis expiry and the life of the processes.                             *)

\* The TTL is longer than what precedes and follows the renew loop.
KeepsLock(a) ==
    Renewing(a) \/ (run[a].pc \in {"spawn", "spawned", "clear", "release"} /\ Alive(run[a].proc))

\* The PX of the lock: a run of the owner outpaces it, unless the process
\* stalls.
LockExpires ==
    /\ lock # Free
    /\ \/ "stall" \in Events
       \/ ~ \E a \in Attempts : KeepsLock(a) /\ run[a].proc = lock.owner
    /\ lock' = Free
    /\ UNCHANGED <<counter, cancelFlag, dbVars, procVars, run, granted>>

CounterExpires ==
    /\ "counterExpiry" \in Events
    /\ counter > 0
    /\ counter' = 0
    /\ UNCHANGED <<lock, cancelFlag, dbVars, procVars, run, granted>>

\* The user pauses the task a node waits for.
PauseTask(a) ==
    /\ "pause" \in Events
    /\ InNode(a)
    /\ run' = [run EXCEPT ![a].paused = TRUE]
    /\ UNCHANGED <<redisVars, dbVars, procVars, granted>>

\* The coroutines of a process die with it.
Dies(p) ==
    /\ phase' = [phase EXCEPT ![p] = "dead"]
    /\ registry' = [registry EXCEPT ![p] = NoAttempt]
    /\ awaited' = [awaited EXCEPT ![p] = NoAttempt]
    /\ run' = [a \in Attempts |-> IF run[a].proc = p THEN Over ELSE run[a]]
    /\ UNCHANGED <<redisVars, dbVars, granted>>

Crash(p) == "crash" \in Events /\ Alive(p) /\ Dies(p)

\* SIGTERM: uvicorn closes the socket and lets the open requests end.
Shutdown(p) ==
    /\ "shutdown" \in Events
    /\ Becomes(p, "serving", "draining")
    /\ UNCHANGED <<redisVars, dbVars, registry, awaited, run, granted>>

\* pause_all_running_tasks_on_shutdown: the pause flags of the running tasks
\* of all processes, then their running nodes.
PauseFlags(p) ==
    /\ NoRequest(p)
    /\ Becomes(p, "draining", "pausing")
    /\ run' = [a \in Attempts |-> [run[a] EXCEPT !.paused = @ \/ InNode(a)]]
    /\ UNCHANGED <<redisVars, dbVars, registry, awaited, granted>>

\* Then wait_all takes the registered task.
PauseNodes(p) ==
    /\ Becomes(p, "pausing", "waiting")
    /\ rows' = [k \in 1..NumNodes |->
                  IF rows[k].st = "running" THEN [rows[k] EXCEPT !.st = "paused", !.srv = TRUE]
                                            ELSE rows[k]]
    /\ awaited' = [awaited EXCEPT ![p] = registry[p]]
    /\ UNCHANGED <<redisVars, status, ckpt, registry, run, granted>>

Exit(p) == phase[p] = "waiting" /\ awaited[p] = NoAttempt /\ Dies(p)

Env ==
    \/ LockExpires
    \/ CounterExpires
    \/ \E a \in Attempts : PauseTask(a)
    \/ \E p \in Procs : \/ BootIdle(p)
                        \/ BootDone(p)
                        \/ Crash(p)
                        \/ Shutdown(p)
                        \/ PauseFlags(p)
                        \/ PauseNodes(p)
                        \/ Exit(p)

Arrive(a) ==
    \E p \in Procs : \/ BootRecover(a, p)
                     \/ /\ phase[p] = "serving"
                        /\ \/ SubmitQuery(a, p)
                           \/ AckQuery(a, p)
                           \/ ResumeQuery(a, p)
                           \/ CancelQuery(a, p)
                           \/ RetryTask(a, p)

Step(a) == Request(a) \/ Dispatch(a) \/ Run(a) \/ BackgroundCallback(a) \/ RenewFails(a)

Next == Env \/ \E a \in Attempts : Arrive(a) \/ Step(a)

Spec == Init /\ [][Next]_vars

-----------------------------------------------------------------------------
(* Properties.                                                             *)

TypeOK ==
    /\ lock \in Locks /\ counter \in Nat /\ cancelFlag \in BOOLEAN
    /\ status \in Statuses /\ ckpt \in Nat
    /\ rows \in [1..NumNodes -> RowRecord]
    /\ phase \in [Procs -> Phases]
    /\ registry \in [Procs -> Attempts \union {NoAttempt}]
    /\ awaited \in [Procs -> Attempts \union {NoAttempt}]
    /\ run \in [Attempts -> RunRecord]
    /\ granted \in Seq(Procs)

\* A (token, epoch) pair read from the lock or carried by a run of process p
\* is genuine: 0 when no grant stands behind it, else the token is the number
\* of the grant and the grant went to p.
Genuine(p, t, e) ==
    /\ t = e
    /\ e > 0 => e \in 1..Len(granted) /\ granted[e] = p

\* Every token in Redis, in a coroutine (also one that read the lock before
\* an await and uses the value after it) or in a node row belongs to exactly
\* one grant of the lock, and its bearer is the process of that grant.
TokensGenuine ==
    /\ counter = Len(granted)
    /\ Genuine(lock.owner, lock.token, lock.epoch)
    /\ \A a \in Attempts :
         /\ Genuine(run[a].proc, run[a].token, run[a].epoch)
         /\ Genuine(run[a].seen.owner, run[a].seen.token, run[a].seen.epoch)
    /\ \A k \in 1..NumNodes : Genuine(rows[k].by, rows[k].token, rows[k].epoch)

\* Two coroutines with the same fencing token run on the same process: the
\* exact-token guards of complete_node and cleanup_zombie_tasks never confuse
\* two processes.
OneProcessPerToken ==
    \A a, b \in Attempts :
        run[a].token = run[b].token /\ run[a].token > 0 => run[a].proc = run[b].proc

\* A node row never goes back to an older ownership of the thread.
NoStaleOverwrite == [][\A k \in 1..NumNodes : rows'[k].epoch >= rows[k].epoch]_vars

\* The lock and the rows implement FencedOwnership.
Abstract == INSTANCE FencedOwnership WITH
    node <- [k \in 1..NumNodes |->
               [st |-> rows[k].st, epoch |-> rows[k].epoch, by |-> rows[k].by]]

ImplementsFencedOwnership == Abstract!Spec

\* Whichever cancellation, completion, failure, shutdown or run of an old
\* owner comes late: a terminal node keeps its status, and a terminal thread
\* leaves its status only by an explicit resume.
TerminalIsFinal ==
    [][/\ status \in Terminal => status' \in {status, "running"}
       /\ \A k \in 1..NumNodes : rows[k].st \in Terminal => rows'[k].st = rows[k].st]_vars

-----------------------------------------------------------------------------
(* Liveness: the event loop of a living process keeps running every        *)
(* coroutine that is not blocked, and expired keys go away.                *)

Fairness ==
    /\ \A a \in Attempts :
         /\ WF_vars(Request(a)) /\ WF_vars(Dispatch(a)) /\ WF_vars(Run(a))
         /\ WF_vars(BackgroundCallback(a)) /\ WF_vars(RenewFails(a))
    /\ \A p \in Procs : WF_vars(BootDone(p) \/ PauseFlags(p) \/ PauseNodes(p) \/ Exit(p))
    /\ WF_vars(LockExpires)

FairSpec == Spec /\ Fairness

\* A terminated instance exits: the tasks it waits for all end, whatever else
\* races for the thread meanwhile.
DrainEnds == \A p \in Procs : phase[p] = "draining" ~> phase[p] = "dead"
=============================================================================
