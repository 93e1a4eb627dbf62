------------------------------- MODULE GraphRun -------------------------------
(* How one thread runs through its LangGraph graph: the __call__ of every node  *)
(* (models/node_utils/entrypoint.py), the rows it writes, the cascades of       *)
(* cancellation and failure (cancel_handler.py, users/queries), pause, resume   *)
(* from the checkpoint (executor.py, state_recovery.py) and re-exploration of a *)
(* finished node as a new version (users/queries/re_explore.py).                *)
(*                                                                             *)
(* LangGraph itself is external: a run is a sequence of supersteps; a node of   *)
(* the next superstep is triggered by ANY finished predecessor (plain edges);   *)
(* the writes of a superstep become visible together, in a checkpoint; the      *)
(* first exception stops the other nodes of the superstep.                      *)
(*                                                                             *)
(* One process, one run at a time (GraphDispatch models who runs, and the       *)
(* fencing of the row updates). A node has at most one task here (its driver is *)
(* modelled in TaskDelegation, fans of several tasks in NodePipelines).         *)
EXTENDS Integers, Sequences, FiniteSets

CONSTANTS Nodes,        \* node names of the compiled graph
          Edges,        \* its edges
          Group,        \* nodes of the parallel group "analyze_parallel"
          Tasked,       \* nodes whose orchestrate runs a task
          MaxGen,       \* bound: the highest version
          Budgets,      \* bounds: how many dispatches, requests, crashes and
                        \* re-explorations the thread sees
          NoKey         \* no row is being cancelled

ASSUME EdgesJoinNodes == Edges \subseteq Nodes \X Nodes
ASSUME BudgetsAreCounts ==
  /\ MaxGen \in Nat
  /\ Budgets \subseteq [runs : Nat, requests : Nat, crashes : Nat, forks : 0..MaxGen]
ASSUME GroupIsOfGraph == Group \subseteq Nodes /\ Tasked \subseteq Nodes
ASSUME NoneIsNoNode == "none" \notin Nodes

Succ(n) == {m \in Nodes : <<n, m>> \in Edges}
Preds(n) == {m \in Nodes : <<m, n>> \in Edges}
Roots == {n \in Nodes : Preds(n) = {}}

(* The graph has no cycle and one last node (final_report).                     *)
ASSUME OneEnd ==
  \E end \in Nodes, depth \in [Nodes -> 0..Cardinality(Nodes)] :
    /\ \A n \in Nodes : Succ(n) = {} => n = end
    /\ \A n \in Nodes : \A m \in Succ(n) : depth[m] < depth[n]

Versions == 0..MaxGen
Keys == Nodes \X Versions            \* make_node_id(thread, name, version)
Terminal == {"completed", "failed", "cancelled"}
Active == {"running", "paused"}
RowStatus == Terminal \union Active \union {"none"}
Unfinished == {"received", "running"}

VARIABLES row,      \* [Keys -> RowStatus]: fin_agents.nodes.status
          task,     \* [Keys -> RowStatus]: the row of the node's task
          leaf,     \* [Versions -> Nodes or NoKey]: terminal row updated last
          thread,   \* user_queries.status
          flags,    \* [thread |-> BOOLEAN, nodes |-> SUBSET Keys]: cancel flags
          run,      \* "idle", "nodes", "stopped" or "finished"
          why,      \* exception that stopped the run
          state,    \* checkpoint of the run: [rec, next, last, fork], and
                    \* beside, where a newer one holds the recovered records
          writes,   \* [Nodes -> record or none]: written by ended nodes
          pc,       \* [Nodes -> where the __call__ of the node is]
          found,    \* newest checkpoint whose next holds the node (or "none")
          req,      \* the cancellation request in progress
          origin,   \* what made the thread unfinished: "start", "resume", "fork"
                    \* or "busy", a fork whose dispatch was ignored
          left      \* what is left of the budget
rows == <<row, task, leaf, thread, flags>>
engine == <<run, why, state, writes, pc, found>>
vars == <<row, task, leaf, thread, flags, run, why, state, writes, pc, found, req, origin, left>>

NoFork == [gen |-> 0, point |-> "none", group |-> FALSE]
NoWrite == [ver |-> 0, status |-> "none"]
Empty == [rec |-> [k \in Keys |-> "none"], next |-> {}, last |-> {},
          fork |-> NoFork, beside |-> FALSE]

Gen == state.fork.gen                \* state.get("fork_generation", 0)
Key(n) == <<n, Gen>>
AnyActive == \E k \in Keys : row[k] \in Active
Quiet == \A n \in Nodes : pc[n] \in {"idle", "returned"}

Init ==
  /\ row = [k \in Keys |-> "none"] /\ task = row
  /\ leaf = [v \in Versions |-> "none"]
  /\ thread = "received"
  /\ flags = [thread |-> FALSE, nodes |-> {}]
  /\ run = "idle" /\ why = "none" /\ state = Empty
  /\ writes = [n \in Nodes |-> NoWrite] /\ pc = [n \in Nodes |-> "idle"]
  /\ found = [n \in Nodes |-> Empty]
  /\ req = [at |-> "idle", key |-> NoKey]
  /\ origin = "start" /\ left \in Budgets

-------------------------------------------------------------------------------
(* Row updates.                                                                *)

(* _UPDATE_NODE_COMPLETED: only a row that is not terminal.                     *)
CloseRow(k, status) ==
  IF row[k] \in Active
  THEN row' = [row EXCEPT ![k] = status] /\ leaf' = [leaf EXCEPT ![k[2]] = k[1]]
  ELSE UNCHANGED <<row, leaf>>

\* Defect: the status of a terminal row is overwritten.
ReopenRow(k) == row' = [row EXCEPT ![k] = "running"] /\ UNCHANGED leaf

(* _UPSERT_NODE: a terminal row keeps its status and is touched.                *)
OpenRow(k) ==
  IF row[k] \in Terminal
  THEN leaf' = [leaf EXCEPT ![k[2]] = k[1]] /\ UNCHANGED row
  ELSE row' = [row EXCEPT ![k] = "running"] /\ UNCHANGED leaf

(* Statements over all rows of the thread that are not terminal.                *)
Sweep(rs, status) == [k \in Keys |-> IF rs[k] \in Active THEN status ELSE rs[k]]
SweptLeaf(v) == LET swept == {n \in Nodes : row[<<n, v>>] \in Active}
                IN IF swept = {} THEN {leaf[v]} ELSE swept

(* cancel_thread: the flag, the tasks, the nodes, the thread.                   *)
CancelThread ==
  /\ flags' = [flags EXCEPT !.thread = TRUE]
  /\ task' = Sweep(task, "cancelled")
  /\ row' = Sweep(row, "cancelled")
  /\ leaf' \in [Versions -> Nodes \union {"none"}]
  /\ \A v \in Versions : leaf'[v] \in SweptLeaf(v)
  /\ thread' = IF thread \in Unfinished THEN "cancelled" ELSE thread

(* complete_thread(failed=True): the first terminal status stays, and only the  *)
(* call that set it sweeps the rows.                                            *)
FailThread ==
  IF thread \in Unfinished
  THEN /\ thread' = "failed"
       /\ row' = Sweep(row, "failed")
       /\ leaf' \in [Versions -> Nodes \union {"none"}]
       /\ \A v \in Versions : leaf'[v] \in SweptLeaf(v)
       /\ UNCHANGED <<task, flags>>
  ELSE UNCHANGED rows

(* The status of the last updated terminal row of the highest version:          *)
(* next_node_ids is never written, so every row is a leaf.                      *)
LeafStatus ==
  LET ended == {v \in Versions : leaf[v] # "none"}
      top == CHOOSE v \in ended : \A w \in ended : w <= v
  IN IF ended = {} THEN "completed" ELSE row[<<leaf[top], top>>]

-------------------------------------------------------------------------------
(* The __call__ of a node.                                                      *)

Goto(n, label) == pc' = [pc EXCEPT ![n] = label]

(* Ends with a state delta: the record of the node under version v.             *)
Return(n, v, status) ==
  /\ Goto(n, "returned")
  /\ writes' = [writes EXCEPT ![n] = [ver |-> v, status |-> status]]
  /\ UNCHANGED <<run, why>>

(* Ends with an exception: LangGraph cancels the other nodes of the superstep.  *)
Raise(n, exception) ==
  /\ run' = "stopped" /\ why' = exception
  /\ pc' = [m \in Nodes |-> "idle"]
  /\ UNCHANGED writes

CompletedVersions(n) == {v \in Versions : row[<<n, v>>] = "completed"}

(* get_latest_sibling_node_version: none while any version of it runs.          *)
SharedVersion(n) ==
  IF \/ CompletedVersions(n) = {}
     \/ \E v \in Versions : row[<<n, v>>] = "running"
  THEN -1
  ELSE CHOOSE v \in CompletedVersions(n) : \A w \in CompletedVersions(n) : w <= v

IsSibling(n) == Gen > 0 /\ state.fork.group /\ n \in Group /\ n # state.fork.point

Share(n) ==
  /\ pc[n] = "enter" /\ IsSibling(n) /\ SharedVersion(n) >= 0
  /\ Return(n, SharedVersion(n), "completed")
  /\ UNCHANGED <<rows, state, found, req, origin, left>>

(* build_input reads the output of a predecessor outside the try block: a       *)
(* database error leaves the node without a row.                                *)
InputFails(n) ==
  /\ pc[n] = "enter" /\ ~(IsSibling(n) /\ SharedVersion(n) >= 0)
  /\ Raise(n, "error")
  /\ UNCHANGED <<rows, state, found, req, origin, left>>

\* Defect: a sibling never runs, also when it has no completed version.
UpsertUnlessSibling(n) ==
  /\ pc[n] = "enter" /\ ~IsSibling(n)
  /\ OpenRow(Key(n))
  /\ Goto(n, "check")
  /\ UNCHANGED <<task, thread, flags, run, why, state, writes, found, req, origin, left>>

UpsertNode(n) ==
  /\ pc[n] = "enter" /\ ~(IsSibling(n) /\ SharedVersion(n) >= 0)
  /\ OpenRow(Key(n))
  /\ Goto(n, "check")
  /\ UNCHANGED <<task, thread, flags, run, why, state, writes, found, req, origin, left>>

\* Defect: the records are searched for the successors.
SuccRecord(n, status) ==
  \E p \in Succ(n), v \in Versions : state.rec[<<p, v>>] = status

(* The records of a predecessor, of every version in the state.                 *)
PredRecord(n, status) ==
  \E p \in Preds(n), v \in Versions : state.rec[<<p, v>>] = status

CancelSelf(n) ==
  /\ pc[n] = "check" /\ PredRecord(n, "cancelled")
  /\ CloseRow(Key(n), "cancelled")
  /\ task' = [task EXCEPT ![Key(n)] = IF @ \in Active THEN "cancelled" ELSE @]
  /\ flags' = IF row[Key(n)] \in Active
              THEN [flags EXCEPT !.nodes = @ \union {Key(n)}] ELSE flags
  /\ Goto(n, "countCancelled")
  /\ UNCHANGED <<thread, run, why, state, writes, found, req, origin, left>>

FailSelf(n) ==
  /\ pc[n] = "check" /\ ~PredRecord(n, "cancelled") /\ PredRecord(n, "failed")
  /\ CloseRow(Key(n), "failed")
  /\ Goto(n, "countFailed")
  /\ UNCHANGED <<task, thread, flags, run, why, state, writes, found, req, origin, left>>

(* The count of active top-level nodes, and, in a later step, its consequence.  *)
CountActive(n) ==
  /\ \/ /\ pc[n] = "countCancelled"
        /\ IF AnyActive THEN Return(n, Gen, "cancelled")
           ELSE Goto(n, "cancelThread") /\ UNCHANGED <<run, why, writes>>
     \/ /\ pc[n] = "countFailed"
        /\ IF AnyActive THEN Return(n, Gen, "failed")
           ELSE Goto(n, "failThread") /\ UNCHANGED <<run, why, writes>>
  /\ UNCHANGED <<rows, state, found, req, origin, left>>

CascadeUp(n) ==
  /\ \/ pc[n] = "cancelThread" /\ CancelThread /\ Return(n, Gen, "cancelled")
     \/ pc[n] = "failThread" /\ FailThread /\ Return(n, Gen, "failed")
  /\ UNCHANGED <<state, found, req, origin, left>>

(* orchestrate: run_task reuses a finished task row, or opens one.              *)
Orchestrate(n) ==
  /\ pc[n] = "check" /\ ~PredRecord(n, "cancelled") /\ ~PredRecord(n, "failed")
  /\ IF n \in Tasked /\ task[Key(n)] # "completed"
     THEN task' = [task EXCEPT ![Key(n)] = "running"] /\ Goto(n, "await")
     ELSE UNCHANGED task /\ Goto(n, "close")
  /\ UNCHANGED <<row, leaf, thread, flags, run, why, state, writes, found, req, origin, left>>

(* What the delegation of the task ends with.                                   *)
TaskEnds(n) ==
  /\ pc[n] = "await"
  /\ \/ /\ task[Key(n)] = "running" /\ \E s \in {"completed", "failed"} :
                                          task' = [task EXCEPT ![Key(n)] = s]
        /\ Goto(n, "close")           \* a failure absorbed inside orchestrate
     \/ /\ task' = [task EXCEPT ![Key(n)] = IF @ = "running" THEN "failed" ELSE @]
        /\ Goto(n, "except")
  /\ UNCHANGED <<row, leaf, thread, flags, run, why, state, writes, found, req, origin, left>>

SeesNodeFlag(n) ==
  /\ pc[n] = "await" /\ Key(n) \in flags.nodes
  /\ Return(n, Gen, "cancelled")
  /\ UNCHANGED <<rows, state, found, req, origin, left>>

SeesThreadFlag(n) ==
  /\ pc[n] = "await" /\ flags.thread
  /\ Goto(n, "exceptCancelled")       \* ThreadCancelledError is an Exception
  /\ UNCHANGED <<rows, run, why, state, writes, found, req, origin, left>>

SeesPause(n) ==
  /\ pc[n] = "await" /\ task[Key(n)] = "paused"
  /\ row' = [row EXCEPT ![Key(n)] = IF @ = "running" THEN "paused" ELSE @]
  /\ Raise(n, "paused")
  /\ UNCHANGED <<task, leaf, thread, flags, state, found, req, origin, left>>

(* except Exception: the row fails; a node of the group absorbs the exception   *)
(* while any other node is active.                                              *)
FailNode(n) ==
  /\ pc[n] \in {"except", "exceptCancelled"}
  /\ CloseRow(Key(n), "failed")
  /\ Goto(n, IF pc[n] = "except" THEN "absorb" ELSE "absorbCancelled")
  /\ UNCHANGED <<task, thread, flags, run, why, state, writes, found, req, origin, left>>

AbsorbOrRaise(n) ==
  /\ pc[n] \in {"absorb", "absorbCancelled"}
  /\ IF n \in Group /\ AnyActive
     THEN Return(n, Gen, "failed")
     ELSE Raise(n, IF pc[n] = "absorb" THEN "error" ELSE "cancelled")
  /\ UNCHANGED <<rows, state, found, req, origin, left>>

(* complete_node with the status of the last task of the node.                  *)
EndStatus(n) == IF n \in Tasked /\ task[Key(n)] = "failed" THEN "failed" ELSE "completed"

CompleteNode(n) ==
  /\ pc[n] = "close"
  /\ CloseRow(Key(n), EndStatus(n))
  /\ Return(n, Gen, EndStatus(n))
  /\ UNCHANGED <<task, thread, flags, state, found, req, origin, left>>

NodeStep(n) ==
  /\ run = "nodes"
  /\ \/ Share(n) \/ UpsertNode(n) \/ CancelSelf(n) \/ FailSelf(n) \/ CountActive(n)
     \/ CascadeUp(n) \/ Orchestrate(n) \/ TaskEnds(n) \/ SeesNodeFlag(n)
     \/ SeesThreadFlag(n) \/ SeesPause(n) \/ FailNode(n) \/ AbsorbOrRaise(n)
     \/ CompleteNode(n)

-------------------------------------------------------------------------------
(* The engine and the executor.                                                 *)

Remember(s) == found' = [n \in Nodes |-> IF n \in s.next THEN s ELSE found[n]]

Enter(todo) == pc' = [n \in Nodes |-> IF n \in todo THEN "enter" ELSE "idle"]

Merged(rec) == [k \in Keys |->
  IF writes[k[1]].ver = k[2] /\ writes[k[1]].status # "none"
  THEN writes[k[1]].status ELSE rec[k]]

(* A superstep is over: its writes are merged and its edges followed.           *)
EndSuperstep ==
  LET done == {n \in Nodes : writes[n].status # "none"}
      s == [state EXCEPT !.rec = Merged(state.rec), !.last = done,
                         !.next = UNION {Succ(n) : n \in done}, !.beside = FALSE]
  IN /\ run = "nodes" /\ Quiet /\ state.next \subseteq done
     /\ state' = s /\ Remember(s)
     /\ writes' = [n \in Nodes |-> NoWrite]
     /\ Enter(s.next)
     /\ run' = IF s.next = {} THEN "finished" ELSE "nodes"
     /\ UNCHANGED <<rows, why, req, origin, left>>

(* complete_thread after ainvoke returned, with the status of the leaf.         *)
Finish ==
  /\ run = "finished"
  /\ thread' = IF thread \in Unfinished THEN LeafStatus ELSE thread
  /\ flags' = [flags EXCEPT !.thread = FALSE]
  /\ run' = "idle"
  /\ UNCHANGED <<row, task, leaf, why, state, writes, pc, found, req, origin, left>>

\* Defect: an exception is only logged.
StoppedSilently ==
  /\ run = "stopped"
  /\ run' = "ended"
  /\ UNCHANGED <<rows, why, state, writes, pc, found, req, origin, left>>

(* The except clauses of the executor; the finally block clears the flag.       *)
Stopped ==
  /\ run = "stopped"
  /\ IF why = "error" THEN FailThread ELSE UNCHANGED rows
  /\ run' = "ended"
  /\ UNCHANGED <<why, state, writes, pc, found, req, origin, left>>

Cleanup ==
  /\ run = "ended"
  /\ flags' = [flags EXCEPT !.thread = FALSE]
  /\ run' = "idle"
  /\ UNCHANGED <<row, task, leaf, thread, why, state, writes, pc, found, req, origin, left>>

Dispatch == run = "idle" /\ left.runs > 0 /\ left' = [left EXCEPT !.runs = @ - 1]

Start ==
  /\ Dispatch /\ thread = "received"
  /\ thread' = "running"
  /\ LET s == [Empty EXCEPT !.next = Roots]
     IN state' = s /\ Remember(s) /\ Enter(Roots)
  /\ run' = "nodes" /\ origin' = "start"
  /\ UNCHANGED <<row, task, leaf, flags, why, writes, req>>

(* recover_graph_state_from_db gives every record of the checkpoint the status  *)
(* of the newest row of the same node NAME, whatever its version.               *)
Newest(n) == LET vs == {v \in Versions : row[<<n, v>>] # "none"}
             IN CHOOSE v \in vs : \A w \in vs : w <= v
Recovered(rec) == [k \in Keys |->
  IF rec[k] = "none" \/ \A v \in Versions : row[<<k[1], v>>] = "none" THEN rec[k]
  ELSE row[<<k[1], Newest(k[1])>>]]

(* aupdate_state without a node, when the checkpoint has records: refused where *)
(* several nodes wrote the checkpoint.                                          *)
HasRecords(s) == \E k \in Keys : s.rec[k] # "none"
Ambiguous(s) == HasRecords(s) /\ Cardinality(s.last) > 1

(* ainvoke(None) after that update: the writes saved for the superstep of the   *)
(* newest checkpoint are not executed again.                                    *)
Resume ==
  /\ Dispatch /\ thread \in {"running", "cancelled", "failed"} /\ state # Empty
  /\ thread' = "running" /\ origin' = "resume"
  /\ IF Ambiguous(state)
     THEN /\ run' = "stopped" /\ why' = "error"
          /\ UNCHANGED <<state, writes, pc, found>>
     ELSE /\ state' = [state EXCEPT !.rec = Recovered(state.rec), !.beside = FALSE]
          /\ Remember(state')
          /\ writes' = [n \in Nodes |-> IF state.beside THEN NoWrite ELSE writes[n]]
          /\ Enter({n \in state.next : writes'[n].status = "none"})
          /\ run' = IF state.next = {} THEN "finished" ELSE "nodes"
          /\ UNCHANGED why
  /\ UNCHANGED <<row, task, leaf, flags, req>>

(* The process dies: what the superstep wrote may not have reached the          *)
(* checkpointer.                                                                *)
Crash ==
  /\ run # "idle" /\ left.crashes > 0
  /\ left' = [left EXCEPT !.crashes = @ - 1]
  /\ run' = "idle" /\ why' = "crash"
  /\ pc' = [n \in Nodes |-> "idle"]
  /\ \E kept \in SUBSET {n \in Nodes : writes[n].status # "none"} :
       writes' = [n \in Nodes |-> IF n \in kept THEN writes[n] ELSE NoWrite]
  /\ UNCHANGED <<rows, state, found, req, origin>>

-------------------------------------------------------------------------------
(* Requests of users.                                                           *)

Ask == left.requests > 0 /\ left' = [left EXCEPT !.requests = @ - 1]

PauseTask(k) ==
  /\ Ask /\ task[k] = "running"
  /\ task' = [task EXCEPT ![k] = "paused"]
  /\ UNCHANGED <<row, leaf, thread, flags, engine, req, origin>>

(* cancel_task_by_uuid of the only task of a node, or cancel_node: the tasks.   *)
CancelRequest(k) ==
  /\ Ask /\ req.at = "idle" /\ row[k] # "none"
  /\ task' = [task EXCEPT ![k] = IF @ \in Active THEN "cancelled" ELSE @]
  /\ req' = [at |-> "node", key |-> k]
  /\ UNCHANGED <<row, leaf, thread, flags, engine, origin>>

(* The node row; the flag only when the row was active.                         *)
CancelNode ==
  /\ req.at = "node"
  /\ CloseRow(req.key, "cancelled")
  /\ task' = [task EXCEPT ![req.key] = IF @ \in Active THEN "cancelled" ELSE @]
  /\ req' = [req EXCEPT !.at = IF row[req.key] \in Active THEN "flag" ELSE "count"]
  /\ UNCHANGED <<thread, flags, engine, origin, left>>

SetNodeFlag ==
  /\ req.at = "flag"
  /\ flags' = [flags EXCEPT !.nodes = @ \union {req.key}]
  /\ req' = [req EXCEPT !.at = "count"]
  /\ UNCHANGED <<row, task, leaf, thread, engine, origin, left>>

(* _cascade_up_from_cancelled_node.                                             *)
CountTopLevel ==
  /\ req.at = "count"
  /\ req' = IF AnyActive THEN [at |-> "idle", key |-> NoKey] ELSE [req EXCEPT !.at = "thread"]
  /\ UNCHANGED <<rows, engine, origin, left>>

CancelCascade ==
  /\ req.at = "thread"
  /\ CancelThread
  /\ req' = [at |-> "idle", key |-> NoKey]
  /\ UNCHANGED <<engine, origin, left>>

NextGeneration == LET vs == {k[2] : k \in {x \in Keys : row[x] # "none"}}
                  IN 1 + (CHOOSE v \in vs : \A w \in vs : w <= v)

SiblingRecords(n, rec) == [k \in Keys |->
  IF n \in Group /\ k[1] \in Group \ {n} /\ SharedVersion(k[1]) = k[2]
  THEN "completed" ELSE rec[k]]

ForkNext(n) == IF n \in Roots THEN {n} ELSE UNION {Succ(p) : p \in Preds(n)}

(* The run of a fork recovers the records as a resumed one does, but goes on    *)
(* from the checkpoint of the request, whose id it has. The request named a     *)
(* node for its own update where LangGraph could not; whether this update is    *)
(* refused then is left open.                                                   *)
RunFork(s) ==
  /\ origin' = "fork" /\ writes' = [n \in Nodes |-> NoWrite]
  /\ \/ /\ Ambiguous(s) /\ run' = "stopped" /\ why' = "error"
        /\ state' = s /\ Remember(s) /\ Enter({})
     \/ /\ run' = "nodes" /\ state' = [s EXCEPT !.beside = HasRecords(s)]
        /\ Remember([s EXCEPT !.rec = Recovered(s.rec)]) /\ Enter(s.next)
        /\ UNCHANGED why

(* re_explore_node of the row k: the newest checkpoint with the node in next,   *)
(* the completed siblings of its group, the next generation, status running     *)
(* unconditionally; the dispatch is a no-op while a run is registered.          *)
ReExplore(k) ==
  LET n == k[1]
      target == found[n]
      s == [rec |-> SiblingRecords(n, target.rec), last |-> target.last, next |-> ForkNext(n),
            fork |-> [gen |-> NextGeneration, point |-> n,
                      group |-> n \in Group \/ target.fork.group],
            beside |-> FALSE]
  IN /\ row[k] # "none" /\ target # Empty /\ left.forks > 0
     /\ left' = [left EXCEPT !.forks = @ - 1]
     /\ thread' = "running"
     /\ IF run = "idle" THEN RunFork(s)
        ELSE /\ origin' = "busy" /\ Remember(s)      \* the dispatch is ignored
             /\ UNCHANGED <<run, why, state, writes, pc>>
     /\ UNCHANGED <<row, task, leaf, flags, req>>

Next ==
  \/ \E n \in Nodes : NodeStep(n) \/ (run = "nodes" /\ InputFails(n))
  \/ EndSuperstep \/ Finish \/ Stopped \/ Cleanup \/ Start \/ Resume \/ Crash
  \/ \E k \in Keys : PauseTask(k) \/ CancelRequest(k) \/ ReExplore(k)
  \/ CancelNode \/ SetNodeFlag \/ CountTopLevel \/ CancelCascade

Spec == Init /\ [][Next]_vars

(* asyncio schedules every coroutine that can go on; a request goes on, too.    *)
Fairness ==
  /\ \A n \in Nodes : WF_vars(NodeStep(n))
  /\ WF_vars(EndSuperstep) /\ WF_vars(Finish) /\ WF_vars(Stopped) /\ WF_vars(Cleanup)
FairSpec == Spec /\ Fairness
-------------------------------------------------------------------------------
(* Properties.                                                                 *)

(* Failures are not lost: a thread that its first run completed has no failed   *)
(* and no cancelled node in its state, although branches absorb the exceptions  *)
(* of their tasks and the failures travel through the records; and no node that *)
(* a re-exploration completed had a failed or cancelled predecessor.            *)
CompletedIsClean ==
  thread = "completed" =>
    /\ origin = "start" => \A k \in Keys : state.rec[k] \notin {"failed", "cancelled"}
    /\ origin = "fork" =>
         \A k \in Keys : state.rec[k] = "completed" =>
           \A p \in Preds(k[1]), v \in Versions :
             state.rec[<<p, v>>] \notin {"failed", "cancelled"}

(* A node row that ended is never reopened nor ends otherwise, although nodes   *)
(* are triggered twice, superstep after resume are executed again, and          *)
(* cancellations, cascades and sweeps run beside the nodes.                     *)
EndedRowsStay == [][\A k \in Keys : row[k] \in Terminal => row'[k] = row[k]]_vars

(* When the first run of a thread is over and the thread is still running, then *)
(* a pause or a crash stopped it: no failure, cancellation or cascade leaves a  *)
(* thread that nobody ends.                                                     *)
StoppedForAReason ==
  run = "idle" /\ req.at = "idle" /\ thread = "running" /\ origin = "start"
    => why \in {"paused", "crash"}

(* Every run ends: no node waits for a sibling or for an event that the         *)
(* failure, the pause or the cancellation of another one has made impossible.   *)
RunEnds == run = "nodes" ~> run # "nodes"

===============================================================================
