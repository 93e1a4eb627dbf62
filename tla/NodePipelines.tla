---------------------------- MODULE NodePipelines ----------------------------
(* What one node does with its tasks: the orchestration of every node           *)
(* (langgraph/nodes) as a sequence of main tasks followed by a fan of parallel   *)
(* children, each running get_stats and then calculate_stats (seq.py), and the   *)
(* run_task that reuses, resets or creates a row of fin_agents.tasks for each    *)
(* call (node_utils/task_runner.py).                                             *)
(*                                                                              *)
(* A node is run again after a graceful shutdown, a crash, a pause or a failure  *)
(* (GraphRun models when): its rows are still there, the in-memory ctx.task_ids  *)
(* is empty, and a Celery worker may still be busy for the run before.           *)
(*                                                                              *)
(* What a job computes is StatsData; here an answer only names the task and the  *)
(* input it was computed from. How one delegation waits, and its flags, is       *)
(* TaskDelegation; here a try is answered, fails, is paused or times out.        *)
EXTENDS Integers, Sequences, FiniteSets

CONSTANTS NodeNames,      \* nodes whose run is explored
          Stock,          \* the symbol query_node resolves
          PeerLists,      \* what propose_peers may answer: place -> symbol
          DefaultIndexes, \* _DEFAULT_INDEX_CODES
          ListedIndexes,  \* codes the index cache resolves to a ticker
          HomeIndexes,    \* codes fin_markets may give for the stock
          Instruments,    \* fin_markets.macro_instruments of the category
          Seconds,        \* maturity -> seconds, OPTIONS_PERIODS / FUTURES_PERIODS
          DefaultHorizon, \* the maturity build_input asks for
          Budgets         \* bounds for each node: shutdowns, crashes, reruns,
                          \* pauses, failing jobs, jobs that outlive a stop

ASSUME BudgetsAreCounts ==
  \A n \in NodeNames : \A b \in Budgets[n] : \A f \in DOMAIN b : b[f] \in Nat
ASSUME DefaultsAreListed == DefaultIndexes \subseteq ListedIndexes
ASSUME HorizonIsOffered == DefaultHorizon \in DOMAIN Seconds

VARIABLES node,   \* [name, status, run, fan, crashed]: the row and the run of the node
          world,  \* what the node reads: inputs, LLM answers, stored reference data
          call,   \* caller -> [pc, task, input, row, mail, got]: its run_task calls
          ctx,    \* NodeContext.task_ids, in no order
          rows,   \* task id -> [task, status, in0, out]: fin_agents.tasks of the node,
                  \* the input of execution 0 and the output of the newest
          jobs,   \* what Celery workers are doing for it
          warm,   \* get_stats inputs whose raw record is cached
          left    \* what is left of the budget
vars == <<node, world, call, ctx, rows, jobs, warm, left>>

RowIds == DOMAIN rows
Main == <<"main">>
NoOut == <<>>
Failure == <<"failure">>
NoId == <<>>
NoCall == [task |-> "none", input |-> <<>>]
Ask(task, input) == [task |-> task, input |-> input]
Fresh == [pc |-> "lookup", task |-> "none", input |-> <<>>, row |-> NoId, mail |-> NoOut, got |-> <<>>]

-----------------------------------------------------------------------------
(* Who settles the row of a task. *)

InProcess == {"propose_index"}                       \* no worker at all
Streamed == {"analyze_query", "analyze_stock_from_web_if_not_seen", "propose_peers"}
Requests == {"prepare_options_requests", "prepare_futures_requests"}
WorkerPersists(task) == task \notin Streamed \union InProcess  \* run_completion
AllDefaults == {"get_stats", "propose_index", "propose_peers", "get_stock_from_web_if_not_seen"} \union Requests
TaskCompletes(task) == task \in Streamed \union InProcess \union Requests

(* get_stats adds the thread id to the payload it stores. *)
Payload(task, input) == IF task = "get_stats" THEN Append(input, "thread") ELSE input

(* An answer names its question; a stats record also says whether it was cached. *)
Answer(task, input) ==
  IF task = "get_stats" THEN <<task>> \o input \o <<IF input \in warm THEN "cached" ELSE "fetched">>
  ELSE <<task>> \o input

SymbolOf(answer) == answer[3]         \* of an answer of calculate_stats

AnswersOf(task, input) ==
  IF task = "get_stats" THEN {<<task>> \o input \o <<f>> : f \in {"cached", "fetched"}}
  ELSE {<<task>> \o input}

-----------------------------------------------------------------------------
(* The orchestration of each node: its main tasks, in order ...               *)

QueryCall(got) ==                    \* QueryNode._orchestrate
  CASE world.oneWord -> NoCall
    [] Len(got) = 0 -> Ask("analyze_query", <<"query">>)
    [] Len(got) = 1 /\ ~world.seen -> Ask("get_stock_from_web_if_not_seen", <<Stock, "query">>)
    [] Len(got) = 2 -> Ask("analyze_stock_from_web_if_not_seen", <<Stock, "query", got[2][1]>>)
    [] OTHER -> NoCall

Once(got, task, input) == IF got = <<>> THEN Ask(task, input) ELSE NoCall

OptionsCall(got) ==
  IF world.stock = "" THEN NoCall ELSE Once(got, "prepare_options_requests", <<world.stock>>)
FuturesCall(got) ==
  IF world.stock = "" THEN NoCall ELSE Once(got, "prepare_futures_requests", <<world.stock>>)
IndexCall(got) == Once(got, "propose_index", <<world.stock>>)
PeersCall(got) == Once(got, "propose_peers", <<world.stock>>)

MainCall(got) ==
  CASE node.name = "query_node" -> QueryCall(got)
    [] node.name = "prepare_options" -> OptionsCall(got)
    [] node.name = "prepare_futures" -> FuturesCall(got)
    [] node.name = "prepare_index" -> IndexCall(got)
    [] node.name = "prepare_peers" -> PeersCall(got)
    [] OTHER -> NoCall

(* ... and the children it then gathers: <<which, symbol, period, pipeline, maturity>>. *)

(* The horizon of the input: a member of the enum stands for its own seconds; no *)
(* caller gives raw seconds, which would be snapped to one.                       *)
Horizon == Seconds[DefaultHorizon]
Within(m) == Seconds[m] <= Horizon
FetcherPeriod(m) ==
  CASE m = "one_month" -> "1mo" [] m = "one_quarter" -> "3mo" [] OTHER -> "1y"

OptionsItems ==
  IF world.stock = "" THEN {}
  ELSE {<<"bars", world.stock, "1y", "ohlcv", "none">>}
         \union {<<m, world.stock, "1y", "options", m>> : m \in {x \in DOMAIN Seconds : Within(x)}}
FuturesItems ==
  IF world.stock = "" THEN {}
  ELSE {<<m, world.stock, FetcherPeriod(m), "futures", m>> : m \in {x \in DOMAIN Seconds : Within(x)}}

(* The defaults, and the first home index of the stock that is no default and is listed. *)
Candidates == DefaultIndexes \union ({world.home} \intersect ListedIndexes)
IndexItems ==
  {<<"equity", i, "2y", "ohlcv", "none">> : i \in Candidates}
    \union {<<"macro", i, "2y", "ohlcv", "none">> : i \in world.instruments}
MacroItems == {<<"macro", i, "1y", "ohlcv", "none">> : i \in world.instruments}
PeerItems == {<<p, world.peers[p], "1y", "ohlcv", "none">> : p \in DOMAIN world.peers}
SymbolItems == {<<"gacs", world.stock, "2y", "ohlcv", "none">>}

Items ==
  CASE node.name = "prepare_options" -> OptionsItems
    [] node.name = "prepare_futures" -> FuturesItems
    [] node.name = "prepare_index" -> IndexItems
    [] node.name = "prepare_macro_stats" -> MacroItems
    [] node.name = "load_peers_stats" -> PeerItems
    [] node.name = "load_symbol_stats" -> SymbolItems
    [] OTHER -> {}

(* seq.py: get_stats, then calculate_stats on its record; a record counts as     *)
(* cached in every pipeline but ohlcv.                                           *)
SeqCall(item, got) ==
  CASE Len(got) = 0 -> Ask("get_stats", Tail(item))
    [] Len(got) = 1 -> LET record == got[1] IN
         Ask("calculate_stats",
             IF item[4] = "ohlcv" THEN record ELSE [record EXCEPT ![Len(record)] = "cached"])
    [] OTHER -> NoCall

NextCall(c) == IF c = Main THEN MainCall(call[c].got) ELSE SeqCall(c, call[c].got)
Callers == DOMAIN call
Children == Callers \ {Main}
AtCall(c) == call[c].pc = "lookup"
Finished(c) == AtCall(c) /\ NextCall(c) = NoCall

-----------------------------------------------------------------------------
(* run_task. *)

Spend(what) == left[what] > 0 /\ left' = [left EXCEPT ![what] = @ - 1]
Busy == node.status = "running"
Goto(c, label) == call' = [call EXCEPT ![c].pc = label]
Claim(r) == ctx' = ctx \union {r}

(* Defect: a completed row is matched whatever its input. *)
ExistingAnyInput(task, input) ==
  LET of == {r \in RowIds : rows[r].task = task} IN of \union (IF of = {} THEN {NoId} ELSE {})

(* get_existing_task_for_node: any row of the task that is not completed, or a   *)
(* completed one of this very input whose TTL lasts; LIMIT 1, in no order.       *)
Existing(task, input) ==
  LET of == {r \in RowIds : rows[r].task = task}
      open == {r \in of : rows[r].status # "completed"}
      hits == {r \in of : rows[r].status = "completed" /\ rows[r].in0 = input}
  IN open \union hits \union (IF open = {} THEN {NoId} ELSE {})

Reusable(r) == r # NoId /\ r \notin ctx /\ rows[r].status \in {"completed", "paused", "failed"}

FreshId(c, task) == <<task, node.run, c>>          \* make_task_id: unique

(* create_task: the row unless it exists, and the input of its execution 0; then  *)
(* the job is sent, under a Celery id of its own, or the task answers at once.    *)
Create(c, q, r) ==
  LET stored == Payload(q.task, q.input)
      job == [run |-> node.run, to |-> c, row |-> r, task |-> q.task, input |-> q.input,
              pc |-> "work", out |-> NoOut]
      waiting == [call[c] EXCEPT !.pc = "await", !.task = q.task, !.input = q.input, !.row = r] IN
  /\ rows' = IF r \in RowIds THEN [rows EXCEPT ![r].in0 = stored]
             ELSE [i \in RowIds \union {r} |-> IF i \in RowIds THEN rows[i]
                   ELSE [task |-> q.task, status |-> "running", in0 |-> stored, out |-> NoOut]]
  /\ IF q.task \in InProcess
     THEN /\ \E mail \in {Answer(q.task, q.input), Failure} :
               call' = [call EXCEPT ![c] = [waiting EXCEPT !.mail = mail]]
          /\ UNCHANGED jobs
     ELSE jobs' = jobs \union {job} /\ call' = [call EXCEPT ![c] = waiting]

(* A reusable row is read or reset first; otherwise a new one is claimed and created. *)
LookUp(c) ==
  /\ Busy /\ AtCall(c) /\ NextCall(c) # NoCall
  /\ LET q == NextCall(c) IN \E r \in Existing(q.task, q.input) :
       IF Reusable(r)
       THEN /\ call' = [call EXCEPT ![c].task = q.task, ![c].input = q.input, ![c].row = r,
                                    ![c].pc = IF rows[r].status = "completed" THEN "read" ELSE "reset"]
            /\ UNCHANGED <<ctx, rows, jobs>>
       ELSE Claim(FreshId(c, q.task)) /\ Create(c, q, FreshId(c, q.task))
  /\ UNCHANGED <<node, world, warm, left>>

(* The caller has its answer and goes on to its next call. *)
Deliver(c, out) ==
  call' = [call EXCEPT ![c] = [Fresh EXCEPT !.got = Append(call[c].got, out)]]

(* The exception leaves run_task: a child's try block drops it, a main task ends *)
(* the node.                                                                     *)
Raise(c, status) ==
  /\ call' = [call EXCEPT ![c].pc = "failed", ![c].mail = NoOut]
  /\ node' = IF c = Main THEN [node EXCEPT !.status = status] ELSE node

(* A cached row: its newest output, validated, or a reset when it was never      *)
(* written. The record of an error is a valid output where no field is required. *)
ReadCached(c) ==
  /\ Busy /\ call[c].pc = "read"
  /\ LET out == rows[call[c].row].out IN
       IF out = NoOut THEN Goto(c, "reset") /\ UNCHANGED <<node, ctx>>
       ELSE /\ Claim(call[c].row)
            /\ IF out = Failure /\ call[c].task \notin AllDefaults THEN Raise(c, "failed")
               ELSE Deliver(c, out) /\ UNCHANGED node
  /\ UNCHANGED <<world, rows, jobs, warm, left>>

(* reset_task_for_retry, and only then ctx.task_ids.append. *)
ResetTask(c) ==
  /\ Busy /\ call[c].pc = "reset"
  /\ LET r == call[c].row IN
       /\ rows' = IF rows[r].status \in {"completed", "failed", "cancelled", "paused"}
                  THEN [rows EXCEPT ![r].status = "running", ![r].out = NoOut] ELSE rows
       /\ Claim(r)
  /\ Goto(c, "create")
  /\ UNCHANGED <<node, world, jobs, warm, left>>

(* The task_fn of a row that was reset. *)
CreateTask(c) ==
  /\ Busy /\ call[c].pc = "create"
  /\ Create(c, Ask(call[c].task, call[c].input), call[c].row)
  /\ UNCHANGED <<node, world, ctx, warm, left>>

-----------------------------------------------------------------------------
(* A row is settled by whoever ends the task first: the status, guarded, and then *)
(* the output, to the newest execution whatever has become of the row.            *)

Unsettled(r) == rows[r].status = "running"
Settle(r, status) == IF Unsettled(r) THEN [rows EXCEPT ![r].status = status] ELSE rows

(* The result reaches the caller if it still waits for this very job, and is its    *)
(* answer unless the caller has a row to complete or an exception to raise.        *)
Awaited(j) ==
  /\ j.run = node.run /\ Busy /\ j.to \in Callers
  /\ call[j.to].pc = "await" /\ call[j.to].task = j.task

Publish(j, out) ==
  /\ jobs' = jobs \ {j}
  /\ IF Awaited(j)
     THEN IF out = Failure \/ TaskCompletes(j.task) THEN call' = [call EXCEPT ![j.to].mail = out]
          ELSE Deliver(j.to, out)
     ELSE UNCHANGED call

(* The job of a worker ends, with an answer or an exception. The worker of a      *)
(* completion persists it first (completion_task.py).                            *)
JobEnds(j, ok) ==
  /\ j.pc = "work" /\ IF ok THEN UNCHANGED left ELSE Spend("failures")
  /\ LET out == IF ok THEN Answer(j.task, j.input) ELSE Failure IN
       IF WorkerPersists(j.task) /\ Unsettled(j.row)
       THEN /\ rows' = Settle(j.row, IF ok THEN "completed" ELSE "failed")
            /\ jobs' = (jobs \ {j}) \union {[j EXCEPT !.pc = "write", !.out = out]}
            /\ UNCHANGED call
       ELSE Publish(j, out) /\ UNCHANGED rows
  /\ warm' = IF ok /\ j.task = "get_stats" THEN warm \union {j.input} ELSE warm
  /\ UNCHANGED <<node, world, ctx>>

JobWrites(j) ==
  /\ j.pc = "write"
  /\ rows' = [rows EXCEPT ![j.row].out = j.out]
  /\ Publish(j, j.out)
  /\ UNCHANGED <<node, world, ctx, warm, left>>

-----------------------------------------------------------------------------
(* The task_fn: what the caller does with the end of its job. *)

Waiting(c) == Busy /\ call[c].pc = "await"

(* The stock is unknown even after the web look-up: ValueError, the row completed. *)
Unrecognised(c) == call[c].task = "analyze_stock_from_web_if_not_seen" /\ ~world.confirmed

Accept(c) ==
  IF Unrecognised(c) THEN Raise(c, "failed") ELSE Deliver(c, call[c].mail) /\ UNCHANGED node

Answered(c) ==
  /\ Waiting(c) /\ call[c].mail \notin {NoOut, Failure}
  /\ IF Unsettled(call[c].row)
     THEN rows' = Settle(call[c].row, "completed") /\ Goto(c, "write") /\ UNCHANGED node
     ELSE Accept(c) /\ UNCHANGED rows
  /\ UNCHANGED <<world, ctx, jobs, warm, left>>

TaskWrites(c) ==
  /\ Busy /\ call[c].pc = "write"
  /\ rows' = [rows EXCEPT ![call[c].row].out = call[c].mail]
  /\ Accept(c)
  /\ UNCHANGED <<world, ctx, jobs, warm, left>>

(* The job failed, or the wait timed out or met a cancel flag: complete_task(failed). *)
TaskFails(c) ==
  /\ Waiting(c) /\ call[c].mail = Failure
  /\ rows' = Settle(call[c].row, "failed") /\ Raise(c, "failed")
  /\ UNCHANGED <<world, ctx, jobs, warm, left>>

(* Defect: a wait that times out leaves its row as it is. *)
GiveUpQuietly(c) ==
  /\ Waiting(c) /\ call[c].mail = NoOut
  /\ Raise(c, "failed")
  /\ UNCHANGED <<world, ctx, rows, jobs, warm, left>>

GiveUp(c) ==
  /\ Waiting(c) /\ call[c].mail = NoOut
  /\ rows' = Settle(call[c].row, "failed") /\ Raise(c, "failed")
  /\ UNCHANGED <<world, ctx, jobs, warm, left>>

(* The user paused the task: TaskPausedError, dropped in a fan like any other. *)
SeesPause(c) ==
  /\ Waiting(c) /\ call[c].mail = NoOut /\ rows[call[c].row].status = "paused"
  /\ Raise(c, "paused")
  /\ UNCHANGED <<world, ctx, rows, jobs, warm, left>>

-----------------------------------------------------------------------------
(* The node. *)

Gather ==                            \* asyncio.gather over the children
  /\ Busy /\ ~node.fan /\ Finished(Main)
  /\ node' = [node EXCEPT !.fan = TRUE]
  /\ call' = [c \in Callers \union Items |-> IF c \in Callers THEN call[c] ELSE Fresh]
  /\ UNCHANGED <<world, ctx, rows, jobs, warm, left>>

Ended(c) == call[c].pc = "failed" \/ Finished(c)
Results == {c \in Children : Finished(c)}

(* The status of the task id appended last decides (entrypoint.py); which of the  *)
(* claimed rows that is, is left open.                                           *)
Verdicts ==
  IF ctx = {} THEN {"completed"}
  ELSE {IF rows[r].status = "failed" THEN "failed" ELSE "completed" : r \in ctx}

(* Defect: the node ends with the first child that does. *)
EndNodeEarly ==
  /\ Busy /\ node.fan /\ (Children = {} \/ \E c \in Children : Ended(c))
  /\ \E status \in Verdicts : node' = [node EXCEPT !.status = status]
  /\ UNCHANGED <<world, call, ctx, rows, jobs, warm, left>>

EndNode ==
  /\ Busy /\ node.fan /\ \A c \in Children : Ended(c)
  /\ \E status \in Verdicts : node' = [node EXCEPT !.status = status]
  /\ UNCHANGED <<world, call, ctx, rows, jobs, warm, left>>

(* pause_task from the browser; the worker's job is told to stop. *)
PauseTask(r) ==
  /\ Spend("pauses") /\ Unsettled(r)
  /\ rows' = [rows EXCEPT ![r].status = "paused"]
  /\ jobs' = {j \in jobs : j.row # r}
  /\ UNCHANGED <<node, world, call, ctx, warm>>

(* The process is gone; workers may be left at its jobs. *)
Gone ==
  /\ Busy
  /\ call' = [c \in {Main} |-> Fresh] /\ ctx' = {}
  /\ jobs' \in {js \in SUBSET jobs : Cardinality(js) <= left.late}

(* A graceful shutdown pauses every running task; the node row stays running. *)
Shutdown ==
  /\ Gone /\ Spend("shutdowns")
  /\ node' = [node EXCEPT !.status = "stopped"]
  /\ rows' = [r \in RowIds |->
       IF rows[r].status = "running" THEN [rows[r] EXCEPT !.status = "paused"] ELSE rows[r]]
  /\ UNCHANGED <<world, warm>>

(* A crash, or an exception in a parallel node that cancels this coroutine. *)
Crash ==
  /\ Gone /\ Spend("crashes")
  /\ node' = [node EXCEPT !.status = "stopped", !.crashed = TRUE]
  /\ UNCHANGED <<world, rows, warm>>

(* The node runs again, on its rows. *)
Rerun ==
  /\ node.status \in {"stopped", "failed", "paused"} /\ Spend("reruns")
  /\ node' = [node EXCEPT !.status = "running", !.run = @ + 1, !.fan = FALSE]
  /\ call' = [c \in {Main} |-> Fresh] /\ ctx' = {}
  /\ UNCHANGED <<world, rows, jobs, warm>>

-----------------------------------------------------------------------------
Worlds ==
  [stock : {"", Stock}, oneWord : BOOLEAN, seen : BOOLEAN, confirmed : BOOLEAN,
   peers : PeerLists \union {<< >>},
   home : HomeIndexes \union {"none"}, instruments : {{}, Instruments}]

(* What the node does not read is left at one value. *)
Reads(w, name) ==
  /\ name # "query_node" => w.oneWord /\ w.seen
  /\ w.seen => w.confirmed
  /\ w.oneWord => w.seen
  /\ w.stock = "" => w.home = "none"
  /\ name \in {"query_node", "prepare_macro_stats", "load_peers_stats"} => w.stock = Stock
  /\ name # "load_peers_stats" => w.peers = << >>
  /\ name # "prepare_index" => w.home = "none"
  /\ name \notin {"prepare_index", "prepare_macro_stats"} => w.instruments = {}

Init ==
  /\ \E n \in NodeNames :
       /\ node = [name |-> n, status |-> "running", run |-> 0, fan |-> FALSE, crashed |-> FALSE]
       /\ world \in {w \in Worlds : Reads(w, n)}
       /\ left \in Budgets[n]
  /\ call = [c \in {Main} |-> Fresh]
  /\ ctx = {}
  /\ rows = << >>
  /\ jobs = {} /\ warm = {}

CallerStep(c) ==
  \/ LookUp(c) \/ ReadCached(c) \/ ResetTask(c) \/ CreateTask(c)
  \/ Answered(c) \/ TaskWrites(c) \/ TaskFails(c) \/ GiveUp(c) \/ SeesPause(c)

WorkerStep(j) == JobEnds(j, TRUE) \/ JobEnds(j, FALSE) \/ JobWrites(j)

(* A step of the node's own coroutines. *)
NodeStep == (\E c \in Callers : CallerStep(c)) \/ Gather \/ EndNode

Next ==
  \/ NodeStep
  \/ \E j \in jobs : WorkerStep(j)
  \/ \E r \in RowIds : PauseTask(r)
  \/ Shutdown \/ Crash \/ Rerun

Spec == Init /\ [][Next]_vars

-----------------------------------------------------------------------------

(* Whatever the first rerun of a node reuses, resets or meets of the run before, *)
(* a child works with the answers of its own symbol: the record get_stats gave   *)
(* it was resolved from its item, and what calculate_stats gave it was computed  *)
(* from that record. (A second rerun can be served a stale answer: its row was   *)
(* reset for another input while a worker of the first run still held it.)       *)
OwnAnswers ==
  node.run <= 1 => \A c \in Children : LET got == call[c].got IN
    /\ Len(got) >= 1 => got[1] \in AnswersOf("get_stats", Tail(c))
    /\ Len(got) = 2 => got[2] = <<"calculate_stats">> \o SeqCall(c, <<got[1]>>).input

(* A node that ended leaves no task running behind it, unless a crash left one.  *)
NothingRunsOn ==
  node.status \in {"completed", "failed"} /\ ~node.crashed =>
    \A r \in RowIds : rows[r].status # "running"

(* In a first run, an item the node reports nothing for has a row of its own that *)
(* says why: its task failed, was paused, or completed after its caller gave up.   *)
MissingIsExplained ==
  node.status \in {"completed", "failed"} /\ node.run = 0 =>
    \A c \in Children \ Results : \E r \in RowIds :
      /\ rows[r].status \in {"failed", "paused", "completed"}
      /\ rows[r].in0 = Payload(call[c].task, call[c].input)

===============================================================================
