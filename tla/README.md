# Verification of fin-agent-cluster

TLA+ models of fin-agent-cluster: who may execute a run of the agent graph and write its rows; how a
task, its worker and the user who pauses, cancels or retries it agree on what happened; how a run goes
through the graph and its nodes through their tasks; how market data reach the tables; how events
reach the browser and what it makes of them; and how the checkpointer is set up. TLC checks the models on
small instances; TLAPS proves, for every instance, nearly all safety properties of every part but the drawing of
versions and timelines.

## The system

A user query is a *thread*. The FastAPI instances ("main threads", several behind nginx) run the
LangGraph graph of a thread as an asyncio task. A node of the graph has *tasks*; a task is worked on by
a Celery worker, and its caller polls the result backend. PostgreSQL holds the thread, node and task
rows, Redis the locks, flags, registers and token streams, and Centrifugo carries events to the browser.
PostgreSQL connections are in autocommit mode (`db/postgres/pool.py:57`), so every statement commits
by itself.

Paths below are relative to `src/backend` unless they begin with another directory of `src/`.

### Components

| Component | State | Operations | What makes it correct |
|---|---|---|---|
| Graph dispatch and ownership: `main_thread/{lock,executor,registry,startup}.py`, `main.py` | thread lock, fencing counter and cancel flag in Redis; `_tasks` of each process; boot and shutdown phase | acquire, steal, renew, release; dispatch, run, abort on a lost lock; recovery at startup; drain at shutdown | a token names one ownership; a superseded run changes nothing of its successor; terminal states stay; shutdown ends and startup recovers |
| Thread and node life cycle: `langgraph/lifecycle/threads/` | `user_queries.status`, `fin_agents.nodes` with fencing token and `is_last_paused_by_server` | upsert, complete, pause, resume, cancel a node; complete, cancel a thread; bulk pause | guarded updates are idempotent; older tokens are rejected |
| Task life cycle: `langgraph/lifecycle/threads/nodes/tasks/` | `fin_agents.tasks`, `task_executions` (one row per try) | create, complete, persist, pause, cancel, reset for retry, zombie cleanup | one outcome per try; the output of a try is its own |
| Task delegation: `celery_task/workers/task_delegation.py`, `langgraph/lifecycle/threads/manager.py` | Celery job, its result, the handle in `_celery_results` | send, poll, revoke, save the pause snapshot | every way a job can end is understood; no try stays open behind a finished caller |
| Celery workers: `celery_task/workers/tasks/` | text so far, `llm_responses` | run a handler and persist it; stream, break on a flag, compact and continue | a partial stream is never an answer |
| Cancel and pause flags: `langgraph/lifecycle/{cancel,pause}_flag.py` | Redis keys with a TTL, stream snapshot | set, test, clear | a flag stops those it was set for, and only those |
| User queries: `users/queries/` | none of its own | submit, ack, cancel, resume, retry, restart, continue, pause, re-explore, status | no request leaves a row nobody attends to |
| Graph execution: `langgraph/graphs/`, `langgraph/models/node_utils/` | LangGraph state and checkpoints, node id, `ctx.task_ids` | entrypoint of a node, child subgraphs, task runner with cache, cancel handler | a node waits for all its predecessors; a cancelled branch does not stop its siblings; cached results are of the same input |
| Re-exploration and versions: `users/queries/{re_explore,status}.py` | `version` of node rows, fork node | fork a version at a node, list a version, pending frontier | a version shows each node once, from its newest ancestor |
| SSE notification: `centrifugo_mq/sse_notification/`, `db/redis/session/`, `api/centrifugo_proxy/` | per-event ACK lists, viewer flags | publish until acknowledged, skipped or exhausted | the graph is never blocked for ever; late and duplicate ACKs do no harm |
| Token stream: `stream_core.py`, `db/redis/streams/` | Redis stream `fin:llm:tokens` | push batches, recover by `seq`, delete entries | tokens are neither lost nor reordered in the recovered text |
| Redis clients and locks: `db/redis/{client,router,lock_manager}.py` | connection per shard, database and event loop; `RedisLock` | route by SHA-256, acquire, renew, release | one holder per key; no connection used on another event loop |
| PostgreSQL access: `db/postgres/` | pools, checkpointer, `state_recovery` | set-up of the checkpointer, recovery queries | the tables are there before anybody uses them |
| HTTP API, users, authentication: `api/`, `users/`, `auth/` | sessions, guests | routes to the operations above | |
| Data providers: `resources/stats/` | symbol routing, cached records in `fin_markets.input_raw` | look up, fetch with fallback order and shorter periods, persist | the cache changes the cost, not the answer |
| Other resources and language models: `resources/web_knowledge/`, `_shared/` | HTTP clients | one request | |
| Quantitative calculations: `quant/`, `langgraph/models/common_tasks/` | `quant_stats`, `quant_options_stats` | rows of bars and contracts, summaries | a record is stored whole; a later record takes nothing away |
| Sandbox: `backend/sandbox/`, `src/sandbox/` | runner process | execute a snippet | |
| Start scripts, gateway, SQL, monitoring, model files: `src/{start,setup,gateway,centrifugo,sql,monitoring,ollama}/` | | process supervision, configuration | |
| Browser application: `src/frontend/` | React state, caches | fetch, subscribe, acknowledge, draw versions and timelines | it catches up with the thread and never shows older data; what it draws is the graph |

### How they interact

- A request (submit, ack, resume, retry, startup recovery) calls `dispatch_graph_run`, which takes or
  steals the thread lock and spawns `_run_graph`. The token of the lock goes into a `ContextVar`, and
  every node write of that run is stamped or guarded with it.
- A node calls `run_task`, which looks for an earlier row of the same task and then delegates. The
  caller, the worker, the requests and the shutdown all write the same task row, each with a guard on
  the current status.
- Pause and cancel are told three ways: a Redis flag (seen by workers and pollers on every machine), a
  Celery revocation (only of handles in the registry of the process that serves the request) and the
  status in PostgreSQL. They are separate steps, in an order that differs between the requests.
- Node and task changes are published to the browser, which acknowledges them.

### What is hard

Ownership that changes while a coroutine is between two awaits; a run that learns too late that its lock
is gone; several runs or retries of one thread in one process, which share one registry slot; status
updates that arrive in any order from callers, workers, users and a terminating server; flags with a
TTL that one party clears while another still needs them; workers that die and jobs that are delivered
again; a shutdown that must leave a state the next startup recognises; branches of a graph that fail, pause
or are cancelled while their siblings run; caches and rows that requests with different inputs share; and a
browser whose fetches, events and clicks overtake each other. `PROJECT.json` lists the most important of these
under `hazards`, at the line where it bites.

## The modules

### GraphDispatch

One thread. `Procs` are main-thread processes (a restart is a new process), `Attempts` are requests and
the asyncio tasks they spawn. The program counter of an attempt says at which await of its request, of
`dispatch_graph_run` or of `_run_graph` it is suspended. One Redis script, one SQL statement or one
stretch of Python that touches the registry is one action; nothing else is atomic.

| State | Code |
|---|---|
| `lock`, `counter`, `cancelFlag` | `fin:thread:lock`, `fin:thread:fencing` and the cancel flag of the thread |
| `status`, `rows`, `ckpt` | `user_queries.status`, the node rows, the nodes finished according to the last checkpoint |
| `phase`, `registry`, `awaited` | where the lifespan of a process is, `registry._tasks`, the task `wait_all` waits for |
| `run` | locals of the coroutine: token, last lock owner read, next step of the graph, pending `CancelledError` |
| `granted`, fields `epoch`, `by` | history: the processes the lock was granted to, and which grant a token stands for |

Requests: `SubmitQuery`, `AckQuery`, `ResumeQuery`, `CancelQuery` (with `CancelNodes` and `CancelThread`,
two statements that commit separately), `RetryTask` with its background task, `PauseTask`. Dispatch:
`GetLockOwner`, `Route`, `CheckOwnerAlive`, `AcquireLock`, `StealLock`, `Spawn`, and again after each
failure as the code does. Runs: `StartRun`, `EnterNode`, `CompleteNode`, `Checkpoint`, `PauseRun`,
`StopRun`, `FinishRun`, `FailRun`, `FailNodes`, `DeliverCancel`, the four steps of the `finally` block and
the done callback. Environment: `RenewFails`, `LockExpires`, `CounterExpires`, `Crash`, boot and shutdown.

The graph is a line of `NumNodes` nodes: what a node computes and how branches join is left out, only that
nodes are entered, completed and checkpointed in order, and resumed from the checkpoint. The TTL of the
lock is abstracted to `LockExpires`: only when nobody renews it, or (event `"stall"`) at any time.

### FencedOwnership

What lock and tokens promise: a grant opens an epoch for one process, and a node row obeys only the process
of the epoch it writes with, never in favour of an older epoch. `GraphDispatch` implements it with
`node` mapped to status, epoch and writer of each row.

### TaskDelegation

One task row with its executions, the Celery jobs and the coroutines ("drivers") that create the task, wait
for its job, retry, pause, cancel it or pause it for a shutdown. A driver sends at most one job, which has
its name. `view` is chosen initially: `"Streaming"` and `"ToolCall"` (a completion) differ in who writes
the status and in what a pause does.

| State | Code |
|---|---|
| `view`, `st`, `creator`, `outputs` | `tasks.view_type`, `status`, `fencing_token`, the outputs of `task_executions` by `retry_num` |
| `thinking` | `llm_responses.thinking` of the latest response: none, empty or some |
| `pauseFlag`, `snapshot`, `cancelFlag`, `nodeFlag` | the Redis keys |
| `job` | worker and result backend |
| `handle` | `ThreadRegistry._celery_results[task_id]` of each process |
| `driver` | locals of each coroutine |
| `tries`, fields `try`, `answered` | history |

A driver of kind `"graph"` walks through `run_task` (`LookUp`, `ReadCache`, `CreateTask` and `CreateExecution`, or `ResetTask` and
`InsertExecution`: two statements that commit separately), `SendJob`, the poll loop (`Deadline`, `SeesCancelFlag`, `ReadResult`, `SaveSnapshot`)
and `complete_task` (`CompleteTask`, `CompleteOutput`: two statements). A retry reads the row, clears both flags,
resets the row and goes on from `SendJob`. The pause is `SetPauseFlag`, `RevokeTask` (completions only),
`PauseTask`; restarting a running task pauses it, looks for the handle, waits for it (`WaitForWorker`) or for
60 seconds (`WaitExpires`) and retries. The cancellation of the thread and of the task, and the shutdown, use the
same steps in their own order. A worker walks through the handler and `persist_task_result`, or through the
stream: `StreamToEnd` or `BreakStream`, then `CheckPaused`, `CheckCancelled`, `InsertResponse`, `CombineThinking`.
`Terminate` (SIGTERM after a revocation) can hit it anywhere, and a worker may never learn of a revocation.
`ContinueTask` and `RetryRestartTask` branch on the status before `retry_task` reads it again. An instance that
starts revokes what runs and purges what is queued (`DoRevoke`, `DoPurge`), whoever waits for it. The task is new,
or (event `"again"`) a stream that was paused in a run that is over.

A thread has one slot in the registry of a process, and a renewal that finds the lock lost cancels what is in it: the run (`AbortRun`, cleaned
up later by `CleanupZombie`), or the background task of a retry that was registered since (`AbortRetry`), which nobody cleans up. The run whose lock
was lost then goes on, and its `finally` block closes the rows of its own token when it is over (`CleanupLater`).

Texts are abstracted to whether there is any. Failing Redis or SQL calls and the events sent to the browser
are left out.

### TaskRow

What the row of a task and its executions promise, whoever writes them: a try is settled once and only a new try opens the row
again, there is at most one execution for each try, and an output is written to the newest execution only, an error or the answer of a
job that has given one. `TaskDelegation` implements it with `given` mapped to the jobs of which a run succeeded.

### GraphRun

How one thread runs through the compiled graph (`langgraph/graphs/fin_trading_graph.py`). LangGraph is external and
modelled by what the code relies on: a run is a sequence of supersteps, a node is triggered by *any* finished
predecessor, the writes of a superstep appear together in a checkpoint, the first exception stops the others.

| State | Code |
|---|---|
| `row`, `task`, `thread`, `leaf` | node rows by name and version, the task row of each, `user_queries.status`, the terminal row updated last (`_GET_LEAF…`) |
| `flags` | cancel flags of thread and nodes |
| `state`, `found`, `writes` | the latest checkpoint, the newest checkpoint that has a node in `next`, what ended nodes wrote |
| `run`, `why`, `pc` | the run of the graph, the exception that stopped it, where each node's `__call__` is |
| `req` | a cancellation of a node in progress: four statements |

`NodeStep` is the `__call__` of a node: the shortcut of a re-explored group, `upsert_node` on the row, the input, the
task, `complete_node`, or one of the exceptions with its cascade (`cancel_handler.py`). `Resume` restores records from the
rows (`state_recovery.py`); `ReExplore` forks a version (`re_explore.py`), and its run restores records as well
(`RunFork`), by an `aupdate_state` without
`as_node`. LangGraph refuses that update where it cannot tell the writer (`Ambiguous`); the run of a fork goes on from
the checkpoint the request made, so
what the update wrote is a checkpoint beside it (`beside`), which a later resume may find. Whether the second update
is refused where the first was undecided is left open. Fencing is left to GraphDispatch, one task per node.

### NodePipelines

What each node does with its tasks: main tasks one after the other, then a fan of children, each `get_stats` followed by
`calculate_stats`. `run_task` is modelled with its choice among rows: by name, node, version and input hash, claimed rows
excluded (`Reusable`, `ctx`). `world` is what a node reads (LLM answers, reference tables), `rows` the task rows, `jobs`
the workers, some of which outlive the run (`Rerun` after `Shutdown`, `Crash`, a pause or a failure). What a job
computes is reduced to the task and input it was computed from. Which maturities a fan asks for follows from the default
horizon and the seconds of each (`Horizon`, `Within`).

### StatsData

`get_stats` and `calculate_stats` as steps of Celery jobs: `Begin` chooses the route (futures, options, bars, injected), `Lookup`
reads `input_raw` under the cache key, `Fetch` asks provider after provider for shorter and shorter periods, `Persist`
writes the record, `Calculate` turns it into rows, `Upsert` writes one bar in one transaction and merges it with what is
there, `UpsertContract` an option contract, whose chain is summarised at the end. A record of options holds the days the provider
has within the horizon of the request (`Days`, `Downloaded`), some of them unreadable, and may be handed down
with its chain; `Updated` is what merging a new bar into the stored one gives. `LookupFails`, `FetchFails`, `PersistFails`,
`WriteFails` are the error paths. Prices are abstracted to the period they came from, an indicator to whether its
window was full.

### Delivery

`notify` of the three scopes (viewer flags, presence, publication, wait for the acknowledgement, next try), the browser that
subscribes, acknowledges and calls PUT and DELETE on its viewer flag without waiting, the proxy that turns an
acknowledgement into a list entry, and the token stream: batches, the page-wise recovery of the task's own entries, the end marker, the
deletion. The cancel and pause flags (`stops`) are set and cleared at any time (`Raise`, `Lower`). A stream looks at them every `CheckEvery` tokens
(`CheckCancel`, `CheckPause`), which may cut its loop (`Break`), and again after it has flushed the rest
(`PauseAgain`, `CancelAgain`); only the second look
decides. So a stream that was cut goes on to recovery, end and deletion if its flag is gone by then, and a complete
one returns paused if its flag came late. A job
streams once; a retry, or the redelivery of a job whose worker died, is another job of the same task, which may stream
at the same time. A batch is added in one step (a
pipeline). Centrifugo is external: a history per channel that is replayed; who consumes the token stream is left out.

### TokenStream

What the stream of tokens in Redis promises its readers, whoever shares it: a job adds a prefix of its answer, each token once and in
order, perhaps with an end behind the last of them and nothing after that. An answer may be cut once, behind what was
added (`Cut`); its end then follows the last
token before the cut. Entries are removed only behind the end of a job, and only those of its task that were there
before it, other jobs' included. `Delivery` implements it with the
same `log` and `gone`, `length` mapped to the tokens of the scenario and `limit` to the tokens a job kept before it was cut.

### ThreadVersions and Timeline

`ThreadVersions` writes the node rows of a thread and its re-explorations (`Begin`, `Share`, `End`, `ReExplore`) and computes from
them, as operators, what the browser shows of a version: placeholders (`Placeholders`, `Ghosts`), the rows it shares (`Shared`,
`Included`), the slots, edges and edge groups of the drawing (`Slots`, `TopEdges`, `Units`). The reference definitions are the rows
a version rests on through `prev_node_ids` (`Reachable`) and the edges of the graph. `Timeline` enumerates all rows of bars up
to its bounds and computes lanes, overlap marks and the scale with its compressed gaps in integers. `MCThreadView` checks both in
one run; they share no state, and a behaviour takes steps of one.

### ThreadPage

The page of a thread: fetches (two parallel reads, answered in any order), `pendingRef` and `dirtyRef`, the cache of ended
threads that seeds the page, the socket with its history, the switch to the branch of a re-exploration, unmounting with
requests in flight. A retry of a task (`Retry`) is posted from the detail panel, which calls `handleRetryReconnect`
first (the page waits for the task, `retry`, and asks
for new tokens, `renewing`), or from the button of the task, which only posts. `effectiveDone` keeps the socket while
the page waits; it stops waiting as soon as it shows the
task as over (`Awaited`). `server`, `owed` and `log` are the backend: a row is its revision, and a retry writes to a thread that may have
ended (`RetryTaken`, `TaskEnds`, then the rows of the graph it resumes) without changing its status.

### CheckpointerSetup

`ensure_setup` and `RedisLock`: the sentinel, at most `MaxTries` attempts at the lock, the migrations (each a statement and the
insertion of its number, without transaction), sentinel, release by compare-and-delete, the renewal task. Faults, at most
`MaxFaults`: an unanswered acquisition, an unanswered write or release, an exception, a crash, a renewal that ends, a wiped Redis.

## What is checked

| Run | Instance | Shows |
|---|---|---|
| `dispatch_fencing` | 2 processes, 3 attempts, 1 node, crashes and stalls | `TokensGenuine`, `NoStaleOverwrite`, `ImplementsFencedOwnership` |
| `dispatch_requests` | 2 processes, 2 attempts, 1 node, everything but stalls | `TerminalIsFinal` |
| `dispatch_drain` | 2 processes, 2 attempts, shutdown, fairness | `DrainEnds` |
| `task_delegation` | 2 processes, 2 drivers, in two scenarios: a new task and everything but redelivery; a new or a paused task with the graph, retry, pause, expiry and redelivery | `TypeOK`, `SettledWhenReturned`, `HandleMeansAwaiting`, `AnswersAreEarned`, `LeftByPauseOrCrash`, `ImplementsTaskRow` |
| `task_ends` | 1 process, 2 drivers, in two scenarios: a new task with retry, pause, cancellation, redelivery and expiry; a new or a paused task without the cancellation and the redelivery; fairness | `DelegationEnds` |
| `graph_run` | 5 nodes, a group of two branches of different length, one request, crash or fork | `CompletedIsClean`, `StoppedForAReason`, `EndedRowsStay`, `RunEnds` |
| `nodes` | each of the 9 nodes with tasks, fans of two, one failure, one stop and one rerun | `OwnAnswers`, `NothingRunsOn`, `MissingIsExplained` |
| `stats_data` | 3 jobs, 9 scenarios of requests, providers and settings, one fault, one expiry | `CacheIsTransparent`, `BarsAreWhole`, `SummaryIsOfTheChain`, `IndicatorsStay` |
| `delivery` | 2 threads, 3 callers, 5 scenarios of moves, repeated calls, faults, streams of two tasks, two jobs of one task with a flag set and cleared | `AckedWasShown`, `WatcherIsServed`, `NothingLeft`, `ImplementsTokenStream`, `CallsEnd` |
| `thread_view` | 5 nodes, 3 versions, one failure or cancellation; 3 bars and a task on 6 moments | `BranchIsClosed`, `EdgesAreTheGraph`, `NextIsVisible`, `OverlapsAreShown`, `ScaleIsFaithful` |
| `thread_page` | 1 thread, 2 pages, or a fork, or a retry of a task, or a failed request, fairness | `NoLostRefresh`, `NeverBackwards`, `PageCatchesUp`, `ForkIsShown` |
| `setup` | 3 processes, 2 migrations, 2 attempts, 2 faults, fairness | `OneAtATime`, `TablesBeforeUse`, `LockComesFree` |

Ownership and tasks:

- `TokensGenuine`: a token in Redis, in a row or in a coroutine that read it before an await is the number of one
  grant, and its bearer is the process of that grant.
- `NoStaleOverwrite`: a row never returns to an older ownership, whichever order upserts, completions and
  pauses of old and new runs arrive in.
- `TerminalIsFinal`: whatever races, a terminal node keeps its status and a terminal thread is left only by a
  resume.
- `DrainEnds`: a terminated instance exits.
- `SettledWhenReturned`: when a caller of the poll loop goes on, the try it sent a job for is no longer open.
  For a completion the worker has to have done that, before its result is visible.
- `HandleMeansAwaiting`: although all drivers of a task share one slot and discard whatever is in it, a handle
  always belongs to somebody who still waits, so a restart waits for nobody in vain.
- `AnswersAreEarned`: only a job that succeeded is taken for an answer or stored as an output.
- `LeftByPauseOrCrash`: a row that is running with nobody at work for it was left by a crash, by the cancellation of a run or a retry whose
  thread lost its lock, or by a pause that hit a retry between its two writes; no deadline, request, sweep, retry or redelivery leaves one.
- `ImplementsTaskRow`: within a try the status goes from running, perhaps through paused, to one terminal status; an execution belongs
  to a try, and no late writer puts its output on an older one or stores what no job has answered.
- `DelegationEnds`: the poll loop ends without its deadline, however the job ended and whoever ended it.

Graph, nodes and data:

- `CompletedIsClean`: a thread is completed only if nothing in its state failed or was cancelled, although branches
  absorb exceptions and failures travel through records to the merge node.
- `StoppedForAReason`: a first run that is over leaves the thread running only after a pause or a crash.
- `EndedRowsStay`: no row that ended is reopened, although nodes are triggered twice and executed again after a resume.
- `RunEnds`: no node waits for what a failure, pause or cancellation of another has made impossible.
- `OwnAnswers`: a child works with the answers of its own symbol, whichever rows of the earlier run it and its siblings took
  over. Stated for the first run and the first rerun; a second rerun can be served a stale answer (see below).
- `NothingRunsOn`: a node that ended leaves no running task, unless it crashed.
- `MissingIsExplained`: for an item the node reports nothing for there is a row that says why.
- `CacheIsTransparent`: without a fault a job ends with the record the first able provider gives for the first period it
  has, whoever filled the cache before; a chain cached for a near horizon is not served for a far one.
- `BarsAreWhole`: a calculation that is done has all its bars in `quant_stats`.
- `IndicatorsStay`: a later, shorter record takes no indicator away from a bar.
- `SummaryIsOfTheChain`: counts, matched expiries and the put/call ratio are those of the readable contracts.

Delivery, browser and set-up:

- `AckedWasShown`: a call that reports an acknowledgement was seen, not an earlier call with the same key.
- `WatcherIsServed`: a publication is skipped only if the tab was not present and subscribed during the whole call.
- `ImplementsTokenStream`: whatever batches, pages, flags, retries and other jobs' entries come between, a job adds
  the tokens of its answer in order, none
  twice and none left out, then its end and nothing more. It does not say that an answer with an end is complete: a
  job that a flag cut and that goes on
  because the flag is gone ends behind the last token it kept. Entries are removed only behind such an end.
- `NothingLeft`: a stream completed before a viewer leaves nothing its task had added when the recovery read its last page, earlier jobs included.
- `CallsEnd`: every call of `notify` returns.
- `BranchIsClosed`: every row a branch rests on is on the page.
- `EdgesAreTheGraph`: what is drawn between shown nodes are the edges of the graph, each once.
- `NextIsVisible`: what the run starts next is on the page.
- `OverlapsAreShown`, `ScaleIsFaithful`: lanes and overlap marks match the bars; the scale is monotone, stays on the track, and
  compresses only time in which nothing happens.
- `NoLostRefresh`: an event that arrives during a fetch ends in another fetch.
- `NeverBackwards`: what the page shows never gets older.
- `PageCatchesUp`, `ForkIsShown`: the end of the thread, what a retry the page waits for writes after that end, and a
  confirmed branch are shown at last. The
  cases in which the code does not catch up are named in `Behind`: a failed request, a page without tokens, rows older than the end that was read, and
  the writes of a retry for which the page does not wait, because it shows the task as over or was not told.
- `OneAtATime`: two processes are in the critical section only if the key of one vanished under it.
- `TablesBeforeUse`: who believes the set-up is done finds all tables.
- `LockComesFree`: the lock is free again and again, whoever died holding it.

`PROJECT.json` gives for each property a plausible bug (an operator marked *Mutant* or *Defect* in the module) under which TLC finds
it violated.

### Bounds

Each race that matters needs two parties and something between them: two processes and three attempts give an owner, a
thief and a third grant in between (the compare-and-set of the steal script); one node is enough for row races because
nodes are independent rows, and with one node the graph still has entry, completion and checkpoint. `Attempts` and
`Drivers` are used once each, which bounds the behaviours; history sequences grow with them and need no other bound.
In `TaskDelegation` a job is delivered twice at most, and only one job is; a stream that was paused before is an initial state, since
pausing would need a third driver; the variable `events` fixes at the start which of the `Scenarios` of the run happens. The graph of `graph_run` and `thread_view` is the shape of the compiled one: a root, two parallel
branches of one and two nodes, a merge. Longer chains add rows, not cases. A fan of two children is the smallest that has
siblings with different inputs. `Scenarios` and `Budgets` enumerate what a run may meet (requests, faults, moves) so that
each combination that interacts occurs and the others are left apart. Timelines have three bars because an overlap of
overlaps and a gap between bars need three. Two migrations and two faults let one process die half-way and another lose its
lock. In `delivery` a flag changes twice, which is the least that cuts a stream and lets it go on; in `thread_page` a
task is retried once, of a thread
that runs or has ended, with or without a failing request. `graph_run` has no budget for resuming the run of a fork,
which alone would take more than four minutes: the model and the proofs
contain it. Runs with liveness use no symmetry. Deadlock is not checked: when all attempts are used up the system is quiet, as
the program is between requests.

### Fairness

`dispatch_drain` and `task_ends` assume weak fairness of each coroutine and each worker: an event loop runs every
ready callback, and a worker runs every job it took. In `GraphDispatch` also of the shutdown steps of a process and of
the expiry of a key nobody renews. `graph_run` assumes it of each node's coroutine and of the engine, `delivery` of the
steps of a call and of a stream, `thread_page` of the browser (its requests, the acceptance of a retry included) and
of the publication of what was written, `setup` of each
process and of the expiry of an abandoned key. Nothing is assumed of users, deadlines, revocations, crashes, stalls, redelivery or
the expiry of flags.

## Disagreements without a run

What the code does against a doc or comment of its own. All of the first three lists was found by TLC on these models (as the
counterexample of a property that is not kept, since nothing true is left to say), or is excluded from a property by a named condition.
The last list was found by reading.

Ownership and threads:

- One instance owns each run (`main_thread/executor.py:9`): a dispatch reads the lock, and when it is its own and no task runs it
  dispatches with the token it read; in between the run may have ended and another instance started.
- Dispatching a thread this process runs already is called a no-op (`executor.py:35`); after a retry's done callback has
  popped the slot of the graph task (`registry.py:30`), a second run starts. For the same reason a shutdown does not wait for the first
  (`registry.py:3`), and a run whose lock is lost is not cancelled (`executor.py:19`).
- The lock of a draining instance is stolen (`executor.py:41` says dead): its socket is closed, its run goes on.
- A run can start with token 0 and without the lock when the lock vanishes between SET NX and GET (`executor.py:391`).
- Tokens increase (`lock.py:15`): the counter has a TTL that renewals do not extend, and the newest owner is refused afterwards.
- A zombie's `complete_thread` is a no-op (`src/docs/debugs/multi-fastapi-graph-thread-racing-fix.md:138`): it compares no token, so it
  is one only if the zombie is second.
- The finally block of one run clears the cancel flag that was set for another (`executor.py:256`), which then continues.
- Startup does not select a thread that died between two nodes or before its first (`startup.py:35`, against `startup.py:3`). The next
  startup re-dispatches what a shutdown paused (`langgraph/lifecycle/threads/ops.py:339`), except a run that saw its pause flag
  first and marked its node with the value that hides it.
- Resuming while the cancelled run unwinds sets the status to running and dispatches nothing (`users/queries/lifecycle.py:76`).
- The sweep at startup takes the active jobs and the queues for those of a previous process (`startup.py:102`); instances
  that serve lose theirs too. A purged job stays pending until the deadline of its caller.

Tasks:

- An interrupted stream returns a paused result (`stream_core.py:178`): the flags are read again after the flush, when a retry may have
  cleared them (`users/queries/retry.py:149`); the cut text is then stored as the answer, with an end record.
  `Delivery` and `TaskDelegation` both do this; no property says otherwise.
- Not left in a permanent running state (`users/queries/retry.py:225`): a pause between the clearing of the flag and
  the reset; and the retry is in the one slot of
  its thread, so that a run whose lock is lost cancels it (`executor.py:106`), which its `except Exception` does not
  see (`users/queries/retry.py:272`).
- The snapshot is located on resume (`task_runner.py:36`): `run_task` deletes it together with the pause flag.
- Pausing a stream can mark it failed (`users/queries/lifecycle.py:200` says otherwise): the flag is set first, and the
  `except Exception` of the task takes `TaskPausedError` for a failure.
- An execution can receive the output of an earlier try: status and output are two statements, and the output goes to the
  latest execution (`complete.py:66`).
- Restarting a running completion does not wait for its worker: the pause has removed the handle that is looked for
  afterwards (`users/queries/retry.py:351` promises no overlap).
- The reset of a row keeps the creator's fencing token, so `cleanup_zombie_tasks` misses a row that was reset.

Graph, data, delivery:

- A node waits for all its predecessors (`entrypoint.py:40`): plain edges, so the merge node runs after the shorter branch and again
  after the longer one, on a row that is terminal by then (`fin_trading_graph.py:92`).
- Resuming after a last superstep with two writers calls `aupdate_state` without `as_node`, which LangGraph refuses (`executor.py:183`); a
  re-exploration while a run is about to finish is ignored; two concurrent ones can get the same generation.
- A completion whose node was cancelled between its last task and `complete_node` has the record completed and the row cancelled; the
  recovery gives records of old versions the status of the newest row (`state_recovery.py`).
- A cached task answers the input it was made for (`langgraph/lifecycle/threads/nodes/tasks/queries.py:72`, `task_runner.py:80`):
  unfinished rows are matched by name alone (`tasks/sql.py:160`), and `create_task` rewrites the input of execution 0 when such a row is taken for
  another input (`tasks/sql.py:17`). A worker of the earlier run that is still at work then stores its output under the newest execution
  (`tasks/sql.py:41`) and completes the row; the next rerun finds the hash it looks for and is served an answer to another input. TLC finds it
  in `load_symbol_stats` with two reruns after two shutdowns and one job that outlives its run.
- The entries removed from the token stream were consumed (`reader.py:6`): the worker does not wait for the consumer (`stream_core.py:260`).
- Bars have their currency (`main.py:50`): the map is loaded in the API process, the bars are stored in workers (`calculate_ohlcv_stats.py:301`).
- A fork view that misses a row: when a branch shares a sibling made after an older version of its own predecessor, the branch rests on
  a row the page misses (`versionUtils.ts:116`); excluded by `Mixed`. Old continuations without their branch are excluded by `WithTheirBranch`.
- Two processes that migrate at once: the one that meets a UniqueViolation takes it for success and writes the sentinel
  (`checkpointer.py:116`); excluded by `lost = {}`.
- The socket stays connected while a retry is in flight, until the retried task is terminal
  (`ThreadView/index.tsx:224`): `retryTaskId` is cleared at once when the page
  still shows how the task ended before (`index.tsx:270`), it is cleared before the graph goes on that the retry resumes, and the button of the task
  (`NodeDetail/TaskDetail.tsx:107`) does not set it; see `Behind`.
- A page opened from the history asks for tokens again with every new thread object while the thread runs (`ThreadView/index.tsx:252`),
  does not retry a failed token request, and may show and cache rows older than the end it shows (`threadDataCache.ts:4`); see `Behind`.

By reading only: `get_version_graph` passes four parameters (`users/queries/status.py:83`) to a query with two placeholders
(`users/queries/_sql.py:73`; the one with four is in `users/queries/sql.py:75`, which nobody imports), so the endpoint fails for every version;
`clear_node_cancel_flag` has no caller (`cancel_flag.py:28`), so retrying a task of a cancelled node fails until the
TTL is over; `run_task` ignores a reset that changed nothing; a pause served by another instance does not revoke a completion;
`has_app_viewer` returns True on a Redis error where its comment says False (`viewer_store.py:67`); no `query_status` event is ever
published, so the watcher of the sidebar (`App.tsx:33`) does nothing; a retry in the detail panel does not evict `taskOutputCache`
("records are immutable", `taskOutputCache.ts:4`); a bar's width is computed from its length alone, which is wrong across a
compressed gap (`BarRow.tsx:147`); hourly bars lose their hour (`yfinance/transformer.py:92`); completed `get_stats` rows are never served,
since the hash leaves out the thread (`get_stats.py:75`).

## What is proved

Eight modules hold proofs, each about one component, for all values of its constants that satisfy the named assumptions:

| Proofs | For all | Assumptions on the constants |
|---|---|---|
| `GraphDispatchProofs` | `Procs`, `Attempts`, `NumNodes`, `Events` | `ProcsAssumption`, `AttemptsAssumption`, `NumNodesAssumption`, `EventsAssumption`: "nobody" is no member, there is a node, events are of the known kinds |
| `TaskDelegationProofs` | `Procs`, `Drivers`, `Scenarios` | `DriversAssumption`, `ScenariosAssumption`: likewise |
| `GraphRunProofs` | graphs, groups, tasks, versions, budgets | `EdgesJoinNodes`, `GroupIsOfGraph`, `NoneIsNoNode`, `BudgetsAreCounts`, `OneEnd` (no cycle, and one node without successors, as in the compiled graph) |
| `NodePipelinesProofs` | symbols, fans, instruments, horizons, budgets | `BudgetsAreCounts`, `DefaultsAreListed`, `HorizonIsOffered` |
| `StatsDataProofs` | jobs, requests, providers' data, settings | `ScenariosAreBounded`, `RequestsAreKnown`, `PeriodsAreKnown` (the pipelines, providers and periods the code knows), `NoneIsNoGranularity`, `ChainsAreLists` (an options record is a list of contracts, volumes are counts or missing) |
| `DeliveryProofs` | threads, callers, tasks, scenarios, retries, batches, pages | `DeliveryCounts`, `ScenariosAreCounts`; at most `MaxCalls` = 3 calls of `notify` by one caller |
| `ThreadPageProofs` | threads, pages, writes, forks, retries, failures | `PageConstants` |
| `CheckpointerSetupProofs` | `Processes`, `Migrations`, `MaxTries`, `MaxFaults` | `FreeAssumption`, `BoundsAssumption` |

| Theorem | States |
|---|---|
| `GraphDispatchProofs!Typing` | `Spec => []TypeOK` |
| `GenuineTokens` | `Spec => []TokensGenuine`, if the counter never expires |
| `TokenNamesProcess` | equal tokens, same process; same condition |
| `NeverStale` | `Spec => NoStaleOverwrite`; same condition |
| `Refinement` | `Spec => ImplementsFencedOwnership`; same condition |
| `TerminalStays` | `Spec => TerminalIsFinal`, unconditionally |
| `CheckpointerSetupProofs!TypeCorrect` | `Spec => []TypeOK` |
| `MutualExclusion` | `Spec => []OneAtATime` |
| `SentinelIsTrue` | `Spec => []TablesBeforeUse` |
| `TaskDelegationProofs!TaskTyping` | `Spec => []TypeOK` |
| `HandlesAwait` | `Spec => []HandleMeansAwaiting` |
| `Settled` | `Spec => []SettledWhenReturned` |
| `AnswersEarned` | `Spec => []AnswersAreEarned` |
| `LeftOnlySo` | `Spec => []LeftByPauseOrCrash` |
| `RowRefinement` | `Spec => ImplementsTaskRow` |
| `GraphRunProofs!RunTyping` | `Spec => []TypeOK` |
| `RowsStayEnded` | `Spec => EndedRowsStay` |
| `FirstRunsAreClean` | `Spec => [](origin = "start" => CompletedIsClean)` |
| `StopsHaveReasons` | `Spec => []StoppedForAReason` |
| `NodePipelinesProofs!AnswersAreOwn` | `Spec => []OwnAnswers` |
| `NothingIsLeftRunning` | `Spec => []NothingRunsOn` |
| `GapsAreExplained` | `Spec => []MissingIsExplained` |
| `StatsDataProofs!CacheIsHarmless` | `Spec => []CacheIsTransparent` |
| `RecordsAreWhole` | `Spec => []BarsAreWhole` |
| `SummariesAreTrue` | `Spec => []SummaryIsOfTheChain` |
| `IndicatorsAreKept` | `Spec => IndicatorsStay` |
| `DeliveryProofs!AckedIsShown` | `Spec => []AckedWasShown` |
| `WatchersAreServed` | `Spec => []WatcherIsServed` |
| `StreamRefinement` | `Spec => ImplementsTokenStream` |
| `EndsComeLast` | `Spec => []EndComesLast`: an end is the last entry of its job, behind all tokens of its answer, up to the cut if there was one (defined in `DeliveryProofs`) |
| `NothingIsLeft` | `Spec => []NothingLeft` |
| `ThreadPageProofs!PageTyping` | `Spec => []TypeOK` |
| `RefreshesAreKept` | `Spec => []NoLostRefresh` |
| `NothingGetsOlder` | `Spec => NeverBackwards` |

The condition `"counterExpiry" \notin Events` is needed: after an expiry the newest owner has the smaller token.

*Ownership.* `TokensGenuine` is inductive together with `TypeOK`: it says not only that the lock and the rows carry genuine
tokens, but also that every owner a coroutine *read* was genuine when it was read, which is what a steal relies on later, and that
the counter equals the number of grants, so that a new grant is a new number. The steps fall into a few kinds, and a lemma for each
says what it may do: a *flow* step moves tokens between lock, coroutines and rows but creates none; a *grant* appends to `granted`;
a *write* changes one row as the SQL does; a *sweep* changes many rows without a token. `WriteStep` reduces every action to those
kinds; the refinement maps each kind to a step of `FencedOwnership` or to a stutter, and `TerminalStays` goes through the same cases.

*Set-up.* `IInv` is `TypeOK`, `Held` (a process inside whose key did not vanish owns the lock) and `Complete` (while no key vanished: the
process that migrates is at the first statement that is not recorded, and nobody says done before the last one is). Exclusion
follows from `Held` at once; it is also what makes `Complete` inductive, because only the holder changes the tables.

*Tasks.* What a step may do is stated once for each part of the state: `StatusStep` and `OutputStep` for the row, `DriverStep` for a
coroutine, `JobUse` for the jobs; the properties follow from those and not from some forty actions each. `HandleMeansAwaiting` is inductive as
it stands, because whoever leaves the poll loop empties the slot, even one that a later coroutine has taken.
`SettledWhenReturned` is not: a caller of a
completion goes on without writing anything, so the proof needs that its worker has settled the try before its result can be read
(`WorkerSettles`, for which a completion must be known never to stream, `NoStream`), that every other driver writes before it goes on
(`DriverSettles`), that nobody has an outcome earlier (`OutcomesLate`), and that a settled try is never opened again (`StaysSettled`, from
`TriesPast` and `UntriedWithoutRow`). `ResultsKnown` says that the poll loop, which has a case for four results, meets no other.
`LeftByPauseOrCrash` follows from `Attended`: a row that is running has a driver that will still write to it, or one that was paused, or that
died or was cancelled for a lost lock; a driver that opened the row is that driver until it settles it. The refinement
needs that executions never outnumber tries
(`ExecutionsPast`: a driver between its two INSERTs, or between its reset and its insertion, has a try without
execution, and no two share one) and that a job which
answered stays one that did (`AnswersGrow`); `RowUse` then names, for each action, the action of `TaskRow` it is, or a stutter.

*Graph.* Every statement of a node, of the engine and of a request does one of a few things to the rows (`RowsMove`: an ended row stays,
a row appears only with the current version, the last ended row of a version has ended), which gives `EndedRowsStay`. `StoppedForAReason`
needs three facts more: `complete_thread` takes the status of a row that has ended (`LeavesEnded`), there are versions
left for the forks that are left (`VersionsLeft`), and what stops a first run other than a pause or a crash has ended the thread before, or
ends it in the except clause of the executor (`FirstRunEnds`, the fact that carries the proof). `FirstRunsAreClean` follows a failure
through the graph: a node whose predecessor's record is bad fails or has a bad row itself (`Spreads`, `PredBad`), so that a failed or
cancelled node leads along the edges to the one last node (`OneEnd`), whose row is the one `complete_thread` finds (`LastNode`, `NodeRows`).

*Nodes.* A caller that is past its look-up is at the call its node makes next (`CallOK`); a job of this run belongs to that call or to
an earlier one (`JobOK`), and so does the row it made (`IdOK`); so a late answer can only settle a row of its own caller.
`Attended` says who will settle a running row, which gives `NothingRunsOn` when the node ends. `OwnAnswers` needs
`First` (a first run claims every row it makes, so
it reuses none) and, for a rerun, `Reused`: a row nobody has claimed yet holds an answer to its own input or none
(`Pure`), which is what a second rerun
breaks. The proof attempt found an error of the model, which delivered the error record of a failed row as an answer to every task, where the code
raises unless the output model has a default for each field (`ReadCached`, `AllDefaults`); and it showed how far
`OwnAnswers` reaches in the code, the disagreement
under *Graph, data, delivery* above.

*Market data.* As long as nothing failed, a record in the cache is the first one some regular request finds at its provider (`CacheKnown`), and two
requests with the same key find the same there (`SameKey`, a case analysis over `CacheKey` and the periods a request
tries): that is why it does not matter who
filled the cache. A job that searches has found nothing at the providers before (`SearchOf`), so what it takes is what the search from the start finds
(`BestIs`), and what it holds afterwards is that record (`CleanOf`). A job that writes has stored each bar or still has it to write (`WritesOf`);
rows are only added or merged into. The summary of an options chain follows from one fact about the loop: after `n` contracts the table holds the
expiries, strikes and volumes the first `n` have (`TableOf`), and a job that writes is at some such place of its chain
(`Stage`, which every step keeps
or moves on). The totals of the handler are taken contract by contract, those of the property over a set: `SumsAgree` and
`SumsExist` unfold the fold of the community module, and `VolumeAdds` says one more contract adds its volume; both argue by the smallest number of
steps at which they fail, which takes the place of an induction. `PickedTyped` does the same for the lists.

*Delivery.* `AckedWasShown` rests on `AcksFollowReceipt`: an acknowledgement, on its way or in its list, is one for an
event the browser received, so that
none can be left over for a later call, whose key is another one. `WatcherIsServed` rests on `SteadyIsWatched`: the
history bit of a call says that the
tab watches *now* as well. For the streams there is one invariant, `StreamInv`. `Written` says which tokens of a job
are in Redis while it goes on (each once and in
order, `Logged`, the batch is what follows, and neither goes beyond where its answer was cut, `LimitOf`); `Collected`
what the page-wise recovery has found up to its cursor, which are entries of its
own task only; `EndedIsOver` and `EndComesLast` that nobody adds after an end, which is behind all its answer. A lemma
for each action proves at once that it keeps the
invariant and that it is a step of `TokenStream` or invisible to it (`SeenStep`): a cut is one of the abstract steps,
and what the second look at the flags decides is not visible
to the reader of the stream.

*Page.* `FetchSound` is the protocol between `pendingRef`, `dirtyRef` and the requests: there is one fetch at most,
and what it has read is as new as what the page
shows and, unless a refresh is remembered, as the events it has handled. `Caught` says the same of a page that fetches
nothing. Each function of the hook is
proved to keep both for any page, and each action is one of them at one page; waiting for a retry changes neither what
is shown nor the fetch (`AwaitedKeeps`); `CacheKnown` and `EventsWritten` bound what a cache entry or event can say by
what the thread has written.

Only model-checked:

- liveness (`DrainEnds`, `DelegationEnds`, `RunEnds`, `CallsEnd`, `PageCatchesUp`, `ForkIsShown`, `LockComesFree`) and anything about
  ENABLED, which the prover cannot handle;
- `BranchIsClosed`, `EdgesAreTheGraph`, `NextIsVisible`, `OverlapsAreShown` and `ScaleIsFaithful`: they speak about what
  RECURSIVE operators (`PrevClosure`, `WithAligned`), which the prover cannot expand, or folds over sorted lists give; each of those would need
  an induction of its own, as the one over sets in `StatsDataProofs`;
- `CompletedIsClean` after a re-exploration. It is false there for some graphs, so it rests on the compiled one: where paths of different
  length join (A to s, A over m to s, A over x to n), a fork at n can leave s completed although m failed.

RECURSIVE operators are kept out of the eight modules with proofs and out of the modules they extend.

## Not modelled

- The HTTP routes, login, sessions and guests: they pass arguments on, with no protocol of their own. Routes that decide something are mapped.
- Language models, web search and embedding (`_shared/`, `resources/web_knowledge/`): a job that answers or fails.
  `WebKnowledgeClient` and the ark search
  have no caller.
- The sandbox: one request, one process; `run_sandbox` and its session have no caller in the graph.
- Start scripts, gateway, SQL schema, monitoring, model files: configuration.
- Rendering, sidebar, detail panels and token viewer of the browser; `useConcurrencyThread` has no caller.
- Indicator formulas over real numbers, `calculate_corr`, `calculate_fundamental_stats`, `fetch_fundamentals`,
  `propose_industry_news_topics`, `dummy_task`,
  `search_and_summary`: numbers TLC does not have, or no caller.
- The detection and compression of repeated text in streams, and the pending frontier (`status.py`), which no component calls.
- Connection pools, and the routing of Redis clients by hash: I/O around statements and commands taken as atomic.

## Plan

1. *Done*: ownership and dispatch; tasks; the graph and its nodes; market data; delivery; versions, timeline and
   page; the set-up; the proofs of the table above.
2. Wanted next: `CompletedIsClean` after a re-exploration, from what distinguishes the compiled graph; the invariants of `ThreadVersions`,
   whose closures would have to be functions the provers can expand.
3. A composition of `GraphDispatch` with the recovery of tasks, so that what `LeftByPauseOrCrash` names is followed to the next run; its
   state space needs a coarser model of both.
4. Algorithms: compression of repetitions and the pending frontier against reference definitions.

## Running

`tlc -config <run>.cfg <module>`, for example `tlc -config dispatch_fencing.cfg MCGraphDispatch`; `PROJECT.json` names the module
and the configuration of each run. `tlapm GraphDispatchProofs.tla`, and the same for the other seven `...Proofs` modules, checks the proofs. A run
takes between a few seconds and two minutes with two workers, the proofs of all modules about a quarter of an hour.
