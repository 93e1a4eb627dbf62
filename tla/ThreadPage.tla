------------------------------ MODULE ThreadPage ------------------------------
(* The page of a thread in the browser (frontend/src/components/ThreadView with  *)
(* hooks/useThreadData and cache/threadDataCache): it shows what the last fetch  *)
(* of thread, nodes and tasks returned, fetches again for every event of the     *)
(* thread's channel, keeps the socket while the thread it shows has not ended,   *)
(* and switches to the branch of a re-exploration once that has a row. A retry   *)
(* of a task is to keep the socket, or to open it again, until the task is over. *)
(*                                                                              *)
(* The backend is external: a run writes rows and then publishes, the end of a   *)
(* run is written last, and a re-exploration has made the thread running before  *)
(* it answers. A row stands for its revision: rev counts the writes of a thread. *)
(* A retry writes to a thread that may have ended, and leaves its status.        *)
(* The channel keeps its history and replays it to every new subscription.       *)
(* Publications are lost only while no page shows the thread: the browser is     *)
(* present from its login on (hooks/useCentrifugoPresence). What is lost besides *)
(* that is the subject of Delivery. Nodes and tasks are read as one.             *)
(*                                                                              *)
(* A page that was left is unmounted: it shows nothing, but its requests go on   *)
(* and may still fill the cache. What its socket still delivers while it drains  *)
(* the acknowledgements is left out.                                             *)
EXTENDS Integers, Sequences, FiniteSetsExt, SequencesExt

CONSTANTS Threads, NoThread,
          Scenarios,    \* start of the threads, what its run made of the task that can be
                        \* retried, and bounds: mounts, writes of a run, forks, retries, failures
          MaxOwed       \* bound: writes of a thread not yet published
ASSUME PageConstants ==
  /\ NoThread \notin Threads /\ MaxOwed \in Nat
  /\ Scenarios \subseteq [start : {"new", "running", "ended"}, mounts : Nat, writes : Nat,
                          forks : Nat, retries : Nat, failures : Nat,
                          task : {"over", "paused"}]

VARIABLES server,   \* [rev, status, versions, fork, due, task, redo, late] of each
                    \* thread; external
          owed,     \* writes not yet published; external
          log,      \* events in the history of the channel; external
          pages,    \* every page opened
          now,      \* the page that is mounted, or 0
          posting,  \* the thread whose POST .../query is not answered, or NoThread
          live,     \* threads submitted in this session: App's liveInfo
          cache,    \* threadDataCache
          left        \* what remains of the bounds of the scenario
backend == <<server, owed, log>>
app == <<now, posting, live>>
vars == <<server, owed, log, pages, now, posting, live, cache, left>>

None == [rev |-> -1, status |-> "none", versions |-> {}, task |-> "over"]
NoEntry == [main |-> None, rows |-> None]
Fault == left.failures > 0 /\ left' = [left EXCEPT !.failures = @ - 1]

-------------------------------------------------------------------------------
(* useThreadData. pending and dirty are its refs; reads are its requests in      *)
(* flight, each with the answers that are in.                                    *)

Start(p) == [p EXCEPT !.pending = TRUE, !.dirty = FALSE, !.missed = FALSE,
                      !.reads = Append(@, NoEntry)]
\* Defect: a refresh during a refresh is dropped.
RefreshDrops(p) == IF p.pending THEN p ELSE Start(p)
\* Defect: every event fetches, whatever is in flight.
RefreshAlways(p) == IF Len(p.reads) > 1 THEN p ELSE Start(p)
(* refresh: one fetch at a time; one that comes meanwhile is remembered.         *)
Refresh(p) == IF p.pending THEN [p EXCEPT !.dirty = TRUE] ELSE Start(p)

(* finally: what was remembered is fetched now.                                  *)
Settle(p, i) ==
  LET q == [p EXCEPT !.pending = FALSE, !.reads = RemoveAt(@, i)]
  IN IF q.dirty THEN Start(q) ELSE q

(* The four terminal statuses are one here, the active ones another.             *)
isThreadTerminal(status) == status = "ended"
(* What the page goes by is what it shows; without data the status is ''.        *)
Done(p) == isThreadTerminal(p.main.status)
\* Defect: a retry does not keep the socket.
DoneAnyway(p) == Done(p)
effectiveDone(p) == Done(p) /\ ~p.retry
(* retryTaskId is cleared when the task it names is shown as over: at once, if   *)
(* the page still shows how it ended before the retry.                           *)
Awaited(p) == [p EXCEPT !.retry = @ /\ p.rows.task # "over"]

(* threadDataCache keeps only ends, until they are evicted.                      *)
setCachedThreadData(t, read) ==
  IF isThreadTerminal(read.main.status) THEN [cache EXCEPT ![t] = read] ELSE cache
evictThreadData(t) == [cache EXCEPT ![t] = NoEntry]

(* pendingTargetVersion: shown as soon as one of the rows has it.                *)
Switched(p) ==
  IF p.target # 0 /\ p.target \in p.rows.versions
  THEN [p EXCEPT !.active = p.target, !.target = 0] ELSE p
(* A page from the history asks for tokens with every thread object it gets      *)
(* while the thread runs; the answer to the question before is ignored.          *)
Asks(p) == [p EXCEPT !.asking = ~p.given /\ p.main # None /\ ~Done(p)]
(* useCentrifugoSse: with the end shown the socket drains and closes.            *)
Linked(p) == IF effectiveDone(p) /\ p.link = "on" THEN [p EXCEPT !.link = "draining"] ELSE p
Show(p, read) ==
  Linked(Asks(Switched(Awaited([p EXCEPT !.main = read.main, !.rows = read.rows]))))

(* Mounting seeds the state from the cache and always fetches.                   *)
Seeded(t) ==
  [thread |-> t, main |-> cache[t].main, rows |-> cache[t].rows, target |-> 0, active |-> 0,
   pending |-> FALSE, dirty |-> FALSE, missed |-> FALSE, reads |-> <<>>,
   given |-> t \in live, info |-> t \in live, asking |-> FALSE, link |-> "off", pos |-> 0,
   handled |-> 0, forking |-> 0, retry |-> FALSE, retrying |-> FALSE, renewing |-> FALSE]
Page(t) == Start(Seeded(t))
(* Unmounting: refs and requests outlive the state.                              *)
Unmounted(p) ==
  [p EXCEPT !.main = None, !.rows = None, !.target = 0, !.active = 0, !.asking = FALSE,
            !.missed = FALSE, !.handled = 0, !.given = FALSE, !.info = FALSE,
            !.link = "off", !.pos = 0, !.retry = FALSE, !.renewing = FALSE]

-------------------------------------------------------------------------------
(* The backend.                                                                  *)

(* late: the newest write to a thread that had ended.                            *)
Written(s) == [s EXCEPT !.rev = @ + 1, !.late = IF s.status = "ended" THEN s.rev + 1 ELSE @]
Writes(t, s) ==
  /\ owed[t] < MaxOwed /\ owed' = [owed EXCEPT ![t] = @ + 1]
  /\ server' = [server EXCEPT ![t] = s]
(* A run writes a row; the first row of a fork is the one that has its version.  *)
Write(t) ==
  /\ server[t].status = "running" \/ server[t].redo
  /\ server[t].due > 0
  /\ Writes(t, [Written(server[t]) EXCEPT !.due = @ - 1, !.versions = @ \union {server[t].fork}])
  /\ UNCHANGED <<log, pages, app, cache, left>>
(* _run_retry_background: the task is over, and the graph may go on.             *)
TaskEnds(t) ==
  /\ server[t].task = "running"
  /\ Writes(t, [Written(server[t]) EXCEPT !.task = "over", !.due = left.writes, !.redo = TRUE])
  /\ UNCHANGED <<log, pages, app, cache, left>>
(* complete_thread or cancel_thread: the last write, published like the others.  *)
End(t) ==
  /\ server[t].status = "running"
  /\ Writes(t, [Written(server[t]) EXCEPT !.status = "ended", !.redo = FALSE])
  /\ UNCHANGED <<log, pages, app, cache, left>>
Published(t) == /\ owed[t] > 0 /\ owed' = [owed EXCEPT ![t] = @ - 1]
                /\ UNCHANGED <<server, pages, app, cache, left>>
Publish(t) == Published(t) /\ log' = [log EXCEPT ![t] = @ + 1]
Skip(t) ==
  /\ (now # 0 => pages[now].thread # t)
  /\ Published(t) /\ UNCHANGED log

-------------------------------------------------------------------------------
(* App: which page is mounted.                                                   *)

Left == IF now = 0 THEN pages ELSE [pages EXCEPT ![now] = Unmounted(@)]
Mount(t) ==
  /\ left.mounts > 0 /\ left' = [left EXCEPT !.mounts = @ - 1]
  /\ pages' = Append(Left, Page(t)) /\ now' = Len(pages) + 1
(* handleSelectThread. The page is keyed by its thread.                          *)
Select(t) ==
  /\ server[t].status # "none" /\ t # posting /\ (now # 0 => pages[now].thread # t)
  /\ Mount(t) /\ UNCHANGED <<backend, posting, live, cache>>
NewQuery ==
  /\ now # 0 /\ now' = 0 /\ pages' = Left
  /\ UNCHANGED <<backend, posting, live, cache, left>>
(* MainQuery: the thread runs before the answer to the POST is in.               *)
Submit(t) ==
  /\ now = 0 /\ posting = NoThread /\ server[t].status = "none"
  /\ left.mounts > 0
  /\ posting' = t
  /\ server' = [server EXCEPT ![t] = [@ EXCEPT !.status = "running"]]
  /\ UNCHANGED <<owed, log, pages, now, live, cache, left>>
(* handleSubmit: tokens in liveInfo, and the page is shown wherever the user is. *)
Submitted ==
  /\ posting # NoThread
  /\ posting' = NoThread /\ live' = live \union {posting}
  /\ left.mounts > 0 /\ left' = [left EXCEPT !.mounts = @ - 1]
  /\ pages' = Append(Left, [Page(posting) EXCEPT !.given = TRUE, !.info = TRUE]) /\ now' = Len(pages) + 1
  /\ UNCHANGED <<backend, cache>>

-------------------------------------------------------------------------------
(* The page.                                                                     *)

SetPage(m, p) == pages' = [pages EXCEPT ![m] = p]
others == <<backend, app, cache, left>>

(* A GET of a fetch is served; the fetches of a page may cross other writes.     *)
Snapshot(t) == [rev |-> server[t].rev, status |-> server[t].status,
                versions |-> server[t].versions, task |-> server[t].task]
Read(m, i, part) ==
  /\ pages[m].reads[i][part] = None
  /\ pages' = [pages EXCEPT ![m].reads[i][part] = Snapshot(pages[m].thread)]
  /\ UNCHANGED others

(* All answers are in: shown, unless the page was left, and cached at the end.   *)
Answer(m, i) ==
  LET p == pages[m]  read == p.reads[i]
  IN /\ None \notin {read.main, read.rows}
     /\ SetPage(m, Settle(IF m = now THEN Show(p, read) ELSE p, i))
     /\ cache' = setCachedThreadData(p.thread, read)
     /\ UNCHANGED <<backend, app, left>>
(* The error of any of them is ignored. missed: no fetch has begun since.        *)
Fail(m, i) ==
  /\ Fault
  /\ SetPage(m, Settle([pages[m] EXCEPT !.missed = (m = now)], i))
  /\ UNCHANGED <<backend, app, cache>>

(* The subscription begins with the whole history.                               *)
Connect(m) ==
  /\ m = now /\ pages[m].info /\ ~effectiveDone(pages[m]) /\ pages[m].link # "on"
  /\ SetPage(m, [pages[m] EXCEPT !.link = "on", !.pos = 0]) /\ UNCHANGED others
Receive(m) ==
  LET p == pages[m]
  IN /\ p.link # "off" /\ p.pos < log[p.thread]
     /\ SetPage(m, Refresh([p EXCEPT !.pos = @ + 1,
                   !.handled = IF m = now THEN Max({@, p.pos + 1}) ELSE @]))
     /\ UNCHANGED others
(* Promise.allSettled(pending): the old socket is closed.                        *)
Drained(m) ==
  /\ pages[m].link = "draining"
  /\ SetPage(m, [pages[m] EXCEPT !.link = "off", !.pos = 0]) /\ UNCHANGED others

(* getSseToken: new tokens are a new connection, so the old one drains.          *)
WithTokens(p) == [p EXCEPT !.info = TRUE, !.link = IF @ = "on" THEN "draining" ELSE @]
Tokens(m) ==
  /\ \/ pages[m].asking /\ SetPage(m, WithTokens([pages[m] EXCEPT !.asking = FALSE]))
     \/ pages[m].renewing /\ SetPage(m, WithTokens([pages[m] EXCEPT !.renewing = FALSE]))
  /\ UNCHANGED others
NoTokens(m) ==
  /\ Fault
  /\ \/ pages[m].asking /\ SetPage(m, [pages[m] EXCEPT !.asking = FALSE])
     \/ pages[m].renewing /\ SetPage(m, [pages[m] EXCEPT !.renewing = FALSE])
  /\ UNCHANGED <<backend, app, cache>>
(* The refresh button of the status bar, for who knows that something failed.    *)
Click(m) ==
  /\ m = now /\ pages[m].missed /\ ~pages[m].pending
  /\ SetPage(m, Refresh(pages[m])) /\ UNCHANGED others

(* handleReExploreConfirm, until the backend has taken it: the thread runs.      *)
Explore(m) ==
  LET t == pages[m].thread  next == Max(server[t].versions) + 1
  IN /\ m = now /\ pages[m].forking = 0 /\ pages[m].rows.versions # {}
     /\ server[t].versions # {} /\ left.forks > 0 /\ server[t].fork < next
     /\ server' = [server EXCEPT ![t].rev = @ + 1, ![t].status = "running", ![t].fork = next,
                                 ![t].due = left.writes, ![t].redo = FALSE]
     /\ SetPage(m, [pages[m] EXCEPT !.forking = next])
     /\ left' = [left EXCEPT !.forks = @ - 1]
     /\ UNCHANGED <<owed, log, app, cache>>
\* Defect: the page waits for an event of the branch.
ExploredQuietly(m) ==
  /\ pages[m].forking # 0
  /\ SetPage(m, [pages[m] EXCEPT !.forking = 0, !.target = IF m = now THEN pages[m].forking ELSE 0])
  /\ cache' = evictThreadData(pages[m].thread)
  /\ UNCHANGED <<backend, app, left>>
(* Its answer: the cached end is evicted and the page fetches.                   *)
Explored(m) ==
  LET p == pages[m]
  IN /\ p.forking # 0
     /\ SetPage(m, Refresh(Switched([p EXCEPT !.forking = 0,
                                              !.target = IF m = now THEN p.forking ELSE 0])))
     /\ cache' = evictThreadData(p.thread)
     /\ UNCHANGED <<backend, app, left>>
ExploreLost(m) ==
  /\ pages[m].forking # 0 /\ Fault
  /\ SetPage(m, [pages[m] EXCEPT !.forking = 0, !.missed = (m = now)])
  /\ UNCHANGED <<backend, app, cache>>

(* A retry of the task. The detail panel calls handleRetryReconnect before it    *)
(* posts; the button of the task itself (TaskDetail) only posts.                 *)
Retry(m) ==
  LET p == pages[m]  posts == [p EXCEPT !.retrying = TRUE]
  IN /\ m = now /\ p.rows.versions # {} /\ ~p.retrying /\ ~p.renewing
     /\ left.retries > 0 /\ left' = [left EXCEPT !.retries = @ - 1]
     /\ \/ SetPage(m, Awaited([posts EXCEPT !.retry = TRUE, !.renewing = TRUE]))
        \/ p.rows.task # "running" /\ SetPage(m, posts)
     /\ UNCHANGED <<backend, app, cache>>
(* retry_task: the row is reset; or the request fails, and the page waits on.    *)
RetryTaken(m) ==
  LET t == pages[m].thread
  IN /\ pages[m].retrying /\ SetPage(m, [pages[m] EXCEPT !.retrying = FALSE])
     /\ Writes(t, [Written(server[t]) EXCEPT !.task = "running"])
     /\ UNCHANGED <<log, app, cache, left>>
RetryLost(m) ==
  /\ pages[m].retrying /\ Fault /\ SetPage(m, [pages[m] EXCEPT !.retrying = FALSE])
  /\ UNCHANGED <<backend, app, cache>>

-------------------------------------------------------------------------------
Init ==
  /\ left \in Scenarios
  /\ server = [t \in Threads |->
       IF left.start = "new"
       THEN [rev |-> 0, status |-> "none", versions |-> {}, fork |-> 0, due |-> left.writes,
             task |-> left.task, redo |-> FALSE, late |-> 0]
       ELSE [rev |-> 1, status |-> left.start, versions |-> {0}, fork |-> 0, due |-> left.writes,
             task |-> left.task, redo |-> FALSE, late |-> 0]]
  /\ owed = [t \in Threads |-> 0] /\ log = [t \in Threads |-> server[t].rev]
  /\ pages = <<>> /\ now = 0 /\ posting = NoThread /\ live = {}
  /\ cache = [t \in Threads |-> NoEntry]

Backend(t) == Write(t) \/ TaskEnds(t) \/ End(t) \/ Skip(t) \/ Submit(t)
User ==
  \/ NewQuery \/ \E t \in Threads : Select(t)
  \/ \E m \in DOMAIN pages : Click(m) \/ Explore(m) \/ Retry(m)
Faults(m) == NoTokens(m) \/ ExploreLost(m) \/ RetryLost(m) \/ \E i \in DOMAIN pages[m].reads : Fail(m, i)
Reads(m) == \E i \in DOMAIN pages[m].reads, part \in {"main", "rows"} : Read(m, i, part)
Answers(m) == \E i \in DOMAIN pages[m].reads : Answer(m, i)
Next ==
  \/ \E t \in Threads : Backend(t) \/ Publish(t)
  \/ Submitted \/ User
  \/ \E m \in DOMAIN pages :
       \/ Reads(m) \/ Answers(m) \/ Connect(m) \/ Receive(m) \/ Drained(m) \/ Tokens(m)
       \/ Explored(m) \/ RetryTaken(m) \/ Faults(m)
Spec == Init /\ [][Next]_vars

(* The browser and the network go on: what was published, asked or opened is     *)
(* handled at last. Nothing is assumed of the user or of the run.                *)
Browser(m) ==
  \/ Reads(m) \/ Answers(m) \/ Connect(m) \/ Receive(m) \/ Drained(m) \/ Tokens(m) \/ Explored(m)
  \/ RetryTaken(m)
FairSpec ==
  /\ Spec /\ WF_vars(Submitted) /\ \A t \in Threads : WF_vars(Publish(t))
  /\ WF_vars(\E m \in DOMAIN pages : Browser(m))

-------------------------------------------------------------------------------
(* Properties.                                                                   *)

Shown == pages[now]
Source == server[Shown.thread]

(* No event is lost: when the page fetches nothing and the last fetch did not    *)
(* fail, it shows at least as many writes as it has handled events, however many *)
(* events came during a fetch (useThreadData.ts:151-155).                        *)
NoLostRefresh ==
  now # 0 /\ ~Shown.pending /\ ~Shown.missed =>
    Shown.main.rev >= Shown.handled /\ Shown.rows.rev >= Shown.handled

(* What the page shows never gets older: answers of two fetches are not mixed    *)
(* up, and neither a seed nor a replayed event brings back old rows.             *)
NeverBackwards ==
  [][now # 0 /\ now' = now =>
       /\ pages[now].main.rev <= pages'[now].main.rev
       /\ pages[now].rows.rev <= pages'[now].rows.rev]_vars

(* What the code does not catch up with: a fetch or an answer that failed, a page*)
(* without tokens, and two things that are written after the page has seen the   *)
(* end and closed its socket: rows older than the end that was read, and what a  *)
(* retry writes that the page does not wait for, because it shows the task as    *)
(* over already.                                                                 *)
Expects(p) == ~Done(p) \/ p.retry
Behind(p) ==
  \/ p.missed
  \/ p.main # None /\ Expects(p) /\ ~p.info /\ ~p.asking /\ ~p.renewing
  \/ ~Expects(p) /\ (p.rows.rev < p.main.rev \/ p.main.rev < server[p.thread].late)

(* The page catches up: if the thread has ended, the page shows that end and all *)
(* that a retry it waits for wrote since, unless the user leaves it, the thread  *)
(* is re-explored or one of the above happened.                                  *)
PageCatchesUp ==
  (now # 0 /\ Source.status = "ended")
    ~> (now = 0 \/ Source.status # "ended" \/ Shown.main.rev = Source.rev \/ Behind(Shown))

(* A confirmed re-exploration is shown as soon as the branch has a row: the page *)
(* reconnects, although the thread it shows had ended.                           *)
ForkIsShown ==
  (now # 0 /\ Shown.target # 0 /\ Shown.target \in Source.versions)
    ~> (now = 0 \/ Shown.target = 0 \/ Behind(Shown))

===============================================================================
