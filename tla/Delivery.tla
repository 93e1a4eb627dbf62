------------------------------- MODULE Delivery -------------------------------
(* How an event reaches the browser: notify() of the three scopes               *)
(* (centrifugo_mq/sse_notification), the viewer flags and the acknowledgement   *)
(* lists in Redis (db/redis/session), the publish proxy, and the token stream   *)
(* of an LLM task (celery stream_core, db/redis/streams).                       *)
(*                                                                             *)
(* The browser is one user with one tab. It calls PUT and DELETE .../viewer     *)
(* without waiting for the answers, holds one subscription to its presence      *)
(* channel and one to the channel of the thread it shows, and acknowledges what *)
(* it receives. Centrifugo is external: a history per thread channel, replayed  *)
(* to a new subscriber.                                                         *)
EXTENDS Integers, Sequences, FiniteSets

CONSTANTS Threads,      \* threads of the user
          Callers,      \* pieces of code that notify: graph events, stream jobs
          ThreadOf,     \* [Callers -> Threads]
          Tasks,        \* delegated tasks; a retry sends another job for its task
          TaskOf,       \* [Callers -> Tasks]
          Scenarios,    \* bounds: threads just submitted, who notifies and who
                        \* streams, who may be paused or cancelled, how many
                        \* calls, tokens, moves, changes of a flag, faults there are
          MaxRetries,   \* publications of one call: max_retries
          BatchSize,    \* BATCH_MAX_SIZE
          CheckEvery,   \* tokens between two looks at the flags (20)
          PageSize,     \* _PAGE_SIZE
          NoThread

ASSUME DeliveryCounts ==
  /\ ThreadOf \in [Callers -> Threads] /\ TaskOf \in [Callers -> Tasks]
  /\ {MaxRetries, BatchSize, CheckEvery, PageSize} \subseteq Nat \ {0}
MaxCalls == 3           \* bound: calls of notify by one caller
ASSUME ScenariosAreCounts ==
  \A s \in Scenarios : /\ s.streams \union s.notifiers \subseteq Callers
                       /\ s.calls \in 0..MaxCalls /\ s.tokens \in Nat

VARIABLES flags,    \* [app, threads]: viewer flags in Redis
          web,      \* the browser: [open, presence, view, subs, calls]
          history,  \* [Threads -> Seq(event)]: publications of the channel
          pos,      \* [Threads -> how much of it this subscription received]
          shown,    \* calls of notify whose event the browser received
          confirmed,\* confirmedAckKeysRef
          acking,   \* [Keys -> acknowledgements on their way]
          lists,    \* [Keys -> entries of session:notify_ack]
          call,     \* [Callers -> the running call of notify]
          stops,    \* [pause, cancel]: tasks and threads with such a flag in Redis
          stream,   \* [Callers -> run_stream_core]
          log,      \* fin:llm:tokens: every entry ever added
          gone,     \* ids removed by XDEL
          scenario, left
vars == <<flags, web, history, pos, shown, confirmed, acking, lists, call, stops,
          stream, log, gone, scenario, left>>
browser == <<web, pos, shown, confirmed, acking>>
tokens == <<stops, stream, log, gone>>

Nonces == 0..MaxCalls
Keys == Callers \X Nonces
NoCall == [at |-> "idle", n |-> 0, attempt |-> 0, need |-> TRUE, alone |-> FALSE,
           steady |-> FALSE, result |-> "none"]
(* cut: the loop was left by a break; upto: how much of the stream the recovery *)
(* had before it (a history of the model).                                      *)
NoStream == [at |-> "idle", seq |-> 0, batch |-> <<>>, viewers |-> FALSE, cut |-> FALSE,
             cursor |-> 0, ids |-> {}, upto |-> 0]

\* Defect: the key names the event but not the call.
KeyWithoutNonce(c, n) == <<c, 0>>
(* ack_key: the dedup key with a nonce of this call.                            *)
Key(c, n) == <<c, n>>

Init ==
  /\ scenario \in Scenarios
  /\ web = [open |-> TRUE, presence |-> TRUE, subs |-> {}, view |-> NoThread, calls |-> {}]
  /\ flags = [app |-> scenario.submitted # {}, threads |-> scenario.submitted]
  /\ history = [t \in Threads |-> <<>>] /\ pos = [t \in Threads |-> 0]
  /\ shown = {} /\ confirmed = {}
  /\ acking = [k \in Keys |-> 0] /\ lists = acking
  /\ call = [c \in Callers |-> NoCall] /\ stream = [c \in Callers |-> NoStream]
  /\ stops = [pause |-> {}, cancel |-> {}]
  /\ log = <<>> /\ gone = {}
  /\ left = [moves |-> scenario.moves, stops |-> scenario.stops, faults |-> scenario.faults]

Spend(what) == left[what] > 0 /\ left' = [left EXCEPT ![what] = @ - 1]
Fault == Spend("faults")             \* a Redis or HTTP call fails

-------------------------------------------------------------------------------
(* The browser (frontend/src/hooks): it closes, opens, shows another thread.    *)

(* A call is steady while the tab stays subscribed to its thread and present.   *)
Watches(w, t) == w.open /\ w.presence /\ t \in w.subs
Unsteady(w) == [c \in Callers |-> [call[c] EXCEPT !.steady = @ /\ Watches(w, ThreadOf[c])]]

Moves(w) ==
  /\ web' = w /\ call' = Unsteady(w)
  /\ pos' = [t \in Threads |-> IF t \in w.subs THEN pos[t] ELSE 0]

(* Effect of useCentrifugoSse: the cleanup for the old thread sends DELETE and  *)
(* forgets the keys; the set-up for the new one sends PUT, then subscribes.     *)
ShowThread(t) ==
  /\ web.open /\ web.view # t /\ Spend("moves")
  /\ Moves([web EXCEPT !.view = t, !.subs = {},
              !.calls = @ \union ({<<"del", web.view>>, <<"put", t>>} \ {<<"del", NoThread>>, <<"put", NoThread>>})])
  /\ confirmed' = {}
  /\ UNCHANGED <<flags, history, shown, acking, lists, tokens, scenario>>
Subscribe ==
  /\ web.open /\ web.view # NoThread /\ web.view \notin web.subs
  /\ Moves([web EXCEPT !.subs = {web.view}])
  /\ UNCHANGED <<flags, history, shown, confirmed, acking, lists, tokens, scenario, left>>
(* The tab is closed, or opened again; the presence subscription follows later. *)
CloseTab ==
  /\ web.open /\ Spend("moves")
  /\ Moves([web EXCEPT !.open = FALSE, !.presence = FALSE, !.view = NoThread, !.subs = {}])
  /\ confirmed' = {} /\ acking' = [k \in Keys |-> 0]
  /\ UNCHANGED <<flags, history, shown, lists, tokens, scenario>>
OpenTab ==
  /\ ~web.open /\ Spend("moves") /\ Moves([web EXCEPT !.open = TRUE])
  /\ UNCHANGED <<flags, history, shown, confirmed, acking, lists, tokens, scenario>>
Appear ==
  /\ web.open /\ ~web.presence /\ Moves([web EXCEPT !.presence = TRUE])
  /\ UNCHANGED <<flags, history, shown, confirmed, acking, lists, tokens, scenario, left>>

(* A publication arrives: it is acknowledged unless its key was confirmed.      *)
Receive(t) ==
  /\ t \in web.subs /\ pos[t] < Len(history[t])
  /\ LET ev == history[t][pos[t] + 1] IN
       /\ pos' = [pos EXCEPT ![t] = @ + 1]
       /\ shown' = shown \union {ev.call}
       /\ acking' = IF ev.key \in confirmed THEN acking ELSE [acking EXCEPT ![ev.key] = @ + 1]
  /\ UNCHANGED <<flags, web, history, confirmed, lists, call, tokens, scenario, left>>

(* signal_notify_ack; a failed push is only logged.                             *)
Pushed(k) ==
  \/ lists' = [lists EXCEPT ![k] = @ + 1] /\ UNCHANGED left
  \/ Fault /\ UNCHANGED lists
(* The publish proxy answers like a success either way, so the browser takes    *)
(* the key for confirmed.                                                       *)
AckPublished(k) ==
  /\ acking[k] > 0
  /\ acking' = [acking EXCEPT ![k] = @ - 1]
  /\ confirmed' = IF web.view = NoThread THEN confirmed ELSE confirmed \union {k}
  /\ Pushed(k)
  /\ UNCHANGED <<flags, web, history, pos, shown, call, tokens, scenario>>

(* PUT and DELETE .../viewer, in the order they arrive.                         *)
SetViewer(t) ==
  /\ <<"put", t>> \in web.calls
  /\ web' = [web EXCEPT !.calls = @ \ {<<"put", t>>}]
  /\ \/ flags' = [app |-> TRUE, threads |-> flags.threads \union {t}] /\ UNCHANGED left
     \/ Fault /\ UNCHANGED flags
  /\ UNCHANGED <<history, pos, shown, confirmed, acking, lists, call, tokens, scenario>>
ClearViewer(t) ==
  /\ <<"del", t>> \in web.calls
  /\ web' = [web EXCEPT !.calls = @ \ {<<"del", t>>}]
  /\ \/ flags' = [app |-> FALSE, threads |-> flags.threads \ {t}] /\ UNCHANGED left
     \/ Fault /\ UNCHANGED flags
  /\ UNCHANGED <<history, pos, shown, confirmed, acking, lists, call, tokens, scenario>>
(* The flags of a submitted or recovered thread, and their expiry (_TTL).       *)
FlagThread(t) ==
  /\ flags # [app |-> TRUE, threads |-> flags.threads \union {t}] /\ Spend("moves")
  /\ flags' = [app |-> TRUE, threads |-> flags.threads \union {t}]
  /\ UNCHANGED <<browser, history, lists, call, tokens, scenario>>
FlagsExpire ==
  /\ flags # [app |-> FALSE, threads |-> {}] /\ Spend("moves")
  /\ flags' = [app |-> FALSE, threads |-> {}]
  /\ UNCHANGED <<browser, history, lists, call, tokens, scenario>>

-------------------------------------------------------------------------------
(* notify().                                                                    *)

Step(c, from, to) == call[c].at = from /\ call' = [call EXCEPT ![c].at = to]
\* The caller awaits notify and only logs the result: it never retries or fails for it.
Return(c, result) ==
  call' = [call EXCEPT ![c] = [@ EXCEPT !.at = "idle", !.result = result, !.attempt = 0]]
quiet == <<flags, browser, history, lists, tokens, scenario>>

Begin(c, need) ==
  [at |-> "app flag", n |-> call[c].n + 1, attempt |-> 0, need |-> need, alone |-> FALSE,
   steady |-> Watches(web, ThreadOf[c]), result |-> "none"]
May(c) == c \in scenario.notifiers /\ call[c].at = "idle" /\ call[c].n < scenario.calls
(* Ends of threads, failures and cancellations wait for an acknowledgement; the *)
(* progress of nodes and tasks does not (require_ack=False).                    *)
Notify(c) == May(c) /\ call' = [call EXCEPT ![c] = Begin(c, TRUE)] /\ UNCHANGED <<quiet, left>>
Inform(c) == May(c) /\ call' = [call EXCEPT ![c] = Begin(c, FALSE)] /\ UNCHANGED <<quiet, left>>

\* Defect: the flag decides alone.
AppFlagAlone(c) ==
  /\ call[c].at = "app flag"
  /\ IF flags.app THEN Step(c, "app flag", "thread flag") ELSE Return(c, "skipped")
  /\ UNCHANGED <<quiet, left>>
(* has_app_viewers: the flag, else the presence of the user; TRUE on any error. *)
(* get_user_id_for_thread: without Redis and database nobody is known.          *)
OwnerUnknown(c) == Fault /\ Step(c, "app flag", "thread flag") /\ UNCHANGED quiet
AppFlag(c) ==
  /\ call[c].at = "app flag"
  /\ \/ Step(c, "app flag", IF flags.app THEN "thread flag" ELSE "app presence") /\ UNCHANGED left
     \/ Fault /\ Step(c, "app flag", "thread flag")
  /\ UNCHANGED quiet
AppPresence(c) ==
  /\ call[c].at = "app presence"
  /\ \/ web.presence /\ Step(c, "app presence", "thread flag") /\ UNCHANGED left
     \/ ~web.presence /\ Return(c, "skipped") /\ UNCHANGED left
     \/ Fault /\ Step(c, "app presence", "thread flag")
  /\ UNCHANGED quiet

(* has_thread_viewers: the same for the thread. alone: nobody shows it.         *)
Decide(c, viewers) == call' = [call EXCEPT ![c] = [@ EXCEPT !.at = "publish", !.alone = ~viewers]]
ThreadFlag(c) ==
  /\ call[c].at = "thread flag"
  /\ \/ ThreadOf[c] \in flags.threads /\ Decide(c, TRUE) /\ UNCHANGED left
     \/ ThreadOf[c] \notin flags.threads /\ Step(c, "thread flag", "thread presence") /\ UNCHANGED left
     \/ Fault /\ Decide(c, TRUE)
  /\ UNCHANGED quiet
ThreadPresence(c) ==
  /\ call[c].at = "thread presence"
  /\ \/ Decide(c, ThreadOf[c] \in web.subs) /\ UNCHANGED left
     \/ Fault /\ Decide(c, TRUE)
  /\ UNCHANGED quiet

(* _publish_to_sse_channel: tried twice; an error is logged and the publication *)
(* is lost. Without a viewer, or for information, it is the end of the call.    *)
Event(c) == [key |-> Key(c, call[c].n), call |-> <<c, call[c].n>>]
Appended(c) == history' = [history EXCEPT ![ThreadOf[c]] = Append(@, Event(c))]
Publish(c) ==
  /\ call[c].at = "publish"
  /\ IF call[c].alone \/ ~call[c].need THEN Return(c, "sent") ELSE Step(c, "publish", "wait")
  /\ \/ Appended(c) /\ UNCHANGED left
     \/ Fault /\ UNCHANGED history
  /\ UNCHANGED <<flags, browser, lists, tokens, scenario>>

(* wait_notify_ack: BLPOP, which ends with an answer, its timeout (at least one *)
(* second, since 0 would mean none) or an error.                                *)
Answered(c) ==
  /\ call[c].at = "wait" /\ lists[Key(c, call[c].n)] > 0
  /\ lists' = [lists EXCEPT ![Key(c, call[c].n)] = @ - 1]
  /\ Return(c, "acked")
  /\ UNCHANGED <<flags, browser, history, tokens, scenario, left>>
\* Defect: a timeout below one second is truncated to 0, which is none.
WaitsForEver(c) ==
  /\ call[c].at = "wait" /\ Fault /\ Step(c, "wait", "give up")
  /\ UNCHANGED quiet
TimesOut(c) ==
  /\ call[c].at = "wait"
  /\ \/ lists[Key(c, call[c].n)] = 0 /\ UNCHANGED left
     \/ Fault
  /\ call' = [call EXCEPT ![c] = [@ EXCEPT !.attempt = call[c].attempt + 1,
       !.at = IF call[c].attempt + 1 < MaxRetries THEN "publish" ELSE "give up"]]
  /\ UNCHANGED quiet
(* notification_failed (thread, node) or task_status failed (task).             *)
GiveUp(c) ==
  /\ call[c].at = "give up" /\ Return(c, "exhausted")
  /\ \/ Appended(c) /\ UNCHANGED left
     \/ Fault /\ UNCHANGED history
  /\ UNCHANGED <<flags, browser, lists, tokens, scenario>>

NotifyStep(c) ==
  \/ OwnerUnknown(c) \/ AppFlag(c) \/ AppPresence(c) \/ ThreadFlag(c) \/ ThreadPresence(c)
  \/ Publish(c) \/ Answered(c) \/ TimesOut(c) \/ GiveUp(c)

-------------------------------------------------------------------------------
(* run_stream_core: stream_start, then the tokens.                              *)

Entry(c, id, seq) == [id |-> id, task |-> TaskOf[c], seq |-> seq, job |-> c]
Added(c, seqs) == log' = log \o [i \in 1..Len(seqs) |-> Entry(c, Len(log) + i, seqs[i])]
Live == {i \in 1..Len(log) : i \notin gone}
others == <<flags, browser, history, lists, call, scenario>>
rest == <<others, stops>>
Goto(c, r) == stream' = [stream EXCEPT ![c] = r]

(* Pausing a task and cancelling a thread set a flag; a retry, the end of the   *)
(* paused run or of the thread, and the time-to-live take it away.              *)
Raise(flag, x) ==
  /\ x \in scenario.stoppable \ stops[flag] /\ Spend("stops")
  /\ stops' = [stops EXCEPT ![flag] = @ \union {x}]
  /\ UNCHANGED <<others, stream, log, gone>>
Lower(flag, x) ==
  /\ x \in stops[flag] /\ Spend("stops")
  /\ stops' = [stops EXCEPT ![flag] = @ \ {x}]
  /\ UNCHANGED <<others, stream, log, gone>>
Paused(c) == TaskOf[c] \in stops.pause
Cancelled(c) == ThreadOf[c] \in stops.cancel

(* A job streams once; other jobs of its task, sent before or by a retry, may   *)
(* stream at the same time.                                                     *)
StartStream(c) ==
  /\ c \in scenario.streams /\ stream[c].at = "idle"
  /\ call[c].at = "idle" /\ call[c].n < scenario.calls
  /\ call' = [call EXCEPT ![c] = Begin(c, TRUE)]
  /\ Goto(c, [NoStream EXCEPT !.at = "start"])
  /\ UNCHANGED <<flags, browser, history, lists, stops, log, gone, scenario, left>>
(* The viewers are looked up again, whatever the call returned, here in one     *)
(* step: TRUE where has_app_viewers and has_thread_viewers both say so.         *)
LookUp(c) ==
  /\ stream[c].at = "start" /\ call[c].at = "idle"
  /\ \E viewers \in BOOLEAN :
       /\ \/ /\ viewers = /\ flags.app \/ web.presence
                          /\ ThreadOf[c] \in flags.threads \union web.subs
             /\ UNCHANGED left
          \/ viewers /\ Fault
       /\ Goto(c, [stream[c] EXCEPT !.at = "tokens", !.viewers = viewers])
  /\ UNCHANGED <<rest, log, gone>>

(* A token is kept in the batch when there are viewers; the batch leaves when   *)
(* it is full, or old.                                                          *)
Keep(c, s) ==
  LET batch == IF s.viewers THEN Append(s.batch, s.seq) ELSE <<>> IN
  \/ /\ Len(batch) < BatchSize
     /\ Goto(c, [s EXCEPT !.at = "tokens", !.batch = batch]) /\ UNCHANGED log
  \/ /\ batch # <<>> /\ Added(c, batch)
     /\ Goto(c, [s EXCEPT !.at = "tokens", !.batch = <<>>])
(* The next token; every CheckEvery tokens the two flags are read first, and    *)
(* one that is set ends the loop with the token counted but not kept.           *)
Token(c) ==
  LET s == stream[c]
      next == [s EXCEPT !.seq = @ + 1]
  IN /\ s.at = "tokens" /\ s.seq < scenario.tokens
     /\ IF next.seq % CheckEvery = 0
          THEN Goto(c, [next EXCEPT !.at = "cancel flag"]) /\ UNCHANGED log
          ELSE Keep(c, next)
     /\ UNCHANGED <<rest, gone, left>>
Break(c) == Goto(c, [stream[c] EXCEPT !.at = "flush", !.cut = TRUE]) /\ UNCHANGED log
CheckCancel(c) ==
  /\ stream[c].at = "cancel flag"
  /\ IF Cancelled(c) THEN Break(c)
     ELSE Goto(c, [stream[c] EXCEPT !.at = "pause flag"]) /\ UNCHANGED log
  /\ UNCHANGED <<rest, gone, left>>
CheckPause(c) ==
  /\ stream[c].at = "pause flag"
  /\ IF Paused(c) THEN Break(c) ELSE Keep(c, stream[c])
  /\ UNCHANGED <<rest, gone, left>>
LastToken(c) ==
  /\ stream[c].at = "tokens" /\ stream[c].seq = scenario.tokens
  /\ Goto(c, [stream[c] EXCEPT !.at = "flush"])
  /\ UNCHANGED <<rest, log, gone, left>>

(* After the loop: the rest of the batch, then both flags are read again, and   *)
(* only they decide, not how the loop ended: a loop that ran to its end returns *)
(* paused or raises when a flag came late, and one that was cut goes on as if   *)
(* it were complete when its flag is gone.                                      *)
\* Defect: the last, incomplete batch is dropped.
FlushNothing(c) ==
  /\ stream[c].at = "flush"
  /\ Goto(c, [stream[c] EXCEPT !.batch = <<>>, !.at = "pause again"])
  /\ UNCHANGED <<rest, log, gone, left>>
FlushRest(c) ==
  /\ stream[c].at = "flush"
  /\ Added(c, stream[c].batch)
  /\ Goto(c, [stream[c] EXCEPT !.batch = <<>>, !.at = "pause again"])
  /\ UNCHANGED <<rest, gone, left>>
PauseAgain(c) ==
  /\ stream[c].at = "pause again"
  /\ Goto(c, [stream[c] EXCEPT !.at = IF Paused(c) THEN "paused" ELSE "cancel again"])
  /\ UNCHANGED <<rest, log, gone, left>>
(* Without viewers the answer is stored and nothing else happens.               *)
CancelAgain(c) ==
  LET s == stream[c] IN
  /\ s.at = "cancel again"
  /\ Goto(c, [s EXCEPT !.at = IF Cancelled(c) THEN "cancelled"
                              ELSE IF s.viewers THEN "recover" ELSE "completed"])
  /\ UNCHANGED <<rest, log, gone, left>>

(* recover_task_tokens: pages of the whole stream, the ids of this task.        *)
Page(from) ==
  LET after == {i \in Live : i > from}
  IN {i \in after : Cardinality({j \in after : j <= i}) <= PageSize}
Mine(c, page) == {i \in page : log[i].task = TaskOf[c]}
\* Defect: the first page is taken for the whole stream.
RecoverFirstPage(c) ==
  LET s == stream[c]
  IN /\ s.at = "recover"
     /\ Goto(c, [s EXCEPT !.ids = @ \union Mine(c, Page(s.cursor)), !.upto = Len(log), !.at = "end"])
     /\ UNCHANGED <<rest, log, gone, left>>
Recover(c) ==
  LET s == stream[c]
      page == Page(s.cursor)
  IN /\ s.at = "recover"
     /\ Goto(c, [s EXCEPT !.ids = @ \union Mine(c, page),
                   !.cursor = IF page = {} THEN @ ELSE CHOOSE i \in page : \A j \in page : j <= i,
                   !.upto = Len(log),
                   !.at = IF Cardinality(page) < PageSize THEN "end" ELSE "recover"])
     /\ UNCHANGED <<rest, log, gone, left>>
(* The answer is stored, then stream_end is added, then the ids are removed.    *)
End(c) ==
  /\ stream[c].at = "end"
  /\ log' = Append(log, Entry(c, Len(log) + 1, 0))
  /\ Goto(c, [stream[c] EXCEPT !.at = "delete"])
  /\ UNCHANGED <<rest, gone, left>>
Delete(c) ==
  /\ stream[c].at = "delete"
  /\ gone' = gone \union stream[c].ids
  /\ Goto(c, [stream[c] EXCEPT !.at = "completed"])
  /\ UNCHANGED <<rest, log, left>>
(* Redis or the database fails: the exception ends the job.                     *)
StreamFails(c) ==
  /\ stream[c].at \notin {"idle", "start", "completed", "paused", "cancelled", "failed"} /\ Fault
  /\ Goto(c, [stream[c] EXCEPT !.at = "failed"])
  /\ UNCHANGED <<rest, log, gone>>

StreamStep(c) ==
  \/ LookUp(c) \/ Token(c) \/ CheckCancel(c) \/ CheckPause(c) \/ LastToken(c) \/ FlushRest(c)
  \/ PauseAgain(c) \/ CancelAgain(c) \/ Recover(c) \/ End(c) \/ Delete(c)
-------------------------------------------------------------------------------
Next ==
  \/ \E t \in Threads \union {NoThread} : ShowThread(t)
  \/ Subscribe \/ CloseTab \/ OpenTab \/ Appear
  \/ \E t \in Threads : Receive(t) \/ SetViewer(t) \/ ClearViewer(t) \/ FlagThread(t)
  \/ FlagsExpire
  \/ \E k \in Keys : AckPublished(k)
  \/ \E c \in Callers : Notify(c) \/ Inform(c) \/ NotifyStep(c) \/ StartStream(c) \/ StreamStep(c) \/ StreamFails(c)
  \/ \E k \in Tasks : Raise("pause", k) \/ Lower("pause", k)
  \/ \E t \in Threads : Raise("cancel", t) \/ Lower("cancel", t)

Spec == Init /\ [][Next]_vars
(* The event loop goes on with every call that is not waiting for ever: BLPOP   *)
(* ends with its timeout.                                                       *)
FairSpec == Spec /\ \A c \in Callers : WF_vars(NotifyStep(c)) /\ WF_vars(StreamStep(c))

-------------------------------------------------------------------------------

(* A call of notify that returns TRUE for an acknowledgement was seen: the      *)
(* browser received the event of this very call. A late or repeated answer to   *)
(* an earlier call with the same dedup_key (a resume, a second try) must not    *)
(* confirm it.                                                                  *)
AckedWasShown ==
  \A c \in Callers : call[c].result = "acked" => <<c, call[c].n>> \in shown

(* Whoever shows a thread gets its events: a call that skips the publication    *)
(* ("the browser is closed") never overlapped entirely with a tab that was      *)
(* present and subscribed to the thread, although leaving another thread clears *)
(* the flag of the whole application and PUT and DELETE arrive in any order.    *)
WatcherIsServed ==
  \A c \in Callers : call[c].result = "skipped" => ~call[c].steady

(* The stream keeps the promises of TokenStream, whoever else writes and        *)
(* whatever sets and clears the flags: a job adds each token once and in order; *)
(* its end follows all tokens of a complete answer or, when a flag cut its loop *)
(* and was gone afterwards, all tokens before the cut; and the recovery removes *)
(* only behind that end, page by page read, only entries of the task.           *)
Stream == INSTANCE TokenStream WITH
  Jobs <- Callers, length <- scenario.tokens,
  limit <- [c \in Callers |-> IF stream[c].cut THEN stream[c].seq - 1 ELSE scenario.tokens]
ImplementsTokenStream == Stream!Spec

(* A stream that completed before a viewer leaves nothing in Redis of what its  *)
(* task had added when the recovery read its last page: none of its own tokens, *)
(* none of an earlier job that was paused or failed.                            *)
NothingLeft ==
  \A c \in Callers : stream[c].at = "completed" /\ stream[c].viewers =>
    \A i \in Live : log[i].task = TaskOf[c] => i > stream[c].upto

(* Every call of notify returns.                                                *)
CallsEnd == \A c \in Callers : call[c].at # "idle" ~> call[c].at = "idle"

===============================================================================
