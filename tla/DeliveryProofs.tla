---------------------------- MODULE DeliveryProofs ----------------------------
(* Proofs about Delivery, for any browser, any number of threads, callers,       *)
(* streams, retries and tokens. They assume only what Delivery assumes of its    *)
(* constants. The typing is split by what the actions change together: the       *)
(* publications and the calls of notify, and the token streams.                  *)
EXTENDS Delivery, SequenceTheorems, FiniteSetTheorems, WellFoundedInduction, TLAPS

Events == {[key |-> k, call |-> k] : k \in Callers \X Nat}
CallAt == {"idle", "app flag", "app presence", "thread flag", "thread presence",
           "publish", "wait", "give up"}
Results == {"none", "acked", "skipped", "sent", "exhausted"}
Calls == [at : CallAt, n : Nat, attempt : Nat, need : BOOLEAN, alone : BOOLEAN,
          steady : BOOLEAN, result : Results]
Webs == [open : BOOLEAN, presence : BOOLEAN, view : Threads \union {NoThread},
         subs : SUBSET Threads, calls : SUBSET ({"put", "del"} \X (Threads \union {NoThread}))]

(* What a call of notify works on has its type: an event carries the key of the  *)
(* call that published it, and no caller begins more calls than its scenario has.*)
CallTypes ==
  /\ scenario \in Scenarios
  /\ web \in Webs
  /\ history \in [Threads -> Seq(Events)]
  /\ pos \in [Threads -> Nat]
  /\ acking \in [Keys -> Nat] /\ lists \in [Keys -> Nat]
  /\ call \in [Callers -> Calls]
  /\ \A c \in Callers : call[c].n <= scenario.calls

-------------------------------------------------------------------------------
(* The steps of a call.                                                          *)

(* What a step of notify may do to the calls: their numbers and their steadiness *)
(* stay, and who becomes acknowledged or skipped has a reason.                   *)
CallsGoOn ==
  /\ call' \in [Callers -> Calls]
  /\ \A d \in Callers :
       /\ call'[d].n = call[d].n /\ call'[d].steady = call[d].steady
       /\ call'[d].result = "acked" =>
            call[d].result = "acked" \/ lists[Key(d, call[d].n)] > 0
       /\ call'[d].result = "skipped" => call[d].result = "skipped" \/ ~web.presence

\* All that matters is what becomes of the record of the one call.
LEMMA OneCallGoesOn ==
  ASSUME CallTypes, NEW c \in Callers, NEW r \in Calls, call' = [call EXCEPT ![c] = r],
         r.n = call[c].n, r.steady = call[c].steady,
         r.result = "acked" => call[c].result = "acked" \/ lists[Key(c, call[c].n)] > 0,
         r.result = "skipped" => call[c].result = "skipped" \/ ~web.presence
  PROVE  CallsGoOn
<1>1. call \in [Callers -> Calls] BY DEF CallTypes
<1>2. call' \in [Callers -> Calls] BY <1>1
<1>3. \A d \in Callers : call'[d] = IF d = c THEN r ELSE call[d] BY <1>1
<1> QED BY <1>2, <1>3 DEF CallsGoOn

\* A step to another place of notify changes nothing else of the call.
LEMMA StepKeeps ==
  ASSUME CallTypes, NEW c \in Callers, NEW to \in CallAt, NEW from, Step(c, from, to)
  PROVE  CallsGoOn
<1> DEFINE r == [call[c] EXCEPT !.at = to]
<1>1. call[c] \in Calls /\ call \in [Callers -> Calls] BY DEF CallTypes
<1>2. call' = [call EXCEPT ![c] = r] BY DEF Step
<1>3. r \in Calls /\ r.n = call[c].n /\ r.steady = call[c].steady /\ r.result = call[c].result
  BY <1>1 DEF Calls
<1> HIDE DEF r
<1> QED BY <1>2, <1>3, OneCallGoesOn

\* A call returns what it says.
LEMMA ReturnKeeps ==
  ASSUME CallTypes, NEW c \in Callers, NEW r \in Results, Return(c, r),
         r = "acked" => lists[Key(c, call[c].n)] > 0, r = "skipped" => ~web.presence
  PROVE  CallsGoOn
<1> DEFINE s == [call[c] EXCEPT !.at = "idle", !.result = r, !.attempt = 0]
<1>1. call[c] \in Calls BY DEF CallTypes
<1>2. call' = [call EXCEPT ![c] = s] BY DEF Return
<1>3. s \in Calls /\ s.n = call[c].n /\ s.steady = call[c].steady /\ s.result = r
  BY <1>1 DEF Calls, CallAt
<1> HIDE DEF s
<1> QED BY <1>2, <1>3, OneCallGoesOn

\* So does the decision whether somebody shows the thread.
LEMMA DecideKeeps ==
  ASSUME CallTypes, NEW c \in Callers, NEW v \in BOOLEAN, Decide(c, v)
  PROVE  CallsGoOn
<1> DEFINE r == [call[c] EXCEPT !.at = "publish", !.alone = ~v]
<1>1. call[c] \in Calls BY DEF CallTypes
<1>2. call' = [call EXCEPT ![c] = r] BY DEF Decide
<1>3. r \in Calls /\ r.n = call[c].n /\ r.steady = call[c].steady /\ r.result = call[c].result
  BY <1>1 DEF Calls, CallAt
<1> HIDE DEF r
<1> QED BY <1>2, <1>3, OneCallGoesOn

\* The key of the running call is one of the keys.
LEMMA KeyOfCall ==
  ASSUME CallTypes, NEW c \in Callers
  PROVE  Key(c, call[c].n) \in Keys /\ Key(c, call[c].n) \in Callers \X Nat
<1>1. scenario.calls \in 0..3 BY ScenariosAreCounts DEF CallTypes, MaxCalls
<1>2. call[c].n \in Nat /\ call[c].n <= scenario.calls BY DEF CallTypes, Calls
<1>3. call[c].n \in 0..3 BY <1>1, <1>2
<1> QED BY <1>2, <1>3 DEF Key, Keys, Nonces, MaxCalls

\* A publication is an event with the key of its call.
LEMMA AppendedIsEvent ==
  ASSUME CallTypes, NEW c \in Callers, Appended(c)
  PROVE  history' \in [Threads -> Seq(Events)]
<1>1. ThreadOf[c] \in Threads BY DeliveryCounts
<1>2. Event(c) \in Events BY KeyOfCall DEF Event, Events, Key
<1>3. Append(history[ThreadOf[c]], Event(c)) \in Seq(Events)
  BY <1>1, <1>2, AppendProperties DEF CallTypes
<1> QED BY <1>1, <1>3 DEF CallTypes, Appended

\* Most steps of notify touch nothing but the call.
LEMMA QuietStays ==
  ASSUME CallTypes, UNCHANGED quiet
  PROVE  /\ history' \in [Threads -> Seq(Events)]
         /\ lists' \in [Keys -> Nat] /\ \A k \in Keys : lists'[k] <= lists[k]
         /\ UNCHANGED <<scenario, web, pos, acking, shown, stream, log, gone>>
<1>1. /\ history \in [Threads -> Seq(Events)] /\ lists \in [Keys -> Nat]
  BY DEF CallTypes
<1>2. history' = history /\ lists' = lists BY DEF quiet
<1>3. lists' \in [Keys -> Nat] /\ \A k \in Keys : lists'[k] <= lists[k] BY <1>1, <1>2
<1> QED BY <1>1, <1>2, <1>3 DEF quiet, browser, tokens

\* Publications change the history besides.
LEMMA PublicationStays ==
  ASSUME CallTypes, NEW c \in Callers, UNCHANGED <<flags, browser, lists, tokens, scenario>>,
         Appended(c) \/ UNCHANGED history
  PROVE  /\ history' \in [Threads -> Seq(Events)]
         /\ lists' \in [Keys -> Nat] /\ \A k \in Keys : lists'[k] <= lists[k]
         /\ UNCHANGED <<scenario, web, pos, acking, shown, stream, log, gone>>
<1>1. /\ history \in [Threads -> Seq(Events)] /\ lists \in [Keys -> Nat]
  BY DEF CallTypes
<1>2. history' \in [Threads -> Seq(Events)] BY <1>1, AppendedIsEvent
<1>3. lists' \in [Keys -> Nat] /\ \A k \in Keys : lists'[k] <= lists[k] BY <1>1
<1> QED BY <1>1, <1>2, <1>3 DEF browser, tokens

\* A step of notify.
LEMMA NotifyKeeps ==
  ASSUME CallTypes, NEW c \in Callers, NotifyStep(c)
  PROVE  /\ CallsGoOn
         /\ history' \in [Threads -> Seq(Events)]
         /\ lists' \in [Keys -> Nat] /\ \A k \in Keys : lists'[k] <= lists[k]
         /\ UNCHANGED <<scenario, web, pos, acking, shown, stream, log, gone>>
<1>1. CASE OwnerUnknown(c)
  <2>1. Step(c, "app flag", "thread flag") /\ UNCHANGED quiet BY <1>1 DEF OwnerUnknown
  <2>2. "thread flag" \in CallAt BY DEF CallAt
  <2> QED BY <2>1, <2>2, StepKeeps, QuietStays
<1>2. CASE AppFlag(c)
  <2>1. CallsGoOn BY <1>2, StepKeeps DEF AppFlag, CallAt
  <2>2. UNCHANGED quiet BY <1>2 DEF AppFlag
  <2> QED BY <2>1, <2>2, QuietStays
<1>3. CASE AppPresence(c)
  <2>1. CallsGoOn BY <1>3, StepKeeps, ReturnKeeps DEF AppPresence, CallAt, Results
  <2>2. UNCHANGED quiet BY <1>3 DEF AppPresence
  <2> QED BY <2>1, <2>2, QuietStays
<1>4. CASE ThreadFlag(c)
  <2>1. CallsGoOn BY <1>4, StepKeeps, DecideKeeps DEF ThreadFlag, CallAt
  <2>2. UNCHANGED quiet BY <1>4 DEF ThreadFlag
  <2> QED BY <2>1, <2>2, QuietStays
<1>5. CASE ThreadPresence(c)
  <2>1. (ThreadOf[c] \in web.subs) \in BOOLEAN OBVIOUS
  <2>2. Decide(c, ThreadOf[c] \in web.subs) \/ Decide(c, TRUE)
    BY <1>5 DEF ThreadPresence
  <2>3. CallsGoOn BY <2>1, <2>2, DecideKeeps
  <2>4. UNCHANGED quiet BY <1>5 DEF ThreadPresence
  <2> QED BY <2>3, <2>4, QuietStays
<1>6. CASE Publish(c)
  <2>1. CallsGoOn BY <1>6, StepKeeps, ReturnKeeps DEF Publish, CallAt, Results
  <2>2. /\ UNCHANGED <<flags, browser, lists, tokens, scenario>>
        /\ Appended(c) \/ UNCHANGED history
    BY <1>6 DEF Publish
  <2> QED BY <2>1, <2>2, PublicationStays
<1>7. CASE Answered(c)
  <2>1. CallsGoOn BY <1>7, ReturnKeeps DEF Answered, Results
  <2>2. lists \in [Keys -> Nat] BY DEF CallTypes
  <2>3. lists[Key(c, call[c].n)] > 0
        /\ lists' = [lists EXCEPT ![Key(c, call[c].n)] = @ - 1]
    BY <1>7 DEF Answered
  <2>4. lists' \in [Keys -> Nat] /\ \A k \in Keys : lists'[k] <= lists[k]
    BY <2>2, <2>3, KeyOfCall
  <2>5. /\ history' = history /\ UNCHANGED <<scenario, web, pos, acking, shown, stream, log, gone>>
    BY <1>7 DEF Answered, browser, tokens
  <2> QED BY <2>1, <2>4, <2>5 DEF CallTypes
<1>8. CASE TimesOut(c)
  <2>1. CallsGoOn
    <3> DEFINE n == call[c].attempt + 1
               to == IF n < MaxRetries THEN "publish" ELSE "give up"
               r == [call[c] EXCEPT !.attempt = n, !.at = to]
    <3>1. call[c] \in Calls /\ n \in Nat BY DEF CallTypes, Calls
    <3>2. to \in CallAt BY DEF CallAt
    <3>3. call' = [call EXCEPT ![c] = r] BY <1>8 DEF TimesOut
    <3> HIDE DEF n, to
    <3>4. r \in Calls BY <3>1, <3>2 DEF Calls
    <3>5. r.n = call[c].n /\ r.steady = call[c].steady /\ r.result = call[c].result
      BY <3>1 DEF Calls
    <3> HIDE DEF r
    <3> QED BY <3>3, <3>4, <3>5 DEF CallTypes, CallsGoOn
  <2>2. UNCHANGED quiet BY <1>8 DEF TimesOut
  <2> QED BY <2>1, <2>2, QuietStays
<1>9. CASE GiveUp(c)
  <2>1. CallsGoOn BY <1>9, ReturnKeeps DEF GiveUp, Results
  <2>2. /\ UNCHANGED <<flags, browser, lists, tokens, scenario>>
        /\ Appended(c) \/ UNCHANGED history
    BY <1>9 DEF GiveUp
  <2> QED BY <2>1, <2>2, PublicationStays
<1> QED BY <1>1, <1>2, <1>3, <1>4, <1>5, <1>6, <1>7, <1>8, <1>9 DEF NotifyStep

-------------------------------------------------------------------------------
(* What is acknowledged was seen, and who is watched is served.                  *)

(* An acknowledgement, on its way or in its list, is for a call whose event the  *)
(* browser received: so none can be left over for a later call with another key. *)
AcksFollowReceipt ==
  \A k \in Keys : acking[k] > 0 \/ lists[k] > 0 => k \in shown

(* A call that is still steady is watched now.                                   *)
SteadyIsWatched ==
  \A c \in Callers : call[c].steady => Watches(web, ThreadOf[c])

CallInv ==
  /\ CallTypes
  /\ AcksFollowReceipt /\ AckedWasShown
  /\ SteadyIsWatched /\ WatcherIsServed

\* The calls of notify have not begun.
LEMMA CallInvInit == Init => CallInv
<1> SUFFICES ASSUME Init PROVE CallInv OBVIOUS
<1>1. NoCall \in Calls BY DEF NoCall, Calls, CallAt, Results
<1>2. /\ scenario \in Scenarios /\ call = [c \in Callers |-> NoCall]
      /\ history = [t \in Threads |-> <<>>] /\ pos = [t \in Threads |-> 0]
      /\ acking = [k \in Keys |-> 0] /\ lists = acking
  BY DEF Init
<1>3. web \in Webs BY DEF Init, Webs
<1>4. \A c \in Callers : call[c].n <= scenario.calls
  BY <1>2, ScenariosAreCounts DEF NoCall, MaxCalls
<1>5. history \in [Threads -> Seq(Events)] BY <1>2, EmptySeq
<1>6. CallTypes BY <1>1, <1>2, <1>3, <1>4, <1>5 DEF CallTypes
<1>7. AcksFollowReceipt BY <1>2 DEF AcksFollowReceipt
<1>8. AckedWasShown /\ SteadyIsWatched /\ WatcherIsServed
  BY <1>2 DEF AckedWasShown, SteadyIsWatched, WatcherIsServed, NoCall
<1> QED BY <1>6, <1>7, <1>8 DEF CallInv

\* Acknowledgements never outrun the reception of the event.
LEMMA NotifyPreserves ==
  ASSUME CallInv, NEW c \in Callers, NotifyStep(c)
  PROVE  CallInv'
<1>1. CallTypes BY DEF CallInv
<1>2. /\ CallsGoOn
      /\ history' \in [Threads -> Seq(Events)]
      /\ lists' \in [Keys -> Nat] /\ \A k \in Keys : lists'[k] <= lists[k]
      /\ UNCHANGED <<scenario, web, pos, acking, shown>>
  BY <1>1, NotifyKeeps
<1>3. CallTypes' BY <1>1, <1>2 DEF CallTypes, CallsGoOn
<1>4. AcksFollowReceipt' BY <1>1, <1>2 DEF CallInv, AcksFollowReceipt, CallTypes
<1>5. AckedWasShown'
  <2> SUFFICES ASSUME NEW d \in Callers, call'[d].result = "acked"
               PROVE  <<d, call'[d].n>> \in shown'
    BY DEF AckedWasShown
  <2>1. call'[d].n = call[d].n /\ shown' = shown BY <1>2 DEF CallsGoOn
  <2>2. CASE call[d].result = "acked" BY <2>1, <2>2 DEF CallInv, AckedWasShown
  <2>3. CASE lists[Key(d, call[d].n)] > 0
    <3>1. Key(d, call[d].n) \in shown
      BY <2>3, <1>1, KeyOfCall DEF CallInv, AcksFollowReceipt
    <3> QED BY <3>1, <2>1 DEF Key
  <2> QED BY <1>2, <2>2, <2>3 DEF CallsGoOn
<1>6. SteadyIsWatched' BY <1>2 DEF CallInv, CallsGoOn, SteadyIsWatched, Watches
<1>7. WatcherIsServed'
  <2> SUFFICES ASSUME NEW d \in Callers, call'[d].result = "skipped", call'[d].steady
               PROVE  FALSE
    BY DEF WatcherIsServed
  <2>1. call[d].steady BY <1>2 DEF CallsGoOn
  <2>2. web.presence BY <2>1 DEF CallInv, SteadyIsWatched, Watches
  <2> QED BY <1>2, <2>1, <2>2 DEF CallsGoOn, CallInv, WatcherIsServed
<1> QED BY <1>3, <1>4, <1>5, <1>6, <1>7 DEF CallInv

\* The browser moves: what was steady and is no longer watched loses its steadiness.
LEMMA MovesPreserve ==
  ASSUME CallInv, NEW w \in Webs, Moves(w),
         acking' \in [Keys -> Nat], \A k \in Keys : acking'[k] <= acking[k],
         UNCHANGED <<history, shown, lists, scenario>>
  PROVE  CallInv'
<1>1. CallTypes BY DEF CallInv
<1>2. /\ web' = w
      /\ pos' = [t \in Threads |-> IF t \in w.subs THEN pos[t] ELSE 0]
      /\ call' = [c \in Callers |-> [call[c] EXCEPT !.steady = @ /\ Watches(w, ThreadOf[c])]]
  BY DEF Moves, Unsteady
<1>3. ASSUME NEW c \in Callers
      PROVE  /\ call'[c] \in Calls
             /\ call'[c].n = call[c].n /\ call'[c].result = call[c].result
             /\ call'[c].steady => call[c].steady /\ Watches(w, ThreadOf[c])
  <2>1. call[c] \in Calls BY <1>1 DEF CallTypes
  <2>2. call'[c] = [call[c] EXCEPT !.steady = @ /\ Watches(w, ThreadOf[c])] BY <1>2
  <2>3. (call[c].steady /\ Watches(w, ThreadOf[c])) \in BOOLEAN BY DEF Watches
  <2> QED BY <2>1, <2>2, <2>3 DEF Calls
<1>4. call' \in [Callers -> Calls] BY <1>2, <1>3
<1>5. pos' \in [Threads -> Nat] BY <1>1, <1>2 DEF CallTypes
<1>6. CallTypes' BY <1>1, <1>2, <1>3, <1>4, <1>5 DEF CallTypes
<1>7. AcksFollowReceipt' BY <1>1 DEF CallInv, AcksFollowReceipt, CallTypes
<1>8. AckedWasShown' BY <1>3 DEF CallInv, AckedWasShown
<1>9. SteadyIsWatched' BY <1>2, <1>3 DEF SteadyIsWatched
<1>10. WatcherIsServed' BY <1>3 DEF CallInv, WatcherIsServed
<1> QED BY <1>6, <1>7, <1>8, <1>9, <1>10 DEF CallInv

\* Everything the browser does by itself.
LEMMA BrowserPreserves ==
  ASSUME CallInv,
         \/ \E t \in Threads \union {NoThread} : ShowThread(t)
         \/ Subscribe \/ CloseTab \/ OpenTab \/ Appear
  PROVE  CallInv'
<1>1. /\ web \in Webs /\ acking \in [Keys -> Nat] BY DEF CallInv, CallTypes
<1>2. ASSUME acking' = acking PROVE acking' \in [Keys -> Nat] /\ \A k \in Keys : acking'[k] <= acking[k]
  BY <1>1, <1>2
<1>3. ASSUME NEW t \in Threads \union {NoThread}, ShowThread(t) PROVE CallInv'
  <2> DEFINE asked == {<<"del", web.view>>, <<"put", t>>} \ {<<"del", NoThread>>, <<"put", NoThread>>}
             w == [web EXCEPT !.view = t, !.subs = {}, !.calls = @ \union asked]
  <2>1. asked \in SUBSET ({"put", "del"} \X (Threads \union {NoThread})) BY <1>1 DEF Webs
  <2> HIDE DEF asked
  <2>2. w \in Webs BY <1>1, <2>1 DEF Webs
  <2>3. Moves(w) /\ UNCHANGED <<history, shown, acking, lists, scenario>>
    BY <1>3 DEF ShowThread, asked
  <2> HIDE DEF w
  <2> QED BY <2>2, <2>3, <1>2, MovesPreserve
<1>4. CASE Subscribe
  <2>1. [web EXCEPT !.subs = {web.view}] \in Webs BY <1>1, <1>4 DEF Webs, Subscribe
  <2> QED BY <2>1, <1>2, <1>4, MovesPreserve DEF Subscribe
<1>5. CASE CloseTab
  <2> DEFINE w == [web EXCEPT !.open = FALSE, !.presence = FALSE, !.view = NoThread, !.subs = {}]
  <2>1. w \in Webs BY <1>1 DEF Webs
  <2>2. Moves(w) /\ acking' = [k \in Keys |-> 0] /\ UNCHANGED <<history, shown, lists, scenario>>
    BY <1>5 DEF CloseTab
  <2>3. acking' \in [Keys -> Nat] /\ \A k \in Keys : acking'[k] <= acking[k] BY <1>1, <2>2
  <2> HIDE DEF w
  <2> QED BY <2>1, <2>2, <2>3, MovesPreserve
<1>6. CASE OpenTab
  <2>1. [web EXCEPT !.open = TRUE] \in Webs BY <1>1 DEF Webs
  <2> QED BY <2>1, <1>2, <1>6, MovesPreserve DEF OpenTab
<1>7. CASE Appear
  <2>1. [web EXCEPT !.presence = TRUE] \in Webs BY <1>1 DEF Webs
  <2> QED BY <2>1, <1>2, <1>7, MovesPreserve DEF Appear
<1> QED BY <1>3, <1>4, <1>5, <1>6, <1>7

\* Reception acknowledges the event of a call that is shown from then on.
LEMMA ReceivePreserves ==
  ASSUME CallInv, NEW t \in Threads, Receive(t)
  PROVE  CallInv'
<1>1. CallTypes BY DEF CallInv
<1>2. web.subs \in SUBSET Threads /\ pos[t] \in Nat /\ history[t] \in Seq(Events)
  BY <1>1 DEF CallTypes, Webs
<1> DEFINE ev == history[t][pos[t] + 1]
<1>3. ev \in Events
  <2>1. pos[t] + 1 \in 1..Len(history[t]) BY <1>2, LenProperties DEF Receive
  <2> QED BY <2>1, <1>2, ElementOfSeq
<1>4. /\ pos' = [pos EXCEPT ![t] = @ + 1]
      /\ shown' = shown \union {ev.call}
      /\ acking' = acking \/ acking' = [acking EXCEPT ![ev.key] = @ + 1]
      /\ UNCHANGED <<web, history, lists, call, scenario>>
  BY DEF Receive
<1> HIDE DEF ev
<1>5. ev.key = ev.call
  <2>1. PICK k \in Callers \X Nat : ev = [key |-> k, call |-> k] BY <1>3 DEF Events
  <2> QED BY <2>1
<1>6. acking' \in [Keys -> Nat] /\ \A k \in Keys : acking'[k] > 0 => acking[k] > 0 \/ k = ev.key
  BY <1>1, <1>4 DEF CallTypes
<1>7. pos' \in [Threads -> Nat] BY <1>1, <1>4 DEF CallTypes
<1>8. CallTypes' BY <1>1, <1>4, <1>6, <1>7 DEF CallTypes
<1>9. AcksFollowReceipt' BY <1>4, <1>5, <1>6 DEF CallInv, AcksFollowReceipt
<1>10. AckedWasShown' BY <1>4 DEF CallInv, AckedWasShown
<1>11. SteadyIsWatched' /\ WatcherIsServed'
  BY <1>4 DEF CallInv, SteadyIsWatched, WatcherIsServed, Watches
<1> QED BY <1>8, <1>9, <1>10, <1>11 DEF CallInv

\* An acknowledgement that arrives moves to the list of its key, or is lost.
LEMMA AckPreserves ==
  ASSUME CallInv, NEW k \in Keys, AckPublished(k)
  PROVE  CallInv'
<1>1. CallTypes BY DEF CallInv
<1>2. /\ acking[k] > 0 /\ acking' = [acking EXCEPT ![k] = @ - 1]
      /\ lists' = [lists EXCEPT ![k] = @ + 1] \/ lists' = lists
      /\ UNCHANGED <<web, history, pos, shown, call, scenario>>
  BY DEF AckPublished, Pushed
<1>3. /\ acking' \in [Keys -> Nat] /\ lists' \in [Keys -> Nat]
      /\ \A j \in Keys : acking'[j] > 0 \/ lists'[j] > 0 => acking[j] > 0 \/ lists[j] > 0
  BY <1>1, <1>2 DEF CallTypes
<1>4. CallTypes' BY <1>1, <1>2, <1>3 DEF CallTypes
<1>5. AcksFollowReceipt' BY <1>2, <1>3 DEF CallInv, AcksFollowReceipt
<1>6. AckedWasShown' /\ SteadyIsWatched' /\ WatcherIsServed'
  BY <1>2 DEF CallInv, AckedWasShown, SteadyIsWatched, WatcherIsServed, Watches
<1> QED BY <1>4, <1>5, <1>6 DEF CallInv

\* The calls of PUT and DELETE that arrive change the flags, not what is watched.
LEMMA ViewerPreserves ==
  ASSUME CallInv, NEW t \in Threads, SetViewer(t) \/ ClearViewer(t)
  PROVE  CallInv'
<1>1. web \in Webs BY DEF CallInv, CallTypes
<1>2. \E req \in {<<"put", t>>, <<"del", t>>} : web' = [web EXCEPT !.calls = @ \ {req}]
  BY DEF SetViewer, ClearViewer
<1>3. web' \in Webs BY <1>1, <1>2 DEF Webs
<1>4. web'.open = web.open /\ web'.presence = web.presence /\ web'.subs = web.subs
  BY <1>1, <1>2 DEF Webs
<1>5. UNCHANGED <<history, pos, shown, acking, lists, call, scenario>>
  BY DEF SetViewer, ClearViewer
<1>6. CallTypes' BY <1>3, <1>5 DEF CallInv, CallTypes
<1>7. AcksFollowReceipt' /\ AckedWasShown' /\ WatcherIsServed'
  BY <1>5 DEF CallInv, AcksFollowReceipt, AckedWasShown, WatcherIsServed
<1>8. SteadyIsWatched' BY <1>4, <1>5 DEF CallInv, SteadyIsWatched, Watches
<1> QED BY <1>6, <1>7, <1>8 DEF CallInv

\* What leaves browser, channel and calls alone preserves the invariant.
LEMMA ElsewherePreserves ==
  ASSUME CallInv, UNCHANGED <<web, history, pos, shown, acking, lists, call, scenario>>
  PROVE  CallInv'
BY DEF CallInv, CallTypes, AcksFollowReceipt, AckedWasShown, SteadyIsWatched,
       WatcherIsServed, Watches

\* A call begins with a number of its own, steady if the thread is watched.
LEMMA BeginPreserves ==
  ASSUME CallInv, NEW c \in Callers, NEW need \in BOOLEAN, call[c].n < scenario.calls,
         call' = [call EXCEPT ![c] = Begin(c, need)],
         UNCHANGED <<web, history, pos, shown, acking, lists, scenario>>
  PROVE  CallInv'
<1>1. CallTypes BY DEF CallInv
<1>2. call[c].n \in Nat /\ scenario.calls \in Nat
  <2>1. scenario.calls \in 0..3 BY <1>1, ScenariosAreCounts DEF CallTypes, MaxCalls
  <2> QED BY <1>1, <2>1 DEF CallTypes, Calls
<1>3. Watches(web, ThreadOf[c]) \in BOOLEAN BY DEF Watches
<1>4. /\ Begin(c, need) \in Calls /\ Begin(c, need).n = call[c].n + 1
      /\ Begin(c, need).result = "none" /\ Begin(c, need).steady = Watches(web, ThreadOf[c])
  <2>1. call[c].n + 1 \in Nat BY <1>2
  <2>2. "app flag" \in CallAt /\ "none" \in Results BY DEF CallAt, Results
  <2>3. Begin(c, need) \in Calls BY <2>1, <2>2, <1>3 DEF Begin, Calls
  <2>4. Begin(c, need).steady = Watches(web, ThreadOf[c]) BY <1>3 DEF Begin
  <2> QED BY <2>3, <2>4 DEF Begin
<1>5. CallTypes' BY <1>1, <1>2, <1>4 DEF CallTypes
<1>6. AcksFollowReceipt' BY DEF CallInv, AcksFollowReceipt
<1>7. AckedWasShown' /\ SteadyIsWatched' /\ WatcherIsServed'
  BY <1>1, <1>4 DEF CallInv, CallTypes, AckedWasShown, SteadyIsWatched, WatcherIsServed, Watches
<1> QED BY <1>5, <1>6, <1>7 DEF CallInv

\* Every step preserves the invariant of the calls.
LEMMA CallInvStep == CallInv /\ [Next]_vars => CallInv'
<1> SUFFICES ASSUME CallInv, [Next]_vars PROVE CallInv' OBVIOUS
<1>1. CASE \/ \E t \in Threads \union {NoThread} : ShowThread(t)
           \/ Subscribe \/ CloseTab \/ OpenTab \/ Appear
  BY <1>1, BrowserPreserves
<1>2. ASSUME NEW t \in Threads, Receive(t) \/ SetViewer(t) \/ ClearViewer(t) \/ FlagThread(t)
      PROVE CallInv'
  BY <1>2, ReceivePreserves, ViewerPreserves, ElsewherePreserves DEF FlagThread, browser
<1>3. CASE FlagsExpire BY <1>3, ElsewherePreserves DEF FlagsExpire, browser
<1>4. ASSUME NEW k \in Keys, AckPublished(k) PROVE CallInv' BY <1>4, AckPreserves
<1>5. ASSUME NEW c \in Callers, Notify(c) \/ Inform(c) \/ StartStream(c) PROVE CallInv'
  <2>1. \E need \in BOOLEAN : call' = [call EXCEPT ![c] = Begin(c, need)]
    BY <1>5 DEF Notify, Inform, StartStream
  <2>2. /\ call[c].n < scenario.calls
        /\ UNCHANGED <<web, history, pos, shown, acking, lists, scenario>>
    BY <1>5 DEF Notify, Inform, StartStream, May, quiet, browser
  <2> QED BY <2>1, <2>2, BeginPreserves
<1>6. ASSUME NEW c \in Callers, NotifyStep(c) PROVE CallInv' BY <1>6, NotifyPreserves
<1>7. ASSUME NEW c \in Callers, StreamStep(c) \/ StreamFails(c) PROVE CallInv'
  <2>1. UNCHANGED rest
    BY <1>7 DEF StreamStep, LookUp, Token, CheckCancel, CheckPause, LastToken, FlushRest,
                PauseAgain, CancelAgain, Recover, End, Delete, StreamFails
  <2>2. UNCHANGED <<web, history, pos, shown, acking, lists, call, scenario>>
    BY <2>1 DEF rest, others, browser
  <2> QED BY <2>2, ElsewherePreserves
<1>8. ASSUME NEW flag \in {"pause", "cancel"}, NEW x \in Tasks \union Threads,
             Raise(flag, x) \/ Lower(flag, x)
      PROVE  CallInv'
  <2>1. UNCHANGED others BY <1>8 DEF Raise, Lower
  <2>2. UNCHANGED <<web, history, pos, shown, acking, lists, call, scenario>>
    BY <2>1 DEF others, browser
  <2> QED BY <2>2, ElsewherePreserves
<1>9. CASE UNCHANGED vars BY <1>9, ElsewherePreserves DEF vars
<1> QED BY <1>1, <1>2, <1>3, <1>4, <1>5, <1>6, <1>7, <1>8, <1>9 DEF Next

\* The invariant of the calls.
LEMMA CallsAreRight == Spec => []CallInv
BY CallInvInit, CallInvStep, PTL DEF Spec

(* A call of notify that returns TRUE for an acknowledgement was seen by the     *)
(* browser: a late or repeated answer to an earlier call never confirms it       *)
(* (centrifugo_mq/sse_notification/thread/notify.py).                            *)
THEOREM AckedIsShown == Spec => []AckedWasShown
<1>1. CallInv => AckedWasShown BY DEF CallInv
<1> QED BY <1>1, CallsAreRight, PTL

(* A call that skips its publication never lay entirely in a time in which the   *)
(* tab was present and subscribed to the thread (has_app_viewers).               *)
THEOREM WatchersAreServed == Spec => []WatcherIsServed
<1>1. CallInv => WatcherIsServed BY DEF CallInv
<1> QED BY <1>1, CallsAreRight, PTL

-------------------------------------------------------------------------------
(* The token streams.                                                            *)

Early == {"idle", "start", "tokens", "cancel flag", "pause flag", "flush", "pause again",
          "cancel again"}
Going == Early \union {"recover", "end"}
Over == {"delete", "completed", "failed"}
Streams == [at : Going \union Over \union {"paused", "cancelled"}, seq : Nat,
            batch : Seq(Nat \ {0}), viewers : BOOLEAN, cut : BOOLEAN,
            cursor : Nat, ids : SUBSET Nat, upto : Nat]
Entries == [id : Nat, task : Tasks, seq : Nat, job : Callers]
StreamTypes ==
  /\ scenario \in Scenarios
  /\ stream \in [Callers -> Streams]
  /\ log \in Seq(Entries)

Index == 1..Len(log)
OfJob(c) == {i \in Index : log[i].job = c}

(* The first n tokens of a job, each once, in order, and nothing else of it.     *)
Logged(c, n) ==
  /\ \A i \in OfJob(c) : log[i].seq \in 1..n
  /\ \A k \in 1..n : \E i \in OfJob(c) : log[i].seq = k
  /\ \A i, j \in OfJob(c) : i < j => log[i].seq < log[j].seq

(* What belongs to the answer so far: not the token whose flags are looked up,   *)
(* and never one at which the loop was cut. And how far the answer goes.         *)
Kept(s) == IF s.cut \/ s.at \in {"cancel flag", "pause flag"} THEN s.seq - 1 ELSE s.seq
LimitOf(s, length) == IF s.cut THEN s.seq - 1 ELSE length

(* A job that goes on, n of whose tokens are in Redis: the batch is what follows *)
(* of the answer so far, nothing if nobody looks on; behind the loop the answer  *)
(* is all there is.                                                              *)
Writes(s, n, length) ==
  /\ IF s.viewers THEN n + Len(s.batch) = Kept(s) ELSE n = 0 /\ s.batch = <<>>
  /\ \A j \in 1..Len(s.batch) : s.batch[j] = n + j
  /\ s.seq <= length
  /\ s.cut \/ s.at \in {"cancel flag", "pause flag"} => s.seq > 0
  /\ s.at \in {"idle", "start"} => s.seq = 0 /\ ~s.viewers
  /\ s.at \in {"idle", "start", "tokens", "cancel flag", "pause flag"} => ~s.cut
  /\ s.at \in {"flush", "pause again", "cancel again", "recover", "end"} => s.cut \/ s.seq = length
  /\ s.at \in {"pause again", "cancel again", "recover", "end"} => s.batch = <<>>
  /\ s.at \in {"recover", "end"} => s.viewers
Written(c) ==
  stream[c].at \in Going => \E n \in Nat : Logged(c, n) /\ Writes(stream[c], n, scenario.tokens)

(* The recovery has every entry of the task up to its cursor, and at its end all *)
(* that there were at its last page: all tokens of the job, not its end.         *)
Collected(c) ==
  LET s == stream[c]
      mine(k) == {i \in Live : i <= k /\ log[i].task = TaskOf[c]}
  IN /\ s.upto <= Len(log)
     /\ \A i \in s.ids : i \in 1..s.upto /\ log[i].task = TaskOf[c]
     /\ s.at \in Early => s.cursor = 0 /\ s.ids = {} /\ s.upto = 0
     /\ s.at = "recover" => s.cursor <= Len(log) /\ mine(s.cursor) \subseteq s.ids
     /\ s.at \in {"end", "delete"} => mine(s.upto) \subseteq s.ids
     /\ s.at = "end" => OfJob(c) \subseteq 1..s.upto
     /\ s.at = "delete" =>
          \E e \in OfJob(c) : log[e].seq = 0 /\ s.upto < e /\ OfJob(c) \ {e} \subseteq 1..s.upto
     /\ s.at = "completed" /\ s.viewers => mine(s.upto) = {}

(* A job that has its end adds nothing any more.                                 *)
EndedIsOver == \A i \in Index : log[i].seq = 0 => stream[log[i].job].at \in Over

(* The end of a stream is the last entry of its job, behind every token of the   *)
(* answer, each once and in order: all of them, or where a flag cut the loop all *)
(* before the token at which it did.                                             *)
EndComesLast ==
  \A i \in 1..Len(log) : log[i].seq = 0 =>
    LET s == stream[log[i].job]
        Mates == {j \in 1..Len(log) : log[j].job = log[i].job} \ {i}
    IN /\ \A j \in Mates : j < i
       /\ {log[j].seq : j \in Mates} = 1..(IF s.cut THEN s.seq - 1 ELSE scenario.tokens)
       /\ \A j, k \in Mates : j < k => log[j].seq < log[k].seq

StreamInv ==
  /\ StreamTypes /\ EndedIsOver /\ EndComesLast
  /\ \A c \in Callers : Written(c) /\ Collected(c)

-------------------------------------------------------------------------------
(* What entries a step adds.                                                     *)

(* The log grows by entries of the job c with the numbers of seqs.               *)
Grown(c, seqs) ==
  /\ log' \in Seq(Entries) /\ Len(log') = Len(log) + Len(seqs)
  /\ \A i \in Index : log'[i] = log[i]
  /\ \A i \in Len(log)+1..Len(log') : log'[i].job = c /\ log'[i].seq = seqs[i - Len(log)]

\* XADD of a batch.
LEMMA AddedGrows ==
  ASSUME StreamTypes, NEW c \in Callers, NEW seqs \in Seq(Nat), Added(c, seqs)
  PROVE  Grown(c, seqs)
<1> DEFINE new == [i \in 1..Len(seqs) |-> Entry(c, Len(log) + i, seqs[i])]
<1>1. /\ log \in Seq(Entries) /\ Len(log) \in Nat /\ Len(seqs) \in Nat /\ TaskOf[c] \in Tasks
  BY LenProperties, DeliveryCounts DEF StreamTypes
<1>2. \A i \in 1..Len(seqs) : seqs[i] \in Nat BY ElementOfSeq
<1>3. \A i \in 1..Len(seqs) : Entry(c, Len(log) + i, seqs[i]) \in Entries
  BY <1>1, <1>2 DEF Entries, Entry
<1>4. log' = log \o new BY DEF Added
<1>5. new \in Seq(Entries) /\ Len(new) = Len(seqs)
  <2>1. new \in [1..Len(seqs) -> Entries] BY <1>3
  <2>2. PICK k \in Nat : k = Len(seqs) BY <1>1
  <2> HIDE DEF new
  <2>3. new \in [1..k -> Entries] BY <2>1, <2>2
  <2>4. new \in Seq(Entries) BY <2>3, <2>2
  <2>5. Len(new) = k BY <2>3, <2>4, <2>2, LenProperties
  <2> QED BY <2>2, <2>4, <2>5
<1>6. \A j \in 1..Len(seqs) : new[j] = Entry(c, Len(log) + j, seqs[j]) OBVIOUS
<1> HIDE DEF new
<1>7. /\ log' \in Seq(Entries) /\ Len(log') = Len(log) + Len(seqs)
      /\ \A i \in 1..(Len(log) + Len(seqs)) :
           log'[i] = IF i <= Len(log) THEN log[i] ELSE new[i - Len(log)]
  <2>1. /\ log \o new \in Seq(Entries) /\ Len(log \o new) = Len(log) + Len(new)
        /\ \A i \in 1..(Len(log) + Len(new)) :
             (log \o new)[i] = IF i <= Len(log) THEN log[i] ELSE new[i - Len(log)]
    BY <1>1, <1>5, ConcatProperties
  <2> QED BY <2>1, <1>4, <1>5
<1>8. ASSUME NEW i \in Len(log)+1..Len(log')
      PROVE  log'[i] = Entry(c, i, seqs[i - Len(log)])
  <2>1. /\ i - Len(log) \in 1..Len(seqs) /\ i \in 1..(Len(log) + Len(seqs)) /\ ~(i <= Len(log))
        /\ Len(log) + (i - Len(log)) = i
    BY <1>1, <1>7
  <2> QED BY <2>1, <1>6, <1>7
<1>9. \A i \in Index : log'[i] = log[i] BY <1>1, <1>7 DEF Index
<1>10. ASSUME NEW i \in Len(log)+1..Len(log')
       PROVE  log'[i].job = c /\ log'[i].seq = seqs[i - Len(log)]
  <2>1. log'[i] = Entry(c, i, seqs[i - Len(log)]) BY <1>8
  <2> QED BY <2>1 DEF Entry
<1>11. Len(log') = Len(log) + Len(seqs) /\ log' \in Seq(Entries) BY <1>7
<1> QED BY <1>9, <1>10, <1>11 DEF Grown

\* XADD of the end.
LEMMA EndGrows ==
  ASSUME StreamTypes, NEW c \in Callers, log' = Append(log, Entry(c, Len(log) + 1, 0))
  PROVE  Grown(c, <<0>>)
<1>1. log \in Seq(Entries) /\ Len(log) \in Nat /\ TaskOf[c] \in Tasks
  BY LenProperties, DeliveryCounts DEF StreamTypes
<1>2. Entry(c, Len(log) + 1, 0) \in Entries BY <1>1 DEF Entry, Entries
<1>3. /\ log' \in Seq(Entries) /\ Len(log') = Len(log) + 1
      /\ \A i \in 1..Len(log) : log'[i] = log[i]
      /\ log'[Len(log) + 1] = Entry(c, Len(log) + 1, 0)
  BY <1>1, <1>2, AppendProperties
<1> QED BY <1>1, <1>3 DEF Grown, Index, Entry

\* Nothing is added.
LEMMA SameGrows ==
  ASSUME StreamTypes, NEW c \in Callers, log' = log
  PROVE  Grown(c, <<>>) /\ Added(c, <<>>)
<1>1. log \in Seq(Entries) /\ Len(log) \in Nat BY LenProperties DEF StreamTypes
<1>2. Grown(c, <<>>) BY <1>1 DEF Grown, Index
<1>3. Len(<<>>) = 0 BY EmptySeq
<1>4. [i \in 1..Len(<<>>) |-> Entry(c, Len(log) + i, (<<>>)[i])] = <<>> BY <1>3
<1>5. log \o <<>> = log BY <1>1, ConcatEmptySeq
<1> QED BY <1>2, <1>4, <1>5 DEF Added

\* What is live now and was in the log was live before.
LEMMA LiveShrinks ==
  ASSUME StreamTypes, NEW c \in Callers, NEW seqs \in Seq(Nat), Grown(c, seqs), gone \subseteq gone',
         NEW i \in Live', i <= Len(log)
  PROVE  i \in Live /\ i \in Index /\ log'[i] = log[i]
<1>1. Len(log) \in Nat /\ Len(log') \in Nat BY LenProperties DEF StreamTypes, Grown
<1>2. i \in 1..Len(log') /\ i \notin gone BY DEF Live
<1>3. i \in Index BY <1>1, <1>2 DEF Index
<1> QED BY <1>2, <1>3 DEF Live, Index, Grown

\* The entries of c do not concern the other jobs.
LEMMA OthersKeep ==
  ASSUME StreamInv, NEW c \in Callers, NEW seqs \in Seq(Nat), Grown(c, seqs), gone \subseteq gone',
         NEW d \in Callers, d # c, stream'[d] = stream[d], scenario' = scenario
  PROVE  Written(d)' /\ Collected(d)'
<1>1. Len(log) \in Nat /\ Len(log') \in Nat /\ Len(seqs) \in Nat /\ Len(log') = Len(log) + Len(seqs)
  BY LenProperties DEF StreamInv, StreamTypes, Grown
<1>2. OfJob(d)' = OfJob(d) /\ \A i \in OfJob(d) : i \in Index /\ log'[i] = log[i]
  BY <1>1 DEF OfJob, Index, Grown
<1>3. Written(d) /\ Collected(d) /\ StreamTypes BY DEF StreamInv
<1>4. Written(d)'
  <2>1. \A n \in Nat : Logged(d, n) => Logged(d, n)' BY <1>2 DEF Logged
  <2> QED BY <2>1, <1>3 DEF Written
<1>5. stream[d].cursor \in Nat /\ stream[d].upto \in Nat BY <1>3 DEF StreamTypes, Streams
<1>6. ASSUME NEW k \in Nat, k <= Len(log), NEW i \in Live', i <= k, log'[i].task = TaskOf[d]
      PROVE  i \in Live /\ log[i].task = TaskOf[d]
  <2>1. i <= Len(log)
    <3>1. i \in Nat BY <1>1 DEF Live
    <3> QED BY <3>1, <1>1, <1>6
  <2> QED BY <2>1, <1>3, <1>6, LiveShrinks
<1>7. Collected(d)'
  <2> DEFINE s == stream[d]
  <2>1. s.upto <= Len(log) /\ s.upto <= Len(log') BY <1>1, <1>3, <1>5 DEF Collected
  <2>2. \A i \in s.ids : i \in 1..s.upto /\ log'[i].task = TaskOf[d]
    BY <1>1, <1>3, <1>5, <2>1 DEF Collected, Grown, Index
  <2>3. s.at = "recover" =>
          s.cursor <= Len(log') /\ \A i \in Live' : i <= s.cursor /\ log'[i].task = TaskOf[d] => i \in s.ids
    BY <1>1, <1>3, <1>5, <1>6 DEF Collected
  <2>4. s.at \in {"end", "delete"} =>
          \A i \in Live' : i <= s.upto /\ log'[i].task = TaskOf[d] => i \in s.ids
    BY <1>3, <1>5, <1>6, <2>1 DEF Collected
  <2>5. s.at = "completed" /\ s.viewers =>
          \A i \in Live' : i <= s.upto => log'[i].task # TaskOf[d]
    BY <1>3, <1>5, <1>6, <2>1 DEF Collected
  <2>6. s.at = "delete" =>
          \E e \in OfJob(d)' : log'[e].seq = 0 /\ s.upto < e /\ OfJob(d)' \ {e} \subseteq 1..s.upto
    BY <1>2, <1>3 DEF Collected
  <2>7. /\ s.at \in Early => s.cursor = 0 /\ s.ids = {} /\ s.upto = 0
        /\ s.at = "end" => OfJob(d)' \subseteq 1..s.upto
    BY <1>2, <1>3 DEF Collected
  <2> QED BY <2>1, <2>2, <2>3, <2>4, <2>5, <2>6, <2>7 DEF Collected
<1> QED BY <1>4, <1>7

\* A step of c's stream: c goes to r and adds the entries seqs; only Delete removes entries.
StreamChange(c, r, seqs) ==
  /\ Goto(c, r) /\ Grown(c, seqs) /\ gone \subseteq gone' /\ scenario' = scenario

\* The entries of the job after such a step.
LEMMA JobGrows ==
  ASSUME StreamInv, NEW c \in Callers, NEW seqs \in Seq(Nat), Grown(c, seqs)
  PROVE  OfJob(c)' = OfJob(c) \union (Len(log)+1..Len(log) + Len(seqs))
<1>1. Len(log) \in Nat /\ Len(seqs) \in Nat /\ Len(log') = Len(log) + Len(seqs)
  BY LenProperties DEF StreamInv, StreamTypes, Grown
<1> QED BY <1>1 DEF OfJob, Index, Grown

\* Whoever adds the numbers that follow has logged so many more.
LEMMA LoggedGrows ==
  ASSUME StreamInv, NEW c \in Callers, NEW seqs \in Seq(Nat), Grown(c, seqs),
         NEW n \in Nat, Logged(c, n), \A j \in 1..Len(seqs) : seqs[j] = n + j
  PROVE  Logged(c, n + Len(seqs))'
<1>1. Len(log) \in Nat /\ Len(seqs) \in Nat
  BY LenProperties DEF StreamInv, StreamTypes
<1>2. OfJob(c)' = OfJob(c) \union (Len(log)+1..Len(log) + Len(seqs)) BY JobGrows
<1>3. ASSUME NEW i \in OfJob(c)
      PROVE  i \in 1..Len(log) /\ log'[i] = log[i] /\ log[i].seq \in 1..n
  BY DEF OfJob, Index, Grown, Logged
<1>4. ASSUME NEW i \in Len(log)+1..Len(log) + Len(seqs)
      PROVE  log'[i].seq = n + (i - Len(log)) /\ i - Len(log) \in 1..Len(seqs)
  BY <1>1 DEF Grown
<1>5. \A i \in OfJob(c)' : log'[i].seq \in 1..n + Len(seqs) BY <1>1, <1>2, <1>3, <1>4
<1>6. ASSUME NEW k \in 1..n + Len(seqs) PROVE \E i \in OfJob(c)' : log'[i].seq = k
  <2>1. CASE k <= n
    <3>1. PICK i \in OfJob(c) : log[i].seq = k BY <2>1 DEF Logged
    <3> QED BY <3>1, <1>2, <1>3
  <2>2. CASE k > n
    <3>1. Len(log) + (k - n) \in Len(log)+1..Len(log) + Len(seqs) BY <1>1, <2>2
    <3>2. /\ log'[Len(log) + (k - n)].seq = n + (Len(log) + (k - n) - Len(log))
          /\ n + (Len(log) + (k - n) - Len(log)) = k
      BY <3>1, <1>1, <1>4
    <3> QED BY <3>1, <3>2, <1>2
  <2> QED BY <2>1, <2>2
<1>7. ASSUME NEW i \in OfJob(c)', NEW j \in OfJob(c)', i < j
      PROVE  log'[i].seq < log'[j].seq
  <2>1. CASE i \in OfJob(c) /\ j \in OfJob(c) BY <2>1, <1>3, <1>7 DEF Logged
  <2>2. CASE i \in OfJob(c) /\ j \in Len(log)+1..Len(log) + Len(seqs)
    <3>1. log'[i].seq \in 1..n BY <2>2, <1>3
    <3>2. log'[j].seq = n + (j - Len(log)) /\ j - Len(log) \in 1..Len(seqs) BY <2>2, <1>4
    <3> QED BY <3>1, <3>2, <1>1
  <2>3. CASE i \in Len(log)+1..Len(log) + Len(seqs) /\ j \in Len(log)+1..Len(log) + Len(seqs)
    BY <2>3, <1>1, <1>4, <1>7
  <2>4. CASE i \in Len(log)+1..Len(log) + Len(seqs) /\ j \in OfJob(c)
    <3>1. j \in 1..Len(log) BY <2>4, <1>3
    <3> QED BY <2>4, <3>1, <1>1, <1>7
  <2> QED BY <1>2, <2>1, <2>2, <2>3, <2>4
<1> QED BY <1>5, <1>6, <1>7 DEF Logged

\* A step that adds no end, or the end of a whole answer, leaves every end the last entry.
LEMMA ChangeKeepsEnds ==
  ASSUME StreamInv, NEW c \in Callers, NEW r \in Streams, NEW seqs \in Seq(Nat),
         StreamChange(c, r, seqs),
         stream[c].at \in Over =>
           seqs = <<>> /\ r.at \in Over /\ r.cut = stream[c].cut /\ r.seq = stream[c].seq,
         \/ \A j \in 1..Len(seqs) : seqs[j] # 0
         \/ seqs = << 0 >> /\ r.at = "delete" /\ Logged(c, LimitOf(r, scenario.tokens))
  PROVE  EndedIsOver' /\ EndComesLast'
<1>1. Len(log) \in Nat /\ Len(seqs) \in Nat /\ Len(log') = Len(log) + Len(seqs)
  BY LenProperties DEF StreamInv, StreamTypes, Grown, StreamChange
<1>2. /\ stream'[c] = r /\ \A d \in Callers : d # c => stream'[d] = stream[d]
      /\ scenario' = scenario
  BY DEF StreamChange, Goto, StreamInv, StreamTypes
<1>3. ASSUME NEW i \in Index PROVE log'[i] = log[i] /\ log[i].job \in Callers
  <2>1. log'[i] = log[i] BY DEF StreamChange, Grown
  <2>2. log[i] \in Entries BY ElementOfSeq DEF StreamInv, StreamTypes, Index
  <2> QED BY <2>1, <2>2 DEF Entries
<1>4. ASSUME NEW i \in Index', i \notin Index
      PROVE  /\ i \in Len(log)+1..Len(log') /\ i - Len(log) \in 1..Len(seqs)
             /\ log'[i].job = c /\ log'[i].seq = seqs[i - Len(log)]
  BY <1>1, <1>4 DEF Index, StreamChange, Grown
<1>5. EndedIsOver'
  <2> SUFFICES ASSUME NEW i \in Index', log'[i].seq = 0 PROVE stream'[log'[i].job].at \in Over
    BY DEF EndedIsOver
  <2>1. CASE i \in Index
    <3>1. log[i].seq = 0 /\ log'[i].job = log[i].job /\ log[i].job \in Callers BY <2>1, <1>3
    <3>2. stream[log[i].job].at \in Over BY <2>1, <3>1 DEF StreamInv, EndedIsOver
    <3> QED BY <3>1, <3>2, <1>2
  <2>2. CASE i \notin Index
    <3>1. log'[i].job = c /\ r.at = "delete" BY <2>2, <1>4
    <3> QED BY <3>1, <1>2 DEF Over
  <2> QED BY <2>1, <2>2
<1>6. EndComesLast'
  <2> DEFINE Mates(i) == {j \in Index : log[j].job = log[i].job} \ {i}
             Last(i) ==
               /\ \A j \in Mates(i) : j < i
               /\ {log[j].seq : j \in Mates(i)} = 1..LimitOf(stream[log[i].job], scenario.tokens)
               /\ \A j, k \in Mates(i) : j < k => log[j].seq < log[k].seq
  <2> SUFFICES ASSUME NEW i \in Index', log'[i].seq = 0 PROVE Last(i)'
    BY DEF EndComesLast, Index, LimitOf
  <2>1. CASE i \in Index
    <3>1. log'[i] = log[i] /\ log[i].seq = 0 /\ log[i].job \in Callers BY <2>1, <1>3
    <3>2. Last(i) BY <2>1, <3>1 DEF StreamInv, EndComesLast, Index, LimitOf
    <3>3. stream[log[i].job].at \in Over BY <2>1, <3>1 DEF StreamInv, EndedIsOver
    <3>4. /\ log[i].job = c => Len(seqs) = 0
          /\ LimitOf(stream'[log[i].job], scenario'.tokens)
             = LimitOf(stream[log[i].job], scenario.tokens)
      BY <1>2, <3>1, <3>3 DEF LimitOf
    <3>5. ASSUME NEW j \in Index', log'[j].job = log[i].job
          PROVE  j \in Index /\ log'[j] = log[j]
      BY <1>1, <1>3, <1>4, <3>4, <3>5
    <3>6. Mates(i)' = Mates(i) /\ \A j \in Mates(i) : log'[j] = log[j]
      BY <1>1, <1>3, <3>1, <3>5 DEF Index
    <3> HIDE DEF Mates
    <3>7. {log'[j].seq : j \in Mates(i)'} = {log[j].seq : j \in Mates(i)} BY <3>6
    <3> QED BY <3>1, <3>2, <3>4, <3>6, <3>7
  <2>2. CASE i \notin Index
    <3>0. seqs = << 0 >> /\ Logged(c, LimitOf(r, scenario.tokens)) BY <2>2, <1>4
    <3>1. /\ i = Len(log) + 1 /\ Len(log') = Len(log) + 1 /\ log'[i].job = c
      <4>1. Len(seqs) = 1 BY <3>0
      <4> QED BY <4>1, <2>2, <1>1, <1>4
    <3>2. OfJob(c)' = OfJob(c) \union {i}
      <4>1. Grown(c, seqs) BY DEF StreamChange
      <4> QED BY <4>1, <1>1, <3>1, JobGrows
    <3>3. Mates(i)' = OfJob(c)' \ {i} BY <3>1 DEF OfJob
    <3>4. Mates(i)' = OfJob(c) /\ \A j \in OfJob(c) : log'[j] = log[j]
      BY <3>2, <3>3, <2>2, <1>3 DEF OfJob
    <3>5. {log[j].seq : j \in OfJob(c)} = 1..LimitOf(r, scenario.tokens) BY <3>0 DEF Logged
    <3>6. LimitOf(stream'[log'[i].job], scenario'.tokens) = LimitOf(r, scenario.tokens)
      BY <1>2, <3>1
    <3> HIDE DEF Mates
    <3>7. {log'[j].seq : j \in Mates(i)'} = {log[j].seq : j \in OfJob(c)} BY <3>4
    <3>8. \A j, k \in Mates(i)' : j < k => log'[j].seq < log'[k].seq
      BY <3>0, <3>4 DEF Logged
    <3>9. \A j \in Mates(i)' : j < i BY <1>1, <3>1, <3>4 DEF OfJob, Index
    <3> QED BY <3>5, <3>6, <3>7, <3>8, <3>9
  <2> QED BY <2>1, <2>2
<1> QED BY <1>5, <1>6

\* A step of c's stream that leaves c itself in order preserves the invariant.
LEMMA ChangePreserves ==
  ASSUME StreamInv, NEW c \in Callers, NEW r \in Streams, NEW seqs \in Seq(Nat),
         StreamChange(c, r, seqs),
         stream[c].at \in Over =>
           seqs = <<>> /\ r.at \in Over /\ r.cut = stream[c].cut /\ r.seq = stream[c].seq,
         \/ \A j \in 1..Len(seqs) : seqs[j] # 0
         \/ seqs = << 0 >> /\ r.at = "delete" /\ Logged(c, LimitOf(r, scenario.tokens)),
         Written(c)', Collected(c)'
  PROVE  StreamInv'
<1>1. /\ stream' = [stream EXCEPT ![c] = r] /\ scenario' = scenario /\ gone \subseteq gone'
      /\ Grown(c, seqs)
  BY DEF StreamChange, Goto
<1>2. StreamTypes' BY <1>1 DEF StreamInv, StreamTypes, Grown
<1>3. EndedIsOver' /\ EndComesLast' BY ChangeKeepsEnds
<1>4. ASSUME NEW d \in Callers, d # c PROVE Written(d)' /\ Collected(d)'
  <2>1. stream'[d] = stream[d] BY <1>1, <1>4 DEF StreamInv, StreamTypes
  <2> QED BY <2>1, <1>1, <1>4, OthersKeep
<1> QED BY <1>2, <1>3, <1>4 DEF StreamInv

-------------------------------------------------------------------------------
(* The steps of a job, as they keep the invariant and as readers see them.       *)

(* A step of the stream as its readers see it.                                   *)
SeenStep == [Stream!Next]_(Stream!vars)

\* What a job has in Redis is within its answer.
LEMMA WithinLimit ==
  ASSUME NEW length \in Nat, NEW r \in Streams, NEW n \in Nat, Writes(r, n, length)
  PROVE  n <= LimitOf(r, length) /\ LimitOf(r, length) \in 0..length
<1>1. r.seq \in Nat /\ Len(r.batch) \in Nat /\ r.cut \in BOOLEAN BY LenProperties DEF Streams
<1>0. r.seq <= length /\ (r.cut => r.seq > 0) BY DEF Writes
<1>2. LimitOf(r, length) \in 0..length BY <1>0, <1>1 DEF LimitOf
<1>3. CASE r.viewers
  <2>1. n + Len(r.batch) = Kept(r) BY <1>3 DEF Writes
  <2>2. Kept(r) = r.seq - 1 \/ (Kept(r) = r.seq /\ ~r.cut) BY Zenon DEF Kept
  <2>3. Kept(r) \in Int /\ n <= Kept(r) BY <1>1, <2>1, <2>2
  <2>4. Kept(r) <= LimitOf(r, length) BY <1>0, <1>1, <2>2 DEF LimitOf
  <2> QED BY <1>2, <2>3, <2>4
<1>4. CASE ~r.viewers
  <2>1. n = 0 BY <1>4 DEF Writes
  <2> QED BY <1>2, <2>1
<1> QED BY <1>3, <1>4

\* The limit of the answers, where that of c stays.
LEMMA LimitStays ==
  ASSUME StreamInv, NEW c \in Callers, NEW r, Goto(c, r), scenario' = scenario,
         LimitOf(r, scenario.tokens) = LimitOf(stream[c], scenario.tokens)
  PROVE  UNCHANGED [d \in Callers |->
           IF stream[d].cut THEN stream[d].seq - 1 ELSE scenario.tokens]
<1>1. \A d \in Callers : stream'[d] = IF d = c THEN r ELSE stream[d]
  BY DEF Goto, StreamInv, StreamTypes
<1>2. \A d \in Callers : LimitOf(stream'[d], scenario'.tokens) = LimitOf(stream[d], scenario.tokens)
  BY <1>1
<1> QED BY <1>2 DEF LimitOf

\* Readers see nothing of a step that adds nothing, removes nothing and cuts nothing.
LEMMA Unseen ==
  ASSUME StreamInv, NEW c \in Callers, NEW r, Goto(c, r), UNCHANGED <<log, gone, scenario>>,
         LimitOf(r, scenario.tokens) = LimitOf(stream[c], scenario.tokens)
  PROVE  SeenStep
BY LimitStays DEF SeenStep, Stream!vars

\* Tokens that follow what is logged are pushed.
LEMMA Pushes ==
  ASSUME StreamInv, NEW c \in Callers, NEW r, Goto(c, r), UNCHANGED <<gone, scenario>>,
         LimitOf(r, scenario.tokens) = LimitOf(stream[c], scenario.tokens),
         LimitOf(r, scenario.tokens) \in 0..scenario.tokens,
         NEW b \in Seq(Nat), Added(c, b),
         NEW n \in Nat, Logged(c, n), n + Len(b) <= LimitOf(r, scenario.tokens),
         \A j \in 1..Len(b) : b[j] = n + j
  PROVE  SeenStep
<1>1. /\ Len(b) \in Nat /\ Len(log) \in Nat /\ log \in Seq(Entries) /\ scenario.tokens \in Nat
  BY LenProperties, ScenariosAreCounts DEF StreamInv, StreamTypes
<1>2. UNCHANGED [d \in Callers |-> IF stream[d].cut THEN stream[d].seq - 1 ELSE scenario.tokens]
  BY LimitStays
<1>3. CASE Len(b) = 0
  <2>1. Grown(c, b) BY AddedGrows DEF StreamInv
  <2>2. log' = log
    <3>1. /\ log' \in Seq(Entries) /\ Len(log') = Len(log)
          /\ \A i \in 1..Len(log) : log'[i] = log[i]
      BY <2>1, <1>1, <1>3 DEF Grown, Index
    <3> QED BY <3>1, <1>1, SeqEqual
  <2> QED BY <2>2, <1>2 DEF SeenStep, Stream!vars
<1>4. CASE Len(b) # 0
  <2>1. PICK m \in Nat : m = n + Len(b) BY <1>1
  <2>2. /\ n < m /\ n \in 0..scenario.tokens /\ m \in 0..scenario.tokens /\ m - n = Len(b)
        /\ m <= LimitOf(stream[c], scenario.tokens)
    BY <2>1, <1>1, <1>4
  <2>3. Stream!Holds(c, n) BY DEF Stream!Holds, Stream!Of, Logged, OfJob, Index
  <2>4. log' = log \o [k \in 1..m - n |-> Stream!Entry(c, Len(log) + k, n + k)]
    <3>1. \A k \in 1..Len(b) :
            Entry(c, Len(log) + k, b[k]) = Stream!Entry(c, Len(log) + k, n + k)
      BY DEF Entry, Stream!Entry
    <3> QED BY <3>1, <2>2 DEF Added
  <2>5. Stream!Push(c, n, m) BY <2>2, <2>3, <2>4, <1>2 DEF Stream!Push, LimitOf
  <2> QED BY <2>2, <2>5 DEF SeenStep, Stream!Next
<1> QED BY <1>3, <1>4

\* A number of the log or a batch is a number.
LEMMA BatchIsPositive ==
  ASSUME NEW b \in Seq(Nat \ {0})
  PROVE  b \in Seq(Nat) /\ \A j \in 1..Len(b) : b[j] # 0
<1>1. \A j \in 1..Len(b) : b[j] \in Nat \ {0} BY ElementOfSeq
<1>2. b \in Seq(Nat) BY SeqMonotonic
<1> QED BY <1>1, <1>2

\* The recovery of a job that has not begun with it.
LEMMA NothingCollected ==
  ASSUME NEW c \in Callers, NEW r, stream'[c] = r, log' \in Seq(Entries),
         r.at \in Early \union {"recover"}, r.cursor = 0, r.ids = {}, r.upto = 0
  PROVE  Collected(c)'
<1>1. Len(log') \in Nat BY LenProperties
<1>2. \A i \in Live' : ~(i <= 0) BY <1>1 DEF Live
<1>3. r.at \notin {"end", "delete", "completed"} BY DEF Early
<1>4. r.upto <= Len(log') /\ r.cursor <= Len(log') BY <1>1
<1> QED BY <1>2, <1>3, <1>4 DEF Collected

\* Until its recovery a job goes on with what follows: it adds b, and r is in order then.
LEMMA GoesOn ==
  ASSUME StreamInv, NEW c \in Callers, NEW r \in Streams, Goto(c, r), UNCHANGED <<gone, scenario>>,
         NEW b \in Seq(Nat \ {0}), Added(c, b),
         NEW n \in Nat, Logged(c, n), \A j \in 1..Len(b) : b[j] = n + j,
         stream[c].at \in Early, r.at \in Early \union {"recover"},
         Writes(r, n + Len(b), scenario.tokens), r.cut = stream[c].cut,
         r.cut => r.seq = stream[c].seq, r.cursor = 0, r.ids = {}, r.upto = 0
  PROVE  StreamInv' /\ SeenStep
<1>1. StreamTypes /\ scenario.tokens \in Nat /\ Len(b) \in Nat
  BY LenProperties, ScenariosAreCounts DEF StreamInv, StreamTypes
<1>2. b \in Seq(Nat) /\ \A j \in 1..Len(b) : b[j] # 0 BY BatchIsPositive
<1>3. Grown(c, b) BY <1>1, <1>2, AddedGrows
<1>4. StreamChange(c, r, b) /\ stream'[c] = r BY <1>1, <1>3 DEF StreamChange, Goto, StreamTypes
<1>5. Logged(c, n + Len(b))' BY <1>2, <1>3, LoggedGrows
<1>6. PICK m \in Nat : m = n + Len(b) BY <1>1
<1>7. Written(c)' BY <1>4, <1>5, <1>6 DEF Written
<1>8. Collected(c)' BY <1>3, <1>4, NothingCollected DEF Grown
<1>9. stream[c].at \notin Over BY DEF Early, Over
<1>10. StreamInv' BY <1>2, <1>4, <1>7, <1>8, <1>9, ChangePreserves
<1>11. LimitOf(r, scenario.tokens) = LimitOf(stream[c], scenario.tokens) BY DEF LimitOf
<1>12. m <= LimitOf(r, scenario.tokens) /\ LimitOf(r, scenario.tokens) \in 0..scenario.tokens
  BY <1>1, <1>6, WithinLimit
<1>13. SeenStep BY <1>2, <1>6, <1>11, <1>12, Pushes
<1> QED BY <1>10, <1>13

\* The same of a step that adds nothing.
LEMMA GoesOnQuietly ==
  ASSUME StreamInv, NEW c \in Callers, NEW r \in Streams, Goto(c, r),
         UNCHANGED <<log, gone, scenario>>,
         NEW n \in Nat, Logged(c, n),
         stream[c].at \in Early, r.at \in Early \union {"recover"},
         Writes(r, n, scenario.tokens), r.cut = stream[c].cut,
         r.cut => r.seq = stream[c].seq, r.cursor = 0, r.ids = {}, r.upto = 0
  PROVE  StreamInv' /\ SeenStep
<1>1. <<>> \in Seq(Nat \ {0}) /\ Len(<<>>) = 0 BY EmptySeq
<1>2. Added(c, <<>>) BY SameGrows DEF StreamInv
<1>3. PICK b \in Seq(Nat \ {0}) : b = <<>> /\ Len(b) = 0 BY <1>1
<1>4. n + Len(b) = n /\ Added(c, b) /\ \A j \in 1..Len(b) : b[j] = n + j BY <1>2, <1>3
<1> QED BY <1>4, GoesOn

\* What ends a job early, or before nobody, promises nothing more.
LEMMA Leaves ==
  ASSUME StreamInv, NEW c \in Callers, NEW r \in Streams, Goto(c, r),
         UNCHANGED <<log, gone, scenario>>,
         r.at \in {"paused", "cancelled", "failed", "completed"}, r.at = "completed" => ~r.viewers,
         stream[c].at \in Over => r.at \in Over,
         r.cut = stream[c].cut, r.seq = stream[c].seq,
         r.ids = stream[c].ids, r.upto = stream[c].upto
  PROVE  StreamInv' /\ SeenStep
<1>1. Grown(c, <<>>) /\ <<>> \in Seq(Nat) /\ Len(<<>>) = 0 BY SameGrows, EmptySeq DEF StreamInv
<1>2. StreamChange(c, r, <<>>) /\ stream'[c] = r
  BY <1>1 DEF StreamChange, Goto, StreamInv, StreamTypes
<1>3. Written(c)' BY <1>2 DEF Written, Going, Early
<1>4. Collected(c) BY DEF StreamInv
<1>5. Collected(c)' BY <1>2, <1>4 DEF Collected, Early
<1>6. \A j \in 1..Len(<<>>) : (<<>>)[j] # 0 BY <1>1
<1>7. StreamInv' BY <1>1, <1>2, <1>3, <1>5, <1>6, ChangePreserves
<1>8. LimitOf(r, scenario.tokens) = LimitOf(stream[c], scenario.tokens) BY DEF LimitOf
<1> QED BY <1>7, <1>8, Unseen

\* What an early job is known to be.
LEMMA EarlyJob ==
  ASSUME StreamInv, NEW c \in Callers, stream[c].at \in Early
  PROVE  /\ stream[c] \in Streams /\ scenario.tokens \in Nat
         /\ stream[c].cursor = 0 /\ stream[c].ids = {} /\ stream[c].upto = 0
         /\ \E n \in Nat : Logged(c, n) /\ Writes(stream[c], n, scenario.tokens)
<1>1. stream[c] \in Streams /\ Written(c) /\ Collected(c) BY DEF StreamInv, StreamTypes
<1>2. stream[c].at \in Going BY DEF Going
<1>3. scenario.tokens \in Nat BY ScenariosAreCounts DEF StreamInv, StreamTypes
<1> QED BY <1>1, <1>2, <1>3 DEF Written, Collected

\* StartStream: a job has logged nothing yet.
LEMMA StartGoes ==
  ASSUME StreamInv, NEW c \in Callers, StartStream(c)
  PROVE  StreamInv' /\ SeenStep
<1>1. /\ stream[c].at = "idle" /\ UNCHANGED <<log, gone, scenario>>
      /\ Goto(c, [NoStream EXCEPT !.at = "start"])
  BY DEF StartStream
<1>2. stream[c].at \in Early BY <1>1 DEF Early
<1>3. PICK n \in Nat : Logged(c, n) /\ Writes(stream[c], n, scenario.tokens) BY <1>2, EarlyJob
<1>4. n = 0 /\ ~stream[c].cut BY <1>1, <1>3 DEF Writes
<1> DEFINE s == [NoStream EXCEPT !.at = "start"]
<1>5. /\ s.at = "start" /\ s.seq = 0 /\ s.batch = <<>> /\ s.viewers = FALSE /\ s.cut = FALSE
      /\ s.cursor = 0 /\ s.ids = {} /\ s.upto = 0 /\ s \in Streams
  <2>1. <<>> \in Seq(Nat \ {0}) BY EmptySeq
  <2>2. "start" \in Going BY DEF Going, Early
  <2> QED BY <2>1, <2>2 DEF NoStream, Streams
<1> HIDE DEF s
<1>6. PICK r \in Streams : r = s BY <1>5
<1>7. stream[c].cut = FALSE
  <2>1. stream[c] \in Streams BY <1>2, EarlyJob
  <2> QED BY <2>1, <1>4 DEF Streams
<1>8. Goto(c, r) BY <1>1, <1>6 DEF s
<1>9. scenario.tokens \in Nat BY <1>2, EarlyJob
<1>10. Writes(r, 0, scenario.tokens)
  <2>1. Len(<<>>) = 0 BY EmptySeq
  <2>2. r.at = "start" /\ r.seq = 0 /\ r.batch = <<>> /\ r.viewers = FALSE /\ r.cut = FALSE
    BY <1>5, <1>6
  <2> QED BY <2>1, <2>2, <1>9 DEF Writes
<1>11. Logged(c, 0) /\ r.at \in Early /\ r.cut = stream[c].cut /\ ~r.cut
  BY <1>3, <1>4, <1>5, <1>6, <1>7 DEF Early
<1>12. r.cursor = 0 /\ r.ids = {} /\ r.upto = 0 BY <1>5, <1>6
<1> QED BY <1>1, <1>2, <1>8, <1>10, <1>11, <1>12, GoesOnQuietly

\* LookUp: whether somebody looks on is decided before the first token.
LEMMA LookUpGoes ==
  ASSUME StreamInv, NEW c \in Callers, LookUp(c)
  PROVE  StreamInv' /\ SeenStep
<1>1. PICK v \in BOOLEAN : Goto(c, [stream[c] EXCEPT !.at = "tokens", !.viewers = v])
  BY DEF LookUp
<1>2. stream[c].at = "start" /\ UNCHANGED <<log, gone, scenario>> BY DEF LookUp, rest, others
<1>3. stream[c].at \in Early BY <1>2 DEF Early
<1>4. /\ stream[c] \in Streams /\ scenario.tokens \in Nat
      /\ stream[c].cursor = 0 /\ stream[c].ids = {} /\ stream[c].upto = 0
  BY <1>3, EarlyJob
<1>5. PICK n \in Nat : Logged(c, n) /\ Writes(stream[c], n, scenario.tokens) BY <1>3, EarlyJob
<1>6. n = 0 /\ ~stream[c].cut /\ stream[c].seq = 0 /\ stream[c].batch = <<>>
  BY <1>2, <1>5 DEF Writes
<1> DEFINE s == [stream[c] EXCEPT !.at = "tokens", !.viewers = v]
<1>7. s \in Streams BY <1>4 DEF Streams, Going, Early
<1>8. /\ s.at = "tokens" /\ s.seq = 0 /\ s.batch = <<>> /\ s.viewers = v /\ s.cut = stream[c].cut
      /\ s.cursor = 0 /\ s.ids = {} /\ s.upto = 0
  BY <1>4, <1>6 DEF Streams
<1>9. Goto(c, s) BY <1>1
<1> HIDE DEF s
<1>10. PICK r \in Streams : r = s BY <1>7
<1>11. /\ Goto(c, r) /\ r.at = "tokens" /\ r.seq = 0 /\ r.batch = <<>> /\ r.cut = stream[c].cut
       /\ r.cursor = 0 /\ r.ids = {} /\ r.upto = 0 /\ ~r.cut
  BY <1>6, <1>8, <1>9, <1>10
<1>12. Writes(r, 0, scenario.tokens)
  <2>1. Len(<<>>) = 0 BY EmptySeq
  <2>2. Kept(r) = 0 BY <1>11, Zenon DEF Kept
  <2> QED BY <2>1, <2>2, <1>4, <1>11 DEF Writes
<1>13. Logged(c, 0) /\ r.at \in Early BY <1>5, <1>6, <1>11 DEF Early
<1> QED BY <1>2, <1>3, <1>11, <1>12, <1>13, GoesOnQuietly

\* A token that is kept joins the batch, or the batch leaves with it. The record s is the
\* job's with the token counted.
LEMMA KeepGoes ==
  ASSUME StreamInv, NEW c \in Callers, stream[c].at \in Early,
         UNCHANGED <<gone, scenario>>, NEW s \in Streams, Keep(c, s),
         NEW n \in Nat, Logged(c, n), s.seq > 0, s.seq <= scenario.tokens,
         s.viewers => n + Len(s.batch) = s.seq - 1, ~s.viewers => n = 0,
         \A j \in 1..Len(s.batch) : s.batch[j] = n + j,
         ~s.cut, s.cut = stream[c].cut, s.cursor = 0, s.ids = {}, s.upto = 0
  PROVE  StreamInv' /\ SeenStep
<1> DEFINE batch == IF s.viewers THEN Append(s.batch, s.seq) ELSE <<>>
           kept == [s EXCEPT !.at = "tokens", !.batch = batch]
           sent == [s EXCEPT !.at = "tokens", !.batch = <<>>]
<1>1. \/ Goto(c, kept) /\ log' = log
      \/ batch # <<>> /\ Added(c, batch) /\ Goto(c, sent)
  BY DEF Keep
<1>2. /\ s.seq \in Nat \ {0} /\ s.batch \in Seq(Nat \ {0}) /\ Len(s.batch) \in Nat
      /\ s.viewers \in BOOLEAN /\ scenario.tokens \in Nat
  <2>1. s.seq \in Nat /\ s.batch \in Seq(Nat \ {0}) /\ s.viewers \in BOOLEAN BY DEF Streams
  <2>2. Len(s.batch) \in Nat BY <2>1, LenProperties
  <2>3. scenario.tokens \in Nat BY ScenariosAreCounts DEF StreamInv, StreamTypes
  <2>4. s.seq # 0 BY <2>1
  <2> QED BY <2>1, <2>2, <2>3, <2>4
<1>a. PICK q \in Nat \ {0} : q = s.seq BY <1>2
<1>b. PICK l \in Nat : l = Len(s.batch) BY <1>2
<1>3. <<>> \in Seq(Nat \ {0}) /\ Len(<<>>) = 0 BY EmptySeq
<1>4. /\ batch \in Seq(Nat \ {0})
      /\ \A j \in 1..Len(batch) : batch[j] = n + j
      /\ s.viewers => n + Len(batch) = s.seq
      /\ ~s.viewers => n = 0 /\ batch = <<>>
  <2>1. CASE s.viewers
    <3>1. batch = Append(s.batch, q) BY <2>1, <1>a
    <3>2. n + l = q - 1 BY <2>1, <1>a, <1>b
    <3> HIDE DEF batch
    <3>3. /\ batch \in Seq(Nat \ {0}) /\ Len(batch) = l + 1
          /\ \A j \in 1..l : batch[j] = s.batch[j]
          /\ batch[l + 1] = q
      BY <3>1, <1>2, <1>b, AppendProperties
    <3>4. ASSUME NEW j \in 1..Len(batch) PROVE batch[j] = n + j
      <4>1. j \in 1..l \/ j = l + 1 BY <3>3
      <4>2. CASE j \in 1..l
        <5>1. j \in 1..Len(s.batch) BY <4>2, <1>b
        <5> QED BY <5>1, <4>2, <3>3
      <4>3. CASE j = l + 1
        <5>1. n + j = q BY <4>3, <3>2
        <5> QED BY <5>1, <4>3, <3>3
      <4> QED BY <4>1, <4>2, <4>3
    <3>5. n + (l + 1) = q BY <3>2
    <3>6. n + Len(batch) = s.seq BY <3>5, <3>3, <1>a
    <3> QED BY <2>1, <3>3, <3>4, <3>6
  <2>2. CASE ~s.viewers
    <3>1. batch = <<>> /\ n = 0 BY <2>2
    <3> HIDE DEF batch
    <3> QED BY <2>2, <3>1, <1>3
  <2> QED BY <2>1, <2>2
<1>5. PICK b \in Seq(Nat \ {0}) : b = batch BY <1>4
<1>6. /\ Len(b) \in Nat /\ \A j \in 1..Len(b) : b[j] = n + j
      /\ s.viewers => n + Len(b) = s.seq
      /\ ~s.viewers => n = 0 /\ b = <<>>
  BY <1>4, <1>5, LenProperties
<1> HIDE DEF batch
<1>7. /\ kept \in Streams /\ kept.at = "tokens" /\ kept.batch = b /\ sent \in Streams
      /\ sent.at = "tokens" /\ sent.batch = <<>>
  <2>1. kept \in Streams /\ sent \in Streams BY <1>3, <1>4 DEF Streams, Going, Early
  <2> QED BY <2>1, <1>5 DEF Streams
<1>8. /\ \A r \in {kept, sent} : r.seq = s.seq /\ r.viewers = s.viewers /\ r.cut = s.cut
      /\ \A r \in {kept, sent} : r.cursor = 0 /\ r.ids = {} /\ r.upto = 0
  BY DEF Streams
<1> HIDE DEF kept, sent
<1>9. ASSUME NEW r \in Streams, NEW m \in Nat, r.at = "tokens", r.seq = s.seq, r.cut = s.cut,
             r.viewers = s.viewers,
             r.viewers => m + Len(r.batch) = s.seq, ~r.viewers => m = 0 /\ r.batch = <<>>,
             \A j \in 1..Len(r.batch) : r.batch[j] = m + j
      PROVE  Writes(r, m, scenario.tokens)
  <2>1. Kept(r) = s.seq BY <1>9, Zenon DEF Kept
  <2> QED BY <2>1, <1>9 DEF Writes
<1>10. "tokens" \in Early BY DEF Early
<1>11. CASE Goto(c, kept) /\ log' = log
  <2>1. PICK r \in Streams : r = kept BY <1>7
  <2>2. /\ Goto(c, r) /\ r.at = "tokens" /\ r.batch = b /\ r.seq = s.seq /\ r.viewers = s.viewers
        /\ r.cut = s.cut /\ r.cursor = 0 /\ r.ids = {} /\ r.upto = 0
    BY <1>7, <1>8, <1>11, <2>1
  <2>3. Writes(r, n, scenario.tokens) BY <1>6, <1>9, <2>2
  <2> QED BY <1>10, <1>11, <2>2, <2>3, GoesOnQuietly
<1>12. CASE batch # <<>> /\ Added(c, batch) /\ Goto(c, sent)
  <2>1. PICK r \in Streams : r = sent BY <1>7
  <2>2. /\ Goto(c, r) /\ r.at = "tokens" /\ r.batch = <<>> /\ r.seq = s.seq /\ r.viewers = s.viewers
        /\ r.cut = s.cut /\ r.cursor = 0 /\ r.ids = {} /\ r.upto = 0
    BY <1>7, <1>8, <1>12, <2>1
  <2>3. Added(c, b) /\ s.viewers BY <1>2, <1>5, <1>6, <1>12
  <2>a. Len(b) \in Nat BY <1>6
  <2>4. PICK m \in Nat : m = n + Len(b) BY <2>a
  <2>5. Writes(r, m, scenario.tokens)
    <3>1. m = s.seq BY <1>6, <2>3, <2>4
    <3>3. Len(r.batch) = 0 BY <1>3, <2>2
    <3>2. m + Len(r.batch) = s.seq /\ \A j \in 1..Len(r.batch) : r.batch[j] = m + j
      BY <3>3, <3>1
    <3> QED BY <1>9, <2>2, <2>3, <3>2
  <2>6. Writes(r, n + Len(b), scenario.tokens) BY <2>4, <2>5
  <2> QED BY <1>6, <1>10, <2>2, <2>3, <2>6, GoesOn
<1> QED BY <1>1, <1>11, <1>12

\* Token: it is kept, or first the flags are looked up.
LEMMA TokenGoes ==
  ASSUME StreamInv, NEW c \in Callers, Token(c)
  PROVE  StreamInv' /\ SeenStep
<1> DEFINE s == stream[c]
           next == [s EXCEPT !.seq = s.seq + 1]
           looks == [next EXCEPT !.at = "cancel flag"]
<1>1. /\ s.at = "tokens" /\ s.seq < scenario.tokens /\ UNCHANGED <<gone, scenario>>
      /\ (Goto(c, looks) /\ log' = log) \/ Keep(c, next)
  BY DEF Token, rest, others
<1>2. s.at \in Early BY <1>1 DEF Early
<1>3. /\ s \in Streams /\ scenario.tokens \in Nat /\ s.cursor = 0 /\ s.ids = {} /\ s.upto = 0
  BY <1>2, EarlyJob
<1>4. PICK n \in Nat : Logged(c, n) /\ Writes(s, n, scenario.tokens) BY <1>2, EarlyJob
<1>5. s.seq \in Nat /\ s.cut \in BOOLEAN /\ s.viewers \in BOOLEAN BY <1>3 DEF Streams
<1>6. /\ ~s.cut /\ \A j \in 1..Len(s.batch) : s.batch[j] = n + j
      /\ IF s.viewers THEN n + Len(s.batch) = Kept(s) ELSE n = 0 /\ s.batch = <<>>
  BY <1>1, <1>4, Zenon DEF Writes
<1>7. Kept(s) = s.seq BY <1>1, <1>6, Zenon DEF Kept
<1>8. /\ next \in Streams /\ looks \in Streams
  <2>1. PICK k \in Nat : k = s.seq + 1 BY <1>5
  <2>2. [s EXCEPT !.seq = k] \in Streams BY <1>3 DEF Streams
  <2>3. next \in Streams BY <2>1, <2>2
  <2>4. "cancel flag" \in Going BY DEF Going, Early
  <2> HIDE DEF next
  <2>5. looks \in Streams BY <2>3, <2>4 DEF Streams
  <2> QED BY <2>3, <2>5
<1>9. /\ \A r \in {next, looks} : r.seq = s.seq + 1 /\ r.viewers = s.viewers /\ r.cut = s.cut
      /\ \A r \in {next, looks} : r.batch = s.batch /\ r.cursor = 0 /\ r.ids = {} /\ r.upto = 0
      /\ looks.at = "cancel flag"
  BY <1>3 DEF Streams
<1> HIDE DEF next, looks, s
<1>10. CASE Keep(c, next)
  <2>1. PICK t \in Streams : t = next BY <1>8
  <2>2. /\ t.seq > 0 /\ t.seq <= scenario.tokens /\ t.seq - 1 = s.seq
    <3>1. t.seq = s.seq + 1 BY <1>9, <2>1
    <3>2. s.seq \in Nat /\ scenario.tokens \in Nat /\ s.seq < scenario.tokens BY <1>1, <1>3, <1>5
    <3> QED BY <3>1, <3>2
  <2>3. /\ t.viewers = s.viewers /\ t.cut = s.cut /\ t.batch = s.batch
        /\ t.cursor = 0 /\ t.ids = {} /\ t.upto = 0 /\ ~t.cut
    BY <1>6, <1>9, <2>1
  <2>4. (t.viewers => n + Len(t.batch) = t.seq - 1) /\ (~t.viewers => n = 0)
    BY <1>6, <1>7, <2>2, <2>3
  <2>5. Keep(c, t) /\ stream[c].at \in Early /\ t.cut = stream[c].cut
    BY <1>2, <1>10, <2>1, <2>3 DEF s
  <2>6. \A j \in 1..Len(t.batch) : t.batch[j] = n + j BY <1>6, <2>3
  <2> QED BY <1>1, <1>4, <2>2, <2>3, <2>4, <2>5, <2>6, KeepGoes
<1>11. CASE Goto(c, looks) /\ log' = log
  <2>1. PICK r \in Streams : r = looks BY <1>8
  <2>2. /\ Goto(c, r) /\ r.at = "cancel flag" /\ r.seq = s.seq + 1 /\ r.viewers = s.viewers
        /\ r.cut = s.cut /\ r.batch = s.batch /\ r.cursor = 0 /\ r.ids = {} /\ r.upto = 0
    BY <1>9, <1>11, <2>1
  <2>3. Kept(r) = s.seq
    <3>1. Kept(r) = r.seq - 1 BY <2>2, Zenon DEF Kept
    <3>2. r.seq = s.seq + 1 /\ s.seq \in Nat BY <2>2, <1>5
    <3> QED BY <3>1, <3>2
  <2>4. IF r.viewers THEN n + Len(r.batch) = Kept(r) ELSE n = 0 /\ r.batch = <<>>
    BY <1>6, <1>7, <2>2, <2>3
  <2>5. r.seq <= scenario.tokens /\ r.seq > 0
    <3>1. r.seq = s.seq + 1 BY <2>2
    <3>2. s.seq \in Nat /\ scenario.tokens \in Nat /\ s.seq < scenario.tokens BY <1>1, <1>3, <1>5
    <3> QED BY <3>1, <3>2
  <2>8. \A j \in 1..Len(r.batch) : r.batch[j] = n + j BY <1>6, <2>2
  <2>6. Writes(r, n, scenario.tokens) BY <1>6, <2>2, <2>4, <2>5, <2>8 DEF Writes
  <2>7. r.at \in Early /\ stream[c].at \in Early /\ ~r.cut /\ r.cut = stream[c].cut
    BY <1>2, <1>6, <2>2 DEF Early, s
  <2> QED BY <1>1, <1>4, <1>11, <2>2, <2>6, <2>7, GoesOnQuietly
<1> QED BY <1>1, <1>10, <1>11


\* The two looks at the flags.
Looks(s) == s.at = "cancel flag" \/ s.at = "pause flag"

\* A break cuts the answer behind the token before.
LEMMA BreakGoes ==
  ASSUME StreamInv, NEW c \in Callers, Looks(stream[c]), Break(c), UNCHANGED <<gone, scenario>>
  PROVE  StreamInv' /\ SeenStep
<1>1. stream[c].at \in Early /\ "flush" \in Early BY DEF Early, Looks
<1> DEFINE s == stream[c]
           length == scenario.tokens
           cutoff == [s EXCEPT !.at = "flush", !.cut = TRUE]
<1>2. /\ s \in Streams /\ length \in Nat /\ s.cursor = 0 /\ s.ids = {} /\ s.upto = 0
  BY <1>1, EarlyJob
<1>3. PICK n \in Nat : Logged(c, n) /\ Writes(s, n, length) BY <1>1, EarlyJob
<1>4. /\ s.seq \in Nat /\ s.seq <= length /\ s.seq > 0 /\ ~s.cut
      /\ \A j \in 1..Len(s.batch) : s.batch[j] = n + j
  <2>1. s.seq \in Nat BY <1>2 DEF Streams
  <2>2. s.seq <= length /\ s.seq > 0 /\ ~s.cut BY <1>3 DEF Writes, Looks
  <2>3. \A j \in 1..Len(s.batch) : s.batch[j] = n + j BY <1>3, Zenon DEF Writes
  <2> QED BY <2>1, <2>2, <2>3
<1>5. /\ s.viewers => n + Len(s.batch) = s.seq - 1
      /\ ~s.viewers => n = 0 /\ s.batch = <<>>
  <2>1. Kept(s) = s.seq - 1 BY <1>4, Zenon DEF Kept, Looks
  <2>2. s.viewers => n + Len(s.batch) = Kept(s) BY <1>3, Zenon DEF Writes
  <2>3. ~s.viewers => n = 0 /\ s.batch = <<>> BY <1>3, Zenon DEF Writes
  <2> QED BY <2>1, <2>2, <2>3
<1>6. /\ cutoff \in Streams /\ cutoff.at = "flush" /\ cutoff.cut = TRUE /\ cutoff.seq = s.seq
      /\ cutoff.batch = s.batch /\ cutoff.viewers = s.viewers
      /\ cutoff.cursor = 0 /\ cutoff.ids = {} /\ cutoff.upto = 0
  BY <1>2 DEF Streams, Going, Early
<1>7. Goto(c, cutoff) /\ log' = log BY DEF Break
<1> HIDE DEF s, length, cutoff
<1>8. PICK r \in Streams : r = cutoff BY <1>6
<1>9. /\ Goto(c, r) /\ r.at = "flush" /\ r.cut = TRUE /\ r.seq = s.seq /\ r.batch = s.batch
      /\ r.viewers = s.viewers /\ r.cursor = 0 /\ r.ids = {} /\ r.upto = 0
  BY <1>6, <1>7, <1>8
<1>10. PICK m \in Nat : m = s.seq - 1 BY <1>4
<1>11. Writes(r, n, length)
  <2>1. Kept(r) = m
    <3>1. Kept(r) = r.seq - 1 BY <1>9, Zenon DEF Kept
    <3> QED BY <3>1, <1>9, <1>10
  <2>2. r.viewers => n + Len(r.batch) = Kept(r) BY <2>1, <1>5, <1>9, <1>10
  <2>3. ~r.viewers => n = 0 /\ r.batch = <<>> BY <1>5, <1>9, Zenon
  <2>4. (\A j \in 1..Len(r.batch) : r.batch[j] = n + j) /\ r.seq <= length /\ r.seq > 0
    BY <1>4, <1>9
  <2> QED BY <2>2, <2>3, <2>4, <1>9 DEF Writes
<1>12. Grown(c, <<>>) /\ <<>> \in Seq(Nat) /\ Len(<<>>) = 0
  BY <1>7, SameGrows, EmptySeq DEF StreamInv
<1>13. StreamChange(c, r, <<>>) /\ stream'[c] = r
  BY <1>9, <1>12 DEF StreamChange, Goto, StreamInv, StreamTypes
<1>14. Written(c)'
  <2>1. Logged(c, n)' BY <1>3, <1>7 DEF Logged, OfJob, Index
  <2>2. Writes(r, n, scenario'.tokens) BY <1>11 DEF length
  <2> QED BY <2>1, <2>2, <1>13 DEF Written
<1>15. Collected(c)'
  <2>1. r.at \in Early \union {"recover"} BY <1>1, <1>9
  <2> QED BY <2>1, <1>9, <1>12, <1>13, NothingCollected DEF Grown
<1>16. StreamInv'
  <2>1. stream[c].at \notin Over BY DEF Over, Looks
  <2>2. \A j \in 1..Len(<<>>) : (<<>>)[j] # 0 BY <1>12
  <2> QED BY <2>1, <2>2, <1>12, <1>13, <1>14, <1>15, ChangePreserves
<1>17. SeenStep
  <2> DEFINE limit == [d \in Callers |-> IF stream[d].cut THEN stream[d].seq - 1 ELSE scenario.tokens]
  <2>1. limit[c] = length
    <3>1. limit[c] = IF stream[c].cut THEN stream[c].seq - 1 ELSE scenario.tokens OBVIOUS
    <3> QED BY <3>1, <1>4, Zenon DEF s, length
  <2>2. /\ n <= m /\ m < length /\ m \in 0..length /\ n \in 0..length
    <3>1. LimitOf(r, length) = m
      <4>1. LimitOf(r, length) = r.seq - 1 BY <1>9, Zenon DEF LimitOf
      <4> QED BY <4>1, <1>9, <1>10
    <3>2. n <= m BY <3>1, <1>2, <1>11, WithinLimit
    <3> QED BY <3>2, <1>2, <1>4, <1>10
  <2>3. Stream!Holds(c, n) BY <1>3 DEF Stream!Holds, Stream!Of, Logged, OfJob, Index
  <2>4. limit' = [limit EXCEPT ![c] = m]
    <3>1. \A d \in Callers : d # c => limit'[d] = limit[d]
      BY <1>9 DEF Goto, StreamInv, StreamTypes
    <3>2. limit'[c] = m
      <4>1. limit'[c] = IF stream'[c].cut THEN stream'[c].seq - 1 ELSE scenario'.tokens OBVIOUS
      <4>2. limit'[c] = r.seq - 1 BY <4>1, <1>9, <1>13, Zenon
      <4> QED BY <4>2, <1>9, <1>10
    <3> QED BY <3>1, <3>2
  <2>5. UNCHANGED <<scenario.tokens, log, gone>> BY <1>7
  <2>6. Stream!Cut(c, n, m) BY <2>1, <2>2, <2>3, <2>4, <2>5 DEF Stream!Cut, length
  <2> QED BY <2>2, <2>6 DEF SeenStep, Stream!Next, length
<1> QED BY <1>16, <1>17

\* CheckCancel: a flag that is set breaks the loop, else the pause flag is next.
LEMMA CheckCancelGoes ==
  ASSUME StreamInv, NEW c \in Callers, CheckCancel(c)
  PROVE  StreamInv' /\ SeenStep
<1>1. /\ stream[c].at = "cancel flag" /\ UNCHANGED <<gone, scenario>>
      /\ Break(c) \/ (Goto(c, [stream[c] EXCEPT !.at = "pause flag"]) /\ log' = log)
  BY DEF CheckCancel, rest, others
<1>2. CASE Break(c) BY <1>1, <1>2, BreakGoes DEF Looks
<1>3. CASE Goto(c, [stream[c] EXCEPT !.at = "pause flag"]) /\ log' = log
  <2>1. stream[c].at \in Early BY <1>1 DEF Early
  <2>2. PICK n \in Nat : Logged(c, n) /\ Writes(stream[c], n, scenario.tokens)
    BY <2>1, EarlyJob
  <2>3. /\ stream[c] \in Streams
        /\ stream[c].cursor = 0 /\ stream[c].ids = {} /\ stream[c].upto = 0
    BY <2>1, EarlyJob
  <2> DEFINE s == [stream[c] EXCEPT !.at = "pause flag"]
  <2>4. /\ s \in Streams /\ s.at = "pause flag" /\ s.cut = stream[c].cut /\ s.seq = stream[c].seq
        /\ s.batch = stream[c].batch /\ s.viewers = stream[c].viewers
        /\ s.cursor = 0 /\ s.ids = {} /\ s.upto = 0
    BY <2>3 DEF Streams, Going, Early
  <2>5. Goto(c, s) BY <1>3
  <2> HIDE DEF s
  <2>6. PICK r \in Streams : r = s BY <2>4
  <2>7. Kept(r) = Kept(stream[c])
    <3>1. Kept(r) = r.seq - 1 BY <2>4, <2>6, Zenon DEF Kept
    <3>2. Kept(stream[c]) = stream[c].seq - 1 BY <1>1, Zenon DEF Kept
    <3> QED BY <3>1, <3>2, <2>4, <2>6
  <2>8. /\ r.at = "pause flag" /\ r.cut = stream[c].cut /\ r.seq = stream[c].seq
        /\ r.batch = stream[c].batch /\ r.viewers = stream[c].viewers
    BY <2>4, <2>6
  <2>9. Writes(r, n, scenario.tokens) /\ (r.cut => r.seq = stream[c].seq)
    <3>1. ~stream[c].cut /\ stream[c].seq > 0 BY <1>1, <2>2 DEF Writes
    <3>2. IF r.viewers THEN n + Len(r.batch) = Kept(r) ELSE n = 0 /\ r.batch = <<>>
      BY <2>2, <2>7, <2>8, Zenon DEF Writes
    <3>3. /\ \A j \in 1..Len(r.batch) : r.batch[j] = n + j
          /\ r.seq <= scenario.tokens
      BY <2>2, <2>8, Zenon DEF Writes
    <3> QED BY <3>1, <3>2, <3>3, <2>8 DEF Writes
  <2>10. Goto(c, r) /\ r.at \in Early /\ r.cursor = 0 /\ r.ids = {} /\ r.upto = 0
    BY <2>4, <2>5, <2>6 DEF Early
  <2> QED BY <1>1, <1>3, <2>1, <2>2, <2>8, <2>9, <2>10, GoesOnQuietly
<1> QED BY <1>1, <1>2, <1>3

\* CheckPause: the same, or the token is kept.
LEMMA CheckPauseGoes ==
  ASSUME StreamInv, NEW c \in Callers, CheckPause(c)
  PROVE  StreamInv' /\ SeenStep
<1>1. /\ stream[c].at = "pause flag" /\ UNCHANGED <<gone, scenario>>
      /\ Break(c) \/ Keep(c, stream[c])
  BY DEF CheckPause, rest, others
<1>2. CASE Break(c) BY <1>1, <1>2, BreakGoes DEF Looks
<1>3. CASE Keep(c, stream[c])
  <2>1. stream[c].at \in Early BY <1>1 DEF Early
  <2>2. PICK n \in Nat : Logged(c, n) /\ Writes(stream[c], n, scenario.tokens)
    BY <2>1, EarlyJob
  <2>3. PICK s \in Streams : s = stream[c] BY <2>1, EarlyJob
  <2>4. Writes(s, n, scenario.tokens) /\ s.at = "pause flag" BY <1>1, <2>2, <2>3
  <2>5. ~s.cut /\ s.seq > 0 /\ s.seq <= scenario.tokens BY <2>4 DEF Writes
  <2>6. Kept(s) = s.seq - 1 BY <2>4, Zenon DEF Kept
  <2>7. (s.viewers => n + Len(s.batch) = s.seq - 1) /\ (~s.viewers => n = 0)
    <3>1. (s.viewers => n + Len(s.batch) = Kept(s)) /\ (~s.viewers => n = 0)
      BY <2>4, Zenon DEF Writes
    <3> QED BY <3>1, <2>6
  <2>8. \A j \in 1..Len(s.batch) : s.batch[j] = n + j BY <2>4, Zenon DEF Writes
  <2>9. s.cursor = 0 /\ s.ids = {} /\ s.upto = 0 BY <2>1, <2>3, EarlyJob
  <2>10. Keep(c, s) /\ s.cut = stream[c].cut BY <1>3, <2>3
  <2> QED BY <1>1, <2>1, <2>2, <2>5, <2>7, <2>8, <2>9, <2>10, KeepGoes
<1> QED BY <1>1, <1>2, <1>3

\* Behind the loop one place is like the other.
LEMMA BehindTheLoop ==
  ASSUME NEW s, NEW r, NEW n, NEW length, Writes(s, n, length),
         s.at = "pause again" \/ s.at = "cancel again" \/ s.at = "recover",
         r.at = "cancel again" \/ ((r.at = "recover" \/ r.at = "end") /\ s.viewers),
         r.seq = s.seq, r.batch = s.batch, r.viewers = s.viewers, r.cut = s.cut
  PROVE  Writes(r, n, length)
<1>1. Kept(r) = Kept(s) BY Zenon DEF Kept
<1>2. IF r.viewers THEN n + Len(r.batch) = Kept(r) ELSE n = 0 /\ r.batch = <<>>
  BY <1>1, Zenon DEF Writes
<1>3. (\A j \in 1..Len(r.batch) : r.batch[j] = n + j) /\ r.seq <= length /\ r.batch = <<>>
  BY Zenon DEF Writes
<1>4. (r.cut => r.seq > 0) /\ (r.cut \/ r.seq = length) BY Zenon DEF Writes
<1>5. r.at \notin {"idle", "start", "tokens", "cancel flag", "pause flag"} OBVIOUS
<1>6. r.at = "recover" \/ r.at = "end" => r.viewers OBVIOUS
<1> QED BY <1>2, <1>3, <1>4, <1>5, <1>6 DEF Writes

\* A job leaves for good.
LEMMA EarlyLeaves ==
  ASSUME StreamInv, NEW c \in Callers, stream[c].at \in Going \union {"delete"},
         NEW a \in {"paused", "cancelled", "failed", "completed"},
         a = "completed" => ~stream[c].viewers, stream[c].at = "delete" => a = "failed",
         Goto(c, [stream[c] EXCEPT !.at = a]), UNCHANGED <<log, gone, scenario>>
  PROVE  StreamInv' /\ SeenStep
<1>1. stream[c] \in Streams BY DEF StreamInv, StreamTypes
<1> DEFINE s == [stream[c] EXCEPT !.at = a]
<1>2. /\ s \in Streams /\ s.at = a /\ s.seq = stream[c].seq /\ s.viewers = stream[c].viewers
      /\ s.cut = stream[c].cut /\ s.ids = stream[c].ids /\ s.upto = stream[c].upto
  <2>1. a \in Going \union Over \union {"paused", "cancelled"} BY DEF Over
  <2> QED BY <2>1, <1>1 DEF Streams
<1>3. Goto(c, s) OBVIOUS
<1> HIDE DEF s
<1>4. PICK r \in Streams : r = s BY <1>2
<1>5. /\ Goto(c, r) /\ r.at = a /\ r.seq = stream[c].seq /\ r.viewers = stream[c].viewers
      /\ r.cut = stream[c].cut /\ r.ids = stream[c].ids /\ r.upto = stream[c].upto
  BY <1>2, <1>3, <1>4
<1>6. stream[c].at \in Over => r.at \in Over
  <2>1. stream[c].at \in Over => stream[c].at = "delete" BY DEF Over, Going, Early
  <2> QED BY <2>1, <1>5 DEF Over
<1> QED BY <1>5, <1>6, Leaves

\* A job that only goes to another place, where what it has written is in order too.
LEMMA MovesOn ==
  ASSUME StreamInv, NEW c \in Callers, stream[c].at \in Early,
         NEW a \in Early \union {"recover"}, Goto(c, [stream[c] EXCEPT !.at = a]),
         UNCHANGED <<log, gone, scenario>>,
         \A n \in Nat, r \in Streams :
           /\ Writes(stream[c], n, scenario.tokens)
           /\ r.at = a /\ r.seq = stream[c].seq /\ r.batch = stream[c].batch
           /\ r.viewers = stream[c].viewers /\ r.cut = stream[c].cut
           => Writes(r, n, scenario.tokens)
  PROVE  StreamInv' /\ SeenStep
<1>1. PICK n \in Nat : Logged(c, n) /\ Writes(stream[c], n, scenario.tokens) BY EarlyJob
<1>2. /\ stream[c] \in Streams
      /\ stream[c].cursor = 0 /\ stream[c].ids = {} /\ stream[c].upto = 0
  BY EarlyJob
<1> DEFINE s == [stream[c] EXCEPT !.at = a]
<1>3. /\ s \in Streams /\ s.at = a /\ s.seq = stream[c].seq /\ s.batch = stream[c].batch
      /\ s.viewers = stream[c].viewers /\ s.cut = stream[c].cut
      /\ s.cursor = 0 /\ s.ids = {} /\ s.upto = 0
  <2>1. a \in Going BY DEF Going
  <2> QED BY <2>1, <1>2 DEF Streams
<1>4. Goto(c, s) OBVIOUS
<1> HIDE DEF s
<1>5. PICK r \in Streams : r = s BY <1>3
<1>6. /\ Goto(c, r) /\ r.at = a /\ r.cut = stream[c].cut /\ r.seq = stream[c].seq
      /\ r.cursor = 0 /\ r.ids = {} /\ r.upto = 0
  BY <1>3, <1>4, <1>5
<1>7. r.batch = stream[c].batch /\ r.viewers = stream[c].viewers BY <1>3, <1>5
<1>8. Writes(r, n, scenario.tokens) BY <1>1, <1>6, <1>7
<1> QED BY <1>1, <1>6, <1>8, GoesOnQuietly

\* LastToken: the answer is complete.
LEMMA LastTokenGoes ==
  ASSUME StreamInv, NEW c \in Callers, LastToken(c)
  PROVE  StreamInv' /\ SeenStep
<1>1. /\ stream[c].at = "tokens" /\ stream[c].seq = scenario.tokens
      /\ UNCHANGED <<log, gone, scenario>> /\ Goto(c, [stream[c] EXCEPT !.at = "flush"])
  BY DEF LastToken, rest, others
<1>2. stream[c].at \in Early /\ "flush" \in Early BY <1>1 DEF Early
<1>3. ASSUME NEW n \in Nat, NEW r \in Streams, Writes(stream[c], n, scenario.tokens),
             r.at = "flush", r.seq = stream[c].seq, r.batch = stream[c].batch,
             r.viewers = stream[c].viewers, r.cut = stream[c].cut
      PROVE  Writes(r, n, scenario.tokens)
  <2>1. ~stream[c].cut BY <1>1, <1>3, Zenon DEF Writes
  <2>2. Kept(r) = stream[c].seq BY <2>1, <1>3, Zenon DEF Kept
  <2>3. Kept(stream[c]) = stream[c].seq BY <2>1, <1>1, Zenon DEF Kept
  <2>4. IF r.viewers THEN n + Len(r.batch) = Kept(r) ELSE n = 0 /\ r.batch = <<>>
    BY <1>3, <2>2, <2>3, Zenon DEF Writes
  <2>5. (\A j \in 1..Len(r.batch) : r.batch[j] = n + j) /\ r.seq <= scenario.tokens
    BY <1>3, Zenon DEF Writes
  <2> QED BY <1>1, <1>3, <2>1, <2>4, <2>5 DEF Writes
<1> QED BY <1>1, <1>2, <1>3, MovesOn

\* FlushRest: the last batch leaves, and the answer is in Redis.
LEMMA FlushRestGoes ==
  ASSUME StreamInv, NEW c \in Callers, FlushRest(c)
  PROVE  StreamInv' /\ SeenStep
<1> DEFINE s == stream[c]
           sent == [s EXCEPT !.batch = <<>>, !.at = "pause again"]
<1>1. /\ s.at = "flush" /\ UNCHANGED <<gone, scenario>> /\ Added(c, s.batch) /\ Goto(c, sent)
  BY DEF FlushRest, rest, others
<1>2. s.at \in Early /\ "pause again" \in Early BY <1>1 DEF Early
<1>3. s \in Streams /\ s.cursor = 0 /\ s.ids = {} /\ s.upto = 0 BY <1>2, EarlyJob
<1>4. PICK n \in Nat : Logged(c, n) /\ Writes(s, n, scenario.tokens) BY <1>2, EarlyJob
<1>5. /\ sent \in Streams /\ sent.at = "pause again" /\ sent.batch = <<>> /\ sent.seq = s.seq
      /\ sent.viewers = s.viewers /\ sent.cut = s.cut
      /\ sent.cursor = 0 /\ sent.ids = {} /\ sent.upto = 0
  <2>1. <<>> \in Seq(Nat \ {0}) /\ "pause again" \in Going BY EmptySeq DEF Going, Early
  <2> QED BY <2>1, <1>3 DEF Streams
<1> HIDE DEF s, sent
<1>6. PICK r \in Streams : r = sent BY <1>5
<1>7. /\ Goto(c, r) /\ r.at = "pause again" /\ r.batch = <<>> /\ r.seq = s.seq
      /\ r.viewers = s.viewers /\ r.cut = s.cut /\ r.cursor = 0 /\ r.ids = {} /\ r.upto = 0
  BY <1>1, <1>5, <1>6
<1>8. PICK b \in Seq(Nat \ {0}) : b = s.batch BY <1>3 DEF Streams
<1>9. Len(b) \in Nat /\ Len(<<>>) = 0 BY LenProperties, EmptySeq
<1>10. PICK m \in Nat : m = n + Len(b) BY <1>9
<1>11. Kept(r) = Kept(s) BY <1>1, <1>7, Zenon DEF Kept
<1>12. (r.viewers => m = Kept(r)) /\ (~r.viewers => m = 0)
  <2>1. r.viewers => n + Len(s.batch) = Kept(s) BY <1>4, <1>7, Zenon DEF Writes
  <2>2. ~r.viewers => n = 0 /\ s.batch = <<>> BY <1>4, <1>7, Zenon DEF Writes
  <2>3. r.viewers => m = Kept(r) BY <2>1, <1>8, <1>10, <1>11
  <2>4. ~r.viewers => n = 0 /\ Len(b) = 0 BY <2>2, <1>8, <1>9
  <2>5. ~r.viewers => m = 0 BY <2>4, <1>10
  <2> QED BY <2>3, <2>5
<1>13. Writes(r, m, scenario.tokens)
  <2>1. Len(r.batch) = 0 BY <1>7, <1>9
  <2>2. \A j \in 1..Len(r.batch) : r.batch[j] = m + j BY <2>1
  <2>3. m + Len(r.batch) = m BY <2>1
  <2>4. IF r.viewers THEN m + Len(r.batch) = Kept(r) ELSE m = 0 /\ r.batch = <<>>
    BY <2>3, <1>7, <1>12
  <2>5. r.seq <= scenario.tokens /\ (r.cut => r.seq > 0) /\ (r.cut \/ r.seq = scenario.tokens)
    BY <1>1, <1>4, <1>7, Zenon DEF Writes
  <2> QED BY <2>2, <2>4, <2>5, <1>7 DEF Writes
<1>14. /\ Added(c, b) /\ \A j \in 1..Len(b) : b[j] = n + j
  BY <1>1, <1>4, <1>8, Zenon DEF Writes
<1>15. Writes(r, n + Len(b), scenario.tokens) BY <1>10, <1>13
<1>16. /\ stream[c].at \in Early /\ r.at \in Early /\ r.cut = stream[c].cut
       /\ r.seq = stream[c].seq
  BY <1>2, <1>7 DEF s
<1> QED BY <1>1, <1>4, <1>7, <1>14, <1>15, <1>16, GoesOn

\* PauseAgain: a task that is paused returns, whatever its loop did.
LEMMA PauseAgainGoes ==
  ASSUME StreamInv, NEW c \in Callers, PauseAgain(c)
  PROVE  StreamInv' /\ SeenStep
<1>1. /\ stream[c].at = "pause again" /\ UNCHANGED <<log, gone, scenario>>
      /\ \/ Goto(c, [stream[c] EXCEPT !.at = "paused"])
         \/ Goto(c, [stream[c] EXCEPT !.at = "cancel again"])
  BY DEF PauseAgain, rest, others
<1>2. stream[c].at \in Early /\ "cancel again" \in Early BY <1>1 DEF Early
<1>3. CASE Goto(c, [stream[c] EXCEPT !.at = "paused"])
  BY <1>1, <1>2, <1>3, EarlyLeaves DEF Going
<1>4. CASE Goto(c, [stream[c] EXCEPT !.at = "cancel again"])
  <2>1. ASSUME NEW n \in Nat, NEW r \in Streams, Writes(stream[c], n, scenario.tokens),
               r.at = "cancel again", r.seq = stream[c].seq, r.batch = stream[c].batch,
               r.viewers = stream[c].viewers, r.cut = stream[c].cut
        PROVE  Writes(r, n, scenario.tokens)
    BY <1>1, <2>1, BehindTheLoop
  <2> QED BY <1>1, <1>2, <1>4, <2>1, MovesOn
<1> QED BY <1>1, <1>3, <1>4

\* CancelAgain: a cancelled thread raises; without viewers the job is done; else it recovers.
LEMMA CancelAgainGoes ==
  ASSUME StreamInv, NEW c \in Callers, CancelAgain(c)
  PROVE  StreamInv' /\ SeenStep
<1>1. /\ stream[c].at = "cancel again" /\ UNCHANGED <<log, gone, scenario>>
      /\ \/ Goto(c, [stream[c] EXCEPT !.at = "cancelled"])
         \/ stream[c].viewers /\ Goto(c, [stream[c] EXCEPT !.at = "recover"])
         \/ ~stream[c].viewers /\ Goto(c, [stream[c] EXCEPT !.at = "completed"])
  BY DEF CancelAgain, rest, others
<1>2. stream[c].at \in Early BY <1>1 DEF Early
<1>3. CASE Goto(c, [stream[c] EXCEPT !.at = "cancelled"])
  BY <1>1, <1>2, <1>3, EarlyLeaves DEF Going
<1>4. CASE ~stream[c].viewers /\ Goto(c, [stream[c] EXCEPT !.at = "completed"])
  BY <1>1, <1>2, <1>4, EarlyLeaves DEF Going
<1>5. CASE stream[c].viewers /\ Goto(c, [stream[c] EXCEPT !.at = "recover"])
  <2>1. ASSUME NEW n \in Nat, NEW r \in Streams, Writes(stream[c], n, scenario.tokens),
               r.at = "recover", r.seq = stream[c].seq, r.batch = stream[c].batch,
               r.viewers = stream[c].viewers, r.cut = stream[c].cut
        PROVE  Writes(r, n, scenario.tokens)
    BY <1>1, <1>5, <2>1, BehindTheLoop
  <2> QED BY <1>1, <1>2, <1>5, <2>1, MovesOn
<1> QED BY <1>1, <1>3, <1>4, <1>5

\* StreamFails: an exception ends the job wherever it is.
LEMMA StreamFailsGoes ==
  ASSUME StreamInv, NEW c \in Callers, StreamFails(c)
  PROVE  StreamInv' /\ SeenStep
<1>1. /\ stream[c].at \notin {"idle", "start", "completed", "paused", "cancelled", "failed"}
      /\ UNCHANGED <<log, gone, scenario>> /\ Goto(c, [stream[c] EXCEPT !.at = "failed"])
  BY DEF StreamFails, rest, others
<1>2. stream[c].at \in Going \union {"delete"} BY <1>1 DEF StreamInv, StreamTypes, Streams, Over
<1> QED BY <1>1, <1>2, EarlyLeaves

\* A set of numbers has a least element, and a greatest where it is bounded.
LEMMA Least ==
  ASSUME NEW T \in SUBSET Nat, T # {}
  PROVE  \E m \in T : \A k \in T : m <= k
<1> DEFINE R == OpToRel(<, Nat)
<1>1. IsWellFoundedOn(R, Nat) BY NatLessThanWellFounded
<1>2. \A x, y \in Nat : <<y, x>> \in R <=> y < x BY DEF OpToRel
<1> HIDE DEF R
<1>3. PICK m \in T : \A k \in T : ~(<<k, m>> \in R) BY <1>1, WFMin
<1>4. \A k \in T : k \in Nat /\ m \in Nat /\ ~(k < m) BY <1>2, <1>3
<1>5. \A k \in T : m <= k BY <1>4
<1> QED BY <1>5
LEMMA Greatest ==
  ASSUME NEW N \in Nat, NEW T \in SUBSET (1..N), T # {}
  PROVE  \E m \in T : \A k \in T : k <= m
<1> DEFINE U == {N - k : k \in T}
<1>1. U \in SUBSET Nat /\ U # {}
  <2>1. \A k \in T : N - k \in Nat OBVIOUS
  <2> QED BY <2>1
<1>2. PICK u \in U : \A v \in U : u <= v BY <1>1, Least
<1>3. PICK m \in T : u = N - m OBVIOUS
<1>4. ASSUME NEW k \in T PROVE k <= m
  <2>1. N - k \in U OBVIOUS
  <2>2. N - m <= N - k BY <2>1, <1>2, <1>3
  <2> QED BY <2>2
<1> QED BY <1>4

\* A page: the PageSize live entries that follow, all that follow when there are fewer.
LEMMA PageIsNext ==
  ASSUME log \in Seq(Entries), NEW from \in Nat
  PROVE  /\ Page(from) \subseteq Live /\ IsFiniteSet(Page(from))
         /\ \A i \in Page(from) : \A j \in Live : from < j /\ j <= i => j \in Page(from)
         /\ Cardinality(Page(from)) < PageSize => \A i \in Live : from < i => i \in Page(from)
<1> DEFINE after == {i \in Live : i > from}
           upto(i) == {j \in after : j <= i}
<1>1. Live \subseteq 1..Len(log) /\ Len(log) \in Nat BY LenProperties DEF Live
<1>2. IsFiniteSet(after)
  <2>1. IsFiniteSet(1..Len(log)) BY <1>1, FS_Interval
  <2>2. after \in SUBSET (1..Len(log)) BY <1>1
  <2> QED BY <2>1, <2>2, FS_Subset
<1>3. \A i \in after : i \in Nat BY <1>1
<1>4. Page(from) = {i \in after : Cardinality(upto(i)) <= PageSize} BY DEF Page
<1>5. PageSize \in Nat BY DeliveryCounts
<1> HIDE DEF after
<1>6. \A i \in after : upto(i) \subseteq after OBVIOUS
<1>7. \A i \in after : IsFiniteSet(upto(i)) /\ Cardinality(upto(i)) \in Nat
  <2> SUFFICES ASSUME NEW i \in after PROVE IsFiniteSet(upto(i)) /\ Cardinality(upto(i)) \in Nat
    OBVIOUS
  <2>1. IsFiniteSet(upto(i)) BY <1>2, <1>6, FS_Subset
  <2> QED BY <2>1, FS_CardinalityType
<1>8. IsFiniteSet(Page(from)) /\ Page(from) \subseteq after BY <1>2, <1>4, FS_Subset
<1>9. ASSUME NEW i \in Page(from), NEW j \in after, j <= i PROVE j \in Page(from)
  <2>1. i \in after /\ Cardinality(upto(i)) <= PageSize BY <1>4
  <2>2. upto(j) \subseteq upto(i)
    <3>1. i \in Nat /\ j \in Nat BY <2>1, <1>3
    <3>2. \A k \in after : k \in Nat /\ (k <= j => k <= i) BY <3>1, <1>3, <1>9
    <3> QED BY <3>2
  <2>3. Cardinality(upto(j)) <= Cardinality(upto(i)) BY <2>1, <2>2, <1>7, FS_Subset
  <2>4. Cardinality(upto(j)) \in Nat /\ Cardinality(upto(i)) \in Nat BY <2>1, <1>7
  <2>5. Cardinality(upto(j)) <= PageSize BY <2>1, <2>3, <2>4, <1>5
  <2> QED BY <2>5, <1>4
<1>10. ASSUME Cardinality(Page(from)) < PageSize PROVE after \subseteq Page(from)
  <2> DEFINE out == after \ Page(from)
  <2>1. SUFFICES ASSUME out # {} PROVE FALSE OBVIOUS
  <2>2. out \in SUBSET Nat BY <1>3
  <2>3. PICK i \in out : \A k \in out : i <= k BY <2>1, <2>2, Least
  <2>4. upto(i) \subseteq Page(from) \union {i}
    <3> SUFFICES ASSUME NEW k \in upto(i), k # i PROVE k \in Page(from) OBVIOUS
    <3>1. k \in after /\ k <= i /\ k \in Nat /\ i \in Nat BY <1>3
    <3> QED BY <3>1, <2>3
  <2>5. /\ IsFiniteSet(Page(from) \union {i})
        /\ Cardinality(Page(from) \union {i}) = Cardinality(Page(from)) + 1
    BY <1>8, FS_AddElement
  <2>6. Cardinality(upto(i)) <= Cardinality(Page(from)) + 1 BY <2>4, <2>5, FS_Subset
  <2>7. Cardinality(Page(from)) \in Nat BY <1>8, FS_CardinalityType
  <2>8. Cardinality(upto(i)) \in Nat BY <1>7
  <2>9. Cardinality(upto(i)) <= PageSize BY <2>6, <2>7, <2>8, <1>5, <1>10
  <2> QED BY <2>9, <1>4
<1>11. after \subseteq Live /\ \A i \in Live : from < i => i \in after BY <1>1 DEF after
<1> QED BY <1>8, <1>9, <1>10, <1>11

\* Recover: a page more; the last one completes the ids of the task.
LEMMA RecoverGoes ==
  ASSUME StreamInv, NEW c \in Callers, Recover(c)
  PROVE  StreamInv' /\ SeenStep
<1> DEFINE s == stream[c]
           page == Page(s.cursor)
           ids == s.ids \union Mine(c, page)
           cursor == IF page = {} THEN s.cursor ELSE CHOOSE i \in page : \A j \in page : j <= i
           at == IF Cardinality(page) < PageSize THEN "end" ELSE "recover"
           read == [s EXCEPT !.ids = ids, !.cursor = cursor, !.upto = Len(log), !.at = at]
<1>1. /\ s \in Streams /\ s.at = "recover" /\ s.cursor \in Nat /\ s.ids \in SUBSET Nat
      /\ s.upto \in Nat /\ Goto(c, read) /\ UNCHANGED <<log, gone, scenario>>
  BY DEF StreamInv, StreamTypes, Streams, Recover, rest, others
<1>2. StreamTypes /\ log \in Seq(Entries) /\ Written(c) /\ Collected(c)
  BY DEF StreamInv, StreamTypes
<1>3. /\ s.cursor <= Len(log) /\ s.upto <= Len(log)
      /\ \A i \in s.ids : i \in 1..s.upto /\ log[i].task = TaskOf[c]
      /\ \A i \in Live : i <= s.cursor /\ log[i].task = TaskOf[c] => i \in s.ids
  BY <1>1, <1>2 DEF Collected
<1>4. Live \subseteq 1..Len(log) /\ Len(log) \in Nat BY <1>2, LenProperties DEF Live
<1>5. /\ page \subseteq Live
      /\ \A i \in page : \A j \in Live : s.cursor < j /\ j <= i => j \in page
      /\ Cardinality(page) < PageSize => \A i \in Live : s.cursor < i => i \in page
  BY <1>1, <1>2, PageIsNext
<1> HIDE DEF page
<1>6. /\ cursor \in Nat /\ cursor <= Len(log)
      /\ \A i \in Live : i <= cursor => i <= s.cursor \/ i \in page
  <2>1. CASE page = {} BY <2>1, <1>1, <1>3
  <2>2. CASE page # {}
    <3>1. page \in SUBSET (1..Len(log)) BY <1>4, <1>5
    <3>2. \E m \in page : \A k \in page : k <= m BY <2>2, <3>1, <1>4, Greatest
    <3>3. cursor \in page BY <2>2, <3>2
    <3>4. ASSUME NEW i \in Live, i <= cursor, ~(i <= s.cursor) PROVE i \in page
      <4>1. s.cursor < i BY <3>4, <1>1, <1>4
      <4> QED BY <4>1, <3>3, <3>4, <1>5
    <3> HIDE DEF cursor
    <3>5. cursor \in 1..Len(log) BY <3>1, <3>3
    <3> QED BY <3>4, <3>5, <1>4
  <2> QED BY <2>1, <2>2
<1>7. /\ ids \in SUBSET Nat
      /\ \A i \in Live : log[i].task = TaskOf[c] /\ (i <= s.cursor \/ i \in page) => i \in ids
  BY <1>1, <1>3, <1>4, <1>5 DEF Mine
<1>8. \A i \in ids : i \in 1..Len(log) /\ log[i].task = TaskOf[c]
  BY <1>1, <1>3, <1>4, <1>5 DEF Mine
<1>9. (at = "end" \/ at = "recover") /\ at \in Going BY DEF Going
<1>10. at = "end" => \A i \in Live : i <= s.cursor \/ i \in page
  <2> SUFFICES ASSUME at = "end", NEW i \in Live, ~(i <= s.cursor) PROVE i \in page OBVIOUS
  <2>1. s.cursor < i BY <1>1, <1>4
  <2> QED BY <2>1, <1>5
<1> HIDE DEF ids, cursor, at
<1>11. PICK l \in Nat : l = Len(log) BY <1>4
<1>12. read = [s EXCEPT !.ids = ids, !.cursor = cursor, !.upto = l, !.at = at] BY <1>11
<1>13. /\ read \in Streams /\ read.at = at /\ read.seq = s.seq /\ read.batch = s.batch
       /\ read.viewers = s.viewers /\ read.cut = s.cut
       /\ read.ids = ids /\ read.cursor = cursor /\ read.upto = l
  <2> HIDE DEF read
  <2>1. read \in Streams BY <1>1, <1>6, <1>7, <1>9, <1>12 DEF Streams
  <2>2. /\ read.at = at /\ read.seq = s.seq /\ read.batch = s.batch
        /\ read.viewers = s.viewers /\ read.cut = s.cut
    BY <1>1, <1>12 DEF Streams
  <2>3. read.ids = ids /\ read.cursor = cursor /\ read.upto = l BY <1>1, <1>12 DEF Streams
  <2> QED BY <2>1, <2>2, <2>3
<1> HIDE DEF s, read
<1>14. PICK r \in Streams : r = read BY <1>13
<1>15. /\ Goto(c, r) /\ r.at = at /\ r.ids = ids /\ r.cursor = cursor /\ r.upto = l
  BY <1>1, <1>13, <1>14
<1>16. r.seq = s.seq /\ r.batch = s.batch /\ r.viewers = s.viewers /\ r.cut = s.cut
  BY <1>13, <1>14
<1>17. stream'[c] = r BY <1>2, <1>15 DEF Goto, StreamTypes
<1>18. Written(c)'
  <2>1. s.at \in Going BY <1>1 DEF Going
  <2>2. PICK n \in Nat : Logged(c, n) /\ Writes(s, n, scenario.tokens)
    BY <2>1, <1>2 DEF Written, s
  <2>3. s.viewers BY <1>1, <2>2 DEF Writes
  <2>4. Writes(r, n, scenario.tokens) BY <1>1, <1>9, <1>15, <1>16, <2>2, <2>3, BehindTheLoop
  <2>5. Logged(c, n)' BY <1>1, <2>2 DEF Logged, OfJob, Index
  <2>6. Writes(r, n, scenario'.tokens) BY <1>1, <2>4
  <2> QED BY <2>5, <2>6, <1>17 DEF Written
<1>19. Live' = Live /\ log' = log BY <1>1 DEF Live
<1>20. Collected(c)'
  <2>1. r.upto <= Len(log') BY <1>11, <1>15, <1>19
  <2>2. \A i \in r.ids : i \in 1..r.upto /\ log'[i].task = TaskOf[c]
    BY <1>8, <1>11, <1>15, <1>19
  <2>3. r.at = "recover" =>
          r.cursor <= Len(log') /\ \A i \in Live' : i <= r.cursor /\ log'[i].task = TaskOf[c] => i \in r.ids
    BY <1>6, <1>7, <1>15, <1>19
  <2>4. r.at = "end" => \A i \in Live' : log'[i].task = TaskOf[c] => i \in r.ids
    BY <1>7, <1>10, <1>15, <1>19
  <2>5. OfJob(c)' \subseteq 1..r.upto BY <1>11, <1>15, <1>19 DEF OfJob, Index
  <2>6. r.at \notin Early /\ r.at # "delete" /\ r.at # "completed" BY <1>9, <1>15 DEF Early
  <2> QED BY <2>1, <2>2, <2>3, <2>4, <2>5, <2>6, <1>17 DEF Collected
<1>21. Grown(c, <<>>) /\ <<>> \in Seq(Nat) /\ Len(<<>>) = 0 BY <1>2, <1>19, SameGrows, EmptySeq
<1>22. StreamInv'
  <2>1. StreamChange(c, r, <<>>) BY <1>1, <1>15, <1>21 DEF StreamChange
  <2>2. \A j \in 1..Len(<<>>) : (<<>>)[j] # 0 BY <1>21
  <2>3. stream[c].at \notin Over BY <1>1 DEF Over, s
  <2> QED BY <2>1, <2>2, <2>3, <1>18, <1>20, <1>21, ChangePreserves
<1>23. LimitOf(r, scenario.tokens) = LimitOf(stream[c], scenario.tokens)
  BY <1>16, Zenon DEF LimitOf, s
<1>24. SeenStep BY <1>1, <1>15, <1>23, Unseen
<1> QED BY <1>22, <1>24

\* A job about to end has its whole answer in Redis.
LEMMA AnswerIsWhole ==
  ASSUME NEW s \in Streams, s.at = "end", NEW n \in Nat, NEW length \in Nat, Writes(s, n, length)
  PROVE  n = LimitOf(s, length)
<1>1. s.viewers /\ s.batch = <<>> /\ (s.cut \/ s.seq = length) BY Zenon DEF Writes
<1>2. n + Len(s.batch) = Kept(s) BY <1>1, Zenon DEF Writes
<1>3. Len(s.batch) = 0 BY <1>1, EmptySeq
<1>4. n = Kept(s) BY <1>2, <1>3
<1>5. CASE s.cut
  <2>1. Kept(s) = s.seq - 1 /\ LimitOf(s, length) = s.seq - 1 BY <1>5, Zenon DEF Kept, LimitOf
  <2> QED BY <2>1, <1>4
<1>6. CASE ~s.cut
  <2>1. Kept(s) = s.seq /\ LimitOf(s, length) = length BY <1>6, Zenon DEF Kept, LimitOf
  <2> QED BY <2>1, <1>1, <1>4, <1>6
<1> QED BY <1>5, <1>6

\* End: the end of the answer, behind all of it.
LEMMA EndGoes ==
  ASSUME StreamInv, NEW c \in Callers, End(c)
  PROVE  StreamInv' /\ SeenStep
<1> DEFINE s == stream[c]
           ended == [s EXCEPT !.at = "delete"]
           e == Len(log) + 1
<1>1. /\ s \in Streams /\ s.at = "end" /\ Goto(c, ended) /\ UNCHANGED <<gone, scenario>>
      /\ log' = Append(log, Entry(c, Len(log) + 1, 0))
  BY DEF StreamInv, StreamTypes, End, rest, others
<1>2. StreamTypes /\ log \in Seq(Entries) /\ Written(c) /\ Collected(c)
  BY DEF StreamInv, StreamTypes
<1>3. Len(log) \in Nat BY <1>2, LenProperties
<1>4. scenario.tokens \in Nat BY <1>2, ScenariosAreCounts DEF StreamTypes
<1>5. PICK n \in Nat : Logged(c, n) /\ Writes(s, n, scenario.tokens)
  <2>1. s.at \in Going BY <1>1 DEF Going
  <2> QED BY <2>1, <1>2 DEF Written
<1>6. n = LimitOf(s, scenario.tokens) BY <1>1, <1>4, <1>5, AnswerIsWhole
<1>7. Grown(c, << 0 >>) BY <1>1, <1>2, EndGrows
<1>8. << 0 >> \in Seq(Nat) /\ Len(<< 0 >>) = 1 OBVIOUS
<1>9. /\ ended \in Streams /\ ended.at = "delete" /\ ended.seq = s.seq /\ ended.viewers = s.viewers
      /\ ended.cut = s.cut /\ ended.ids = s.ids /\ ended.upto = s.upto
  <2>1. "delete" \in Over BY DEF Over
  <2> QED BY <2>1, <1>1 DEF Streams
<1> HIDE DEF s, ended
<1>10. PICK r \in Streams : r = ended BY <1>9
<1>11. /\ Goto(c, r) /\ r.at = "delete" /\ r.seq = s.seq /\ r.viewers = s.viewers /\ r.cut = s.cut
       /\ r.ids = s.ids /\ r.upto = s.upto
  BY <1>1, <1>9, <1>10
<1>12. stream'[c] = r BY <1>2, <1>11 DEF Goto, StreamTypes
<1>13. LimitOf(r, scenario.tokens) = LimitOf(s, scenario.tokens) BY <1>11, Zenon DEF LimitOf
<1>14. Written(c)' BY <1>11, <1>12 DEF Written, Going, Early
<1>15. /\ s.upto \in Nat /\ s.upto <= Len(log)
       /\ \A i \in s.ids : i \in 1..s.upto /\ log[i].task = TaskOf[c]
       /\ \A i \in Live : i <= s.upto /\ log[i].task = TaskOf[c] => i \in s.ids
       /\ OfJob(c) \subseteq 1..s.upto
  BY <1>1, <1>2 DEF Collected, Streams, s
<1>16. /\ e \in OfJob(c)' /\ log'[e].seq = 0 /\ s.upto < e
       /\ OfJob(c)' \ {e} \subseteq 1..s.upto
  <2>1. OfJob(c)' = OfJob(c) \union (Len(log)+1..Len(log) + Len(<< 0 >>)) BY <1>7, <1>8, JobGrows
  <2>2. OfJob(c)' = OfJob(c) \union {e} BY <2>1, <1>3, <1>8
  <2>3. log'[e] = Entry(c, Len(log) + 1, 0)
    <3>1. Entry(c, Len(log) + 1, 0) \in Entries
      BY <1>3, DeliveryCounts DEF Entry, Entries
    <3> QED BY <3>1, <1>1, <1>2, AppendProperties
  <2>4. log'[e].seq = 0 BY <2>3 DEF Entry
  <2> QED BY <2>2, <2>4, <1>3, <1>15
<1>17. Collected(c)'
  <2>1. Len(log') = Len(log) + 1 /\ \A i \in Index : log'[i] = log[i] BY <1>7, <1>8 DEF Grown
  <2>2. r.upto <= Len(log') BY <2>1, <1>3, <1>11, <1>15
  <2>3. \A i \in 1..s.upto : i \in Index BY <1>3, <1>15 DEF Index
  <2>4. \A i \in r.ids : i \in 1..r.upto /\ log'[i].task = TaskOf[c]
    BY <2>1, <2>3, <1>11, <1>15
  <2>5. ASSUME NEW i \in Live', i <= r.upto, log'[i].task = TaskOf[c] PROVE i \in r.ids
    <3>1. i \in Nat /\ gone \subseteq gone' BY <1>1, <1>3, <2>1 DEF Live
    <3>2. i <= Len(log) BY <3>1, <2>5, <1>3, <1>11, <1>15
    <3>3. i \in Live /\ log'[i] = log[i] BY <3>1, <3>2, <1>2, <1>7, <1>8, LiveShrinks
    <3> QED BY <3>3, <2>5, <1>11, <1>15
  <2>6. r.at \notin Early /\ r.at \notin {"recover", "end", "completed"} BY <1>11 DEF Early
  <2>7. \E i \in OfJob(c)' : log'[i].seq = 0 /\ r.upto < i /\ OfJob(c)' \ {i} \subseteq 1..r.upto
    BY <1>11, <1>16
  <2> QED BY <2>2, <2>4, <2>5, <2>6, <2>7, <1>12 DEF Collected
<1>18. StreamInv'
  <2>1. StreamChange(c, r, << 0 >>) BY <1>1, <1>7, <1>11 DEF StreamChange
  <2>2. stream[c].at \notin Over BY <1>1 DEF Over, s
  <2>3. Logged(c, LimitOf(r, scenario.tokens)) BY <1>5, <1>6, <1>13
  <2> QED BY <2>1, <2>2, <2>3, <1>8, <1>11, <1>14, <1>17, ChangePreserves
<1>19. SeenStep
  <2> DEFINE limit == [d \in Callers |-> IF stream[d].cut THEN stream[d].seq - 1 ELSE scenario.tokens]
  <2>1. UNCHANGED limit BY <1>1, <1>11, <1>13, LimitStays DEF s
  <2>2. limit[c] = n
    <3>1. limit[c] = IF stream[c].cut THEN stream[c].seq - 1 ELSE scenario.tokens OBVIOUS
    <3> QED BY <3>1, <1>6, Zenon DEF LimitOf, s
  <2>3. Stream!Holds(c, n) BY <1>5 DEF Stream!Holds, Stream!Of, Logged, OfJob, Index
  <2>4. log' = Append(log, Stream!Entry(c, Len(log) + 1, 0)) BY <1>1 DEF Entry, Stream!Entry
  <2>5. UNCHANGED <<scenario.tokens, gone>> BY <1>1
  <2>6. Stream!End(c)
    <3>1. Stream!Holds(c, limit[c]) BY <2>2, <2>3
    <3> QED BY <3>1, <2>1, <2>4, <2>5 DEF Stream!End
  <2> QED BY <2>6 DEF SeenStep, Stream!Next
<1> QED BY <1>18, <1>19

\* Delete: what the recovery found is removed, and that is all there was of the task.
LEMMA DeleteGoes ==
  ASSUME StreamInv, NEW c \in Callers, Delete(c)
  PROVE  StreamInv' /\ SeenStep
<1> DEFINE s == stream[c]
           done == [s EXCEPT !.at = "completed"]
<1>1. /\ s \in Streams /\ s.at = "delete" /\ Goto(c, done) /\ gone' = gone \union s.ids
      /\ UNCHANGED <<log, scenario>>
  BY DEF StreamInv, StreamTypes, Delete, rest, others
<1>2. StreamTypes /\ log \in Seq(Entries) /\ Collected(c) BY DEF StreamInv, StreamTypes
<1>3. /\ done \in Streams /\ done.at = "completed" /\ done.seq = s.seq /\ done.viewers = s.viewers
      /\ done.cut = s.cut /\ done.ids = s.ids /\ done.upto = s.upto
  <2>1. "completed" \in Over BY DEF Over
  <2> QED BY <2>1, <1>1 DEF Streams
<1>4. /\ s.upto \in Nat /\ s.upto <= Len(log)
      /\ \A i \in s.ids : i \in 1..s.upto /\ log[i].task = TaskOf[c]
      /\ \A i \in Live : i <= s.upto /\ log[i].task = TaskOf[c] => i \in s.ids
  BY <1>1, <1>2 DEF Collected, Streams
<1>5. PICK e \in OfJob(c) : log[e].seq = 0 /\ s.upto < e /\ OfJob(c) \ {e} \subseteq 1..s.upto
  BY <1>1, <1>2 DEF Collected
<1>6. Len(log) \in Nat BY <1>2, LenProperties
<1> HIDE DEF s, done
<1>7. PICK r \in Streams : r = done BY <1>3
<1>8. /\ Goto(c, r) /\ r.at = "completed" /\ r.seq = s.seq /\ r.viewers = s.viewers /\ r.cut = s.cut
      /\ r.ids = s.ids /\ r.upto = s.upto
  BY <1>1, <1>3, <1>7
<1>9. stream'[c] = r BY <1>2, <1>8 DEF Goto, StreamTypes
<1>10. Written(c)' BY <1>8, <1>9 DEF Written, Going, Early
<1>11. Collected(c)'
  <2>1. r.upto <= Len(log') /\ \A i \in r.ids : i \in 1..r.upto /\ log'[i].task = TaskOf[c]
    BY <1>1, <1>4, <1>8
  <2>2. \A i \in Live' : i \in Live /\ i \notin s.ids BY <1>1 DEF Live
  <2>3. \A i \in Live' : i <= r.upto => log'[i].task # TaskOf[c] BY <2>2, <1>1, <1>4, <1>8
  <2>4. r.at \notin Early /\ r.at \notin {"recover", "end", "delete"} BY <1>8 DEF Early
  <2> QED BY <2>1, <2>3, <2>4, <1>9 DEF Collected
<1>12. Grown(c, <<>>) /\ <<>> \in Seq(Nat) /\ Len(<<>>) = 0 BY <1>1, <1>2, SameGrows, EmptySeq
<1>13. StreamInv'
  <2>1. StreamChange(c, r, <<>>) BY <1>1, <1>8, <1>12 DEF StreamChange
  <2>2. \A j \in 1..Len(<<>>) : (<<>>)[j] # 0 BY <1>12
  <2>3. r.at \in Over /\ r.cut = stream[c].cut /\ r.seq = stream[c].seq BY <1>8 DEF Over, s
  <2> QED BY <2>1, <2>2, <2>3, <1>10, <1>11, <1>12, ChangePreserves
<1>14. SeenStep
  <2>1. LimitOf(r, scenario.tokens) = LimitOf(stream[c], scenario.tokens)
    BY <1>8, Zenon DEF LimitOf, s
  <2>2. UNCHANGED [d \in Callers |-> IF stream[d].cut THEN stream[d].seq - 1 ELSE scenario.tokens]
    BY <2>1, <1>1, <1>8, LimitStays
  <2>3. gone' = gone \union {i \in 1..s.upto : log[i].task = TaskOf[c]}
    <3>1. \A i \in 1..s.upto : i \in Index BY <1>4, <1>6 DEF Index
    <3>2. ASSUME NEW i \in 1..s.upto, log[i].task = TaskOf[c] PROVE i \in gone \union s.ids
      <4>1. i \in gone \/ i \in Live BY <3>1 DEF Live, Index
      <4>2. i <= s.upto BY <1>4
      <4> QED BY <4>1, <4>2, <3>2, <1>4
    <3> QED BY <3>2, <1>1, <1>4
  <2>4. s.upto \in 0..Len(log) BY <1>4, <1>6
  <2>5. e \in Stream!Of(c) /\ Stream!Of(c) \ {e} \subseteq 1..s.upto
    BY <1>5 DEF Stream!Of, OfJob, Index
  <2>6. UNCHANGED <<scenario.tokens, log>> BY <1>1
  <2>7. Stream!Remove(c)
    <3>1. \E f \in Stream!Of(c), place \in 0..Len(log) :
            /\ log[f].seq = 0
            /\ Stream!Of(c) \ {f} \subseteq 1..place /\ place < f
            /\ gone' = gone \union {i \in 1..place : log[i].task = TaskOf[c]}
      BY <1>5, <2>3, <2>4, <2>5
    <3> QED BY <3>1, <2>2, <2>6 DEF Stream!Remove
  <2> QED BY <2>7 DEF SeenStep, Stream!Next
<1> QED BY <1>13, <1>14

\* What touches no stream.
LEMMA ElsewhereKeepsStreams ==
  ASSUME StreamInv, UNCHANGED <<stream, log, gone, scenario>>
  PROVE  StreamInv' /\ SeenStep
<1>1. StreamTypes' BY DEF StreamInv, StreamTypes
<1>2. EndedIsOver' BY DEF StreamInv, EndedIsOver, Index
<1>3. EndComesLast' BY DEF StreamInv, EndComesLast
<1>4. ASSUME NEW c \in Callers PROVE Written(c)' /\ Collected(c)'
  <2>1. Written(c) /\ Collected(c) BY DEF StreamInv
  <2>2. Written(c)' BY <2>1 DEF Written, Logged, OfJob, Index
  <2>3. Collected(c)' BY <2>1 DEF Collected, Live, OfJob, Index
  <2> QED BY <2>2, <2>3
<1>5. StreamInv' BY <1>1, <1>2, <1>3, <1>4 DEF StreamInv
<1>6. SeenStep BY DEF SeenStep, Stream!vars
<1> QED BY <1>5, <1>6

LEMMA StreamInvInit == Init => StreamInv
<1> SUFFICES ASSUME Init PROVE StreamInv OBVIOUS
<1>1. /\ scenario \in Scenarios /\ stream = [c \in Callers |-> NoStream] /\ log = <<>>
  BY DEF Init
<1>2. <<>> \in Seq(Nat \ {0}) /\ <<>> \in Seq(Entries) /\ Len(<<>>) = 0 BY EmptySeq
<1>3. /\ NoStream \in Streams /\ NoStream.at = "idle" /\ NoStream.seq = 0 /\ NoStream.batch = <<>>
      /\ NoStream.viewers = FALSE /\ NoStream.cut = FALSE
      /\ NoStream.cursor = 0 /\ NoStream.ids = {} /\ NoStream.upto = 0
  <2>1. "idle" \in Going BY DEF Going, Early
  <2> QED BY <1>2, <2>1 DEF NoStream, Streams
<1>4. StreamTypes BY <1>1, <1>2, <1>3 DEF StreamTypes
<1>5. Index = {} BY <1>1, <1>2 DEF Index
<1>6. EndedIsOver /\ EndComesLast BY <1>5 DEF EndedIsOver, EndComesLast, Index
<1>7. ASSUME NEW c \in Callers PROVE Written(c) /\ Collected(c)
  <2>1. stream[c] = NoStream BY <1>1
  <2>2. OfJob(c) = {} BY <1>5 DEF OfJob
  <2>3. Logged(c, 0) BY <2>2 DEF Logged
  <2>4. scenario.tokens \in Nat BY <1>1, ScenariosAreCounts
  <2>5. Writes(NoStream, 0, scenario.tokens) BY <1>2, <1>3, <2>4 DEF Writes
  <2>6. Written(c) BY <2>1, <2>3, <2>5 DEF Written
  <2>7. Collected(c)
    <3>1. NoStream.at \notin {"recover", "end", "delete", "completed"} BY <1>3
    <3>2. NoStream.upto <= Len(log) /\ \A i \in NoStream.ids : FALSE BY <1>1, <1>2, <1>3
    <3> QED BY <3>1, <3>2, <2>1, <1>3 DEF Collected
  <2> QED BY <2>6, <2>7
<1> QED BY <1>4, <1>6, <1>7 DEF StreamInv

\* What steps concern the streams.
LEMMA StreamUse ==
  ASSUME [Next]_vars
  PROVE  \/ UNCHANGED <<stream, log, gone, scenario>>
         \/ \E c \in Callers : StartStream(c) \/ StreamStep(c) \/ StreamFails(c)
<1> DEFINE Elsewhere == UNCHANGED <<stream, log, gone, scenario>>
<1>1. CASE \/ \E t \in Threads \union {NoThread} : ShowThread(t)
           \/ Subscribe \/ CloseTab \/ OpenTab \/ Appear
  <2>1. Elsewhere BY <1>1 DEF ShowThread, Subscribe, CloseTab, OpenTab, Appear, tokens
  <2> QED BY <2>1
<1>2. ASSUME NEW t \in Threads, Receive(t) \/ SetViewer(t) \/ ClearViewer(t) \/ FlagThread(t)
      PROVE  Elsewhere
  BY <1>2 DEF Receive, SetViewer, ClearViewer, FlagThread, tokens
<1>3. CASE FlagsExpire BY <1>3 DEF FlagsExpire, tokens
<1>4. ASSUME NEW k \in Keys, AckPublished(k) PROVE Elsewhere BY <1>4 DEF AckPublished, tokens
<1>5. ASSUME NEW c \in Callers, Notify(c) \/ Inform(c) \/ NotifyStep(c) PROVE Elsewhere
  <2>1. CASE Notify(c) \/ Inform(c) BY <2>1 DEF Notify, Inform, quiet, tokens
  <2>2. CASE NotifyStep(c)
    BY <2>2 DEF NotifyStep, OwnerUnknown, AppFlag, AppPresence, ThreadFlag, ThreadPresence,
                Publish, Answered, TimesOut, GiveUp, quiet, tokens
  <2> QED BY <1>5, <2>1, <2>2
<1>6. ASSUME NEW k, Raise("pause", k) \/ Lower("pause", k) \/ Raise("cancel", k) \/ Lower("cancel", k)
      PROVE  Elsewhere
  BY <1>6 DEF Raise, Lower, others
<1>7. CASE UNCHANGED vars BY <1>7 DEF vars
<1> QED BY <1>1, <1>2, <1>3, <1>4, <1>5, <1>6, <1>7 DEF Next

\* Each step keeps the invariant, and is a step of TokenStream or changes nothing of it.
LEMMA StreamMoves == StreamInv /\ [Next]_vars => StreamInv' /\ SeenStep
<1> SUFFICES ASSUME StreamInv, [Next]_vars PROVE StreamInv' /\ SeenStep OBVIOUS
<1>1. CASE UNCHANGED <<stream, log, gone, scenario>> BY <1>1, ElsewhereKeepsStreams
<1>2. ASSUME NEW c \in Callers, StartStream(c) PROVE StreamInv' /\ SeenStep BY <1>2, StartGoes
<1>3. ASSUME NEW c \in Callers, StreamStep(c) PROVE StreamInv' /\ SeenStep
  BY <1>3, LookUpGoes, TokenGoes, CheckCancelGoes, CheckPauseGoes, LastTokenGoes, FlushRestGoes,
     PauseAgainGoes, CancelAgainGoes, RecoverGoes, EndGoes, DeleteGoes DEF StreamStep
<1>4. ASSUME NEW c \in Callers, StreamFails(c) PROVE StreamInv' /\ SeenStep
  BY <1>4, StreamFailsGoes
<1> QED BY <1>1, <1>2, <1>3, <1>4, StreamUse

\* The invariant of the streams.
LEMMA StreamsAreRight == Spec => []StreamInv
<1>1. StreamInv /\ [Next]_vars => StreamInv' BY StreamMoves
<1> QED BY <1>1, StreamInvInit, PTL DEF Spec

(* The end of a token stream is the last entry of its job, behind every token    *)
(* of the answer, each there once and in order. Where a flag cut the loop and    *)
(* was gone when it was read again (stream_core.py:178-200), the answer is what  *)
(* came before the cut, and still all of it stands before the end.               *)
THEOREM EndsComeLast == Spec => []EndComesLast
<1>1. StreamInv => EndComesLast BY DEF StreamInv
<1> QED BY <1>1, StreamsAreRight, PTL

(* A stream that completed before a viewer has removed from Redis all that its   *)
(* task had added when the recovery read its last page, an earlier job's tokens  *)
(* included, however many pages they fill and whoever else adds to the stream    *)
(* meanwhile (recover_task_tokens).                                              *)
THEOREM NothingIsLeft == Spec => []NothingLeft
<1>1. StreamInv => NothingLeft
  <2> SUFFICES ASSUME StreamInv, NEW c \in Callers, stream[c].at = "completed", stream[c].viewers,
                      NEW i \in Live, log[i].task = TaskOf[c]
               PROVE  i > stream[c].upto
    BY DEF NothingLeft
  <2>1. ~(i <= stream[c].upto) BY DEF StreamInv, Collected
  <2>2. stream[c].upto \in Nat BY DEF StreamInv, StreamTypes, Streams
  <2>3. i \in Nat
    <3>1. Len(log) \in Nat BY LenProperties DEF StreamInv, StreamTypes
    <3> QED BY <3>1 DEF Live
  <2> QED BY <2>1, <2>2, <2>3
<1> QED BY <1>1, StreamsAreRight, PTL

(* The writers of the token stream keep the promises of TokenStream to its       *)
(* readers, for any number of jobs and tokens and any order in which the flags   *)
(* are set and cleared (run_stream_core, recover_task_tokens): the tokens of a   *)
(* job come once and in order, its end behind the last of its answer, and only   *)
(* behind that end entries of its task are removed.                              *)
THEOREM StreamRefinement == Spec => ImplementsTokenStream
<1>1. Init => Stream!Init
  <2> SUFFICES ASSUME Init PROVE Stream!Init OBVIOUS
  <2>1. scenario.tokens \in Nat /\ log = <<>> /\ gone = {} BY ScenariosAreCounts DEF Init
  <2>2. \A c \in Callers : stream[c].cut = FALSE BY DEF Init, NoStream
  <2>3. [c \in Callers |-> IF stream[c].cut THEN stream[c].seq - 1 ELSE scenario.tokens]
          = [c \in Callers |-> scenario.tokens]
    BY <2>2
  <2> QED BY <2>1, <2>3 DEF Stream!Init
<1>2. StreamInv /\ [Next]_vars => SeenStep BY StreamMoves
<1> QED BY <1>1, <1>2, StreamsAreRight, PTL DEF Spec, SeenStep, ImplementsTokenStream, Stream!Spec
===============================================================================
