--------------------------- MODULE ThreadPageProofs ---------------------------
(* Proofs about ThreadPage, for every number of threads, pages, writes, forks    *)
(* and failures.                                                                 *)
(*                                                                              *)
(* The refs of useThreadData are a protocol between the events of the socket and *)
(* the requests in flight: FetchSound says what they keep. The functions of the  *)
(* hook are proved to keep it one by one, for any page, and every action is one  *)
(* of them at one page.                                                          *)
EXTENDS ThreadPage, WellFoundedInduction, TLAPS

(* The type of every variable.                                                  *)

Statuses == {"none", "running", "ended"}
TaskStates == {"over", "paused", "running"}
Fetched == [rev : Nat \union {-1}, status : Statuses, versions : SUBSET Nat, task : TaskStates]
Entries == [main : Fetched, rows : Fetched]
Parts == {"main", "rows"}
PageRecord ==
  [thread : Threads, main : Fetched, rows : Fetched, target : Nat, active : Nat,
   pending : BOOLEAN, dirty : BOOLEAN, missed : BOOLEAN, reads : Seq(Entries),
   given : BOOLEAN, info : BOOLEAN, asking : BOOLEAN, link : {"off", "on", "draining"},
   pos : Nat, handled : Nat, forking : Nat, retry : BOOLEAN, retrying : BOOLEAN,
   renewing : BOOLEAN]

ThreadRecord == [rev : Nat, status : Statuses, versions : SUBSET Nat, fork : Nat, due : Nat,
                 task : TaskStates, redo : BOOLEAN, late : Nat]
Bounds == [start : {"new", "running", "ended"}, mounts : Nat, writes : Nat, forks : Nat,
           retries : Nat, failures : Nat, task : {"over", "paused"}]

TypeOK ==
    /\ server \in [Threads -> ThreadRecord]
    /\ owed \in [Threads -> Nat] /\ log \in [Threads -> Nat]
    /\ pages \in Seq(PageRecord) /\ now \in 0..Len(pages)
    /\ posting \in Threads \union {NoThread} /\ live \in SUBSET Threads
    /\ cache \in [Threads -> Entries]
    /\ left \in Bounds

(* Every event is one of a write that was made, and no version is beyond the    *)
(* newest fork.                                                                 *)
EventsWritten == \A t \in Threads : log[t] + owed[t] <= server[t].rev
NewestFork == \A t \in Threads : \A v \in server[t].versions : v <= server[t].fork

(* Nothing in the browser is newer than the thread.                             *)
Known(t, f) == f.rev <= server[t].rev
PageKnown(p) ==
    /\ Known(p.thread, p.main) /\ Known(p.thread, p.rows)
    /\ \A i \in DOMAIN p.reads, part \in Parts : Known(p.thread, p.reads[i][part])
    /\ p.handled <= log[p.thread]
CacheKnown == \A t \in Threads : Known(t, cache[t].main) /\ Known(t, cache[t].rows)

(* A page has one fetch in flight, or none; what the fetch has read is at least *)
(* as new as what the page shows and, unless a refresh is remembered, as the    *)
(* events it has handled.                                                       *)
Fresh(f, rev) == f = None \/ f.rev >= rev
FetchSound(p) ==
    /\ Len(p.reads) = IF p.pending THEN 1 ELSE 0
    /\ \A i \in DOMAIN p.reads :
         /\ Fresh(p.reads[i].main, p.main.rev) /\ Fresh(p.reads[i].rows, p.rows.rev)
         /\ ~p.dirty => Fresh(p.reads[i].main, p.handled) /\ Fresh(p.reads[i].rows, p.handled)

(* The page that is mounted shows what it has handled, unless it fetches.       *)
Caught(p) == ~p.pending /\ ~p.missed => p.main.rev >= p.handled /\ p.rows.rev >= p.handled

-------------------------------------------------------------------------------
(* Pages.                                                                        *)

SameFace(p, q) ==
    /\ q.thread = p.thread /\ q.main = p.main /\ q.rows = p.rows
    /\ q.handled = p.handled
SameFetch(p, q) ==
    /\ q.pending = p.pending /\ q.dirty = p.dirty /\ q.missed = p.missed /\ q.reads = p.reads

\* What has not been read stands for no revision.
LEMMA NothingIsRead ==
  /\ None \in Fetched /\ NoEntry \in Entries
  /\ NoEntry.main = None /\ NoEntry.rows = None /\ None.rev = -1
BY DEF None, NoEntry, Fetched, Entries, Statuses, TaskStates

\* A page with the same face and fetch is as sound.
LEMMA SameIsSound ==
  ASSUME NEW p \in PageRecord, NEW q \in PageRecord, SameFace(p, q), SameFetch(p, q)
  PROVE  /\ PageKnown(p) => PageKnown(q)
         /\ FetchSound(p) => FetchSound(q)
         /\ Caught(p) => Caught(q)
BY DEF SameFace, SameFetch, PageKnown, FetchSound, Caught

\* Beginning a fetch.
LEMMA StartKeeps ==
  ASSUME NEW p \in PageRecord
  PROVE  /\ Start(p) \in PageRecord /\ SameFace(p, Start(p))
         /\ Start(p).pending = TRUE /\ Start(p).dirty = FALSE /\ Start(p).missed = FALSE
         /\ Start(p).reads = Append(p.reads, NoEntry)
<1>1. Append(p.reads, NoEntry) \in Seq(Entries) BY NothingIsRead DEF PageRecord
<1> QED BY <1>1 DEF Start, PageRecord, SameFace

LEMMA StartIsSound ==
  ASSUME TypeOK, NEW p \in PageRecord, PageKnown(p), p.reads = <<>>
  PROVE  PageKnown(Start(p)) /\ FetchSound(Start(p)) /\ Caught(Start(p))
<1> DEFINE q == Start(p)
<1>0. \A e : Append(<<>>, e) = <<e>> OBVIOUS
<1>1. q \in PageRecord /\ SameFace(p, q) /\ q.pending = TRUE /\ q.reads = <<NoEntry>>
  BY <1>0, StartKeeps
<1> HIDE DEF q
<1>2. \A i \in DOMAIN q.reads : q.reads[i].main = None /\ q.reads[i].rows = None
  BY <1>1, NothingIsRead
<1>3. p.thread \in Threads /\ server[p.thread].rev \in Nat BY DEF PageRecord, TypeOK, ThreadRecord
<1>4. PageKnown(q)
  <2>1. \A i \in DOMAIN q.reads, part \in Parts : q.reads[i][part] = None BY <1>2 DEF Parts
  <2>2. Known(q.thread, None) BY <1>1, <1>3, NothingIsRead DEF Known, SameFace
  <2> QED BY <1>1, <2>1, <2>2 DEF PageKnown, SameFace
<1>5. FetchSound(q) BY <1>1, <1>2 DEF FetchSound, Fresh
<1>6. Caught(q) BY <1>1 DEF Caught
<1> QED BY <1>4, <1>5, <1>6 DEF q

\* refresh: the events handled may have become more.
LEMMA RefreshIsSound ==
  ASSUME TypeOK, NEW p \in PageRecord, PageKnown(p),
         Len(p.reads) = IF p.pending THEN 1 ELSE 0,
         \A i \in DOMAIN p.reads :
           Fresh(p.reads[i].main, p.main.rev) /\ Fresh(p.reads[i].rows, p.rows.rev)
  PROVE  /\ Refresh(p) \in PageRecord /\ SameFace(p, Refresh(p))
         /\ PageKnown(Refresh(p)) /\ FetchSound(Refresh(p)) /\ Caught(Refresh(p))
<1>1. CASE p.pending
  <2> DEFINE q == [p EXCEPT !.dirty = TRUE]
  <2>1. Refresh(p) = q BY <1>1 DEF Refresh
  <2>2. q \in PageRecord /\ SameFace(p, q) BY DEF PageRecord, SameFace
  <2>3. q.pending = p.pending /\ q.dirty = TRUE /\ q.missed = p.missed /\ q.reads = p.reads
    BY DEF PageRecord
  <2> HIDE DEF q
  <2>4. PageKnown(q) BY <2>2, <2>3 DEF PageKnown, SameFace
  <2>5. FetchSound(q) BY <2>2, <2>3 DEF FetchSound, SameFace
  <2>6. Caught(q) BY <1>1, <2>3 DEF Caught
  <2> QED BY <2>1, <2>2, <2>4, <2>5, <2>6
<1>2. CASE ~p.pending
  <2>1. Refresh(p) = Start(p) BY <1>2 DEF Refresh
  <2>2. p.reads = <<>> BY <1>2 DEF PageRecord
  <2> QED BY <2>1, <2>2, StartKeeps, StartIsSound
<1> QED BY <1>1, <1>2

\* finally: the fetch is over; what it showed is new enough, or it is fetched again.
LEMMA SettleIsSound ==
  ASSUME TypeOK, NEW p \in PageRecord, PageKnown(p), NEW i \in DOMAIN p.reads,
         Len(p.reads) = IF p.pending THEN 1 ELSE 0,
         NEW m,
         m = now /\ ~p.dirty /\ ~p.missed => p.main.rev >= p.handled /\ p.rows.rev >= p.handled
  PROVE  /\ Settle(p, i) \in PageRecord /\ SameFace(p, Settle(p, i))
         /\ PageKnown(Settle(p, i)) /\ FetchSound(Settle(p, i))
         /\ m = now => Caught(Settle(p, i))
<1> DEFINE q == [p EXCEPT !.pending = FALSE, !.reads = RemoveAt(@, i)]
<1>1. Len(p.reads) = 1 /\ i = 1 /\ p.reads \in Seq(Entries)
  BY DEF PageRecord
<1>2. RemoveAt(p.reads, i) = <<>> BY <1>1 DEF RemoveAt
<1>3. q \in PageRecord /\ SameFace(p, q)
  <2>1. q = [p EXCEPT !.pending = FALSE, !.reads = <<>>] BY <1>2
  <2>2. <<>> \in Seq(Entries) OBVIOUS
  <2> HIDE DEF q
  <2> QED BY <2>1, <2>2 DEF PageRecord, SameFace
<1>4. q.pending = FALSE /\ q.dirty = p.dirty /\ q.missed = p.missed /\ q.reads = <<>>
  BY <1>2 DEF PageRecord
<1>5. Settle(p, i) = IF q.dirty THEN Start(q) ELSE q BY DEF Settle
<1> HIDE DEF q
<1>6. PageKnown(q) BY <1>3, <1>4 DEF PageKnown, SameFace
<1>7. FetchSound(q) BY <1>4 DEF FetchSound
<1>8. CASE q.dirty
  <2>1. Start(q) \in PageRecord /\ SameFace(q, Start(q)) BY <1>3, StartKeeps
  <2>2. SameFace(p, Start(q)) BY <1>3, <2>1 DEF SameFace
  <2> QED BY <1>3, <1>4, <1>5, <1>6, <1>8, <2>1, <2>2, StartIsSound
<1>9. CASE ~q.dirty
  <2>1. m = now => Caught(q) BY <1>3, <1>4, <1>9 DEF Caught, SameFace
  <2> QED BY <1>3, <1>5, <1>6, <1>7, <1>9, <2>1
<1> QED BY <1>8, <1>9

\* Whether the page waits for a retry is neither shown nor of the fetch.
LEMMA AwaitedKeeps ==
  ASSUME NEW p \in PageRecord
  PROVE  Awaited(p) \in PageRecord /\ SameFetch(p, Awaited(p)) /\ SameFace(p, Awaited(p))
<1>1. (p.retry /\ p.rows.task # "over") \in BOOLEAN OBVIOUS
<1> QED BY <1>1 DEF Awaited, PageRecord, SameFetch, SameFace

\* Neither are the branch and the socket.
LEMMA SwitchedKeeps ==
  ASSUME NEW p \in PageRecord
  PROVE  Switched(p) \in PageRecord /\ SameFetch(p, Switched(p)) /\ SameFace(p, Switched(p))
<1> DEFINE q == [p EXCEPT !.active = p.target, !.target = 0]
<1>1. q \in PageRecord /\ SameFetch(p, q) /\ SameFace(p, q) BY DEF PageRecord, SameFetch, SameFace
<1>2. Switched(p) = q \/ Switched(p) = p BY DEF Switched
<1> HIDE DEF q
<1> QED BY <1>1, <1>2 DEF SameFetch, SameFace

LEMMA LinkedKeeps ==
  ASSUME NEW p \in PageRecord
  PROVE  Linked(p) \in PageRecord /\ SameFetch(p, Linked(p)) /\ SameFace(p, Linked(p))
<1> DEFINE q == [p EXCEPT !.link = "draining"]
<1>1. q \in PageRecord /\ SameFetch(p, q) /\ SameFace(p, q) BY DEF PageRecord, SameFetch, SameFace
<1>2. Linked(p) = q \/ Linked(p) = p BY DEF Linked
<1> HIDE DEF q
<1> QED BY <1>1, <1>2 DEF SameFetch, SameFace

LEMMA TokensKeep ==
  ASSUME NEW p \in PageRecord
  PROVE  /\ WithTokens(p) \in PageRecord
         /\ SameFetch(p, WithTokens(p)) /\ SameFace(p, WithTokens(p))
<1> DEFINE link == IF p.link = "on" THEN "draining" ELSE p.link
<1>1. link \in {"off", "on", "draining"} BY DEF PageRecord
<1>2. WithTokens(p) = [p EXCEPT !.info = TRUE, !.link = link] BY DEF WithTokens
<1> HIDE DEF link
<1> QED BY <1>1, <1>2 DEF PageRecord, SameFetch, SameFace

\* Showing an answer changes what is shown, and neither the requests nor the events handled.
LEMMA ShowKeeps ==
  ASSUME NEW p \in PageRecord, NEW e \in Entries
  PROVE  /\ Show(p, e) \in PageRecord /\ SameFetch(p, Show(p, e))
         /\ Show(p, e).main = e.main /\ Show(p, e).rows = e.rows
         /\ Show(p, e).thread = p.thread /\ Show(p, e).handled = p.handled
<1> DEFINE o == [p EXCEPT !.main = e.main, !.rows = e.rows]
           a == Awaited(o)
           b == Switched(a)
           c == Asks(b)
           d == Linked(c)
<1>0. /\ o \in PageRecord /\ SameFetch(p, o) /\ o.main = e.main /\ o.rows = e.rows
      /\ o.thread = p.thread /\ o.handled = p.handled
  BY DEF PageRecord, Entries, SameFetch
<1> HIDE DEF o
<1>1. /\ a \in PageRecord /\ SameFetch(p, a) /\ a.main = e.main /\ a.rows = e.rows
      /\ a.thread = p.thread /\ a.handled = p.handled
  BY <1>0, AwaitedKeeps DEF SameFetch, SameFace
<1> HIDE DEF a
<1>2. b \in PageRecord /\ SameFetch(a, b) /\ SameFace(a, b)
  BY <1>1, SwitchedKeeps
<1> HIDE DEF b
<1>3. c \in PageRecord /\ SameFetch(b, c) /\ SameFace(b, c)
  BY <1>2 DEF Asks, PageRecord, SameFetch, SameFace
<1> HIDE DEF c
<1>4. d \in PageRecord /\ SameFetch(c, d) /\ SameFace(c, d)
  BY <1>3, LinkedKeeps
<1>5. Show(p, e) = d BY DEF Show, o, a, b, c
<1> HIDE DEF d
<1> QED BY <1>1, <1>2, <1>3, <1>4, <1>5 DEF SameFetch, SameFace

-------------------------------------------------------------------------------
(* The invariant, and what a step is.                                            *)

PageInv(m) ==
    /\ PageKnown(pages[m]) /\ FetchSound(pages[m])
    /\ m = now => Caught(pages[m])
IInv ==
    /\ TypeOK /\ EventsWritten /\ NewestFork /\ CacheKnown
    /\ \A m \in DOMAIN pages : PageInv(m)

NotOlder ==
    now # 0 /\ now' = now =>
      /\ pages[now].main.rev <= pages'[now].main.rev
      /\ pages[now].rows.rev <= pages'[now].rows.rev

\* What is known stays known while the thread is written and events are published.
LEMMA KnownStays ==
  ASSUME TypeOK, \A t \in Threads : server'[t].rev >= server[t].rev /\ log'[t] >= log[t],
         server' \in [Threads -> ThreadRecord],
         log' \in [Threads -> Nat],
         NEW p \in PageRecord, PageKnown(p)
  PROVE  PageKnown(p)'
<1>1. p.thread \in Threads /\ p.main.rev \in Int /\ p.rows.rev \in Int /\ p.handled \in Int
  BY DEF PageRecord, Fetched
<1>2. \A i \in DOMAIN p.reads, part \in Parts : p.reads[i][part].rev \in Int
  <2> SUFFICES ASSUME NEW i \in DOMAIN p.reads PROVE \A part \in Parts : p.reads[i][part].rev \in Int
    OBVIOUS
  <2>1. p.reads[i] \in Entries BY DEF PageRecord
  <2> QED BY <2>1 DEF Entries, Fetched, Parts
<1>3. \A r \in Int : r <= server[p.thread].rev => r <= server'[p.thread].rev
  <2>1. server[p.thread].rev \in Nat /\ server'[p.thread].rev \in Nat BY <1>1 DEF TypeOK, ThreadRecord
  <2>2. server'[p.thread].rev >= server[p.thread].rev BY <1>1
  <2> QED BY <2>1, <2>2
<1>4. \A r \in Int : r <= log[p.thread] => r <= log'[p.thread]
  <2>1. log[p.thread] \in Nat /\ log'[p.thread] \in Nat BY <1>1 DEF TypeOK
  <2>2. log'[p.thread] >= log[p.thread] BY <1>1
  <2> QED BY <2>1, <2>2
<1> QED BY <1>1, <1>2, <1>3, <1>4 DEF PageKnown, Known

LEMMA PageRevs ==
  ASSUME NEW p \in PageRecord
  PROVE  p.main.rev \in Int /\ p.rows.rev \in Int
<1>1. p.main \in Fetched /\ p.rows \in Fetched BY DEF PageRecord
<1>2. \A f \in Fetched : f.rev \in Int BY DEF Fetched
<1> QED BY <1>1, <1>2

\* A step at one page, whose new state is sound.
LEMMA OnePage ==
  ASSUME IInv, TypeOK', EventsWritten', NewestFork', CacheKnown',
         \A t \in Threads : server'[t].rev >= server[t].rev /\ log'[t] >= log[t],
         NEW m \in DOMAIN pages, NEW q \in PageRecord, SetPage(m, q), now' = now,
         PageKnown(q), FetchSound(q), m = now => Caught(q),
         m = now => pages[m].main.rev <= q.main.rev /\ pages[m].rows.rev <= q.rows.rev
  PROVE  IInv' /\ NotOlder
<1>0. TypeOK BY DEF IInv
<1>1. pages' = [pages EXCEPT ![m] = q] BY DEF SetPage
<1>2. DOMAIN pages' = DOMAIN pages BY <1>1
<1>3. ASSUME NEW j \in DOMAIN pages PROVE PageInv(j)'
  <2>1. PageKnown(pages[j]) /\ FetchSound(pages[j]) /\ (j = now => Caught(pages[j]))
        /\ pages[j] \in PageRecord
    BY <1>0 DEF IInv, PageInv, TypeOK
  <2>2. PICK r \in PageRecord :
          r = pages'[j] /\ PageKnown(r) /\ FetchSound(r) /\ (j = now => Caught(r))
    BY <1>1, <2>1
  <2>3. PageKnown(r)' BY <1>0, <2>2, KnownStays DEF TypeOK
  <2> QED BY <2>2, <2>3 DEF PageInv, PageKnown, Known, FetchSound, Caught
<1>4. NotOlder
  <2> SUFFICES ASSUME now # 0
               PROVE  /\ pages[now].main.rev <= pages'[now].main.rev
                      /\ pages[now].rows.rev <= pages'[now].rows.rev
    BY DEF NotOlder
  <2>1. now \in DOMAIN pages BY <1>0 DEF TypeOK
  <2>2. pages[now] \in PageRecord BY <1>0, <2>1 DEF TypeOK
  <2>3. pages[now].main.rev \in Int /\ pages[now].rows.rev \in Int BY <2>2, PageRevs
  <2>4. CASE m = now BY <1>1, <2>1, <2>4
  <2>5. CASE m # now
    <3>1. pages'[now] = pages[now] BY <1>1, <2>1, <2>5
    <3> QED BY <2>3, <3>1
  <2> QED BY <2>4, <2>5
<1> QED BY <1>2, <1>3, <1>4 DEF IInv

\* A step of the backend alone.
LEMMA NoPage ==
  ASSUME IInv, TypeOK', EventsWritten', NewestFork',
         \A t \in Threads : server'[t].rev >= server[t].rev /\ log'[t] >= log[t],
         UNCHANGED <<pages, now, cache>>
  PROVE  IInv' /\ NotOlder
<1>0. TypeOK BY DEF IInv
<1>1. CacheKnown'
  <2>1. \A t \in Threads : /\ cache[t].main.rev \in Int /\ cache[t].rows.rev \in Int
                           /\ server[t].rev \in Int /\ server'[t].rev \in Int
    <3> SUFFICES ASSUME NEW t \in Threads
                 PROVE  /\ cache[t].main.rev \in Int /\ cache[t].rows.rev \in Int
                        /\ server[t].rev \in Int /\ server'[t].rev \in Int
      OBVIOUS
    <3>1. cache[t] \in Entries BY <1>0 DEF TypeOK
    <3>2. server[t].rev \in Int /\ server'[t].rev \in Int BY <1>0 DEF TypeOK, ThreadRecord
    <3> QED BY <3>1, <3>2 DEF Entries, Fetched
  <2>2. \A t \in Threads : cache[t].main.rev <= server[t].rev /\ cache[t].rows.rev <= server[t].rev
    BY DEF IInv, CacheKnown, Known
  <2>3. \A t \in Threads : cache[t].main.rev <= server'[t].rev /\ cache[t].rows.rev <= server'[t].rev
    BY <2>1, <2>2
  <2> QED BY <2>3 DEF CacheKnown, Known
<1>2. ASSUME NEW j \in DOMAIN pages PROVE PageInv(j)'
  <2>1. PICK r \in PageRecord :
          r = pages[j] /\ PageKnown(r) /\ FetchSound(r) /\ (j = now => Caught(r))
    BY <1>0 DEF IInv, PageInv, TypeOK
  <2>2. PageKnown(r)' BY <1>0, <2>1, KnownStays DEF TypeOK
  <2> QED BY <2>1, <2>2 DEF PageInv, PageKnown, Known, FetchSound, Caught
<1>3. NotOlder
  <2> SUFFICES ASSUME now # 0
               PROVE  /\ pages[now].main.rev <= pages[now].main.rev
                      /\ pages[now].rows.rev <= pages[now].rows.rev
    BY DEF NotOlder
  <2>1. now \in DOMAIN pages BY <1>0 DEF TypeOK
  <2>2. pages[now] \in PageRecord BY <1>0, <2>1 DEF TypeOK
  <2> QED BY <2>2 DEF PageRecord, Fetched
<1> QED BY <1>1, <1>2, <1>3 DEF IInv

-------------------------------------------------------------------------------
(* The backend.                                                                  *)

\* What a write makes of the record of its thread.
LEMMA WrittenKeeps ==
  ASSUME TypeOK, NEW t \in Threads
  PROVE  /\ Written(server[t]) \in ThreadRecord
         /\ Written(server[t]).rev = server[t].rev + 1
         /\ Written(server[t]).fork = server[t].fork
         /\ Written(server[t]).versions = server[t].versions
<1>1. server[t] \in ThreadRecord /\ server[t].rev + 1 \in Nat BY DEF TypeOK, ThreadRecord
<1> DEFINE new == IF server[t].status = "ended" THEN server[t].rev + 1 ELSE server[t].late
<1>2. new \in Nat BY <1>1 DEF ThreadRecord
<1>3. Written(server[t]) = [server[t] EXCEPT !.rev = server[t].rev + 1, !.late = new]
  BY DEF Written
<1> HIDE DEF new
<1> QED BY <1>1, <1>2, <1>3 DEF ThreadRecord

\* A write of the backend: its event is owed, and nothing known becomes newer than the thread.
LEMMA WriteIsSound ==
  ASSUME IInv, NEW t \in Threads, NEW s \in ThreadRecord, Writes(t, s), UNCHANGED <<log, cache>>,
         s.rev = server[t].rev + 1, \A v \in s.versions : v <= s.fork
  PROVE  /\ server' \in [Threads -> ThreadRecord] /\ owed' \in [Threads -> Nat]
         /\ EventsWritten' /\ NewestFork' /\ CacheKnown'
         /\ \A u \in Threads : server'[u].rev >= server[u].rev /\ log'[u] >= log[u]
<1>0. TypeOK BY DEF IInv
<1>1. server' = [server EXCEPT ![t] = s] /\ owed' = [owed EXCEPT ![t] = @ + 1] BY DEF Writes
<1>2. server' \in [Threads -> ThreadRecord] BY <1>0, <1>1 DEF TypeOK
<1>3. owed' \in [Threads -> Nat] BY <1>0, <1>1 DEF TypeOK
<1>4. \A u \in Threads : /\ server[u].rev \in Nat /\ server'[u].rev \in Nat
                         /\ log[u] \in Nat /\ log'[u] = log[u] /\ owed[u] \in Nat
  BY <1>0, <1>2 DEF TypeOK, ThreadRecord
<1>5. \A u \in Threads : server'[u].rev >= server[u].rev /\ log'[u] >= log[u]
  <2> SUFFICES ASSUME NEW u \in Threads PROVE server'[u].rev >= server[u].rev /\ log'[u] >= log[u]
    OBVIOUS
  <2>1. CASE u = t BY <1>0, <1>1, <1>4, <2>1 DEF TypeOK
  <2>2. CASE u # t
    <3>1. server'[u] = server[u] BY <1>0, <1>1, <2>2 DEF TypeOK
    <3> QED BY <1>4, <3>1
  <2> QED BY <2>1, <2>2
<1>6. EventsWritten'
  <2> SUFFICES ASSUME NEW u \in Threads PROVE log'[u] + owed'[u] <= server'[u].rev
    BY DEF EventsWritten
  <2>1. log[u] + owed[u] <= server[u].rev BY DEF IInv, EventsWritten
  <2>2. CASE u = t
    <3>1. server'[t].rev = server[t].rev + 1 /\ owed'[t] = owed[t] + 1
      BY <1>0, <1>1 DEF TypeOK
    <3> QED BY <1>4, <2>1, <2>2, <3>1
  <2>3. CASE u # t
    <3>1. server'[u] = server[u] /\ owed'[u] = owed[u] BY <1>0, <1>1, <2>3 DEF TypeOK
    <3> QED BY <1>4, <2>1, <3>1
  <2> QED BY <2>2, <2>3
<1>7. NewestFork'
  <2> SUFFICES ASSUME NEW u \in Threads, NEW v \in server'[u].versions
               PROVE  v <= server'[u].fork
    BY DEF NewestFork
  <2>1. server'[u] = IF u = t THEN s ELSE server[u] BY <1>0, <1>1 DEF TypeOK
  <2> QED BY <2>1 DEF IInv, NewestFork
<1>8. CacheKnown'
  <2> SUFFICES ASSUME NEW u \in Threads
               PROVE  /\ cache[u].main.rev <= server'[u].rev
                      /\ cache[u].rows.rev <= server'[u].rev
    BY DEF CacheKnown, Known
  <2>1. cache[u].main.rev <= server[u].rev /\ cache[u].rows.rev <= server[u].rev
    BY DEF IInv, CacheKnown, Known
  <2>2. cache[u] \in Entries BY <1>0 DEF TypeOK
  <2>3. cache[u].main.rev \in Int /\ cache[u].rows.rev \in Int BY <2>2 DEF Entries, Fetched
  <2> QED BY <1>4, <1>5, <2>1, <2>3
<1> QED BY <1>2, <1>3, <1>5, <1>6, <1>7, <1>8

\* Runs and retried tasks write and end, events are published or lost, a thread is submitted.
LEMMA BackendSteps ==
  ASSUME IInv, NEW t \in Threads, Backend(t) \/ Publish(t)
  PROVE  IInv' /\ NotOlder
<1>0. TypeOK /\ EventsWritten /\ NewestFork BY DEF IInv
<1>1. /\ server[t] \in ThreadRecord /\ owed[t] \in Nat /\ log[t] \in Nat
      /\ server[t].rev \in Nat /\ server[t].fork \in Nat /\ server[t].due \in Nat
  BY <1>0 DEF TypeOK, ThreadRecord
<1>u. owed[t] + 1 \in Nat /\ server[t].rev + 1 \in Nat BY <1>1
<1>2. log[t] + owed[t] <= server[t].rev /\ \A v \in server[t].versions : v <= server[t].fork
  BY <1>0 DEF EventsWritten, NewestFork
<1> DEFINE w == Written(server[t])
<1>w. /\ w \in ThreadRecord /\ w.rev = server[t].rev + 1 /\ w.fork = server[t].fork
      /\ w.versions = server[t].versions
  BY <1>0, WrittenKeeps
<1> HIDE DEF w
<1>x. ASSUME NEW s \in ThreadRecord, Writes(t, s), UNCHANGED <<log, pages, app, cache, left>>,
             s.rev = server[t].rev + 1, \A v \in s.versions : v <= s.fork
      PROVE  IInv' /\ NotOlder
  <2>1. /\ server' \in [Threads -> ThreadRecord] /\ owed' \in [Threads -> Nat]
        /\ EventsWritten' /\ NewestFork'
        /\ \A u \in Threads : server'[u].rev >= server[u].rev /\ log'[u] >= log[u]
    BY <1>x, WriteIsSound
  <2>2. TypeOK' BY <1>0, <1>x, <2>1 DEF TypeOK, app
  <2> QED BY <1>x, <2>1, <2>2, NoPage DEF app
<1>3. CASE Write(t)
  <2> DEFINE s == [w EXCEPT !.due = @ - 1, !.versions = @ \union {server[t].fork}]
  <2>1. /\ Writes(t, s) /\ server[t].due > 0 /\ UNCHANGED <<log, pages, app, cache, left>>
    BY <1>3 DEF Write, w
  <2>2. s \in ThreadRecord /\ s.rev = w.rev /\ s.fork = w.fork
        /\ s.versions = w.versions \union {server[t].fork}
    <3>1. w.due = server[t].due BY <1>1 DEF w, Written, ThreadRecord
    <3>2. w.due - 1 \in Nat BY <1>1, <2>1, <3>1
    <3>3. w.versions \union {server[t].fork} \in SUBSET Nat BY <1>1, <1>w DEF ThreadRecord
    <3> QED BY <1>w, <3>2, <3>3 DEF ThreadRecord
  <2> HIDE DEF s
  <2>3. \A v \in s.versions : v <= s.fork BY <1>1, <1>2, <1>w, <2>2
  <2> QED BY <1>w, <1>x, <2>1, <2>2, <2>3
<1>4. CASE End(t) \/ TaskEnds(t)
  <2> DEFINE ended == [w EXCEPT !.status = "ended", !.redo = FALSE]
             over == [w EXCEPT !.task = "over", !.due = left.writes, !.redo = TRUE]
  <2>1. UNCHANGED <<log, pages, app, cache, left>> /\ (Writes(t, ended) \/ Writes(t, over))
    BY <1>4, Zenon DEF End, TaskEnds, w
  <2>2. left.writes \in Nat BY <1>0 DEF TypeOK, Bounds
  <2>3. /\ ended \in ThreadRecord /\ ended.rev = w.rev /\ ended.fork = w.fork
        /\ ended.versions = w.versions
    BY <1>w DEF ThreadRecord, Statuses
  <2>4. over \in ThreadRecord /\ over.rev = w.rev /\ over.fork = w.fork /\ over.versions = w.versions
    BY <1>w, <2>2 DEF ThreadRecord, TaskStates
  <2> HIDE DEF ended, over
  <2> QED BY <1>2, <1>w, <1>x, <2>1, <2>3, <2>4
<1>5. CASE Submit(t)
  <2> DEFINE s == [server[t] EXCEPT !.status = "running"]
  <2>1. /\ server' = [server EXCEPT ![t] = s] /\ posting' = t
        /\ UNCHANGED <<owed, log, pages, now, live, cache, left>>
    BY <1>5 DEF Submit
  <2>2. s \in ThreadRecord /\ s.rev = server[t].rev /\ s.fork = server[t].fork
        /\ s.versions = server[t].versions
    BY <1>1, <1>u DEF ThreadRecord, Statuses
  <2> HIDE DEF s
  <2>3. TypeOK' BY <1>0, <1>1, <2>1, <2>2 DEF TypeOK
  <2>4. EventsWritten' BY <1>0, <1>1, <1>2, <2>1, <2>2 DEF EventsWritten, TypeOK
  <2>5. NewestFork' BY <1>0, <1>1, <1>2, <2>1, <2>2 DEF NewestFork, TypeOK
  <2>6. \A u \in Threads : server'[u].rev >= server[u].rev /\ log'[u] >= log[u]
    BY <1>0, <1>1, <2>1, <2>2 DEF TypeOK, ThreadRecord
  <2> QED BY <2>1, <2>3, <2>4, <2>5, <2>6, NoPage
<1>6. CASE Skip(t) \/ Publish(t)
  <2>1. /\ owed[t] > 0 /\ owed' = [owed EXCEPT ![t] = @ - 1]
        /\ (log' = log \/ log' = [log EXCEPT ![t] = @ + 1])
        /\ UNCHANGED <<server, pages, app, cache, left>>
    BY <1>6 DEF Skip, Publish, Published
  <2>2. owed[t] - 1 \in Nat /\ log[t] + 1 \in Nat BY <1>1, <2>1
  <2>3. TypeOK' BY <1>0, <2>1, <2>2 DEF TypeOK, app
  <2>4. EventsWritten'
    <3> SUFFICES ASSUME NEW u \in Threads PROVE log'[u] + owed'[u] <= server'[u].rev
      BY DEF EventsWritten
    <3>0. log[u] + owed[u] <= server[u].rev BY <1>0 DEF EventsWritten
    <3>1. CASE u # t BY <1>0, <2>1, <3>0, <3>1 DEF TypeOK
    <3>2. CASE u = t
      <4>1. owed'[t] = owed[t] - 1 /\ (log'[t] = log[t] \/ log'[t] = log[t] + 1)
            /\ server' = server
        BY <1>0, <2>1 DEF TypeOK
      <4> QED BY <1>1, <1>2, <3>2, <4>1
    <3> QED BY <3>1, <3>2
  <2>5. NewestFork' BY <1>0, <2>1 DEF NewestFork
  <2>6. \A u \in Threads : server'[u].rev >= server[u].rev /\ log'[u] >= log[u]
    <3> SUFFICES ASSUME NEW u \in Threads
                 PROVE  server'[u].rev >= server[u].rev /\ log'[u] >= log[u]
      OBVIOUS
    <3>1. server[u].rev \in Nat /\ log[u] \in Nat BY <1>0 DEF TypeOK, ThreadRecord
    <3>2. server' = server /\ (log'[u] = log[u] \/ log'[u] = log[u] + 1)
      BY <1>0, <2>1 DEF TypeOK
    <3> QED BY <3>1, <3>2
  <2> QED BY <2>1, <2>3, <2>4, <2>5, <2>6, NoPage DEF app
<1> QED BY <1>3, <1>4, <1>5, <1>6 DEF Backend

-------------------------------------------------------------------------------
(* Mounting and leaving.                                                         *)

\* A page that is left keeps its fetch and shows nothing.
LEMMA UnmountedIsSound ==
  ASSUME TypeOK, NEW p \in PageRecord, PageKnown(p), FetchSound(p)
  PROVE  /\ Unmounted(p) \in PageRecord /\ PageKnown(Unmounted(p)) /\ FetchSound(Unmounted(p))
<1> DEFINE q == Unmounted(p)
<1>1. /\ q \in PageRecord /\ q.thread = p.thread /\ q.main = None /\ q.rows = None
      /\ q.reads = p.reads /\ q.pending = p.pending /\ q.dirty = p.dirty /\ q.handled = 0
  BY NothingIsRead DEF Unmounted, PageRecord
<1> HIDE DEF q
<1>2. p.thread \in Threads /\ server[p.thread].rev \in Nat /\ log[p.thread] \in Nat
      /\ p.handled \in Nat
  BY DEF PageRecord, TypeOK, ThreadRecord
<1>3. PageKnown(q) BY <1>1, <1>2, NothingIsRead DEF PageKnown, Known
<1>4. \A i \in DOMAIN q.reads :
        /\ Fresh(q.reads[i].main, -1) /\ Fresh(q.reads[i].rows, -1)
        /\ ~q.dirty => Fresh(q.reads[i].main, 0) /\ Fresh(q.reads[i].rows, 0)
  <2> SUFFICES ASSUME NEW i \in DOMAIN p.reads
               PROVE  /\ Fresh(p.reads[i].main, -1) /\ Fresh(p.reads[i].rows, -1)
                      /\ ~p.dirty => Fresh(p.reads[i].main, 0) /\ Fresh(p.reads[i].rows, 0)
    BY <1>1
  <2>1. p.reads[i] \in Entries BY DEF PageRecord
  <2>2. p.reads[i].main.rev \in Nat \union {-1} /\ p.reads[i].rows.rev \in Nat \union {-1}
    BY <2>1 DEF Entries, Fetched
  <2>3. ~p.dirty => Fresh(p.reads[i].main, p.handled) /\ Fresh(p.reads[i].rows, p.handled)
    BY DEF FetchSound
  <2> QED BY <1>2, <2>2, <2>3 DEF Fresh
<1>5. FetchSound(q) BY <1>1, <1>4, NothingIsRead DEF FetchSound
<1> QED BY <1>1, <1>3, <1>5 DEF q

\* The pages, after whoever is mounted is left.
LEMMA LeftIsSound ==
  ASSUME IInv
  PROVE  /\ Left \in Seq(PageRecord) /\ Len(Left) = Len(pages)
         /\ \A j \in 1..Len(pages) : PageKnown(Left[j]) /\ FetchSound(Left[j])
<1>0. TypeOK BY DEF IInv
<1>1. \A j \in 1..Len(pages) : pages[j] \in PageRecord /\ PageKnown(pages[j]) /\ FetchSound(pages[j])
  BY <1>0 DEF IInv, PageInv, TypeOK
<1>2. CASE now = 0 BY <1>0, <1>1, <1>2 DEF Left, TypeOK
<1>3. CASE now # 0
  <2>1. now \in 1..Len(pages) BY <1>0, <1>3 DEF TypeOK
  <2> DEFINE q == Unmounted(pages[now])
  <2>2. q \in PageRecord /\ PageKnown(q) /\ FetchSound(q) BY <1>0, <1>1, <2>1, UnmountedIsSound
  <2>3. Left = [pages EXCEPT ![now] = q] BY <1>3 DEF Left
  <2> HIDE DEF q
  <2> QED BY <1>0, <1>1, <2>1, <2>2, <2>3 DEF TypeOK
<1> QED BY <1>2, <1>3

\* A new page fetches first.
LEMMA PageIsSound ==
  ASSUME IInv, NEW t \in Threads
  PROVE  /\ Page(t) \in PageRecord /\ PageKnown(Page(t)) /\ FetchSound(Page(t)) /\ Caught(Page(t))
<1> DEFINE p == Seeded(t)
<1>0. TypeOK BY DEF IInv
<1>1. Page(t) = Start(p) BY DEF Page
<1>2. p \in PageRecord
  <2>1. cache[t] \in Entries BY <1>0 DEF TypeOK
  <2>2. cache[t].main \in Fetched /\ cache[t].rows \in Fetched BY <2>1 DEF Entries
  <2>3. <<>> \in Seq(Entries) /\ (t \in live) \in BOOLEAN OBVIOUS
  <2> QED BY <2>2, <2>3 DEF PageRecord, Seeded
<1>3. p.thread = t /\ p.main = cache[t].main /\ p.rows = cache[t].rows /\ p.handled = 0
      /\ p.reads = <<>>
  BY DEF Seeded
<1> HIDE DEF p
<1>4. Known(t, cache[t].main) /\ Known(t, cache[t].rows) /\ 0 <= log[t]
  BY <1>0 DEF IInv, CacheKnown, TypeOK
<1>5. PageKnown(p) BY <1>3, <1>4 DEF PageKnown
<1> QED BY <1>0, <1>1, <1>2, <1>3, <1>5, StartKeeps, StartIsSound

\* So mounting a page keeps the pages sound.
LEMMA MountIsSound ==
  ASSUME IInv, NEW p \in PageRecord, PageKnown(p), FetchSound(p), Caught(p),
         pages' = Append(Left, p), now' = Len(pages) + 1, UNCHANGED <<backend, cache>>,
         posting' \in Threads \union {NoThread}, live' \in SUBSET Threads,
         left.mounts > 0, left' = [left EXCEPT !.mounts = @ - 1]
  PROVE  IInv' /\ NotOlder
<1>0. TypeOK BY DEF IInv
<1>1. /\ Left \in Seq(PageRecord) /\ Len(Left) = Len(pages) /\ Len(pages) \in Nat
      /\ \A j \in 1..Len(pages) : PageKnown(Left[j]) /\ FetchSound(Left[j])
  BY <1>0, LeftIsSound DEF TypeOK
<1>2. /\ pages' \in Seq(PageRecord) /\ Len(pages') = Len(pages) + 1
      /\ DOMAIN pages' = 1..(Len(pages) + 1)
      /\ \A j \in 1..Len(pages) : pages'[j] = Left[j]
      /\ pages'[Len(pages) + 1] = p
  BY <1>1
<1>3. TypeOK'
  <2>1. left' \in Bounds
    <3>1. left.mounts - 1 \in Nat BY <1>0 DEF TypeOK, Bounds
    <3> QED BY <1>0, <3>1 DEF TypeOK, Bounds
  <2>2. now' \in 0..Len(pages') BY <1>1, <1>2
  <2> QED BY <1>0, <1>2, <2>1, <2>2 DEF TypeOK, backend
<1>4. EventsWritten' /\ NewestFork' /\ CacheKnown'
  BY DEF IInv, EventsWritten, NewestFork, CacheKnown, Known, backend
<1>5. ASSUME NEW j \in DOMAIN pages' PROVE PageInv(j)'
  <2>1. PICK r : r = pages'[j] /\ PageKnown(r) /\ FetchSound(r) /\ (j = now' => Caught(r))
    BY <1>1, <1>2, <1>5
  <2>2. PageKnown(r)' BY <2>1 DEF PageKnown, Known, backend
  <2> QED BY <2>1, <2>2 DEF PageInv, PageKnown, Known, FetchSound, Caught
<1>6. NotOlder
  <2>1. now' # now BY <1>0, <1>1 DEF TypeOK
  <2> QED BY <2>1 DEF NotOlder
<1> QED BY <1>3, <1>4, <1>5, <1>6 DEF IInv

LEMMA AppSteps ==
  ASSUME IInv, Submitted \/ NewQuery \/ \E t \in Threads : Select(t)
  PROVE  IInv' /\ NotOlder
<1>0. TypeOK BY DEF IInv
<1>1. ASSUME NEW t \in Threads, Select(t) PROVE IInv' /\ NotOlder
  <2>1. PICK p \in PageRecord : p = Page(t) /\ PageKnown(p) /\ FetchSound(p) /\ Caught(p)
    BY PageIsSound
  <2>2. posting' \in Threads \union {NoThread} /\ live' \in SUBSET Threads
    BY <1>0, <1>1 DEF Select, TypeOK
  <2> QED BY <1>1, <2>1, <2>2, MountIsSound DEF Select, Mount
<1>2. CASE Submitted
  <2>0. posting \in Threads BY <1>0, <1>2 DEF Submitted, TypeOK
  <2>1. PICK p \in PageRecord :
          p = Page(posting) /\ PageKnown(p) /\ FetchSound(p) /\ Caught(p)
    BY <2>0, PageIsSound
  <2> DEFINE q == [p EXCEPT !.given = TRUE, !.info = TRUE]
  <2>2. q \in PageRecord /\ SameFace(p, q) /\ SameFetch(p, q)
    BY DEF PageRecord, SameFace, SameFetch
  <2>3. pages' = Append(Left, q) BY <1>2, <2>1 DEF Submitted
  <2> HIDE DEF q
  <2>4. PageKnown(q) /\ FetchSound(q) /\ Caught(q) BY <2>1, <2>2, SameIsSound
  <2>5. posting' \in Threads \union {NoThread} /\ live' \in SUBSET Threads
    BY <1>0, <1>2, <2>0 DEF Submitted, TypeOK
  <2> QED BY <1>2, <2>2, <2>3, <2>4, <2>5, MountIsSound DEF Submitted
<1>3. CASE NewQuery
  <2>1. /\ now' = 0 /\ pages' = Left /\ now # 0
        /\ UNCHANGED <<backend, posting, live, cache, left>>
    BY <1>3 DEF NewQuery
  <2>2. /\ Left \in Seq(PageRecord) /\ Len(Left) = Len(pages) /\ DOMAIN Left = 1..Len(pages)
        /\ \A j \in 1..Len(pages) : PageKnown(Left[j]) /\ FetchSound(Left[j])
    BY LeftIsSound
  <2>3. TypeOK' BY <1>0, <2>1, <2>2 DEF TypeOK, backend
  <2>4. EventsWritten' /\ NewestFork' /\ CacheKnown'
    BY <2>1 DEF IInv, EventsWritten, NewestFork, CacheKnown, Known, backend
  <2>5. ASSUME NEW j \in DOMAIN pages' PROVE PageInv(j)'
    <3>1. j # now' BY <2>1, <2>2, <2>5
    <3>2. PICK r : r = pages'[j] /\ PageKnown(r) /\ FetchSound(r) BY <2>1, <2>2, <2>5
    <3>3. PageKnown(r)' BY <2>1, <3>2 DEF PageKnown, Known, backend
    <3> QED BY <3>1, <3>2, <3>3 DEF PageInv, PageKnown, Known, FetchSound
  <2>6. NotOlder BY <2>1 DEF NotOlder
  <2> QED BY <2>3, <2>4, <2>5, <2>6 DEF IInv
<1> QED BY <1>1, <1>2, <1>3

-------------------------------------------------------------------------------
(* The page.                                                                     *)

\* A step at one page that leaves the backend alone.
LEMMA PageStep ==
  ASSUME IInv, NEW m \in DOMAIN pages, NEW q \in PageRecord, SetPage(m, q),
         UNCHANGED <<backend, app>>, left' \in Bounds, cache' \in [Threads -> Entries],
         \A t \in Threads : Known(t, cache'[t].main) /\ Known(t, cache'[t].rows),
         PageKnown(q), FetchSound(q), m = now => Caught(q),
         m = now => pages[m].main.rev <= q.main.rev /\ pages[m].rows.rev <= q.rows.rev
  PROVE  IInv' /\ NotOlder
<1>0. TypeOK BY DEF IInv
<1>1. pages' \in Seq(PageRecord) /\ Len(pages') = Len(pages) BY <1>0 DEF SetPage, TypeOK
<1>2. TypeOK' BY <1>0, <1>1 DEF TypeOK, backend, app
<1>3. EventsWritten' /\ NewestFork' BY DEF IInv, EventsWritten, NewestFork, backend
<1>4. CacheKnown' BY DEF CacheKnown, Known, backend
<1>5. \A t \in Threads : server'[t].rev >= server[t].rev /\ log'[t] >= log[t]
  BY <1>0 DEF TypeOK, ThreadRecord, backend
<1> QED BY <1>2, <1>3, <1>4, <1>5, OnePage DEF app

\* What a sound page is made of.
LEMMA ThisPage ==
  ASSUME IInv, NEW m \in DOMAIN pages
  PROVE  /\ TypeOK /\ pages[m] \in PageRecord /\ PageKnown(pages[m]) /\ FetchSound(pages[m])
         /\ m = now => Caught(pages[m])
         /\ pages[m].thread \in Threads
         /\ pages[m].main.rev \in Int /\ pages[m].rows.rev \in Int /\ pages[m].handled \in Nat
         /\ server[pages[m].thread].rev \in Nat /\ log[pages[m].thread] \in Nat
         /\ log[pages[m].thread] <= server[pages[m].thread].rev
<1>0. TypeOK BY DEF IInv
<1>1. pages[m] \in PageRecord BY <1>0 DEF TypeOK
<1>2. /\ pages[m].thread \in Threads /\ pages[m].handled \in Nat
      /\ pages[m].main.rev \in Int /\ pages[m].rows.rev \in Int
  BY <1>1 DEF PageRecord, Fetched
<1>3. server[pages[m].thread].rev \in Nat /\ log[pages[m].thread] \in Nat
      /\ owed[pages[m].thread] \in Nat
  BY <1>0, <1>2 DEF TypeOK, ThreadRecord
<1>4. log[pages[m].thread] + owed[pages[m].thread] <= server[pages[m].thread].rev
  BY <1>2 DEF IInv, EventsWritten
<1>5. log[pages[m].thread] <= server[pages[m].thread].rev BY <1>3, <1>4
<1> QED BY <1>0, <1>1, <1>2, <1>3, <1>5 DEF IInv, PageInv

\* Steps that change neither what the page shows nor its fetch.
LEMMA SamePage ==
  ASSUME IInv, NEW m \in DOMAIN pages, NEW q \in PageRecord, SetPage(m, q),
         SameFace(pages[m], q), SameFetch(pages[m], q),
         UNCHANGED <<backend, app>>, left' \in Bounds, cache' = cache
  PROVE  IInv' /\ NotOlder
<1>1. PICK p \in PageRecord :
        /\ p = pages[m] /\ PageKnown(p) /\ FetchSound(p) /\ (m = now => Caught(p))
        /\ p.main.rev \in Int /\ p.rows.rev \in Int
  BY ThisPage
<1>2. PageKnown(q) /\ FetchSound(q) /\ (m = now => Caught(q)) BY <1>1, SameIsSound
<1>3. pages[m].main.rev <= q.main.rev /\ pages[m].rows.rev <= q.rows.rev
  BY <1>1 DEF SameFace
<1>4. cache' \in [Threads -> Entries]
      /\ \A t \in Threads : Known(t, cache'[t].main) /\ Known(t, cache'[t].rows)
  BY DEF IInv, TypeOK, CacheKnown
<1> QED BY <1>2, <1>3, <1>4, PageStep

\* What a fault costs.
LEMMA FaultType ==
  ASSUME IInv, Fault
  PROVE  left' \in Bounds
<1>1. left \in Bounds BY DEF IInv, TypeOK
<1>2. left.failures - 1 \in Nat BY <1>1 DEF Fault, Bounds
<1> QED BY <1>1, <1>2 DEF Fault, Bounds

\* A GET is served.
LEMMA ReadIsSound ==
  ASSUME IInv, NEW m \in DOMAIN pages, NEW i \in DOMAIN pages[m].reads, NEW part \in Parts,
         Read(m, i, part)
  PROVE  IInv' /\ NotOlder
<1>1. PICK p \in PageRecord :
        /\ p = pages[m] /\ PageKnown(p) /\ FetchSound(p) /\ (m = now => Caught(p))
        /\ p.main.rev \in Int /\ p.rows.rev \in Int /\ p.thread \in Threads
        /\ p.handled \in Nat /\ server[p.thread].rev \in Nat
        /\ p.handled <= server[p.thread].rev
  <2>1. pages[m].handled <= log[pages[m].thread] BY ThisPage DEF PageKnown
  <2> QED BY <2>1, ThisPage
<1>2. PICK f \in Fetched : f = Snapshot(p.thread)
  <2>1. server[p.thread] \in ThreadRecord BY <1>1 DEF IInv, TypeOK
  <2> QED BY <2>1 DEF Snapshot, ThreadRecord, Fetched, TaskStates
<1>3. f.rev = server[p.thread].rev BY <1>2 DEF Snapshot
<1>4. PICK e \in Entries : e = p.reads[i] BY <1>1 DEF PageRecord
<1> DEFINE d == IF part = "main" THEN [e EXCEPT !.main = f] ELSE [e EXCEPT !.rows = f]
           r == [p.reads EXCEPT ![i] = d]
           q == [p EXCEPT !.reads = r]
<1>5. SetPage(m, q)
  <2>1. pages' = [pages EXCEPT ![m].reads[i][part] = f] BY <1>1, <1>2 DEF Read
  <2>2. CASE part = "main" BY <1>1, <1>4, <2>1, <2>2 DEF SetPage
  <2>3. CASE part = "rows" BY <1>1, <1>4, <2>1, <2>3 DEF SetPage
  <2> QED BY <2>2, <2>3 DEF Parts
<1>6. d \in Entries BY DEF Entries
<1>7. d.main \in {e.main, f} /\ d.rows \in {e.rows, f} BY DEF Entries
<1> HIDE DEF d
<1>8. r \in Seq(Entries) /\ Len(r) = Len(p.reads) /\ DOMAIN r = DOMAIN p.reads
      /\ \A j \in DOMAIN r : r[j] = IF j = i THEN d ELSE p.reads[j]
  BY <1>1, <1>6 DEF PageRecord
<1> HIDE DEF r
<1>9. q \in PageRecord /\ q.thread = p.thread /\ q.main = p.main /\ q.rows = p.rows
      /\ q.handled = p.handled /\ q.pending = p.pending /\ q.dirty = p.dirty
      /\ q.missed = p.missed /\ q.reads = r
  BY <1>8 DEF PageRecord
<1> HIDE DEF q
<1>10. PageKnown(q)
  <2>1. \A j \in DOMAIN r : Known(p.thread, r[j].main) /\ Known(p.thread, r[j].rows)
    BY <1>1, <1>3, <1>4, <1>7, <1>8 DEF PageKnown, Known, Parts
  <2>2. \A j \in DOMAIN r, x \in Parts : Known(p.thread, r[j][x]) BY <2>1 DEF Parts
  <2> QED BY <1>1, <1>9, <2>2 DEF PageKnown
<1>11. FetchSound(q)
  <2>1. p.main.rev <= f.rev /\ p.rows.rev <= f.rev /\ p.handled <= f.rev
    BY <1>1, <1>3 DEF PageKnown, Known
  <2>2. Fresh(f, p.main.rev) /\ Fresh(f, p.rows.rev) /\ Fresh(f, p.handled)
    BY <1>1, <1>3, <2>1 DEF Fresh
  <2> QED BY <1>1, <1>4, <1>7, <1>8, <1>9, <2>2 DEF FetchSound
<1>12. m = now => Caught(q) BY <1>1, <1>9 DEF Caught
<1>13. left' \in Bounds /\ cache' \in [Threads -> Entries] /\ UNCHANGED <<backend, app>>
       /\ \A t \in Threads : Known(t, cache'[t].main) /\ Known(t, cache'[t].rows)
  BY DEF Read, others, IInv, TypeOK, CacheKnown
<1> QED BY <1>1, <1>5, <1>9, <1>10, <1>11, <1>12, <1>13, PageStep

\* All answers are in: shown, unless the page was left, and kept for later at the end.
LEMMA AnswerIsSound ==
  ASSUME IInv, NEW m \in DOMAIN pages, NEW i \in DOMAIN pages[m].reads, Answer(m, i)
  PROVE  IInv' /\ NotOlder
<1>1. PICK p \in PageRecord :
        /\ p = pages[m] /\ PageKnown(p) /\ FetchSound(p) /\ (m = now => Caught(p))
        /\ p.main.rev \in Int /\ p.rows.rev \in Int /\ p.thread \in Threads
        /\ p.handled \in Nat /\ TypeOK
  BY ThisPage
<1>2. PICK e \in Entries : e = p.reads[i] BY <1>1 DEF PageRecord
<1>3. /\ e.main # None /\ e.rows # None /\ e.main.rev \in Int /\ e.rows.rev \in Int
      /\ e.main \in Fetched /\ e.rows \in Fetched
  <2>1. e.main # None /\ e.rows # None BY <1>1, <1>2 DEF Answer
  <2> QED BY <2>1 DEF Entries, Fetched
<1>4. Known(p.thread, e.main) /\ Known(p.thread, e.rows)
  BY <1>1, <1>2 DEF PageKnown, Parts
<1>5. p.main.rev <= e.main.rev /\ p.rows.rev <= e.rows.rev
      /\ (~p.dirty => p.handled <= e.main.rev /\ p.handled <= e.rows.rev)
  BY <1>1, <1>2, <1>3 DEF FetchSound, Fresh
<1> DEFINE shown == IF m = now THEN Show(p, e) ELSE p
<1>6. PICK q \in PageRecord :
        /\ q = shown /\ SameFetch(p, q) /\ q.thread = p.thread /\ q.handled = p.handled
        /\ m = now => q.main = e.main /\ q.rows = e.rows
        /\ m # now => q = p
  BY ShowKeeps DEF SameFetch
<1> HIDE DEF shown
<1>7. PageKnown(q)
  <2>1. CASE m = now BY <1>1, <1>4, <1>6, <2>1 DEF PageKnown, SameFetch
  <2>2. CASE m # now BY <1>1, <1>6, <2>2
  <2> QED BY <2>1, <2>2
<1>8. m = now /\ ~q.dirty /\ ~q.missed => q.main.rev >= q.handled /\ q.rows.rev >= q.handled
  BY <1>1, <1>3, <1>5, <1>6 DEF SameFetch
<1>9. i \in DOMAIN q.reads /\ Len(q.reads) = IF q.pending THEN 1 ELSE 0
  BY <1>1, <1>6 DEF FetchSound, SameFetch
<1>10. PICK z \in PageRecord :
         /\ z = Settle(q, i) /\ SameFace(q, z) /\ PageKnown(z) /\ FetchSound(z)
         /\ m = now => Caught(z)
  BY <1>1, <1>7, <1>8, <1>9, SettleIsSound
<1>11. SetPage(m, z) BY <1>1, <1>2, <1>6, <1>10 DEF Answer, shown
<1>12. m = now => pages[m].main.rev <= z.main.rev /\ pages[m].rows.rev <= z.rows.rev
  BY <1>1, <1>5, <1>6, <1>10 DEF SameFace
<1>13. /\ cache' \in [Threads -> Entries]
       /\ \A t \in Threads : Known(t, cache'[t].main) /\ Known(t, cache'[t].rows)
  <2>1. cache' = [cache EXCEPT ![p.thread] = e] \/ cache' = cache
    BY <1>1, <1>2 DEF Answer, setCachedThreadData
  <2>2. cache \in [Threads -> Entries]
        /\ \A t \in Threads : Known(t, cache[t].main) /\ Known(t, cache[t].rows)
    BY DEF IInv, TypeOK, CacheKnown
  <2>3. CASE cache' = cache BY <2>2, <2>3
  <2>4. CASE cache' = [cache EXCEPT ![p.thread] = e]
    <3>1. cache' \in [Threads -> Entries] BY <2>2, <2>4
    <3>2. \A t \in Threads : cache'[t] = IF t = p.thread THEN e ELSE cache[t] BY <2>2, <2>4
    <3> QED BY <1>4, <2>2, <3>1, <3>2
  <2> QED BY <2>1, <2>3, <2>4
<1>14. left' \in Bounds /\ UNCHANGED <<backend, app>> BY <1>1 DEF Answer, TypeOK
<1> QED BY <1>10, <1>11, <1>12, <1>13, <1>14, PageStep

\* A fetch fails: ignored, and known to have failed while the page is there.
LEMMA FailIsSound ==
  ASSUME IInv, NEW m \in DOMAIN pages, NEW i \in DOMAIN pages[m].reads, Fail(m, i)
  PROVE  IInv' /\ NotOlder
<1>1. PICK p \in PageRecord :
        /\ p = pages[m] /\ PageKnown(p) /\ FetchSound(p) /\ (m = now => Caught(p))
        /\ p.main.rev \in Int /\ p.rows.rev \in Int /\ TypeOK
  BY ThisPage
<1> DEFINE q == [p EXCEPT !.missed = (m = now)]
<1>2. /\ q \in PageRecord /\ SameFace(p, q) /\ q.missed = (m = now) /\ q.reads = p.reads
      /\ q.pending = p.pending /\ q.dirty = p.dirty
  BY DEF PageRecord, SameFace
<1>3. SetPage(m, Settle(q, i)) BY <1>1 DEF Fail
<1> HIDE DEF q
<1>4. PageKnown(q) BY <1>1, <1>2 DEF PageKnown, SameFace
<1>5. i \in DOMAIN q.reads /\ Len(q.reads) = IF q.pending THEN 1 ELSE 0
  BY <1>1, <1>2 DEF FetchSound
<1>6. PICK z \in PageRecord :
        /\ z = Settle(q, i) /\ SameFace(q, z) /\ PageKnown(z) /\ FetchSound(z)
        /\ m = now => Caught(z)
  BY <1>1, <1>2, <1>4, <1>5, SettleIsSound
<1>7. pages[m].main.rev <= z.main.rev /\ pages[m].rows.rev <= z.rows.rev
  BY <1>1, <1>2, <1>6 DEF SameFace
<1>8. left' \in Bounds /\ cache' = cache /\ UNCHANGED <<backend, app>>
  BY FaultType DEF Fail
<1>9. cache' \in [Threads -> Entries]
      /\ \A t \in Threads : Known(t, cache'[t].main) /\ Known(t, cache'[t].rows)
  BY <1>8 DEF IInv, TypeOK, CacheKnown
<1> QED BY <1>3, <1>6, <1>7, <1>8, <1>9, PageStep

\* The socket and the tokens change neither what is shown nor the fetch.
LEMMA SocketSteps ==
  ASSUME IInv, NEW m \in DOMAIN pages,
         Connect(m) \/ Drained(m) \/ Tokens(m) \/ NoTokens(m)
  PROVE  IInv' /\ NotOlder
<1>1. PICK p \in PageRecord : p = pages[m] BY ThisPage
<1>2. \E q \in PageRecord : SetPage(m, q) /\ SameFace(p, q) /\ SameFetch(p, q)
  <2>1. CASE Connect(m)
    <3> DEFINE q == [p EXCEPT !.link = "on", !.pos = 0]
    <3>1. q \in PageRecord /\ SameFace(p, q) /\ SameFetch(p, q)
      BY DEF PageRecord, SameFace, SameFetch
    <3> QED BY <1>1, <2>1, <3>1 DEF Connect
  <2>2. CASE Drained(m)
    <3> DEFINE q == [p EXCEPT !.link = "off", !.pos = 0]
    <3>1. q \in PageRecord /\ SameFace(p, q) /\ SameFetch(p, q)
      BY DEF PageRecord, SameFace, SameFetch
    <3> QED BY <1>1, <2>2, <3>1 DEF Drained
  <2>3. CASE Tokens(m)
    <3> DEFINE a == [p EXCEPT !.asking = FALSE]
               b == [p EXCEPT !.renewing = FALSE]
    <3>1. SetPage(m, WithTokens(a)) \/ SetPage(m, WithTokens(b)) BY <1>1, <2>3 DEF Tokens
    <3>2. a \in PageRecord /\ SameFace(p, a) /\ SameFetch(p, a)
      BY DEF PageRecord, SameFace, SameFetch
    <3>3. b \in PageRecord /\ SameFace(p, b) /\ SameFetch(p, b)
      BY DEF PageRecord, SameFace, SameFetch
    <3> HIDE DEF a, b
    <3>4. /\ WithTokens(a) \in PageRecord /\ WithTokens(b) \in PageRecord
          /\ SameFace(p, WithTokens(a)) /\ SameFetch(p, WithTokens(a))
          /\ SameFace(p, WithTokens(b)) /\ SameFetch(p, WithTokens(b))
      BY <3>2, <3>3, TokensKeep DEF SameFace, SameFetch
    <3> QED BY <3>1, <3>4
  <2>4. CASE NoTokens(m)
    <3> DEFINE a == [p EXCEPT !.asking = FALSE]
               b == [p EXCEPT !.renewing = FALSE]
    <3>1. SetPage(m, a) \/ SetPage(m, b) BY <1>1, <2>4 DEF NoTokens
    <3>2. a \in PageRecord /\ SameFace(p, a) /\ SameFetch(p, a)
      BY DEF PageRecord, SameFace, SameFetch
    <3>3. b \in PageRecord /\ SameFace(p, b) /\ SameFetch(p, b)
      BY DEF PageRecord, SameFace, SameFetch
    <3> QED BY <3>1, <3>2, <3>3
  <2> QED BY <2>1, <2>2, <2>3, <2>4
<1>3. left' \in Bounds
  <2>1. left \in Bounds BY DEF IInv, TypeOK
  <2>2. left' = left \/ Fault BY DEF Connect, Drained, Tokens, NoTokens, others
  <2> QED BY <2>1, <2>2, FaultType
<1>4. cache' = cache /\ UNCHANGED <<backend, app>>
  BY DEF Connect, Drained, Tokens, NoTokens, others
<1> QED BY <1>1, <1>2, <1>3, <1>4, SamePage

\* A page that refreshes, after its events, its fork or nothing else changed.
LEMMA RefreshStep ==
  ASSUME IInv, NEW m \in DOMAIN pages, NEW p \in PageRecord, SetPage(m, Refresh(p)),
         SameFetch(pages[m], p), p.thread = pages[m].thread, p.main = pages[m].main,
         p.rows = pages[m].rows, p.handled <= log[p.thread],
         UNCHANGED <<backend, app, left>>, cache' \in [Threads -> Entries],
         \A t \in Threads : Known(t, cache'[t].main) /\ Known(t, cache'[t].rows)
  PROVE  IInv' /\ NotOlder
<1>1. PICK o \in PageRecord :
        /\ o = pages[m] /\ PageKnown(o) /\ FetchSound(o)
        /\ o.main.rev \in Int /\ o.rows.rev \in Int /\ TypeOK
  BY ThisPage
<1>2. PageKnown(p) BY <1>1 DEF PageKnown, SameFetch
<1>3. /\ Len(p.reads) = IF p.pending THEN 1 ELSE 0
      /\ \A i \in DOMAIN p.reads :
           Fresh(p.reads[i].main, p.main.rev) /\ Fresh(p.reads[i].rows, p.rows.rev)
  BY <1>1 DEF FetchSound, SameFetch
<1>4. PICK z \in PageRecord :
        z = Refresh(p) /\ SameFace(p, z) /\ PageKnown(z) /\ FetchSound(z) /\ Caught(z)
  BY <1>1, <1>2, <1>3, RefreshIsSound
<1>5. pages[m].main.rev <= z.main.rev /\ pages[m].rows.rev <= z.rows.rev
  BY <1>1, <1>4 DEF SameFace
<1>6. left' \in Bounds BY <1>1 DEF TypeOK
<1> QED BY <1>4, <1>5, <1>6, PageStep

\* The larger of two numbers.
LEMMA MaxOfTwo ==
  ASSUME NEW a \in Nat, NEW b \in Nat
  PROVE  Max({a, b}) \in {a, b} /\ Max({a, b}) >= a /\ Max({a, b}) >= b
<1>1. \E x \in {a, b} : \A y \in {a, b} : x >= y
  <2>1. CASE a >= b BY <2>1
  <2>2. CASE b >= a BY <2>2
  <2> QED BY <2>1, <2>2
<1> QED BY <1>1 DEF Max

\* An event is received, the button is pressed, a re-exploration is answered.
LEMMA RefreshSteps ==
  ASSUME IInv, NEW m \in DOMAIN pages, Receive(m) \/ Click(m) \/ Explored(m)
  PROVE  IInv' /\ NotOlder
<1>1. PICK p \in PageRecord :
        /\ p = pages[m] /\ PageKnown(p) /\ FetchSound(p) /\ TypeOK
        /\ p.thread \in Threads /\ p.handled \in Nat /\ p.pos \in Nat /\ log[p.thread] \in Nat
        /\ p.handled <= log[p.thread]
  BY ThisPage DEF PageRecord, PageKnown
<1>2. cache \in [Threads -> Entries]
      /\ \A t \in Threads : Known(t, cache[t].main) /\ Known(t, cache[t].rows)
  BY DEF IInv, TypeOK, CacheKnown
<1>3. CASE Receive(m)
  <2> DEFINE h == IF m = now THEN Max({p.handled, p.pos + 1}) ELSE p.handled
             q == [p EXCEPT !.pos = p.pos + 1, !.handled = h]
  <2>1. p.pos < log[p.thread] /\ SetPage(m, Refresh(q)) /\ UNCHANGED others
    BY <1>1, <1>3 DEF Receive
  <2>2. p.pos + 1 \in Nat /\ p.pos + 1 <= log[p.thread] BY <1>1, <2>1
  <2>3. h \in Nat /\ h <= log[p.thread] BY <1>1, <2>2, MaxOfTwo
  <2> HIDE DEF h
  <2>4. q \in PageRecord /\ SameFetch(p, q) /\ q.thread = p.thread /\ q.main = p.main
        /\ q.rows = p.rows /\ q.handled = h
    BY <2>2, <2>3 DEF PageRecord, SameFetch
  <2> HIDE DEF q
  <2>5. UNCHANGED <<backend, app, left>> /\ cache' = cache BY <2>1 DEF others
  <2> QED BY <1>1, <1>2, <2>1, <2>3, <2>4, <2>5, RefreshStep
<1>4. CASE Click(m)
  <2>1. SetPage(m, Refresh(p)) /\ UNCHANGED <<backend, app, left>> /\ cache' = cache
    BY <1>1, <1>4 DEF Click, others
  <2> QED BY <1>1, <1>2, <2>1, RefreshStep DEF SameFetch
<1>5. CASE Explored(m)
  <2> DEFINE q == [p EXCEPT !.forking = 0, !.target = IF m = now THEN p.forking ELSE 0]
             r == Switched(q)
  <2>1. /\ SetPage(m, Refresh(r)) /\ UNCHANGED <<backend, app, left>>
        /\ cache' = [cache EXCEPT ![p.thread] = NoEntry]
    BY <1>1, <1>5 DEF Explored, evictThreadData
  <2>2. q \in PageRecord /\ SameFetch(p, q) /\ SameFace(p, q)
    BY DEF PageRecord, SameFetch, SameFace
  <2> HIDE DEF q
  <2>3. r \in PageRecord /\ SameFetch(q, r) /\ SameFace(q, r)
    BY <2>2 DEF Switched, PageRecord, SameFetch, SameFace
  <2> HIDE DEF r
  <2>4. cache' \in [Threads -> Entries] BY <1>2, <2>1, NothingIsRead
  <2>5. ASSUME NEW t \in Threads PROVE Known(t, cache'[t].main) /\ Known(t, cache'[t].rows)
    <3>1. CASE t = p.thread
      <4>1. cache'[t] = NoEntry BY <1>2, <2>1, <3>1
      <4>2. server[t].rev \in Nat BY <1>1, <3>1 DEF TypeOK, ThreadRecord
      <4> QED BY <4>1, <4>2, NothingIsRead DEF Known
    <3>2. CASE t # p.thread BY <1>2, <2>1, <3>2
    <3> QED BY <3>1, <3>2
  <2> QED BY <1>1, <2>1, <2>2, <2>3, <2>4, <2>5, RefreshStep DEF SameFetch, SameFace
<1> QED BY <1>3, <1>4, <1>5

\* A set of numbers with a member has a least one, and a greatest one where it is bounded.
LEMMA Least ==
  ASSUME NEW T \in SUBSET Nat, T # {}
  PROVE  \E m \in T : \A k \in T : m <= k
<1> DEFINE R == OpToRel(<, Nat)
<1>1. IsWellFoundedOn(R, Nat) BY NatLessThanWellFounded
<1>2. \A x, y \in Nat : <<y, x>> \in R <=> y < x BY DEF OpToRel
<1> HIDE DEF R
<1>3. PICK m \in T : \A k \in T : ~(<<k, m>> \in R) BY <1>1, WFMin
<1>4. \A k \in T : k \in Nat /\ m \in Nat /\ ~(k < m) BY <1>2, <1>3
<1>5. \A k \in T : m <= k BY <1>4
<1> QED BY <1>5

LEMMA MaxOfBounded ==
  ASSUME NEW T \in SUBSET Nat, T # {}, NEW b \in Nat, \A k \in T : k <= b
  PROVE  Max(T) \in T /\ \A k \in T : Max(T) >= k
<1> DEFINE U == {b - k : k \in T}
<1>1. U \in SUBSET Nat /\ U # {}
  <2>1. \A k \in T : b - k \in Nat OBVIOUS
  <2> QED BY <2>1
<1>2. PICK u \in U : \A v \in U : u <= v BY <1>1, Least
<1>3. PICK m \in T : u = b - m OBVIOUS
<1>4. ASSUME NEW k \in T PROVE m >= k
  <2>1. b - k \in U OBVIOUS
  <2>2. b - m <= b - k BY <1>2, <1>3, <2>1
  <2>3. k \in Nat /\ m \in Nat OBVIOUS
  <2> QED BY <2>2, <2>3
<1>5. \E x \in T : \A y \in T : x >= y BY <1>4
<1> QED BY <1>5 DEF Max

\* A confirmed re-exploration: the backend takes it, or its answer is lost.
LEMMA ExploreSteps ==
  ASSUME IInv, NEW m \in DOMAIN pages, Explore(m) \/ ExploreLost(m)
  PROVE  IInv' /\ NotOlder
<1>1. PICK p \in PageRecord :
        /\ p = pages[m] /\ PageKnown(p) /\ FetchSound(p) /\ TypeOK
        /\ (m = now => Caught(p)) /\ p.thread \in Threads
        /\ p.main.rev \in Int /\ p.rows.rev \in Int
  BY ThisPage
<1>2. CASE Explore(m)
  <2> DEFINE t == p.thread
             old == server[t]
             next == Max(old.versions) + 1
             s == [old EXCEPT !.rev = @ + 1, !.status = "running", !.fork = next,
                              !.due = left.writes, !.redo = FALSE]
             q == [p EXCEPT !.forking = next]
  <2>1. /\ old.versions # {} /\ left.forks > 0 /\ old.fork < next
        /\ server' = [server EXCEPT ![t] = s] /\ SetPage(m, q)
        /\ left' = [left EXCEPT !.forks = @ - 1] /\ UNCHANGED <<owed, log, app, cache>>
    BY <1>1, <1>2 DEF Explore
  <2>2. /\ old \in ThreadRecord /\ old.rev \in Nat /\ old.fork \in Nat
        /\ old.versions \in SUBSET Nat /\ left \in Bounds
        /\ left.forks \in Nat /\ left.writes \in Nat
    BY <1>1 DEF TypeOK, ThreadRecord, Bounds
  <2>3. \A v \in old.versions : v <= old.fork BY <1>1 DEF IInv, NewestFork
  <2>4. Max(old.versions) \in Nat /\ \A v \in old.versions : v <= Max(old.versions)
    BY <2>1, <2>2, <2>3, MaxOfBounded
  <2>5. next \in Nat /\ \A v \in old.versions : v <= next BY <2>2, <2>4
  <2> HIDE DEF next
  <2>6. old.rev + 1 \in Nat /\ left.forks - 1 \in Nat BY <2>1, <2>2
  <2>7. s \in ThreadRecord /\ s.rev = old.rev + 1 /\ s.fork = next /\ s.versions = old.versions
    BY <2>2, <2>5, <2>6 DEF ThreadRecord, Statuses
  <2>8. q \in PageRecord /\ SameFace(p, q) /\ SameFetch(p, q)
    BY <2>5 DEF PageRecord, SameFace, SameFetch
  <2> HIDE DEF s, q, old, t
  <2>9. t \in Threads /\ old = server[t] BY <1>1 DEF t, old
  <2>10. left' \in Bounds BY <2>1, <2>2, <2>6 DEF Bounds
  <2>11. pages' \in Seq(PageRecord) /\ Len(pages') = Len(pages)
    BY <1>1, <2>1, <2>8 DEF SetPage, TypeOK
  <2>12. TypeOK' BY <1>1, <2>1, <2>7, <2>9, <2>10, <2>11 DEF TypeOK, app
  <2>13. \A u \in Threads : server'[u].rev >= server[u].rev /\ log'[u] >= log[u]
    <3> SUFFICES ASSUME NEW u \in Threads
                 PROVE  server'[u].rev >= server[u].rev /\ log'[u] >= log[u]
      OBVIOUS
    <3>1. server[u].rev \in Nat /\ log'[u] = log[u] /\ log[u] \in Nat
      BY <1>1, <2>1 DEF TypeOK, ThreadRecord
    <3>2. server'[u] = IF u = t THEN s ELSE server[u] BY <1>1, <2>1 DEF TypeOK
    <3> QED BY <2>2, <2>7, <2>9, <3>1, <3>2
  <2>14. EventsWritten'
    <3> SUFFICES ASSUME NEW u \in Threads PROVE log'[u] + owed'[u] <= server'[u].rev
      BY DEF EventsWritten
    <3>1. log[u] + owed[u] <= server[u].rev BY DEF IInv, EventsWritten
    <3>2. server[u].rev \in Nat /\ server'[u].rev \in Nat /\ log[u] \in Nat /\ owed[u] \in Nat
      BY <1>1, <2>12 DEF TypeOK, ThreadRecord
    <3> QED BY <2>1, <2>13, <3>1, <3>2
  <2>15. NewestFork'
    <3> SUFFICES ASSUME NEW u \in Threads, NEW v \in server'[u].versions
                 PROVE  v <= server'[u].fork
      BY DEF NewestFork
    <3>1. server'[u] = IF u = t THEN s ELSE server[u] BY <1>1, <2>1 DEF TypeOK
    <3> QED BY <2>5, <2>7, <3>1 DEF IInv, NewestFork
  <2>16. CacheKnown'
    <3> SUFFICES ASSUME NEW u \in Threads
                 PROVE  /\ cache[u].main.rev <= server'[u].rev
                        /\ cache[u].rows.rev <= server'[u].rev
      BY <2>1 DEF CacheKnown, Known
    <3>1. cache[u].main.rev <= server[u].rev /\ cache[u].rows.rev <= server[u].rev
      BY DEF IInv, CacheKnown, Known
    <3>2. cache[u] \in Entries BY <1>1 DEF TypeOK
    <3>3. cache[u].main.rev \in Int /\ cache[u].rows.rev \in Int BY <3>2 DEF Entries, Fetched
    <3>4. server[u].rev \in Nat /\ server'[u].rev \in Nat
      BY <1>1, <2>12 DEF TypeOK, ThreadRecord
    <3> QED BY <2>13, <3>1, <3>3, <3>4
  <2>17. PageKnown(q) /\ FetchSound(q) /\ (m = now => Caught(q)) BY <1>1, <2>8, SameIsSound
  <2>18. pages[m].main.rev <= q.main.rev /\ pages[m].rows.rev <= q.rows.rev
    BY <1>1, <2>8 DEF SameFace
  <2> QED BY <2>1, <2>8, <2>12, <2>13, <2>14, <2>15, <2>16, <2>17, <2>18, OnePage DEF app
<1>3. CASE ExploreLost(m)
  <2> DEFINE q == [p EXCEPT !.forking = 0, !.missed = (m = now)]
  <2>1. SetPage(m, q) /\ left' \in Bounds /\ cache' = cache /\ UNCHANGED <<backend, app>>
    BY <1>1, <1>3, FaultType DEF ExploreLost
  <2>2. /\ q \in PageRecord /\ SameFace(p, q) /\ q.missed = (m = now) /\ q.reads = p.reads
        /\ q.pending = p.pending /\ q.dirty = p.dirty
    BY DEF PageRecord, SameFace
  <2> HIDE DEF q
  <2>3. PageKnown(q) BY <1>1, <2>2 DEF PageKnown, SameFace
  <2>4. FetchSound(q) BY <1>1, <2>2 DEF FetchSound, SameFace
  <2>5. m = now => Caught(q) BY <2>2 DEF Caught
  <2>6. pages[m].main.rev <= q.main.rev /\ pages[m].rows.rev <= q.rows.rev
    BY <1>1, <2>2 DEF SameFace
  <2>7. cache' \in [Threads -> Entries]
        /\ \A t \in Threads : Known(t, cache'[t].main) /\ Known(t, cache'[t].rows)
    BY <2>1 DEF IInv, TypeOK, CacheKnown
  <2> QED BY <2>1, <2>2, <2>3, <2>4, <2>5, <2>6, <2>7, PageStep
<1> QED BY <1>2, <1>3

\* A retry of a task: clicked, taken by the backend, or lost.
LEMMA RetrySteps ==
  ASSUME IInv, NEW m \in DOMAIN pages, Retry(m) \/ RetryTaken(m) \/ RetryLost(m)
  PROVE  IInv' /\ NotOlder
<1>1. PICK p \in PageRecord :
        /\ p = pages[m] /\ PageKnown(p) /\ FetchSound(p) /\ TypeOK
        /\ (m = now => Caught(p)) /\ p.thread \in Threads
        /\ p.main.rev \in Int /\ p.rows.rev \in Int
  BY ThisPage
<1>2. CASE Retry(m)
  <2> DEFINE posts == [p EXCEPT !.retrying = TRUE]
             asks == [posts EXCEPT !.retry = TRUE, !.renewing = TRUE]
  <2>1. /\ left.retries > 0 /\ left' = [left EXCEPT !.retries = @ - 1]
        /\ UNCHANGED <<backend, app, cache>>
    BY <1>2 DEF Retry
  <2>2. SetPage(m, Awaited(asks)) \/ SetPage(m, posts) BY <1>1, <1>2, Zenon DEF Retry
  <2>3. left' \in Bounds
    <3>1. left \in Bounds /\ left.retries - 1 \in Nat BY <1>1, <2>1 DEF TypeOK, Bounds
    <3> QED BY <2>1, <3>1 DEF Bounds
  <2>4. posts \in PageRecord /\ SameFace(p, posts) /\ SameFetch(p, posts)
    BY DEF PageRecord, SameFace, SameFetch
  <2>5. asks \in PageRecord /\ SameFace(p, asks) /\ SameFetch(p, asks)
    BY DEF PageRecord, SameFace, SameFetch
  <2> HIDE DEF posts, asks
  <2>6. Awaited(asks) \in PageRecord /\ SameFace(p, Awaited(asks)) /\ SameFetch(p, Awaited(asks))
    BY <2>5, AwaitedKeeps DEF SameFace, SameFetch
  <2>7. CASE SetPage(m, Awaited(asks)) BY <1>1, <2>1, <2>3, <2>6, <2>7, SamePage
  <2>8. CASE SetPage(m, posts) BY <1>1, <2>1, <2>3, <2>4, <2>8, SamePage
  <2> QED BY <2>2, <2>7, <2>8
<1> DEFINE q == [p EXCEPT !.retrying = FALSE]
<1>3. q \in PageRecord /\ SameFace(p, q) /\ SameFetch(p, q)
  BY DEF PageRecord, SameFace, SameFetch
<1>4. CASE RetryTaken(m)
  <2> DEFINE t == p.thread
             s == [Written(server[t]) EXCEPT !.task = "running"]
  <2>1. SetPage(m, q) /\ Writes(t, s) /\ UNCHANGED <<log, app, cache, left>>
    BY <1>1, <1>4, Zenon DEF RetryTaken
  <2>2. s \in ThreadRecord /\ s.rev = server[t].rev + 1 /\ s.fork = server[t].fork
        /\ s.versions = server[t].versions
    BY <1>1, WrittenKeeps DEF ThreadRecord, TaskStates
  <2>3. \A v \in s.versions : v <= s.fork BY <1>1, <2>2 DEF IInv, NewestFork
  <2> HIDE DEF q, s
  <2>4. /\ server' \in [Threads -> ThreadRecord] /\ owed' \in [Threads -> Nat]
        /\ EventsWritten' /\ NewestFork' /\ CacheKnown'
        /\ \A u \in Threads : server'[u].rev >= server[u].rev /\ log'[u] >= log[u]
    BY <1>1, <2>1, <2>2, <2>3, WriteIsSound
  <2>5. pages' \in Seq(PageRecord) /\ Len(pages') = Len(pages)
    BY <1>1, <1>3, <2>1 DEF SetPage, TypeOK
  <2>6. TypeOK' BY <1>1, <2>1, <2>4, <2>5 DEF TypeOK, app
  <2>7. PageKnown(q) /\ FetchSound(q) /\ (m = now => Caught(q)) BY <1>1, <1>3, SameIsSound
  <2>8. pages[m].main.rev <= q.main.rev /\ pages[m].rows.rev <= q.rows.rev
    BY <1>1, <1>3 DEF SameFace
  <2> QED BY <1>3, <2>1, <2>4, <2>6, <2>7, <2>8, OnePage DEF app
<1>5. CASE RetryLost(m)
  <2>1. SetPage(m, q) /\ left' \in Bounds /\ UNCHANGED <<backend, app, cache>>
    BY <1>1, <1>5, FaultType DEF RetryLost
  <2> HIDE DEF q
  <2> QED BY <1>1, <1>3, <2>1, SamePage
<1> QED BY <1>2, <1>4, <1>5

-------------------------------------------------------------------------------
(* The theorems.                                                                 *)

LEMMA NextIsSound ==
  ASSUME IInv, Next
  PROVE  IInv' /\ NotOlder
<1>1. ASSUME NEW m \in DOMAIN pages,
             \/ Reads(m) \/ Answers(m) \/ Connect(m) \/ Receive(m) \/ Drained(m) \/ Tokens(m)
             \/ Explored(m) \/ Faults(m) \/ Click(m) \/ Explore(m) \/ Retry(m) \/ RetryTaken(m)
      PROVE  IInv' /\ NotOlder
  <2>1. CASE Reads(m) BY <2>1, ReadIsSound DEF Reads, Parts
  <2>2. CASE Answers(m) BY <2>2, AnswerIsSound DEF Answers
  <2>3. CASE Connect(m) \/ Drained(m) \/ Tokens(m) \/ NoTokens(m) BY <2>3, SocketSteps
  <2>4. CASE Receive(m) \/ Click(m) \/ Explored(m) BY <2>4, RefreshSteps
  <2>5. CASE Explore(m) \/ ExploreLost(m) BY <2>5, ExploreSteps
  <2>6. CASE \E i \in DOMAIN pages[m].reads : Fail(m, i) BY <2>6, FailIsSound
  <2>7. CASE Retry(m) \/ RetryTaken(m) \/ RetryLost(m) BY <2>7, RetrySteps
  <2> QED BY <1>1, <2>1, <2>2, <2>3, <2>4, <2>5, <2>6, <2>7 DEF Faults
<1>2. CASE \E t \in Threads : Backend(t) \/ Publish(t) BY <1>2, BackendSteps
<1>3. CASE Submitted \/ NewQuery \/ \E t \in Threads : Select(t) BY <1>3, AppSteps
<1> QED BY <1>1, <1>2, <1>3 DEF Next, User

LEMMA InitIsSound ==
  ASSUME Init
  PROVE  IInv
<1>1. left \in Bounds BY PageConstants DEF Init, Bounds
<1>2. left.start \in {"new", "running", "ended"} /\ left.writes \in Nat
      /\ left.task \in {"over", "paused"}
  BY <1>1 DEF Bounds
<1>3. ASSUME NEW t \in Threads
      PROVE  /\ server[t] \in ThreadRecord /\ server[t].rev \in Nat /\ log[t] = server[t].rev
             /\ owed[t] = 0 /\ cache[t] = NoEntry /\ \A v \in server[t].versions : v <= server[t].fork
  <2>1. CASE left.start = "new" BY <1>2, <2>1 DEF Init, ThreadRecord, Statuses, TaskStates
  <2>2. CASE left.start # "new" BY <1>2, <2>2 DEF Init, ThreadRecord, Statuses, TaskStates
  <2> QED BY <2>1, <2>2
<1>4. server \in [Threads -> ThreadRecord] BY <1>3 DEF Init
<1>5. owed \in [Threads -> Nat] /\ log \in [Threads -> Nat] BY <1>3 DEF Init
<1>6. cache \in [Threads -> Entries] BY NothingIsRead DEF Init
<1>7. pages = <<>> /\ now = 0 /\ posting = NoThread /\ live = {} BY DEF Init
<1>8. TypeOK BY <1>1, <1>4, <1>5, <1>6, <1>7 DEF TypeOK
<1>9. EventsWritten BY <1>3 DEF EventsWritten
<1>10. NewestFork BY <1>3 DEF NewestFork
<1>11. CacheKnown BY <1>3, NothingIsRead DEF CacheKnown, Known
<1>12. DOMAIN pages = {} BY <1>7
<1> QED BY <1>8, <1>9, <1>10, <1>11, <1>12 DEF IInv

\* Leaving everything as it is.
LEMMA StutterIsSound ==
  ASSUME IInv, UNCHANGED vars
  PROVE  IInv' /\ NotOlder
<1>1. UNCHANGED <<server, owed, log, pages, now, posting, live, cache, left>>
  BY DEF vars
<1>2. IInv'
  BY <1>1 DEF IInv, TypeOK, EventsWritten, NewestFork, CacheKnown, PageInv, PageKnown, Known,
              FetchSound, Caught
<1>3. NotOlder
  <2> SUFFICES ASSUME now # 0
               PROVE  /\ pages[now].main.rev <= pages[now].main.rev
                      /\ pages[now].rows.rev <= pages[now].rows.rev
    BY <1>1 DEF NotOlder
  <2>1. now \in DOMAIN pages BY DEF IInv, TypeOK
  <2> QED BY <2>1, ThisPage
<1> QED BY <1>2, <1>3

LEMMA Invariant == Spec => []IInv
<1>1. IInv /\ [Next]_vars => IInv' BY NextIsSound, StutterIsSound
<1>2. Init => IInv BY InitIsSound
<1> QED BY <1>1, <1>2, PTL DEF Spec

\* Every variable of the page and of the backend keeps its type.
THEOREM PageTyping == Spec => []TypeOK
<1>1. IInv => TypeOK BY DEF IInv
<1> QED BY <1>1, Invariant, PTL

\* No event is lost: a page that fetches nothing and whose last fetch did not fail shows at
\* least as many writes as it has handled events.
THEOREM RefreshesAreKept == Spec => []NoLostRefresh
<1>1. IInv => NoLostRefresh
  <2> SUFFICES ASSUME IInv, now # 0, ~pages[now].pending, ~pages[now].missed
               PROVE  /\ pages[now].main.rev >= pages[now].handled
                      /\ pages[now].rows.rev >= pages[now].handled
    BY DEF NoLostRefresh, Shown
  <2>1. now \in DOMAIN pages BY DEF IInv, TypeOK
  <2>2. Caught(pages[now]) BY <2>1 DEF IInv, PageInv
  <2> QED BY <2>2 DEF Caught
<1> QED BY <1>1, Invariant, PTL

\* What a page shows never gets older, whatever crosses: fetches, writes, events, forks, and
\* what other pages leave in the cache.
THEOREM NothingGetsOlder == Spec => NeverBackwards
<1>1. IInv /\ [Next]_vars => [NotOlder]_vars BY NextIsSound, StutterIsSound
<1>2. [NotOlder]_vars =>
        [now # 0 /\ now' = now =>
           /\ pages[now].main.rev <= pages'[now].main.rev
           /\ pages[now].rows.rev <= pages'[now].rows.rev]_vars
  BY DEF NotOlder
<1> QED BY <1>1, <1>2, Invariant, PTL DEF Spec, NeverBackwards

===============================================================================
