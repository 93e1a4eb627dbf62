---------------------------- MODULE StatsDataProofs ---------------------------
(* Proofs about StatsData, for every set of jobs and every scenario: whatever   *)
(* is requested, whatever the providers have, whoever filled the cache.         *)
(*                                                                             *)
(* The cache: without a fault, every record in it is the first one some regular *)
(* request finds at its provider (CacheKnown), and two requests with the same   *)
(* key find the same (SameKey); a job that searches has found nothing at the    *)
(* providers before (SearchOf), so what it takes is the best there is (BestIs)  *)
(* and what it holds afterwards is a record (CleanOf).                          *)
(* The rows: a job that writes has written each bar or still has it to write,   *)
(* and rows are only added or merged into (WritesOf).                           *)
(* The chains: what is collected after n contracts is what there is to collect  *)
(* of the first n (TableOf), their volumes summed in whatever order (Volume).   *)
EXTENDS StatsData, SequenceTheorems, FiniteSetTheorems, WellFoundedInduction, TLAPS

Fields == {"at", "provider", "try", "record", "cached", "pipeline", "todo", "table", "out"}
Labels == {"idle", "lookup", "fetch", "persist", "got", "counted", "bars", "contracts", "done", "failed"}
NoFault == left.faults = scenario.faults

Shape ==
  /\ scenario \in Scenarios
  /\ DOMAIN job = DOMAIN scenario.request
  /\ \A j \in DOMAIN job : DOMAIN job[j] = Fields /\ job[j].at \in Labels
  /\ left \in [faults : Nat, expiries : Nat] /\ left.faults <= scenario.faults

(* The first record a request finds at a provider is that of its try k.         *)
Has(r, provider, k) == Answer(r, provider, Tries(r)[k]) = "data"
FirstOf(r, provider, k) ==
  /\ k \in 1..Len(Tries(r)) /\ Has(r, provider, k)
  /\ \A n \in 1..(k - 1) : ~Has(r, provider, n)
NoneOf(r, provider) == \A k \in 1..Len(Tries(r)) : ~Has(r, provider, k)
NoneBefore(r, i) == \A n \in 1..(i - 1) : NoneOf(r, Chain(r.symbol)[n])

CacheKnown ==
  NoFault => \A key \in DOMAIN inputRaw :
    \/ key.source[1] = "injected"
    \/ \E j \in DOMAIN job, p \in DOMAIN Blocked, k \in Nat :
         /\ Regular(Request(j)) /\ FirstOf(Request(j), p, k)
         /\ key = CacheKey(Request(j), p)
         /\ inputRaw[key] = Record(Request(j), p, Tries(Request(j))[k])

(* Where the search of a job q for a request r is, and what it has not found.    *)
SearchOf(r, q) == Route(r) # "inject" =>
  /\ q.at = "idle" => q.provider = 1
  /\ q.at \in {"lookup", "fetch", "persist"} => q.provider \in 1..Len(Chain(r.symbol))
  /\ q.at \in {"fetch", "persist"} => q.try \in 1..Len(Tries(r))
  /\ q.at = "persist" =>
       /\ Has(r, Chain(r.symbol)[q.provider], q.try)
       /\ q.record = Record(r, Chain(r.symbol)[q.provider], Tries(r)[q.try])

(* What it has not found, and what it found, as long as nothing fails.          *)
IsAnswer(r, rec) ==
  rec = None \/ \E p \in DOMAIN Blocked, k \in 1..Len(Tries(r)) :
                   Has(r, p, k) /\ rec = Record(r, p, Tries(r)[k])
Answered == {"got", "counted", "bars", "contracts", "done"}
CleanOf(r, q) ==
  /\ Route(r) # "inject" /\ q.at \in {"lookup", "fetch", "persist"} => NoneBefore(r, q.provider)
  /\ Route(r) # "inject" /\ q.at \in {"fetch", "persist"} =>
       \A n \in 1..(q.try - 1) : ~Has(r, Chain(r.symbol)[q.provider], n)
  /\ Regular(r) /\ q.at \in Answered => q.record = Best(r)
  /\ Regular(r) /\ q.at = "got" => IsAnswer(r, q.record)
  /\ Regular(r) /\ q.at = "failed" =>
       Best(r) = None \/ (r.pipeline = "ohlcv" /\ Best(r).kind = "options")

(* What it still has to write; keys are those of the rows there are.            *)
Recalled(r, q) == q.cached \/ r.pipeline # "ohlcv"
StillTo(q, t) == \E i \in DOMAIN q.todo : q.todo[i] = t
WritesOf(r, q, keys) ==
  /\ q.at = "contracts" => r.pipeline = "options"
  /\ q.at = "counted" => Recalled(r, q)
  /\ q.at = "bars" =>
       /\ q.todo \in Seq(Nat)
       /\ \A t \in ToSet(Bars(q.record)) : RowKey(q.record, t) \in keys \/ StillTo(q, t)
  /\ q.at = "done" /\ ~Recalled(r, q) =>
       \A t \in ToSet(Bars(q.record)) : RowKey(q.record, t) \in keys

JobInv(j) ==
  /\ SearchOf(Request(j), job[j])
  /\ NoFault => CleanOf(Request(j), job[j])
  /\ WritesOf(Request(j), job[j], DOMAIN bars)

IInv ==
  /\ Shape /\ CacheKnown
  /\ \A j \in DOMAIN job : JobInv(j)

-------------------------------------------------------------------------------
(* Providers and periods.                                                       *)

Providers == {"akshare", "mock", "yfinance", "fmp"}

LEMMA ProvidersAre == DOMAIN Blocked = Providers
BY DEF Blocked, Providers

\* Of two providers at most two are kept.
LEMMA KeptTyped ==
  ASSUME NEW a \in Providers, NEW b \in Providers, NEW fit
  PROVE  Kept(<<a, b>>, fit) \in Seq(Providers)
<1>1. CASE a \in fit /\ b \in fit BY <1>1 DEF Kept
<1>2. CASE a \in fit /\ b \notin fit BY <1>2 DEF Kept
<1>3. CASE a \notin fit /\ b \in fit BY <1>3 DEF Kept
<1>4. CASE a \notin fit /\ b \notin fit BY <1>4 DEF Kept
<1> QED BY <1>1, <1>2, <1>3, <1>4

\* Every symbol has a provider (common.py: a non-empty list of labels).
LEMMA ChainTyped ==
  ASSUME scenario \in Scenarios, NEW s
  PROVE  Chain(s) \in Seq(Providers) /\ Len(Chain(s)) \in Nat /\ 1 \in 1..Len(Chain(s))
<1> DEFINE first == Kept(<<"yfinance", "fmp">>, Preference(s) \intersect Usable)
           second == Kept(Fallbacks[ProviderFor(s)], Usable)
<1>1. ~HasIndex(s) BY DEF HasIndex, here, Indexes
<1>2. ProviderFor(s) \in {"yfinance", "fmp", "mock", "akshare"} BY <1>1, RequestsAreKnown DEF ProviderFor
<1>3. first \in Seq(Providers) BY KeptTyped DEF Providers
<1>4. \E a, b \in Providers : Fallbacks[ProviderFor(s)] = <<a, b>>
  <2>1. "yfinance" \in Providers /\ "fmp" \in Providers /\ "mock" \in Providers BY DEF Providers
  <2> QED BY <1>2, <2>1 DEF Fallbacks
<1>5. second \in Seq(Providers) BY <1>4, KeptTyped
<1>6. <<"mock">> \in Seq(Providers) BY DEF Providers
<1>7. Chain(s) \in {first, second, <<"mock">>} /\ Chain(s) # <<>> BY DEF Chain
<1> HIDE DEF first, second
<1>8. Chain(s) \in Seq(Providers) BY <1>3, <1>5, <1>6, <1>7
<1> QED BY <1>7, <1>8

LEMMA TriesTyped ==
  ASSUME NEW r
  PROVE  Len(Tries(r)) \in Nat /\ 1 \in 1..Len(Tries(r))
<1>1. CASE Tries(r) = <<r.period>> BY <1>1
<1>2. CASE Tries(r) = <<r.period, Shorter[r.period]>> BY <1>2
<1> QED BY <1>1, <1>2 DEF Tries

-------------------------------------------------------------------------------
(* The cache key.                                                               *)

\* The key tells apart whatever the answer depends on.
LEMMA SameKey ==
  ASSUME NEW r, NEW q, NEW p, NEW o, NEW k,
         Regular(r), Regular(q), CacheKey(r, p) = CacheKey(q, o), FirstOf(q, o, k)
  PROVE  /\ p = o /\ FirstOf(r, p, k)
         /\ Record(r, p, Tries(r)[k]) = Record(q, o, Tries(q)[k])
<1>1. p = o /\ r.symbol = q.symbol /\ (Route(r) = "futures" <=> Route(q) = "futures")
  BY DEF CacheKey
<1>2. Route(r) \in {"options", "futures", "ohlcv"} /\ Route(q) \in {"options", "futures", "ohlcv"}
  BY DEF Regular, Route
<1>3. Route(r) = Route(q)
  <2>1. CacheKey(r, p).period = CacheKey(q, o).period OBVIOUS
  <2>2. (Route(r) = "options" => CacheKey(r, p).period[1] = "options")
        /\ (Route(r) # "options" => CacheKey(r, p).period[1] = "bars") BY DEF CacheKey
  <2>3. (Route(q) = "options" => CacheKey(q, o).period[1] = "options")
        /\ (Route(q) # "options" => CacheKey(q, o).period[1] = "bars") BY DEF CacheKey
  <2> QED BY <1>1, <1>2, <2>1, <2>2, <2>3
<1>4. Service(r) = Service(q) BY <1>1, <1>3 DEF Service
<1>5. CASE Route(r) = "options"
  <2>1. Label(r) = Label(q) BY <1>3, <1>5 DEF CacheKey
  <2>2. Service(r) = "options" /\ Service(q) = "options" BY <1>3, <1>5 DEF Service
  <2>3. Tries(r) = <<r.period>> /\ Tries(q) = <<q.period>> BY <1>3, <1>5 DEF Tries
  <2>4. \A n : Answer(r, p, Tries(r)[n]) = Answer(q, o, Tries(q)[n])
    BY <1>1, <1>3, <1>5, <2>2 DEF Answer, OptionsAnswer, Regular
  <2>5. FirstOf(r, p, k) BY <2>3, <2>4 DEF FirstOf, Has
  <2>6. Record(r, p, Tries(r)[k]) = Record(q, o, Tries(q)[k]) BY <1>1, <2>1, <2>2 DEF Record, OptionsRecord, BarsRecord
  <2> QED BY <1>1, <2>5, <2>6
<1>6. CASE Route(r) # "options"
  <2>1. r.period = q.period BY <1>3, <1>6 DEF CacheKey
  <2>2. Service(r) # "options" BY <1>6, <1>2 DEF Service, Product
  <2>3. Tries(r) = Tries(q) BY <1>3, <1>6, <2>1 DEF Tries
  <2>4. \A n : Answer(r, p, Tries(r)[n]) = Answer(q, o, Tries(q)[n])
    BY <1>1, <1>4, <2>2, <2>3 DEF Answer, BarsAnswer
  <2>5. FirstOf(r, p, k) BY <2>3, <2>4 DEF FirstOf, Has
  <2>6. Record(r, p, Tries(r)[k]) = Record(q, o, Tries(q)[k]) BY <1>1, <1>4, <2>2, <2>3 DEF Record, OptionsRecord, BarsRecord
  <2> QED BY <1>1, <2>5, <2>6
<1> QED BY <1>5, <1>6

-------------------------------------------------------------------------------
(* The best record.                                                             *)

\* A job that found nothing before this provider and this try has found the best.
LEMMA BestIs ==
  ASSUME scenario \in Scenarios, NEW r, NEW i \in 1..Len(Chain(r.symbol)), NEW k,
         NoneBefore(r, i), FirstOf(r, Chain(r.symbol)[i], k)
  PROVE  Best(r) = Record(r, Chain(r.symbol)[i], Tries(r)[k])
<1> DEFINE first == Earliest(Found(r))
<1>1. Len(Chain(r.symbol)) \in Nat /\ Len(Tries(r)) \in Nat BY ChainTyped, TriesTyped
<1>2. <<i, k>> \in Found(r) BY DEF Found, FirstOf, Has
<1>3. \A y \in Found(r) : Earlier(<<i, k>>, y)
  <2> SUFFICES ASSUME NEW m \in 1..Len(Chain(r.symbol)), NEW n \in 1..Len(Tries(r)),
                      Has(r, Chain(r.symbol)[m], n)
               PROVE  i < m \/ (i = m /\ k <= n)
    BY DEF Found, Earlier, Has
  <2>1. ~(m < i) BY <1>1 DEF NoneBefore, NoneOf
  <2>2. m = i => ~(n < k) BY <1>1 DEF FirstOf
  <2> QED BY <1>1, <2>1, <2>2 DEF FirstOf
<1>4. first \in Found(r) /\ \A y \in Found(r) : Earlier(first, y) BY <1>2, <1>3 DEF Earliest
<1> HIDE DEF first
<1>5. \E m \in 1..Len(Chain(r.symbol)), n \in 1..Len(Tries(r)) : first = <<m, n>> BY <1>4 DEF Found
<1>6. Earlier(first, <<i, k>>) /\ Earlier(<<i, k>>, first) BY <1>2, <1>3, <1>4
<1>7. first = <<i, k>> BY <1>1, <1>5, <1>6 DEF Earlier, FirstOf
<1>8. Found(r) # {} BY <1>2
<1>9. Best(r) = Record(r, Chain(r.symbol)[first[1]], Tries(r)[first[2]])
  BY <1>8 DEF Best, first
<1> QED BY <1>7, <1>9

\* A job that found nothing at any provider is right to have nothing.
LEMMA NothingIsBest ==
  ASSUME scenario \in Scenarios, NEW r, NoneBefore(r, Len(Chain(r.symbol))),
         NoneOf(r, Chain(r.symbol)[Len(Chain(r.symbol))])
  PROVE  Best(r) = None
<1>1. Len(Chain(r.symbol)) \in Nat BY ChainTyped
<1>2. \A i \in 1..Len(Chain(r.symbol)) : NoneOf(r, Chain(r.symbol)[i]) BY <1>1 DEF NoneBefore
<1>3. Found(r) = {} BY <1>2 DEF Found, NoneOf, Has
<1> QED BY <1>3 DEF Best

-------------------------------------------------------------------------------
(* What a step leaves as it is.                                                 *)

\* The scenario decides requests, answers and the best record, and never changes.
LEMMA Frozen ==
  ASSUME scenario' = scenario, NEW r
  PROVE  /\ \A s : Chain(s)' = Chain(s)
         /\ \A p, k : Answer(r, p, k)' = Answer(r, p, k)
         /\ Best(r)' = Best(r)
<1>1. \A s : Chain(s)' = Chain(s)
  BY DEF Chain, Kept, Preference, Usable, ProviderFor, HasIndex, here, Product, Fallbacks, Blocked
<1>2. \A p, k : Answer(r, p, k)' = Answer(r, p, k)
  BY DEF Answer, OptionsAnswer, BarsAnswer, Serves, Refuses
<1>3. Found(r)' = Found(r) BY <1>1, <1>2 DEF Found
<1>4. Best(r)' = Best(r) BY <1>1, <1>3 DEF Best
<1> QED BY <1>1, <1>2, <1>4

LEMMA FrozenSearch ==
  ASSUME scenario' = scenario
  PROVE  /\ \A r, p, k : Has(r, p, k)' = Has(r, p, k)
         /\ \A r, p : NoneOf(r, p)' = NoneOf(r, p)
         /\ \A r, i : NoneBefore(r, i)' = NoneBefore(r, i)
         /\ \A r, p, k : FirstOf(r, p, k)' = FirstOf(r, p, k)
         /\ \A r, rec : IsAnswer(r, rec)' = IsAnswer(r, rec)
         /\ \A j : Request(j)' = Request(j) /\ Effective(j)' = Effective(j)
<1>1. \A r, p, k : Has(r, p, k)' = Has(r, p, k) BY Frozen DEF Has
<1>2. \A r, p : NoneOf(r, p)' = NoneOf(r, p) BY <1>1 DEF NoneOf
<1>3. \A r, i : NoneBefore(r, i)' = NoneBefore(r, i) BY <1>2, Frozen DEF NoneBefore
<1>4. \A r, p, k : FirstOf(r, p, k)' = FirstOf(r, p, k) BY <1>1 DEF FirstOf
<1>5. \A j : Request(j)' = Request(j) /\ Effective(j)' = Effective(j) BY DEF Request, Effective
<1>6. \A r, rec : IsAnswer(r, rec)' = IsAnswer(r, rec) BY <1>1 DEF IsAnswer
<1> QED BY <1>1, <1>2, <1>3, <1>4, <1>5, <1>6

(* A step of one job: no fault is undone, no row of bars removed.               *)
Onward == /\ scenario' = scenario
          /\ left' \in [faults : Nat, expiries : Nat] /\ left'.faults <= left.faults
          /\ DOMAIN bars \subseteq DOMAIN bars'

LEMMA FaultsStay == ASSUME Shape, Onward, NoFault' PROVE NoFault
BY ScenariosAreBounded DEF Onward, Shape, NoFault

LEMMA KeepsCache ==
  ASSUME Shape, CacheKnown, Onward, inputRaw' = inputRaw, DOMAIN job' = DOMAIN job
  PROVE  CacheKnown'
<1> SUFFICES ASSUME NoFault', NEW key \in DOMAIN inputRaw, key.source[1] # "injected"
             PROVE  \E j \in DOMAIN job, p \in DOMAIN Blocked, k \in Nat :
                      (/\ Regular(Request(j)) /\ FirstOf(Request(j), p, k)
                       /\ key = CacheKey(Request(j), p)
                       /\ inputRaw[key] = Record(Request(j), p, Tries(Request(j))[k]))'
  BY DEF CacheKnown
<1>1. NoFault BY FaultsStay
<1>2. PICK j \in DOMAIN job, p \in DOMAIN Blocked, k \in Nat :
        /\ Regular(Request(j)) /\ FirstOf(Request(j), p, k)
        /\ key = CacheKey(Request(j), p)
        /\ inputRaw[key] = Record(Request(j), p, Tries(Request(j))[k])
  BY <1>1 DEF CacheKnown
<1>3. scenario' = scenario BY DEF Onward
<1>4. Request(j)' = Request(j) /\ FirstOf(Request(j), p, k)' BY <1>2, <1>3, FrozenSearch
<1> QED BY <1>2, <1>4

LEMMA FrozenJob ==
  ASSUME scenario' = scenario, NEW r, NEW q
  PROVE  SearchOf(r, q)' = SearchOf(r, q) /\ CleanOf(r, q)' = CleanOf(r, q)
<1>1. Chain(r.symbol)' = Chain(r.symbol) /\ Best(r)' = Best(r) BY Frozen
<1>2. /\ \A p, k : Has(r, p, k)' = Has(r, p, k)
      /\ \A i : NoneBefore(r, i)' = NoneBefore(r, i)
      /\ \A rec : IsAnswer(r, rec)' = IsAnswer(r, rec)
  BY FrozenSearch
<1> QED BY <1>1, <1>2 DEF SearchOf, CleanOf

\* Rows that are there stay.
LEMMA WritesStay ==
  ASSUME NEW r, NEW q, NEW keys, NEW more, keys \subseteq more, WritesOf(r, q, keys)
  PROVE  WritesOf(r, q, more)
BY DEF WritesOf

\* The invariant after a step of one job follows from what is then known of it.
LEMMA OneMoves ==
  ASSUME IInv, Onward, NEW j \in DOMAIN job, NEW q, job' = [job EXCEPT ![j] = q],
         DOMAIN q = Fields, q.at \in Labels, CacheKnown', SearchOf(Request(j), q),
         NoFault' => CleanOf(Request(j), q), WritesOf(Request(j), q, DOMAIN bars')
  PROVE  IInv'
<1>1. DOMAIN job' = DOMAIN job /\ job'[j] = q /\ \A i \in DOMAIN job : i # j => job'[i] = job[i]
  OBVIOUS
<1>2. Shape' BY <1>1, ScenariosAreBounded DEF IInv, Shape, Onward
<1>3. scenario' = scenario /\ DOMAIN bars \subseteq DOMAIN bars' /\ (NoFault' => NoFault)
  BY FaultsStay DEF Onward, IInv
<1>4. ASSUME NEW i \in DOMAIN job PROVE JobInv(i)'
  <2>1. Request(i)' = Request(i) BY <1>3, FrozenSearch
  <2> DEFINE p == job'[i]
  <2>2. SearchOf(Request(i), p) /\ (NoFault' => CleanOf(Request(i), p)) /\ WritesOf(Request(i), p, DOMAIN bars')
    <3>1. CASE i = j BY <3>1, <1>1
    <3>2. CASE i # j BY <3>2, <1>1, <1>3, WritesStay DEF IInv, JobInv
    <3> QED BY <3>1, <3>2
  <2> HIDE DEF p
  <2>3. \A r, x : SearchOf(r, x)' = SearchOf(r, x) /\ CleanOf(r, x)' = CleanOf(r, x) BY <1>3, FrozenJob
  <2>5. SearchOf(Request(i), job[i])' BY <2>1, <2>2, <2>3 DEF p
  <2>6. NoFault' => CleanOf(Request(i), job[i])' BY <2>1, <2>2, <2>3 DEF p
  <2>7. WritesOf(Request(i), job[i], DOMAIN bars)' BY <2>1, <2>2 DEF p
  <2> QED BY <2>5, <2>6, <2>7 DEF JobInv
<1> QED BY <1>1, <1>2, <1>4 DEF IInv

-------------------------------------------------------------------------------
(* get_stats, step by step.                                                     *)

\* A search begins with the first provider; injected records need none.
LEMMA BeginKeeps == ASSUME IInv, NEW j \in DOMAIN job, Begin(j) PROVE IInv'
<1> DEFINE r == Request(j)
<1>1. Onward BY DEF Begin, data, Onward, IInv, Shape
<1>2. CacheKnown' BY <1>1, KeepsCache DEF Begin, Goto, data, IInv
<1>3. DOMAIN job[j] = Fields /\ job[j].at = "idle" BY DEF Begin, IInv, Shape
<1>4. CASE Route(r) = "inject"
  <2> DEFINE q == [job[j] EXCEPT !.at = "persist", !.record = Injected(r)]
  <2>1. DOMAIN q = Fields /\ q.at = "persist" BY <1>3 DEF Fields
  <2>2. job' = [job EXCEPT ![j] = q] BY <1>4 DEF Begin, Goto
  <2>3. SearchOf(r, q) /\ CleanOf(r, q) /\ WritesOf(r, q, DOMAIN bars')
    BY <1>4, <2>1 DEF SearchOf, CleanOf, WritesOf, Regular, Answered
  <2> HIDE DEF q
  <2> QED BY <1>1, <1>2, <2>1, <2>2, <2>3, OneMoves DEF Labels
<1>5. CASE Route(r) # "inject"
  <2> DEFINE q == [job[j] EXCEPT !.at = "lookup"]
  <2>1. DOMAIN q = Fields /\ q.at = "lookup" /\ q.provider = job[j].provider BY <1>3 DEF Fields
  <2>2. job' = [job EXCEPT ![j] = q] BY <1>5 DEF Begin, Goto
  <2>3. job[j].provider = 1 BY <1>3, <1>5 DEF IInv, JobInv, SearchOf
  <2>4. 1 \in 1..Len(Chain(r.symbol)) BY ChainTyped DEF IInv, Shape
  <2>5. NoneBefore(r, 1) BY DEF NoneBefore
  <2>6. SearchOf(r, q) /\ CleanOf(r, q) /\ WritesOf(r, q, DOMAIN bars')
    BY <2>1, <2>3, <2>4, <2>5 DEF SearchOf, CleanOf, WritesOf, Answered
  <2> HIDE DEF q
  <2> QED BY <1>1, <1>2, <2>1, <2>2, <2>6, OneMoves DEF Labels
<1> QED BY <1>4, <1>5

\* A job that only stops, after a fault, is not held to anything.
LEMMA FaultStops ==
  ASSUME IInv, NEW j \in DOMAIN job, Fault, Stop(j), UNCHANGED <<inputRaw, data>>
  PROVE  IInv'
<1> DEFINE q == [job[j] EXCEPT !.at = "failed"]
<1>1. Onward /\ ~NoFault' BY DEF Fault, data, Onward, IInv, Shape, NoFault
<1>2. job' = [job EXCEPT ![j] = q] BY DEF Stop, Goto
<1>3. CacheKnown' BY <1>1 DEF CacheKnown
<1>4. DOMAIN q = Fields /\ q.at = "failed" BY DEF IInv, Shape, Fields
<1>5. SearchOf(Request(j), q) /\ WritesOf(Request(j), q, DOMAIN bars')
  BY <1>4 DEF SearchOf, WritesOf
<1> HIDE DEF q
<1> QED BY <1>1, <1>2, <1>3, <1>4, <1>5, OneMoves DEF Labels

\* What the cache holds for a key is the best record of whoever asks with that key.
LEMMA CacheServes ==
  ASSUME IInv, NoFault, NEW j \in DOMAIN job, job[j].at = "lookup", Regular(Request(j)),
         KeyOf(j) \in DOMAIN inputRaw
  PROVE  inputRaw[KeyOf(j)] = Best(Request(j)) /\ IsAnswer(Request(j), inputRaw[KeyOf(j)])
<1> DEFINE r == Request(j)
           i == job[j].provider
<1>1. Route(r) # "inject" BY DEF Regular
<1>2. KeyOf(j) = CacheKey(r, Chain(r.symbol)[i]) BY <1>1 DEF KeyOf, Provider
<1>3. KeyOf(j).source[1] # "injected" BY <1>2 DEF CacheKey
<1>4. PICK u \in DOMAIN job, o \in DOMAIN Blocked, k \in Nat :
        /\ Regular(Request(u)) /\ FirstOf(Request(u), o, k)
        /\ KeyOf(j) = CacheKey(Request(u), o)
        /\ inputRaw[KeyOf(j)] = Record(Request(u), o, Tries(Request(u))[k])
  BY <1>3 DEF IInv, CacheKnown
<1>5. /\ FirstOf(r, Chain(r.symbol)[i], k)
      /\ Record(r, Chain(r.symbol)[i], Tries(r)[k]) = inputRaw[KeyOf(j)]
  <2> DEFINE p == Chain(r.symbol)[i]
             w == Request(u)
  <2>1. Regular(r) /\ Regular(w) /\ CacheKey(r, p) = CacheKey(w, o) /\ FirstOf(w, o, k) BY <1>2, <1>4
  <2> HIDE DEF p, w
  <2>2. FirstOf(r, p, k) /\ Record(r, p, Tries(r)[k]) = Record(w, o, Tries(w)[k]) BY <2>1, SameKey
  <2> QED BY <1>4, <2>2 DEF p, w
<1>6. i \in 1..Len(Chain(r.symbol)) /\ NoneBefore(r, i)
  BY <1>1 DEF IInv, JobInv, SearchOf, CleanOf
<1>7. scenario \in Scenarios BY DEF IInv, Shape
<1>8. inputRaw[KeyOf(j)] = Best(r) BY <1>5, <1>6, <1>7, BestIs
<1>9. Chain(r.symbol)[i] \in DOMAIN Blocked BY <1>6, <1>7, ChainTyped, ProvidersAre
<1>10. IsAnswer(r, inputRaw[KeyOf(j)]) BY <1>5, <1>9 DEF IsAnswer, FirstOf
<1> QED BY <1>8, <1>10

LEMMA LookupKeeps == ASSUME IInv, NEW j \in DOMAIN job, Lookup(j) PROVE IInv'
<1> DEFINE r == Request(j)
<1>1. Onward BY DEF Lookup, data, Onward, IInv, Shape
<1>2. CacheKnown' BY <1>1, KeepsCache DEF Lookup, EndGet, Goto, data, IInv
<1>3. DOMAIN job[j] = Fields /\ job[j].at = "lookup" BY DEF Lookup, IInv, Shape
<1>4. NoFault' => NoFault BY <1>1, FaultsStay DEF IInv
<1>5. CASE KeyOf(j) \in DOMAIN inputRaw
  <2> DEFINE q == [job[j] EXCEPT !.at = "got", !.record = inputRaw[KeyOf(j)], !.cached = TRUE, !.pipeline = Route(r)]
  <2>1. DOMAIN q = Fields /\ q.at = "got" /\ q.record = inputRaw[KeyOf(j)] BY <1>3 DEF Fields
  <2>2. job' = [job EXCEPT ![j] = q] BY <1>5 DEF Lookup, EndGet, Goto
  <2>3. SearchOf(r, q) /\ WritesOf(r, q, DOMAIN bars') BY <2>1 DEF SearchOf, WritesOf
  <2>4. NoFault' => CleanOf(r, q) BY <1>3, <1>4, <1>5, <2>1, CacheServes DEF CleanOf
  <2> HIDE DEF q
  <2> QED BY <1>1, <1>2, <2>1, <2>2, <2>3, <2>4, OneMoves DEF Labels
<1>6. CASE KeyOf(j) \notin DOMAIN inputRaw
  <2> DEFINE q == [job[j] EXCEPT !.at = "fetch", !.try = 1]
  <2>1. DOMAIN q = Fields /\ q.at = "fetch" /\ q.try = 1 /\ q.provider = job[j].provider BY <1>3 DEF Fields
  <2>2. job' = [job EXCEPT ![j] = q] BY <1>6 DEF Lookup, Goto
  <2>3. 1 \in 1..Len(Tries(r)) BY TriesTyped
  <2>4. SearchOf(r, q) /\ WritesOf(r, q, DOMAIN bars')
    BY <1>3, <2>1, <2>3 DEF SearchOf, WritesOf, IInv, JobInv
  <2>5. NoFault' => CleanOf(r, q) BY <1>3, <1>4, <2>1 DEF CleanOf, IInv, JobInv, Answered
  <2> HIDE DEF q
  <2> QED BY <1>1, <1>2, <2>1, <2>2, <2>4, <2>5, OneMoves DEF Labels
<1> QED BY <1>5, <1>6

\* An empty answer moves the search on, or ends it with nothing left to ask.
LEMMA OtherwiseKeeps ==
  ASSUME IInv, Onward, NEW j \in DOMAIN job, job[j].at = "fetch", Otherwise(j),
         UNCHANGED <<inputRaw, data>>,
         NoFault' => ~Has(Request(j), Provider(j), job[j].try)
  PROVE  IInv'
<1> DEFINE r == Request(j)
           i == job[j].provider
           n == job[j].try
<1>1. CacheKnown' BY KeepsCache DEF Otherwise, NoMore, EndGet, Stop, Goto, data, IInv
<1>2. DOMAIN job[j] = Fields /\ scenario \in Scenarios BY DEF IInv, Shape
<1>3. Len(Tries(r)) \in Nat /\ Len(Chain(r.symbol)) \in Nat BY <1>2, TriesTyped, ChainTyped
<1>4. NoFault' => NoFault BY FaultsStay DEF IInv
<1>5. SearchOf(r, job[j]) /\ (NoFault => CleanOf(r, job[j])) BY DEF IInv, JobInv
<1>6. CASE n < Len(Tries(r))
  <2> DEFINE q == [job[j] EXCEPT !.try = n + 1]
  <2>1. DOMAIN q = Fields /\ q.at = "fetch" /\ q.try = n + 1 /\ q.provider = i BY <1>2 DEF Fields
  <2>2. job' = [job EXCEPT ![j] = q] BY <1>6 DEF Otherwise, Goto
  <2>3. SearchOf(r, q) BY <1>3, <1>5, <1>6, <2>1 DEF SearchOf
  <2>4. ASSUME NoFault', Route(r) # "inject" PROVE CleanOf(r, q)
    <3>1. \A m \in 1..n : ~Has(r, Chain(r.symbol)[i], m)
      BY <1>3, <1>4, <1>5, <2>4 DEF CleanOf, Provider, SearchOf
    <3>2. n \in Nat BY <1>3, <1>5, <2>4 DEF SearchOf
    <3> QED BY <1>4, <1>5, <2>1, <2>4, <3>1, <3>2 DEF CleanOf, Answered
  <2>5. Route(r) = "inject" => CleanOf(r, q) BY DEF CleanOf, Regular
  <2>6. WritesOf(r, q, DOMAIN bars') BY <2>1 DEF WritesOf
  <2> HIDE DEF q
  <2> QED BY <1>1, <2>1, <2>2, <2>3, <2>4, <2>5, <2>6, OneMoves DEF Labels
<1>7. CASE ~(n < Len(Tries(r))) /\ i < Len(Chain(r.symbol))
  <2> DEFINE q == [job[j] EXCEPT !.at = "lookup", !.provider = i + 1]
  <2>1. DOMAIN q = Fields /\ q.at = "lookup" /\ q.provider = i + 1 BY <1>2 DEF Fields
  <2>2. job' = [job EXCEPT ![j] = q] BY <1>7 DEF Otherwise, Goto
  <2>3. SearchOf(r, q) BY <1>3, <1>5, <1>7, <2>1 DEF SearchOf
  <2>4. ASSUME NoFault', Route(r) # "inject" PROVE CleanOf(r, q)
    <3>1. i \in 1..Len(Chain(r.symbol)) /\ n \in 1..Len(Tries(r)) BY <1>5, <2>4 DEF SearchOf
    <3>2. NoneOf(r, Chain(r.symbol)[i])
      BY <1>3, <1>4, <1>5, <1>7, <2>4, <3>1 DEF CleanOf, Provider, NoneOf
    <3>3. NoneBefore(r, i) BY <1>4, <1>5, <2>4 DEF CleanOf
    <3>4. NoneBefore(r, i + 1) BY <1>3, <3>1, <3>2, <3>3 DEF NoneBefore
    <3> QED BY <2>1, <3>4 DEF CleanOf, Answered
  <2>5. Route(r) = "inject" => CleanOf(r, q) BY DEF CleanOf, Regular
  <2>6. WritesOf(r, q, DOMAIN bars') BY <2>1 DEF WritesOf
  <2> HIDE DEF q
  <2> QED BY <1>1, <2>1, <2>2, <2>3, <2>4, <2>5, <2>6, OneMoves DEF Labels
<1>8. CASE ~(n < Len(Tries(r))) /\ ~(i < Len(Chain(r.symbol)))
  <2>1. ASSUME NoFault', Regular(r) PROVE Best(r) = None
    <3>1. i \in 1..Len(Chain(r.symbol)) /\ n \in 1..Len(Tries(r)) BY <1>5, <2>1 DEF SearchOf, Regular
    <3>2. i = Len(Chain(r.symbol)) /\ n = Len(Tries(r)) BY <1>3, <1>8, <3>1
    <3>3. NoneOf(r, Chain(r.symbol)[i])
      BY <1>3, <1>4, <1>5, <2>1, <3>2 DEF CleanOf, Provider, NoneOf, Regular
    <3>4. NoneBefore(r, i) BY <1>4, <1>5, <2>1 DEF CleanOf, Regular
    <3> QED BY <1>2, <3>2, <3>3, <3>4, NothingIsBest
  <2>2. CASE Route(r) = "options"
    <3> DEFINE q == [job[j] EXCEPT !.at = "got", !.record = None, !.cached = FALSE, !.pipeline = "options"]
    <3>1. DOMAIN q = Fields /\ q.at = "got" /\ q.record = None BY <1>2 DEF Fields
    <3>2. job' = [job EXCEPT ![j] = q] BY <1>8, <2>2 DEF Otherwise, NoMore, EndGet, Goto
    <3>3. SearchOf(r, q) /\ WritesOf(r, q, DOMAIN bars') BY <3>1 DEF SearchOf, WritesOf
    <3>4. NoFault' => CleanOf(r, q) BY <2>1, <3>1 DEF CleanOf, IsAnswer
    <3> HIDE DEF q
    <3> QED BY <1>1, <3>1, <3>2, <3>3, <3>4, OneMoves DEF Labels
  <2>3. CASE Route(r) # "options"
    <3> DEFINE q == [job[j] EXCEPT !.at = "failed"]
    <3>1. DOMAIN q = Fields /\ q.at = "failed" BY <1>2 DEF Fields
    <3>2. job' = [job EXCEPT ![j] = q] BY <1>8, <2>3 DEF Otherwise, NoMore, Stop, Goto
    <3>3. SearchOf(r, q) /\ WritesOf(r, q, DOMAIN bars') BY <3>1 DEF SearchOf, WritesOf
    <3>4. NoFault' => CleanOf(r, q) BY <2>1, <3>1 DEF CleanOf, Answered
    <3> HIDE DEF q
    <3> QED BY <1>1, <3>1, <3>2, <3>3, <3>4, OneMoves DEF Labels
  <2> QED BY <2>2, <2>3
<1> QED BY <1>6, <1>7, <1>8

LEMMA FetchKeeps == ASSUME IInv, NEW j \in DOMAIN job, Fetch(j) PROVE IInv'
<1> DEFINE r == Request(j)
           n == job[j].try
<1>1. Onward BY DEF Fetch, data, Onward, IInv, Shape
<1>2. DOMAIN job[j] = Fields /\ job[j].at = "fetch" BY DEF Fetch, IInv, Shape
<1>3. CASE Has(r, Provider(j), n)
  <2> DEFINE q == [job[j] EXCEPT !.at = "persist", !.record = Record(r, Provider(j), Tries(r)[n])]
  <2>1. /\ DOMAIN q = Fields /\ q.at = "persist" /\ q.try = n /\ q.provider = job[j].provider
        /\ q.record = Record(r, Provider(j), Tries(r)[n])
    BY <1>2 DEF Fields
  <2>2. job' = [job EXCEPT ![j] = q] BY <1>3 DEF Fetch, Goto, Has
  <2>3. CacheKnown' BY <1>1, <2>2, KeepsCache DEF Fetch, IInv
  <2>4. SearchOf(r, q) BY <1>2, <1>3, <2>1 DEF SearchOf, IInv, JobInv, Provider
  <2>5. NoFault' => CleanOf(r, q)
    BY <1>1, <1>2, <2>1, FaultsStay DEF CleanOf, IInv, JobInv, Answered
  <2>6. WritesOf(r, q, DOMAIN bars') BY <2>1 DEF WritesOf
  <2> HIDE DEF q
  <2> QED BY <1>1, <2>1, <2>2, <2>3, <2>4, <2>5, <2>6, OneMoves DEF Labels
<1>4. CASE ~Has(r, Provider(j), n)
  <2>1. Otherwise(j) /\ UNCHANGED <<inputRaw, data>> BY <1>4 DEF Fetch, Has
  <2> QED BY <1>1, <1>2, <1>4, <2>1, OtherwiseKeeps
<1> QED BY <1>3, <1>4

LEMMA FetchFailsKeeps == ASSUME IInv, NEW j \in DOMAIN job, FetchFails(j) PROVE IInv'
<1>1. Onward /\ ~NoFault' BY DEF FetchFails, Fault, data, Onward, IInv, Shape, NoFault
<1> QED BY <1>1, OtherwiseKeeps DEF FetchFails

\* What a search found is the best there is, and goes under the key of its request.
LEMMA PersistKeeps == ASSUME IInv, NEW j \in DOMAIN job, Persist(j) PROVE IInv'
<1> DEFINE r == Request(j)
           o == Chain(r.symbol)[job[j].provider]
           n == job[j].try
           tag == IF Route(Request(j)) = "inject" THEN Request(j).inject ELSE Route(Request(j))
           q == [job[j] EXCEPT !.at = "got", !.record = job[j].record, !.cached = FALSE, !.pipeline = tag]
<1>1. Onward BY DEF Persist, data, Onward, IInv, Shape
<1>2. DOMAIN job[j] = Fields /\ job[j].at = "persist" /\ scenario \in Scenarios
  BY DEF Persist, IInv, Shape
<1>3. DOMAIN q = Fields /\ q.at = "got" /\ q.record = job[j].record BY <1>2 DEF Fields
<1>4. job' = [job EXCEPT ![j] = q] BY DEF Persist, EndGet, Goto
<1>5. NoFault' => NoFault BY <1>1, FaultsStay DEF IInv
<1>6. ASSUME Route(r) # "inject"
      PROVE  /\ job[j].record = Record(r, o, Tries(r)[n])
             /\ Has(r, o, n) /\ o \in DOMAIN Blocked /\ n \in 1..Len(Tries(r)) /\ Regular(r)
  <2>1. /\ job[j].record = Record(r, o, Tries(r)[n])
        /\ Has(r, o, n) /\ n \in 1..Len(Tries(r)) /\ job[j].provider \in 1..Len(Chain(r.symbol))
    BY <1>2, <1>6 DEF IInv, JobInv, SearchOf
  <2>2. o \in DOMAIN Blocked BY <1>2, <2>1, ChainTyped, ProvidersAre
  <2>3. Regular(r) BY <1>6, <2>1 DEF Regular, Has, Answer, OptionsAnswer, Service
  <2> QED BY <2>1, <2>2, <2>3
<1>7. ASSUME Route(r) # "inject", NoFault' PROVE FirstOf(r, o, n) /\ NoneBefore(r, job[j].provider)
  BY <1>2, <1>5, <1>6, <1>7 DEF IInv, JobInv, CleanOf, FirstOf
<1>8. CacheKnown'
  <2> SUFFICES ASSUME NoFault', NEW key \in DOMAIN inputRaw', key.source[1] # "injected"
               PROVE  \E u \in DOMAIN job, p \in DOMAIN Blocked, k \in Nat :
                        /\ Regular(Request(u)) /\ FirstOf(Request(u), p, k)
                        /\ key = CacheKey(Request(u), p)
                        /\ inputRaw'[key] = Record(Request(u), p, Tries(Request(u))[k])
    <3>1. scenario' = scenario /\ DOMAIN job' = DOMAIN job BY <1>1, <1>4 DEF Onward
    <3> QED BY <3>1, FrozenSearch DEF CacheKnown
  <2>1. CASE key = KeyOf(j)
    <3>1. Route(r) # "inject" BY <2>1 DEF KeyOf
    <3>2. key = CacheKey(r, o) BY <2>1, <3>1 DEF KeyOf, Provider
    <3>3. inputRaw'[key] = job[j].record BY <2>1 DEF Persist, Put
    <3>4. n \in Nat BY <1>6, <3>1, TriesTyped
    <3> QED BY <1>6, <1>7, <3>1, <3>2, <3>3, <3>4
  <2>2. CASE key # KeyOf(j)
    <3>1. key \in DOMAIN inputRaw /\ inputRaw'[key] = inputRaw[key] BY <2>2 DEF Persist, Put
    <3> QED BY <1>5, <3>1 DEF CacheKnown, IInv
  <2> QED BY <2>1, <2>2
<1>9. SearchOf(r, q) /\ WritesOf(r, q, DOMAIN bars') BY <1>3 DEF SearchOf, WritesOf
<1>10. NoFault' => CleanOf(r, q)
  <2> SUFFICES ASSUME NoFault', Regular(r) PROVE q.record = Best(r) /\ IsAnswer(r, q.record)
    BY <1>3 DEF CleanOf
  <2>1. Route(r) # "inject" BY DEF Regular
  <2>2. job[j].provider \in 1..Len(Chain(r.symbol)) BY <1>2, <2>1 DEF IInv, JobInv, SearchOf
  <2>3. Best(r) = Record(r, o, Tries(r)[n]) BY <1>2, <1>7, <2>1, <2>2, BestIs
  <2> QED BY <1>3, <1>6, <2>1, <2>3 DEF IsAnswer
<1> HIDE DEF q
<1> QED BY <1>1, <1>3, <1>4, <1>8, <1>9, <1>10, OneMoves DEF Labels

LEMMA ExpireKeeps == ASSUME IInv, Expire PROVE IInv'
<1>1. Onward BY DEF Expire, data, Onward, IInv, Shape
<1>2. Shape' BY <1>1 DEF Expire, data, IInv, Shape, Onward
<1>3. CacheKnown' BY DEF Expire, CacheKnown
<1>4. scenario' = scenario /\ bars' = bars /\ job' = job /\ (NoFault' => NoFault)
  BY <1>1, FaultsStay DEF Expire, data, IInv
<1>5. ASSUME NEW i \in DOMAIN job PROVE JobInv(i)'
  <2>1. Request(i)' = Request(i) BY <1>4, FrozenSearch
  <2>2. \A r, x : SearchOf(r, x)' = SearchOf(r, x) /\ CleanOf(r, x)' = CleanOf(r, x) BY <1>4, FrozenJob
  <2> QED BY <1>4, <2>1, <2>2 DEF JobInv, IInv
<1> QED BY <1>2, <1>3, <1>4, <1>5 DEF IInv

-------------------------------------------------------------------------------
(* calculate_stats.                                                             *)

LEMMA BarsTyped == ASSUME NEW rec PROVE Bars(rec) \in Seq(Nat)
<1>1. <<1, 2, 3>> \in Seq(Nat) /\ <<2>> \in Seq(Nat) /\ <<2, 2, 3>> \in Seq(Nat) /\ <<2, 3>> \in Seq(Nat)
  OBVIOUS
<1> QED BY <1>1 DEF Bars

\* A record a provider has bars for can be calculated.
LEMMA AnswersHaveBars ==
  ASSUME scenario \in Scenarios, NEW r, NEW rec, Regular(r), IsAnswer(r, rec), rec # None
  PROVE  /\ rec.kind \in {"ohlcv", "futures", "options"}
         /\ rec.kind # "options" => Granularity(rec.period) # None
         /\ r.pipeline = "futures" => rec.kind # "options"
<1>1. PICK p, k : Has(r, p, k) /\ rec = Record(r, p, Tries(r)[k]) BY DEF IsAnswer
<1> DEFINE t == Tries(r)[k]
<1>2. rec.kind \in {"ohlcv", "futures", "options"} BY <1>1 DEF Record, OptionsRecord, BarsRecord
<1>3. ASSUME rec.kind # "options" PROVE Granularity(rec.period) # None
  <2>1. Service(r) # "options" /\ rec.period = t BY <1>1, <1>3 DEF Record, OptionsRecord, BarsRecord
  <2>2. <<p, r.symbol.name, t>> \in scenario.has BY <1>1, <2>1 DEF Has, Answer, BarsAnswer
  <2>3. t \in {"1d", "1w", "1mo", "3mo", "1y", "2y"} BY <2>2, PeriodsAreKnown
  <2> QED BY <2>1, <2>3, NoneIsNoGranularity DEF Granularity
<1>4. r.pipeline = "futures" => rec.kind # "options"
  BY <1>1 DEF Record, OptionsRecord, BarsRecord, Service, Regular, Route
<1> QED BY <1>2, <1>3, <1>4

LEMMA CalculateKeeps == ASSUME IInv, NEW j \in DOMAIN job, Calculate(j) PROVE IInv'
<1> DEFINE r == Request(j)
           rec == job[j].record
           q == [job[j] EXCEPT !.at = Plan(j).at, !.todo = Plan(j).todo]
<1>1. Onward BY DEF Calculate, data, Onward, IInv, Shape
<1>2. DOMAIN job[j] = Fields /\ job[j].at = "got" /\ scenario \in Scenarios BY DEF Calculate, IInv, Shape
<1>3. job' = [job EXCEPT ![j] = q] BY DEF Calculate, Goto
<1>4. CacheKnown' BY <1>1, <1>3, KeepsCache DEF Calculate, IInv
<1>5. /\ DOMAIN q = Fields /\ q.at = Plan(j).at /\ q.todo = Plan(j).todo
      /\ q.record = rec /\ q.cached = job[j].cached
  BY <1>2 DEF Fields
<1>6. r.pipeline \in {"ohlcv", "options", "futures"} BY <1>2, RequestsAreKnown DEF Request, IInv, Shape
<1> DEFINE barsPlan == BarsPlan(rec, FromCache(j))
<1>7. /\ rec = None => Plan(j) = Nothing
      /\ rec # None /\ r.pipeline = "options" => Plan(j) = ContractsPlan(rec)
      /\ rec # None /\ r.pipeline # "options" => Plan(j) = barsPlan
  BY <1>6 DEF Plan, Effective, FuturesPlan
<1>8. \/ barsPlan.at = "failed" /\ (Granularity(rec.period) = None \/ rec.kind \in {"options", "text"})
      \/ barsPlan.at = "counted" /\ FromCache(j)
      \/ barsPlan.at = "bars" /\ barsPlan.todo = Bars(rec)
  BY DEF BarsPlan, Nothing
<1>9. ContractsPlan(rec).at = "contracts" BY DEF ContractsPlan
<1>10. \/ q.at = "failed"
       \/ q.at = "contracts" /\ r.pipeline = "options"
       \/ q.at = "counted" /\ FromCache(j)
       \/ q.at = "bars" /\ q.todo = Bars(rec)
  BY <1>5, <1>7, <1>8, <1>9 DEF Nothing
<1>11. FromCache(j) = Recalled(r, q) BY <1>5 DEF FromCache, Recalled, Effective
<1> HIDE DEF q
<1>12. SearchOf(r, q) BY <1>10 DEF SearchOf
<1>13. WritesOf(r, q, DOMAIN bars')
  <2>1. Bars(rec) \in Seq(Nat) BY BarsTyped
  <2>2. q.at = "bars" => \A t \in ToSet(Bars(rec)) : StillTo(q, t) BY <1>10, <2>1 DEF ToSet, StillTo
  <2> QED BY <1>5, <1>10, <1>11, <2>1, <2>2 DEF WritesOf
<1>14. NoFault' => CleanOf(r, q)
  <2> SUFFICES ASSUME NoFault', Regular(r)
               PROVE  /\ q.at # "failed" => q.record = Best(r)
                      /\ q.at = "failed" => Best(r) = None \/ (r.pipeline = "ohlcv" /\ Best(r).kind = "options")
    BY <1>10 DEF CleanOf, Answered
  <2>1. rec = Best(r) /\ IsAnswer(r, rec)
    BY <1>1, <1>2, FaultsStay DEF IInv, JobInv, CleanOf, Answered
  <2>2. ASSUME q.at = "failed", rec # None PROVE r.pipeline = "ohlcv" /\ rec.kind = "options"
    <3>1. r.pipeline # "options" BY <1>5, <1>7, <1>9, <2>2
    <3>2. Granularity(rec.period) = None \/ rec.kind \in {"options", "text"} BY <1>5, <1>7, <1>8, <2>2, <3>1
    <3> QED BY <1>2, <1>6, <2>1, <2>2, <3>1, <3>2, AnswersHaveBars
  <2> QED BY <1>5, <2>1, <2>2
<1>15. q.at \in Labels BY <1>10 DEF Labels
<1> QED BY <1>1, <1>3, <1>4, <1>5, <1>12, <1>13, <1>14, <1>15, OneMoves

\* A step of a calculation that keeps its record keeps what is known of the search.
LEMMA KeepsRecord ==
  ASSUME IInv, Onward, NEW j \in DOMAIN job, NEW q,
         job[j].at \in {"counted", "bars", "contracts"}, q.at \in {"bars", "contracts", "done"},
         q.record = job[j].record
  PROVE  SearchOf(Request(j), q) /\ (NoFault' => CleanOf(Request(j), q))
<1>1. NoFault' => NoFault BY FaultsStay DEF IInv
<1> QED BY <1>1 DEF SearchOf, CleanOf, Answered, IInv, JobInv

LEMMA CountKeeps == ASSUME IInv, NEW j \in DOMAIN job, Count(j) PROVE IInv'
<1> DEFINE q == [job[j] EXCEPT !.at = "done", !.out = [rows |-> Counted(job[j].record)]]
<1>1. Onward BY DEF Count, data, Onward, IInv, Shape
<1>2. DOMAIN job[j] = Fields /\ job[j].at = "counted" BY DEF Count, IInv, Shape
<1>3. job' = [job EXCEPT ![j] = q] BY DEF Count, Goto
<1>4. CacheKnown' BY <1>1, <1>3, KeepsCache DEF Count, IInv
<1>5. DOMAIN q = Fields /\ q.at = "done" /\ q.record = job[j].record /\ q.cached = job[j].cached
  BY <1>2 DEF Fields
<1> HIDE DEF q
<1>6. SearchOf(Request(j), q) /\ (NoFault' => CleanOf(Request(j), q)) BY <1>1, <1>2, <1>5, KeepsRecord
<1>7. Recalled(Request(j), q) BY <1>2, <1>5 DEF Recalled, WritesOf, IInv, JobInv
<1>8. WritesOf(Request(j), q, DOMAIN bars') BY <1>5, <1>7 DEF WritesOf
<1> QED BY <1>1, <1>3, <1>4, <1>5, <1>6, <1>8, OneMoves DEF Labels

LEMMA UpsertKeeps == ASSUME IInv, NEW j \in DOMAIN job, Upsert(j) PROVE IInv'
<1> DEFINE q == [job[j] EXCEPT !.todo = Tail(job[j].todo)]
           rec == job[j].record
           todo == job[j].todo
<1>1. /\ DOMAIN job[j] = Fields /\ job[j].at = "bars" /\ todo # <<>> /\ todo \in Seq(Nat)
      /\ \A t \in ToSet(Bars(rec)) : RowKey(rec, t) \in DOMAIN bars \/ StillTo(job[j], t)
  BY DEF Upsert, IInv, Shape, JobInv, WritesOf
<1>2. DOMAIN bars' = DOMAIN bars \union {RowKey(rec, Head(todo))} BY DEF Upsert, Put
<1>3. Onward BY <1>2 DEF Upsert, Onward, IInv, Shape
<1>4. job' = [job EXCEPT ![j] = q] BY DEF Upsert, Goto
<1>5. CacheKnown' BY <1>3, <1>4, KeepsCache DEF Upsert, IInv
<1>6. DOMAIN q = Fields /\ q.at = "bars" /\ q.record = rec /\ q.todo = Tail(todo) BY <1>1 DEF Fields
<1> HIDE DEF q
<1>7. SearchOf(Request(j), q) /\ (NoFault' => CleanOf(Request(j), q)) BY <1>1, <1>3, <1>6, KeepsRecord
<1>8. ASSUME NEW t \in ToSet(Bars(rec)) PROVE RowKey(rec, t) \in DOMAIN bars' \/ StillTo(q, t)
  <2>1. CASE RowKey(rec, t) \in DOMAIN bars BY <2>1, <1>2
  <2>2. CASE StillTo(job[j], t)
    <3>1. PICK i \in DOMAIN todo : todo[i] = t BY <2>2 DEF StillTo
    <3>2. CASE i = 1 BY <1>1, <1>2, <3>1, <3>2
    <3>3. CASE i # 1
      <4>1. i - 1 \in 1..Len(Tail(todo)) /\ Tail(todo)[i - 1] = t BY <1>1, <3>1, <3>3
      <4>2. i - 1 \in DOMAIN Tail(todo) BY <1>1, <4>1
      <4> QED BY <1>6, <4>1, <4>2 DEF StillTo
    <3> QED BY <3>2, <3>3
  <2> QED BY <1>1, <2>1, <2>2
<1>9. WritesOf(Request(j), q, DOMAIN bars') BY <1>1, <1>6, <1>8 DEF WritesOf
<1> QED BY <1>3, <1>4, <1>5, <1>6, <1>7, <1>9, OneMoves DEF Labels

LEMMA BarsWrittenKeeps == ASSUME IInv, NEW j \in DOMAIN job, BarsWritten(j) PROVE IInv'
<1> DEFINE q == [job[j] EXCEPT !.at = "done", !.out = [rows |-> Len(Bars(job[j].record))]]
<1>1. Onward BY DEF BarsWritten, data, Onward, IInv, Shape
<1>2. DOMAIN job[j] = Fields /\ job[j].at = "bars" /\ job[j].todo = <<>>
  BY DEF BarsWritten, IInv, Shape
<1>3. job' = [job EXCEPT ![j] = q] BY DEF BarsWritten, Goto
<1>4. CacheKnown' BY <1>1, <1>3, KeepsCache DEF BarsWritten, IInv
<1>5. DOMAIN q = Fields /\ q.at = "done" /\ q.record = job[j].record BY <1>2 DEF Fields
<1> HIDE DEF q
<1>6. SearchOf(Request(j), q) /\ (NoFault' => CleanOf(Request(j), q)) BY <1>1, <1>2, <1>5, KeepsRecord
<1>7. \A t \in ToSet(Bars(job[j].record)) : RowKey(job[j].record, t) \in DOMAIN bars
  <2>1. \A t : ~StillTo(job[j], t) BY <1>2 DEF StillTo
  <2> QED BY <1>2, <2>1 DEF IInv, JobInv, WritesOf
<1>8. WritesOf(Request(j), q, DOMAIN bars') BY <1>1, <1>5, <1>7 DEF WritesOf, Onward
<1> QED BY <1>1, <1>3, <1>4, <1>5, <1>6, <1>8, OneMoves DEF Labels

LEMMA UpsertContractKeeps == ASSUME IInv, NEW j \in DOMAIN job, UpsertContract(j) PROVE IInv'
<1> DEFINE c == Head(job[j].todo)
           q == [job[j] EXCEPT !.todo = Tail(@), !.table = IF c.osi THEN Collect(@, c) ELSE Skipped(@)]
<1>1. Onward BY DEF UpsertContract, Onward, IInv, Shape
<1>2. DOMAIN job[j] = Fields /\ job[j].at = "contracts" BY DEF UpsertContract, IInv, Shape
<1>3. job' = [job EXCEPT ![j] = q] BY DEF UpsertContract, Goto
<1>4. CacheKnown' BY <1>1, <1>3, KeepsCache DEF UpsertContract, IInv
<1>5. DOMAIN q = Fields /\ q.at = "contracts" /\ q.record = job[j].record BY <1>2 DEF Fields
<1> HIDE DEF q
<1>6. SearchOf(Request(j), q) /\ (NoFault' => CleanOf(Request(j), q)) BY <1>1, <1>2, <1>5, KeepsRecord
<1>7. WritesOf(Request(j), q, DOMAIN bars') BY <1>2, <1>5 DEF WritesOf, IInv, JobInv
<1> QED BY <1>1, <1>3, <1>4, <1>5, <1>6, <1>7, OneMoves DEF Labels

LEMMA ContractsWrittenKeeps == ASSUME IInv, NEW j \in DOMAIN job, ContractsWritten(j) PROVE IInv'
<1> DEFINE q == [job[j] EXCEPT !.at = "done", !.out = Summary(job[j].table)]
<1>1. Onward BY DEF ContractsWritten, data, Onward, IInv, Shape
<1>2. DOMAIN job[j] = Fields /\ job[j].at = "contracts" BY DEF ContractsWritten, IInv, Shape
<1>3. job' = [job EXCEPT ![j] = q] BY DEF ContractsWritten, Goto
<1>4. CacheKnown' BY <1>1, <1>3, KeepsCache DEF ContractsWritten, IInv
<1>5. DOMAIN q = Fields /\ q.at = "done" /\ q.record = job[j].record BY <1>2 DEF Fields
<1> HIDE DEF q
<1>6. SearchOf(Request(j), q) /\ (NoFault' => CleanOf(Request(j), q)) BY <1>1, <1>2, <1>5, KeepsRecord
<1>7. Recalled(Request(j), q) BY <1>2 DEF Recalled, WritesOf, IInv, JobInv
<1>8. WritesOf(Request(j), q, DOMAIN bars') BY <1>5, <1>7 DEF WritesOf
<1> QED BY <1>1, <1>3, <1>4, <1>5, <1>6, <1>8, OneMoves DEF Labels

-------------------------------------------------------------------------------
(* Lists and sums.                                                              *)

\* A set of naturals has a least member.
LEMMA Least ==
  ASSUME NEW T \in SUBSET Nat, T # {}
  PROVE  \E m \in T : \A k \in T : m <= k
<1> DEFINE R == OpToRel(<, Nat)
<1>1. IsWellFoundedOn(R, Nat) BY NatLessThanWellFounded
<1>2. \A x, y \in Nat : <<y, x>> \in R <=> y < x BY DEF OpToRel
<1> HIDE DEF R
<1>3. PICK m \in T : \A k \in T : ~(<<k, m>> \in R) BY <1>1, WFMin
<1>4. \A k \in T : k \in Nat /\ m \in Nat /\ ~(k < m) BY <1>2, <1>3
<1>5. \A k \in T : m <= k BY <1>4
<1> QED BY <1>5

\* What Picked goes through: the elements kept of the first n.
Onto(list, fit, g, n) == IF list[n] \in fit THEN Append(g[n - 1], list[n]) ELSE g[n - 1]
Goes(list, fit, g) == g = [n \in 0..Len(list) |-> IF n = 0 THEN <<>> ELSE Onto(list, fit, g, n)]
LEMMA PickedIs ==
  ASSUME NEW list, NEW fit
  PROVE  Picked(list, fit) = (CHOOSE g : Goes(list, fit, g))[Len(list)]
BY DEF Picked, Goes, Onto

\* There is such a function, ...
LEMMA PickedExists ==
  ASSUME NEW S, NEW list \in Seq(S), NEW fit
  PROVE  \E g : Goes(list, fit, g)
<1> DEFINE Upto(g, n) == /\ g[0] = <<>> /\ DOMAIN g = 0..n
                         /\ \A i \in 1..n : g[i] = Onto(list, fit, g, i)
           T == {n \in Nat : ~\E g : g = [i \in 0..n |-> g[i]] /\ Upto(g, n)}
<1>1. T = {}
  <2> SUFFICES ASSUME T # {} PROVE FALSE OBVIOUS
  <2>1. PICK n \in T : \A k \in T : n <= k BY Least
  <2> HIDE DEF T
  <2>2. n \in Nat /\ ~\E g : g = [i \in 0..n |-> g[i]] /\ Upto(g, n) BY <2>1 DEF T
  <2>3. n # 0
    <3> DEFINE g == [i \in 0..0 |-> <<>>]
    <3>1. g = [i \in 0..0 |-> g[i]] /\ Upto(g, 0) OBVIOUS
    <3> QED BY <3>1, <2>2
  <2>4. n - 1 \in Nat /\ n - 1 \notin T BY <2>1, <2>2, <2>3
  <2>5. PICK h : h = [i \in 0..(n - 1) |-> h[i]] /\ Upto(h, n - 1) BY <2>4 DEF T
  <2> DEFINE g == [i \in 0..n |-> IF i = n THEN Onto(list, fit, h, n) ELSE h[i]]
  <2>6. \A i \in 0..(n - 1) : g[i] = h[i] BY <2>2
  <2>7. g[n] = Onto(list, fit, h, n) /\ g = [i \in 0..n |-> g[i]] BY <2>2
  <2>8. g[0] = <<>> BY <2>2, <2>4, <2>5, <2>6
  <2>9. DOMAIN g = 0..n OBVIOUS
  <2> HIDE DEF g
  <2>10. \A i \in 1..n : g[i] = Onto(list, fit, g, i)
    <3> SUFFICES ASSUME NEW i \in 1..n PROVE g[i] = Onto(list, fit, g, i) OBVIOUS
    <3>1. i - 1 \in 0..(n - 1) /\ g[i - 1] = h[i - 1] BY <2>2, <2>6
    <3>2. CASE i = n BY <3>1, <3>2, <2>7 DEF Onto
    <3>3. CASE i # n
      <4>1. i \in 0..(n - 1) /\ i \in 1..(n - 1) BY <3>3, <2>2
      <4> QED BY <4>1, <3>1, <2>5, <2>6 DEF Onto
    <3> QED BY <3>2, <3>3
  <2> QED BY <2>2, <2>7, <2>8, <2>9, <2>10
<1>2. Len(list) \in Nat BY LenProperties
<1>3. PICK g : g = [i \in 0..Len(list) |-> g[i]] /\ Upto(g, Len(list)) BY <1>1, <1>2
<1>4. \A i \in 0..Len(list) : g[i] = IF i = 0 THEN <<>> ELSE Onto(list, fit, g, i) BY <1>2, <1>3
<1>5. [i \in 0..Len(list) |-> g[i]] = [i \in 0..Len(list) |-> IF i = 0 THEN <<>> ELSE Onto(list, fit, g, i)]
  BY <1>4, Zenon
<1>6. g = [i \in 0..Len(list) |-> g[i]] BY <1>3
<1> QED BY <1>5, <1>6, Zenon DEF Goes

\* ... and what it gives is a list of the same kind.
LEMMA PickedTyped ==
  ASSUME NEW S, NEW list \in Seq(S), NEW fit
  PROVE  Picked(list, fit) \in Seq(S)
<1> DEFINE g == CHOOSE h : Goes(list, fit, h)
           T == {n \in 0..Len(list) : g[n] \notin Seq(S)}
<1>1. Goes(list, fit, g) BY PickedExists
<1>2. Len(list) \in Nat BY LenProperties
<1> HIDE DEF g
<1>3. \A n \in 0..Len(list) : g[n] = IF n = 0 THEN <<>> ELSE Onto(list, fit, g, n) BY <1>1 DEF Goes
<1>4. T = {}
  <2> SUFFICES ASSUME T # {} PROVE FALSE OBVIOUS
  <2>1. T \subseteq Nat BY <1>2
  <2>2. PICK n \in T : \A k \in T : n <= k BY <2>1, Least
  <2>3. n \in 0..Len(list) /\ g[n] \notin Seq(S) BY <2>2
  <2>4. n # 0
    <3>1. n = 0 => g[n] = <<>> BY <1>3, <2>3
    <3> QED BY <2>3, <3>1, EmptySeq
  <2>5. n - 1 \in 0..Len(list) /\ n \in 1..Len(list) /\ n - 1 \notin T BY <1>2, <2>2, <2>3, <2>4
  <2>6. g[n - 1] \in Seq(S) /\ list[n] \in S BY <2>5, ElementOfSeq
  <2>7. Append(g[n - 1], list[n]) \in Seq(S) BY <2>6, AppendProperties
  <2> QED BY <1>3, <2>3, <2>4, <2>6, <2>7 DEF Onto
<1>5. Picked(list, fit) = g[Len(list)] BY PickedIs DEF g
<1> QED BY <1>2, <1>4, <1>5

\* The volumes of some places of a list.
Volume(list, set) == FoldSet(LAMBDA i, n : n + Amount(list[i].volume), 0, set)
Pick(set) == CHOOSE x \in set : TRUE
AddsUp(list, set, g) ==
  g = [s \in SUBSET set |-> IF s = {} THEN 0 ELSE g[s \ {Pick(s)}] + Amount(list[Pick(s)].volume)]
LEMMA VolumeIs ==
  ASSUME NEW list, NEW set
  PROVE  Volume(list, set) = (CHOOSE g : AddsUp(list, set, g))[set]
BY DEF Volume, FoldSet, MapThenFoldSet, AddsUp, Pick

LEMMA PickIn == ASSUME NEW s, s # {} PROVE Pick(s) \in s
BY DEF Pick

\* Among finite sets there is one that contains no other.
LEMMA Smallest ==
  ASSUME NEW F, IsFiniteSet(F), NEW T, \A s \in T : s \subseteq F, T # {}
  PROVE  \E s \in T : \A u \in T : u \subseteq s => u = s
<1> DEFINE sizes == {Cardinality(s) : s \in T}
<1>2. ASSUME NEW s \in T PROVE IsFiniteSet(s) /\ Cardinality(s) \in Nat
  <2>1. s \in SUBSET F OBVIOUS
  <2> QED BY <2>1, FS_Subset, FS_CardinalityType
<1>3. sizes \subseteq Nat /\ sizes # {} BY <1>2
<1> HIDE DEF sizes
<1>4. PICK n \in sizes : \A k \in sizes : n <= k BY <1>3, Least
<1>5. PICK s \in T : n = Cardinality(s) BY <1>4 DEF sizes
<1>6. ASSUME NEW u \in T, u \subseteq s PROVE u = s
  <2>1. n <= Cardinality(u) BY <1>4 DEF sizes
  <2>2. Cardinality(u) <= Cardinality(s) /\ (Cardinality(s) = Cardinality(u) => s = u)
    BY <1>2, <1>6, FS_Subset
  <2> QED BY <1>2, <1>5, <2>1, <2>2
<1> QED BY <1>6

\* Two such functions agree where both are defined.
LEMMA SumsAgree ==
  ASSUME NEW list, NEW S, IsFiniteSet(S), NEW U, NEW g, NEW h,
         AddsUp(list, S, g), AddsUp(list, U, h), U \subseteq S
  PROVE  \A t \in SUBSET U : g[t] = h[t]
<1> DEFINE T == {s \in SUBSET U : g[s] # h[s]}
<1>1. \A s \in SUBSET S : g[s] = IF s = {} THEN 0 ELSE g[s \ {Pick(s)}] + Amount(list[Pick(s)].volume)
  BY DEF AddsUp
<1>2. \A s \in SUBSET U : h[s] = IF s = {} THEN 0 ELSE h[s \ {Pick(s)}] + Amount(list[Pick(s)].volume)
  BY DEF AddsUp
<1>3. T = {}
  <2> SUFFICES ASSUME T # {} PROVE FALSE OBVIOUS
  <2>0. T # {} /\ \A s \in T : s \subseteq S OBVIOUS
  <2> HIDE DEF T
  <2>00. PICK s \in T : \A u \in T : u \subseteq s => u = s BY <2>0, Smallest
  <2> USE DEF T
  <2>1. s \in T /\ \A u \in T : u \subseteq s => u = s BY <2>00
  <2>2. s # {} BY <1>1, <1>2, <2>1
  <2>3. Pick(s) \in s BY <2>2, PickIn
  <2> DEFINE u == s \ {Pick(s)}
  <2>4. u \notin T /\ u \subseteq S /\ u \subseteq U BY <2>1, <2>3
  <2>5. g[u] = h[u] BY <2>4
  <2>6. g[s] = g[u] + Amount(list[Pick(s)].volume) BY <1>1, <2>1, <2>2
  <2>7. h[s] = h[u] + Amount(list[Pick(s)].volume) BY <1>2, <2>1, <2>2
  <2> QED BY <2>1, <2>5, <2>6, <2>7
<1> QED BY <1>3

\* For every set of places there is such a function: it is Volume on the subsets.
LEMMA SumsExist ==
  ASSUME NEW F, IsFiniteSet(F), NEW list, NEW S \in SUBSET F
  PROVE  \E g : AddsUp(list, S, g)
<1> DEFINE T == {s \in SUBSET F : ~\E g : AddsUp(list, s, g)}
<1>1. T = {}
  <2> SUFFICES ASSUME T # {} PROVE FALSE OBVIOUS
  <2>0. T # {} /\ \A s \in T : s \subseteq F OBVIOUS
  <2> HIDE DEF T
  <2>00. PICK s \in T : \A u \in T : u \subseteq s => u = s BY <2>0, Smallest
  <2> USE DEF T
  <2>1. s \in T /\ \A u \in T : u \subseteq s => u = s BY <2>00
  <2> DEFINE f(u) == CHOOSE h : AddsUp(list, u, h)
             e(u) == IF u = {} THEN 0 ELSE Volume(list, u \ {Pick(u)}) + Amount(list[Pick(u)].volume)
             g == [u \in SUBSET s |-> e(u)]
  <2>2. \A u \in SUBSET s : u # s => AddsUp(list, u, f(u)) BY <2>1
  <2>3. \A u : Volume(list, u) = f(u)[u] BY VolumeIs
  <2> HIDE DEF f
  <2>4. ASSUME NEW u \in SUBSET s, u # s PROVE Volume(list, u) = e(u)
    <3>1. f(u)[u] = IF u = {} THEN 0 ELSE f(u)[u \ {Pick(u)}] + Amount(list[Pick(u)].volume)
      BY <2>2, <2>4 DEF AddsUp
    <3>2. CASE u = {} BY <3>1, <3>2, <2>3
    <3>3. CASE u # {}
      <4> DEFINE v == u \ {Pick(u)}
      <4>1. v \in SUBSET s /\ v # s /\ v \subseteq u BY <2>4, <3>3, PickIn
      <4>2. s \in SUBSET F BY <2>1
      <4>3. AddsUp(list, u, f(u)) /\ AddsUp(list, v, f(v)) BY <2>2, <2>4, <4>1
      <4>4. IsFiniteSet(u) /\ v \subseteq u BY <4>1, <4>2, FS_Subset
      <4> HIDE DEF v
      <4>5. \A p, q : AddsUp(list, u, p) /\ AddsUp(list, v, q) => p[v] = q[v] BY <4>4, SumsAgree
      <4>6. f(u)[v] = f(v)[v] BY <4>3, <4>5, Zenon
      <4> QED BY <2>3, <3>1, <3>3, <4>6 DEF v
    <3> QED BY <3>2, <3>3
  <2>5. ASSUME NEW u \in SUBSET s
        PROVE  g[u] = IF u = {} THEN 0 ELSE g[u \ {Pick(u)}] + Amount(list[Pick(u)].volume)
    <3>1. g[u] = e(u) OBVIOUS
    <3>2. CASE u = {} BY <3>1, <3>2
    <3>3. CASE u # {}
      <4> DEFINE v == u \ {Pick(u)}
      <4>1. v \in SUBSET s /\ v # s BY <3>3, PickIn
      <4>2. g[v] = Volume(list, v) BY <4>1, <2>4
      <4> QED BY <3>1, <3>3, <4>2
    <3> QED BY <3>2, <3>3
  <2>6. g = [u \in SUBSET s |-> g[u]] OBVIOUS
  <2> HIDE DEF g
  <2>7. AddsUp(list, s, g)
    <3>1. [u \in SUBSET s |-> g[u]]
          = [u \in SUBSET s |-> IF u = {} THEN 0 ELSE g[u \ {Pick(u)}] + Amount(list[Pick(u)].volume)]
      BY <2>5, Zenon
    <3> QED BY <2>6, <3>1, Zenon DEF AddsUp
  <2> QED BY <2>1, <2>7
<1> QED BY <1>1

\* So a sum is that of the rest and of the element that is picked, ...
LEMMA VolumePicks ==
  ASSUME NEW F, IsFiniteSet(F), NEW list, NEW S \in SUBSET F
  PROVE  Volume(list, S) =
           IF S = {} THEN 0 ELSE Volume(list, S \ {Pick(S)}) + Amount(list[Pick(S)].volume)
<1> DEFINE f(u) == CHOOSE h : AddsUp(list, u, h)
<1>1. \A u \in SUBSET F : AddsUp(list, u, f(u)) BY SumsExist
<1>2. \A u : Volume(list, u) = f(u)[u] BY VolumeIs
<1> HIDE DEF f
<1>3. f(S)[S] = IF S = {} THEN 0 ELSE f(S)[S \ {Pick(S)}] + Amount(list[Pick(S)].volume)
  BY <1>1 DEF AddsUp
<1> DEFINE v == S \ {Pick(S)}
<1>4. v \subseteq F /\ v \subseteq S /\ v \in SUBSET F OBVIOUS
<1>5. AddsUp(list, S, f(S)) /\ AddsUp(list, v, f(v)) BY <1>1, <1>4
<1>6. f(S)[v] = f(v)[v]
  <2> HIDE DEF v
  <2>1. IsFiniteSet(S) BY FS_Subset
  <2>2. \A p, q : AddsUp(list, S, p) /\ AddsUp(list, v, q) => p[v] = q[v] BY <1>4, <2>1, SumsAgree
  <2> QED BY <1>5, <2>2, Zenon
<1> QED BY <1>2, <1>3, <1>6

\* ... and that of the rest and of any element.
LEMMA VolumeAdds ==
  ASSUME NEW F, IsFiniteSet(F), NEW list, \A i \in F : Amount(list[i].volume) \in Nat,
         NEW S \in SUBSET F
  PROVE  /\ Volume(list, S) \in Nat
         /\ \A x \in S : Volume(list, S) = Volume(list, S \ {x}) + Amount(list[x].volume)
<1> DEFINE a(x) == Amount(list[x].volume)
           Fine(s) == /\ Volume(list, s) \in Nat
                      /\ \A x \in s : Volume(list, s) = Volume(list, s \ {x}) + a(x)
           T == {s \in SUBSET F : ~Fine(s)}
<1>1. T = {}
  <2> SUFFICES ASSUME T # {} PROVE FALSE OBVIOUS
  <2>0. T # {} /\ \A s \in T : s \subseteq F OBVIOUS
  <2> HIDE DEF T
  <2>00. PICK s \in T : \A u \in T : u \subseteq s => u = s BY <2>0, Smallest
  <2> USE DEF T
  <2>1. s \in T /\ \A u \in T : u \subseteq s => u = s BY <2>00
  <2>2. s \in SUBSET F /\ ~Fine(s) BY <2>1
  <2>3. \A u \in SUBSET s : u # s => Fine(u) BY <2>1, <2>2
  <2>4. s # {}
    <3>1. s = {} => Volume(list, s) = 0 BY <2>2, VolumePicks
    <3> QED BY <2>2, <3>1
  <2> DEFINE y == Pick(s)
  <2>5. y \in s BY <2>4, PickIn
  <2>6. Volume(list, s) = Volume(list, s \ {y}) + a(y) BY <2>2, <2>4, VolumePicks
  <2> HIDE DEF y, T
  <2>7. Fine(s \ {y}) BY <2>3, <2>5
  <2>8. a(y) \in Nat BY <2>2, <2>5
  <2>9. ASSUME NEW x \in s, x # y PROVE Volume(list, s) = Volume(list, s \ {x}) + a(x)
    <3> DEFINE both == (s \ {y}) \ {x}
    <3>1. x \in s \ {y} /\ y \in s \ {x} /\ both = (s \ {x}) \ {y} BY <2>5, <2>9
    <3>2. Volume(list, s \ {y}) = Volume(list, both) + a(x) BY <2>7, <3>1
    <3>3. Fine(s \ {x}) BY <2>3, <2>9
    <3>4. Volume(list, s \ {x}) = Volume(list, both) + a(y) BY <3>1, <3>3
    <3>5. Fine(both) BY <2>3, <2>5
    <3>6. Volume(list, both) \in Nat /\ a(x) \in Nat BY <2>2, <2>9, <3>5
    <3> HIDE DEF both, a, Fine
    <3> QED BY <2>6, <2>8, <3>2, <3>4, <3>6
  <2>10. Volume(list, s) \in Nat BY <2>6, <2>7, <2>8
  <2> QED BY <2>2, <2>6, <2>9, <2>10
<1> QED BY <1>1

-------------------------------------------------------------------------------
(* Option chains.                                                               *)

\* The readable ones of the first n contracts, and those of one expiry and side.
Read(list, n) == {i \in 1..n : list[i].osi}
KeyAt(list, i) == <<list[i].expiry, list[i].side>>
Traded(list, n, k) == {i \in Read(list, n) : KeyAt(list, i) = k}

(* What the options handler has collected when it has been through the first n. *)
Columns == {"cost", "iv", "volume", "interest", "written", "skipped"}
TableOf(list, n, t) ==
  /\ DOMAIN t = Columns
  /\ t.written \in Nat /\ t.skipped \in Nat /\ t.written + t.skipped = n
  /\ t.cost = {<<list[i].expiry, list[i].side, list[i].strike>> : i \in {k \in Read(list, n) : list[k].cost}}
  /\ DOMAIN t.volume = {KeyAt(list, i) : i \in Read(list, n)}
  /\ \A k \in DOMAIN t.volume : t.volume[k] = Volume(list, Traded(list, n, k))
Rest(list, n, todo) ==
  /\ todo \in Seq(ToSet(list)) /\ Len(todo) = Len(list) - n
  /\ \A i \in 1..Len(todo) : todo[i] = list[n + i]
StoredOf(rec, list, n) == \A i \in Read(list, n) : <<rec.symbol, list[i].name>> \in contracts

(* Where a calculation q for a request r is with its chain.                     *)
Through(q, list, n) ==
  /\ n \in 0..Len(list) /\ TableOf(list, n, q.table) /\ StoredOf(q.record, list, n)
  /\ q.at = "contracts" => Rest(list, n, q.todo)
  /\ q.at = "done" => n = Len(list) /\ q.out = Summary(q.table)
Stage(r, q) ==
  /\ q.at \notin {"contracts", "done", "failed"} => q.table = NoTable
  /\ q.at \in {"counted", "bars"} => r.pipeline # "options"
  /\ q.at \in {"contracts", "done"} /\ r.pipeline = "options" /\ q.record.kind = "options" =>
       \E n : Through(q, Contracts(q.record), n)
ChainInv == \A j \in DOMAIN job : Stage(Request(j), job[j])

\* The contracts of a record are a list of contracts.
LEMMA ContractsTyped ==
  ASSUME scenario \in Scenarios, NEW rec
  PROVE  LET list == Contracts(rec) IN
         /\ list \in Seq(ToSet(list)) /\ Len(list) \in Nat
         /\ \A i \in 1..Len(list) : Amount(list[i].volume) \in Nat
<1> DEFINE S == {c \in ToSet(scenario.chain) \union ToSet(scenario.handed) : c.volume \in Nat \union {None}}
           all == IF rec.label = "" THEN scenario.handed ELSE Downloaded(rec.label)
           list == Contracts(rec)
<1>1. scenario.chain \in Seq(S) /\ scenario.handed \in Seq(S)
  <2>1. /\ scenario.chain \in Seq(ToSet(scenario.chain)) /\ scenario.handed \in Seq(ToSet(scenario.handed))
        /\ ToSet(scenario.chain) \subseteq S /\ ToSet(scenario.handed) \subseteq S
    BY ChainsAreLists
  <2> HIDE DEF S
  <2> QED BY <2>1, SeqMonotonic
<1> HIDE DEF S
<1>2. Downloaded(rec.label) \in Seq(S) BY <1>1, PickedTyped DEF Downloaded
<1>3. all \in Seq(S) BY <1>1, <1>2
<1>4. list = Picked(all, {c \in ToSet(all) : c.side = "call"}) \o Picked(all, {c \in ToSet(all) : c.side = "put"})
  BY DEF Contracts
<1> HIDE DEF all, list
<1>5. list \in Seq(S)
  <2>1. \A fit : Picked(all, fit) \in Seq(S) BY <1>3, PickedTyped
  <2> QED BY <1>4, <2>1, ConcatProperties
<1>6. Len(list) \in Nat /\ DOMAIN list = 1..Len(list) /\ \A i \in 1..Len(list) : list[i] \in S
  BY <1>5, LenProperties, ElementOfSeq
<1>7. list \in Seq(ToSet(list))
  <2>1. list \in [1..Len(list) -> ToSet(list)] BY <1>5, <1>6, LenProperties DEF ToSet
  <2> QED BY <1>6, <2>1, SeqDef
<1>8. \A c \in S : Amount(c.volume) \in Nat BY DEF S, Amount
<1> QED BY <1>6, <1>7, <1>8 DEF list

\* One contract more: what becomes of the sums.
LEMMA TradedGrows ==
  ASSUME NEW list, NEW n \in Nat, NEW k
  PROVE  Traded(list, n + 1, k) =
           IF list[n + 1].osi /\ KeyAt(list, n + 1) = k THEN Traded(list, n, k) \union {n + 1} ELSE Traded(list, n, k)
<1>1. 1..(n + 1) = (1..n) \union {n + 1} OBVIOUS
<1> QED BY <1>1 DEF Traded, Read
LEMMA ReadGrows ==
  ASSUME NEW list, NEW n \in Nat
  PROVE  Read(list, n + 1) = IF list[n + 1].osi THEN Read(list, n) \union {n + 1} ELSE Read(list, n)
<1>1. 1..(n + 1) = (1..n) \union {n + 1} OBVIOUS
<1> QED BY <1>1 DEF Read
LEMMA VolumeGrows ==
  ASSUME NEW list, NEW n \in Nat, \A i \in 1..(n + 1) : Amount(list[i].volume) \in Nat, NEW k,
         list[n + 1].osi, KeyAt(list, n + 1) = k
  PROVE  Volume(list, Traded(list, n + 1, k)) = Volume(list, Traded(list, n, k)) + Amount(list[n + 1].volume)
<1> DEFINE F == 1..(n + 1)
<1>1. IsFiniteSet(F) /\ \A i \in F : Amount(list[i].volume) \in Nat BY FS_Interval
<1>2. Traded(list, n + 1, k) = Traded(list, n, k) \union {n + 1} BY TradedGrows
<1>3. Traded(list, n, k) \subseteq 1..n BY DEF Traded, Read
<1>4. Traded(list, n + 1, k) \subseteq F /\ n + 1 \in Traded(list, n + 1, k)
  BY <1>2, <1>3
<1>5. Traded(list, n + 1, k) \ {n + 1} = Traded(list, n, k) BY <1>2, <1>3
<1> HIDE DEF F
<1>6. \A S \in SUBSET F : \A x \in S : Volume(list, S) = Volume(list, S \ {x}) + Amount(list[x].volume)
  BY <1>1, VolumeAdds
<1> QED BY <1>4, <1>5, <1>6

\* A contract that is skipped.
LEMMA SkipCollects ==
  ASSUME NEW list, NEW n \in Nat, NEW t, TableOf(list, n, t), ~list[n + 1].osi
  PROVE  TableOf(list, n + 1, Skipped(t))
<1> DEFINE u == Skipped(t)
<1>1. DOMAIN t = Columns BY DEF TableOf
<1>2. /\ DOMAIN u = Columns /\ u.skipped = t.skipped + 1 /\ u.written = t.written
      /\ u.cost = t.cost /\ u.volume = t.volume
  BY <1>1 DEF Columns, Skipped
<1> HIDE DEF u
<1>3. Read(list, n + 1) = Read(list, n) BY ReadGrows
<1>4. \A k : Traded(list, n + 1, k) = Traded(list, n, k) BY TradedGrows
<1>5. u.written \in Nat /\ u.skipped \in Nat /\ u.written + u.skipped = n + 1 BY <1>2 DEF TableOf
<1>6. TableOf(list, n + 1, u) BY <1>2, <1>3, <1>4, <1>5 DEF TableOf
<1> QED BY <1>6 DEF u

\* A contract that is collected.
LEMMA Collects ==
  ASSUME NEW list, NEW n \in Nat, \A i \in 1..(n + 1) : Amount(list[i].volume) \in Nat,
         NEW t, TableOf(list, n, t), list[n + 1].osi
  PROVE  TableOf(list, n + 1, Collect(t, list[n + 1]))
<1> DEFINE c == list[n + 1]
           u == Collect(t, c)
           key == <<c.expiry, c.side>>
           more == IF c.cost THEN {<<c.expiry, c.side, c.strike>>} ELSE {}
<1>1. DOMAIN t = Columns BY DEF TableOf
<1>2. /\ DOMAIN u = Columns /\ u.skipped = t.skipped /\ u.written = t.written + 1
      /\ u.cost = t.cost \union more /\ u.volume = Plus(t.volume, key, Amount(c.volume))
  BY <1>1 DEF Columns, Collect
<1>3. u.written \in Nat /\ u.skipped \in Nat /\ u.written + u.skipped = n + 1 BY <1>2 DEF TableOf
<1>4. Read(list, n + 1) = Read(list, n) \union {n + 1} BY ReadGrows
<1>5. u.cost = {<<list[i].expiry, list[i].side, list[i].strike>> : i \in {k \in Read(list, n + 1) : list[k].cost}}
  <2>1. t.cost = {<<list[i].expiry, list[i].side, list[i].strike>> : i \in {k \in Read(list, n) : list[k].cost}}
    BY DEF TableOf
  <2>2. CASE c.cost
    <3>1. {k \in Read(list, n + 1) : list[k].cost} = {k \in Read(list, n) : list[k].cost} \union {n + 1}
      BY <1>4, <2>2
    <3> QED BY <1>2, <2>1, <2>2, <3>1
  <2>3. CASE ~c.cost
    <3>1. {k \in Read(list, n + 1) : list[k].cost} = {k \in Read(list, n) : list[k].cost}
      BY <1>4, <2>3
    <3> QED BY <1>2, <2>1, <2>3, <3>1
  <2> QED BY <2>2, <2>3
<1>6. KeyAt(list, n + 1) = key BY DEF KeyAt
<1>7. DOMAIN t.volume = {KeyAt(list, i) : i \in Read(list, n)} BY DEF TableOf
<1>8. DOMAIN u.volume = DOMAIN t.volume \union {key} BY <1>2 DEF Plus, Put
<1>9. DOMAIN u.volume = {KeyAt(list, i) : i \in Read(list, n + 1)} BY <1>4, <1>6, <1>7, <1>8
<1>10. ASSUME NEW k \in DOMAIN u.volume PROVE u.volume[k] = Volume(list, Traded(list, n + 1, k))
  <2>1. CASE k # key
    <3>1. k \in DOMAIN t.volume /\ u.volume[k] = t.volume[k] BY <1>2, <1>8, <1>10, <2>1 DEF Plus, Put
    <3>2. Traded(list, n + 1, k) = Traded(list, n, k) BY <1>6, <2>1, TradedGrows
    <3> QED BY <3>1, <3>2 DEF TableOf
  <2>2. CASE k = key
    <3>1. u.volume[k] = (IF key \in DOMAIN t.volume THEN t.volume[key] ELSE 0) + Amount(c.volume)
      BY <1>2, <2>2 DEF Plus, Put
    <3>2. Volume(list, Traded(list, n + 1, key)) = Volume(list, Traded(list, n, key)) + Amount(c.volume)
      BY <1>6, VolumeGrows
    <3>3. CASE key \in DOMAIN t.volume BY <2>2, <3>1, <3>2, <3>3 DEF TableOf
    <3>4. CASE key \notin DOMAIN t.volume
      <4>1. Traded(list, n, key) = {} BY <1>7, <3>4 DEF Traded
      <4>2. Volume(list, {}) = 0 BY FS_EmptySet, VolumePicks
      <4> QED BY <2>2, <3>1, <3>2, <3>4, <4>1, <4>2
    <3> QED BY <3>3, <3>4
  <2> QED BY <2>1, <2>2
<1> HIDE DEF u
<1>11. TableOf(list, n + 1, u) BY <1>2, <1>3, <1>5, <1>9, <1>10 DEF TableOf
<1> QED BY <1>11 DEF u

-------------------------------------------------------------------------------
(* The steps of the jobs.                                                       *)

\* What is known of a chain stays known.
LEMMA StageStays ==
  ASSUME scenario' = scenario, contracts \subseteq contracts', NEW r, NEW q, Stage(r, q)
  PROVE  Stage(r, q)'
<1>1. \A rec : Contracts(rec)' = Contracts(rec) BY DEF Contracts, Downloaded
<1>2. \A list, n : StoredOf(q.record, list, n) => StoredOf(q.record, list, n)' BY DEF StoredOf
<1>3. \A list, n : Through(q, list, n) => Through(q, list, n)' BY <1>2 DEF Through
<1> QED BY <1>1, <1>3 DEF Stage

LEMMA StageMoves ==
  ASSUME Shape, ChainInv, scenario' = scenario, contracts \subseteq contracts',
         NEW j \in DOMAIN job, NEW q, job' = [job EXCEPT ![j] = q], Stage(Request(j), q)'
  PROVE  ChainInv'
<1>1. \A i : Request(i)' = Request(i) BY DEF Request
<1>2. \A i \in DOMAIN job : i # j => job'[i] = job[i] BY DEF Shape
<1>3. \A r, p : Stage(r, p) => Stage(r, p)' BY StageStays
<1>4. DOMAIN job' = DOMAIN job /\ job'[j] = q BY DEF Shape
<1>5. ASSUME NEW i \in DOMAIN job PROVE Stage(Request(i), job[i])'
  <2>1. CASE i # j BY <1>1, <1>2, <1>3, <2>1 DEF ChainInv
  <2>2. CASE i = j BY <1>1, <1>4, <2>2
  <2> QED BY <2>1, <2>2
<1> QED BY <1>4, <1>5 DEF ChainInv

LEMMA StageGoes ==
  ASSUME Shape, ChainInv, scenario' = scenario, contracts \subseteq contracts', NEW j \in DOMAIN job,
         \E q : job' = [job EXCEPT ![j] = q] /\ Stage(Request(j), q)
  PROVE  ChainInv'
<1>1. PICK q : job' = [job EXCEPT ![j] = q] /\ Stage(Request(j), q) OBVIOUS
<1>2. PICK r : r = Request(j) OBVIOUS
<1>3. Request(j)' = r BY <1>2 DEF Request
<1>4. Stage(r, q)' BY <1>1, <1>2, StageStays
<1>5. Stage(Request(j), q)' BY <1>3, <1>4
<1> QED BY <1>1, <1>5, StageMoves

\* A step of a search, of a calculation of bars, or one that fails.
Quiet(p, q) ==
  \/ q.at = "failed"
  \/ /\ q.table = p.table /\ p.at \in {"idle", "lookup", "fetch", "persist", "bars"}
     /\ q.at \in {"lookup", "fetch", "persist", "got"} \/ (q.at = "bars" /\ p.at = "bars")
LEMMA QuietMoves ==
  ASSUME Shape, ChainInv, scenario' = scenario, contracts \subseteq contracts', NEW j \in DOMAIN job,
         \E q : job' = [job EXCEPT ![j] = q] /\ Quiet(job[j], q)
  PROVE  ChainInv'
<1> PICK q : job' = [job EXCEPT ![j] = q] /\ Quiet(job[j], q) OBVIOUS
<1> DEFINE r == Request(j)
<1>1. Request(j)' = r BY DEF Request
<1>2. Stage(r, job[j]) BY DEF ChainInv
<1>3. /\ q.at \notin {"contracts", "done", "failed"} => q.table = NoTable
      /\ q.at \in {"counted", "bars"} => r.pipeline # "options"
      /\ q.at \notin {"contracts", "done"}
  BY <1>2 DEF Stage, Quiet
<1>4. Stage(Request(j), q)'
  <2> HIDE DEF r
  <2> QED BY <1>1, <1>3 DEF Stage
<1> QED BY <1>4, StageMoves

LEMMA SearchStages ==
  ASSUME IInv, ChainInv, NEW j \in DOMAIN job,
         \/ Begin(j) \/ Lookup(j) \/ Fetch(j) \/ Persist(j) \/ Upsert(j)
         \/ LookupFails(j) \/ FetchFails(j) \/ PersistFails(j) \/ WriteFails(j)
  PROVE  ChainInv'
<1> DEFINE Moves == \E q : job' = [job EXCEPT ![j] = q] /\ Quiet(job[j], q)
<1>1. DOMAIN job[j] = Fields /\ Shape BY DEF IInv, Shape
<1>2. scenario' = scenario /\ contracts' = contracts
  BY DEF Begin, Lookup, Fetch, Persist, Upsert, LookupFails, FetchFails, PersistFails, WriteFails, data
<1>3. Stop(j) => Moves
  <2> DEFINE q == [job[j] EXCEPT !.at = "failed"]
  <2>1. q.at = "failed" BY <1>1 DEF Fields
  <2> QED BY <2>1 DEF Stop, Goto, Quiet
<1>4. ASSUME NEW rec, NEW cached, NEW pipeline, EndGet(j, rec, cached, pipeline),
             job[j].at \in {"lookup", "fetch", "persist"}
      PROVE  Moves
  <2> DEFINE q == [job[j] EXCEPT !.at = "got", !.record = rec, !.cached = cached, !.pipeline = pipeline]
  <2>1. job' = [job EXCEPT ![j] = q] BY <1>4 DEF EndGet, Goto
  <2>2. q.at = "got" /\ q.table = job[j].table BY <1>1 DEF Fields
  <2> HIDE DEF q
  <2>3. Quiet(job[j], q) BY <1>4, <2>2 DEF Quiet
  <2> QED BY <2>1, <2>3
<1>5. ASSUME Otherwise(j), job[j].at = "fetch" PROVE Moves
  <2> DEFINE p == [job[j] EXCEPT !.try = @ + 1]
             q == [job[j] EXCEPT !.at = "lookup", !.provider = @ + 1]
  <2>1. \/ job' = [job EXCEPT ![j] = p] \/ job' = [job EXCEPT ![j] = q]
        \/ EndGet(j, None, FALSE, "options") \/ Stop(j)
    BY <1>5 DEF Otherwise, NoMore, Goto
  <2>2. p.at = "fetch" /\ p.table = job[j].table /\ q.at = "lookup" /\ q.table = job[j].table
    BY <1>1, <1>5 DEF Fields
  <2> HIDE DEF p, q
  <2>3. Quiet(job[j], p) /\ Quiet(job[j], q) BY <1>5, <2>2 DEF Quiet
  <2> QED BY <1>3, <1>4, <1>5, <2>1, <2>3
<1>6. CASE Begin(j)
  <2> DEFINE p == [job[j] EXCEPT !.at = "persist", !.record = Injected(Request(j))]
             q == [job[j] EXCEPT !.at = "lookup"]
  <2>1. job[j].at = "idle" /\ (job' = [job EXCEPT ![j] = p] \/ job' = [job EXCEPT ![j] = q])
    BY <1>6 DEF Begin, Goto
  <2>2. p.at = "persist" /\ p.table = job[j].table /\ q.at = "lookup" /\ q.table = job[j].table
    BY <1>1 DEF Fields
  <2> HIDE DEF p, q
  <2>3. Quiet(job[j], p) /\ Quiet(job[j], q) BY <2>1, <2>2 DEF Quiet
  <2>4. Moves BY <2>1, <2>3
  <2> QED BY <1>1, <1>2, <2>4, QuietMoves
<1>7. CASE Lookup(j)
  <2> DEFINE q == [job[j] EXCEPT !.at = "fetch", !.try = 1]
  <2>1. job[j].at = "lookup" /\ (EndGet(j, inputRaw[KeyOf(j)], TRUE, Route(Request(j))) \/ job' = [job EXCEPT ![j] = q])
    BY <1>7 DEF Lookup, Goto
  <2>2. q.at = "fetch" /\ q.table = job[j].table BY <1>1 DEF Fields
  <2> HIDE DEF q
  <2>3. Quiet(job[j], q) BY <2>1, <2>2 DEF Quiet
  <2>4. Moves BY <1>4, <2>1, <2>3
  <2> QED BY <1>1, <1>2, <2>4, QuietMoves
<1>8. CASE Fetch(j)
  <2> DEFINE rec == Record(Request(j), Provider(j), Tries(Request(j))[job[j].try])
             q == [job[j] EXCEPT !.at = "persist", !.record = rec]
  <2>1. job[j].at = "fetch" /\ (job' = [job EXCEPT ![j] = q] \/ Otherwise(j)) BY <1>8 DEF Fetch, Goto
  <2>2. q.at = "persist" /\ q.table = job[j].table BY <1>1 DEF Fields
  <2> HIDE DEF q, rec
  <2>3. Quiet(job[j], q) BY <2>1, <2>2 DEF Quiet
  <2>4. Moves BY <1>5, <2>1, <2>3
  <2> QED BY <1>1, <1>2, <2>4, QuietMoves
<1>9. CASE Persist(j)
  <2>1. job[j].at = "persist" /\ \E rec, cached, pipeline : EndGet(j, rec, cached, pipeline)
    BY <1>9 DEF Persist
  <2>2. Moves BY <1>4, <2>1
  <2> QED BY <1>1, <1>2, <2>2, QuietMoves
<1>10. CASE Upsert(j)
  <2> DEFINE q == [job[j] EXCEPT !.todo = Tail(@)]
  <2>1. job[j].at = "bars" /\ job' = [job EXCEPT ![j] = q] BY <1>10 DEF Upsert, Goto
  <2>2. q.at = "bars" /\ q.table = job[j].table BY <1>1, <2>1 DEF Fields
  <2> HIDE DEF q
  <2>3. Quiet(job[j], q) BY <2>1, <2>2 DEF Quiet
  <2> QED BY <1>1, <1>2, <2>1, <2>3, QuietMoves
<1>11. CASE LookupFails(j) \/ FetchFails(j) \/ PersistFails(j) \/ WriteFails(j)
  <2>1. Stop(j) \/ (Otherwise(j) /\ job[j].at = "fetch")
    BY <1>11 DEF LookupFails, FetchFails, PersistFails, WriteFails
  <2>2. Moves BY <1>3, <1>5, <2>1
  <2> QED BY <1>1, <1>2, <2>2, QuietMoves
<1> QED BY <1>6, <1>7, <1>8, <1>9, <1>10, <1>11

\* The calculation begins: nothing is collected, all contracts are to come.
LEMMA CalculateStages == ASSUME IInv, ChainInv, NEW j \in DOMAIN job, Calculate(j) PROVE ChainInv'
<1> DEFINE r == Request(j)
           rec == job[j].record
           list == Contracts(rec)
           q == [job[j] EXCEPT !.at = Plan(j).at, !.todo = Plan(j).todo]
<1>1. Shape /\ DOMAIN job[j] = Fields /\ job[j].at = "got" /\ scenario \in Scenarios
  BY DEF Calculate, IInv, Shape
<1>2. job' = [job EXCEPT ![j] = q] /\ scenario' = scenario /\ contracts' = contracts
  BY DEF Calculate, Goto, data
<1>3. /\ q.at = Plan(j).at /\ q.todo = Plan(j).todo /\ q.record = rec /\ q.table = job[j].table
  BY <1>1 DEF Fields
<1>4. job[j].table = NoTable BY <1>1 DEF ChainInv, Stage
<1>5. r.pipeline \in {"ohlcv", "options", "futures"} BY <1>1, RequestsAreKnown DEF Request, IInv, Shape
<1>6. q.at \in {"failed", "contracts", "counted", "bars"}
  BY <1>3, <1>5 DEF Plan, Effective, FuturesPlan, BarsPlan, ContractsPlan, Nothing
<1>7. r.pipeline = "options" => q.at \in {"failed", "contracts"}
  BY <1>3, <1>5 DEF Plan, Effective, ContractsPlan, Nothing
<1>8. q.at = "contracts" /\ rec.kind = "options" => q.todo = list
  BY <1>3, <1>5 DEF Plan, Effective, FuturesPlan, BarsPlan, ContractsPlan, Nothing
<1>9. list \in Seq(ToSet(list)) /\ Len(list) \in Nat BY <1>1, ContractsTyped
<1> HIDE DEF q, list
<1>10. Read(list, 0) = {} BY DEF Read
<1>11. TableOf(list, 0, NoTable) BY <1>10 DEF TableOf, NoTable, Columns
<1>12. Rest(list, 0, list) BY <1>9 DEF Rest
<1>13. q.at = "contracts" /\ rec.kind = "options" => Through(q, list, 0)
  BY <1>3, <1>4, <1>8, <1>9, <1>10, <1>11, <1>12 DEF Through, StoredOf
<1>14. Stage(r, q) BY <1>3, <1>4, <1>6, <1>7, <1>13 DEF Stage, list
<1> QED BY <1>1, <1>2, <1>14, StageGoes

\* Calculations of bars end.
LEMMA BarsStages ==
  ASSUME IInv, ChainInv, NEW j \in DOMAIN job, Count(j) \/ BarsWritten(j)
  PROVE  ChainInv'
<1>1. Shape /\ DOMAIN job[j] = Fields /\ job[j].at \in {"counted", "bars"}
  BY DEF Count, BarsWritten, IInv, Shape
<1>2. PICK out : job' = [job EXCEPT ![j] = [job[j] EXCEPT !.at = "done", !.out = out]]
  BY DEF Count, BarsWritten, Goto
<1>3. scenario' = scenario /\ contracts' = contracts BY DEF Count, BarsWritten, data
<1> DEFINE q == [job[j] EXCEPT !.at = "done", !.out = out]
<1>4. q.at = "done" BY <1>1 DEF Fields
<1>5. job' = [job EXCEPT ![j] = q] BY <1>2
<1> HIDE DEF q
<1>6. Request(j).pipeline # "options" BY <1>1 DEF ChainInv, Stage
<1>7. Stage(Request(j), q) BY <1>4, <1>6 DEF Stage
<1> QED BY <1>1, <1>3, <1>5, <1>7, StageGoes

\* The summary is made of what was collected.
LEMMA SummaryStages == ASSUME IInv, ChainInv, NEW j \in DOMAIN job, ContractsWritten(j) PROVE ChainInv'
<1> DEFINE q == [job[j] EXCEPT !.at = "done", !.out = Summary(job[j].table)]
           list == Contracts(job[j].record)
<1>1. /\ Shape /\ DOMAIN job[j] = Fields /\ job[j].at = "contracts" /\ job[j].todo = <<>>
      /\ scenario \in Scenarios
  BY DEF ContractsWritten, IInv, Shape
<1>2. job' = [job EXCEPT ![j] = q] /\ scenario' = scenario /\ contracts' = contracts
  BY DEF ContractsWritten, Goto, data
<1>3. /\ q.at = "done" /\ q.table = job[j].table /\ q.record = job[j].record
      /\ q.out = Summary(q.table)
  BY <1>1 DEF Fields
<1> HIDE DEF q
<1>4. Len(list) \in Nat BY <1>1, ContractsTyped
<1>5. ASSUME NEW n, Through(job[j], list, n) PROVE Through(q, list, n)
  <2>1. n \in Nat /\ Len(<<>>) = Len(list) - n BY <1>1, <1>4, <1>5 DEF Through, Rest
  <2>2. n = Len(list) BY <1>4, <2>1
  <2> QED BY <1>3, <1>5, <2>2 DEF Through
<1>6. Stage(Request(j), q) BY <1>1, <1>3, <1>5 DEF ChainInv, Stage
<1> QED BY <1>1, <1>2, <1>6, StageGoes

\* A contract is written or skipped.
LEMMA ContractStages == ASSUME IInv, ChainInv, NEW j \in DOMAIN job, UpsertContract(j) PROVE ChainInv'
<1> DEFINE p == job[j]
           c == Head(p.todo)
           r == Request(j)
           list == Contracts(p.record)
           t == IF c.osi THEN Collect(p.table, c) ELSE Skipped(p.table)
           q == [p EXCEPT !.todo = Tail(@), !.table = IF c.osi THEN Collect(@, c) ELSE Skipped(@)]
<1>1. /\ Shape /\ DOMAIN p = Fields /\ p.at = "contracts" /\ p.todo # <<>> /\ scenario \in Scenarios
  BY DEF UpsertContract, IInv, Shape
<1>2. /\ job' = [job EXCEPT ![j] = q] /\ scenario' = scenario
      /\ contracts' = IF c.osi THEN contracts \union {<<p.record.symbol, c.name>>} ELSE contracts
  <2>1. job' = [job EXCEPT ![j] = q] BY DEF UpsertContract, Goto
  <2> QED BY <2>1 DEF UpsertContract, Stored
<1>3. /\ q.at = "contracts" /\ q.todo = Tail(p.todo) /\ q.table = t /\ q.record = p.record
  <2>1. q.at = "contracts" /\ q.todo = Tail(p.todo) /\ q.record = p.record BY <1>1 DEF Fields
  <2>2. c.osi => q.table = Collect(p.table, c) BY <1>1 DEF Fields
  <2>3. ~c.osi => q.table = Skipped(p.table) BY <1>1 DEF Fields
  <2> HIDE DEF q
  <2> QED BY <2>1, <2>2, <2>3
<1>4. PICK x : x = q OBVIOUS
<1>5. PICK y : y = list OBVIOUS
<1>6. PICK z : z = r OBVIOUS
<1>7. Len(y) \in Nat /\ \A i \in 1..Len(y) : Amount(y[i].volume) \in Nat BY <1>1, <1>5, ContractsTyped
<1>8. ASSUME NEW n, Through(p, y, n) PROVE Through(x, y, n + 1)'
  <2>1. n \in Nat /\ n <= Len(y) /\ TableOf(y, n, p.table) /\ StoredOf(p.record, y, n) /\ Rest(y, n, p.todo)
    BY <1>1, <1>7, <1>8 DEF Through
  <2>2. /\ p.todo \in Seq(ToSet(y)) /\ Len(p.todo) = Len(y) - n
        /\ \A i \in 1..Len(p.todo) : p.todo[i] = y[n + i]
    BY <2>1 DEF Rest
  <2>3. Len(p.todo) \in Nat \ {0} BY <1>1, <2>2, EmptySeq
  <2>4. n + 1 \in 0..Len(y) /\ c = y[n + 1] BY <1>7, <2>1, <2>2, <2>3
  <2>5. Rest(y, n + 1, Tail(p.todo))
    <3>1. /\ Tail(p.todo) \in Seq(ToSet(y)) /\ Len(Tail(p.todo)) = Len(p.todo) - 1
          /\ \A i \in 1..Len(Tail(p.todo)) : Tail(p.todo)[i] = p.todo[i + 1]
      BY <1>1, <2>2, HeadTailProperties
    <3>2. ASSUME NEW i \in 1..Len(Tail(p.todo)) PROVE Tail(p.todo)[i] = y[n + 1 + i]
      <4>1. i + 1 \in 1..Len(p.todo) /\ n + (i + 1) = n + 1 + i BY <2>1, <2>3, <3>1
      <4> QED BY <2>2, <3>1, <4>1
    <3>3. Len(Tail(p.todo)) = Len(y) - (n + 1) BY <1>7, <2>1, <2>2, <2>3, <3>1
    <3> QED BY <3>1, <3>2, <3>3 DEF Rest
  <2>6. TableOf(y, n + 1, t)
    <3>1. \A i \in 1..(n + 1) : Amount(y[i].volume) \in Nat BY <1>7, <2>1, <2>4
    <3>2. CASE y[n + 1].osi
      <4>1. t = Collect(p.table, y[n + 1]) BY <2>4, <3>2
      <4> QED BY <2>1, <3>1, <3>2, <4>1, Collects
    <3>3. CASE ~y[n + 1].osi
      <4>1. t = Skipped(p.table) BY <2>4, <3>3
      <4> QED BY <2>1, <3>3, <4>1, SkipCollects
    <3> QED BY <3>2, <3>3
  <2>7. \A i \in Read(y, n + 1) : <<x.record.symbol, y[i].name>> \in contracts'
    <3>1. Read(y, n + 1) = IF y[n + 1].osi THEN Read(y, n) \union {n + 1} ELSE Read(y, n) BY <2>1, ReadGrows
    <3> HIDE DEF q
    <3> QED BY <1>2, <1>3, <1>4, <2>1, <2>4, <3>1 DEF StoredOf
  <2> HIDE DEF t, q, p, c
  <2> QED BY <1>3, <1>4, <2>4, <2>5, <2>6, <2>7 DEF Through, StoredOf
<1>9. Request(j)' = z BY <1>2, <1>6 DEF Request
<1>10. Contracts(x.record)' = y
  <2>1. x.record = p.record BY <1>3, <1>4
  <2>2. \A rec : Contracts(rec)' = Contracts(rec) BY <1>2 DEF Contracts, Downloaded
  <2> QED BY <1>5, <2>1, <2>2
<1>11. Stage(z, x)'
  <2>1. x.at = "contracts" /\ x.record = p.record BY <1>3, <1>4
  <2>2. z.pipeline = "options" /\ x.record.kind = "options" => \E n : Through(p, y, n)
    BY <1>1, <1>5, <1>6, <2>1 DEF ChainInv, Stage
  <2>3. z.pipeline = "options" /\ x.record.kind = "options" => \E n : Through(x, y, n)' BY <1>8, <2>2
  <2> HIDE DEF p
  <2> QED BY <1>10, <2>1, <2>3 DEF Stage
<1>12. Stage(Request(j), x)' BY <1>9, <1>11
<1>13. contracts \subseteq contracts' BY <1>2
<1>14. job' = [job EXCEPT ![j] = x] BY <1>2, <1>4
<1> HIDE DEF p, q, t, c, r, list
<1> QED BY <1>1, <1>2, <1>12, <1>13, <1>14, StageMoves

LEMMA ChainSteps == IInv /\ ChainInv /\ [Next]_vars => ChainInv'
<1> SUFFICES ASSUME IInv, ChainInv, [Next]_vars PROVE ChainInv' OBVIOUS
<1>1. CASE job' = job /\ scenario' = scenario /\ contracts' = contracts
  <2>1. \A r, p : Stage(r, p) => Stage(r, p)' BY <1>1, StageStays
  <2>2. \A i : Request(i)' = Request(i) BY <1>1 DEF Request
  <2> QED BY <1>1, <2>1, <2>2 DEF ChainInv
<1>2. ASSUME NEW j \in DOMAIN job,
             Step(j) \/ LookupFails(j) \/ FetchFails(j) \/ PersistFails(j) \/ WriteFails(j)
      PROVE  ChainInv'
  BY <1>2, SearchStages, CalculateStages, BarsStages, SummaryStages, ContractStages DEF Step
<1> QED BY <1>1, <1>2 DEF Next, Expire, vars, data

\* What ChainSummary says, of a list and an answer.
SummaryOf(list, out) ==
  LET readable == {i \in DOMAIN list : list[i].osi}
      at(e, side) == {i \in readable : list[i].expiry = e /\ list[i].side = side}
      expiries == {list[i].expiry : i \in readable}
      matched == {e \in expiries : \E a \in at(e, "call"), b \in at(e, "put") :
                    list[a].cost /\ list[b].cost /\ list[a].strike = list[b].strike}
      sum(e, side) == FoldSet(LAMBDA i, n : n + Amount(list[i].volume), 0, at(e, side))
      traded == {e \in expiries : sum(e, "call") > 0 /\ sum(e, "put") > 0}
  IN /\ out.rows + out.skipped = Len(list)
     /\ out.aggregated = Cardinality(matched)
     /\ out.unmatched = Cardinality(expiries \ matched)
     /\ traded # {} => out.ratio = <<SumFunction([e \in traded |-> sum(e, "put")]),
                                     SumFunction([e \in traded |-> sum(e, "call")])>>

\* What is collected of the whole list gives the summary of its readable contracts.
LEMMA TableGivesSummary ==
  ASSUME NEW list, Len(list) \in Nat, DOMAIN list = 1..Len(list),
         NEW t, TableOf(list, Len(list), t), NEW out, out = Summary(t)
  PROVE  SummaryOf(list, out)
<1> DEFINE N == Len(list)
           readable == {i \in DOMAIN list : list[i].osi}
           at(e, side) == {i \in readable : list[i].expiry = e /\ list[i].side = side}
           expiries == {list[i].expiry : i \in readable}
           matched == {e \in expiries : \E a \in at(e, "call"), b \in at(e, "put") :
                         list[a].cost /\ list[b].cost /\ list[a].strike = list[b].strike}
           sum(e, side) == FoldSet(LAMBDA i, n : n + Amount(list[i].volume), 0, at(e, side))
           traded == {e \in expiries : sum(e, "call") > 0 /\ sum(e, "put") > 0}
           ends == {x[1] : x \in t.cost} \union {k[1] : k \in DOMAIN t.volume}
           both == {e \in ends : \E x \in t.cost : x[1] = e /\ x[2] = "call" /\ <<e, "put", x[3]>> \in t.cost}
           two == TwoSided(t.volume, ends)
<1>1. readable = Read(list, N) BY DEF Read
<1>2. \A e, side : at(e, side) = Traded(list, N, <<e, side>>) BY <1>1 DEF Traded, KeyAt
<1>3. \A e, side : sum(e, side) = Volume(list, at(e, side)) BY DEF Volume
<1>12. \A e, side : sum(e, side) = Volume(list, Traded(list, N, <<e, side>>))
  <2> HIDE DEF sum, at
  <2> QED BY <1>2, <1>3
<1>4. /\ t.cost = {<<list[i].expiry, list[i].side, list[i].strike>> : i \in {k \in readable : list[k].cost}}
      /\ DOMAIN t.volume = {KeyAt(list, i) : i \in readable}
  BY <1>1 DEF TableOf
<1>5. ends = expiries
  <2>1. \A x \in t.cost : x[1] \in expiries BY <1>4
  <2>2. ASSUME NEW k \in DOMAIN t.volume PROVE k[1] \in expiries
    <3>1. PICK i \in readable : k = KeyAt(list, i) BY <1>4
    <3> QED BY <3>1 DEF KeyAt
  <2>3. ASSUME NEW i \in readable PROVE list[i].expiry \in ends
    <3>1. KeyAt(list, i) \in DOMAIN t.volume /\ KeyAt(list, i)[1] = list[i].expiry BY <1>4 DEF KeyAt
    <3> QED BY <3>1
  <2> HIDE DEF readable
  <2> QED BY <2>1, <2>2, <2>3
<1>6. both = matched
  <2>1. ASSUME NEW e \in ends, NEW x \in t.cost, x[1] = e, x[2] = "call", <<e, "put", x[3]>> \in t.cost
        PROVE  \E a \in at(e, "call"), b \in at(e, "put") :
                 list[a].cost /\ list[b].cost /\ list[a].strike = list[b].strike
    BY <1>4, <2>1
  <2>2. ASSUME NEW e \in expiries, NEW a \in at(e, "call"), NEW b \in at(e, "put"),
               list[a].cost, list[b].cost, list[a].strike = list[b].strike
        PROVE  \E x \in t.cost : x[1] = e /\ x[2] = "call" /\ <<e, "put", x[3]>> \in t.cost
    <3> DEFINE x == <<e, "call", list[a].strike>>
    <3>1. /\ a \in readable /\ list[a].expiry = e /\ list[a].side = "call"
          /\ b \in readable /\ list[b].expiry = e /\ list[b].side = "put"
      OBVIOUS
    <3> HIDE DEF readable
    <3>2. <<list[a].expiry, list[a].side, list[a].strike>> \in t.cost BY <1>4, <2>2, <3>1
    <3>3. <<list[b].expiry, list[b].side, list[b].strike>> \in t.cost BY <1>4, <2>2, <3>1
    <3>4. x \in t.cost /\ <<e, "put", x[3]>> \in t.cost BY <2>2, <3>1, <3>2, <3>3
    <3> QED BY <3>4
  <2> QED BY <1>5, <2>1, <2>2
<1>7. ASSUME NEW e, NEW side PROVE Total(t.volume, <<e, side>>) = sum(e, side)
  <2> HIDE DEF sum, N
  <2>1. CASE <<e, side>> \in DOMAIN t.volume
    <3>1. t.volume[<<e, side>>] = Volume(list, Traded(list, N, <<e, side>>)) BY <2>1 DEF TableOf, N
    <3> QED BY <1>12, <2>1, <3>1 DEF Total
  <2>2. CASE <<e, side>> \notin DOMAIN t.volume
    <3>1. Traded(list, N, <<e, side>>) = {} BY <1>1, <1>4, <2>2 DEF Traded
    <3>2. Volume(list, {}) = 0 BY FS_EmptySet, VolumePicks
    <3> QED BY <1>12, <2>2, <3>1, <3>2 DEF Total
  <2> QED BY <2>1, <2>2
<1>8. two = traded
  <2> HIDE DEF sum, ends, expiries
  <2> QED BY <1>5, <1>7 DEF TwoSided
<1>9. /\ out.rows = t.written /\ out.skipped = t.skipped
      /\ out.aggregated = Cardinality(both) /\ out.unmatched = Cardinality(ends \ both)
      /\ Overall(t.volume, ends) # <<>> => out.ratio = Overall(t.volume, ends)
  BY DEF Summary
<1>10. ASSUME traded # {}
       PROVE  out.ratio = <<SumFunction([e \in traded |-> sum(e, "put")]),
                            SumFunction([e \in traded |-> sum(e, "call")])>>
  <2> HIDE DEF sum, ends, expiries, traded
  <2>1. Overall(t.volume, ends) = <<Across(t.volume, "put", traded), Across(t.volume, "call", traded)>>
    BY <1>8, <1>10 DEF Overall
  <2>2. \A side : [e \in traded |-> Total(t.volume, <<e, side>>)] = [e \in traded |-> sum(e, side)] BY <1>7
  <2>3. \A side : Across(t.volume, side, traded) = SumFunction([e \in traded |-> sum(e, side)])
    BY <2>2 DEF Across
  <2> QED BY <1>9, <2>1, <2>3
<1>11. out.rows + out.skipped = Len(list) BY <1>9 DEF TableOf
<1> HIDE DEF sum, at, readable, both, ends
<1> QED BY <1>5, <1>6, <1>9, <1>10, <1>11 DEF SummaryOf, sum, at, readable, expiries, matched, traded

\* The summary of a chain is that of its readable contracts.
LEMMA ChainsAreSummarised == IInv /\ ChainInv => SummaryIsOfTheChain
<1> SUFFICES ASSUME IInv, ChainInv, NEW j \in DOMAIN job PROVE ChainSummary(j)
  BY DEF SummaryIsOfTheChain
<1> SUFFICES ASSUME job[j].at = "done", Effective(j) = "options", job[j].record.kind = "options"
             PROVE  ChainSummary(j)
  BY DEF ChainSummary
<1> DEFINE rec == job[j].record
           list == Contracts(rec)
<1>1. scenario \in Scenarios BY DEF IInv, Shape
<1>2. Len(list) \in Nat /\ DOMAIN list = 1..Len(list) BY <1>1, ContractsTyped, LenProperties
<1>3. PICK n : Through(job[j], list, n) BY DEF ChainInv, Stage, Effective
<1>4. /\ TableOf(list, Len(list), job[j].table) /\ StoredOf(rec, list, Len(list))
      /\ job[j].out = Summary(job[j].table)
  BY <1>3 DEF Through
<1>5. \A i \in Readable(j) : <<rec.symbol, list[i].name>> \in contracts
  BY <1>2, <1>4 DEF StoredOf, Read, Readable
<1>6. SummaryOf(list, job[j].out)
  <2> HIDE DEF list
  <2> QED BY <1>2, <1>4, TableGivesSummary
<1> QED BY <1>5, <1>6 DEF ChainSummary, SummaryOf, Readable

-------------------------------------------------------------------------------
(* The theorems.                                                                *)

LEMMA InitIsSound == Init => IInv
<1> SUFFICES ASSUME Init PROVE IInv OBVIOUS
<1>1. Shape BY ScenariosAreBounded DEF Init, Shape, Idle, Fields, Labels
<1>2. CacheKnown BY DEF Init, CacheKnown
<1>3. ASSUME NEW j \in DOMAIN job PROVE JobInv(j)
  <2>1. job[j].at = "idle" /\ job[j].provider = 1 BY DEF Init, Idle
  <2> QED BY <2>1 DEF JobInv, SearchOf, CleanOf, WritesOf, Answered
<1> QED BY <1>1, <1>2, <1>3 DEF IInv

LEMMA StepIsSound == IInv /\ [Next]_vars => IInv'
<1> SUFFICES ASSUME IInv, [Next]_vars PROVE IInv' OBVIOUS
<1>1. CASE UNCHANGED vars
  <2>1. scenario' = scenario /\ bars' = bars /\ job' = job /\ left' = left /\ inputRaw' = inputRaw
    BY <1>1 DEF vars
  <2>2. Onward BY <2>1 DEF Onward, IInv, Shape
  <2>3. CacheKnown' BY <2>1, <2>2, KeepsCache DEF IInv
  <2>4. ASSUME NEW i \in DOMAIN job PROVE JobInv(i)'
    <3>1. Request(i)' = Request(i) BY <2>1, FrozenSearch
    <3>2. \A r, x : SearchOf(r, x)' = SearchOf(r, x) /\ CleanOf(r, x)' = CleanOf(r, x) BY <2>1, FrozenJob
    <3> QED BY <2>1, <3>1, <3>2 DEF JobInv, IInv, NoFault
  <2> QED BY <2>1, <2>3, <2>4 DEF IInv, Shape
<1>2. ASSUME NEW j \in DOMAIN job, Step(j) PROVE IInv'
  BY <1>2, BeginKeeps, LookupKeeps, FetchKeeps, PersistKeeps, CalculateKeeps, CountKeeps, UpsertKeeps,
     BarsWrittenKeeps, UpsertContractKeeps, ContractsWrittenKeeps DEF Step
<1>3. ASSUME NEW j \in DOMAIN job, LookupFails(j) \/ PersistFails(j) \/ WriteFails(j) PROVE IInv'
  BY <1>3, FaultStops DEF LookupFails, PersistFails, WriteFails
<1>4. ASSUME NEW j \in DOMAIN job, FetchFails(j) PROVE IInv' BY <1>4, FetchFailsKeeps
<1> QED BY <1>1, <1>2, <1>3, <1>4, ExpireKeeps DEF Next

LEMMA Invariant == Spec => []IInv
BY InitIsSound, StepIsSound, PTL DEF Spec

\* The cache changes nothing but the cost: without a fault, a job with a regular request has the
\* record of the first able provider, whoever filled the cache and whatever expired.
THEOREM CacheIsHarmless == Spec => []CacheIsTransparent
<1>1. IInv => CacheIsTransparent
  BY DEF IInv, JobInv, NoFault, CleanOf, Answered, CacheIsTransparent, Effective
<1> QED BY <1>1, Invariant, PTL

\* A fresh calculation that is done has each bar of its record in quant_stats, for any number of
\* jobs that write the same rows.
THEOREM RecordsAreWhole == Spec => []BarsAreWhole
<1>1. IInv => BarsAreWhole
  BY DEF IInv, JobInv, WritesOf, Recalled, BarsAreWhole, FromCache, Effective
<1> QED BY <1>1, Invariant, PTL

\* Whatever the order of the contracts, readable or not, and whatever is traded of them, the summary
\* of a chain that is done counts, matches and sums its readable contracts, and each is stored.
THEOREM SummariesAreTrue == Spec => []SummaryIsOfTheChain
<1>1. Init => ChainInv
  <2> SUFFICES ASSUME Init, NEW j \in DOMAIN job PROVE Stage(Request(j), job[j]) BY DEF ChainInv
  <2>1. job[j].at = "idle" /\ job[j].table = NoTable BY DEF Init, Idle
  <2> QED BY <2>1 DEF Stage
<1>2. Spec => []ChainInv BY <1>1, ChainSteps, Invariant, PTL DEF Spec
<1> QED BY <1>2, ChainsAreSummarised, Invariant, PTL

\* No later record takes an indicator away from a bar.
THEOREM IndicatorsAreKept == Spec => IndicatorsStay
<1> DEFINE Stays == \A k \in DOMAIN bars : bars[k].sma # None => bars'[k].sma # None
<1>1. [Next]_vars => [Stays]_vars
  <2>1. ASSUME NEW j \in DOMAIN job, Upsert(j), NEW k \in DOMAIN bars, bars[k].sma # None
        PROVE  bars'[k].sma # None
    <3> DEFINE row == Row(job[j].record, Head(job[j].todo))
               key == RowKey(job[j].record, Head(job[j].todo))
    <3>1. bars' = Put(bars, key, Merged(key, row)) BY <2>1 DEF Upsert
    <3>2. CASE k # key BY <2>1, <3>1, <3>2 DEF Put
    <3>3. CASE k = key
      <4>1. bars'[k] = Merged(key, row) BY <3>1, <3>3 DEF Put
      <4>2. Merged(key, row).sma = IF row.sma = None THEN bars[k].sma ELSE row.sma
        BY <3>3 DEF Merged, Updated
      <4> QED BY <2>1, <4>1, <4>2
    <3> QED BY <3>2, <3>3
  <2>2. ASSUME NEW j \in DOMAIN job,
               Step(j) \/ LookupFails(j) \/ FetchFails(j) \/ PersistFails(j) \/ WriteFails(j), ~Upsert(j)
        PROVE  bars' = bars
    BY <2>2 DEF Step, Begin, Lookup, Fetch, Persist, Calculate, Count, BarsWritten, UpsertContract,
                ContractsWritten, LookupFails, FetchFails, PersistFails, WriteFails, data
  <2>3. Expire => bars' = bars BY DEF Expire, data
  <2> QED BY <2>1, <2>2, <2>3 DEF Next
<1> QED BY <1>1, PTL DEF Spec, IndicatorsStay

===============================================================================
