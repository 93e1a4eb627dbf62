------------------------------ MODULE StatsData -------------------------------
(* Market data for a symbol: the get_stats job looks for a fresh record in      *)
(* fin_markets.input_raw, provider after provider, else asks the provider for   *)
(* shorter and shorter periods; the calculate_stats job turns the record into   *)
(* rows of quant_stats, or of quant_options_stats. Both run in Celery workers,  *)
(* as many at a time as there are workers; a node runs one after the other      *)
(* (task_seqs/get_and_calculate_stats). The tables are shared and every         *)
(* statement is committed on its own.                                           *)
EXTENDS Integers, Sequences, FiniteSets, SequencesExt, FiniteSetsExt

CONSTANTS Jobs,       \* runs of get_and_calculate_stats
          Scenarios,  \* bounds: requests, settings, what providers have, faults, expiries
          None

ASSUME ScenariosAreBounded ==
  \A s \in Scenarios : DOMAIN s.request \subseteq Jobs /\ s.faults \in Nat /\ s.expiries \in Nat

(* calculate_stats knows three kinds of input, and every provider named in the  *)
(* settings has a chain.                                                        *)
ASSUME RequestsAreKnown ==
  \A s \in Scenarios :
    /\ s.settings.provider \in {"yfinance", "fmp", "mock", "akshare"}
    /\ \A j \in DOMAIN s.request : s.request[j].pipeline \in {"ohlcv", "options", "futures"}
ASSUME NoneIsNoGranularity == None \notin {"5min", "1mo", "1day"}
(* fmp and akshare refuse other periods, the data of the mock has none, and     *)
(* nobody asks yfinance for "max", which it takes too.                          *)
ASSUME PeriodsAreKnown ==
  \A s \in Scenarios : \A x \in s.has : x[3] \in {"1d", "1w", "1mo", "3mo", "1y", "2y"}
(* The lists of contracts, downloaded or handed down, and what is traded of each. *)
ASSUME ChainsAreLists ==
  \A s \in Scenarios : \A list \in {s.chain, s.handed} :
    /\ list \in Seq(ToSet(list))
    /\ \A c \in ToSet(list) : c.volume \in Nat \union {None}

VARIABLES job,        \* [Jobs -> where it is, what it found and what it has to write]
          inputRaw,   \* [cache keys -> record]: fresh rows of input_raw
          bars,       \* [row keys -> row]: quant_stats
          contracts,  \* rows of quant_options_stats: <<symbol, contract name>>
          scenario, left
vars == <<job, inputRaw, bars, contracts, scenario, left>>

(* What the options handler collects while it writes: expiries and strikes with *)
(* a cost, with an implied volatility, and per expiry and side the totals.      *)
NoTable == [cost |-> {}, iv |-> {}, volume |-> [k \in {} |-> 0], interest |-> [k \in {} |-> 0],
            written |-> 0, skipped |-> 0]
Idle == [at |-> "idle", provider |-> 1, try |-> 1, record |-> None, cached |-> FALSE,
         pipeline |-> "none", todo |-> <<>>, table |-> NoTable, out |-> None]
Init ==
  /\ scenario \in Scenarios
  /\ job = [j \in DOMAIN scenario.request |-> Idle]
  /\ inputRaw = [k \in {} |-> None] /\ bars = inputRaw /\ contracts = {}
  /\ left = [faults |-> scenario.faults, expiries |-> scenario.expiries]

Request(j) == scenario.request[j]
Fault == left.faults > 0 /\ left' = [left EXCEPT !.faults = @ - 1]
Put(f, k, v) == [x \in DOMAIN f \union {k} |-> IF x = k THEN v ELSE f[x]]

-------------------------------------------------------------------------------
(* Symbols. form: "plain" (a stock), "^" (an index), "=F", "pair", "=X".        *)

Product(s) ==
  CASE s.form = "^"    -> "index"
    [] s.form = "=F"   -> "futures"
    [] s.form = "pair" -> "crypto"
    [] s.form = "=X"   -> "macro"
    [] OTHER           -> "stock"
(* The instrument_type column knows its symbols by name; other pairs and other  *)
(* futures are stored as equity.                                                *)
Instrument(s) ==
  CASE s.form = "^"                     -> "index"
    [] s.name \in {"BTC-USD", "ETH-USD"} -> "crypto"
    [] s.name \in {"GC=F", "SI=F"}       -> "precious_metal"
    [] s.name \in {"NG=F", "CL=F"}       -> "commodity"
    [] OTHER                            -> "equity"

(* The market_indexes maps of a process: warm_market_indexes fills those of the *)
(* application; a worker starts with empty ones and nothing there loads them.   *)
Indexes(process) ==
  IF process = "application"
  THEN [NMS |-> [provider |-> "fmp", currency |-> "USD"],
        HKG |-> [provider |-> "fmp", currency |-> "HKD"],
        SHH |-> [provider |-> "akshare", currency |-> "CNY"]]
  ELSE [e \in {} |-> None]
here == Indexes("worker")
HasIndex(s) == s.exchange \in DOMAIN here
Currency(s) == IF HasIndex(s) THEN here[s.exchange].currency ELSE "USD"

Blocked == [akshare |-> {"futures", "crypto", "macro", "index"}, mock |-> {"crypto", "futures"},
            yfinance |-> {}, fmp |-> {}]
Preference(s) ==
  IF Product(s) = "stock" THEN {} ELSE {p \in DOMAIN Blocked : Product(s) \notin Blocked[p]}
ProviderFor(s) ==
  IF HasIndex(s) THEN here[s.exchange].provider ELSE scenario.settings.provider
Fallbacks == [fmp |-> <<"fmp", "yfinance">>, yfinance |-> <<"yfinance", "fmp">>,
              mock |-> <<"mock", "yfinance">>, akshare |-> <<"yfinance", "fmp">>]
Usable == {p \in DOMAIN Blocked : p # "fmp" \/ scenario.settings.fmpKey}
(* Two providers in order, without those that will not do.                      *)
Kept(two, fit) ==
  (IF two[1] \in fit THEN <<two[1]>> ELSE <<>>) \o (IF two[2] \in fit THEN <<two[2]>> ELSE <<>>)
Chain(s) ==
  LET preferred == Kept(<<"yfinance", "fmp">>, Preference(s) \intersect Usable)
      fallback == Kept(Fallbacks[ProviderFor(s)], Usable)
  IN IF preferred # <<>> THEN preferred ELSE IF fallback # <<>> THEN fallback ELSE <<"mock">>

(* Which handler takes a request. "ohlcv" as a hint decides nothing.            *)
Route(r) ==
  CASE r.inject # None -> "inject"
    [] r.inject = None /\ r.pipeline \in {"options", "futures"} -> r.pipeline
    [] r.inject = None /\ r.pipeline \notin {"options", "futures"} ->
         IF r.horizon # None \/ r.period = "options" THEN "options"
         ELSE IF Product(r.symbol) = "futures" THEN "futures" ELSE "ohlcv"

Shorter == [x \in {"2y", "1y", "3mo", "1mo", "1w"} |->
  CASE x = "2y" -> "1y" [] x = "1y" -> "3mo" [] x = "3mo" -> "1mo" [] x = "1mo" -> "1w" [] x = "1w" -> "1d"]
Tries(r) ==
  IF Route(r) # "options" /\ r.period \in DOMAIN Shorter THEN <<r.period, Shorter[r.period]>>
  ELSE <<r.period>>

(* maturity_horizon: a label, or nothing, which stands for one year.            *)
Label(r) == IF r.horizon = None THEN "1y" ELSE r.horizon

(* The key holds the requested period, also when a shorter one was found.       *)
CacheKey(r, provider) ==
  [source |-> IF Route(r) = "futures" THEN <<"futures", provider>> ELSE <<"stats", provider>>,
   symbol |-> r.symbol,
   period |-> IF Route(r) = "options" THEN <<"options", Label(r)>> ELSE <<"bars", r.period>>]

-------------------------------------------------------------------------------
(* The providers (resources/stats). scenario.has: what they have data for.      *)

(* service_for_symbol, forced by the options and the futures handler.           *)
Service(r) == IF Route(r) \in {"options", "futures"} THEN Route(r) ELSE Product(r.symbol)
Serves(service, provider) ==
  CASE service = "options" -> provider = "yfinance"
    [] service \in {"futures", "index", "macro"} -> provider # "akshare"
    [] OTHER -> TRUE
KnownPeriods == {"1d", "1w", "1mo", "3mo", "1y", "2y"}
Refuses(provider, period) ==
  \/ provider \in {"fmp", "akshare"} /\ period \notin KnownPeriods
  \/ provider = "yfinance" /\ period \notin KnownPeriods \union {"max"}
(* list_stats of a service: a record, nothing, or an exception.                 *)
BarsAnswer(r, provider, period) ==
  IF ~Serves(Service(r), provider) THEN "empty"
  ELSE IF Refuses(provider, period) THEN "error"
  ELSE IF <<provider, r.symbol.name, period>> \in scenario.has THEN "data" ELSE "empty"
(* fetch_options: without a horizon the period is taken for one and refused,    *)
(* which _list_yfinance turns into nothing; an empty chain is a record too.     *)
OptionsAnswer(r, provider) ==
  IF Serves("options", provider) /\ r.horizon # None THEN "data" ELSE "empty"
Answer(r, provider, period) ==
  IF Service(r) = "options" THEN OptionsAnswer(r, provider) ELSE BarsAnswer(r, provider, period)

(* The record a provider's transformer makes; its id begins with the source.    *)
Sources == [yfinance |-> "yfinance", fmp |-> "fmp", mock |-> "stats", akshare |-> "ak"]
OptionsRecord(r, provider) ==
  [kind |-> "options", symbol |-> r.symbol, source |-> Sources[provider], period |-> "options", label |-> Label(r)]
BarsRecord(r, provider, period) ==
  [kind |-> IF Service(r) = "futures" THEN "futures" ELSE "ohlcv",
   symbol |-> r.symbol, source |-> Sources[provider], period |-> period, label |-> ""]
Record(r, provider, period) ==
  IF Service(r) = "options" THEN OptionsRecord(r, provider) ELSE BarsRecord(r, provider, period)

(* The contracts of an options record: of the expiries within the horizon,      *)
(* those whose table can be read; the calls come before the puts. A record that *)
(* is handed down brings its own.                                               *)
Days == [label \in {"next", "1w", "1mo", "1q", "6m", "1y"} |->
  CASE label = "next" -> 0 [] label = "1w" -> 7 [] label = "1mo" -> 30
    [] label = "1q" -> 90 [] label = "6m" -> 180 [] label = "1y" -> 365]
\* The elements of a list that are in a set (SelectSeq, as a function the provers can expand).
Picked(list, fit) ==
  LET upto[n \in 0..Len(list)] ==
        IF n = 0 THEN <<>> ELSE IF list[n] \in fit THEN Append(upto[n - 1], list[n]) ELSE upto[n - 1]
  IN upto[Len(list)]
Downloaded(label) ==
  Picked(scenario.chain, {c \in ToSet(scenario.chain) : c.expiry <= Days[label] /\ c.expiry \notin scenario.unread})
Contracts(rec) ==
  LET all == IF rec.label = "" THEN scenario.handed ELSE Downloaded(rec.label)
      of(side) == {c \in ToSet(all) : c.side = side}
  IN Picked(all, of("call")) \o Picked(all, of("put"))
(* Records handed down by an earlier task.                                      *)
Injected(r) ==
  [kind |-> r.inject, symbol |-> r.symbol, source |-> IF r.inject = "text" THEN "text" ELSE "json",
   period |-> r.period, label |-> ""]

-------------------------------------------------------------------------------
(* get_stats.                                                                   *)

Goto(j, r) == job' = [job EXCEPT ![j] = r]
data == <<bars, contracts, scenario>>
EndGet(j, record, cached, pipeline) ==
  Goto(j, [job[j] EXCEPT !.at = "got", !.record = record, !.cached = cached, !.pipeline = pipeline])
Stop(j) == Goto(j, [job[j] EXCEPT !.at = "failed"])

Begin(j) ==
  /\ job[j].at = "idle"
  /\ IF Route(Request(j)) = "inject"
     THEN Goto(j, [job[j] EXCEPT !.at = "persist", !.record = Injected(Request(j))])
     ELSE Goto(j, [job[j] EXCEPT !.at = "lookup"])
  /\ UNCHANGED <<inputRaw, data, left>>

Provider(j) == Chain(Request(j).symbol)[job[j].provider]
KeyOf(j) ==
  IF Route(Request(j)) = "inject"
  THEN [source |-> <<"injected", "">>, symbol |-> Request(j).symbol, period |-> <<Request(j).inject, Request(j).period>>]
  ELSE CacheKey(Request(j), Provider(j))

Lookup(j) ==
  /\ job[j].at = "lookup"
  /\ IF KeyOf(j) \in DOMAIN inputRaw
     THEN EndGet(j, inputRaw[KeyOf(j)], TRUE, Route(Request(j)))
     ELSE Goto(j, [job[j] EXCEPT !.at = "fetch", !.try = 1])
  /\ UNCHANGED <<inputRaw, data, left>>
LookupFails(j) ==
  /\ job[j].at = "lookup" /\ Fault /\ Stop(j) /\ UNCHANGED <<inputRaw, data>>

(* After an empty answer or an error: a shorter period, then the next provider; *)
(* at the end of the chain the options handler answers without a record.        *)
NoMore(j) ==
  IF Route(Request(j)) = "options" THEN EndGet(j, None, FALSE, "options") ELSE Stop(j)
\* Defect: an error of the first provider ends the search.
OtherwiseStops(j) ==
  IF job[j].try < Len(Tries(Request(j))) THEN Goto(j, [job[j] EXCEPT !.try = @ + 1]) ELSE NoMore(j)
Otherwise(j) ==
  IF job[j].try < Len(Tries(Request(j))) THEN Goto(j, [job[j] EXCEPT !.try = @ + 1])
  ELSE IF job[j].provider < Len(Chain(Request(j).symbol))
  THEN Goto(j, [job[j] EXCEPT !.at = "lookup", !.provider = @ + 1])
  ELSE NoMore(j)
Fetch(j) ==
  LET r == Request(j)
      period == Tries(r)[job[j].try]
  IN /\ job[j].at = "fetch"
     /\ IF Answer(r, Provider(j), period) = "data"
        THEN Goto(j, [job[j] EXCEPT !.at = "persist", !.record = Record(r, Provider(j), period)])
        ELSE Otherwise(j)
     /\ UNCHANGED <<inputRaw, data, left>>
FetchFails(j) == job[j].at = "fetch" /\ Fault /\ Otherwise(j) /\ UNCHANGED <<inputRaw, data>>

Persist(j) ==
  /\ job[j].at = "persist"
  /\ inputRaw' = Put(inputRaw, KeyOf(j), job[j].record)
  /\ EndGet(j, job[j].record, FALSE, IF Route(Request(j)) = "inject" THEN Request(j).inject ELSE Route(Request(j)))
  /\ UNCHANGED <<data, left>>
PersistFails(j) == job[j].at = "persist" /\ Fault /\ Stop(j) /\ UNCHANGED <<inputRaw, data>>
(* cache_ttl_seconds have passed.                                               *)
Expire ==
  /\ left.expiries > 0 /\ DOMAIN inputRaw # {}
  /\ left' = [left EXCEPT !.expiries = @ - 1]
  /\ inputRaw' = [k \in {} |-> None]
  /\ UNCHANGED <<job, data>>

-------------------------------------------------------------------------------
(* calculate_stats, on the input the sequence makes of the answer.              *)

(* The hint of the request decides; it is "ohlcv" unless the caller says else.  *)
(* Without a record the input of the task is invalid.                           *)
Effective(j) == Request(j).pipeline
FromCache(j) == job[j].cached \/ Effective(j) # "ohlcv"

(* The dates of the bars of a record. yfinance and fmp give hours for a day;    *)
(* their transformers keep the date alone.                                      *)
Bars(rec) ==
  CASE rec.period = "2y" -> <<1, 2, 3>>
    [] rec.period = "3mo" -> <<2>>
    [] rec.period = "1d" /\ rec.source \in {"yfinance", "fmp"} -> <<2, 2, 3>>
    [] OTHER -> <<2, 3>>
(* The dates that are preceded by a whole window.                               *)
Windowed(period) == IF period = "2y" THEN {2, 3} ELSE {}
Granularity(period) ==
  CASE period = "1d" -> "5min" [] period = "1y" -> "1mo"
    [] period \in {"1w", "1mo", "3mo", "2y"} -> "1day" [] OTHER -> None
RowKey(rec, t) ==
  [type |-> Instrument(rec.symbol), symbol |-> rec.symbol, source |-> rec.source,
   granularity |-> Granularity(rec.period), time |-> t]
Row(rec, t) ==
  [price |-> rec.period, sma |-> IF t \in Windowed(rec.period) THEN rec.period ELSE None,
   currency |-> Currency(rec.symbol)]
(* DO UPDATE SET: prices are overwritten, an indicator is kept when the new row *)
(* has none, and the currency is that of the first row but for an index.        *)
Updated(type, old, row) ==
  [price |-> row.price, sma |-> IF row.sma = None THEN old.sma ELSE row.sma,
   currency |-> IF type = "index" THEN row.currency ELSE old.currency]
\* Defect: the indicators are overwritten as the prices are.
MergedPlain(k, row) == row
Merged(k, row) == IF k \in DOMAIN bars THEN Updated(k.type, bars[k], row) ELSE row
(* COUNT_BY_SYMBOL_GRANULARITY: rows of any source.                             *)
Counted(rec) ==
  Cardinality({k \in DOMAIN bars : k.type = Instrument(rec.symbol) /\ k.symbol = rec.symbol
                                   /\ k.granularity = Granularity(rec.period)})

(* What a handler does first: what it has to write, or that it cannot.          *)
Nothing == [at |-> "failed", todo |-> <<>>]
BarsPlan(rec, cached) ==
  IF Granularity(rec.period) = None \/ rec.kind \in {"options", "text"} THEN Nothing
  ELSE IF cached THEN [at |-> "counted", todo |-> <<>>] ELSE [at |-> "bars", todo |-> Bars(rec)]
(* The futures handler calls the one for bars with the same input.              *)
FuturesPlan(rec, cached) == BarsPlan(rec, cached)
(* Fields a record of another kind has are ignored, a missing chain is empty.   *)
ContractsPlan(rec) ==
  [at |-> "contracts", todo |-> IF rec.kind = "options" THEN Contracts(rec) ELSE <<>>]
Plan(j) ==
  LET rec == job[j].record IN
  CASE rec = None -> Nothing
    [] rec # None /\ Effective(j) = "options" -> ContractsPlan(rec)
    [] rec # None /\ Effective(j) = "futures" -> FuturesPlan(rec, FromCache(j))
    [] rec # None /\ Effective(j) = "ohlcv"   -> BarsPlan(rec, FromCache(j))
Calculate(j) ==
  /\ job[j].at = "got"
  /\ Goto(j, [job[j] EXCEPT !.at = Plan(j).at, !.todo = Plan(j).todo])
  /\ UNCHANGED <<inputRaw, data, left>>
Count(j) ==
  /\ job[j].at = "counted"
  /\ Goto(j, [job[j] EXCEPT !.at = "done", !.out = [rows |-> Counted(job[j].record)]])
  /\ UNCHANGED <<inputRaw, data, left>>

\* Defect: a statement that fails is skipped.
UpsertSkips(j) ==
  /\ job[j].at = "bars" /\ job[j].todo # <<>>
  /\ \/ LET k == RowKey(job[j].record, Head(job[j].todo)) IN
          bars' = Put(bars, k, Merged(k, Row(job[j].record, Head(job[j].todo)))) /\ UNCHANGED left
     \/ Fault /\ UNCHANGED bars
  /\ Goto(j, [job[j] EXCEPT !.todo = Tail(@)])
  /\ UNCHANGED <<inputRaw, contracts, scenario>>
Upsert(j) ==
  /\ job[j].at = "bars" /\ job[j].todo # <<>>
  /\ LET k == RowKey(job[j].record, Head(job[j].todo)) IN
       bars' = Put(bars, k, Merged(k, Row(job[j].record, Head(job[j].todo))))
  /\ Goto(j, [job[j] EXCEPT !.todo = Tail(@)])
  /\ UNCHANGED <<inputRaw, contracts, scenario, left>>
BarsWritten(j) ==
  /\ job[j].at = "bars" /\ job[j].todo = <<>>
  /\ Goto(j, [job[j] EXCEPT !.at = "done", !.out = [rows |-> Len(Bars(job[j].record))]])
  /\ UNCHANGED <<inputRaw, data, left>>
WriteFails(j) ==
  /\ job[j].at \in {"counted", "bars", "contracts"} /\ Fault /\ Stop(j)
  /\ UNCHANGED <<inputRaw, data>>

-------------------------------------------------------------------------------
(* calculate_option_stats: one contract after the other, then the summary.      *)

Plus(f, k, n) == Put(f, k, (IF k \in DOMAIN f THEN f[k] ELSE 0) + n)
Amount(x) == IF x = None THEN 0 ELSE x
\* Defect: the total of an expiry is keyed by its side alone.
CollectBySide(t, c) ==
  [t EXCEPT !.written = @ + 1,
            !.cost = @ \union (IF c.cost THEN {<<c.expiry, c.side, c.strike>>} ELSE {}),
            !.iv = @ \union (IF c.iv THEN {<<c.expiry, c.strike>>} ELSE {}),
            !.volume = Plus(@, <<1, c.side>>, Amount(c.volume)),
            !.interest = Plus(@, <<1, c.side>>, Amount(c.interest))]
Collect(t, c) ==
  [t EXCEPT !.written = @ + 1,
            !.cost = @ \union (IF c.cost THEN {<<c.expiry, c.side, c.strike>>} ELSE {}),
            !.iv = @ \union (IF c.iv THEN {<<c.expiry, c.strike>>} ELSE {}),
            !.volume = Plus(@, <<c.expiry, c.side>>, Amount(c.volume)),
            !.interest = Plus(@, <<c.expiry, c.side>>, Amount(c.interest))]
Skipped(t) == [t EXCEPT !.skipped = @ + 1]
(* ON CONFLICT (symbol, source, contract_name): one row for a contract.         *)
Stored(rec, c) == contracts \union {<<rec.symbol, c.name>>}
(* A contract name that is no OSI name is skipped.                              *)
UpsertContract(j) ==
  /\ job[j].at = "contracts" /\ job[j].todo # <<>>
  /\ LET c == Head(job[j].todo) IN
       /\ contracts' = IF c.osi THEN Stored(job[j].record, c) ELSE contracts
       /\ Goto(j, [job[j] EXCEPT !.todo = Tail(@),
                                 !.table = IF c.osi THEN Collect(@, c) ELSE Skipped(@)])
  /\ UNCHANGED <<inputRaw, bars, scenario, left>>

Total(f, k) == IF k \in DOMAIN f THEN f[k] ELSE 0
TwoSided(f, expiries) == {e \in expiries : Total(f, <<e, "call">>) > 0 /\ Total(f, <<e, "put">>) > 0}
Across(f, side, expiries) == SumFunction([e \in expiries |-> Total(f, <<e, side>>)])
(* A ratio as <<puts, calls>>, over the expiries that have both, if any.        *)
Overall(f, expiries) ==
  IF TwoSided(f, expiries) = {} THEN <<>>
  ELSE <<Across(f, "put", TwoSided(f, expiries)), Across(f, "call", TwoSided(f, expiries))>>
Summary(t) ==
  LET expiries == {x[1] : x \in t.cost} \union {k[1] : k \in DOMAIN t.volume}
      both == {e \in expiries : \E x \in t.cost : x[1] = e /\ x[2] = "call" /\ <<e, "put", x[3]>> \in t.cost}
      byVolume == Overall(t.volume, expiries)
  IN [rows |-> t.written, skipped |-> t.skipped,
      aggregated |-> Cardinality(both), unmatched |-> Cardinality(expiries \ both),
      smile |-> t.iv, ratio |-> IF byVolume # <<>> THEN byVolume ELSE Overall(t.interest, expiries)]
ContractsWritten(j) ==
  /\ job[j].at = "contracts" /\ job[j].todo = <<>>
  /\ Goto(j, [job[j] EXCEPT !.at = "done", !.out = Summary(job[j].table)])
  /\ UNCHANGED <<inputRaw, data, left>>

-------------------------------------------------------------------------------
Step(j) ==
  \/ Begin(j) \/ Lookup(j) \/ Fetch(j) \/ Persist(j) \/ Calculate(j) \/ Count(j)
  \/ Upsert(j) \/ BarsWritten(j) \/ UpsertContract(j) \/ ContractsWritten(j)
Next ==
  \/ \E j \in DOMAIN job : Step(j) \/ LookupFails(j) \/ FetchFails(j) \/ PersistFails(j) \/ WriteFails(j)
  \/ Expire
Spec == Init /\ [][Next]_vars

-------------------------------------------------------------------------------

(* What the first provider that has anything would give for the first period it *)
(* has.                                                                         *)
Found(r) ==
  {x \in (1..Len(Chain(r.symbol))) \X (1..Len(Tries(r))) :
     Answer(r, Chain(r.symbol)[x[1]], Tries(r)[x[2]]) = "data"}
Earlier(x, y) == x[1] < y[1] \/ (x[1] = y[1] /\ x[2] <= y[2])
Earliest(found) == CHOOSE x \in found : \A y \in found : Earlier(x, y)
Best(r) ==
  LET first == Earliest(Found(r))
  IN IF Found(r) = {} THEN None ELSE Record(r, Chain(r.symbol)[first[1]], Tries(r)[first[2]])
(* The cache changes nothing but the cost: without a fault every job ends up    *)
(* with the record the first able provider gives, whoever filled the cache      *)
(* before; it is without one only if no provider has anything. An options       *)
(* request without a horizon, which no provider answers, is left out: a cached  *)
(* chain of one year does answer it.                                            *)
Regular(r) == Route(r) # "inject" /\ (Route(r) = "options" => r.horizon # None)
CacheIsTransparent ==
  left.faults = scenario.faults =>
    \A j \in {k \in DOMAIN job : Regular(Request(k))} :
      /\ job[j].at \in {"got", "counted", "bars", "contracts", "done"} => job[j].record = Best(Request(j))
      /\ job[j].at = "failed" =>
           \/ Best(Request(j)) = None
           \/ Effective(j) = "ohlcv" /\ Best(Request(j)).kind = "options"

(* A calculation that was done afresh leaves every bar of its record in         *)
(* quant_stats, although each is a transaction of its own and other jobs write  *)
(* the same rows.                                                               *)
BarsAreWhole ==
  \A j \in DOMAIN job :
    job[j].at = "done" /\ ~FromCache(j) =>
      \A t \in ToSet(Bars(job[j].record)) : RowKey(job[j].record, t) \in DOMAIN bars

(* No later record takes an indicator away from a bar: periods of different     *)
(* length share the rows of a granularity, and the short ones have no long      *)
(* windows.                                                                     *)
IndicatorsStay ==
  [][\A k \in DOMAIN bars : bars[k].sma # None => bars'[k].sma # None]_vars

(* The summary of a chain is that of its readable contracts, whatever their     *)
(* order and wherever a job stopped before.                                     *)
Readable(j) == {i \in DOMAIN Contracts(job[j].record) : Contracts(job[j].record)[i].osi}
ChainSummary(j) ==
  job[j].at = "done" /\ Effective(j) = "options" /\ job[j].record.kind = "options" =>
    LET chain == Contracts(job[j].record)
        at(e, side) == {i \in Readable(j) : chain[i].expiry = e /\ chain[i].side = side}
        expiries == {chain[i].expiry : i \in Readable(j)}
        matched == {e \in expiries : \E a \in at(e, "call"), b \in at(e, "put") :
                      chain[a].cost /\ chain[b].cost /\ chain[a].strike = chain[b].strike}
        sum(e, side) == FoldSet(LAMBDA i, n : n + Amount(chain[i].volume), 0, at(e, side))
        traded == {e \in expiries : sum(e, "call") > 0 /\ sum(e, "put") > 0}
    IN /\ job[j].out.rows + job[j].out.skipped = Len(chain)
       /\ job[j].out.aggregated = Cardinality(matched)
       /\ job[j].out.unmatched = Cardinality(expiries \ matched)
       /\ traded # {} => job[j].out.ratio = <<SumFunction([e \in traded |-> sum(e, "put")]),
                                              SumFunction([e \in traded |-> sum(e, "call")])>>
       /\ \A i \in Readable(j) : <<job[j].record.symbol, chain[i].name>> \in contracts
SummaryIsOfTheChain == \A j \in DOMAIN job : ChainSummary(j)

===============================================================================
