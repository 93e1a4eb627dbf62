----------------------------- MODULE MCStatsData ------------------------------
(* Two or three jobs that share symbols, periods or horizons.                   *)
EXTENDS StatsData
Sym(name, form, exchange) == [name |-> name, form |-> form, exchange |-> exchange]
hk == Sym("0700.HK", "plain", "HKG")
oil == Sym("CL=F", "=F", "NONE")
Req(symbol, period, pipeline, horizon, inject) ==
  [symbol |-> symbol, period |-> period, pipeline |-> pipeline, horizon |-> horizon, inject |-> inject]
Bar(symbol, period) == Req(symbol, period, "ohlcv", None, None)
Deriv(symbol, period, pipeline, horizon) == Req(symbol, period, pipeline, horizon, None)
Contract(name, osi, side, expiry, strike, cost, iv, volume, interest) ==
  [name |-> name, osi |-> osi, side |-> side, expiry |-> expiry, strike |-> strike, cost |-> cost,
   iv |-> iv, volume |-> volume, interest |-> interest]
near == <<Contract("c1", TRUE, "call", 20, 10, TRUE, TRUE, 3, 1), Contract("x", FALSE, "call", 20, 10, TRUE, TRUE, 1, 1),
          Contract("p1", TRUE, "put", 20, 10, TRUE, FALSE, 2, None)>>
far == <<Contract("c2", TRUE, "call", 200, 10, TRUE, TRUE, None, 5), Contract("p2", TRUE, "put", 200, 20, TRUE, TRUE, 4, 2),
         Contract("c3", TRUE, "call", 300, 10, TRUE, TRUE, 2, 1), Contract("p3", TRUE, "put", 400, 10, TRUE, TRUE, 2, 1)>>
Jobs3(a, b, c) == [j \in {"j1", "j2", "j3"} |-> CASE j = "j1" -> a [] j = "j2" -> b [] j = "j3" -> c]
Scenario(request, provider, fmpKey, has, faults, expiries) ==
  [request |-> request, settings |-> [provider |-> provider, fmpKey |-> fmpKey],
   has |-> has, chain |-> near \o far, unread |-> {300}, handed |-> near,
   faults |-> faults, expiries |-> expiries]
ThreePeriods == Jobs3(Bar(hk, "2y"), Bar(hk, "1y"), Bar(hk, "3mo"))
MCScenarios ==
  {Scenario(ThreePeriods, "mock", TRUE, {<<"mock", "0700.HK", "1y">>, <<"fmp", "0700.HK", "2y">>}, 1, 1),
   Scenario(ThreePeriods, "fmp", FALSE, {<<"yfinance", "0700.HK", "2y">>, <<"yfinance", "0700.HK", "3mo">>}, 1, 0),
   Scenario(ThreePeriods, "fmp", TRUE, {<<"fmp", "0700.HK", "1y">>, <<"yfinance", "0700.HK", "1mo">>}, 1, 0)}
  \union
  {Scenario(Jobs3(Deriv(oil, "1mo", "futures", None), Bar(oil, "1mo"), Deriv(oil, "1mo", "ohlcv", None)), "mock", TRUE,
            has, 1, 0) : has \in {{<<"fmp", "CL=F", "1mo">>}, {<<"yfinance", "CL=F", "1w">>}}}
  \union
  {Scenario(Jobs3(Deriv(hk, "1y", "options", "1y"), Deriv(hk, "1mo", "options", "1mo"), Deriv(hk, "1y", "options", None)),
            "akshare", FALSE, {}, 1, 1)}
  \union
  {Scenario(Jobs3(Req(hk, "1mo", "ohlcv", None, inject.kind), Bar(hk, inject.period), Deriv(hk, "options", "ohlcv", "1mo")),
            "yfinance", TRUE, {<<"yfinance", "0700.HK", "1d">>}, 1, 0) : inject \in {[kind |-> "ohlcv", period |-> "1w"], [kind |-> "text", period |-> "5y"],
                                              [kind |-> "options", period |-> "1d"]}}
===============================================================================
