------------------------------ MODULE MCGraphRun ------------------------------
EXTENDS GraphRun, TLC

MCEdges == {<<"query", "peers">>, <<"query", "news">>, <<"peers", "load">>,
            <<"load", "report">>, <<"news", "report">>}

Budget(r, q, c, f) == [runs |-> r, requests |-> q, crashes |-> c, forks |-> f]
MCBudgets == {Budget(2, 1, 0, 0), Budget(2, 0, 1, 0), Budget(1, 0, 0, 1)}
===============================================================================
