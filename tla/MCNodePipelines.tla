--------------------------- MODULE MCNodePipelines ---------------------------
(* Instances of NodePipelines: fans of at most two children. *)
EXTENDS NodePipelines

MCSeconds == [m \in {"one_month", "one_year"} |-> IF m = "one_month" THEN 30 ELSE 365]
Two(symbol, other) == [p \in {"first", "second"} |-> IF p = "first" THEN symbol ELSE other]
MCPeerLists == {Two("MSFT", "NVDA")}

Undisturbed ==
  [shutdowns |-> 0, crashes |-> 0, reruns |-> 0, pauses |-> 0, failures |-> 1, late |-> 0]
Disturbed ==
  {[Undisturbed EXCEPT !.pauses = 1, !.reruns = 1],
   [Undisturbed EXCEPT !.crashes = 1, !.reruns = 1, !.late = 1],
   [Undisturbed EXCEPT !.shutdowns = 1, !.reruns = 1, !.late = 1]}
MCBudgets == [n \in NodeNames |->
  CASE n \in {"query_node", "load_symbol_stats"} -> Disturbed
    [] n = "load_peers_stats" ->
         {[Undisturbed EXCEPT !.shutdowns = 1, !.reruns = 1, !.failures = 0]}
    [] OTHER -> {Undisturbed}]

(* One stop: the rows of the first run are taken in the second. *)
MCStopped == [n \in NodeNames |-> {[Undisturbed EXCEPT !.shutdowns = 1, !.reruns = 1, !.failures = 0]}]
===============================================================================
