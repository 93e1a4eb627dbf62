----------------------------- MODULE MCThreadView -----------------------------
(* The versions and the timeline share no state: a behaviour of this instance   *)
(* takes steps of the one or of the other, so both are checked in full.         *)
EXTENDS ThreadVersions, Timeline

MCOrder == <<"query", "peers", "load", "news", "report">>
MCEdges == {<<"query", "peers">>, <<"query", "news">>, <<"peers", "load">>,
            <<"load", "report">>, <<"news", "report">>}

MCInit == Init /\ TimelineInit
MCNext ==
  \/ nodes = <<>> /\ Next /\ UNCHANGED barVars
  \/ begun = {} /\ snap = First /\ failures = MaxFailures /\ TimelineNext /\ UNCHANGED vars
MCSpec == MCInit /\ [][MCNext]_<<vars, barVars>>
===============================================================================
