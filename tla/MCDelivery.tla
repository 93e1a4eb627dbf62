------------------------------ MODULE MCDelivery ------------------------------
(* Two threads of a user; one caller notifies twice in the first while the user *)
(* moves, or two jobs of one task, or of two, share the stream.                 *)
EXTENDS Delivery
MCThreadOf == [c1 |-> "t1", c2 |-> "t1", c3 |-> "t2"]
MCTaskOf == [c1 |-> "k1", c2 |-> "k1", c3 |-> "k2"]
Scenario(submitted, notifiers, streams, calls, toks, moves,
         stoppable, changes, faults) ==
  [submitted |-> submitted, notifiers |-> notifiers, streams |-> streams, calls |-> calls,
   tokens |-> toks, moves |-> moves,
   stoppable |-> stoppable, stops |-> changes, faults |-> faults]
MCScenarios ==
  {Scenario({}, {"c1"}, {}, 2, 0, 2, {}, 0, 0),
   Scenario({}, {"c1"}, {}, 1, 0, 2, {}, 0, 1),
   Scenario({"t1", "t2"}, {}, {"c1", "c3"}, 1, 3, 0, {}, 0, 0),
   Scenario({"t1"}, {}, {"c1", "c2"}, 1, 2, 0, {"k1"}, 2, 0),
   Scenario({"t1"}, {}, {"c1"}, 1, 3, 1, {"k1", "t1"}, 2, 1)}
===============================================================================
