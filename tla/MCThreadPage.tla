----------------------------- MODULE MCThreadPage -----------------------------
(* One thread: two pages of it, a re-exploration, a retry of a task, or a failure.*)
EXTENDS ThreadPage
Scenario(start, mounts, writes, forks, failures) ==
  [start |-> start, mounts |-> mounts, writes |-> writes, forks |-> forks, retries |-> 0,
   failures |-> failures, task |-> "over"]
Retried(start, mounts, writes, failures, task) ==
  [start |-> start, mounts |-> mounts, writes |-> writes, forks |-> 0, retries |-> 1,
   failures |-> failures, task |-> task]
MCScenarios ==
  {Scenario("new", 2, 1, 0, 0), Scenario("new", 1, 1, 1, 0), Scenario("new", 1, 2, 0, 1),
   Scenario("running", 1, 1, 0, 1), Scenario("ended", 1, 1, 1, 0), Scenario("ended", 2, 0, 1, 0),
   Retried("ended", 1, 1, 1, "paused"), Retried("ended", 2, 0, 0, "paused"),
   Retried("ended", 1, 1, 0, "over"), Retried("running", 1, 0, 0, "paused")}
===============================================================================
