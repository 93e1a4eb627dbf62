--------------------------- MODULE MCTaskDelegation ---------------------------
EXTENDS TaskDelegation, TLC

MCSymmetry == Permutations(Procs) \union Permutations(Drivers)

\* A new task that anything but a redelivery may happen to; a task that may have been
\* paused before, without the events of whole processes.
MCScenarios ==
    {{"graph", "retry", "fresh", "pause", "cancel", "shutdown", "crash", "abort", "expire", "boot"},
     {"graph", "retry", "pause", "expire", "redeliver", "again"}}

\* The deadlines never help: a new task, and one that may have been paused before.
MCEndsScenarios ==
    {{"retry", "pause", "cancel", "redeliver", "expire"},
     {"retry", "pause", "expire", "again"}}
=============================================================================
