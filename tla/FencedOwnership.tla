--------------------------- MODULE FencedOwnership ---------------------------
(***************************************************************************)
(* What the thread lock and the fencing tokens promise to the node rows of *)
(* one graph run: ownership is granted to one process at a time, each      *)
(* grant opens a new epoch, and a row obeys only the process to which the  *)
(* epoch it writes with was granted, never in favour of an older epoch     *)
(* than the newest that reached the row.  Epoch 0 stands for a writer that *)
(* never owned the run.                                                    *)
(***************************************************************************)
EXTENDS Integers, Sequences

CONSTANTS Procs, NoProc, NumNodes

VARIABLES
    granted,  \* the process of each epoch
    node      \* per node its status, and the epoch and process last obeyed

vars == <<granted, node>>

Terminal == {"completed", "failed", "cancelled", "wrong"}

Init ==
    /\ granted = <<>>
    /\ node = [k \in 1..NumNodes |-> [st |-> "none", epoch |-> 0, by |-> NoProc]]

Entitled(p, e) == e = 0 \/ (e \in 1..Len(granted) /\ granted[e] = p)

Grant(p) ==
    /\ granted' = Append(granted, p)
    /\ UNCHANGED node

\* A run enters node k.
Touch(p, e, k) ==
    /\ Entitled(p, e)
    /\ e >= node[k].epoch
    /\ node' = [node EXCEPT
         ![k] = [st |-> IF @.st \in Terminal THEN @.st ELSE "running", epoch |-> e, by |-> p]]
    /\ UNCHANGED granted

\* A run ends node k: only the newest epoch that touched it may.
Complete(p, k, s) ==
    /\ Entitled(p, node[k].epoch)
    /\ node[k].st \notin Terminal
    /\ node' = [node EXCEPT ![k] = [st |-> s, epoch |-> @.epoch, by |-> p]]
    /\ UNCHANGED granted

\* So may it pause it.
Pause(p, k) ==
    /\ Entitled(p, node[k].epoch)
    /\ node[k].st = "running"
    /\ node' = [node EXCEPT ![k] = [st |-> "paused", epoch |-> @.epoch, by |-> p]]
    /\ UNCHANGED granted

\* Users and terminating servers write without owning the run: a cancelled or
\* failed thread takes its active nodes with it, a shutdown pauses all nodes,
\* a retry resumes one.
Sweep(s) ==
    /\ node' = [k \in 1..NumNodes |->
                  IF node[k].st \in {"running", "paused"} THEN [node[k] EXCEPT !.st = s]
                                                          ELSE node[k]]
    /\ UNCHANGED granted

PauseAll ==
    /\ node' = [k \in 1..NumNodes |->
                  IF node[k].st = "running" THEN [node[k] EXCEPT !.st = "paused"] ELSE node[k]]
    /\ UNCHANGED granted

Resume(k) ==
    /\ node[k].st = "paused"
    /\ node' = [node EXCEPT ![k] = [st |-> "running", epoch |-> @.epoch, by |-> @.by]]
    /\ UNCHANGED granted

Next ==
    \/ PauseAll
    \/ \E s \in {"cancelled", "failed"} : Sweep(s)
    \/ \E k \in 1..NumNodes : Resume(k)
    \/ \E p \in Procs :
         \/ Grant(p)
         \/ \E k \in 1..NumNodes : \/ \E s \in {"completed", "failed"} : Complete(p, k, s)
                                   \/ Pause(p, k)
                                   \/ \E e \in 0..Len(granted) : Touch(p, e, k)

Spec == Init /\ [][Next]_vars
=============================================================================
