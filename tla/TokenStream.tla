----------------------------- MODULE TokenStream -----------------------------
(***************************************************************************)
(* What the token stream in Redis promises its readers, whoever shares it: *)
(* a job adds the tokens of its answer one after the other, none left out, *)
(* none twice; its answer may be cut short once, behind what it added; its *)
(* end follows the last token of the answer, cut or not, and nothing of    *)
(* the job follows the end. Entries are removed only behind the end of a   *)
(* job: all entries of its task up to some place between its last token    *)
(* and its end, those of other jobs for this task included.                *)
(***************************************************************************)
EXTENDS Integers, Sequences

CONSTANTS Jobs, TaskOf

VARIABLES
    length,   \* number of tokens of a complete answer
    limit,    \* [Jobs -> number of tokens of the answer as far as it goes]
    log,      \* every entry ever added; the end of a job has the number 0
    gone      \* places of the entries that were removed

vars == <<length, limit, log, gone>>

Entry(j, place, n) == [id |-> place, task |-> TaskOf[j], seq |-> n, job |-> j]
Of(j) == {i \in 1..Len(log) : log[i].job = j}

\* The job has added its first n tokens and no end.
Holds(j, n) == {log[i].seq : i \in Of(j)} = 1..n

Init ==
    /\ length \in Nat
    /\ limit = [j \in Jobs |-> length]
    /\ log = <<>> /\ gone = {}

\* The tokens from n + 1 to m leave as one batch.
Push(j, n, m) ==
    /\ n < m /\ m <= limit[j] /\ Holds(j, n)
    /\ log' = log \o [k \in 1..m - n |-> Entry(j, Len(log) + k, n + k)]
    /\ UNCHANGED <<length, limit, gone>>

\* The answer ends before its token m + 1, behind the n that were added.
Cut(j, n, m) ==
    /\ limit[j] = length /\ n <= m /\ m < length /\ Holds(j, n)
    /\ limit' = [limit EXCEPT ![j] = m]
    /\ UNCHANGED <<length, log, gone>>

End(j) ==
    /\ Holds(j, limit[j])
    /\ log' = Append(log, Entry(j, Len(log) + 1, 0))
    /\ UNCHANGED <<length, limit, gone>>

Remove(j) ==
    /\ \E e \in Of(j), place \in 0..Len(log) :
         /\ log[e].seq = 0
         /\ Of(j) \ {e} \subseteq 1..place /\ place < e
         /\ gone' = gone \union {i \in 1..place : log[i].task = TaskOf[j]}
    /\ UNCHANGED <<length, limit, log>>

Next ==
    \E j \in Jobs :
        \/ End(j) \/ Remove(j)
        \/ \E n, m \in 0..length : Push(j, n, m) \/ Cut(j, n, m)

Spec == Init /\ [][Next]_vars
=============================================================================
