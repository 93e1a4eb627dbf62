------------------------------- MODULE TaskRow -------------------------------
(***************************************************************************)
(* What the row of a task and the rows of its executions promise, whoever  *)
(* writes them: the status is settled once in a try and only a new try     *)
(* opens it again; a new execution is inserted for a try that lacks one;   *)
(* of the outputs only that of the newest execution is written, with an    *)
(* error or with the answer of a job that has given one.                   *)
(***************************************************************************)
EXTENDS Integers, Sequences

CONSTANTS Jobs, NoJob

VARIABLES
    st,       \* status of the task, "none" before it exists
    tries,    \* how often it became running
    outputs,  \* of its executions: a job, "error" or NoJob
    given     \* the jobs that have given an answer

vars == <<st, tries, outputs, given>>

Terminal == {"completed", "failed", "cancelled", "wrong"}
Retryable == {"completed", "failed", "cancelled", "paused"}

\* A new task, or one that was paused in a run that is over.
Init ==
    /\ \/ st = "none" /\ tries = 0 /\ outputs = <<>>
       \/ st = "paused" /\ tries = 1 /\ outputs = <<NoJob>>
    /\ given = {}

Create ==
    /\ st = "none"
    /\ st' = "running" /\ tries' = 1
    /\ UNCHANGED <<outputs, given>>

\* Another try.
Reopen ==
    /\ st \in Retryable
    /\ st' = "running" /\ tries' = tries + 1
    /\ UNCHANGED <<outputs, given>>

\* An execution of a try.  A try may end, and another begin, without one.
Execute ==
    /\ Len(outputs) < tries
    /\ outputs' = Append(outputs, NoJob)
    /\ UNCHANGED <<st, tries, given>>

Succeed(j) ==
    /\ given' = given \union {j}
    /\ UNCHANGED <<st, tries, outputs>>

Answer(x) ==
    /\ outputs # <<>>
    /\ outputs' = [outputs EXCEPT ![Len(outputs)] = x]
    /\ UNCHANGED <<st, tries, given>>

\* A try that runs is paused or settled.
Leave(s) ==
    /\ st = "running"
    /\ st' = s
    /\ UNCHANGED <<tries, outputs, given>>

\* One that is paused can only be cancelled.
Cancel ==
    /\ st = "paused"
    /\ st' = "cancelled"
    /\ UNCHANGED <<tries, outputs, given>>

Next ==
    \/ Create \/ Reopen \/ Execute \/ Cancel
    \/ \E s \in Terminal \union {"paused"} : Leave(s)
    \/ \E x \in given \union {"error"} : Answer(x)
    \/ \E j \in Jobs : Succeed(j)

Spec == Init /\ [][Next]_vars
=============================================================================
