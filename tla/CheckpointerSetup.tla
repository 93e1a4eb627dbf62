-------------------------- MODULE CheckpointerSetup --------------------------
(* ensure_setup (backend/db/postgres/checkpointer.py) with the RedisLock it uses *)
(* (backend/db/redis/lock_manager.py): the processes that start create the       *)
(* tables of the checkpointer once, under a lock with a time to live, and record *)
(* in Redis that it is done.                                                     *)
(*                                                                              *)
(* A process calls ensure_setup once; one that was restarted is another process, *)
(* so that a process stands for its token as well. The second call, by           *)
(* init_compiled_graph, returns at once since _setup_done is set. There is no    *)
(* clock: a renewal every 10 s keeps a lock of 60 s, so a lock expires only when *)
(* nobody renews it, and a process that stalls for longer is one whose renewal   *)
(* stopped. The tables are those of AsyncPostgresSaver.setup: Migrations         *)
(* statements, each followed by the insertion of its number, without transaction.*)
EXTENDS Integers

CONSTANTS Processes, Free,
          Migrations,   \* statements of cp.setup
          MaxTries,     \* _SETUP_LOCK_MAX_RETRIES
          MaxFaults     \* bound: faults
ASSUME FreeAssumption == Free \notin Processes
ASSUME BoundsAssumption == Migrations \in Nat /\ MaxTries \in Nat /\ MaxFaults \in Nat

VARIABLES lock,       \* lock:checkpointer_setup
          sentinel,   \* flag:checkpointer_setup_done
          version,    \* the last migration recorded in the database
          pc,         \* what the process does next
          after,      \* where it goes once the lock is released
          local,      \* _setup_done
          tries,      \* failed attempts to take the lock
          renewing,   \* the renewal task runs
          at,         \* the next migration
          lost,       \* who was inside when its key vanished
          faults
shared == <<lock, sentinel, version>>
vars == <<lock, sentinel, version, pc, after, local, tries, renewing, at, lost, faults>>

Labels == {"idle", "check", "acquire", "recheck", "open", "migrate", "write", "release",
           "verify", "done", "failed", "crashed"}
Over == {"done", "failed", "crashed"}
Inside == {"recheck", "open", "migrate", "write"}

Goto(p, label) == pc' = [pc EXCEPT ![p] = label]
Fault == faults < MaxFaults /\ faults' = faults + 1

Begin(p) ==
  /\ pc[p] = "idle" /\ Goto(p, "check")
  /\ UNCHANGED <<shared, after, local, tries, renewing, at, lost, faults>>

(* The sentinel is read before the lock is taken and again under it.             *)
Check(p) ==
  /\ pc[p] = "check"
  /\ local' = [local EXCEPT ![p] = sentinel]
  /\ Goto(p, IF sentinel THEN "done" ELSE "acquire")
  /\ UNCHANGED <<shared, after, tries, renewing, at, lost, faults>>

\* Defect: SET without NX.
AcquireAnyway(p) ==
  /\ pc[p] = "acquire"
  /\ lock' = p /\ renewing' = [renewing EXCEPT ![p] = TRUE] /\ Goto(p, "recheck")
  /\ UNCHANGED <<sentinel, version, after, local, tries, at, lost, faults>>
(* acquire: SET NX, and a renewal task.                                          *)
Acquire(p) ==
  /\ pc[p] = "acquire" /\ lock = Free
  /\ lock' = p /\ renewing' = [renewing EXCEPT ![p] = TRUE] /\ Goto(p, "recheck")
  /\ UNCHANGED <<sentinel, version, after, local, tries, at, lost, faults>>
(* The key is set, the answer is lost: an error, and a lock nobody renews.       *)
AcquireUnanswered(p) ==
  /\ pc[p] = "acquire" /\ lock = Free /\ Fault
  /\ lock' = p /\ Goto(p, "failed")
  /\ UNCHANGED <<sentinel, version, after, local, tries, renewing, at, lost>>
Wait(p) ==
  /\ pc[p] = "acquire" /\ lock # Free
  /\ tries' = [tries EXCEPT ![p] = @ + 1]
  /\ Goto(p, IF tries[p] + 1 < MaxTries THEN "acquire" ELSE "failed")
  /\ UNCHANGED <<shared, after, local, renewing, at, lost, faults>>

\* Defect: release leaves the renewal task running.
LeaveRenewing(p, next) ==
  /\ Goto(p, "release") /\ after' = [after EXCEPT ![p] = next] /\ UNCHANGED renewing
(* The finally block: release cancels the renewal before it talks to Redis.      *)
Leave(p, next) ==
  /\ Goto(p, "release") /\ after' = [after EXCEPT ![p] = next]
  /\ renewing' = [renewing EXCEPT ![p] = FALSE]

Recheck(p) ==
  /\ pc[p] = "recheck"
  /\ local' = [local EXCEPT ![p] = sentinel]
  /\ IF sentinel THEN Leave(p, "done") ELSE Goto(p, "open") /\ UNCHANGED <<after, renewing>>
  /\ UNCHANGED <<shared, tries, at, lost, faults>>

(* setup reads which migrations are recorded ...                                 *)
Open(p) ==
  /\ pc[p] = "open" /\ Goto(p, "migrate")
  /\ at' = [at EXCEPT ![p] = version + 1]
  /\ UNCHANGED <<shared, after, local, tries, renewing, lost, faults>>
\* Defect: the last migration is left out.
MigrateButOne(p) ==
  /\ pc[p] = "migrate"
  /\ IF at[p] < Migrations /\ at[p] = version + 1
     THEN version' = version + 1 /\ at' = [at EXCEPT ![p] = @ + 1] /\ UNCHANGED pc
     ELSE Goto(p, "write") /\ UNCHANGED <<version, at>>
  /\ UNCHANGED <<lock, sentinel, after, local, tries, renewing, lost, faults>>
(* ... and runs the others. A number that is already there is a UniqueViolation, *)
(* which counts as success.                                                      *)
Migrate(p) ==
  /\ pc[p] = "migrate"
  /\ IF at[p] <= Migrations /\ at[p] = version + 1
     THEN version' = version + 1 /\ at' = [at EXCEPT ![p] = @ + 1] /\ UNCHANGED pc
     ELSE Goto(p, "write") /\ UNCHANGED <<version, at>>
  /\ UNCHANGED <<lock, sentinel, after, local, tries, renewing, lost, faults>>

Write(p) ==
  /\ pc[p] = "write" /\ Leave(p, "verify")
  /\ sentinel' = TRUE /\ local' = [local EXCEPT ![p] = TRUE]
  /\ UNCHANGED <<lock, version, tries, at, lost, faults>>
WriteUnanswered(p) ==
  /\ pc[p] = "write" /\ Fault /\ Leave(p, "failed")
  /\ sentinel' = TRUE
  /\ UNCHANGED <<lock, version, local, tries, at, lost>>

\* Defect: DEL without looking at the token.
ReleaseAny(p) ==
  /\ pc[p] = "release" /\ Goto(p, after[p])
  /\ lock' = Free
  /\ UNCHANGED <<sentinel, version, after, local, tries, renewing, at, lost, faults>>
(* release: the script deletes the key if it holds the token.                    *)
Release(p) ==
  /\ pc[p] = "release" /\ Goto(p, after[p])
  /\ lock' = IF lock = p THEN Free ELSE lock
  /\ UNCHANGED <<sentinel, version, after, local, tries, renewing, at, lost, faults>>
(* An error of release is logged; the key stays until it expires.                *)
NotReleased(p) ==
  /\ pc[p] = "release" /\ Fault /\ Goto(p, after[p])
  /\ UNCHANGED <<shared, after, local, tries, renewing, at, lost>>

Verify(p) ==
  /\ pc[p] = "verify"
  /\ Goto(p, IF sentinel /\ local[p] THEN "done" ELSE "failed")
  /\ UNCHANGED <<shared, after, local, tries, renewing, at, lost, faults>>

(* Any call to Redis or to the database may raise.                               *)
Raise(p) ==
  /\ Fault
  /\ \/ pc[p] \in {"check", "acquire", "verify"} /\ Goto(p, "failed") /\ UNCHANGED <<after, renewing>>
     \/ pc[p] \in Inside /\ Leave(p, "failed")
  /\ UNCHANGED <<shared, local, tries, at, lost>>
Crash(p) ==
  /\ pc[p] \notin Over \union {"idle"} /\ Fault /\ Goto(p, "crashed")
  /\ renewing' = [renewing EXCEPT ![p] = FALSE]
  /\ UNCHANGED <<shared, after, local, tries, at, lost>>

(* _renew_loop ends with an error, or when the key is no longer its own.         *)
StopRenewing(p) ==
  /\ renewing[p] /\ renewing' = [renewing EXCEPT ![p] = FALSE]
  /\ \/ lock # p /\ UNCHANGED faults
     \/ Fault
  /\ UNCHANGED <<shared, pc, after, local, tries, at, lost>>

Losers == {p \in Processes : lock = p /\ pc[p] \in Inside}
(* The time to live of a lock that is not renewed runs out.                      *)
Expire ==
  /\ lock # Free /\ ~renewing[lock]
  /\ lock' = Free /\ lost' = lost \union Losers
  /\ UNCHANGED <<sentinel, version, pc, after, local, tries, renewing, at, faults>>
(* Redis restarts without its keys.                                              *)
Wipe ==
  /\ Fault /\ lock' = Free /\ sentinel' = FALSE /\ lost' = lost \union Losers
  /\ UNCHANGED <<version, pc, after, local, tries, renewing, at>>

-------------------------------------------------------------------------------
Init ==
  /\ lock = Free /\ sentinel = FALSE /\ version = 0
  /\ pc = [p \in Processes |-> "idle"] /\ after = [p \in Processes |-> "failed"]
  /\ local = [p \in Processes |-> FALSE] /\ tries = [p \in Processes |-> 0]
  /\ renewing = [p \in Processes |-> FALSE] /\ at = [p \in Processes |-> 0]
  /\ lost = {} /\ faults = 0

Step(p) ==
  \/ Check(p) \/ Acquire(p) \/ Wait(p) \/ Recheck(p) \/ Open(p) \/ Migrate(p) \/ Write(p)
  \/ Release(p) \/ Verify(p)
Unlucky(p) ==
  AcquireUnanswered(p) \/ WriteUnanswered(p) \/ NotReleased(p) \/ Raise(p) \/ Crash(p)
Next ==
  \/ \E p \in Processes : Begin(p) \/ Step(p) \/ Unlucky(p) \/ StopRenewing(p)
  \/ Expire \/ Wipe
Spec == Init /\ [][Next]_vars

(* A process that has begun goes on, and a time to live ends.                    *)
FairSpec == Spec /\ WF_vars(Expire) /\ \A p \in Processes : WF_vars(Step(p))

-------------------------------------------------------------------------------
(* Types. The renewal task lives only while its process is inside.               *)
TypeOK ==
  /\ lock \in Processes \union {Free} /\ sentinel \in BOOLEAN /\ version \in 0..Migrations
  /\ pc \in [Processes -> Labels] /\ after \in [Processes -> {"verify", "done", "failed"}]
  /\ local \in [Processes -> BOOLEAN] /\ tries \in [Processes -> Nat]
  /\ renewing \in [Processes -> BOOLEAN] /\ at \in [Processes -> Nat]
  /\ lost \subseteq Processes /\ faults \in Nat
  /\ \A p \in Processes : renewing[p] => pc[p] \in Inside

(* Two processes are inside only if the key of one vanished under it, because    *)
(* its renewal ended or Redis lost it: no release, error or crash of another     *)
(* process takes the lock from its holder (checkpointer.py:42).                  *)
OneAtATime ==
  \A p, q \in Processes :
    p # q /\ {pc[p], pc[q]} \subseteq Inside => p \in lost \/ q \in lost

(* Whoever believes that the set-up is done, the sentinel included, finds all    *)
(* tables there, whatever crashed or raised half-way, as long as no key vanished *)
(* under a process inside. Two that migrate at once could break it: the one that *)
(* meets a UniqueViolation writes the sentinel while the other may still fail.   *)
TablesBeforeUse ==
  lost = {} => \A p \in Processes : sentinel \/ local[p] => version = Migrations

(* The lock comes free again and again, even when its holder died or could not   *)
(* release it; so a start that failed can be repeated.                           *)
LockComesFree == []<>(lock = Free)
===============================================================================
