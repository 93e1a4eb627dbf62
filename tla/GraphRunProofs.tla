---------------------------- MODULE GraphRunProofs ----------------------------
(* Proofs about GraphRun, for every graph, every parallel group, every set of   *)
(* nodes with tasks, every number of versions and every budget.                 *)
(*                                                                             *)
(* The rows: what a statement may do to them is stated once (RowsMove), and     *)
(* every step of a node, of the engine and of a request is one such statement   *)
(* or leaves them alone.  That rows which ended stay as they are follows from   *)
(* it, and so does that the status complete_thread reads is that of an ended    *)
(* row.  The thread: what stops its first run has ended it before, ends it in   *)
(* the except clause of the executor, or is a pause or a crash (FirstRunEnds).  *)
EXTENDS GraphRun, WellFoundedInduction, TLAPS

(* The type of every variable.                                                *)

Checkpoints == [rec  : [Keys -> RowStatus],
                next : SUBSET Nodes,
                last : SUBSET Nodes,
                fork : [gen : Versions, point : Nodes \union {"none"}, group : BOOLEAN],
                beside : BOOLEAN]
Labels == {"idle", "enter", "check", "countCancelled", "countFailed", "cancelThread",
           "failThread", "await", "close", "except", "exceptCancelled", "absorb",
           "absorbCancelled", "returned"}

RowsOK ==
    /\ row \in [Keys -> RowStatus]
    /\ task \in [Keys -> RowStatus]
    /\ leaf \in [Versions -> Nodes \union {"none"}]
    /\ thread \in Unfinished \union Terminal
    /\ flags \in [thread : BOOLEAN, nodes : SUBSET Keys]

EngineOK ==
    /\ run \in {"idle", "nodes", "stopped", "ended", "finished"}
    /\ why \in {"none", "error", "cancelled", "paused", "crash"}
    /\ state \in Checkpoints
    /\ writes \in [Nodes -> [ver : Versions, status : RowStatus]]
    /\ pc \in [Nodes -> Labels]
    /\ found \in [Nodes -> Checkpoints]

RequestOK ==
    /\ req \in [at : {"idle", "node", "flag", "count", "thread"}, key : Keys \union {NoKey}]
    /\ req.at # "idle" => req.key \in Keys
    /\ origin \in {"start", "resume", "fork", "busy"}
    /\ left \in [runs : Nat, requests : Nat, crashes : Nat, forks : 0..MaxGen]

TypeOK == RowsOK /\ EngineOK /\ RequestOK

(* The version of the last ended row names a row that has ended: complete_thread takes the *)
(* status of that row for the thread.                                                      *)
LeavesEnded == \A v \in Versions : leaf[v] # "none" => row[<<leaf[v], v>>] \in Terminal

(* A row is of a version from which the forks that are left do not lead beyond MaxGen.     *)
VersionsLeft ==
    /\ Gen + left.forks <= MaxGen
    /\ \A n \in Nodes, v \in Versions : row[<<n, v>>] # "none" => v + left.forks <= MaxGen

(* In the first run of a thread, whatever stops it other than a pause or a crash has ended *)
(* the thread, or ends it in the except clause of the executor.                            *)
FirstRunEnds ==
    /\ thread = "received" => origin = "start"
    /\ origin = "start" =>
         /\ flags.thread => thread \notin Unfinished
         /\ \A n \in Nodes : pc[n] \in {"exceptCancelled", "absorbCancelled"} => thread \notin Unfinished
         /\ run \in {"stopped", "ended"} => why \in {"error", "cancelled", "paused"}
         /\ run \in {"stopped", "ended"} /\ why = "cancelled" => thread \notin Unfinished
         /\ run = "ended" /\ why = "error" => thread \notin Unfinished
         /\ run = "idle" /\ thread = "running" => why \in {"paused", "crash"}

-------------------------------------------------------------------------------
(* The highest version.                                                         *)

\* A set of natural numbers with a member has a least one.
LEMMA Least ==
  ASSUME NEW T \in SUBSET Nat, T # {}
  PROVE  \E m \in T : \A k \in T : m <= k
<1> DEFINE R == OpToRel(<, Nat)
<1>1. IsWellFoundedOn(R, Nat) BY NatLessThanWellFounded
<1>2. \A x, y \in Nat : <<y, x>> \in R <=> y < x BY DEF OpToRel
<1> HIDE DEF R
<1>3. PICK m \in T : \A k \in T : ~(<<k, m>> \in R) BY <1>1, WFMin
<1>4. \A k \in T : k \in Nat /\ m \in Nat /\ ~(k < m) BY <1>2, <1>3
<1>5. \A k \in T : m <= k BY <1>4
<1> QED BY <1>5

\* A set of versions with a member has a highest one.
LEMMA Highest ==
  ASSUME NEW T \in SUBSET Versions, T # {}
  PROVE  \E m \in T : \A k \in T : k <= m
<1> DEFINE U == {MaxGen - k : k \in T}
<1>0. MaxGen \in Nat /\ T \subseteq 0..MaxGen BY BudgetsAreCounts DEF Versions
<1>1. U \in SUBSET Nat /\ U # {}
  <2>1. \A k \in T : MaxGen - k \in Nat BY <1>0
  <2> QED BY <2>1
<1>2. PICK u \in U : \A v \in U : u <= v BY <1>1, Least
<1>3. PICK m \in T : u = MaxGen - m OBVIOUS
<1>4. ASSUME NEW k \in T PROVE k <= m
  <2>1. MaxGen - k \in U OBVIOUS
  <2>2. MaxGen - m <= MaxGen - k BY <2>1, <1>2, <1>3
  <2> QED BY <2>2, <1>0
<1> QED BY <1>4

\* So the version whose output a sibling shares is one, and is completed.
LEMMA SharedIsCompleted ==
  ASSUME NEW n \in Nodes, SharedVersion(n) >= 0
  PROVE  SharedVersion(n) \in Versions /\ row[<<n, SharedVersion(n)>>] = "completed"
<1>1. CompletedVersions(n) \in SUBSET Versions BY DEF CompletedVersions
<1>2. ~(\/ CompletedVersions(n) = {}
        \/ \E v \in Versions : row[<<n, v>>] = "running")
  BY DEF SharedVersion
<1>3. SharedVersion(n) = CHOOSE v \in CompletedVersions(n) : \A w \in CompletedVersions(n) : w <= v
  BY <1>2 DEF SharedVersion
<1>4. \E v \in CompletedVersions(n) : \A w \in CompletedVersions(n) : w <= v
  BY <1>1, <1>2, Highest
<1>5. SharedVersion(n) \in CompletedVersions(n) BY <1>3, <1>4
<1> QED BY <1>5 DEF CompletedVersions

\* And the status complete_thread finds is the one of a row that ended.
LEMMA LeafStatusEnds ==
  ASSUME RowsOK, LeavesEnded
  PROVE  LeafStatus \in Terminal
<1> DEFINE ended == {v \in Versions : leaf[v] # "none"}
           top == CHOOSE v \in ended : \A w \in ended : w <= v
<1>1. CASE ended = {} BY <1>1 DEF LeafStatus, Terminal
<1>2. CASE ended # {}
  <2>1. \E v \in ended : \A w \in ended : w <= v BY <1>2, Highest
  <2>2. top \in ended BY <2>1
  <2>3. LeafStatus = row[<<leaf[top], top>>] BY <1>2 DEF LeafStatus
  <2> QED BY <2>2, <2>3 DEF LeavesEnded
<1> QED BY <1>1, <1>2

-------------------------------------------------------------------------------
(* What a statement does to the rows.                                           *)

(* An ended row stays, a row appears with the current version only, and a row   *)
(* that becomes the last ended one of its version has ended.                    *)
RowsMove ==
    /\ row' \in [Keys -> RowStatus]
    /\ leaf' \in [Versions -> Nodes \union {"none"}]
    /\ \A k \in Keys : row[k] \in Terminal => row'[k] = row[k]
    /\ \A k \in Keys : row[k] = "none" /\ row'[k] # "none" => k[2] = Gen
    /\ \A v \in Versions : leaf'[v] # leaf[v] => row'[<<leaf'[v], v>>] \in Terminal

\* Leaving the rows alone is such a move.
LEMMA RowsRest ==
  ASSUME RowsOK, UNCHANGED <<row, leaf>>
  PROVE  RowsMove
BY DEF RowsOK, RowsMove

\* _UPDATE_NODE_COMPLETED.
LEMMA CloseMoves ==
  ASSUME RowsOK, NEW k \in Keys, NEW s \in Terminal, CloseRow(k, s)
  PROVE  RowsMove
<1>1. CASE row[k] \in Active
  <2>1. row' = [row EXCEPT ![k] = s] /\ leaf' = [leaf EXCEPT ![k[2]] = k[1]]
    BY <1>1 DEF CloseRow
  <2>2. k[1] \in Nodes /\ k[2] \in Versions /\ k = <<k[1], k[2]>> BY DEF Keys
  <2>3. row' \in [Keys -> RowStatus] BY <2>1 DEF RowsOK, RowStatus
  <2>4. leaf' \in [Versions -> Nodes \union {"none"}] BY <2>1, <2>2 DEF RowsOK
  <2>5. row[k] \notin Terminal /\ row[k] # "none" BY <1>1 DEF Active, Terminal
  <2>6. \A j \in Keys : j # k => row'[j] = row[j] BY <2>1 DEF RowsOK
  <2>7. ASSUME NEW v \in Versions, leaf'[v] # leaf[v]
        PROVE  row'[<<leaf'[v], v>>] \in Terminal
    <3>1. v = k[2] /\ leaf'[v] = k[1] BY <2>1, <2>7 DEF RowsOK
    <3>2. row'[k] = s BY <2>1 DEF RowsOK
    <3> QED BY <2>2, <3>1, <3>2
  <2> QED BY <2>3, <2>4, <2>5, <2>6, <2>7 DEF RowsMove
<1>2. CASE row[k] \notin Active BY <1>2, RowsRest DEF CloseRow
<1> QED BY <1>1, <1>2

\* _UPSERT_NODE.
LEMMA OpenMoves ==
  ASSUME RowsOK, NEW k \in Keys, k[2] = Gen, OpenRow(k)
  PROVE  RowsMove
<1>1. k[1] \in Nodes /\ k[2] \in Versions /\ k = <<k[1], k[2]>> BY DEF Keys
<1>2. CASE row[k] \in Terminal
  <2>1. row' = row /\ leaf' = [leaf EXCEPT ![k[2]] = k[1]] BY <1>2 DEF OpenRow
  <2>2. leaf' \in [Versions -> Nodes \union {"none"}] BY <1>1, <2>1 DEF RowsOK
  <2>3. ASSUME NEW v \in Versions, leaf'[v] # leaf[v]
        PROVE  row'[<<leaf'[v], v>>] \in Terminal
    <3>1. v = k[2] /\ leaf'[v] = k[1] BY <2>1, <2>3 DEF RowsOK
    <3> QED BY <1>1, <1>2, <2>1, <3>1
  <2> QED BY <2>1, <2>2, <2>3 DEF RowsMove, RowsOK
<1>3. CASE row[k] \notin Terminal
  <2>1. row' = [row EXCEPT ![k] = "running"] /\ leaf' = leaf BY <1>3 DEF OpenRow
  <2>2. row' \in [Keys -> RowStatus] BY <2>1 DEF RowsOK, RowStatus, Active
  <2>3. \A j \in Keys : j # k => row'[j] = row[j] BY <2>1 DEF RowsOK
  <2> QED BY <1>3, <2>1, <2>2, <2>3 DEF RowsMove, RowsOK
<1> QED BY <1>2, <1>3

\* The statements over all rows of the thread.
LEMMA SweepMoves ==
  ASSUME RowsOK, NEW s \in Terminal, row' = Sweep(row, s),
         leaf' \in [Versions -> Nodes \union {"none"}],
         \A v \in Versions : leaf'[v] \in SweptLeaf(v)
  PROVE  RowsMove
<1>1. \A k \in Keys : row'[k] = IF row[k] \in Active THEN s ELSE row[k] BY DEF Sweep
<1>2. row' \in [Keys -> RowStatus] BY <1>1 DEF Sweep, RowsOK, RowStatus
<1>3. \A k \in Keys : row[k] \in Terminal \/ row[k] = "none" => row'[k] = row[k]
  BY <1>1 DEF Terminal, Active
<1>4. ASSUME NEW v \in Versions, leaf'[v] # leaf[v]
      PROVE  row'[<<leaf'[v], v>>] \in Terminal
  <2>1. leaf'[v] \in {n \in Nodes : row[<<n, v>>] \in Active}
    BY <1>4 DEF SweptLeaf
  <2>2. <<leaf'[v], v>> \in Keys BY <2>1 DEF Keys
  <2> QED BY <1>1, <2>1, <2>2
<1> QED BY <1>2, <1>3, <1>4 DEF RowsMove

\* The cancellation of a thread: no thread is left unfinished.
LEMMA CancelThreadMoves ==
  ASSUME RowsOK, CancelThread
  PROVE  /\ RowsMove /\ RowsOK'
         /\ thread' = thread \/ thread \in Unfinished
         /\ thread' \in Terminal
<1>1. RowsMove BY SweepMoves DEF CancelThread, Terminal
<1>2. task' \in [Keys -> RowStatus]
  <2>1. task' = [k \in Keys |-> IF task[k] \in Active THEN "cancelled" ELSE task[k]]
    BY DEF CancelThread, Sweep
  <2> QED BY <2>1 DEF RowsOK, RowStatus, Terminal
<1>3. thread' \in Terminal /\ (thread' = thread \/ thread \in Unfinished)
  BY DEF CancelThread, RowsOK, Terminal, Unfinished
<1>4. flags' \in [thread : BOOLEAN, nodes : SUBSET Keys] BY DEF CancelThread, RowsOK
<1> QED BY <1>1, <1>2, <1>3, <1>4 DEF RowsMove, RowsOK

\* So is its failure, and it leaves the flags as they are.
LEMMA FailThreadMoves ==
  ASSUME RowsOK, FailThread
  PROVE  /\ RowsMove /\ RowsOK'
         /\ thread' = thread \/ thread \in Unfinished
         /\ thread' \in Terminal
         /\ flags' = flags
<1>1. CASE thread \in Unfinished
  <2>1. RowsMove BY <1>1, SweepMoves DEF FailThread, Terminal
  <2>2. thread' \in Terminal /\ flags' = flags /\ task' = task
    BY <1>1 DEF FailThread, Terminal
  <2> QED BY <1>1, <2>1, <2>2 DEF RowsMove, RowsOK
<1>2. CASE thread \notin Unfinished
  <2>1. UNCHANGED rows BY <1>2 DEF FailThread
  <2>2. RowsMove BY <2>1, RowsRest DEF rows
  <2> QED BY <1>2, <2>1, <2>2 DEF RowsOK, rows
<1> QED BY <1>1, <1>2

-------------------------------------------------------------------------------
(* The steps of a node.                                                         *)

\* The row of a node, in the version of the run, is one.
LEMMA OwnKey ==
  ASSUME TypeOK, NEW n \in Nodes
  PROVE  Gen \in Versions /\ Key(n) \in Keys /\ Key(n)[2] = Gen
BY DEF TypeOK, EngineOK, Checkpoints, Gen, Key, Keys

(* What a step of a node may do beside the rows.                                *)
NodeMove(n) ==
    /\ EngineOK' /\ UNCHANGED <<state, found, req, origin, left>>
    /\ \/ run' = run /\ why' = why
       \/ run' = "stopped" /\ why' \in {"error", "cancelled", "paused"}
    /\ run' # run /\ why' = "cancelled" => pc[n] = "absorbCancelled"
    /\ \A m \in Nodes :
         pc'[m] \in {"exceptCancelled", "absorbCancelled"} =>
           pc[m] \in {"exceptCancelled", "absorbCancelled"} \/ flags.thread

\* Going on to a label is such a move, to the handler of a cancelled thread with its flag only.
LEMMA GotoMoves ==
  ASSUME EngineOK, NEW n \in Nodes, NEW l \in Labels, Goto(n, l),
         UNCHANGED <<run, why, state, writes, found, req, origin, left>>,
         l = "exceptCancelled" => flags.thread,
         l = "absorbCancelled" => pc[n] = "exceptCancelled"
  PROVE  NodeMove(n)
<1>1. pc' = [pc EXCEPT ![n] = l] BY DEF Goto
<1>2. pc' \in [Nodes -> Labels] BY <1>1 DEF EngineOK
<1>3. EngineOK' BY <1>2 DEF EngineOK
<1>4. \A m \in Nodes : pc'[m] = IF m = n THEN l ELSE pc[m] BY <1>1 DEF EngineOK
<1> QED BY <1>3, <1>4 DEF NodeMove

\* So is ending with a record.
LEMMA ReturnMoves ==
  ASSUME EngineOK, NEW n \in Nodes, NEW v \in Versions, NEW s \in RowStatus, Return(n, v, s),
         UNCHANGED <<state, found, req, origin, left>>
  PROVE  NodeMove(n)
<1>1. pc' = [pc EXCEPT ![n] = "returned"] BY DEF Return, Goto
<1>2. pc' \in [Nodes -> Labels] BY <1>1 DEF EngineOK, Labels
<1>3. writes' \in [Nodes -> [ver : Versions, status : RowStatus]] BY DEF Return, EngineOK
<1>4. run' = run /\ why' = why BY DEF Return
<1>5. EngineOK' BY <1>2, <1>3, <1>4 DEF EngineOK
<1>6. \A m \in Nodes : pc'[m] = IF m = n THEN "returned" ELSE pc[m] BY <1>1 DEF EngineOK
<1> QED BY <1>4, <1>5, <1>6 DEF NodeMove

\* And ending with an exception.
LEMMA RaiseMoves ==
  ASSUME EngineOK, NEW n \in Nodes, NEW e \in {"error", "cancelled", "paused"}, Raise(n, e),
         UNCHANGED <<state, found, req, origin, left>>,
         e = "cancelled" => pc[n] = "absorbCancelled"
  PROVE  NodeMove(n)
<1>1. pc' = [m \in Nodes |-> "idle"] /\ run' = "stopped" /\ why' = e /\ writes' = writes
  BY DEF Raise
<1>2. pc' \in [Nodes -> Labels] BY <1>1 DEF Labels
<1>3. EngineOK' BY <1>1, <1>2 DEF EngineOK
<1> QED BY <1>1, <1>3 DEF NodeMove

(* What a step of a node may do to rows, thread and flags.                      *)
RowsStep ==
    /\ RowsMove /\ RowsOK'
    /\ \/ thread' = thread
       \/ thread \in Unfinished /\ thread' \in Terminal
    /\ flags'.thread => flags.thread \/ thread' \in Terminal

\* Writing nothing is such a step.
LEMMA RestIsRowsStep ==
  ASSUME RowsOK, UNCHANGED rows
  PROVE  RowsStep
<1>1. RowsMove BY RowsRest DEF rows
<1> QED BY <1>1 DEF RowsStep, rows, RowsOK

\* So is a move of the rows, with one of the task row and of the flags of nodes.
LEMMA MoveIsRowsStep ==
  ASSUME RowsOK, RowsMove, task' \in [Keys -> RowStatus], thread' = thread,
         flags' \in [thread : BOOLEAN, nodes : SUBSET Keys], flags'.thread = flags.thread
  PROVE  RowsStep
BY DEF RowsStep, RowsOK, RowsMove

\* The steps of a node are moves of the one and of the other kind.
LEMMA NodeMoves ==
  ASSUME TypeOK, NEW n \in Nodes, run = "nodes", NodeStep(n) \/ InputFails(n)
  PROVE  NodeMove(n) /\ RowsStep
<1>0. RowsOK /\ EngineOK BY DEF TypeOK
<1>k. Gen \in Versions /\ Key(n) \in Keys /\ Key(n)[2] = Gen BY OwnKey
<1>s. {"completed", "failed", "cancelled"} \subseteq RowStatus
      /\ {"completed", "failed", "cancelled"} = Terminal
      /\ {"running", "paused"} \subseteq RowStatus
  BY DEF RowStatus, Terminal, Active
<1>l. {"check", "countCancelled", "countFailed", "cancelThread", "failThread", "await", "close",
       "except", "exceptCancelled", "absorb", "absorbCancelled"} \subseteq Labels
  BY DEF Labels
<1>1. CASE Share(n)
  <2>1. SharedVersion(n) \in Versions BY <1>1, SharedIsCompleted DEF Share
  <2>2. NodeMove(n) BY <1>0, <1>1, <1>s, <2>1, ReturnMoves DEF Share
  <2> QED BY <1>0, <1>1, <2>2, RestIsRowsStep DEF Share
<1>2. CASE InputFails(n)
  <2>1. NodeMove(n) BY <1>0, <1>2, RaiseMoves DEF InputFails
  <2> QED BY <1>0, <1>2, <2>1, RestIsRowsStep DEF InputFails
<1>3. CASE UpsertNode(n)
  <2>1. NodeMove(n) BY <1>0, <1>3, <1>l, GotoMoves DEF UpsertNode
  <2>2. RowsMove BY <1>0, <1>3, <1>k, OpenMoves DEF UpsertNode
  <2>3. task' = task /\ thread' = thread /\ flags' = flags BY <1>3 DEF UpsertNode
  <2> QED BY <1>0, <2>1, <2>2, <2>3, MoveIsRowsStep DEF RowsOK
<1>4. CASE CancelSelf(n)
  <2>1. NodeMove(n) BY <1>0, <1>4, <1>l, GotoMoves DEF CancelSelf
  <2>2. RowsMove BY <1>0, <1>4, <1>k, <1>s, CloseMoves DEF CancelSelf
  <2>3. task' \in [Keys -> RowStatus] BY <1>0, <1>4, <1>s DEF CancelSelf, RowsOK
  <2>4. flags' \in [thread : BOOLEAN, nodes : SUBSET Keys] /\ flags'.thread = flags.thread
    BY <1>0, <1>4, <1>k DEF CancelSelf, RowsOK
  <2>5. thread' = thread BY <1>4 DEF CancelSelf
  <2> QED BY <1>0, <2>1, <2>2, <2>3, <2>4, <2>5, MoveIsRowsStep
<1>5. CASE FailSelf(n)
  <2>1. NodeMove(n) BY <1>0, <1>5, <1>l, GotoMoves DEF FailSelf
  <2>2. RowsMove BY <1>0, <1>5, <1>k, <1>s, CloseMoves DEF FailSelf
  <2>3. task' = task /\ thread' = thread /\ flags' = flags BY <1>5 DEF FailSelf
  <2> QED BY <1>0, <2>1, <2>2, <2>3, MoveIsRowsStep DEF RowsOK
<1>6. CASE CountActive(n)
  <2>1. UNCHANGED rows /\ UNCHANGED <<state, found, req, origin, left>>
    BY <1>6 DEF CountActive
  <2>2. CASE Return(n, Gen, "cancelled") \/ Return(n, Gen, "failed")
    BY <1>0, <1>k, <1>s, <2>1, <2>2, ReturnMoves, RestIsRowsStep
  <2>3. CASE (Goto(n, "cancelThread") \/ Goto(n, "failThread")) /\ UNCHANGED <<run, why, writes>>
    BY <1>0, <1>l, <2>1, <2>3, GotoMoves, RestIsRowsStep
  <2> QED BY <1>6, <2>2, <2>3 DEF CountActive
<1>7. CASE CascadeUp(n)
  <2>1. UNCHANGED <<state, found, req, origin, left>> BY <1>7 DEF CascadeUp
  <2>2. CASE CancelThread /\ Return(n, Gen, "cancelled")
    <3>1. NodeMove(n) BY <1>0, <1>k, <1>s, <2>1, <2>2, ReturnMoves
    <3> QED BY <1>0, <2>2, <3>1, CancelThreadMoves DEF RowsStep
  <2>3. CASE FailThread /\ Return(n, Gen, "failed")
    <3>1. NodeMove(n) BY <1>0, <1>k, <1>s, <2>1, <2>3, ReturnMoves
    <3> QED BY <1>0, <2>3, <3>1, FailThreadMoves DEF RowsStep
  <2> QED BY <1>7, <2>2, <2>3 DEF CascadeUp
<1>8. CASE Orchestrate(n)
  <2>1. UNCHANGED <<run, why, state, writes, found, req, origin, left>>
        /\ (Goto(n, "await") \/ Goto(n, "close"))
    BY <1>8 DEF Orchestrate
  <2>2. NodeMove(n) BY <1>0, <1>l, <2>1, GotoMoves
  <2>3. task' \in [Keys -> RowStatus] BY <1>0, <1>8, <1>s DEF Orchestrate, RowsOK
  <2>4. thread' = thread /\ flags' = flags /\ RowsMove
    BY <1>0, <1>8, RowsRest DEF Orchestrate
  <2> QED BY <1>0, <2>2, <2>3, <2>4, MoveIsRowsStep DEF RowsOK
<1>9. CASE TaskEnds(n)
  <2>1. UNCHANGED <<run, why, state, writes, found, req, origin, left>>
        /\ (Goto(n, "close") \/ Goto(n, "except"))
    BY <1>9 DEF TaskEnds
  <2>2. NodeMove(n) BY <1>0, <1>l, <2>1, GotoMoves
  <2>3. task' \in [Keys -> RowStatus] BY <1>0, <1>9, <1>s DEF TaskEnds, RowsOK
  <2>4. thread' = thread /\ flags' = flags /\ RowsMove
    BY <1>0, <1>9, RowsRest DEF TaskEnds
  <2> QED BY <1>0, <2>2, <2>3, <2>4, MoveIsRowsStep DEF RowsOK
<1>10. CASE SeesNodeFlag(n)
  <2>1. NodeMove(n) BY <1>0, <1>10, <1>k, <1>s, ReturnMoves DEF SeesNodeFlag
  <2> QED BY <1>0, <1>10, <2>1, RestIsRowsStep DEF SeesNodeFlag
<1>11. CASE SeesThreadFlag(n)
  <2>1. NodeMove(n) BY <1>0, <1>11, <1>l, GotoMoves DEF SeesThreadFlag
  <2> QED BY <1>0, <1>11, <2>1, RestIsRowsStep DEF SeesThreadFlag
<1>12. CASE SeesPause(n)
  <2>1. NodeMove(n) BY <1>0, <1>12, RaiseMoves DEF SeesPause
  <2>2. row' = [row EXCEPT ![Key(n)] = IF @ = "running" THEN "paused" ELSE @]
        /\ UNCHANGED <<task, leaf, thread, flags>>
    BY <1>12 DEF SeesPause
  <2>3. row' \in [Keys -> RowStatus] BY <1>0, <1>s, <2>2 DEF RowsOK
  <2>4. \A k \in Keys : row'[k] = IF k = Key(n) /\ row[k] = "running" THEN "paused" ELSE row[k]
    BY <1>0, <2>2 DEF RowsOK
  <2>5. RowsMove BY <1>0, <2>2, <2>3, <2>4 DEF RowsMove, RowsOK, Terminal
  <2> QED BY <1>0, <2>1, <2>2, <2>5, MoveIsRowsStep DEF RowsOK
<1>13. CASE FailNode(n)
  <2>1. NodeMove(n) BY <1>0, <1>13, <1>l, GotoMoves DEF FailNode
  <2>2. RowsMove BY <1>0, <1>13, <1>k, <1>s, CloseMoves DEF FailNode
  <2>3. task' = task /\ thread' = thread /\ flags' = flags BY <1>13 DEF FailNode
  <2> QED BY <1>0, <2>1, <2>2, <2>3, MoveIsRowsStep DEF RowsOK
<1>14. CASE AbsorbOrRaise(n)
  <2>1. UNCHANGED rows /\ UNCHANGED <<state, found, req, origin, left>>
    BY <1>14 DEF AbsorbOrRaise
  <2>2. CASE Return(n, Gen, "failed")
    BY <1>0, <1>k, <1>s, <2>1, <2>2, ReturnMoves, RestIsRowsStep
  <2>3. CASE Raise(n, IF pc[n] = "absorb" THEN "error" ELSE "cancelled")
    <3>1. pc[n] \in {"absorb", "absorbCancelled"} BY <1>14 DEF AbsorbOrRaise
    <3>2. NodeMove(n) BY <1>0, <2>1, <2>3, <3>1, RaiseMoves
    <3> QED BY <1>0, <2>1, <3>2, RestIsRowsStep
  <2> QED BY <1>14, <2>2, <2>3 DEF AbsorbOrRaise
<1>15. CASE CompleteNode(n)
  <2>0. EndStatus(n) \in {"completed", "failed"} BY DEF EndStatus
  <2>1. NodeMove(n) BY <1>0, <1>15, <1>k, <1>s, <2>0, ReturnMoves DEF CompleteNode
  <2>2. RowsMove BY <1>0, <1>15, <1>k, <1>s, <2>0, CloseMoves DEF CompleteNode
  <2>3. task' = task /\ thread' = thread /\ flags' = flags BY <1>15 DEF CompleteNode
  <2> QED BY <1>0, <2>1, <2>2, <2>3, MoveIsRowsStep DEF RowsOK
<1> QED
  BY <1>1, <1>2, <1>3, <1>4, <1>5, <1>6, <1>7, <1>8, <1>9, <1>10, <1>11, <1>12, <1>13, <1>14,
     <1>15 DEF NodeStep

-------------------------------------------------------------------------------
(* The steps of the engine, of the executor and of requests.                    *)

\* The checkpoint of a run is one of its node's newest ones.
LEMMA RememberType ==
  ASSUME EngineOK, NEW s \in Checkpoints, Remember(s)
  PROVE  found' \in [Nodes -> Checkpoints]
BY DEF Remember, EngineOK

\* Entering nodes gives each its label.
LEMMA EnterType ==
  ASSUME NEW todo, Enter(todo)
  PROVE  /\ pc' \in [Nodes -> Labels]
         /\ \A n \in Nodes : pc'[n] \in {"enter", "idle"}
BY DEF Enter, Labels

\* The records of an ended superstep, and the recovered ones, are statuses.
LEMMA MergedType ==
  ASSUME TypeOK
  PROVE  Merged(state.rec) \in [Keys -> RowStatus]
BY DEF Merged, TypeOK, EngineOK, Checkpoints, Keys

LEMMA RecoveredType ==
  ASSUME TypeOK, NEW rec \in [Keys -> RowStatus]
  PROVE  Recovered(rec) \in [Keys -> RowStatus]
<1> DEFINE new(k) == IF rec[k] = "none" \/ \A v \in Versions : row[<<k[1], v>>] = "none"
                     THEN rec[k] ELSE row[<<k[1], Newest(k[1])>>]
<1>1. ASSUME NEW k \in Keys PROVE new(k) \in RowStatus
  <2>1. rec[k] \in RowStatus OBVIOUS
  <2>2. ASSUME NEW v \in Versions, row[<<k[1], v>>] # "none"
        PROVE  row[<<k[1], Newest(k[1])>>] \in RowStatus
    <3> DEFINE vs == {w \in Versions : row[<<k[1], w>>] # "none"}
    <3>1. vs \in SUBSET Versions /\ vs # {} BY <2>2
    <3>2. \E w \in vs : \A u \in vs : u <= w BY <3>1, Highest
    <3>3. Newest(k[1]) = CHOOSE w \in vs : \A u \in vs : u <= w BY DEF Newest
    <3> HIDE DEF vs
    <3>4. Newest(k[1]) \in vs BY <3>2, <3>3
    <3>5. <<k[1], Newest(k[1])>> \in Keys BY <3>1, <3>4 DEF Keys
    <3> QED BY <3>5 DEF TypeOK, RowsOK
  <2> QED BY <2>1, <2>2
<1> QED BY <1>1 DEF Recovered

\* The next generation is a version, and leaves room for the forks after it.
LEMMA NextIsLeft ==
  ASSUME TypeOK, VersionsLeft, NEW k \in Keys, row[k] # "none", left.forks > 0
  PROVE  NextGeneration \in Versions /\ NextGeneration + (left.forks - 1) <= MaxGen
<1> DEFINE vs == {j[2] : j \in {x \in Keys : row[x] # "none"}}
<1>1. vs \in SUBSET Versions /\ vs # {} BY DEF Keys
<1>2. \E v \in vs : \A w \in vs : w <= v BY <1>1, Highest
<1>3. PICK g \in vs : NextGeneration = 1 + g
  <2>1. NextGeneration = 1 + (CHOOSE v \in vs : \A w \in vs : w <= v) BY DEF NextGeneration
  <2>2. (CHOOSE v \in vs : \A w \in vs : w <= v) \in vs BY <1>2
  <2> QED BY <2>1, <2>2
<1>4. PICK x \in Keys : row[x] # "none" /\ g = x[2] BY <1>3
<1>5. g \in Versions /\ x = <<x[1], g>> /\ x[1] \in Nodes BY <1>4 DEF Keys
<1>6. g + left.forks <= MaxGen BY <1>4, <1>5 DEF VersionsLeft
<1>7. left.forks \in Nat /\ g \in Nat /\ MaxGen \in Nat
  BY <1>5, BudgetsAreCounts DEF TypeOK, RequestOK, Versions
<1> QED BY <1>3, <1>6, <1>7 DEF Versions

\* Beside the nodes, the rows are changed by CloseRow, OpenRow and sweeps only, and the types stay.
LEMMA EngineMoves ==
  ASSUME TypeOK, LeavesEnded,
         EndSuperstep \/ Finish \/ Stopped \/ Cleanup \/ Start \/ Resume \/ Crash
  PROVE  RowsMove /\ TypeOK'
<1>0. RowsOK /\ EngineOK /\ RequestOK BY DEF TypeOK
<1>s. {"completed", "failed", "cancelled", "none", "running"} \subseteq RowStatus
      /\ {"completed", "failed", "cancelled"} = Terminal /\ {"received", "running"} = Unfinished
  BY DEF RowStatus, Terminal, Active, Unfinished
<1>r. Roots \in SUBSET Nodes /\ \A n \in Nodes : Succ(n) \in SUBSET Nodes BY DEF Roots, Succ
<1>1. CASE EndSuperstep
  <2> DEFINE done == {n \in Nodes : writes[n].status # "none"}
             s == [state EXCEPT !.rec = Merged(state.rec), !.last = done,
                                !.next = UNION {Succ(n) : n \in done}, !.beside = FALSE]
  <2>1. UNION {Succ(n) : n \in done} \in SUBSET Nodes BY <1>r
  <2>2. s \in Checkpoints BY <1>0, <2>1, MergedType DEF EngineOK, Checkpoints
  <2>3. /\ state' = s /\ Remember(s) /\ Enter(s.next)
        /\ writes' = [n \in Nodes |-> NoWrite] /\ run' \in {"finished", "nodes"}
        /\ UNCHANGED <<rows, why, req, origin, left>>
    BY <1>1 DEF EndSuperstep
  <2>4. NoWrite \in [ver : Versions, status : RowStatus]
    BY <1>s, BudgetsAreCounts DEF NoWrite, Versions
  <2> HIDE DEF s
  <2>5. found' \in [Nodes -> Checkpoints] /\ pc' \in [Nodes -> Labels]
    BY <1>0, <2>2, <2>3, RememberType, EnterType
  <2>6. EngineOK' BY <1>0, <2>2, <2>3, <2>4, <2>5 DEF EngineOK
  <2>7. RowsOK' /\ RequestOK' BY <1>0, <2>3 DEF RowsOK, RequestOK, rows
  <2>8. RowsMove BY <1>0, <2>3, RowsRest DEF rows
  <2> QED BY <2>6, <2>7, <2>8 DEF TypeOK
<1>2. CASE Finish
  <2>1. LeafStatus \in Terminal BY <1>0, LeafStatusEnds
  <2>2. thread' \in Unfinished \union Terminal BY <1>0, <1>2, <2>1 DEF Finish, RowsOK
  <2>3. flags' \in [thread : BOOLEAN, nodes : SUBSET Keys] BY <1>0, <1>2 DEF Finish, RowsOK
  <2>4. run' = "idle" /\ UNCHANGED <<row, task, leaf, why, state, writes, pc, found, req, origin, left>>
    BY <1>2 DEF Finish
  <2>5. RowsOK' BY <1>0, <2>2, <2>3, <2>4 DEF RowsOK
  <2>6. EngineOK' /\ RequestOK' BY <1>0, <2>4 DEF EngineOK, RequestOK
  <2>7. RowsMove BY <1>0, <2>4, RowsRest
  <2> QED BY <2>5, <2>6, <2>7 DEF TypeOK
<1>3. CASE Stopped
  <2>1. run' = "ended" /\ UNCHANGED <<why, state, writes, pc, found, req, origin, left>>
    BY <1>3 DEF Stopped
  <2>2. EngineOK' /\ RequestOK' BY <1>0, <2>1 DEF EngineOK, RequestOK
  <2>3. RowsMove /\ RowsOK'
    <3>1. CASE why = "error" BY <1>0, <1>3, <3>1, FailThreadMoves DEF Stopped
    <3>2. CASE why # "error"
      <4>1. UNCHANGED rows BY <1>3, <3>2 DEF Stopped
      <4> QED BY <1>0, <4>1, RowsRest DEF rows, RowsOK
    <3> QED BY <3>1, <3>2
  <2> QED BY <2>2, <2>3 DEF TypeOK
<1>4. CASE Cleanup
  <2>1. flags' \in [thread : BOOLEAN, nodes : SUBSET Keys] BY <1>0, <1>4 DEF Cleanup, RowsOK
  <2>2. /\ run' = "idle"
        /\ UNCHANGED <<row, task, leaf, thread, why, state, writes, pc, found, req, origin, left>>
    BY <1>4 DEF Cleanup
  <2>3. RowsOK' BY <1>0, <2>1, <2>2 DEF RowsOK
  <2>4. EngineOK' /\ RequestOK' BY <1>0, <2>2 DEF EngineOK, RequestOK
  <2>5. RowsMove BY <1>0, <2>2, RowsRest
  <2> QED BY <2>3, <2>4, <2>5 DEF TypeOK
<1>5. CASE Start
  <2> DEFINE s == [Empty EXCEPT !.next = Roots]
  <2>1. s \in Checkpoints
    <3>1. NoFork \in [gen : Versions, point : Nodes \union {"none"}, group : BOOLEAN]
      BY BudgetsAreCounts DEF NoFork, Versions
    <3>2. [k \in Keys |-> "none"] \in [Keys -> RowStatus] BY <1>s
    <3>3. Empty \in Checkpoints BY <3>1, <3>2 DEF Checkpoints, Empty
    <3> QED BY <1>r, <3>3 DEF Checkpoints
  <2>2. /\ state' = s /\ Remember(s) /\ Enter(Roots) /\ run' = "nodes" /\ thread' = "running"
        /\ origin' = "start" /\ left' = [left EXCEPT !.runs = @ - 1] /\ left.runs > 0
        /\ UNCHANGED <<row, task, leaf, flags, why, writes, req>>
    BY <1>5 DEF Start, Dispatch
  <2> HIDE DEF s
  <2>3. found' \in [Nodes -> Checkpoints] /\ pc' \in [Nodes -> Labels]
    BY <1>0, <2>1, <2>2, RememberType, EnterType
  <2>4. EngineOK' BY <1>0, <2>1, <2>2, <2>3 DEF EngineOK
  <2>5. RowsOK' BY <1>0, <1>s, <2>2 DEF RowsOK
  <2>6. RequestOK' BY <1>0, <2>2 DEF RequestOK
  <2>7. RowsMove BY <1>0, <2>2, RowsRest
  <2> QED BY <2>4, <2>5, <2>6, <2>7 DEF TypeOK
<1>6. CASE Resume
  <2>1. /\ thread' = "running" /\ origin' = "resume" /\ left.runs > 0
        /\ left' = [left EXCEPT !.runs = @ - 1]
        /\ UNCHANGED <<row, task, leaf, flags, req>>
    BY <1>6 DEF Resume, Dispatch
  <2>2. RowsOK' BY <1>0, <1>s, <2>1 DEF RowsOK
  <2>3. RequestOK' BY <1>0, <2>1 DEF RequestOK
  <2>4. RowsMove BY <1>0, <2>1, RowsRest
  <2>5. CASE run' = "stopped" /\ why' = "error" /\ UNCHANGED <<state, writes, pc, found>>
    <3>1. EngineOK' BY <1>0, <2>5 DEF EngineOK
    <3> QED BY <2>2, <2>3, <2>4, <3>1 DEF TypeOK
  <2>6. CASE /\ state' = [state EXCEPT !.rec = Recovered(state.rec), !.beside = FALSE]
             /\ Remember(state')
             /\ writes' = [n \in Nodes |-> IF state.beside THEN NoWrite ELSE writes[n]]
             /\ Enter({n \in state.next : writes'[n].status = "none"})
             /\ run' = IF state.next = {} THEN "finished" ELSE "nodes"
             /\ UNCHANGED why
    <3>0. state.rec \in [Keys -> RowStatus] BY <1>0 DEF EngineOK, Checkpoints
    <3>1. state' \in Checkpoints BY <1>0, <2>6, <3>0, RecoveredType DEF EngineOK, Checkpoints
    <3>2. found' \in [Nodes -> Checkpoints]
      BY <1>0, <2>6, <3>1 DEF Remember, EngineOK
    <3>3. pc' \in [Nodes -> Labels] BY <2>6, EnterType
    <3>4. NoWrite \in [ver : Versions, status : RowStatus]
      BY <1>s, BudgetsAreCounts DEF NoWrite, Versions
    <3>5. writes' \in [Nodes -> [ver : Versions, status : RowStatus]]
      BY <1>0, <2>6, <3>4 DEF EngineOK
    <3>6. EngineOK' BY <1>0, <2>6, <3>1, <3>2, <3>3, <3>5 DEF EngineOK
    <3> QED BY <2>2, <2>3, <2>4, <3>6 DEF TypeOK
  <2> QED BY <1>6, <2>5, <2>6 DEF Resume
<1>7. CASE Crash
  <2>1. /\ run' = "idle" /\ why' = "crash" /\ pc' = [n \in Nodes |-> "idle"]
        /\ left' = [left EXCEPT !.crashes = @ - 1] /\ left.crashes > 0
        /\ UNCHANGED <<rows, state, found, req, origin>>
    BY <1>7 DEF Crash
  <2>2. NoWrite \in [ver : Versions, status : RowStatus]
    BY <1>s, BudgetsAreCounts DEF NoWrite, Versions
  <2>3. writes' \in [Nodes -> [ver : Versions, status : RowStatus]]
    BY <1>0, <1>7, <2>2 DEF Crash, EngineOK
  <2>4. EngineOK' BY <1>0, <2>1, <2>3 DEF EngineOK, Labels
  <2>5. RowsOK' BY <1>0, <2>1 DEF RowsOK, rows
  <2>6. RequestOK' BY <1>0, <2>1 DEF RequestOK
  <2>7. RowsMove BY <1>0, <2>1, RowsRest DEF rows
  <2> QED BY <2>4, <2>5, <2>6, <2>7 DEF TypeOK
<1> QED BY <1>1, <1>2, <1>3, <1>4, <1>5, <1>6, <1>7

\* The requests of users, a step at a time.
LEMMA RequestMoves ==
  ASSUME TypeOK, VersionsLeft,
         \/ \E k \in Keys : PauseTask(k) \/ CancelRequest(k) \/ ReExplore(k)
         \/ CancelNode \/ SetNodeFlag \/ CountTopLevel \/ CancelCascade
  PROVE  RowsMove /\ TypeOK'
<1>0. RowsOK /\ EngineOK /\ RequestOK BY DEF TypeOK
<1>s. {"completed", "failed", "cancelled", "none", "running", "paused"} \subseteq RowStatus
      /\ {"completed", "failed", "cancelled"} = Terminal /\ {"received", "running"} = Unfinished
  BY DEF RowStatus, Terminal, Active, Unfinished
<1>e. ASSUME UNCHANGED engine PROVE EngineOK' BY <1>0, <1>e DEF engine, EngineOK
<1>1. ASSUME NEW k \in Keys, PauseTask(k) PROVE RowsMove /\ TypeOK'
  <2>1. /\ UNCHANGED <<row, leaf, thread, flags, engine, req, origin>>
        /\ left.requests > 0 /\ left' = [left EXCEPT !.requests = @ - 1]
        /\ task' = [task EXCEPT ![k] = "paused"]
    BY <1>1 DEF PauseTask, Ask
  <2>2. RowsOK' BY <1>0, <1>s, <2>1 DEF RowsOK
  <2>3. RequestOK' BY <1>0, <2>1 DEF RequestOK
  <2>4. RowsMove BY <1>0, <2>1, RowsRest
  <2> QED BY <1>e, <2>1, <2>2, <2>3, <2>4 DEF TypeOK
<1>2. ASSUME NEW k \in Keys, CancelRequest(k) PROVE RowsMove /\ TypeOK'
  <2>1. /\ UNCHANGED <<row, leaf, thread, flags, engine, origin>>
        /\ left.requests > 0 /\ left' = [left EXCEPT !.requests = @ - 1]
        /\ req' = [at |-> "node", key |-> k]
    BY <1>2 DEF CancelRequest, Ask
  <2>2. task' \in [Keys -> RowStatus] BY <1>0, <1>2, <1>s DEF CancelRequest, RowsOK
  <2>3. RowsOK' BY <1>0, <2>1, <2>2 DEF RowsOK
  <2>4. RequestOK' BY <1>0, <2>1 DEF RequestOK
  <2>5. RowsMove BY <1>0, <2>1, RowsRest
  <2> QED BY <1>e, <2>1, <2>3, <2>4, <2>5 DEF TypeOK
<1>3. ASSUME NEW k \in Keys, ReExplore(k) PROVE RowsMove /\ TypeOK'
  <2> DEFINE n == k[1]
             target == found[n]
             fork == [gen |-> NextGeneration, point |-> n,
                      group |-> n \in Group \/ target.fork.group]
             s == [rec |-> SiblingRecords(n, target.rec), last |-> target.last,
                   next |-> ForkNext(n), fork |-> fork, beside |-> FALSE]
  <2>0. /\ row[k] # "none" /\ left.forks > 0 /\ left' = [left EXCEPT !.forks = @ - 1]
        /\ thread' = "running" /\ UNCHANGED <<row, task, leaf, flags, req>>
    BY <1>3 DEF ReExplore
  <2>r. RunFork(s) \/ (origin' = "busy" /\ Remember(s) /\ UNCHANGED <<run, why, state, writes, pc>>)
    BY <1>3, Zenon DEF ReExplore
  <2>1. RowsOK' BY <1>0, <1>s, <2>0 DEF RowsOK
  <2>2. RequestOK'
    <3>1. left.forks - 1 \in 0..MaxGen BY <1>0, <2>0, BudgetsAreCounts DEF RequestOK
    <3>2. origin' \in {"fork", "busy"} BY <2>r DEF RunFork
    <3> QED BY <1>0, <2>0, <3>1, <3>2 DEF RequestOK
  <2>3. RowsMove BY <1>0, <2>0, RowsRest
  <2>4. s \in Checkpoints
    <3>1. n \in Nodes BY DEF Keys
    <3>2. target \in Checkpoints BY <1>0, <3>1 DEF EngineOK
    <3>3. SiblingRecords(n, target.rec) \in [Keys -> RowStatus]
      BY <1>s, <3>2 DEF SiblingRecords, Checkpoints
    <3>4. target.last \in SUBSET Nodes /\ ForkNext(n) \in SUBSET Nodes
      BY <3>1, <3>2 DEF Preds, ForkNext, Succ, Checkpoints
    <3>5. fork \in [gen : Versions, point : Nodes \union {"none"}, group : BOOLEAN]
      <4>1. NextGeneration \in Versions BY <2>0, NextIsLeft
      <4>2. target.fork.group \in BOOLEAN BY <3>2 DEF Checkpoints
      <4>3. (n \in Group \/ target.fork.group) \in BOOLEAN BY <4>2
      <4> QED BY <3>1, <4>1, <4>3
    <3> HIDE DEF fork, target, n
    <3> QED BY <3>3, <3>4, <3>5 DEF Checkpoints
  <2> HIDE DEF s
  <2>5. CASE origin' = "busy" /\ Remember(s) /\ UNCHANGED <<run, why, state, writes, pc>>
    <3>1. found' \in [Nodes -> Checkpoints] BY <1>0, <2>4, <2>5, RememberType
    <3>2. EngineOK' BY <1>0, <2>5, <3>1 DEF EngineOK
    <3> QED BY <2>1, <2>2, <2>3, <3>2 DEF TypeOK
  <2>6. CASE RunFork(s)
    <3>1. NoWrite \in [ver : Versions, status : RowStatus]
      BY <1>s, BudgetsAreCounts DEF NoWrite, Versions
    <3>2. writes' \in [Nodes -> [ver : Versions, status : RowStatus]]
      BY <2>6, <3>1 DEF RunFork
    <3>3. CASE /\ run' = "stopped" /\ why' = "error"
               /\ state' = s /\ Remember(s) /\ Enter({})
      <4>1. found' \in [Nodes -> Checkpoints] /\ pc' \in [Nodes -> Labels]
        BY <1>0, <2>4, <3>3, RememberType, EnterType
      <4>2. EngineOK' BY <1>0, <2>4, <3>2, <3>3, <4>1 DEF EngineOK
      <4> QED BY <2>1, <2>2, <2>3, <4>2 DEF TypeOK
    <3>4. CASE /\ run' = "nodes" /\ state' = [s EXCEPT !.beside = HasRecords(s)]
               /\ Remember([s EXCEPT !.rec = Recovered(s.rec)]) /\ Enter(s.next)
               /\ UNCHANGED why
      <4>1. HasRecords(s) \in BOOLEAN BY DEF HasRecords
      <4>2. state' \in Checkpoints BY <2>4, <3>4, <4>1 DEF Checkpoints
      <4>3. s.rec \in [Keys -> RowStatus] BY <2>4 DEF Checkpoints
      <4>4. [s EXCEPT !.rec = Recovered(s.rec)] \in Checkpoints
        BY <2>4, <4>3, RecoveredType DEF Checkpoints
      <4>5. found' \in [Nodes -> Checkpoints] /\ pc' \in [Nodes -> Labels]
        BY <1>0, <3>4, <4>4, RememberType, EnterType
      <4>6. EngineOK' BY <1>0, <3>2, <3>4, <4>2, <4>5 DEF EngineOK
      <4> QED BY <2>1, <2>2, <2>3, <4>6 DEF TypeOK
    <3> QED BY <2>6, <3>3, <3>4 DEF RunFork
  <2> QED BY <2>r, <2>5, <2>6
<1>4. CASE CancelNode
  <2>1. req.at = "node" /\ UNCHANGED <<thread, flags, engine, origin, left>>
    BY <1>4 DEF CancelNode
  <2>2. req.key \in Keys BY <1>0, <2>1 DEF RequestOK
  <2>3. RowsMove BY <1>0, <1>4, <1>s, <2>2, CloseMoves DEF CancelNode
  <2>4. task' \in [Keys -> RowStatus] BY <1>0, <1>4, <1>s DEF CancelNode, RowsOK
  <2>5. RowsOK' BY <1>0, <2>1, <2>3, <2>4 DEF RowsOK, RowsMove
  <2>6. RequestOK'
    <3>1. \E a \in {"flag", "count"} : req' = [req EXCEPT !.at = a] BY <1>4 DEF CancelNode
    <3> QED BY <1>0, <2>1, <2>2, <3>1 DEF RequestOK
  <2> QED BY <1>e, <2>1, <2>3, <2>5, <2>6 DEF TypeOK
<1>5. CASE SetNodeFlag
  <2>1. req.at = "flag" /\ UNCHANGED <<row, task, leaf, thread, engine, origin, left>>
    BY <1>5 DEF SetNodeFlag
  <2>2. req.key \in Keys BY <1>0, <2>1 DEF RequestOK
  <2>3. flags' \in [thread : BOOLEAN, nodes : SUBSET Keys]
    BY <1>0, <1>5, <2>2 DEF SetNodeFlag, RowsOK
  <2>4. RowsOK' BY <1>0, <2>1, <2>3 DEF RowsOK
  <2>5. RequestOK' BY <1>0, <1>5, <2>2 DEF SetNodeFlag, RequestOK
  <2>6. RowsMove BY <1>0, <2>1, RowsRest
  <2> QED BY <1>e, <2>1, <2>4, <2>5, <2>6 DEF TypeOK
<1>6. CASE CountTopLevel
  <2>1. req.at = "count" /\ UNCHANGED <<rows, engine, origin, left>> BY <1>6 DEF CountTopLevel
  <2>2. req.key \in Keys BY <1>0, <2>1 DEF RequestOK
  <2>3. RequestOK' BY <1>0, <1>6, <2>2 DEF CountTopLevel, RequestOK
  <2>4. RowsOK' BY <1>0, <2>1 DEF RowsOK, rows
  <2>5. RowsMove BY <1>0, <2>1, RowsRest DEF rows
  <2> QED BY <1>e, <2>1, <2>3, <2>4, <2>5 DEF TypeOK
<1>7. CASE CancelCascade
  <2>1. UNCHANGED <<engine, origin, left>> /\ CancelThread
    BY <1>7 DEF CancelCascade
  <2>2. RequestOK' BY <1>0, <1>7, <2>1 DEF CancelCascade, RequestOK
  <2> QED BY <1>0, <1>e, <2>1, <2>2, CancelThreadMoves DEF TypeOK
<1> QED BY <1>1, <1>2, <1>3, <1>4, <1>5, <1>6, <1>7

-------------------------------------------------------------------------------
(* The invariant.                                                               *)

IInv == TypeOK /\ LeavesEnded /\ VersionsLeft /\ FirstRunEnds

\* Every step keeps the types and moves the rows.
LEMMA StepsMoveRows ==
  ASSUME IInv, [Next]_vars
  PROVE  RowsMove /\ TypeOK'
<1>1. ASSUME NEW n \in Nodes, run = "nodes", NodeStep(n) \/ InputFails(n)
      PROVE  RowsMove /\ TypeOK'
  <2>1. NodeMove(n) /\ RowsStep BY <1>1, NodeMoves DEF IInv
  <2>2. RequestOK' BY <2>1 DEF NodeMove, IInv, TypeOK, RequestOK
  <2> QED BY <2>1, <2>2 DEF NodeMove, RowsStep, TypeOK
<1>2. CASE UNCHANGED vars
  <2>1. RowsMove BY <1>2, RowsRest DEF IInv, TypeOK, vars
  <2> QED BY <1>2, <2>1 DEF vars, IInv, TypeOK, RowsOK, EngineOK, RequestOK
<1>3. CASE \/ EndSuperstep \/ Finish \/ Stopped \/ Cleanup \/ Start \/ Resume \/ Crash
  BY <1>3, EngineMoves DEF IInv
<1>4. CASE \/ \E k \in Keys : PauseTask(k) \/ CancelRequest(k) \/ ReExplore(k)
           \/ CancelNode \/ SetNodeFlag \/ CountTopLevel \/ CancelCascade
  BY <1>4, RequestMoves DEF IInv
<1>5. ASSUME NEW n \in Nodes, NodeStep(n) PROVE run = "nodes" BY <1>5 DEF NodeStep
<1> QED BY <1>1, <1>2, <1>3, <1>4, <1>5 DEF Next

\* Moves of the rows leave the last ended row ended.
LEMMA LeavesStayEnded ==
  ASSUME RowsOK, LeavesEnded, RowsMove
  PROVE  LeavesEnded'
<1> SUFFICES ASSUME NEW v \in Versions, leaf'[v] # "none"
             PROVE  row'[<<leaf'[v], v>>] \in Terminal
  BY DEF LeavesEnded
<1>1. CASE leaf'[v] # leaf[v] BY <1>1 DEF RowsMove
<1>2. CASE leaf'[v] = leaf[v]
  <2>1. row[<<leaf[v], v>>] \in Terminal BY <1>2 DEF LeavesEnded
  <2>2. leaf[v] \in Nodes BY <1>2 DEF RowsOK
  <2>3. <<leaf[v], v>> \in Keys BY <2>2 DEF Keys
  <2> QED BY <1>2, <2>1, <2>3 DEF RowsMove
<1> QED BY <1>1, <1>2

\* Only a re-exploration takes a fork and changes the generation, to one with room for the rest.
LEMMA VersionsMove ==
  ASSUME TypeOK, VersionsLeft, [Next]_vars
  PROVE  /\ left'.forks <= left.forks
         /\ state'.fork.gen + left'.forks <= MaxGen
<1>0. EngineOK /\ RequestOK BY DEF TypeOK
<1>1. left.forks \in Nat /\ MaxGen \in Nat /\ Gen + left.forks <= MaxGen
  BY <1>0, BudgetsAreCounts DEF RequestOK, VersionsLeft
<1>2. CASE left'.forks = left.forks /\ state'.fork = state.fork
  BY <1>1, <1>2 DEF Gen
<1>3. ASSUME NEW n \in Nodes, NodeStep(n) \/ (run = "nodes" /\ InputFails(n))
      PROVE  left'.forks = left.forks /\ state'.fork = state.fork
  <2>1. run = "nodes" BY <1>3 DEF NodeStep
  <2>2. NodeMove(n) BY <1>3, <2>1, NodeMoves
  <2> QED BY <2>2 DEF NodeMove
<1>4. CASE EndSuperstep \/ Crash
  <2>1. left'.forks = left.forks BY <1>0, <1>4 DEF EndSuperstep, Crash, RequestOK
  <2>2. state'.fork = state.fork BY <1>0, <1>4 DEF EndSuperstep, Crash, EngineOK, Checkpoints
  <2> QED BY <1>2, <2>1, <2>2
<1>5. CASE Finish \/ Stopped \/ Cleanup \/ UNCHANGED vars
  BY <1>2, <1>5 DEF Finish, Stopped, Cleanup, vars
<1>6. CASE Start
  <2>1. left'.forks = left.forks BY <1>0, <1>6 DEF Start, Dispatch, RequestOK
  <2>2. state'.fork.gen = 0 BY <1>6 DEF Start, Empty, NoFork
  <2>3. left.forks <= MaxGen BY <1>0, <1>1 DEF RequestOK
  <2> QED BY <1>1, <2>1, <2>2, <2>3
<1>7. CASE Resume
  <2>1. left'.forks = left.forks BY <1>0, <1>7 DEF Resume, Dispatch, RequestOK
  <2>2. state'.fork = state.fork BY <1>0, <1>7 DEF Resume, EngineOK, Checkpoints
  <2> QED BY <1>2, <2>1, <2>2
<1>8. ASSUME NEW k \in Keys, PauseTask(k) \/ CancelRequest(k)
      PROVE  left'.forks = left.forks /\ state'.fork = state.fork
  BY <1>0, <1>8 DEF PauseTask, CancelRequest, Ask, engine, RequestOK
<1>9. ASSUME NEW k \in Keys, ReExplore(k)
      PROVE  left'.forks <= left.forks /\ state'.fork.gen + left'.forks <= MaxGen
  <2>1. row[k] # "none" /\ left.forks > 0 /\ left' = [left EXCEPT !.forks = @ - 1]
    BY <1>9 DEF ReExplore
  <2>2. left'.forks = left.forks - 1 BY <1>0, <2>1 DEF RequestOK
  <2>3. NextGeneration \in Versions /\ NextGeneration + (left.forks - 1) <= MaxGen
    BY <2>1, NextIsLeft
  <2>4. state'.fork.gen = NextGeneration \/ state' = state
    <3> DEFINE n == k[1]
               s == [rec |-> SiblingRecords(n, found[n].rec), last |-> found[n].last,
                     next |-> ForkNext(n),
                     fork |-> [gen |-> NextGeneration, point |-> n,
                               group |-> n \in Group \/ found[n].fork.group],
                     beside |-> FALSE]
    <3>1. RunFork(s) \/ state' = state BY <1>9, Zenon DEF ReExplore
    <3>2. s.fork.gen = NextGeneration /\ [s EXCEPT !.beside = HasRecords(s)].fork = s.fork OBVIOUS
    <3>3. CASE RunFork(s)
      <4>1. state' = s \/ state' = [s EXCEPT !.beside = HasRecords(s)] BY <3>3 DEF RunFork
      <4> QED BY <3>2, <4>1
    <3> QED BY <3>1, <3>3
  <2>5. Gen \in Nat BY <1>0 DEF EngineOK, Checkpoints, Gen, Versions
  <2>6. CASE state'.fork.gen = NextGeneration BY <1>1, <2>2, <2>3, <2>6
  <2>7. CASE state' = state BY <1>1, <2>2, <2>5, <2>7 DEF Gen
  <2> QED BY <2>4, <2>6, <2>7
<1>10. CASE CancelNode \/ SetNodeFlag \/ CountTopLevel \/ CancelCascade
  BY <1>2, <1>10 DEF CancelNode, SetNodeFlag, CountTopLevel, CancelCascade, engine
<1> QED
  BY <1>1, <1>2, <1>3, <1>4, <1>5, <1>6, <1>7, <1>8, <1>9, <1>10 DEF Next

\* So there is room after every row.
LEMMA VersionsStayLeft ==
  ASSUME TypeOK, VersionsLeft, RowsMove, TypeOK', [Next]_vars
  PROVE  VersionsLeft'
<1>1. left'.forks <= left.forks /\ state'.fork.gen + left'.forks <= MaxGen
  BY VersionsMove
<1>2. left'.forks \in Nat /\ left.forks \in Nat /\ MaxGen \in Nat
  BY BudgetsAreCounts DEF TypeOK, RequestOK
<1>3. ASSUME NEW n \in Nodes, NEW v \in Versions, row'[<<n, v>>] # "none"
      PROVE  v + left'.forks <= MaxGen
  <2>0. v \in Nat /\ Gen \in Nat BY DEF Versions, Gen, TypeOK, EngineOK, Checkpoints
  <2>1. <<n, v>> \in Keys BY DEF Keys
  <2>2. CASE row[<<n, v>>] # "none"
    <3>1. v + left.forks <= MaxGen BY <2>2 DEF VersionsLeft
    <3> QED BY <1>1, <1>2, <2>0, <3>1
  <2>3. CASE row[<<n, v>>] = "none"
    <3>1. v = Gen BY <1>3, <2>1, <2>3 DEF RowsMove
    <3>2. Gen + left.forks <= MaxGen BY DEF VersionsLeft
    <3> QED BY <1>1, <1>2, <2>0, <3>1, <3>2
  <2> QED BY <2>2, <2>3
<1> QED BY <1>1, <1>3 DEF VersionsLeft, Gen

\* What stops the first run has ended the thread, or is a pause or a crash.
LEMMA FirstRunStaysSo ==
  ASSUME IInv, [Next]_vars
  PROVE  FirstRunEnds'
<1>0. RowsOK /\ EngineOK /\ RequestOK /\ FirstRunEnds BY DEF IInv, TypeOK
<1>t. Terminal \intersect Unfinished = {} /\ "running" \notin Terminal /\ "received" \notin Terminal
      /\ "running" \in Unfinished /\ "received" \in Unfinished
  BY DEF Terminal, Unfinished
<1>1. ASSUME NEW n \in Nodes, NodeStep(n) \/ (run = "nodes" /\ InputFails(n))
      PROVE  FirstRunEnds'
  <2>1. run = "nodes" BY <1>1 DEF NodeStep
  <2>2. NodeMove(n) /\ RowsStep BY <1>1, <2>1, NodeMoves DEF IInv
  <2>3. origin' = origin /\ (thread' = "received" => thread = "received")
        /\ (thread' \in Unfinished => thread \in Unfinished)
    BY <2>2, <1>t DEF NodeMove, RowsStep
  <2>4. run' \in {"nodes", "stopped"} BY <2>1, <2>2 DEF NodeMove
  <2>5. run' = "stopped" => why' \in {"error", "cancelled", "paused"}
    BY <2>1, <2>2 DEF NodeMove
  <2>6. run' = "stopped" /\ why' = "cancelled" => pc[n] = "absorbCancelled"
    BY <2>1, <2>2 DEF NodeMove
  <2>7. flags'.thread => flags.thread \/ thread' \in Terminal BY <2>2 DEF RowsStep
  <2>8. \A m \in Nodes :
          pc'[m] \in {"exceptCancelled", "absorbCancelled"} =>
            pc[m] \in {"exceptCancelled", "absorbCancelled"} \/ flags.thread
    BY <2>2 DEF NodeMove
  <2>9. origin = "start" =>
          /\ flags'.thread => thread' \notin Unfinished
          /\ \A m \in Nodes :
               pc'[m] \in {"exceptCancelled", "absorbCancelled"} => thread' \notin Unfinished
          /\ run' = "stopped" /\ why' = "cancelled" => thread' \notin Unfinished
    BY <1>0, <1>t, <2>3, <2>6, <2>7, <2>8 DEF FirstRunEnds
  <2> QED BY <1>0, <2>3, <2>4, <2>5, <2>9 DEF FirstRunEnds
<1>2. CASE EndSuperstep
  <2>1. /\ run' \in {"finished", "nodes"} /\ UNCHANGED <<thread, flags, why, origin>>
        /\ Enter(state'.next)
    BY <1>2 DEF EndSuperstep, rows
  <2>2. \A n \in Nodes : pc'[n] \in {"enter", "idle"} BY <2>1 DEF Enter
  <2> QED BY <1>0, <2>1, <2>2 DEF FirstRunEnds
<1>3. CASE Finish
  <2>1. LeafStatus \in Terminal BY LeafStatusEnds DEF IInv, TypeOK
  <2>2. thread' \in Terminal BY <1>0, <1>3, <2>1 DEF Finish, RowsOK
  <2>3. run' = "idle" BY <1>3 DEF Finish
  <2> QED BY <1>t, <2>2, <2>3 DEF FirstRunEnds
<1>4. CASE Stopped
  <2>1. run = "stopped" /\ run' = "ended" /\ UNCHANGED <<why, pc, origin>> BY <1>4 DEF Stopped
  <2>2. CASE why = "error"
    <3>1. thread' \in Terminal BY <1>0, <1>4, <2>2, FailThreadMoves DEF Stopped
    <3>2. thread' \notin Unfinished /\ thread' # "received" BY <1>t, <3>1
    <3> QED BY <1>0, <2>1, <2>2, <3>2 DEF FirstRunEnds
  <2>3. CASE why # "error"
    <3>1. UNCHANGED rows BY <1>4, <2>3 DEF Stopped
    <3> QED BY <1>0, <2>1, <2>3, <3>1 DEF FirstRunEnds, rows
  <2> QED BY <2>2, <2>3
<1>5. CASE Cleanup
  <2>1. run = "ended" /\ run' = "idle" /\ UNCHANGED <<thread, why, pc, origin>>
    BY <1>5 DEF Cleanup
  <2>2. flags'.thread = FALSE BY <1>0, <1>5 DEF Cleanup, RowsOK
  <2> QED BY <1>0, <1>t, <2>1, <2>2 DEF FirstRunEnds
<1>6. CASE Start
  <2>1. thread = "received" /\ thread' = "running" /\ origin' = "start" /\ run' = "nodes"
        /\ flags' = flags /\ Enter(Roots)
    BY <1>6 DEF Start
  <2>2. ~flags.thread BY <1>0, <1>t, <2>1 DEF FirstRunEnds
  <2>3. \A n \in Nodes : pc'[n] \in {"enter", "idle"} BY <2>1 DEF Enter
  <2> QED BY <2>1, <2>2, <2>3 DEF FirstRunEnds
<1>7. CASE Resume BY <1>7 DEF Resume, FirstRunEnds
<1>8. CASE Crash
  <2>1. run' = "idle" /\ why' = "crash" /\ UNCHANGED <<thread, flags, origin>>
        /\ \A n \in Nodes : pc'[n] = "idle"
    BY <1>8 DEF Crash, rows
  <2> QED BY <1>0, <2>1 DEF FirstRunEnds
<1>9. ASSUME NEW k \in Keys, PauseTask(k) \/ CancelRequest(k) PROVE FirstRunEnds'
  <2>1. UNCHANGED <<thread, flags, run, why, pc, origin>>
    BY <1>9 DEF PauseTask, CancelRequest, engine
  <2> QED BY <1>0, <2>1 DEF FirstRunEnds
<1>10. ASSUME NEW k \in Keys, ReExplore(k) PROVE FirstRunEnds'
  <2>1. thread' = "running" /\ origin' \in {"fork", "busy"} BY <1>10 DEF ReExplore, RunFork
  <2> QED BY <2>1 DEF FirstRunEnds
<1>11. CASE CancelNode \/ CountTopLevel \/ UNCHANGED vars
  <2>1. UNCHANGED <<thread, flags, run, why, pc, origin>>
    BY <1>11 DEF CancelNode, CountTopLevel, engine, rows, vars
  <2> QED BY <1>0, <2>1 DEF FirstRunEnds
<1>12. CASE SetNodeFlag
  <2>1. UNCHANGED <<thread, run, why, pc, origin>> /\ flags'.thread = flags.thread
    BY <1>0, <1>12 DEF SetNodeFlag, engine, RowsOK
  <2> QED BY <1>0, <2>1 DEF FirstRunEnds
<1>13. CASE CancelCascade
  <2>1. UNCHANGED <<run, why, pc, origin>> BY <1>13 DEF CancelCascade, engine
  <2>2. thread' \in Terminal BY <1>0, <1>13, CancelThreadMoves DEF CancelCascade
  <2>3. thread' \notin Unfinished /\ thread' # "received" /\ thread' # "running" BY <1>t, <2>2
  <2> QED BY <1>0, <2>1, <2>3 DEF FirstRunEnds
<1> QED
  BY <1>1, <1>2, <1>3, <1>4, <1>5, <1>6, <1>7, <1>8, <1>9, <1>10, <1>11, <1>12, <1>13 DEF Next

\* It holds at first.
LEMMA InitIsSound ==
  ASSUME Init
  PROVE  IInv
<1>1. RowsOK BY DEF Init, RowsOK, RowStatus, Unfinished
<1>2. EngineOK
  <2>1. NoFork \in [gen : Versions, point : Nodes \union {"none"}, group : BOOLEAN]
    BY BudgetsAreCounts DEF NoFork, Versions
  <2>2. [k \in Keys |-> "none"] \in [Keys -> RowStatus] BY DEF RowStatus
  <2>3. Empty \in Checkpoints BY <2>1, <2>2 DEF Empty, Checkpoints
  <2>4. NoWrite \in [ver : Versions, status : RowStatus]
    BY BudgetsAreCounts DEF NoWrite, Versions, RowStatus
  <2> QED BY <2>3, <2>4 DEF Init, EngineOK, Labels
<1>3. RequestOK BY BudgetsAreCounts DEF Init, RequestOK
<1>4. LeavesEnded BY DEF Init, LeavesEnded
<1>5. VersionsLeft
  <2>1. Gen = 0 BY DEF Init, Gen, Empty, NoFork
  <2>2. left.forks \in 0..MaxGen /\ MaxGen \in Nat BY <1>3, BudgetsAreCounts DEF RequestOK
  <2>3. \A n \in Nodes, v \in Versions : row[<<n, v>>] = "none" BY DEF Init, Keys
  <2> QED BY <2>1, <2>2, <2>3 DEF VersionsLeft
<1>6. FirstRunEnds BY DEF Init, FirstRunEnds
<1> QED BY <1>1, <1>2, <1>3, <1>4, <1>5, <1>6 DEF IInv, TypeOK

\* The invariant is inductive.
LEMMA Invariant == Spec => []IInv
<1>1. Init => IInv BY InitIsSound
<1>2. IInv /\ [Next]_vars => IInv'
  <2> SUFFICES ASSUME IInv, [Next]_vars PROVE IInv' OBVIOUS
  <2>1. RowsMove /\ TypeOK' BY StepsMoveRows
  <2>2. LeavesEnded' BY <2>1, LeavesStayEnded DEF IInv, TypeOK
  <2>3. VersionsLeft' BY <2>1, VersionsStayLeft DEF IInv
  <2>4. FirstRunEnds' BY FirstRunStaysSo
  <2> QED BY <2>1, <2>2, <2>3, <2>4 DEF IInv
<1> QED BY <1>1, <1>2, PTL DEF Spec

-------------------------------------------------------------------------------
(* The theorems.                                                                *)

\* Every variable keeps its type; generations stay within the versions there are.
THEOREM RunTyping == Spec => []TypeOK
<1>1. IInv => TypeOK BY DEF IInv
<1> QED BY <1>1, Invariant, PTL

\* A row that ended is neither reopened nor ends otherwise: whatever statement a node, the
\* engine, a cancellation or a cascade executes next to another, in any order.
THEOREM RowsStayEnded == Spec => EndedRowsStay
<1>1. IInv /\ [Next]_vars => [\A k \in Keys : row[k] \in Terminal => row'[k] = row[k]]_vars
  BY StepsMoveRows DEF RowsMove
<1> QED BY <1>1, Invariant, PTL DEF Spec, EndedRowsStay

\* A thread whose first run is over is still running only after a pause or a crash.
THEOREM StopsHaveReasons == Spec => []StoppedForAReason
<1>1. IInv => StoppedForAReason BY DEF IInv, FirstRunEnds, StoppedForAReason
<1> QED BY <1>1, Invariant, PTL

-------------------------------------------------------------------------------
(* Failures of a first run reach the last node of its graph.                    *)

Bad == {"failed", "cancelled"}
PredBad(n) == PredRecord(n, "failed") \/ PredRecord(n, "cancelled")

(* Where the row of a node may be active, and where a node may be with a        *)
(* failed or cancelled predecessor: it never reaches orchestrate.               *)
Working == {"check", "await", "close", "except", "exceptCancelled"}
Spared == {"idle", "enter", "check", "countCancelled", "countFailed", "cancelThread",
           "failThread", "returned"}

(* The first run is under way: nothing has stopped it yet.                      *)
Live == origin = "start" /\ run \in {"nodes", "finished"}

(* A thread that was not dispatched has left no trace.                          *)
Untouched ==
  thread = "received" =>
    /\ run = "idle" /\ req.at = "idle"
    /\ \A k \in Keys : row[k] = "none" /\ task[k] = "none"
    /\ \A v \in Versions : leaf[v] = "none"
    /\ \A n \in Nodes : writes[n] = NoWrite

(* The cancel flag of a node is set after its row was cancelled.                *)
FlagsMark ==
  /\ \A k \in flags.nodes : row[k] = "cancelled"
  /\ req.at = "flag" => row[req.key] = "cancelled"

(* A first run has rows and records of version 0 only.                          *)
OneVersion ==
  origin = "start" =>
    /\ Gen = 0
    /\ \A k \in Keys : k[2] # 0 => row[k] = "none" /\ state.rec[k] = "none"
    /\ \A v \in Versions : v # 0 => leaf[v] = "none"

(* How the row, the task and the write of a node follow where its call is.      *)
NodeRows ==
  Live => \A n \in Nodes :
    /\ pc[n] # "idle" => n \in state.next
    /\ n \in state.next => run = "nodes"
    /\ row[<<n, 0>>] \in Active => pc[n] \in Working
    /\ pc[n] \notin {"idle", "enter"} => row[<<n, 0>>] # "none"
    /\ pc[n] = "returned" <=> writes[n].status # "none"
    /\ writes[n].ver = 0
    /\ n \in Tasked /\ row[<<n, 0>>] = "completed" => task[<<n, 0>>] = "completed"
    /\ n \in Tasked /\ pc[n] = "close" => task[<<n, 0>>] \in {"completed", "failed"}

(* A failed or cancelled record has reached every successor, or will with the   *)
(* superstep that is running.                                                   *)
Spreads ==
  Live =>
    /\ \A m, n \in Nodes : <<m, n>> \in Edges /\ state.rec[<<m, 0>>] \in Bad
                             => state.rec[<<n, 0>>] \in Bad \/ n \in state.next
    /\ \A n \in Nodes : PredBad(n) =>
         /\ pc[n] \in Spared
         /\ pc[n] = "returned" => writes[n].status \in Bad

(* The last node runs alone: its row is the one complete_thread will find, and  *)
(* is as bad as its record, unless the node has ended the thread itself.        *)
LastNode ==
  \A end \in Nodes : Live /\ thread \in Unfinished /\ Succ(end) = {} =>
    /\ /\ state.next = {end} /\ pc[end] \notin {"idle", "enter"}
       /\ row[<<end, 0>>] \in Terminal
       => leaf[0] = end
    /\ state.next = {end} /\ writes[end].status \in Bad => row[<<end, 0>>] \in Bad
    /\ state.next = {} /\ state.rec[<<end, 0>>] \in Bad
         => leaf[0] = end /\ row[<<end, 0>>] \in Bad

\* What the first run completed is clean.
CleanEnd ==
  origin = "start" /\ thread = "completed"
    => run = "idle" /\ \A k \in Keys : state.rec[k] \notin Bad

FirstInv == /\ Untouched /\ FlagsMark /\ OneVersion /\ NodeRows
            /\ Spreads /\ LastNode /\ CleanEnd

(* What a step of a node does in a first run that goes on.                      *)
CallGoesOn(n) ==
  /\ pc[n] \notin {"idle", "returned"}
  /\ UNCHANGED <<run, state, origin, req>>
  /\ \A m \in Nodes : m # n => pc'[m] = pc[m] /\ writes'[m] = writes[m]
  /\ \/ pc'[n] \notin {"idle", "enter", "returned"} /\ writes'[n] = writes[n]
     \/ pc'[n] = "returned" /\ writes'[n].ver = 0 /\ writes'[n].status # "none"
  /\ PredBad(n) =>
       /\ pc'[n] \in Spared
       /\ pc'[n] = "returned" => writes'[n].status \in Bad

OthersEnd(n) ==
  /\ \A k \in Keys : k # <<n, 0>> =>
       row'[k] = row[k] \/ (row[k] \in Active /\ row'[k] \in Bad)
  /\ \A k \in Keys : k # <<n, 0>> =>
       task'[k] = task[k] \/ (task[k] \in Active /\ task'[k] = "cancelled")

OwnRow(n) ==
  /\ row'[<<n, 0>>] # "none"
  /\ row'[<<n, 0>>] \in Active => pc'[n] \in Working
  /\ n \in Tasked /\ row'[<<n, 0>>] = "completed" => task'[<<n, 0>>] = "completed"
  /\ n \in Tasked /\ pc'[n] = "close" => task'[<<n, 0>>] \in {"completed", "failed"}

(* It touches its own row only, or ends the thread; it ends badly with a bad    *)
(* row, with others active, or with the thread.                                 *)
TouchesOwn(n) ==
  thread' \in Unfinished =>
    /\ \/ leaf'[0] = n
       \/ /\ leaf'[0] = leaf[0]
          /\ row'[<<n, 0>>] \in Terminal => row[<<n, 0>>] \in Terminal /\ pc[n] # "enter"
    /\ pc'[n] = "returned" /\ writes'[n].status \in Bad =>
         row'[<<n, 0>>] \in Bad \/ \E k \in Keys : k # <<n, 0>> /\ row[k] \in Active

FirstStep(n) == CallGoesOn(n) /\ OthersEnd(n) /\ OwnRow(n) /\ TouchesOwn(n)

-------------------------------------------------------------------------------
(* The steps of a node in a first run.                                          *)

\* Going on and ending touch the call of the node only.
LEMMA GotoAt ==
  ASSUME EngineOK, NEW n \in Nodes, NEW l, Goto(n, l)
  PROVE  pc'[n] = l /\ \A m \in Nodes : m # n => pc'[m] = pc[m]
BY DEF Goto, EngineOK

LEMMA ReturnAt ==
  ASSUME EngineOK, NEW n \in Nodes, NEW v, NEW s, Return(n, v, s)
  PROVE  /\ pc'[n] = "returned" /\ writes'[n].ver = v /\ writes'[n].status = s
         /\ \A m \in Nodes : m # n => pc'[m] = pc[m] /\ writes'[m] = writes[m]
         /\ run' = run
<1>1. writes' = [writes EXCEPT ![n] = [ver |-> v, status |-> s]] /\ Goto(n, "returned")
      /\ run' = run
  BY DEF Return
<1> QED BY <1>1, GotoAt DEF EngineOK

\* Closing a row of version 0 that is there leaves it ended, and the last one if it was active.
LEMMA CloseAt ==
  ASSUME RowsOK, NEW n \in Nodes, 0 \in Versions, NEW s \in Terminal, CloseRow(<<n, 0>>, s),
         row[<<n, 0>>] # "none"
  PROVE  /\ row'[<<n, 0>>] = IF row[<<n, 0>>] \in Active THEN s ELSE row[<<n, 0>>]
         /\ row'[<<n, 0>>] \in Terminal
         /\ \A k \in Keys : k # <<n, 0>> => row'[k] = row[k]
         /\ leaf'[0] = IF row[<<n, 0>>] \in Active THEN n ELSE leaf[0]
<1>0. <<n, 0>> \in Keys BY DEF Keys
<1>1. row[<<n, 0>>] \in Terminal \union Active BY <1>0 DEF RowsOK, RowStatus
<1>2. CASE row[<<n, 0>>] \in Active
  <2>1. row' = [row EXCEPT ![<<n, 0>>] = s] /\ leaf' = [leaf EXCEPT ![0] = n]
    BY <1>2 DEF CloseRow
  <2> QED BY <1>0, <1>2, <2>1 DEF RowsOK
<1>3. CASE row[<<n, 0>>] \notin Active BY <1>1, <1>3 DEF CloseRow
<1> QED BY <1>2, <1>3

\* A sweep ends what is active and leaves the rest.
LEMMA SweepAt ==
  ASSUME NEW rs, NEW s
  PROVE  \A k \in Keys : Sweep(rs, s)[k] = IF rs[k] \in Active THEN s ELSE rs[k]
BY DEF Sweep

\* Every step of a node in a first run that does not stop it is a FirstStep.
LEMMA FirstSteps ==
  ASSUME TypeOK, FirstInv, origin = "start", run = "nodes", NEW n \in Nodes,
         NodeStep(n) \/ InputFails(n)
  PROVE  run' = "stopped" \/ FirstStep(n)
<1>0. RowsOK /\ EngineOK /\ RequestOK BY DEF TypeOK
<1>v. 0 \in Versions /\ Gen = 0 BY BudgetsAreCounts DEF Versions, FirstInv, OneVersion
<1>k. Key(n) = <<n, 0>> /\ <<n, 0>> \in Keys BY <1>v DEF Key, Keys
<1>s. /\ "failed" \in Terminal /\ "cancelled" \in Terminal /\ "completed" \in Terminal
      /\ Terminal \intersect Active = {} /\ "none" \notin Terminal /\ "none" \notin Active
      /\ "running" \in Active /\ Bad \subseteq Terminal /\ "completed" \notin Bad
      /\ "failed" \in Bad /\ "cancelled" \in Bad /\ "running" \notin Terminal
      /\ \A x \in RowStatus : x \in Terminal \/ x \in Active \/ x = "none"
      /\ \A x \in Terminal : x = "completed" \/ x \in Bad
  BY DEF Terminal, Active, Bad, RowStatus
<1>r. row[<<n, 0>>] \in RowStatus /\ task[<<n, 0>>] \in RowStatus BY <1>0, <1>k DEF RowsOK
<1>n. /\ row[<<n, 0>>] \in Active => pc[n] \in Working
      /\ pc[n] \notin {"idle", "enter"} => row[<<n, 0>>] # "none"
      /\ n \in Tasked /\ row[<<n, 0>>] = "completed" => task[<<n, 0>>] = "completed"
      /\ n \in Tasked /\ pc[n] = "close" => task[<<n, 0>>] \in {"completed", "failed"}
      /\ PredBad(n) => pc[n] \in Spared
  BY DEF FirstInv, NodeRows, Spreads, Live
<1>b. PredBad(n) <=> PredRecord(n, "failed") \/ PredRecord(n, "cancelled") BY DEF PredBad
<1>f. /\ \A k \in flags.nodes : row[k] = "cancelled" BY DEF FirstInv, FlagsMark
<1>u. UNCHANGED <<row, leaf>> =>
        /\ row'[<<n, 0>>] = row[<<n, 0>>] /\ leaf'[0] = leaf[0]
        /\ \A k \in Keys : row'[k] = row[k]
  OBVIOUS
<1>1. CASE Share(n)
  BY <1>1, <1>v DEF Share, IsSibling
<1>2. CASE InputFails(n) BY <1>2 DEF InputFails, Raise
<1>3. CASE UpsertNode(n)
  <2>1. pc[n] = "enter" /\ OpenRow(<<n, 0>>) /\ Goto(n, "check")
        /\ UNCHANGED <<task, thread, flags, run, why, state, writes, found, req, origin, left>>
    BY <1>3, <1>k DEF UpsertNode
  <2>2. pc'[n] = "check" /\ \A m \in Nodes : m # n => pc'[m] = pc[m] BY <1>0, <2>1, GotoAt
  <2>3. CallGoesOn(n) BY <2>1, <2>2 DEF CallGoesOn, Spared
  <2>4. CASE row[<<n, 0>>] \in Terminal
    <3>1. row' = row /\ leaf'[0] = n BY <1>0, <1>v, <2>1, <2>4 DEF OpenRow, RowsOK
    <3>2. OthersEnd(n) /\ OwnRow(n) BY <1>n, <1>s, <2>1, <2>2, <2>4, <3>1 DEF OthersEnd, OwnRow
    <3>3. TouchesOwn(n) BY <2>2, <3>1 DEF TouchesOwn
    <3> QED BY <2>3, <3>2, <3>3 DEF FirstStep
  <2>5. CASE row[<<n, 0>>] \notin Terminal
    <3>1. row' = [row EXCEPT ![<<n, 0>>] = "running"] /\ leaf' = leaf BY <2>1, <2>5 DEF OpenRow
    <3>2. row'[<<n, 0>>] = "running" /\ \A k \in Keys : k # <<n, 0>> => row'[k] = row[k]
      BY <1>0, <1>k, <3>1 DEF RowsOK
    <3>3. OthersEnd(n) /\ OwnRow(n) BY <2>1, <2>2, <3>2 DEF OthersEnd, OwnRow, Working
    <3>4. TouchesOwn(n) BY <1>s, <2>2, <3>1, <3>2 DEF TouchesOwn
    <3> QED BY <2>3, <3>3, <3>4 DEF FirstStep
  <2> QED BY <2>4, <2>5
<1>4. CASE CancelSelf(n)
  <2>1. pc[n] = "check" /\ CloseRow(<<n, 0>>, "cancelled") /\ Goto(n, "countCancelled")
        /\ UNCHANGED <<thread, run, why, state, writes, found, req, origin, left>>
        /\ task' = [task EXCEPT ![<<n, 0>>] = IF @ \in Active THEN "cancelled" ELSE @]
    BY <1>4, <1>k DEF CancelSelf
  <2>2. pc'[n] = "countCancelled" /\ \A m \in Nodes : m # n => pc'[m] = pc[m]
    BY <1>0, <2>1, GotoAt
  <2>3. /\ row'[<<n, 0>>] = IF row[<<n, 0>>] \in Active THEN "cancelled" ELSE row[<<n, 0>>]
        /\ row'[<<n, 0>>] \in Terminal
        /\ \A k \in Keys : k # <<n, 0>> => row'[k] = row[k]
        /\ leaf'[0] = IF row[<<n, 0>>] \in Active THEN n ELSE leaf[0]
    BY <1>0, <1>n, <1>s, <1>v, <2>1, CloseAt
  <2>4. /\ \A k \in Keys : k # <<n, 0>> => task'[k] = task[k]
        /\ task[<<n, 0>>] = "completed" => task'[<<n, 0>>] = "completed"
    BY <1>0, <1>k, <1>s, <2>1 DEF RowsOK
  <2>5. CallGoesOn(n) BY <2>1, <2>2 DEF CallGoesOn, Spared
  <2>6. OthersEnd(n) BY <2>3, <2>4 DEF OthersEnd
  <2>7. OwnRow(n) BY <1>n, <1>s, <2>2, <2>3, <2>4 DEF OwnRow
  <2>8. TouchesOwn(n) BY <1>s, <1>n, <1>r, <2>1, <2>2, <2>3 DEF TouchesOwn
  <2> QED BY <2>5, <2>6, <2>7, <2>8 DEF FirstStep
<1>5. CASE FailSelf(n)
  <2>1. pc[n] = "check" /\ CloseRow(<<n, 0>>, "failed") /\ Goto(n, "countFailed")
        /\ UNCHANGED <<task, thread, flags, run, why, state, writes, found, req, origin, left>>
    BY <1>5, <1>k DEF FailSelf
  <2>2. pc'[n] = "countFailed" /\ \A m \in Nodes : m # n => pc'[m] = pc[m]
    BY <1>0, <2>1, GotoAt
  <2>3. /\ row'[<<n, 0>>] = IF row[<<n, 0>>] \in Active THEN "failed" ELSE row[<<n, 0>>]
        /\ row'[<<n, 0>>] \in Terminal
        /\ \A k \in Keys : k # <<n, 0>> => row'[k] = row[k]
        /\ leaf'[0] = IF row[<<n, 0>>] \in Active THEN n ELSE leaf[0]
    BY <1>0, <1>n, <1>s, <1>v, <2>1, CloseAt
  <2>5. CallGoesOn(n) BY <2>1, <2>2 DEF CallGoesOn, Spared
  <2>6. OthersEnd(n) BY <2>1, <2>3 DEF OthersEnd
  <2>7. OwnRow(n) BY <1>n, <1>s, <2>1, <2>2, <2>3 DEF OwnRow
  <2>8. TouchesOwn(n) BY <1>s, <1>n, <1>r, <2>1, <2>2, <2>3 DEF TouchesOwn
  <2> QED BY <2>5, <2>6, <2>7, <2>8 DEF FirstStep
<1>6. CASE CountActive(n)
  <2>1. UNCHANGED <<row, task, leaf, thread, state, found, req, origin, left>>
        /\ pc[n] \in {"countCancelled", "countFailed"}
    BY <1>6 DEF CountActive, rows
  <2>2. row[<<n, 0>>] \notin Active BY <1>n, <2>1 DEF Working
  <2>3. OthersEnd(n) /\ OwnRow(n)
    <3>1. pc'[n] # "close"
      BY <1>0, <1>6, GotoAt, ReturnAt DEF CountActive
    <3> QED BY <1>n, <2>1, <2>2, <3>1 DEF OthersEnd, OwnRow
  <2>4. CASE AnyActive /\ (Return(n, Gen, "cancelled") \/ Return(n, Gen, "failed"))
    <3>1. /\ pc'[n] = "returned" /\ writes'[n].ver = 0 /\ writes'[n].status \in Bad
          /\ \A m \in Nodes : m # n => pc'[m] = pc[m] /\ writes'[m] = writes[m]
          /\ run' = run
      BY <1>0, <1>s, <1>v, <2>4, ReturnAt
    <3>2. CallGoesOn(n) BY <1>s, <2>1, <3>1 DEF CallGoesOn, Spared
    <3>3. \E k \in Keys : k # <<n, 0>> /\ row[k] \in Active BY <2>2, <2>4 DEF AnyActive
    <3>4. TouchesOwn(n) BY <2>1, <3>3 DEF TouchesOwn
    <3> QED BY <2>3, <3>2, <3>4 DEF FirstStep
  <2>5. CASE (Goto(n, "cancelThread") \/ Goto(n, "failThread")) /\ UNCHANGED <<run, why, writes>>
    <3>1. pc'[n] \in {"cancelThread", "failThread"} /\ \A m \in Nodes : m # n => pc'[m] = pc[m]
      BY <1>0, <2>5, GotoAt
    <3>2. CallGoesOn(n) BY <2>1, <2>5, <3>1 DEF CallGoesOn, Spared
    <3>3. TouchesOwn(n) BY <2>1, <3>1 DEF TouchesOwn
    <3> QED BY <2>3, <3>2, <3>3 DEF FirstStep
  <2> QED BY <1>6, <2>4, <2>5 DEF CountActive
<1>7. CASE CascadeUp(n)
  <2>1. UNCHANGED <<state, found, req, origin, left>> /\ pc[n] \in {"cancelThread", "failThread"}
        /\ \E s \in Bad : Return(n, Gen, s)
    BY <1>7, <1>s DEF CascadeUp
  <2>2. row[<<n, 0>>] \notin Active BY <1>n, <2>1 DEF Working
  <2>3. /\ pc'[n] = "returned" /\ writes'[n].ver = 0 /\ writes'[n].status \in Bad
        /\ \A m \in Nodes : m # n => pc'[m] = pc[m] /\ writes'[m] = writes[m]
        /\ run' = run
    BY <1>0, <1>s, <1>v, <2>1, ReturnAt
  <2>4. CallGoesOn(n) BY <1>s, <2>1, <2>3 DEF CallGoesOn, Spared
  <2>5. /\ \A k \in Keys : row'[k] = row[k] \/ (row[k] \in Active /\ row'[k] \in Bad)
        /\ \A k \in Keys : task'[k] = task[k] \/ (task[k] \in Active /\ task'[k] = "cancelled")
        /\ thread' \in Terminal
    <3>1. CASE CancelThread BY <1>0, <1>s, <3>1, SweepAt, CancelThreadMoves DEF CancelThread
    <3>2. CASE FailThread
      <4>1. thread' \in Terminal BY <1>0, <3>2, FailThreadMoves
      <4>2. CASE thread \in Unfinished BY <1>s, <3>2, <4>1, <4>2, SweepAt DEF FailThread
      <4>3. CASE thread \notin Unfinished BY <3>2, <4>1, <4>3 DEF FailThread, rows
      <4> QED BY <4>2, <4>3
    <3> QED BY <1>7, <3>1, <3>2 DEF CascadeUp
  <2>6. OthersEnd(n) BY <2>5 DEF OthersEnd
  <2>7. OwnRow(n) BY <1>k, <1>n, <1>s, <2>1, <2>2, <2>3, <2>5 DEF OwnRow
  <2>8. TouchesOwn(n) BY <2>5 DEF TouchesOwn, Terminal, Unfinished
  <2> QED BY <2>4, <2>6, <2>7, <2>8 DEF FirstStep
<1>8. CASE Orchestrate(n)
  <2>1. /\ UNCHANGED <<row, leaf, thread, flags, run, why, state, writes, found, req, origin, left>>
        /\ pc[n] = "check" /\ ~PredBad(n)
        /\ \/ /\ n \in Tasked /\ task[<<n, 0>>] # "completed"
              /\ task' = [task EXCEPT ![<<n, 0>>] = "running"] /\ Goto(n, "await")
           \/ /\ ~(n \in Tasked /\ task[<<n, 0>>] # "completed")
              /\ task' = task /\ Goto(n, "close")
    BY <1>8, <1>k, <1>b DEF Orchestrate
  <2>2. pc'[n] \in {"await", "close"} /\ \A m \in Nodes : m # n => pc'[m] = pc[m]
    BY <1>0, <2>1, GotoAt
  <2>3. CallGoesOn(n) BY <2>1, <2>2 DEF CallGoesOn
  <2>4. \A k \in Keys : k # <<n, 0>> => task'[k] = task[k] BY <1>0, <2>1 DEF RowsOK
  <2>5. OthersEnd(n) BY <2>1, <2>4 DEF OthersEnd
  <2>6. OwnRow(n)
    <3>1. CASE n \in Tasked /\ task[<<n, 0>>] # "completed" /\ Goto(n, "await")
      <4>1. pc'[n] = "await" BY <1>0, <3>1, GotoAt
      <4> QED BY <1>n, <2>1, <3>1, <4>1 DEF OwnRow, Working
    <3>2. CASE ~(n \in Tasked /\ task[<<n, 0>>] # "completed") /\ task' = task
      BY <1>n, <2>1, <2>2, <3>2 DEF OwnRow, Working
    <3> QED BY <2>1, <3>1, <3>2
  <2>7. TouchesOwn(n) BY <2>1, <2>2 DEF TouchesOwn
  <2> QED BY <2>3, <2>5, <2>6, <2>7 DEF FirstStep
<1>9. CASE TaskEnds(n)
  <2>1. /\ UNCHANGED <<row, leaf, thread, flags, run, why, state, writes, found, req, origin, left>>
        /\ pc[n] = "await"
        /\ \/ /\ task[<<n, 0>>] = "running" 
              /\ \E s \in {"completed", "failed"} : task' = [task EXCEPT ![<<n, 0>>] = s]
              /\ Goto(n, "close")
           \/ /\ task' = [task EXCEPT ![<<n, 0>>] = IF @ = "running" THEN "failed" ELSE @]
              /\ Goto(n, "except")
    BY <1>9, <1>k DEF TaskEnds
  <2>2. pc'[n] \in {"close", "except"} /\ \A m \in Nodes : m # n => pc'[m] = pc[m]
    BY <1>0, <2>1, GotoAt
  <2>3. ~PredBad(n) BY <1>n, <2>1 DEF Spared
  <2>4. CallGoesOn(n) BY <2>1, <2>2, <2>3 DEF CallGoesOn
  <2>5. \A k \in Keys : k # <<n, 0>> => task'[k] = task[k] BY <1>0, <2>1 DEF RowsOK
  <2>6. OthersEnd(n) BY <2>1, <2>5 DEF OthersEnd
  <2>7. OwnRow(n)
    <3>1. pc'[n] \in Working BY <2>2 DEF Working
    <3>2. task[<<n, 0>>] = "completed" => task'[<<n, 0>>] = "completed"
      BY <1>0, <1>k, <2>1 DEF RowsOK
    <3>3. pc'[n] = "close" => task'[<<n, 0>>] \in {"completed", "failed"}
      <4>1. CASE Goto(n, "except") BY <1>0, <4>1, GotoAt
      <4> QED BY <1>0, <1>k, <2>1, <4>1 DEF RowsOK
    <3> QED BY <1>n, <2>1, <3>1, <3>2, <3>3 DEF OwnRow
  <2>8. TouchesOwn(n) BY <2>1, <2>2 DEF TouchesOwn
  <2> QED BY <2>4, <2>6, <2>7, <2>8 DEF FirstStep
<1>10. CASE SeesNodeFlag(n)
  <2>1. /\ UNCHANGED <<row, task, leaf, thread, state, found, req, origin, left>>
        /\ pc[n] = "await" /\ <<n, 0>> \in flags.nodes /\ Return(n, 0, "cancelled")
    BY <1>10, <1>k, <1>v DEF SeesNodeFlag, rows
  <2>2. /\ pc'[n] = "returned" /\ writes'[n].ver = 0 /\ writes'[n].status = "cancelled"
        /\ \A m \in Nodes : m # n => pc'[m] = pc[m] /\ writes'[m] = writes[m]
        /\ run' = run
    BY <1>0, <2>1, ReturnAt
  <2>3. row[<<n, 0>>] = "cancelled" BY <1>f, <2>1
  <2>4. CallGoesOn(n) BY <1>s, <2>1, <2>2 DEF CallGoesOn, Spared
  <2>5. OthersEnd(n) /\ OwnRow(n) BY <1>s, <2>1, <2>2, <2>3 DEF OthersEnd, OwnRow
  <2>6. TouchesOwn(n) BY <1>s, <2>1, <2>3 DEF TouchesOwn
  <2> QED BY <2>4, <2>5, <2>6 DEF FirstStep
<1>11. CASE SeesThreadFlag(n)
  <2>1. /\ UNCHANGED <<row, task, leaf, thread, run, state, writes, found, req, origin, left>>
        /\ pc[n] = "await" /\ Goto(n, "exceptCancelled")
    BY <1>11 DEF SeesThreadFlag, rows
  <2>2. pc'[n] = "exceptCancelled" /\ \A m \in Nodes : m # n => pc'[m] = pc[m]
    BY <1>0, <2>1, GotoAt
  <2>3. ~PredBad(n) BY <1>n, <2>1 DEF Spared
  <2>4. CallGoesOn(n) BY <2>1, <2>2, <2>3 DEF CallGoesOn
  <2>5. OthersEnd(n) /\ OwnRow(n) BY <1>n, <2>1, <2>2 DEF OthersEnd, OwnRow, Working
  <2>6. TouchesOwn(n) BY <2>1, <2>2 DEF TouchesOwn
  <2> QED BY <2>4, <2>5, <2>6 DEF FirstStep
<1>12. CASE SeesPause(n) BY <1>12 DEF SeesPause, Raise
<1>13. CASE FailNode(n)
  <2>1. /\ pc[n] \in {"except", "exceptCancelled"} /\ CloseRow(<<n, 0>>, "failed")
        /\ Goto(n, IF pc[n] = "except" THEN "absorb" ELSE "absorbCancelled")
        /\ UNCHANGED <<task, thread, flags, run, why, state, writes, found, req, origin, left>>
    BY <1>13, <1>k DEF FailNode
  <2>2. pc'[n] \in {"absorb", "absorbCancelled"} /\ \A m \in Nodes : m # n => pc'[m] = pc[m]
    BY <1>0, <2>1, GotoAt
  <2>3. /\ row'[<<n, 0>>] = IF row[<<n, 0>>] \in Active THEN "failed" ELSE row[<<n, 0>>]
        /\ row'[<<n, 0>>] \in Terminal
        /\ \A k \in Keys : k # <<n, 0>> => row'[k] = row[k]
        /\ leaf'[0] = IF row[<<n, 0>>] \in Active THEN n ELSE leaf[0]
    BY <1>0, <1>n, <1>s, <1>v, <2>1, CloseAt
  <2>4. ~PredBad(n) BY <1>n, <2>1 DEF Spared
  <2>5. CallGoesOn(n) BY <2>1, <2>2, <2>4 DEF CallGoesOn
  <2>6. OthersEnd(n) BY <2>1, <2>3 DEF OthersEnd
  <2>7. OwnRow(n) BY <1>n, <1>s, <2>1, <2>2, <2>3 DEF OwnRow
  <2>8. TouchesOwn(n) BY <1>s, <1>n, <1>r, <2>1, <2>2, <2>3 DEF TouchesOwn
  <2> QED BY <2>5, <2>6, <2>7, <2>8 DEF FirstStep
<1>14. CASE AbsorbOrRaise(n)
  <2>1. /\ UNCHANGED <<row, task, leaf, thread, state, found, req, origin, left>>
        /\ pc[n] \in {"absorb", "absorbCancelled"}
    BY <1>14 DEF AbsorbOrRaise, rows
  <2>2. CASE AnyActive /\ Return(n, Gen, "failed")
    <3>1. /\ pc'[n] = "returned" /\ writes'[n].ver = 0 /\ writes'[n].status = "failed"
          /\ \A m \in Nodes : m # n => pc'[m] = pc[m] /\ writes'[m] = writes[m]
          /\ run' = run
      BY <1>0, <1>v, <2>2, ReturnAt
    <3>2. row[<<n, 0>>] \notin Active BY <1>n, <2>1 DEF Working
    <3>3. \E k \in Keys : k # <<n, 0>> /\ row[k] \in Active BY <2>2, <3>2 DEF AnyActive
    <3>4. CallGoesOn(n) BY <1>s, <2>1, <3>1 DEF CallGoesOn, Spared
    <3>5. OthersEnd(n) /\ OwnRow(n) BY <1>n, <2>1, <3>1, <3>2 DEF OthersEnd, OwnRow
    <3>6. TouchesOwn(n) BY <2>1, <3>3 DEF TouchesOwn
    <3> QED BY <3>4, <3>5, <3>6 DEF FirstStep
  <2>3. CASE \E e \in {"error", "cancelled"} : Raise(n, e) BY <2>3 DEF Raise
  <2> QED BY <1>14, <2>2, <2>3 DEF AbsorbOrRaise
<1>15. CASE CompleteNode(n)
  <2> DEFINE s == EndStatus(n)
  <2>0. s \in {"completed", "failed"} /\ (s = "failed" <=> n \in Tasked /\ task[<<n, 0>>] = "failed")
    BY <1>k DEF EndStatus
  <2>1. /\ pc[n] = "close" /\ CloseRow(<<n, 0>>, s) /\ Return(n, 0, s)
        /\ UNCHANGED <<task, thread, flags, state, found, req, origin, left>>
    BY <1>15, <1>k, <1>v DEF CompleteNode
  <2> HIDE DEF s
  <2>2. /\ pc'[n] = "returned" /\ writes'[n].ver = 0 /\ writes'[n].status = s
        /\ \A m \in Nodes : m # n => pc'[m] = pc[m] /\ writes'[m] = writes[m]
        /\ run' = run
    BY <1>0, <2>1, ReturnAt
  <2>3. /\ row'[<<n, 0>>] = IF row[<<n, 0>>] \in Active THEN s ELSE row[<<n, 0>>]
        /\ row'[<<n, 0>>] \in Terminal
        /\ \A k \in Keys : k # <<n, 0>> => row'[k] = row[k]
        /\ leaf'[0] = IF row[<<n, 0>>] \in Active THEN n ELSE leaf[0]
    BY <1>0, <1>n, <1>s, <1>v, <2>0, <2>1, CloseAt
  <2>4. ~PredBad(n) BY <1>n, <2>1 DEF Spared
  <2>5. CallGoesOn(n) BY <2>0, <2>1, <2>2, <2>4 DEF CallGoesOn
  <2>6. OthersEnd(n) BY <2>1, <2>3 DEF OthersEnd
  <2>7. OwnRow(n)
    <3>1. n \in Tasked /\ row'[<<n, 0>>] = "completed" => task[<<n, 0>>] = "completed"
      BY <1>n, <2>0, <2>1, <2>3
    <3> QED BY <1>s, <2>1, <2>2, <2>3, <3>1 DEF OwnRow
  <2>8. TouchesOwn(n)
    <3>1. s \in Bad => row'[<<n, 0>>] \in Bad
      BY <1>n, <1>s, <2>0, <2>3
    <3> QED BY <1>s, <1>n, <1>r, <2>1, <2>2, <2>3, <3>1 DEF TouchesOwn
  <2> QED BY <2>5, <2>6, <2>7, <2>8 DEF FirstStep
<1> QED
  BY <1>1, <1>2, <1>3, <1>4, <1>5, <1>6, <1>7, <1>8, <1>9, <1>10, <1>11, <1>12, <1>13, <1>14,
     <1>15 DEF NodeStep

\* A step of a node that goes on keeps what is said of rows, tasks and writes.
LEMMA NodeKeepsRows ==
  ASSUME TypeOK, FirstInv, Live, run = "nodes", NEW n \in Nodes, FirstStep(n)
  PROVE  NodeRows'
<1>1. CallGoesOn(n) /\ OthersEnd(n) /\ OwnRow(n) BY DEF FirstStep
<1>2. NodeRows BY DEF FirstInv
<1>s. /\ "completed" \notin Active /\ "failed" \notin Active /\ Bad \intersect Active = {}
      /\ "completed" \notin Bad
  BY DEF Active, Bad
<1> SUFFICES ASSUME NEW m \in Nodes
             PROVE  /\ pc'[m] # "idle" => m \in state'.next
                    /\ m \in state'.next => run' = "nodes"
                    /\ row'[<<m, 0>>] \in Active => pc'[m] \in Working
                    /\ pc'[m] \notin {"idle", "enter"} => row'[<<m, 0>>] # "none"
                    /\ pc'[m] = "returned" <=> writes'[m].status # "none"
                    /\ writes'[m].ver = 0
                    /\ m \in Tasked /\ row'[<<m, 0>>] = "completed" => task'[<<m, 0>>] = "completed"
                    /\ m \in Tasked /\ pc'[m] = "close" => task'[<<m, 0>>] \in {"completed", "failed"}
  BY DEF NodeRows
<1>3. /\ pc[m] # "idle" => m \in state.next
      /\ m \in state.next => run = "nodes"
      /\ row[<<m, 0>>] \in Active => pc[m] \in Working
      /\ pc[m] \notin {"idle", "enter"} => row[<<m, 0>>] # "none"
      /\ pc[m] = "returned" <=> writes[m].status # "none"
      /\ writes[m].ver = 0
      /\ m \in Tasked /\ row[<<m, 0>>] = "completed" => task[<<m, 0>>] = "completed"
      /\ m \in Tasked /\ pc[m] = "close" => task[<<m, 0>>] \in {"completed", "failed"}
  BY <1>2 DEF NodeRows
<1>4. <<m, 0>> \in Keys /\ (m # n => <<m, 0>> # <<n, 0>>)
  BY BudgetsAreCounts DEF Keys, Versions
<1>5. CASE m = n BY <1>1, <1>3, <1>5 DEF CallGoesOn, OwnRow
<1>6. CASE m # n
  <2>1. pc'[m] = pc[m] /\ writes'[m] = writes[m] /\ state' = state /\ run' = run
    BY <1>1, <1>6 DEF CallGoesOn
  <2>2. /\ row'[<<m, 0>>] = row[<<m, 0>>] \/ (row[<<m, 0>>] \in Active /\ row'[<<m, 0>>] \in Bad)
        /\ task'[<<m, 0>>] = task[<<m, 0>>] \/ (task[<<m, 0>>] \in Active /\ task'[<<m, 0>>] = "cancelled")
    BY <1>1, <1>4, <1>6 DEF OthersEnd
  <2>3. "none" \notin Bad BY DEF Bad
  <2> QED BY <1>3, <1>s, <2>1, <2>2, <2>3
<1> QED BY <1>5, <1>6

\* And the spreading of bad records, which no step of a node writes.
LEMMA NodeKeepsSpreads ==
  ASSUME FirstInv, Live, NEW n \in Nodes, FirstStep(n)
  PROVE  Spreads'
<1>1. CallGoesOn(n) BY DEF FirstStep
<1>2. Spreads BY DEF FirstInv
<1>3. state' = state /\ \A m \in Nodes : PredBad(m)' <=> PredBad(m)
  BY <1>1 DEF CallGoesOn, PredBad, PredRecord
<1>4. \A m \in Nodes : PredBad(m) =>
         /\ pc'[m] \in Spared
         /\ pc'[m] = "returned" => writes'[m].status \in Bad
  BY <1>1, <1>2 DEF CallGoesOn, Spreads
<1> QED BY <1>2, <1>3, <1>4 DEF Spreads

\* And the last node, which runs alone: its steps find no other row active.
LEMMA NodeKeepsLast ==
  ASSUME TypeOK, FirstInv, Live, NEW n \in Nodes, FirstStep(n),
         thread' \in Unfinished => thread \in Unfinished
  PROVE  LastNode'
<1>1. CallGoesOn(n) /\ OthersEnd(n) /\ OwnRow(n) /\ TouchesOwn(n) BY DEF FirstStep
<1> SUFFICES ASSUME NEW end \in Nodes, thread' \in Unfinished, Succ(end) = {}
             PROVE  /\ /\ state'.next = {end} /\ pc'[end] \notin {"idle", "enter"}
                       /\ row'[<<end, 0>>] \in Terminal
                       => leaf'[0] = end
                    /\ state'.next = {end} /\ writes'[end].status \in Bad => row'[<<end, 0>>] \in Bad
                    /\ state'.next = {} /\ state'.rec[<<end, 0>>] \in Bad
                         => leaf'[0] = end /\ row'[<<end, 0>>] \in Bad
  BY DEF LastNode
<1>2. /\ /\ state.next = {end} /\ pc[end] \notin {"idle", "enter"}
         /\ row[<<end, 0>>] \in Terminal
         => leaf[0] = end
      /\ state.next = {end} /\ writes[end].status \in Bad => row[<<end, 0>>] \in Bad
  BY DEF FirstInv, LastNode
<1>3. n \in state.next /\ state' = state BY <1>1 DEF CallGoesOn, FirstInv, NodeRows
<1>4. ASSUME state.next = {end}
      PROVE  /\ pc'[end] \notin {"idle", "enter"} /\ row'[<<end, 0>>] \in Terminal => leaf'[0] = end
             /\ writes'[end].status \in Bad => row'[<<end, 0>>] \in Bad
  <2>1. n = end BY <1>3, <1>4
  <2>2. \A k \in Keys : k # <<n, 0>> => row[k] \notin Active
    <3> SUFFICES ASSUME NEW k \in Keys, k # <<n, 0>>, row[k] \in Active PROVE FALSE OBVIOUS
    <3>1. k = <<k[1], k[2]>> /\ k[1] \in Nodes BY DEF Keys
    <3>2. k[2] = 0 BY DEF FirstInv, OneVersion, Live, Active
    <3>3. pc[k[1]] \in Working BY <3>1, <3>2 DEF FirstInv, NodeRows
    <3>4. k[1] \in state.next BY <3>1, <3>3 DEF FirstInv, NodeRows, Working
    <3> QED BY <1>4, <2>1, <3>1, <3>2, <3>4
  <2>3. /\ \/ leaf'[0] = n
           \/ /\ leaf'[0] = leaf[0]
              /\ row'[<<n, 0>>] \in Terminal => row[<<n, 0>>] \in Terminal /\ pc[n] # "enter"
        /\ pc'[n] = "returned" /\ writes'[n].status \in Bad => row'[<<n, 0>>] \in Bad
    BY <1>1, <2>2 DEF TouchesOwn
  <2>4. pc[n] # "idle" BY <1>1 DEF CallGoesOn
  <2>5. writes'[n].status \in Bad => pc'[n] = "returned"
    <3>1. writes[n].status = "none" BY <1>1 DEF CallGoesOn, FirstInv, NodeRows
    <3> QED BY <1>1, <3>1 DEF CallGoesOn, Bad
  <2> QED BY <1>2, <1>4, <2>1, <2>3, <2>4, <2>5
<1> QED BY <1>3, <1>4

\* No step of a node completes the thread.
LEMMA NodesComplete ==
  ASSUME RowsOK, NEW n \in Nodes, NodeStep(n) \/ InputFails(n)
  PROVE  thread' = thread \/ (thread \in Unfinished /\ thread' \in {"failed", "cancelled"})
<1>1. CASE CascadeUp(n)
  BY <1>1 DEF CascadeUp, CancelThread, FailThread, rows
<1>2. CASE ~CascadeUp(n)
  BY <1>2 DEF NodeStep, InputFails, Share, UpsertNode, CancelSelf, FailSelf, CountActive,
     Orchestrate, TaskEnds, SeesNodeFlag, SeesThreadFlag, SeesPause, FailNode, AbsorbOrRaise,
     CompleteNode, rows
<1> QED BY <1>1, <1>2

\* Steps of nodes keep the invariant of the first run.
LEMMA NodesKeepFirst ==
  ASSUME TypeOK, FirstInv, run = "nodes", NEW n \in Nodes, NodeStep(n) \/ InputFails(n)
  PROVE  Untouched' /\ NodeRows' /\ Spreads' /\ LastNode' /\ CleanEnd'
<1>1. NodeMove(n) /\ RowsStep BY NodeMoves
<1>2. thread' = thread \/ (thread \in Unfinished /\ thread' \in {"failed", "cancelled"})
  BY NodesComplete DEF TypeOK
<1>3. origin' = origin BY <1>1 DEF NodeMove
<1>4. thread # "received" BY DEF FirstInv, Untouched
<1>5. Untouched' BY <1>2, <1>4 DEF Untouched
<1>6. CleanEnd' BY <1>2, <1>3 DEF CleanEnd, FirstInv
<1>7. CASE ~Live' BY <1>5, <1>6, <1>7 DEF NodeRows, Spreads, LastNode
<1>8. CASE Live'
  <2>1. Live /\ run' # "stopped" BY <1>3, <1>8 DEF Live
  <2>2. FirstStep(n) BY <2>1, FirstSteps DEF Live
  <2>3. NodeRows' /\ Spreads' BY <2>1, <2>2, NodeKeepsRows, NodeKeepsSpreads
  <2>4. LastNode' BY <1>2, <2>1, <2>2, NodeKeepsLast
  <2> QED BY <1>5, <1>6, <2>3, <2>4
<1> QED BY <1>7, <1>8

-------------------------------------------------------------------------------
(* The other steps in a first run.                                              *)

\* When all nodes of a superstep have returned, they are the ones it was to run.
LEMMA DoneIsNext ==
  ASSUME FirstInv, Live, EndSuperstep
  PROVE  /\ state.next = {n \in Nodes : writes[n].status # "none"}
         /\ \A n \in Nodes : n \in state.next => pc[n] = "returned"
         /\ \A n \in Nodes : row[<<n, 0>>] \notin Active
<1>1. NodeRows BY DEF FirstInv
<1>2. Quiet /\ state.next \subseteq {n \in Nodes : writes[n].status # "none"}
  BY DEF EndSuperstep
<1>3. \A n \in Nodes : writes[n].status # "none" => pc[n] = "returned"
  BY <1>1 DEF NodeRows
<1>4. \A n \in Nodes : pc[n] = "returned" => n \in state.next
  BY <1>1 DEF NodeRows
<1>5. \A n \in Nodes : row[<<n, 0>>] \notin Active
  BY <1>1, <1>2 DEF NodeRows, Quiet, Working
<1> QED BY <1>2, <1>3, <1>4, <1>5

\* The writes of a superstep carry a bad record to the successors; the last superstep is the
\* one of the last node.
LEMMA SuperstepKeepsFirst ==
  ASSUME TypeOK, FirstInv, EndSuperstep
  PROVE  Untouched' /\ NodeRows' /\ Spreads' /\ LastNode' /\ CleanEnd'
<1> DEFINE done == {n \in Nodes : writes[n].status # "none"}
           nxt == UNION {Succ(n) : n \in done}
<1>0. EngineOK /\ run = "nodes" BY DEF TypeOK, EndSuperstep
<1>1. /\ state' = [state EXCEPT !.rec = Merged(state.rec), !.last = done, !.next = nxt,
                              !.beside = FALSE]
      /\ writes' = [n \in Nodes |-> NoWrite]
      /\ Enter(state'.next)
      /\ run' = IF state'.next = {} THEN "finished" ELSE "nodes"
      /\ UNCHANGED <<rows, why, req, origin, left>>
  BY DEF EndSuperstep
<1>2. state'.next = nxt /\ state'.rec = Merged(state.rec)
  BY <1>0, <1>1 DEF EngineOK, Checkpoints
<1>3. UNCHANGED <<row, task, leaf, thread, flags>> BY <1>1 DEF rows
<1>4. thread # "received" /\ (origin = "start" => thread # "completed")
  BY <1>0 DEF FirstInv, Untouched, CleanEnd
<1>5. Untouched' /\ CleanEnd' BY <1>1, <1>3, <1>4 DEF Untouched, CleanEnd
<1>6. CASE ~Live BY <1>0, <1>1, <1>5, <1>6 DEF Live, NodeRows, Spreads, LastNode
<1>7. CASE Live
  <2>1. /\ state.next = done
        /\ \A n \in Nodes : n \in state.next => pc[n] = "returned"
        /\ \A n \in Nodes : row[<<n, 0>>] \notin Active
    BY <1>7, DoneIsNext
  <2>2. \A n \in Nodes : /\ pc'[n] = IF n \in nxt THEN "enter" ELSE "idle"
                         /\ writes'[n].status = "none" /\ writes'[n].ver = 0
    BY <1>1, <1>2 DEF Enter, NoWrite
  <2>3. \A n \in Nodes : Merged(state.rec)[<<n, 0>>] =
            IF n \in done THEN writes[n].status ELSE state.rec[<<n, 0>>]
    <3> SUFFICES ASSUME NEW n \in Nodes
                 PROVE  Merged(state.rec)[<<n, 0>>] =
                          IF n \in done THEN writes[n].status ELSE state.rec[<<n, 0>>]
      OBVIOUS
    <3>1. <<n, 0>> \in Keys BY BudgetsAreCounts DEF Keys, Versions
    <3>2. writes[n].ver = 0 BY <1>7 DEF FirstInv, NodeRows
    <3> QED BY <3>1, <3>2 DEF Merged
  <2>4. NodeRows'
    <3>1. \A n \in Nodes : n \in nxt => run' = "nodes" BY <1>1, <1>2
    <3>2. \A n \in Nodes : n \in Tasked /\ row[<<n, 0>>] = "completed" => task[<<n, 0>>] = "completed"
      BY <1>7 DEF FirstInv, NodeRows
    <3> HIDE DEF nxt
    <3> QED BY <1>2, <1>3, <2>1, <2>2, <3>1, <3>2 DEF NodeRows
  <2>5. \A m, n \in Nodes : <<m, n>> \in Edges /\ m \in done => n \in nxt
    BY DEF Succ
  <2>6. ASSUME NEW m \in Nodes, NEW n \in Nodes, <<m, n>> \in Edges,
               state'.rec[<<m, 0>>] \in Bad
        PROVE  state'.rec[<<n, 0>>] \in Bad \/ n \in state'.next
    <3>1. CASE m \in done BY <1>2, <2>5, <2>6, <3>1
    <3>2. CASE m \notin done
      <4>1. state.rec[<<m, 0>>] \in Bad BY <1>2, <2>3, <2>6, <3>2
      <4>2. CASE n \notin done
        <5>1. state.rec[<<n, 0>>] \in Bad
          BY <1>7, <2>1, <2>6, <4>1, <4>2 DEF FirstInv, Spreads
        <5> QED BY <1>2, <2>3, <4>2, <5>1
      <4>3. CASE n \in done
        <5>1. PredBad(n)
          <6>1. m \in Preds(n) /\ 0 \in Versions
            BY <2>6, BudgetsAreCounts DEF Preds, Versions
          <6> QED BY <4>1, <6>1 DEF PredBad, PredRecord, Bad
        <5>2. writes[n].status \in Bad BY <1>7, <2>1, <4>3, <5>1 DEF FirstInv, Spreads
        <5> QED BY <1>2, <2>3, <4>3, <5>2
      <4> QED BY <4>2, <4>3
    <3> QED BY <3>1, <3>2
  <2>7. Spreads'
    <3>1. \A n \in Nodes : pc'[n] \in Spared /\ pc'[n] # "returned" BY <2>2 DEF Spared
    <3> QED BY <2>6, <3>1 DEF Spreads
  <2>8. ASSUME NEW end \in Nodes, thread \in Unfinished, Succ(end) = {}, nxt = {},
               state'.rec[<<end, 0>>] \in Bad
        PROVE  leaf[0] = end /\ row[<<end, 0>>] \in Bad
    <3>1. done \subseteq {end}
      <4>1. \A n \in done : Succ(n) = {} BY <2>8
      <4> QED BY <2>8, <4>1, OneEnd
    <3>2. /\ /\ state.next = {end} /\ pc[end] \notin {"idle", "enter"}
             /\ row[<<end, 0>>] \in Terminal
             => leaf[0] = end
          /\ state.next = {end} /\ writes[end].status \in Bad => row[<<end, 0>>] \in Bad
          /\ state.next = {} /\ state.rec[<<end, 0>>] \in Bad
               => leaf[0] = end /\ row[<<end, 0>>] \in Bad
      BY <1>7, <2>8 DEF FirstInv, LastNode
    <3>3. CASE done = {}
      <4>1. state.rec[<<end, 0>>] \in Bad BY <1>2, <2>3, <2>8, <3>3
      <4> QED BY <2>1, <3>2, <3>3, <4>1
    <3>4. CASE done = {end}
      <4>1. writes[end].status \in Bad BY <1>2, <2>3, <2>8, <3>4
      <4>2. row[<<end, 0>>] \in Bad BY <2>1, <3>2, <3>4, <4>1
      <4>3. row[<<end, 0>>] \in Terminal BY <4>2 DEF Bad, Terminal
      <4>4. pc[end] = "returned" BY <2>1, <3>4
      <4> QED BY <2>1, <3>2, <3>4, <4>2, <4>3, <4>4
    <3> QED BY <3>1, <3>3, <3>4
  <2>9. LastNode'
    <3>1. \A n \in Nodes : pc'[n] \in {"idle", "enter"} /\ writes'[n].status \notin Bad
      BY <2>2 DEF Bad
    <3> HIDE DEF nxt
    <3> QED BY <1>2, <1>3, <2>8, <3>1 DEF LastNode
  <2> QED BY <1>5, <2>4, <2>7, <2>9
<1> QED BY <1>6, <1>7

\* A thread is started without a trace of an earlier run.
LEMMA StartKeepsFirst ==
  ASSUME TypeOK, FirstInv, Start
  PROVE  Untouched' /\ NodeRows' /\ Spreads' /\ LastNode' /\ CleanEnd'
<1>1. /\ thread = "received" /\ thread' = "running" /\ run' = "nodes" /\ origin' = "start"
      /\ state' = [Empty EXCEPT !.next = Roots] /\ Enter(Roots)
      /\ UNCHANGED <<row, task, leaf, flags, why, writes, req>>
  BY DEF Start
<1>2. /\ \A k \in Keys : row[k] = "none" /\ task[k] = "none"
      /\ \A n \in Nodes : writes[n] = NoWrite
  BY <1>1 DEF FirstInv, Untouched
<1>3. state'.next = Roots /\ \A k \in Keys : state'.rec[k] = "none" BY <1>1 DEF Empty
<1>4. \A n \in Nodes : pc'[n] = IF n \in Roots THEN "enter" ELSE "idle" BY <1>1 DEF Enter
<1>5. \A n \in Nodes : <<n, 0>> \in Keys BY BudgetsAreCounts DEF Keys, Versions
<1>6. "none" \notin Active /\ "none" \notin Bad BY DEF Active, Bad
<1>7. \A n \in Nodes : writes'[n].status = "none" /\ writes'[n].ver = 0
  BY <1>1, <1>2 DEF NoWrite
<1>8. NodeRows' BY <1>1, <1>2, <1>3, <1>4, <1>5, <1>6, <1>7 DEF NodeRows
<1>9. Spreads'
  <2>1. \A n \in Nodes : ~PredBad(n)'
    <3>1. ASSUME NEW n \in Nodes, NEW p \in Preds(n), NEW v \in Versions
          PROVE  state'.rec[<<p, v>>] = "none"
      <4>1. <<p, v>> \in Keys BY DEF Preds, Keys
      <4> QED BY <1>3, <4>1
    <3> QED BY <3>1 DEF PredBad, PredRecord
  <2> QED BY <1>3, <1>5, <1>6, <2>1 DEF Spreads
<1>10. LastNode' BY <1>1, <1>3, <1>4, <1>5, <1>6, <1>7 DEF LastNode
<1> QED BY <1>1, <1>8, <1>9, <1>10 DEF Untouched, CleanEnd

\* A bad record has reached the last node when nothing is left to run.
LEMMA BadReachesEnd ==
  ASSUME FirstInv, Live, state.next = {}, NEW k \in Keys, state.rec[k] \in Bad
  PROVE  \E end \in Nodes : Succ(end) = {} /\ state.rec[<<end, 0>>] \in Bad
<1>1. PICK end \in Nodes, depth \in [Nodes -> 0..Cardinality(Nodes)] :
         /\ \A n \in Nodes : Succ(n) = {} => n = end
         /\ \A n \in Nodes : \A m \in Succ(n) : depth[m] < depth[n]
  BY OneEnd
<1> DEFINE reached == {n \in Nodes : state.rec[<<n, 0>>] \in Bad}
           depths == {depth[n] : n \in reached}
<1>2. k[1] \in reached
  <2>1. k = <<k[1], k[2]>> /\ k[1] \in Nodes BY DEF Keys
  <2>2. k[2] = 0 BY DEF FirstInv, OneVersion, Live, Bad
  <2> QED BY <2>1, <2>2
<1>3. depths \in SUBSET Nat /\ depths # {}
  <2>1. \A i \in 0..Cardinality(Nodes) : i \in Nat OBVIOUS
  <2>2. \A n \in Nodes : depth[n] \in Nat BY <1>1, <2>1
  <2> QED BY <1>2, <2>2
<1>4. PICK d \in depths : \A e \in depths : d <= e BY <1>3, Least
<1>5. PICK n \in reached : d = depth[n] BY <1>4
<1>6. Succ(n) = {}
  <2> SUFFICES ASSUME NEW m \in Succ(n) PROVE FALSE OBVIOUS
  <2>1. m \in Nodes /\ <<n, m>> \in Edges BY DEF Succ
  <2>2. m \in reached BY <2>1 DEF FirstInv, Spreads
  <2>3. depth[n] <= depth[m] BY <1>4, <1>5, <2>2
  <2>4. depth[m] < depth[n] BY <1>1
  <2>5. depth[m] \in Int /\ depth[n] \in Int BY <1>1, <2>1
  <2> QED BY <2>3, <2>4, <2>5
<1> QED BY <1>6

\* So complete_thread finds the row of the last node, which failed or was cancelled.
LEMMA FinishKeepsFirst ==
  ASSUME TypeOK, LeavesEnded, FirstInv, Finish
  PROVE  Untouched' /\ NodeRows' /\ Spreads' /\ LastNode' /\ CleanEnd'
<1>1. /\ run = "finished" /\ run' = "idle"
      /\ thread' = IF thread \in Unfinished THEN LeafStatus ELSE thread
      /\ UNCHANGED <<row, task, leaf, why, state, writes, pc, found, req, origin, left>>
  BY DEF Finish
<1>2. ~Live' BY <1>1 DEF Live
<1>3. thread # "received" /\ (origin = "start" => thread # "completed")
  BY <1>1 DEF FirstInv, Untouched, CleanEnd
<1>4. ASSUME origin = "start", thread \in Unfinished, NEW k \in Keys, state.rec[k] \in Bad
      PROVE  LeafStatus \in Bad
  <2>1. Live BY <1>1, <1>4 DEF Live
  <2>2. state.next = {} BY <1>1, <2>1 DEF FirstInv, NodeRows, TypeOK, EngineOK, Checkpoints
  <2>3. PICK end \in Nodes : Succ(end) = {} /\ state.rec[<<end, 0>>] \in Bad
    BY <1>4, <2>1, <2>2, BadReachesEnd
  <2>4. leaf[0] = end /\ row[<<end, 0>>] \in Bad
    BY <1>4, <2>1, <2>2, <2>3 DEF FirstInv, LastNode
  <2> DEFINE ended == {v \in Versions : leaf[v] # "none"}
  <2>5. ended = {0}
    <3>1. \A v \in Versions : v # 0 => leaf[v] = "none" BY <1>4 DEF FirstInv, OneVersion
    <3>2. 0 \in Versions BY BudgetsAreCounts DEF Versions
    <3> QED BY <2>4, <3>1, <3>2, NoneIsNoNode
  <2>6. LeafStatus = row[<<leaf[0], 0>>]
    <3>1. (CHOOSE v \in ended : \A w \in ended : w <= v) = 0 BY <2>5
    <3> QED BY <2>5, <3>1 DEF LeafStatus
  <2> QED BY <2>4, <2>6
<1>5. CleanEnd'
  <2> SUFFICES ASSUME origin = "start", thread' = "completed", NEW k \in Keys, state.rec[k] \in Bad
               PROVE  FALSE
    BY <1>1 DEF CleanEnd
  <2>1. thread \in Unfinished BY <1>1, <1>3
  <2> QED BY <1>1, <1>4, <2>1 DEF Bad
<1>6. Untouched'
  <2>1. thread' # "received"
    <3>1. CASE thread \in Unfinished
      <4>1. thread' = LeafStatus BY <1>1, <3>1
      <4> QED BY <4>1, LeafStatusEnds DEF TypeOK, Terminal
    <3> QED BY <1>1, <1>3, <3>1
  <2> QED BY <2>1 DEF Untouched
<1> QED BY <1>2, <1>5, <1>6 DEF NodeRows, Spreads, LastNode

\* What a request does to the rows in a first run.
LEMMA RequestsKeepFirst ==
  ASSUME TypeOK, FirstInv,
         \/ \E k \in Keys : PauseTask(k) \/ CancelRequest(k)
         \/ CancelNode \/ SetNodeFlag \/ CountTopLevel \/ CancelCascade
  PROVE  Untouched' /\ NodeRows' /\ Spreads' /\ LastNode' /\ CleanEnd'
<1>0. RowsOK /\ RequestOK BY DEF TypeOK
<1>s. /\ "completed" \notin Active /\ "failed" \notin Active /\ Bad \intersect Active = {}
      /\ "completed" \notin Bad /\ "none" \notin Bad /\ "none" \notin Active
      /\ "cancelled" \in Bad /\ Bad \subseteq Terminal /\ Terminal \intersect Active = {}
      /\ "completed" \notin Unfinished
  BY DEF Active, Bad, Terminal, Unfinished
<1>1. UNCHANGED <<run, why, state, writes, pc, found, origin>>
  BY DEF PauseTask, CancelRequest, CancelNode, SetNodeFlag, CountTopLevel, CancelCascade, engine
<1>2. thread' = thread \/ (thread \in Unfinished /\ thread' = "cancelled")
  BY DEF PauseTask, CancelRequest, CancelNode, SetNodeFlag, CountTopLevel, CancelCascade,
     CancelThread, rows
<1>3. thread # "received"
  <2>1. ASSUME thread = "received" PROVE FALSE
    <3>1. req.at = "idle" /\ \A k \in Keys : row[k] = "none" /\ task[k] = "none"
      BY <2>1 DEF FirstInv, Untouched
    <3> QED BY <3>1 DEF PauseTask, CancelRequest, CancelNode, SetNodeFlag, CountTopLevel,
               CancelCascade
  <2> QED BY <2>1
<1>4. Untouched' /\ CleanEnd'
  BY <1>1, <1>2, <1>3 DEF Untouched, CleanEnd, FirstInv
<1>5. Spreads'
  <2>1. \A n \in Nodes : PredBad(n)' <=> PredBad(n) BY <1>1 DEF PredBad, PredRecord
  <2> QED BY <1>1, <2>1 DEF FirstInv, Spreads, Live
<1>6. \A k \in Keys : /\ row'[k] = row[k] \/ (row[k] \in Active /\ row'[k] \in Bad)
                      /\ task'[k] = task[k] \/ task[k] \in Active
  <2>1. ASSUME NEW k \in Keys, PauseTask(k) \/ CancelRequest(k)
        PROVE  row' = row /\ \A j \in Keys : task'[j] = task[j] \/ task[j] \in Active
    BY <1>0, <2>1 DEF PauseTask, CancelRequest, RowsOK, Active
  <2>2. CASE CancelNode
    <3>1. req.key \in Keys /\ CloseRow(req.key, "cancelled")
          /\ task' = [task EXCEPT ![req.key] = IF @ \in Active THEN "cancelled" ELSE @]
      BY <1>0, <2>2 DEF CancelNode, RequestOK
    <3>2. \A k \in Keys : row'[k] = row[k] \/ (row[k] \in Active /\ row'[k] \in Bad)
      BY <1>0, <1>s, <3>1 DEF CloseRow, RowsOK
    <3>3. \A k \in Keys : task'[k] = task[k] \/ task[k] \in Active
      BY <1>0, <3>1 DEF RowsOK
    <3> QED BY <3>2, <3>3
  <2>3. CASE SetNodeFlag \/ CountTopLevel BY <2>3 DEF SetNodeFlag, CountTopLevel, rows
  <2>4. CASE CancelCascade
    BY <1>s, <2>4, SweepAt DEF CancelCascade, CancelThread
  <2> QED BY <2>1, <2>2, <2>3, <2>4
<1>7. NodeRows'
  <2> SUFFICES ASSUME Live, NEW n \in Nodes
               PROVE  /\ row'[<<n, 0>>] \in Active => pc[n] \in Working
                      /\ pc[n] \notin {"idle", "enter"} => row'[<<n, 0>>] # "none"
                      /\ n \in Tasked /\ row'[<<n, 0>>] = "completed" => task'[<<n, 0>>] = "completed"
                      /\ n \in Tasked /\ pc[n] = "close" => task'[<<n, 0>>] \in {"completed", "failed"}
    BY <1>1 DEF NodeRows, FirstInv, Live
  <2>1. <<n, 0>> \in Keys BY BudgetsAreCounts DEF Keys, Versions
  <2>2. /\ row[<<n, 0>>] \in Active => pc[n] \in Working
        /\ pc[n] \notin {"idle", "enter"} => row[<<n, 0>>] # "none"
        /\ n \in Tasked /\ row[<<n, 0>>] = "completed" => task[<<n, 0>>] = "completed"
        /\ n \in Tasked /\ pc[n] = "close" => task[<<n, 0>>] \in {"completed", "failed"}
    BY DEF NodeRows, FirstInv
  <2>3. /\ row'[<<n, 0>>] = row[<<n, 0>>] \/ (row[<<n, 0>>] \in Active /\ row'[<<n, 0>>] \in Bad)
        /\ task'[<<n, 0>>] = task[<<n, 0>>] \/ task[<<n, 0>>] \in Active
    BY <1>6, <2>1
  <2> QED BY <1>s, <2>2, <2>3
<1>8. ASSUME thread' \in Unfinished
      PROVE  \A n \in Nodes : \/ row'[<<n, 0>>] = row[<<n, 0>>] /\ leaf'[0] = leaf[0]
                              \/ row[<<n, 0>>] \in Active /\ leaf'[0] = n
                              \/ \E m \in Nodes : m # n /\ row[<<m, 0>>] \in Active
  <2> SUFFICES ASSUME NEW n \in Nodes
               PROVE  \/ row'[<<n, 0>>] = row[<<n, 0>>] /\ leaf'[0] = leaf[0]
                      \/ row[<<n, 0>>] \in Active /\ leaf'[0] = n
                      \/ \E m \in Nodes : m # n /\ row[<<m, 0>>] \in Active
    OBVIOUS
  <2>1. CASE \E k \in Keys : PauseTask(k) \/ CancelRequest(k)
    BY <2>1 DEF PauseTask, CancelRequest
  <2>2. CASE CancelNode
    <3> DEFINE k == req.key
    <3>1. k \in Keys /\ CloseRow(k, "cancelled") BY <1>0, <2>2 DEF CancelNode, RequestOK
    <3> HIDE DEF k
    <3>2. k = <<k[1], k[2]>> /\ k[1] \in Nodes /\ k[2] \in Versions BY <3>1 DEF Keys
    <3>3. CASE row[k] \notin Active BY <3>1, <3>3 DEF CloseRow
    <3>4. CASE row[k] \in Active
      <4>1. row' = [row EXCEPT ![k] = "cancelled"] /\ leaf' = [leaf EXCEPT ![k[2]] = k[1]]
        BY <3>1, <3>4 DEF CloseRow
      <4>2. <<n, 0>> \in Keys /\ 0 \in Versions BY BudgetsAreCounts DEF Keys, Versions
      <4>3. CASE k[2] = 0
        <5>1. CASE k[1] = n BY <1>0, <3>2, <3>4, <4>1, <4>2, <4>3, <5>1 DEF RowsOK
        <5>2. CASE k[1] # n BY <3>2, <3>4, <4>3, <5>2
        <5> QED BY <5>1, <5>2
      <4>4. CASE k[2] # 0
        <5>1. k # <<n, 0>> BY <3>2, <4>4
        <5> QED BY <1>0, <4>1, <4>2, <4>4, <5>1 DEF RowsOK
      <4> QED BY <4>3, <4>4
    <3> QED BY <3>3, <3>4
  <2>3. CASE SetNodeFlag \/ CountTopLevel BY <2>3 DEF SetNodeFlag, CountTopLevel, rows
  <2>4. CASE CancelCascade
    BY <1>0, <1>8, <2>4 DEF CancelCascade, CancelThread, Unfinished
  <2> QED BY <2>1, <2>2, <2>3, <2>4
<1>9. LastNode'
  <2> SUFFICES ASSUME Live, NEW end \in Nodes, thread' \in Unfinished, Succ(end) = {},
                      state.next \subseteq {end}
               PROVE  /\ /\ state.next = {end} /\ pc[end] \notin {"idle", "enter"}
                         /\ row'[<<end, 0>>] \in Terminal
                         => leaf'[0] = end
                      /\ state.next = {end} /\ writes[end].status \in Bad => row'[<<end, 0>>] \in Bad
                      /\ state.next = {} /\ state.rec[<<end, 0>>] \in Bad
                           => leaf'[0] = end /\ row'[<<end, 0>>] \in Bad
    BY <1>1 DEF LastNode, Live
  <2>1. thread \in Unfinished BY <1>2
  <2>2. /\ /\ state.next = {end} /\ pc[end] \notin {"idle", "enter"}
           /\ row[<<end, 0>>] \in Terminal
           => leaf[0] = end
        /\ state.next = {end} /\ writes[end].status \in Bad => row[<<end, 0>>] \in Bad
        /\ state.next = {} /\ state.rec[<<end, 0>>] \in Bad
             => leaf[0] = end /\ row[<<end, 0>>] \in Bad
    BY <2>1 DEF FirstInv, LastNode
  <2>3. \A m \in Nodes : row[<<m, 0>>] \in Active => m = end /\ state.next = {end}
    <3> SUFFICES ASSUME NEW m \in Nodes, row[<<m, 0>>] \in Active
                 PROVE  m = end /\ state.next = {end}
      OBVIOUS
    <3>1. pc[m] \in Working BY DEF FirstInv, NodeRows
    <3>2. m \in state.next BY <3>1 DEF FirstInv, NodeRows, Working
    <3> QED BY <3>2
  <2>4. \/ row'[<<end, 0>>] = row[<<end, 0>>] /\ leaf'[0] = leaf[0]
        \/ row[<<end, 0>>] \in Active /\ leaf'[0] = end
    BY <1>8, <2>3
  <2>5. row'[<<end, 0>>] = row[<<end, 0>>] \/ row'[<<end, 0>>] \in Bad
    <3>1. <<end, 0>> \in Keys BY BudgetsAreCounts DEF Keys, Versions
    <3> QED BY <1>6, <3>1
  <2> QED BY <1>s, <2>2, <2>3, <2>4, <2>5
<1> QED BY <1>4, <1>5, <1>7, <1>9

\* Rows and records of other versions do not appear in a first run.
LEMMA OneVersionStays ==
  ASSUME IInv, FirstInv, RowsMove, TypeOK', [Next]_vars
  PROVE  OneVersion'
<1>0. RowsOK /\ EngineOK /\ RequestOK /\ FirstRunEnds BY DEF IInv, TypeOK
<1>1. ASSUME origin = "start", state'.fork = state.fork,
             \A k \in Keys : k[2] # 0 => state'.rec[k] = "none"
      PROVE  OneVersion'
  <2>1. /\ Gen = 0
        /\ \A k \in Keys : k[2] # 0 => row[k] = "none"
        /\ \A v \in Versions : v # 0 => leaf[v] = "none"
    BY <1>1 DEF FirstInv, OneVersion
  <2>2. \A k \in Keys : k[2] # 0 => row'[k] = "none" BY <2>1 DEF RowsMove
  <2>3. ASSUME NEW v \in Versions, v # 0, leaf'[v] # "none" PROVE FALSE
    <3>1. row'[<<leaf'[v], v>>] \in Terminal BY <2>1, <2>3 DEF RowsMove
    <3>2. leaf'[v] \in Nodes BY <2>3 DEF RowsMove
    <3>3. row'[<<leaf'[v], v>>] = "none" BY <2>2, <2>3, <3>2 DEF Keys
    <3> QED BY <3>1, <3>3 DEF Terminal
  <2>4. Gen' = 0 BY <1>1, <2>1 DEF Gen
  <2> QED BY <1>1, <2>2, <2>3, <2>4 DEF OneVersion
<1>2. ASSUME state' = state, origin' = origin PROVE OneVersion'
  <2>1. CASE origin = "start"
    <3>1. \A k \in Keys : k[2] # 0 => state.rec[k] = "none" BY <2>1 DEF FirstInv, OneVersion
    <3> QED BY <1>1, <1>2, <2>1, <3>1
  <2>2. CASE origin # "start" BY <1>2, <2>2 DEF OneVersion
  <2> QED BY <2>1, <2>2
<1>3. ASSUME NEW n \in Nodes, NodeStep(n) \/ (run = "nodes" /\ InputFails(n)) PROVE OneVersion'
  <2>1. NodeMove(n) BY <1>0, <1>3, NodeMoves DEF NodeStep, IInv
  <2> QED BY <1>2, <2>1 DEF NodeMove
<1>4. CASE EndSuperstep
  <2>1. origin' = origin /\ run = "nodes" BY <1>4 DEF EndSuperstep
  <2>2. CASE origin # "start" BY <2>1, <2>2 DEF OneVersion
  <2>3. CASE origin = "start"
    <3>1. state'.fork = state.fork /\ state'.rec = Merged(state.rec)
      BY <1>0, <1>4 DEF EndSuperstep, EngineOK, Checkpoints
    <3>2. ASSUME NEW k \in Keys, k[2] # 0 PROVE state'.rec[k] = "none"
      <4>1. state.rec[k] = "none" BY <2>3, <3>2 DEF FirstInv, OneVersion
      <4>2. k[1] \in Nodes BY DEF Keys
      <4>3. writes[k[1]].ver = 0 BY <2>1, <2>3, <4>2 DEF FirstInv, NodeRows, Live
      <4> QED BY <3>1, <3>2, <4>1, <4>3 DEF Merged
    <3> QED BY <1>1, <2>3, <3>1, <3>2
  <2> QED BY <2>2, <2>3
<1>5. CASE Finish \/ Stopped \/ Cleanup \/ Crash \/ UNCHANGED vars
  <2>1. state' = state /\ origin' = origin BY <1>5 DEF Finish, Stopped, Cleanup, Crash, vars
  <2> QED BY <1>2, <2>1
<1>6. CASE Start
  <2>1. origin = "start" BY <1>0, <1>6 DEF Start, FirstRunEnds
  <2>2. state' = [Empty EXCEPT !.next = Roots] BY <1>6 DEF Start
  <2>3. state'.fork.gen = 0 /\ \A k \in Keys : state'.rec[k] = "none"
    BY <2>2 DEF Empty, NoFork
  <2>4. \A k \in Keys : k[2] # 0 => row'[k] = "none"
    BY <1>6 DEF Start, FirstInv, Untouched
  <2>5. \A v \in Versions : v # 0 => leaf'[v] = "none"
    BY <1>6 DEF Start, FirstInv, Untouched
  <2> QED BY <2>3, <2>4, <2>5 DEF OneVersion, Gen
<1>7. CASE Resume BY <1>7 DEF Resume, OneVersion
<1>8. ASSUME NEW k \in Keys, PauseTask(k) \/ CancelRequest(k) PROVE OneVersion'
  <2>1. state' = state /\ origin' = origin BY <1>8 DEF PauseTask, CancelRequest, engine
  <2> QED BY <1>2, <2>1
<1>9. ASSUME NEW k \in Keys, ReExplore(k) PROVE OneVersion'
  <2>1. origin' \in {"fork", "busy"} BY <1>9 DEF ReExplore, RunFork
  <2> QED BY <2>1 DEF OneVersion
<1>10. CASE CancelNode \/ SetNodeFlag \/ CountTopLevel \/ CancelCascade
  <2>1. state' = state /\ origin' = origin
    BY <1>10 DEF CancelNode, SetNodeFlag, CountTopLevel, CancelCascade, engine
  <2> QED BY <1>2, <2>1
<1> QED BY <1>3, <1>4, <1>5, <1>6, <1>7, <1>8, <1>9, <1>10 DEF Next

\* The flag of a node follows the cancellation of its row.
LEMMA FlagsStayMarked ==
  ASSUME TypeOK, FirstInv, RowsMove, [Next]_vars
  PROVE  FlagsMark'
<1>0. RowsOK /\ EngineOK /\ RequestOK BY DEF TypeOK
<1>f. /\ \A k \in flags.nodes : k \in Keys /\ row[k] = "cancelled"
      /\ req.at = "flag" => req.key \in Keys /\ row[req.key] = "cancelled"
  BY <1>0 DEF FirstInv, FlagsMark, RowsOK, RequestOK
<1>m. \A k \in Keys : row[k] = "cancelled" => row'[k] = "cancelled"
  BY DEF RowsMove, Terminal
<1>1. ASSUME \A k \in flags'.nodes : k \in flags.nodes \/ (k \in Keys /\ row'[k] = "cancelled"),
             req'.at = "flag" => \/ req.at = "flag" /\ req'.key = req.key
                                 \/ row'[req'.key] = "cancelled"
      PROVE  FlagsMark'
  BY <1>f, <1>m, <1>1 DEF FlagsMark
<1>2. ASSUME NEW n \in Nodes, CancelSelf(n) PROVE FlagsMark'
  <2>1. Key(n) \in Keys BY OwnKey
  <2>2. ASSUME row[Key(n)] \in Active PROVE row'[Key(n)] = "cancelled"
    BY <1>0, <1>2, <2>1, <2>2 DEF CancelSelf, CloseRow, RowsOK
  <2>3. \A k \in flags'.nodes : k \in flags.nodes \/ (k \in Keys /\ row'[k] = "cancelled")
    BY <1>0, <1>2, <2>1, <2>2 DEF CancelSelf, RowsOK
  <2> QED BY <1>1, <1>2, <2>3 DEF CancelSelf
<1>3. CASE CancelNode
  <2>1. req.key \in Keys /\ flags' = flags BY <1>0, <1>3 DEF CancelNode, RequestOK
  <2>2. req' = [req EXCEPT !.at = IF row[req.key] \in Active THEN "flag" ELSE "count"]
        /\ CloseRow(req.key, "cancelled")
    BY <1>3 DEF CancelNode
  <2>3. req'.at = "flag" => row'[req'.key] = "cancelled"
    BY <1>0, <2>1, <2>2 DEF CloseRow, RowsOK, RequestOK
  <2> QED BY <1>1, <2>1, <2>3
<1>4. CASE SetNodeFlag
  <2>1. req'.at = "count" /\ flags' = [flags EXCEPT !.nodes = @ \union {req.key}]
        /\ req.at = "flag"
    BY <1>0, <1>4 DEF SetNodeFlag, RequestOK
  <2>2. row'[req.key] = "cancelled" /\ req.key \in Keys BY <1>f, <1>m, <2>1
  <2> QED BY <1>0, <1>1, <2>1, <2>2 DEF RowsOK
<1>5. ASSUME flags'.nodes = flags.nodes,
             (req' = req) \/ req'.at # "flag"
      PROVE  FlagsMark'
  BY <1>1, <1>5
<1>6. CASE CancelThread /\ (req' = req \/ req'.at # "flag")
  BY <1>0, <1>5, <1>6 DEF CancelThread, RowsOK
<1>7. CASE FailThread /\ req' = req
  BY <1>5, <1>7 DEF FailThread, rows
<1>8. ASSUME NEW n \in Nodes, NodeStep(n) \/ InputFails(n), ~CancelSelf(n)
      PROVE  FlagsMark'
  <2>1. CASE CascadeUp(n) BY <1>6, <1>7, <2>1 DEF CascadeUp
  <2>2. CASE ~CascadeUp(n)
    <3>1. flags' = flags /\ req' = req
      BY <1>8, <2>2 DEF NodeStep, InputFails, Share, UpsertNode, FailSelf, CountActive,
         Orchestrate, TaskEnds, SeesNodeFlag, SeesThreadFlag, SeesPause, FailNode, AbsorbOrRaise,
         CompleteNode, rows
    <3> QED BY <1>5, <3>1
  <2> QED BY <2>1, <2>2
<1>9. CASE EndSuperstep \/ Start \/ Resume \/ Crash \/ UNCHANGED vars
  <2>1. flags' = flags /\ req' = req BY <1>9 DEF EndSuperstep, Start, Resume, Crash, rows, vars
  <2> QED BY <1>5, <2>1
<1>10. CASE Finish \/ Cleanup
  <2>1. flags'.nodes = flags.nodes /\ req' = req BY <1>0, <1>10 DEF Finish, Cleanup, RowsOK
  <2> QED BY <1>5, <2>1
<1>11. CASE Stopped BY <1>5, <1>7, <1>11 DEF Stopped, rows
<1>12. ASSUME NEW k \in Keys, PauseTask(k) \/ CancelRequest(k) \/ ReExplore(k)
       PROVE  FlagsMark'
  <2>1. flags' = flags /\ (req' = req \/ req'.at # "flag")
    BY <1>12 DEF PauseTask, CancelRequest, ReExplore
  <2> QED BY <1>5, <2>1
<1>13. CASE CountTopLevel
  <2>1. flags' = flags /\ req'.at # "flag"
    BY <1>0, <1>13 DEF CountTopLevel, rows, RequestOK
  <2> QED BY <1>5, <2>1
<1>14. CASE CancelCascade BY <1>6, <1>14 DEF CancelCascade
<1> QED BY <1>2, <1>3, <1>4, <1>8, <1>9, <1>10, <1>11, <1>12, <1>13, <1>14 DEF Next

\* The invariant of the first run is inductive, on top of IInv.
LEMMA FirstInvariant == Spec => []FirstInv
<1>1. Init => FirstInv
  <2> SUFFICES ASSUME Init PROVE FirstInv OBVIOUS
  <2>1. Untouched /\ FlagsMark /\ CleanEnd BY DEF Init, Untouched, FlagsMark, CleanEnd
  <2>2. OneVersion BY DEF Init, OneVersion, Gen, Empty, NoFork
  <2>3. NodeRows /\ Spreads /\ LastNode BY DEF Init, NodeRows, Spreads, LastNode, Live
  <2> QED BY <2>1, <2>2, <2>3 DEF FirstInv
<1>2. IInv /\ FirstInv /\ [Next]_vars => FirstInv'
  <2> SUFFICES ASSUME IInv, FirstInv, [Next]_vars PROVE FirstInv' OBVIOUS
  <2>0. TypeOK /\ LeavesEnded BY DEF IInv
  <2>1. RowsMove /\ TypeOK' BY StepsMoveRows
  <2>2. OneVersion' /\ FlagsMark' BY <2>0, <2>1, OneVersionStays, FlagsStayMarked
  <2>3. Untouched' /\ NodeRows' /\ Spreads' /\ LastNode' /\ CleanEnd'
    <3>1. ASSUME NEW n \in Nodes, NodeStep(n) \/ (run = "nodes" /\ InputFails(n))
          PROVE  Untouched' /\ NodeRows' /\ Spreads' /\ LastNode' /\ CleanEnd'
      BY <2>0, <3>1, NodesKeepFirst DEF NodeStep
    <3>2. CASE EndSuperstep BY <2>0, <3>2, SuperstepKeepsFirst
    <3>3. CASE Finish BY <2>0, <3>3, FinishKeepsFirst
    <3>4. CASE Start BY <2>0, <3>4, StartKeepsFirst
    <3>5. CASE Stopped \/ Cleanup \/ Crash
      <4>1. run # "idle" /\ run' \in {"ended", "idle"} /\ origin' = origin
            /\ (thread' = thread \/ (thread \in Unfinished /\ thread' = "failed"))
        BY <3>5 DEF Stopped, Cleanup, Crash, FailThread, rows
      <4>2. thread # "received" /\ (origin = "start" => thread # "completed")
        BY <4>1 DEF FirstInv, Untouched, CleanEnd
      <4>3. ~Live' BY <4>1 DEF Live
      <4> QED BY <4>1, <4>2, <4>3 DEF Untouched, NodeRows, Spreads, LastNode, CleanEnd
    <3>6. CASE Resume \/ \E k \in Keys : ReExplore(k)
      <4>1. origin' # "start" /\ thread' = "running" BY <3>6 DEF Resume, ReExplore, RunFork
      <4> QED BY <4>1 DEF Untouched, Live, NodeRows, Spreads, LastNode, CleanEnd
    <3>7. CASE \/ \E k \in Keys : PauseTask(k) \/ CancelRequest(k)
               \/ CancelNode \/ SetNodeFlag \/ CountTopLevel \/ CancelCascade
      BY <2>0, <3>7, RequestsKeepFirst
    <3>8. CASE UNCHANGED vars
      <4>1. UNCHANGED <<row, task, leaf, thread, run, state, writes, pc, req, origin>>
        BY <3>8 DEF vars
      <4>2. \A n \in Nodes : PredBad(n)' <=> PredBad(n) BY <4>1 DEF PredBad, PredRecord
      <4>3. Untouched' /\ CleanEnd' BY <4>1 DEF FirstInv, Untouched, CleanEnd
      <4>4. NodeRows' /\ LastNode' BY <4>1 DEF FirstInv, NodeRows, LastNode, Live
      <4>5. Spreads' BY <4>1, <4>2 DEF FirstInv, Spreads, Live
      <4> QED BY <4>3, <4>4, <4>5
    <3> QED BY <3>1, <3>2, <3>3, <3>4, <3>5, <3>6, <3>7, <3>8 DEF Next
  <2> QED BY <2>2, <2>3 DEF FirstInv
<1> QED BY <1>1, <1>2, Invariant, PTL DEF Spec

\* A thread that its first run completed has no failed and no cancelled node in its state, for
\* every graph without a cycle and with one last node: a failure that a branch absorbs reaches
\* the last node through the records, and that node ends the thread or leaves its own row bad.
THEOREM FirstRunsAreClean == Spec => [](origin = "start" => CompletedIsClean)
<1>1. FirstInv => (origin = "start" => CompletedIsClean)
  BY DEF FirstInv, CleanEnd, Bad, CompletedIsClean
<1> QED BY <1>1, FirstInvariant, PTL

===============================================================================
