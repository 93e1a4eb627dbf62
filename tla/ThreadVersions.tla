---------------------------- MODULE ThreadVersions ----------------------------
(* The versions of a thread and what the browser shows of one of them: the      *)
(* node rows a run and its re-explorations write (entrypoint.py, re_explore.py),*)
(* the topology compiled from the graph (api/graph/topology.py), the rows and   *)
(* placeholders of a version (useThreadData.ts, versionUtils.ts) and the edges  *)
(* drawn between them (NodeGraph/layout.ts, NodeGraph.tsx).                     *)
(*                                                                             *)
(* GraphRun has the whole __call__ of a node; here a node starts, shares or     *)
(* ends. The compiled graph has no conditional edge and no subgraph             *)
(* (fin_trading_graph.py:62-104), so the conditional slots, the inner graphs    *)
(* and the filters on them are left out, and a row is fetched with the tasks    *)
(* that belong to it, so a placeholder never takes its status from a task.      *)
EXTENDS Integers, Sequences, FiniteSets, SequencesExt

CONSTANTS Order,        \* the node names in the order of the compiled graph
          Edges,        \* the edges of the compiled graph
          Group,        \* nodes with parallel_group "analyze_parallel"
          MaxGen,       \* bound: the highest version
          MaxFailures   \* bound: failing tasks and cancellations of the thread

Names == ToSet(Order)
ASSUME OrderIsGraph == Edges \subseteq Names \X Names /\ Group \subseteq Names
ASSUME BoundsAreCounts == MaxGen \in Nat /\ MaxFailures \in Nat

Succ(n) == {s \in Names : <<n, s>> \in Edges}
Preds(n) == {p \in Names : <<p, n>> \in Edges}
Roots == {n \in Names : Preds(n) = {}}
Versions == 0..MaxGen
Keys == Names \X Versions            \* make_node_id(thread, name, version)
Bad == {"failed", "cancelled"}
NoRow == [status |-> "none", prev |-> {}, forked |-> FALSE]

VARIABLES rows,     \* [Keys -> row]: fin_agents.nodes
          run,      \* "idle" or "nodes"
          snap,     \* the checkpoint the superstep started from:
                    \* [rec, next, gen, point, group]
          found,    \* [Names -> newest checkpoint with the node in next, or none]
          begun,    \* nodes of the superstep whose __call__ has begun
          wrote,    \* records written by ended nodes of the superstep
          failures  \* what is left of MaxFailures
vars == <<rows, run, snap, found, begun, wrote, failures>>

Snapshot(rec, next, gen, point, group) ==
  [rec |-> rec, next |-> next, gen |-> gen, point |-> point, group |-> group]
NoSnap == Snapshot({}, {}, 0, "none", FALSE)
First == Snapshot({}, Roots, 0, "none", FALSE)
Remember(s) == found' = [n \in Names |-> IF n \in s.next THEN s ELSE found[n]]

Init ==
  /\ rows = [k \in Keys |-> NoRow]
  /\ run = "nodes" /\ snap = First
  /\ found = [n \in Names |-> IF n \in Roots THEN First ELSE NoSnap]
  /\ begun = {} /\ wrote = {} /\ failures = MaxFailures

-------------------------------------------------------------------------------
(* The run that writes the rows.                                                *)

Real == {k \in Keys : rows[k].status # "none"}
VersionsOf(n) == {v \in Versions : <<n, v>> \in Real}

(* _find_node_id_by_name: the highest version of the name in the state.         *)
FindByName(n) == LET vs == {v \in Versions : <<n, v>> \in snap.rec}
                 IN IF vs = {} THEN {} ELSE {<<n, Max(vs)>>}

(* get_latest_sibling_node_version: none while any version of it runs.          *)
SharedVersions(n) ==
  LET done == {v \in Versions : rows[<<n, v>>].status = "completed"}
  IN IF done = {} \/ \E v \in Versions : rows[<<n, v>>].status = "running"
     THEN {} ELSE {Max(done)}
IsSibling(n) == snap.gen > 0 /\ snap.group /\ n \in Group /\ n # snap.point

Share(n) ==
  /\ run = "nodes" /\ n \in snap.next \ begun
  /\ IsSibling(n) /\ SharedVersions(n) # {}
  /\ begun' = begun \union {n}
  /\ wrote' = wrote \union {<<n, v>> : v \in SharedVersions(n)}
  /\ UNCHANGED <<rows, run, snap, found, failures>>

(* upsert_node: a terminal row keeps its status, is_forked stays set.           *)
Begin(n) ==
  LET k == <<n, snap.gen>>
  IN /\ run = "nodes" /\ n \in snap.next \ begun
     /\ ~(IsSibling(n) /\ SharedVersions(n) # {})
     /\ begun' = begun \union {n}
     /\ rows' = [rows EXCEPT ![k] =
          [status |-> IF @.status \in Bad \union {"completed"} THEN @.status ELSE "running",
           prev |-> UNION {FindByName(p) : p \in Preds(n)},
           forked |-> @.forked \/ (snap.point = n /\ snap.gen > 0)]]
     /\ UNCHANGED <<run, snap, found, wrote, failures>>

(* The node completes, fails with a task of its own or after a predecessor.     *)
End(n) ==
  LET k == <<n, snap.gen>>
      after == \E p \in Preds(n) : \E r \in snap.rec : r[1] = p /\ rows[r].status \in Bad
      Close(status) == rows' = [rows EXCEPT ![k].status = IF @ = "running" THEN status ELSE @]
  IN /\ run = "nodes" /\ n \in begun /\ ~\E w \in wrote : w[1] = n
     /\ wrote' = wrote \union {k}
     /\ \/ ~after /\ Close("completed") /\ UNCHANGED failures
        \/ ~after /\ failures > 0 /\ Close("failed") /\ failures' = failures - 1
        \/ after /\ Close("failed") /\ UNCHANGED failures
     /\ UNCHANGED <<run, snap, found, begun>>

EndSuperstep ==
  LET s == [snap EXCEPT !.rec = @ \union wrote, !.next = UNION {Succ(n) : n \in begun}]
  IN /\ run = "nodes" /\ begun = snap.next /\ Cardinality(wrote) = Cardinality(begun)
     /\ snap' = s /\ Remember(s)
     /\ begun' = {} /\ wrote' = {}
     /\ run' = IF s.next = {} THEN "idle" ELSE "nodes"
     /\ UNCHANGED <<rows, failures>>

(* cancel_thread: the running rows are swept, the run unwinds.                  *)
CancelThread ==
  /\ run = "nodes" /\ failures > 0 /\ failures' = failures - 1
  /\ rows' = [k \in Keys |-> [rows[k] EXCEPT !.status = IF @ = "running" THEN "cancelled" ELSE @]]
  /\ run' = "idle" /\ begun' = {} /\ wrote' = {}
  /\ UNCHANGED <<snap, found>>

NextGeneration == 1 + Max({k[2] : k \in Real})

(* re_explore_node of a row: the newest checkpoint with the node in next, with  *)
(* the completed siblings of its group added.                                   *)
ReExplore(n) ==
  LET siblings == IF n \in Group THEN {k \in Keys : k[1] \in Group \ {n} /\ k[2] \in SharedVersions(k[1])}
                  ELSE {}
      s == Snapshot(found[n].rec \union siblings,
                    IF n \in Roots THEN {n} ELSE UNION {Succ(p) : p \in Preds(n)},
                    NextGeneration, n, n \in Group \/ found[n].group)
  IN /\ run = "idle" /\ VersionsOf(n) # {} /\ NextGeneration \in Versions
     /\ run' = "nodes" /\ snap' = s /\ Remember(s)
     /\ UNCHANGED <<rows, begun, wrote, failures>>

Next ==
  \/ \E n \in Names : Share(n) \/ Begin(n) \/ End(n) \/ ReExplore(n)
  \/ EndSuperstep \/ CancelThread
Spec == Init /\ [][Next]_vars

-------------------------------------------------------------------------------
(* get_compiled_topology: groups and alignment derived from the edges.          *)

(* The targets of a node with several of them: "<source>_parallel"; the last    *)
(* source in the order of the edges wins (each node of this graph has one).     *)
TopoGroup == [n \in Names |->
  LET fans == {p \in Preds(n) : Cardinality(Succ(p)) > 1}
  IN IF fans = {} THEN "none" ELSE CHOOSE p \in fans : TRUE]

(* The only successor of a branch, if it has no other predecessor.              *)
AlignWith == [n \in Names |->
  LET heads == {p \in Preds(n) : /\ TopoGroup[p] # "none" /\ Succ(p) = {n}
                                 /\ TopoGroup[n] # TopoGroup[p] /\ Preds(n) = {p}}
  IN IF heads = {} THEN "none" ELSE CHOOSE p \in heads : TRUE]

(* The parallel_group of a merged node: an alignment strips it.                 *)
ParallelGroup == [n \in Names |->
  IF AlignWith[n] # "none" THEN "none"
  ELSE IF TopoGroup[n] # "none" THEN TopoGroup[n]
  ELSE IF n \in Group THEN "analyze_parallel" ELSE "none"]

EffectiveGroup == [n \in Names |->
  IF ParallelGroup[n] # "none" THEN ParallelGroup[n]
  ELSE IF TopoGroup[n] # "none" THEN TopoGroup[n]
  ELSE IF AlignWith[n] # "none" THEN TopoGroup[AlignWith[n]] ELSE "none"]

-------------------------------------------------------------------------------
(* mergeWithTopology and getNodesForVersion.                                    *)

(* Placeholders: names without a row of any version, which are roots or         *)
(* successors of a running or completed row.                                    *)
Placeholders ==
  {n \in Names : /\ VersionsOf(n) = {}
                 /\ \/ n \in Roots
                    \/ \E k \in Real : rows[k].status \in {"running", "completed"} /\ n \in Succ(k[1])}

(* All rows in the order of the merged list.                                    *)
KeyOrder == [i \in 1..(Len(Order) * (MaxGen + 1)) |->
              <<Order[1 + ((i - 1) \div (MaxGen + 1))], (i - 1) % (MaxGen + 1)>>]
Sorted == SelectSeq(KeyOrder, LAMBDA k : rows[k].status # "none")

OfVersion(v) == {k \in Real : k[2] = v}
ForkRows(v) == {k \in OfVersion(v) : rows[k].forked}
NamesOf(S) == {k[1] : k \in S}

(* collectPredecessors: reachable through prev_node_ids.                        *)
RECURSIVE PrevClosure(_)
PrevClosure(S) == LET more == S \union UNION {rows[k].prev : k \in S}
                  IN IF more = S THEN S ELSE PrevClosure(more)

\* Defect: only predecessors are shared.
NoSiblings(shared, v) == shared

(* The parallel siblings: one pass over the rows in their order.                *)
WithSiblings(shared, v) ==
  LET own == NamesOf(OfVersion(v))
      groups == {EffectiveGroup[n] : n \in own} \ {"none"}
      Add(ids, k) == IF /\ k[1] \notin own
                        /\ EffectiveGroup[k[1]] \in groups
                        /\ rows[k].prev \intersect ids # {}
                     THEN ids \union {k} ELSE ids
  IN FoldLeft(Add, shared, Sorted)

(* The continuations of shared rows, and the rows they continue.                *)
RECURSIVE WithAligned(_, _)
WithAligned(ids, v) ==
  LET own == NamesOf(OfVersion(v))
      names == NamesOf(ids)
      new == {k \in Real \ ids :
                /\ k[1] \notin own
                /\ \E n \in names : AlignWith[k[1]] = n \/ AlignWith[n] = k[1]}
  IN IF new = {} THEN ids ELSE WithAligned(ids \union new, v)

Shared(v) ==
  IF ForkRows(v) = {} THEN {}
  ELSE LET fork == CHOOSE k \in ForkRows(v) : TRUE
       IN WithAligned(WithSiblings(PrevClosure(rows[fork].prev), v), v)

Included(v) == Shared(v) \union OfVersion(v)

\* Defect: only the groups of what is shown are completed with placeholders.
GhostsOfGroups(v) ==
  IF v = 0 THEN Placeholders
  ELSE {n \in Placeholders : \E m \in NamesOf(Included(v)) :
          ParallelGroup[n] # "none" /\ ParallelGroup[m] = ParallelGroup[n]}

(* The placeholders next to what is shown, and the members of its groups.       *)
Ghosts(v) ==
  IF v = 0 THEN Placeholders
  ELSE IF ForkRows(v) = {} THEN {}
  ELSE {n \in Placeholders :
          \/ \E m \in NamesOf(Included(v)) : n \in Succ(m)
          \/ ParallelGroup[n] # "none" /\ \E m \in NamesOf(Included(v)) : ParallelGroup[m] = ParallelGroup[n]}

(* The list that is drawn: <<name, version>>, version -1 for a placeholder.     *)
Shown(v) ==
  LET ghosts == Ghosts(v)
      shared == Shared(v)
      Ghost(k) == k[2] = -1 /\ k[1] \in ghosts
      Rest == [i \in DOMAIN Order |-> <<Order[i], -1>>]
      Merged == FlattenSeq([i \in DOMAIN Order |-> <<<<Order[i], 0>>, <<Order[i], -1>>>>])
  IN IF v = 0 THEN SelectSeq(Merged, LAMBDA k : k \in Real \/ Ghost(k))
     ELSE SelectSeq(Sorted, LAMBDA k : k \in shared)
          \o SelectSeq(Sorted, LAMBDA k : k[2] = v)
          \o SelectSeq(Rest, Ghost)

ShownNames(v) == NamesOf(Included(v)) \union Ghosts(v)

-------------------------------------------------------------------------------
(* The drawing: slots from left to right, edges between slots, units of edges.  *)

(* buildTopSlots: a group is one slot, at the place of its first member.        *)
Slots(list) ==
  LET Same(a, b) == ParallelGroup[a] # "none" /\ ParallelGroup[a] = ParallelGroup[b]
      Add(slots, k) ==
        IF \E i \in DOMAIN slots : Same(slots[i][1], k[1])
        THEN [i \in DOMAIN slots |-> IF Same(slots[i][1], k[1]) THEN Append(slots[i], k[1]) ELSE slots[i]]
        ELSE Append(slots, <<k[1]>>)
  IN FoldLeft(Add, <<>>, list)
Parallel(slot) == ParallelGroup[slot[1]] # "none"

Kind(a, b) == IF Parallel(a) THEN "fan-in" ELSE IF Parallel(b) THEN "fan-out" ELSE "sequential"

\* Defect: only adjacent slots are connected.
AdjacentEdges(slots) ==
  UNION {{[from |-> slots[i][a], to |-> slots[i + 1][b], kind |-> Kind(slots[i], slots[i + 1]),
           at |-> <<i, a, i + 1, b>>] : a \in DOMAIN slots[i], b \in DOMAIN slots[i + 1]} :
         i \in 1..(Len(slots) - 1)}

(* computeLayout, pass 1 and 2; "at" tells the tuples of the list apart.        *)
TopEdges(slots) ==
  LET Between(i, j) == {[from |-> slots[i][a], to |-> slots[j][b], kind |-> Kind(slots[i], slots[j]),
                         at |-> <<i, a, j, b>>] : a \in DOMAIN slots[i], b \in DOMAIN slots[j]}
      pairs == {p \in (DOMAIN slots) \X (DOMAIN slots) :
                  \/ p[2] = p[1] + 1
                  \/ p[2] > p[1] + 1 /\ ~Parallel(slots[p[2]]) /\ Parallel(slots[p[1]])}
  IN UNION {Between(p[1], p[2]) : p \in pairs}

(* groupEdges: a bus for each destination with several edges, of what is left   *)
(* a bus for each source with several, of what is left single lines.            *)
FanIns(edges) ==
  LET Eligible(d) == {e \in edges : e.to = d /\ (e.kind = "fan-in" \/ \E f \in edges : f # e /\ f.to = d)}
      dests == {d \in {e.to : e \in edges} : Cardinality(Eligible(d)) > 1}
  IN {Eligible(d) : d \in dests}
FanOuts(edges, used) ==
  LET Eligible(s) == {e \in edges \ used : e.from = s /\
                        (e.kind = "fan-out" \/ \E f \in edges : f # e /\ f.from = s)}
      sources == {s \in {e.from : e \in edges} : Cardinality(Eligible(s)) > 1}
  IN {Eligible(s) : s \in sources}
Units(edges) ==
  LET ins == FanIns(edges)
      outs == FanOuts(edges, UNION ins)
  IN ins \union outs \union {{e} : e \in edges \ UNION (ins \union outs)}

(* nodeProducesEdges: by the last node of the name in the list.                 *)
Produces(list, n) ==
  LET last == list[Max({i \in DOMAIN list : list[i][1] = n})]
  IN last[2] >= 0 /\ rows[last].status \notin Bad

(* What is drawn of a unit: the spurs of a bus that the topology declares.      *)
Drawn(unit) ==
  LET froms == {e.from : e \in unit}
      tos == {e.to : e \in unit}
      keep == {f \in froms : \E t \in tos : <<f, t>> \in Edges}
      reach == {t \in tos : \E f \in froms : <<f, t>> \in Edges}
  IN keep \X reach
DrawnUnits(list) ==
  LET edges == {e \in TopEdges(Slots(list)) : Produces(list, e.from)}
  IN {Drawn(u) : u \in Units(edges)} \ {{}}

-------------------------------------------------------------------------------
(* Properties.                                                                 *)

Branches == {v \in Versions \ {0} : ForkRows(v) # {}}

(* Every row a branch rests on, through any number of predecessors and shared   *)
(* siblings, is on the page, which takes the predecessors of the forked row     *)
(* alone and finds the others by group and alignment. (A branch that shares a   *)
(* sibling made after an older version of its own predecessor mixes two         *)
(* versions of that one, and the page misses the sibling.)                      *)
Reachable(v) == PrevClosure(OfVersion(v))
Mixed(v) == \E a, b \in Reachable(v) : a[1] = b[1] /\ a # b
BranchIsClosed == \A v \in Branches : Mixed(v) \/ Reachable(v) \subseteq Included(v)

(* What is drawn are the edges of the graph between shown nodes, except those   *)
(* that leave a placeholder or a failed node: none is missing because slots are *)
(* not adjacent, none appears because a bus is wider than its edges, and none   *)
(* is drawn twice. (A continuation without the branch it continues, which only   *)
(* the original version of a cancelled thread can show, breaks the order.)      *)
WithTheirBranch(v) == \A n \in ShownNames(v) : AlignWith[n] \in ShownNames(v) \union {"none"}
EdgesAreTheGraph ==
  \A v \in {w \in Versions : OfVersion(w) # {} /\ WithTheirBranch(w)} :
    \A list \in {Shown(v)} : \A units \in {DrawnUnits(list)} :
      LET names == {list[i][1] : i \in DOMAIN list}
      IN /\ UNION units = {<<a, b>> \in Edges : a \in names /\ b \in names /\ Produces(list, a)}
         /\ \A e \in UNION units : Cardinality({u \in units : e \in u}) = 1

(* A node that the run starts next, after a predecessor that completed, is on   *)
(* the page of the version that runs: as a row, or as a placeholder when no      *)
(* version of the thread has reached it before.                                 *)
NextIsVisible ==
  run = "nodes" => \A n \in snap.next :
    (/\ VersionsOf(n) = {}
     /\ \E k \in Included(snap.gen) : n \in Succ(k[1]) /\ rows[k].status = "completed")
      => n \in Ghosts(snap.gen)
===============================================================================
