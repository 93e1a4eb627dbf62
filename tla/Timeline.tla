------------------------------- MODULE Timeline -------------------------------
(* The timeline of the nodes of a version (frontend/src/components/NodeTimeline):*)
(* the span of a node with its tasks, the lanes and the overlap marks of a row   *)
(* of bars, the compressed gaps and the scale from time to position.             *)
(*                                                                              *)
(* Times are small natural numbers. There is no subgraph in the compiled graph,  *)
(* so the only row of bars is the one of all nodes; placeholders are filtered    *)
(* out before (index.tsx:40). Positions are integers: with g gaps and an         *)
(* activity of a units, 100 % is 200 * a * Fractions, and a gap takes            *)
(* GAP_VISUAL_PCT = 2.5 %, that is 5 * a * Fractions of it.                      *)
EXTENDS Integers, Sequences, FiniteSets, SequencesExt

CONSTANTS MaxTime,      \* bound: the last moment
          MaxNodes,     \* bound: nodes of the row
          MaxTasks,     \* bound: tasks of all nodes
          GapThreshold, \* GAP_THRESHOLD_MS
          Fractions     \* a multiple of the length of every possible gap
ASSUME TimesAreNatural ==
  MaxTime \in Nat /\ MaxNodes \in Nat /\ MaxTasks \in Nat /\ GapThreshold \in Nat
ASSUME GapsDivide == Fractions \in Nat \ {0} /\ \A g \in 1..MaxTime : Fractions % g = 0

Times == 0..MaxTime
Spans == {s \in [start : Times, end : Times] : s.start <= s.end}

VARIABLES nodes,   \* the rows, by started_at: started_at .. started_at + elapsed_ms
          tasks    \* <<node, span>>: created_at .. updated_at of a task
barVars == <<nodes, tasks>>

TimelineInit == nodes = <<>> /\ tasks = {}

(* The rows come ordered by started_at; a row that runs has elapsed_ms 0.        *)
NodeRow(s) ==
  /\ Len(nodes) < MaxNodes
  /\ nodes # <<>> => nodes[Len(nodes)].start <= s.start
  /\ nodes' = Append(nodes, s) /\ UNCHANGED tasks

(* A task is created while its node runs; a late worker may update it after the  *)
(* node has ended.                                                               *)
TaskRow(s) ==
  /\ nodes # <<>> /\ Cardinality(tasks) < MaxTasks /\ nodes[Len(nodes)].start <= s.start
  /\ tasks' = tasks \union {<<Len(nodes), s>>} /\ UNCHANGED nodes

TimelineNext == \E s \in Spans : NodeRow(s) \/ TaskRow(s)

-------------------------------------------------------------------------------
(* buildEffectiveSpans: the node and all of its tasks.                           *)
Effective == [i \in DOMAIN nodes |->
  LET all == {nodes[i]} \union {t[2] : t \in {u \in tasks : u[1] = i}}
  IN [start |-> Min({s.start : s \in all}), end |-> Max({s.end : s \in all})]]

ByStart(spans) == SortSeq(spans, LAMBDA a, b : a.start < b.start)

\* Defect: a lane is free when the last bar of it has begun.
FreeEarly(lane, s) == lane = <<>> \/ lane[Len(lane)].start < s.start

(* assignLanes: by start, into the first lane that is free at the start.         *)
Free(lane, s) == lane = <<>> \/ lane[Len(lane)].end <= s.start
Lanes(spans) ==
  LET Put(lanes, s) ==
        LET free == {i \in DOMAIN lanes : Free(lanes[i], s)}
        IN IF free = {} THEN Append(lanes, <<s>>)
           ELSE [lanes EXCEPT ![Min(free)] = Append(@, s)]
  IN FoldLeft(Put, <<>>, ByStart(spans))

\* Defect: the joined bar ends where the later one ends.
JoinedShort(list, slack) ==
  LET Join(merged, s) ==
        IF merged # <<>> /\ s.start <= merged[Len(merged)].end + slack
        THEN [merged EXCEPT ![Len(merged)].end = s.end]
        ELSE Append(merged, s)
  IN FoldLeft(Join, <<>>, list)

(* Bars or rectangles joined while the next one begins at most "slack" later.    *)
Joined(list, slack) ==
  LET Join(merged, s) ==
        IF merged # <<>> /\ s.start <= merged[Len(merged)].end + slack
        THEN [merged EXCEPT ![Len(merged)].end = Max({@, s.end})]
        ELSE Append(merged, s)
  IN FoldLeft(Join, <<>>, list)

(* buildOverlapRects: the intersections of all pairs of bars.                    *)
Overlaps(spans) ==
  LET pairs == {p \in (DOMAIN spans) \X (DOMAIN spans) : p[1] < p[2]}
      cuts == {[start |-> Max({spans[p[1]].start, spans[p[2]].start}),
                end |-> Min({spans[p[1]].end, spans[p[2]].end})] : p \in pairs}
      raw == SetToSortSeq({c \in cuts : c.start < c.end}, LAMBDA a, b : a.start < b.start)
  IN Joined(raw, 0)

TMin(spans) == Min({spans[i].start : i \in DOMAIN spans})
TotalMs(spans) == Max({1, Max({spans[i].end : i \in DOMAIN spans}) - TMin(spans)})

(* gaps: between consecutive clusters of activity, if longer than the threshold. *)
Gaps(spans) ==
  IF Len(spans) <= 1 THEN <<>>
  ELSE LET t0 == TMin(spans)
           shifted == [i \in DOMAIN spans |-> [start |-> spans[i].start - t0, end |-> spans[i].end - t0]]
           merged == Joined(ByStart(shifted), 1)
           between == [i \in 1..(Len(merged) - 1) |-> [start |-> merged[i].end, end |-> merged[i + 1].start]]
       IN SelectSeq(between, LAMBDA g : g.end - g.start > GapThreshold)

GapTime(gaps) == FoldLeft(LAMBDA sum, g : sum + (g.end - g.start), 0, gaps)

Activity(gaps, total) == Max({1, total - GapTime(gaps)})
Full(gaps, total) == IF gaps = <<>> THEN total ELSE 200 * Activity(gaps, total) * Fractions

\* Defect: after a gap only its own time is left out, not its width.
PctWithoutGaps(gaps, total, ms) ==
  LET wide == (200 - 5 * Len(gaps)) * Fractions
      passed == {i \in DOMAIN gaps : gaps[i].start < ms}
  IN IF gaps = <<>> \/ passed = {} THEN ms * (IF gaps = <<>> THEN 1 ELSE wide)
     ELSE (ms - GapTime(SubSeq(gaps, 1, Max(passed)))) * wide

(* pct: the position of the moment ms, relative to tMin, in a timeline of total  *)
(* length; without gaps 100 % is the length itself.                              *)
Pct(gaps, total, ms) ==
  LET wide == (200 - 5 * Len(gaps)) * Fractions      \* of one unit of activity
      narrow == 5 * Activity(gaps, total) * Fractions  \* of one gap
      passed == {i \in DOMAIN gaps : gaps[i].start < ms}
      i == Max(passed)
      length == gaps[i].end - gaps[i].start
      before == (gaps[i].start - GapTime(SubSeq(gaps, 1, i - 1))) * wide + (i - 1) * narrow
  IN IF gaps = <<>> THEN ms
     ELSE IF passed = {} THEN ms * wide
     ELSE IF ms < gaps[i].end THEN before + ((ms - gaps[i].start) * narrow) \div length
     ELSE before + narrow + (ms - gaps[i].end) * wide

-------------------------------------------------------------------------------
(* Properties.                                                                  *)

Depth(spans, t) == Cardinality({i \in DOMAIN spans : spans[i].start <= t /\ t < spans[i].end})

(* Overlapping bars stay visible: two bars of one lane never overlap; when every *)
(* bar has a length there are no more lanes than bars at the busiest moment      *)
(* (utils.ts:124-127); and the marks of the collapsed row cover exactly the time *)
(* in which two bars run.                                                        *)
OverlapsAreShown ==
  LET spans == Effective
      lanes == Lanes(spans)
      marks == Overlaps(spans)
  IN /\ \A l \in DOMAIN lanes : \A i \in 1..(Len(lanes[l]) - 1) : lanes[l][i].end <= lanes[l][i + 1].start
     /\ (nodes # <<>> /\ \A i \in DOMAIN spans : spans[i].start < spans[i].end)
          => Len(lanes) = Max({Depth(spans, t) : t \in Times})
     /\ \A t \in Times : Depth(spans, t) >= 2 <=> Depth(marks, t) = 1

(* The scale is faithful: it never runs backwards, it keeps every moment on the  *)
(* track, nothing happens in a compressed gap, and two stretches of activity of  *)
(* one length get one width.                                                     *)
ScaleIsFaithful == nodes # <<>> =>
  LET spans == Effective
      gaps == Gaps(spans)
      total == TotalMs(spans)
      pct == [ms \in 0..total |-> Pct(gaps, total, ms)]
      Inside(ms) == \E i \in DOMAIN gaps : gaps[i].start <= ms /\ ms < gaps[i].end
      busy == {ms \in 0..(total - 1) : ~Inside(ms)}
      widths == {pct[ms + 1] - pct[ms] : ms \in busy}
  IN /\ pct[0] = 0 /\ pct[total] <= Full(gaps, total)
     /\ \A ms \in 1..total : pct[ms - 1] < pct[ms]
     /\ \A t \in Times : Inside(t - TMin(spans)) => Depth(spans, t) = 0
     /\ Cardinality(widths) <= 1
===============================================================================
