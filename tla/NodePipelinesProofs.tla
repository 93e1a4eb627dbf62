------------------------- MODULE NodePipelinesProofs -------------------------
(* Proofs about NodePipelines, for every set of nodes, fans of any width and     *)
(* any budget of stops, reruns, pauses, failures and jobs that outlive a stop.   *)
(*                                                                             *)
(* The invariant: a caller that is not at its look-up is at the call its node    *)
(* makes next (CallOK); a job of this run belongs to that call or to an earlier  *)
(* one (JobOK), and so does the row it made (IdOK); a running row has a caller   *)
(* that will settle it or whose job will (Attended); in a first run every row is *)
(* claimed, so that nothing is reused (First); and in a first rerun a row that   *)
(* nobody claimed holds an answer to its own input or none (Pure).               *)
EXTENDS NodePipelines, TLAPS

Step(task) ==
  CASE task \in {"calculate_stats", "get_stock_from_web_if_not_seen"} -> 1
    [] task = "analyze_stock_from_web_if_not_seen" -> 2
    [] OTHER -> 0

Listed(s) == s \in Seq({s[i] : i \in DOMAIN s})
Long(s) == Listed(s) /\ Len(s) = 5

CallFields == {"pc", "task", "input", "row", "mail", "got"}
RowFields == {"task", "status", "in0", "out"}
JobFields == {"run", "to", "row", "task", "input", "pc", "out"}
Sent == {"await", "write", "failed"}
PCs == {"lookup", "read", "reset", "create"} \union Sent
Settled == {"completed", "failed", "paused"}

NodeTypes ==
  /\ DOMAIN node = {"name", "status", "run", "fan", "crashed"}
  /\ node.status \in {"running", "completed", "failed", "paused", "stopped"}
  /\ node.run \in Nat /\ node.fan \in BOOLEAN /\ node.crashed \in BOOLEAN
CallTypes ==
  \A c \in Callers : DOMAIN call[c] = CallFields /\ call[c].pc \in PCs /\ Listed(call[c].got)
RowTypes ==
  \A r \in RowIds : DOMAIN rows[r] = RowFields /\ rows[r].status \in {"running"} \union Settled
JobTypes ==
  \A j \in jobs : DOMAIN j = JobFields /\ j.pc \in {"work", "write"} /\ j.run \in Nat
Types == NodeTypes /\ CallTypes /\ RowTypes /\ JobTypes

(* A caller and the call it is at.                                               *)
CallOK(c) ==
  /\ call[c].pc = "lookup" => call[c].mail = NoOut
  /\ call[c].pc # "lookup" =>
       /\ NextCall(c) # NoCall /\ NextCall(c) = Ask(call[c].task, call[c].input)
       /\ call[c].row \in RowIds /\ rows[call[c].row].task = call[c].task
  /\ call[c].mail \notin {NoOut, Failure} => TaskCompletes(call[c].task)
  /\ call[c].pc = "write" => call[c].mail \notin {NoOut, Failure}

Fan ==
  /\ Main \in Callers
  /\ Busy /\ ~node.fan => Callers = {Main}
  /\ Busy /\ node.fan => Finished(Main)
  /\ \A c \in Children : Long(c)
  /\ node.status \in {"completed", "failed"} => \A c \in Children : Ended(c)

(* A job of this run was sent by an earlier call of its caller, or by this one.   *)
Got(c) == Len(call[c].got)
JobOK(j) ==
  /\ j.run <= node.run /\ j.row \in RowIds
  /\ j.pc = "write" => j.out \in {Failure} \union AnswersOf(j.task, j.input) /\ WorkerPersists(j.task)
  /\ Busy /\ j.run = node.run =>
       /\ j.to \in Callers
       /\ \/ Step(j.task) < Got(j.to)
          \/ /\ Step(j.task) = Got(j.to) /\ call[j.to].pc \in Sent
             /\ j.task = call[j.to].task /\ j.input = call[j.to].input /\ j.row = call[j.to].row
IdOK(r) ==
  /\ r[2] \in Nat /\ r[2] <= node.run
  /\ Busy /\ r[2] = node.run =>
       /\ r[3] \in Callers
       /\ \/ Step(r[1]) < Got(r[3])
          \/ Step(r[1]) = Got(r[3]) /\ call[r[3]].pc \in Sent

(* Somebody will settle a running row: the caller, whose answer is not being      *)
(* written already.                                                              *)
Writing(c) == \E j \in jobs : j.pc = "write" /\ j.run = node.run /\ j.to = c /\ j.task = call[c].task
Holds(c, r) ==
  /\ call[c].row = r
  /\ call[c].pc = "create" \/ (call[c].pc = "await" /\ ~Writing(c))
Attended ==
  ~node.crashed => \A r \in RowIds : rows[r].status = "running" =>
    Busy /\ \E c \in Callers : Holds(c, r)

(* A first run claims every row it makes and reuses none.                         *)
OwnRow(c) ==
  /\ call[c].pc \in Sent
  /\ call[c].row = FreshId(c, call[c].task)
  /\ rows[call[c].row].in0 = Payload(call[c].task, call[c].input)
  /\ call[c].pc \in {"write", "failed"} => rows[call[c].row].status # "running"
First ==
  node.run = 0 =>
    /\ Busy => RowIds \subseteq ctx
    /\ \A c \in Callers : call[c].pc # "lookup" => OwnRow(c)

(* A row whose jobs and whose output are about its own input.                     *)
Pure(r) ==
  /\ \A j \in jobs : j.row = r => j.task = rows[r].task /\ rows[r].in0 = Payload(j.task, j.input)
  /\ rows[r].task = "calculate_stats" =>
       rows[r].out \in {NoOut, Failure, <<"calculate_stats">> \o rows[r].in0}
LongInputs == \A r \in RowIds : rows[r].task = "get_stats" => Long(rows[r].in0)
Reads1(c) ==
  /\ Pure(call[c].row) /\ rows[call[c].row].in0 = call[c].input
  /\ call[c].row \notin ctx => rows[call[c].row].status = "completed"
  /\ \A d \in Callers : call[d].row = call[c].row /\ call[d].pc \in {"reset", "create"} =>
       call[d].input = call[c].input
Reuse(c) ==
  /\ call[c].pc = "create" => call[c].row \in ctx
  /\ call[c].pc \in {"read", "reset"} /\ call[c].row \notin ctx => rows[call[c].row].status # "running"
  /\ call[c].pc = "reset" /\ call[c].row \notin ctx /\ rows[call[c].row].status = "completed" =>
       rows[call[c].row].in0 = call[c].input
  /\ call[c].pc = "read" => Reads1(c)
Reused ==
  /\ node.run = 0 => \A r \in RowIds : Pure(r)
  /\ Busy /\ node.run = 1 =>
       /\ \A r \in RowIds \ ctx : Pure(r)
       /\ \A c \in Callers : Reuse(c)

Calls == \A c \in Callers : CallOK(c)
Jobs == \A j \in jobs : JobOK(j)
Ids == \A r \in RowIds : IdOK(r)

IInv == Types /\ Fan /\ Calls /\ Jobs /\ Ids /\ Attended /\ First /\ LongInputs /\ Reused /\ OwnAnswers

-----------------------------------------------------------------------------
(* Sequences. *)

LEMMA SeqListed ==
  ASSUME NEW S, NEW t \in Seq(S)
  PROVE  Listed(t)
<1> DEFINE T == {t[i] : i \in DOMAIN t}
<1>1. t \in [1..Len(t) -> T] /\ Len(t) \in Nat
  <2>1. t \in [1..Len(t) -> S] /\ Len(t) \in Nat OBVIOUS
  <2> QED BY <2>1
<1>2. \E n \in Nat : t \in [1..n -> T] BY <1>1
<1> HIDE DEF T
<1>3. t \in Seq(T) BY <1>2
<1> QED BY <1>3 DEF T, Listed

LEMMA Appending ==
  ASSUME NEW s, NEW e, Listed(s)
  PROVE  Listed(Append(s, e)) /\ Len(Append(s, e)) = Len(s) + 1 /\ Len(s) \in Nat
<1> DEFINE S == {s[i] : i \in DOMAIN s} \union {e}
<1>1. s \in Seq(S) /\ e \in S BY DEF Listed
<1> HIDE DEF S
<1>2. Append(s, e) \in Seq(S) /\ Len(Append(s, e)) = Len(s) + 1 /\ Len(s) \in Nat BY <1>1
<1> QED BY <1>2, SeqListed

LEMMA EmptyList == Listed(<<>>) /\ Len(<<>>) = 0
<1>1. <<>> \in Seq({<<>>[i] : i \in DOMAIN <<>>}) OBVIOUS
<1> QED BY <1>1 DEF Listed

-----------------------------------------------------------------------------
(* The calls a node makes. *)

(* The place of a call is the number of answers before it.                        *)
LEMMA MainPlace ==
  ASSUME NEW got, Listed(got), MainCall(got) # NoCall
  PROVE  \E t, i : MainCall(got) = Ask(t, i) /\ Step(t) = Len(got)
<1>1. Len(got) \in Nat /\ (got = <<>> => Len(got) = 0) BY EmptyList, Appending
<1>2. QueryCall(got) # NoCall => \E t, i : QueryCall(got) = Ask(t, i) /\ Step(t) = Len(got)
  BY <1>1 DEF QueryCall, Step
<1>3. ASSUME NEW t, NEW i, Once(got, t, i) # NoCall, Step(t) = 0
      PROVE  \E u, k : Once(got, t, i) = Ask(u, k) /\ Step(u) = Len(got)
  BY <1>1, <1>3 DEF Once
<1>4. \A t \in {"prepare_options_requests", "prepare_futures_requests", "propose_index", "propose_peers"} : Step(t) = 0
  BY DEF Step
<1>5. OptionsCall(got) # NoCall => \E t, i : OptionsCall(got) = Ask(t, i) /\ Step(t) = Len(got)
  BY <1>3, <1>4 DEF OptionsCall
<1>6. FuturesCall(got) # NoCall => \E t, i : FuturesCall(got) = Ask(t, i) /\ Step(t) = Len(got)
  BY <1>3, <1>4 DEF FuturesCall
<1>7. IndexCall(got) # NoCall => \E t, i : IndexCall(got) = Ask(t, i) /\ Step(t) = Len(got)
  BY <1>3, <1>4 DEF IndexCall
<1>8. PeersCall(got) # NoCall => \E t, i : PeersCall(got) = Ask(t, i) /\ Step(t) = Len(got)
  BY <1>3, <1>4 DEF PeersCall
<1> QED BY <1>2, <1>5, <1>6, <1>7, <1>8 DEF MainCall

LEMMA SeqPlace ==
  ASSUME NEW item, NEW got, Listed(got), SeqCall(item, got) # NoCall
  PROVE  \E t \in {"get_stats", "calculate_stats"} : \E i : SeqCall(item, got) = Ask(t, i) /\ Step(t) = Len(got)
  BY DEF SeqCall, Step

LEMMA Place ==
  ASSUME Types, NEW c \in Callers, NextCall(c) # NoCall
  PROVE  \E t, i : NextCall(c) = Ask(t, i) /\ Step(t) = Got(c)
  BY MainPlace, SeqPlace DEF NextCall, Got, Types, NodeTypes, CallTypes, RowTypes, JobTypes

LEMMA SameCall ==
  ASSUME NEW c, world' = world, node'.name = node.name, call'[c].got = call[c].got
  PROVE  NextCall(c)' = NextCall(c)
  BY DEF NextCall, MainCall, QueryCall, OptionsCall, FuturesCall, IndexCall, PeersCall, Once, Ask, NoCall, SeqCall

-----------------------------------------------------------------------------
(* What a step does to one caller and to one row. *)

Moves(c, p, t, i, r, m, g) ==
  /\ Callers' = Callers
  /\ \A d \in Callers : d # c => call'[d] = call[d]
  /\ DOMAIN call'[c] = CallFields
  /\ call'[c].pc = p /\ call'[c].task = t /\ call'[c].input = i
  /\ call'[c].row = r /\ call'[c].mail = m /\ call'[c].got = g
Goes(c, p) == Moves(c, p, call[c].task, call[c].input, call[c].row, call[c].mail, call[c].got)
Delivered(c, out) == Moves(c, "lookup", "none", <<>>, NoId, NoOut, Append(call[c].got, out))
Raised(c) == Moves(c, "failed", call[c].task, call[c].input, call[c].row, NoOut, call[c].got)

RowTo(r, t, s, x, o) ==
  /\ RowIds' = RowIds \union {r}
  /\ \A y \in RowIds : y # r => rows'[y] = rows[y]
  /\ DOMAIN rows'[r] = RowFields
  /\ rows'[r].task = t /\ rows'[r].status = s /\ rows'[r].in0 = x /\ rows'[r].out = o
Ends(r, s) ==
  RowTo(r, rows[r].task, IF rows[r].status = "running" THEN s ELSE rows[r].status, rows[r].in0, rows[r].out)
Writes(r, o) == RowTo(r, rows[r].task, rows[r].status, rows[r].in0, o)

NodeTo(s) ==
  /\ DOMAIN node' = DOMAIN node
  /\ node'.name = node.name /\ node'.run = node.run /\ node'.fan = node.fan /\ node'.crashed = node.crashed
  /\ node'.status = s
RaisedTo(c, s) == NodeTo(IF c = Main THEN s ELSE node.status)

LEMMA Moving ==
  ASSUME NEW c \in Callers, NEW q, DOMAIN q = CallFields, call' = [call EXCEPT ![c] = q]
  PROVE  Moves(c, q.pc, q.task, q.input, q.row, q.mail, q.got)
  BY DEF Moves, Callers

LEMMA Going ==
  ASSUME Types, NEW c \in Callers, NEW p, Goto(c, p)
  PROVE  Goes(c, p)
<1> DEFINE q == [call[c] EXCEPT !.pc = p]
<1>1. call' = [call EXCEPT ![c] = q] BY DEF Goto, Callers
<1>2. /\ DOMAIN q = CallFields /\ q.pc = p /\ q.task = call[c].task /\ q.input = call[c].input
      /\ q.row = call[c].row /\ q.mail = call[c].mail /\ q.got = call[c].got
  BY DEF Types, NodeTypes, CallTypes, RowTypes, JobTypes, CallFields
<1> HIDE DEF q
<1> QED BY <1>1, <1>2, Moving DEF Goes

LEMMA Delivering ==
  ASSUME NEW c \in Callers, NEW out, Deliver(c, out)
  PROVE  Delivered(c, out)
<1> DEFINE q == [Fresh EXCEPT !.got = Append(call[c].got, out)]
<1>1. call' = [call EXCEPT ![c] = q] BY DEF Deliver
<1>2. /\ DOMAIN q = CallFields /\ q.pc = "lookup" /\ q.task = "none" /\ q.input = <<>>
      /\ q.row = NoId /\ q.mail = NoOut /\ q.got = Append(call[c].got, out)
  BY DEF Fresh, CallFields
<1> HIDE DEF q
<1> QED BY <1>1, <1>2, Moving DEF Delivered

LEMMA Raising ==
  ASSUME Types, NEW c \in Callers, NEW s, Raise(c, s)
  PROVE  Raised(c) /\ RaisedTo(c, s)
<1> DEFINE q == [call[c] EXCEPT !.pc = "failed", !.mail = NoOut]
<1>1. call' = [call EXCEPT ![c] = q] BY DEF Raise, Callers
<1>2. /\ DOMAIN q = CallFields /\ q.pc = "failed" /\ q.task = call[c].task /\ q.input = call[c].input
      /\ q.row = call[c].row /\ q.mail = NoOut /\ q.got = call[c].got
  BY DEF Types, NodeTypes, CallTypes, RowTypes, JobTypes, CallFields
<1>3. RaisedTo(c, s) BY DEF Raise, RaisedTo, NodeTo, Types, NodeTypes, CallTypes, RowTypes, JobTypes
<1> HIDE DEF q
<1> QED BY <1>1, <1>2, <1>3, Moving DEF Raised

LEMMA Settling ==
  ASSUME Types, NEW r \in RowIds, NEW s, rows' = Settle(r, s)
  PROVE  Ends(r, s)
<1>1. CASE Unsettled(r)
  <2>1. rows' = [rows EXCEPT ![r].status = s] BY <1>1 DEF Settle
  <2> QED BY <2>1, <1>1 DEF Ends, RowTo, Types, NodeTypes, CallTypes, RowTypes, JobTypes, RowIds, RowFields, Unsettled
<1>2. CASE ~Unsettled(r)
  BY <1>2 DEF Settle, Ends, RowTo, Types, NodeTypes, CallTypes, RowTypes, JobTypes, RowIds, Unsettled
<1> QED BY <1>1, <1>2

LEMMA WritingOut ==
  ASSUME Types, NEW r \in RowIds, NEW o, rows' = [rows EXCEPT ![r].out = o]
  PROVE  Writes(r, o)
  BY DEF Writes, RowTo, Types, NodeTypes, CallTypes, RowTypes, JobTypes, RowIds, RowFields

(* create_task and the job that is sent, for a caller with its call.              *)
Job(j, c, t, i, r) ==
  /\ DOMAIN j = JobFields /\ j.run = node.run /\ j.to = c /\ j.row = r /\ j.task = t /\ j.input = i
  /\ j.pc = "work"
Made(c, t, i, r) ==
  /\ IF r \in RowIds THEN RowTo(r, rows[r].task, rows[r].status, Payload(t, i), rows[r].out)
     ELSE RowTo(r, t, "running", Payload(t, i), NoOut)
  /\ \E m : /\ m = call[c].mail \/ TaskCompletes(t)
            /\ Moves(c, "await", t, i, r, m, call[c].got)
  /\ jobs' = jobs \/ \E j : jobs' = jobs \union {j} /\ Job(j, c, t, i, r)

LEMMA Making ==
  ASSUME Types, NEW c \in Callers, NEW t, NEW i, NEW r, Create(c, Ask(t, i), r)
  PROVE  Made(c, t, i, r)
<1>0. Ask(t, i).task = t /\ Ask(t, i).input = i BY DEF Ask
<1> DEFINE q == [call[c] EXCEPT !.pc = "await", !.task = t, !.input = i, !.row = r]
           j == [run |-> node.run, to |-> c, row |-> r, task |-> t, input |-> i, pc |-> "work", out |-> NoOut]
           x == Payload(t, i)
<1>1. rows' = IF r \in RowIds THEN [rows EXCEPT ![r].in0 = x]
              ELSE [y \in RowIds \union {r} |-> IF y \in RowIds THEN rows[y]
                    ELSE [task |-> t, status |-> "running", in0 |-> x, out |-> NoOut]]
  BY <1>0 DEF Create
<1>2. \/ jobs' = jobs /\ t \in InProcess /\ \E m : call' = [call EXCEPT ![c] = [q EXCEPT !.mail = m]]
      \/ jobs' = jobs \union {j} /\ call' = [call EXCEPT ![c] = q]
  BY <1>0 DEF Create
<1>3. /\ DOMAIN q = CallFields /\ q.pc = "await" /\ q.task = t /\ q.input = i
      /\ q.row = r /\ q.mail = call[c].mail /\ q.got = call[c].got
  BY DEF Types, NodeTypes, CallTypes, RowTypes, JobTypes, CallFields
<1>4. Job(j, c, t, i, r) BY DEF Job, JobFields
<1> HIDE DEF q, j, x
<1>5. ASSUME r \in RowIds PROVE RowTo(r, rows[r].task, rows[r].status, x, rows[r].out)
  BY <1>1, <1>5 DEF RowTo, Types, NodeTypes, CallTypes, RowTypes, JobTypes, RowIds, RowFields
<1>6. ASSUME r \notin RowIds PROVE RowTo(r, t, "running", x, NoOut)
  BY <1>1, <1>6 DEF RowTo, RowIds, RowFields
<1>7. \E m : (m = call[c].mail \/ TaskCompletes(t)) /\ Moves(c, "await", t, i, r, m, call[c].got)
  <2>1. CASE t \in InProcess /\ \E m : call' = [call EXCEPT ![c] = [q EXCEPT !.mail = m]]
    <3>1. PICK m : call' = [call EXCEPT ![c] = [q EXCEPT !.mail = m]] BY <2>1
    <3> DEFINE u == [q EXCEPT !.mail = m]
    <3>2. /\ DOMAIN u = CallFields /\ u.pc = "await" /\ u.task = t /\ u.input = i
          /\ u.row = r /\ u.mail = m /\ u.got = call[c].got
      BY <1>3 DEF CallFields
    <3>3. call' = [call EXCEPT ![c] = u] BY <3>1
    <3> HIDE DEF u
    <3>4. Moves(c, "await", t, i, r, m, call[c].got) BY <3>2, <3>3, Moving
    <3> QED BY <3>4, <2>1 DEF TaskCompletes
  <2>2. CASE call' = [call EXCEPT ![c] = q] BY <2>2, <1>3, Moving
  <2> QED BY <2>1, <2>2, <1>2
<1> QED BY <1>2, <1>4, <1>5, <1>6, <1>7 DEF Made, x

-----------------------------------------------------------------------------
(* The steps of a caller, without their records. *)

Here(c, p) == Busy /\ c \in Callers /\ call[c].pc = p /\ world' = world
Idle == node' = node /\ ctx' = ctx /\ rows' = rows /\ jobs' = jobs

Took(c, q, r) ==
  /\ r \in RowIds \ ctx /\ rows[r].task = q.task /\ rows[r].status \in Settled
  /\ rows[r].status = "completed" => rows[r].in0 = q.input
  /\ Moves(c, IF rows[r].status = "completed" THEN "read" ELSE "reset", q.task, q.input, r,
           call[c].mail, call[c].got)

LEMMA LookUpIs ==
  ASSUME Types, NEW c \in Callers, LookUp(c), NEW t, NEW i, NextCall(c) = Ask(t, i)
  PROVE  /\ Here(c, "lookup") /\ NextCall(c) # NoCall
         /\ \/ Idle /\ \E r : Took(c, Ask(t, i), r)
            \/ /\ node' = node /\ ctx' = ctx \union {FreshId(c, t)} /\ Made(c, t, i, FreshId(c, t))
<1> DEFINE q == NextCall(c)
<1>0. q.task = t /\ q.input = i BY DEF Ask
<1>1. Here(c, "lookup") /\ q # NoCall /\ node' = node BY DEF LookUp, Here, AtCall
<1>2. PICK r \in Existing(q.task, q.input) :
        IF Reusable(r)
        THEN /\ call' = [call EXCEPT ![c].task = q.task, ![c].input = q.input, ![c].row = r,
                                     ![c].pc = IF rows[r].status = "completed" THEN "read" ELSE "reset"]
             /\ UNCHANGED <<ctx, rows, jobs>>
        ELSE Claim(FreshId(c, q.task)) /\ Create(c, q, FreshId(c, q.task))
  BY DEF LookUp
<1>3. CASE Reusable(r)
  <2>1. r \in RowIds \ ctx /\ rows[r].task = q.task /\ rows[r].status \in Settled
        /\ (rows[r].status = "completed" => rows[r].in0 = q.input)
    BY <1>2, <1>3 DEF Existing, Reusable, Settled
  <2> DEFINE p == IF rows[r].status = "completed" THEN "read" ELSE "reset"
             u == [call[c] EXCEPT !.task = q.task, !.input = q.input, !.row = r, !.pc = p]
  <2>2. call' = [call EXCEPT ![c] = u] BY <1>2, <1>3 DEF Callers
  <2>3. /\ DOMAIN u = CallFields /\ u.pc = p /\ u.task = q.task /\ u.input = q.input
        /\ u.row = r /\ u.mail = call[c].mail /\ u.got = call[c].got
    BY DEF Types, NodeTypes, CallTypes, RowTypes, JobTypes, CallFields
  <2> HIDE DEF u
  <2>4. Moves(c, p, q.task, q.input, r, call[c].mail, call[c].got) BY <2>2, <2>3, Moving
  <2>5. Took(c, Ask(t, i), r) BY <2>1, <2>4 DEF Took
  <2>6. Idle BY <1>1, <1>2, <1>3 DEF Idle
  <2> QED BY <1>1, <2>5, <2>6
<1>4. CASE ~Reusable(r)
  <2>1. Create(c, Ask(t, i), FreshId(c, t)) /\ ctx' = ctx \union {FreshId(c, t)}
    BY <1>0, <1>2, <1>4 DEF Claim
  <2> QED BY <1>1, <2>1, Making
<1> QED BY <1>3, <1>4

LEMMA ReadCachedIs ==
  ASSUME Types, NEW c \in Callers, ReadCached(c)
  PROVE  /\ Here(c, "read")
         /\ LET out == rows[call[c].row].out IN
            \/ Idle /\ Goes(c, "reset") /\ out = NoOut
            \/ /\ rows' = rows /\ jobs' = jobs /\ ctx' = ctx \union {call[c].row}
               /\ \/ Raised(c) /\ RaisedTo(c, "failed")
                  \/ /\ node' = node /\ Delivered(c, out) /\ out # NoOut
                     /\ out = Failure => call[c].task \in AllDefaults
  BY Going, Raising, Delivering DEF ReadCached, Here, Idle, Claim

LEMMA ResetTaskIs ==
  ASSUME Types, NEW c \in Callers, ResetTask(c), call[c].row \in RowIds
  PROVE  /\ Here(c, "reset") /\ Goes(c, "create") /\ node' = node /\ jobs' = jobs
         /\ ctx' = ctx \union {call[c].row}
         /\ LET r == call[c].row IN
            \/ rows' = rows /\ rows[r].status = "running"
            \/ RowTo(r, rows[r].task, "running", rows[r].in0, NoOut) /\ rows[r].status # "running"
<1> DEFINE r == call[c].row
           x == [rows[r] EXCEPT !.status = "running", !.out = NoOut]
<1>1. rows' = IF rows[r].status \in {"completed", "failed", "cancelled", "paused"}
              THEN [rows EXCEPT ![r] = x] ELSE rows
  BY DEF ResetTask, RowIds
<1>2. /\ DOMAIN x = RowFields /\ x.task = rows[r].task /\ x.status = "running"
      /\ x.in0 = rows[r].in0 /\ x.out = NoOut
  BY DEF Types, NodeTypes, CallTypes, RowTypes, JobTypes, RowFields
<1>3. rows[r].status \in {"running", "completed", "failed", "paused"} BY DEF Types, NodeTypes, CallTypes, RowTypes, JobTypes, Settled
<1> HIDE DEF x
<1>4. \/ rows' = rows /\ rows[r].status = "running"
      \/ RowTo(r, rows[r].task, "running", rows[r].in0, NoOut) /\ rows[r].status # "running"
  BY <1>1, <1>2, <1>3 DEF RowTo, RowIds
<1> QED BY <1>4, Going DEF ResetTask, Here, Claim

LEMMA CreateTaskIs ==
  ASSUME Types, NEW c \in Callers, CreateTask(c)
  PROVE  /\ Here(c, "create") /\ node' = node /\ ctx' = ctx
         /\ Made(c, call[c].task, call[c].input, call[c].row)
  BY Making DEF CreateTask, Here

(* The caller takes its answer, or raises because the stock is unknown.           *)
Takes(c) ==
  \/ node' = node /\ Delivered(c, call[c].mail)
  \/ Raised(c) /\ RaisedTo(c, "failed")

LEMMA AnsweredIs ==
  ASSUME Types, NEW c \in Callers, Answered(c), call[c].row \in RowIds
  PROVE  /\ Here(c, "await") /\ call[c].mail \notin {NoOut, Failure} /\ ctx' = ctx /\ jobs' = jobs
         /\ \/ node' = node /\ Ends(call[c].row, "completed") /\ Goes(c, "write")
            \/ rows' = rows /\ rows[call[c].row].status # "running" /\ Takes(c)
  BY Going, Raising, Delivering, Settling DEF Answered, Waiting, Here, Accept, Takes, Unsettled

LEMMA TaskWritesIs ==
  ASSUME Types, NEW c \in Callers, TaskWrites(c), call[c].row \in RowIds
  PROVE  /\ Here(c, "write") /\ ctx' = ctx /\ jobs' = jobs
         /\ Writes(call[c].row, call[c].mail) /\ Takes(c)
  BY Raising, Delivering, WritingOut DEF TaskWrites, Here, Accept, Takes

(* The three ends without an answer.                                              *)
LEMMA FailingIs ==
  ASSUME Types, NEW c \in Callers, TaskFails(c) \/ GiveUp(c) \/ SeesPause(c), call[c].row \in RowIds
  PROVE  /\ Here(c, "await") /\ ctx' = ctx /\ jobs' = jobs /\ Raised(c)
         /\ \E s \in {"failed", "paused"} : RaisedTo(c, s)
         /\ \/ Ends(call[c].row, "failed")
            \/ rows' = rows /\ rows[call[c].row].status = "paused"
  BY Raising, Settling DEF TaskFails, GiveUp, SeesPause, Waiting, Here

-----------------------------------------------------------------------------
(* The steps of a worker. *)

Published(j, out) ==
  /\ jobs' = jobs \ {j}
  /\ \/ call' = call
     \/ /\ Awaited(j) /\ (out = Failure \/ TaskCompletes(j.task))
        /\ Moves(j.to, "await", call[j.to].task, call[j.to].input, call[j.to].row, out, call[j.to].got)
     \/ /\ Awaited(j) /\ out # Failure /\ ~TaskCompletes(j.task)
        /\ Delivered(j.to, out)
Outs(j) == {Failure} \union AnswersOf(j.task, j.input)
Answering(j, k) ==
  /\ DOMAIN k = JobFields /\ k.pc = "write" /\ k.out \in Outs(j)
  /\ k.run = j.run /\ k.to = j.to /\ k.row = j.row /\ k.task = j.task /\ k.input = j.input

LEMMA Publishing ==
  ASSUME Types, NEW j \in jobs, NEW out, Publish(j, out)
  PROVE  Published(j, out)
<1>1. jobs' = jobs \ {j} BY DEF Publish
<1>2. CASE ~Awaited(j) BY <1>1, <1>2 DEF Publish, Published
<1>3. CASE Awaited(j) /\ (out = Failure \/ TaskCompletes(j.task))
  <2> DEFINE c == j.to
             q == [call[c] EXCEPT !.mail = out]
  <2>1. c \in Callers /\ call[c].pc = "await" BY <1>3 DEF Awaited
  <2>2. call' = [call EXCEPT ![c] = q] BY <1>3, <2>1 DEF Publish, Callers
  <2>3. /\ DOMAIN q = CallFields /\ q.pc = "await" /\ q.task = call[c].task /\ q.input = call[c].input
        /\ q.row = call[c].row /\ q.mail = out /\ q.got = call[c].got
    BY <2>1 DEF Types, CallTypes, CallFields
  <2> HIDE DEF q
  <2>4. Moves(c, "await", call[c].task, call[c].input, call[c].row, out, call[c].got)
    BY <2>1, <2>2, <2>3, Moving
  <2> QED BY <1>1, <1>3, <2>4 DEF Published
<1>4. CASE Awaited(j) /\ ~(out = Failure \/ TaskCompletes(j.task))
  <2>1. Deliver(j.to, out) /\ j.to \in Callers BY <1>4 DEF Publish, Awaited
  <2> QED BY <1>1, <1>4, <2>1, Delivering DEF Published
<1> QED BY <1>2, <1>3, <1>4

LEMMA JobEndsIs ==
  ASSUME Types, NEW j \in jobs, NEW ok \in BOOLEAN, JobEnds(j, ok), j.row \in RowIds
  PROVE  /\ j.pc = "work" /\ node' = node /\ ctx' = ctx /\ world' = world
         /\ \/ /\ WorkerPersists(j.task) /\ call' = call
               /\ \E s \in {"completed", "failed"} : Ends(j.row, s)
               /\ rows[j.row].status = "running"
               /\ \E k : jobs' = (jobs \ {j}) \union {k} /\ Answering(j, k)
            \/ /\ rows' = rows /\ \E out \in Outs(j) : Published(j, out)
               /\ ~(WorkerPersists(j.task) /\ rows[j.row].status = "running")
<1> DEFINE out == IF ok THEN Answer(j.task, j.input) ELSE Failure
           k == [j EXCEPT !.pc = "write", !.out = out]
           s == IF ok THEN "completed" ELSE "failed"
<1>1. out \in Outs(j) BY DEF Answer, AnswersOf, Outs
<1>2. j.pc = "work" /\ node' = node /\ ctx' = ctx /\ world' = world BY DEF JobEnds
<1>3. IF WorkerPersists(j.task) /\ Unsettled(j.row)
      THEN rows' = Settle(j.row, s) /\ jobs' = (jobs \ {j}) \union {k} /\ call' = call
      ELSE Publish(j, out) /\ rows' = rows
  BY DEF JobEnds
<1>4. /\ DOMAIN k = JobFields /\ k.pc = "write" /\ k.out = out
      /\ k.run = j.run /\ k.to = j.to /\ k.row = j.row /\ k.task = j.task /\ k.input = j.input
  BY DEF Types, JobTypes, JobFields
<1> HIDE DEF out, k
<1>5. Answering(j, k) BY <1>1, <1>4 DEF Answering
<1>6. CASE WorkerPersists(j.task) /\ Unsettled(j.row)
  BY <1>2, <1>3, <1>5, <1>6, Settling DEF Unsettled
<1>7. CASE ~(WorkerPersists(j.task) /\ Unsettled(j.row))
  BY <1>1, <1>2, <1>3, <1>7, Publishing DEF Unsettled
<1> QED BY <1>6, <1>7

LEMMA JobWritesIs ==
  ASSUME Types, NEW j \in jobs, JobWrites(j), j.row \in RowIds
  PROVE  /\ j.pc = "write" /\ node' = node /\ ctx' = ctx /\ world' = world
         /\ Writes(j.row, j.out) /\ Published(j, j.out)
  BY Publishing, WritingOut DEF JobWrites

-----------------------------------------------------------------------------
(* Types. *)

LEMMA CallTypesMove ==
  ASSUME CallTypes, NEW c \in Callers, NEW p \in PCs, NEW t, NEW i, NEW r, NEW m, NEW g,
         Listed(g), Moves(c, p, t, i, r, m, g)
  PROVE  CallTypes'
  BY DEF CallTypes, Moves

LEMMA CallTypesKept ==
  ASSUME CallTypes, NEW c \in Callers,
         \/ \E p \in PCs : Goes(c, p)
         \/ \E out : Delivered(c, out)
         \/ Raised(c)
         \/ \E p \in PCs : \E t, i, r, m : Moves(c, p, t, i, r, m, call[c].got)
  PROVE  CallTypes'
<1>1. Listed(call[c].got) /\ \A out : Listed(Append(call[c].got, out)) BY Appending DEF CallTypes
<1>2. ASSUME NEW p \in PCs, Goes(c, p) PROVE CallTypes' BY <1>1, <1>2, CallTypesMove DEF Goes
<1>3. ASSUME NEW out, Delivered(c, out) PROVE CallTypes'
  BY <1>1, <1>3, CallTypesMove DEF Delivered, PCs
<1>4. ASSUME Raised(c) PROVE CallTypes' BY <1>1, <1>4, CallTypesMove DEF Raised, PCs, Sent
<1>5. ASSUME NEW p \in PCs, NEW t, NEW i, NEW r, NEW m, Moves(c, p, t, i, r, m, call[c].got) PROVE CallTypes'
  BY <1>1, <1>5, CallTypesMove
<1> QED BY <1>2, <1>3, <1>4, <1>5

LEMMA RowTypesMove ==
  ASSUME RowTypes, NEW r, NEW t, NEW s, NEW x, NEW o, RowTo(r, t, s, x, o), s \in {"running"} \union Settled
  PROVE  RowTypes'
  BY DEF RowTypes, RowTo

LEMMA RowTypesKept ==
  ASSUME RowTypes, NEW r \in RowIds,
         \/ \E s \in Settled : Ends(r, s)
         \/ \E o : Writes(r, o)
  PROVE  RowTypes'
<1>1. rows[r].status \in {"running"} \union Settled BY DEF RowTypes
<1> QED BY <1>1, RowTypesMove DEF Ends, Writes

LEMMA MadeTypes ==
  ASSUME Types, NEW c \in Callers, NEW t, NEW i, NEW r, Made(c, t, i, r)
  PROVE  CallTypes' /\ RowTypes' /\ JobTypes'
<1>1. CallTypes' BY CallTypesKept DEF Made, PCs, Sent, Types
<1>2. RowTypes' BY RowTypesMove DEF Made, Types, RowTypes
<1>3. JobTypes' BY DEF Made, Job, JobTypes, Types, NodeTypes
<1> QED BY <1>1, <1>2, <1>3

LEMMA NodeTypesKept ==
  ASSUME NodeTypes, node' = node \/ \E s \in {"completed", "failed", "paused"} : NodeTo(s) \/ \E c : RaisedTo(c, s)
  PROVE  NodeTypes'
  BY DEF NodeTypes, NodeTo, RaisedTo

LEMMA AtItsCall ==
  ASSUME Types, NEW c \in Callers, CallOK(c), call[c].pc # "lookup"
  PROVE  /\ NextCall(c) = Ask(call[c].task, call[c].input) /\ Step(call[c].task) = Got(c)
         /\ call[c].row \in RowIds /\ rows[call[c].row].task = call[c].task
<1>1. PICK t, i : NextCall(c) = Ask(t, i) /\ Step(t) = Got(c) BY Place DEF CallOK
<1>2. t = call[c].task BY <1>1 DEF CallOK, Ask
<1> QED BY <1>1, <1>2 DEF CallOK

LEMMA AtItsLookUp ==
  ASSUME Types, NEW c \in Callers, LookUp(c)
  PROVE  \E t, i : NextCall(c) = Ask(t, i) /\ Step(t) = Got(c)
  BY Place DEF LookUp

LEMMA CallerTypes ==
  ASSUME Types, NEW c \in Callers, CallOK(c), CallerStep(c)
  PROVE  Types'
<1> USE DEF Types
<1>1. ASSUME LookUp(c) PROVE Types'
  <2>1. PICK t, i : NextCall(c) = Ask(t, i) BY <1>1, AtItsLookUp
  <2>2. CASE Idle /\ \E r : Took(c, Ask(t, i), r)
    <3>1. CallTypes' BY <2>2, CallTypesKept DEF Took, PCs
    <3> QED BY <2>2, <3>1 DEF Idle, NodeTypes, RowTypes, JobTypes, RowIds
  <2>3. CASE node' = node /\ Made(c, t, i, FreshId(c, t)) BY <2>3, MadeTypes DEF NodeTypes
  <2> QED BY <1>1, <2>1, <2>2, <2>3, LookUpIs
<1>2. ASSUME ReadCached(c) PROVE Types'
  <2>1. CallTypes' BY <1>2, ReadCachedIs, CallTypesKept DEF PCs
  <2>2. NodeTypes' BY <1>2, ReadCachedIs, NodeTypesKept DEF Idle
  <2>3. rows' = rows /\ jobs' = jobs BY <1>2, ReadCachedIs DEF Idle
  <2> QED BY <2>1, <2>2, <2>3 DEF RowTypes, JobTypes, RowIds
<1>3. ASSUME ResetTask(c) PROVE Types'
  <2>1. call[c].row \in RowIds BY <1>3, AtItsCall DEF ResetTask
  <2>2. CallTypes' BY <1>3, <2>1, ResetTaskIs, CallTypesKept DEF PCs
  <2>3. RowTypes' BY <1>3, <2>1, ResetTaskIs, RowTypesMove DEF RowTypes, RowIds
  <2>4. node' = node /\ jobs' = jobs BY <1>3, <2>1, ResetTaskIs
  <2> QED BY <2>2, <2>3, <2>4 DEF NodeTypes, JobTypes
<1>4. ASSUME CreateTask(c) PROVE Types' BY <1>4, CreateTaskIs, MadeTypes DEF NodeTypes
<1>5. ASSUME Answered(c) PROVE Types'
  <2>1. call[c].row \in RowIds BY <1>5, AtItsCall DEF Answered, Waiting
  <2>2. CallTypes' BY <1>5, <2>1, AnsweredIs, CallTypesKept DEF PCs, Sent, Takes
  <2>3. RowTypes' BY <1>5, <2>1, AnsweredIs, RowTypesKept DEF RowTypes, RowIds, Settled
  <2>4. NodeTypes' BY <1>5, <2>1, AnsweredIs, NodeTypesKept DEF Takes
  <2>5. jobs' = jobs BY <1>5, <2>1, AnsweredIs
  <2> QED BY <2>2, <2>3, <2>4, <2>5 DEF JobTypes
<1>6. ASSUME TaskWrites(c) PROVE Types'
  <2>1. call[c].row \in RowIds BY <1>6, AtItsCall DEF TaskWrites
  <2>2. CallTypes' BY <1>6, <2>1, TaskWritesIs, CallTypesKept DEF Takes
  <2>3. RowTypes' BY <1>6, <2>1, TaskWritesIs, RowTypesKept
  <2>4. NodeTypes' BY <1>6, <2>1, TaskWritesIs, NodeTypesKept DEF Takes
  <2>5. jobs' = jobs BY <1>6, <2>1, TaskWritesIs
  <2> QED BY <2>2, <2>3, <2>4, <2>5 DEF JobTypes
<1>7. ASSUME TaskFails(c) \/ GiveUp(c) \/ SeesPause(c) PROVE Types'
  <2>1. call[c].row \in RowIds BY <1>7, AtItsCall DEF TaskFails, GiveUp, SeesPause, Waiting
  <2>2. CallTypes' BY <1>7, <2>1, FailingIs, CallTypesKept
  <2>3. RowTypes' BY <1>7, <2>1, FailingIs, RowTypesKept DEF RowTypes, RowIds, Settled
  <2>4. NodeTypes' BY <1>7, <2>1, FailingIs, NodeTypesKept
  <2>5. jobs' = jobs BY <1>7, <2>1, FailingIs
  <2> QED BY <2>2, <2>3, <2>4, <2>5 DEF JobTypes
<1> QED BY <1>1, <1>2, <1>3, <1>4, <1>5, <1>6, <1>7 DEF CallerStep

LEMMA WorkerTypes ==
  ASSUME Types, NEW j \in jobs, JobOK(j), WorkerStep(j)
  PROVE  Types'
<1> USE DEF Types
<1>0. j.row \in RowIds BY DEF JobOK
<1>1. ASSUME NEW out, Published(j, out) PROVE CallTypes'
  <2>1. CASE call' = call BY <2>1 DEF CallTypes, Callers
  <2>2. CASE Awaited(j) /\ Moves(j.to, "await", call[j.to].task, call[j.to].input, call[j.to].row, out, call[j.to].got)
    BY <2>2, CallTypesKept DEF Awaited, PCs, Sent
  <2>3. CASE Awaited(j) /\ Delivered(j.to, out) BY <2>3, CallTypesKept DEF Awaited
  <2> QED BY <1>1, <2>1, <2>2, <2>3 DEF Published
<1>2. ASSUME NEW ok \in BOOLEAN, JobEnds(j, ok) PROVE Types'
  <2>1. CASE /\ call' = call /\ \E s \in {"completed", "failed"} : Ends(j.row, s)
             /\ \E k : jobs' = (jobs \ {j}) \union {k} /\ Answering(j, k)
    <3>1. RowTypes' BY <1>0, <2>1, RowTypesKept DEF Settled
    <3>2. JobTypes' BY <2>1 DEF JobTypes, Answering
    <3>3. node' = node BY <1>0, <1>2, JobEndsIs
    <3> QED BY <2>1, <3>1, <3>2, <3>3 DEF NodeTypes, CallTypes, Callers
  <2>2. CASE rows' = rows /\ \E out \in Outs(j) : Published(j, out)
    <3>1. CallTypes' BY <1>1, <2>2
    <3>2. JobTypes' BY <2>2 DEF Published, JobTypes
    <3>3. node' = node BY <1>0, <1>2, JobEndsIs
    <3> QED BY <2>2, <3>1, <3>2, <3>3 DEF NodeTypes, RowTypes, RowIds
  <2> QED BY <1>0, <1>2, <2>1, <2>2, JobEndsIs
<1>3. ASSUME JobWrites(j) PROVE Types'
  <2>1. node' = node /\ Writes(j.row, j.out) /\ Published(j, j.out) BY <1>0, <1>3, JobWritesIs
  <2>2. CallTypes' BY <1>1, <2>1
  <2>3. RowTypes' BY <1>0, <2>1, RowTypesKept
  <2>4. JobTypes' BY <2>1 DEF Published, JobTypes
  <2> QED BY <2>1, <2>2, <2>3, <2>4 DEF NodeTypes
<1> QED BY <1>2, <1>3 DEF WorkerStep

(* A stop, and what the other steps of the node do.                               *)
LEMMA GatherIs ==
  ASSUME Types, Fan, Gather
  PROVE  /\ Busy /\ ~node.fan /\ Finished(Main) /\ Callers = {Main}
         /\ DOMAIN node' = DOMAIN node /\ node'.name = node.name /\ node'.run = node.run
         /\ node'.crashed = node.crashed /\ node'.status = node.status /\ node'.fan = TRUE
         /\ Callers \subseteq Callers' /\ \A c \in Callers : call'[c] = call[c]
         /\ \A c \in Callers' \ Callers : call'[c] = Fresh /\ c \in Items
         /\ world' = world /\ ctx' = ctx /\ rows' = rows /\ jobs' = jobs
  BY DEF Gather, Fan, Busy, Types, NodeTypes, Callers

LEMMA NodeEndsIs ==
  ASSUME Types, EndNode
  PROVE  /\ Busy /\ node.fan /\ \A c \in Children : Ended(c)
         /\ \E s \in {"completed", "failed"} : NodeTo(s)
         /\ world' = world /\ call' = call /\ ctx' = ctx /\ rows' = rows /\ jobs' = jobs
  BY DEF EndNode, Verdicts, NodeTo, Types, NodeTypes

LEMMA PausingIs ==
  ASSUME Types, NEW r \in RowIds, PauseTask(r)
  PROVE  /\ rows[r].status = "running" /\ Ends(r, "paused")
         /\ node' = node /\ world' = world /\ call' = call /\ ctx' = ctx /\ jobs' \subseteq jobs
<1>1. Ends(r, "paused") BY Settling DEF PauseTask, Settle
<1> QED BY <1>1 DEF PauseTask, Unsettled

LEMMA StoppingIs ==
  ASSUME Types, Shutdown \/ Crash
  PROVE  /\ Busy /\ Callers' = {Main} /\ call'[Main] = Fresh /\ ctx' = {} /\ world' = world
         /\ jobs' \subseteq jobs
         /\ DOMAIN node' = DOMAIN node /\ node'.name = node.name /\ node'.run = node.run
         /\ node'.fan = node.fan /\ node'.status = "stopped"
         /\ RowIds' = RowIds
         /\ \A r \in RowIds :
              /\ DOMAIN rows'[r] = RowFields /\ rows'[r].task = rows[r].task
              /\ rows'[r].in0 = rows[r].in0 /\ rows'[r].out = rows[r].out
         /\ \/ /\ node'.crashed = TRUE /\ rows' = rows
            \/ /\ node'.crashed = node.crashed
               /\ \A r \in RowIds :
                    rows'[r].status = IF rows[r].status = "running" THEN "paused" ELSE rows[r].status
<1>1. Busy /\ Callers' = {Main} /\ call'[Main] = Fresh /\ ctx' = {} /\ jobs' \subseteq jobs /\ world' = world
  BY DEF Shutdown, Crash, Gone, Callers
<1>2. CASE Crash
  BY <1>1, <1>2 DEF Crash, Types, NodeTypes, RowTypes, RowIds
<1>3. CASE Shutdown
  <2>1. /\ DOMAIN node' = DOMAIN node /\ node'.name = node.name /\ node'.run = node.run
        /\ node'.fan = node.fan /\ node'.status = "stopped" /\ node'.crashed = node.crashed
    BY <1>3 DEF Shutdown, Types, NodeTypes
  <2>2. RowIds' = RowIds /\ \A r \in RowIds : rows'[r] =
          IF rows[r].status = "running" THEN [rows[r] EXCEPT !.status = "paused"] ELSE rows[r]
    BY <1>3 DEF Shutdown, RowIds
  <2>3. ASSUME NEW r \in RowIds
        PROVE  /\ DOMAIN rows'[r] = RowFields /\ rows'[r].task = rows[r].task
               /\ rows'[r].in0 = rows[r].in0 /\ rows'[r].out = rows[r].out
               /\ rows'[r].status = IF rows[r].status = "running" THEN "paused" ELSE rows[r].status
    BY <2>2 DEF Types, RowTypes, RowFields
  <2> QED BY <1>1, <2>1, <2>2, <2>3
<1> QED BY <1>2, <1>3

LEMMA RerunIs ==
  ASSUME Types, Rerun
  PROVE  /\ ~Busy /\ node.status \in {"stopped", "failed", "paused"}
         /\ DOMAIN node' = DOMAIN node /\ node'.name = node.name /\ node'.run = node.run + 1
         /\ node'.fan = FALSE /\ node'.status = "running" /\ node'.crashed = node.crashed
         /\ Callers' = {Main} /\ call'[Main] = Fresh /\ ctx' = {}
         /\ world' = world /\ rows' = rows /\ jobs' = jobs
  BY DEF Rerun, Busy, Types, NodeTypes, Callers

LEMMA FreshCall ==
  /\ DOMAIN Fresh = CallFields /\ Fresh.pc = "lookup" /\ Fresh.mail = NoOut /\ Fresh.got = <<>>
  /\ Listed(Fresh.got) /\ Len(Fresh.got) = 0
  BY EmptyList DEF Fresh, CallFields

LEMMA NodeTypesKeptToo ==
  ASSUME Types, Fan,
         Gather \/ EndNode \/ (\E r \in RowIds : PauseTask(r)) \/ Shutdown \/ Crash \/ Rerun
  PROVE  Types'
<1>1. CASE Gather
  <2>1. CallTypes' BY <1>1, GatherIs, FreshCall DEF Types, CallTypes, PCs
  <2> QED BY <1>1, <2>1, GatherIs DEF Types, NodeTypes, RowTypes, JobTypes, RowIds
<1>2. CASE EndNode
  BY <1>2, NodeEndsIs, NodeTypesKept DEF Types, CallTypes, RowTypes, JobTypes, RowIds, Callers
<1>3. ASSUME NEW r \in RowIds, PauseTask(r) PROVE Types'
  <2>1. RowTypes' BY <1>3, PausingIs, RowTypesKept DEF Types, Settled
  <2> QED BY <1>3, <2>1, PausingIs DEF Types, NodeTypes, CallTypes, JobTypes, Callers
<1>4. CASE Shutdown \/ Crash
  <2>1. CallTypes' BY <1>4, StoppingIs, FreshCall DEF Types, CallTypes, PCs
  <2>2. RowTypes' BY <1>4, StoppingIs DEF Types, RowTypes, Settled
  <2>3. NodeTypes' BY <1>4, StoppingIs DEF Types, NodeTypes
  <2> QED BY <1>4, <2>1, <2>2, <2>3, StoppingIs DEF Types, JobTypes
<1>5. CASE Rerun
  <2>1. CallTypes' BY <1>5, RerunIs, FreshCall DEF Types, CallTypes, PCs
  <2>2. NodeTypes'
    <3>1. /\ DOMAIN node' = DOMAIN node /\ node'.run = node.run + 1 /\ node'.fan = FALSE
          /\ node'.status = "running" /\ node'.crashed = node.crashed
      BY <1>5, RerunIs
    <3>2. node.run + 1 \in Nat BY DEF Types, NodeTypes
    <3> QED BY <3>1, <3>2 DEF Types, NodeTypes
  <2> QED BY <1>5, <2>1, <2>2, RerunIs DEF Types, RowTypes, JobTypes, RowIds
<1> QED BY <1>1, <1>2, <1>3, <1>4, <1>5

-----------------------------------------------------------------------------
(* What every step keeps, and the callers that it leaves alone. *)

RowsStay == RowIds \subseteq RowIds' /\ \A r \in RowIds : rows'[r].task = rows[r].task
WorldStays == world' = world /\ node'.name = node.name /\ node'.run = node.run /\ node'.crashed = node.crashed
Alone(c) == Callers' = Callers /\ \A d \in Callers : d # c => call'[d] = call[d]

(* A caller stays with its call, or goes on by an answer.                         *)
Onward(c) ==
  \/ Got(c)' = Got(c) + 1
  \/ /\ Got(c)' = Got(c)
     /\ call[c].pc \in Sent =>
          /\ call'[c].pc \in Sent /\ call'[c].task = call[c].task
          /\ call'[c].input = call[c].input /\ call'[c].row = call[c].row

LEMMA MovesOn ==
  ASSUME Types, NEW c \in Callers,
         \/ Goes(c, "write") \/ Raised(c) \/ \E out : Delivered(c, out)
         \/ \E p, t, i, r, m : call[c].pc \notin Sent /\ Moves(c, p, t, i, r, m, call[c].got)
         \/ \E m : Moves(c, "await", call[c].task, call[c].input, call[c].row, m, call[c].got)
  PROVE  Onward(c) /\ Alone(c)
<1>1. ASSUME NEW out, Delivered(c, out) PROVE Onward(c) /\ Alone(c)
  BY <1>1, Appending DEF Delivered, Moves, Onward, Got, Types, CallTypes, Alone
<1>2. ASSUME Goes(c, "write") \/ Raised(c) PROVE Onward(c) /\ Alone(c)
  BY <1>2 DEF Goes, Raised, Moves, Onward, Got, Sent, Alone
<1>3. ASSUME NEW p, NEW t, NEW i, NEW r, NEW m, call[c].pc \notin Sent, Moves(c, p, t, i, r, m, call[c].got)
      PROVE  Onward(c) /\ Alone(c)
  BY <1>3 DEF Moves, Onward, Got, Alone
<1>4. ASSUME NEW m, Moves(c, "await", call[c].task, call[c].input, call[c].row, m, call[c].got)
      PROVE  Onward(c) /\ Alone(c)
  BY <1>4 DEF Moves, Onward, Got, Sent, Alone
<1> QED BY <1>1, <1>2, <1>3, <1>4

(* A step of a caller: it raises at most the status of its node.                  *)
NodeAfter(c) == node' = node \/ \E s \in {"failed", "paused"} : RaisedTo(c, s)

LEMMA CallerKeeps ==
  ASSUME Types, NEW c \in Callers, CallOK(c), CallerStep(c)
  PROVE  /\ Busy /\ WorldStays /\ RowsStay /\ Onward(c) /\ Alone(c) /\ NodeAfter(c)
         /\ node'.fan = node.fan /\ ctx \subseteq ctx' /\ ~Finished(c)
         /\ \A j \in jobs' : j.pc = "write" => j \in jobs
<1>0. /\ NodeAfter(c) => node'.fan = node.fan /\ (world' = world => WorldStays)
      /\ \A r, t, s, x, o : (r \in RowIds => t = rows[r].task) /\ RowTo(r, t, s, x, o) => RowsStay
      /\ rows' = rows => RowsStay
      /\ jobs' = jobs => \A j \in jobs' : j.pc = "write" => j \in jobs
  BY DEF NodeAfter, RaisedTo, NodeTo, WorldStays, RowTo, RowsStay, RowIds
<1>1. ASSUME LookUp(c) PROVE /\ Onward(c) /\ Alone(c) /\ NodeAfter(c) /\ RowsStay /\ ctx \subseteq ctx'
                             /\ Busy /\ world' = world /\ ~Finished(c)
                             /\ \A j \in jobs' : j.pc = "write" => j \in jobs
  <2>1. PICK t, i : NextCall(c) = Ask(t, i) BY <1>1, AtItsLookUp
  <2>2. Here(c, "lookup") /\ NextCall(c) # NoCall BY <1>1, <2>1, LookUpIs
  <2>3. CASE Idle /\ \E r : Took(c, Ask(t, i), r)
    <3>1. Onward(c) /\ Alone(c) BY <2>2, <2>3, MovesOn DEF Took, Here, Sent
    <3> QED BY <1>0, <2>2, <2>3, <3>1 DEF Idle, NodeAfter, Here, Finished
  <2>4. CASE node' = node /\ ctx' = ctx \union {FreshId(c, t)} /\ Made(c, t, i, FreshId(c, t))
    <3>1. Onward(c) /\ Alone(c) BY <2>2, <2>4, MovesOn DEF Made, Here, Sent
    <3>2. RowsStay BY <1>0, <2>4 DEF Made
    <3> QED BY <2>2, <2>4, <3>1, <3>2 DEF NodeAfter, Here, Finished, Made, Job
  <2> QED BY <1>1, <2>1, <2>3, <2>4, LookUpIs
<1>2. ASSUME call[c].pc # "lookup" PROVE ~Finished(c) BY <1>2 DEF Finished, AtCall
<1>3. ASSUME ReadCached(c) PROVE /\ Onward(c) /\ Alone(c) /\ NodeAfter(c) /\ rows' = rows /\ ctx \subseteq ctx'
                                 /\ Busy /\ world' = world /\ call[c].pc # "lookup" /\ jobs' = jobs
  <2>1. Here(c, "read") BY <1>3, ReadCachedIs
  <2>2. Onward(c) /\ Alone(c) BY <1>3, <2>1, ReadCachedIs, MovesOn DEF Here, Sent, Goes
  <2> QED BY <1>3, <2>1, <2>2, ReadCachedIs DEF NodeAfter, Here, Idle
<1>4. ASSUME ResetTask(c) PROVE /\ Onward(c) /\ Alone(c) /\ NodeAfter(c) /\ RowsStay /\ ctx \subseteq ctx'
                                /\ Busy /\ world' = world /\ call[c].pc # "lookup" /\ jobs' = jobs
  <2>1. call[c].row \in RowIds BY <1>4, AtItsCall DEF ResetTask
  <2>2. Here(c, "reset") /\ Goes(c, "create") BY <1>4, <2>1, ResetTaskIs
  <2>3. Onward(c) /\ Alone(c) BY <2>2, MovesOn DEF Here, Sent, Goes
  <2>4. RowsStay BY <1>0, <1>4, <2>1, ResetTaskIs
  <2> QED BY <1>4, <2>1, <2>2, <2>3, <2>4, ResetTaskIs DEF NodeAfter, Here
<1>5. ASSUME CreateTask(c) PROVE /\ Onward(c) /\ Alone(c) /\ NodeAfter(c) /\ RowsStay /\ ctx \subseteq ctx'
                                 /\ Busy /\ world' = world /\ call[c].pc # "lookup"
                                 /\ \A j \in jobs' : j.pc = "write" => j \in jobs
  <2>1. Here(c, "create") /\ node' = node /\ ctx' = ctx /\ Made(c, call[c].task, call[c].input, call[c].row)
    BY <1>5, CreateTaskIs
  <2>2. Onward(c) /\ Alone(c) BY <2>1, MovesOn DEF Made, Here, Sent
  <2>3. RowsStay BY <1>0, <2>1 DEF Made
  <2>4. \A j \in jobs' : j.pc = "write" => j \in jobs BY <2>1 DEF Made, Job
  <2> QED BY <2>1, <2>2, <2>3, <2>4 DEF NodeAfter, Here
<1>6. ASSUME Takes(c) PROVE Onward(c) /\ Alone(c) /\ NodeAfter(c)
  BY <1>6, MovesOn DEF Takes, NodeAfter
<1>7. ASSUME Answered(c) PROVE /\ Onward(c) /\ Alone(c) /\ NodeAfter(c) /\ RowsStay /\ ctx \subseteq ctx'
                               /\ Busy /\ world' = world /\ call[c].pc # "lookup" /\ jobs' = jobs
  <2>1. call[c].row \in RowIds BY <1>7, AtItsCall DEF Answered, Waiting
  <2>2. Onward(c) /\ Alone(c) /\ NodeAfter(c)
    BY <1>6, <1>7, <2>1, AnsweredIs, MovesOn DEF NodeAfter
  <2>3. RowsStay BY <1>0, <1>7, <2>1, AnsweredIs DEF Ends
  <2> QED BY <1>7, <2>1, <2>2, <2>3, AnsweredIs DEF Here
<1>8. ASSUME TaskWrites(c) PROVE /\ Onward(c) /\ Alone(c) /\ NodeAfter(c) /\ RowsStay /\ ctx \subseteq ctx'
                                 /\ Busy /\ world' = world /\ call[c].pc # "lookup" /\ jobs' = jobs
  <2>1. call[c].row \in RowIds BY <1>8, AtItsCall DEF TaskWrites
  <2>2. RowsStay BY <1>0, <1>8, <2>1, TaskWritesIs DEF Writes
  <2> QED BY <1>6, <1>8, <2>1, <2>2, TaskWritesIs DEF Here
<1>9. ASSUME TaskFails(c) \/ GiveUp(c) \/ SeesPause(c)
      PROVE  /\ Onward(c) /\ Alone(c) /\ NodeAfter(c) /\ RowsStay /\ ctx \subseteq ctx'
             /\ Busy /\ world' = world /\ call[c].pc # "lookup" /\ jobs' = jobs
  <2>1. call[c].row \in RowIds BY <1>9, AtItsCall DEF TaskFails, GiveUp, SeesPause, Waiting
  <2>2. Onward(c) /\ Alone(c) BY <1>9, <2>1, FailingIs, MovesOn
  <2>3. RowsStay BY <1>0, <1>9, <2>1, FailingIs DEF Ends
  <2> QED BY <1>9, <2>1, <2>2, <2>3, FailingIs DEF Here, NodeAfter
<1> QED BY <1>0, <1>1, <1>2, <1>3, <1>4, <1>5, <1>7, <1>8, <1>9 DEF CallerStep

(* The workers.                                                                   *)
LEMMA PublishedTo ==
  ASSUME Types, NEW j, NEW out, Published(j, out)
  PROVE  /\ \A d \in Callers : Onward(d)
         /\ Callers' = Callers /\ (~Busy => call' = call) /\ jobs' \subseteq jobs
<1>1. CASE call' = call BY <1>1 DEF Published, Onward, Got, Callers
<1>2. CASE call' # call
  <2>1. j.to \in Callers /\ Busy BY <1>2 DEF Published, Awaited
  <2>2. Onward(j.to) /\ Alone(j.to) BY <1>2, <2>1, MovesOn DEF Published
  <2> QED BY <2>1, <2>2, <1>2 DEF Published, Onward, Got, Alone
<1> QED BY <1>1, <1>2

LEMMA WorkerKeeps ==
  ASSUME Types, NEW j \in jobs, JobOK(j), WorkerStep(j)
  PROVE  /\ WorldStays /\ node' = node /\ ctx' = ctx /\ RowsStay /\ RowIds' = RowIds
         /\ \A d \in Callers : Onward(d)
         /\ Callers' = Callers /\ (~Busy => call' = call)
         /\ \A r \in RowIds : /\ rows'[r].in0 = rows[r].in0
                              /\ rows'[r].status = "running" => rows[r].status = "running"
                              /\ rows[r].status # "running" => rows'[r].status = rows[r].status
<1>0. j.row \in RowIds BY DEF JobOK
<1>1. ASSUME NEW s, (Ends(j.row, s) /\ s # "running") \/ Writes(j.row, s) \/ rows' = rows
      PROVE  /\ RowsStay /\ RowIds' = RowIds
             /\ \A r \in RowIds : /\ rows'[r].in0 = rows[r].in0
                                  /\ rows'[r].status = "running" => rows[r].status = "running"
                                  /\ rows[r].status # "running" => rows'[r].status = rows[r].status
  BY <1>0, <1>1 DEF Ends, Writes, RowTo, RowsStay, RowIds
<1>2. call' = call => /\ \A d \in Callers : Onward(d)
                      /\ Callers' = Callers
  BY DEF Onward, Got, Callers
<1>3. ASSUME NEW ok \in BOOLEAN, JobEnds(j, ok)
      PROVE  /\ node' = node /\ ctx' = ctx /\ world' = world
             /\ \E s : (Ends(j.row, s) /\ s # "running") \/ rows' = rows
             /\ call' = call \/ \E out : Published(j, out)
  BY <1>0, <1>3, JobEndsIs
<1>4. ASSUME JobWrites(j)
      PROVE  /\ node' = node /\ ctx' = ctx /\ world' = world
             /\ Writes(j.row, j.out) /\ Published(j, j.out)
  BY <1>0, <1>4, JobWritesIs
<1> QED BY <1>1, <1>2, <1>3, <1>4, PublishedTo DEF WorkerStep, WorldStays

-----------------------------------------------------------------------------
(* CallOK, JobOK and IdOK. *)

LEMMA CallOKMove ==
  ASSUME Types, NEW c \in Callers, CallOK(c), WorldStays, RowsStay,
         NEW p, NEW t, NEW i, NEW r, NEW m, NEW g, Moves(c, p, t, i, r, m, g),
         p = "lookup" => m = NoOut,
         p # "lookup" =>
           g = call[c].got /\ NextCall(c) = Ask(t, i) /\ NextCall(c) # NoCall
           /\ r \in RowIds' /\ rows'[r].task = t,
         m \notin {NoOut, Failure} => TaskCompletes(t),
         p = "write" => m \notin {NoOut, Failure}
  PROVE  CallOK(c)'
<1>1. ASSUME p # "lookup" PROVE NextCall(c)' = NextCall(c)
  BY <1>1, SameCall DEF WorldStays, Moves
<1> QED BY <1>1 DEF CallOK, Moves, TaskCompletes, NoCall, Ask

LEMMA CallOKAlone ==
  ASSUME Types, NEW d \in Callers, CallOK(d), WorldStays, RowsStay, call'[d] = call[d]
  PROVE  CallOK(d)'
<1>1. NextCall(d)' = NextCall(d) BY SameCall DEF WorldStays
<1> QED BY <1>1 DEF CallOK, RowsStay, NoCall, Ask, TaskCompletes

(* A caller that has raised, has its answer, or has changed only its place.       *)
LEMMA CallOKOn ==
  ASSUME Types, NEW c \in Callers, CallOK(c), WorldStays, RowsStay, call[c].pc # "lookup",
         \/ Raised(c) \/ \E out : Delivered(c, out)
         \/ \E p : Goes(c, p) /\ p # "lookup" /\ (p = "write" => call[c].mail \notin {NoOut, Failure})
         \/ \E m : /\ Moves(c, "await", call[c].task, call[c].input, call[c].row, m, call[c].got)
                   /\ m = call[c].mail \/ m = Failure \/ TaskCompletes(call[c].task)
  PROVE  CallOK(c)'
<1>1. /\ NextCall(c) = Ask(call[c].task, call[c].input) /\ NextCall(c) # NoCall
      /\ call[c].row \in RowIds' /\ rows'[call[c].row].task = call[c].task
  BY DEF CallOK, RowsStay
<1>2. call[c].mail \notin {NoOut, Failure} => TaskCompletes(call[c].task) BY DEF CallOK
<1>3. ASSUME Raised(c) PROVE CallOK(c)'
  BY <1>1, <1>3, CallOKMove DEF Raised
<1>4. ASSUME NEW out, Delivered(c, out) PROVE CallOK(c)'
  BY <1>4, CallOKMove DEF Delivered
<1>5. ASSUME NEW p, Goes(c, p), p # "lookup", p = "write" => call[c].mail \notin {NoOut, Failure}
      PROVE  CallOK(c)'
  BY <1>1, <1>2, <1>5, CallOKMove DEF Goes
<1>6. ASSUME NEW m, Moves(c, "await", call[c].task, call[c].input, call[c].row, m, call[c].got),
             m = call[c].mail \/ m = Failure \/ TaskCompletes(call[c].task)
      PROVE  CallOK(c)'
  BY <1>1, <1>2, <1>6, CallOKMove
<1> QED BY <1>3, <1>4, <1>5, <1>6

LEMMA CallOKMade ==
  ASSUME Types, NEW c \in Callers, CallOK(c), WorldStays, RowsStay,
         NEW t, NEW i, NEW r, Made(c, t, i, r), NextCall(c) = Ask(t, i), NextCall(c) # NoCall,
         r \in RowIds => rows[r].task = t,
         call[c].mail \notin {NoOut, Failure} => TaskCompletes(t)
  PROVE  CallOK(c)'
<1>1. PICK m : /\ m = call[c].mail \/ TaskCompletes(t)
               /\ Moves(c, "await", t, i, r, m, call[c].got)
  BY DEF Made
<1>2. r \in RowIds' /\ rows'[r].task = t BY DEF Made, RowTo, RowsStay
<1> QED BY <1>1, <1>2, CallOKMove

(* make_task_id gives an id that no row has.                                      *)
LEMMA FreshIsNew ==
  ASSUME Types, Ids, Busy, NEW c \in Callers, call[c].pc \notin Sent, NEW t, Step(t) = Got(c)
  PROVE  FreshId(c, t) \notin RowIds
<1>1. Got(c) \in Nat BY Appending DEF Got, Types, CallTypes
<1> QED BY <1>1 DEF FreshId, Ids, IdOK

LEMMA CallerCalls ==
  ASSUME Types, Calls, Ids, NEW c \in Callers, CallerStep(c)
  PROVE  Calls'
<1>0. CallOK(c) /\ WorldStays /\ RowsStay /\ Alone(c) BY CallerKeeps DEF Calls
<1>1. ASSUME LookUp(c) PROVE CallOK(c)'
  <2>1. PICK t, i : NextCall(c) = Ask(t, i) /\ Step(t) = Got(c) BY <1>1, AtItsLookUp
  <2>2. Here(c, "lookup") /\ NextCall(c) # NoCall BY <1>1, <2>1, LookUpIs
  <2>3. call[c].mail = NoOut BY <1>0, <2>2 DEF CallOK, Here
  <2>4. ASSUME NEW r, Took(c, Ask(t, i), r), Idle PROVE CallOK(c)'
    <3>1. r \in RowIds' /\ rows'[r].task = t BY <1>0, <2>4 DEF Took, RowsStay, Ask
    <3>2. PICK p \in {"read", "reset"} : Moves(c, p, t, i, r, NoOut, call[c].got)
      BY <2>3, <2>4 DEF Took, Ask
    <3> QED BY <1>0, <2>1, <2>2, <3>1, <3>2, CallOKMove
  <2>5. FreshId(c, t) \notin RowIds BY <2>1, <2>2, FreshIsNew DEF Here, Sent
  <2>6. ASSUME Made(c, t, i, FreshId(c, t)) PROVE CallOK(c)'
    BY <1>0, <2>1, <2>2, <2>3, <2>5, <2>6, CallOKMade
  <2> QED BY <1>1, <2>1, <2>4, <2>6, LookUpIs
<1>2. ASSUME ReadCached(c) PROVE CallOK(c)'
  <2>1. Here(c, "read") BY <1>2, ReadCachedIs
  <2> QED BY <1>0, <1>2, <2>1, ReadCachedIs, CallOKOn DEF Here
<1>3. ASSUME ResetTask(c) PROVE CallOK(c)'
  <2>1. call[c].row \in RowIds BY <1>0, <1>3, AtItsCall DEF ResetTask
  <2>2. Here(c, "reset") /\ Goes(c, "create") BY <1>3, <2>1, ResetTaskIs
  <2> QED BY <1>0, <2>2, CallOKOn DEF Here
<1>4. ASSUME CreateTask(c) PROVE CallOK(c)'
  <2>1. Here(c, "create") /\ Made(c, call[c].task, call[c].input, call[c].row) BY <1>4, CreateTaskIs
  <2> QED BY <1>0, <2>1, CallOKMade DEF Here, CallOK
<1>5. ASSUME Takes(c), call[c].pc # "lookup" PROVE CallOK(c)'
  BY <1>0, <1>5, CallOKOn DEF Takes
<1>6. ASSUME Answered(c) PROVE CallOK(c)'
  <2>1. call[c].row \in RowIds BY <1>0, <1>6, AtItsCall DEF Answered, Waiting
  <2>2. Here(c, "await") /\ call[c].mail \notin {NoOut, Failure} BY <1>6, <2>1, AnsweredIs
  <2>3. ASSUME Goes(c, "write") PROVE CallOK(c)' BY <1>0, <2>2, <2>3, CallOKOn DEF Here
  <2> QED BY <1>5, <1>6, <2>1, <2>2, <2>3, AnsweredIs DEF Here
<1>7. ASSUME TaskWrites(c) PROVE CallOK(c)'
  <2>1. call[c].row \in RowIds BY <1>0, <1>7, AtItsCall DEF TaskWrites
  <2> QED BY <1>5, <1>7, <2>1, TaskWritesIs DEF Here
<1>8. ASSUME TaskFails(c) \/ GiveUp(c) \/ SeesPause(c) PROVE CallOK(c)'
  <2>1. call[c].row \in RowIds BY <1>0, <1>8, AtItsCall DEF TaskFails, GiveUp, SeesPause, Waiting
  <2>2. Here(c, "await") /\ Raised(c) BY <1>8, <2>1, FailingIs
  <2> QED BY <1>0, <2>2, CallOKOn DEF Here
<1>9. CallOK(c)' BY <1>1, <1>2, <1>3, <1>4, <1>6, <1>7, <1>8 DEF CallerStep
<1>10. ASSUME NEW d \in Callers, d # c PROVE CallOK(d)'
  BY <1>0, <1>10, CallOKAlone DEF Calls, Alone
<1> QED BY <1>0, <1>9, <1>10 DEF Calls, Alone

LEMMA PublishedCalls ==
  ASSUME Types, Calls, NEW j, NEW out, Published(j, out), WorldStays, RowsStay
  PROVE  Calls'
<1>1. CASE call' = call BY <1>1, CallOKAlone DEF Calls, Callers
<1>2. CASE call' # call
  <2>1. j.to \in Callers /\ call[j.to].pc = "await" /\ call[j.to].task = j.task /\ CallOK(j.to)
    BY <1>2 DEF Published, Awaited, Calls
  <2>2. \/ Delivered(j.to, out)
        \/ /\ out = Failure \/ TaskCompletes(j.task)
           /\ Moves(j.to, "await", call[j.to].task, call[j.to].input, call[j.to].row, out, call[j.to].got)
    BY <1>2 DEF Published
  <2>3. CallOK(j.to)' BY <2>1, <2>2, CallOKOn
  <2>4. Alone(j.to) BY <2>1, <2>2, MovesOn
  <2> QED BY <2>3, <2>4, CallOKAlone DEF Calls, Alone
<1> QED BY <1>1, <1>2

LEMMA WorkerCalls ==
  ASSUME Types, Calls, NEW j \in jobs, JobOK(j), WorkerStep(j)
  PROVE  Calls'
<1>0. WorldStays /\ RowsStay /\ j.row \in RowIds BY WorkerKeeps DEF JobOK
<1>1. call' = call => Calls' BY <1>0, CallOKAlone DEF Calls, Callers
<1>2. ASSUME NEW ok \in BOOLEAN, JobEnds(j, ok) PROVE Calls'
  <2>1. call' = call \/ \E out : Published(j, out) BY <1>0, <1>2, JobEndsIs
  <2> QED BY <1>0, <1>1, <2>1, PublishedCalls
<1>3. ASSUME JobWrites(j) PROVE Calls' BY <1>0, <1>3, JobWritesIs, PublishedCalls
<1> QED BY <1>2, <1>3 DEF WorkerStep

LEMMA CallOKFresh ==
  ASSUME NEW c, call'[c] = Fresh
  PROVE  CallOK(c)'
  BY FreshCall DEF CallOK

LEMMA NodeCalls ==
  ASSUME Types, Fan, Calls,
         Gather \/ EndNode \/ (\E r \in RowIds : PauseTask(r)) \/ Shutdown \/ Crash \/ Rerun
  PROVE  Calls'
<1>1. CASE Gather
  <2>1. WorldStays /\ RowsStay BY <1>1, GatherIs DEF WorldStays, RowsStay, RowIds
  <2>2. ASSUME NEW c \in Callers' PROVE call'[c] = Fresh \/ (c \in Callers /\ call'[c] = call[c])
    BY <1>1, GatherIs
  <2> QED BY <2>1, <2>2, CallOKAlone, CallOKFresh DEF Calls
<1>2. CASE EndNode
  <2>1. WorldStays /\ RowsStay /\ call' = call BY <1>2, NodeEndsIs DEF WorldStays, RowsStay, RowIds, NodeTo
  <2> QED BY <2>1, CallOKAlone DEF Calls, Callers
<1>3. ASSUME NEW r \in RowIds, PauseTask(r) PROVE Calls'
  <2>1. WorldStays /\ RowsStay /\ call' = call
    BY <1>3, PausingIs DEF WorldStays, RowsStay, RowIds, Ends, RowTo
  <2> QED BY <2>1, CallOKAlone DEF Calls, Callers
<1>4. CASE Shutdown \/ Crash \/ Rerun
  <2>1. Callers' = {Main} /\ call'[Main] = Fresh BY <1>4, StoppingIs, RerunIs
  <2> QED BY <2>1, CallOKFresh DEF Calls
<1> QED BY <1>1, <1>2, <1>3, <1>4

LEMMA JobOKOn ==
  ASSUME Types, NEW j, DOMAIN j = JobFields, j.run \in Nat, JobOK(j), WorldStays, RowsStay, Busy' => Busy,
         Callers \subseteq Callers', \A c \in Callers : Onward(c)
  PROVE  JobOK(j)'
<1>1. \A c \in Callers : Got(c) \in Nat BY Appending DEF Got, Types, CallTypes
<1>2. Step(j.task) \in Nat BY DEF Step
<1>3. Outs(j)' = Outs(j) BY DEF Outs, Failure, AnswersOf
<1>0. ASSUME NEW c \in Callers, NEW n \in Nat, n < Got(c) PROVE n < Got(c)'
  BY <1>0, <1>1 DEF Onward
<1>4. ASSUME j.to \in Callers, Step(j.task) < Got(j.to) PROVE Step(j.task) < Got(j.to)'
  BY <1>0, <1>2, <1>4
<1>5. ASSUME j.to \in Callers, Step(j.task) = Got(j.to), call[j.to].pc \in Sent,
             j.task = call[j.to].task, j.input = call[j.to].input, j.row = call[j.to].row
      PROVE  \/ Step(j.task) < Got(j.to)'
             \/ /\ Step(j.task) = Got(j.to)' /\ call'[j.to].pc \in Sent
                /\ j.task = call'[j.to].task /\ j.input = call'[j.to].input /\ j.row = call'[j.to].row
  BY <1>1, <1>2, <1>5 DEF Onward
<1> QED BY <1>3, <1>4, <1>5 DEF JobOK, WorldStays, RowsStay, Outs, Busy

LEMMA IdOKOn ==
  ASSUME Types, NEW r, IdOK(r), WorldStays, Busy' => Busy, Callers \subseteq Callers',
         \A c \in Callers : Onward(c)
  PROVE  IdOK(r)'
<1>1. \A c \in Callers : Got(c) \in Nat BY Appending DEF Got, Types, CallTypes
<1>2. Step(r[1]) \in Nat BY DEF Step
<1>3. ASSUME r[3] \in Callers, Step(r[1]) < Got(r[3]) PROVE Step(r[1]) < Got(r[3])'
  BY <1>1, <1>2, <1>3 DEF Onward
<1>4. ASSUME r[3] \in Callers, Step(r[1]) = Got(r[3]), call[r[3]].pc \in Sent
      PROVE  Step(r[1]) < Got(r[3])' \/ (Step(r[1]) = Got(r[3])' /\ call'[r[3]].pc \in Sent)
  BY <1>1, <1>2, <1>4 DEF Onward
<1> QED BY <1>3, <1>4 DEF IdOK, WorldStays, Busy

(* A job that is sent, and the row it has.                                        *)
LEMMA JobsMade ==
  ASSUME Types, Jobs, Ids, NEW c \in Callers, Busy, Busy' => Busy, call[c].pc \notin Sent, WorldStays, RowsStay,
         Callers' = Callers, \A d \in Callers : Onward(d),
         NEW t, NEW i, NEW r, Made(c, t, i, r), Step(t) = Got(c), r \in RowIds \/ r = FreshId(c, t)
  PROVE  Jobs' /\ Ids'
<1>1. ASSUME NEW j \in jobs PROVE JobOK(j)' BY <1>1, JobOKOn DEF Jobs, Types, JobTypes
<1>2. PICK m : Moves(c, "await", t, i, r, m, call[c].got) BY DEF Made
<1>3. r \in RowIds' /\ node'.run = node.run /\ Got(c)' = Got(c) BY <1>2 DEF Made, RowTo, RowsStay, WorldStays, Moves, Got
<1>4. ASSUME NEW j, Job(j, c, t, i, r) PROVE JobOK(j)'
  BY <1>2, <1>3, <1>4 DEF JobOK, Job, Moves, Sent, Types, NodeTypes
<1>5. Jobs' BY <1>1, <1>4 DEF Jobs, Made
<1>6. ASSUME NEW y \in RowIds PROVE IdOK(y)' BY <1>6, IdOKOn DEF Ids
<1>7. r = FreshId(c, t) => IdOK(r)'
  BY <1>2, <1>3 DEF FreshId, IdOK, Types, NodeTypes, Moves, Sent
<1>8. RowIds' = RowIds \union {r} BY DEF Made, RowTo
<1> QED BY <1>5, <1>6, <1>7, <1>8 DEF Ids

LEMMA JobsOn ==
  ASSUME Types, Jobs, Ids, WorldStays, RowsStay, RowIds' = RowIds, Busy' => Busy, Callers \subseteq Callers',
         \A c \in Callers : Onward(c), jobs' \subseteq jobs
  PROVE  Jobs' /\ Ids'
<1>1. ASSUME NEW j \in jobs PROVE JobOK(j)' BY <1>1, JobOKOn DEF Jobs, Types, JobTypes
<1>2. ASSUME NEW r \in RowIds PROVE IdOK(r)' BY <1>2, IdOKOn DEF Ids
<1> QED BY <1>1, <1>2 DEF Jobs, Ids

LEMMA CallerJobs ==
  ASSUME Types, Calls, Jobs, Ids, NEW c \in Callers, CallerStep(c)
  PROVE  Jobs' /\ Ids'
<1>0. /\ CallOK(c) /\ WorldStays /\ RowsStay /\ Callers' = Callers /\ Busy /\ Onward(c) /\ Alone(c)
      /\ \A d \in Callers : Onward(d)
  <2>1. CallOK(c) /\ WorldStays /\ RowsStay /\ Onward(c) /\ Alone(c) /\ Busy BY CallerKeeps DEF Calls
  <2>2. ASSUME NEW d \in Callers, d # c PROVE Onward(d) BY <2>1, <2>2 DEF Alone, Onward, Got
  <2> QED BY <2>1, <2>2 DEF Alone
<1>1. ASSUME LookUp(c) PROVE Jobs' /\ Ids'
  <2>1. PICK t, i : NextCall(c) = Ask(t, i) /\ Step(t) = Got(c) BY <1>1, AtItsLookUp
  <2>2. Here(c, "lookup") BY <1>1, <2>1, LookUpIs
  <2>3. CASE Idle
    BY <1>0, <2>3, JobsOn DEF Idle, RowIds
  <2>4. CASE node' = node /\ Made(c, t, i, FreshId(c, t))
    BY <1>0, <2>1, <2>2, <2>4, JobsMade DEF Here, Sent
  <2> QED BY <1>1, <2>1, <2>3, <2>4, LookUpIs
<1>2. ASSUME CreateTask(c) PROVE Jobs' /\ Ids'
  <2>1. Here(c, "create") /\ Made(c, call[c].task, call[c].input, call[c].row) BY <1>2, CreateTaskIs
  <2>2. call[c].row \in RowIds /\ Step(call[c].task) = Got(c) BY <1>0, <2>1, AtItsCall DEF Here
  <2> QED BY <1>0, <2>1, <2>2, JobsMade DEF Here, Sent
<1>3. ASSUME ~LookUp(c), ~CreateTask(c) PROVE jobs' = jobs /\ RowIds' = RowIds
  <2>1. call[c].pc # "lookup" => call[c].row \in RowIds BY <1>0, AtItsCall
  <2>2. ASSUME ReadCached(c) PROVE jobs' = jobs /\ rows' = rows BY <2>2, ReadCachedIs DEF Idle
  <2>3. ASSUME ResetTask(c) PROVE jobs' = jobs /\ RowIds' = RowIds
    <3>1. call[c].row \in RowIds BY <2>1, <2>3 DEF ResetTask
    <3> QED BY <2>3, <3>1, ResetTaskIs DEF RowTo, RowIds
  <2>4. ASSUME Answered(c) PROVE jobs' = jobs /\ RowIds' = RowIds
    <3>1. call[c].row \in RowIds BY <2>1, <2>4 DEF Answered, Waiting
    <3> QED BY <2>4, <3>1, AnsweredIs DEF Ends, RowTo, RowIds
  <2>5. ASSUME TaskWrites(c) PROVE jobs' = jobs /\ RowIds' = RowIds
    <3>1. call[c].row \in RowIds BY <2>1, <2>5 DEF TaskWrites
    <3> QED BY <2>5, <3>1, TaskWritesIs DEF Writes, RowTo, RowIds
  <2>6. ASSUME TaskFails(c) \/ GiveUp(c) \/ SeesPause(c) PROVE jobs' = jobs /\ RowIds' = RowIds
    <3>1. call[c].row \in RowIds BY <2>1, <2>6 DEF TaskFails, GiveUp, SeesPause, Waiting
    <3> QED BY <2>6, <3>1, FailingIs DEF Ends, RowTo, RowIds
  <2> QED BY <1>3, <2>2, <2>3, <2>4, <2>5, <2>6 DEF CallerStep, RowIds
<1>4. ASSUME ~LookUp(c), ~CreateTask(c) PROVE Jobs' /\ Ids'
  BY <1>0, <1>3, <1>4, JobsOn
<1> QED BY <1>1, <1>2, <1>4

LEMMA WorkerJobs ==
  ASSUME Types, Jobs, Ids, NEW j \in jobs, WorkerStep(j)
  PROVE  Jobs' /\ Ids'
<1>0. /\ JobOK(j) /\ WorldStays /\ RowsStay /\ RowIds' = RowIds /\ (Busy' => Busy) /\ Callers' = Callers
      /\ \A d \in Callers : Onward(d)
  BY WorkerKeeps DEF Jobs, Busy
<1>1. j.row \in RowIds BY <1>0 DEF JobOK
<1>2. ASSUME jobs' \subseteq jobs PROVE Jobs' /\ Ids' BY <1>0, <1>2, JobsOn
<1>3. ASSUME NEW ok \in BOOLEAN, JobEnds(j, ok) PROVE Jobs' /\ Ids'
  <2>1. CASE WorkerPersists(j.task) /\ \E k : jobs' = (jobs \ {j}) \union {k} /\ Answering(j, k)
    <3>1. PICK k : jobs' = (jobs \ {j}) \union {k} /\ Answering(j, k) BY <2>1
    <3>2. JobOK(k) BY <1>0, <2>1, <3>1 DEF Answering, JobOK, Outs
    <3>3. \A y \in jobs \union {k} : JobOK(y)'
      <4>1. ASSUME NEW y \in jobs PROVE JobOK(y)' BY <1>0, JobOKOn DEF Jobs, Types, JobTypes
      <4>2. DOMAIN k = JobFields /\ k.run \in Nat BY <3>1 DEF Answering, Types, JobTypes
      <4>3. JobOK(k)' BY <1>0, <3>2, <4>2, JobOKOn
      <4> QED BY <4>1, <4>3
    <3>4. \A r \in RowIds : IdOK(r)'  BY <1>0, IdOKOn DEF Ids
    <3> QED BY <1>0, <3>1, <3>3, <3>4 DEF Jobs, Ids
  <2>2. CASE \E out : Published(j, out) BY <1>2, <2>2, PublishedTo
  <2> QED BY <1>1, <1>3, <2>1, <2>2, JobEndsIs
<1>4. ASSUME JobWrites(j) PROVE Jobs' /\ Ids'
  <2>1. Published(j, j.out) BY <1>1, <1>4, JobWritesIs
  <2> QED BY <1>2, <2>1, PublishedTo
<1> QED BY <1>3, <1>4 DEF WorkerStep

(* Outside a run of the node no job and no id is of the present.                  *)
LEMMA JobsAway ==
  ASSUME Types, Jobs, Ids, RowIds' = RowIds, jobs' \subseteq jobs,
         \/ ~Busy' /\ node'.run = node.run
         \/ node'.run = node.run + 1
  PROVE  Jobs' /\ Ids'
<1>1. \A j : Outs(j)' = Outs(j) BY DEF Outs, Failure, AnswersOf
<1>2. node.run \in Nat BY DEF Types, NodeTypes
<1>3. \A j \in jobs : j.run \in Nat BY DEF Types, JobTypes
<1>4. ASSUME NEW j \in jobs PROVE JobOK(j)'
  BY <1>1, <1>2, <1>3, <1>4 DEF Jobs, JobOK, Outs
<1>5. ASSUME NEW r \in RowIds PROVE IdOK(r)' BY <1>2 DEF Ids, IdOK
<1> QED BY <1>4, <1>5 DEF Jobs, Ids

LEMMA NodeJobs ==
  ASSUME Types, Fan, Jobs, Ids,
         Gather \/ EndNode \/ (\E r \in RowIds : PauseTask(r)) \/ Shutdown \/ Crash \/ Rerun
  PROVE  Jobs' /\ Ids'
<1>1. CASE Gather
  <2>1. WorldStays /\ RowsStay /\ RowIds' = RowIds /\ Busy /\ jobs' = jobs /\ Callers \subseteq Callers'
    BY <1>1, GatherIs DEF WorldStays, RowsStay, RowIds
  <2>2. ASSUME NEW c \in Callers PROVE Onward(c) BY <1>1, GatherIs DEF Onward, Got
  <2> QED BY <2>1, <2>2, JobsOn
<1>2. CASE EndNode
  <2>1. ~Busy' /\ node'.run = node.run /\ RowIds' = RowIds /\ jobs' = jobs
    BY <1>2, NodeEndsIs DEF NodeTo, Busy, RowIds
  <2> QED BY <2>1, JobsAway
<1>3. ASSUME NEW r \in RowIds, PauseTask(r) PROVE Jobs' /\ Ids'
  <2>1. /\ WorldStays /\ RowsStay /\ RowIds' = RowIds /\ (Busy' => Busy) /\ call' = call /\ jobs' \subseteq jobs
        /\ Callers' = Callers
    BY <1>3, PausingIs DEF WorldStays, RowsStay, RowIds, Ends, RowTo, Busy, Callers
  <2>2. \A c \in Callers : Onward(c) BY <2>1 DEF Onward, Got
  <2> QED BY <2>1, <2>2, JobsOn
<1>4. CASE Shutdown \/ Crash
  <2>1. ~Busy' /\ node'.run = node.run /\ RowIds' = RowIds /\ jobs' \subseteq jobs
    BY <1>4, StoppingIs DEF Busy
  <2> QED BY <2>1, JobsAway
<1>5. CASE Rerun
  <2>1. node'.run = node.run + 1 /\ RowIds' = RowIds /\ jobs' = jobs BY <1>5, RerunIs DEF RowIds
  <2> QED BY <2>1, JobsAway
<1> QED BY <1>1, <1>2, <1>3, <1>4, <1>5

-----------------------------------------------------------------------------
(* Fan and Attended. *)

LEMMA SameEnd ==
  ASSUME NEW c, WorldStays, call'[c] = call[c]
  PROVE  (Ended(c) => Ended(c)') /\ (Finished(c) => Finished(c)')
<1>1. NextCall(c)' = NextCall(c) BY SameCall DEF WorldStays
<1> QED BY <1>1 DEF Ended, Finished, AtCall, NoCall

(* After the gather the main coroutine only waits.                                *)
LEMMA WhoSteps ==
  ASSUME Fan, NEW c \in Callers, Busy, ~Finished(c)
  PROVE  node.fan => c # Main
  BY DEF Fan

LEMMA CallerFan ==
  ASSUME Types, Fan, Calls, NEW c \in Callers, CallerStep(c)
  PROVE  Fan'
<1>1. /\ Busy /\ WorldStays /\ Alone(c) /\ NodeAfter(c) /\ node'.fan = node.fan /\ ~Finished(c)
  BY CallerKeeps DEF Calls
<1>2. node.fan => c # Main BY <1>1, WhoSteps
<1>3. Main \in Callers' /\ \A d \in Children' : Long(d) BY <1>1 DEF Alone, Fan, Children
<1>4. ~node.fan => Callers' = {Main} BY <1>1 DEF Fan, Alone
<1>5. node.fan => Finished(Main)' BY <1>1, <1>2, SameEnd DEF Fan, Alone
<1>6. node'.status \in {"completed", "failed"} => ~node.fan
  BY <1>1, <1>2 DEF NodeAfter, RaisedTo, NodeTo, Busy
<1>7. node'.status \in {"completed", "failed"} => Children' = {} BY <1>4, <1>6 DEF Children
<1> QED BY <1>1, <1>3, <1>4, <1>5, <1>7 DEF Fan

LEMMA WorkerFan ==
  ASSUME Types, Fan, Jobs, NEW j \in jobs, WorkerStep(j)
  PROVE  Fan'
<1>0. JobOK(j) BY DEF Jobs
<1>1. WorldStays /\ node' = node /\ Callers' = Callers /\ (~Busy => call' = call) BY <1>0, WorkerKeeps
<1>2. Busy /\ node.fan => Finished(Main)'
  <2>1. ASSUME Busy, node.fan PROVE call'[Main] = call[Main]
    <3>1. Finished(Main) /\ Main \in Callers BY <2>1 DEF Fan
    <3>2. call[Main].pc = "lookup" BY <3>1 DEF Finished, AtCall
    <3>3. ASSUME NEW out, Published(j, out) PROVE call'[Main] = call[Main]
      <4>1. CASE call' # call
        <5>1. j.to \in Callers /\ call[j.to].pc = "await" BY <3>3, <4>1 DEF Published, Awaited
        <5>2. Alone(j.to) BY <3>3, <4>1, <5>1, MovesOn DEF Published
        <5> QED BY <3>1, <3>2, <5>1, <5>2 DEF Alone
      <4> QED BY <4>1
    <3>4. j.row \in RowIds BY <1>0 DEF JobOK
    <3>5. ASSUME NEW ok \in BOOLEAN, JobEnds(j, ok) PROVE call'[Main] = call[Main]
      BY <3>3, <3>4, <3>5, JobEndsIs
    <3>6. JobWrites(j) => call'[Main] = call[Main] BY <3>3, <3>4, JobWritesIs
    <3> QED BY <3>5, <3>6 DEF WorkerStep
  <2> QED BY <2>1, <1>1, SameEnd DEF Fan
<1>3. node.status \in {"completed", "failed"} => \A c \in Children : Ended(c)'
  BY <1>1, SameEnd DEF Fan, Busy
<1> QED BY <1>1, <1>2, <1>3 DEF Fan, Busy, Children

LEMMA ItemsAreLong == \A c \in Items : Long(c)
<1>1. \A a, b, d, e, f : Long(<<a, b, d, e, f>>)
  <2> TAKE a, b, d, e, f
  <2> DEFINE s == <<a, b, d, e, f>>
  <2>1. Len(s) = 5 /\ \E n \in Nat : s \in [1..n -> {s[i] : i \in DOMAIN s}]
    <3>1. s \in [1..5 -> {s[i] : i \in DOMAIN s}] OBVIOUS
    <3> QED BY <3>1
  <2>2. s \in Seq({s[i] : i \in DOMAIN s})
    <3> DEFINE T == {s[i] : i \in DOMAIN s}
    <3>1. \E n \in Nat : s \in [1..n -> T] BY <2>1
    <3> HIDE DEF T
    <3>2. s \in Seq(T) BY <3>1
    <3> QED BY <3>2 DEF T
  <2> QED BY <2>1, <2>2 DEF Long, Listed
<1> QED BY <1>1 DEF Items, OptionsItems, FuturesItems, IndexItems, MacroItems, PeerItems, SymbolItems

LEMMA NodeFan ==
  ASSUME Types, Fan,
         Gather \/ EndNode \/ (\E r \in RowIds : PauseTask(r)) \/ Shutdown \/ Crash \/ Rerun
  PROVE  Fan'
<1>1. CASE Gather
  <2>1. WorldStays /\ Busy' /\ node'.fan /\ Main \in Callers'
    BY <1>1, GatherIs DEF WorldStays, Fan, Busy
  <2>2. Finished(Main)' BY <1>1, <2>1, GatherIs, SameEnd
  <2>3. \A c \in Children' : Long(c) BY <1>1, GatherIs, ItemsAreLong DEF Fan, Children
  <2> QED BY <2>1, <2>2, <2>3 DEF Fan, Busy
<1>2. CASE EndNode
  <2>1. WorldStays /\ ~Busy' /\ call' = call /\ Callers' = Callers /\ \A c \in Children : Ended(c)
    BY <1>2, NodeEndsIs DEF WorldStays, NodeTo, Busy, Callers
  <2>2. \A c \in Children' : Ended(c)' BY <2>1, SameEnd DEF Children
  <2> QED BY <2>1, <2>2 DEF Fan, Children
<1>3. ASSUME NEW r \in RowIds, PauseTask(r) PROVE Fan'
  <2>1. WorldStays /\ node' = node /\ call' = call /\ Callers' = Callers
    BY <1>3, PausingIs DEF WorldStays, Callers
  <2> QED BY <2>1, SameEnd DEF Fan, Children, Busy
<1>4. CASE Shutdown \/ Crash \/ Rerun
  <2>1. Callers' = {Main} /\ node'.status \notin {"completed", "failed"} /\ (Busy' => ~node'.fan)
    BY <1>4, StoppingIs, RerunIs DEF Busy
  <2> QED BY <2>1 DEF Fan, Children
<1> QED BY <1>1, <1>2, <1>3, <1>4

(* A caller that holds a running row keeps it, ends it, or hands it to nobody.     *)
LEMMA AttendedMove ==
  ASSUME Types, Attended, Fan, NEW c \in Callers, Busy, Alone(c), WorldStays, NodeAfter(c),
         ~Finished(c), \A j \in jobs' : j.pc = "write" => j \in jobs,
         \A r \in RowIds' : rows'[r].status = "running" =>
           \/ r \in RowIds /\ rows[r].status = "running" /\ ~Holds(c, r)
           \/ Busy' /\ Holds(c, r)'
  PROVE  Attended'
<1> SUFFICES ASSUME ~node.crashed, NEW r \in RowIds', rows'[r].status = "running"
             PROVE  Busy' /\ \E d \in Callers' : Holds(d, r)'
  BY DEF Attended, WorldStays
<1>1. CASE Busy' /\ Holds(c, r)' BY <1>1 DEF Alone
<1>2. CASE r \in RowIds /\ rows[r].status = "running" /\ ~Holds(c, r)
  <2>1. PICK d \in Callers : Holds(d, r) BY <1>2 DEF Attended
  <2>2. d # c /\ call'[d] = call[d] BY <1>2, <2>1 DEF Alone
  <2>3. Holds(d, r)' BY <2>1, <2>2 DEF Holds, Writing, WorldStays
  <2>4. Busy'
    <3>1. c = Main => ~node.fan BY WhoSteps
    <3>2. c # Main BY <3>1, <2>1, <2>2 DEF Fan
    <3> QED BY <3>2 DEF NodeAfter, RaisedTo, NodeTo, Busy
  <2> QED BY <2>2, <2>3, <2>4 DEF Alone
<1> QED BY <1>1, <1>2

LEMMA NotWriting ==
  ASSUME Types, Jobs, Busy, NEW c \in Callers, call[c].pc \notin Sent, NEW t, Step(t) = Got(c),
         NEW j \in jobs, j.run = node.run, j.to = c
  PROVE  j.task # t
<1>1. JobOK(j) BY DEF Jobs
<1> QED BY <1>1, Appending DEF JobOK, Got, Types, CallTypes

LEMMA CallerAttended ==
  ASSUME Types, Fan, Calls, Jobs, Ids, Attended, NEW c \in Callers, CallerStep(c)
  PROVE  Attended'
<1>0. /\ Busy /\ WorldStays /\ Alone(c) /\ NodeAfter(c) /\ ~Finished(c) /\ CallOK(c)
      /\ \A j \in jobs' : j.pc = "write" => j \in jobs
  BY CallerKeeps DEF Calls
(* Whoever does not hold a row, or ends the one it held, leaves the others.        *)
<1>1. ASSUME \A r \in RowIds' : rows'[r].status = "running" =>
               r \in RowIds /\ rows[r].status = "running" /\ ~Holds(c, r)
      PROVE  Attended'
  BY <1>0, <1>1, AttendedMove
<1>2. ASSUME RowIds' = RowIds, \A r \in RowIds : rows'[r].status = rows[r].status,
             call[c].pc \notin {"create", "await"} \/ rows[call[c].row].status # "running"
      PROVE  Attended'
  BY <1>1, <1>2 DEF Holds
<1>3. call[c].pc # "lookup" => call[c].row \in RowIds /\ Step(call[c].task) = Got(c) BY <1>0, AtItsCall
(* A row made, or a row of its own reset or created, is held from now on.          *)
<1>4. ASSUME NEW t, NEW i, NEW r, Made(c, t, i, r), call[c].pc \notin Sent, Step(t) = Got(c), node' = node,
             call[c].pc = "create" => call[c].row = r
      PROVE  Attended'
  <2>1. PICK m : Moves(c, "await", t, i, r, m, call[c].got) BY <1>4 DEF Made
  <2>2. ~Writing(c)'
    BY <1>0, <1>4, <2>1, NotWriting DEF Writing, Moves, WorldStays
  <2>3. Holds(c, r)' BY <2>1, <2>2 DEF Holds, Moves
  <2>4. ASSUME NEW y \in RowIds', rows'[y].status = "running", y # r
        PROVE  y \in RowIds /\ rows[y].status = "running"
    BY <1>4, <2>4 DEF Made, RowTo
  <2>5. \A y : Holds(c, y) => y = r BY <1>4 DEF Holds, Sent
  <2> QED BY <1>0, <1>4, <2>3, <2>4, <2>5, AttendedMove DEF Busy
<1>5. ASSUME LookUp(c) PROVE Attended'
  <2>1. PICK t, i : NextCall(c) = Ask(t, i) /\ Step(t) = Got(c) BY <1>5, AtItsLookUp
  <2>2. Here(c, "lookup") BY <1>5, <2>1, LookUpIs
  <2>3. CASE Idle BY <1>2, <2>2, <2>3 DEF Idle, Here, RowIds
  <2>4. CASE node' = node /\ Made(c, t, i, FreshId(c, t))
    <3>1. FreshId(c, t) \notin RowIds BY <2>1, <2>2, FreshIsNew DEF Here, Sent
    <3> QED BY <1>4, <2>1, <2>2, <2>4, <3>1 DEF Here, Sent
  <2> QED BY <1>5, <2>1, <2>3, <2>4, LookUpIs
<1>6. ASSUME ReadCached(c) PROVE Attended'
  BY <1>2, <1>6, ReadCachedIs DEF Here, Idle, RowIds
<1>7. ASSUME ResetTask(c) PROVE Attended'
  <2>0. PICK r : r = call[c].row OBVIOUS
  <2>1. r \in RowIds /\ Here(c, "reset") /\ Goes(c, "create") /\ node' = node
    BY <1>3, <1>7, <2>0, ResetTaskIs DEF ResetTask
  <2>2. Holds(c, r)' BY <2>0, <2>1 DEF Goes, Moves, Holds
  <2>3. RowIds' = RowIds /\ \A y \in RowIds : y # r => rows'[y] = rows[y]
    BY <1>7, <2>0, <2>1, ResetTaskIs DEF RowTo, RowIds
  <2>4. \A y : ~Holds(c, y) BY <2>1 DEF Holds, Here
  <2>5. Busy' BY <1>0, <2>1 DEF Busy
  <2>6. \A y \in RowIds' : rows'[y].status = "running" =>
          \/ y \in RowIds /\ rows[y].status = "running" /\ ~Holds(c, y)
          \/ Busy' /\ Holds(c, y)'
    BY <2>2, <2>3, <2>4, <2>5
  <2> QED BY <1>0, <2>6, AttendedMove
<1>8. ASSUME CreateTask(c) PROVE Attended'
  <2>1. Here(c, "create") /\ node' = node /\ Made(c, call[c].task, call[c].input, call[c].row)
    BY <1>8, CreateTaskIs
  <2> QED BY <1>3, <1>4, <2>1 DEF Here, Sent
<1>9. ASSUME NEW s \in Settled, Ends(call[c].row, s), call[c].row \in RowIds PROVE Attended'
  BY <1>1, <1>9 DEF Ends, RowTo, Settled, Holds
<1>10. ASSUME Answered(c) PROVE Attended'
  <2>1. call[c].row \in RowIds BY <1>3, <1>10 DEF Answered, Waiting
  <2> QED BY <1>2, <1>9, <1>10, <2>1, AnsweredIs DEF Settled, RowIds
<1>11. ASSUME TaskWrites(c) PROVE Attended'
  <2>1. call[c].row \in RowIds BY <1>3, <1>11 DEF TaskWrites
  <2>2. Here(c, "write") /\ Writes(call[c].row, call[c].mail) BY <1>11, <2>1, TaskWritesIs
  <2> QED BY <1>2, <2>1, <2>2 DEF Writes, RowTo, Here, RowIds
<1>12. ASSUME TaskFails(c) \/ GiveUp(c) \/ SeesPause(c) PROVE Attended'
  <2>1. call[c].row \in RowIds BY <1>3, <1>12 DEF TaskFails, GiveUp, SeesPause, Waiting
  <2> QED BY <1>2, <1>9, <1>12, <2>1, FailingIs DEF Settled, RowIds
<1> QED BY <1>5, <1>6, <1>7, <1>8, <1>10, <1>11, <1>12 DEF CallerStep

(* What a caller waits for is the row of the job that answers it.                  *)
LEMMA AwaitedRow ==
  ASSUME Types, Calls, NEW j, JobOK(j), Busy, j.run = node.run, j.to \in Callers,
         call[j.to].pc \in Sent, call[j.to].task = j.task
  PROVE  call[j.to].row = j.row /\ call[j.to].input = j.input
<1>1. Step(j.task) = Got(j.to) /\ Got(j.to) \in Nat
  BY AtItsCall, Appending DEF Calls, Got, Types, CallTypes, Sent
<1> QED BY <1>1 DEF JobOK

LEMMA WorkerAttended ==
  ASSUME Types, Calls, Jobs, Attended, NEW j \in jobs, WorkerStep(j)
  PROVE  Attended'
<1>0. JobOK(j) /\ j.row \in RowIds BY DEF Jobs, JobOK
<1>1. /\ WorldStays /\ node' = node /\ RowIds' = RowIds /\ Callers' = Callers
      /\ \A r \in RowIds : rows'[r].status = "running" => rows[r].status = "running"
  BY <1>0, WorkerKeeps
<1>2. ASSUME \A r \in RowIds, c \in Callers :
               Busy /\ rows'[r].status = "running" /\ Holds(c, r) => Holds(c, r)'
      PROVE  Attended'
  BY <1>1, <1>2 DEF Attended, Busy
<1>3. ASSUME jobs' \subseteq jobs, NEW r \in RowIds, NEW c \in Callers, Holds(c, r),
             call'[c] = call[c]
      PROVE  Holds(c, r)'
  BY <1>1, <1>3 DEF Holds, Writing
<1>4. ASSUME NEW out, Published(j, out), out # Failure /\ ~TaskCompletes(j.task) =>
               j.pc = "write" \/ rows[j.row].status # "running"
      PROVE  Attended'
  <2>1. jobs' \subseteq jobs BY <1>4 DEF Published
  <2>2. CASE call' = call BY <1>2, <1>3, <2>1, <2>2
  <2>3. CASE call' # call
    <3>1. Awaited(j) /\ j.to \in Callers BY <1>4, <2>3 DEF Published, Awaited
    <3>2. Alone(j.to) BY <1>4, <2>3, <3>1, MovesOn DEF Published
    <3>3. CASE Moves(j.to, "await", call[j.to].task, call[j.to].input, call[j.to].row, out, call[j.to].got)
      <4>1. \A r \in RowIds : Holds(j.to, r) => Holds(j.to, r)'
        BY <1>1, <2>1, <3>1, <3>3 DEF Holds, Moves, Writing, Awaited
      <4> QED BY <1>2, <1>3, <2>1, <3>2, <4>1 DEF Alone
    <3>4. CASE out # Failure /\ ~TaskCompletes(j.task)
      <4>1. call[j.to].row = j.row BY <1>0, <3>1, AwaitedRow DEF Awaited, Sent
      <4>2. j.pc = "write" => Writing(j.to) BY <3>1 DEF Writing, Awaited
      <4>3. \A r \in RowIds : Holds(j.to, r) => rows[r].status # "running"
        BY <1>4, <3>1, <3>4, <4>1, <4>2 DEF Holds, Awaited
      <4> QED BY <1>1, <1>2, <1>3, <2>1, <3>2, <4>3 DEF Alone
    <3> QED BY <1>4, <2>3, <3>3, <3>4 DEF Published
  <2> QED BY <2>2, <2>3
<1>5. ASSUME NEW ok \in BOOLEAN, JobEnds(j, ok) PROVE Attended'
  <2>1. CASE /\ call' = call /\ \E s \in {"completed", "failed"} : Ends(j.row, s)
             /\ \E k : jobs' = (jobs \ {j}) \union {k} /\ Answering(j, k)
    <3>1. PICK k : jobs' = (jobs \ {j}) \union {k} /\ Answering(j, k) BY <2>1
    <3>2. rows'[j.row].status # "running" BY <2>1 DEF Ends, RowTo
    <3>3. ASSUME NEW r \in RowIds, NEW c \in Callers, Busy, Holds(c, r), rows'[r].status = "running"
          PROVE  Holds(c, r)'
      <4>1. Writing(c)' => Writing(c) \/ (k.run = node.run /\ k.to = c /\ k.task = call[c].task)
        BY <1>1, <2>1, <3>1 DEF Writing
      <4>2. ASSUME k.run = node.run, k.to = c, k.task = call[c].task, call[c].pc = "await", Busy
            PROVE FALSE
        <5>1. call[c].row = j.row BY <1>0, <3>1, <4>2, AwaitedRow DEF Answering, Sent
        <5> QED BY <3>2, <3>3, <5>1 DEF Holds
      <4> QED BY <1>1, <2>1, <3>3, <4>1, <4>2 DEF Holds
    <3> QED BY <1>2, <3>3
  <2>2. CASE /\ rows' = rows /\ \E out \in Outs(j) : Published(j, out)
             /\ ~(WorkerPersists(j.task) /\ rows[j.row].status = "running")
    BY <1>4, <2>2 DEF TaskCompletes, WorkerPersists
  <2> QED BY <1>0, <1>5, <2>1, <2>2, JobEndsIs
<1>6. ASSUME JobWrites(j) PROVE Attended'
  BY <1>0, <1>4, <1>6, JobWritesIs
<1> QED BY <1>5, <1>6 DEF WorkerStep

LEMMA NodeAttended ==
  ASSUME Types, Fan, Attended,
         Gather \/ EndNode \/ (\E r \in RowIds : PauseTask(r)) \/ Shutdown \/ Crash \/ Rerun
  PROVE  Attended'
<1>1. CASE Gather
  <2>1. /\ Busy' /\ WorldStays /\ rows' = rows /\ jobs' = jobs /\ Callers \subseteq Callers'
        /\ \A c \in Callers : call'[c] = call[c]
    BY <1>1, GatherIs DEF Busy, WorldStays
  <2>2. ASSUME NEW r, NEW c \in Callers, Holds(c, r) PROVE Holds(c, r)'
    BY <2>1, <2>2 DEF Holds, Writing, WorldStays
  <2> QED BY <2>1, <2>2 DEF Attended, RowIds, WorldStays
<1>2. CASE EndNode
  <2>1. /\ Busy /\ node.fan /\ rows' = rows /\ node'.crashed = node.crashed
        /\ \A c \in Children : Ended(c)
    BY <1>2, NodeEndsIs DEF NodeTo
  <2>2. ASSUME NEW r, NEW c \in Callers, Holds(c, r) PROVE FALSE
    BY <2>1, <2>2 DEF Fan, Children, Ended, Finished, AtCall, Holds
  <2> QED BY <2>1, <2>2 DEF Attended, RowIds
<1>3. ASSUME NEW r \in RowIds, PauseTask(r) PROVE Attended'
  <2>1. /\ node' = node /\ call' = call /\ jobs' \subseteq jobs /\ RowIds' = RowIds
        /\ \A y \in RowIds : rows'[y].status = "running" => rows[y].status = "running"
    BY <1>3, PausingIs DEF Ends, RowTo, RowIds
  <2>2. ASSUME NEW y, NEW c \in Callers, Holds(c, y) PROVE Holds(c, y)'
    BY <2>1, <2>2 DEF Holds, Writing
  <2> QED BY <2>1, <2>2 DEF Attended, Busy, Callers
<1>4. CASE Shutdown \/ Crash
  BY <1>4, StoppingIs DEF Attended
<1>5. CASE Rerun
  BY <1>5, RerunIs DEF Attended, RowIds
<1> QED BY <1>1, <1>2, <1>3, <1>4, <1>5

-----------------------------------------------------------------------------
(* First. *)

(* A row that keeps its input and does not start again.                           *)
RowRests(r) ==
  /\ rows'[r].in0 = rows[r].in0
  /\ rows[r].status # "running" => rows'[r].status # "running"

LEMMA OwnRowOn ==
  ASSUME Types, WorldStays, NEW c \in Callers, call[c].pc # "lookup" => OwnRow(c) /\ RowRests(call[c].row),
         call'[c].pc # "lookup" =>
           /\ call[c].pc # "lookup" /\ call'[c].pc \in Sent
           /\ call'[c].task = call[c].task /\ call'[c].input = call[c].input
           /\ call'[c].row = call[c].row
           /\ call'[c].pc \in {"write", "failed"} =>
                call[c].pc = call'[c].pc \/ rows'[call[c].row].status # "running"
  PROVE  call'[c].pc # "lookup" => OwnRow(c)'
  BY DEF OwnRow, RowRests, FreshId, Payload, WorldStays

LEMMA CallerFirst ==
  ASSUME Types, Fan, Calls, Ids, First, NEW c \in Callers, CallerStep(c)
  PROVE  First'
<1>0. /\ Busy /\ WorldStays /\ Alone(c) /\ CallOK(c) /\ ctx \subseteq ctx'
  BY CallerKeeps DEF Calls
<1> SUFFICES ASSUME node.run = 0
             PROVE  RowIds' \subseteq ctx' /\ \A d \in Callers : call'[d].pc # "lookup" => OwnRow(d)'
  BY <1>0 DEF First, WorldStays, Alone
<1>1. RowIds \subseteq ctx /\ \A d \in Callers : call[d].pc # "lookup" => OwnRow(d) /\ call[d].row \in RowIds
  BY <1>0 DEF First, Calls, CallOK
<1>2. ASSUME RowIds' = RowIds, \A r \in RowIds : RowRests(r), call'[c].pc # "lookup" => OwnRow(c)'
      PROVE  RowIds' \subseteq ctx' /\ \A d \in Callers : call'[d].pc # "lookup" => OwnRow(d)'
  <2>1. ASSUME NEW d \in Callers, d # c PROVE call'[d].pc # "lookup" => OwnRow(d)'
    BY <1>0, <1>1, <1>2, <2>1, OwnRowOn DEF Alone, OwnRow
  <2> QED BY <1>0, <1>1, <1>2, <2>1
<1>3. ASSUME LookUp(c)
      PROVE  RowIds' \subseteq ctx' /\ \A d \in Callers : call'[d].pc # "lookup" => OwnRow(d)'
  <2>1. PICK t, i : NextCall(c) = Ask(t, i) /\ Step(t) = Got(c) BY <1>3, AtItsLookUp
  <2>2. PICK r : r = FreshId(c, t) OBVIOUS
  <2>3. Here(c, "lookup") /\ Made(c, t, i, r) /\ ctx' = ctx \union {r}
    BY <1>1, <1>3, <2>1, <2>2, LookUpIs DEF Took
  <2>4. r \notin RowIds BY <2>1, <2>2, <2>3, FreshIsNew DEF Here, Sent
  <2>5. RowTo(r, t, "running", Payload(t, i), NoOut) BY <2>3, <2>4 DEF Made
  <2>6. PICK m : Moves(c, "await", t, i, r, m, call[c].got) BY <2>3 DEF Made
  <2>7. OwnRow(c)' BY <1>0, <2>2, <2>5, <2>6 DEF OwnRow, Moves, RowTo, Sent, FreshId, WorldStays, Payload
  <2>8. ASSUME NEW d \in Callers, d # c PROVE call'[d].pc # "lookup" => OwnRow(d)'
    <3>1. call[d].pc # "lookup" => RowRests(call[d].row) BY <1>1, <2>4, <2>5 DEF RowTo, RowRests
    <3> QED BY <1>0, <1>1, <2>8, <3>1, OwnRowOn DEF Alone, OwnRow
  <2> QED BY <1>1, <2>3, <2>5, <2>7, <2>8 DEF RowTo
<1>4. call[c].pc \in {"lookup"} \union Sent BY <1>1 DEF OwnRow
<1>5. ~ReadCached(c) /\ ~ResetTask(c) /\ ~CreateTask(c)
  BY <1>4 DEF ReadCached, ResetTask, CreateTask, Sent
<1>6. ASSUME NEW r \in RowIds, NEW s \in Settled, Ends(r, s)
      PROVE  RowIds' = RowIds /\ (\A y \in RowIds : RowRests(y)) /\ rows'[r].status # "running"
  BY <1>6 DEF Ends, RowTo, RowRests, Settled, RowIds
<1>7. ASSUME Answered(c) PROVE /\ RowIds' = RowIds /\ \A r \in RowIds : RowRests(r)
                               /\ call'[c].pc # "lookup" => OwnRow(c)'
  <2>1. call[c].row \in RowIds /\ call[c].pc # "lookup" BY <1>0, <1>7, AtItsCall DEF Answered, Waiting
  <2>2. CASE Ends(call[c].row, "completed") /\ Goes(c, "write")
    BY <1>0, <1>1, <1>6, <2>1, <2>2, OwnRowOn DEF Goes, Moves, Settled, Sent
  <2>3. CASE rows' = rows /\ rows[call[c].row].status # "running" /\ Takes(c)
    BY <1>0, <1>1, <2>1, <2>3, OwnRowOn DEF Takes, Delivered, Raised, Moves, Sent, RowRests, RowIds
  <2> QED BY <1>7, <2>1, <2>2, <2>3, AnsweredIs
<1>8. ASSUME TaskWrites(c) PROVE /\ RowIds' = RowIds /\ \A r \in RowIds : RowRests(r)
                                 /\ call'[c].pc # "lookup" => OwnRow(c)'
  <2>1. call[c].row \in RowIds /\ call[c].pc = "write" BY <1>0, <1>8, AtItsCall DEF TaskWrites
  <2>2. Writes(call[c].row, call[c].mail) /\ Takes(c) BY <1>8, <2>1, TaskWritesIs
  <2>3. RowIds' = RowIds /\ \A r \in RowIds : RowRests(r) BY <2>1, <2>2 DEF Writes, RowTo, RowRests, RowIds
  <2>4. rows'[call[c].row].status # "running" BY <1>1, <2>1, <2>3 DEF OwnRow, RowRests
  <2> QED BY <1>0, <1>1, <2>1, <2>2, <2>3, <2>4, OwnRowOn DEF Takes, Delivered, Raised, Moves, Sent
<1>9. ASSUME TaskFails(c) \/ GiveUp(c) \/ SeesPause(c)
      PROVE  /\ RowIds' = RowIds /\ \A r \in RowIds : RowRests(r)
             /\ call'[c].pc # "lookup" => OwnRow(c)'
  <2>1. call[c].row \in RowIds BY <1>0, <1>9, AtItsCall DEF TaskFails, GiveUp, SeesPause, Waiting
  <2>2. Raised(c) /\ call[c].pc = "await" BY <1>9, <2>1, FailingIs DEF Here
  <2>3. /\ RowIds' = RowIds /\ \A r \in RowIds : RowRests(r)
        /\ rows'[call[c].row].status # "running"
    BY <1>6, <1>9, <2>1, FailingIs DEF Settled, RowRests, RowIds
  <2> QED BY <1>0, <1>1, <2>1, <2>2, <2>3, OwnRowOn DEF Raised, Moves, Sent
<1> QED BY <1>2, <1>3, <1>5, <1>7, <1>8, <1>9 DEF CallerStep

LEMMA WorkerFirst ==
  ASSUME Types, Calls, Jobs, First, NEW j \in jobs, WorkerStep(j)
  PROVE  First'
<1>0. JobOK(j) /\ j.row \in RowIds BY DEF Jobs, JobOK
<1>1. /\ WorldStays /\ node' = node /\ ctx' = ctx /\ RowIds' = RowIds /\ Callers' = Callers
      /\ \A r \in RowIds : RowRests(r)
  BY <1>0, WorkerKeeps DEF RowRests
<1>2. ASSUME node.run = 0, NEW c \in Callers,
             call'[c] = call[c] \/ \E out : Published(j, out)
      PROVE  call'[c].pc # "lookup" => OwnRow(c)'
  <2>1. call[c].pc # "lookup" => OwnRow(c) /\ RowRests(call[c].row)
    BY <1>1, <1>2 DEF First, Calls, CallOK
  <2>2. CASE call'[c] = call[c] BY <1>1, <2>1, <2>2, OwnRowOn DEF OwnRow
  <2>3. CASE call'[c] # call[c]
    <3>1. PICK out : Published(j, out) BY <1>2, <2>3
    <3>2. j.to \in Callers /\ call[j.to].pc = "await" /\ Alone(j.to)
      BY <2>3, <3>1, MovesOn DEF Published, Awaited
    <3>3. c = j.to BY <2>3, <3>2 DEF Alone
    <3> QED BY <1>1, <2>1, <2>3, <3>1, <3>2, <3>3, OwnRowOn DEF Published, Moves, Delivered, Sent
  <2> QED BY <2>2, <2>3
<1>3. ASSUME NEW c \in Callers PROVE call'[c] = call[c] \/ \E out : Published(j, out)
  <2>1. ASSUME NEW ok \in BOOLEAN, JobEnds(j, ok) PROVE call' = call \/ \E out : Published(j, out)
    BY <1>0, <2>1, JobEndsIs
  <2> QED BY <1>0, <2>1, JobWritesIs DEF WorkerStep
<1> QED BY <1>1, <1>2, <1>3 DEF First, Busy

LEMMA NodeFirst ==
  ASSUME Types, Fan, Calls, First,
         Gather \/ EndNode \/ (\E r \in RowIds : PauseTask(r)) \/ Shutdown \/ Crash \/ Rerun
  PROVE  First'
<1>1. ASSUME WorldStays, RowIds' = RowIds, ctx' = ctx, Busy' => Busy, \A r \in RowIds : RowRests(r),
             \A c \in Callers' : call'[c].pc = "lookup" \/ (c \in Callers /\ call'[c] = call[c])
      PROVE  First'
  <2>1. ASSUME node.run = 0, NEW c \in Callers' PROVE call'[c].pc # "lookup" => OwnRow(c)'
    <3>1. CASE c \in Callers /\ call'[c] = call[c]
      <4>1. call[c].pc # "lookup" => OwnRow(c) /\ RowRests(call[c].row)
        BY <1>1, <2>1, <3>1 DEF First, Calls, CallOK
      <4> QED BY <1>1, <3>1, <4>1, OwnRowOn DEF OwnRow
    <3> QED BY <1>1, <2>1, <3>1
  <2> QED BY <1>1, <2>1 DEF First, WorldStays
<1>2. CASE Gather
  <2>1. \A r \in RowIds : RowRests(r) BY <1>2, GatherIs DEF RowRests
  <2>2. WorldStays /\ RowIds' = RowIds /\ ctx' = ctx /\ (Busy' => Busy)
    BY <1>2, GatherIs DEF WorldStays, RowIds, Busy
  <2>3. \A c \in Callers' : call'[c].pc = "lookup" \/ (c \in Callers /\ call'[c] = call[c])
    BY <1>2, GatherIs, FreshCall
  <2> QED BY <1>1, <2>1, <2>2, <2>3
<1>3. CASE EndNode
  <2>1. \A r \in RowIds : RowRests(r) BY <1>3, NodeEndsIs DEF RowRests
  <2>2. WorldStays /\ RowIds' = RowIds /\ ctx' = ctx /\ (Busy' => Busy) /\ call' = call
    BY <1>3, NodeEndsIs DEF WorldStays, RowIds, Busy, NodeTo
  <2> QED BY <1>1, <2>1, <2>2 DEF Callers
<1>4. ASSUME NEW r \in RowIds, PauseTask(r) PROVE First'
  <2>1. \A y \in RowIds : RowRests(y) BY <1>4, PausingIs DEF RowRests, Ends, RowTo
  <2>2. WorldStays /\ RowIds' = RowIds /\ ctx' = ctx /\ (Busy' => Busy) /\ call' = call
    BY <1>4, PausingIs DEF WorldStays, RowIds, Busy, Ends, RowTo
  <2> QED BY <1>1, <2>1, <2>2 DEF Callers
<1>5. CASE Shutdown \/ Crash
  BY <1>5, StoppingIs, FreshCall DEF First, Busy
<1>6. CASE Rerun
  <2>1. node'.run = node.run + 1 BY <1>6, RerunIs
  <2>2. node.run \in Nat BY DEF Types, NodeTypes
  <2> QED BY <2>1, <2>2 DEF First
<1> QED BY <1>2, <1>3, <1>4, <1>5, <1>6

-----------------------------------------------------------------------------
(* Reused and OwnAnswers: runs 0 and 1. *)

(* get_stats is asked by children only, for their item.                           *)
LEMMA ChildCall ==
  ASSUME Types, NEW c \in Callers, CallOK(c), call[c].pc # "lookup", c # Main
  PROVE  /\ call[c].task \in {"get_stats", "calculate_stats"}
         /\ Got(c) = 0 => call[c].task = "get_stats" /\ call[c].input = Tail(c)
         /\ Got(c) # 0 => Got(c) = 1 /\ call[c].task = "calculate_stats"
         /\ Ask(call[c].task, call[c].input) = SeqCall(c, call[c].got)
<1>1. SeqCall(c, call[c].got) = Ask(call[c].task, call[c].input) /\ SeqCall(c, call[c].got) # NoCall
  BY DEF CallOK, NextCall
<1>2. Got(c) = 0 \/ Got(c) = 1 BY <1>1 DEF SeqCall, Got
<1>3. CASE Got(c) = 0
  <2>1. Ask(call[c].task, call[c].input) = Ask("get_stats", Tail(c)) BY <1>1, <1>3 DEF SeqCall, Got
  <2> QED BY <1>1, <1>3, <2>1 DEF Ask
<1>4. CASE Got(c) = 1
  <2>1. \E i : SeqCall(c, call[c].got) = Ask("calculate_stats", i) BY <1>1, <1>4 DEF SeqCall, Got
  <2> QED BY <1>1, <1>4, <2>1 DEF Ask
<1> QED BY <1>2, <1>3, <1>4

LEMMA NextStats ==
  ASSUME NEW c \in Callers, NEW i, NextCall(c) = Ask("get_stats", i)
  PROVE  c # Main /\ i = Tail(c)
<1>1. \A got : \A t, k : MainCall(got) = Ask(t, k) => t # "get_stats"
  BY DEF MainCall, QueryCall, OptionsCall, FuturesCall, IndexCall, PeersCall, Once, NoCall, Ask
<1>2. c # Main BY <1>1 DEF NextCall
<1>3. \A t, k : Ask(t, k).task = t /\ Ask(t, k).input = k BY DEF Ask
<1>4. SeqCall(c, call[c].got) \in {Ask("get_stats", Tail(c)), NoCall}
        \/ \E k : SeqCall(c, call[c].got) = Ask("calculate_stats", k)
  BY DEF SeqCall
<1>5. NoCall.task # "get_stats" BY DEF NoCall
<1>6. SeqCall(c, call[c].got) = Ask("get_stats", i) BY <1>2 DEF NextCall
<1>7. Ask("get_stats", i) # NoCall BY <1>3, <1>5
<1>8. \A k : Ask("get_stats", i) # Ask("calculate_stats", k)
  <2> TAKE k
  <2>1. Ask("get_stats", i).task = "get_stats" /\ Ask("calculate_stats", k).task = "calculate_stats" BY <1>3
  <2> QED BY <2>1
<1>9. Ask("get_stats", i) = Ask("get_stats", Tail(c)) BY <1>4, <1>6, <1>7, <1>8
<1>10. Ask("get_stats", i).input = i /\ Ask("get_stats", Tail(c)).input = Tail(c) BY <1>3
<1>11. i = Tail(c) BY <1>9, <1>10
<1> QED BY <1>2, <1>11

LEMMA TailIsShort ==
  ASSUME NEW s, Long(s)
  PROVE  Listed(Tail(s)) /\ Len(Tail(s)) = 4 /\ Long(Append(Tail(s), "thread"))
<1>1. DEFINE S == {s[i] : i \in DOMAIN s}
<1>2. s \in Seq(S) /\ Len(s) = 5 BY DEF Long, Listed
<1>3. s # <<>> BY <1>2
<1>4. Tail(s) \in Seq(S) /\ Len(Tail(s)) = 4 BY <1>2, <1>3
<1> HIDE DEF S
<1>5. Listed(Tail(s)) BY <1>4, SeqListed
<1> QED BY <1>4, <1>5, Appending DEF Long

LEMMA LongMade ==
  ASSUME Types, Fan, LongInputs, NEW c \in Callers, NEW t, NEW i, NEW r, Made(c, t, i, r),
         NextCall(c) = Ask(t, i), r \in RowIds => rows[r].task = t
  PROVE  LongInputs'
<1>1. t = "get_stats" => Long(Payload(t, i)) BY NextStats, TailIsShort DEF Payload, Fan, Children
<1>2. RowIds' = RowIds \union {r} /\ rows'[r].task = t /\ rows'[r].in0 = Payload(t, i)
  BY DEF Made, RowTo
<1>3. \A y \in RowIds : y # r => rows'[y] = rows[y] BY DEF Made, RowTo
<1> QED BY <1>1, <1>2, <1>3 DEF LongInputs

LEMMA LongKept ==
  ASSUME LongInputs, RowsStay, RowIds' = RowIds, \A r \in RowIds : rows'[r].in0 = rows[r].in0
  PROVE  LongInputs'
  BY DEF LongInputs, RowsStay

(* What a step that makes no row does to the rows.                                *)
RowsRest ==
  /\ RowIds' = RowIds
  /\ \A r \in RowIds :
       /\ rows'[r].task = rows[r].task /\ rows'[r].in0 = rows[r].in0
       /\ rows'[r].out \in {rows[r].out, NoOut} \/ rows[r].task # "calculate_stats"
       /\ r \notin ctx' /\ rows[r].status # "running" => rows'[r].status = rows[r].status

LEMMA CallerRows ==
  ASSUME Types, NEW c \in Callers, CallOK(c), CallerStep(c), ~LookUp(c), ~CreateTask(c)
  PROVE  RowsRest /\ jobs' = jobs
<1>1. call[c].pc # "lookup" => call[c].row \in RowIds /\ rows[call[c].row].task = call[c].task BY AtItsCall
<1>2. ASSUME rows' = rows PROVE RowsRest BY <1>2 DEF RowsRest, RowIds
<1>3. ASSUME NEW s, call[c].row \in RowIds, Ends(call[c].row, s) PROVE RowsRest
  BY <1>3 DEF Ends, RowTo, RowsRest, RowIds
<1>4. ASSUME ReadCached(c) PROVE RowsRest /\ jobs' = jobs BY <1>2, <1>4, ReadCachedIs DEF Idle
<1>5. ASSUME ResetTask(c) PROVE RowsRest /\ jobs' = jobs
  <2>1. call[c].row \in RowIds BY <1>1, <1>5 DEF ResetTask
  <2>2. /\ jobs' = jobs /\ ctx' = ctx \union {call[c].row}
        /\ \/ rows' = rows
           \/ RowTo(call[c].row, rows[call[c].row].task, "running", rows[call[c].row].in0, NoOut)
    BY <1>5, <2>1, ResetTaskIs
  <2>3. ASSUME RowTo(call[c].row, rows[call[c].row].task, "running", rows[call[c].row].in0, NoOut)
        PROVE  RowsRest
    BY <2>1, <2>2, <2>3 DEF RowTo, RowsRest, RowIds
  <2> QED BY <1>2, <2>2, <2>3
<1>6. ASSUME Answered(c) PROVE RowsRest /\ jobs' = jobs
  <2>1. call[c].row \in RowIds BY <1>1, <1>6 DEF Answered, Waiting
  <2> QED BY <1>2, <1>3, <1>6, <2>1, AnsweredIs
<1>7. ASSUME TaskWrites(c) PROVE RowsRest /\ jobs' = jobs
  <2>1. call[c].row \in RowIds /\ rows[call[c].row].task = call[c].task BY <1>1, <1>7 DEF TaskWrites
  <2>2. jobs' = jobs /\ Writes(call[c].row, call[c].mail) BY <1>7, <2>1, TaskWritesIs
  <2>3. call[c].task # "calculate_stats"
    BY <1>7 DEF TaskWrites, CallOK, TaskCompletes, Streamed, InProcess, Requests
  <2> QED BY <2>1, <2>2, <2>3 DEF Writes, RowTo, RowsRest, RowIds
<1>8. ASSUME TaskFails(c) \/ GiveUp(c) \/ SeesPause(c) PROVE RowsRest /\ jobs' = jobs
  <2>1. call[c].row \in RowIds BY <1>1, <1>8 DEF TaskFails, GiveUp, SeesPause, Waiting
  <2> QED BY <1>2, <1>3, <1>8, <2>1, FailingIs
<1> QED BY <1>4, <1>5, <1>6, <1>7, <1>8 DEF CallerStep

LEMMA CallerLong ==
  ASSUME Types, Fan, Calls, Ids, LongInputs, NEW c \in Callers, CallerStep(c)
  PROVE  LongInputs'
<1>0. CallOK(c) /\ RowsStay BY CallerKeeps DEF Calls
<1>1. ASSUME LookUp(c) PROVE LongInputs'
  <2>1. PICK t, i : NextCall(c) = Ask(t, i) /\ Step(t) = Got(c) BY <1>1, AtItsLookUp
  <2>2. Here(c, "lookup") BY <1>1, <2>1, LookUpIs
  <2>3. CASE Idle BY <1>0, <2>3, LongKept DEF Idle, RowIds
  <2>4. CASE Made(c, t, i, FreshId(c, t))
    BY <2>1, <2>2, <2>4, LongMade, FreshIsNew DEF Here, Sent
  <2> QED BY <1>1, <2>1, <2>3, <2>4, LookUpIs
<1>2. ASSUME CreateTask(c) PROVE LongInputs'
  <2>1. Here(c, "create") /\ Made(c, call[c].task, call[c].input, call[c].row) BY <1>2, CreateTaskIs
  <2>2. NextCall(c) = Ask(call[c].task, call[c].input) /\ rows[call[c].row].task = call[c].task
    BY <1>0, <2>1, AtItsCall DEF Here
  <2> QED BY <2>1, <2>2, LongMade
<1>3. ASSUME ~LookUp(c), ~CreateTask(c) PROVE LongInputs'
  BY <1>0, <1>3, CallerRows, LongKept DEF RowsRest
<1> QED BY <1>1, <1>2, <1>3

LEMMA OthersLong ==
  ASSUME Types, Fan, Jobs, LongInputs,
         \/ \E j \in jobs : WorkerStep(j)
         \/ Gather \/ EndNode \/ (\E r \in RowIds : PauseTask(r)) \/ Shutdown \/ Crash \/ Rerun
  PROVE  LongInputs'
<1>1. ASSUME NEW j \in jobs, WorkerStep(j) PROVE LongInputs'
  <2>1. JobOK(j) BY DEF Jobs
  <2> QED BY <1>1, <2>1, WorkerKeeps, LongKept
<1>2. ASSUME rows' = rows PROVE LongInputs' BY <1>2, LongKept DEF RowsStay, RowIds
<1>3. Gather \/ EndNode \/ Rerun => rows' = rows BY GatherIs, NodeEndsIs, RerunIs
<1>4. ASSUME NEW r \in RowIds, PauseTask(r) PROVE LongInputs'
  BY <1>4, PausingIs, LongKept DEF Ends, RowTo, RowsStay, RowIds
<1>5. ASSUME Shutdown \/ Crash PROVE LongInputs' BY <1>5, StoppingIs, LongKept DEF RowsStay
<1> QED BY <1>1, <1>2, <1>3, <1>4, <1>5

(* A row stays pure while the jobs about it are old ones and its output is left.   *)
LEMMA PureStays ==
  ASSUME NEW r \in RowIds, Pure(r), rows'[r].task = rows[r].task, rows'[r].in0 = rows[r].in0,
         rows'[r].out \in {rows[r].out, NoOut} \/ rows[r].task # "calculate_stats",
         \A j \in jobs' : j.row = r =>
           \E y \in jobs : y.row = r /\ y.task = j.task /\ y.input = j.input
  PROVE  Pure(r)'
  BY DEF Pure, Payload, NoOut, Failure

LEMMA PureRest ==
  ASSUME RowsRest, jobs' \subseteq jobs, NEW r \in RowIds, Pure(r)
  PROVE  Pure(r)'
  BY PureStays DEF RowsRest

LEMMA PureMade ==
  ASSUME Types, Jobs, NEW c \in Callers, NEW t, NEW i, NEW r, Made(c, t, i, r), r \notin RowIds
  PROVE  Pure(r)' /\ \A y \in RowIds : Pure(y) => Pure(y)'
<1>1. RowTo(r, t, "running", Payload(t, i), NoOut) BY DEF Made
<1>2. \A j \in jobs' : j \in jobs \/ Job(j, c, t, i, r) BY DEF Made
<1>3. \A j \in jobs : j.row # r BY DEF Jobs, JobOK
<1>4. Pure(r)' BY <1>1, <1>2, <1>3 DEF Pure, Job, RowTo, Payload, NoOut
<1>5. ASSUME NEW y \in RowIds, Pure(y) PROVE Pure(y)'
  <2>1. rows'[y] = rows[y] /\ y # r BY <1>1, <1>5 DEF RowTo
  <2> QED BY <1>2, <1>5, <2>1, PureStays DEF Job
<1> QED BY <1>4, <1>5

(* A caller at a step that moves no other caller towards its row.                 *)
LEMMA ReuseStays ==
  ASSUME Types, NEW d \in Callers, CallOK(d), Reuse(d), call'[d] = call[d], ctx \subseteq ctx',
         RowsStay,
         rows[call[d].row].status # "running" /\ call[d].row \notin ctx' =>
           rows'[call[d].row].status = rows[call[d].row].status,
         call[d].pc = "read" \/ call[d].row \notin ctx' => rows'[call[d].row].in0 = rows[call[d].row].in0,
         call[d].pc = "read" /\ Pure(call[d].row) => Pure(call[d].row)',
         \A e \in Callers' : call'[e].pc \in {"reset", "create"} /\ call'[e].row = call[d].row /\ call[d].pc = "read" =>
           call'[e].input = call[d].input
  PROVE  Reuse(d)'
<1> DEFINE r == call[d].row
<1>1. call'[d].pc = "create" => call'[d].row \in ctx' BY DEF Reuse
<1>2. call'[d].pc \in {"read", "reset"} /\ r \notin ctx' => rows'[r].status # "running" BY DEF Reuse
<1>3. call'[d].pc = "reset" /\ r \notin ctx' /\ rows'[r].status = "completed" => rows'[r].in0 = call'[d].input
  BY DEF Reuse
<1>4. PICK y : y = r OBVIOUS
<1>5. ASSUME call[d].pc = "read" PROVE Reads1(d)'
  <2>1. Pure(y)' /\ rows'[y].in0 = call'[d].input BY <1>4, <1>5 DEF Reuse, Reads1
  <2>2. y \notin ctx' => rows'[y].status = "completed" BY <1>4, <1>5 DEF Reuse, Reads1
  <2>3. \A e \in Callers' : call'[e].row = y /\ call'[e].pc \in {"reset", "create"} =>
          call'[e].input = call'[d].input
    BY <1>4, <1>5
  <2>4. call'[d].row = y BY <1>4
  <2> QED BY <2>1, <2>2, <2>3, <2>4 DEF Reads1, Pure
<1> QED BY <1>1, <1>2, <1>3, <1>5 DEF Reuse

(* The steps that leave no caller at a row to reuse, but where it was.            *)
LEMMA ReusedOn ==
  ASSUME Types, Calls, Reused, RowsStay, node'.run = node.run, Busy' => Busy, ctx \subseteq ctx',
         \A r \in RowIds : Pure(r) => Pure(r)', \A r \in RowIds' \ RowIds : Pure(r)',
         \A d \in Callers' : \/ d \in Callers /\ call'[d] = call[d]
                             \/ call'[d].pc \notin {"read", "reset", "create"},
         \A r \in RowIds : /\ rows'[r].in0 = rows[r].in0
                           /\ rows[r].status # "running" /\ r \notin ctx' => rows'[r].status = rows[r].status
  PROVE  Reused'
<1>1. node'.run = 0 => \A r \in RowIds' : Pure(r)' BY DEF Reused
<1>2. ASSUME Busy, node.run = 1 PROVE \A r \in RowIds' \ ctx' : Pure(r)' BY <1>2 DEF Reused
<1>3. ASSUME Busy, node.run = 1, NEW d \in Callers' PROVE Reuse(d)'
  <2>1. CASE call'[d].pc \notin {"read", "reset", "create"} BY <2>1 DEF Reuse
  <2>2. CASE d \in Callers /\ call'[d] = call[d] /\ call[d].pc \in {"read", "reset", "create"}
    <3>1. Reuse(d) /\ CallOK(d) BY <1>3, <2>2 DEF Reused, Calls
    <3>2. call[d].row \in RowIds BY <2>2, <3>1 DEF CallOK
    <3>3. ASSUME NEW e \in Callers', call'[e].pc \in {"reset", "create"}, call'[e].row = call[d].row,
                 call[d].pc = "read"
          PROVE  call'[e].input = call[d].input
      BY <3>1, <3>3 DEF Reuse, Reads1
    <3> QED BY <2>2, <3>1, <3>2, <3>3, ReuseStays
  <2> QED BY <1>3, <2>1, <2>2
<1> QED BY <1>1, <1>2, <1>3 DEF Reused

(* A first rerun: the steps that lead a caller to a row or from it.               *)
LEMMA ReusedFirstRerun ==
  ASSUME Types, Calls, Jobs, Reused, node.run = 1, Busy, NEW c \in Callers, Alone(c), WorldStays, RowsStay,
         ctx \subseteq ctx', \A r \in RowIds : Pure(r) /\ r \notin ctx' => Pure(r)',
         RowIds' = RowIds, Reuse(c)',
         \A r \in RowIds : rows[r].status # "running" /\ r \notin ctx' => rows'[r].status = rows[r].status,
         \A d \in Callers : d # c /\ call[d].pc \in {"read", "reset", "create"} =>
           /\ call[d].pc = "read" \/ call[d].row \notin ctx' => rows'[call[d].row].in0 = rows[call[d].row].in0
           /\ call[d].pc = "read" /\ Pure(call[d].row) => Pure(call[d].row)'
           /\ call'[c].pc \in {"reset", "create"} /\ call'[c].row = call[d].row /\ call[d].pc = "read" =>
                call'[c].input = call[d].input
  PROVE  Reused'
<1>1. \A r \in RowIds' \ ctx' : Pure(r)' BY DEF Reused
<1>2. ASSUME NEW d \in Callers, d # c PROVE Reuse(d)'
  <2>1. CASE call[d].pc \notin {"read", "reset", "create"} BY <1>2, <2>1 DEF Reuse, Alone
  <2>2. CASE call[d].pc \in {"read", "reset", "create"}
    <3>1. Reuse(d) /\ CallOK(d) /\ call'[d] = call[d] BY <1>2 DEF Reused, Calls, Alone
    <3>2. call[d].row \in RowIds BY <2>2, <3>1 DEF CallOK
    <3>3. ASSUME NEW e \in Callers', call'[e].pc \in {"reset", "create"}, call'[e].row = call[d].row,
                 call[d].pc = "read"
          PROVE  call'[e].input = call[d].input
      BY <1>2, <2>2, <3>1, <3>3 DEF Reuse, Reads1, Alone
    <3> QED BY <1>2, <2>2, <3>1, <3>2, <3>3, ReuseStays
  <2> QED BY <2>1, <2>2
<1> QED BY <1>1, <1>2 DEF Reused, WorldStays, Alone

(* A cached answer is never one of get_stats, whose row holds more than its input. *)
LEMMA NoStatsRead ==
  ASSUME Types, Fan, Calls, LongInputs, NEW c \in Callers, call[c].pc # "lookup",
         rows[call[c].row].in0 = call[c].input
  PROVE  call[c].task # "get_stats"
<1> SUFFICES ASSUME call[c].task = "get_stats" PROVE FALSE OBVIOUS
<1>1. /\ NextCall(c) = Ask("get_stats", call[c].input)
      /\ call[c].row \in RowIds /\ rows[call[c].row].task = "get_stats"
  BY AtItsCall DEF Calls
<1>2. c # Main /\ call[c].input = Tail(c) BY <1>1, NextStats
<1>3. Long(c) /\ Long(rows[call[c].row].in0) BY <1>1, <1>2 DEF Fan, Children, LongInputs
<1>4. PICK n : n = Len(Tail(c)) OBVIOUS
<1>5. n = 4 BY <1>3, <1>4, TailIsShort
<1>6. n = 5
  <2>1. \E r \in RowIds : rows[r].in0 = Tail(c) /\ Len(rows[r].in0) = 5 BY <1>1, <1>2, <1>3 DEF Long
  <2> QED BY <1>4, <2>1
<1> QED BY <1>5, <1>6

LEMMA TookReused ==
  ASSUME Types, Calls, Jobs, Reused, node.run = 1, Busy, NEW c \in Callers,
         WorldStays, Idle, NEW t, NEW i, NEW r, Took(c, Ask(t, i), r)
  PROVE  Reused'
<1>1. /\ r \in RowIds \ ctx /\ rows[r].status \in Settled
      /\ rows[r].status = "completed" => rows[r].in0 = i
      /\ Moves(c, IF rows[r].status = "completed" THEN "read" ELSE "reset", t, i, r, call[c].mail, call[c].got)
  BY DEF Took, Ask
<1>2. \A y \in RowIds : Pure(y) => Pure(y)' BY PureRest DEF Idle, RowsRest, RowIds
<1>3. Alone(c) /\ RowsStay BY <1>1 DEF Moves, Alone, Idle, RowsStay, RowIds
<1>4. Reuse(c)'
  <2>1. CASE rows[r].status # "completed"
    BY <1>1, <2>1 DEF Moves, Reuse, Idle, Settled
  <2>2. CASE rows[r].status = "completed"
    <3>1. call'[c].pc = "read" /\ call'[c].row = r /\ call'[c].input = i BY <1>1, <2>2 DEF Moves
    <3>2. Pure(r)' BY <1>1, <1>2 DEF Reused
    <3>3. ASSUME NEW e \in Callers, call'[e].row = r, call'[e].pc \in {"reset", "create"}
          PROVE  call'[e].input = i
      <4>1. e # c /\ call'[e] = call[e] BY <3>1, <3>3, <1>3 DEF Alone
      <4>2. Reuse(e) BY DEF Reused
      <4> QED BY <1>1, <2>2, <3>3, <4>1, <4>2 DEF Reuse
    <3>4. Reads1(c)' BY <1>1, <1>3, <2>2, <3>1, <3>2, <3>3 DEF Reads1, Idle, Alone, Pure
    <3> QED BY <1>1, <2>2, <3>1, <3>4 DEF Reuse, Idle
  <2> QED BY <2>1, <2>2
<1>5. ASSUME NEW d \in Callers, call[d].pc = "read", call[d].row = r, call'[c].pc = "reset" PROVE FALSE
  <2>1. Reuse(d) BY DEF Reused
  <2> QED BY <1>1, <1>5, <2>1 DEF Reuse, Reads1, Moves
<1>6. ASSUME NEW d \in Callers, d # c, call[d].pc \in {"read", "reset", "create"}
      PROVE  /\ rows'[call[d].row].in0 = rows[call[d].row].in0
             /\ Pure(call[d].row) => Pure(call[d].row)'
             /\ call'[c].pc \in {"reset", "create"} /\ call'[c].row = call[d].row /\ call[d].pc = "read" =>
                  call'[c].input = call[d].input
  <2>1. call[d].row \in RowIds BY <1>6 DEF Calls, CallOK
  <2>2. call'[c].pc # "create" /\ call'[c].row = r BY <1>1 DEF Moves
  <2>3. Pure(call[d].row) => Pure(call[d].row)'
    <3>1. PICK y \in RowIds : y = call[d].row BY <2>1
    <3>2. call'[d] = call[d] BY <1>3, <1>6 DEF Alone
    <3> QED BY <1>2, <3>1, <3>2
  <2> QED BY <1>5, <2>2, <2>3 DEF Idle
<1>7. RowIds' = RowIds /\ ctx \subseteq ctx' /\ \A y \in RowIds : rows'[y].status = rows[y].status
  BY DEF Idle, RowIds
<1> QED BY <1>2, <1>3, <1>4, <1>6, <1>7, ReusedFirstRerun

LEMMA ToResetReused ==
  ASSUME Types, Calls, Jobs, Reused, node.run = 1, NEW c \in Callers, WorldStays,
         Here(c, "read"), Idle, Goes(c, "reset")
  PROVE  Reused'
<1>1. \A y \in RowIds : Pure(y) => Pure(y)' BY PureRest DEF Idle, RowsRest, RowIds
<1>2. Alone(c) /\ RowsStay BY DEF Goes, Moves, Alone, Idle, RowsStay, RowIds
<1>3. Reuse(c) /\ Reads1(c) /\ call[c].row \in RowIds BY DEF Reused, Here, Reuse, Calls, CallOK
<1>4. call'[c].pc = "reset" /\ call'[c].row = call[c].row /\ call'[c].input = call[c].input
  BY DEF Goes, Moves
<1>5. Reuse(c)' BY <1>3, <1>4 DEF Reuse, Reads1, Here, Idle
<1>6. ASSUME NEW d \in Callers, d # c, call[d].pc \in {"read", "reset", "create"}
      PROVE  /\ rows'[call[d].row].in0 = rows[call[d].row].in0
             /\ Pure(call[d].row) => Pure(call[d].row)'
             /\ call'[c].pc \in {"reset", "create"} /\ call'[c].row = call[d].row /\ call[d].pc = "read" =>
                  call'[c].input = call[d].input
  <2>1. call[d].row \in RowIds BY <1>6 DEF Calls, CallOK
  <2>2. Pure(call[d].row) => Pure(call[d].row)'
    <3>1. PICK y \in RowIds : y = call[d].row BY <2>1
    <3>2. call'[d] = call[d] BY <1>2, <1>6 DEF Alone
    <3> QED BY <1>1, <3>1, <3>2
  <2>3. call[d].pc = "read" => rows[call[d].row].in0 = call[d].input BY DEF Reused, Here, Reuse, Reads1
  <2> QED BY <1>3, <1>4, <2>2, <2>3 DEF Idle, Reads1
<1>7. RowIds' = RowIds /\ ctx \subseteq ctx' /\ \A y \in RowIds : rows'[y].status = rows[y].status
  BY DEF Idle, RowIds
<1> QED BY <1>1, <1>2, <1>5, <1>6, <1>7, ReusedFirstRerun DEF Here

LEMMA ResetReused ==
  ASSUME Types, Calls, Jobs, Reused, node.run = 1, NEW c \in Callers, CallerStep(c), ResetTask(c)
  PROVE  Reused'
<1>0. CallOK(c) /\ Busy /\ WorldStays /\ Alone(c) /\ RowsStay /\ ctx \subseteq ctx' BY CallerKeeps DEF Calls
<1>1. call[c].row \in RowIds BY <1>0 DEF CallOK, ResetTask
<1>2. Here(c, "reset") /\ Goes(c, "create") /\ jobs' = jobs /\ ctx' = ctx \union {call[c].row}
  BY <1>1, ResetTaskIs
<1>3. RowsRest BY <1>0, <1>2, CallerRows DEF LookUp, CreateTask, AtCall, Here
<1>4. \A y \in RowIds : Pure(y) => Pure(y)' BY <1>2, <1>3, PureRest
<1>5. call'[c].pc = "create" /\ call'[c].row = call[c].row /\ call'[c].input = call[c].input
  BY <1>2 DEF Goes, Moves
<1>6. Reuse(c)' BY <1>2, <1>5 DEF Reuse
<1>7. ASSUME NEW d \in Callers, d # c, call[d].pc \in {"read", "reset", "create"}
      PROVE  /\ rows'[call[d].row].in0 = rows[call[d].row].in0
             /\ Pure(call[d].row) => Pure(call[d].row)'
             /\ call'[c].pc \in {"reset", "create"} /\ call'[c].row = call[d].row /\ call[d].pc = "read" =>
                  call'[c].input = call[d].input
  <2>1. call[d].row \in RowIds BY <1>7 DEF Calls, CallOK
  <2>2. Pure(call[d].row) => Pure(call[d].row)'
    <3>1. PICK y \in RowIds : y = call[d].row BY <2>1
    <3>2. call'[d] = call[d] BY <1>0, <1>7 DEF Alone
    <3> QED BY <1>4, <3>1, <3>2
  <2>3. call[d].pc = "read" => Reads1(d) BY <1>2 DEF Reused, Here, Reuse
  <2> QED BY <1>2, <1>3, <1>5, <2>1, <2>2, <2>3 DEF RowsRest, Reads1, Here
<1>8. \A r \in RowIds : rows[r].status # "running" /\ r \notin ctx' => rows'[r].status = rows[r].status
  BY <1>3 DEF RowsRest
<1>9. RowIds' = RowIds BY <1>3 DEF RowsRest
<1> QED BY <1>0, <1>4, <1>6, <1>7, <1>8, <1>9, ReusedFirstRerun

LEMMA CreateReused ==
  ASSUME Types, Fan, Calls, Jobs, LongInputs, Reused, node.run = 1, NEW c \in Callers,
         CallerStep(c), CreateTask(c)
  PROVE  Reused'
<1>0. CallOK(c) /\ Busy /\ WorldStays /\ Alone(c) /\ RowsStay BY CallerKeeps DEF Calls
<1>1. Here(c, "create") /\ node' = node /\ ctx' = ctx /\ Made(c, call[c].task, call[c].input, call[c].row)
  BY CreateTaskIs
<1>2. PICK r, t, i : r = call[c].row /\ t = call[c].task /\ i = call[c].input OBVIOUS
<1>3. r \in RowIds /\ rows[r].task = t /\ r \in ctx BY <1>0, <1>1, <1>2 DEF CallOK, Here, Reused, Reuse
<1>4. RowTo(r, t, rows[r].status, Payload(t, i), rows[r].out) BY <1>1, <1>2, <1>3 DEF Made
<1>5. \A j \in jobs' : j \in jobs \/ Job(j, c, t, i, r) BY <1>1, <1>2 DEF Made
<1>6. ASSUME NEW y \in RowIds, Pure(y), y # r PROVE Pure(y)'
  <2>1. rows'[y] = rows[y] BY <1>4, <1>6 DEF RowTo
  <2> QED BY <1>5, <1>6, <2>1, PureStays DEF Job
<1>7. call'[c].pc = "await" BY <1>1 DEF Made, Moves
<1>8. Reuse(c)' BY <1>7 DEF Reuse
(* Whoever reads this very row has the input it is created for.                    *)
<1>9. ASSUME NEW d \in Callers, call[d].pc = "read", call[d].row = r
      PROVE  Payload(t, i) = rows[r].in0 /\ (Pure(r) => Pure(r)')
  <2>1. Reads1(d) BY <1>0, <1>9 DEF Reused, Reuse
  <2>2. rows[r].in0 = call[d].input /\ i = call[d].input
    BY <1>1, <1>2, <1>9, <2>1 DEF Reads1, Here
  <2>3. call[d].task = t BY <1>3, <1>9 DEF Calls, CallOK
  <2>4. t # "get_stats" BY <1>9, <2>2, <2>3, NoStatsRead
  <2>5. Payload(t, i) = i BY <2>4 DEF Payload
  <2>6. ASSUME Pure(r) PROVE Pure(r)'
    <3>1. rows'[r].task = t /\ rows'[r].in0 = rows[r].in0 /\ rows'[r].out = rows[r].out
      BY <1>4, <2>2, <2>5 DEF RowTo
    <3>2. \A j \in jobs' : j.row = r => j.task = t /\ rows[r].in0 = Payload(j.task, j.input)
      BY <1>3, <1>5, <2>2, <2>5, <2>6 DEF Pure, Job
    <3> QED BY <1>3, <2>6, <3>1, <3>2 DEF Pure, Payload, NoOut, Failure
  <2> QED BY <2>2, <2>5, <2>6
<1>10. ASSUME NEW d \in Callers, d # c, call[d].pc \in {"read", "reset", "create"}
       PROVE  /\ call[d].pc = "read" \/ call[d].row \notin ctx' => rows'[call[d].row].in0 = rows[call[d].row].in0
              /\ call[d].pc = "read" /\ Pure(call[d].row) => Pure(call[d].row)'
              /\ call'[c].pc \notin {"reset", "create"}
  <2>1. PICK y \in RowIds : y = call[d].row BY <1>10 DEF Calls, CallOK
  <2>2. call'[d] = call[d] BY <1>0, <1>10 DEF Alone
  <2>3. CASE y # r
    <3>1. rows'[y] = rows[y] BY <1>4, <2>1, <2>3 DEF RowTo
    <3> QED BY <1>6, <1>7, <2>1, <2>2, <2>3, <3>1
  <2>4. CASE y = r
    <3>1. rows'[r].in0 = Payload(t, i) BY <1>4 DEF RowTo
    <3> QED BY <1>1, <1>3, <1>7, <1>9, <1>10, <2>1, <2>2, <2>4, <3>1
  <2> QED BY <2>3, <2>4
<1>11. RowIds' = RowIds /\ ctx \subseteq ctx' /\ \A y \in RowIds : rows'[y].status = rows[y].status
  BY <1>1, <1>3, <1>4 DEF RowTo, RowIds
<1>12. \A y \in RowIds : Pure(y) /\ y \notin ctx' => Pure(y)' BY <1>1, <1>3, <1>6
<1> QED BY <1>0, <1>8, <1>10, <1>11, <1>12, ReusedFirstRerun

LEMMA CallerReused ==
  ASSUME Types, Fan, Calls, Jobs, Ids, First, LongInputs, Reused, NEW c \in Callers, CallerStep(c)
  PROVE  Reused'
<1>0. /\ CallOK(c) /\ Busy /\ WorldStays /\ Alone(c) /\ RowsStay /\ ctx \subseteq ctx' /\ node.run \in Nat
      /\ node'.run = node.run /\ (Busy' => Busy)
  BY CallerKeeps DEF Calls, Types, NodeTypes, WorldStays
<1>1. node.run \notin {0, 1} => Reused' BY <1>0 DEF Reused
<1>2. ASSUME RowsRest, jobs' \subseteq jobs, node.run = 0 PROVE Reused'
  <2>1. \A r \in RowIds : Pure(r)' BY <1>2, PureRest DEF Reused
  <2> QED BY <1>0, <1>2, <2>1 DEF Reused, RowsRest
<1>3. ASSUME RowsRest, jobs' \subseteq jobs, call'[c].pc \notin {"read", "reset", "create"} PROVE Reused'
  <2>1. \A r \in RowIds : Pure(r) => Pure(r)' BY <1>3, PureRest
  <2>2. \A d \in Callers' : \/ d \in Callers /\ call'[d] = call[d]
                            \/ call'[d].pc \notin {"read", "reset", "create"}
    BY <1>0, <1>3 DEF Alone
  <2>3. RowIds' = RowIds /\ \A r \in RowIds :
          /\ rows'[r].in0 = rows[r].in0
          /\ rows[r].status # "running" /\ r \notin ctx' => rows'[r].status = rows[r].status
    BY <1>3 DEF RowsRest
  <2> QED BY <1>0, <2>1, <2>2, <2>3, ReusedOn
<1>4. rows' = rows => RowsRest BY DEF RowsRest, RowIds
<1>5. ASSUME LookUp(c) PROVE Reused'
  <2>1. PICK t, i : NextCall(c) = Ask(t, i) /\ Step(t) = Got(c) BY <1>5, AtItsLookUp
  <2>2. Here(c, "lookup") BY <1>5, <2>1, LookUpIs
  <2>3. CASE Idle /\ \E r : Took(c, Ask(t, i), r)
    <3>1. node.run = 1 => Reused' BY <1>0, <2>3, TookReused
    <3> QED BY <1>0, <1>1, <1>2, <1>4, <2>3, <3>1 DEF Idle
  <2>4. CASE node' = node /\ Made(c, t, i, FreshId(c, t))
    <3>1. PICK r : r = FreshId(c, t) OBVIOUS
    <3>2. r \notin RowIds /\ Made(c, t, i, r) BY <2>1, <2>2, <2>4, <3>1, FreshIsNew DEF Here, Sent
    <3>3. Pure(r)' /\ \A y \in RowIds : Pure(y) => Pure(y)' BY <3>2, PureMade
    <3>4. RowIds' = RowIds \union {r} /\ \A y \in RowIds : rows'[y] = rows[y] BY <3>2 DEF Made, RowTo
    <3>5. call'[c].pc = "await" BY <3>2 DEF Made, Moves
    <3>6. \A d \in Callers' : \/ d \in Callers /\ call'[d] = call[d]
                              \/ call'[d].pc \notin {"read", "reset", "create"}
      BY <1>0, <3>5 DEF Alone
    <3> QED BY <1>0, <3>3, <3>4, <3>6, ReusedOn
  <2> QED BY <1>5, <2>1, <2>3, <2>4, LookUpIs
<1>6. ASSUME ReadCached(c) PROVE Reused'
  <2>1. Here(c, "read") /\ rows' = rows /\ jobs' = jobs BY <1>6, ReadCachedIs DEF Idle
  <2>2. CASE Idle /\ Goes(c, "reset")
    <3>1. node.run = 1 => Reused' BY <1>0, <2>1, <2>2, ToResetReused
    <3> QED BY <1>0, <1>1, <1>2, <1>4, <2>1, <3>1
  <2>3. CASE Raised(c) \/ \E out : Delivered(c, out)
    <3>1. call'[c].pc \notin {"read", "reset", "create"} BY <2>3 DEF Raised, Delivered, Moves
    <3> QED BY <1>3, <1>4, <2>1, <3>1
  <2> QED BY <1>6, <2>2, <2>3, ReadCachedIs
<1>7. ASSUME ResetTask(c) PROVE Reused'
  <2>1. RowsRest /\ jobs' = jobs
    BY <1>0, <1>7, CallerRows DEF LookUp, CreateTask, AtCall, ResetTask
  <2> QED BY <1>0, <1>1, <1>2, <1>7, <2>1, ResetReused
<1>8. ASSUME CreateTask(c) PROVE Reused'
  <2>1. node.run # 0 BY <1>8 DEF First, OwnRow, CreateTask, Sent
  <2> QED BY <1>0, <1>1, <1>8, <2>1, CreateReused
<1>9. ASSUME Answered(c) \/ TaskWrites(c) \/ TaskFails(c) \/ GiveUp(c) \/ SeesPause(c) PROVE Reused'
  <2>1. call[c].pc \in {"await", "write"}
    BY <1>9 DEF Answered, TaskWrites, TaskFails, GiveUp, SeesPause, Waiting
  <2>2. RowsRest /\ jobs' = jobs BY <1>0, <2>1, CallerRows DEF LookUp, CreateTask, AtCall
  <2>3. call[c].row \in RowIds BY <1>0, <2>1 DEF CallOK
  <2>4. Goes(c, "write") \/ Raised(c) \/ \E out : Delivered(c, out)
    BY <1>9, <2>3, AnsweredIs, TaskWritesIs, FailingIs DEF Takes
  <2>5. call'[c].pc \notin {"read", "reset", "create"} BY <2>4 DEF Goes, Raised, Delivered, Moves
  <2> QED BY <1>3, <2>2, <2>5
<1> QED BY <1>5, <1>6, <1>7, <1>8, <1>9 DEF CallerStep

LEMMA WorkerReused ==
  ASSUME Types, Calls, Jobs, Reused, NEW j \in jobs, WorkerStep(j)
  PROVE  Reused'
<1>0. JobOK(j) /\ j.row \in RowIds BY DEF Jobs, JobOK
<1>1. /\ node' = node /\ ctx' = ctx /\ RowsStay /\ RowIds' = RowIds /\ Callers' = Callers
      /\ \A r \in RowIds : /\ rows'[r].in0 = rows[r].in0
                           /\ rows[r].status # "running" => rows'[r].status = rows[r].status
  BY <1>0, WorkerKeeps
<1>2. ASSUME NEW ok \in BOOLEAN, JobEnds(j, ok)
      PROVE  /\ \A r \in RowIds : rows'[r].out = rows[r].out
             /\ \A k \in jobs' : \E y \in jobs : y.row = k.row /\ y.task = k.task /\ y.input = k.input
             /\ call' = call \/ \E out : Published(j, out)
  <2>1. CASE /\ call' = call /\ \E s \in {"completed", "failed"} : Ends(j.row, s)
             /\ \E k : jobs' = (jobs \ {j}) \union {k} /\ Answering(j, k)
    BY <1>0, <2>1 DEF Answering, Ends, RowTo
  <2>2. CASE rows' = rows /\ \E out \in Outs(j) : Published(j, out)
    BY <2>2 DEF Published
  <2> QED BY <1>0, <1>2, <2>1, <2>2, JobEndsIs
<1>3. ASSUME JobWrites(j), NEW r \in RowIds, Pure(r) PROVE Pure(r)'
  <2>1. jobs' \subseteq jobs /\ Writes(j.row, j.out) /\ j.pc = "write"
    BY <1>0, <1>3, JobWritesIs DEF Published
  <2>2. CASE r # j.row
    <3>1. rows'[r] = rows[r] BY <2>1, <2>2 DEF Writes, RowTo
    <3> QED BY <1>3, <2>1, <3>1, PureStays
  <2>3. CASE r = j.row
    <3>1. j.task = rows[r].task /\ rows[r].in0 = Payload(j.task, j.input) BY <1>3, <2>3 DEF Pure
    <3>2. rows'[r].task = rows[r].task /\ rows'[r].in0 = rows[r].in0 /\ rows'[r].out = j.out
      BY <2>1, <2>3 DEF Writes, RowTo
    <3>3. j.out \in {Failure} \union AnswersOf(j.task, j.input) BY <1>0, <2>1 DEF JobOK
    <3>4. rows[r].task = "calculate_stats" => j.out \in {Failure, <<"calculate_stats">> \o rows[r].in0}
      BY <3>1, <3>3 DEF AnswersOf, Payload
    <3>5. rows[r].task = "calculate_stats" =>
            rows'[r].out \in {NoOut, Failure, <<"calculate_stats">> \o rows'[r].in0}
      BY <3>2, <3>4
    <3>6. \A k \in jobs' : k.row = r => k.task = rows'[r].task /\ rows'[r].in0 = Payload(k.task, k.input)
      BY <1>3, <2>1, <3>2 DEF Pure
    <3> QED BY <3>2, <3>5, <3>6 DEF Pure, Payload, NoOut, Failure
  <2> QED BY <2>2, <2>3
<1>4. ASSUME NEW r \in RowIds, Pure(r) PROVE Pure(r)'
  <2>1. ASSUME NEW ok \in BOOLEAN, JobEnds(j, ok) PROVE Pure(r)'
    <3>1. \A k \in jobs' : k.row = r =>
            \E y \in jobs : y.row = r /\ y.task = k.task /\ y.input = k.input
      BY <1>2, <2>1
    <3>2. rows'[r].out = rows[r].out BY <1>2, <2>1
    <3> QED BY <1>1, <1>4, <3>1, <3>2, PureStays DEF RowsStay
  <2> QED BY <1>3, <1>4, <2>1 DEF WorkerStep
<1>5. ASSUME NEW d \in Callers', ~(d \in Callers /\ call'[d] = call[d])
      PROVE  call'[d].pc \notin {"read", "reset", "create"}
  <2>1. \E out : Published(j, out) BY <1>0, <1>1, <1>2, <1>5, JobWritesIs DEF WorkerStep
  <2>2. PICK out : Published(j, out) BY <2>1
  <2>3. j.to \in Callers /\ Alone(j.to) /\ call'[j.to].pc \in {"await", "lookup"}
    BY <1>1, <1>5, <2>2, MovesOn DEF Published, Awaited, Moves, Delivered
  <2> QED BY <1>1, <1>5, <2>3 DEF Alone
<1> QED BY <1>1, <1>4, <1>5, ReusedOn DEF Busy

LEMMA NodeReused ==
  ASSUME Types, Fan, Calls, Reused,
         Gather \/ EndNode \/ (\E r \in RowIds : PauseTask(r)) \/ Shutdown \/ Crash \/ Rerun
  PROVE  Reused'
<1>1. ASSUME RowsRest, jobs' \subseteq jobs, ctx' = ctx, node'.run = node.run, Busy' => Busy,
             \A c \in Callers' : call'[c].pc = "lookup" \/ (c \in Callers /\ call'[c] = call[c])
      PROVE  Reused'
  <2>1. \A r \in RowIds : Pure(r) => Pure(r)' BY <1>1, PureRest
  <2>2. RowsStay /\ RowIds' = RowIds /\ \A r \in RowIds :
          /\ rows'[r].in0 = rows[r].in0
          /\ rows[r].status # "running" /\ r \notin ctx' => rows'[r].status = rows[r].status
    BY <1>1 DEF RowsRest, RowsStay
  <2> QED BY <1>1, <2>1, <2>2, ReusedOn
<1>2. CASE Gather
  <2>1. RowsRest BY <1>2, GatherIs DEF RowsRest, RowIds
  <2>2. jobs' \subseteq jobs /\ ctx' = ctx /\ node'.run = node.run /\ (Busy' => Busy)
    BY <1>2, GatherIs DEF Busy
  <2>3. \A c \in Callers' : call'[c].pc = "lookup" \/ (c \in Callers /\ call'[c] = call[c])
    BY <1>2, GatherIs, FreshCall
  <2> QED BY <1>1, <2>1, <2>2, <2>3
<1>3. CASE EndNode
  <2>1. RowsRest BY <1>3, NodeEndsIs DEF RowsRest, RowIds
  <2>2. jobs' \subseteq jobs /\ ctx' = ctx /\ node'.run = node.run /\ (Busy' => Busy) /\ call' = call
    BY <1>3, NodeEndsIs DEF Busy, NodeTo
  <2> QED BY <1>1, <2>1, <2>2 DEF Callers
<1>4. ASSUME NEW r \in RowIds, PauseTask(r) PROVE Reused'
  <2>1. RowsRest BY <1>4, PausingIs DEF RowsRest, Ends, RowTo, RowIds
  <2>2. jobs' \subseteq jobs /\ ctx' = ctx /\ node'.run = node.run /\ (Busy' => Busy) /\ call' = call
    BY <1>4, PausingIs DEF Busy
  <2> QED BY <1>1, <2>1, <2>2 DEF Callers
<1>5. CASE Shutdown \/ Crash
  <2>1. /\ ~Busy' /\ node'.run = node.run /\ jobs' \subseteq jobs /\ RowIds' = RowIds
        /\ \A r \in RowIds : /\ rows'[r].task = rows[r].task /\ rows'[r].in0 = rows[r].in0
                             /\ rows'[r].out = rows[r].out
    BY <1>5, StoppingIs DEF Busy
  <2>2. ASSUME NEW r \in RowIds, Pure(r) PROVE Pure(r)' BY <2>1, <2>2, PureStays
  <2> QED BY <2>1, <2>2 DEF Reused
<1>6. CASE Rerun
  <2>1. /\ node'.run = node.run + 1 /\ rows' = rows /\ jobs' = jobs
        /\ Callers' = {Main} /\ call'[Main] = Fresh
    BY <1>6, RerunIs
  <2>2. node.run \in Nat BY DEF Types, NodeTypes
  <2>3. ASSUME NEW r \in RowIds, Pure(r) PROVE Pure(r)' BY <2>1, <2>3, PureStays
  <2>4. \A c \in Callers' : Reuse(c)' BY <2>1, FreshCall DEF Reuse
  <2>5. node'.run # 0 /\ (node'.run = 1 => node.run = 0) BY <2>1, <2>2
  <2>6. RowIds' = RowIds BY <2>1 DEF RowIds
  <2> QED BY <2>3, <2>4, <2>5, <2>6 DEF Reused
<1> QED BY <1>2, <1>3, <1>4, <1>5, <1>6

(* What a child was answered.                                                     *)
Own(c) ==
  LET got == call[c].got IN
    /\ Len(got) >= 1 => got[1] \in AnswersOf("get_stats", Tail(c))
    /\ Len(got) = 2 => got[2] = <<"calculate_stats">> \o SeqCall(c, <<got[1]>>).input

LEMMA OwnOn ==
  ASSUME NEW c, Own(c), call'[c].got = call[c].got
  PROVE  Own(c)'
  BY DEF Own, AnswersOf, SeqCall, Ask, NoCall

LEMMA OwnTaken ==
  ASSUME Types, Calls, NEW c \in Callers, c # Main, Own(c), call[c].pc # "lookup",
         NEW out \in AnswersOf(call[c].task, call[c].input), Delivered(c, out)
  PROVE  Own(c)'
<1> DEFINE s == call[c].got
           g == Append(s, out)
<1>1. /\ Got(c) = 0 => call[c].task = "get_stats" /\ call[c].input = Tail(c)
      /\ Got(c) # 0 => Got(c) = 1 /\ call[c].task = "calculate_stats"
      /\ Ask(call[c].task, call[c].input) = SeqCall(c, s)
  BY ChildCall DEF Calls
<1>2. /\ Len(g) = Len(s) + 1 /\ g[Len(s) + 1] = out /\ \A i \in 1..Len(s) : g[i] = s[i]
      /\ Len(s) \in Nat
  <2>1. Listed(s) BY DEF Types, CallTypes
  <2> HIDE DEF s
  <2> DEFINE S == {s[i] : i \in DOMAIN s} \union {out}
  <2>2. s \in Seq(S) /\ out \in S BY <2>1 DEF Listed
  <2> HIDE DEF S
  <2> QED BY <2>2
<1>3. call'[c].got = g BY DEF Delivered, Moves
<1>4. CASE Got(c) = 0
  <2>1. Len(g) = 1 /\ g[1] = out BY <1>2, <1>4 DEF Got
  <2>2. out \in AnswersOf("get_stats", Tail(c)) BY <1>1, <1>4
  <2> HIDE DEF g
  <2> QED BY <1>3, <2>1, <2>2 DEF Own, AnswersOf
<1>5. CASE Got(c) = 1
  <2>1. Len(g) = 2 /\ g[1] = s[1] /\ g[2] = out BY <1>2, <1>5 DEF Got
  <2>2. s[1] \in AnswersOf("get_stats", Tail(c)) BY <1>5 DEF Own, Got
  <2>3. out = <<"calculate_stats">> \o call[c].input BY <1>1, <1>5 DEF AnswersOf
  <2>4. call[c].input = SeqCall(c, <<s[1]>>).input
    <3>1. SeqCall(c, <<s[1]>>) = SeqCall(c, s)
      <4>1. Len(s) = 1 /\ Len(<<s[1]>>) = 1 /\ <<s[1]>>[1] = s[1] BY <1>5 DEF Got
      <4> QED BY <4>1 DEF SeqCall
    <3>2. Ask(call[c].task, call[c].input).input = call[c].input BY DEF Ask
    <3> QED BY <1>1, <3>1, <3>2
  <2>5. out = <<"calculate_stats">> \o SeqCall(c, <<g[1]>>).input BY <2>1, <2>3, <2>4
  <2> HIDE DEF g, s
  <2> QED BY <1>3, <2>1, <2>2, <2>5 DEF Own, AnswersOf, SeqCall, Ask, NoCall
<1> QED BY <1>1, <1>4, <1>5

(* A child's tasks are settled and written by their workers.                      *)
LEMMA NoMail ==
  ASSUME Types, Calls, NEW c \in Callers, c # Main, call[c].pc # "lookup"
  PROVE  ~TaskCompletes(call[c].task) /\ call[c].mail \in {NoOut, Failure}
<1>1. CallOK(c) BY DEF Calls
<1>2. call[c].task \in {"get_stats", "calculate_stats"} BY <1>1, ChildCall
<1> QED BY <1>1, <1>2 DEF CallOK, TaskCompletes, Streamed, InProcess, Requests

LEMMA CallerOwn ==
  ASSUME Types, Fan, Calls, Jobs, Ids, First, LongInputs, Reused, OwnAnswers, NEW c \in Callers, CallerStep(c)
  PROVE  OwnAnswers'
<1>0. /\ CallOK(c) /\ Busy /\ WorldStays /\ Alone(c) /\ Callers' = Callers /\ node.run \in Nat
  BY CallerKeeps DEF Calls, Types, NodeTypes, Alone
<1> SUFFICES ASSUME node.run <= 1, NEW d \in Children PROVE Own(d)'
  BY <1>0 DEF OwnAnswers, Own, Children, WorldStays
<1>1. Own(d) /\ d \in Callers /\ d # Main BY DEF OwnAnswers, Own, Children
<1>2. d # c => Own(d)' BY <1>0, <1>1, OwnOn DEF Alone
<1>3. ASSUME d = c, call'[c].got = call[c].got PROVE Own(d)' BY <1>1, <1>3, OwnOn
<1>4. ASSUME LookUp(c) PROVE call'[c].got = call[c].got
  <2>1. PICK t, i : NextCall(c) = Ask(t, i) BY <1>4, AtItsLookUp
  <2> QED BY <1>4, <2>1, LookUpIs DEF Took, Made, Moves
<1>5. ASSUME ReadCached(c), d = c PROVE Own(d)'
  <2>1. Here(c, "read") BY <1>5, ReadCachedIs
  <2>2. node.run = 1
    <3>1. node.run # 0 BY <1>0, <2>1 DEF First, OwnRow, Sent, Here
    <3> QED BY <1>0, <3>1
  <2>3. Reads1(c) BY <1>0, <2>1, <2>2 DEF Reused, Reuse, Here
  <2>4. call[c].task # "get_stats" BY <2>1, <2>3, NoStatsRead DEF Here, Reads1
  <2>5. call[c].task = "calculate_stats" BY <1>0, <1>1, <1>5, <2>1, <2>4, ChildCall DEF Here
  <2>6. rows[call[c].row].task = "calculate_stats" BY <1>0, <2>1, <2>5 DEF CallOK, Here
  <2>7. rows[call[c].row].out \in {NoOut, Failure, <<"calculate_stats">> \o call[c].input}
    BY <2>3, <2>6 DEF Reads1, Pure
  <2>8. ASSUME NEW out, Delivered(c, out), out = rows[call[c].row].out, out # NoOut,
               out = Failure => call[c].task \in AllDefaults
        PROVE  Own(d)'
    <3>1. out \in AnswersOf(call[c].task, call[c].input)
      BY <2>5, <2>7, <2>8 DEF AllDefaults, Requests, AnswersOf
    <3> QED BY <1>1, <1>5, <2>1, <2>8, <3>1, OwnTaken DEF Here
  <2>9. Goes(c, "reset") \/ Raised(c) => call'[c].got = call[c].got BY DEF Goes, Raised, Moves
  <2> QED BY <1>3, <1>5, <2>8, <2>9, ReadCachedIs
<1>6. ASSUME ResetTask(c) PROVE call'[c].got = call[c].got
  <2>1. call[c].row \in RowIds BY <1>0, <1>6 DEF CallOK, ResetTask
  <2> QED BY <1>6, <2>1, ResetTaskIs DEF Goes, Moves
<1>7. ASSUME CreateTask(c) PROVE call'[c].got = call[c].got BY <1>7, CreateTaskIs DEF Made, Moves
<1>8. ASSUME Answered(c) \/ TaskWrites(c), d = c PROVE FALSE
  <2>1. call[c].pc # "lookup" BY <1>8 DEF Answered, TaskWrites, Waiting
  <2> QED BY <1>0, <1>1, <1>8, <2>1, NoMail DEF Answered, TaskWrites, CallOK
<1>9. ASSUME TaskFails(c) \/ GiveUp(c) \/ SeesPause(c) PROVE call'[c].got = call[c].got
  <2>1. call[c].row \in RowIds BY <1>0, <1>9 DEF CallOK, TaskFails, GiveUp, SeesPause, Waiting
  <2> QED BY <1>9, <2>1, FailingIs DEF Raised, Moves
<1> QED BY <1>2, <1>3, <1>4, <1>5, <1>6, <1>7, <1>8, <1>9 DEF CallerStep

LEMMA WorkerOwn ==
  ASSUME Types, Calls, Jobs, OwnAnswers, NEW j \in jobs, WorkerStep(j)
  PROVE  OwnAnswers'
<1>0. JobOK(j) /\ j.row \in RowIds BY DEF Jobs, JobOK
<1>1. node' = node /\ Callers' = Callers BY <1>0, WorkerKeeps
<1> SUFFICES ASSUME node.run <= 1, NEW d \in Children PROVE Own(d)'
  BY <1>1 DEF OwnAnswers, Own, Children
<1>2. Own(d) /\ d \in Callers /\ d # Main BY DEF OwnAnswers, Own, Children
<1>3. call' = call \/ \E out \in Outs(j) : Published(j, out)
  <2>1. ASSUME NEW ok \in BOOLEAN, JobEnds(j, ok) PROVE call' = call \/ \E out \in Outs(j) : Published(j, out)
    BY <1>0, <2>1, JobEndsIs
  <2>2. JobWrites(j) => \E out \in Outs(j) : Published(j, out) BY <1>0, JobWritesIs DEF JobOK, Outs
  <2> QED BY <2>1, <2>2 DEF WorkerStep
<1>4. CASE call'[d].got = call[d].got BY <1>2, <1>4, OwnOn
<1>5. CASE call'[d].got # call[d].got
  <2>1. PICK out \in Outs(j) : Published(j, out) BY <1>3, <1>5
  <2>2. Awaited(j) /\ Alone(j.to) BY <1>5, <2>1, MovesOn DEF Published, Awaited
  <2>3. d = j.to BY <1>2, <1>5, <2>2 DEF Alone
  <2>4. Delivered(d, out) /\ out # Failure BY <1>5, <2>1, <2>3 DEF Published, Moves
  <2>5. call[d].task = j.task /\ call[d].pc = "await" BY <2>2, <2>3 DEF Awaited
  <2>6. call[d].input = j.input BY <1>0, <2>2, <2>3, <2>5, AwaitedRow DEF Awaited, Sent
  <2>7. out \in AnswersOf(call[d].task, call[d].input) BY <2>1, <2>4, <2>5, <2>6 DEF Outs
  <2> QED BY <1>2, <2>4, <2>5, <2>7, OwnTaken
<1> QED BY <1>4, <1>5

LEMMA NodeOwn ==
  ASSUME Types, Fan, OwnAnswers,
         Gather \/ EndNode \/ (\E r \in RowIds : PauseTask(r)) \/ Shutdown \/ Crash \/ Rerun
  PROVE  OwnAnswers'
<1>1. ASSUME node'.run = node.run,
             \A c \in Callers' : Len(call'[c].got) = 0 \/ (c \in Callers /\ call'[c] = call[c])
      PROVE  OwnAnswers'
  <2>1. ASSUME node.run <= 1, NEW c \in Children' PROVE Own(c)'
    <3>1. CASE Len(call'[c].got) = 0 BY <3>1 DEF Own
    <3>2. CASE c \in Callers /\ call'[c] = call[c]
      <4>1. Own(c) BY <2>1, <3>2 DEF OwnAnswers, Own, Children
      <4> QED BY <3>2, <4>1, OwnOn
    <3> QED BY <1>1, <2>1, <3>1, <3>2 DEF Children
  <2> QED BY <1>1, <2>1 DEF OwnAnswers, Own
<1>2. ASSUME Callers' = {Main} PROVE OwnAnswers' BY <1>2 DEF OwnAnswers, Children
<1>3. CASE Gather
  <2>1. \A c \in Callers' : Len(call'[c].got) = 0 \/ (c \in Callers /\ call'[c] = call[c])
    BY <1>3, GatherIs, FreshCall
  <2> QED BY <1>1, <1>3, <2>1, GatherIs
<1>4. CASE EndNode \/ \E r \in RowIds : PauseTask(r)
  <2>1. node'.run = node.run /\ call' = call BY <1>4, NodeEndsIs, PausingIs DEF NodeTo
  <2> QED BY <1>1, <2>1 DEF Callers
<1>5. CASE Shutdown \/ Crash \/ Rerun BY <1>2, <1>5, StoppingIs, RerunIs
<1> QED BY <1>3, <1>4, <1>5

-----------------------------------------------------------------------------
(* The invariant. *)

LEMMA InvInit == Init => IInv
<1> SUFFICES ASSUME Init PROVE IInv OBVIOUS
<1>1. PICK n \in NodeNames :
        node = [name |-> n, status |-> "running", run |-> 0, fan |-> FALSE, crashed |-> FALSE]
  BY DEF Init
<1>2. Callers = {Main} /\ call[Main] = Fresh /\ ctx = {} /\ jobs = {} BY DEF Init, Callers
<1>3. RowIds = {} BY DEF Init, RowIds
<1>4. NodeTypes BY <1>1 DEF NodeTypes
<1>5. Types BY <1>2, <1>3, <1>4, FreshCall DEF Types, CallTypes, RowTypes, JobTypes, PCs
<1>6. Busy /\ ~node.fan /\ node.run = 0 BY <1>1 DEF Busy
<1>7. Fan BY <1>2, <1>6 DEF Fan, Busy, Children
<1>8. Calls BY <1>2, FreshCall DEF Calls, CallOK
<1>9. Jobs /\ Ids /\ Attended /\ LongInputs BY <1>2, <1>3 DEF Jobs, Ids, Attended, LongInputs
<1>10. First /\ Reused /\ OwnAnswers
  BY <1>2, <1>3, <1>6, FreshCall DEF First, Reused, OwnAnswers, Children
<1> QED BY <1>5, <1>7, <1>8, <1>9, <1>10 DEF IInv

LEMMA InvCaller ==
  ASSUME IInv, NEW c \in Callers, CallerStep(c)
  PROVE  IInv'
<1> USE DEF IInv
<1>1. Types' BY CallerTypes DEF Calls
<1>2. Fan' BY CallerFan
<1>3. Calls' BY CallerCalls
<1>4. Jobs' /\ Ids' BY CallerJobs
<1>5. Attended' BY CallerAttended
<1>6. First' BY CallerFirst
<1>7. LongInputs' BY CallerLong
<1>8. Reused' BY CallerReused
<1>9. OwnAnswers' BY CallerOwn
<1> QED BY <1>1, <1>2, <1>3, <1>4, <1>5, <1>6, <1>7, <1>8, <1>9

LEMMA InvWorker ==
  ASSUME IInv, NEW j \in jobs, WorkerStep(j)
  PROVE  IInv'
<1> USE DEF IInv
<1>0. JobOK(j) BY DEF Jobs
<1>1. Types' BY <1>0, WorkerTypes
<1>2. Fan' BY WorkerFan
<1>3. Calls' BY <1>0, WorkerCalls
<1>4. Jobs' /\ Ids' BY WorkerJobs
<1>5. Attended' BY WorkerAttended
<1>6. First' BY WorkerFirst
<1>7. LongInputs' BY OthersLong
<1>8. Reused' BY WorkerReused
<1>9. OwnAnswers' BY WorkerOwn
<1> QED BY <1>1, <1>2, <1>3, <1>4, <1>5, <1>6, <1>7, <1>8, <1>9

LEMMA InvNode ==
  ASSUME IInv, Gather \/ EndNode \/ (\E r \in RowIds : PauseTask(r)) \/ Shutdown \/ Crash \/ Rerun
  PROVE  IInv'
<1> USE DEF IInv
<1>1. Types' BY NodeTypesKeptToo
<1>2. Fan' BY NodeFan
<1>3. Calls' BY NodeCalls
<1>4. Jobs' /\ Ids' BY NodeJobs
<1>5. Attended' BY NodeAttended
<1>6. First' BY NodeFirst
<1>7. LongInputs' BY OthersLong
<1>8. Reused' BY NodeReused
<1>9. OwnAnswers' BY NodeOwn
<1> QED BY <1>1, <1>2, <1>3, <1>4, <1>5, <1>6, <1>7, <1>8, <1>9

LEMMA InvStutter ==
  ASSUME IInv, UNCHANGED vars
  PROVE  IInv'
<1> USE DEF vars
<1>1. Types' BY DEF IInv, Types, NodeTypes, CallTypes, RowTypes, JobTypes, Callers, RowIds
<1>2. WorldStays /\ RowsStay /\ Callers' = Callers /\ \A c \in Callers : call'[c] = call[c]
  BY DEF WorldStays, RowsStay, RowIds, Callers
<1>3. Fan' BY <1>2, SameEnd DEF IInv, Fan, Children, Busy
<1>4. Calls' BY <1>2, CallOKAlone DEF IInv, Calls
<1>5. Jobs' /\ Ids'
  <2>1. \A c \in Callers : Onward(c) BY <1>2 DEF Onward, Got
  <2> QED BY <1>2, <2>1, JobsOn DEF IInv, RowIds, Busy
<1>6. Attended' BY DEF IInv, Attended, Holds, Writing, RowIds, Callers, Busy
<1>7. LongInputs' BY <1>2, LongKept DEF IInv, RowIds
<1>8. First'
  <2>1. ASSUME node.run = 0, NEW c \in Callers, call'[c].pc # "lookup" PROVE OwnRow(c)'
    BY <2>1, <1>2, OwnRowOn DEF IInv, First, OwnRow, RowRests
  <2> QED BY <1>2, <2>1 DEF IInv, First, RowIds, Busy
<1>9. Reused'
  <2>1. \A r \in RowIds : Pure(r) => Pure(r)' BY PureStays
  <2> QED BY <1>2, <2>1, ReusedOn DEF IInv, RowIds, Busy
<1>10. OwnAnswers'
  <2>1. \A c \in Children : Own(c) => Own(c)' BY <1>2, OwnOn
  <2> QED BY <1>2, <2>1 DEF IInv, OwnAnswers, Own, Children
<1> QED BY <1>1, <1>3, <1>4, <1>5, <1>6, <1>7, <1>8, <1>9, <1>10 DEF IInv

LEMMA InvNext == IInv /\ [Next]_vars => IInv'
<1> SUFFICES ASSUME IInv, [Next]_vars PROVE IInv' OBVIOUS
<1>1. CASE \E c \in Callers : CallerStep(c) BY <1>1, InvCaller
<1>2. CASE \E j \in jobs : WorkerStep(j) BY <1>2, InvWorker
<1>3. CASE Gather \/ EndNode \/ (\E r \in RowIds : PauseTask(r)) \/ Shutdown \/ Crash \/ Rerun
  BY <1>3, InvNode
<1>4. CASE UNCHANGED vars BY <1>4, InvStutter
<1> QED BY <1>1, <1>2, <1>3, <1>4 DEF Next, NodeStep

LEMMA Invariant == Spec => []IInv
  BY InvInit, InvNext, PTL DEF Spec

-----------------------------------------------------------------------------
(* Whatever the first rerun of a node finds of the run before (rows to reuse, to  *)
(* reset or to leave, workers that are late), every child works with the answers  *)
(* of its own item: run_task serves no other symbol's record.                     *)
THEOREM AnswersAreOwn == Spec => []OwnAnswers
<1>1. IInv => OwnAnswers BY DEF IInv
<1> QED BY <1>1, Invariant, PTL

(* A node that ended without ever crashing leaves no row running behind: every     *)
(* task had a caller or a worker to settle it, whoever stopped in between.         *)
THEOREM NothingIsLeftRunning == Spec => []NothingRunsOn
<1>1. IInv => NothingRunsOn BY DEF IInv, Attended, NothingRunsOn, Busy
<1> QED BY <1>1, Invariant, PTL

(* In a first run an item without a result has a row of its own that tells why.    *)
THEOREM GapsAreExplained == Spec => []MissingIsExplained
<1>1. ASSUME IInv PROVE MissingIsExplained
  <2> SUFFICES ASSUME node.status \in {"completed", "failed"}, node.run = 0, NEW c \in Children \ Results
               PROVE  \E r \in RowIds :
                        /\ rows[r].status \in {"failed", "paused", "completed"}
                        /\ rows[r].in0 = Payload(call[c].task, call[c].input)
    BY DEF MissingIsExplained
  <2>1. c \in Callers /\ call[c].pc = "failed" BY <1>1 DEF IInv, Fan, Children, Results, Ended
  <2>2. OwnRow(c) /\ call[c].row \in RowIds BY <1>1, <2>1 DEF IInv, First, Calls, CallOK
  <2>3. rows[call[c].row].status \in Settled BY <1>1, <2>1, <2>2 DEF IInv, Types, RowTypes, OwnRow
  <2> QED BY <2>2, <2>3 DEF OwnRow, Settled
<1> QED BY <1>1, Invariant, PTL

=============================================================================
