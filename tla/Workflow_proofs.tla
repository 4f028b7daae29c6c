--------------------------- MODULE Workflow_proofs ---------------------------
(***************************************************************************)
(* What the store of execution states and the compensation promise, for    *)
(* any compiled charts, any executions, crashes and failing transactions.  *)
(*                                                                         *)
(* What an execution's walk holds is a stack of frames whose variables     *)
(* name places of its history; a sound frame is one that names them truly. *)
(* The stack operations keep sound stacks, so each node's handler has only *)
(* to show that the frames it writes are sound.  A checkpoint then copies  *)
(* true variables, and what is on disk is true at any later crash.  What   *)
(* the caller of an execution that succeeds is answered comes next, and    *)
(* then how often an activity runs: what a stack may still perform.        *)
(***************************************************************************)
EXTENDS WorkflowPlans, SequenceTheorems, FiniteSetTheorems, WellFoundedInduction, TLAPS

-----------------------------------------------------------------------------
(* Least and greatest elements.                                            *)

LEMMA LeastExists ==
  ASSUME NEW S \in SUBSET Nat, S # {}
  PROVE  \E x \in S : \A y \in S : x <= y
<1> DEFINE R == {ss \in Nat \X Nat : ss[1] < ss[2]}
<1>1. IsWellFoundedOn(R, Nat)
  BY NatLessThanWellFounded DEF OpToRel
<1>2. PICK x \in S : \A y \in S : ~(<<y, x>> \in R)
  BY <1>1, WFMin
<1>3. ASSUME NEW y \in S PROVE x <= y
  <2>1. <<y, x>> \in Nat \X Nat /\ <<y, x>>[1] = y /\ <<y, x>>[2] = x
    OBVIOUS
  <2>2. ~(y < x)
    BY <1>2, <2>1
  <2> QED BY <2>2
<1> QED BY <1>3

LEMMA MinIsLeast ==
  ASSUME NEW S \in SUBSET Nat, S # {}
  PROVE  Min(S) \in S /\ \A y \in S : Min(S) <= y
BY LeastExists DEF Min

LEMMA MaxIsGreatest ==
  ASSUME NEW n \in Nat, NEW S \in SUBSET (0 .. n), S # {}
  PROVE  Max(S) \in S /\ \A y \in S : Max(S) >= y
<1> DEFINE D == {n - x : x \in S}
<1>0. PICK z \in S : TRUE
  OBVIOUS
<1>1. D \in SUBSET Nat /\ n - z \in D
  OBVIOUS
<1>2. \A y \in S : n - y \in D
  OBVIOUS
<1> HIDE DEF D
<1>3. PICK d \in D : \A y \in D : d <= y
  BY <1>1, LeastExists
<1>4. PICK m \in S : d = n - m
  BY DEF D
<1>5. ASSUME NEW y \in S PROVE m >= y
  <2>1. d <= n - y
    BY <1>2, <1>3
  <2> QED BY <1>4, <2>1
<1> QED BY <1>5 DEF Max

-----------------------------------------------------------------------------
(* The graph.                                                              *)

LEMMA GraphCompiled ==
  ASSUME NEW e \in Execution, graph[e] \in Name
  PROVE  Compiled(G(e))
BY WorkflowAssumption DEF G

LEMMA EdgesLead ==
  ASSUME NEW e \in Execution, graph[e] \in Name
  PROVE  /\ Edges(G(e)) \in SUBSET (1 .. Len(G(e).edges)) /\ Len(G(e).edges) \in Nat
         /\ Nodes(G(e)) \in SUBSET Nat
         /\ G(e).entry \in Nodes(G(e))
         /\ \A i \in Edges(G(e)) : Target(G(e), i) \in Nodes(G(e))
         /\ \A n : Outgoing(G(e), n) \subseteq Edges(G(e))
         /\ \A n \in Nodes(G(e)) : G(e).repeat[n] \in Nat
<1>1. Compiled(G(e))
  BY GraphCompiled
<1>2. /\ G(e).kind \in Seq(Kinds)
      /\ G(e).edges \in Seq([from : Nodes(G(e)), to : Nodes(G(e)), cond : Conditions,
                             detached : BOOLEAN, priority : Int])
      /\ G(e).entry \in Nodes(G(e))
      /\ G(e).repeat \in [Nodes(G(e)) -> Nat]
  BY <1>1 DEF Compiled
<1>3. DOMAIN G(e).edges = 1 .. Len(G(e).edges) /\ DOMAIN G(e).kind = 1 .. Len(G(e).kind)
      /\ Len(G(e).edges) \in Nat /\ Len(G(e).kind) \in Nat
  BY <1>2
<1>4. ASSUME NEW i \in DOMAIN G(e).edges PROVE G(e).edges[i].to \in Nodes(G(e))
  <2>1. G(e).edges[i] \in [from : Nodes(G(e)), to : Nodes(G(e)), cond : Conditions,
                           detached : BOOLEAN, priority : Int]
    BY <1>2, <1>3, ElementOfSeq
  <2> QED BY <2>1
<1> QED BY <1>2, <1>3, <1>4 DEF Target, Edges, Nodes, Outgoing

LEMMA FirstIsIn ==
  ASSUME NEW S \in SUBSET Nat
  PROVE  (S = {} /\ First(S) = 0) \/ First(S) \in S
BY MinIsLeast DEF First

\* The edges and nodes that navigation finds are there.
LEMMA Navigation ==
  ASSUME NEW e \in Execution, graph[e] \in Name, NEW n \in Nodes(G(e))
  PROVE  /\ \A i \in Outgoing(G(e), n) : i \in Edges(G(e)) /\ Target(G(e), i) \in Nodes(G(e))
         /\ FindBodyEdge(G(e), n) # 0 => Target(G(e), FindBodyEdge(G(e), n)) \in Nodes(G(e))
         /\ FindExitEdge(G(e), n) # 0 => Target(G(e), FindExitEdge(G(e), n)) \in Nodes(G(e))
         /\ BodyOfBoundary(G(e), n) # 0 => Target(G(e), BodyOfBoundary(G(e), n)) \in Nodes(G(e))
         /\ FindErrorEdge(G(e), n) # 0 => Target(G(e), FindErrorEdge(G(e), n)) \in Nodes(G(e))
         /\ FindJoin(G(e)) \in Nodes(G(e)) \cup {NoNode}
         /\ Outgoing(G(e), n) # {} => Min(Outgoing(G(e), n)) \in Outgoing(G(e), n)
<1>1. /\ Outgoing(G(e), n) \in SUBSET (0 .. Len(G(e).edges)) /\ Outgoing(G(e), n) \in SUBSET Nat
      /\ \A i \in Outgoing(G(e), n) : i \in Edges(G(e)) /\ Target(G(e), i) \in Nodes(G(e))
      /\ Nodes(G(e)) \in SUBSET Nat /\ Len(G(e).edges) \in Nat
  BY EdgesLead
<1>2. FindBodyEdge(G(e), n) # 0 => FindBodyEdge(G(e), n) \in Outgoing(G(e), n)
  BY <1>1, FirstIsIn DEF FindBodyEdge
<1>3. FindExitEdge(G(e), n) # 0 => FindExitEdge(G(e), n) \in Outgoing(G(e), n)
  <2> DEFINE exits == {i \in Outgoing(G(e), n) : G(e).edges[i].cond = "_exit"}
  <2>1. exits \in SUBSET Nat /\ exits \subseteq Outgoing(G(e), n)
    BY <1>1
  <2>2. CASE exits # {}
    <3>1. FindExitEdge(G(e), n) = Min(exits)
      BY <2>2 DEF FindExitEdge
    <3> HIDE DEF exits
    <3>2. Min(exits) \in exits
      BY <2>1, <2>2, MinIsLeast
    <3> QED BY <2>1, <3>1, <3>2
  <2>3. CASE exits = {} /\ Outgoing(G(e), n) # {}
    <3>1. FindExitEdge(G(e), n) = Max(Outgoing(G(e), n))
      BY <2>3 DEF FindExitEdge
    <3>2. Max(Outgoing(G(e), n)) \in Outgoing(G(e), n)
      BY <1>1, <2>3, MaxIsGreatest
    <3> QED BY <3>1, <3>2
  <2>4. CASE exits = {} /\ Outgoing(G(e), n) = {}
    BY <2>4 DEF FindExitEdge
  <2> QED BY <2>2, <2>3, <2>4
<1>4. FindJoin(G(e)) \in Nodes(G(e)) \cup {NoNode}
  <2> DEFINE J == {m \in Nodes(G(e)) : /\ G(e).kind[m] = "Join"
                       /\ Cardinality({i \in Edges(G(e)) : Target(G(e), i) = m}) >= 2}
  <2>1. J \in SUBSET Nat /\ J \subseteq Nodes(G(e)) /\ FindJoin(G(e)) = First(J)
    BY <1>1 DEF FindJoin
  <2> HIDE DEF J
  <2> QED BY <2>1, FirstIsIn DEF NoNode
<1>5. Outgoing(G(e), n) # {} => Min(Outgoing(G(e), n)) \in Outgoing(G(e), n)
  BY <1>1, MinIsLeast
<1>6. BodyOfBoundary(G(e), n) # 0 => BodyOfBoundary(G(e), n) \in Outgoing(G(e), n)
  BY <1>1, FirstIsIn DEF BodyOfBoundary
<1>7. FindErrorEdge(G(e), n) # 0 => FindErrorEdge(G(e), n) \in Outgoing(G(e), n)
  BY <1>1, FirstIsIn DEF FindErrorEdge
<1> QED BY <1>1, <1>2, <1>3, <1>4, <1>5, <1>6, <1>7

-----------------------------------------------------------------------------
(* Sound frames, and stacks of them.                                       *)

\* What names an activity names one that was performed there.
TrueVars(g, h) ==
  {v \in [Nodes(g) -> 0 .. Len(h)] : \A n \in Nodes(g) : v[n] # 0 => h[v[n]] = n}

FrameShape(g, h) ==
  [at : Nodes(g), boundary : Nodes(g) \cup {NoNode}, steps : Nat, vars : TrueVars(g, h),
   wait : {"none", "loop", "body", "fork"}, left : Nat, branches : SUBSET Edges(g),
   merged : TrueVars(g, h) \cup {<<>>}, mark : 0 .. Len(h)]

SoundFrames(g, h) ==
  {f \in FrameShape(g, h) :
     IF f.wait = "fork" THEN f.merged \in TrueVars(g, h) /\ f.branches \subseteq Outgoing(g, f.at)
     ELSE f.merged = <<>> /\ f.branches = {}}

\* Only the innermost frame walks, and it waits in "turn" only.
Stacked(F, st, label) ==
  /\ st \in Seq(F)
  /\ (st = <<>>) <=> (label \in {"new", "done"})
  /\ \A k \in 1 .. Len(st) : (st[k].wait = "none") <=> (k = Len(st) /\ label # "turn")

Idle == {"new", "done"}

LEMMA FrontIs ==
  ASSUME NEW F, NEW st \in Seq(F), st # <<>>
  PROVE  /\ Front(st) \in Seq(F) /\ Len(Front(st)) = Len(st) - 1
         /\ \A k \in 1 .. Len(st) - 1 : Front(st)[k] = st[k]
         /\ Len(st) \in Nat \ {0} /\ Last(st) = st[Len(st)] /\ Last(st) \in F
<1>1. Len(st) \in Nat \ {0}
  OBVIOUS
<1>2. Front(st) = SubSeq(st, 1, Len(st) - 1)
  BY DEF Front
<1>3. \A k \in 1 .. Len(st) - 1 : st[k] \in F
  BY <1>1
<1>4. Len(st) - 1 \in Int /\ 1 \in Int
  BY <1>1
<1> DEFINE b == SubSeq(st, 1, Len(st) - 1)
<1>5. /\ b \in Seq(F)
      /\ Len(b) = IF 1 <= Len(st) - 1 THEN Len(st) - 1 - 1 + 1 ELSE 0
      /\ \A k \in 1 .. Len(st) - 1 - 1 + 1 : b[k] = st[1 + k - 1]
  BY <1>3, <1>4, SubSeqProperties
<1>6. Front(st) = b
  BY <1>2
<1> HIDE DEF b
<1>7. Len(b) = Len(st) - 1
  <2>1. ASSUME NEW l \in Nat \ {0} PROVE (IF 1 <= l - 1 THEN l - 1 - 1 + 1 ELSE 0) = l - 1
    OBVIOUS
  <2>2. Len(b) = IF 1 <= Len(st) - 1 THEN Len(st) - 1 - 1 + 1 ELSE 0
    BY <1>5
  <2> QED BY <1>1, <2>1, <2>2
<1>8. ASSUME NEW k \in 1 .. Len(st) - 1 PROVE b[k] = st[k]
  <2>1. k \in 1 .. Len(st) - 1 - 1 + 1 /\ 1 + k - 1 = k
    BY <1>1
  <2> QED BY <1>5, <2>1
<1> QED BY <1>1, <1>5, <1>6, <1>7, <1>8 DEF Last

LEMMA LastAppended ==
  ASSUME NEW F, NEW st \in Seq(F), st # <<>>, NEW f
  PROVE  Last(Append(Front(st), f)) = f
<1> DEFINE b == Front(st)
<1>1. b \in Seq(F)
  BY FrontIs
<1> HIDE DEF b
<1>2. Len(Append(b, f)) = Len(b) + 1 /\ Append(b, f)[Len(b) + 1] = f
  BY <1>1, AppendProperties
<1> QED BY <1>2 DEF Last, b

LEMMA Relabelled ==
  ASSUME NEW F, NEW st, NEW l, NEW m, Stacked(F, st, l),
         l \notin {"new", "done", "turn"}, m \notin {"new", "done", "turn"}
  PROVE  Stacked(F, st, m)
BY DEF Stacked

LEMMA TopReplaced ==
  ASSUME NEW F, NEW st, NEW l, NEW m, Stacked(F, st, l), l \notin Idle, m \notin Idle,
         NEW f \in F, (f.wait = "none") <=> (m # "turn")
  PROVE  Stacked(F, Append(Front(st), f), m) /\ Last(Append(Front(st), f)) = f
<1>1. st \in Seq(F) /\ st # <<>>
  BY DEF Stacked, Idle
<1> DEFINE b == Front(st)
<1>2. b \in Seq(F) /\ Len(b) = Len(st) - 1 /\ Len(st) \in Nat \ {0}
      /\ \A k \in 1 .. Len(b) : b[k] = st[k]
  BY <1>1, FrontIs
<1>3. \A k \in 1 .. Len(b) : b[k].wait # "none"
  BY <1>2 DEF Stacked
<1> HIDE DEF b
<1>4. /\ Append(b, f) \in Seq(F) /\ Len(Append(b, f)) = Len(b) + 1 /\ Append(b, f) # <<>>
      /\ \A k \in 1 .. Len(b) : Append(b, f)[k] = b[k]
      /\ Append(b, f)[Len(b) + 1] = f
  BY <1>2
<1>5. ASSUME NEW k \in 1 .. Len(b) + 1
      PROVE  (Append(b, f)[k].wait = "none") <=> (k = Len(b) + 1 /\ m # "turn")
  <2>1. CASE k = Len(b) + 1
    BY <1>4, <2>1
  <2>2. CASE k \in 1 .. Len(b)
    BY <1>2, <1>3, <1>4, <2>2
  <2> QED BY <1>2, <2>1, <2>2
<1>6. Stacked(F, Append(b, f), m)
  BY <1>4, <1>5 DEF Stacked, Idle
<1> QED BY <1>1, <1>6, LastAppended DEF b

\* The innermost frame calls: it waits, and the callee walks.
LEMMA CalleePushed ==
  ASSUME NEW F, NEW st, NEW l, NEW m, Stacked(F, st, l), l \notin Idle,
         m \notin {"new", "done", "turn"},
         NEW f \in F, f.wait # "none", NEW c \in F, c.wait = "none"
  PROVE  Stacked(F, Append(Front(st), f) \o <<c>>, m)
<1>1. Stacked(F, Append(Front(st), f), "turn")
  BY TopReplaced DEF Idle
<1> DEFINE b == Append(Front(st), f)
<1>2. b \in Seq(F) /\ Len(b) \in Nat /\ \A k \in 1 .. Len(b) : b[k].wait # "none"
  BY <1>1 DEF Stacked
<1> HIDE DEF b
<1>3. b \o <<c>> = Append(b, c)
  BY <1>2, AppendIsConcat
<1>4. /\ Append(b, c) \in Seq(F) /\ Len(Append(b, c)) = Len(b) + 1 /\ Append(b, c) # <<>>
      /\ \A k \in 1 .. Len(b) : Append(b, c)[k] = b[k]
      /\ Append(b, c)[Len(b) + 1] = c
  BY <1>2
<1>5. ASSUME NEW k \in 1 .. Len(b) + 1
      PROVE  (Append(b, c)[k].wait = "none") <=> (k = Len(b) + 1 /\ m # "turn")
  <2>1. CASE k = Len(b) + 1
    BY <1>4, <2>1
  <2>2. CASE k \in 1 .. Len(b)
    BY <1>2, <1>4, <2>2
  <2> QED BY <1>2, <2>1, <2>2
<1>6. Stacked(F, Append(b, c), m)
  BY <1>4, <1>5 DEF Stacked
<1> QED BY <1>3, <1>6 DEF b

\* The innermost frame returns: without it the one that called is the innermost.
LEMMA CallerOnTop ==
  ASSUME NEW F, NEW st, NEW l, Stacked(F, st, l), Len(st) > 1
  PROVE  /\ Stacked(F, Front(st), "turn") /\ Front(st) # <<>>
         /\ Last(Front(st)) = st[Len(st) - 1]
         /\ st[Len(st) - 1] \in F /\ st[Len(st) - 1].wait # "none" /\ Last(st) \in F
<1>1. st \in Seq(F) /\ st # <<>> /\ Len(st) \in Nat
  BY DEF Stacked
<1> DEFINE b == Front(st)
<1>2. b \in Seq(F) /\ Len(b) = Len(st) - 1
      /\ (\A k \in 1 .. Len(b) : b[k] = st[k]) /\ Last(st) \in F
  BY <1>1, FrontIs
<1>3. \A k \in 1 .. Len(b) : b[k].wait # "none"
  BY <1>1, <1>2 DEF Stacked
<1>4. Len(b) \in 1 .. Len(b) /\ b # <<>>
  BY <1>1, <1>2
<1>5. b[Len(b)] = st[Len(st) - 1]
  BY <1>2, <1>4
<1> HIDE DEF b
<1>6. Stacked(F, b, "turn")
  BY <1>2, <1>3, <1>4 DEF Stacked
<1>7. b[Len(b)] \in F /\ b[Len(b)].wait # "none"
  BY <1>2, <1>3, <1>4
<1> QED BY <1>2, <1>4, <1>5, <1>6, <1>7 DEF b, Last

LEMMA Returned ==
  ASSUME NEW F, NEW st, NEW l, NEW m, Stacked(F, st, l), Len(st) > 1, m \notin Idle,
         NEW f \in F, (f.wait = "none") <=> (m # "turn")
  PROVE  Stacked(F, Append(Front(Front(st)), f), m) /\ Last(Append(Front(Front(st)), f)) = f
BY CallerOnTop, TopReplaced DEF Idle

\* One branch returns and the next one is called.
LEMMA NextCalled ==
  ASSUME NEW F, NEW st, NEW l, NEW m, Stacked(F, st, l), Len(st) > 1,
         m \notin {"new", "done", "turn"},
         NEW f \in F, f.wait # "none", NEW c \in F, c.wait = "none"
  PROVE  Stacked(F, Append(Front(Front(st)), f) \o <<c>>, m)
BY CallerOnTop, CalleePushed DEF Idle

-----------------------------------------------------------------------------
(* The inductive invariant: parts that hold of every execution whatever    *)
(* fails, and a part that needs the database to hold out.                  *)

Labels == {"new", "walk", "checkpoint", "advance", "turn", "return", "error", "done"}
Outcomes == {"none", "ok", "err", "dropped", "lost"}

\* States whose activities were performed, in this order and from the first on,
\* and whose variables name some of these.
TrueStates(g, h) ==
  {s \in [status : {"Running", "Completed", "Failed", "Compensating"},
          completed : Seq(Nodes(g)), vars : [Nodes(g) -> Nat]] :
     IsPrefix(s.completed, h) /\ s.vars \in TrueVars(g, s.completed)}

\* An end on record is the end there was.
EndsAs(s, o) ==
  /\ s.status = "Completed" => o = "ok"
  /\ s.status = "Failed" => o = "err"

\* Memory names all that was performed, but for the activity under way.
Underway(s, h, label, at) ==
  /\ s.status = "Running"
  /\ h = IF label = "checkpoint" THEN Append(s.completed, at) ELSE s.completed

LacksAtMostOne(s, h, o) ==
  s # NoState =>
    /\ Len(h) - Len(s.completed) <= IF o \in {"ok", "err"} THEN 0 ELSE 1
    /\ o \in {"ok", "err"} => s.status # "Running"

Compensates(g, h, a, u) ==
  (\A i \in a : h[i] \in g.compensable) /\ (\A i \in DOMAIN u : h[u[i]] \in g.compensable)

\* What was undone came after all that is still to undo.
InReverse(a, u) ==
  /\ \A i, j \in DOMAIN u : i < j => u[i] > u[j]
  /\ \A i \in DOMAIN u : \A k \in a : k < u[i]

\* A run of compensation: it undoes performed activities that have a compensation.
Run(g, h, a, u) ==
  /\ a \subseteq DOMAIN h /\ u \in Seq(DOMAIN h)
  /\ Compensates(g, h, a, u) /\ InReverse(a, u)

LeavesNone(g, h, o, a, u) ==
  \A i \in DOMAIN h : h[i] \in g.compensable =>
    i \in a \cup Range(u) \/ (i = Len(h) /\ o # "err")

Shaped(e) ==
  /\ graph[e] \in Name /\ pc[e] \in Labels /\ outcome[e] \in Outcomes
  /\ (outcome[e] = "none") <=> (pc[e] # "done")
  /\ outcome[e] = "lost" => crashes > 0
  /\ history[e] \in Seq(Nodes(G(e))) /\ undone[e] \subseteq DOMAIN history[e]
  /\ Stacked(SoundFrames(G(e), history[e]), stack[e], pc[e])
  /\ pc[e] = "turn" => Top(e).wait = "loop"

Stored(e) ==
  /\ mem[e] \in TrueStates(G(e), history[e]) \cup {NoState}
  /\ disk[e] \in TrueStates(G(e), history[e]) \cup {NoState}
  /\ EndsAs(mem[e], outcome[e]) /\ EndsAs(disk[e], outcome[e])
  /\ pc[e] = "new" => history[e] = <<>> /\ mem[e] = NoState /\ disk[e] = NoState
  /\ pc[e] \notin Idle => mem[e] # NoState /\ Underway(mem[e], history[e], pc[e], Top(e).at)

\* Nobody compensates an execution that is walked.
Undoing(e) ==
  /\ undid[e] = NoRun => actions[e] = {}
  /\ undid[e] # NoRun => pc[e] = "done" /\ Run(G(e), history[e], actions[e], undid[e])

\* ... while the database has accepted its writes.
Synced(e) ==
  /\ mem[e] # NoState => disk[e] = mem[e]
  /\ LacksAtMostOne(disk[e], history[e], outcome[e])
  /\ undid[e] # NoRun => LeavesNone(G(e), history[e], outcome[e], actions[e], undid[e])

Good(e) ==
  /\ Shaped(e) /\ Stored(e) /\ Undoing(e)
  /\ dbFailures = 0 => Synced(e)

Tables ==
  /\ graph = [e \in Execution |-> graph[e]] /\ pc = [e \in Execution |-> pc[e]]
  /\ outcome = [e \in Execution |-> outcome[e]] /\ stack = [e \in Execution |-> stack[e]]
  /\ history = [e \in Execution |-> history[e]] /\ undone = [e \in Execution |-> undone[e]]
  /\ mem = [e \in Execution |-> mem[e]] /\ disk = [e \in Execution |-> disk[e]]
  /\ actions = [e \in Execution |-> actions[e]] /\ undid = [e \in Execution |-> undid[e]]
  /\ crashes \in 0 .. MaxCrashes /\ dbFailures \in 0 .. MaxDbFailures

IInv == Tables /\ \A e \in Execution : Good(e)

-----------------------------------------------------------------------------
(* Steps in general.                                                       *)

LEMMA InitGood == Init => IInv
<1> SUFFICES ASSUME Init PROVE IInv
  OBVIOUS
<1>1. Tables
  BY WorkflowAssumption DEF Init, Tables
<1>2. ASSUME NEW e \in Execution PROVE Good(e)
  <2>1. /\ graph[e] \in Name /\ pc[e] = "new" /\ outcome[e] = "none" /\ history[e] = <<>>
        /\ undone[e] = {} /\ stack[e] = <<>> /\ mem[e] = NoState /\ disk[e] = NoState
        /\ actions[e] = {} /\ undid[e] = NoRun
    BY WorkflowAssumption DEF Init
  <2>2. Shaped(e)
    BY <2>1 DEF Shaped, Stacked, Labels, Outcomes
  <2>3. Stored(e)
    BY <2>1 DEF Stored, EndsAs, NoState, Idle
  <2>4. Undoing(e) /\ Synced(e)
    BY <2>1 DEF Undoing, Synced, LacksAtMostOne
  <2> QED BY <2>2, <2>3, <2>4 DEF Good
<1> QED BY <1>1, <1>2 DEF IInv

\* An execution nothing happens to.
LEMMA Untouched ==
  ASSUME NEW x \in Execution, Good(x),
         graph'[x] = graph[x], pc'[x] = pc[x], outcome'[x] = outcome[x], stack'[x] = stack[x],
         history'[x] = history[x], undone'[x] = undone[x], mem'[x] = mem[x], disk'[x] = disk[x],
         actions'[x] = actions[x], undid'[x] = undid[x],
         dbFailures' = 0 => dbFailures = 0, crashes' = crashes
  PROVE  Good(x)'
BY DEF Good, Shaped, Stored, Undoing, Synced, G, Top

\* An execution that was still walked: its compensation has not begun.
LEMMA NothingUndone ==
  ASSUME NEW x \in Execution, Undoing(x), pc[x] # "done",
         actions'[x] = actions[x], undid'[x] = undid[x]
  PROVE  undid'[x] = NoRun /\ Undoing(x)'
BY DEF Undoing

\* A step of the walk that performs nothing and stores nothing.
LEMMA WalkStep ==
  ASSUME IInv, NEW e \in Execution, NEW l \in Labels, NEW st, NEW u, u \subseteq DOMAIN history[e],
         UNCHANGED <<graph, history, outcome, storeVars, sagaVars, crashes>>,
         undone' = [undone EXCEPT ![e] = u],
         pc[e] \notin Idle, pc[e] # "checkpoint", l \notin Idle, l # "checkpoint",
         pc' = [pc EXCEPT ![e] = l], stack' = [stack EXCEPT ![e] = st],
         Stacked(SoundFrames(G(e), history[e]), st, l), l = "turn" => Last(st).wait = "loop"
  PROVE  IInv'
<1>1. Tables'
  BY DEF IInv, Tables, storeVars, sagaVars
<1>2. /\ pc'[e] = l /\ stack'[e] = st /\ undone'[e] = u
      /\ \A x \in Execution \ {e} : pc'[x] = pc[x] /\ stack'[x] = stack[x] /\ undone'[x] = undone[x]
  BY DEF IInv, Tables
<1>3. UNCHANGED <<graph, history, outcome, mem, disk, dbFailures, actions, undid, crashes>>
  BY DEF storeVars, sagaVars
<1>4. ASSUME NEW x \in Execution, x # e PROVE Good(x)'
  BY <1>2, <1>3, <1>4, Untouched DEF IInv
<1>5. Good(e)'
  <2>1. Good(e)
    BY DEF IInv
  <2>2. Shaped(e)'
    BY <1>2, <1>3, <2>1 DEF Good, Shaped, G, Idle, Top
  <2>3. Stored(e)'
    <3>1. Underway(mem[e], history[e], pc[e], Top(e).at) /\ mem[e] # NoState
      BY <2>1 DEF Good, Stored
    <3>2. Underway(mem[e], history[e], l, Top(e)'.at)
      BY <3>1 DEF Underway
    <3> QED BY <1>2, <1>3, <2>1, <3>1, <3>2 DEF Good, Stored, G, Idle
  <2>4. undid'[e] = NoRun /\ Undoing(e)'
    BY <1>3, <2>1, NothingUndone DEF Good, Idle
  <2>5. dbFailures' = 0 => Synced(e)'
    BY <1>3, <2>1, <2>4 DEF Good, Synced
  <2> QED BY <2>2, <2>3, <2>4, <2>5 DEF Good
<1> QED BY <1>1, <1>4, <1>5 DEF IInv

LEMMA QuietStep ==
  ASSUME IInv, NEW e \in Execution, NEW l \in Labels, NEW st, Quiet,
         pc[e] \notin Idle, pc[e] # "checkpoint", l \notin Idle, l # "checkpoint",
         pc' = [pc EXCEPT ![e] = l], stack' = [stack EXCEPT ![e] = st],
         Stacked(SoundFrames(G(e), history[e]), st, l), l = "turn" => Last(st).wait = "loop"
  PROVE  IInv'
<1>1. undone' = [undone EXCEPT ![e] = undone[e]] /\ undone[e] \subseteq DOMAIN history[e]
  BY DEF Quiet, IInv, Tables, Good, Shaped
<1> QED BY <1>1, WalkStep DEF Quiet

\* What the innermost frame is while its execution is under way.
LEMMA TopIs ==
  ASSUME IInv, NEW e \in Execution, pc[e] \notin Idle
  PROVE  /\ Stacked(SoundFrames(G(e), history[e]), stack[e], pc[e]) /\ graph[e] \in Name
         /\ history[e] \in Seq(Nodes(G(e))) /\ Len(history[e]) \in Nat
         /\ Top(e) \in SoundFrames(G(e), history[e])
         /\ Top(e).wait = IF pc[e] = "turn" THEN "loop" ELSE "none"
         /\ stack[e] # <<>> /\ Len(stack[e]) \in Nat \ {0}
<1>1. /\ Stacked(SoundFrames(G(e), history[e]), stack[e], pc[e])
      /\ graph[e] \in Name /\ history[e] \in Seq(Nodes(G(e)))
  BY DEF IInv, Good, Shaped
<1>2. stack[e] \in Seq(SoundFrames(G(e), history[e])) /\ stack[e] # <<>>
  BY <1>1 DEF Stacked, Idle
<1>3. /\ Len(stack[e]) \in Nat \ {0} /\ Top(e) = stack[e][Len(stack[e])]
      /\ Top(e) \in SoundFrames(G(e), history[e])
  BY <1>2, FrontIs DEF Top
<1>4. Top(e).wait = IF pc[e] = "turn" THEN "loop" ELSE "none"
  <2>1. pc[e] # "turn" => Top(e).wait = "none"
    BY <1>1, <1>3 DEF Stacked
  <2>2. pc[e] = "turn" => Top(e).wait = "loop"
    BY DEF IInv, Good, Shaped
  <2> QED BY <2>1, <2>2
<1> QED BY <1>1, <1>2, <1>3, <1>4

LEMMA SamePc ==
  ASSUME IInv, NEW e \in Execution, UNCHANGED pc
  PROVE  Goto(e, pc[e])
BY DEF IInv, Tables, Goto

LEMMA StepRelabels ==
  ASSUME IInv, NEW e \in Execution, NEW l \in Labels, Quiet,
         pc[e] \notin Idle, pc[e] \notin {"checkpoint", "turn"},
         l \notin Idle, l \notin {"checkpoint", "turn"}, Goto(e, l), UNCHANGED stack
  PROVE  IInv'
<1>1. Stacked(SoundFrames(G(e), history[e]), stack[e], l)
  BY TopIs, Relabelled DEF Idle
<1>2. stack' = [stack EXCEPT ![e] = stack[e]]
  BY DEF IInv, Tables
<1> QED BY <1>1, <1>2, QuietStep DEF Goto

LEMMA StepSetsTop ==
  ASSUME IInv, NEW e \in Execution, NEW l \in Labels, Quiet,
         pc[e] \notin Idle, pc[e] # "checkpoint", l \notin Idle, l # "checkpoint", Goto(e, l),
         NEW f \in SoundFrames(G(e), history[e]), f.wait = IF l = "turn" THEN "loop" ELSE "none", SetTop(e, f)
  PROVE  IInv'
<1>1. Stacked(SoundFrames(G(e), history[e]), Append(Front(stack[e]), f), l)
      /\ Last(Append(Front(stack[e]), f)) = f
  BY TopIs, TopReplaced
<1> QED BY <1>1, QuietStep DEF Goto, SetTop

LEMMA StepCalls ==
  ASSUME IInv, NEW e \in Execution, Quiet, pc[e] \notin Idle, pc[e] # "checkpoint", Goto(e, "walk"),
         NEW f \in SoundFrames(G(e), history[e]), f.wait # "none",
         NEW c \in SoundFrames(G(e), history[e]), c.wait = "none", Call(e, f, c)
  PROVE  IInv'
<1>1. Stacked(SoundFrames(G(e), history[e]), Append(Front(stack[e]), f) \o <<c>>, "walk")
  BY TopIs, CalleePushed
<1> QED BY <1>1, QuietStep DEF Goto, Call, Labels, Idle

\* What the calling frame is when there is one.
LEMMA CallerIs ==
  ASSUME IInv, NEW e \in Execution, pc[e] \notin Idle, Len(stack[e]) > 1
  PROVE  Caller(e) \in SoundFrames(G(e), history[e]) /\ Caller(e).wait # "none"
BY TopIs, CallerOnTop DEF Caller

LEMMA StepReturns ==
  ASSUME IInv, NEW e \in Execution, NEW l \in Labels, Quiet,
         pc[e] \notin Idle, pc[e] # "checkpoint", l \notin Idle, l # "checkpoint", Goto(e, l),
         Len(stack[e]) > 1,
         NEW f \in SoundFrames(G(e), history[e]), f.wait = IF l = "turn" THEN "loop" ELSE "none",
         ReturnTo(e, f)
  PROVE  IInv'
<1>1. Stacked(SoundFrames(G(e), history[e]), Append(Front(Front(stack[e])), f), l)
      /\ Last(Append(Front(Front(stack[e])), f)) = f
  BY TopIs, Returned
<1> QED BY <1>1, QuietStep DEF Goto, ReturnTo

-----------------------------------------------------------------------------
(* The steps of the walk, one node kind at a time.                         *)

LEMMA FrameFields ==
  ASSUME NEW g, NEW h, NEW f \in SoundFrames(g, h)
  PROVE  /\ f.at \in Nodes(g) /\ f.boundary \in Nodes(g) \cup {NoNode} /\ f.steps \in Nat
         /\ f.vars \in TrueVars(g, h) /\ f.wait \in {"none", "loop", "body", "fork"}
         /\ f.left \in Nat /\ f.branches \in SUBSET Edges(g)
         /\ f.merged \in TrueVars(g, h) \cup {<<>>} /\ f.mark \in 0 .. Len(h)
         /\ f.wait = "fork" => f.merged \in TrueVars(g, h) /\ f.branches \subseteq Outgoing(g, f.at)
         /\ f.wait # "fork" => f.merged = <<>> /\ f.branches = {}
BY DEF SoundFrames, FrameShape

LEMMA NewFrame ==
  ASSUME NEW g, NEW h, Len(h) \in Nat, NEW at \in Nodes(g), NEW boundary \in Nodes(g) \cup {NoNode},
         NEW steps \in Nat, NEW variables \in TrueVars(g, h)
  PROVE  Frame(at, boundary, steps, variables) \in SoundFrames(g, h)
         /\ Frame(at, boundary, steps, variables).wait = "none"
BY DEF Frame, SoundFrames, FrameShape

\* A frame that waits for no fork is sound at another node,
LEMMA FrameMoved ==
  ASSUME NEW g, NEW h, NEW f \in SoundFrames(g, h), f.wait # "fork", NEW n \in Nodes(g)
  PROVE  /\ [f EXCEPT !.at = n] \in SoundFrames(g, h)
         /\ [f EXCEPT !.at = n].wait = f.wait
BY DEF SoundFrames, FrameShape

\* any frame in another round of its loop
LEMMA FrameCounts ==
  ASSUME NEW g, NEW h, NEW f \in SoundFrames(g, h), NEW l \in Nat
  PROVE  /\ [f EXCEPT !.left = l] \in SoundFrames(g, h)
         /\ [f EXCEPT !.left = l].wait = f.wait /\ [f EXCEPT !.left = l].at = f.at
         /\ [f EXCEPT !.left = l].steps = f.steps /\ [f EXCEPT !.left = l].vars = f.vars
BY DEF SoundFrames, FrameShape

\* and after another step.
LEMMA FrameStepped ==
  ASSUME NEW g, NEW h, NEW f \in SoundFrames(g, h), NEW s \in Nat
  PROVE  /\ [f EXCEPT !.steps = s] \in SoundFrames(g, h) /\ [f EXCEPT !.steps = s].wait = f.wait
         /\ [f EXCEPT !.steps = s].at = f.at /\ [f EXCEPT !.steps = s].vars = f.vars
BY DEF SoundFrames, FrameShape

\* The innermost frame while it walks.
LEMMA WalkingFrame ==
  ASSUME IInv, NEW e \in Execution, pc[e] \notin Idle, pc[e] # "turn"
  PROVE  /\ Stepped(e) \in SoundFrames(G(e), history[e]) /\ Stepped(e).wait = "none"
         /\ Stepped(e).at = Top(e).at /\ Stepped(e).vars = Top(e).vars
         /\ Top(e).at \in Nodes(G(e)) /\ graph[e] \in Name
<1> DEFINE f == Top(e)
<1>1. f \in SoundFrames(G(e), history[e]) /\ f.wait = "none" /\ graph[e] \in Name
  BY TopIs
<1>2. Stepped(e) = [f EXCEPT !.steps = f.steps + 1]
  BY DEF Stepped
<1> HIDE DEF f
<1>3. f.steps + 1 \in Nat /\ f.at \in Nodes(G(e))
  BY <1>1, FrameFields
<1> QED BY <1>1, <1>2, <1>3, FrameStepped DEF f

LEMMA TooManyStepsGood == ASSUME IInv, NEW e \in Execution, TooManySteps(e) PROVE IInv'
BY StepRelabels DEF TooManySteps, Idle, Labels

LEMMA PassGood == ASSUME IInv, NEW e \in Execution, Pass(e) PROVE IInv'
<1>1. pc[e] = "walk" /\ SetTop(e, Stepped(e)) /\ Goto(e, "advance") /\ Quiet
  BY DEF Pass, Walks
<1>2. Stepped(e) \in SoundFrames(G(e), history[e]) /\ Stepped(e).wait = "none"
  BY <1>1, WalkingFrame DEF Idle
<1> QED BY <1>1, <1>2, StepSetsTop DEF Idle, Labels

LEMMA StopGood == ASSUME IInv, NEW e \in Execution, Stop(e) PROVE IInv'
<1>1. /\ pc[e] = "walk" /\ SetTop(e, Stepped(e)) /\ Quiet
      /\ Goto(e, "return") \/ Goto(e, "error")
  BY DEF Stop, Walks
<1>2. Stepped(e) \in SoundFrames(G(e), history[e]) /\ Stepped(e).wait = "none"
  BY <1>1, WalkingFrame DEF Idle
<1> QED BY <1>1, <1>2, StepSetsTop DEF Idle, Labels

LEMMA AdvanceGood == ASSUME IInv, NEW e \in Execution, Advance(e) PROVE IInv'
<1>1. pc[e] = "advance" /\ Quiet
  BY DEF Advance
<1>2. CASE (Goto(e, "return") \/ Goto(e, "error")) /\ UNCHANGED stack
  BY <1>1, <1>2, StepRelabels DEF Idle, Labels
<1>3. ASSUME NEW i \in Followable(G(e), Top(e).at),
             Goto(e, "walk"), SetTop(e, [Top(e) EXCEPT !.at = Target(G(e), i)])
      PROVE  IInv'
  <2>1. Target(G(e), i) \in Nodes(G(e))
    BY <1>1, WalkingFrame, Navigation DEF Followable, Idle
  <2>2. /\ [Top(e) EXCEPT !.at = Target(G(e), i)] \in SoundFrames(G(e), history[e])
        /\ [Top(e) EXCEPT !.at = Target(G(e), i)].wait = "none"
    BY <1>1, <2>1, TopIs, FrameMoved DEF Idle
  <2> QED BY <1>1, <1>3, <2>2, StepSetsTop DEF Idle, Labels
<1> QED BY <1>1, <1>2, <1>3 DEF Advance

LEMMA ChooseGood == ASSUME IInv, NEW e \in Execution, Choose(e) PROVE IInv'
<1> DEFINE f == Stepped(e)
<1>1. pc[e] = "walk" /\ Quiet
  BY DEF Choose, Walks
<1>2. f \in SoundFrames(G(e), history[e]) /\ f.wait = "none" /\ f.at \in Nodes(G(e)) /\ graph[e] \in Name
  BY <1>1, WalkingFrame DEF Idle
<1>3. CASE Goto(e, "error") /\ SetTop(e, f)
  BY <1>1, <1>2, <1>3, StepSetsTop DEF Idle, Labels
<1>4. ASSUME NEW i \in Outgoing(G(e), f.at), Goto(e, "walk"), SetTop(e, [f EXCEPT !.at = Target(G(e), i)])
      PROVE  IInv'
  <2> HIDE DEF f
  <2>1. Target(G(e), i) \in Nodes(G(e))
    BY <1>2, Navigation
  <2>2. /\ [f EXCEPT !.at = Target(G(e), i)] \in SoundFrames(G(e), history[e])
        /\ [f EXCEPT !.at = Target(G(e), i)].wait = "none"
    BY <1>2, <2>1, FrameMoved
  <2> QED BY <1>1, <1>4, <2>2, StepSetsTop DEF Idle, Labels
<1> QED BY <1>3, <1>4 DEF Choose

LEMMA EnterLoopGood == ASSUME IInv, NEW e \in Execution, EnterLoop(e) PROVE IInv'
<1> DEFINE f == Stepped(e)
<1>1. pc[e] = "walk" /\ Quiet
  BY DEF EnterLoop, Walks
<1>2. f \in SoundFrames(G(e), history[e]) /\ f.wait = "none" /\ f.at \in Nodes(G(e)) /\ graph[e] \in Name
  BY <1>1, WalkingFrame DEF Idle
<1>3. Len(history[e]) \in Nat
  BY <1>1, TopIs DEF Idle
<1>4. CASE Goto(e, "error") /\ SetTop(e, f)
  BY <1>1, <1>2, <1>4, StepSetsTop DEF Idle, Labels
<1>5. ASSUME NEW n \in Nat, SetTop(e, [f EXCEPT !.wait = "loop", !.left = n]), Goto(e, "turn")
      PROVE  IInv'
  <2> HIDE DEF f
  <2>1. 0 \in 0 .. Len(history[e])
    BY <1>3
  <2>2. /\ [f EXCEPT !.wait = "loop", !.left = n] \in SoundFrames(G(e), history[e])
        /\ [f EXCEPT !.wait = "loop", !.left = n].wait = "loop"
    BY <1>2, <1>5, <2>1 DEF SoundFrames, FrameShape
  <2> QED BY <1>1, <1>5, <2>2, StepSetsTop DEF Idle, Labels
<1>6. G(e).repeat[f.at] \in Nat
  BY <1>2, EdgesLead
<1>7. MaxItems \in Nat /\ \A n \in 0 .. MaxItems : n \in Nat
  BY WorkflowAssumption
<1> QED BY <1>4, <1>5, <1>6, <1>7 DEF EnterLoop

LEMMA TurnGood == ASSUME IInv, NEW e \in Execution, Turn(e) PROVE IInv'
<1> DEFINE t == Top(e)
           f == [t EXCEPT !.left = t.left - 1]
           body == FindBodyEdge(G(e), f.at)
<1>1. pc[e] = "turn" /\ Quiet /\ t.left > 0
  BY DEF Turn
<1>2. /\ t \in SoundFrames(G(e), history[e]) /\ t.wait = "loop" /\ graph[e] \in Name
      /\ Len(history[e]) \in Nat
  BY <1>1, TopIs DEF Idle
<1>3. IF body = 0 THEN SetTop(e, f) /\ UNCHANGED pc
      ELSE Call(e, f, Frame(Target(G(e), body), f.at, f.steps, f.vars)) /\ Goto(e, "walk")
  BY DEF Turn
<1> HIDE DEF t
<1>4. /\ t.left - 1 \in Nat /\ t.at \in Nodes(G(e)) /\ t.steps \in Nat
      /\ t.vars \in TrueVars(G(e), history[e])
  <2>1. t.left \in Nat /\ t.at \in Nodes(G(e)) /\ t.steps \in Nat /\ t.vars \in TrueVars(G(e), history[e])
    BY <1>2, FrameFields
  <2> QED BY <1>1, <2>1
<1>5. /\ f \in SoundFrames(G(e), history[e]) /\ f.wait = "loop" /\ f.at = t.at
      /\ f.steps = t.steps /\ f.vars = t.vars
  BY <1>2, <1>4, FrameCounts
<1> HIDE DEF f
<1>6. CASE body = 0
  <2>1. SetTop(e, f) /\ Goto(e, "turn")
    BY <1>1, <1>3, <1>6, SamePc
  <2> QED BY <1>1, <1>5, <2>1, StepSetsTop DEF Idle, Labels
<1>7. CASE body # 0
  <2>1. Target(G(e), body) \in Nodes(G(e))
    BY <1>2, <1>4, <1>5, <1>7, Navigation
  <2>2. /\ Frame(Target(G(e), body), f.at, f.steps, f.vars) \in SoundFrames(G(e), history[e])
        /\ Frame(Target(G(e), body), f.at, f.steps, f.vars).wait = "none"
    BY <1>2, <1>4, <1>5, <2>1, NewFrame
  <2> QED BY <1>1, <1>3, <1>5, <1>7, <2>2, StepCalls DEF Idle
<1> QED BY <1>6, <1>7

LEMMA LeaveLoopGood == ASSUME IInv, NEW e \in Execution, LeaveLoop(e) PROVE IInv'
<1> DEFINE t == Top(e)
           f == [t EXCEPT !.wait = "none", !.left = 0]
           exit == FindExitEdge(G(e), f.at)
<1>1. pc[e] = "turn" /\ Quiet
  BY DEF LeaveLoop
<1>2. /\ t \in SoundFrames(G(e), history[e]) /\ t.wait = "loop" /\ graph[e] \in Name
      /\ Len(history[e]) \in Nat /\ 0 \in 0 .. Len(history[e])
  BY <1>1, TopIs DEF Idle
<1>3. \/ exit # 0 /\ Goto(e, "walk") /\ SetTop(e, [f EXCEPT !.at = Target(G(e), exit)])
      \/ Goto(e, "error") /\ SetTop(e, f)
  BY DEF LeaveLoop
<1> HIDE DEF t
<1>4. /\ f \in SoundFrames(G(e), history[e]) /\ f.wait = "none" /\ f.at \in Nodes(G(e))
  <2>1. t.at \in Nodes(G(e)) /\ f.at = t.at
    BY <1>2, FrameFields
  <2> QED BY <1>2, <2>1 DEF SoundFrames, FrameShape
<1> HIDE DEF f
<1>5. CASE Goto(e, "error") /\ SetTop(e, f)
  BY <1>1, <1>4, <1>5, StepSetsTop DEF Idle, Labels
<1>6. CASE exit # 0 /\ Goto(e, "walk") /\ SetTop(e, [f EXCEPT !.at = Target(G(e), exit)])
  <2>1. Target(G(e), exit) \in Nodes(G(e))
    BY <1>2, <1>4, <1>6, Navigation
  <2>2. /\ [f EXCEPT !.at = Target(G(e), exit)] \in SoundFrames(G(e), history[e])
        /\ [f EXCEPT !.at = Target(G(e), exit)].wait = "none"
    BY <1>4, <2>1, FrameMoved
  <2> QED BY <1>1, <1>6, <2>2, StepSetsTop DEF Idle, Labels
<1> QED BY <1>3, <1>5, <1>6

LEMMA EnterBoundaryGood == ASSUME IInv, NEW e \in Execution, EnterBoundary(e) PROVE IInv'
<1> DEFINE t == Stepped(e)
           f == [t EXCEPT !.wait = "body", !.mark = Len(history[e])]
           body == BodyOfBoundary(G(e), Top(e).at)
           c == Frame(Target(G(e), body), NoNode, f.steps, f.vars)
<1>1. pc[e] = "walk" /\ Quiet /\ body # 0 /\ Goto(e, "walk") /\ Call(e, f, c)
  BY DEF EnterBoundary, Walks
<1>2. /\ t \in SoundFrames(G(e), history[e]) /\ t.wait = "none" /\ graph[e] \in Name
      /\ Top(e).at \in Nodes(G(e))
  BY <1>1, WalkingFrame DEF Idle
<1>3. Len(history[e]) \in Nat
  BY <1>1, TopIs DEF Idle
<1> HIDE DEF t
<1>4. f \in SoundFrames(G(e), history[e]) /\ f.wait = "body"
  <2>1. Len(history[e]) \in 0 .. Len(history[e]) /\ 0 \in Nat
    BY <1>3
  <2> QED BY <1>2, <2>1 DEF SoundFrames, FrameShape
<1> HIDE DEF f
<1>5. Target(G(e), body) \in Nodes(G(e))
  BY <1>1, <1>2, Navigation
<1>6. c \in SoundFrames(G(e), history[e]) /\ c.wait = "none"
  BY <1>3, <1>4, <1>5 DEF Frame, SoundFrames, FrameShape
<1> HIDE DEF c
<1> QED BY <1>1, <1>4, <1>6, StepCalls DEF Idle

\* A branch begins at the end of its edge, with the variables of the fork.
LEMMA BranchIsSound ==
  ASSUME NEW e \in Execution, graph[e] \in Name, Len(history[e]) \in Nat,
         NEW n \in Nodes(G(e)), NEW i \in Outgoing(G(e), n), NEW f \in SoundFrames(G(e), history[e])
  PROVE  Branch(e, f, i) \in SoundFrames(G(e), history[e]) /\ Branch(e, f, i).wait = "none"
<1>1. Target(G(e), i) \in Nodes(G(e)) /\ FindJoin(G(e)) \in Nodes(G(e)) \cup {NoNode}
  BY Navigation
<1>2. f.vars \in TrueVars(G(e), history[e]) /\ 0 \in Nat
  BY FrameFields
<1> QED BY <1>1, <1>2 DEF Branch, Frame, SoundFrames, FrameShape

LEMMA ForkGood == ASSUME IInv, NEW e \in Execution, Fork(e) PROVE IInv'
<1> DEFINE t == Stepped(e)
           edges == Outgoing(G(e), Top(e).at)
           B == edges \ {Min(edges)}
           f == [t EXCEPT !.wait = "fork", !.merged = Top(e).vars, !.branches = B]
           c == Branch(e, f, Min(edges))
<1>1. pc[e] = "walk" /\ Quiet /\ Goto(e, "walk") /\ Call(e, f, c) /\ Cardinality(edges) > 1
  BY DEF Fork, Walks, Forks
<1>2. /\ t \in SoundFrames(G(e), history[e]) /\ t.wait = "none" /\ graph[e] \in Name
      /\ t.at = Top(e).at /\ t.at \in Nodes(G(e)) /\ t.vars = Top(e).vars
  BY <1>1, WalkingFrame DEF Idle
<1>3. Len(history[e]) \in Nat
  BY <1>1, TopIs DEF Idle
<1>4. edges # {}
  BY <1>1, FS_EmptySet
<1>5. Min(edges) \in Outgoing(G(e), t.at)
  BY <1>2, <1>4, Navigation
<1>6. B \subseteq Edges(G(e)) /\ B \subseteq Outgoing(G(e), t.at)
  BY <1>2, EdgesLead
<1>7. Top(e).vars \in TrueVars(G(e), history[e])
  BY <1>2, FrameFields
<1> HIDE DEF t, B, edges
<1>8. f \in SoundFrames(G(e), history[e]) /\ f.wait = "fork"
  BY <1>2, <1>6, <1>7 DEF SoundFrames, FrameShape
<1> HIDE DEF f
<1>9. c \in SoundFrames(G(e), history[e]) /\ c.wait = "none"
  BY <1>2, <1>3, <1>5, <1>8, BranchIsSound
<1> HIDE DEF c
<1> QED BY <1>1, <1>8, <1>9, StepCalls DEF Idle

-----------------------------------------------------------------------------
(* The returns of the walk.                                                *)

\* The frame that returns and the one it returns to.
LEMMA ReturningFrames ==
  ASSUME IInv, NEW e \in Execution, pc[e] \in {"return", "error"}, Len(stack[e]) > 1
  PROVE  /\ Caller(e) \in SoundFrames(G(e), history[e]) /\ Caller(e).wait # "none"
         /\ Top(e) \in SoundFrames(G(e), history[e]) /\ graph[e] \in Name
         /\ Len(history[e]) \in Nat /\ 0 \in 0 .. Len(history[e])
BY TopIs, CallerIs DEF Idle

LEMMA SharedIsSound ==
  ASSUME NEW e \in Execution, NEW g, NEW h,
         Caller(e) \in SoundFrames(g, h), Top(e) \in SoundFrames(g, h)
  PROVE  Shared(e) \in SoundFrames(g, h) /\ Shared(e).wait = Caller(e).wait
<1> DEFINE c == Caller(e)
           t == Top(e)
<1>1. Shared(e) = [c EXCEPT !.steps = t.steps, !.vars = t.vars]
  BY DEF Shared
<1>2. c \in SoundFrames(g, h) /\ t \in SoundFrames(g, h)
  OBVIOUS
<1> HIDE DEF c, t
<1>3. /\ [c EXCEPT !.steps = t.steps, !.vars = t.vars] \in SoundFrames(g, h)
      /\ [c EXCEPT !.steps = t.steps, !.vars = t.vars].wait = c.wait
  BY <1>2 DEF SoundFrames, FrameShape
<1> QED BY <1>1, <1>3 DEF c

LEMMA LoopReturnsGood == ASSUME IInv, NEW e \in Execution, LoopReturns(e) PROVE IInv'
<1>1. /\ pc[e] = "return" /\ Len(stack[e]) > 1 /\ Caller(e).wait = "loop"
      /\ ReturnTo(e, Shared(e)) /\ Goto(e, "turn") /\ Quiet
  BY DEF LoopReturns, Returns
<1>2. Shared(e) \in SoundFrames(G(e), history[e]) /\ Shared(e).wait = "loop"
  BY <1>1, ReturningFrames, SharedIsSound
<1> QED BY <1>1, <1>2, StepReturns DEF Idle, Labels

LEMMA BoundaryReturnsGood == ASSUME IInv, NEW e \in Execution, BoundaryReturns(e) PROVE IInv'
<1> DEFINE s == Shared(e)
           f == [s EXCEPT !.wait = "none", !.mark = 0]
<1>1. /\ pc[e] = "return" /\ Len(stack[e]) > 1 /\ Caller(e).wait = "body"
      /\ ReturnTo(e, f) /\ UNCHANGED pc /\ Quiet
  BY DEF BoundaryReturns, Returns
<1>2. s \in SoundFrames(G(e), history[e]) /\ s.wait = "body"
  BY <1>1, ReturningFrames, SharedIsSound
<1>3. 0 \in 0 .. Len(history[e])
  BY <1>1, ReturningFrames
<1>4. Goto(e, "return")
  BY <1>1, SamePc
<1> HIDE DEF s
<1>5. f \in SoundFrames(G(e), history[e]) /\ f.wait = "none"
  BY <1>2, <1>3 DEF SoundFrames, FrameShape
<1> QED BY <1>1, <1>4, <1>5, StepReturns DEF Idle, Labels

\* True variables laid over true ones are true.
LEMMA MergeIsTrue ==
  ASSUME NEW g, NEW h, NEW m \in TrueVars(g, h), NEW b \in TrueVars(g, h)
  PROVE  Merge(m, b) \in TrueVars(g, h)
BY DEF Merge, TrueVars

LEMMA ForkReturnsGood == ASSUME IInv, NEW e \in Execution, ForkReturns(e) PROVE IInv'
<1> DEFINE t == Top(e)
           c == Caller(e)
           f == [c EXCEPT !.steps = c.steps + t.steps, !.merged = Merge(c.merged, t.vars)]
           done == [f EXCEPT !.wait = "none", !.vars = f.merged, !.merged = <<>>]
           i == Min(c.branches)
           F == SoundFrames(G(e), history[e])
<1>1. pc[e] = "return" /\ Len(stack[e]) > 1 /\ c.wait = "fork" /\ Quiet
  BY DEF ForkReturns, Returns
<1>2. /\ c \in F /\ t \in F /\ graph[e] \in Name
      /\ Len(history[e]) \in Nat /\ 0 \in 0 .. Len(history[e])
  BY <1>1, ReturningFrames
<1>3. \/ /\ c.branches # {}
         /\ stack' = [stack EXCEPT ![e] =
              Append(Front(Front(stack[e])), [f EXCEPT !.branches = c.branches \ {i}]) \o <<Branch(e, f, i)>>]
         /\ Goto(e, "walk")
      \/ /\ c.branches = {} /\ FindJoin(G(e)) # NoNode
         /\ ReturnTo(e, [done EXCEPT !.at = FindJoin(G(e))]) /\ Goto(e, "walk")
      \/ c.branches = {} /\ ReturnTo(e, done) /\ Goto(e, "advance")
  BY DEF ForkReturns
<1> HIDE DEF t, c
<1>4. /\ c.steps + t.steps \in Nat /\ Merge(c.merged, t.vars) \in TrueVars(G(e), history[e])
      /\ c.at \in Nodes(G(e)) /\ c.branches \subseteq Outgoing(G(e), c.at)
      /\ c.branches \in SUBSET Edges(G(e))
  <2>1. /\ c.steps \in Nat /\ t.steps \in Nat /\ c.merged \in TrueVars(G(e), history[e])
        /\ t.vars \in TrueVars(G(e), history[e])
        /\ c.at \in Nodes(G(e)) /\ c.branches \subseteq Outgoing(G(e), c.at)
        /\ c.branches \in SUBSET Edges(G(e))
    BY <1>1, <1>2, FrameFields
  <2>2. c.steps + t.steps \in Nat
    BY <2>1
  <2> QED BY <2>1, <2>2, MergeIsTrue
<1>5. /\ f \in F /\ f.wait = "fork" /\ f.branches = c.branches /\ f.at = c.at
      /\ f.merged \in TrueVars(G(e), history[e])
  BY <1>1, <1>2, <1>4 DEF SoundFrames, FrameShape
<1> HIDE DEF f
<1>6. CASE c.branches = {}
  <2>1. done \in F /\ done.wait = "none"
    BY <1>5, <1>6 DEF SoundFrames, FrameShape
  <2> HIDE DEF done
  <2>2. ASSUME FindJoin(G(e)) # NoNode
        PROVE  [done EXCEPT !.at = FindJoin(G(e))] \in F /\ [done EXCEPT !.at = FindJoin(G(e))].wait = "none"
    <3>1. FindJoin(G(e)) \in Nodes(G(e))
      BY <1>2, <1>4, <2>2, Navigation
    <3> QED BY <2>1, <3>1, FrameMoved
  <2> QED BY <1>1, <1>3, <1>6, <2>1, <2>2, StepReturns DEF Idle, Labels
<1>7. CASE c.branches # {}
  <2> DEFINE B == c.branches \ {i}
             k == [f EXCEPT !.branches = B]
             b == Branch(e, f, i)
  <2>1. Edges(G(e)) \in SUBSET Nat
    BY <1>2, EdgesLead
  <2>2. i \in c.branches
    BY <1>4, <1>7, <2>1, MinIsLeast
  <2>3. i \in Outgoing(G(e), c.at)
    BY <1>4, <2>2
  <2>4. B \subseteq Outgoing(G(e), f.at) /\ B \subseteq Edges(G(e))
    BY <1>4, <1>5
  <2>5. b \in F /\ b.wait = "none"
    BY <1>2, <1>4, <1>5, <2>3, BranchIsSound
  <2> HIDE DEF B, b
  <2>6. k \in F /\ k.wait = "fork"
    BY <1>5, <2>4 DEF SoundFrames, FrameShape
  <2> HIDE DEF k
  <2>7. Stacked(F, stack[e], "return")
    BY <1>1, TopIs DEF Idle
  <2>8. Stacked(F, Append(Front(Front(stack[e])), k) \o <<b>>, "walk")
    BY <1>1, <2>5, <2>6, <2>7, NextCalled
  <2>9. stack' = [stack EXCEPT ![e] = Append(Front(Front(stack[e])), k) \o <<b>>] /\ Goto(e, "walk")
    BY <1>3, <1>7 DEF k, b, B
  <2> QED BY <1>1, <2>8, <2>9, QuietStep DEF Goto, Idle, Labels
<1> QED BY <1>6, <1>7

LEMMA UnwindGood == ASSUME IInv, NEW e \in Execution, Unwind(e) PROVE IInv'
<1> DEFINE t == Top(e)
           c == Caller(e)
           s == IF c.wait = "loop" THEN t.steps ELSE c.steps
           f == [c EXCEPT !.wait = "none", !.left = 0, !.branches = {}, !.merged = <<>>, !.steps = s]
           F == SoundFrames(G(e), history[e])
<1>1. pc[e] = "error" /\ Len(stack[e]) > 1 /\ ReturnTo(e, f) /\ UNCHANGED pc /\ Quiet
  BY DEF Unwind
<1>2. c \in F /\ t \in F
  BY <1>1, ReturningFrames
<1> HIDE DEF t, c
<1>3. s \in Nat
  BY <1>2, FrameFields
<1>4. Goto(e, "error")
  BY <1>1, SamePc
<1> HIDE DEF s
<1>5. f \in F /\ f.wait = "none"
  BY <1>2, <1>3 DEF SoundFrames, FrameShape
<1> QED BY <1>1, <1>4, <1>5, StepReturns DEF Idle, Labels

LEMMA CatchGood == ASSUME IInv, NEW e \in Execution, Catch(e) PROVE IInv'
<1> DEFINE t == Top(e)
           c == Caller(e)
           f == [c EXCEPT !.wait = "none", !.mark = 0, !.steps = t.steps]
           errors == FindErrorEdge(G(e), f.at)
           r == [f EXCEPT !.at = Target(G(e), errors)]
           u == undone[e] \cup (c.mark + 1 .. Len(history[e]))
           F == SoundFrames(G(e), history[e])
<1>1. /\ pc[e] = "error" /\ Len(stack[e]) > 1 /\ c.wait = "body"
      /\ UNCHANGED <<graph, history, outcome, result, storeVars, sagaVars, crashes>>
      /\ IF errors = 0 THEN ReturnTo(e, f) /\ UNCHANGED <<pc, undone>>
         ELSE ReturnTo(e, r) /\ Goto(e, "walk") /\ undone' = [undone EXCEPT ![e] = u]
  BY DEF Catch, Returns
<1>2. /\ c \in F /\ t \in F /\ graph[e] \in Name
      /\ Len(history[e]) \in Nat /\ 0 \in 0 .. Len(history[e])
  BY <1>1, ReturningFrames
<1>3. Stacked(F, stack[e], "error")
  BY <1>1, TopIs DEF Idle
<1> HIDE DEF t, c
<1>4. t.steps \in Nat /\ c.mark \in 0 .. Len(history[e]) /\ c.at \in Nodes(G(e))
  BY <1>2, FrameFields
<1>5. f \in F /\ f.wait = "none" /\ f.at = c.at
  BY <1>1, <1>2, <1>4 DEF SoundFrames, FrameShape
<1>6. u \subseteq DOMAIN history[e] /\ undone[e] \subseteq DOMAIN history[e]
  <2>1. history[e] \in Seq(Nodes(G(e))) /\ undone[e] \subseteq DOMAIN history[e]
    BY DEF IInv, Good, Shaped
  <2>2. c.mark + 1 .. Len(history[e]) \subseteq 1 .. Len(history[e])
    BY <1>2, <1>4
  <2> QED BY <2>1, <2>2
<1> HIDE DEF f, u
<1>7. CASE errors = 0
  <2>1. Quiet
    BY <1>1, <1>7 DEF Quiet
  <2>2. Goto(e, "error") /\ ReturnTo(e, f)
    BY <1>1, <1>7, SamePc
  <2> QED BY <1>1, <1>5, <2>1, <2>2, StepReturns DEF Idle, Labels
<1>8. CASE errors # 0
  <2>1. Target(G(e), errors) \in Nodes(G(e))
    BY <1>2, <1>4, <1>5, <1>8, Navigation
  <2>2. r \in F /\ r.wait = "none"
    BY <1>5, <2>1, FrameMoved
  <2>3. Stacked(F, Append(Front(Front(stack[e])), r), "walk")
    BY <1>1, <1>3, <2>2, Returned DEF Idle
  <2>4. /\ stack' = [stack EXCEPT ![e] = Append(Front(Front(stack[e])), r)]
        /\ pc' = [pc EXCEPT ![e] = "walk"] /\ undone' = [undone EXCEPT ![e] = u]
    BY <1>1, <1>8 DEF ReturnTo, Goto
  <2> HIDE DEF r, errors
  <2> QED BY <1>1, <1>6, <2>3, <2>4, WalkStep DEF Idle, Labels
<1> QED BY <1>7, <1>8

-----------------------------------------------------------------------------
(* Histories only grow.                                                    *)

LEMMA PrefixIs ==
  ASSUME NEW S, NEW s \in Seq(S), NEW t \in Seq(S)
  PROVE  IsPrefix(s, t) <=> Len(s) <= Len(t) /\ \A i \in 1 .. Len(s) : s[i] = t[i]
<1>1. Len(s) \in Nat /\ Len(t) \in Nat
  OBVIOUS
<1> DEFINE a == SubSeq(s, 1, Len(s))
           b == SubSeq(t, 1, Len(s))
<1>2. SUFFICES ASSUME Len(s) <= Len(t)
               PROVE  a = b <=> \A i \in 1 .. Len(s) : s[i] = t[i]
  BY DEF IsPrefix
<1>3. (\A i \in 1 .. Len(s) : s[i] \in S) /\ (\A i \in 1 .. Len(s) : t[i] \in S)
  BY <1>1, <1>2
<1>4. /\ a \in Seq(S) /\ Len(a) = IF 1 <= Len(s) THEN Len(s) - 1 + 1 ELSE 0
      /\ \A i \in 1 .. Len(s) - 1 + 1 : a[i] = s[1 + i - 1]
  BY <1>1, <1>3, SubSeqProperties
<1>5. /\ b \in Seq(S) /\ Len(b) = IF 1 <= Len(s) THEN Len(s) - 1 + 1 ELSE 0
      /\ \A i \in 1 .. Len(s) - 1 + 1 : b[i] = t[1 + i - 1]
  BY <1>1, <1>3, SubSeqProperties
<1> HIDE DEF a, b
<1>6. ASSUME NEW n \in Nat
      PROVE  (IF 1 <= n THEN n - 1 + 1 ELSE 0) = n /\ n - 1 + 1 = n
             /\ \A i \in 1 .. n : 1 + i - 1 = i
  OBVIOUS
<1>7. /\ Len(a) = Len(s) /\ \A i \in 1 .. Len(s) : a[i] = s[i]
      /\ Len(b) = Len(s) /\ \A i \in 1 .. Len(s) : b[i] = t[i]
  BY <1>1, <1>4, <1>5, <1>6
<1>8. a = b <=> \A i \in 1 .. Len(s) : a[i] = b[i]
  BY <1>4, <1>5, <1>7, SeqEqual
<1> QED BY <1>7, <1>8

LEMMA Grown ==
  ASSUME NEW S, NEW h \in Seq(S), NEW n \in S
  PROVE  /\ Append(h, n) \in Seq(S) /\ Len(Append(h, n)) = Len(h) + 1 /\ Len(h) \in Nat
         /\ DOMAIN h = 1 .. Len(h) /\ DOMAIN Append(h, n) = 1 .. Len(h) + 1
         /\ \A i \in 1 .. Len(h) : Append(h, n)[i] = h[i]
         /\ Append(h, n)[Len(h) + 1] = n
OBVIOUS

LEMMA VarsStayTrue ==
  ASSUME NEW g, NEW h \in Seq(Nodes(g)), NEW n \in Nodes(g), NEW v \in TrueVars(g, h)
  PROVE  /\ v \in TrueVars(g, Append(h, n))
         /\ [v EXCEPT ![n] = Len(h) + 1] \in TrueVars(g, Append(h, n))
<1> DEFINE h1 == Append(h, n)
<1>1. /\ Len(h1) = Len(h) + 1 /\ Len(h) \in Nat
      /\ \A i \in 1 .. Len(h) : h1[i] = h[i]
      /\ h1[Len(h) + 1] = n
  BY Grown
<1> HIDE DEF h1
<1>2. v \in [Nodes(g) -> 0 .. Len(h)] /\ \A m \in Nodes(g) : v[m] # 0 => h[v[m]] = m
  BY DEF TrueVars
<1>3. \A m \in Nodes(g) : v[m] \in 0 .. Len(h1) /\ (v[m] # 0 => h1[v[m]] = m)
  BY <1>1, <1>2
<1>4. v \in TrueVars(g, h1)
  BY <1>2, <1>3 DEF TrueVars
<1> DEFINE w == [v EXCEPT ![n] = Len(h) + 1]
<1>5. w \in [Nodes(g) -> 0 .. Len(h1)]
  <2>1. v \in [Nodes(g) -> 0 .. Len(h1)]
    BY <1>2, <1>3
  <2>2. Len(h) + 1 \in 0 .. Len(h1)
    BY <1>1
  <2> QED BY <2>1, <2>2
<1>6. ASSUME NEW m \in Nodes(g), w[m] # 0 PROVE h1[w[m]] = m
  <2>1. CASE m = n
    BY <1>1, <1>2, <2>1
  <2>2. CASE m # n
    BY <1>2, <1>3, <1>6, <2>2
  <2> QED BY <2>1, <2>2
<1>7. w \in TrueVars(g, h1)
  BY <1>5, <1>6 DEF TrueVars
<1> QED BY <1>4, <1>7 DEF h1

LEMMA FramesStaySound ==
  ASSUME NEW g, NEW h \in Seq(Nodes(g)), NEW n \in Nodes(g), NEW f \in SoundFrames(g, h)
  PROVE  f \in SoundFrames(g, Append(h, n))
<1>1. TrueVars(g, h) \subseteq TrueVars(g, Append(h, n))
  BY VarsStayTrue
<1>2. \A m \in 0 .. Len(h) : m \in 0 .. Len(Append(h, n))
  BY Grown
<1> QED BY <1>1, <1>2 DEF SoundFrames, FrameShape

LEMMA StacksStay ==
  ASSUME NEW F, NEW D, \A f \in F : f \in D, NEW st, NEW l, Stacked(F, st, l)
  PROVE  Stacked(D, st, l)
BY DEF Stacked

LEMMA StateIs ==
  ASSUME NEW g, NEW h, NEW s
  PROVE  s \in TrueStates(g, h) <=>
           /\ s \in [status : {"Running", "Completed", "Failed", "Compensating"},
                     completed : Seq(Nodes(g)), vars : [Nodes(g) -> Nat]]
           /\ IsPrefix(s.completed, h) /\ s.vars \in TrueVars(g, s.completed)
BY DEF TrueStates

LEMMA StatesStayTrue ==
  ASSUME NEW g, NEW h \in Seq(Nodes(g)), NEW n \in Nodes(g), NEW s \in TrueStates(g, h)
  PROVE  s \in TrueStates(g, Append(h, n))
<1>1. s.completed \in Seq(Nodes(g)) /\ IsPrefix(s.completed, h)
  BY StateIs
<1>2. Len(s.completed) <= Len(h) /\ \A i \in 1 .. Len(s.completed) : s.completed[i] = h[i]
  BY <1>1, PrefixIs
<1>3. Len(s.completed) \in Nat
  BY <1>1
<1> DEFINE h1 == Append(h, n)
<1>4. /\ h1 \in Seq(Nodes(g)) /\ Len(h1) = Len(h) + 1 /\ Len(h) \in Nat
      /\ \A i \in 1 .. Len(h) : h1[i] = h[i]
  BY Grown
<1> HIDE DEF h1
<1>5. Len(s.completed) <= Len(h1) /\ \A i \in 1 .. Len(s.completed) : s.completed[i] = h1[i]
  BY <1>2, <1>3, <1>4
<1>6. IsPrefix(s.completed, h1)
  BY <1>1, <1>4, <1>5, PrefixIs
<1> QED BY <1>6, StateIs DEF h1

-----------------------------------------------------------------------------
(* An activity is performed.                                               *)

\* The history grows by the place its output is bound to; states on record keep
\* naming a beginning of it.
LEMMA PerformGood == ASSUME IInv, NEW e \in Execution, Perform(e) PROVE IInv'
<1> DEFINE f == Stepped(e)
           g == G(e)
           h == history[e]
           n == f.at
           h1 == Append(h, n)
           r == [f EXCEPT !.vars[n] = Len(h) + 1]
<1>1. pc[e] = "walk" /\ UNCHANGED <<graph, undone, outcome, result, storeVars, sagaVars, crashes>>
  BY DEF Perform, Walks
<1>2. /\ f \in SoundFrames(g, h) /\ f.wait = "none" /\ graph[e] \in Name
      /\ n = Top(e).at /\ n \in Nodes(g)
  BY <1>1, WalkingFrame DEF Idle
<1>3. CASE SetTop(e, f) /\ Goto(e, "error") /\ UNCHANGED history
  <2>1. Quiet
    BY <1>1, <1>3 DEF Quiet
  <2> QED BY <1>1, <1>2, <1>3, <2>1, StepSetsTop DEF Idle, Labels
<1>4. CASE /\ history' = [history EXCEPT ![e] = h1]
           /\ SetTop(e, r) /\ Goto(e, "checkpoint")
  <2>1. UNCHANGED <<graph, undone, outcome, mem, disk, dbFailures, actions, undid, crashes>>
    BY <1>1 DEF storeVars, sagaVars
  <2>2. Tables'
    BY <1>4, <2>1 DEF IInv, Tables, SetTop, Goto
  <2>3. /\ pc'[e] = "checkpoint" /\ history'[e] = h1 /\ stack'[e] = Append(Front(stack[e]), r)
        /\ \A x \in Execution \ {e} :
             pc'[x] = pc[x] /\ stack'[x] = stack[x] /\ history'[x] = history[x]
    BY <1>4 DEF IInv, Tables, SetTop, Goto
  <2>4. ASSUME NEW x \in Execution, x # e PROVE Good(x)'
    BY <2>1, <2>3, <2>4, Untouched DEF IInv
  <2>5. Good(e)
    BY DEF IInv
  <2>6. h \in Seq(Nodes(g)) /\ undone[e] \subseteq DOMAIN h /\ Stacked(SoundFrames(g, h), stack[e], "walk")
    BY <1>1, <2>5 DEF Good, Shaped
  <2>7. /\ h1 \in Seq(Nodes(g)) /\ Len(h1) = Len(h) + 1 /\ Len(h) \in Nat
        /\ DOMAIN h = 1 .. Len(h) /\ DOMAIN h1 = 1 .. Len(h) + 1
        /\ \A i \in 1 .. Len(h) : h1[i] = h[i]
    BY <1>2, <2>6, Grown
  <2>8. G(e)' = g
    BY <2>1 DEF G
  <2>9. r \in SoundFrames(g, h1) /\ r.wait = "none" /\ r.at = n
    <3> HIDE DEF f, g, h, h1
    <3>1. f \in SoundFrames(g, h1)
      BY <1>2, <2>6, FramesStaySound DEF h1
    <3> DEFINE v == [f.vars EXCEPT ![n] = Len(h) + 1]
    <3>2. f.vars \in TrueVars(g, h)
      BY <1>2, FrameFields
    <3>3. v \in TrueVars(g, h1)
      BY <1>2, <2>6, <3>2, VarsStayTrue DEF h1
    <3> HIDE DEF v
    <3>4. [f EXCEPT !.vars = v] \in SoundFrames(g, h1) /\ [f EXCEPT !.vars = v].wait = f.wait
          /\ [f EXCEPT !.vars = v].at = f.at
      BY <3>1, <3>3 DEF SoundFrames, FrameShape
    <3>5. r = [f EXCEPT !.vars = v]
      BY DEF v
    <3> HIDE DEF r
    <3> QED BY <1>2, <3>4, <3>5
  <2> HIDE DEF f, h1, r
  <2>10. /\ Stacked(SoundFrames(g, h1), Append(Front(stack[e]), r), "checkpoint")
         /\ Last(Append(Front(stack[e]), r)) = r
    <3>1. \A k \in SoundFrames(g, h) : k \in SoundFrames(g, h1)
      BY <1>2, <2>6, FramesStaySound DEF h1
    <3>2. Stacked(SoundFrames(g, h1), stack[e], "walk")
      BY <2>6, <3>1, StacksStay
    <3> QED BY <2>9, <3>2, TopReplaced DEF Idle
  <2>11. Shaped(e)'
    <3>1. undone[e] \subseteq DOMAIN h1
      BY <2>6, <2>7
    <3> QED BY <1>1, <2>1, <2>3, <2>5, <2>7, <2>8, <2>10, <3>1 DEF Good, Shaped, Labels
  <2>12. Stored(e)'
    <3>1. Top(e)'.at = n
      BY <2>3, <2>9, <2>10 DEF Top
    <3>2. Underway(mem[e], h, "walk", n) /\ mem[e] # NoState
      BY <1>1, <1>2, <2>5 DEF Good, Stored, Idle
    <3>3. Underway(mem[e], h1, "checkpoint", n)
      BY <3>2 DEF Underway, h1
    <3>4. TrueStates(g, h) \subseteq TrueStates(g, h1)
      BY <1>2, <2>6, StatesStayTrue DEF h1
    <3> QED BY <1>1, <2>1, <2>3, <2>5, <2>8, <3>1, <3>2, <3>3, <3>4 DEF Good, Stored, Idle
  <2>13. undid'[e] = NoRun /\ Undoing(e)'
    BY <1>1, <2>1, <2>5, NothingUndone DEF Good
  <2>14. ASSUME dbFailures' = 0 PROVE Synced(e)'
    <3>1. Synced(e)
      BY <2>1, <2>5, <2>14 DEF Good
    <3>2. h = mem[e].completed /\ mem[e] # NoState /\ mem[e].status = "Running"
      BY <1>1, <2>5 DEF Good, Stored, Underway, Idle
    <3>3. LacksAtMostOne(disk[e], h1, outcome[e])
      <4>1. disk[e] = mem[e] /\ outcome[e] = "none"
        BY <1>1, <2>5, <3>1, <3>2 DEF Synced, Good, Shaped
      <4> QED BY <2>7, <3>2, <4>1 DEF LacksAtMostOne
    <3> QED BY <2>1, <2>3, <2>13, <3>1, <3>3 DEF Synced
  <2>16. Good(e)'
    BY <2>11, <2>12, <2>13, <2>14 DEF Good
  <2> QED BY <2>2, <2>4, <2>16 DEF IInv
<1> QED BY <1>3, <1>4 DEF Perform

-----------------------------------------------------------------------------
(* Steps that write a state.                                               *)

\* The database takes the state, or keeps what it has and counts a failure.
LEMMA StateWritten ==
  ASSUME IInv, NEW e \in Execution, NEW s, WriteState(e, s)
  PROVE  /\ mem' = [x \in Execution |-> mem'[x]] /\ disk' = [x \in Execution |-> disk'[x]]
         /\ mem'[e] = s /\ disk'[e] \in {s, disk[e]}
         /\ \A x \in Execution \ {e} : mem'[x] = mem[x] /\ disk'[x] = disk[x]
         /\ dbFailures' \in 0 .. MaxDbFailures
         /\ dbFailures' = 0 => dbFailures = 0 /\ disk'[e] = s
<1>1. /\ mem = [x \in Execution |-> mem[x]] /\ disk = [x \in Execution |-> disk[x]]
      /\ dbFailures \in 0 .. MaxDbFailures
  BY DEF IInv, Tables
<1>2. /\ mem' = [mem EXCEPT ![e] = s]
      /\ \/ disk' = [disk EXCEPT ![e] = s] /\ dbFailures' = dbFailures
         \/ dbFailures < MaxDbFailures /\ dbFailures' = dbFailures + 1 /\ disk' = disk
  BY DEF WriteState, DbWrites
<1>3. MaxDbFailures \in Nat
  BY WorkflowAssumption
<1>4. CASE disk' = [disk EXCEPT ![e] = s] /\ dbFailures' = dbFailures
  BY <1>1, <1>2, <1>4
<1>5. CASE dbFailures < MaxDbFailures /\ dbFailures' = dbFailures + 1 /\ disk' = disk
  <2>1. dbFailures' \in 0 .. MaxDbFailures /\ dbFailures' # 0
    BY <1>1, <1>3, <1>5
  <2> QED BY <1>1, <1>2, <1>5, <2>1
<1> QED BY <1>2, <1>4, <1>5

LEMMA NoEndYet ==
  ASSUME NEW s, NEW o, NEW r, EndsAs(s, o), o \in {"none", "dropped"}
  PROVE  EndsAs(s, r)
BY DEF EndsAs

\* A state on record, with another status.
LEMMA Restated ==
  ASSUME NEW g, NEW h, NEW s \in TrueStates(g, h),
         NEW status \in {"Running", "Completed", "Failed", "Compensating"},
         NEW r, r = [s EXCEPT !.status = status]
  PROVE  /\ r \in TrueStates(g, h) /\ r.status = status /\ r.completed = s.completed
         /\ r # NoState
<1>1. /\ s \in [status : {"Running", "Completed", "Failed", "Compensating"},
                completed : Seq(Nodes(g)), vars : [Nodes(g) -> Nat]]
      /\ IsPrefix(s.completed, h) /\ s.vars \in TrueVars(g, s.completed)
  BY StateIs
<1>2. /\ r \in [status : {"Running", "Completed", "Failed", "Compensating"},
                completed : Seq(Nodes(g)), vars : [Nodes(g) -> Nat]]
      /\ r.status = status /\ r.completed = s.completed /\ r.vars = s.vars
  BY <1>1
<1>3. r \in TrueStates(g, h)
  BY <1>1, <1>2, StateIs
<1>4. r # NoState
  BY <1>2 DEF NoState
<1> QED BY <1>2, <1>3, <1>4

LEMMA CheckpointGood == ASSUME IInv, NEW e \in Execution, Checkpoint(e) PROVE IInv'
<1> DEFINE g == G(e)
           h == history[e]
           t == Top(e)
           m == mem[e]
           s == [m EXCEPT !.completed = Append(m.completed, t.at), !.vars = t.vars]
<1>1. /\ pc[e] = "checkpoint" /\ Goto(e, "advance")
      /\ UNCHANGED <<graph, stack, history, undone, outcome, result, sagaVars, crashes>>
  BY DEF Checkpoint
<1>2. Good(e)
  BY DEF IInv
<1>3. /\ m # NoState /\ m \in TrueStates(g, h) /\ m.status = "Running"
      /\ h = Append(m.completed, t.at)
  BY <1>1, <1>2 DEF Good, Stored, Underway, Idle
<1>4. WriteState(e, s)
  BY <1>3 DEF Checkpoint, CheckpointState, Known
<1>5. /\ t \in SoundFrames(g, h) /\ Stacked(SoundFrames(g, h), stack[e], "checkpoint")
      /\ h \in Seq(Nodes(g)) /\ Len(h) \in Nat /\ outcome[e] = "none"
  BY <1>1, <1>2, TopIs DEF Idle, Good, Shaped
<1>6. /\ mem' = [x \in Execution |-> mem'[x]] /\ disk' = [x \in Execution |-> disk'[x]]
      /\ mem'[e] = s /\ disk'[e] \in {s, disk[e]}
      /\ \A x \in Execution \ {e} : mem'[x] = mem[x] /\ disk'[x] = disk[x]
      /\ dbFailures' \in 0 .. MaxDbFailures
      /\ dbFailures' = 0 => dbFailures = 0 /\ disk'[e] = s
  BY <1>4, StateWritten
<1>7. /\ pc'[e] = "advance" /\ \A x \in Execution \ {e} : pc'[x] = pc[x]
      /\ UNCHANGED <<actions, undid>> /\ G(e)' = g
  BY <1>1 DEF IInv, Tables, Goto, sagaVars, G
<1>8. Tables'
  BY <1>1, <1>6, <1>7 DEF IInv, Tables, Goto
<1>9. ASSUME NEW x \in Execution, x # e PROVE Good(x)'
  BY <1>1, <1>6, <1>7, <1>9, Untouched DEF IInv
<1>10. /\ s \in TrueStates(g, h) /\ s.completed = h /\ s.status = "Running" /\ s # NoState
  <2> HIDE DEF g, h, m, t
  <2>1. t.vars \in TrueVars(g, h)
    BY <1>5, FrameFields
  <2>2. t.vars \in [Nodes(g) -> Nat]
    BY <1>5, <2>1 DEF TrueVars
  <2>3. m \in [status : {"Running", "Completed", "Failed", "Compensating"},
               completed : Seq(Nodes(g)), vars : [Nodes(g) -> Nat]]
    BY <1>3, StateIs
  <2>4. s = [m EXCEPT !.completed = h, !.vars = t.vars]
    BY <1>3
  <2> HIDE DEF s
  <2>5. /\ s \in [status : {"Running", "Completed", "Failed", "Compensating"},
                  completed : Seq(Nodes(g)), vars : [Nodes(g) -> Nat]]
        /\ s.completed = h /\ s.vars = t.vars /\ s.status = "Running"
    BY <1>3, <1>5, <2>2, <2>3, <2>4
  <2>6. IsPrefix(h, h)
    BY <1>5, PrefixIs
  <2>7. s # NoState
    BY <2>5 DEF NoState
  <2> QED BY <2>1, <2>5, <2>6, <2>7, StateIs
<1> HIDE DEF s
<1>11. Shaped(e)'
  <2>1. Stacked(SoundFrames(g, h), stack[e], "advance")
    BY <1>5, Relabelled
  <2> QED BY <1>1, <1>2, <1>7, <2>1 DEF Good, Shaped, Labels, G
<1>12. Stored(e)'
  <2>1. EndsAs(s, outcome[e])
    BY <1>10 DEF EndsAs
  <2>2. Underway(s, h, "advance", Top(e)'.at)
    BY <1>10 DEF Underway
  <2> QED BY <1>1, <1>2, <1>6, <1>7, <1>10, <2>1, <2>2 DEF Good, Stored
<1>13. undid'[e] = NoRun /\ Undoing(e)'
  BY <1>1, <1>2, <1>7, NothingUndone DEF Good
<1>14. ASSUME dbFailures' = 0 PROVE Synced(e)'
  <2>1. LacksAtMostOne(s, h, outcome[e])
    BY <1>5, <1>10 DEF LacksAtMostOne
  <2> QED BY <1>1, <1>6, <1>7, <1>13, <1>14, <2>1 DEF Synced
<1> QED BY <1>8, <1>9, <1>11, <1>12, <1>13, <1>14 DEF IInv, Good

-----------------------------------------------------------------------------
(* The beginning and the ends of an execution.                             *)

LEMMA EmptyStack ==
  ASSUME NEW F, NEW l \in Idle
  PROVE  Stacked(F, <<>>, l)
BY DEF Stacked, Idle

LEMMA BeginGood == ASSUME IInv, NEW e \in Execution, Begin(e) PROVE IInv'
<1> DEFINE g == G(e)
           s == [status |-> "Running", completed |-> <<>>, vars |-> Unset(e)]
           f == Frame(g.entry, NoNode, 0, Unset(e))
<1>1. /\ pc[e] = "new" /\ WriteState(e, s) /\ Goto(e, "walk") /\ stack' = [stack EXCEPT ![e] = <<f>>]
      /\ UNCHANGED <<graph, history, undone, outcome, result, actions, undid, crashes>>
  BY DEF Begin, sagaVars
<1>2. Good(e)
  BY DEF IInv
<1>3. /\ history[e] = <<>> /\ mem[e] = NoState /\ disk[e] = NoState /\ outcome[e] = "none"
      /\ graph[e] \in Name
  BY <1>1, <1>2 DEF Good, Stored, Shaped
<1>4. /\ mem' = [x \in Execution |-> mem'[x]] /\ disk' = [x \in Execution |-> disk'[x]]
      /\ mem'[e] = s /\ disk'[e] \in {s, disk[e]}
      /\ \A x \in Execution \ {e} : mem'[x] = mem[x] /\ disk'[x] = disk[x]
      /\ dbFailures' \in 0 .. MaxDbFailures
      /\ dbFailures' = 0 => dbFailures = 0 /\ disk'[e] = s
  BY <1>1, StateWritten
<1>5. /\ pc'[e] = "walk" /\ stack'[e] = <<f>> /\ G(e)' = g
      /\ \A x \in Execution \ {e} : pc'[x] = pc[x] /\ stack'[x] = stack[x]
  BY <1>1 DEF IInv, Tables, Goto, G
<1>6. Tables'
  BY <1>1, <1>4 DEF IInv, Tables, Goto
<1>7. ASSUME NEW x \in Execution, x # e PROVE Good(x)'
  BY <1>1, <1>4, <1>5, <1>7, Untouched DEF IInv
<1>8. Unset(e) \in TrueVars(g, <<>>) /\ Unset(e) \in [Nodes(g) -> Nat]
  BY DEF Unset, TrueVars
<1>9. s \in TrueStates(g, <<>>) /\ s # NoState
  <2>1. IsPrefix(<<>>, <<>>)
    BY DEF IsPrefix
  <2>2. s \in [status : {"Running", "Completed", "Failed", "Compensating"},
               completed : Seq(Nodes(g)), vars : [Nodes(g) -> Nat]]
    BY <1>8
  <2>3. s # NoState
    BY DEF NoState
  <2> QED BY <1>8, <2>1, <2>2, <2>3, StateIs
<1>10. Stacked(SoundFrames(g, <<>>), <<f>>, "walk")
  <2>1. g.entry \in Nodes(g)
    BY <1>3, EdgesLead
  <2>2. f \in SoundFrames(g, <<>>) /\ f.wait = "none"
    BY <1>8, <2>1 DEF Frame, SoundFrames, FrameShape
  <2> HIDE DEF f
  <2> QED BY <2>2 DEF Stacked
<1>11. Shaped(e)'
  BY <1>1, <1>2, <1>3, <1>5, <1>10 DEF Good, Shaped, Labels
<1>12. Stored(e)'
  <2>1. EndsAs(s, "none") /\ EndsAs(NoState, "none")
    BY DEF EndsAs, NoState
  <2>2. Underway(s, <<>>, "walk", Top(e)'.at)
    BY DEF Underway
  <2> HIDE DEF s
  <2> QED BY <1>1, <1>3, <1>4, <1>5, <1>9, <2>1, <2>2 DEF Stored
<1>13. undid'[e] = NoRun /\ Undoing(e)'
  BY <1>1, <1>2, NothingUndone DEF Good
<1>14. ASSUME dbFailures' = 0 PROVE Synced(e)'
  <2>1. LacksAtMostOne(s, <<>>, "none")
    BY DEF LacksAtMostOne
  <2> QED BY <1>1, <1>3, <1>4, <1>13, <1>14, <2>1 DEF Synced
<1> QED BY <1>6, <1>7, <1>11, <1>12, <1>13, <1>14 DEF IInv, Good

\* The stack and the label of an execution that is over.
LEMMA OverIs ==
  ASSUME IInv, NEW e \in Execution, NEW how, Over(e, how)
  PROVE  /\ pc'[e] = "done" /\ stack'[e] = <<>> /\ outcome'[e] = how /\ G(e)' = G(e)
         /\ UNCHANGED <<graph, history, undone, actions, undid, crashes>>
         /\ \A x \in Execution \ {e} : pc'[x] = pc[x] /\ stack'[x] = stack[x] /\ outcome'[x] = outcome[x]
         /\ pc' = [x \in Execution |-> pc'[x]] /\ stack' = [x \in Execution |-> stack'[x]]
         /\ outcome' = [x \in Execution |-> outcome'[x]]
BY DEF IInv, Tables, Over, Goto, sagaVars, G

\* The execution ends with an answer, and its status is written.
LEMMA AnswerGood ==
  ASSUME IInv, NEW e \in Execution, pc[e] \in {"return", "error"},
         NEW status, NEW how, <<status, how>> \in {<<"Completed", "ok">>, <<"Failed", "err">>},
         UpdateStatus(e, status), Over(e, how)
  PROVE  IInv'
<1> DEFINE g == G(e)
           h == history[e]
           m == mem[e]
           s == [m EXCEPT !.status = status]
<1>0. \/ status = "Completed" /\ how = "ok"
      \/ status = "Failed" /\ how = "err"
  OBVIOUS
<1>1. Good(e)
  BY DEF IInv
<1>2. /\ m # NoState /\ m \in TrueStates(g, h) /\ m.status = "Running" /\ h = m.completed
      /\ outcome[e] = "none" /\ h \in Seq(Nodes(g))
  BY <1>1 DEF Good, Stored, Shaped, Underway, Idle
<1>3. WriteState(e, s)
  BY <1>2 DEF UpdateStatus, Known
<1>4. /\ mem' = [x \in Execution |-> mem'[x]] /\ disk' = [x \in Execution |-> disk'[x]]
      /\ mem'[e] = s /\ disk'[e] \in {s, disk[e]}
      /\ \A x \in Execution \ {e} : mem'[x] = mem[x] /\ disk'[x] = disk[x]
      /\ dbFailures' \in 0 .. MaxDbFailures
      /\ dbFailures' = 0 => dbFailures = 0 /\ disk'[e] = s
  BY <1>3, StateWritten
<1>5. /\ pc'[e] = "done" /\ stack'[e] = <<>> /\ outcome'[e] = how /\ G(e)' = g
      /\ UNCHANGED <<graph, history, undone, actions, undid, crashes>>
      /\ \A x \in Execution \ {e} : pc'[x] = pc[x] /\ stack'[x] = stack[x] /\ outcome'[x] = outcome[x]
      /\ pc' = [x \in Execution |-> pc'[x]] /\ stack' = [x \in Execution |-> stack'[x]]
      /\ outcome' = [x \in Execution |-> outcome'[x]]
  BY OverIs
<1>6. Tables'
  BY <1>4, <1>5 DEF IInv, Tables
<1>7. ASSUME NEW x \in Execution, x # e PROVE Good(x)'
  BY <1>4, <1>5, <1>7, Untouched DEF IInv
<1>8. s \in TrueStates(g, h) /\ s.status = status /\ s.completed = h /\ s # NoState
  <2>1. status \in {"Running", "Completed", "Failed", "Compensating"}
    BY <1>0
  <2>2. s = [m EXCEPT !.status = status]
    OBVIOUS
  <2> HIDE DEF g, h, m, s
  <2> QED BY <1>2, <2>1, <2>2, Restated
<1> HIDE DEF s
<1>9. Shaped(e)'
  BY <1>0, <1>1, <1>5, EmptyStack DEF Good, Shaped, Labels, Outcomes, Idle
<1>10. Stored(e)'
  <2>1. EndsAs(s, how) /\ EndsAs(disk[e], how)
    <3>1. EndsAs(disk[e], "none")
      BY <1>1, <1>2 DEF Good, Stored
    <3> QED BY <1>0, <1>8, <3>1, NoEndYet DEF EndsAs
  <2> QED BY <1>1, <1>4, <1>5, <1>8, <2>1 DEF Good, Stored, Idle
<1>11. undid'[e] = NoRun /\ Undoing(e)'
  BY <1>1, <1>5, NothingUndone DEF Good
<1>12. ASSUME dbFailures' = 0 PROVE Synced(e)'
  <2>1. LacksAtMostOne(s, h, how)
    <3>1. Len(h) \in Nat
      BY <1>2
    <3> QED BY <1>0, <1>8, <3>1 DEF LacksAtMostOne
  <2> QED BY <1>4, <1>5, <1>11, <1>12, <2>1 DEF Synced
<1> QED BY <1>6, <1>7, <1>9, <1>10, <1>11, <1>12 DEF IInv, Good

LEMMA FinishGood == ASSUME IInv, NEW e \in Execution, Finish(e) PROVE IInv'
BY AnswerGood DEF Finish

LEMMA DropGood == ASSUME IInv, NEW e \in Execution, Drop(e) PROVE IInv'
<1>1. pc[e] \in {"walk", "checkpoint"} /\ Over(e, "dropped") /\ UNCHANGED <<mem, disk, dbFailures>>
  BY DEF Drop, Walks, storeVars
<1>2. /\ pc'[e] = "done" /\ stack'[e] = <<>> /\ outcome'[e] = "dropped" /\ G(e)' = G(e)
      /\ UNCHANGED <<graph, history, undone, actions, undid, crashes>>
      /\ \A x \in Execution \ {e} : pc'[x] = pc[x] /\ stack'[x] = stack[x] /\ outcome'[x] = outcome[x]
      /\ pc' = [x \in Execution |-> pc'[x]] /\ stack' = [x \in Execution |-> stack'[x]]
      /\ outcome' = [x \in Execution |-> outcome'[x]]
  BY <1>1, OverIs
<1>3. Tables'
  BY <1>1, <1>2 DEF IInv, Tables
<1>4. ASSUME NEW x \in Execution, x # e PROVE Good(x)'
  BY <1>1, <1>2, <1>4, Untouched DEF IInv
<1>5. Good(e) /\ outcome[e] = "none"
  BY <1>1 DEF IInv, Good, Shaped
<1>6. Shaped(e)'
  BY <1>2, <1>5, EmptyStack DEF Good, Shaped, Labels, Outcomes, Idle
<1>7. Stored(e)'
  <2>1. EndsAs(mem[e], "dropped") /\ EndsAs(disk[e], "dropped")
    BY <1>5, NoEndYet DEF Good, Stored
  <2> QED BY <1>1, <1>2, <1>5, <2>1 DEF Good, Stored, Idle
<1>8. undid'[e] = NoRun /\ Undoing(e)'
  BY <1>1, <1>2, <1>5, NothingUndone DEF Good
<1>9. ASSUME dbFailures' = 0 PROVE Synced(e)'
  <2>1. LacksAtMostOne(disk[e], history[e], "dropped")
    BY <1>1, <1>5, <1>9 DEF Good, Synced, LacksAtMostOne
  <2> QED BY <1>1, <1>2, <1>5, <1>8, <1>9, <2>1 DEF Good, Synced
<1> QED BY <1>3, <1>4, <1>6, <1>7, <1>8, <1>9 DEF IInv, Good

-----------------------------------------------------------------------------
(* Compensation, the purge and the restart.                                *)

\* The compensations collected are those of performed activities, and of all that
\* the state names.
LEMMA Collected ==
  ASSUME NEW e \in Execution, history[e] \in Seq(Nodes(G(e))),
         NEW s \in TrueStates(G(e), history[e])
  PROVE  /\ CollectCompensations(e, s.completed) \subseteq DOMAIN history[e]
         /\ \A i \in CollectCompensations(e, s.completed) : history[e][i] \in G(e).compensable
         /\ \A i \in DOMAIN history[e] :
              history[e][i] \in G(e).compensable =>
                i \in CollectCompensations(e, s.completed) \/ i > Len(s.completed)
<1>1. s.completed \in Seq(Nodes(G(e))) /\ IsPrefix(s.completed, history[e])
  BY StateIs
<1>2. Len(s.completed) <= Len(history[e])
      /\ \A i \in 1 .. Len(s.completed) : s.completed[i] = history[e][i]
  BY <1>1, PrefixIs
<1>3. /\ DOMAIN history[e] = 1 .. Len(history[e]) /\ DOMAIN s.completed = 1 .. Len(s.completed)
      /\ Len(history[e]) \in Nat /\ Len(s.completed) \in Nat
  BY <1>1
<1> QED BY <1>2, <1>3 DEF CollectCompensations

LEMMA SetCompensatingGood == ASSUME IInv, NEW e \in Execution, SetCompensating(e) PROVE IInv'
<1> DEFINE g == G(e)
           h == history[e]
           m == mem[e]
           s == [m EXCEPT !.status = "Compensating"]
<1>1. /\ m # NoState /\ pc[e] = "done" /\ WriteState(e, s)
      /\ UNCHANGED <<graph, pc, stack, history, undone, outcome, result, actions, undid, crashes>>
  BY DEF SetCompensating, ToCompensate, UpdateStatus, Known, walkVars, sagaVars
<1>2. Good(e)
  BY DEF IInv
<1>3. m \in TrueStates(g, h) /\ G(e)' = g
  BY <1>1, <1>2 DEF Good, Stored, G
<1>4. /\ mem' = [x \in Execution |-> mem'[x]] /\ disk' = [x \in Execution |-> disk'[x]]
      /\ mem'[e] = s /\ disk'[e] \in {s, disk[e]}
      /\ \A x \in Execution \ {e} : mem'[x] = mem[x] /\ disk'[x] = disk[x]
      /\ dbFailures' \in 0 .. MaxDbFailures
      /\ dbFailures' = 0 => dbFailures = 0 /\ disk'[e] = s
  BY <1>1, StateWritten
<1>5. Tables'
  BY <1>1, <1>4 DEF IInv, Tables
<1>6. ASSUME NEW x \in Execution, x # e PROVE Good(x)'
  BY <1>1, <1>4, <1>6, Untouched DEF IInv
<1>7. /\ s \in TrueStates(g, h) /\ s.status = "Compensating" /\ s.completed = m.completed
      /\ s # NoState
  <2>1. s = [m EXCEPT !.status = "Compensating"]
    OBVIOUS
  <2> HIDE DEF g, h, m, s
  <2> QED BY <1>3, <2>1, Restated
<1> HIDE DEF s
<1>8. Shaped(e)' /\ Undoing(e)'
  BY <1>1, <1>2, <1>3 DEF Good, Shaped, Undoing, Top
<1>9. Stored(e)'
  <2>1. EndsAs(s, outcome[e])
    BY <1>7 DEF EndsAs
  <2> QED BY <1>1, <1>2, <1>3, <1>4, <1>7, <2>1 DEF Good, Stored, Idle
<1>10. ASSUME dbFailures' = 0 PROVE Synced(e)'
  <2>1. Synced(e) /\ disk[e] = m
    BY <1>1, <1>2, <1>4, <1>10 DEF Good, Synced
  <2>2. LacksAtMostOne(s, h, outcome[e])
    BY <1>1, <1>7, <2>1 DEF Synced, LacksAtMostOne
  <2> QED BY <1>1, <1>3, <1>4, <1>10, <2>1, <2>2 DEF Synced
<1> QED BY <1>5, <1>6, <1>8, <1>9, <1>10 DEF IInv, Good

LEMMA CollectGood == ASSUME IInv, NEW e \in Execution, Collect(e) PROVE IInv'
<1> DEFINE g == G(e)
           h == history[e]
           m == mem[e]
           a == CollectCompensations(e, m.completed)
<1>1. /\ m # NoState /\ pc[e] = "done"
      /\ actions' = [actions EXCEPT ![e] = a] /\ undid' = [undid EXCEPT ![e] = <<>>]
      /\ UNCHANGED <<graph, pc, stack, history, undone, outcome, result, mem, disk, dbFailures, crashes>>
  BY DEF Collect, ToCompensate, Known, walkVars, storeVars
<1>2. Good(e)
  BY DEF IInv
<1>3. m \in TrueStates(g, h) /\ h \in Seq(Nodes(g)) /\ G(e)' = g
  BY <1>1, <1>2 DEF Good, Stored, Shaped, G
<1>4. /\ actions'[e] = a /\ undid'[e] = <<>>
      /\ \A x \in Execution \ {e} : actions'[x] = actions[x] /\ undid'[x] = undid[x]
  BY <1>1 DEF IInv, Tables
<1>5. Tables'
  BY <1>1 DEF IInv, Tables
<1>6. ASSUME NEW x \in Execution, x # e PROVE Good(x)'
  BY <1>1, <1>4, <1>6, Untouched DEF IInv
<1>7. /\ a \subseteq DOMAIN h /\ \A i \in a : h[i] \in g.compensable
      /\ \A i \in DOMAIN h : h[i] \in g.compensable => i \in a \/ i > Len(m.completed)
  BY <1>3, Collected
<1> HIDE DEF a
<1>8. Shaped(e)' /\ Stored(e)'
  BY <1>1, <1>2, <1>3 DEF Good, Shaped, Stored, Top
<1>9. Undoing(e)'
  <2>1. Run(g, h, a, <<>>)
    BY <1>7 DEF Run, Compensates, InReverse
  <2>2. <<>> # NoRun
    BY DEF NoRun
  <2> QED BY <1>1, <1>3, <1>4, <2>1, <2>2 DEF Undoing
<1>10. ASSUME dbFailures' = 0 PROVE Synced(e)'
  <2>1. Synced(e) /\ disk[e] = m
    BY <1>1, <1>2, <1>10 DEF Good, Synced
  <2>2. ASSUME NEW i \in DOMAIN h, h[i] \in g.compensable
        PROVE  i \in a \/ (i = Len(h) /\ outcome[e] # "err")
    <3>1. Len(m.completed) \in Nat /\ Len(h) \in Nat /\ DOMAIN h = 1 .. Len(h)
      BY <1>3, StateIs
    <3>2. /\ Len(h) - Len(m.completed) <= 1
          /\ outcome[e] = "err" => Len(h) - Len(m.completed) <= 0
      <4>1. LacksAtMostOne(m, h, outcome[e])
        BY <2>1 DEF Synced
      <4>2. Len(h) - Len(m.completed) <= IF outcome[e] \in {"ok", "err"} THEN 0 ELSE 1
        BY <1>1, <4>1 DEF LacksAtMostOne
      <4> HIDE DEF h, m
      <4>3. CASE outcome[e] \in {"ok", "err"}
        BY <3>1, <4>2, <4>3
      <4>4. CASE outcome[e] \notin {"ok", "err"}
        BY <3>1, <4>2, <4>4
      <4> QED BY <4>3, <4>4
    <3>3. CASE i > Len(m.completed)
      BY <2>2, <3>1, <3>2, <3>3
    <3> QED BY <1>7, <2>2, <3>3
  <2>3. LeavesNone(g, h, outcome[e], a, <<>>)
    BY <2>2 DEF LeavesNone
  <2> QED BY <1>1, <1>3, <1>4, <2>1, <2>3 DEF Synced
<1> QED BY <1>5, <1>6, <1>8, <1>9, <1>10 DEF IInv, Good

LEMMA CompensateGood == ASSUME IInv, NEW e \in Execution, Compensate(e) PROVE IInv'
<1> DEFINE g == G(e)
           h == history[e]
           a == actions[e]
           u == undid[e]
           k == Max(a)
           b == a \ {k}
           w == Append(u, k)
<1>1. /\ a # {} /\ undid' = [undid EXCEPT ![e] = w] /\ actions' = [actions EXCEPT ![e] = b]
      /\ UNCHANGED <<graph, pc, stack, history, undone, outcome, result, mem, disk, dbFailures, crashes>>
  BY DEF Compensate, walkVars, storeVars
<1>2. Good(e)
  BY DEF IInv
<1>3. /\ h \in Seq(Nodes(g)) /\ u # NoRun /\ pc[e] = "done" /\ Run(g, h, a, u)
      /\ a \subseteq DOMAIN h /\ u \in Seq(DOMAIN h)
      /\ \A i \in a : h[i] \in g.compensable
      /\ \A i \in DOMAIN u : h[u[i]] \in g.compensable
      /\ \A i, j \in DOMAIN u : i < j => u[i] > u[j]
      /\ \A i \in DOMAIN u : \A x \in a : x < u[i]
  BY <1>1, <1>2 DEF Good, Shaped, Undoing, Run, Compensates, InReverse
<1>4. k \in a /\ \A i \in a : k >= i
  <2>1. DOMAIN h = 1 .. Len(h) /\ Len(h) \in Nat
    BY <1>3
  <2>2. a \in SUBSET (0 .. Len(h))
    BY <1>3, <2>1
  <2> QED BY <1>1, <2>1, <2>2, MaxIsGreatest
<1>5. \A i \in DOMAIN h : i \in Int
  BY <1>3
<1>6. /\ undid'[e] = w /\ actions'[e] = b /\ G(e)' = g
      /\ \A x \in Execution \ {e} : undid'[x] = undid[x] /\ actions'[x] = actions[x]
  BY <1>1 DEF IInv, Tables, G
<1>7. Tables'
  BY <1>1 DEF IInv, Tables
<1>8. ASSUME NEW x \in Execution, x # e PROVE Good(x)'
  BY <1>1, <1>6, <1>8, Untouched DEF IInv
<1>9. /\ w \in Seq(DOMAIN h) /\ Len(u) \in Nat
      /\ DOMAIN u = 1 .. Len(u) /\ DOMAIN w = 1 .. Len(u) + 1
      /\ \A i \in 1 .. Len(u) : w[i] = u[i] /\ u[i] \in DOMAIN h
      /\ w[Len(u) + 1] = k
  <2>1. k \in DOMAIN h
    BY <1>3, <1>4
  <2> HIDE DEF h, u, k
  <2>2. \A i \in 1 .. Len(u) : u[i] \in DOMAIN h
    BY <1>3
  <2> QED BY <1>3, <2>1, <2>2, Grown
<1> HIDE DEF k, w
<1>10. Shaped(e)' /\ Stored(e)'
  BY <1>1, <1>2, <1>6 DEF Good, Shaped, Stored, Top
<1>11. Undoing(e)'
  <2>1. b \subseteq DOMAIN h
    BY <1>3
  <2>2. \A i \in DOMAIN w : h[w[i]] \in g.compensable
    <3>1. ASSUME NEW i \in DOMAIN w PROVE h[w[i]] \in g.compensable
      <4>1. CASE i = Len(u) + 1
        BY <1>3, <1>4, <1>9, <4>1
      <4>2. CASE i \in DOMAIN u
        BY <1>3, <1>9, <4>2
      <4> QED BY <1>9, <4>1, <4>2
    <3> QED BY <3>1
  <2>3. ASSUME NEW i \in DOMAIN w, NEW j \in DOMAIN w, i < j PROVE w[i] > w[j]
    <3>1. CASE j = Len(u) + 1
      <4>1. i \in DOMAIN u
        BY <1>9, <2>3, <3>1
      <4>2. k < u[i] /\ w[i] = u[i] /\ w[j] = k
        BY <1>3, <1>4, <1>9, <3>1, <4>1
      <4> QED BY <1>3, <1>4, <1>5, <1>9, <4>1, <4>2
    <3>2. CASE j # Len(u) + 1
      <4>1. i \in DOMAIN u /\ j \in DOMAIN u
        BY <1>9, <2>3, <3>2
      <4> QED BY <1>3, <1>9, <2>3, <4>1
    <3> QED BY <3>1, <3>2
  <2>4. ASSUME NEW i \in DOMAIN w, NEW x \in b PROVE x < w[i]
    <3>1. CASE i = Len(u) + 1
      <4>1. x <= k /\ x # k /\ x \in Int /\ k \in Int /\ w[i] = k
        BY <1>3, <1>4, <1>5, <1>9, <3>1
      <4> QED BY <4>1
    <3>2. CASE i # Len(u) + 1
      <4>1. i \in DOMAIN u /\ w[i] = u[i]
        BY <1>9, <2>4, <3>2
      <4>2. x \in a
        BY <2>4
      <4>3. x < u[i]
        BY <1>3, <4>1, <4>2
      <4> QED BY <4>1, <4>3
    <3> QED BY <3>1, <3>2
  <2>5. Run(g, h, b, w)
    BY <1>3, <1>9, <2>1, <2>2, <2>3, <2>4 DEF Run, Compensates, InReverse
  <2>6. w # NoRun
    <3>1. w[1] \in DOMAIN h
      BY <1>3, <1>4, <1>9
    <3>2. NoRun[1] = 0 /\ 0 \notin DOMAIN h
      BY <1>3 DEF NoRun
    <3> QED BY <3>1, <3>2
  <2> QED BY <1>1, <1>3, <1>6, <2>5, <2>6 DEF Undoing
<1>12. ASSUME dbFailures' = 0 PROVE Synced(e)'
  <2>1. Synced(e) /\ LeavesNone(g, h, outcome[e], a, u)
    BY <1>1, <1>2, <1>3, <1>12 DEF Good, Synced
  <2>2. a \cup Range(u) \subseteq b \cup Range(w)
    <3>1. k \in Range(w)
      BY <1>9 DEF Range
    <3>2. ASSUME NEW i \in DOMAIN u PROVE u[i] \in Range(w)
      BY <1>9 DEF Range
    <3>3. Range(u) \subseteq Range(w)
      BY <3>2 DEF Range
    <3> QED BY <3>1, <3>3
  <2>3. LeavesNone(g, h, outcome[e], b, w)
    BY <2>1, <2>2 DEF LeavesNone
  <2> QED BY <1>1, <1>6, <2>1, <2>3 DEF Synced
<1> QED BY <1>7, <1>8, <1>10, <1>11, <1>12 DEF IInv, Good

LEMMA PurgeCompletedGood == ASSUME IInv, PurgeCompleted PROVE IInv'
<1> DEFINE ended == {e \in Execution : Known(e) /\ Terminal(mem[e])}
           Without(table) == [e \in Execution |-> IF e \in ended THEN NoState ELSE table[e]]
<1>1. /\ mem' = Without(mem)
      /\ \/ disk' = Without(disk) /\ dbFailures' = dbFailures
         \/ dbFailures < MaxDbFailures /\ dbFailures' = dbFailures + 1 /\ disk' = disk
      /\ UNCHANGED <<graph, pc, stack, history, undone, outcome, result, actions, undid, crashes>>
  BY DEF PurgeCompleted, DbWrites, walkVars, sagaVars
<1>2. dbFailures' \in 0 .. MaxDbFailures
      /\ (dbFailures' = 0 => dbFailures = 0 /\ disk' = Without(disk))
  <2>1. dbFailures \in 0 .. MaxDbFailures /\ MaxDbFailures \in Nat
    BY WorkflowAssumption DEF IInv, Tables
  <2>2. CASE dbFailures' = dbFailures /\ disk' = Without(disk)
    BY <2>1, <2>2
  <2>3. CASE dbFailures < MaxDbFailures /\ dbFailures' = dbFailures + 1
    BY <2>1, <2>3
  <2> QED BY <1>1, <2>2, <2>3
<1>3. Tables'
  <2>1. disk' = [x \in Execution |-> disk'[x]]
    BY <1>1 DEF IInv, Tables
  <2>2. mem' = [x \in Execution |-> mem'[x]]
    BY <1>1
  <2> QED BY <1>1, <1>2, <2>1, <2>2 DEF IInv, Tables
<1>4. ASSUME NEW e \in Execution, e \notin ended PROVE Good(e)'
  <2>1. mem'[e] = mem[e] /\ disk'[e] = disk[e]
    BY <1>1, <1>4
  <2> QED BY <1>1, <1>2, <2>1, Untouched DEF IInv
<1>5. ASSUME NEW e \in ended PROVE Good(e)'
  <2>1. /\ Good(e) /\ e \in Execution /\ mem[e] # NoState /\ mem[e].status \in {"Completed", "Failed"}
        /\ G(e)' = G(e)
    BY <1>1 DEF IInv, Known, Terminal, G
  <2>2. mem'[e] = NoState /\ disk'[e] \in {disk[e], NoState}
        /\ (dbFailures' = 0 => disk'[e] = NoState)
    BY <1>1, <1>2, <2>1
  <2>3. pc[e] = "done"
    BY <2>1 DEF Good, Shaped, Stored, EndsAs
  <2>4. Shaped(e)'
    BY <1>1, <2>1 DEF Good, Shaped, Top
  <2>5. Stored(e)'
    <3>1. EndsAs(NoState, outcome[e])
      BY DEF EndsAs, NoState
    <3> QED BY <1>1, <2>1, <2>2, <2>3, <3>1 DEF Good, Stored, Idle
  <2>6. Undoing(e)'
    BY <1>1, <2>1 DEF Good, Undoing
  <2>7. ASSUME dbFailures' = 0 PROVE Synced(e)'
    <3>1. Synced(e)
      BY <1>2, <2>1, <2>7 DEF Good
    <3>2. LacksAtMostOne(NoState, history[e], outcome[e])
      BY DEF LacksAtMostOne
    <3> QED BY <1>1, <2>1, <2>2, <2>7, <3>1, <3>2 DEF Synced
  <2> QED BY <2>4, <2>5, <2>6, <2>7 DEF Good
<1> HIDE DEF ended
<1> QED BY <1>3, <1>4, <1>5 DEF IInv

LEMMA RestartGood == ASSUME IInv, Restart PROVE IInv'
<1> DEFINE cut == {e \in Execution : pc[e] \notin {"new", "done"} \/ outcome[e] = "dropped"}
<1>1. /\ crashes < MaxCrashes /\ crashes' = crashes + 1
      /\ pc' = [e \in Execution |-> IF e \in cut THEN "done" ELSE pc[e]]
      /\ outcome' = [e \in Execution |-> IF e \in cut THEN "lost" ELSE outcome[e]]
      /\ stack' = [e \in Execution |-> <<>>]
      /\ actions' = [e \in Execution |-> {}] /\ undid' = [e \in Execution |-> NoRun]
      /\ UNCHANGED <<graph, history, undone, result, disk, dbFailures>>
  BY DEF Restart
<1>2. PICK recovers \in BOOLEAN : mem' = [e \in Execution |-> IF recovers THEN disk[e] ELSE NoState]
  BY DEF Restart
<1>3. crashes' \in 0 .. MaxCrashes /\ crashes' > 0
  BY <1>1, WorkflowAssumption DEF IInv, Tables
<1>4. Tables'
  <2>1. /\ pc' = [e \in Execution |-> pc'[e]] /\ outcome' = [e \in Execution |-> outcome'[e]]
        /\ stack' = [e \in Execution |-> stack'[e]] /\ actions' = [e \in Execution |-> actions'[e]]
        /\ mem' = [e \in Execution |-> mem'[e]] /\ undid' = [e \in Execution |-> undid'[e]]
    BY <1>1, <1>2
  <2> QED BY <1>1, <1>3, <2>1 DEF IInv, Tables
<1>5. ASSUME NEW e \in Execution PROVE Good(e)'
  <2> DEFINE o == outcome'[e]
  <2>1. Good(e) /\ G(e)' = G(e)
    BY <1>1 DEF IInv, G
  <2>2. /\ mem'[e] \in {disk[e], NoState} /\ stack'[e] = <<>> /\ actions'[e] = {} /\ undid'[e] = NoRun
    BY <1>1, <1>2
  <2>3. /\ pc'[e] = (IF e \in cut THEN "done" ELSE pc[e]) /\ o = (IF e \in cut THEN "lost" ELSE outcome[e])
    BY <1>1
  <2>4. e \in cut => outcome[e] \in {"none", "dropped"}
    BY <2>1 DEF Good, Shaped
  <2>5. pc'[e] \in Idle /\ ((o = "none") <=> (pc'[e] # "done"))
        /\ o \in Outcomes /\ (pc'[e] = "new" => pc[e] = "new")
    BY <2>1, <2>3 DEF Good, Shaped, Idle, Outcomes
  <2>6. EndsAs(disk[e], o) /\ EndsAs(NoState, o)
    <3>1. EndsAs(disk[e], outcome[e])
      BY <2>1 DEF Good, Stored
    <3>2. EndsAs(disk[e], o)
      BY <2>3, <2>4, <3>1, NoEndYet
    <3> QED BY <3>2 DEF EndsAs, NoState
  <2> HIDE DEF o, cut
  <2>7. Shaped(e)'
    <3>1. Stacked(SoundFrames(G(e), history[e]), <<>>, pc'[e])
      BY <2>5, EmptyStack
    <3> QED BY <1>1, <1>3, <2>1, <2>2, <2>5, <3>1 DEF Good, Shaped, Labels, Idle, o
  <2>8. Stored(e)'
    BY <1>1, <2>1, <2>2, <2>5, <2>6 DEF Good, Stored, o
  <2>9. Undoing(e)'
    BY <2>2 DEF Undoing
  <2>10. ASSUME dbFailures' = 0 PROVE Synced(e)'
    <3>1. Synced(e)
      BY <1>1, <2>1, <2>10 DEF Good
    <3>2. LacksAtMostOne(disk[e], history[e], o)
      BY <2>3, <2>4, <3>1 DEF Synced, LacksAtMostOne
    <3> QED BY <1>1, <2>2, <3>2 DEF Synced, o
  <2> QED BY <1>3, <2>7, <2>8, <2>9, <2>10 DEF Good
<1> QED BY <1>4, <1>5 DEF IInv

-----------------------------------------------------------------------------
(* The theorems.                                                           *)

LEMMA NextGood == ASSUME IInv, [Next]_vars PROVE IInv'
<1>1. CASE UNCHANGED vars
  <2>1. /\ UNCHANGED <<graph, pc, outcome, stack, history, undone, mem, disk, actions, undid>>
        /\ UNCHANGED <<dbFailures, crashes>>
    BY <1>1 DEF vars, walkVars, storeVars, sagaVars
  <2>2. ASSUME NEW x \in Execution PROVE Good(x)'
    BY <2>1, Untouched DEF IInv
  <2>3. Tables'
    BY <2>1 DEF IInv, Tables
  <2> QED BY <2>2, <2>3 DEF IInv
<1>2. ASSUME NEW e \in Execution, Walk(e) PROVE IInv'
  BY <1>2, TooManyStepsGood, PassGood, PerformGood, CheckpointGood, AdvanceGood, StopGood, ChooseGood,
     EnterLoopGood, TurnGood, LeaveLoopGood, EnterBoundaryGood, ForkGood, LoopReturnsGood,
     BoundaryReturnsGood, ForkReturnsGood, UnwindGood, CatchGood, FinishGood DEF Walk
<1>3. ASSUME NEW e \in Execution,
             Begin(e) \/ Drop(e) \/ SetCompensating(e) \/ Collect(e) \/ Compensate(e)
      PROVE  IInv'
  BY <1>3, BeginGood, DropGood, SetCompensatingGood, CollectGood, CompensateGood
<1> QED BY <1>1, <1>2, <1>3, PurgeCompletedGood, RestartGood DEF Next

LEMMA AlwaysGood == Spec => []IInv
BY InitGood, NextGood, PTL DEF Spec

LEMMA TrueVarsBound ==
  ASSUME NEW g, NEW h, NEW v \in TrueVars(g, h)
  PROVE  v \in [Nodes(g) -> 0 .. Len(h)]
BY DEF TrueVars

\* What is on record has the shape of a state, and names places of the history only.
LEMMA TrueStateIs ==
  ASSUME NEW g, NEW h \in Seq(Nodes(g)), NEW s \in TrueStates(g, h)
  PROVE  /\ s \in [status : {"Running", "Completed", "Failed", "Compensating"},
                   completed : Seq(Nodes(g)), vars : [Nodes(g) -> 0 .. Len(h)]]
         /\ IsPrefix(s.completed, h)
         /\ \A n \in Nodes(g) : s.vars[n] # 0 => /\ s.vars[n] <= Len(s.completed)
                                                 /\ s.completed[s.vars[n]] = n
<1>1. /\ s \in [status : {"Running", "Completed", "Failed", "Compensating"},
                completed : Seq(Nodes(g)), vars : [Nodes(g) -> Nat]]
      /\ IsPrefix(s.completed, h) /\ s.vars \in TrueVars(g, s.completed)
  BY StateIs
<1>2. Len(s.completed) <= Len(h) /\ Len(s.completed) \in Nat /\ Len(h) \in Nat
  BY <1>1, PrefixIs
<1>3. /\ s.vars \in [Nodes(g) -> 0 .. Len(s.completed)]
      /\ \A n \in Nodes(g) : s.vars[n] # 0 => s.completed[s.vars[n]] = n
  BY <1>1 DEF TrueVars
<1>4. s.vars \in [Nodes(g) -> 0 .. Len(h)]
  BY <1>2, <1>3
<1>5. \A n \in Nodes(g) : s.vars[n] <= Len(s.completed)
  BY <1>2, <1>3
<1>6. s \in [status : {"Running", "Completed", "Failed", "Compensating"},
             completed : Seq(Nodes(g)), vars : [Nodes(g) -> 0 .. Len(h)]]
  BY <1>1, <1>4
<1> QED BY <1>1, <1>3, <1>5, <1>6

\* Whatever the charts, the walks, the failures and the crashes are: frames are at
\* nodes of their graph and wait for the call that is above them, a handler finds
\* the frame it expects, and states on record are of activities performed.
THEOREM WorkflowTypeCorrect == Spec => []TypeOK
<1>1. ASSUME IInv PROVE TypeOK
  <2>1. /\ graph \in [Execution -> Name] /\ pc \in [Execution -> Labels]
        /\ outcome \in [Execution -> Outcomes]
    <3>1. \A e \in Execution : graph[e] \in Name /\ pc[e] \in Labels /\ outcome[e] \in Outcomes
      BY <1>1 DEF IInv, Good, Shaped
    <3> QED BY <1>1, <3>1 DEF IInv, Tables
  <2>2. ASSUME NEW e \in Execution
        PROVE  /\ (stack[e] = <<>>) <=> (pc[e] \in {"new", "done"})
               /\ stack[e] \in Seq(Frames(e))
               /\ \A k \in DOMAIN stack[e] :
                    /\ FrameOK(e, stack[e][k])
                    /\ (stack[e][k].wait = "none") <=> (k = Len(stack[e]) /\ pc[e] # "turn")
               /\ history[e] \in Seq(Nodes(G(e))) /\ undone[e] \subseteq DOMAIN history[e]
               /\ {mem[e], disk[e]} \subseteq States(e) \cup {NoState}
               /\ actions[e] \subseteq DOMAIN history[e]
               /\ undid[e] \in Seq(DOMAIN history[e]) \cup {NoRun}
    <3>1. Good(e)
      BY <1>1 DEF IInv
    <3> DEFINE F == SoundFrames(G(e), history[e])
    <3>2. ASSUME NEW f \in F PROVE f \in Frames(e) /\ FrameOK(e, f)
      <4>1. TrueVars(G(e), history[e]) \subseteq Binding(e)
        BY TrueVarsBound DEF Binding
      <4>2. f \in FrameShape(G(e), history[e])
        BY DEF SoundFrames
      <4>3. f \in Frames(e)
        BY <4>1, <4>2 DEF FrameShape, Frames
      <4>4. FrameOK(e, f)
        BY <4>1 DEF FrameOK, SoundFrames
      <4> QED BY <4>3, <4>4
    <3>3. Stacked(F, stack[e], pc[e])
      BY <3>1 DEF Good, Shaped
    <3> HIDE DEF F
    <3>4. /\ stack[e] \in Seq(F) /\ DOMAIN stack[e] = 1 .. Len(stack[e])
          /\ (stack[e] = <<>>) <=> (pc[e] \in {"new", "done"})
          /\ \A k \in 1 .. Len(stack[e]) :
               (stack[e][k].wait = "none") <=> (k = Len(stack[e]) /\ pc[e] # "turn")
      BY <3>3 DEF Stacked
    <3>5. F \subseteq Frames(e) /\ \A k \in DOMAIN stack[e] : stack[e][k] \in F
      BY <3>2, <3>4
    <3>6. stack[e] \in Seq(Frames(e)) /\ \A k \in DOMAIN stack[e] : FrameOK(e, stack[e][k])
      BY <3>2, <3>4, <3>5, SeqMonotonic
    <3>7. history[e] \in Seq(Nodes(G(e))) /\ undone[e] \subseteq DOMAIN history[e]
      BY <3>1 DEF Good, Shaped
    <3>8. {mem[e], disk[e]} \subseteq States(e) \cup {NoState}
      <4>1. TrueStates(G(e), history[e]) \subseteq States(e)
        BY <3>7, TrueStateIs DEF States, Binding
      <4> QED BY <3>1, <4>1 DEF Good, Stored
    <3>9. /\ actions[e] \subseteq DOMAIN history[e]
          /\ undid[e] \in Seq(DOMAIN history[e]) \cup {NoRun}
      BY <3>1 DEF Good, Undoing, Run
    <3> QED BY <3>4, <3>6, <3>7, <3>8, <3>9
  <2>3. crashes \in 0 .. MaxCrashes /\ dbFailures \in 0 .. MaxDbFailures
    BY <1>1 DEF IInv, Tables
  <2> QED BY <2>1, <2>2, <2>3 DEF TypeOK, Labels, Outcomes
<1> QED BY <1>1, AlwaysGood, PTL

\* What the database says of an execution is true of it, whatever transactions
\* failed and wherever the process died.
THEOREM TheDatabaseIsTruthful == Spec => []DiskTruthful
<1>1. ASSUME IInv, NEW e \in Execution, disk[e] # NoState
      PROVE  /\ IsPrefix(disk[e].completed, history[e])
             /\ \A n \in Nodes(G(e)) :
                  disk[e].vars[n] # 0 => /\ disk[e].vars[n] <= Len(disk[e].completed)
                                         /\ disk[e].completed[disk[e].vars[n]] = n
             /\ EndsAs(disk[e], outcome[e])
  <2>1. /\ disk[e] \in TrueStates(G(e), history[e]) /\ history[e] \in Seq(Nodes(G(e)))
        /\ EndsAs(disk[e], outcome[e])
    BY <1>1 DEF IInv, Good, Stored, Shaped
  <2> QED BY <2>1, TrueStateIs
<1>2. IInv => DiskTruthful
  BY <1>1 DEF DiskTruthful, EndsAs
<1> QED BY <1>2, AlwaysGood, PTL

\* As long as the database has accepted its writes, the record of an execution
\* lacks one activity at most, none once the caller has an answer, and an execution
\* with an answer is not found running.
THEOREM AtMostOneIsLost == Spec => []LosesAtMostOne
<1>1. IInv => LosesAtMostOne
  BY DEF IInv, Good, Synced, LacksAtMostOne, LosesAtMostOne
<1> QED BY <1>1, AlwaysGood, PTL

\* Every run of compensation, the first or a later one, undoes performed activities
\* that have a compensation, each once and in reverse; and while no write has failed
\* it leaves none standing but the last activity of an execution that was cut off,
\* whose checkpoint may be missing (saga.rs 22-86, durability.rs 142-200).
THEOREM CompensationIsReverseAndWhole == Spec => []CompensatedInReverse
<1>1. ASSUME IInv, NEW e \in Execution, undid[e] # NoRun
      PROVE  /\ \A i \in DOMAIN undid[e] : history[e][undid[e][i]] \in G(e).compensable
             /\ \A i, j \in DOMAIN undid[e] : i < j => undid[e][i] > undid[e][j]
             /\ (actions[e] = {} /\ dbFailures = 0) =>
                  \A i \in DOMAIN history[e] : history[e][i] \in G(e).compensable =>
                    i \in Range(undid[e]) \/ (i = Len(history[e]) /\ outcome[e] # "err")
  <2>1. Good(e)
    BY <1>1 DEF IInv
  <2>2. /\ \A i \in DOMAIN undid[e] : history[e][undid[e][i]] \in G(e).compensable
        /\ \A i, j \in DOMAIN undid[e] : i < j => undid[e][i] > undid[e][j]
    BY <1>1, <2>1 DEF Good, Undoing, Run, Compensates, InReverse
  <2>3. ASSUME actions[e] = {}, dbFailures = 0
        PROVE  \A i \in DOMAIN history[e] : history[e][i] \in G(e).compensable =>
                 i \in Range(undid[e]) \/ (i = Len(history[e]) /\ outcome[e] # "err")
    BY <1>1, <2>1, <2>3 DEF Good, Synced, LeavesNone
  <2> QED BY <2>2, <2>3
<1>2. IInv => CompensatedInReverse
  BY <1>1 DEF CompensatedInReverse
<1> QED BY <1>2, AlwaysGood, PTL

-----------------------------------------------------------------------------
(* What an execution that ends well answers.  A fork walks its branches    *)
(* from the variables it began with and lays theirs over each other, so an *)
(* old value in the copy of one branch hides a new one that another branch *)
(* has set: what is claimed of an activity is claimed of charts that do    *)
(* not fork, and of activities that were performed once.                   *)

PerformedOnce(h, n) == \A i, j \in DOMAIN h : h[i] = n /\ h[j] = n => i = j
Steady(g, h, n) == Straight(g) \/ PerformedOnce(h, n)

\* The performances of n that no boundary took back.
Standing(h, U, n) == {i \in DOMAIN h \ U : h[i] = n}

\* A fork below has merged i or a later one; so that the frame f on top of b will
\* answer, in the end, with i or a later one.
Beneath(b, n, i) == \E j \in 1 .. Len(b) : b[j].wait = "fork" /\ b[j].merged[n] >= i
Knows(b, f, n, i) == f.vars[n] >= i \/ Beneath(b, n, i)
UpToDate(h, U, n, b, f) == \A i \in Standing(h, U, n) : Knows(b, f, n, i)

Within(f, n, mark) == f.vars[n] <= mark /\ (f.wait = "fork" => f.merged[n] <= mark)

\* A frame names nothing that was taken back; what a boundary goes back to on an
\* error was up to date when it was entered.
Tidy(s, h, U, n, b, f) ==
  /\ f.vars[n] \notin U
  /\ f.wait = "fork" => ~s /\ f.merged[n] \notin U
  /\ f.wait = "body" =>
       /\ Within(f, n, f.mark) /\ \A j \in 1 .. Len(b) : Within(b[j], n, f.mark)
       /\ \A i \in Standing(h, U, n) : i <= f.mark => Knows(b, f, n, i)
AllTidy(s, h, U, n, st) == \A k \in 1 .. Len(st) : Tidy(s, h, U, n, SubSeq(st, 1, k - 1), st[k])

Ended == {"new", "done", "error"}
Remembered(s, h, U, n, st, label) ==
  /\ AllTidy(s, h, U, n, st)
  /\ label \notin Ended => UpToDate(h, U, n, Front(st), Last(st))

Latest(h, U, n) == Max({0} \cup Standing(h, U, n))

Answers(e) ==
  \A n \in Nodes(G(e)) : Steady(G(e), history[e], n) =>
    /\ Remembered(Straight(G(e)), history[e], undone[e], n, stack[e], pc[e])
    /\ outcome[e] = "ok" => result[e][n] = Latest(history[e], undone[e], n)

Remembering == result = [e \in Execution |-> result[e]] /\ \A e \in Execution : Answers(e)

LEMMA FrontAppended ==
  ASSUME NEW F, NEW b \in Seq(F), NEW f \in F
  PROVE  Front(Append(b, f)) = b /\ Last(Append(b, f)) = f
<1>1. /\ Append(b, f) \in Seq(F) /\ Append(b, f) # <<>> /\ Len(Append(b, f)) = Len(b) + 1
      /\ \A k \in 1 .. Len(b) : Append(b, f)[k] = b[k]
      /\ Append(b, f)[Len(b) + 1] = f /\ Len(b) \in Nat
  OBVIOUS
<1>2. PICK w : w = Append(b, f)
  OBVIOUS
<1>3. /\ Front(w) \in Seq(F) /\ Len(Front(w)) = Len(b)
      /\ \A k \in 1 .. Len(b) : Front(w)[k] = w[k]
      /\ Last(w) = w[Len(b) + 1]
  <2>1. /\ w \in Seq(F) /\ w # <<>> /\ Len(w) = Len(b) + 1
    BY <1>1, <1>2
  <2>2. /\ Front(w) \in Seq(F) /\ Len(Front(w)) = Len(w) - 1
        /\ \A k \in 1 .. Len(w) - 1 : Front(w)[k] = w[k]
        /\ Last(w) = w[Len(w)]
    BY <2>1, FrontIs
  <2> QED BY <1>1, <2>1, <2>2
<1>4. \A k \in 1 .. Len(b) : Front(w)[k] = b[k]
  BY <1>1, <1>2, <1>3
<1>5. Front(w) = b
  <2>1. PICK x \in Seq(F) : x = Front(w)
    BY <1>3
  <2>2. Len(x) = Len(b) /\ \A k \in 1 .. Len(b) : x[k] = b[k]
    BY <1>3, <1>4, <2>1
  <2>3. x = b
    BY <2>2, SeqEqual
  <2> QED BY <2>1, <2>3
<1> QED BY <1>1, <1>2, <1>3, <1>5

LEMMA FrontThenLast ==
  ASSUME NEW F, NEW st \in Seq(F), st # <<>>
  PROVE  st = Append(Front(st), Last(st))
<1>1. /\ Front(st) \in Seq(F) /\ Len(Front(st)) = Len(st) - 1 /\ Len(st) \in Nat \ {0}
      /\ \A k \in 1 .. Len(st) - 1 : Front(st)[k] = st[k]
      /\ Last(st) = st[Len(st)] /\ Last(st) \in F
  BY FrontIs
<1>2. PICK b \in Seq(F), f \in F : b = Front(st) /\ f = Last(st)
  BY <1>1
<1>3. /\ Append(b, f) \in Seq(F) /\ Len(Append(b, f)) = Len(st)
      /\ \A k \in 1 .. Len(st) - 1 : Append(b, f)[k] = b[k]
      /\ Append(b, f)[Len(st)] = f
  <2>1. Len(b) = Len(st) - 1 /\ Len(b) + 1 = Len(st)
    BY <1>1, <1>2
  <2>2. /\ Append(b, f) \in Seq(F) /\ Len(Append(b, f)) = Len(b) + 1
        /\ \A k \in 1 .. Len(b) : Append(b, f)[k] = b[k]
        /\ Append(b, f)[Len(b) + 1] = f
    OBVIOUS
  <2> QED BY <2>1, <2>2
<1>4. \A k \in 1 .. Len(st) : Append(b, f)[k] = st[k]
  <2> SUFFICES ASSUME NEW k \in 1 .. Len(st) PROVE Append(b, f)[k] = st[k]
    OBVIOUS
  <2>1. CASE k = Len(st)
    BY <1>1, <1>2, <1>3, <2>1
  <2>2. CASE k \in 1 .. Len(st) - 1
    BY <1>1, <1>2, <1>3, <2>2
  <2>3. k = Len(st) \/ k \in 1 .. Len(st) - 1
    BY <1>1
  <2> QED BY <2>1, <2>2, <2>3
<1>5. Append(b, f) = st
  BY <1>3, <1>4, SeqEqual
<1> QED BY <1>2, <1>5

LEMMA Bottoms ==
  ASSUME NEW F, NEW b \in Seq(F), NEW f \in F
  PROVE  /\ \A k \in 1 .. Len(b) : SubSeq(Append(b, f), 1, k - 1) = SubSeq(b, 1, k - 1)
         /\ SubSeq(Append(b, f), 1, Len(b) + 1 - 1) = b
<1>1. /\ Append(b, f) \in Seq(F) /\ Len(Append(b, f)) = Len(b) + 1 /\ Len(b) \in Nat
      /\ \A k \in 1 .. Len(b) : Append(b, f)[k] = b[k]
  OBVIOUS
<1>2. PICK w \in Seq(F) : w = Append(b, f)
  BY <1>1
<1>3. ASSUME NEW m \in 0 .. Len(b)
      PROVE  /\ SubSeq(w, 1, m) \in Seq(F) /\ SubSeq(b, 1, m) \in Seq(F)
             /\ Len(SubSeq(w, 1, m)) = m /\ Len(SubSeq(b, 1, m)) = m
             /\ \A j \in 1 .. m : SubSeq(w, 1, m)[j] = b[j] /\ SubSeq(b, 1, m)[j] = b[j]
  <2>1. \A j \in 1 .. m : j \in 1 .. Len(b) /\ j \in 1 .. Len(w) /\ w[j] = b[j] /\ b[j] \in F /\ w[j] \in F
    BY <1>1, <1>2
  <2> QED BY <1>1, <1>2, <1>3, <2>1
<1>4. ASSUME NEW m \in 0 .. Len(b)
      PROVE  SubSeq(w, 1, m) = SubSeq(b, 1, m) /\ (m = Len(b) => SubSeq(w, 1, m) = b)
  <2>1. PICK x \in Seq(F), y \in Seq(F) : x = SubSeq(w, 1, m) /\ y = SubSeq(b, 1, m)
    BY <1>3
  <2>2. Len(x) = m /\ Len(y) = m /\ \A j \in 1 .. m : x[j] = b[j] /\ y[j] = b[j]
    BY <1>3, <2>1
  <2>3. x = y
    BY <2>2, SeqEqual
  <2>4. m = Len(b) => x = b
    BY <2>2, SeqEqual
  <2> QED BY <2>1, <2>3, <2>4
<1>5. \A k \in 1 .. Len(b) : k - 1 \in 0 .. Len(b)
  BY <1>1
<1>6. Len(b) + 1 - 1 = Len(b) /\ Len(b) \in 0 .. Len(b)
  BY <1>1
<1>7. SubSeq(w, 1, Len(b)) = b
  BY <1>4, <1>6
<1> QED BY <1>2, <1>4, <1>5, <1>6, <1>7

\* A frame put on top of tidy ones, and taken off them.
LEMMA TidyAppend ==
  ASSUME NEW F, NEW b \in Seq(F), NEW f \in F, NEW s, NEW h, NEW U, NEW n
  PROVE  AllTidy(s, h, U, n, Append(b, f)) <=> AllTidy(s, h, U, n, b) /\ Tidy(s, h, U, n, b, f)
<1>1. /\ Len(Append(b, f)) = Len(b) + 1 /\ Len(b) \in Nat
      /\ \A k \in 1 .. Len(b) : Append(b, f)[k] = b[k]
      /\ Append(b, f)[Len(b) + 1] = f
  OBVIOUS
<1>2. PICK w : w = Append(b, f)
  OBVIOUS
<1>3. ASSUME NEW k \in 1 .. Len(b)
      PROVE  Tidy(s, h, U, n, SubSeq(w, 1, k - 1), w[k]) <=> Tidy(s, h, U, n, SubSeq(b, 1, k - 1), b[k])
  <2>1. SubSeq(w, 1, k - 1) = SubSeq(b, 1, k - 1) /\ w[k] = b[k]
    BY <1>1, <1>2, Bottoms
  <2> QED BY <2>1
<1>4. Tidy(s, h, U, n, SubSeq(w, 1, Len(b) + 1 - 1), w[Len(b) + 1]) <=> Tidy(s, h, U, n, b, f)
  <2>1. SubSeq(w, 1, Len(b) + 1 - 1) = b /\ w[Len(b) + 1] = f
    BY <1>1, <1>2, Bottoms
  <2> QED BY <2>1
<1>5. 1 .. Len(w) = (1 .. Len(b)) \cup {Len(b) + 1}
  BY <1>1, <1>2
<1>6. AllTidy(s, h, U, n, w) <=> AllTidy(s, h, U, n, b) /\ Tidy(s, h, U, n, b, f)
  BY <1>3, <1>4, <1>5 DEF AllTidy
<1> QED BY <1>2, <1>6

LEMMA BeneathAppend ==
  ASSUME NEW F, NEW b \in Seq(F), NEW f \in F, NEW n, NEW i
  PROVE  Beneath(Append(b, f), n, i) <=> Beneath(b, n, i) \/ (f.wait = "fork" /\ f.merged[n] >= i)
<1>1. /\ Len(Append(b, f)) = Len(b) + 1 /\ Len(b) \in Nat
      /\ \A k \in 1 .. Len(b) : Append(b, f)[k] = b[k]
      /\ Append(b, f)[Len(b) + 1] = f
  OBVIOUS
<1>2. PICK w : w = Append(b, f)
  OBVIOUS
<1>3. 1 .. Len(w) = (1 .. Len(b)) \cup {Len(b) + 1}
  BY <1>1, <1>2
<1>4. Beneath(w, n, i) <=> Beneath(b, n, i) \/ (f.wait = "fork" /\ f.merged[n] >= i)
  BY <1>1, <1>2, <1>3 DEF Beneath
<1> QED BY <1>2, <1>4

\* The innermost two frames of a stack, as they are remembered.
LEMMA TopTidy ==
  ASSUME NEW F, NEW st \in Seq(F), st # <<>>, NEW s, NEW h, NEW U, NEW n, AllTidy(s, h, U, n, st)
  PROVE  /\ Front(st) \in Seq(F) /\ Last(st) \in F
         /\ AllTidy(s, h, U, n, Front(st)) /\ Tidy(s, h, U, n, Front(st), Last(st))
<1>1. st = Append(Front(st), Last(st)) /\ Front(st) \in Seq(F) /\ Last(st) \in F
  BY FrontThenLast, FrontIs
<1>2. PICK b \in Seq(F), f \in F : b = Front(st) /\ f = Last(st)
  BY <1>1
<1>3. AllTidy(s, h, U, n, Append(b, f))
  BY <1>1, <1>2
<1>4. AllTidy(s, h, U, n, b) /\ Tidy(s, h, U, n, b, f)
  BY <1>3, TidyAppend
<1> QED BY <1>2, <1>4

LEMMA PlainIsTidy ==
  ASSUME NEW s, NEW h, NEW U, NEW n, NEW b, NEW f, f.wait \in {"none", "loop"}, f.vars[n] \notin U
  PROVE  Tidy(s, h, U, n, b, f)
BY DEF Tidy

LEMMA RememberedBy ==
  ASSUME NEW F, NEW b \in Seq(F), NEW f \in F, NEW s, NEW h, NEW U, NEW n, NEW m,
         AllTidy(s, h, U, n, b), Tidy(s, h, U, n, b, f), m \notin Ended => UpToDate(h, U, n, b, f)
  PROVE  Remembered(s, h, U, n, Append(b, f), m)
BY TidyAppend, FrontAppended DEF Remembered

\* The innermost frame goes on with the variables it has.
LEMMA SetRemembered ==
  ASSUME NEW F, NEW st \in Seq(F), st # <<>>, NEW s, NEW h, NEW U, NEW n, NEW l, NEW m,
         Remembered(s, h, U, n, st, l), m \notin Ended => l \notin Ended,
         NEW f \in F, f.wait \in {"none", "loop"}, f.vars[n] = Last(st).vars[n]
  PROVE  Remembered(s, h, U, n, Append(Front(st), f), m)
<1>1. PICK b \in Seq(F), t \in F : b = Front(st) /\ t = Last(st)
  BY FrontIs
<1>2. AllTidy(s, h, U, n, b) /\ Tidy(s, h, U, n, b, t)
  BY <1>1, TopTidy DEF Remembered
<1>3. Tidy(s, h, U, n, b, f)
  <2>1. f.vars[n] \notin U
    BY <1>1, <1>2 DEF Tidy
  <2> QED BY <2>1, PlainIsTidy
<1>4. m \notin Ended => UpToDate(h, U, n, b, f)
  BY <1>1 DEF Remembered, UpToDate, Knows
<1>5. Remembered(s, h, U, n, Append(b, f), m)
  BY <1>2, <1>3, <1>4, RememberedBy
<1> QED BY <1>1, <1>5

\* It calls, and the callee begins with these variables.
LEMMA CallRemembered ==
  ASSUME NEW F, NEW st \in Seq(F), st # <<>>, NEW s, NEW h, NEW U, NEW n, NEW l,
         Remembered(s, h, U, n, st, l), l \notin Ended,
         NEW f \in F, NEW c \in F, f.vars[n] = Last(st).vars[n],
         c.vars[n] = f.vars[n], c.wait = "none",
         f.wait # "loop" => Tidy(s, h, U, n, Front(st), f), f.wait \in {"loop", "body", "fork"}
  PROVE  Remembered(s, h, U, n, Append(Front(st), f) \o <<c>>, "walk")
<1>1. PICK b \in Seq(F), t \in F : b = Front(st) /\ t = Last(st)
  BY FrontIs
<1>2. AllTidy(s, h, U, n, b) /\ Tidy(s, h, U, n, b, t)
  BY <1>1, TopTidy DEF Remembered
<1>3. f.vars[n] \notin U /\ c.vars[n] \notin U
  BY <1>1, <1>2 DEF Tidy
<1>4. Tidy(s, h, U, n, b, f)
  BY <1>1, <1>3, PlainIsTidy
<1>5. Append(b, f) \in Seq(F)
  OBVIOUS
<1>6. AllTidy(s, h, U, n, Append(b, f))
  BY <1>2, <1>4, TidyAppend
<1>7. UpToDate(h, U, n, Append(b, f), c)
  <2>1. UpToDate(h, U, n, b, t)
    BY <1>1 DEF Remembered
  <2>2. \A i : Beneath(b, n, i) => Beneath(Append(b, f), n, i)
    BY BeneathAppend
  <2> QED BY <1>1, <2>1, <2>2 DEF UpToDate, Knows
<1>8. PICK a \in Seq(F) : a = Append(b, f)
  BY <1>5
<1>9. Tidy(s, h, U, n, a, c)
  BY <1>3, PlainIsTidy
<1>10. Remembered(s, h, U, n, Append(a, c), "walk")
  BY <1>6, <1>7, <1>8, <1>9, RememberedBy
<1>11. a \o <<c>> = Append(a, c)
  BY AppendIsConcat
<1> QED BY <1>1, <1>8, <1>10, <1>11

\* What the two innermost frames are when there are two.
LEMMA TwoTidy ==
  ASSUME NEW F, NEW st \in Seq(F), Len(st) > 1, NEW s, NEW h, NEW U, NEW n, AllTidy(s, h, U, n, st)
  PROVE  \E b \in Seq(F), c \in F, t \in F :
           /\ b = Front(Front(st)) /\ c = st[Len(st) - 1] /\ t = Last(st) /\ Front(st) = Append(b, c)
           /\ AllTidy(s, h, U, n, b) /\ Tidy(s, h, U, n, b, c) /\ Tidy(s, h, U, n, Append(b, c), t)
<1>1. st # <<>> /\ Len(st) \in Nat
  OBVIOUS
<1>2. PICK a \in Seq(F), t \in F : a = Front(st) /\ t = Last(st)
  BY <1>1, FrontIs
<1>3. Len(a) = Len(st) - 1 /\ a[Len(st) - 1] = st[Len(st) - 1]
  BY <1>1, <1>2, FrontIs
<1>4. a # <<>>
  BY <1>1, <1>3
<1>5. AllTidy(s, h, U, n, a) /\ Tidy(s, h, U, n, a, t)
  BY <1>1, <1>2, TopTidy
<1>6. PICK b \in Seq(F), c \in F : b = Front(a) /\ c = Last(a) /\ a = Append(b, c)
  BY <1>4, FrontIs, FrontThenLast
<1>7. c = st[Len(st) - 1]
  BY <1>3, <1>6 DEF Last
<1>8. AllTidy(s, h, U, n, b) /\ Tidy(s, h, U, n, b, c)
  BY <1>4, <1>5, <1>6, TopTidy
<1> QED BY <1>2, <1>5, <1>6, <1>7, <1>8

\* A loop or a boundary takes the variables of its body, ...
LEMMA ReturnRemembered ==
  ASSUME NEW F, NEW st \in Seq(F), Len(st) > 1, NEW s, NEW h, NEW U, NEW n, NEW l, NEW m,
         Remembered(s, h, U, n, st, l), l \notin Ended, st[Len(st) - 1].wait # "fork",
         NEW f \in F, f.wait \in {"none", "loop"}, f.vars[n] = Last(st).vars[n]
  PROVE  Remembered(s, h, U, n, Append(Front(Front(st)), f), m)
<1>1. PICK b \in Seq(F), c \in F, t \in F :
        /\ b = Front(Front(st)) /\ c = st[Len(st) - 1] /\ t = Last(st) /\ Front(st) = Append(b, c)
        /\ AllTidy(s, h, U, n, b) /\ Tidy(s, h, U, n, b, c) /\ Tidy(s, h, U, n, Append(b, c), t)
  BY TwoTidy DEF Remembered
<1>2. Tidy(s, h, U, n, b, f)
  <2>1. f.vars[n] \notin U
    BY <1>1 DEF Tidy
  <2> QED BY <2>1, PlainIsTidy
<1>3. UpToDate(h, U, n, b, f)
  <2>1. UpToDate(h, U, n, Append(b, c), t)
    BY <1>1 DEF Remembered
  <2>2. \A i : Beneath(Append(b, c), n, i) => Beneath(b, n, i)
    BY <1>1, BeneathAppend
  <2> QED BY <1>1, <2>1, <2>2 DEF UpToDate, Knows
<1>4. Remembered(s, h, U, n, Append(b, f), m)
  BY <1>1, <1>2, <1>3, RememberedBy
<1> QED BY <1>1, <1>4

\* ... an error leaves it its own, ...
LEMMA FailRemembered ==
  ASSUME NEW F, NEW st \in Seq(F), Len(st) > 1, NEW s, NEW h, NEW U, NEW n, NEW l,
         Remembered(s, h, U, n, st, l),
         NEW f \in F, f.wait = "none", f.vars[n] = st[Len(st) - 1].vars[n]
  PROVE  Remembered(s, h, U, n, Append(Front(Front(st)), f), "error")
<1>1. PICK b \in Seq(F), c \in F, t \in F :
        /\ b = Front(Front(st)) /\ c = st[Len(st) - 1] /\ t = Last(st) /\ Front(st) = Append(b, c)
        /\ AllTidy(s, h, U, n, b) /\ Tidy(s, h, U, n, b, c) /\ Tidy(s, h, U, n, Append(b, c), t)
  BY TwoTidy DEF Remembered
<1>2. Tidy(s, h, U, n, b, f)
  <2>1. f.vars[n] \notin U
    BY <1>1 DEF Tidy
  <2> QED BY <2>1, PlainIsTidy
<1>3. Remembered(s, h, U, n, Append(b, f), "error")
  BY <1>1, <1>2, RememberedBy DEF Ended
<1> QED BY <1>1, <1>3

\* ... and a boundary that catches takes back what was performed since.
LEMMA CatchRemembered ==
  ASSUME NEW F, NEW st \in Seq(F), Len(st) > 1, NEW s, NEW N, NEW h \in Seq(N), NEW U, NEW n, NEW l, NEW m,
         Remembered(s, h, U, n, st, l), st[Len(st) - 1].wait = "body",
         \A x \in F : x.vars[n] \in Nat /\ x.mark \in Nat /\ (x.wait = "fork" => x.merged[n] \in Nat),
         NEW f \in F, f.wait = "none", f.vars[n] = st[Len(st) - 1].vars[n]
  PROVE  Remembered(s, h, U \cup (st[Len(st) - 1].mark + 1 .. Len(h)), n, Append(Front(Front(st)), f), m)
<1>1. PICK b \in Seq(F), c \in F, t \in F :
        /\ b = Front(Front(st)) /\ c = st[Len(st) - 1] /\ t = Last(st) /\ Front(st) = Append(b, c)
        /\ AllTidy(s, h, U, n, b) /\ Tidy(s, h, U, n, b, c) /\ Tidy(s, h, U, n, Append(b, c), t)
  BY TwoTidy DEF Remembered
<1>2. PICK V : V = U \cup (c.mark + 1 .. Len(h))
  OBVIOUS
<1>3. c.mark \in Nat /\ c.vars[n] \in Nat /\ Len(h) \in Nat
  OBVIOUS
<1>4. /\ Within(c, n, c.mark) /\ \A j \in 1 .. Len(b) : Within(b[j], n, c.mark)
      /\ \A i \in Standing(h, U, n) : i <= c.mark => Knows(b, c, n, i)
  BY <1>1 DEF Tidy
<1>5. ASSUME NEW x \in Nat, x <= c.mark, x \notin U
      PROVE  x \notin V
  BY <1>2, <1>3, <1>5
<1>6. Standing(h, V, n) \subseteq Standing(h, U, n)
  BY <1>2 DEF Standing
<1>7. ASSUME NEW k \in 1 .. Len(b)
      PROVE  Tidy(s, h, V, n, SubSeq(b, 1, k - 1), b[k])
  <2>1. Tidy(s, h, U, n, SubSeq(b, 1, k - 1), b[k]) /\ Within(b[k], n, c.mark) /\ b[k] \in F
    BY <1>1, <1>4 DEF AllTidy
  <2>2. b[k].vars[n] \notin V
    BY <1>5, <2>1 DEF Tidy, Within
  <2>3. b[k].wait = "fork" => ~s /\ b[k].merged[n] \notin V
    BY <1>5, <2>1 DEF Tidy, Within
  <2> QED BY <1>6, <2>1, <2>2, <2>3 DEF Tidy
<1>8. AllTidy(s, h, V, n, b)
  BY <1>7 DEF AllTidy
<1>9. Tidy(s, h, V, n, b, f)
  <2>1. f.vars[n] \notin V
    BY <1>1, <1>3, <1>4, <1>5 DEF Within, Tidy
  <2> QED BY <2>1, PlainIsTidy
<1>10. UpToDate(h, V, n, b, f)
  <2> SUFFICES ASSUME NEW i \in Standing(h, V, n) PROVE Knows(b, f, n, i)
    BY DEF UpToDate
  <2>1. i \in Standing(h, U, n) /\ i \notin c.mark + 1 .. Len(h) /\ i \in DOMAIN h
    BY <1>2, <1>6 DEF Standing
  <2>2. i <= c.mark \/ ~(i \in 1 .. Len(h))
    BY <1>3, <2>1
  <2>3. CASE i <= c.mark
    BY <1>1, <1>4, <2>1, <2>3 DEF Knows
  <2>4. DOMAIN h = 1 .. Len(h)
    OBVIOUS
  <2> QED BY <2>1, <2>2, <2>3, <2>4
<1>11. Remembered(s, h, V, n, Append(b, f), m)
  BY <1>8, <1>9, <1>10, RememberedBy
<1> QED BY <1>1, <1>2, <1>11

\* Merged variables name as late a performance as the branch and the fork did.
LEMMA MergeKeeps ==
  ASSUME NEW h, NEW n, PerformedOnce(h, n), NEW v \in Nat, NEW m \in Nat,
         v # 0 => v \in DOMAIN h /\ h[v] = n, m # 0 => m \in DOMAIN h /\ h[m] = n,
         NEW x, x = IF v # 0 THEN v ELSE m
  PROVE  x \in {v, m} /\ x >= v /\ x >= m
<1>1. v # 0 /\ m # 0 => v = m
  BY DEF PerformedOnce
<1> QED BY <1>1

\* A branch returns: the fork that goes on after the last one,
LEMMA JoinRemembered ==
  ASSUME NEW F, NEW st \in Seq(F), Len(st) > 1, NEW s, NEW h, NEW U, NEW n, NEW l, NEW m,
         Remembered(s, h, U, n, st, l), l \notin Ended, st[Len(st) - 1].wait = "fork",
         \A x \in F : x.vars[n] \in Nat /\ (x.wait = "fork" => x.merged[n] \in Nat),
         NEW f \in F, f.wait = "none",
         f.vars[n] \in {Last(st).vars[n], st[Len(st) - 1].merged[n]},
         f.vars[n] >= Last(st).vars[n], f.vars[n] >= st[Len(st) - 1].merged[n],
         \A i \in DOMAIN h : i \in Nat
  PROVE  Remembered(s, h, U, n, Append(Front(Front(st)), f), m)
<1>1. PICK b \in Seq(F), c \in F, t \in F :
        /\ b = Front(Front(st)) /\ c = st[Len(st) - 1] /\ t = Last(st) /\ Front(st) = Append(b, c)
        /\ AllTidy(s, h, U, n, b) /\ Tidy(s, h, U, n, b, c) /\ Tidy(s, h, U, n, Append(b, c), t)
  BY TwoTidy DEF Remembered
<1>2. Tidy(s, h, U, n, b, f)
  <2>1. f.vars[n] \notin U
    BY <1>1 DEF Tidy
  <2> QED BY <2>1, PlainIsTidy
<1>3. UpToDate(h, U, n, b, f)
  <2> SUFFICES ASSUME NEW i \in Standing(h, U, n) PROVE Knows(b, f, n, i)
    BY DEF UpToDate
  <2>1. Knows(Append(b, c), t, n, i)
    BY <1>1 DEF Remembered, UpToDate
  <2>2. t.vars[n] >= i \/ Beneath(b, n, i) \/ c.merged[n] >= i
    BY <2>1, BeneathAppend DEF Knows
  <2>3. i \in Nat /\ f.vars[n] \in Nat /\ t.vars[n] \in Nat /\ c.merged[n] \in Nat
    BY <1>1 DEF Standing
  <2>4. f.vars[n] >= t.vars[n] /\ f.vars[n] >= c.merged[n]
    BY <1>1
  <2>5. f.vars[n] >= i \/ Beneath(b, n, i)
    BY <2>2, <2>3, <2>4
  <2> QED BY <2>5 DEF Knows
<1>4. Remembered(s, h, U, n, Append(b, f), m)
  BY <1>1, <1>2, <1>3, RememberedBy
<1> QED BY <1>1, <1>4

\* and the one that walks another.
LEMMA NextRemembered ==
  ASSUME NEW F, NEW st \in Seq(F), Len(st) > 1, NEW s, NEW h, NEW U, NEW n, NEW l,
         Remembered(s, h, U, n, st, l), l \notin Ended, st[Len(st) - 1].wait = "fork",
         \A x \in F : x.vars[n] \in Nat /\ (x.wait = "fork" => x.merged[n] \in Nat),
         NEW f \in F, f.wait = "fork", f.vars[n] = st[Len(st) - 1].vars[n],
         f.merged[n] \in {Last(st).vars[n], st[Len(st) - 1].merged[n]},
         f.merged[n] >= Last(st).vars[n], f.merged[n] >= st[Len(st) - 1].merged[n],
         NEW d \in F, d.wait = "none", d.vars[n] = f.vars[n],
         \A i \in DOMAIN h : i \in Nat
  PROVE  Remembered(s, h, U, n, Append(Front(Front(st)), f) \o <<d>>, "walk")
<1>1. PICK b \in Seq(F), c \in F, t \in F :
        /\ b = Front(Front(st)) /\ c = st[Len(st) - 1] /\ t = Last(st) /\ Front(st) = Append(b, c)
        /\ AllTidy(s, h, U, n, b) /\ Tidy(s, h, U, n, b, c) /\ Tidy(s, h, U, n, Append(b, c), t)
  BY TwoTidy DEF Remembered
<1>2. PICK a \in Seq(F) : a = Append(b, f)
  <2>1. Append(b, f) \in Seq(F)
    OBVIOUS
  <2> QED BY <2>1
<1>3. Tidy(s, h, U, n, b, f)
  BY <1>1 DEF Tidy
<1>4. AllTidy(s, h, U, n, a)
  BY <1>1, <1>2, <1>3, TidyAppend
<1>5. Tidy(s, h, U, n, a, d)
  <2>1. d.vars[n] \notin U
    BY <1>1 DEF Tidy
  <2> QED BY <2>1, PlainIsTidy
<1>6. UpToDate(h, U, n, a, d)
  <2> SUFFICES ASSUME NEW i \in Standing(h, U, n) PROVE Knows(a, d, n, i)
    BY DEF UpToDate
  <2>1. Knows(Append(b, c), t, n, i)
    BY <1>1 DEF Remembered, UpToDate
  <2>2. t.vars[n] >= i \/ Beneath(b, n, i) \/ c.merged[n] >= i
    BY <2>1, BeneathAppend DEF Knows
  <2>3. i \in Nat /\ f.merged[n] \in Nat /\ t.vars[n] \in Nat /\ c.merged[n] \in Nat
    BY <1>1 DEF Standing
  <2>4. f.merged[n] >= t.vars[n] /\ f.merged[n] >= c.merged[n]
    BY <1>1
  <2>5. f.merged[n] >= i \/ Beneath(b, n, i)
    BY <2>2, <2>3, <2>4
  <2>6. Beneath(a, n, i)
    BY <1>2, <2>5, BeneathAppend
  <2> QED BY <2>6 DEF Knows
<1>7. Remembered(s, h, U, n, Append(a, d), "walk")
  BY <1>4, <1>5, <1>6, RememberedBy
<1>8. a \o <<d>> = Append(a, d)
  BY AppendIsConcat
<1> QED BY <1>1, <1>2, <1>7, <1>8

\* An activity is performed.
LEMMA PerformRemembered ==
  ASSUME NEW F, NEW st \in Seq(F), st # <<>>, NEW s, NEW N, NEW h \in Seq(N), NEW x \in N, NEW U,
         NEW n, NEW l, NEW m,
         Remembered(s, h, U, n, st, l), l \notin Ended, U \subseteq DOMAIN h,
         \A y \in F : y.mark \in 0 .. Len(h),
         NEW G2, \A k \in 1 .. Len(st) : st[k] \in G2,
         NEW f \in G2, f.wait = "none",
         f.vars[n] = IF n = x THEN Len(h) + 1 ELSE Last(st).vars[n], Last(st).vars[n] \in 0 .. Len(h)
  PROVE  Remembered(s, Append(h, x), U, n, Append(Front(st), f), m)
<1>1. PICK g \in Seq(N) : g = Append(h, x)
  <2>1. Append(h, x) \in Seq(N)
    OBVIOUS
  <2> QED BY <2>1
<1>2. /\ Len(h) \in Nat /\ DOMAIN h = 1 .. Len(h) /\ DOMAIN g = 1 .. Len(h) + 1
      /\ g[Len(h) + 1] = x /\ \A i \in 1 .. Len(h) : g[i] = h[i]
  BY <1>1
<1>3. ASSUME NEW i \in Standing(g, U, n)
      PROVE  i \in Standing(h, U, n) \/ (i = Len(h) + 1 /\ n = x)
  BY <1>2, <1>3 DEF Standing
<1>4. PICK b \in Seq(F), t \in F : b = Front(st) /\ t = Last(st)
  BY FrontIs
<1>5. AllTidy(s, h, U, n, b) /\ Tidy(s, h, U, n, b, t) /\ UpToDate(h, U, n, b, t)
  BY <1>4, TopTidy DEF Remembered
<1>6. ASSUME NEW k \in 1 .. Len(b)
      PROVE  Tidy(s, g, U, n, SubSeq(b, 1, k - 1), b[k])
  <2>1. Tidy(s, h, U, n, SubSeq(b, 1, k - 1), b[k]) /\ b[k].mark \in 0 .. Len(h)
    BY <1>5 DEF AllTidy
  <2>2. \A i \in Standing(g, U, n) : i <= b[k].mark => i \in Standing(h, U, n)
    BY <1>2, <1>3, <2>1
  <2> QED BY <2>1, <2>2 DEF Tidy
<1>7. AllTidy(s, g, U, n, b)
  BY <1>6 DEF AllTidy
<1>8. Tidy(s, g, U, n, b, f)
  <2>1. f.vars[n] \notin U
    BY <1>2, <1>4, <1>5 DEF Tidy
  <2> QED BY <2>1, PlainIsTidy
<1>9. UpToDate(g, U, n, b, f)
  <2> SUFFICES ASSUME NEW i \in Standing(g, U, n) PROVE Knows(b, f, n, i)
    BY DEF UpToDate
  <2>1. CASE i \in Standing(h, U, n)
    <3>1. i \in 1 .. Len(h) /\ Knows(b, t, n, i)
      BY <1>2, <1>5, <2>1 DEF Standing, UpToDate
    <3>2. f.vars[n] >= i \/ Beneath(b, n, i)
      BY <1>2, <1>4, <3>1 DEF Knows
    <3> QED BY <3>2 DEF Knows
  <2>2. CASE i = Len(h) + 1 /\ n = x
    BY <1>2, <2>2 DEF Knows
  <2> QED BY <1>3, <2>1, <2>2
<1>10. b \in Seq(G2)
  <2>1. Len(b) = Len(st) - 1 /\ Len(st) \in Nat \ {0} /\ \A k \in 1 .. Len(st) - 1 : b[k] = st[k]
    BY <1>4, FrontIs
  <2>2. \A k \in 1 .. Len(b) : b[k] \in G2
    BY <2>1
  <2> QED BY <2>2
<1>11. Remembered(s, g, U, n, Append(b, f), m)
  BY <1>7, <1>8, <1>9, <1>10, RememberedBy
<1> QED BY <1>1, <1>4, <1>11

-----------------------------------------------------------------------------
(* The steps of the walk keep what is remembered.                          *)

\* What a frame's variables name.
LEMMA FrameNames ==
  ASSUME NEW g, NEW h, Len(h) \in Nat, NEW f \in SoundFrames(g, h), NEW n \in Nodes(g)
  PROVE  /\ f.vars[n] \in 0 .. Len(h) /\ (f.vars[n] # 0 => h[f.vars[n]] = n)
         /\ f.mark \in 0 .. Len(h)
         /\ f.wait = "fork" => f.merged[n] \in 0 .. Len(h) /\ (f.merged[n] # 0 => h[f.merged[n]] = n)
         /\ Within(f, n, Len(h))
<1>1. /\ f.vars \in TrueVars(g, h) /\ f.mark \in 0 .. Len(h)
      /\ f.wait = "fork" => f.merged \in TrueVars(g, h)
  BY FrameFields
<1>2. \A v \in TrueVars(g, h) : v[n] \in 0 .. Len(h) /\ (v[n] # 0 => h[v[n]] = n)
  BY DEF TrueVars
<1>3. /\ f.vars[n] \in 0 .. Len(h) /\ (f.vars[n] # 0 => h[f.vars[n]] = n)
      /\ f.wait = "fork" => f.merged[n] \in 0 .. Len(h) /\ (f.merged[n] # 0 => h[f.merged[n]] = n)
  BY <1>1, <1>2
<1>4. Within(f, n, Len(h))
  BY <1>3 DEF Within
<1> QED BY <1>1, <1>3, <1>4

\* A step to the stack st that is remembered if what was there is.
Keeps(e, u, st, l) ==
  \A n \in Nodes(G(e)) :
    /\ Steady(G(e), history[e], n)
    /\ Remembered(Straight(G(e)), history[e], undone[e], n, stack[e], pc[e])
    => Remembered(Straight(G(e)), history[e], u, n, st, l)

LEMMA Unanswered ==
  ASSUME IInv, NEW e \in Execution, pc[e] # "done"
  PROVE  outcome[e] = "none"
BY DEF IInv, Good, Shaped

LEMMA OthersRemember ==
  ASSUME Remembering, NEW x \in Execution,
         graph'[x] = graph[x], pc'[x] = pc[x], outcome'[x] = outcome[x], stack'[x] = stack[x],
         history'[x] = history[x], undone'[x] = undone[x], result'[x] = result[x]
  PROVE  Answers(x)'
<1>1. Answers(x) /\ G(x)' = G(x)
  BY DEF Remembering, G
<1> QED BY <1>1 DEF Answers

LEMMA StepRemembers ==
  ASSUME IInv, Remembering, NEW e \in Execution, NEW l, NEW st, NEW u,
         UNCHANGED <<graph, history, outcome, result>>, undone' = [undone EXCEPT ![e] = u],
         pc[e] # "done", Goto(e, l), stack' = [stack EXCEPT ![e] = st], Keeps(e, u, st, l)
  PROVE  Remembering'
<1>1. /\ pc'[e] = l /\ stack'[e] = st /\ undone'[e] = u
      /\ \A x \in Execution \ {e} : pc'[x] = pc[x] /\ stack'[x] = stack[x] /\ undone'[x] = undone[x]
  BY DEF IInv, Tables, Goto
<1>2. ASSUME NEW x \in Execution, x # e PROVE Answers(x)'
  BY <1>1, <1>2, OthersRemember
<1>3. Answers(e)'
  <2>1. Answers(e) /\ G(e)' = G(e) /\ outcome'[e] = "none"
    BY Unanswered DEF Remembering, G
  <2>2. \A n \in Nodes(G(e)) : Steady(G(e), history[e], n) =>
          Remembered(Straight(G(e)), history[e], u, n, st, l)
    BY <2>1 DEF Answers, Keeps
  <2> QED BY <1>1, <2>1, <2>2 DEF Answers
<1>4. result' = [x \in Execution |-> result'[x]]
  BY DEF Remembering
<1> QED BY <1>2, <1>3, <1>4 DEF Remembering

LEMMA QuietRemembers ==
  ASSUME IInv, Remembering, NEW e \in Execution, NEW l, NEW st, Quiet,
         pc[e] # "done", Goto(e, l), stack' = [stack EXCEPT ![e] = st], Keeps(e, undone[e], st, l)
  PROVE  Remembering'
<1>1. UNCHANGED <<graph, history, outcome, result>> /\ undone' = [undone EXCEPT ![e] = undone[e]]
  BY DEF Quiet, IInv, Tables
<1> QED BY <1>1, StepRemembers

LEMMA TopOfStacked ==
  ASSUME NEW F, NEW st, NEW l, Stacked(F, st, l), l \notin Idle
  PROVE  Last(st) \in F /\ ((Last(st).wait = "none") <=> (l # "turn"))
<1>1. st \in Seq(F) /\ st # <<>>
  BY DEF Stacked, Idle
<1>2. Len(st) \in Nat \ {0} /\ Last(st) = st[Len(st)] /\ Last(st) \in F
  BY <1>1, FrontIs
<1> QED BY <1>2 DEF Stacked

\* Another label,
LEMMA RelabelRemembers ==
  ASSUME IInv, Remembering, NEW e \in Execution, NEW l,
         UNCHANGED <<graph, history, outcome, result, undone, stack>>,
         pc[e] \notin Idle, Goto(e, l), l \notin Ended => pc[e] \notin Ended
  PROVE  Remembering'
<1>1. undone' = [undone EXCEPT ![e] = undone[e]] /\ stack' = [stack EXCEPT ![e] = stack[e]]
  BY DEF IInv, Tables
<1>2. Keeps(e, undone[e], stack[e], l)
  BY DEF Keeps, Remembered
<1> QED BY <1>1, <1>2, StepRemembers DEF Idle

\* another innermost frame with the same variables,
LEMMA TopRemembers ==
  ASSUME IInv, IInv', Remembering, NEW e \in Execution, NEW l, NEW f, Quiet,
         pc[e] \notin Idle, l \notin Idle, l \notin Ended => pc[e] \notin Ended, Goto(e, l),
         SetTop(e, f), f.vars = Top(e).vars
  PROVE  Remembering'
<1> DEFINE F == SoundFrames(G(e), history[e])
           st == stack[e]
<1>1. st \in Seq(F) /\ st # <<>> /\ Top(e) = Last(st)
  BY TopIs DEF Stacked, Top
<1>2. /\ stack' = [stack EXCEPT ![e] = Append(Front(st), f)] /\ stack'[e] = Append(Front(st), f)
      /\ pc'[e] = l /\ G(e)' = G(e) /\ history' = history
  BY DEF SetTop, Goto, Quiet, IInv, Tables, G
<1>3. Stacked(F, stack'[e], l) /\ (l = "turn" => Last(stack'[e]).wait = "loop")
  BY <1>2 DEF IInv, Good, Shaped, Top
<1> HIDE DEF F
<1>4. Last(Append(Front(st), f)) = f
  BY <1>1, LastAppended
<1>5. f \in F /\ f.wait \in {"none", "loop"}
  <2>1. Last(stack'[e]) \in F /\ ((Last(stack'[e]).wait = "none") <=> (l # "turn"))
    BY <1>3, TopOfStacked
  <2> QED BY <1>2, <1>3, <1>4, <2>1
<1>6. Keeps(e, undone[e], Append(Front(st), f), l)
  BY <1>1, <1>5, SetRemembered DEF Keeps
<1> QED BY <1>2, <1>6, QuietRemembers DEF Idle

\* a call from a frame that is tidy where it waits,
LEMMA CallRemembers ==
  ASSUME IInv, Remembering, NEW e \in Execution, Quiet,
         pc[e] \notin Ended, Goto(e, "walk"),
         NEW f \in SoundFrames(G(e), history[e]), f.wait \in {"loop", "body", "fork"},
         NEW c \in SoundFrames(G(e), history[e]), c.wait = "none", Call(e, f, c),
         f.vars = Top(e).vars, c.vars = f.vars,
         f.wait # "loop" => \A n \in Nodes(G(e)) :
           Remembered(Straight(G(e)), history[e], undone[e], n, stack[e], pc[e]) =>
             Tidy(Straight(G(e)), history[e], undone[e], n, Front(stack[e]), f)
  PROVE  Remembering'
<1> DEFINE F == SoundFrames(G(e), history[e])
           st == stack[e]
<1>1. st \in Seq(F) /\ st # <<>> /\ Top(e) = Last(st)
  BY TopIs DEF Stacked, Top, Idle, Ended
<1>2. stack' = [stack EXCEPT ![e] = Append(Front(st), f) \o <<c>>]
  BY DEF Call
<1> HIDE DEF F
<1>3. Keeps(e, undone[e], Append(Front(st), f) \o <<c>>, "walk")
  BY <1>1, CallRemembered DEF Keeps, F
<1> QED BY <1>2, <1>3, QuietRemembers DEF Ended

\* and a return.
LEMMA ReturnRemembers ==
  ASSUME IInv, Remembering, NEW e \in Execution, NEW l, NEW f, Quiet, Len(stack[e]) > 1,
         pc[e] \notin Idle, Goto(e, l), ReturnTo(e, f),
         Keeps(e, undone[e], Append(Front(Front(stack[e])), f), l)
  PROVE  Remembering'
BY QuietRemembers DEF ReturnTo, Idle

\* The labels between which a step leaves the variables of the innermost frame.
LEMMA TooManyStepsRemembers ==
  ASSUME IInv, Remembering, NEW e \in Execution, TooManySteps(e) PROVE Remembering'
<1>1. pc[e] = "walk" /\ Goto(e, "error") /\ UNCHANGED stack /\ Quiet
  BY DEF TooManySteps
<1> QED BY <1>1, RelabelRemembers DEF Quiet, Idle, Ended

LEMMA CheckpointRemembers ==
  ASSUME IInv, Remembering, NEW e \in Execution, Checkpoint(e) PROVE Remembering'
BY RelabelRemembers DEF Checkpoint, Idle, Ended

LEMMA PassRemembers ==
  ASSUME IInv, IInv', Remembering, NEW e \in Execution, Pass(e) PROVE Remembering'
<1>1. pc[e] = "walk" /\ SetTop(e, Stepped(e)) /\ Goto(e, "advance") /\ Quiet
  BY DEF Pass, Walks
<1>2. Stepped(e).vars = Top(e).vars
  BY <1>1, WalkingFrame DEF Idle
<1> QED BY <1>1, <1>2, TopRemembers DEF Idle, Ended

LEMMA StopRemembers ==
  ASSUME IInv, IInv', Remembering, NEW e \in Execution, Stop(e) PROVE Remembering'
<1>1. /\ pc[e] = "walk" /\ SetTop(e, Stepped(e)) /\ Quiet
      /\ Goto(e, "return") \/ Goto(e, "error")
  BY DEF Stop, Walks
<1>2. Stepped(e).vars = Top(e).vars
  BY <1>1, WalkingFrame DEF Idle
<1> QED BY <1>1, <1>2, TopRemembers DEF Idle, Ended

LEMMA MovedVars ==
  ASSUME NEW g, NEW h, NEW f \in SoundFrames(g, h), NEW n
  PROVE  [f EXCEPT !.at = n].vars = f.vars
BY DEF SoundFrames, FrameShape

LEMMA AdvanceRemembers ==
  ASSUME IInv, IInv', Remembering, NEW e \in Execution, Advance(e) PROVE Remembering'
<1>1. pc[e] = "advance" /\ Quiet
  BY DEF Advance
<1>2. CASE (Goto(e, "return") \/ Goto(e, "error")) /\ UNCHANGED stack
  BY <1>1, <1>2, RelabelRemembers DEF Quiet, Idle, Ended
<1>3. ASSUME NEW i, Goto(e, "walk"), SetTop(e, [Top(e) EXCEPT !.at = Target(G(e), i)])
      PROVE  Remembering'
  <2>1. [Top(e) EXCEPT !.at = Target(G(e), i)].vars = Top(e).vars
    BY <1>1, TopIs, MovedVars DEF Idle
  <2> QED BY <1>1, <1>3, <2>1, TopRemembers DEF Idle, Ended
<1> QED BY <1>1, <1>2, <1>3 DEF Advance

LEMMA ChooseRemembers ==
  ASSUME IInv, IInv', Remembering, NEW e \in Execution, Choose(e) PROVE Remembering'
<1> DEFINE f == Stepped(e)
<1>1. pc[e] = "walk" /\ Quiet
  BY DEF Choose, Walks
<1>2. f \in SoundFrames(G(e), history[e]) /\ f.vars = Top(e).vars
  BY <1>1, WalkingFrame DEF Idle
<1>3. CASE Goto(e, "error") /\ SetTop(e, f)
  BY <1>1, <1>2, <1>3, TopRemembers DEF Idle, Ended
<1>4. ASSUME NEW i, Goto(e, "walk"), SetTop(e, [f EXCEPT !.at = Target(G(e), i)])
      PROVE  Remembering'
  <2> HIDE DEF f
  <2>1. [f EXCEPT !.at = Target(G(e), i)].vars = Top(e).vars
    BY <1>2, MovedVars
  <2> QED BY <1>1, <1>4, <2>1, TopRemembers DEF Idle, Ended
<1> QED BY <1>3, <1>4 DEF Choose

LEMMA EnterLoopRemembers ==
  ASSUME IInv, IInv', Remembering, NEW e \in Execution, EnterLoop(e) PROVE Remembering'
<1> DEFINE f == Stepped(e)
<1>1. pc[e] = "walk" /\ Quiet
  BY DEF EnterLoop, Walks
<1>2. f \in SoundFrames(G(e), history[e]) /\ f.vars = Top(e).vars
  BY <1>1, WalkingFrame DEF Idle
<1>3. CASE Goto(e, "error") /\ SetTop(e, f)
  BY <1>1, <1>2, <1>3, TopRemembers DEF Idle, Ended
<1>4. ASSUME NEW n, Goto(e, "turn"), SetTop(e, [f EXCEPT !.wait = "loop", !.left = n])
      PROVE  Remembering'
  <2> HIDE DEF f
  <2>1. [f EXCEPT !.wait = "loop", !.left = n].vars = Top(e).vars
    BY <1>2 DEF SoundFrames, FrameShape
  <2> QED BY <1>1, <1>4, <2>1, TopRemembers DEF Idle, Ended
<1> QED BY <1>3, <1>4 DEF EnterLoop

LEMMA TurnRemembers ==
  ASSUME IInv, IInv', Remembering, NEW e \in Execution, Turn(e) PROVE Remembering'
<1> DEFINE t == Top(e)
           f == [t EXCEPT !.left = t.left - 1]
           body == FindBodyEdge(G(e), f.at)
           c == Frame(Target(G(e), body), f.at, f.steps, f.vars)
           F == SoundFrames(G(e), history[e])
<1>1. pc[e] = "turn" /\ Quiet /\ t.left > 0
  BY DEF Turn
<1>2. /\ t \in F /\ t.wait = "loop" /\ graph[e] \in Name /\ Len(history[e]) \in Nat
  BY <1>1, TopIs DEF Idle
<1>3. IF body = 0 THEN SetTop(e, f) /\ UNCHANGED pc ELSE Call(e, f, c) /\ Goto(e, "walk")
  BY DEF Turn
<1> HIDE DEF t
<1>4. /\ t.left - 1 \in Nat /\ t.at \in Nodes(G(e)) /\ t.steps \in Nat
      /\ t.vars \in TrueVars(G(e), history[e])
  <2>1. t.left \in Nat /\ t.at \in Nodes(G(e)) /\ t.steps \in Nat /\ t.vars \in TrueVars(G(e), history[e])
    BY <1>2, FrameFields
  <2> QED BY <1>1, <2>1
<1>5. /\ f \in F /\ f.wait = "loop" /\ f.at = t.at /\ f.steps = t.steps /\ f.vars = t.vars
  BY <1>2, <1>4, FrameCounts
<1> HIDE DEF f
<1>6. CASE body = 0
  <2>1. SetTop(e, f) /\ Goto(e, "turn")
    BY <1>1, <1>3, <1>6, SamePc
  <2> QED BY <1>1, <1>5, <2>1, TopRemembers DEF Idle, Ended, t
<1>7. CASE body # 0
  <2>1. Target(G(e), body) \in Nodes(G(e))
    BY <1>2, <1>4, <1>5, <1>7, Navigation
  <2>2. c \in F /\ c.wait = "none"
    BY <1>2, <1>4, <1>5, <2>1, NewFrame
  <2>3. c.vars = f.vars
    BY DEF Frame
  <2>4. Call(e, f, c) /\ Goto(e, "walk")
    BY <1>3, <1>7
  <2> HIDE DEF c
  <2> QED BY <1>1, <1>5, <2>2, <2>3, <2>4, CallRemembers DEF Ended, t
<1> QED BY <1>6, <1>7

LEMMA LeaveLoopRemembers ==
  ASSUME IInv, IInv', Remembering, NEW e \in Execution, LeaveLoop(e) PROVE Remembering'
<1> DEFINE t == Top(e)
           f == [t EXCEPT !.wait = "none", !.left = 0]
           exit == FindExitEdge(G(e), f.at)
<1>1. pc[e] = "turn" /\ Quiet
  BY DEF LeaveLoop
<1>2. t \in SoundFrames(G(e), history[e])
  BY <1>1, TopIs DEF Idle
<1>3. \/ Goto(e, "walk") /\ SetTop(e, [f EXCEPT !.at = Target(G(e), exit)])
      \/ Goto(e, "error") /\ SetTop(e, f)
  BY DEF LeaveLoop
<1> HIDE DEF t
<1>4. f.vars = t.vars /\ \A n : [f EXCEPT !.at = n].vars = t.vars
  BY <1>2 DEF SoundFrames, FrameShape
<1> HIDE DEF f, exit
<1>5. CASE Goto(e, "error") /\ SetTop(e, f)
  BY <1>1, <1>4, <1>5, TopRemembers DEF Idle, Ended, t
<1>6. CASE Goto(e, "walk") /\ SetTop(e, [f EXCEPT !.at = Target(G(e), exit)])
  BY <1>1, <1>4, <1>6, TopRemembers DEF Idle, Ended, t
<1> QED BY <1>3, <1>5, <1>6

LEMMA BoundaryTidy ==
  ASSUME NEW F, NEW st \in Seq(F), st # <<>>, NEW s, NEW h, NEW U, NEW n, NEW l,
         Remembered(s, h, U, n, st, l), l \notin Ended, \A x \in F : Within(x, n, Len(h)),
         NEW f \in F, f.wait = "body", f.mark = Len(h), f.vars[n] = Last(st).vars[n]
  PROVE  Tidy(s, h, U, n, Front(st), f)
<1>1. Front(st) \in Seq(F)
  BY FrontIs
<1>2. Tidy(s, h, U, n, Front(st), Last(st)) /\ UpToDate(h, U, n, Front(st), Last(st))
  BY TopTidy DEF Remembered
<1>3. f.vars[n] \notin U /\ \A i \in Standing(h, U, n) : Knows(Front(st), f, n, i)
  BY <1>2 DEF Tidy, UpToDate, Knows
<1>4. \A j \in 1 .. Len(Front(st)) : Within(Front(st)[j], n, f.mark)
  BY <1>1
<1> QED BY <1>3, <1>4 DEF Tidy

LEMMA EnterBoundaryRemembers ==
  ASSUME IInv, Remembering, NEW e \in Execution, EnterBoundary(e) PROVE Remembering'
<1> DEFINE t == Stepped(e)
           f == [t EXCEPT !.wait = "body", !.mark = Len(history[e])]
           body == BodyOfBoundary(G(e), Top(e).at)
           c == Frame(Target(G(e), body), NoNode, f.steps, f.vars)
           F == SoundFrames(G(e), history[e])
<1>1. pc[e] = "walk" /\ Quiet /\ body # 0 /\ Goto(e, "walk") /\ Call(e, f, c)
  BY DEF EnterBoundary, Walks
<1>2. /\ t \in F /\ t.wait = "none" /\ graph[e] \in Name /\ t.vars = Top(e).vars /\ Top(e).at \in Nodes(G(e))
  BY <1>1, WalkingFrame DEF Idle
<1>3. /\ Len(history[e]) \in Nat /\ stack[e] \in Seq(F) /\ stack[e] # <<>>
  BY <1>1, TopIs DEF Idle, Stacked
<1>4. Target(G(e), body) \in Nodes(G(e))
  BY <1>1, <1>2, Navigation
<1>5. Len(history[e]) \in 0 .. Len(history[e])
  BY <1>3
<1> HIDE DEF t
<1>6. /\ f \in F /\ f.wait = "body" /\ f.mark = Len(history[e]) /\ f.vars = t.vars
  BY <1>2, <1>5 DEF SoundFrames, FrameShape
<1>7. f.steps \in Nat /\ f.vars \in TrueVars(G(e), history[e])
  BY <1>6, FrameFields
<1> HIDE DEF f
<1>8. c \in F /\ c.wait = "none" /\ c.vars = f.vars
  BY <1>3, <1>4, <1>7, NewFrame DEF Frame
<1>9. ASSUME NEW n \in Nodes(G(e)),
             Remembered(Straight(G(e)), history[e], undone[e], n, stack[e], pc[e])
      PROVE  Tidy(Straight(G(e)), history[e], undone[e], n, Front(stack[e]), f)
  <2>1. \A x \in F : Within(x, n, Len(history[e]))
    BY <1>3, FrameNames
  <2>2. f.vars[n] = Last(stack[e]).vars[n]
    BY <1>2, <1>6 DEF Top
  <2>3. pc[e] \notin Ended
    BY <1>1 DEF Ended
  <2> HIDE DEF F
  <2> QED BY <1>3, <1>6, <1>9, <2>1, <2>2, <2>3, BoundaryTidy
<1> HIDE DEF c
<1> QED BY <1>1, <1>2, <1>6, <1>8, <1>9, CallRemembers DEF Ended

LEMMA ForkTidy ==
  ASSUME NEW F, NEW st \in Seq(F), st # <<>>, NEW h, NEW U, NEW n, NEW l,
         Remembered(FALSE, h, U, n, st, l), NEW f, f.wait = "fork",
         f.vars[n] = Last(st).vars[n], f.merged[n] = Last(st).vars[n]
  PROVE  Tidy(FALSE, h, U, n, Front(st), f)
<1>1. Tidy(FALSE, h, U, n, Front(st), Last(st))
  BY TopTidy DEF Remembered
<1> QED BY <1>1 DEF Tidy

LEMMA ForkRemembers ==
  ASSUME IInv, Remembering, NEW e \in Execution, Fork(e) PROVE Remembering'
<1> DEFINE t == Stepped(e)
           edges == Outgoing(G(e), Top(e).at)
           B == edges \ {Min(edges)}
           v == Top(e).vars
           f == [t EXCEPT !.wait = "fork", !.merged = v, !.branches = B]
           c == Branch(e, f, Min(edges))
           F == SoundFrames(G(e), history[e])
<1>1. /\ pc[e] = "walk" /\ Quiet /\ Goto(e, "walk") /\ Call(e, f, c)
      /\ Kind(e) = "Parallel" /\ Cardinality(edges) > 1
  BY DEF Fork, Walks, Forks
<1>2. /\ t \in F /\ t.wait = "none" /\ graph[e] \in Name
      /\ t.at = Top(e).at /\ t.at \in Nodes(G(e)) /\ t.vars = v
  BY <1>1, WalkingFrame DEF Idle
<1>3. Len(history[e]) \in Nat /\ stack[e] \in Seq(F) /\ stack[e] # <<>>
  BY <1>1, TopIs DEF Idle, Stacked
<1>4. edges # {} /\ Straight(G(e)) = FALSE
  <2>1. edges # {}
    BY <1>1, FS_EmptySet
  <2>2. edges = Outgoing(G(e), Top(e).at) /\ G(e).kind[Top(e).at] = "Parallel"
    BY <1>1 DEF Kind
  <2>3. ~(Cardinality(Outgoing(G(e), Top(e).at)) <= 1)
    <3>1. IsFiniteSet(edges)
      <4>1. edges \in SUBSET (1 .. Len(G(e).edges)) /\ Len(G(e).edges) \in Nat
        BY <1>2, EdgesLead
      <4>2. IsFiniteSet(1 .. Len(G(e).edges))
        BY <4>1, FS_Interval
      <4> QED BY <4>1, <4>2, FS_Subset
    <3>2. Cardinality(edges) \in Nat
      BY <3>1, FS_CardinalityType
    <3> QED BY <1>1, <2>2, <3>2
  <2> QED BY <1>2, <2>1, <2>2, <2>3 DEF Straight
<1>5. Min(edges) \in Outgoing(G(e), t.at)
  BY <1>2, <1>4, Navigation
<1>6. B \subseteq Edges(G(e)) /\ B \subseteq Outgoing(G(e), t.at)
  BY <1>2, EdgesLead
<1>7. v \in TrueVars(G(e), history[e])
  BY <1>2, FrameFields
<1>8. v = Last(stack[e]).vars
  BY DEF Top
<1> HIDE DEF t, B, edges, v
<1>9. f \in F /\ f.wait = "fork" /\ f.vars = v /\ f.merged = v
  BY <1>2, <1>6, <1>7 DEF SoundFrames, FrameShape
<1> HIDE DEF f
<1>10. c \in F /\ c.wait = "none" /\ c.vars = f.vars
  BY <1>2, <1>3, <1>5, <1>9, BranchIsSound DEF Branch, Frame
<1> HIDE DEF c, F
<1>11. ASSUME NEW n \in Nodes(G(e)),
              Remembered(Straight(G(e)), history[e], undone[e], n, stack[e], pc[e])
       PROVE  Tidy(Straight(G(e)), history[e], undone[e], n, Front(stack[e]), f)
  <2>1. Remembered(FALSE, history[e], undone[e], n, stack[e], pc[e])
    BY <1>4, <1>11
  <2>2. Tidy(FALSE, history[e], undone[e], n, Front(stack[e]), f)
    BY <1>3, <1>8, <1>9, <2>1, ForkTidy
  <2> QED BY <1>4, <2>2
<1> QED BY <1>1, <1>9, <1>10, <1>11, CallRemembers DEF Ended, F, v

LEMMA LoopReturnsRemembers ==
  ASSUME IInv, Remembering, NEW e \in Execution, LoopReturns(e) PROVE Remembering'
<1> DEFINE st == stack[e]
           F == SoundFrames(G(e), history[e])
           f == Shared(e)
<1>1. /\ pc[e] = "return" /\ Len(st) > 1 /\ Caller(e).wait = "loop"
      /\ ReturnTo(e, f) /\ Goto(e, "turn") /\ Quiet
  BY DEF LoopReturns, Returns
<1>2. /\ f \in F /\ f.wait = "loop" /\ Caller(e) \in F
  BY <1>1, ReturningFrames, SharedIsSound
<1>3. f.vars = Last(st).vars /\ Caller(e) = st[Len(st) - 1]
  BY <1>2 DEF Shared, Caller, Top, SoundFrames, FrameShape
<1>4. st \in Seq(F)
  BY <1>1, TopIs DEF Idle, Stacked
<1> HIDE DEF F, f
<1>5. Keeps(e, undone[e], Append(Front(Front(st)), f), "turn")
  <2>1. pc[e] \notin Ended /\ st[Len(st) - 1].wait # "fork" /\ f.wait \in {"none", "loop"}
    BY <1>1, <1>2, <1>3 DEF Ended
  <2> QED BY <1>1, <1>2, <1>3, <1>4, <2>1, ReturnRemembered DEF Keeps
<1> QED BY <1>1, <1>5, ReturnRemembers DEF Idle

LEMMA BoundaryReturnsRemembers ==
  ASSUME IInv, Remembering, NEW e \in Execution, BoundaryReturns(e) PROVE Remembering'
<1> DEFINE st == stack[e]
           F == SoundFrames(G(e), history[e])
           s == Shared(e)
           f == [s EXCEPT !.wait = "none", !.mark = 0]
<1>1. /\ pc[e] = "return" /\ Len(st) > 1 /\ Caller(e).wait = "body"
      /\ ReturnTo(e, f) /\ UNCHANGED pc /\ Quiet
  BY DEF BoundaryReturns, Returns
<1>2. /\ s \in F /\ s.wait = "body" /\ Caller(e) \in F /\ 0 \in 0 .. Len(history[e])
  BY <1>1, ReturningFrames, SharedIsSound
<1>3. s.vars = Last(st).vars /\ Caller(e) = st[Len(st) - 1]
  BY <1>2 DEF Shared, Caller, Top, SoundFrames, FrameShape
<1>4. st \in Seq(F) /\ Goto(e, "return")
  BY <1>1, TopIs, SamePc DEF Idle, Stacked
<1> HIDE DEF s
<1>5. f \in F /\ f.wait = "none" /\ f.vars = s.vars
  BY <1>2 DEF SoundFrames, FrameShape
<1> HIDE DEF F, f
<1>6. Keeps(e, undone[e], Append(Front(Front(st)), f), "return")
  <2>1. pc[e] \notin Ended /\ st[Len(st) - 1].wait # "fork" /\ f.wait \in {"none", "loop"}
    BY <1>1, <1>3, <1>5 DEF Ended
  <2> QED BY <1>1, <1>3, <1>4, <1>5, <2>1, ReturnRemembered DEF Keeps
<1> QED BY <1>1, <1>4, <1>6, ReturnRemembers DEF Idle

LEMMA UnwindRemembers ==
  ASSUME IInv, Remembering, NEW e \in Execution, Unwind(e) PROVE Remembering'
<1> DEFINE st == stack[e]
           t == Top(e)
           c == Caller(e)
           s == IF c.wait = "loop" THEN t.steps ELSE c.steps
           f == [c EXCEPT !.wait = "none", !.left = 0, !.branches = {}, !.merged = <<>>, !.steps = s]
           F == SoundFrames(G(e), history[e])
<1>1. pc[e] = "error" /\ Len(st) > 1 /\ ReturnTo(e, f) /\ UNCHANGED pc /\ Quiet
  BY DEF Unwind
<1>2. c \in F /\ t \in F /\ c = st[Len(st) - 1]
  BY <1>1, ReturningFrames DEF Caller
<1>3. st \in Seq(F) /\ Goto(e, "error")
  BY <1>1, TopIs, SamePc DEF Idle, Stacked
<1> HIDE DEF t, c
<1>4. s \in Nat
  BY <1>2, FrameFields
<1> HIDE DEF s
<1>5. f \in F /\ f.wait = "none" /\ f.vars = c.vars
  BY <1>2, <1>4 DEF SoundFrames, FrameShape
<1> HIDE DEF F, f
<1>6. Keeps(e, undone[e], Append(Front(Front(st)), f), "error")
  BY <1>1, <1>2, <1>3, <1>5, FailRemembered DEF Keeps
<1> QED BY <1>1, <1>3, <1>6, ReturnRemembers DEF Idle

LEMMA CatchRemembers ==
  ASSUME IInv, Remembering, NEW e \in Execution, Catch(e) PROVE Remembering'
<1> DEFINE st == stack[e]
           h == history[e]
           t == Top(e)
           c == Caller(e)
           f == [c EXCEPT !.wait = "none", !.mark = 0, !.steps = t.steps]
           errors == FindErrorEdge(G(e), f.at)
           r == [f EXCEPT !.at = Target(G(e), errors)]
           u == undone[e] \cup (c.mark + 1 .. Len(h))
           F == SoundFrames(G(e), h)
<1>1. /\ pc[e] = "error" /\ Len(st) > 1 /\ c.wait = "body"
      /\ UNCHANGED <<graph, history, outcome, result, storeVars, sagaVars, crashes>>
      /\ IF errors = 0 THEN ReturnTo(e, f) /\ UNCHANGED <<pc, undone>>
         ELSE ReturnTo(e, r) /\ Goto(e, "walk") /\ undone' = [undone EXCEPT ![e] = u]
  BY DEF Catch, Returns
<1>2. /\ c \in F /\ t \in F /\ graph[e] \in Name /\ c = st[Len(st) - 1]
      /\ Len(h) \in Nat /\ 0 \in 0 .. Len(h)
  BY <1>1, ReturningFrames DEF Caller
<1>3. st \in Seq(F) /\ h \in Seq(Nodes(G(e)))
  BY <1>1, TopIs DEF Idle, Stacked
<1> HIDE DEF t, c
<1>4. t.steps \in Nat /\ c.at \in Nodes(G(e))
  BY <1>2, FrameFields
<1>5. f \in F /\ f.wait = "none" /\ f.at = c.at /\ f.vars = c.vars
  BY <1>1, <1>2, <1>4 DEF SoundFrames, FrameShape
<1> HIDE DEF f, u
<1>6. CASE errors = 0
  <2>1. Quiet
    BY <1>1, <1>6 DEF Quiet
  <2>2. Goto(e, "error") /\ ReturnTo(e, f)
    BY <1>1, <1>6, SamePc
  <2> HIDE DEF F
  <2>3. Keeps(e, undone[e], Append(Front(Front(st)), f), "error")
    BY <1>1, <1>2, <1>3, <1>5, FailRemembered DEF Keeps
  <2> QED BY <1>1, <2>1, <2>2, <2>3, ReturnRemembers DEF Idle
<1>7. CASE errors # 0
  <2>1. Target(G(e), errors) \in Nodes(G(e))
    BY <1>2, <1>4, <1>5, <1>7, Navigation
  <2> HIDE DEF errors
  <2>2. r \in F /\ r.wait = "none" /\ r.vars = c.vars
    BY <1>5, <2>1, FrameMoved, MovedVars
  <2>3. /\ stack' = [stack EXCEPT ![e] = Append(Front(Front(st)), r)]
        /\ Goto(e, "walk") /\ undone' = [undone EXCEPT ![e] = u]
    BY <1>1, <1>7 DEF ReturnTo
  <2>4. ASSUME NEW n \in Nodes(G(e))
        PROVE  \A x \in F : x.vars[n] \in Nat /\ x.mark \in Nat /\ (x.wait = "fork" => x.merged[n] \in Nat)
    BY <1>2, FrameNames
  <2> HIDE DEF F, r
  <2>5. ASSUME NEW n \in Nodes(G(e)), Remembered(Straight(G(e)), h, undone[e], n, st, pc[e])
        PROVE  Remembered(Straight(G(e)), h, u, n, Append(Front(Front(st)), r), "walk")
    <3>1. \A x \in F : x.vars[n] \in Nat /\ x.mark \in Nat /\ (x.wait = "fork" => x.merged[n] \in Nat)
      BY <2>4
    <3>2. r.vars[n] = st[Len(st) - 1].vars[n] /\ st[Len(st) - 1].wait = "body"
      BY <1>1, <1>2, <2>2
    <3>3. u = undone[e] \cup (st[Len(st) - 1].mark + 1 .. Len(h))
      BY <1>2 DEF u
    <3> QED BY <1>1, <1>3, <2>2, <2>5, <3>1, <3>2, <3>3, CatchRemembered
  <2>6. Keeps(e, u, Append(Front(Front(st)), r), "walk")
    BY <2>5 DEF Keeps
  <2>7. pc[e] # "done" /\ UNCHANGED <<graph, history, outcome, result>>
    BY <1>1
  <2> QED BY <2>3, <2>6, <2>7, StepRemembers
<1> QED BY <1>6, <1>7

\* A branch was forked off: the chart is not straight, and what is claimed is
\* claimed of an activity performed once.
LEMMA BranchesSteady ==
  ASSUME IInv, NEW e \in Execution, pc[e] \notin Idle, Len(stack[e]) > 1, Caller(e).wait = "fork",
         NEW n, Steady(G(e), history[e], n),
         Remembered(Straight(G(e)), history[e], undone[e], n, stack[e], pc[e])
  PROVE  PerformedOnce(history[e], n)
<1> DEFINE F == SoundFrames(G(e), history[e])
           st == stack[e]
<1>1. st \in Seq(F) /\ Len(st) > 1 /\ st[Len(st) - 1].wait = "fork"
  BY TopIs DEF Stacked, Caller
<1> HIDE DEF F
<1> DEFINE s == Straight(G(e))
           h == history[e]
           U == undone[e]
<1>2. AllTidy(s, h, U, n, st)
  BY DEF Remembered
<1> HIDE DEF s, h, U, st
<1>3. PICK b \in Seq(F), c \in F, t \in F :
        /\ b = Front(Front(st)) /\ c = st[Len(st) - 1] /\ t = Last(st) /\ Front(st) = Append(b, c)
        /\ AllTidy(s, h, U, n, b) /\ Tidy(s, h, U, n, b, c) /\ Tidy(s, h, U, n, Append(b, c), t)
  BY <1>1, <1>2, TwoTidy
<1>4. ~s
  BY <1>1, <1>3 DEF Tidy
<1> QED BY <1>4 DEF Steady, s, h

LEMMA ForkReturnsRemembers ==
  ASSUME IInv, Remembering, NEW e \in Execution, ForkReturns(e) PROVE Remembering'
<1> DEFINE st == stack[e]
           h == history[e]
           t == Top(e)
           c == Caller(e)
           m == Merge(c.merged, t.vars)
           f == [c EXCEPT !.steps = c.steps + t.steps, !.merged = m]
           done == [f EXCEPT !.wait = "none", !.vars = f.merged, !.merged = <<>>]
           i == Min(c.branches)
           F == SoundFrames(G(e), h)
<1>1. pc[e] = "return" /\ Len(st) > 1 /\ c.wait = "fork" /\ Quiet
  BY DEF ForkReturns, Returns
<1>2. /\ c \in F /\ t \in F /\ graph[e] \in Name
      /\ Len(h) \in Nat /\ 0 \in 0 .. Len(h) /\ c = st[Len(st) - 1] /\ t = Last(st)
  BY <1>1, ReturningFrames DEF Caller, Top
<1>3. \/ /\ c.branches # {}
         /\ stack' = [stack EXCEPT ![e] =
              Append(Front(Front(st)), [f EXCEPT !.branches = c.branches \ {i}]) \o <<Branch(e, f, i)>>]
         /\ Goto(e, "walk")
      \/ /\ c.branches = {} /\ FindJoin(G(e)) # NoNode
         /\ ReturnTo(e, [done EXCEPT !.at = FindJoin(G(e))]) /\ Goto(e, "walk")
      \/ c.branches = {} /\ ReturnTo(e, done) /\ Goto(e, "advance")
  BY DEF ForkReturns
<1>4. st \in Seq(F) /\ h \in Seq(Nodes(G(e)))
  BY <1>1, TopIs DEF Idle, Stacked
<1>5. ASSUME NEW n \in Nodes(G(e)), Steady(G(e), h, n),
             Remembered(Straight(G(e)), h, undone[e], n, st, pc[e])
      PROVE  m[n] \in {t.vars[n], c.merged[n]} /\ m[n] >= t.vars[n] /\ m[n] >= c.merged[n]
  <2>1. PerformedOnce(h, n)
    BY <1>1, <1>5, BranchesSteady DEF Idle
  <2> HIDE DEF t, c
  <2>2. /\ t.vars[n] \in 0 .. Len(h) /\ (t.vars[n] # 0 => h[t.vars[n]] = n)
        /\ c.merged[n] \in 0 .. Len(h) /\ (c.merged[n] # 0 => h[c.merged[n]] = n)
    BY <1>1, <1>2, FrameNames
  <2>3. m[n] = IF t.vars[n] # 0 THEN t.vars[n] ELSE c.merged[n]
    <3>1. c.merged \in TrueVars(G(e), h)
      BY <1>1, <1>2, FrameFields
    <3>2. DOMAIN c.merged = Nodes(G(e))
      BY <3>1 DEF TrueVars
    <3> QED BY <3>2 DEF Merge
  <2> HIDE DEF m
  <2>4. DOMAIN h = 1 .. Len(h)
    BY <1>4
  <2>5. /\ t.vars[n] # 0 => t.vars[n] \in DOMAIN h /\ h[t.vars[n]] = n
        /\ c.merged[n] # 0 => c.merged[n] \in DOMAIN h /\ h[c.merged[n]] = n
        /\ t.vars[n] \in Nat /\ c.merged[n] \in Nat
    BY <1>2, <2>2, <2>4
  <2> QED BY <2>1, <2>3, <2>5, MergeKeeps
<1>6. ASSUME NEW n \in Nodes(G(e))
      PROVE  (\A x \in F : x.vars[n] \in Nat /\ (x.wait = "fork" => x.merged[n] \in Nat))
             /\ \A j \in DOMAIN h : j \in Nat
  BY <1>2, <1>4, FrameNames
<1> HIDE DEF t, c
<1>7. c.steps + t.steps \in Nat /\ m \in TrueVars(G(e), h)
      /\ c.at \in Nodes(G(e)) /\ c.branches \subseteq Outgoing(G(e), c.at)
      /\ c.branches \in SUBSET Edges(G(e))
  <2>1. /\ c.steps \in Nat /\ t.steps \in Nat /\ c.merged \in TrueVars(G(e), h)
        /\ t.vars \in TrueVars(G(e), h)
        /\ c.at \in Nodes(G(e)) /\ c.branches \subseteq Outgoing(G(e), c.at)
        /\ c.branches \in SUBSET Edges(G(e))
    BY <1>1, <1>2, FrameFields
  <2>2. c.steps + t.steps \in Nat
    BY <2>1
  <2> QED BY <2>1, <2>2, MergeIsTrue
<1> HIDE DEF m
<1>8. /\ f \in F /\ f.wait = "fork" /\ f.branches = c.branches
      /\ f.at = c.at /\ f.vars = c.vars /\ f.merged = m
  BY <1>1, <1>2, <1>7 DEF SoundFrames, FrameShape
<1> HIDE DEF f
<1>9. ASSUME NEW l, NEW d \in F, d.wait = "none", d.vars = m, l \notin Idle, Goto(e, l), ReturnTo(e, d)
      PROVE  Remembering'
  <2> HIDE DEF F
  <2>1. ASSUME NEW n \in Nodes(G(e)), Steady(G(e), h, n),
               Remembered(Straight(G(e)), h, undone[e], n, st, pc[e])
        PROVE  Remembered(Straight(G(e)), h, undone[e], n, Append(Front(Front(st)), d), l)
    <3>1. d.vars[n] \in {Last(st).vars[n], st[Len(st) - 1].merged[n]}
          /\ d.vars[n] >= Last(st).vars[n] /\ d.vars[n] >= st[Len(st) - 1].merged[n]
      BY <1>2, <1>5, <1>9, <2>1
    <3>2. pc[e] \notin Ended /\ st[Len(st) - 1].wait = "fork"
      BY <1>1, <1>2 DEF Ended
    <3> QED BY <1>1, <1>4, <1>6, <1>9, <2>1, <3>1, <3>2, JoinRemembered
  <2>2. Keeps(e, undone[e], Append(Front(Front(st)), d), l)
    BY <2>1 DEF Keeps
  <2> QED BY <1>1, <1>9, <2>2, ReturnRemembers DEF Idle
<1>10. CASE c.branches = {}
  <2>1. done \in F /\ done.wait = "none" /\ done.vars = m
    BY <1>7, <1>8, <1>10 DEF SoundFrames, FrameShape
  <2> HIDE DEF done
  <2>2. ASSUME FindJoin(G(e)) # NoNode
        PROVE  /\ [done EXCEPT !.at = FindJoin(G(e))] \in F /\ [done EXCEPT !.at = FindJoin(G(e))].wait = "none"
               /\ [done EXCEPT !.at = FindJoin(G(e))].vars = m
    <3>1. FindJoin(G(e)) \in Nodes(G(e))
      BY <1>2, <1>7, <2>2, Navigation
    <3> QED BY <2>1, <3>1, FrameMoved, MovedVars
  <2> QED BY <1>3, <1>9, <1>10, <2>1, <2>2 DEF Idle
<1>11. CASE c.branches # {}
  <2> DEFINE B == c.branches \ {i}
             k == [f EXCEPT !.branches = B]
             b == Branch(e, f, i)
  <2>1. Edges(G(e)) \in SUBSET Nat
    BY <1>2, EdgesLead
  <2>2. i \in c.branches
    BY <1>7, <1>11, <2>1, MinIsLeast
  <2>3. i \in Outgoing(G(e), c.at)
    BY <1>7, <2>2
  <2>4. B \subseteq Outgoing(G(e), f.at) /\ B \subseteq Edges(G(e))
    BY <1>7, <1>8
  <2>5. b \in F /\ b.wait = "none" /\ b.vars = f.vars
    BY <1>2, <1>7, <1>8, <2>3, BranchIsSound DEF Branch, Frame
  <2> HIDE DEF B, b
  <2>6. k \in F /\ k.wait = "fork" /\ k.vars = c.vars /\ k.merged = m
    BY <1>8, <2>4 DEF SoundFrames, FrameShape
  <2>7. stack' = [stack EXCEPT ![e] = Append(Front(Front(st)), k) \o <<b>>] /\ Goto(e, "walk")
    BY <1>3, <1>11 DEF k, b, B
  <2> HIDE DEF k, F
  <2>8. ASSUME NEW n \in Nodes(G(e)), Steady(G(e), h, n),
               Remembered(Straight(G(e)), h, undone[e], n, st, pc[e])
        PROVE  Remembered(Straight(G(e)), h, undone[e], n, Append(Front(Front(st)), k) \o <<b>>, "walk")
    <3>1. k.merged[n] \in {Last(st).vars[n], st[Len(st) - 1].merged[n]}
          /\ k.merged[n] >= Last(st).vars[n] /\ k.merged[n] >= st[Len(st) - 1].merged[n]
          /\ k.vars[n] = st[Len(st) - 1].vars[n] /\ b.vars[n] = k.vars[n]
      BY <1>2, <1>5, <1>8, <2>5, <2>6, <2>8
    <3>2. pc[e] \notin Ended /\ st[Len(st) - 1].wait = "fork"
      BY <1>1, <1>2 DEF Ended
    <3> QED BY <1>1, <1>4, <1>6, <2>5, <2>6, <2>8, <3>1, <3>2, NextRemembered
  <2>9. Keeps(e, undone[e], Append(Front(Front(st)), k) \o <<b>>, "walk")
    BY <2>8 DEF Keeps
  <2> QED BY <1>1, <2>7, <2>9, QuietRemembers
<1> QED BY <1>10, <1>11

\* Once more performed: what is claimed then was claimed before.
LEMMA SteadyBefore ==
  ASSUME NEW g, NEW S, NEW h \in Seq(S), NEW x \in S, NEW n, Steady(g, Append(h, x), n)
  PROVE  Steady(g, h, n)
<1>1. /\ DOMAIN h = 1 .. Len(h) /\ DOMAIN Append(h, x) = 1 .. Len(h) + 1 /\ Len(h) \in Nat
      /\ \A i \in 1 .. Len(h) : Append(h, x)[i] = h[i]
  BY Grown
<1>2. \A i \in DOMAIN h : i \in DOMAIN Append(h, x) /\ Append(h, x)[i] = h[i]
  BY <1>1
<1>3. PerformedOnce(Append(h, x), n) => PerformedOnce(h, n)
  BY <1>2 DEF PerformedOnce
<1> QED BY <1>3 DEF Steady

LEMMA PerformRemembers ==
  ASSUME IInv, IInv', Remembering, NEW e \in Execution, Perform(e) PROVE Remembering'
<1> DEFINE g == G(e)
           h == history[e]
           st == stack[e]
           f == Stepped(e)
           x == f.at
           h1 == Append(h, x)
           r == [f EXCEPT !.vars[x] = Len(h) + 1]
           F == SoundFrames(g, h)
           D == SoundFrames(g, h1)
<1>1. pc[e] = "walk" /\ UNCHANGED <<graph, undone, outcome, result, storeVars, sagaVars, crashes>>
  BY DEF Perform, Walks
<1>2. f \in F /\ f.wait = "none" /\ f.vars = Top(e).vars /\ x \in Nodes(g)
  BY <1>1, WalkingFrame DEF Idle
<1>3. CASE SetTop(e, f) /\ Goto(e, "error") /\ UNCHANGED history
  <2>1. Quiet
    BY <1>1, <1>3 DEF Quiet
  <2> QED BY <1>1, <1>2, <1>3, <2>1, TopRemembers DEF Idle, Ended
<1>4. CASE history' = [history EXCEPT ![e] = h1] /\ SetTop(e, r) /\ Goto(e, "checkpoint")
  <2>1. /\ history'[e] = h1 /\ stack'[e] = Append(Front(st), r) /\ pc'[e] = "checkpoint"
        /\ undone'[e] = undone[e] /\ G(e)' = g /\ outcome'[e] = outcome[e] /\ result'[e] = result[e]
        /\ \A y \in Execution \ {e} :
             history'[y] = history[y] /\ stack'[y] = stack[y] /\ pc'[y] = pc[y]
    BY <1>1, <1>4 DEF IInv, Tables, SetTop, Goto, G
  <2>2. ASSUME NEW y \in Execution, y # e PROVE Answers(y)'
    BY <1>1, <2>1, <2>2, OthersRemember
  <2>3. /\ st \in Seq(F) /\ st # <<>> /\ Top(e) = Last(st) /\ h \in Seq(Nodes(g))
        /\ Len(h) \in Nat /\ Last(st) \in F
    BY <1>1, TopIs DEF Idle, Stacked, Top
  <2>4. undone[e] \subseteq DOMAIN h
    BY DEF IInv, Good, Shaped
  <2>5. /\ \A y \in F : y \in D
        /\ \A k \in 1 .. Len(st) : st[k] \in F
    BY <1>2, <2>3, FramesStaySound
  <2>6. r \in D /\ r.wait = "none" /\ r.vars = [Top(e).vars EXCEPT ![x] = Len(h) + 1]
        /\ Top(e).vars \in TrueVars(g, h)
    <3>1. f.vars \in TrueVars(g, h)
      BY <1>2, FrameFields
    <3>2. /\ [f.vars EXCEPT ![x] = Len(h) + 1] \in TrueVars(g, h1)
      BY <1>2, <2>3, <3>1, VarsStayTrue
    <3>3. f \in D
      BY <1>2, <2>5
    <3> HIDE DEF f, x, h1
    <3>4. r.vars = [f.vars EXCEPT ![x] = Len(h) + 1] /\ r.wait = f.wait
      BY <3>3 DEF SoundFrames, FrameShape
    <3>5. r \in D
      BY <1>2, <3>2, <3>3 DEF SoundFrames, FrameShape
    <3> QED BY <1>2, <3>1, <3>4, <3>5
  <2>7. ASSUME NEW n \in Nodes(g), Steady(g, h1, n)
        PROVE  Remembered(Straight(g), h1, undone[e], n, Append(Front(st), r), "checkpoint")
    <3>1. Steady(g, h, n)
      BY <1>2, <2>3, <2>7, SteadyBefore
    <3>2. Remembered(Straight(g), h, undone[e], n, st, pc[e])
      BY <3>1 DEF Remembering, Answers
    <3>3. Last(st).vars[n] \in 0 .. Len(h) /\ \A y \in F : y.mark \in 0 .. Len(h)
      BY <2>3, FrameNames
    <3>4. r.vars[n] = IF n = x THEN Len(h) + 1 ELSE Last(st).vars[n]
      <4>1. Top(e).vars \in [Nodes(g) -> 0 .. Len(h)]
        BY <2>6 DEF TrueVars
      <4> HIDE DEF x, r
      <4> QED BY <2>3, <2>6, <4>1
    <3>5. pc[e] \notin Ended /\ \A k \in 1 .. Len(st) : st[k] \in D
      BY <1>1, <2>5 DEF Ended
    <3> HIDE DEF F, D, r, x
    <3> QED BY <1>2, <2>3, <2>4, <2>6, <3>2, <3>3, <3>4, <3>5, PerformRemembered
  <2>8. Answers(e)'
    <3>1. outcome'[e] = "none"
      BY <1>1, <2>1, Unanswered
    <3> HIDE DEF h1, r
    <3> QED BY <2>1, <2>7, <3>1 DEF Answers
  <2> QED BY <1>1, <2>2, <2>8 DEF Remembering
<1> QED BY <1>3, <1>4 DEF Perform

LEMMA BeginRemembers ==
  ASSUME IInv, IInv', Remembering, NEW e \in Execution, Begin(e) PROVE Remembering'
<1> DEFINE g == G(e)
           f == Frame(g.entry, NoNode, 0, Unset(e))
           F == SoundFrames(g, history[e])
<1>1. /\ pc[e] = "new" /\ Goto(e, "walk") /\ stack' = [stack EXCEPT ![e] = <<f>>]
      /\ UNCHANGED <<graph, history, undone, outcome, result>>
  BY DEF Begin
<1>2. history[e] = <<>> /\ undone[e] = {}
  <2>1. history[e] = <<>> /\ undone[e] \subseteq DOMAIN history[e]
    BY <1>1 DEF IInv, Good, Stored, Shaped
  <2> QED BY <2>1
<1>3. <<f>> \in Seq(F)
  <2>1. stack'[e] = <<f>> /\ G(e)' = g
    BY <1>1 DEF IInv, Tables, G
  <2> QED BY <1>1, <2>1 DEF IInv, Good, Shaped, Stacked
<1>4. f \in F /\ f.wait = "none" /\ f.vars = Unset(e)
  BY <1>3 DEF Frame
<1> HIDE DEF F, f
<1>5. ASSUME NEW n \in Nodes(g)
      PROVE  Remembered(Straight(g), history[e], undone[e], n, <<f>>, "walk")
  <2>1. f.vars[n] = 0 /\ <<f>> = Append(<<>>, f) /\ <<>> \in Seq(F)
    BY <1>4 DEF Unset
  <2>2. Tidy(Straight(g), history[e], undone[e], n, <<>>, f)
    BY <1>2, <1>4, <2>1 DEF Tidy
  <2>3. AllTidy(Straight(g), history[e], undone[e], n, <<>>)
    BY DEF AllTidy
  <2>4. UpToDate(history[e], undone[e], n, <<>>, f)
    BY <1>2 DEF UpToDate, Standing
  <2> QED BY <1>4, <2>1, <2>2, <2>3, <2>4, RememberedBy
<1>6. Keeps(e, undone[e], <<f>>, "walk")
  BY <1>5 DEF Keeps
<1>7. undone' = [undone EXCEPT ![e] = undone[e]]
  BY <1>1 DEF IInv, Tables
<1> QED BY <1>1, <1>6, <1>7, StepRemembers

\* An execution that is over holds nothing any more.
LEMMA NothingHeld ==
  ASSUME NEW s, NEW h, NEW U, NEW n, NEW l \in Ended
  PROVE  Remembered(s, h, U, n, <<>>, l)
BY DEF Remembered, AllTidy

\* The innermost frame of an execution that has only one names what is latest.
LEMMA LastNamesLatest ==
  ASSUME NEW F, NEW st \in Seq(F), Len(st) = 1, NEW s, NEW N, NEW h \in Seq(N), NEW U, NEW n, NEW l,
         Remembered(s, h, U, n, st, l), l \notin Ended,
         Last(st).vars[n] \in 0 .. Len(h), Last(st).vars[n] # 0 => h[Last(st).vars[n]] = n
  PROVE  Last(st).vars[n] = Latest(h, U, n)
<1> DEFINE v == Last(st).vars[n]
           S == {0} \cup Standing(h, U, n)
<1>1. st # <<>>
  <2>1. \A w \in Seq(F) : Len(w) > 0 => w # <<>>
    OBVIOUS
  <2>2. Len(st) > 0
    OBVIOUS
  <2> QED BY <2>1, <2>2
<1>2. Len(Front(st)) = 0 /\ Tidy(s, h, U, n, Front(st), Last(st))
  BY <1>1, FrontIs, TopTidy DEF Remembered
<1>3. DOMAIN h = 1 .. Len(h) /\ Len(h) \in Nat
  OBVIOUS
<1>4. v \in S
  BY <1>2, <1>3 DEF Tidy, Standing
<1>5. \A i \in Standing(h, U, n) : v >= i
  <2>1. \A i \in Standing(h, U, n) : Knows(Front(st), Last(st), n, i)
    BY DEF Remembered, UpToDate
  <2>2. \A i : ~Beneath(Front(st), n, i)
    BY <1>2 DEF Beneath
  <2> QED BY <2>1, <2>2 DEF Knows
<1>6. S \in SUBSET (0 .. Len(h))
  BY <1>3 DEF Standing
<1> HIDE DEF v
<1>7. v \in 0 .. Len(h) /\ \A i \in S : v >= i
  BY <1>5, <1>6 DEF v
<1> HIDE DEF S
<1>8. Max(S) \in S /\ \A y \in S : Max(S) >= y
  BY <1>3, <1>4, <1>6, MaxIsGreatest
<1>9. v = Max(S)
  <2>1. Max(S) \in 0 .. Len(h)
    BY <1>6, <1>8
  <2>2. v >= Max(S) /\ Max(S) >= v
    BY <1>4, <1>7, <1>8
  <2> QED BY <1>3, <1>7, <2>1, <2>2
<1> QED BY <1>9 DEF Latest, S, v

\* The end of an execution, and what is claimed of its answer.
LEMMA OverRemembers ==
  ASSUME IInv, Remembering, NEW e \in Execution, NEW how, Over(e, how),
         result' = [x \in Execution |-> result'[x]],
         \A x \in Execution \ {e} : result'[x] = result[x],
         \A n \in Nodes(G(e)) : Steady(G(e), history[e], n) /\ how = "ok" =>
           result'[e][n] = Latest(history[e], undone[e], n)
  PROVE  Remembering'
<1>1. /\ pc'[e] = "done" /\ stack'[e] = <<>> /\ outcome'[e] = how /\ G(e)' = G(e)
      /\ UNCHANGED <<graph, history, undone>>
      /\ \A x \in Execution \ {e} : pc'[x] = pc[x] /\ stack'[x] = stack[x] /\ outcome'[x] = outcome[x]
  BY OverIs
<1>2. ASSUME NEW x \in Execution, x # e PROVE Answers(x)'
  BY <1>1, <1>2, OthersRemember
<1>3. Answers(e)'
  <2>1. \A n : Remembered(Straight(G(e)), history[e], undone[e], n, <<>>, "done")
    BY NothingHeld DEF Ended
  <2> QED BY <1>1, <2>1 DEF Answers
<1> QED BY <1>2, <1>3 DEF Remembering

LEMMA FinishRemembers ==
  ASSUME IInv, Remembering, NEW e \in Execution, Finish(e) PROVE Remembering'
<1> DEFINE st == stack[e]
           h == history[e]
           F == SoundFrames(G(e), h)
<1>1. Len(st) = 1
  BY DEF Finish
<1>2. CASE pc[e] = "return" /\ Over(e, "ok") /\ result' = [result EXCEPT ![e] = Top(e).vars]
  <2>1. /\ result' = [x \in Execution |-> result'[x]] /\ result'[e] = Top(e).vars
        /\ \A x \in Execution \ {e} : result'[x] = result[x]
    BY <1>2 DEF Remembering
  <2>2. /\ st \in Seq(F) /\ h \in Seq(Nodes(G(e))) /\ Len(h) \in Nat
        /\ Top(e) \in F /\ Top(e) = Last(st) /\ pc[e] \notin Ended
    BY <1>2, TopIs DEF Idle, Ended, Stacked, Top
  <2>3. ASSUME NEW n \in Nodes(G(e)), Steady(G(e), h, n)
        PROVE  result'[e][n] = Latest(h, undone[e], n)
    <3>1. Remembered(Straight(G(e)), h, undone[e], n, st, pc[e])
      BY <2>3 DEF Remembering, Answers
    <3>2. Last(st).vars[n] \in 0 .. Len(h) /\ (Last(st).vars[n] # 0 => h[Last(st).vars[n]] = n)
      BY <2>2, FrameNames
    <3> HIDE DEF F
    <3>3. Last(st).vars[n] = Latest(h, undone[e], n)
      BY <1>1, <2>2, <3>1, <3>2, LastNamesLatest
    <3> QED BY <2>1, <2>2, <3>3
  <2> QED BY <1>2, <2>1, <2>3, OverRemembers
<1>3. CASE pc[e] = "error" /\ Over(e, "err") /\ UNCHANGED result
  <2>1. /\ result' = [x \in Execution |-> result'[x]]
        /\ \A x \in Execution \ {e} : result'[x] = result[x]
    BY <1>3 DEF Remembering
  <2> QED BY <1>3, <2>1, OverRemembers
<1> QED BY <1>2, <1>3 DEF Finish

LEMMA DropRemembers ==
  ASSUME IInv, Remembering, NEW e \in Execution, Drop(e) PROVE Remembering'
<1>1. Over(e, "dropped") /\ UNCHANGED result
  BY DEF Drop
<1>2. /\ result' = [x \in Execution |-> result'[x]]
      /\ \A x \in Execution \ {e} : result'[x] = result[x]
  BY <1>1 DEF Remembering
<1> QED BY <1>1, <1>2, OverRemembers

\* Compensation and the purge leave the walks alone,
LEMMA AsideRemembers ==
  ASSUME Remembering, UNCHANGED walkVars PROVE Remembering'
<1>1. UNCHANGED <<graph, pc, stack, history, undone, outcome, result>>
  BY DEF walkVars
<1>2. \A x \in Execution : Answers(x)'
  BY <1>1, OthersRemember
<1> QED BY <1>1, <1>2 DEF Remembering

\* and after a restart there are none.
LEMMA RestartRemembers ==
  ASSUME IInv, Remembering, Restart PROVE Remembering'
<1>1. /\ UNCHANGED <<graph, history, undone, result>>
      /\ \A e \in Execution : /\ stack'[e] = <<>>
                              /\ pc'[e] \in {pc[e], "done"} /\ (pc[e] \notin Idle => pc'[e] = "done")
                              /\ outcome'[e] \in {outcome[e], "lost"}
  BY DEF Restart, Idle
<1>2. ASSUME NEW e \in Execution PROVE Answers(e)'
  <2>1. Answers(e) /\ G(e)' = G(e)
    BY <1>1 DEF Remembering, G
  <2>2. pc'[e] \in Ended
    BY <1>1 DEF Idle, Ended
  <2>3. \A n : Remembered(Straight(G(e)), history[e], undone[e], n, <<>>, pc'[e])
    BY <2>2, NothingHeld
  <2> QED BY <1>1, <2>1, <2>3 DEF Answers
<1> QED BY <1>1, <1>2 DEF Remembering

LEMMA InitRemembers == Init => Remembering
<1> SUFFICES ASSUME Init PROVE Remembering
  OBVIOUS
<1>1. ASSUME NEW e \in Execution PROVE Answers(e)
  <2>1. stack[e] = <<>> /\ pc[e] = "new" /\ outcome[e] = "none"
    BY DEF Init
  <2>2. \A n : Remembered(Straight(G(e)), history[e], undone[e], n, stack[e], pc[e])
    BY <2>1, NothingHeld DEF Ended
  <2> QED BY <2>1, <2>2 DEF Answers
<1> QED BY <1>1 DEF Init, Remembering

LEMMA NextRemembers == ASSUME IInv, IInv', Remembering, [Next]_vars PROVE Remembering'
<1>1. CASE UNCHANGED vars
  BY <1>1, AsideRemembers DEF vars
<1>2. ASSUME NEW e \in Execution, Walk(e) PROVE Remembering'
  BY <1>2, TooManyStepsRemembers, PassRemembers, PerformRemembers, CheckpointRemembers,
     AdvanceRemembers, StopRemembers, ChooseRemembers, EnterLoopRemembers, TurnRemembers,
     LeaveLoopRemembers, EnterBoundaryRemembers, ForkRemembers, LoopReturnsRemembers,
     BoundaryReturnsRemembers, ForkReturnsRemembers, UnwindRemembers, CatchRemembers,
     FinishRemembers DEF Walk
<1>3. ASSUME NEW e \in Execution, Begin(e) \/ Drop(e) PROVE Remembering'
  BY <1>3, BeginRemembers, DropRemembers
<1>4. ASSUME NEW e \in Execution, SetCompensating(e) \/ Collect(e) \/ Compensate(e) PROVE Remembering'
  BY <1>4, AsideRemembers DEF SetCompensating, Collect, Compensate
<1>5. ASSUME PurgeCompleted PROVE Remembering'
  BY <1>5, AsideRemembers DEF PurgeCompleted
<1> QED BY <1>1, <1>2, <1>3, <1>4, <1>5, RestartRemembers DEF Next

\* What execute answers with, node by node: when it succeeds, the variable of an
\* activity holds the last output of it that no error boundary took back (none, if
\* there is none), in any chart without a fork, and in any chart whatever if the
\* activity was performed once at most; whatever loops and boundaries are nested,
\* whatever fails and wherever the process dies.
THEOREM AnswersAreLatest ==
  Spec => [](\A e \in Execution : outcome[e] = "ok" =>
               \A n \in Nodes(G(e)) : Steady(G(e), history[e], n) =>
                 result[e][n] = Latest(history[e], undone[e], n))
<1>1. IInv /\ Remembering /\ [Next]_vars => Remembering'
  BY NextGood, NextRemembers
<1>2. Remembering => \A e \in Execution : outcome[e] = "ok" =>
                       \A n \in Nodes(G(e)) : Steady(G(e), history[e], n) =>
                         result[e][n] = Latest(history[e], undone[e], n)
  BY DEF Remembering, Answers
<1> QED BY InitRemembers, AlwaysGood, <1>1, <1>2, PTL DEF Spec

\* An answer is complete: it has the newest output of every activity, and none that
\* was taken back.  It is so where no chart forks, and as long as no activity of a
\* chart that forks is performed again: a branch that does not perform it still has
\* its old output, and lays that over the new one of another branch.
THEOREM ResultsAreComplete ==
  Spec => []((\A e \in Execution : \A n \in Nodes(G(e)) : Steady(G(e), history[e], n))
               => ResultComplete)
<1>1. (\A e \in Execution : outcome[e] = "ok" =>
         \A n \in Nodes(G(e)) : Steady(G(e), history[e], n) =>
           result[e][n] = Latest(history[e], undone[e], n))
      => ((\A e \in Execution : \A n \in Nodes(G(e)) : Steady(G(e), history[e], n)) => ResultComplete)
  BY DEF ResultComplete, Latest, Standing
<1> QED BY <1>1, AnswersAreLatest, PTL

\* Charts that do not fork answer in full, however their loops and error boundaries
\* are nested: a boundary that catches takes back what its body had set and nothing
\* else, and a body's outputs reach whoever called it.
THEOREM StraightChartsAnswerInFull ==
  ASSUME \A name \in Name : Straight(Graph[name])
  PROVE  Spec => []ResultComplete
<1>1. ASSUME IInv PROVE \A e \in Execution : \A n \in Nodes(G(e)) : Steady(G(e), history[e], n)
  <2>1. \A e \in Execution : graph[e] \in Name
    BY <1>1 DEF IInv, Good, Shaped
  <2>2. \A e \in Execution : Straight(G(e))
    BY <2>1 DEF G
  <2> QED BY <2>2 DEF Steady
<1> QED BY <1>1, AlwaysGood, ResultsAreComplete, PTL

-----------------------------------------------------------------------------
(* How often an activity runs.  What each caller still owes of a count and *)
(* what is due to the innermost walk add up, with the performances so far, *)
(* to no more than the count of the whole chart; a step passes what is due *)
(* on, and only Perform spends it.                                         *)

\* What is to be performed after a call has returned to the frame f,
Owed(g, c, f) ==
  CASE f.wait = "loop" ->
         f.left * Round(g, c, f.at) + Along(g, c, f.boundary, FindExitEdge(g, f.at))
    [] f.wait = "body" -> Along(g, c, f.boundary, FindErrorEdge(g, f.at))
    [] f.wait = "fork" -> c.fork[f.branches] + Joining(g, c, f.boundary, f.at)
    [] OTHER -> 0

\* by the innermost frame,
Due(g, c, f, label) ==
  CASE label = "walk" -> c.walk[f.boundary][f.at]
    [] label \in {"checkpoint", "advance"} -> c.next[f.boundary][f.at]
    [] label = "turn" -> Owed(g, c, f)
    [] OTHER -> 0

\* and by the frames b altogether, y at most: d[k] by the lowest k of them.
Affords(g, c, b, y) ==
  \E d \in [0 .. Len(b) -> Nat] :
    /\ d[Len(b)] <= y
    /\ \A k \in 1 .. Len(b) : d[k - 1] + Owed(g, c, b[k]) <= d[k]

\* The stack may perform r more.
Spends(g, c, r, st, label) ==
  \E y \in Nat : y + Due(g, c, Last(st), label) <= r /\ Affords(g, c, Front(st), y)

Total(g, c) == c.walk[NoNode][g.entry]
Budget(e, n, c) ==
  /\ Times(e, n) <= Total(G(e), c)
  /\ pc[e] \notin Idle => Spends(G(e), c, Total(G(e), c) - Times(e, n), stack[e], pc[e])
Budgeted == \A e \in Execution : \A n \in Nodes(G(e)) : \A c : Counts(G(e), n, c) => Budget(e, n, c)

LEMMA AffordsAppend ==
  ASSUME NEW g, NEW c, NEW F, \A x \in F : Owed(g, c, x) \in Nat, NEW b \in Seq(F), NEW f \in F,
         NEW y \in Nat
  PROVE  Affords(g, c, Append(b, f), y)
           <=> \E z \in Nat : z + Owed(g, c, f) <= y /\ Affords(g, c, b, z)
<1>1. PICK w \in Seq(F), N \in Nat, o \in Nat :
        w = Append(b, f) /\ N = Len(b) /\ o = Owed(g, c, f)
  <2>1. Append(b, f) \in Seq(F) /\ Len(b) \in Nat /\ Owed(g, c, f) \in Nat
    OBVIOUS
  <2> QED BY <2>1
<1>2. Len(w) = N + 1 /\ (\A k \in 1 .. N : w[k] = b[k]) /\ w[N + 1] = f
  BY <1>1
<1>3. \A k \in 1 .. N : Owed(g, c, b[k]) \in Nat
  BY <1>1
<1>4. ASSUME Affords(g, c, w, y)
      PROVE  \E z \in Nat : z + o <= y /\ Affords(g, c, b, z)
  <2>1. PICK d \in [0 .. N + 1 -> Nat] :
          d[N + 1] <= y /\ \A k \in 1 .. N + 1 : d[k - 1] + Owed(g, c, w[k]) <= d[k]
    BY <1>2, <1>4 DEF Affords
  <2>2. PICK a \in [0 .. N -> Nat] : \A k \in 0 .. N : a[k] = d[k]
    <3>1. [k \in 0 .. N |-> d[k]] \in [0 .. N -> Nat]
      OBVIOUS
    <3> QED BY <3>1
  <2>3. \A k \in 1 .. N : a[k - 1] + Owed(g, c, b[k]) <= a[k]
    <3> SUFFICES ASSUME NEW k \in 1 .. N PROVE a[k - 1] + Owed(g, c, b[k]) <= a[k]
      OBVIOUS
    <3>1. k - 1 \in 0 .. N /\ k \in 0 .. N /\ k \in 1 .. N + 1
      OBVIOUS
    <3>2. d[k - 1] + Owed(g, c, w[k]) <= d[k] /\ w[k] = b[k]
      BY <1>2, <2>1, <3>1
    <3> QED BY <2>2, <3>1, <3>2
  <2>4. Affords(g, c, b, a[N])
    <3>1. a[N] \in Nat /\ a[N] <= a[N]
      OBVIOUS
    <3> QED BY <1>1, <2>3, <3>1 DEF Affords
  <2>5. a[N] + o <= y
    <3>1. d[N] + o <= d[N + 1]
      <4>1. N + 1 \in 1 .. N + 1 /\ (N + 1) - 1 = N
        OBVIOUS
      <4> QED BY <1>1, <1>2, <2>1, <4>1
    <3>2. a[N] = d[N] /\ d[N] \in Nat /\ d[N + 1] \in Nat
      BY <2>2
    <3> QED BY <2>1, <3>1, <3>2
  <2>6. a[N] \in Nat
    OBVIOUS
  <2> QED BY <2>4, <2>5, <2>6
<1>5. ASSUME NEW z \in Nat, z + o <= y, Affords(g, c, b, z)
      PROVE  Affords(g, c, w, y)
  <2>1. PICK a \in [0 .. N -> Nat] :
          a[N] <= z /\ \A k \in 1 .. N : a[k - 1] + Owed(g, c, b[k]) <= a[k]
    BY <1>1, <1>5 DEF Affords
  <2>2. PICK d \in [0 .. N + 1 -> Nat] : (\A k \in 0 .. N : d[k] = a[k]) /\ d[N + 1] = y
    <3> DEFINE x == [k \in 0 .. N + 1 |-> IF k <= N THEN a[k] ELSE y]
    <3>1. \A k \in 0 .. N + 1 : IF k <= N THEN a[k] \in Nat ELSE y \in Nat
      OBVIOUS
    <3>2. x \in [0 .. N + 1 -> Nat]
      BY <3>1
    <3>3. (\A k \in 0 .. N : x[k] = a[k]) /\ x[N + 1] = y
      OBVIOUS
    <3> HIDE DEF x
    <3> QED BY <3>2, <3>3
  <2>3. ASSUME NEW k \in 1 .. N + 1 PROVE d[k - 1] + Owed(g, c, w[k]) <= d[k]
    <3>1. CASE k = N + 1
      <4>1. d[N] = a[N] /\ a[N] \in Nat /\ d[N + 1] = y
        BY <2>2
      <4>2. Owed(g, c, w[N + 1]) = o /\ k - 1 = N
        BY <1>1, <1>2, <3>1
      <4> QED BY <1>5, <2>1, <3>1, <4>1, <4>2
    <3>2. CASE k \in 1 .. N
      <4>1. k - 1 \in 0 .. N /\ k \in 0 .. N
        BY <3>2
      <4> QED BY <1>2, <2>1, <2>2, <3>2, <4>1
    <3>3. k = N + 1 \/ k \in 1 .. N
      OBVIOUS
    <3> QED BY <3>1, <3>2, <3>3
  <2>4. d[N + 1] <= y
    BY <2>2
  <2> QED BY <1>2, <2>3, <2>4 DEF Affords
<1> QED BY <1>1, <1>4, <1>5

\* The innermost frame is replaced,
LEMMA SetSpends ==
  ASSUME NEW g, NEW c, NEW F, \A x \in F : Owed(g, c, x) \in Nat, NEW st \in Seq(F), st # <<>>,
         NEW f \in F, NEW l, NEW m, NEW r \in Nat, NEW s \in Nat, Spends(g, c, r, st, l),
         Due(g, c, Last(st), l) \in Nat, Due(g, c, f, m) \in Nat,
         Due(g, c, f, m) + r <= Due(g, c, Last(st), l) + s
  PROVE  Spends(g, c, s, Append(Front(st), f), m)
<1>1. Front(st) \in Seq(F)
  BY FrontIs
<1>2. Front(Append(Front(st), f)) = Front(st) /\ Last(Append(Front(st), f)) = f
  BY <1>1, FrontAppended
<1>3. PICK y \in Nat : y + Due(g, c, Last(st), l) <= r /\ Affords(g, c, Front(st), y)
  BY DEF Spends
<1>4. y + Due(g, c, f, m) <= s
  BY <1>3
<1> QED BY <1>2, <1>3, <1>4 DEF Spends

\* it calls,
LEMMA CallSpends ==
  ASSUME NEW g, NEW c, NEW F, \A x \in F : Owed(g, c, x) \in Nat, NEW st \in Seq(F), st # <<>>,
         NEW f \in F, NEW x \in F, NEW l, NEW m, NEW r \in Nat, Spends(g, c, r, st, l),
         Due(g, c, Last(st), l) \in Nat, Due(g, c, x, m) \in Nat,
         Owed(g, c, f) + Due(g, c, x, m) <= Due(g, c, Last(st), l)
  PROVE  Spends(g, c, r, Append(Front(st), f) \o <<x>>, m)
<1>1. PICK b \in Seq(F) : b = Front(st)
  BY FrontIs
<1>2. PICK y \in Nat : y + Due(g, c, Last(st), l) <= r /\ Affords(g, c, b, y)
  BY <1>1 DEF Spends
<1>3. PICK a \in Seq(F) : a = Append(b, f)
  <2>1. Append(b, f) \in Seq(F)
    OBVIOUS
  <2> QED BY <2>1
<1>4. PICK o \in Nat : o = Owed(g, c, f)
  OBVIOUS
<1>5. y + o \in Nat /\ y + o <= y + o
  OBVIOUS
<1>6. Affords(g, c, Append(b, f), y + o)
  BY <1>2, <1>4, <1>5, AffordsAppend
<1>7. y + o + Due(g, c, x, m) <= r
  BY <1>2, <1>4
<1>8. Front(Append(a, x)) = a /\ Last(Append(a, x)) = x
  BY FrontAppended
<1>9. Spends(g, c, r, Append(a, x), m)
  BY <1>3, <1>5, <1>6, <1>7, <1>8 DEF Spends
<1>10. a \o <<x>> = Append(a, x)
  OBVIOUS
<1> QED BY <1>1, <1>3, <1>9, <1>10

\* or it returns: its caller is then the innermost.
LEMMA CallerSpends ==
  ASSUME NEW g, NEW c, NEW F, \A x \in F : Owed(g, c, x) \in Nat, NEW st \in Seq(F), Len(st) > 1,
         NEW l, NEW r \in Nat, Spends(g, c, r, st, l), Due(g, c, Last(st), l) \in Nat
  PROVE  /\ Front(st) \in Seq(F) /\ Front(st) # <<>> /\ Last(Front(st)) = st[Len(st) - 1]
         /\ Last(Front(st)) \in F /\ Spends(g, c, r, Front(st), "turn")
<1>1. st # <<>>
  <2>1. \A w \in Seq(F) : Len(w) > 0 => w # <<>>
    OBVIOUS
  <2>2. Len(st) > 0
    OBVIOUS
  <2> QED BY <2>1, <2>2
<1>2. /\ Front(st) \in Seq(F) /\ Len(Front(st)) = Len(st) - 1 /\ Len(st) \in Nat
      /\ \A k \in 1 .. Len(st) - 1 : Front(st)[k] = st[k]
  BY <1>1, FrontIs
<1>3. PICK a \in Seq(F) : a = Front(st)
  BY <1>2
<1>4. a # <<>>
  <2>1. \A w \in Seq(F) : Len(w) > 0 => w # <<>>
    OBVIOUS
  <2>2. Len(a) > 0
    BY <1>2, <1>3
  <2> QED BY <2>1, <2>2
<1>5. /\ Front(a) \in Seq(F) /\ Last(a) \in F /\ a = Append(Front(a), Last(a))
      /\ Last(a) = a[Len(a)]
  BY <1>4, FrontIs, FrontThenLast
<1>6. Last(a) = st[Len(st) - 1]
  <2>1. Len(st) - 1 \in 1 .. Len(st) - 1
    BY <1>2
  <2> QED BY <1>2, <1>3, <1>5, <2>1
<1>7. PICK y \in Nat : y + Due(g, c, Last(st), l) <= r /\ Affords(g, c, a, y)
  BY <1>3 DEF Spends
<1>8. PICK z \in Nat : z + Owed(g, c, Last(a)) <= y /\ Affords(g, c, Front(a), z)
  <2>1. PICK b \in Seq(F), f \in F : b = Front(a) /\ f = Last(a)
    BY <1>5
  <2>2. Affords(g, c, Append(b, f), y)
    BY <1>5, <1>7, <2>1
  <2>3. \E z \in Nat : z + Owed(g, c, f) <= y /\ Affords(g, c, b, z)
    BY <2>2, AffordsAppend
  <2> QED BY <2>1, <2>3
<1>9. Due(g, c, Last(a), "turn") = Owed(g, c, Last(a)) /\ Owed(g, c, Last(a)) \in Nat
  BY <1>5 DEF Due
<1>10. z + Due(g, c, Last(a), "turn") <= r
  BY <1>7, <1>8, <1>9
<1>11. Spends(g, c, r, a, "turn")
  BY <1>8, <1>10 DEF Spends
<1> QED BY <1>3, <1>4, <1>5, <1>6, <1>11

-----------------------------------------------------------------------------
(* What a count is made of.                                                *)

LEMMA CountsAre ==
  ASSUME NEW e \in Execution, graph[e] \in Name, NEW g, g = G(e), NEW n, NEW c, Counts(g, n, c)
  PROVE  /\ \A b \in Boundaries(g), m \in Nodes(g) :
              /\ c.walk[b][m] \in Nat /\ c.next[b][m] \in Nat /\ CountsNode(g, n, c, b, m)
              /\ Joining(g, c, b, m) \in Nat /\ Round(g, c, m) \in Nat /\ Rounds(g, m) \in Nat
              /\ Along(g, c, b, FindBodyEdge(g, m)) \in Nat /\ Along(g, c, b, FindExitEdge(g, m)) \in Nat
              /\ Along(g, c, b, FindErrorEdge(g, m)) \in Nat
              /\ Along(g, c, b, BodyOfBoundary(g, m)) \in Nat
         /\ \A b \in Boundaries(g), i \in Edges(g) : Along(g, c, b, i) \in Nat
         /\ \A S \in SUBSET Edges(g) : c.fork[S] \in Nat /\ CountsFork(g, c, S)
         /\ NoNode \in Boundaries(g) /\ Nodes(g) \subseteq Boundaries(g)
         /\ FindJoin(g) \in Boundaries(g)
<1>1. /\ \A b \in Boundaries(g), m \in Nodes(g) :
           c.walk[b][m] \in Nat /\ c.next[b][m] \in Nat /\ CountsNode(g, n, c, b, m)
      /\ \A S \in SUBSET Edges(g) : c.fork[S] \in Nat /\ CountsFork(g, c, S)
  <2>1. /\ c.walk \in [Boundaries(g) -> [Nodes(g) -> Nat]]
        /\ c.next \in [Boundaries(g) -> [Nodes(g) -> Nat]]
        /\ c.fork \in [SUBSET Edges(g) -> Nat]
    BY DEF Counts, CountsOf
  <2> QED BY <2>1 DEF Counts
<1>2. NoNode \in Boundaries(g) /\ Nodes(g) \subseteq Boundaries(g)
  BY DEF Boundaries
<1>3. ASSUME NEW b \in Boundaries(g), NEW i, i = 0 \/ Target(g, i) \in Nodes(g)
      PROVE  Along(g, c, b, i) \in Nat
  BY <1>1, <1>3 DEF Along
<1>4. ASSUME NEW m \in Nodes(g)
      PROVE  /\ FindBodyEdge(g, m) # 0 => Target(g, FindBodyEdge(g, m)) \in Nodes(g)
             /\ FindExitEdge(g, m) # 0 => Target(g, FindExitEdge(g, m)) \in Nodes(g)
             /\ BodyOfBoundary(g, m) # 0 => Target(g, BodyOfBoundary(g, m)) \in Nodes(g)
             /\ FindErrorEdge(g, m) # 0 => Target(g, FindErrorEdge(g, m)) \in Nodes(g)
             /\ FindJoin(g) \in Nodes(g) \cup {NoNode}
             /\ g.repeat[m] \in Nat
  BY Navigation, EdgesLead
<1>5. ASSUME NEW b \in Boundaries(g), NEW m \in Nodes(g)
      PROVE  /\ Joining(g, c, b, m) \in Nat /\ Round(g, c, m) \in Nat /\ Rounds(g, m) \in Nat
             /\ Along(g, c, b, FindBodyEdge(g, m)) \in Nat /\ Along(g, c, b, FindExitEdge(g, m)) \in Nat
             /\ Along(g, c, b, FindErrorEdge(g, m)) \in Nat
             /\ Along(g, c, b, BodyOfBoundary(g, m)) \in Nat
  <2>1. Joining(g, c, b, m) \in Nat
    BY <1>1, <1>4 DEF Joining
  <2>2. Rounds(g, m) \in Nat
    BY <1>4, WorkflowAssumption DEF Rounds
  <2>3. Round(g, c, m) \in Nat
    BY <1>2, <1>3, <1>4 DEF Round
  <2> QED BY <1>3, <1>4, <2>1, <2>2, <2>3
<1>6. (\A i \in Edges(g) : Target(g, i) \in Nodes(g)) /\ g.entry \in Nodes(g)
  BY EdgesLead
<1>7. FindJoin(g) \in Boundaries(g)
  BY <1>4, <1>6 DEF Boundaries
<1> QED BY <1>1, <1>2, <1>3, <1>5, <1>6, <1>7

LEMMA OwedIs ==
  ASSUME NEW e \in Execution, graph[e] \in Name, NEW g, g = G(e), NEW n, NEW c, Counts(g, n, c),
         NEW h, NEW f \in SoundFrames(g, h)
  PROVE  /\ Owed(g, c, f) \in Nat /\ \A l : Due(g, c, f, l) \in Nat
         /\ f.boundary \in Boundaries(g) /\ f.at \in Nodes(g)
<1>1. /\ f.at \in Nodes(g) /\ f.boundary \in Boundaries(g) /\ f.left \in Nat
      /\ f.branches \in SUBSET Edges(g)
  BY FrameFields DEF Boundaries
<1>2. /\ c.walk[f.boundary][f.at] \in Nat /\ c.next[f.boundary][f.at] \in Nat
      /\ Joining(g, c, f.boundary, f.at) \in Nat /\ Round(g, c, f.at) \in Nat
      /\ Along(g, c, f.boundary, FindExitEdge(g, f.at)) \in Nat
      /\ Along(g, c, f.boundary, FindErrorEdge(g, f.at)) \in Nat
      /\ c.fork[f.branches] \in Nat
  BY <1>1, CountsAre
<1>3. f.left * Round(g, c, f.at) \in Nat
  <2>1. \A i, j \in Nat : i * j \in Nat
    OBVIOUS
  <2> QED BY <1>1, <1>2, <2>1
<1>4. Owed(g, c, f) \in Nat
  BY <1>2, <1>3 DEF Owed
<1> QED BY <1>1, <1>2, <1>4 DEF Due

-----------------------------------------------------------------------------
(* Steps that perform nothing.                                             *)

LEMMA OthersBudgeted ==
  ASSUME Budgeted, NEW x \in Execution, graph'[x] = graph[x], history'[x] = history[x],
         pc'[x] = pc[x], stack'[x] = stack[x]
  PROVE  \A n \in Nodes(G(x))' : \A c : Counts(G(x)', n, c) => Budget(x, n, c)'
<1>1. G(x)' = G(x)
  BY DEF G
<1>2. ASSUME NEW n \in Nodes(G(x)), NEW c, Counts(G(x), n, c) PROVE Budget(x, n, c)'
  <2>1. Budget(x, n, c)
    BY <1>2 DEF Budgeted
  <2> QED BY <1>1, <2>1 DEF Budget, Times
<1>3. Nodes(G(x))' = Nodes(G(x))
  BY <1>1
<1> QED BY <1>1, <1>2, <1>3

LEMMA TimesIs ==
  ASSUME IInv, NEW e \in Execution, NEW n
  PROVE  Times(e, n) \in Nat /\ IsFiniteSet({i \in DOMAIN history[e] : history[e][i] = n})
<1>1. history[e] \in Seq(Nodes(G(e))) /\ Len(history[e]) \in Nat
  BY DEF IInv, Good, Shaped
<1>2. IsFiniteSet(1 .. Len(history[e]))
  BY <1>1, FS_Interval
<1>3. {i \in DOMAIN history[e] : history[e][i] = n} \subseteq 1 .. Len(history[e])
  BY <1>1
<1>4. IsFiniteSet({i \in DOMAIN history[e] : history[e][i] = n})
  BY <1>2, <1>3, FS_Subset
<1> QED BY <1>4, FS_CardinalityType DEF Times

\* A step to the stack st is within budget if it spends no more than before.
Saves(e, st, l) ==
  \A n \in Nodes(G(e)) : \A c : \A r \in Nat :
    Counts(G(e), n, c) /\ Spends(G(e), c, r, stack[e], pc[e]) => Spends(G(e), c, r, st, l)

LEMMA StepBudgeted ==
  ASSUME IInv, Budgeted, NEW e \in Execution, NEW l, NEW st, UNCHANGED <<graph, history>>,
         pc[e] \notin Idle, Goto(e, l), stack' = [stack EXCEPT ![e] = st],
         l \in Idle \/ Saves(e, st, l)
  PROVE  Budgeted'
<1>1. /\ pc'[e] = l /\ stack'[e] = st
      /\ \A x \in Execution \ {e} : pc'[x] = pc[x] /\ stack'[x] = stack[x]
  BY DEF IInv, Tables, Goto
<1>2. ASSUME NEW x \in Execution, x # e
      PROVE  \A n \in Nodes(G(x))' : \A c : Counts(G(x)', n, c) => Budget(x, n, c)'
  BY <1>1, <1>2, OthersBudgeted
<1>3. \A n \in Nodes(G(e))' : \A c : Counts(G(e)', n, c) => Budget(e, n, c)'
  <2>1. G(e)' = G(e) /\ Nodes(G(e))' = Nodes(G(e)) /\ graph[e] \in Name
    BY DEF G, IInv, Good, Shaped
  <2>2. ASSUME NEW n \in Nodes(G(e)), NEW c, Counts(G(e), n, c) PROVE Budget(e, n, c)'
    <3>1. Budget(e, n, c)
      BY <2>2 DEF Budgeted
    <3>2. PICK t \in Nat : t = Total(G(e), c)
      <4>1. G(e).entry \in Nodes(G(e))
        BY <2>1, EdgesLead
      <4>2. Total(G(e), c) \in Nat
        BY <2>1, <2>2, <4>1, CountsAre DEF Total
      <4> QED BY <4>2
    <3>3. PICK k \in Nat : k = Times(e, n)
      BY TimesIs
    <3>4. k <= t /\ t - k \in Nat /\ Spends(G(e), c, t - k, stack[e], pc[e])
      BY <3>1, <3>2, <3>3 DEF Budget
    <3>5. l \notin Idle => Spends(G(e), c, t - k, st, l)
      BY <2>2, <3>4 DEF Saves
    <3>6. Times(e, n)' = k
      BY <3>3 DEF Times
    <3> QED BY <1>1, <2>1, <3>2, <3>4, <3>5, <3>6 DEF Budget
  <2> QED BY <2>1, <2>2
<1> QED BY <1>2, <1>3 DEF Budgeted

\* Another label with no more due,
LEMMA RelabelBudgeted ==
  ASSUME IInv, Budgeted, NEW e \in Execution, NEW l, UNCHANGED <<graph, history, stack>>,
         pc[e] \notin Idle, Goto(e, l),
         \A n \in Nodes(G(e)) : \A c : Counts(G(e), n, c) =>
           Due(G(e), c, Top(e), l) <= Due(G(e), c, Top(e), pc[e])
  PROVE  Budgeted'
<1>1. stack' = [stack EXCEPT ![e] = stack[e]]
  BY DEF IInv, Tables
<1>2. Saves(e, stack[e], l)
  <2> SUFFICES ASSUME NEW n \in Nodes(G(e)), NEW c, NEW r \in Nat, Counts(G(e), n, c),
                      Spends(G(e), c, r, stack[e], pc[e])
               PROVE  Spends(G(e), c, r, stack[e], l)
    BY DEF Saves
  <2>1. PICK g, h : g = G(e) /\ h = history[e]
    OBVIOUS
  <2>2. Last(stack[e]) \in SoundFrames(g, h) /\ graph[e] \in Name
    BY <2>1, TopIs DEF Top
  <2>3. Due(g, c, Last(stack[e]), l) \in Nat /\ Due(g, c, Last(stack[e]), pc[e]) \in Nat
    BY <2>1, <2>2, OwedIs
  <2>4. PICK y \in Nat : y + Due(g, c, Last(stack[e]), pc[e]) <= r /\ Affords(g, c, Front(stack[e]), y)
    BY <2>1 DEF Spends
  <2>5. Due(g, c, Last(stack[e]), l) <= Due(g, c, Last(stack[e]), pc[e])
    BY <2>1 DEF Top
  <2>6. y + Due(g, c, Last(stack[e]), l) <= r
    BY <2>3, <2>4, <2>5
  <2> QED BY <2>1, <2>4, <2>6 DEF Spends
<1> QED BY <1>1, <1>2, StepBudgeted

\* What the stack of an execution under way holds of a count.
LEMMA StackOwes ==
  ASSUME IInv, NEW e \in Execution, pc[e] \notin Idle, NEW g, NEW h, g = G(e), h = history[e],
         NEW n, NEW c, Counts(g, n, c)
  PROVE  /\ stack[e] \in Seq(SoundFrames(g, h)) /\ stack[e] # <<>>
         /\ Last(stack[e]) \in SoundFrames(g, h) /\ Last(stack[e]) = Top(e)
         /\ \A x \in SoundFrames(g, h) : Owed(g, c, x) \in Nat /\ \A l : Due(g, c, x, l) \in Nat
<1>1. stack[e] \in Seq(SoundFrames(g, h)) /\ stack[e] # <<>> /\ graph[e] \in Name
  BY TopIs DEF Stacked
<1>2. Last(stack[e]) \in SoundFrames(g, h) /\ Last(stack[e]) = Top(e)
  BY TopIs DEF Top
<1>3. \A x \in SoundFrames(g, h) : Owed(g, c, x) \in Nat /\ \A l : Due(g, c, x, l) \in Nat
  BY <1>1, OwedIs
<1> QED BY <1>1, <1>2, <1>3

\* another innermost frame,
LEMMA TopBudgeted ==
  ASSUME IInv, Budgeted, NEW e \in Execution, NEW l, UNCHANGED <<graph, history>>,
         pc[e] \notin Idle, Goto(e, l), NEW f \in SoundFrames(G(e), history[e]), SetTop(e, f),
         \A n \in Nodes(G(e)) : \A c : Counts(G(e), n, c) =>
           Due(G(e), c, f, l) <= Due(G(e), c, Top(e), pc[e])
  PROVE  Budgeted'
<1>1. stack' = [stack EXCEPT ![e] = Append(Front(stack[e]), f)]
  BY DEF SetTop
<1>2. Saves(e, Append(Front(stack[e]), f), l)
  <2> SUFFICES ASSUME NEW n \in Nodes(G(e)), NEW c, NEW r \in Nat, Counts(G(e), n, c),
                      Spends(G(e), c, r, stack[e], pc[e])
               PROVE  Spends(G(e), c, r, Append(Front(stack[e]), f), l)
    BY DEF Saves
  <2>1. PICK g, h, F : g = G(e) /\ h = history[e] /\ F = SoundFrames(g, h)
    OBVIOUS
  <2>2. /\ stack[e] \in Seq(F) /\ stack[e] # <<>> /\ Last(stack[e]) \in F /\ f \in F
        /\ \A x \in F : Owed(g, c, x) \in Nat /\ \A m : Due(g, c, x, m) \in Nat
    BY <2>1, StackOwes
  <2>3. Due(g, c, f, l) + r <= Due(g, c, Last(stack[e]), pc[e]) + r
    BY <2>1, <2>2, StackOwes
  <2> QED BY <2>1, <2>2, <2>3, SetSpends
<1> QED BY <1>1, <1>2, StepBudgeted

\* a call,
LEMMA CallBudgeted ==
  ASSUME IInv, Budgeted, NEW e \in Execution, UNCHANGED <<graph, history>>,
         pc[e] \notin Idle, Goto(e, "walk"), NEW f \in SoundFrames(G(e), history[e]),
         NEW x \in SoundFrames(G(e), history[e]), Call(e, f, x),
         \A n \in Nodes(G(e)) : \A c : Counts(G(e), n, c) =>
           Owed(G(e), c, f) + Due(G(e), c, x, "walk") <= Due(G(e), c, Top(e), pc[e])
  PROVE  Budgeted'
<1>1. stack' = [stack EXCEPT ![e] = Append(Front(stack[e]), f) \o <<x>>]
  BY DEF Call
<1>2. Saves(e, Append(Front(stack[e]), f) \o <<x>>, "walk")
  <2> SUFFICES ASSUME NEW n \in Nodes(G(e)), NEW c, NEW r \in Nat, Counts(G(e), n, c),
                      Spends(G(e), c, r, stack[e], pc[e])
               PROVE  Spends(G(e), c, r, Append(Front(stack[e]), f) \o <<x>>, "walk")
    BY DEF Saves
  <2>1. PICK g, h, F : g = G(e) /\ h = history[e] /\ F = SoundFrames(g, h)
    OBVIOUS
  <2>2. /\ stack[e] \in Seq(F) /\ stack[e] # <<>> /\ Last(stack[e]) \in F /\ f \in F /\ x \in F
        /\ \A y \in F : Owed(g, c, y) \in Nat /\ \A m : Due(g, c, y, m) \in Nat
    BY <2>1, StackOwes
  <2>3. Owed(g, c, f) + Due(g, c, x, "walk") <= Due(g, c, Last(stack[e]), pc[e])
    BY <2>1, <2>2, StackOwes
  <2> QED BY <2>1, <2>2, <2>3, CallSpends
<1> QED BY <1>1, <1>2, StepBudgeted

\* a return,
LEMMA ReturnBudgeted ==
  ASSUME IInv, Budgeted, NEW e \in Execution, NEW l, UNCHANGED <<graph, history>>,
         pc[e] \notin Idle, Len(stack[e]) > 1, Goto(e, l),
         NEW f \in SoundFrames(G(e), history[e]), ReturnTo(e, f),
         \A n \in Nodes(G(e)) : \A c : Counts(G(e), n, c) =>
           Due(G(e), c, f, l) <= Owed(G(e), c, Caller(e))
  PROVE  Budgeted'
<1>1. stack' = [stack EXCEPT ![e] = Append(Front(Front(stack[e])), f)]
  BY DEF ReturnTo
<1>2. Saves(e, Append(Front(Front(stack[e])), f), l)
  <2> SUFFICES ASSUME NEW n \in Nodes(G(e)), NEW c, NEW r \in Nat, Counts(G(e), n, c),
                      Spends(G(e), c, r, stack[e], pc[e])
               PROVE  Spends(G(e), c, r, Append(Front(Front(stack[e])), f), l)
    BY DEF Saves
  <2>1. PICK g, h, F : g = G(e) /\ h = history[e] /\ F = SoundFrames(g, h)
    OBVIOUS
  <2>2. /\ stack[e] \in Seq(F) /\ Last(stack[e]) \in F /\ f \in F
        /\ \A x \in F : Owed(g, c, x) \in Nat /\ \A m : Due(g, c, x, m) \in Nat
    BY <2>1, StackOwes
  <2>3. PICK a \in Seq(F) : /\ a = Front(stack[e]) /\ a # <<>> /\ Last(a) = Caller(e)
                            /\ Last(a) \in F /\ Spends(g, c, r, a, "turn")
    BY <2>1, <2>2, CallerSpends DEF Caller
  <2>4. Due(g, c, Last(a), "turn") = Owed(g, c, Caller(e)) /\ Due(g, c, f, l) <= Owed(g, c, Caller(e))
    BY <2>1, <2>3 DEF Due
  <2>5. Due(g, c, f, l) + r <= Due(g, c, Last(a), "turn") + r
    BY <2>2, <2>3, <2>4
  <2>6. Spends(g, c, r, Append(Front(a), f), l)
    BY <2>2, <2>3, <2>5, SetSpends
  <2> QED BY <2>1, <2>3, <2>6
<1> QED BY <1>1, <1>2, StepBudgeted

\* and a return to a call.
LEMMA BranchBudgeted ==
  ASSUME IInv, Budgeted, NEW e \in Execution, UNCHANGED <<graph, history>>,
         pc[e] \notin Idle, Len(stack[e]) > 1, Goto(e, "walk"),
         NEW f \in SoundFrames(G(e), history[e]), NEW x \in SoundFrames(G(e), history[e]),
         stack' = [stack EXCEPT ![e] = Append(Front(Front(stack[e])), f) \o <<x>>],
         \A n \in Nodes(G(e)) : \A c : Counts(G(e), n, c) =>
           Owed(G(e), c, f) + Due(G(e), c, x, "walk") <= Owed(G(e), c, Caller(e))
  PROVE  Budgeted'
<1>1. Saves(e, Append(Front(Front(stack[e])), f) \o <<x>>, "walk")
  <2> SUFFICES ASSUME NEW n \in Nodes(G(e)), NEW c, NEW r \in Nat, Counts(G(e), n, c),
                      Spends(G(e), c, r, stack[e], pc[e])
               PROVE  Spends(G(e), c, r, Append(Front(Front(stack[e])), f) \o <<x>>, "walk")
    BY DEF Saves
  <2>1. PICK g, h, F : g = G(e) /\ h = history[e] /\ F = SoundFrames(g, h)
    OBVIOUS
  <2>2. /\ stack[e] \in Seq(F) /\ Last(stack[e]) \in F /\ f \in F /\ x \in F
        /\ \A y \in F : Owed(g, c, y) \in Nat /\ \A m : Due(g, c, y, m) \in Nat
    BY <2>1, StackOwes
  <2>3. PICK a \in Seq(F) : /\ a = Front(stack[e]) /\ a # <<>> /\ Last(a) = Caller(e)
                            /\ Last(a) \in F /\ Spends(g, c, r, a, "turn")
    BY <2>1, <2>2, CallerSpends DEF Caller
  <2>4. Due(g, c, Last(a), "turn") = Owed(g, c, Caller(e))
        /\ Owed(g, c, f) + Due(g, c, x, "walk") <= Owed(g, c, Caller(e))
    BY <2>1, <2>3 DEF Due
  <2>5. Owed(g, c, f) + Due(g, c, x, "walk") <= Due(g, c, Last(a), "turn")
    BY <2>4
  <2>6. Spends(g, c, r, Append(Front(a), f) \o <<x>>, "walk")
    BY <2>2, <2>3, <2>5, CallSpends
  <2> QED BY <2>1, <2>3, <2>6
<1> QED BY <1>1, StepBudgeted

\* What a step leaves on the stack is sound, as the next state is.
LEMMA CalledFrames ==
  ASSUME NEW F, NEW b \in Seq(F), NEW f, NEW x
  PROVE  /\ Append(b, f) \in Seq(F) => f \in F
         /\ Append(b, f) \o <<x>> \in Seq(F) => f \in F /\ x \in F
<1>1. PICK E : E = F \cup {f, x}
  OBVIOUS
<1>2. b \in Seq(E) /\ f \in E /\ x \in E /\ Len(b) \in Nat
  BY <1>1
<1>3. /\ Append(b, f) \in Seq(E) /\ Len(Append(b, f)) = Len(b) + 1 /\ Append(b, f)[Len(b) + 1] = f
  BY <1>2
<1>4. PICK a \in Seq(E) : a = Append(b, f)
  BY <1>3
<1>5. /\ Len(a \o <<x>>) = Len(b) + 2 /\ (a \o <<x>>)[Len(b) + 1] = f /\ (a \o <<x>>)[Len(b) + 2] = x
  <2>1. Len(a) = Len(b) + 1 /\ a[Len(b) + 1] = f
    BY <1>3, <1>4
  <2>2. /\ Len(a \o <<x>>) = Len(a) + 1 /\ (a \o <<x>>)[Len(a) + 1] = x
        /\ \A k \in 1 .. Len(a) : (a \o <<x>>)[k] = a[k]
    OBVIOUS
  <2>3. Len(b) + 1 \in 1 .. Len(a) /\ Len(a) + 1 = Len(b) + 2
    BY <1>2, <2>1
  <2> QED BY <1>2, <2>1, <2>2, <2>3
<1>6. \A w \in Seq(F) : \A k \in 1 .. Len(w) : w[k] \in F
  OBVIOUS
<1>7. Append(b, f) \in Seq(F) => f \in F
  BY <1>2, <1>3, <1>6
<1>8. Append(b, f) \o <<x>> \in Seq(F) => f \in F /\ x \in F
  BY <1>2, <1>4, <1>5, <1>6
<1> QED BY <1>7, <1>8

LEMMA FramesSound ==
  ASSUME IInv, IInv', NEW e \in Execution, UNCHANGED <<graph, history>>, pc[e] \notin Idle,
         NEW f, NEW x
  PROVE  /\ SetTop(e, f) => f \in SoundFrames(G(e), history[e])
         /\ Call(e, f, x) => {f, x} \subseteq SoundFrames(G(e), history[e])
         /\ Len(stack[e]) > 1 =>
              /\ ReturnTo(e, f) => f \in SoundFrames(G(e), history[e])
              /\ stack' = [stack EXCEPT ![e] = Append(Front(Front(stack[e])), f) \o <<x>>]
                   => {f, x} \subseteq SoundFrames(G(e), history[e])
              /\ Caller(e) \in SoundFrames(G(e), history[e])
<1>1. PICK F, st : F = SoundFrames(G(e), history[e]) /\ st = stack[e]
  OBVIOUS
<1>2. st \in Seq(F) /\ st # <<>> /\ Front(st) \in Seq(F)
  BY <1>1, TopIs, FrontIs DEF Stacked
<1>3. stack'[e] \in Seq(F)
  <2>1. Stacked(SoundFrames(G(e)', history[e]'), stack'[e], pc'[e])
    BY DEF IInv, Good, Shaped
  <2> QED BY <1>1, <2>1 DEF Stacked, G
<1>4. \A w : stack' = [stack EXCEPT ![e] = w] => w \in Seq(F)
  BY <1>3 DEF IInv, Tables
<1>5. SetTop(e, f) => f \in F
  BY <1>1, <1>2, <1>4, CalledFrames DEF SetTop
<1>6. Call(e, f, x) => {f, x} \subseteq F
  BY <1>1, <1>2, <1>4, CalledFrames DEF Call
<1>7. ASSUME Len(stack[e]) > 1
      PROVE  /\ ReturnTo(e, f) => f \in F
             /\ stack' = [stack EXCEPT ![e] = Append(Front(Front(stack[e])), f) \o <<x>>]
                  => {f, x} \subseteq F
             /\ Caller(e) \in F
  <2>1. Caller(e) \in F
    BY <1>1, <1>7, CallerIs
  <2>2. Front(Front(st)) \in Seq(F)
    <3>1. Len(Front(st)) = Len(st) - 1 /\ Len(st) \in Nat
      BY <1>2, FrontIs
    <3>2. PICK a \in Seq(F) : a = Front(st)
      BY <1>2
    <3>3. a # <<>>
      <4>1. \A w \in Seq(F) : Len(w) > 0 => w # <<>>
        OBVIOUS
      <4>2. Len(a) > 0
        BY <1>1, <1>7, <3>1, <3>2
      <4> QED BY <4>1, <4>2
    <3> QED BY <3>2, <3>3, FrontIs
  <2> QED BY <1>1, <1>4, <2>1, <2>2, CalledFrames DEF ReturnTo
<1> QED BY <1>1, <1>5, <1>6, <1>7

\* A walk that is over has nothing due.
LEMMA NothingDue ==
  ASSUME NEW g, NEW c, NEW f, NEW l \in {"return", "error"}
  PROVE  Due(g, c, f, l) = 0
BY DEF Due

\* What is due to the walk of a node, and to its next.
LEMMA WalkDue ==
  ASSUME IInv, NEW e \in Execution, pc[e] \notin Idle, NEW g, g = G(e), NEW n, NEW c, Counts(g, n, c),
         NEW b, b = Top(e).boundary, NEW m, m = Top(e).at
  PROVE  /\ Due(g, c, Top(e), "walk") = c.walk[b][m] /\ Due(g, c, Top(e), "advance") = c.next[b][m]
         /\ c.walk[b][m] >= Performed(g, n, c, b, m) /\ g.kind[m] = Kind(e)
         /\ \A i \in Followable(g, m) : c.next[b][m] >= Onto(g, c, b, i)
         /\ g.kind[m] \in Gateways => \A i \in Outgoing(g, m) : c.next[b][m] >= Along(g, c, b, i)
         /\ b \in Boundaries(g) /\ m \in Nodes(g) /\ graph[e] \in Name
         /\ \A l : Due(g, c, Top(e), l) \in Nat
<1>1. Top(e) \in SoundFrames(g, history[e]) /\ graph[e] \in Name
  BY TopIs
<1>2. b \in Boundaries(g) /\ m \in Nodes(g) /\ \A l : Due(g, c, Top(e), l) \in Nat
  BY <1>1, OwedIs
<1>3. CountsNode(g, n, c, b, m)
  BY <1>1, <1>2, CountsAre
<1> QED BY <1>1, <1>2, <1>3 DEF Due, CountsNode, Kind

\* A frame after a step, at another node.
LEMMA FrameAt ==
  ASSUME NEW g, NEW h, NEW f \in SoundFrames(g, h), NEW i
  PROVE  /\ [f EXCEPT !.at = i].boundary = f.boundary /\ [f EXCEPT !.at = i].at = i
         /\ [f EXCEPT !.steps = i].boundary = f.boundary /\ [f EXCEPT !.steps = i].at = f.at
BY DEF SoundFrames, FrameShape

LEMMA SteppedAt ==
  ASSUME IInv, NEW e \in Execution, pc[e] \notin Idle, pc[e] # "turn"
  PROVE  Stepped(e).boundary = Top(e).boundary /\ Stepped(e).at = Top(e).at
<1>1. PICK f : f = Top(e)
  OBVIOUS
<1>2. f \in SoundFrames(G(e), history[e])
  BY <1>1, TopIs
<1>3. Stepped(e) = [f EXCEPT !.steps = f.steps + 1]
  BY <1>1 DEF Stepped
<1> QED BY <1>1, <1>2, <1>3, FrameAt

LEMMA TooManyStepsBudgeted ==
  ASSUME IInv, Budgeted, NEW e \in Execution, TooManySteps(e) PROVE Budgeted'
<1>1. pc[e] = "walk" /\ Goto(e, "error") /\ UNCHANGED <<graph, history, stack>> /\ pc[e] \notin Idle
  BY DEF TooManySteps, Quiet, Idle
<1>2. ASSUME NEW n, NEW c, Counts(G(e), n, c)
      PROVE  Due(G(e), c, Top(e), "error") <= Due(G(e), c, Top(e), pc[e])
  BY <1>1, <1>2, NothingDue, WalkDue
<1> QED BY <1>1, <1>2, RelabelBudgeted

LEMMA CheckpointBudgeted ==
  ASSUME IInv, Budgeted, NEW e \in Execution, Checkpoint(e) PROVE Budgeted'
<1>1. pc[e] = "checkpoint" /\ Goto(e, "advance") /\ UNCHANGED <<graph, history, stack>> /\ pc[e] \notin Idle
  BY DEF Checkpoint, Idle
<1>2. ASSUME NEW n, NEW c, Counts(G(e), n, c)
      PROVE  Due(G(e), c, Top(e), "advance") <= Due(G(e), c, Top(e), "checkpoint")
  <2>1. Due(G(e), c, Top(e), "advance") = Due(G(e), c, Top(e), "checkpoint")
    BY DEF Due
  <2> QED BY <1>1, <1>2, <2>1, WalkDue
<1> QED BY <1>1, <1>2, RelabelBudgeted

LEMMA PassBudgeted ==
  ASSUME IInv, IInv', Budgeted, NEW e \in Execution, Pass(e) PROVE Budgeted'
<1>1. /\ pc[e] = "walk" /\ SetTop(e, Stepped(e)) /\ Goto(e, "advance") /\ pc[e] \notin Idle
      /\ UNCHANGED <<graph, history>>
      /\ Kind(e) \in {"Trigger", "Join", "Noop", "Parallel", "ErrorBoundary"} /\ ~Forks(e)
      /\ Kind(e) = "ErrorBoundary" => BodyOfBoundary(G(e), Top(e).at) = 0
  BY DEF Pass, Walks, Quiet, Idle
<1>2. Stepped(e) \in SoundFrames(G(e), history[e])
  BY <1>1, FramesSound
<1>3. ASSUME NEW n, NEW c, Counts(G(e), n, c)
      PROVE  Due(G(e), c, Stepped(e), "advance") <= Due(G(e), c, Top(e), "walk")
  <2>1. PICK g, b, m : g = G(e) /\ b = Top(e).boundary /\ m = Top(e).at
    OBVIOUS
  <2>2. /\ Due(g, c, Top(e), "walk") = c.walk[b][m] /\ c.walk[b][m] >= Performed(g, n, c, b, m)
        /\ g.kind[m] = Kind(e)
    BY <1>1, <1>3, <2>1, WalkDue
  <2>3. Due(g, c, Stepped(e), "advance") = c.next[b][m]
    BY <1>1, <2>1, SteppedAt DEF Due
  <2>4. Performed(g, n, c, b, m) = c.next[b][m]
    BY <1>1, <2>1, <2>2 DEF Performed, Forks, Loops
  <2> QED BY <2>1, <2>2, <2>3, <2>4
<1> QED BY <1>1, <1>2, <1>3, TopBudgeted

LEMMA StopBudgeted ==
  ASSUME IInv, IInv', Budgeted, NEW e \in Execution, Stop(e) PROVE Budgeted'
<1>1. /\ pc[e] = "walk" /\ SetTop(e, Stepped(e)) /\ pc[e] \notin Idle
      /\ UNCHANGED <<graph, history>>
      /\ Goto(e, "return") \/ Goto(e, "error")
  BY DEF Stop, Walks, Quiet, Idle
<1>2. Stepped(e) \in SoundFrames(G(e), history[e])
  BY <1>1, FramesSound
<1>3. ASSUME NEW n, NEW c, Counts(G(e), n, c), NEW l \in {"return", "error"}
      PROVE  Due(G(e), c, Stepped(e), l) <= Due(G(e), c, Top(e), "walk")
  BY <1>1, <1>3, NothingDue, WalkDue
<1> QED BY <1>1, <1>2, <1>3, TopBudgeted

LEMMA AlongIs ==
  ASSUME NEW e \in Execution, graph[e] \in Name, NEW i \in Edges(G(e)), NEW c, NEW b
  PROVE  Along(G(e), c, b, i) = c.walk[b][Target(G(e), i)]
<1>1. i # 0
  BY EdgesLead
<1> QED BY <1>1 DEF Along

LEMMA AdvanceBudgeted ==
  ASSUME IInv, IInv', Budgeted, NEW e \in Execution, Advance(e) PROVE Budgeted'
<1>1. pc[e] = "advance" /\ UNCHANGED <<graph, history>> /\ pc[e] \notin Idle
  BY DEF Advance, Quiet, Idle
<1>2. ASSUME NEW l \in {"return", "error"}, Goto(e, l), UNCHANGED stack PROVE Budgeted'
  <2>1. ASSUME NEW n, NEW c, Counts(G(e), n, c)
        PROVE  Due(G(e), c, Top(e), l) <= Due(G(e), c, Top(e), "advance")
    BY <1>1, <2>1, NothingDue, WalkDue
  <2> QED BY <1>1, <1>2, <2>1, RelabelBudgeted
<1>3. ASSUME NEW i \in Followable(G(e), Top(e).at),
             ~(Top(e).boundary # NoNode /\ Target(G(e), i) = Top(e).boundary),
             Goto(e, "walk"), SetTop(e, [Top(e) EXCEPT !.at = Target(G(e), i)])
      PROVE  Budgeted'
  <2>1. PICK g, b, m, f : /\ g = G(e) /\ b = Top(e).boundary /\ m = Top(e).at
                          /\ f = [Top(e) EXCEPT !.at = Target(G(e), i)]
    OBVIOUS
  <2>2. f.boundary = b /\ f.at = Target(g, i)
    BY <1>1, <2>1, TopIs, FrameAt
  <2>3. f \in SoundFrames(G(e), history[e])
    BY <1>1, <1>3, <2>1, FramesSound
  <2>4. ASSUME NEW n, NEW c, Counts(G(e), n, c)
        PROVE  Due(G(e), c, f, "walk") <= Due(G(e), c, Top(e), "advance")
    <3>1. /\ Due(g, c, Top(e), "advance") = c.next[b][m] /\ c.next[b][m] >= Onto(g, c, b, i)
          /\ graph[e] \in Name /\ m \in Nodes(g)
      <4>1. Counts(g, n, c) /\ i \in Followable(g, m)
        BY <1>3, <2>1, <2>4
      <4>2. Due(g, c, Top(e), "advance") = c.next[b][m] /\ graph[e] \in Name /\ m \in Nodes(g)
        BY <1>1, <2>1, <4>1, WalkDue
      <4>3. c.next[b][m] >= Onto(g, c, b, i)
        BY <1>1, <2>1, <4>1, WalkDue
      <4> QED BY <4>2, <4>3
    <3>2. Onto(g, c, b, i) = Along(g, c, b, i)
      BY <1>3, <2>1 DEF Onto
    <3>3. Along(g, c, b, i) = c.walk[b][Target(g, i)]
      <4>1. i \in Edges(g)
        BY <1>3, <2>1, <3>1, EdgesLead DEF Followable
      <4> QED BY <2>1, <3>1, <4>1, AlongIs
    <3>4. Due(g, c, f, "walk") = c.walk[b][Target(g, i)]
      BY <2>2 DEF Due
    <3> QED BY <2>1, <3>1, <3>2, <3>3, <3>4
  <2>5. SetTop(e, f)
    BY <1>3, <2>1
  <2> QED BY <1>1, <1>3, <2>3, <2>4, <2>5, TopBudgeted
<1> QED BY <1>2, <1>3 DEF Advance

LEMMA ChooseBudgeted ==
  ASSUME IInv, IInv', Budgeted, NEW e \in Execution, Choose(e) PROVE Budgeted'
<1>1. pc[e] = "walk" /\ UNCHANGED <<graph, history>> /\ pc[e] \notin Idle /\ Kind(e) \in Gateways
  BY DEF Choose, Walks, Quiet, Idle
<1>2. CASE Goto(e, "error") /\ SetTop(e, Stepped(e))
  <2>1. Stepped(e) \in SoundFrames(G(e), history[e])
    BY <1>1, <1>2, FramesSound
  <2>2. ASSUME NEW n, NEW c, Counts(G(e), n, c)
        PROVE  Due(G(e), c, Stepped(e), "error") <= Due(G(e), c, Top(e), "walk")
    BY <1>1, <2>2, NothingDue, WalkDue
  <2> QED BY <1>1, <1>2, <2>1, <2>2, TopBudgeted
<1>3. ASSUME NEW i \in Outgoing(G(e), Top(e).at), Goto(e, "walk"),
             SetTop(e, [Stepped(e) EXCEPT !.at = Target(G(e), i)])
      PROVE  Budgeted'
  <2>1. PICK g, b, m, t, f : /\ g = G(e) /\ b = Top(e).boundary /\ m = Top(e).at /\ t = Stepped(e)
                             /\ f = [t EXCEPT !.at = Target(G(e), i)]
    OBVIOUS
  <2>2. f.boundary = b /\ f.at = Target(g, i)
    <3>1. t \in SoundFrames(G(e), history[e]) /\ t.boundary = b
      BY <1>1, <2>1, WalkingFrame, SteppedAt
    <3> QED BY <2>1, <3>1, FrameAt
  <2>3. f \in SoundFrames(G(e), history[e]) /\ SetTop(e, f)
    BY <1>1, <1>3, <2>1, FramesSound
  <2>4. ASSUME NEW n, NEW c, Counts(G(e), n, c)
        PROVE  Due(G(e), c, f, "walk") <= Due(G(e), c, Top(e), "walk")
    <3>1. /\ Due(g, c, Top(e), "walk") = c.walk[b][m] /\ c.walk[b][m] >= Performed(g, n, c, b, m)
          /\ g.kind[m] \in Gateways /\ c.next[b][m] >= Along(g, c, b, i)
          /\ graph[e] \in Name /\ m \in Nodes(g) /\ b \in Boundaries(g)
      BY <1>1, <1>3, <2>1, <2>4, WalkDue
    <3>2. Performed(g, n, c, b, m) = c.next[b][m]
      BY <3>1 DEF Performed, Gateways, Loops
    <3>3. i \in Edges(g)
      BY <1>3, <2>1, <3>1, EdgesLead
    <3>4. Along(g, c, b, i) = c.walk[b][Target(g, i)] /\ Along(g, c, b, i) \in Nat
      BY <2>1, <2>4, <3>1, <3>3, AlongIs, CountsAre
    <3>5. Due(g, c, f, "walk") = c.walk[b][Target(g, i)]
      BY <2>2 DEF Due
    <3>6. c.walk[b][m] \in Nat /\ c.next[b][m] \in Nat
      BY <2>1, <2>4, <3>1, CountsAre
    <3> QED BY <2>1, <3>1, <3>2, <3>4, <3>5, <3>6
  <2> QED BY <1>1, <1>3, <2>3, <2>4, TopBudgeted
<1> QED
  <2>1. Stepped(e).at = Top(e).at
    BY <1>1, SteppedAt
  <2> QED BY <1>2, <1>3, <2>1 DEF Choose

LEMMA FewerRounds ==
  ASSUME NEW i \in Nat, NEW j \in Nat, i <= j, NEW r \in Nat
  PROVE  i * r \in Nat /\ j * r \in Nat /\ i * r <= j * r
<1>1. PICK d \in Nat : j = i + d
  <2>1. j - i \in Nat /\ j = i + (j - i)
    OBVIOUS
  <2> QED BY <2>1
<1>2. \A x, y \in Nat : x * y \in Nat
  OBVIOUS
<1>3. (i + d) * r = i * r + d * r
  OBVIOUS
<1> QED BY <1>1, <1>2, <1>3

LEMMA EnterLoopBudgeted ==
  ASSUME IInv, IInv', Budgeted, NEW e \in Execution, EnterLoop(e) PROVE Budgeted'
<1>1. pc[e] = "walk" /\ UNCHANGED <<graph, history>> /\ pc[e] \notin Idle /\ Kind(e) \in Loops
  BY DEF EnterLoop, Walks, Quiet, Idle
<1>2. CASE Goto(e, "error") /\ SetTop(e, Stepped(e))
  <2>1. Stepped(e) \in SoundFrames(G(e), history[e])
    BY <1>1, <1>2, FramesSound
  <2>2. ASSUME NEW n, NEW c, Counts(G(e), n, c)
        PROVE  Due(G(e), c, Stepped(e), "error") <= Due(G(e), c, Top(e), "walk")
    BY <1>1, <2>2, NothingDue, WalkDue
  <2> QED BY <1>1, <1>2, <2>1, <2>2, TopBudgeted
<1>3. ASSUME NEW k \in Nat, k <= Rounds(G(e), Top(e).at), Goto(e, "turn"),
             SetTop(e, [Stepped(e) EXCEPT !.wait = "loop", !.left = k])
      PROVE  Budgeted'
  <2>1. PICK g, b, m, t, f : /\ g = G(e) /\ b = Top(e).boundary /\ m = Top(e).at /\ t = Stepped(e)
                             /\ f = [t EXCEPT !.wait = "loop", !.left = k]
    OBVIOUS
  <2>2. f.boundary = b /\ f.at = m /\ f.wait = "loop" /\ f.left = k
    <3>1. t \in SoundFrames(G(e), history[e]) /\ t.boundary = b /\ t.at = m
      BY <1>1, <2>1, WalkingFrame, SteppedAt
    <3> QED BY <2>1, <3>1 DEF SoundFrames, FrameShape
  <2>3. f \in SoundFrames(G(e), history[e]) /\ SetTop(e, f)
    BY <1>1, <1>3, <2>1, FramesSound
  <2>4. ASSUME NEW n, NEW c, Counts(G(e), n, c)
        PROVE  Due(G(e), c, f, "turn") <= Due(G(e), c, Top(e), "walk")
    <3>1. Counts(g, n, c) /\ k <= Rounds(g, m)
      BY <1>3, <2>1, <2>4
    <3>2. /\ Due(g, c, Top(e), "walk") = c.walk[b][m] /\ c.walk[b][m] >= Performed(g, n, c, b, m)
          /\ g.kind[m] \in Loops /\ graph[e] \in Name /\ m \in Nodes(g) /\ b \in Boundaries(g)
      BY <1>1, <2>1, <3>1, WalkDue
    <3>3. Performed(g, n, c, b, m)
            = Rounds(g, m) * Round(g, c, m) + Along(g, c, b, FindExitEdge(g, m))
      BY <3>2 DEF Performed, Loops
    <3>4. Due(g, c, f, "turn") = k * Round(g, c, m) + Along(g, c, b, FindExitEdge(g, m))
      BY <2>2 DEF Due, Owed
    <3>5. /\ Round(g, c, m) \in Nat /\ Rounds(g, m) \in Nat /\ c.walk[b][m] \in Nat
          /\ Along(g, c, b, FindExitEdge(g, m)) \in Nat
      BY <2>1, <3>1, <3>2, CountsAre
    <3>6. /\ k * Round(g, c, m) \in Nat /\ Rounds(g, m) * Round(g, c, m) \in Nat
          /\ k * Round(g, c, m) <= Rounds(g, m) * Round(g, c, m)
      BY <3>1, <3>5, FewerRounds
    <3> QED BY <2>1, <3>2, <3>3, <3>4, <3>5, <3>6
  <2> QED BY <1>1, <1>3, <2>3, <2>4, TopBudgeted
<1>4. G(e).repeat[Top(e).at] \in Nat /\ MaxItems \in Nat
  BY <1>1, WalkingFrame, EdgesLead, WorkflowAssumption
<1>5. Stepped(e).at = Top(e).at
  BY <1>1, SteppedAt
<1>6. \/ Goto(e, "error") /\ SetTop(e, Stepped(e))
      \/ \E k \in Nat : /\ k <= Rounds(G(e), Top(e).at) /\ Goto(e, "turn")
                        /\ SetTop(e, [Stepped(e) EXCEPT !.wait = "loop", !.left = k])
  <2>1. CASE Kind(e) = "LoopRepeat"
    <3>1. Rounds(G(e), Top(e).at) = G(e).repeat[Top(e).at]
      BY <2>1 DEF Rounds, Kind
    <3>2. G(e).repeat[Top(e).at] <= Rounds(G(e), Top(e).at)
      BY <1>4, <3>1
    <3> QED BY <1>4, <1>5, <2>1, <3>2 DEF EnterLoop
  <2>2. CASE Kind(e) # "LoopRepeat"
    <3>1. Rounds(G(e), Top(e).at) = MaxItems
      BY <2>2 DEF Rounds, Kind
    <3>2. \A k \in 0 .. MaxItems : k \in Nat /\ k <= Rounds(G(e), Top(e).at)
      BY <1>4, <3>1
    <3>3. MaxItems \in 0 .. MaxItems
      BY <1>4
    <3> QED BY <2>2, <3>2, <3>3 DEF EnterLoop
  <2> QED BY <2>1, <2>2
<1> QED BY <1>2, <1>3, <1>6

\* What a loop owes in the middle of its rounds.
LEMMA LoopOwes ==
  ASSUME IInv, NEW e \in Execution, pc[e] = "turn", NEW g, g = G(e), NEW n, NEW c, Counts(g, n, c),
         NEW b, b = Top(e).boundary, NEW m, m = Top(e).at
  PROVE  /\ Due(g, c, Top(e), "turn") = Top(e).left * Round(g, c, m) + Along(g, c, b, FindExitEdge(g, m))
         /\ Round(g, c, m) \in Nat /\ Along(g, c, b, FindExitEdge(g, m)) \in Nat
         /\ Top(e).left \in Nat /\ b \in Boundaries(g) /\ m \in Nodes(g) /\ graph[e] \in Name
<1>1. /\ Top(e) \in SoundFrames(g, history[e]) /\ Top(e).wait = "loop" /\ graph[e] \in Name
  BY TopIs DEF Idle
<1>2. b \in Boundaries(g) /\ m \in Nodes(g) /\ Top(e).left \in Nat
  BY <1>1, FrameFields, OwedIs
<1>3. Round(g, c, m) \in Nat /\ Along(g, c, b, FindExitEdge(g, m)) \in Nat
  BY <1>1, <1>2, CountsAre
<1> QED BY <1>1, <1>2, <1>3 DEF Due, Owed

LEMMA TurnBudgeted ==
  ASSUME IInv, IInv', Budgeted, NEW e \in Execution, Turn(e) PROVE Budgeted'
<1>1. pc[e] = "turn" /\ UNCHANGED <<graph, history>> /\ pc[e] \notin Idle /\ Top(e).left > 0
  BY DEF Turn, Quiet, Idle
<1>2. PICK t, f, g, b, m, body, x :
        /\ t = Top(e) /\ f = [t EXCEPT !.left = t.left - 1]
        /\ g = G(e) /\ b = t.boundary /\ m = t.at /\ body = FindBodyEdge(g, f.at)
        /\ x = Frame(Target(g, body), f.at, f.steps, f.vars)
  OBVIOUS
<1>3. IF body = 0 THEN SetTop(e, f) /\ UNCHANGED pc ELSE Call(e, f, x) /\ Goto(e, "walk")
  BY <1>2 DEF Turn
<1>4. /\ f.boundary = b /\ f.at = m /\ f.wait = "loop" /\ f.left = t.left - 1
  <2>1. t \in SoundFrames(G(e), history[e]) /\ t.wait = "loop"
    BY <1>1, <1>2, TopIs
  <2> QED BY <1>2, <2>1 DEF SoundFrames, FrameShape
<1>5. ASSUME NEW n, NEW c, Counts(G(e), n, c)
      PROVE  /\ Owed(g, c, f) \in Nat
             /\ Owed(g, c, f) + Round(g, c, m) = Due(g, c, Top(e), "turn")
             /\ Round(g, c, m) \in Nat
  <2>1. PICK r, a, l : r = Round(g, c, m) /\ a = Along(g, c, b, FindExitEdge(g, m)) /\ l = t.left
    OBVIOUS
  <2>2. Due(g, c, Top(e), "turn") = l * r + a /\ r \in Nat /\ a \in Nat /\ l \in Nat
    BY <1>1, <1>2, <1>5, <2>1, LoopOwes
  <2>3. Owed(g, c, f) = (l - 1) * r + a
    BY <1>4, <2>1 DEF Owed
  <2>4. l - 1 \in Nat /\ (l - 1) * r + r = l * r
    BY <1>1, <1>2, <2>1, <2>2
  <2>5. (l - 1) * r \in Nat /\ l * r \in Nat
    BY <2>2, <2>4, FewerRounds
  <2> QED BY <2>1, <2>2, <2>3, <2>4, <2>5
<1>6. CASE body = 0
  <2>1. Goto(e, "turn") /\ SetTop(e, f)
    BY <1>1, <1>3, <1>6, SamePc
  <2>2. f \in SoundFrames(G(e), history[e])
    BY <1>1, <2>1, FramesSound
  <2>3. ASSUME NEW n, NEW c, Counts(G(e), n, c)
        PROVE  Due(G(e), c, f, "turn") <= Due(G(e), c, Top(e), "turn")
    <3>1. Due(g, c, f, "turn") = Owed(g, c, f)
      BY DEF Due
    <3> QED BY <1>2, <1>5, <2>3, <3>1
  <2> QED BY <1>1, <2>1, <2>2, <2>3, TopBudgeted
<1>7. CASE body # 0
  <2>1. Goto(e, "walk") /\ Call(e, f, x)
    BY <1>3, <1>7
  <2>2. f \in SoundFrames(G(e), history[e]) /\ x \in SoundFrames(G(e), history[e])
    BY <1>1, <2>1, FramesSound
  <2>3. ASSUME NEW n, NEW c, Counts(G(e), n, c)
        PROVE  Owed(G(e), c, f) + Due(G(e), c, x, "walk") <= Due(G(e), c, Top(e), "turn")
    <3>1. x.boundary = m /\ x.at = Target(g, body)
      BY <1>2, <1>4 DEF Frame
    <3>2. Due(g, c, x, "walk") = c.walk[m][Target(g, body)]
      BY <3>1 DEF Due
    <3>3. Round(g, c, m) = c.walk[m][Target(g, body)]
      BY <1>2, <1>4, <1>7 DEF Round, Along
    <3> QED BY <1>2, <1>5, <2>3, <3>2, <3>3
  <2> QED BY <1>1, <2>1, <2>2, <2>3, CallBudgeted
<1> QED BY <1>6, <1>7

LEMMA LeaveLoopBudgeted ==
  ASSUME IInv, IInv', Budgeted, NEW e \in Execution, LeaveLoop(e) PROVE Budgeted'
<1>1. pc[e] = "turn" /\ UNCHANGED <<graph, history>> /\ pc[e] \notin Idle
  BY DEF LeaveLoop, Quiet, Idle
<1>2. PICK t, f, g, b, m, exit :
        /\ t = Top(e) /\ f = [t EXCEPT !.wait = "none", !.left = 0]
        /\ g = G(e) /\ b = t.boundary /\ m = t.at /\ exit = FindExitEdge(g, f.at)
  OBVIOUS
<1>3. \/ exit # 0 /\ Goto(e, "walk") /\ SetTop(e, [f EXCEPT !.at = Target(g, exit)])
      \/ Goto(e, "error") /\ SetTop(e, f)
  BY <1>2 DEF LeaveLoop
<1>4. /\ f.boundary = b /\ f.at = m
      /\ \A i : [f EXCEPT !.at = i].boundary = b /\ [f EXCEPT !.at = i].at = i
  <2>1. t \in SoundFrames(G(e), history[e])
    BY <1>1, <1>2, TopIs
  <2> QED BY <1>2, <2>1 DEF SoundFrames, FrameShape
<1>5. CASE Goto(e, "error") /\ SetTop(e, f)
  <2>1. f \in SoundFrames(G(e), history[e])
    BY <1>1, <1>5, FramesSound
  <2>2. ASSUME NEW n, NEW c, Counts(G(e), n, c)
        PROVE  Due(G(e), c, f, "error") <= Due(G(e), c, Top(e), "turn")
    BY <1>1, <2>2, NothingDue, WalkDue
  <2> QED BY <1>1, <1>5, <2>1, <2>2, TopBudgeted
<1>6. CASE exit # 0 /\ Goto(e, "walk") /\ SetTop(e, [f EXCEPT !.at = Target(g, exit)])
  <2>1. PICK x : x = [f EXCEPT !.at = Target(g, exit)]
    OBVIOUS
  <2>2. x \in SoundFrames(G(e), history[e]) /\ SetTop(e, x)
    BY <1>1, <1>6, <2>1, FramesSound
  <2>3. ASSUME NEW n, NEW c, Counts(G(e), n, c)
        PROVE  Due(G(e), c, x, "walk") <= Due(G(e), c, Top(e), "turn")
    <3>1. PICK r, a, l : r = Round(g, c, m) /\ a = Along(g, c, b, exit) /\ l = t.left
      OBVIOUS
    <3>2. Due(g, c, Top(e), "turn") = l * r + a /\ r \in Nat /\ a \in Nat /\ l \in Nat
      BY <1>1, <1>2, <1>4, <2>3, <3>1, LoopOwes
    <3>3. l * r \in Nat
      BY <3>2, FewerRounds
    <3>4. a = c.walk[b][Target(g, exit)]
      BY <1>6, <3>1 DEF Along
    <3>5. Due(g, c, x, "walk") = a
      BY <1>4, <2>1, <3>4 DEF Due
    <3> QED BY <1>2, <3>2, <3>3, <3>5
  <2> QED BY <1>1, <1>6, <2>2, <2>3, TopBudgeted
<1> QED BY <1>3, <1>5, <1>6

LEMMA EnterBoundaryBudgeted ==
  ASSUME IInv, IInv', Budgeted, NEW e \in Execution, EnterBoundary(e) PROVE Budgeted'
<1>1. PICK t, f, g, b, m, body, x :
        /\ t = Stepped(e) /\ f = [t EXCEPT !.wait = "body", !.mark = Len(history[e])]
        /\ g = G(e) /\ b = Top(e).boundary /\ m = Top(e).at /\ body = BodyOfBoundary(g, m)
        /\ x = Frame(Target(g, body), NoNode, f.steps, f.vars)
  OBVIOUS
<1>2. /\ pc[e] = "walk" /\ pc[e] \notin Idle /\ UNCHANGED <<graph, history>>
      /\ Kind(e) = "ErrorBoundary" /\ body # 0 /\ Goto(e, "walk") /\ Call(e, f, x)
  BY <1>1 DEF EnterBoundary, Walks, Quiet, Idle
<1>3. f.boundary = b /\ f.at = m /\ f.wait = "body"
  <2>1. t \in SoundFrames(G(e), history[e]) /\ t.boundary = b /\ t.at = m
    BY <1>1, <1>2, WalkingFrame, SteppedAt
  <2> QED BY <1>1, <2>1 DEF SoundFrames, FrameShape
<1>4. f \in SoundFrames(G(e), history[e]) /\ x \in SoundFrames(G(e), history[e])
  BY <1>2, FramesSound
<1>5. ASSUME NEW n, NEW c, Counts(G(e), n, c)
      PROVE  Owed(G(e), c, f) + Due(G(e), c, x, "walk") <= Due(G(e), c, Top(e), "walk")
  <2>1. Counts(g, n, c)
    BY <1>1, <1>5
  <2>2. /\ Due(g, c, Top(e), "walk") = c.walk[b][m] /\ c.walk[b][m] >= Performed(g, n, c, b, m)
        /\ g.kind[m] = "ErrorBoundary" /\ graph[e] \in Name /\ m \in Nodes(g) /\ b \in Boundaries(g)
    BY <1>1, <1>2, <2>1, WalkDue
  <2>3. Performed(g, n, c, b, m) = Along(g, c, NoNode, body) + Along(g, c, b, FindErrorEdge(g, m))
    BY <1>1, <1>2, <2>2 DEF Performed, Loops
  <2>4. Owed(g, c, f) = Along(g, c, b, FindErrorEdge(g, m))
    BY <1>3 DEF Owed
  <2>5. Due(g, c, x, "walk") = Along(g, c, NoNode, body)
    <3>1. x.boundary = NoNode /\ x.at = Target(g, body)
      BY <1>1 DEF Frame
    <3> QED BY <1>2, <3>1 DEF Due, Along
  <2>6. NoNode \in Boundaries(g)
    BY DEF Boundaries
  <2>7. /\ Along(g, c, NoNode, body) \in Nat /\ Along(g, c, b, FindErrorEdge(g, m)) \in Nat
        /\ c.walk[b][m] \in Nat
    BY <1>1, <2>1, <2>2, <2>6, CountsAre
  <2> QED BY <1>1, <2>2, <2>3, <2>4, <2>5, <2>7
<1> QED BY <1>2, <1>4, <1>5, CallBudgeted

\* The first of the branches, and the others.
LEMMA BranchDue ==
  ASSUME NEW e \in Execution, graph[e] \in Name, NEW g, g = G(e), NEW n, NEW c, Counts(g, n, c),
         NEW S \in SUBSET Edges(g), S # {}, NEW i, i = Min(S), NEW f
  PROVE  /\ Due(g, c, Branch(e, f, i), "walk") + c.fork[S \ {i}] <= c.fork[S]
         /\ Due(g, c, Branch(e, f, i), "walk") \in Nat /\ c.fork[S \ {i}] \in Nat /\ c.fork[S] \in Nat
<1>1. i \in Edges(g)
  <2>1. S \in SUBSET Nat
    BY EdgesLead
  <2> QED BY <2>1, MinIsLeast
<1>2. Branch(e, f, i).boundary = FindJoin(g) /\ Branch(e, f, i).at = Target(g, i)
  BY DEF Branch, Frame
<1>3. Due(g, c, Branch(e, f, i), "walk") = Along(g, c, FindJoin(g), i)
  BY <1>1, <1>2, AlongIs DEF Due
<1>4. CountsFork(g, c, S) /\ c.fork[S] \in Nat /\ FindJoin(g) \in Boundaries(g)
  BY CountsAre
<1>5. Along(g, c, FindJoin(g), i) \in Nat
  BY <1>1, <1>4, CountsAre
<1>6. c.fork[S \ {i}] \in Nat
  <2>1. S \ {i} \in SUBSET Edges(g)
    OBVIOUS
  <2> QED BY <2>1, CountsAre
<1> QED BY <1>3, <1>4, <1>5, <1>6 DEF CountsFork

LEMMA ForkBudgeted ==
  ASSUME IInv, IInv', Budgeted, NEW e \in Execution, Fork(e) PROVE Budgeted'
<1>1. PICK t, g, b, m, edges, B, f, x :
        /\ t = Stepped(e) /\ g = G(e) /\ b = Top(e).boundary /\ m = Top(e).at
        /\ edges = Outgoing(g, m) /\ B = edges \ {Min(edges)}
        /\ f = [t EXCEPT !.wait = "fork", !.merged = Top(e).vars, !.branches = B]
        /\ x = Branch(e, f, Min(edges))
  OBVIOUS
<1>2. /\ pc[e] = "walk" /\ pc[e] \notin Idle /\ UNCHANGED <<graph, history>>
      /\ Kind(e) = "Parallel" /\ Cardinality(edges) > 1 /\ Goto(e, "walk") /\ Call(e, f, x)
  BY <1>1 DEF Fork, Walks, Forks, Quiet, Idle
<1>3. f.boundary = b /\ f.at = m /\ f.wait = "fork" /\ f.branches = B
  <2>1. t \in SoundFrames(G(e), history[e]) /\ t.boundary = b /\ t.at = m
    BY <1>1, <1>2, WalkingFrame, SteppedAt
  <2> QED BY <1>1, <2>1 DEF SoundFrames, FrameShape
<1>4. f \in SoundFrames(G(e), history[e]) /\ x \in SoundFrames(G(e), history[e])
  BY <1>2, FramesSound
<1>5. edges # {}
  BY <1>2, FS_EmptySet
<1>6. ASSUME NEW n, NEW c, Counts(G(e), n, c)
      PROVE  Owed(G(e), c, f) + Due(G(e), c, x, "walk") <= Due(G(e), c, Top(e), "walk")
  <2>1. Counts(g, n, c)
    BY <1>1, <1>6
  <2>2. /\ Due(g, c, Top(e), "walk") = c.walk[b][m] /\ c.walk[b][m] >= Performed(g, n, c, b, m)
        /\ g.kind[m] = "Parallel" /\ graph[e] \in Name /\ m \in Nodes(g) /\ b \in Boundaries(g)
    BY <1>1, <1>2, <2>1, WalkDue
  <2>3. Performed(g, n, c, b, m) = c.fork[edges] + Joining(g, c, b, m)
    BY <1>1, <1>2, <2>2 DEF Performed, Loops
  <2>4. Owed(g, c, f) = c.fork[B] + Joining(g, c, b, m)
    BY <1>3 DEF Owed
  <2>5. /\ Due(g, c, x, "walk") + c.fork[B] <= c.fork[edges]
        /\ Due(g, c, x, "walk") \in Nat /\ c.fork[B] \in Nat /\ c.fork[edges] \in Nat
    <3>1. edges \in SUBSET Edges(g)
      BY <1>1, <2>2, EdgesLead
    <3>2. PICK i : i = Min(edges)
      OBVIOUS
    <3> QED BY <1>1, <1>5, <2>1, <2>2, <3>1, <3>2, BranchDue
  <2>6. Joining(g, c, b, m) \in Nat /\ c.walk[b][m] \in Nat
    BY <1>1, <2>1, <2>2, CountsAre
  <2> QED BY <1>1, <2>2, <2>3, <2>4, <2>5, <2>6
<1> QED BY <1>2, <1>4, <1>6, CallBudgeted

\* What is owed by the frame a walk returns to.
LEMMA CallerOwes ==
  ASSUME IInv, NEW e \in Execution, pc[e] \notin Idle, Len(stack[e]) > 1,
         NEW g, g = G(e), NEW n, NEW c, Counts(g, n, c)
  PROVE  /\ Owed(g, c, Caller(e)) \in Nat /\ graph[e] \in Name
         /\ Caller(e).boundary \in Boundaries(g) /\ Caller(e).at \in Nodes(g)
<1>1. Caller(e) \in SoundFrames(g, history[e]) /\ graph[e] \in Name
  BY CallerIs, TopIs
<1> QED BY <1>1, OwedIs

\* A return after which the walk is over,
LEMMA OverBudgeted ==
  ASSUME IInv, IInv', Budgeted, NEW e \in Execution, NEW l \in {"return", "error"}, pc[e] = l,
         UNCHANGED <<graph, history, pc>>, Len(stack[e]) > 1, NEW f, ReturnTo(e, f)
  PROVE  Budgeted'
<1>1. pc[e] \notin Idle /\ Goto(e, l)
  BY SamePc DEF Idle
<1>2. f \in SoundFrames(G(e), history[e])
  BY <1>1, FramesSound
<1>3. ASSUME NEW n, NEW c, Counts(G(e), n, c)
      PROVE  Due(G(e), c, f, l) <= Owed(G(e), c, Caller(e))
  BY <1>1, <1>3, NothingDue, CallerOwes
<1> QED BY <1>1, <1>2, <1>3, ReturnBudgeted

LEMMA BoundaryReturnsBudgeted ==
  ASSUME IInv, IInv', Budgeted, NEW e \in Execution, BoundaryReturns(e) PROVE Budgeted'
BY OverBudgeted DEF BoundaryReturns, Returns, Quiet

LEMMA UnwindBudgeted ==
  ASSUME IInv, IInv', Budgeted, NEW e \in Execution, Unwind(e) PROVE Budgeted'
BY OverBudgeted DEF Unwind, Quiet

\* and those after which it goes on.
LEMMA LoopReturnsBudgeted ==
  ASSUME IInv, IInv', Budgeted, NEW e \in Execution, LoopReturns(e) PROVE Budgeted'
<1>1. /\ pc[e] = "return" /\ pc[e] \notin Idle /\ Len(stack[e]) > 1 /\ Caller(e).wait = "loop"
      /\ ReturnTo(e, Shared(e)) /\ Goto(e, "turn") /\ UNCHANGED <<graph, history>>
  BY DEF LoopReturns, Returns, Quiet, Idle
<1>2. Shared(e) \in SoundFrames(G(e), history[e])
  BY <1>1, FramesSound
<1>3. PICK c0, t, f : c0 = Caller(e) /\ t = Top(e) /\ f = Shared(e)
  OBVIOUS
<1>4. f.boundary = c0.boundary /\ f.at = c0.at /\ f.wait = "loop" /\ c0.wait = "loop" /\ f.left = c0.left
  <2>1. c0 \in SoundFrames(G(e), history[e])
    BY <1>1, <1>3, CallerIs
  <2>2. f = [c0 EXCEPT !.steps = t.steps, !.vars = t.vars]
    BY <1>3 DEF Shared
  <2> QED BY <1>1, <1>3, <2>1, <2>2 DEF SoundFrames, FrameShape
<1>5. ASSUME NEW n, NEW c, Counts(G(e), n, c)
      PROVE  Due(G(e), c, Shared(e), "turn") <= Owed(G(e), c, Caller(e))
  <2>1. Due(G(e), c, f, "turn") = Owed(G(e), c, c0)
    BY <1>4 DEF Due, Owed
  <2>2. Owed(G(e), c, c0) \in Nat
    BY <1>1, <1>3, <1>5, CallerOwes
  <2> QED BY <1>3, <2>1, <2>2
<1> QED BY <1>1, <1>2, <1>5, ReturnBudgeted

LEMMA CatchBudgeted ==
  ASSUME IInv, IInv', Budgeted, NEW e \in Execution, Catch(e) PROVE Budgeted'
<1>1. PICK c0, t, g, f, errors, r :
        /\ c0 = Caller(e) /\ t = Top(e) /\ g = G(e)
        /\ f = [c0 EXCEPT !.wait = "none", !.mark = 0, !.steps = t.steps]
        /\ errors = FindErrorEdge(g, f.at) /\ r = [f EXCEPT !.at = Target(g, errors)]
  OBVIOUS
<1>2. /\ pc[e] = "error" /\ pc[e] \notin Idle /\ Len(stack[e]) > 1 /\ c0.wait = "body"
      /\ UNCHANGED <<graph, history>>
      /\ IF errors = 0 THEN ReturnTo(e, f) /\ UNCHANGED pc ELSE ReturnTo(e, r) /\ Goto(e, "walk")
  BY <1>1 DEF Catch, Returns, Idle
<1>3. CASE errors = 0
  BY <1>2, <1>3, OverBudgeted
<1>4. CASE errors # 0
  <2>1. ReturnTo(e, r) /\ Goto(e, "walk") /\ r \in SoundFrames(G(e), history[e])
    BY <1>2, <1>4, FramesSound
  <2>2. r.boundary = c0.boundary /\ r.at = Target(g, errors) /\ f.at = c0.at
    <3>1. c0 \in SoundFrames(G(e), history[e])
      BY <1>1, <1>2, CallerIs
    <3> QED BY <1>1, <3>1 DEF SoundFrames, FrameShape
  <2>3. ASSUME NEW n, NEW c, Counts(G(e), n, c)
        PROVE  Due(G(e), c, r, "walk") <= Owed(G(e), c, Caller(e))
    <3>1. Owed(g, c, c0) = Along(g, c, c0.boundary, errors)
      BY <1>1, <1>2, <2>2 DEF Owed
    <3>2. Due(g, c, r, "walk") = Along(g, c, c0.boundary, errors)
      BY <1>4, <2>2 DEF Due, Along
    <3>3. Owed(g, c, c0) \in Nat
      BY <1>1, <1>2, <2>3, CallerOwes
    <3> QED BY <1>1, <3>1, <3>2, <3>3
  <2> QED BY <1>2, <2>1, <2>3, ReturnBudgeted
<1> QED BY <1>3, <1>4

LEMMA ForkReturnsBudgeted ==
  ASSUME IInv, IInv', Budgeted, NEW e \in Execution, ForkReturns(e) PROVE Budgeted'
<1>1. PICK c0, t, g, b, m, J, f, done, i, f1, done1 :
        /\ c0 = Caller(e) /\ t = Top(e) /\ g = G(e) /\ b = c0.boundary /\ m = c0.at /\ J = FindJoin(g)
        /\ f = [c0 EXCEPT !.steps = c0.steps + t.steps, !.merged = Merge(c0.merged, t.vars)]
        /\ done = [f EXCEPT !.wait = "none", !.vars = f.merged, !.merged = <<>>]
        /\ i = Min(c0.branches)
        /\ f1 = [f EXCEPT !.branches = c0.branches \ {i}] /\ done1 = [done EXCEPT !.at = J]
  OBVIOUS
<1>2. /\ pc[e] = "return" /\ pc[e] \notin Idle /\ Len(stack[e]) > 1 /\ c0.wait = "fork"
      /\ UNCHANGED <<graph, history>>
  BY <1>1 DEF ForkReturns, Returns, Quiet, Idle
<1>3. c0 \in SoundFrames(G(e), history[e])
  BY <1>1, <1>2, CallerIs
<1>4. /\ f.boundary = b /\ f.at = m /\ f.wait = "fork" /\ f.branches = c0.branches
      /\ f1.boundary = b /\ f1.at = m /\ f1.wait = "fork" /\ f1.branches = c0.branches \ {i}
      /\ done.boundary = b /\ done.at = m /\ done1.boundary = b /\ done1.at = J
  BY <1>1, <1>2, <1>3 DEF SoundFrames, FrameShape
<1>5. \/ /\ c0.branches # {} /\ Goto(e, "walk")
         /\ stack' = [stack EXCEPT ![e] =
              Append(Front(Front(stack[e])), f1) \o <<Branch(e, f, i)>>]
      \/ c0.branches = {} /\ J # NoNode /\ ReturnTo(e, done1) /\ Goto(e, "walk")
      \/ c0.branches = {} /\ J = NoNode /\ ReturnTo(e, done) /\ Goto(e, "advance")
  <2>1. f.branches = c0.branches
    BY <1>4
  <2> QED BY <1>1, <2>1 DEF ForkReturns
<1>6. ASSUME NEW n, NEW c, Counts(G(e), n, c)
      PROVE  /\ Owed(g, c, c0) = c.fork[c0.branches] + Joining(g, c, b, m)
             /\ Joining(g, c, b, m) \in Nat /\ c.fork[c0.branches] \in Nat
             /\ c0.branches \in SUBSET Edges(g) /\ graph[e] \in Name
  <2>1. b \in Boundaries(g) /\ m \in Nodes(g) /\ graph[e] \in Name
    BY <1>1, <1>2, <1>6, CallerOwes
  <2>2. c0.branches \in SUBSET Edges(g)
    BY <1>1, <1>3, FrameFields
  <2>3. Joining(g, c, b, m) \in Nat /\ c.fork[c0.branches] \in Nat
    BY <1>1, <1>6, <2>1, <2>2, CountsAre
  <2> QED BY <1>1, <1>2, <2>1, <2>2, <2>3 DEF Owed
<1>7. ASSUME c0.branches # {}, Goto(e, "walk"),
             stack' = [stack EXCEPT ![e] = Append(Front(Front(stack[e])), f1) \o <<Branch(e, f, i)>>]
      PROVE  Budgeted'
  <2>1. f1 \in SoundFrames(G(e), history[e]) /\ Branch(e, f, i) \in SoundFrames(G(e), history[e])
    BY <1>2, <1>7, FramesSound
  <2>2. ASSUME NEW n, NEW c, Counts(G(e), n, c)
        PROVE  Owed(G(e), c, f1) + Due(G(e), c, Branch(e, f, i), "walk") <= Owed(G(e), c, Caller(e))
    <3>1. Owed(g, c, f1) = c.fork[c0.branches \ {i}] + Joining(g, c, b, m)
      BY <1>4 DEF Owed
    <3>2. /\ Owed(g, c, c0) = c.fork[c0.branches] + Joining(g, c, b, m)
          /\ Joining(g, c, b, m) \in Nat /\ c0.branches \in SUBSET Edges(g) /\ graph[e] \in Name
      BY <1>6, <2>2
    <3>3. /\ Due(g, c, Branch(e, f, i), "walk") + c.fork[c0.branches \ {i}] <= c.fork[c0.branches]
          /\ Due(g, c, Branch(e, f, i), "walk") \in Nat
          /\ c.fork[c0.branches \ {i}] \in Nat /\ c.fork[c0.branches] \in Nat
      BY <1>1, <1>7, <2>2, <3>2, BranchDue
    <3> QED BY <1>1, <3>1, <3>2, <3>3
  <2> QED BY <1>2, <1>7, <2>1, <2>2, BranchBudgeted
<1>8. ASSUME NEW x, NEW l, c0.branches = {}, ReturnTo(e, x), Goto(e, l),
             \A n, c : Counts(G(e), n, c) => Due(g, c, x, l) = Joining(g, c, b, m)
      PROVE  Budgeted'
  <2>1. x \in SoundFrames(G(e), history[e])
    BY <1>2, <1>8, FramesSound
  <2>2. ASSUME NEW n, NEW c, Counts(G(e), n, c)
        PROVE  Due(G(e), c, x, l) <= Owed(G(e), c, Caller(e))
    <3>1. /\ Owed(g, c, c0) = c.fork[c0.branches] + Joining(g, c, b, m)
          /\ Joining(g, c, b, m) \in Nat /\ c.fork[c0.branches] \in Nat
      BY <1>6, <2>2
    <3>2. Due(g, c, x, l) = Joining(g, c, b, m)
      BY <1>8, <2>2
    <3> QED BY <1>1, <3>1, <3>2
  <2> QED BY <1>2, <1>8, <2>1, <2>2, ReturnBudgeted
<1>9. CASE c0.branches = {} /\ J # NoNode /\ ReturnTo(e, done1) /\ Goto(e, "walk")
  <2>1. \A n, c : Counts(G(e), n, c) => Due(g, c, done1, "walk") = Joining(g, c, b, m)
    BY <1>1, <1>4, <1>9 DEF Due, Joining
  <2> QED BY <1>8, <1>9, <2>1
<1>10. CASE c0.branches = {} /\ J = NoNode /\ ReturnTo(e, done) /\ Goto(e, "advance")
  <2>1. \A n, c : Counts(G(e), n, c) => Due(g, c, done, "advance") = Joining(g, c, b, m)
    BY <1>1, <1>4, <1>10 DEF Due, Joining
  <2> QED BY <1>8, <1>10, <2>1
<1> QED BY <1>5, <1>7, <1>9, <1>10

-----------------------------------------------------------------------------
(* The steps that perform, begin and end.                                  *)

\* One more performance of x.
One(x, n) == IF x = n THEN 1 ELSE 0

LEMMA TimesGrow ==
  ASSUME IInv, NEW e \in Execution, NEW x \in Nodes(G(e)), history'[e] = Append(history[e], x), NEW n
  PROVE  Times(e, n)' = Times(e, n) + One(x, n)
<1>1. PICK h, N : h = history[e] /\ N = Len(h)
  OBVIOUS
<1>2. h \in Seq(Nodes(G(e)))
  BY <1>1 DEF IInv, Good, Shaped
<1>3. PICK h1 : h1 = history'[e]
  OBVIOUS
<1>4. /\ DOMAIN h = 1 .. N /\ DOMAIN h1 = 1 .. N + 1 /\ N \in Nat
      /\ \A i \in 1 .. N : h1[i] = h[i]
      /\ h1[N + 1] = x
  BY <1>1, <1>2, <1>3, Grown
<1>5. PICK S : S = {i \in DOMAIN h : h[i] = n}
  OBVIOUS
<1>6. IsFiniteSet(S) /\ Times(e, n) = Cardinality(S) /\ Cardinality(S) \in Nat
  BY <1>1, <1>5, TimesIs DEF Times
<1>7. Times(e, n)' = Cardinality({i \in DOMAIN h1 : h1[i] = n})
  BY <1>3 DEF Times
<1>8. CASE x = n
  <2>1. {i \in DOMAIN h1 : h1[i] = n} = S \cup {N + 1} /\ N + 1 \notin S
    BY <1>4, <1>5, <1>8
  <2>2. Cardinality(S \cup {N + 1}) = Cardinality(S) + 1
    BY <1>6, <2>1, FS_AddElement
  <2> QED BY <1>6, <1>7, <1>8, <2>1, <2>2 DEF One
<1>9. CASE x # n
  <2>1. {i \in DOMAIN h1 : h1[i] = n} = S
    BY <1>4, <1>5, <1>9
  <2>2. One(x, n) = 0 /\ \A k \in Nat : k + 0 = k
    BY <1>9 DEF One
  <2> QED BY <1>6, <1>7, <2>1, <2>2
<1> QED BY <1>8, <1>9

\* A performance is one less to spend, of a walk that has one due.
LEMMA PerformBudgeted ==
  ASSUME IInv, IInv', Budgeted, NEW e \in Execution, Perform(e) PROVE Budgeted'
<1>1. pc[e] = "walk" /\ UNCHANGED graph /\ Kind(e) = "Activity" /\ pc[e] \notin Idle
  BY DEF Perform, Walks, Idle
<1>2. PICK g, h, f, x, h1 : /\ g = G(e) /\ h = history[e] /\ f = Stepped(e) /\ x = f.at
                            /\ h1 = Append(h, x)
  OBVIOUS
<1>3. /\ f \in SoundFrames(g, h) /\ f.wait = "none" /\ x = Top(e).at /\ x \in Nodes(g)
      /\ graph[e] \in Name /\ f.boundary = Top(e).boundary
  BY <1>1, <1>2, WalkingFrame, SteppedAt
<1>4. CASE SetTop(e, f) /\ Goto(e, "error") /\ UNCHANGED history
  <2>1. ASSUME NEW n, NEW c, Counts(G(e), n, c)
        PROVE  Due(G(e), c, f, "error") <= Due(G(e), c, Top(e), pc[e])
    BY <1>1, <2>1, NothingDue, WalkDue
  <2> QED BY <1>1, <1>2, <1>3, <1>4, <2>1, TopBudgeted
<1>5. ASSUME NEW v, history' = [history EXCEPT ![e] = h1], SetTop(e, [f EXCEPT !.vars = v]),
             Goto(e, "checkpoint")
      PROVE  Budgeted'
  <2>1. PICK r, st, D : r = [f EXCEPT !.vars = v] /\ st = stack[e] /\ D = SoundFrames(g, h1)
    OBVIOUS
  <2>2. /\ history'[e] = h1 /\ stack'[e] = Append(Front(st), r) /\ pc'[e] = "checkpoint"
        /\ G(e)' = g /\ Nodes(G(e))' = Nodes(g)
        /\ \A y \in Execution \ {e} :
             history'[y] = history[y] /\ stack'[y] = stack[y] /\ pc'[y] = pc[y]
    BY <1>1, <1>2, <1>5, <2>1 DEF IInv, Tables, SetTop, Goto, G
  <2>3. ASSUME NEW y \in Execution, y # e
        PROVE  \A n \in Nodes(G(y))' : \A c : Counts(G(y)', n, c) => Budget(y, n, c)'
    BY <1>1, <2>2, <2>3, OthersBudgeted
  <2>4. /\ st \in Seq(SoundFrames(g, h)) /\ st # <<>> /\ Last(st) = Top(e)
        /\ Last(st) \in SoundFrames(g, h) /\ h \in Seq(Nodes(g))
    BY <1>1, <1>2, <2>1, TopIs DEF Stacked, Top
  <2>5. \A y \in SoundFrames(g, h) : y \in D
    BY <1>2, <1>3, <2>1, <2>4, FramesStaySound
  <2>6. st \in Seq(D) /\ Last(st) \in D
    BY <2>4, <2>5
  <2>7. r \in D
    <3>1. stack'[e] \in Seq(D)
      <4>1. Stacked(SoundFrames(G(e)', history[e]'), stack'[e], pc'[e])
        BY DEF IInv, Good, Shaped
      <4> QED BY <2>1, <2>2, <4>1 DEF Stacked
    <3> QED BY <2>2, <2>4, <2>6, <3>1, CalledFrames, FrontIs
  <2>8. r.at = x /\ r.boundary = Top(e).boundary
    <3>1. f.at = x /\ f.boundary = Top(e).boundary
      BY <1>2, <1>3
    <3> QED BY <1>3, <2>1, <3>1 DEF SoundFrames, FrameShape
  <2>9. ASSUME NEW n \in Nodes(g), NEW c, Counts(g, n, c) PROVE Budget(e, n, c)'
    <3>1. PICK t \in Nat : t = Total(g, c)
      <4>1. g.entry \in Nodes(g)
        BY <1>2, <1>3, EdgesLead
      <4>2. Total(g, c) \in Nat
        BY <1>2, <1>3, <2>9, <4>1, CountsAre DEF Total
      <4> QED BY <4>2
    <3>2. PICK k, b : k \in Nat /\ k = Times(e, n) /\ b = Top(e).boundary
      BY TimesIs
    <3>3. k <= t /\ t - k \in Nat /\ Spends(g, c, t - k, st, "walk")
      <4>1. Budget(e, n, c)
        BY <1>2, <2>9 DEF Budgeted
      <4> QED BY <1>1, <1>2, <2>1, <3>1, <3>2, <4>1 DEF Budget
    <3>4. /\ Due(g, c, Last(st), "walk") = c.walk[b][x] /\ c.walk[b][x] >= Performed(g, n, c, b, x)
          /\ g.kind[x] = Kind(e) /\ b \in Boundaries(g)
      BY <1>1, <1>2, <1>3, <2>4, <2>9, <3>2, WalkDue
    <3>5. Performed(g, n, c, b, x) = c.next[b][x] + One(x, n)
      <4>1. g.kind[x] = "Activity"
        BY <1>1, <3>4
      <4> QED BY <4>1 DEF Performed, One, Loops
    <3>6. /\ c.walk[b][x] \in Nat /\ c.next[b][x] \in Nat /\ One(x, n) \in Nat
      BY <1>2, <1>3, <2>9, <3>4, CountsAre DEF One
    <3>7. Due(g, c, r, "checkpoint") = c.next[b][x]
      BY <2>8, <3>2 DEF Due
    <3>8. One(x, n) <= t - k
      <4>1. PICK y \in Nat : y + Due(g, c, Last(st), "walk") <= t - k
        BY <3>3 DEF Spends
      <4> QED BY <3>3, <3>4, <3>5, <3>6, <4>1
    <3>9. PICK s \in Nat : s = (t - k) - One(x, n)
      BY <3>3, <3>6, <3>8
    <3>10. Due(g, c, r, "checkpoint") + (t - k) <= Due(g, c, Last(st), "walk") + s
      BY <3>3, <3>4, <3>5, <3>6, <3>7, <3>9
    <3>11. \A y \in D : Owed(g, c, y) \in Nat
      BY <1>2, <1>3, <2>1, <2>9, OwedIs
    <3>12. Spends(g, c, s, Append(Front(st), r), "checkpoint")
      <4>1. Due(g, c, Last(st), "walk") \in Nat /\ Due(g, c, r, "checkpoint") \in Nat
        BY <3>4, <3>6, <3>7
      <4> QED BY <2>4, <2>6, <2>7, <3>3, <3>10, <3>11, <4>1, SetSpends
    <3>13. Times(e, n)' = k + One(x, n)
      BY <1>2, <1>3, <2>2, <3>2, TimesGrow
    <3>14. Times(e, n)' <= t /\ t - Times(e, n)' = s
      BY <3>2, <3>3, <3>6, <3>8, <3>9, <3>13
    <3> QED BY <2>2, <3>1, <3>12, <3>14 DEF Budget
  <2>10. \A n \in Nodes(G(e))' : \A c : Counts(G(e)', n, c) => Budget(e, n, c)'
    BY <2>2, <2>9
  <2> QED BY <2>3, <2>10 DEF Budgeted
<1>6. CASE /\ history' = [history EXCEPT ![e] = h1] /\ Goto(e, "checkpoint")
           /\ SetTop(e, [f EXCEPT !.vars[x] = Len(h) + 1])
  <2>1. [f EXCEPT !.vars[x] = Len(h) + 1] = [f EXCEPT !.vars = [f.vars EXCEPT ![x] = Len(h) + 1]]
    BY <1>3 DEF SoundFrames, FrameShape
  <2>2. PICK v : v = [f.vars EXCEPT ![x] = Len(h) + 1]
    OBVIOUS
  <2> QED BY <1>5, <1>6, <2>1, <2>2
<1> QED BY <1>2, <1>4, <1>6 DEF Perform

\* All there is to perform is due to the first call.
LEMMA BeginBudgeted ==
  ASSUME IInv, IInv', Budgeted, NEW e \in Execution, Begin(e) PROVE Budgeted'
<1>1. PICK g, f : g = G(e) /\ f = Frame(G(e).entry, NoNode, 0, Unset(e))
  OBVIOUS
<1>2. /\ pc[e] = "new" /\ Goto(e, "walk") /\ stack' = [stack EXCEPT ![e] = <<f>>]
      /\ UNCHANGED <<graph, history>>
  BY <1>1 DEF Begin
<1>3. /\ pc'[e] = "walk" /\ stack'[e] = <<f>> /\ G(e)' = g /\ Nodes(G(e))' = Nodes(g)
      /\ \A x \in Execution \ {e} : pc'[x] = pc[x] /\ stack'[x] = stack[x]
      /\ graph[e] \in Name
  BY <1>1, <1>2 DEF IInv, Tables, Goto, G, Good, Shaped
<1>4. ASSUME NEW x \in Execution, x # e
      PROVE  \A n \in Nodes(G(x))' : \A c : Counts(G(x)', n, c) => Budget(x, n, c)'
  BY <1>2, <1>3, <1>4, OthersBudgeted
<1>5. ASSUME NEW n \in Nodes(g), NEW c, Counts(g, n, c) PROVE Budget(e, n, c)'
  <2>1. PICK t \in Nat : t = Total(g, c)
    <3>1. g.entry \in Nodes(g)
      BY <1>1, <1>3, EdgesLead
    <3>2. Total(g, c) \in Nat
      BY <1>1, <1>3, <1>5, <3>1, CountsAre DEF Total
    <3> QED BY <3>2
  <2>2. Times(e, n)' = 0
    <3>1. history'[e] = <<>>
      BY <1>2 DEF IInv, Good, Stored
    <3>2. {i \in DOMAIN <<>> : <<>>[i] = n} = {}
      OBVIOUS
    <3> QED BY <3>1, <3>2, FS_EmptySet DEF Times
  <2>3. Due(g, c, f, "walk") = t
    BY <1>1, <2>1 DEF Due, Frame, Total
  <2>4. Spends(g, c, t, <<f>>, "walk")
    <3>1. PICK b \in Seq({f}) : b = <<>>
      <4>1. <<>> \in Seq({f})
        OBVIOUS
      <4> QED BY <4>1
    <3>2. Front(<<f>>) = <<>> /\ Last(<<f>>) = f
      <4>1. <<f>> = Append(b, f) /\ f \in {f}
        BY <3>1
      <4>2. Front(Append(b, f)) = b /\ Last(Append(b, f)) = f
        BY <4>1, FrontAppended
      <4> QED BY <3>1, <4>1, <4>2
    <3>3. Affords(g, c, <<>>, 0)
      <4>1. PICK d \in [0 .. 0 -> Nat] : d[0] = 0
        <5> DEFINE z == [i \in 0 .. 0 |-> 0]
        <5>1. z \in [0 .. 0 -> Nat] /\ z[0] = 0
          OBVIOUS
        <5> HIDE DEF z
        <5> QED BY <5>1
      <4>2. Len(<<>>) = 0 /\ 1 .. 0 = {}
        OBVIOUS
      <4> QED BY <4>1, <4>2 DEF Affords
    <3>4. 0 \in Nat /\ 0 + t <= t
      OBVIOUS
    <3> QED BY <2>3, <3>2, <3>3, <3>4 DEF Spends
  <2>5. 0 <= t /\ t - 0 = t
    OBVIOUS
  <2> QED BY <1>3, <2>1, <2>2, <2>4, <2>5 DEF Budget
<1> QED BY <1>3, <1>4, <1>5 DEF Budgeted

LEMMA EndBudgeted ==
  ASSUME IInv, Budgeted, NEW e \in Execution, pc[e] \notin Idle, NEW how, Over(e, how) PROVE Budgeted'
<1>1. Goto(e, "done") /\ stack' = [stack EXCEPT ![e] = <<>>] /\ UNCHANGED <<graph, history>>
  BY DEF Over
<1>2. "done" \in Idle
  BY DEF Idle
<1> QED BY <1>1, <1>2, StepBudgeted

LEMMA FinishBudgeted ==
  ASSUME IInv, Budgeted, NEW e \in Execution, Finish(e) \/ Drop(e) PROVE Budgeted'
<1>1. pc[e] \notin Idle /\ \E how : Over(e, how)
  BY DEF Finish, Drop, Walks, Idle
<1> QED BY <1>1, EndBudgeted

LEMMA AsideBudgeted ==
  ASSUME Budgeted, UNCHANGED walkVars PROVE Budgeted'
<1>1. UNCHANGED <<graph, pc, stack, history>>
  BY DEF walkVars
<1>2. ASSUME NEW x \in Execution
      PROVE  \A n \in Nodes(G(x))' : \A c : Counts(G(x)', n, c) => Budget(x, n, c)'
  BY <1>1, OthersBudgeted
<1> QED BY <1>2 DEF Budgeted

LEMMA RestartBudgeted ==
  ASSUME IInv, Budgeted, Restart PROVE Budgeted'
<1>1. UNCHANGED <<graph, history>> /\ \A e \in Execution : pc'[e] \in Idle
  BY DEF Restart, Idle
<1>2. ASSUME NEW e \in Execution, NEW n \in Nodes(G(e)), NEW c, Counts(G(e), n, c)
      PROVE  Budget(e, n, c)'
  <2>1. Budget(e, n, c)
    BY <1>2 DEF Budgeted
  <2>2. G(e)' = G(e) /\ Times(e, n)' = Times(e, n)
    BY <1>1 DEF G, Times
  <2> QED BY <1>1, <2>1, <2>2 DEF Budget
<1>3. \A e \in Execution : G(e)' = G(e) /\ Nodes(G(e))' = Nodes(G(e))
  BY <1>1 DEF G
<1> QED BY <1>2, <1>3 DEF Budgeted

LEMMA InitBudgeted == Init => Budgeted
<1> SUFFICES ASSUME Init, NEW e \in Execution, NEW n \in Nodes(G(e)), NEW c, Counts(G(e), n, c)
             PROVE  Budget(e, n, c)
  BY DEF Budgeted
<1>1. graph[e] \in Name
  BY InitGood DEF IInv, Good, Shaped
<1>2. Total(G(e), c) \in Nat
  <2>1. G(e).entry \in Nodes(G(e))
    BY <1>1, EdgesLead
  <2> QED BY <1>1, <2>1, CountsAre DEF Total
<1>3. history[e] = <<>> /\ pc[e] \in Idle
  BY DEF Init, Idle
<1>4. Times(e, n) = 0
  <2>1. {i \in DOMAIN <<>> : <<>>[i] = n} = {}
    OBVIOUS
  <2> QED BY <1>3, <2>1, FS_EmptySet DEF Times
<1> QED BY <1>2, <1>3, <1>4 DEF Budget

LEMMA NextBudgeted == ASSUME IInv, IInv', Budgeted, [Next]_vars PROVE Budgeted'
<1>1. CASE UNCHANGED vars
  BY <1>1, AsideBudgeted DEF vars
<1>2. ASSUME NEW e \in Execution, Walk(e) PROVE Budgeted'
  BY <1>2, TooManyStepsBudgeted, PassBudgeted, PerformBudgeted, CheckpointBudgeted,
     AdvanceBudgeted, StopBudgeted, ChooseBudgeted, EnterLoopBudgeted, TurnBudgeted,
     LeaveLoopBudgeted, EnterBoundaryBudgeted, ForkBudgeted, LoopReturnsBudgeted,
     BoundaryReturnsBudgeted, ForkReturnsBudgeted, UnwindBudgeted, CatchBudgeted,
     FinishBudgeted DEF Walk
<1>3. ASSUME NEW e \in Execution, Begin(e) \/ Drop(e) PROVE Budgeted'
  BY <1>3, BeginBudgeted, FinishBudgeted
<1>4. ASSUME NEW e \in Execution, SetCompensating(e) \/ Collect(e) \/ Compensate(e) PROVE Budgeted'
  BY <1>4, AsideBudgeted DEF SetCompensating, Collect, Compensate
<1>5. ASSUME PurgeCompleted PROVE Budgeted'
  BY <1>5, AsideBudgeted DEF PurgeCompleted
<1> QED BY <1>1, <1>2, <1>3, <1>4, <1>5, RestartBudgeted DEF Next

LEMMA AlwaysBudgeted == Spec => []Budgeted
<1>1. IInv /\ Budgeted /\ [Next]_vars => Budgeted'
  <2> SUFFICES ASSUME IInv, Budgeted, [Next]_vars PROVE Budgeted'
    OBVIOUS
  <2>1. IInv'
    BY NextGood
  <2> QED BY <2>1, NextBudgeted
<1> QED BY <1>1, InitBudgeted, AlwaysGood, PTL DEF Spec

\* No activity is performed more often than a count of its chart says, by whatever
\* way the walk takes through loops, boundaries, forks and errors, crashes included:
\* no walk of a body or a branch goes on past its boundary, no round is walked twice
\* and no error is handled twice.
THEOREM ActivitiesRunAsCounted ==
  Spec => [](\A e \in Execution : \A n \in Nodes(G(e)) : \A c :
               Counts(G(e), n, c) => Times(e, n) <= Total(G(e), c))
<1>1. Budgeted => \A e \in Execution : \A n \in Nodes(G(e)) : \A c :
                    Counts(G(e), n, c) => Times(e, n) <= Total(G(e), c)
  BY DEF Budgeted, Budget
<1> QED BY <1>1, AlwaysBudgeted, PTL

-----------------------------------------------------------------------------
(* Charts that do not fork.  Every call shares its caller's count of steps *)
(* and hands it back, whether it ends well or not, so that nothing that    *)
(* was performed is left out of the count.                                 *)

InStep(e) ==
  Straight(G(e)) =>
    /\ Len(history[e]) <= MaxSteps
    /\ pc[e] \notin Idle => Len(history[e]) <= Top(e).steps /\ Top(e).steps <= MaxSteps
Paced == \A e \in Execution : InStep(e)

\* The count goes on in the frame f.
Follows(e, f) ==
  \/ f.steps = Top(e).steps
  \/ f.steps = Top(e).steps + 1 /\ Top(e).steps < MaxSteps

LEMMA OthersPaced ==
  ASSUME Paced, NEW x \in Execution, graph'[x] = graph[x], history'[x] = history[x],
         pc'[x] = pc[x], stack'[x] = stack[x]
  PROVE  InStep(x)'
<1>1. G(x)' = G(x) /\ Top(x)' = Top(x)
  BY DEF G, Top
<1> QED BY <1>1 DEF Paced, InStep

\* The innermost frame after a step.
LEMMA TopAfter ==
  ASSUME IInv, NEW e \in Execution, pc[e] \notin Idle, NEW f, NEW y,
         \/ SetTop(e, f) \/ Call(e, y, f) \/ (Len(stack[e]) > 1 /\ ReturnTo(e, f))
  PROVE  Top(e)' = f /\ \A x \in Execution \ {e} : stack'[x] = stack[x]
<1>1. PICK F, st : F = SoundFrames(G(e), history[e]) /\ st = stack[e]
  OBVIOUS
<1>2. st \in Seq(F) /\ st # <<>> /\ Front(st) \in Seq(F) /\ Stacked(F, st, pc[e])
  BY <1>1, TopIs, FrontIs DEF Stacked
<1>3. CASE SetTop(e, f)
  <2>1. stack'[e] = Append(Front(st), f) /\ \A x \in Execution \ {e} : stack'[x] = stack[x]
    BY <1>1, <1>3 DEF IInv, Tables, SetTop
  <2> QED BY <1>2, <2>1, LastAppended DEF Top
<1>4. CASE Call(e, y, f)
  <2>1. stack'[e] = Append(Front(st), y) \o <<f>> /\ \A x \in Execution \ {e} : stack'[x] = stack[x]
    BY <1>1, <1>4 DEF IInv, Tables, Call
  <2>2. PICK D, b : D = F \cup {y, f} /\ b = Front(st)
    OBVIOUS
  <2>3. PICK a \in Seq(D) : a = Append(b, y)
    <3>1. b \in Seq(D) /\ y \in D
      BY <1>2, <2>2
    <3>2. Append(b, y) \in Seq(D)
      BY <3>1
    <3> QED BY <3>2
  <2>4. a \o <<f>> = Append(a, f) /\ Last(Append(a, f)) = f
    <3>1. f \in D
      BY <2>2
    <3>2. a \o <<f>> = Append(a, f)
      BY <3>1
    <3> QED BY <3>1, <3>2, FrontAppended
  <2> QED BY <2>1, <2>2, <2>3, <2>4 DEF Top
<1>5. CASE Len(stack[e]) > 1 /\ ReturnTo(e, f)
  <2>1. stack'[e] = Append(Front(Front(st)), f) /\ \A x \in Execution \ {e} : stack'[x] = stack[x]
    BY <1>1, <1>5 DEF IInv, Tables, ReturnTo
  <2>2. Stacked(F, Front(st), "turn") /\ Front(st) # <<>>
    BY <1>1, <1>2, <1>5, CallerOnTop
  <2> QED BY <1>2, <2>1, <2>2, LastAppended DEF Top
<1> QED BY <1>3, <1>4, <1>5

\* A step that follows the count keeps within it,
LEMMA StepPaced ==
  ASSUME IInv, IInv', Paced, NEW e \in Execution, pc[e] \notin Idle, UNCHANGED <<graph, history>>,
         NEW l, Goto(e, l), NEW f, Straight(G(e)) => Follows(e, f),
         \/ SetTop(e, f) \/ (\E y : Call(e, y, f)) \/ (Len(stack[e]) > 1 /\ ReturnTo(e, f))
  PROVE  Paced'
<1>1. Top(e)' = f /\ \A x \in Execution \ {e} : stack'[x] = stack[x]
  BY TopAfter
<1>2. \A x \in Execution \ {e} : pc'[x] = pc[x]
  BY DEF IInv, Tables, Goto
<1>3. ASSUME NEW x \in Execution, x # e PROVE InStep(x)'
  BY <1>1, <1>2, <1>3, OthersPaced
<1>4. ASSUME Straight(G(e)) PROVE Len(history[e]) <= f.steps /\ f.steps <= MaxSteps
  <2>1. Top(e).steps \in Nat /\ Len(history[e]) \in Nat /\ MaxSteps \in Nat
    BY TopIs, FrameFields, WorkflowAssumption
  <2>2. Len(history[e]) <= Top(e).steps /\ Top(e).steps <= MaxSteps
    BY <1>4 DEF Paced, InStep
  <2>3. Follows(e, f)
    BY <1>4
  <2> QED BY <2>1, <2>2, <2>3 DEF Follows
<1>5. G(e)' = G(e)
  BY DEF G
<1>6. InStep(e) => InStep(e)'
  BY <1>1, <1>4, <1>5 DEF InStep
<1> QED BY <1>3, <1>6 DEF Paced

\* as does one that leaves the stack as it is, or a chart that forks.
LEMMA RelabelPaced ==
  ASSUME IInv, Paced, NEW e \in Execution, pc[e] \notin Idle, UNCHANGED <<graph, history, stack>>,
         NEW l, Goto(e, l)
  PROVE  Paced'
<1>1. \A x \in Execution \ {e} : pc'[x] = pc[x]
  BY DEF IInv, Tables, Goto
<1>2. ASSUME NEW x \in Execution, x # e PROVE InStep(x)'
  BY <1>1, <1>2, OthersPaced
<1>3. G(e)' = G(e) /\ Top(e)' = Top(e) /\ InStep(e)
  BY DEF G, Top, Paced
<1>4. InStep(e)'
  BY <1>3 DEF InStep
<1> QED BY <1>2, <1>4 DEF Paced

LEMMA ForkedPaced ==
  ASSUME Paced, NEW e \in Execution, ~Straight(G(e)), UNCHANGED <<graph, history>>,
         \A x \in Execution \ {e} : pc'[x] = pc[x] /\ stack'[x] = stack[x]
  PROVE  Paced'
<1>1. ASSUME NEW x \in Execution, x # e PROVE InStep(x)'
  BY <1>1, OthersPaced
<1>2. InStep(e)'
  <2>1. G(e)' = G(e)
    BY DEF G
  <2> QED BY <2>1 DEF InStep
<1> QED BY <1>1, <1>2 DEF Paced

LEMMA StepsAre ==
  ASSUME NEW g, NEW h, NEW f \in SoundFrames(g, h), NEW i, NEW j, NEW w, NEW v, NEW b, NEW m
  PROVE  /\ [f EXCEPT !.at = i].steps = f.steps /\ [f EXCEPT !.left = i].steps = f.steps
         /\ [f EXCEPT !.vars = v].steps = f.steps /\ [f EXCEPT !.steps = i].steps = i
         /\ [f EXCEPT !.wait = w, !.left = i].steps = f.steps
         /\ [[f EXCEPT !.wait = w, !.left = i] EXCEPT !.at = j].steps = f.steps
         /\ [f EXCEPT !.wait = w, !.mark = i].steps = f.steps
         /\ [f EXCEPT !.steps = i, !.vars = v].steps = i
         /\ [[f EXCEPT !.steps = i, !.vars = v] EXCEPT !.wait = w, !.mark = j].steps = i
         /\ [f EXCEPT !.wait = w, !.mark = j, !.steps = i].steps = i
         /\ [[f EXCEPT !.wait = w, !.mark = j, !.steps = i] EXCEPT !.at = m].steps = i
         /\ [f EXCEPT !.wait = w, !.left = j, !.branches = b, !.merged = m, !.steps = i].steps = i
BY DEF SoundFrames, FrameShape

\* A node takes one step of those there are.
LEMMA WalksOn ==
  ASSUME IInv, NEW e \in Execution, NEW K, Walks(e, K)
  PROVE  /\ pc[e] = "walk" /\ pc[e] \notin Idle /\ Kind(e) \in K
         /\ Top(e) \in SoundFrames(G(e), history[e]) /\ Stepped(e) \in SoundFrames(G(e), history[e])
         /\ Top(e).steps < MaxSteps /\ Stepped(e).steps = Top(e).steps + 1
         /\ \A f : f.steps = Stepped(e).steps => Follows(e, f)
<1>1. pc[e] = "walk" /\ pc[e] \notin Idle /\ Kind(e) \in K /\ Top(e).steps < MaxSteps
  BY DEF Walks, Idle
<1>2. Top(e) \in SoundFrames(G(e), history[e]) /\ Stepped(e) \in SoundFrames(G(e), history[e])
  BY <1>1, TopIs, WalkingFrame
<1>3. Stepped(e).steps = Top(e).steps + 1
  <2>1. PICK t : t = Top(e)
    OBVIOUS
  <2>2. Stepped(e) = [t EXCEPT !.steps = t.steps + 1]
    BY <2>1 DEF Stepped
  <2> QED BY <1>2, <2>1, <2>2, StepsAre
<1> QED BY <1>1, <1>2, <1>3 DEF Follows

LEMMA TooManyStepsPaced ==
  ASSUME IInv, Paced, NEW e \in Execution, TooManySteps(e) \/ Checkpoint(e) PROVE Paced'
<1>1. /\ pc[e] \notin Idle /\ UNCHANGED <<graph, history, stack>> /\ \E l : Goto(e, l)
  BY DEF TooManySteps, Checkpoint, Quiet, Idle
<1> QED BY <1>1, RelabelPaced

LEMMA PassPaced ==
  ASSUME IInv, IInv', Paced, NEW e \in Execution, Pass(e) \/ Stop(e) PROVE Paced'
<1>1. /\ \E K : Walks(e, K)
      /\ UNCHANGED <<graph, history>> /\ SetTop(e, Stepped(e)) /\ \E l : Goto(e, l)
  BY DEF Pass, Stop, Quiet
<1>2. pc[e] \notin Idle /\ Follows(e, Stepped(e))
  BY <1>1, WalksOn
<1> QED BY <1>1, <1>2, StepPaced

LEMMA AdvancePaced ==
  ASSUME IInv, IInv', Paced, NEW e \in Execution, Advance(e) PROVE Paced'
<1>1. pc[e] \notin Idle /\ UNCHANGED <<graph, history>>
  BY DEF Advance, Quiet, Idle
<1>2. PICK t : t = Top(e) /\ t \in SoundFrames(G(e), history[e])
  BY <1>1, TopIs
<1>3. \/ UNCHANGED stack /\ \E l : Goto(e, l)
      \/ \E i : Goto(e, "walk") /\ SetTop(e, [t EXCEPT !.at = i])
  BY <1>2 DEF Advance
<1>4. \A i : Follows(e, [t EXCEPT !.at = i])
  BY <1>2, StepsAre DEF Follows
<1> QED BY <1>1, <1>3, <1>4, RelabelPaced, StepPaced

LEMMA ChoosePaced ==
  ASSUME IInv, IInv', Paced, NEW e \in Execution, Choose(e) PROVE Paced'
<1>1. Walks(e, Gateways) /\ UNCHANGED <<graph, history>>
  BY DEF Choose, Quiet
<1>2. PICK t : t = Stepped(e)
  OBVIOUS
<1>3. \/ Goto(e, "error") /\ SetTop(e, t)
      \/ \E i : Goto(e, "walk") /\ SetTop(e, [t EXCEPT !.at = i])
  BY <1>2 DEF Choose
<1>4. t \in SoundFrames(G(e), history[e]) /\ pc[e] \notin Idle
  BY <1>1, <1>2, WalksOn
<1>5. \A i : [t EXCEPT !.at = i].steps = t.steps
  BY <1>4, StepsAre
<1>6. Follows(e, t) /\ \A i : Follows(e, [t EXCEPT !.at = i])
  BY <1>1, <1>2, <1>5, WalksOn
<1> QED BY <1>1, <1>3, <1>4, <1>6, StepPaced

LEMMA EnterLoopPaced ==
  ASSUME IInv, IInv', Paced, NEW e \in Execution, EnterLoop(e) PROVE Paced'
<1>1. Walks(e, Loops) /\ UNCHANGED <<graph, history>>
  BY DEF EnterLoop, Quiet
<1>2. PICK t : t = Stepped(e)
  OBVIOUS
<1>3. \/ Goto(e, "error") /\ SetTop(e, t)
      \/ \E k : Goto(e, "turn") /\ SetTop(e, [t EXCEPT !.wait = "loop", !.left = k])
  BY <1>2 DEF EnterLoop
<1>4. t \in SoundFrames(G(e), history[e]) /\ pc[e] \notin Idle
  BY <1>1, <1>2, WalksOn
<1>5. \A k : [t EXCEPT !.wait = "loop", !.left = k].steps = t.steps
  BY <1>4, StepsAre
<1>6. Follows(e, t) /\ \A k : Follows(e, [t EXCEPT !.wait = "loop", !.left = k])
  BY <1>1, <1>2, <1>5, WalksOn
<1> QED BY <1>1, <1>3, <1>4, <1>6, StepPaced

LEMMA TurnPaced ==
  ASSUME IInv, IInv', Paced, NEW e \in Execution, Turn(e) PROVE Paced'
<1>1. pc[e] = "turn" /\ pc[e] \notin Idle /\ UNCHANGED <<graph, history>>
  BY DEF Turn, Quiet, Idle
<1>2. PICK t, f, body, x :
        /\ t = Top(e) /\ f = [t EXCEPT !.left = t.left - 1] /\ body = FindBodyEdge(G(e), f.at)
        /\ x = Frame(Target(G(e), body), f.at, f.steps, f.vars)
  OBVIOUS
<1>3. IF body = 0 THEN SetTop(e, f) /\ UNCHANGED pc ELSE Call(e, f, x) /\ Goto(e, "walk")
  BY <1>2 DEF Turn
<1>4. f.steps = t.steps
  <2>1. t \in SoundFrames(G(e), history[e])
    BY <1>1, <1>2, TopIs
  <2> QED BY <1>2, <2>1, StepsAre
<1>5. Follows(e, f) /\ Follows(e, x)
  BY <1>2, <1>4 DEF Follows, Frame
<1>6. CASE body = 0
  BY <1>1, <1>3, <1>5, <1>6, SamePc, StepPaced
<1>7. CASE body # 0
  BY <1>1, <1>3, <1>5, <1>7, StepPaced
<1> QED BY <1>6, <1>7

LEMMA LeaveLoopPaced ==
  ASSUME IInv, IInv', Paced, NEW e \in Execution, LeaveLoop(e) PROVE Paced'
<1>1. pc[e] \notin Idle /\ UNCHANGED <<graph, history>>
  BY DEF LeaveLoop, Quiet, Idle
<1>2. PICK t, f : t = Top(e) /\ f = [t EXCEPT !.wait = "none", !.left = 0]
  OBVIOUS
<1>3. \/ \E i : Goto(e, "walk") /\ SetTop(e, [f EXCEPT !.at = i])
      \/ Goto(e, "error") /\ SetTop(e, f)
  BY <1>2 DEF LeaveLoop
<1>4. f.steps = t.steps /\ \A i : [f EXCEPT !.at = i].steps = t.steps
  <2>1. t \in SoundFrames(G(e), history[e])
    BY <1>1, <1>2, TopIs
  <2> QED BY <1>2, <2>1, StepsAre
<1>5. Follows(e, f) /\ \A i : Follows(e, [f EXCEPT !.at = i])
  BY <1>2, <1>4 DEF Follows
<1> QED BY <1>1, <1>3, <1>5, StepPaced

LEMMA EnterBoundaryPaced ==
  ASSUME IInv, IInv', Paced, NEW e \in Execution, EnterBoundary(e) PROVE Paced'
<1>1. PICK t, f, i, x :
        /\ t = Stepped(e) /\ f = [t EXCEPT !.wait = "body", !.mark = Len(history[e])]
        /\ i = BodyOfBoundary(G(e), Top(e).at) /\ x = Frame(Target(G(e), i), NoNode, f.steps, f.vars)
  OBVIOUS
<1>2. /\ Walks(e, {"ErrorBoundary"}) /\ UNCHANGED <<graph, history>>
      /\ Goto(e, "walk") /\ Call(e, f, x)
  BY <1>1 DEF EnterBoundary, Quiet
<1>3. t \in SoundFrames(G(e), history[e]) /\ pc[e] \notin Idle
  BY <1>1, <1>2, WalksOn
<1>4. x.steps = t.steps
  <2>1. f.steps = t.steps
    BY <1>1, <1>3, StepsAre
  <2> QED BY <1>1, <2>1 DEF Frame
<1>5. Follows(e, x)
  BY <1>1, <1>2, <1>4, WalksOn
<1> QED BY <1>2, <1>3, <1>5, StepPaced

LEMMA ForkPaced ==
  ASSUME IInv, Paced, NEW e \in Execution, Fork(e) PROVE Paced'
<1>1. /\ pc[e] \notin Idle /\ UNCHANGED <<graph, history>> /\ Goto(e, "walk") /\ \E f, x : Call(e, f, x)
      /\ Kind(e) = "Parallel" /\ Cardinality(Outgoing(G(e), Top(e).at)) > 1
  BY DEF Fork, Walks, Forks, Quiet, Idle
<1>2. graph[e] \in Name /\ Top(e).at \in Nodes(G(e))
  BY <1>1, TopIs, FrameFields
<1>3. ~Straight(G(e))
  <2>1. IsFiniteSet(Outgoing(G(e), Top(e).at))
    <3>1. PICK N \in Nat : Outgoing(G(e), Top(e).at) \subseteq 1 .. N
      <4>1. /\ Len(G(e).edges) \in Nat /\ Edges(G(e)) \subseteq 1 .. Len(G(e).edges)
            /\ Outgoing(G(e), Top(e).at) \subseteq Edges(G(e))
        BY <1>2, EdgesLead
      <4> QED BY <4>1
    <3>2. IsFiniteSet(1 .. N)
      BY FS_Interval
    <3> QED BY <3>1, <3>2, FS_Subset
  <2>2. Cardinality(Outgoing(G(e), Top(e).at)) \in Nat
    BY <2>1, FS_CardinalityType
  <2> QED BY <1>1, <1>2, <2>2 DEF Straight, Kind
<1>4. \A x \in Execution \ {e} : pc'[x] = pc[x] /\ stack'[x] = stack[x]
  BY <1>1 DEF IInv, Tables, Goto, Call
<1> QED BY <1>1, <1>3, <1>4, ForkedPaced

LEMMA LoopReturnsPaced ==
  ASSUME IInv, IInv', Paced, NEW e \in Execution, LoopReturns(e) PROVE Paced'
<1>1. /\ pc[e] \notin Idle /\ Len(stack[e]) > 1 /\ ReturnTo(e, Shared(e)) /\ Goto(e, "turn")
      /\ UNCHANGED <<graph, history>>
  BY DEF LoopReturns, Returns, Quiet, Idle
<1>2. PICK c0, t : c0 = Caller(e) /\ t = Top(e) /\ c0 \in SoundFrames(G(e), history[e])
  BY <1>1, CallerIs
<1>3. Shared(e) = [c0 EXCEPT !.steps = t.steps, !.vars = t.vars]
  BY <1>2 DEF Shared
<1>4. Follows(e, Shared(e))
  BY <1>2, <1>3, StepsAre DEF Follows
<1> QED BY <1>1, <1>4, StepPaced

LEMMA BoundaryReturnsPaced ==
  ASSUME IInv, IInv', Paced, NEW e \in Execution, BoundaryReturns(e) PROVE Paced'
<1>1. PICK f : f = [Shared(e) EXCEPT !.wait = "none", !.mark = 0]
  OBVIOUS
<1>2. /\ pc[e] \notin Idle /\ Len(stack[e]) > 1 /\ ReturnTo(e, f) /\ Goto(e, pc[e])
      /\ UNCHANGED <<graph, history>>
  BY <1>1, SamePc DEF BoundaryReturns, Returns, Quiet, Idle
<1>3. PICK c0, t : c0 = Caller(e) /\ t = Top(e) /\ c0 \in SoundFrames(G(e), history[e])
  BY <1>2, CallerIs
<1>4. Shared(e) = [c0 EXCEPT !.steps = t.steps, !.vars = t.vars]
  BY <1>3 DEF Shared
<1>5. Follows(e, f)
  BY <1>1, <1>3, <1>4, StepsAre DEF Follows
<1> QED BY <1>2, <1>5, StepPaced

\* No frame of a chart that does not fork waits for a branch.
LEMMA NoneWaits ==
  ASSUME IInv, Remembering, NEW e \in Execution, Straight(G(e)), pc[e] \notin Idle, Len(stack[e]) > 1
  PROVE  Caller(e).wait # "fork"
<1>1. PICK n \in Nodes(G(e)) : TRUE
  BY TopIs, FrameFields
<1>2. Remembered(Straight(G(e)), history[e], undone[e], n, stack[e], pc[e])
  BY <1>1 DEF Remembering, Answers, Steady
<1>3. Len(stack[e]) - 1 \in 1 .. Len(stack[e])
  BY TopIs
<1> QED BY <1>2, <1>3 DEF Remembered, AllTidy, Tidy, Caller

LEMMA ForkReturnsPaced ==
  ASSUME IInv, Remembering, Paced, NEW e \in Execution, ForkReturns(e) PROVE Paced'
<1>1. /\ pc[e] \notin Idle /\ Len(stack[e]) > 1 /\ Caller(e).wait = "fork"
      /\ UNCHANGED <<graph, history>>
      /\ \E l, st : Goto(e, l) /\ stack' = [stack EXCEPT ![e] = st]
  BY DEF ForkReturns, Returns, Quiet, Idle, ReturnTo
<1>2. ~Straight(G(e))
  BY <1>1, NoneWaits
<1>3. \A x \in Execution \ {e} : pc'[x] = pc[x] /\ stack'[x] = stack[x]
  BY <1>1 DEF IInv, Tables, Goto
<1> QED BY <1>1, <1>2, <1>3, ForkedPaced

LEMMA UnwindPaced ==
  ASSUME IInv, IInv', Remembering, Paced, NEW e \in Execution, Unwind(e) PROVE Paced'
<1>1. PICK c0, t, s, f :
        /\ c0 = Caller(e) /\ t = Top(e) /\ s = IF c0.wait = "loop" THEN t.steps ELSE c0.steps
        /\ f = [c0 EXCEPT !.wait = "none", !.left = 0, !.branches = {}, !.merged = <<>>, !.steps = s]
  OBVIOUS
<1>2. /\ pc[e] \notin Idle /\ Len(stack[e]) > 1 /\ c0.wait # "body" /\ UNCHANGED <<graph, history, pc>>
  BY <1>1 DEF Unwind, Quiet, Idle
<1>3. ReturnTo(e, f) /\ Goto(e, pc[e])
  BY <1>1, <1>2, SamePc DEF Unwind
<1>4. c0 \in SoundFrames(G(e), history[e]) /\ c0.wait # "none"
  BY <1>1, <1>2, CallerIs
<1>5. f.steps = s
  BY <1>1, <1>4, StepsAre
<1>6. Straight(G(e)) => c0.wait = "loop"
  <2>1. c0.wait \in {"none", "loop", "body", "fork"}
    BY <1>4, FrameFields
  <2> QED BY <1>1, <1>2, <1>4, <2>1, NoneWaits
<1>7. Straight(G(e)) => Follows(e, f)
  BY <1>1, <1>5, <1>6 DEF Follows
<1> QED BY <1>2, <1>3, <1>7, StepPaced

LEMMA CatchPaced ==
  ASSUME IInv, IInv', Paced, NEW e \in Execution, Catch(e) PROVE Paced'
<1>1. PICK c0, t, f : /\ c0 = Caller(e) /\ t = Top(e)
                      /\ f = [c0 EXCEPT !.wait = "none", !.mark = 0, !.steps = t.steps]
  OBVIOUS
<1>2. /\ pc[e] \notin Idle /\ Len(stack[e]) > 1 /\ UNCHANGED <<graph, history>>
  BY DEF Catch, Returns, Idle
<1>3. \/ ReturnTo(e, f) /\ UNCHANGED pc
      \/ \E i : ReturnTo(e, [f EXCEPT !.at = i]) /\ Goto(e, "walk")
  BY <1>1 DEF Catch
<1>4. c0 \in SoundFrames(G(e), history[e])
  BY <1>1, <1>2, CallerIs
<1>5. Follows(e, f) /\ \A i : Follows(e, [f EXCEPT !.at = i])
  BY <1>1, <1>4, StepsAre DEF Follows
<1> QED BY <1>2, <1>3, <1>5, SamePc, StepPaced

LEMMA PerformPaced ==
  ASSUME IInv, IInv', Paced, NEW e \in Execution, Perform(e) PROVE Paced'
<1>1. PICK f, x, h1, r : /\ f = Stepped(e) /\ x = f.at /\ h1 = Append(history[e], x)
                         /\ r = [f EXCEPT !.vars = [f.vars EXCEPT ![x] = Len(history[e]) + 1]]
  OBVIOUS
<1>2. Walks(e, {"Activity"}) /\ UNCHANGED graph
  BY DEF Perform
<1>3. pc[e] \notin Idle /\ f \in SoundFrames(G(e), history[e]) /\ Follows(e, f)
  BY <1>1, <1>2, WalksOn
<1>4. \/ SetTop(e, f) /\ Goto(e, "error") /\ UNCHANGED history
      \/ /\ history' = [history EXCEPT ![e] = h1] /\ Goto(e, "checkpoint")
         /\ SetTop(e, [f EXCEPT !.vars[x] = Len(history[e]) + 1])
  BY <1>1 DEF Perform
<1>5. CASE SetTop(e, f) /\ Goto(e, "error") /\ UNCHANGED history
  BY <1>2, <1>3, <1>5, StepPaced
<1>6. CASE /\ history' = [history EXCEPT ![e] = h1] /\ Goto(e, "checkpoint")
           /\ SetTop(e, [f EXCEPT !.vars[x] = Len(history[e]) + 1])
  <2>1. [f EXCEPT !.vars[x] = Len(history[e]) + 1] = r
    BY <1>1, <1>3 DEF SoundFrames, FrameShape
  <2>2. Top(e)' = r /\ \A y \in Execution \ {e} : stack'[y] = stack[y]
    BY <1>3, <1>6, <2>1, TopAfter
  <2>3. /\ history'[e] = h1 /\ pc'[e] = "checkpoint" /\ G(e)' = G(e)
        /\ \A y \in Execution \ {e} : history'[y] = history[y] /\ pc'[y] = pc[y]
    BY <1>2, <1>6 DEF IInv, Tables, Goto, G
  <2>4. ASSUME NEW y \in Execution, y # e PROVE InStep(y)'
    BY <1>2, <2>2, <2>3, <2>4, OthersPaced
  <2>5. ASSUME Straight(G(e))
        PROVE  Len(h1) <= r.steps /\ r.steps <= MaxSteps /\ Len(h1) <= MaxSteps
    <3>1. PICK N \in Nat, s \in Nat : N = Len(history[e]) /\ s = Top(e).steps
      BY <1>3, TopIs, FrameFields
    <3>2. Len(h1) = N + 1
      <4>1. history[e] \in Seq(Nodes(G(e)))
        BY <1>3, TopIs
      <4>2. Len(Append(history[e], x)) = Len(history[e]) + 1
        BY <4>1, AppendProperties
      <4> QED BY <1>1, <3>1, <4>2
    <3>3. r.steps = s + 1 /\ s < MaxSteps
      <4>1. r.steps = f.steps
        BY <1>1, <1>3, StepsAre
      <4> QED BY <1>1, <1>2, <3>1, <4>1, WalksOn
    <3>4. N <= s
      BY <1>3, <2>5, <3>1 DEF Paced, InStep
    <3> QED BY <3>1, <3>2, <3>3, <3>4, WorkflowAssumption
  <2>6. InStep(e)'
    BY <2>2, <2>3, <2>5 DEF InStep
  <2> QED BY <2>4, <2>6 DEF Paced
<1> QED BY <1>4, <1>5, <1>6

LEMMA BeginPaced ==
  ASSUME IInv, IInv', Paced, NEW e \in Execution, Begin(e) PROVE Paced'
<1>1. PICK f : f = Frame(G(e).entry, NoNode, 0, Unset(e))
  OBVIOUS
<1>2. /\ pc[e] = "new" /\ Goto(e, "walk") /\ stack' = [stack EXCEPT ![e] = <<f>>]
      /\ UNCHANGED <<graph, history>>
  BY <1>1 DEF Begin
<1>3. /\ stack'[e] = <<f>> /\ \A x \in Execution \ {e} : pc'[x] = pc[x] /\ stack'[x] = stack[x]
  BY <1>2 DEF IInv, Tables, Goto
<1>4. ASSUME NEW x \in Execution, x # e PROVE InStep(x)'
  BY <1>2, <1>3, <1>4, OthersPaced
<1>5. Top(e)'.steps = 0
  <2>1. Last(<<f>>) = f
    BY DEF Last
  <2> QED BY <1>1, <1>3, <2>1 DEF Top, Frame
<1>6. Len(history'[e]) = 0
  BY <1>2 DEF IInv, Good, Stored
<1>7. InStep(e)'
  BY <1>5, <1>6, WorkflowAssumption DEF InStep
<1> QED BY <1>4, <1>7 DEF Paced

\* What does not walk, or walks no more, has all it performed within the count.
LEMMA StillPaced ==
  ASSUME Paced, UNCHANGED <<graph, history>>,
         \A x \in Execution : pc'[x] \in Idle \/ (pc'[x] = pc[x] /\ stack'[x] = stack[x])
  PROVE  Paced'
<1>1. ASSUME NEW x \in Execution PROVE InStep(x)'
  <2>1. G(x)' = G(x) /\ InStep(x)
    BY DEF G, Paced
  <2>2. CASE pc'[x] \in Idle
    BY <2>1, <2>2 DEF InStep
  <2>3. CASE pc'[x] = pc[x] /\ stack'[x] = stack[x]
    BY <2>3, OthersPaced
  <2> QED BY <2>2, <2>3
<1> QED BY <1>1 DEF Paced

LEMMA EndPaced ==
  ASSUME IInv, Paced, NEW e \in Execution, Finish(e) \/ Drop(e) PROVE Paced'
<1>1. /\ Goto(e, "done") /\ stack' = [stack EXCEPT ![e] = <<>>] /\ UNCHANGED <<graph, history>>
  BY DEF Finish, Drop, Over
<1>2. \A x \in Execution : pc'[x] \in Idle \/ (pc'[x] = pc[x] /\ stack'[x] = stack[x])
  BY <1>1 DEF IInv, Tables, Goto, Idle
<1> QED BY <1>1, <1>2, StillPaced

LEMMA NextPaced ==
  ASSUME IInv, IInv', Remembering, Paced, [Next]_vars PROVE Paced'
<1>1. ASSUME UNCHANGED walkVars PROVE Paced'
  BY <1>1, StillPaced DEF walkVars
<1>2. ASSUME NEW e \in Execution, Walk(e) PROVE Paced'
  BY <1>2, TooManyStepsPaced, PassPaced, PerformPaced, AdvancePaced, ChoosePaced, EnterLoopPaced,
     TurnPaced, LeaveLoopPaced, EnterBoundaryPaced, ForkPaced, LoopReturnsPaced,
     BoundaryReturnsPaced, ForkReturnsPaced, UnwindPaced, CatchPaced, EndPaced DEF Walk
<1>3. ASSUME NEW e \in Execution, Begin(e) \/ Drop(e) PROVE Paced'
  BY <1>3, BeginPaced, EndPaced
<1>4. ASSUME NEW e \in Execution, SetCompensating(e) \/ Collect(e) \/ Compensate(e) PROVE Paced'
  BY <1>1, <1>4 DEF SetCompensating, Collect, Compensate
<1>5. ASSUME PurgeCompleted PROVE Paced'
  BY <1>1, <1>5 DEF PurgeCompleted
<1>6. ASSUME Restart PROVE Paced'
  <2>1. UNCHANGED <<graph, history>> /\ \A x \in Execution : pc'[x] \in Idle
    BY <1>6 DEF Restart, Idle
  <2> QED BY <2>1, StillPaced
<1>7. CASE UNCHANGED vars
  BY <1>1, <1>7 DEF vars
<1> QED BY <1>2, <1>3, <1>4, <1>5, <1>6, <1>7 DEF Next

LEMMA AlwaysPaced == Spec => []Paced
<1>1. Init => Paced
  <2> SUFFICES ASSUME Init, NEW e \in Execution PROVE InStep(e)
    BY DEF Paced
  <2>1. history[e] = <<>> /\ pc[e] \in Idle
    BY DEF Init, Idle
  <2>2. Len(<<>>) = 0
    OBVIOUS
  <2> QED BY <2>1, <2>2, WorkflowAssumption DEF InStep
<1>2. IInv /\ Remembering /\ Paced /\ [Next]_vars => Remembering' /\ Paced'
  <2> SUFFICES ASSUME IInv, Remembering, Paced, [Next]_vars PROVE Remembering' /\ Paced'
    OBVIOUS
  <2>1. IInv'
    BY NextGood
  <2> QED BY <2>1, NextRemembers, NextPaced
<1> QED BY <1>1, <1>2, InitRemembers, AlwaysGood, PTL DEF Spec

\* In a chart that does not fork the bound on steps is a bound on what is performed
\* too, over all the loops and error boundaries, however they are nested and whatever
\* fails in them: a body goes on with its caller's count, and its steps count however
\* it ends.  The branches of a fork count from zero, each for itself.
THEOREM StepsBoundPerformances ==
  Spec => [](\A e \in Execution : Straight(G(e)) => Len(history[e]) <= MaxSteps)
<1>1. Paced => \A e \in Execution : Straight(G(e)) => Len(history[e]) <= MaxSteps
  BY DEF Paced, InStep
<1> QED BY <1>1, AlwaysPaced, PTL

LEMMA TimesWithin ==
  ASSUME IInv, NEW e \in Execution, NEW n
  PROVE  Times(e, n) \in Nat /\ Len(history[e]) \in Nat /\ Times(e, n) <= Len(history[e])
<1>1. PICK h, N : h = history[e] /\ N = Len(h)
  OBVIOUS
<1>2. N \in Nat /\ DOMAIN h = 1 .. N
  BY <1>1 DEF IInv, Good, Shaped
<1>3. IsFiniteSet(1 .. N) /\ Cardinality(1 .. N) = N
  <2>1. \A k \in Nat : (IF 1 > k THEN 0 ELSE k - 1 + 1) = k
    OBVIOUS
  <2>2. IsFiniteSet(1 .. N) /\ Cardinality(1 .. N) = IF 1 > N THEN 0 ELSE N - 1 + 1
    BY <1>2, FS_Interval
  <2> QED BY <1>2, <2>1, <2>2
<1>4. {i \in 1 .. N : h[i] = n} \in SUBSET (1 .. N)
  OBVIOUS
<1>5. Cardinality({i \in 1 .. N : h[i] = n}) <= N
  BY <1>3, <1>4, FS_Subset
<1> QED BY <1>1, <1>2, <1>5, TimesIs DEF Times

\* Charts run as often as they say, if they say at least what can be counted on them
\* or, of a chart that does not fork, at least all the steps there may be.
THEOREM PlannedChartsRunAsOften ==
  Spec => []((\A e \in Execution : Planned(G(e))) => RunsAsOften)
<1>1. ASSUME IInv, Budgeted, Paced, \A e \in Execution : Planned(G(e)) PROVE RunsAsOften
  <2> SUFFICES ASSUME NEW e \in Execution, NEW n \in Nodes(G(e)) PROVE Times(e, n) <= G(e).times[n]
    BY DEF RunsAsOften
  <2>1. Times(e, n) \in Nat /\ G(e).times[n] \in Nat /\ graph[e] \in Name /\ MaxSteps \in Nat
    BY <1>1, TimesIs, GraphCompiled, WorkflowAssumption DEF IInv, Good, Shaped, Compiled, G
  <2>2. ASSUME NEW c, Fits(G(e), n, c) PROVE Times(e, n) <= G(e).times[n]
    <3>1. Counts(G(e), n, c) /\ Total(G(e), c) <= G(e).times[n]
      BY <2>2 DEF Fits, Total
    <3>2. Times(e, n) <= Total(G(e), c)
      BY <1>1, <3>1 DEF Budgeted, Budget
    <3>3. Total(G(e), c) \in Nat
      <4>1. G(e).entry \in Nodes(G(e))
        BY <2>1, EdgesLead
      <4> QED BY <2>1, <3>1, <4>1, CountsAre DEF Total
    <3> QED BY <2>1, <3>1, <3>2, <3>3
  <2>3. ASSUME Straight(G(e)), MaxSteps <= G(e).times[n] PROVE Times(e, n) <= G(e).times[n]
    <3>1. Times(e, n) <= Len(history[e]) /\ Len(history[e]) \in Nat
      BY <1>1, TimesWithin
    <3>2. Len(history[e]) <= MaxSteps
      BY <1>1, <2>3 DEF Paced, InStep
    <3> QED BY <2>1, <2>3, <3>1, <3>2
  <2> QED BY <1>1, <2>2, <2>3 DEF Planned
<1> QED BY <1>1, AlwaysGood, AlwaysBudgeted, AlwaysPaced, PTL
=============================================================================
