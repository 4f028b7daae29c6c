---------------------------- MODULE WorkflowPlans ----------------------------
(***************************************************************************)
(* How often a chart lets an activity run.                                 *)
(*                                                                         *)
(* A count says of an activity how often it is performed at most:          *)
(*   c.walk[b][m]  by a walk from node m up to the boundary b,             *)
(*   c.next[b][m]  by what follows node m in such a walk,                  *)
(*   c.fork[S]     by the branches of a fork along the edges S.            *)
(* Each node is counted by those it leads to, so a walk that can come back *)
(* to where it was and perform the activity in between has no count: a     *)
(* cycle, or a loop whose exit edge leads past the boundary of its walk.   *)
(***************************************************************************)
EXTENDS Workflow

Boundaries(g) == Nodes(g) \cup {NoNode}
CountsOf(g) ==
  [walk : [Boundaries(g) -> [Nodes(g) -> Nat]], next : [Boundaries(g) -> [Nodes(g) -> Nat]],
   fork : [SUBSET Edges(g) -> Nat]]

\* The walks along an edge: an ordinary edge onto the boundary ends the walk,
\* the other ways on do not look for it.
Along(g, c, b, i) == IF i = 0 THEN 0 ELSE c.walk[b][Target(g, i)]
Onto(g, c, b, i) == IF b # NoNode /\ Target(g, i) = b THEN 0 ELSE Along(g, c, b, i)
Joining(g, c, b, m) == IF FindJoin(g) = NoNode THEN c.next[b][m] ELSE c.walk[b][FindJoin(g)]
Round(g, c, m) == Along(g, c, m, FindBodyEdge(g, m))
Rounds(g, m) == IF g.kind[m] = "LoopRepeat" THEN g.repeat[m] ELSE MaxItems

\* What is performed by a walk up to b from its node m on.
Performed(g, n, c, b, m) ==
  LET kind == g.kind[m]
      body == BodyOfBoundary(g, m)
  IN  CASE kind = "Activity" -> c.next[b][m] + (IF m = n THEN 1 ELSE 0)
        [] kind = "Parallel" /\ Cardinality(Outgoing(g, m)) > 1 ->
             c.fork[Outgoing(g, m)] + Joining(g, c, b, m)
        [] kind = "ErrorBoundary" /\ body # 0 ->
             Along(g, c, NoNode, body) + Along(g, c, b, FindErrorEdge(g, m))
        [] kind \in Loops -> Rounds(g, m) * Round(g, c, m) + Along(g, c, b, FindExitEdge(g, m))
        [] kind \in {"End", "EndTrigger"} -> 0
        [] OTHER -> c.next[b][m]

CountsNode(g, n, c, b, m) ==
  /\ c.walk[b][m] >= Performed(g, n, c, b, m)
  /\ \A i \in Followable(g, m) : c.next[b][m] >= Onto(g, c, b, i)
  /\ g.kind[m] \in Gateways => \A i \in Outgoing(g, m) : c.next[b][m] >= Along(g, c, b, i)

\* A fork walks its branches up to the join, the least edge first.
CountsFork(g, c, S) ==
  S # {} => c.fork[S] >= Along(g, c, FindJoin(g), Min(S)) + c.fork[S \ {Min(S)}]

Counts(g, n, c) ==
  /\ c \in CountsOf(g)
  /\ \A b \in Boundaries(g), m \in Nodes(g) : CountsNode(g, n, c, b, m)
  /\ \A S \in SUBSET Edges(g) : CountsFork(g, c, S)

\* No node forks.
Straight(g) ==
  \A m \in Nodes(g) : g.kind[m] = "Parallel" => Cardinality(Outgoing(g, m)) <= 1

\* The chart's times are at least those of a count, or all the steps there may be.
Fits(g, n, c) == Counts(g, n, c) /\ c.walk[NoNode][g.entry] <= g.times[n]
Planned(g) ==
  \A n \in Nodes(g) : \/ \E c \in CountsOf(g) : Fits(g, n, c)
                      \/ Straight(g) /\ MaxSteps <= g.times[n]
=============================================================================
