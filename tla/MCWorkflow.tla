----------------------------- MODULE MCWorkflow -----------------------------
(* Small instances of Workflow: the charts.                                *)
EXTENDS WorkflowPlans

Flow(from, to, cond, priority) ==
  [from |-> from, to |-> to, cond |-> cond, priority |-> priority, detached |-> FALSE]
Plain(from, to) == Flow(from, to, "none", 0)
Chart(kind, edges, repeat, times) ==
  [kind |-> kind, edges |-> edges, entry |-> 1,
   repeat |-> [n \in DOMAIN kind |-> repeat],
   times |-> [n \in DOMAIN kind |-> IF kind[n] = "Activity" THEN times ELSE 0],
   compensable |-> {n \in DOMAIN kind : kind[n] = "Activity"}]

\* Two activities, then the response; one guard skips the second, another may end
\* the walk; a detached edge nobody follows.
Saga == Chart(<<"Trigger", "Activity", "Activity", "EndTrigger", "End">>,
  <<Plain(1, 2), [Plain(2, 5) EXCEPT !.detached = TRUE, !.priority = 2], Plain(2, 4),
    Flow(2, 3, "guard", 1), Flow(3, 4, "guard", 0)>>, 0, 1)

\* A fork of two branches and what follows their join, in an error boundary.
ForkInBoundary == Chart(
  <<"Trigger", "ErrorBoundary", "Parallel", "Activity", "Activity", "Join", "Activity", "End", "Activity">>,
  <<Plain(1, 2), Plain(2, 3), Flow(2, 9, "_error", 0), Plain(3, 4), Plain(3, 5), Plain(4, 6),
    Plain(5, 6), Plain(6, 7), Plain(7, 8)>>, 0, 1)

\* A repeat loop, a while loop in the body of a foreach loop, a guard that may fail.
TwoLoops == Chart(
  <<"Trigger", "LoopRepeat", "Activity", "LoopForEach", "LoopWhile", "Activity", "Noop", "EndTrigger", "End">>,
  <<Plain(1, 2), Plain(2, 3), Plain(3, 2), Flow(2, 4, "_exit", 0), Plain(4, 5), Flow(4, 8, "_exit", 0),
    Plain(5, 6), Plain(6, 5), Flow(5, 7, "_exit", 0), Plain(7, 4)>>, 2, 4)

\* After an activity a gateway says: wait, on to the next node, which may be the
\* activity again, or end.
Retry(gateway, next) == Chart(
  <<"Trigger", "Activity", gateway, "Noop", "End", "ErrorBoundary">>,
  <<Plain(1, 6), Plain(6, 2), Plain(2, 3), Flow(3, 4, "guard", 2), Flow(3, next, "guard", 1), Plain(3, 5), Plain(4, 3)>>,
  0, MaxSteps)

\* Nodes without the edges one expects: a loop without a body, a fork of one
\* branch, a boundary without a body, a loop without an exit.
Bare == Chart(<<"Trigger", "LoopRepeat", "Parallel", "ErrorBoundary", "LoopRepeat", "End">>,
  <<Plain(1, 2), Flow(2, 3, "_exit", 0), Plain(3, 4), Flow(4, 5, "guard", 0)>>, 1, 0)
\* A fork without a join.
NoJoin == Chart(<<"Trigger", "Parallel", "Noop", "End">>,
  <<Plain(1, 2), Plain(2, 3), Plain(2, 4), Plain(3, 4)>>, 0, 0)
Short == Chart(<<"Trigger", "Activity", "End">>, <<Plain(1, 2), Plain(2, 3)>>, 0, 1)

Stub == Chart(<<"Trigger", "End">>, <<>>, 0, 1)

Charts == [saga |-> Saga, fork |-> ForkInBoundary, loops |-> TwoLoops, bare |-> Bare, noJoin |-> NoJoin,
           retry |-> Retry("ExclusiveGateway", 2), ask |-> Retry("InclusiveGateway", 5), short |-> Short, stub |-> Stub]
\* The least count of the performances of n, where there is one: from none at all,
\* each walk is counted by those it leads to, as often as there are nodes to pass.
Counted(g, n, c) ==
  LET B == Boundaries(g)
      next == [b \in B |-> [m \in Nodes(g) |->
                 Max({0} \cup (IF g.kind[m] \in Gateways THEN {Along(g, c, b, i) : i \in Outgoing(g, m)}
                               ELSE {Onto(g, c, b, i) : i \in Followable(g, m)}))]]
      fork == [S \in SUBSET Edges(g) |-> FoldSet(LAMBDA i, k : k + Along(g, c, FindJoin(g), i), 0, S)]
      d == [c EXCEPT !.next = next, !.fork = fork]
  IN  [d EXCEPT !.walk = [b \in B |-> [m \in Nodes(g) |-> Performed(g, n, d, b, m)]]]
LeastCount(g, n) ==
  LET none == [b \in Boundaries(g) |-> [m \in Nodes(g) |-> 0]]
  IN  FoldSet(LAMBDA k, c : Counted(g, n, c),
              [walk |-> none, next |-> none, fork |-> [S \in SUBSET Edges(g) |-> 0]], 1 .. 2 * Len(g.kind))

\* The charts promise what a count of theirs allows, those with a cycle the steps there are.
ASSUME ChartsArePlanned ==
  \A name \in DOMAIN Charts : LET g == Charts[name] IN
    \A n \in Nodes(g) : Fits(g, n, LeastCount(g, n)) \/ (Straight(g) /\ MaxSteps <= g.times[n])

CONSTANTS e1, e2
\* Each chart on its own, with one that only begins and ends beside it, and two at
\* once that perform activities.
Pairs == {(e1 :> name) @@ (e2 :> "stub") : name \in DOMAIN Charts \ {"stub", "short"}}
           \cup {(e1 :> "saga") @@ (e2 :> "short")}

\* A loop in the body of a loop, whose exit edge is the outer loop's edge back.
NestedLoops == [nested |-> Chart(
  <<"Trigger", "LoopRepeat", "LoopRepeat", "Activity", "End">>,
  <<Plain(1, 2), Plain(2, 3), Flow(2, 5, "_exit", 0), Plain(3, 4), Flow(3, 2, "_exit", 0), Plain(4, 3)>>, 2, 4)]
OneNested == {[e \in Execution |-> "nested"]}
=============================================================================
