------------------------------ MODULE Workflow ------------------------------
(***************************************************************************)
(* The workflow engine of vil_vwfd: the executor that walks a compiled     *)
(* graph, the store of execution states (memory before a redb database)    *)
(* and the compensation of what an execution did (durability, saga).       *)
(*                                                                         *)
(* walk_subgraph calls itself: the body of a loop, the body of an error    *)
(* boundary and each branch of a fork are walked by a call of their own.   *)
(* An execution is therefore a stack of frames.  Loop and boundary bodies  *)
(* share their caller's variables and step count; a branch has a copy of   *)
(* the variables and counts its steps from zero.  What a caller had when   *)
(* it called stays in its frame until the callee returns.                  *)
(*                                                                         *)
(* A value is the place in the execution's history of the activity that    *)
(* produced it.  Expressions are not evaluated: a guard, a loop condition  *)
(* or a connector may have any outcome.                                    *)
(***************************************************************************)
EXTENDS Integers, Sequences, FiniteSets, SequencesExt, FiniteSetsExt

CONSTANTS
  Execution,    \* execution identifiers
  Graph,        \* the compiled workflows, by name
  Runs,         \* which workflows the executions may be of: functions to names
  MaxSteps,     \* ExecConfig.max_steps
  MaxItems,     \* bound: items of a collection, rounds of a while loop
  MaxCrashes,   \* bound: crashes of the process
  MaxDbFailures \* bound: database transactions that fail

Name == DOMAIN Graph
NoNode == 0
Nodes(g) == DOMAIN g.kind
Edges(g) == DOMAIN g.edges
Loops == {"LoopWhile", "LoopForEach", "LoopRepeat"}
Gateways == {"ExclusiveGateway", "InclusiveGateway"}
\* "Activity": Connector, Transform, VilRules, Function, Sidecar, SubWorkflow,
\* HumanTask and NativeCode, which differ in what they call only.
Kinds == {"Trigger", "Activity", "EndTrigger", "End", "ErrorBoundary", "Parallel", "Join", "Noop"}
           \cup Loops \cup Gateways
Conditions == {"none", "guard", "_exit", "_error"}

\* What compile makes: edges between nodes of the graph, at least one End, the
\* first Trigger as the entry.
Compiled(g) ==
  /\ g.kind \in Seq(Kinds) /\ \E n \in Nodes(g) : g.kind[n] = "End"
  /\ g.edges \in Seq([from : Nodes(g), to : Nodes(g), cond : Conditions,
                      detached : BOOLEAN, priority : Int])
  /\ g.entry \in Nodes(g) /\ g.kind[g.entry] = "Trigger"
  /\ \A n \in 1 .. g.entry - 1 : g.kind[n] # "Trigger"
  /\ g.repeat \in [Nodes(g) -> Nat] /\ g.compensable \subseteq Nodes(g)
  /\ g.times \in [Nodes(g) -> Nat]

ASSUME WorkflowAssumption ==
  /\ \A name \in Name : Compiled(Graph[name])
  /\ Runs \subseteq [Execution -> Name]
  /\ MaxSteps \in Nat /\ MaxItems \in Nat /\ MaxCrashes \in Nat /\ MaxDbFailures \in Nat

VARIABLES
  graph,     \* per execution: the name of its workflow
  pc,        \* per execution: what its task does next
  stack,     \* per execution: its calls of walk_subgraph, the innermost last
  history,   \* per execution: the activities it performed
  undone,    \* history: performances whose results an error boundary took back
  outcome,   \* per execution: what its caller was told, or how it was lost
  result,    \* per execution: the variables of its ExecResult
  mem,       \* DurabilityStore.mem
  disk,      \* the table of the redb database
  actions,   \* per execution: what the run of its compensation has yet to undo, as positions
  undid,     \* per execution: what that run has undone, in order
  crashes, dbFailures

walkVars == <<graph, pc, stack, history, undone, outcome, result>>
storeVars == <<mem, disk, dbFailures>>
sagaVars == <<actions, undid>>
vars == <<walkVars, storeVars, sagaVars, crashes>>

NoState == [status |-> "none"]
NoRun == <<0>>
Known(e) == mem[e] # NoState
Terminal(state) == state.status \in {"Completed", "Failed"}

Init ==
  /\ graph \in Runs
  /\ pc = [e \in Execution |-> "new"]
  /\ stack = [e \in Execution |-> <<>>]
  /\ history = [e \in Execution |-> <<>>]
  /\ undone = [e \in Execution |-> {}]
  /\ outcome = [e \in Execution |-> "none"]
  /\ result = [e \in Execution |-> <<>>]
  /\ mem = [e \in Execution |-> NoState]
  /\ disk = [e \in Execution |-> NoState]
  /\ actions = [e \in Execution |-> {}] /\ undid = [e \in Execution |-> NoRun]
  /\ crashes = 0 /\ dbFailures = 0

-----------------------------------------------------------------------------
(* Navigation: the edges a node is left by.                                *)

G(e) == Graph[graph[e]]
Outgoing(g, n) == {i \in Edges(g) : g.edges[i].from = n}
First(S) == IF S = {} THEN 0 ELSE Min(S)
Target(g, i) == g.edges[i].to

\* Edges are tried by priority, then in the order they were written in.
Before(g, i, j) ==
  \/ g.edges[i].priority > g.edges[j].priority
  \/ g.edges[i].priority = g.edges[j].priority /\ i < j
Guarded(g, i) == g.edges[i].cond # "none"
\* i is reached when every edge tried before it is guarded and did not hold.
Reached(g, S, i) == \A j \in S : Before(g, j, i) => Guarded(g, j)

\* find_next_node
Followable(g, n) ==
  {i \in Outgoing(g, n) : ~g.edges[i].detached /\ g.edges[i].cond \notin {"_error", "_exit"}}

FindBodyEdge(g, n) == First({i \in Outgoing(g, n) : g.edges[i].cond # "_exit"})
FindExitEdge(g, n) ==
  LET exits == {i \in Outgoing(g, n) : g.edges[i].cond = "_exit"}
  IN  IF exits # {} THEN Min(exits)
      ELSE IF Outgoing(g, n) # {} THEN Max(Outgoing(g, n)) ELSE 0

\* The edges a boundary is left by: to its body, and to what is done about an error.
BodyOfBoundary(g, n) == First({i \in Outgoing(g, n) : g.edges[i].cond = "none"})
FindErrorEdge(g, n) == First({i \in Outgoing(g, n) : g.edges[i].cond = "_error"})

\* The first Join of the graph that two edges or more lead to, whoever forks.
FindJoin(g) ==
  First({n \in Nodes(g) : /\ g.kind[n] = "Join"
                          /\ Cardinality({i \in Edges(g) : Target(g, i) = n}) >= 2})

-----------------------------------------------------------------------------
(* Frames.  wait: the call the frame is in, if any; left: iterations of a  *)
(* loop to go; branches: edges a fork has yet to walk; merged: the         *)
(* variables it has merged so far; mark: how long the history was when a   *)
(* boundary was entered.                                                   *)

Unset(e) == [n \in Nodes(G(e)) |-> 0]
Frame(at, boundary, steps, variables) ==
  [at |-> at, boundary |-> boundary, steps |-> steps, vars |-> variables,
   wait |-> "none", left |-> 0, branches |-> {}, merged |-> <<>>, mark |-> 0]

Top(e) == Last(stack[e])
Caller(e) == stack[e][Len(stack[e]) - 1]
Kind(e) == G(e).kind[Top(e).at]
Goto(e, label) == pc' = [pc EXCEPT ![e] = label]
SetTop(e, f) == stack' = [stack EXCEPT ![e] = Append(Front(@), f)]
Call(e, f, callee) == stack' = [stack EXCEPT ![e] = Append(Front(@), f) \o <<callee>>]
ReturnTo(e, f) == stack' = [stack EXCEPT ![e] = Append(Front(Front(@)), f)]

\* The top frame begins to walk its node: one step, unless there are too many.
Walks(e, kinds) == pc[e] = "walk" /\ Top(e).steps < MaxSteps /\ Kind(e) \in kinds
Stepped(e) == [Top(e) EXCEPT !.steps = @ + 1]

-----------------------------------------------------------------------------
(* The store: memory first for readers, the database for recovery.  An     *)
(* error of the database is dropped.                                       *)

DbWrites(newDisk) ==
  \/ disk' = newDisk /\ UNCHANGED dbFailures
  \/ dbFailures < MaxDbFailures /\ dbFailures' = dbFailures + 1 /\ UNCHANGED disk

WriteState(e, state) ==
  /\ mem' = [mem EXCEPT ![e] = state]
  /\ DbWrites([disk EXCEPT ![e] = state])

UpdateStatus(e, status) ==
  IF Known(e) THEN WriteState(e, [mem[e] EXCEPT !.status = status])
  ELSE UNCHANGED storeVars

\* Mutant: the checkpoint does not reach the database.
CheckpointInMemory(e, n, f) ==
  /\ mem' = [mem EXCEPT ![e].completed = Append(@, n), ![e].vars = f.vars]
  /\ UNCHANGED <<disk, dbFailures>>
CheckpointState(e, n, f) ==
  IF Known(e)
  THEN WriteState(e, [mem[e] EXCEPT !.completed = Append(@, n), !.vars = f.vars])
  ELSE UNCHANGED storeVars

\* The store drops what has ended, here and, if the transaction is committed, on disk.
PurgeCompleted ==
  LET ended == {e \in Execution : Known(e) /\ Terminal(mem[e])}
      Without(table) == [e \in Execution |-> IF e \in ended THEN NoState ELSE table[e]]
  IN  /\ ended # {}
      /\ mem' = Without(mem)
      /\ DbWrites(Without(disk))
      /\ UNCHANGED <<walkVars, sagaVars, crashes>>

-----------------------------------------------------------------------------
(* execute and walk_subgraph.                                              *)

Begin(e) ==
  /\ pc[e] = "new"
  /\ WriteState(e, [status |-> "Running", completed |-> <<>>, vars |-> Unset(e)])
  /\ stack' = [stack EXCEPT ![e] = <<Frame(G(e).entry, NoNode, 0, Unset(e))>>]
  /\ Goto(e, "walk")
  /\ UNCHANGED <<graph, history, undone, outcome, result, sagaVars, crashes>>

\* What a step of the walk alone leaves as it is.
Quiet == UNCHANGED <<graph, history, undone, outcome, result, storeVars, sagaVars, crashes>>

TooManySteps(e) ==
  /\ pc[e] = "walk" /\ Top(e).steps >= MaxSteps
  /\ Goto(e, "error")
  /\ UNCHANGED stack /\ Quiet

Forks(e) == Kind(e) = "Parallel" /\ Cardinality(Outgoing(G(e), Top(e).at)) > 1

\* Nodes with nothing to do; a fork with one edge and a boundary without a body
\* are such.
Pass(e) ==
  /\ Walks(e, {"Trigger", "Join", "Noop", "Parallel", "ErrorBoundary"})
  /\ ~Forks(e)
  /\ Kind(e) = "ErrorBoundary" => BodyOfBoundary(G(e), Top(e).at) = 0
  /\ SetTop(e, Stepped(e)) /\ Goto(e, "advance")
  /\ Quiet

\* Mutant: a failed activity is checkpointed like one that was performed.
PerformAnyway(e) ==
  /\ Walks(e, {"Activity"})
  /\ LET f == Stepped(e)
     IN  \/ /\ history' = [history EXCEPT ![e] = Append(@, f.at)]
            /\ SetTop(e, [f EXCEPT !.vars[f.at] = Len(history[e]) + 1])
            /\ Goto(e, "checkpoint")
         \/ /\ SetTop(e, f) /\ Goto(e, "checkpoint")
            /\ UNCHANGED history
  /\ UNCHANGED <<graph, undone, outcome, result, storeVars, sagaVars, crashes>>

\* The activity takes effect and its output is stored; or it fails, and has none.
Perform(e) ==
  /\ Walks(e, {"Activity"})
  /\ LET f == Stepped(e)
     IN  \/ /\ history' = [history EXCEPT ![e] = Append(@, f.at)]
            /\ SetTop(e, [f EXCEPT !.vars[f.at] = Len(history[e]) + 1])
            /\ Goto(e, "checkpoint")
         \/ /\ SetTop(e, f) /\ Goto(e, "error")
            /\ UNCHANGED history
  /\ UNCHANGED <<graph, undone, outcome, result, storeVars, sagaVars, crashes>>

Checkpoint(e) ==
  /\ pc[e] = "checkpoint"
  /\ CheckpointState(e, Top(e).at, Top(e))
  /\ Goto(e, "advance")
  /\ UNCHANGED <<graph, stack, history, undone, outcome, result, sagaVars, crashes>>

\* Mutant: the walk goes on past its boundary.
AdvancePastBoundary(e) ==
  /\ pc[e] = "advance"
  /\ LET f == Top(e)
         S == Followable(G(e), f.at)
     IN  \/ \E i \in S : /\ Reached(G(e), S, i)
                         /\ Goto(e, "walk") /\ SetTop(e, [f EXCEPT !.at = Target(G(e), i)])
         \/ (\A i \in S : Guarded(G(e), i)) /\ Goto(e, "return") /\ UNCHANGED stack
         \/ /\ \E i \in S : Reached(G(e), S, i) /\ Guarded(G(e), i)
            /\ Goto(e, "error") /\ UNCHANGED stack
  /\ Quiet

\* On to the next node: the walk ends at its boundary, and where no edge can be
\* followed.
Advance(e) ==
  /\ pc[e] = "advance"
  /\ LET f == Top(e)
         S == Followable(G(e), f.at)
     IN  \/ \E i \in S :
              /\ Reached(G(e), S, i)
              /\ IF f.boundary # NoNode /\ Target(G(e), i) = f.boundary
                 THEN Goto(e, "return") /\ UNCHANGED stack
                 ELSE Goto(e, "walk") /\ SetTop(e, [f EXCEPT !.at = Target(G(e), i)])
         \/ (\A i \in S : Guarded(G(e), i)) /\ Goto(e, "return") /\ UNCHANGED stack
         \/ /\ \E i \in S : Reached(G(e), S, i) /\ Guarded(G(e), i)
            /\ Goto(e, "error") /\ UNCHANGED stack
  /\ Quiet

\* EndTrigger evaluates its response, which may fail.
Stop(e) ==
  /\ \/ Walks(e, {"End", "EndTrigger"}) /\ Goto(e, "return")
     \/ Walks(e, {"EndTrigger"}) /\ Goto(e, "error")
  /\ SetTop(e, Stepped(e))
  /\ Quiet

\* evaluate_gateway: the exclusive one stops at the first edge that holds, the
\* inclusive one evaluates them all; either way the walk goes on along the first.
Choose(e) ==
  /\ Walks(e, Gateways)
  /\ LET f == Stepped(e)
         S == Outgoing(G(e), f.at)
         Evaluated(i) == Kind(e) = "InclusiveGateway" \/ Reached(G(e), S, i)
     IN  \/ \E i \in S : /\ Reached(G(e), S, i)
                         /\ Goto(e, "walk") /\ SetTop(e, [f EXCEPT !.at = Target(G(e), i)])
         \/ /\ (\A i \in S : Guarded(G(e), i)) \/ (\E i \in S : Guarded(G(e), i) /\ Evaluated(i))
            /\ Goto(e, "error") /\ SetTop(e, f)
  /\ Quiet

EnterLoop(e) ==
  /\ Walks(e, Loops)
  /\ LET f == Stepped(e)
         Enter(n) == SetTop(e, [f EXCEPT !.wait = "loop", !.left = n]) /\ Goto(e, "turn")
     IN  \/ Kind(e) = "LoopRepeat" /\ Enter(G(e).repeat[f.at])
         \/ Kind(e) = "LoopWhile" /\ Enter(MaxItems)
         \/ Kind(e) = "LoopForEach" /\ \E n \in 0 .. MaxItems : Enter(n)
         \/ Kind(e) = "LoopForEach" /\ Goto(e, "error") /\ SetTop(e, f)
  /\ Quiet

\* Mutant: a round more than there are.
TurnOnceMore(e) ==
  /\ pc[e] = "turn"
  /\ LET f == [Top(e) EXCEPT !.left = @ - 1]
         body == FindBodyEdge(G(e), f.at)
     IN  IF body = 0 THEN SetTop(e, f) /\ UNCHANGED pc
         ELSE /\ Call(e, f, Frame(Target(G(e), body), f.at, f.steps, f.vars))
              /\ Goto(e, "walk")
  /\ Quiet

\* Mutant: only rounds that walk a body are counted.
TurnCountsBodies(e) ==
  /\ pc[e] = "turn" /\ Top(e).left > 0
  /\ LET f == [Top(e) EXCEPT !.left = @ - 1]
         body == FindBodyEdge(G(e), f.at)
     IN  IF body = 0 THEN UNCHANGED <<pc, stack>>
         ELSE /\ Call(e, f, Frame(Target(G(e), body), f.at, f.steps, f.vars))
              /\ Goto(e, "walk")
  /\ Quiet

\* A round of a loop walks its body up to the edge back to the loop.
Turn(e) ==
  /\ pc[e] = "turn" /\ Top(e).left > 0
  /\ LET f == [Top(e) EXCEPT !.left = @ - 1]
         body == FindBodyEdge(G(e), f.at)
     IN  IF body = 0 THEN SetTop(e, f) /\ UNCHANGED pc
         ELSE /\ Call(e, f, Frame(Target(G(e), body), f.at, f.steps, f.vars))
              /\ Goto(e, "walk")
  /\ Quiet

\* After the last round, or when the condition of a LoopWhile is false, the walk
\* goes on along the exit edge; the condition may also fail.
LeaveLoop(e) ==
  /\ pc[e] = "turn"
  /\ LET f == [Top(e) EXCEPT !.wait = "none", !.left = 0]
         exit == FindExitEdge(G(e), f.at)
         while == Kind(e) = "LoopWhile" /\ Top(e).left > 0
     IN  \/ /\ (Top(e).left = 0 \/ while) /\ exit # 0
            /\ Goto(e, "walk") /\ SetTop(e, [f EXCEPT !.at = Target(G(e), exit)])
         \/ /\ while \/ (Top(e).left = 0 /\ exit = 0)
            /\ Goto(e, "error") /\ SetTop(e, f)
  /\ Quiet

\* The walk of a boundary's body has no boundary of its own.
EnterBoundary(e) ==
  /\ Walks(e, {"ErrorBoundary"}) /\ BodyOfBoundary(G(e), Top(e).at) # 0
  /\ LET f == [Stepped(e) EXCEPT !.wait = "body", !.mark = Len(history[e])]
     IN  Call(e, f, Frame(Target(G(e), BodyOfBoundary(G(e), Top(e).at)), NoNode, f.steps, f.vars))
  /\ Goto(e, "walk")
  /\ Quiet

\* The branches of a fork are walked one after the other, each up to the join.
Branch(e, f, i) == Frame(Target(G(e), i), FindJoin(G(e)), 0, f.vars)

Fork(e) ==
  /\ Walks(e, {"Parallel"}) /\ Forks(e)
  /\ LET edges == Outgoing(G(e), Top(e).at)
         f == [Stepped(e) EXCEPT !.wait = "fork", !.merged = Top(e).vars,
                                 !.branches = edges \ {Min(edges)}]
     IN  Call(e, f, Branch(e, f, Min(edges)))
  /\ Goto(e, "walk")
  /\ Quiet

-----------------------------------------------------------------------------
(* The returns of walk_subgraph: Ok to a loop, to a boundary, to a fork.   *)

Returns(e, label, wait) == pc[e] = label /\ Len(stack[e]) > 1 /\ Caller(e).wait = wait

\* The variables and the steps of a loop or a boundary are those of its body.
Shared(e) == [Caller(e) EXCEPT !.steps = Top(e).steps, !.vars = Top(e).vars]

LoopReturns(e) ==
  /\ Returns(e, "return", "loop")
  /\ ReturnTo(e, Shared(e)) /\ Goto(e, "turn")
  /\ Quiet

BoundaryReturns(e) ==
  /\ Returns(e, "return", "body")
  /\ ReturnTo(e, [Shared(e) EXCEPT !.wait = "none", !.mark = 0]) /\ UNCHANGED pc
  /\ Quiet

\* Mutant: the last branch's variables are all that is left.
MergeLast(merged, branch) == branch
\* What a branch has set is laid over what the fork has so far.
Merge(merged, branch) == [n \in DOMAIN merged |-> IF branch[n] # 0 THEN branch[n] ELSE merged[n]]

ForkReturns(e) ==
  /\ Returns(e, "return", "fork")
  /\ LET c == Caller(e)
         f == [c EXCEPT !.steps = @ + Top(e).steps, !.merged = Merge(@, Top(e).vars)]
         done == [f EXCEPT !.wait = "none", !.vars = f.merged, !.merged = <<>>]
         i == Min(c.branches)
     IN  \/ /\ c.branches # {}
            /\ stack' = [stack EXCEPT ![e] =
                 Append(Front(Front(@)), [f EXCEPT !.branches = @ \ {i}]) \o <<Branch(e, f, i)>>]
            /\ Goto(e, "walk")
         \/ /\ c.branches = {} /\ FindJoin(G(e)) # NoNode
            /\ ReturnTo(e, [done EXCEPT !.at = FindJoin(G(e))]) /\ Goto(e, "walk")
         \/ /\ c.branches = {} /\ FindJoin(G(e)) = NoNode
            /\ ReturnTo(e, done) /\ Goto(e, "advance")
  /\ Quiet

\* ... and Err, which a loop and a fork hand on
Unwind(e) ==
  /\ pc[e] = "error" /\ Len(stack[e]) > 1 /\ Caller(e).wait # "body"
  /\ ReturnTo(e, [Caller(e) EXCEPT !.wait = "none", !.left = 0, !.branches = {}, !.merged = <<>>,
                                    !.steps = IF Caller(e).wait = "loop" THEN Top(e).steps ELSE @])
  /\ UNCHANGED pc
  /\ Quiet

\* and a boundary catches: its variables are what they were before the body.
Catch(e) ==
  /\ Returns(e, "error", "body")
  /\ LET f == [Caller(e) EXCEPT !.wait = "none", !.mark = 0, !.steps = Top(e).steps]
         errors == FindErrorEdge(G(e), f.at)
     IN  IF errors = 0 THEN ReturnTo(e, f) /\ UNCHANGED <<pc, undone>>
         ELSE /\ ReturnTo(e, [f EXCEPT !.at = Target(G(e), errors)])
              /\ Goto(e, "walk")
              /\ undone' = [undone EXCEPT ![e] = @ \cup (Caller(e).mark + 1 .. Len(history[e]))]
  /\ UNCHANGED <<graph, history, outcome, result, storeVars, sagaVars, crashes>>

Over(e, how) ==
  /\ Goto(e, "done") /\ stack' = [stack EXCEPT ![e] = <<>>]
  /\ outcome' = [outcome EXCEPT ![e] = how]
  /\ UNCHANGED <<graph, history, undone, sagaVars, crashes>>

\* The end of execute: the status is stored, the caller gets its answer.
Finish(e) ==
  /\ Len(stack[e]) = 1
  /\ \/ /\ pc[e] = "return"
        /\ UpdateStatus(e, "Completed") /\ Over(e, "ok")
        /\ result' = [result EXCEPT ![e] = Top(e).vars]
     \/ /\ pc[e] = "error"
        /\ UpdateStatus(e, "Failed") /\ Over(e, "err")
        /\ UNCHANGED result

\* The client of a webhook goes away while an activity is under way: the future
\* of execute is dropped, whether the activity has taken effect or not.
Drop(e) ==
  /\ Walks(e, {"Activity"}) \/ pc[e] = "checkpoint"
  /\ Over(e, "dropped")
  /\ UNCHANGED <<result, storeVars>>

-----------------------------------------------------------------------------
(* Compensation, by the program that embeds the engine.  The store keeps no *)
(* account of it but the status: whoever compensates later begins anew.    *)

\* Whom that program compensates: what failed, and what list_incomplete hands it,
\* Running or Compensating, when no task walks it.
ToCompensate(e) == pc[e] = "done" /\ Known(e) /\ mem[e].status # "Completed"

\* Before it compensates, while it does, or not at all
SetCompensating(e) ==
  /\ ToCompensate(e)
  /\ UpdateStatus(e, "Compensating")
  /\ UNCHANGED <<walkVars, sagaVars, crashes>>

\* The positions of the completed activities that have a compensation.
CollectCompensations(e, completed) ==
  {i \in DOMAIN completed : completed[i] \in G(e).compensable}

\* A run begins: the first one, one after another, or one in the place of another
\* that was given up half way.
Collect(e) ==
  /\ ToCompensate(e)
  /\ actions' = [actions EXCEPT ![e] = CollectCompensations(e, mem[e].completed)]
  /\ undid' = [undid EXCEPT ![e] = <<>>]
  /\ UNCHANGED <<walkVars, storeVars, crashes>>

\* Mutant: in the order of performing.
CompensateForward(e) ==
  /\ actions[e] # {}
  /\ undid' = [undid EXCEPT ![e] = Append(@, Min(actions[e]))]
  /\ actions' = [actions EXCEPT ![e] = @ \ {Min(@)}]
  /\ UNCHANGED <<walkVars, storeVars, crashes>>

\* run_compensation goes through the actions from the last to the first and on
\* after one that failed.
Compensate(e) ==
  /\ actions[e] # {}
  /\ undid' = [undid EXCEPT ![e] = Append(@, Max(actions[e]))]
  /\ actions' = [actions EXCEPT ![e] = @ \ {Max(@)}]
  /\ UNCHANGED <<walkVars, storeVars, crashes>>

-----------------------------------------------------------------------------
\* The process dies and is started again; the new one may call recover, which
\* finds what was dropped before running like what was cut off.
Restart ==
  /\ crashes < MaxCrashes /\ crashes' = crashes + 1
  /\ LET lost == {e \in Execution : pc[e] \notin {"new", "done"} \/ outcome[e] = "dropped"}
     IN  /\ pc' = [e \in Execution |-> IF e \in lost THEN "done" ELSE pc[e]]
         /\ outcome' = [e \in Execution |-> IF e \in lost THEN "lost" ELSE outcome[e]]
  /\ stack' = [e \in Execution |-> <<>>]
  /\ \E recovers \in BOOLEAN : mem' = [e \in Execution |-> IF recovers THEN disk[e] ELSE NoState]
  /\ actions' = [e \in Execution |-> {}] /\ undid' = [e \in Execution |-> NoRun]
  /\ UNCHANGED <<graph, history, undone, result, disk, dbFailures>>

Walk(e) ==
  \/ TooManySteps(e) \/ Pass(e) \/ Perform(e) \/ Checkpoint(e) \/ Advance(e) \/ Stop(e)
  \/ Choose(e) \/ EnterLoop(e) \/ Turn(e) \/ LeaveLoop(e) \/ EnterBoundary(e) \/ Fork(e)
  \/ LoopReturns(e) \/ BoundaryReturns(e) \/ ForkReturns(e) \/ Unwind(e) \/ Catch(e) \/ Finish(e)

Next ==
  \/ \E e \in Execution : Begin(e) \/ Walk(e) \/ Drop(e)
                        \/ SetCompensating(e) \/ Collect(e) \/ Compensate(e)
  \/ PurgeCompleted
  \/ Restart

Spec == Init /\ [][Next]_vars

\* The task of an execution is polled, and connectors answer or fail.
FairSpec == Spec /\ \A e \in Execution : WF_vars(Walk(e))

-----------------------------------------------------------------------------
(* Properties.                                                             *)

Times(e, n) == Cardinality({i \in DOMAIN history[e] : history[e][i] = n})
Binding(e) == [Nodes(G(e)) -> 0 .. Len(history[e])]
States(e) ==
  [status : {"Running", "Completed", "Failed", "Compensating"},
   completed : Seq(Nodes(G(e))), vars : Binding(e)]
Frames(e) ==
  [at : Nodes(G(e)), boundary : Nodes(G(e)) \cup {NoNode}, steps : Nat, vars : Binding(e),
   wait : {"none", "loop", "body", "fork"}, left : Nat, branches : SUBSET Edges(G(e)),
   merged : Binding(e) \cup {<<>>}, mark : 0 .. Len(history[e])]
FrameOK(e, f) ==
  IF f.wait = "fork" THEN f.merged \in Binding(e) /\ f.branches \subseteq Outgoing(G(e), f.at)
  ELSE f.merged = <<>> /\ f.branches = {}

\* Frames are at nodes of their graph, only the innermost walks, and states on
\* record are of activities performed.
TypeOK ==
  /\ graph \in [Execution -> Name]
  /\ pc \in [Execution -> {"new", "walk", "checkpoint", "advance", "turn", "return", "error", "done"}]
  /\ outcome \in [Execution -> {"none", "ok", "err", "dropped", "lost"}]
  /\ \A e \in Execution :
       /\ (stack[e] = <<>>) <=> (pc[e] \in {"new", "done"})
       /\ stack[e] \in Seq(Frames(e))
       /\ \A k \in DOMAIN stack[e] :
            /\ FrameOK(e, stack[e][k])
            /\ (stack[e][k].wait = "none") <=> (k = Len(stack[e]) /\ pc[e] # "turn")
       /\ history[e] \in Seq(Nodes(G(e))) /\ undone[e] \subseteq DOMAIN history[e]
       /\ {mem[e], disk[e]} \subseteq States(e) \cup {NoState}
       /\ actions[e] \subseteq DOMAIN history[e]
       /\ undid[e] \in Seq(DOMAIN history[e]) \cup {NoRun}
  /\ crashes \in 0 .. MaxCrashes /\ dbFailures \in 0 .. MaxDbFailures

\* No activity is performed more often than the chart of the workflow says: once
\* in each round of the loops around it.  Whether the walks of bodies and branches
\* stop where they must decides this.
RunsAsOften == \A e \in Execution : \A n \in Nodes(G(e)) : Times(e, n) <= G(e).times[n]

\* When an execution succeeds its variables hold the newest output of every
\* activity performed, whichever branch or body it was in, and of none whose
\* results an error boundary took back.
ResultComplete ==
  \A e \in Execution : outcome[e] = "ok" =>
    \A n \in Nodes(G(e)) :
      result[e][n] = Max({0} \cup {i \in DOMAIN history[e] \ undone[e] : history[e][i] = n})

\* What the database says of an execution is true of it, whatever writes failed
\* and wherever the process died: the activities it names were performed, in this
\* order and from the first on, its variables are their outputs, and an end on
\* record is the end there was.
DiskTruthful ==
  \A e \in Execution : LET d == disk[e] IN d # NoState =>
    /\ IsPrefix(d.completed, history[e])
    /\ \A n \in Nodes(G(e)) : d.vars[n] # 0 => /\ d.vars[n] <= Len(d.completed)
                                               /\ d.completed[d.vars[n]] = n
    /\ d.status = "Completed" => outcome[e] = "ok"
    /\ d.status = "Failed" => outcome[e] = "err"

\* While the database accepts its writes, it lacks at most the activity that is
\* under way or was when the execution was lost, and nothing once the caller has
\* an answer; and an execution with an answer is never found running.
LosesAtMostOne ==
  dbFailures = 0 => \A e \in Execution : disk[e] # NoState =>
    LET told == outcome[e] \in {"ok", "err"}
    IN  /\ Len(history[e]) - Len(disk[e].completed) <= IF told THEN 0 ELSE 1
        /\ told => disk[e].status # "Running"

\* A run of compensation undoes in the reverse order of performing, nothing twice,
\* and nothing that was not performed; and while the database accepts its writes it
\* leaves no performed activity standing that has a compensation, those of a failed
\* body or branch included, before a crash or after it: only the one that was under
\* way when the execution was cut off, if its caller never got an answer.
CompensatedInReverse ==
  \A e \in Execution : undid[e] # NoRun =>
    /\ \A i \in DOMAIN undid[e] : history[e][undid[e][i]] \in G(e).compensable
    /\ \A i, j \in DOMAIN undid[e] : i < j => undid[e][i] > undid[e][j]
    /\ (actions[e] = {} /\ dbFailures = 0) =>
         \A i \in DOMAIN history[e] : history[e][i] \in G(e).compensable =>
           i \in Range(undid[e]) \/ (i = Len(history[e]) /\ outcome[e] # "err")

\* An execution that has begun comes to an end, whatever its graph: the step
\* count bounds cycles and loops.
ExecutionsEnd == \A e \in Execution : (pc[e] = "walk") ~> (pc[e] = "done")
=============================================================================
