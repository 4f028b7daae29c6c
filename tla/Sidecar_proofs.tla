--------------------------- MODULE Sidecar_proofs ---------------------------
(***************************************************************************)
(* For any number of callers, calls and health checks: the in_flight gauge *)
(* of a sidecar is exact, a call that no other call overlaps returns the   *)
(* reply to its own request, the state keeps its types, and the connection *)
(* belongs to one task at a time.                                          *)
(***************************************************************************)
EXTENDS Sidecar, FiniteSetTheorems, SequenceTheorems, TLAPS

CallerLabel == {"idle", "write", "lock", "recv", "read", "returned"}
OtherLabel == {"idle", "lock", "recv", "bye", "stop", "over"}
Label == CallerLabel \cup OtherLabel

\* f is a function of the callers, whatever its values
OnCallers(f) == f = [c \in Caller |-> f[c]]

\* The part of TypeOK that the two invariants rest on.
Shape ==
  /\ pc \in [Task -> Label]
  /\ \A c \in Caller : pc[c] \in CallerLabel
  /\ OnCallers(id) /\ OnCallers(answer)
  /\ inFlight \in Int /\ leaked \in Nat

IInv == Shape /\ InFlightAccounted

-----------------------------------------------------------------------------
(* An update of such a function at c, pointwise.                           *)
LEMMA Update ==
  ASSUME NEW f, OnCallers(f), NEW c \in Caller, NEW x
  PROVE  /\ OnCallers([f EXCEPT ![c] = x])
         /\ \A d \in Caller : [f EXCEPT ![c] = x][d] = IF d = c THEN x ELSE f[d]
<1>1. f = [d \in Caller |-> f[d]]
  BY DEF OnCallers
<1>2. [f EXCEPT ![c] = x] = [d \in Caller |-> IF d = c THEN x ELSE f[d]]
  BY <1>1
<1>3. QED
  BY <1>2 DEF OnCallers

LEMMA ActiveFinite == IsFiniteSet(Active) /\ Cardinality(Active) \in Nat
<1>1. Active \subseteq Caller
  BY DEF Active
<1>2. QED
  BY <1>1, SidecarAssumption, FS_Subset, FS_CardinalityType

(* A move of a caller keeps the shape of pc.                               *)
LEMMA CallerMoves ==
  ASSUME Shape, NEW c \in Caller, NEW label \in CallerLabel, Goto(c, label)
  PROVE  /\ pc' \in [Task -> Label]
         /\ \A d \in Caller : pc'[d] \in CallerLabel
         /\ pc'[c] = label
         /\ \A d \in Caller \ {c} : pc'[d] = pc[d]
<1>1. Caller \subseteq Task
  BY DEF Task
<1>2. QED
  BY <1>1 DEF Shape, Goto, CallerLabel, Label

(* A caller that enters a call is one more active one.                     *)
LEMMA CallerEnters ==
  ASSUME Shape, NEW c \in Caller, pc[c] \in {"idle", "returned"}, Goto(c, "write")
  PROVE  Cardinality(Active') = Cardinality(Active) + 1
<1>1. Active' = Active \cup {c}
  BY DEF Shape, Goto, Active, Task
<1>2. c \notin Active
  BY DEF Active
<1>3. QED
  BY <1>1, <1>2, ActiveFinite, FS_AddElement

(* A caller that leaves it is one less.                                    *)
LEMMA CallerLeaves ==
  ASSUME Shape, NEW c \in Caller, pc[c] \in {"write", "lock", "recv", "read"},
         NEW label \in {"idle", "returned"}, Goto(c, label)
  PROVE  Cardinality(Active') = Cardinality(Active) - 1
<1>1. Active' = Active \ {c}
  BY DEF Shape, Goto, Active, Task
<1>2. c \in Active
  BY DEF Active
<1>3. QED
  BY <1>1, <1>2, ActiveFinite, FS_RemoveElement

(* Every other step of a call leaves the active ones alone, and so does     *)
(* every step of the health loop and the drain.                            *)
LEMMA CallerStays ==
  ASSUME Shape, NEW c \in Caller, NEW label,
         Goto(c, label),
         \/ pc[c] \in {"write", "lock", "recv", "read"} /\ label \in {"lock", "recv", "read"}
         \/ pc[c] = "returned" /\ label = "idle"
  PROVE  Active' = Active
BY DEF Shape, Goto, Active, Task

LEMMA OtherMoves ==
  ASSUME Shape, NEW t \in {Loop, Drainer}, NEW label \in OtherLabel, Goto(t, label)
  PROVE  /\ Active' = Active
         /\ pc' \in [Task -> Label]
         /\ \A c \in Caller : pc'[c] = pc[c]
<1>1. t \in Task /\ t \notin Caller
  BY SidecarAssumption DEF Task
<1>2. QED
  BY <1>1 DEF Shape, Label, Goto, Active, Task

-----------------------------------------------------------------------------
LEMMA InitIInv == Init => IInv
<1> SUFFICES ASSUME Init PROVE IInv
  OBVIOUS
<1>1. Shape
  BY DEF Init, Shape, OnCallers, CallerLabel, OtherLabel, Label, Task
<1>2. Active = {}
  BY DEF Init, Active, Task
<1>3. InFlightAccounted
  BY <1>2, FS_EmptySet DEF Init, InFlightAccounted
<1>4. QED
  BY <1>1, <1>3 DEF IInv

(* The steps of a call, one by one.                                        *)
LEMMA CallKeepsIInv ==
  ASSUME IInv, NEW c \in Caller, Begin(c) \/ Call(c)
  PROVE  IInv'
<1> USE DEF IInv
<1>t. c \in Task
  BY DEF Task
<1>1. CASE Begin(c)
  <2>1. Shape'
    BY <1>1, <1>t DEF Begin, Shape, OnCallers, CallerLabel, Label, Goto, CallStarts
  <2>2. Cardinality(Active') = Cardinality(Active) + 1
    BY <1>1, CallerEnters DEF Begin, At
  <2>3. InFlightAccounted'
    BY <1>1, <2>2, ActiveFinite DEF Begin, Shape, CallStarts, InFlightAccounted
  <2>4. QED
    BY <2>1, <2>3
<1>2. CASE Write(c)
  <2>0. OnCallers(id)' /\ OnCallers(answer)'
    BY <1>2, Update DEF Write, Shape, OnCallers
  <2>m. /\ pc' \in [Task -> Label]
        /\ \A d \in Caller : pc'[d] \in CallerLabel
    BY <1>2, CallerMoves DEF Write, CallerLabel
  <2>1. Shape'
    BY <1>2, <2>0, <2>m DEF Write, Shape, metricVars
  <2>2. InFlightAccounted'
    <3>1. CASE leaked' = leaked /\ Goto(c, "lock")
      <4>1. Active' = Active
        BY <1>2, <3>1, CallerStays DEF Write, At
      <4>2. QED
        BY <1>2, <3>1, <4>1 DEF Write, metricVars, InFlightAccounted
    <3>2. CASE leaked' = leaked + 1 /\ Goto(c, "idle")
      <4>1. Cardinality(Active') = Cardinality(Active) - 1
        BY <1>2, <3>2, CallerLeaves DEF Write, At
      <4>2. QED
        BY <1>2, <3>2, <4>1, ActiveFinite DEF Write, Shape, metricVars, InFlightAccounted
    <3>3. QED
      BY <1>2, <3>1, <3>2 DEF Write
  <2>3. QED
    BY <2>1, <2>2
<1>3. CASE Send(c)
  <2>1. Shape'
    BY <1>3, <1>t DEF Send, Shape, OnCallers, CallerLabel, Label, Goto, metricVars, callVars
  <2>2. Active' = Active
    BY <1>3, CallerStays DEF Send, At
  <2>3. InFlightAccounted'
    BY <1>3, <2>2 DEF Send, metricVars, callVars, InFlightAccounted
  <2>4. QED
    BY <2>1, <2>3
<1>4. CASE Recv(c)
  <2>0. pc[c] = "recv" /\ leaked' = leaked /\ id' = id /\ answer' = answer
    BY <1>4 DEF Recv, At, callVars
  <2>1. CASE Goto(c, "read") /\ inFlight' = inFlight
    <3>1. Shape'
      BY <2>0, <2>1, <1>t DEF Shape, OnCallers, CallerLabel, Label, Goto
    <3>2. Active' = Active
      BY <2>0, <2>1, CallerStays
    <3>3. QED
      BY <2>0, <2>1, <3>1, <3>2 DEF InFlightAccounted
  <2>2. CASE Goto(c, "idle") /\ inFlight' = inFlight - 1
    <3>1. Shape'
      BY <2>0, <2>2, <1>t DEF Shape, OnCallers, CallerLabel, Label, Goto
    <3>2. Cardinality(Active') = Cardinality(Active) - 1
      BY <2>0, <2>2, CallerLeaves
    <3>3. QED
      BY <2>0, <2>2, <3>1, <3>2, ActiveFinite DEF Shape, InFlightAccounted
  <2>3. QED
    BY <1>4, <2>1, <2>2 DEF Recv, CallEnds
<1>5. CASE Read(c)
  <2>1. /\ pc[c] = "read" /\ id' = id
        /\ \/ /\ answer' = [answer EXCEPT ![c] = reply]
              /\ inFlight' = inFlight - 1 /\ leaked' = leaked /\ Goto(c, "returned")
           \/ /\ answer' = answer
              /\ inFlight' = inFlight /\ leaked' = leaked + 1 /\ Goto(c, "idle")
    BY <1>5 DEF Read, At, CallEnds
  <2>r. OnCallers(id)' /\ OnCallers(answer)'
    BY <2>1, Update DEF Shape, OnCallers
  <2>m. /\ pc' \in [Task -> Label]
        /\ \A d \in Caller : pc'[d] \in CallerLabel
    BY <2>1, CallerMoves DEF CallerLabel
  <2>2. Shape'
    BY <2>1, <2>r, <2>m DEF Shape
  <2>3. Cardinality(Active') = Cardinality(Active) - 1
    BY <2>1, CallerLeaves
  <2>4. InFlightAccounted'
    BY <2>1, <2>3, ActiveFinite DEF Shape, InFlightAccounted
  <2>5. QED
    BY <2>2, <2>4
<1>6. CASE Return(c)
  <2>0. OnCallers(id)' /\ OnCallers(answer)'
    BY <1>6, Update DEF Return, Shape, OnCallers
  <2>1. Shape'
    BY <1>6, <2>0, <1>t DEF Return, Shape, CallerLabel, Label, Goto, metricVars
  <2>2. Active' = Active
    BY <1>6, CallerStays DEF Return, At
  <2>3. InFlightAccounted'
    BY <1>6, <2>2 DEF Return, metricVars, InFlightAccounted
  <2>4. QED
    BY <2>1, <2>3
<1>7. CASE Fail(c)
  <2>1. Shape'
    BY <1>7, <1>t DEF Fail, Shape, OnCallers, CallerLabel, Label, Goto, CallEnds, callVars
  <2>2. Cardinality(Active') = Cardinality(Active) - 1
    BY <1>7, CallerLeaves DEF Fail
  <2>3. InFlightAccounted'
    BY <1>7, <2>2, ActiveFinite DEF Fail, Shape, CallEnds, callVars, InFlightAccounted
  <2>4. QED
    BY <2>1, <2>3
<1>8. QED
  BY <1>1, <1>2, <1>3, <1>4, <1>5, <1>6, <1>7 DEF Call

(* The health loop, the drain and the sidecar touch neither the calls nor   *)
(* the gauge.                                                              *)
Aside ==
  /\ UNCHANGED <<callVars, inFlight>>
  /\ \/ UNCHANGED pc
     \/ \E t \in {Loop, Drainer}, label \in OtherLabel : Goto(t, label)

LEMMA AsideKeepsIInv == IInv /\ Aside => IInv'
<1> SUFFICES ASSUME IInv, Aside PROVE IInv'
  OBVIOUS
<1>1. /\ Active' = Active
      /\ pc' \in [Task -> Label]
      /\ \A c \in Caller : pc'[c] = pc[c]
  <2>1. CASE UNCHANGED pc
    BY <2>1 DEF IInv, Shape, Active
  <2>2. CASE \E t \in {Loop, Drainer}, label \in OtherLabel : Goto(t, label)
    BY <2>2, OtherMoves DEF IInv
  <2>3. QED
    BY <2>1, <2>2 DEF Aside
<1>2. id' = id /\ answer' = answer /\ leaked' = leaked /\ inFlight' = inFlight
  BY DEF Aside, callVars
<1>3. QED
  BY <1>1, <1>2 DEF IInv, Shape, OnCallers, InFlightAccounted

LEMMA OthersAreAside ==
  ASSUME \/ NextCheck \/ CheckHealth
         \/ StartDrain \/ Drain
         \/ Serve \/ Crash
  PROVE  Aside
<1>1. ASSUME NextCheck PROVE Aside
  BY <1>1 DEF NextCheck, Aside, OtherLabel, metricVars
<1>2. ASSUME CheckHealth PROVE Aside
  BY <1>2 DEF CheckHealth, SendHealth, RecvHealth, FailHealth, Aside, OtherLabel, metricVars
<1>3. ASSUME StartDrain PROVE Aside
  BY <1>3 DEF StartDrain, Aside, OtherLabel, metricVars
<1>4. ASSUME Drain PROVE Aside
  BY <1>4 DEF Drain, SendDrain, RecvDrained, SendShutdown, Stop, Aside, OtherLabel, metricVars
<1>5. ASSUME Serve \/ Crash PROVE Aside
  BY <1>5 DEF Serve, Take, WriteReply, SendResult, Refuse, Crash, Aside, OtherLabel, metricVars
<1>6. QED
  BY <1>1, <1>2, <1>3, <1>4, <1>5

LEMMA NextKeepsIInv == IInv /\ [Next]_vars => IInv'
<1> SUFFICES ASSUME IInv, [Next]_vars PROVE IInv'
  OBVIOUS
<1>1. ASSUME NEW c \in Caller, Begin(c) \/ Call(c) PROVE IInv'
  BY <1>1, CallKeepsIInv
<1>2. CASE \/ NextCheck \/ CheckHealth \/ StartDrain \/ Drain
           \/ Serve \/ Crash
  BY <1>2, OthersAreAside, AsideKeepsIInv
<1>3. CASE UNCHANGED vars
  <2>1. Aside
    BY <1>3 DEF vars, metricVars, Aside
  <2>2. QED
    BY <2>1, AsideKeepsIInv
<1>4. QED
  BY <1>1, <1>2, <1>3 DEF Next

-----------------------------------------------------------------------------
(* The invariant behind the gauge: the calls under way and the gauge agree  *)
(* at every step of invoke, the health loop and the drain.                 *)
THEOREM SidecarInvariant == Spec => []IInv
<1>1. Init => IInv
  BY InitIInv
<1>2. IInv /\ [Next]_vars => IInv'
  BY NextKeepsIInv
<1>3. QED
  BY <1>1, <1>2, PTL DEF Spec

(* metrics.in_flight is the number of calls under way plus those that ended *)
(* without telling the metrics (dispatcher.rs 73-117): in particular it     *)
(* never goes below zero.                                                  *)
THEOREM SidecarInFlight == Spec => []InFlightAccounted
<1>1. IInv => InFlightAccounted
  BY DEF IInv
<1>2. QED
  BY <1>1, SidecarInvariant, PTL

-----------------------------------------------------------------------------
(* The types, and who is in the queue of the lock.                         *)

RequestOrNone == Request \cup {None}
Kind == {"invoke", "health", "drain", "shutdown", "torn",
         "result", "refused", "health_ok", "drained"}
Messages == [kind : Kind, request : RequestOrNone]

Waits(t) == \E i \in 1 .. Len(lock) : lock[i] = t
Writing == {c \in Caller : pc[c] = "write"}

\* The data: every message on the wire names a request or none.
Data ==
  /\ health \in {"healthy", "unhealthy", "disconnected", "draining", "stopped"}
  /\ connected \in BOOLEAN /\ closed \in BOOLEAN
  /\ toSidecar \in Seq(Messages) /\ toHost \in Seq(Messages)
  /\ id \in [Caller -> RequestOrNone] /\ answer \in [Caller -> RequestOrNone]
  /\ work \in RequestOrNone /\ written \in BOOLEAN /\ reply \in RequestOrNone
  /\ alone \subseteq Caller

\* A request number is left for every call that is about to take one.
NumbersLast == nextId \in Nat \ {0} /\ (nextId - 1) + Cardinality(Writing) <= MaxCalls

\* A round of the health loop fails once at most.
RoundsLast ==
  /\ failures \in Nat /\ checks \in 0 .. MaxChecks
  /\ failures + (IF pc[Loop] \in {"lock", "recv"} THEN 1 ELSE 0) <= checks

\* Whoever waits for the lock or has it is in its queue, and whoever has sent
\* a message and waits for the answer is at its head.
Queued ==
  /\ lock \in Seq(Task)
  /\ \A t \in Task : pc[t] \in {"lock", "recv", "bye", "stop"} => Waits(t)
  /\ \A t \in Task : pc[t] \in {"recv", "bye", "stop"} => Holds(t)

TInv == Data /\ NumbersLast /\ RoundsLast /\ Queued

LEMMA Tasks == Loop \in Task /\ Drainer \in Task /\ Loop # Drainer /\ Caller \subseteq Task
                 /\ Loop \notin Caller /\ Drainer \notin Caller
BY SidecarAssumption DEF Task, Loop, Drainer

LEMMA WritingFinite == IsFiniteSet(Writing) /\ Cardinality(Writing) \in Nat
<1>1. Writing \subseteq Caller
  BY DEF Writing
<1>2. QED
  BY <1>1, SidecarAssumption, FS_Subset, FS_CardinalityType

\* The queue without one who is in it: the others are still there, and the head
\* is the same unless it was the one who left.
LEMMA Leaves ==
  ASSUME lock \in Seq(Task), NEW t \in Task, Waits(t)
  PROVE  /\ Unlocked(t) \in Seq(Task)
         /\ \A u \in Task \ {t} : Waits(u) =>
              \E i \in 1 .. Len(Unlocked(t)) : Unlocked(t)[i] = u
         /\ \A u \in Task \ {t} : Holds(u) => Unlocked(t) # <<>> /\ Head(Unlocked(t)) = u
<1> DEFINE n == CHOOSE i \in 1 .. Len(lock) : lock[i] = t
           l == SubSeq(lock, 1, n - 1)
           r == SubSeq(lock, n + 1, Len(lock))
<1>1. n \in 1 .. Len(lock) /\ lock[n] = t /\ Len(lock) \in Nat
  BY DEF Waits
<1>2. Unlocked(t) = l \o r
  BY DEF Unlocked
<1> HIDE DEF n
<1>3. /\ l \in Seq(Task) /\ Len(l) = n - 1 /\ \A i \in 1 .. n - 1 : l[i] = lock[i]
      /\ r \in Seq(Task) /\ Len(r) = Len(lock) - n
      /\ \A i \in 1 .. Len(lock) - n : r[i] = lock[n + i]
  BY <1>1
<1> HIDE DEF l, r
<1>a. /\ l \o r \in Seq(Task) /\ Len(l \o r) = Len(l) + Len(r)
      /\ \A i \in 1 .. Len(l) + Len(r) :
           (l \o r)[i] = IF i <= Len(l) THEN l[i] ELSE r[i - Len(l)]
  BY <1>3, ConcatProperties
<1>b. ASSUME NEW i \in 1 .. Len(lock) - 1
      PROVE  (l \o r)[i] = IF i < n THEN lock[i] ELSE lock[i + 1]
  <2>1. CASE i < n
    BY <2>1, <1>1, <1>3, <1>a
  <2>2. CASE ~(i < n)
    <3>1. i - Len(l) \in 1 .. Len(lock) - n /\ n + (i - Len(l)) = i + 1
      BY <2>2, <1>1, <1>3
    <3>2. r[i - Len(l)] = lock[n + (i - Len(l))]
      BY <3>1, <1>3
    <3>3. QED
      BY <2>2, <3>1, <3>2, <1>1, <1>3, <1>a
  <2>3. QED
    BY <2>1, <2>2
<1>4. /\ l \o r \in Seq(Task) /\ Len(l \o r) = Len(lock) - 1
      /\ \A i \in 1 .. Len(lock) - 1 : (l \o r)[i] = IF i < n THEN lock[i] ELSE lock[i + 1]
  BY <1>1, <1>3, <1>a, <1>b
<1>5. ASSUME NEW u \in Task \ {t}, Waits(u)
      PROVE  \E i \in 1 .. Len(l \o r) : (l \o r)[i] = u
  <2>1. PICK i \in 1 .. Len(lock) : lock[i] = u
    BY <1>5 DEF Waits
  <2>2. i # n
    BY <2>1, <1>1
  <2>3. CASE i < n
    <3>1. i \in 1 .. Len(lock) - 1
      BY <2>3, <1>1
    <3>2. (l \o r)[i] = u
      BY <3>1, <2>1, <2>3, <1>4
    <3>3. QED
      BY <3>1, <3>2, <1>4
  <2>4. CASE i > n
    <3> DEFINE k == i - 1
    <3>1. k \in 1 .. Len(lock) - 1 /\ ~(k < n) /\ k + 1 = i
      BY <2>4, <1>1
    <3>2. (l \o r)[k] = lock[k + 1]
      BY <3>1, <1>4
    <3>3. QED
      BY <3>1, <3>2, <2>1, <1>4
  <2>5. QED
    BY <2>2, <2>3, <2>4, <1>1
<1>6. ASSUME NEW u \in Task \ {t}, Holds(u)
      PROVE  l \o r # <<>> /\ Head(l \o r) = u
  <2>1. lock[1] = u /\ n # 1
    BY <1>6, <1>1 DEF Holds
  <2>2. (l \o r)[1] = u /\ Len(l \o r) > 0
    BY <2>1, <1>1, <1>4
  <2>3. QED
    BY <2>2, <1>4
<1>7. QED
  BY <1>2, <1>4, <1>5, <1>6

\* What a release of the lock does to its queue.
LEMMA QueuedAfterLeaving ==
  ASSUME Shape, Queued, NEW t \in Task, pc[t] \in {"lock", "recv", "bye", "stop"},
         NEW label \in {"idle", "read", "over"}, lock' = Unlocked(t), Goto(t, label)
  PROVE  Queued'
<1>1. Waits(t) /\ lock \in Seq(Task)
  BY DEF Queued
<1>2. /\ lock' \in Seq(Task)
      /\ \A u \in Task \ {t} : Waits(u) => Waits(u)'
      /\ \A u \in Task \ {t} : Holds(u) => Holds(u)'
  BY <1>1, Leaves DEF Waits, Holds
<1>3. pc'[t] = label /\ \A u \in Task \ {t} : pc'[u] = pc[u]
  BY DEF Goto, Shape
<1>4. QED
  BY <1>2, <1>3 DEF Queued

\* What a request for the lock does to its queue.
LEMMA QueuedAfterWaiting ==
  ASSUME Shape, Queued, NEW t \in Task, pc[t] \notin {"recv", "bye", "stop"}, lock' = Append(lock, t), Goto(t, "lock")
  PROVE  Queued'
<1>1. lock \in Seq(Task)
  BY DEF Queued
<1>2. /\ lock' \in Seq(Task) /\ Len(lock') = Len(lock) + 1 /\ lock'[Len(lock) + 1] = t
      /\ \A i \in 1 .. Len(lock) : lock'[i] = lock[i]
  BY <1>1
<1>3. /\ \A u \in Task : Waits(u) => Waits(u)'
      /\ \A u \in Task : Holds(u) => Holds(u)'
      /\ Waits(t)'
  BY <1>1, <1>2 DEF Waits, Holds
<1>4. pc'[t] = "lock" /\ \A u \in Task \ {t} : pc'[u] = pc[u]
  BY DEF Goto, Shape
<1>5. QED
  BY <1>2, <1>3, <1>4 DEF Queued

\* A step that leaves the lock alone.
LEMMA QueuedAfterMoving ==
  ASSUME Shape, Queued, NEW t \in Task, NEW label, lock' = lock, Goto(t, label),
         label \in {"lock", "recv", "bye", "stop"} => Waits(t),
         label \in {"recv", "bye", "stop"} => Holds(t)
  PROVE  Queued'
<1>1. pc'[t] = label /\ \A u \in Task \ {t} : pc'[u] = pc[u]
  BY DEF Goto, Shape
<1>2. \A u \in Task : Waits(u)' = Waits(u) /\ Holds(u)' = Holds(u)
  BY DEF Waits, Holds
<1>3. QED
  BY <1>1, <1>2 DEF Queued

LEMMA WritingMoves ==
  ASSUME Shape, NEW t \in Task, NEW label, Goto(t, label)
  PROVE  /\ pc[t] # "write" /\ label # "write" => Writing' = Writing
         /\ t \in Caller /\ pc[t] # "write" /\ label = "write"
              => Cardinality(Writing)' = Cardinality(Writing) + 1
         /\ t \in Caller /\ pc[t] = "write" /\ label # "write"
              => Cardinality(Writing)' = Cardinality(Writing) - 1
<1>1. pc'[t] = label /\ \A u \in Task \ {t} : pc'[u] = pc[u]
  BY DEF Goto, Shape
<1>2. pc[t] # "write" /\ label # "write" => Writing' = Writing
  BY <1>1, Tasks DEF Writing
<1>3. ASSUME t \in Caller, pc[t] # "write", label = "write"
      PROVE  Cardinality(Writing)' = Cardinality(Writing) + 1
  <2>1. Writing' = Writing \cup {t} /\ t \notin Writing
    BY <1>1, <1>3, Tasks DEF Writing
  <2>2. QED
    BY <2>1, WritingFinite, FS_AddElement
<1>4. ASSUME t \in Caller, pc[t] = "write", label # "write"
      PROVE  Cardinality(Writing)' = Cardinality(Writing) - 1
  <2>1. Writing' = Writing \ {t} /\ t \in Writing
    BY <1>1, <1>4, Tasks DEF Writing
  <2>2. QED
    BY <2>1, WritingFinite, FS_RemoveElement
<1>5. QED
  BY <1>2, <1>3, <1>4

\* A move of a caller does not touch the health loop's place.
LEMMA RoundsElsewhere ==
  ASSUME Shape, RoundsLast, NEW t \in Task, t # Loop, NEW label, Goto(t, label),
         failures' = failures, checks' = checks
  PROVE  RoundsLast'
<1>1. pc'[Loop] = pc[Loop]
  BY Tasks DEF Goto, Shape
<1>2. QED
  BY <1>1 DEF RoundsLast

LEMMA InitTInv == Init => TInv
<1> SUFFICES ASSUME Init PROVE TInv
  OBVIOUS
<1>1. Writing = {} /\ \A t \in Task : pc[t] = "idle"
  BY Tasks DEF Init, Writing
<1>2. Data
  <2>1. None \in RequestOrNone
    BY DEF RequestOrNone
  <2>2. id \in [Caller -> RequestOrNone] /\ answer \in [Caller -> RequestOrNone]
    BY <2>1 DEF Init
  <2>3. /\ work \in RequestOrNone /\ written \in BOOLEAN /\ reply \in RequestOrNone
        /\ alone \subseteq Caller
    BY <2>1 DEF Init
  <2>4. toSidecar \in Seq(Messages) /\ toHost \in Seq(Messages)
    BY DEF Init
  <2>5. QED
    BY <2>2, <2>3, <2>4 DEF Init, Data
<1>3. NumbersLast
  BY <1>1, FS_EmptySet, SidecarAssumption DEF Init, NumbersLast
<1>4. RoundsLast
  BY <1>1, Tasks, SidecarAssumption DEF Init, RoundsLast
<1>5. Queued
  BY <1>1 DEF Init, Queued
<1>6. QED
  BY <1>2, <1>3, <1>4, <1>5 DEF TInv

\* A message more on a stream, and one less.
LEMMA Streams ==
  ASSUME NEW s \in Seq(Messages)
  PROVE  /\ \A m \in Messages : Append(s, m) \in Seq(Messages)
         /\ s # <<>> => Head(s) \in Messages /\ Tail(s) \in Seq(Messages)
OBVIOUS

\* A send that is given up leaves the stream's type alone.
LEMMA GivenUp ==
  ASSUME toSidecar \in Seq(Messages), NEW t, GiveUp(t)
  PROVE  toSidecar' \in Seq(Messages)
<1>1. [kind |-> "torn", request |-> None] \in Messages
  BY DEF Messages, Kind, RequestOrNone
<1>2. toSidecar' = toSidecar \/ toSidecar' = Append(toSidecar, [kind |-> "torn", request |-> None])
  BY DEF GiveUp, Deliver, Message
<1>3. QED
  BY <1>1, <1>2, Streams

\* The steps of a call.
LEMMA CallKeepsTInv ==
  ASSUME IInv, TInv, NEW c \in Caller, Begin(c) \/ Call(c)
  PROVE  TInv'
<1> USE DEF TInv
<1>t. c \in Task /\ c # Loop /\ Shape /\ leaked \in Nat
  BY Tasks DEF IInv, Shape
<1>1. CASE Begin(c)
  <2>1. /\ Goto(c, "write") /\ pc[c] = "idle" /\ failures' = failures /\ checks' = checks
        /\ lock' = lock /\ nextId' = nextId /\ Begun < MaxCalls
        /\ UNCHANGED <<health, connected, closed, toSidecar, toHost, id, answer, work, written, reply>>
        /\ alone' \in {{}, {c}}
    BY <1>1 DEF Begin, At, entryVars, wireVars, sidecarVars
  <2>2. Data'
    BY <2>1 DEF Data
  <2>3. NumbersLast'
    BY <2>1, <1>t, WritingMoves, WritingFinite, SidecarAssumption DEF NumbersLast, Begun, Writing, At
  <2>4. RoundsLast'
    BY <2>1, <1>t, RoundsElsewhere
  <2>5. Queued'
    BY <2>1, <1>t, QueuedAfterMoving
  <2> QED BY <2>2, <2>3, <2>4, <2>5
<1>2. CASE Write(c)
  <2>1. /\ pc[c] = "write" /\ failures' = failures /\ checks' = checks
        /\ UNCHANGED <<health, connected, closed, toSidecar, toHost, answer, alone, work, written>>
        /\ reply' \in {reply, None}
        /\ \/ /\ id' = [id EXCEPT ![c] = nextId] /\ nextId' = nextId + 1
              /\ lock' = Append(lock, c) /\ Goto(c, "lock")
           \/ /\ Goto(c, "idle") /\ UNCHANGED <<id, nextId, lock>>
    BY <1>2 DEF Write, At, entryVars, metricVars, wireVars, sidecarVars
  <2>n. nextId \in Request
    <3>1. Cardinality(Writing) >= 1
      <4>1. c \in Writing
        BY <2>1 DEF Writing
      <4>2. Cardinality(Writing) # 0
        BY <4>1, WritingFinite, FS_EmptySet
      <4>3. QED
        BY <4>2, WritingFinite
    <3>2. QED
      BY <3>1, WritingFinite, SidecarAssumption DEF NumbersLast, Request
  <2>2. Data'
    BY <2>1, <2>n DEF Data, RequestOrNone
  <2>3. NumbersLast'
    <3>1. Cardinality(Writing)' = Cardinality(Writing) - 1
      BY <2>1, <1>t, WritingMoves
    <3>2. nextId' \in {nextId, nextId + 1}
      BY <2>1
    <3>3. QED
      BY <3>1, <3>2, WritingFinite, SidecarAssumption DEF NumbersLast
  <2>4. RoundsLast'
    BY <2>1, <1>t, RoundsElsewhere
  <2>5. Queued'
    BY <2>1, <1>t, QueuedAfterWaiting, QueuedAfterMoving
  <2> QED BY <2>2, <2>3, <2>4, <2>5
<1>3. CASE Send(c)
  <2>1. /\ Goto(c, "recv") /\ pc[c] = "lock" /\ Holds(c) /\ failures' = failures /\ checks' = checks
        /\ lock' = lock /\ nextId' = nextId
        /\ toSidecar' = Append(toSidecar, [kind |-> "invoke", request |-> id[c]])
        /\ UNCHANGED <<health, connected, closed, toHost, id, answer, alone, work, written, reply>>
    BY <1>3 DEF Send, CanSend, Deliver, Message, At, entryVars, metricVars, callVars, sidecarVars
  <2>2. Data'
    <3>1. [kind |-> "invoke", request |-> id[c]] \in Messages
      BY DEF Data, Messages, Kind
    <3>2. QED
      BY <2>1, <3>1 DEF Data
  <2>3. NumbersLast'
    BY <2>1, <1>t, WritingMoves DEF NumbersLast
  <2>4. RoundsLast'
    BY <2>1, <1>t, RoundsElsewhere
  <2>5. Queued'
    <3>1. Waits(c)
      BY <2>1, <1>t DEF Queued
    <3>2. QED
      BY <2>1, <3>1, <1>t, QueuedAfterMoving
  <2> QED BY <2>2, <2>3, <2>4, <2>5
<1>4. CASE Recv(c)
  <2>1. /\ pc[c] = "recv" /\ failures' = failures /\ checks' = checks /\ nextId' = nextId
        /\ toHost # <<>> /\ toHost' = Tail(toHost) /\ lock' = Unlocked(c)
        /\ UNCHANGED <<health, connected, closed, toSidecar, id, answer, alone, work, written, reply>>
        /\ Goto(c, "read") \/ Goto(c, "idle")
    BY <1>4 DEF Recv, At, entryVars, callVars, sidecarVars
  <2>2. Data'
    <3>1. toHost' \in Seq(Messages)
      BY <2>1 DEF Data
    <3>2. QED
      BY <2>1, <3>1 DEF Data
  <2>3. NumbersLast'
    BY <2>1, <1>t, WritingMoves DEF NumbersLast
  <2>4. RoundsLast'
    BY <2>1, <1>t, RoundsElsewhere
  <2>5. Queued'
    BY <2>1, <1>t, QueuedAfterLeaving
  <2> QED BY <2>2, <2>3, <2>4, <2>5
<1>5. CASE Read(c)
  <2>1. /\ pc[c] = "read" /\ failures' = failures /\ checks' = checks /\ nextId' = nextId
        /\ lock' = lock
        /\ UNCHANGED <<health, connected, closed, toSidecar, toHost, id, alone, work, written, reply>>
        /\ \/ answer' = [answer EXCEPT ![c] = reply] /\ Goto(c, "returned")
           \/ answer' = answer /\ Goto(c, "idle")
    BY <1>5 DEF Read, At, entryVars, wireVars, sidecarVars
  <2>2. Data'
    BY <2>1 DEF Data, RequestOrNone
  <2>3. NumbersLast'
    BY <2>1, <1>t, WritingMoves DEF NumbersLast
  <2>4. RoundsLast'
    BY <2>1, <1>t, RoundsElsewhere
  <2>5. Queued'
    BY <2>1, <1>t, QueuedAfterMoving
  <2> QED BY <2>2, <2>3, <2>4, <2>5
<1>6. CASE Return(c)
  <2>1. /\ pc[c] = "returned" /\ failures' = failures /\ checks' = checks /\ nextId' = nextId
        /\ lock' = lock /\ Goto(c, "idle")
        /\ UNCHANGED <<health, connected, closed, toSidecar, toHost, alone, work, written, reply>>
        /\ answer' = [answer EXCEPT ![c] = None] /\ id' = [id EXCEPT ![c] = None]
    BY <1>6 DEF Return, At, entryVars, metricVars, wireVars, sidecarVars
  <2>2. Data'
    BY <2>1 DEF Data, RequestOrNone
  <2>3. NumbersLast'
    BY <2>1, <1>t, WritingMoves DEF NumbersLast
  <2>4. RoundsLast'
    BY <2>1, <1>t, RoundsElsewhere
  <2>5. Queued'
    BY <2>1, <1>t, QueuedAfterMoving
  <2> QED BY <2>2, <2>3, <2>4, <2>5
<1>7. CASE Fail(c)
  <2>1. /\ pc[c] \in {"lock", "recv"} /\ failures' = failures /\ checks' = checks /\ nextId' = nextId
        /\ lock' = Unlocked(c) /\ Goto(c, "idle")
        /\ UNCHANGED <<health, connected, closed, toHost, id, answer, alone, work, written, reply>>
        /\ GiveUp(c)
    BY <1>7 DEF Fail, entryVars, callVars, sidecarVars
  <2>2. Data'
    <3>1. toSidecar' \in Seq(Messages)
      BY <2>1, GivenUp DEF Data
    <3>2. QED
      BY <2>1, <3>1 DEF Data
  <2>3. NumbersLast'
    BY <2>1, <1>t, WritingMoves DEF NumbersLast
  <2>4. RoundsLast'
    BY <2>1, <1>t, RoundsElsewhere
  <2>5. Queued'
    BY <2>1, <1>t, QueuedAfterLeaving
  <2> QED BY <2>2, <2>3, <2>4, <2>5
<1> QED BY <1>1, <1>2, <1>3, <1>4, <1>5, <1>6, <1>7 DEF Call

\* The steps of the health loop.
LEMMA LoopKeepsTInv ==
  ASSUME IInv, TInv, NextCheck \/ CheckHealth
  PROVE  TInv'
<1> USE DEF TInv
<1>t. Loop \in Task /\ Shape
  BY Tasks DEF IInv
<1>n. ASSUME NEW label, Goto(Loop, label), label # "write", pc[Loop] # "write", nextId' = nextId
      PROVE  NumbersLast'
  BY <1>n, <1>t, WritingMoves DEF NumbersLast
<1>p. ASSUME NEW label, Goto(Loop, label) PROVE pc'[Loop] = label
  BY <1>p, <1>t DEF Goto, Shape
<1>1. CASE NextCheck
  <2>1. /\ pc[Loop] = "idle" /\ checks < MaxChecks /\ checks' = checks + 1
        /\ failures' = failures /\ nextId' = nextId
        /\ UNCHANGED <<health, connected, closed, toSidecar, toHost, id, answer, alone, work, written, reply>>
        /\ \/ lock' = Append(lock, Loop) /\ Goto(Loop, "lock")
           \/ lock' = lock /\ Goto(Loop, "over")
    BY <1>1 DEF NextCheck, At, entryVars, metricVars, wireVars, callVars, sidecarVars
  <2>2. Data'
    BY <2>1 DEF Data
  <2>3. NumbersLast'
    BY <2>1, <1>n
  <2>4. RoundsLast'
    BY <2>1, SidecarAssumption DEF RoundsLast
  <2>5. Queued'
    BY <2>1, <1>t, QueuedAfterWaiting, QueuedAfterMoving
  <2> QED BY <2>2, <2>3, <2>4, <2>5
<1>2. CASE SendHealth
  <2>1. /\ pc[Loop] = "lock" /\ Holds(Loop) /\ Goto(Loop, "recv") /\ lock' = lock
        /\ checks' = checks /\ failures' = failures /\ nextId' = nextId
        /\ toSidecar' = Append(toSidecar, [kind |-> "health", request |-> None])
        /\ UNCHANGED <<health, connected, closed, toHost, id, answer, alone, work, written, reply>>
    BY <1>2 DEF SendHealth, CanSend, Deliver, Message, At, entryVars, metricVars, callVars, sidecarVars
  <2>2. Data'
    <3>1. [kind |-> "health", request |-> None] \in Messages
      BY DEF Messages, Kind, RequestOrNone
    <3>2. QED
      BY <2>1, <3>1 DEF Data
  <2>3. NumbersLast'
    BY <2>1, <1>n
  <2>4. RoundsLast'
    BY <2>1, <1>p DEF RoundsLast
  <2>5. Queued'
    <3>1. Waits(Loop)
      BY <2>1, <1>t DEF Queued
    <3>2. QED
      BY <2>1, <3>1, <1>t, QueuedAfterMoving
  <2> QED BY <2>2, <2>3, <2>4, <2>5
<1>3. CASE RecvHealth \/ FailHealth
  <2>1. /\ pc[Loop] \in {"lock", "recv"} /\ lock' = Unlocked(Loop) /\ Goto(Loop, "idle")
        /\ checks' = checks /\ nextId' = nextId
        /\ failures' \in {0, failures + 1}
        /\ health' \in {"healthy", "unhealthy", "disconnected"}
        /\ connected' \in {connected, FALSE}
        /\ toHost' = toHost \/ (toHost # <<>> /\ toHost' = Tail(toHost))
        /\ toSidecar' = toSidecar \/ GiveUp(Loop)
        /\ UNCHANGED <<closed, id, answer, alone, work, written, reply>>
    <3>1. CASE RecvHealth
      BY <3>1 DEF RecvHealth, MarkUnhealthy, At, callVars, sidecarVars
    <3>2. CASE FailHealth
      BY <3>2 DEF FailHealth, MarkUnhealthy, At, callVars, sidecarVars
    <3>3. QED
      BY <1>3, <3>1, <3>2
  <2>2. Data'
    <3>0. toHost \in Seq(Messages) /\ toSidecar \in Seq(Messages)
      BY DEF Data
    <3>1. toHost' \in Seq(Messages)
      BY <2>1, <3>0, Streams
    <3>2. toSidecar' \in Seq(Messages)
      BY <2>1, <3>0, GivenUp
    <3>3. connected' \in BOOLEAN
      BY <2>1 DEF Data
    <3>4. QED
      BY <2>1, <3>1, <3>2, <3>3 DEF Data
  <2>3. NumbersLast'
    BY <2>1, <1>n
  <2>4. RoundsLast'
    <3>1. pc'[Loop] = "idle" /\ failures + 1 <= checks /\ failures \in Nat
      BY <2>1, <1>p DEF RoundsLast
    <3>2. failures' \in Nat /\ failures' <= checks' /\ checks' \in 0 .. MaxChecks
      <4>1. failures' \in {0, failures + 1} /\ checks' = checks
        BY <2>1
      <4>2. QED
        BY <4>1, <3>1 DEF RoundsLast
    <3>3. (IF pc'[Loop] \in {"lock", "recv"} THEN 1 ELSE 0) = 0
      BY <3>1
    <3>4. ASSUME NEW m \in Nat, NEW n \in Int, m <= n PROVE m + 0 <= n
      BY <3>4
    <3>5. failures' + 0 <= checks'
      <4>1. failures' \in Nat /\ failures' <= checks'
        BY <3>2
      <4>2. checks' \in Int
        BY <3>2, SidecarAssumption
      <4>3. QED
        BY <3>4, <4>1, <4>2
    <3>6. QED
      BY <3>2, <3>3, <3>5 DEF RoundsLast
  <2>5. Queued'
    BY <2>1, <1>t, QueuedAfterLeaving
  <2> QED BY <2>2, <2>3, <2>4, <2>5
<1> QED BY <1>1, <1>2, <1>3 DEF CheckHealth

\* The steps of a drain.
LEMMA DrainKeepsTInv ==
  ASSUME IInv, TInv, StartDrain \/ Drain
  PROVE  TInv'
<1> USE DEF TInv
<1>t. Drainer \in Task /\ Drainer # Loop /\ Shape
  BY Tasks DEF IInv
<1>n. ASSUME NEW label, Goto(Drainer, label), label # "write", pc[Drainer] # "write", nextId' = nextId
      PROVE  NumbersLast'
  BY <1>n, <1>t, WritingMoves DEF NumbersLast
<1>w. pc[Drainer] \in {"lock", "recv", "bye", "stop"} => Waits(Drainer)
  BY <1>t DEF Queued
<1>1. CASE StartDrain
  <2>1. /\ pc[Drainer] = "idle" /\ health' = "draining"
        /\ checks' = checks /\ failures' = failures /\ nextId' = nextId
        /\ UNCHANGED <<connected, closed, toSidecar, toHost, id, answer, alone, work, written, reply>>
        /\ \/ lock' = Append(lock, Drainer) /\ Goto(Drainer, "lock")
           \/ lock' = lock /\ Goto(Drainer, "over")
    BY <1>1 DEF StartDrain, At, metricVars, wireVars, callVars, sidecarVars
  <2>2. Data'
    BY <2>1 DEF Data
  <2>3. NumbersLast'
    BY <2>1, <1>n
  <2>4. RoundsLast'
    BY <2>1, <1>t, RoundsElsewhere
  <2>5. Queued'
    BY <2>1, <1>t, QueuedAfterWaiting, QueuedAfterMoving
  <2> QED BY <2>2, <2>3, <2>4, <2>5
<1>2. CASE SendDrain
  <2>1. /\ pc[Drainer] = "lock" /\ Holds(Drainer)
        /\ checks' = checks /\ failures' = failures /\ nextId' = nextId
        /\ UNCHANGED <<health, connected, closed, toHost, id, answer, alone, work, written, reply>>
        /\ \/ lock' = Unlocked(Drainer) /\ Goto(Drainer, "over") /\ toSidecar' = toSidecar
           \/ /\ lock' = lock /\ Goto(Drainer, "recv")
              /\ toSidecar' = Append(toSidecar, [kind |-> "drain", request |-> None])
    BY <1>2 DEF SendDrain, Deliver, Message, At, entryVars, metricVars, callVars, sidecarVars
  <2>2. Data'
    <3>1. [kind |-> "drain", request |-> None] \in Messages
      BY DEF Messages, Kind, RequestOrNone
    <3>2. toSidecar \in Seq(Messages)
      BY DEF Data
    <3>3. toSidecar' \in Seq(Messages)
      BY <2>1, <3>1, <3>2, Streams
    <3>4. QED
      BY <2>1, <3>3 DEF Data
  <2>3. NumbersLast'
    BY <2>1, <1>n
  <2>4. RoundsLast'
    BY <2>1, <1>t, RoundsElsewhere
  <2>5. Queued'
    BY <2>1, <1>t, <1>w, QueuedAfterLeaving, QueuedAfterMoving
  <2> QED BY <2>2, <2>3, <2>4, <2>5
<1>3. CASE RecvDrained
  <2>1. /\ pc[Drainer] = "recv" /\ Goto(Drainer, "bye") /\ lock' = lock
        /\ checks' = checks /\ failures' = failures /\ nextId' = nextId
        /\ UNCHANGED <<health, connected, closed, toSidecar, id, answer, alone, work, written, reply>>
        /\ toHost' = toHost \/ (toHost # <<>> /\ toHost' = Tail(toHost))
    BY <1>3 DEF RecvDrained, At, entryVars, metricVars, callVars, sidecarVars
  <2>2. Data'
    <3>0. toHost \in Seq(Messages)
      BY DEF Data
    <3>1. toHost' \in Seq(Messages)
      BY <2>1, <3>0, Streams
    <3>2. QED
      BY <2>1, <3>1 DEF Data
  <2>3. NumbersLast'
    BY <2>1, <1>n
  <2>4. RoundsLast'
    BY <2>1, <1>t, RoundsElsewhere
  <2>5. Queued'
    <3>1. Holds(Drainer)
      BY <2>1, <1>t DEF Queued
    <3>2. QED
      BY <2>1, <3>1, <1>t, <1>w, QueuedAfterMoving
  <2> QED BY <2>2, <2>3, <2>4, <2>5
<1>b. CASE SendShutdown
  <2>1. /\ pc[Drainer] = "bye" /\ Goto(Drainer, "stop") /\ lock' = lock
        /\ checks' = checks /\ failures' = failures /\ nextId' = nextId
        /\ UNCHANGED <<health, connected, closed, toHost, id, answer, alone, work, written, reply>>
        /\ \/ toSidecar' = toSidecar
           \/ toSidecar' = Append(toSidecar, [kind |-> "shutdown", request |-> None])
    BY <1>b DEF SendShutdown, Deliver, Message, At, entryVars, metricVars, callVars, sidecarVars
  <2>2. Data'
    <3>0. toSidecar \in Seq(Messages)
      BY DEF Data
    <3>1. [kind |-> "shutdown", request |-> None] \in Messages
      BY DEF Messages, Kind, RequestOrNone
    <3>2. toSidecar' \in Seq(Messages)
      BY <2>1, <3>0, <3>1, Streams
    <3>3. QED
      BY <2>1, <3>2 DEF Data
  <2>3. NumbersLast'
    BY <2>1, <1>n
  <2>4. RoundsLast'
    BY <2>1, <1>t, RoundsElsewhere
  <2>5. Queued'
    <3>1. Holds(Drainer)
      BY <2>1, <1>t DEF Queued
    <3>2. QED
      BY <2>1, <3>1, <1>t, <1>w, QueuedAfterMoving
  <2> QED BY <2>2, <2>3, <2>4, <2>5
<1>4. CASE Stop
  <2>1. /\ pc[Drainer] = "stop" /\ Goto(Drainer, "over") /\ lock' = Unlocked(Drainer)
        /\ health' = "stopped" /\ connected' = FALSE
        /\ checks' = checks /\ failures' = failures /\ nextId' = nextId
        /\ UNCHANGED <<closed, toSidecar, toHost, id, answer, alone, work, written, reply>>
    BY <1>4 DEF Stop, At, metricVars, wireVars, callVars, sidecarVars
  <2>2. Data'
    BY <2>1 DEF Data
  <2>3. NumbersLast'
    BY <2>1, <1>n
  <2>4. RoundsLast'
    BY <2>1, <1>t, RoundsElsewhere
  <2>5. Queued'
    BY <2>1, <1>t, QueuedAfterLeaving
  <2> QED BY <2>2, <2>3, <2>4, <2>5
<1> QED BY <1>1, <1>2, <1>3, <1>b, <1>4 DEF Drain

\* The steps of the sidecar: they touch the streams and its own state only.
LEMMA SidecarKeepsTInv ==
  ASSUME TInv, Serve \/ Crash
  PROVE  TInv'
<1> USE DEF TInv
<1>1. UNCHANGED <<pc, lock, nextId, failures, checks>>
  BY DEF Serve, Take, WriteReply, SendResult, Refuse, Crash, metricVars, callVars
<1>2. NumbersLast' /\ RoundsLast' /\ Queued'
  BY <1>1 DEF NumbersLast, RoundsLast, Queued, Writing, Waits, Holds
<1>s. toSidecar \in Seq(Messages) /\ toHost \in Seq(Messages)
  BY DEF Data
<1>m. ASSUME NEW r \in RequestOrNone, NEW k \in Kind, Answer(k, r) PROVE toHost' \in Seq(Messages)
  <2>1. [kind |-> k, request |-> r] \in Messages
    BY DEF Messages
  <2>2. QED
    BY <1>m, <1>s, <2>1, Streams DEF Answer, Message
<1>3. Data'
  <2>1. CASE Take
    <3>1. Head(toSidecar) \in Messages /\ toSidecar' \in Seq(Messages)
      BY <1>s, <2>1, Streams DEF Take
    <3>2. work' \in RequestOrNone /\ closed' \in BOOLEAN
      BY <2>1, <3>1 DEF Take, Messages, RequestOrNone
    <3>3. toHost' \in Seq(Messages)
      BY <1>s, <1>m, <2>1 DEF Take, Kind, RequestOrNone
    <3>4. QED
      BY <2>1, <3>1, <3>2, <3>3 DEF Take, Data, entryVars, callVars
  <2>2. CASE WriteReply
    BY <2>2 DEF WriteReply, Data, entryVars, wireVars, callVars
  <2>3. CASE SendResult
    <3>1. toHost' \in Seq(Messages)
      BY <1>m, <2>3 DEF SendResult, Data, Kind
    <3>2. QED
      BY <2>3, <3>1 DEF SendResult, Data, entryVars, callVars, RequestOrNone
  <2>4. CASE Refuse
    <3>1. toHost' \in Seq(Messages)
      BY <1>m, <2>4 DEF Refuse, Data, Kind
    <3>2. QED
      BY <2>4, <3>1 DEF Refuse, Data, entryVars, callVars, RequestOrNone
  <2>5. CASE Crash
    BY <2>5 DEF Crash, Data, entryVars, callVars, sidecarVars
  <2>6. QED
    BY <2>1, <2>2, <2>3, <2>4, <2>5 DEF Serve
<1> QED BY <1>2, <1>3

LEMMA NextKeepsTInv == IInv /\ TInv /\ [Next]_vars => TInv'
<1> SUFFICES ASSUME IInv, TInv, [Next]_vars PROVE TInv'
  OBVIOUS
<1>1. ASSUME NEW c \in Caller, Begin(c) \/ Call(c) PROVE TInv'
  BY <1>1, CallKeepsTInv
<1>2. CASE NextCheck \/ CheckHealth
  BY <1>2, LoopKeepsTInv
<1>3. CASE StartDrain \/ Drain
  BY <1>3, DrainKeepsTInv
<1>4. CASE Serve \/ Crash
  BY <1>4, SidecarKeepsTInv
<1>5. CASE UNCHANGED vars
  BY <1>5 DEF vars, entryVars, metricVars, wireVars, callVars, sidecarVars, TInv, Data,
              NumbersLast, RoundsLast, Queued, Writing, Waits, Holds
<1> QED BY <1>1, <1>2, <1>3, <1>4, <1>5 DEF Next

LEMMA TypesHold == Spec => []TInv
BY InitTInv, NextKeepsTInv, SidecarInvariant, PTL DEF Spec

-----------------------------------------------------------------------------
(* A call that no other call overlaps.  Its request is the newest there is, *)
(* so when its result is on the wire the sidecar has nothing left to do     *)
(* that writes to the replies' offset.                                     *)

IsMessage(s, i, kind, r) == s[i].kind = kind /\ s[i].request = r
NoInvoke == \A i \in 1 .. Len(toSidecar) : toSidecar[i].kind # "invoke"
Answered(r) == work = None /\ NoInvoke /\ reply = r
InResult(r) == \E i \in 1 .. Len(toHost) : IsMessage(toHost, i, "result", r)

\* r is not sent yet
Unsent(r) ==
  /\ work # r /\ ~InResult(r)
  /\ \A i \in 1 .. Len(toSidecar) : ~IsMessage(toSidecar, i, "invoke", r)

\* r is the last invoke, wherever it is
Newest(r) ==
  /\ \A i, j \in 1 .. Len(toSidecar) :
       IsMessage(toSidecar, i, "invoke", r) /\ toSidecar[j].kind = "invoke" => j <= i
  /\ work = r => NoInvoke /\ (written => reply = r)
  /\ InResult(r) => Answered(r)

\* Every request number that is anywhere was given out.
Given ==
  /\ \A c \in Caller : id[c] < nextId
  /\ work < nextId
  /\ \A i \in 1 .. Len(toSidecar) : toSidecar[i].request < nextId
  /\ \A i \in 1 .. Len(toHost) : toHost[i].request < nextId

Lone(c) ==
  /\ \A d \in Active : d = c
  /\ pc[c] \in {"lock", "recv", "read"} => id[c] # None
  /\ pc[c] = "lock" => Unsent(id[c])
  /\ pc[c] = "recv" => Newest(id[c])
  /\ pc[c] = "read" => Answered(id[c])
  /\ pc[c] = "returned" => answer[c] = id[c]

\* What is written is the result of the request in hand.
Busy == written => work # None

SInv == Given /\ Busy /\ \A c \in alone : Lone(c)

\* The elements of a longer and of a shorter stream.
LEMMA Grown ==
  ASSUME NEW s \in Seq(Messages), NEW m \in Messages
  PROVE  /\ Len(Append(s, m)) = Len(s) + 1 /\ Append(s, m)[Len(s) + 1] = m
         /\ \A i \in 1 .. Len(s) : Append(s, m)[i] = s[i]
OBVIOUS

LEMMA Shrunk ==
  ASSUME NEW s \in Seq(Messages), s # <<>>
  PROVE  /\ Len(s) \in Nat \ {0} /\ Head(s) = s[1] /\ Len(Tail(s)) = Len(s) - 1
         /\ \A i \in 1 .. Len(s) - 1 : Tail(s)[i] = s[i + 1]
OBVIOUS

LEMMA Numbers ==
  ASSUME Data, NumbersLast
  PROVE  /\ nextId \in Nat \ {0} /\ work \in Nat /\ reply \in Nat /\ None = 0
         /\ \A c \in Caller : id[c] \in Nat
         /\ \A m \in Messages : m.request \in Nat
         /\ \A i \in 1 .. Len(toSidecar) : toSidecar[i] \in Messages /\ toSidecar[i].request \in Nat
         /\ \A i \in 1 .. Len(toHost) : toHost[i] \in Messages /\ toHost[i].request \in Nat
<1>1. RequestOrNone \subseteq Nat /\ None = 0
  BY SidecarAssumption DEF RequestOrNone, Request, None
<1>2. \A m \in Messages : m.request \in Nat
  BY <1>1 DEF Messages
<1>3. /\ \A i \in 1 .. Len(toSidecar) : toSidecar[i] \in Messages
      /\ \A i \in 1 .. Len(toHost) : toHost[i] \in Messages
  BY DEF Data
<1>4. work \in Nat /\ reply \in Nat /\ \A c \in Caller : id[c] \in Nat
  BY <1>1 DEF Data
<1>5. QED
  BY <1>1, <1>2, <1>3, <1>4 DEF NumbersLast

\* What a step may do to one of the streams, its requests among those given out.
LEMMA StillGiven ==
  ASSUME NEW s \in Seq(Messages), NEW t, NEW n \in Nat,
         \A i \in 1 .. Len(s) : s[i].request < n,
         \/ t = s
         \/ s # <<>> /\ t = Tail(s)
         \/ \E m \in Messages : m.request < n /\ t = Append(s, m)
  PROVE  \A i \in 1 .. Len(t) : t[i].request < n
<1>1. CASE t = s
  BY <1>1
<1>2. CASE s # <<>> /\ t = Tail(s)
  BY <1>2, Shrunk
<1>3. CASE \E m \in Messages : m.request < n /\ t = Append(s, m)
  <2>1. PICK m \in Messages : m.request < n /\ t = Append(s, m)
    BY <1>3
  <2>2. Len(s) \in Nat
    OBVIOUS
  <2>3. QED
    BY <2>1, <2>2, Grown
<1>4. QED
  BY <1>1, <1>2, <1>3

-----------------------------------------------------------------------------
(* The health loop and the drain send no invoke, and read what they get.    *)
Apart ==
  /\ UNCHANGED <<id, answer, alone, nextId, work, written, reply>>
  /\ \A c \in Caller : pc'[c] = pc[c]
  /\ toHost' = toHost \/ (toHost # <<>> /\ toHost' = Tail(toHost))
  /\ toSidecar' = toSidecar \/ \E k \in Kind \ {"invoke"} : Deliver(k, None)

LEMMA LoopIsApart ==
  ASSUME IInv, NextCheck \/ CheckHealth \/ StartDrain \/ Drain
  PROVE  Apart
<1>1. \A c \in Caller : pc'[c] = pc[c]
  <2>1. \E t \in {Loop, Drainer}, label \in OtherLabel : Goto(t, label)
    <3>1. ASSUME NextCheck \/ CheckHealth
          PROVE  \E label \in OtherLabel : Goto(Loop, label)
      BY <3>1 DEF NextCheck, CheckHealth, SendHealth, RecvHealth, FailHealth, OtherLabel
    <3>2. ASSUME StartDrain \/ Drain
          PROVE  \E label \in OtherLabel : Goto(Drainer, label)
      BY <3>2 DEF StartDrain, Drain, SendDrain, RecvDrained, SendShutdown, Stop, OtherLabel
    <3>3. QED
      BY <3>1, <3>2
  <2>2. QED
    BY <2>1, OtherMoves DEF IInv
<1>2. UNCHANGED <<id, answer, alone, nextId, work, written, reply>>
  BY DEF NextCheck, CheckHealth, SendHealth, RecvHealth, FailHealth, StartDrain, Drain, SendDrain,
         RecvDrained, SendShutdown, Stop, callVars, sidecarVars
<1>3. toHost' = toHost \/ (toHost # <<>> /\ toHost' = Tail(toHost))
  BY DEF NextCheck, CheckHealth, SendHealth, RecvHealth, FailHealth, StartDrain, Drain, SendDrain,
         RecvDrained, SendShutdown, Stop, wireVars
<1>4. toSidecar' = toSidecar \/ \E k \in Kind \ {"invoke"} : Deliver(k, None)
  <2>1. {"health", "drain", "shutdown", "torn"} \subseteq Kind \ {"invoke"}
    BY DEF Kind
  <2>2. CASE NextCheck \/ CheckHealth
    BY <2>1, <2>2 DEF NextCheck, CheckHealth, SendHealth, RecvHealth, FailHealth, GiveUp, wireVars
  <2>3. CASE StartDrain \/ Drain
    BY <2>1, <2>3 DEF StartDrain, Drain, SendDrain, RecvDrained, SendShutdown, Stop, wireVars
  <2>4. QED
    BY <2>2, <2>3
<1>5. QED
  BY <1>1, <1>2, <1>3, <1>4 DEF Apart

LEMMA ApartKeepsSInv ==
  ASSUME IInv, TInv, SInv, Apart
  PROVE  SInv'
<1> USE DEF TInv, SInv
<1>s. toSidecar \in Seq(Messages) /\ toHost \in Seq(Messages)
  BY DEF Data
<1>n. nextId \in Nat /\ None < nextId
  BY Numbers
<1>0. UNCHANGED <<id, answer, alone, nextId, work, written, reply>> /\ \A c \in Caller : pc'[c] = pc[c]
  BY DEF Apart
<1>1. toSidecar' = toSidecar
        \/ \E m \in Messages : m.request = None /\ m.kind # "invoke" /\ toSidecar' = Append(toSidecar, m)
  BY DEF Apart, Deliver, Message, Messages, RequestOrNone
<1>2. Given' /\ Busy'
  <2>1. \A i \in 1 .. Len(toSidecar') : toSidecar'[i].request < nextId
    BY <1>s, <1>n, <1>1, StillGiven DEF Given
  <2>2. \A i \in 1 .. Len(toHost') : toHost'[i].request < nextId
    BY <1>s, <1>n, StillGiven DEF Given, Apart
  <2>3. QED
    BY <1>0, <2>1, <2>2 DEF Given, Busy
\* An invoke in the stream was there before, and at the same place.
<1>3. \A i \in 1 .. Len(toSidecar') : toSidecar'[i].kind = "invoke" =>
        i \in 1 .. Len(toSidecar) /\ toSidecar[i] = toSidecar'[i]
  <2>1. ASSUME NEW m \in Messages, m.kind # "invoke", toSidecar' = Append(toSidecar, m),
               NEW i \in 1 .. Len(toSidecar'), toSidecar'[i].kind = "invoke"
        PROVE  i \in 1 .. Len(toSidecar) /\ toSidecar[i] = toSidecar'[i]
    <3>1. Len(toSidecar) \in Nat /\ i # Len(toSidecar) + 1
      BY <1>s, <2>1, Grown
    <3>2. QED
      BY <1>s, <2>1, <3>1, Grown
  <2>2. QED
    BY <1>1, <2>1
<1>4. ASSUME NEW r, InResult(r)' PROVE InResult(r)
  <2>1. CASE toHost' = toHost
    BY <1>4, <2>1 DEF InResult, IsMessage
  <2>2. CASE toHost # <<>> /\ toHost' = Tail(toHost)
    BY <1>4, <1>s, <2>2, Shrunk DEF InResult, IsMessage
  <2>3. QED
    BY <2>1, <2>2 DEF Apart
<1>5. ASSUME NEW c \in alone' PROVE Lone(c)'
  <2>0. c \in Caller /\ c \in alone /\ Lone(c)
    BY <1>0, <1>5 DEF Data
  <2>1. Active' = Active
    BY <1>0 DEF Active
  <2>2. Unsent(id[c]) => Unsent(id[c])'
    BY <1>0, <1>3, <1>4 DEF Unsent, IsMessage
  <2>3. Answered(id[c]) => Answered(id[c])'
    BY <1>0, <1>3 DEF Answered, NoInvoke
  <2>4. Newest(id[c]) => Newest(id[c])'
    <3>1. NoInvoke => NoInvoke'
      BY <1>3 DEF NoInvoke
    <3>2. QED
      BY <1>0, <1>3, <1>4, <2>3, <3>1 DEF Newest, IsMessage
  <2>5. QED
    BY <1>0, <2>0, <2>1, <2>2, <2>3, <2>4 DEF Lone
<1>6. QED
  BY <1>2, <1>5

-----------------------------------------------------------------------------
(* The sidecar moves a request from one stream to the other.                *)
LEMMA ServeKeepsSInv ==
  ASSUME IInv, TInv, SInv, Serve \/ Crash
  PROVE  SInv'
<1> USE DEF TInv, SInv
<1>s. toSidecar \in Seq(Messages) /\ toHost \in Seq(Messages)
  BY DEF Data
<1>n. nextId \in Nat /\ None < nextId /\ work \in Nat
  BY Numbers
<1>0. UNCHANGED <<pc, id, answer, alone, nextId>>
  BY DEF Serve, Take, WriteReply, SendResult, Refuse, Crash, callVars
<1>a. Active' = Active /\ alone \subseteq Caller
  BY <1>0 DEF Active, Data
\* It is enough that each of the three states of affairs goes on.
<1>l. ASSUME Given', Busy',
             \A c \in alone : id[c] # None =>
               /\ Unsent(id[c]) => Unsent(id[c])'
               /\ Newest(id[c]) => Newest(id[c])'
               /\ Answered(id[c]) => Answered(id[c])'
      PROVE  SInv'
  BY <1>0, <1>a, <1>l DEF Lone
<1>1. CASE Take
  <2> DEFINE m == Head(toSidecar)
  <2>1. /\ work = None /\ toSidecar # <<>> /\ toSidecar' = Tail(toSidecar)
        /\ work' = (IF m.kind = "invoke" THEN m.request ELSE None)
        /\ written' = written /\ reply' = reply
        /\ toHost' = toHost \/ \E k \in {"health_ok", "drained"} : Answer(k, None)
    BY <1>1 DEF Take
  <2>2. /\ m = toSidecar[1] /\ m \in Messages /\ Len(toSidecar') = Len(toSidecar) - 1
        /\ Len(toSidecar) \in Nat \ {0}
        /\ \A i \in 1 .. Len(toSidecar') : toSidecar'[i] = toSidecar[i + 1]
                                             /\ i + 1 \in 1 .. Len(toSidecar)
    BY <1>s, <2>1, Shrunk
  <2>3. toHost' = toHost
          \/ \E x \in Messages : x.request = None /\ x.kind # "result" /\ toHost' = Append(toHost, x)
    BY <2>1 DEF Answer, Message, Messages, Kind, RequestOrNone
  <2>4. Given'
    <3>1. \A i \in 1 .. Len(toSidecar') : toSidecar'[i].request < nextId
      BY <2>2 DEF Given
    <3>2. \A i \in 1 .. Len(toHost') : toHost'[i].request < nextId
      BY <1>s, <1>n, <2>3, StillGiven DEF Given
    <3>3. work' < nextId
      BY <1>n, <2>1, <2>2 DEF Given
    <3>4. QED
      BY <1>0, <3>1, <3>2, <3>3 DEF Given
  <2>5. ASSUME NEW r, InResult(r)' PROVE InResult(r)
    <3>1. CASE toHost' = toHost
      BY <2>5, <3>1 DEF InResult, IsMessage
    <3>2. ASSUME NEW x \in Messages, x.kind # "result", toHost' = Append(toHost, x) PROVE InResult(r)
      <4>1. PICK i \in 1 .. Len(toHost') : IsMessage(toHost', i, "result", r)
        BY <2>5 DEF InResult, IsMessage
      <4>2. i \in 1 .. Len(toHost) /\ toHost'[i] = toHost[i]
        <5>1. Len(toHost) \in Nat /\ i # Len(toHost) + 1
          BY <1>s, <3>2, <4>1, Grown DEF IsMessage
        <5>2. QED
          BY <1>s, <3>2, <5>1, Grown
      <4>3. QED
        BY <4>1, <4>2 DEF InResult, IsMessage
    <3>3. QED
      BY <2>3, <3>1, <3>2
  <2>6. ASSUME NEW c \in alone, id[c] # None
        PROVE  /\ Unsent(id[c]) => Unsent(id[c])'
               /\ Newest(id[c]) => Newest(id[c])'
               /\ Answered(id[c]) => Answered(id[c])'
    <3> DEFINE r == id[c]
    <3>0. r' = r /\ r # None
      BY <1>0, <2>6
    <3> HIDE DEF r
    <3>1. ASSUME Unsent(r) PROVE Unsent(r)'
      <4>1. work' # r
        BY <2>1, <2>2, <3>0, <3>1 DEF Unsent, IsMessage
      <4>2. QED
        BY <2>2, <2>5, <3>0, <3>1, <4>1 DEF Unsent, IsMessage
    <3>2. ASSUME NoInvoke PROVE NoInvoke' /\ work' = None
      BY <2>1, <2>2, <3>2 DEF NoInvoke
    <3>3. ASSUME Answered(r) PROVE Answered(r)'
      BY <2>1, <3>0, <3>2, <3>3 DEF Answered
    <3>4. ASSUME Newest(r) PROVE Newest(r)'
      <4>1. InResult(r)' => Answered(r)'
        BY <2>5, <3>0, <3>3, <3>4 DEF Newest, InResult, IsMessage
      <4>2. ASSUME work' = r PROVE NoInvoke' /\ ~written
        <5>1. IsMessage(toSidecar, 1, "invoke", r)
          BY <2>1, <2>2, <3>0, <4>2 DEF IsMessage
        <5>2. NoInvoke'
          BY <2>2, <3>4, <5>1 DEF Newest, NoInvoke
        <5>3. QED
          BY <2>1, <5>2 DEF Busy
      <4>3. ASSUME NEW i \in 1 .. Len(toSidecar'), NEW j \in 1 .. Len(toSidecar'),
                   IsMessage(toSidecar', i, "invoke", r), toSidecar'[j].kind = "invoke"
            PROVE  j <= i
        <5>1. /\ i + 1 \in 1 .. Len(toSidecar) /\ toSidecar[i + 1] = toSidecar'[i]
              /\ j + 1 \in 1 .. Len(toSidecar) /\ toSidecar[j + 1] = toSidecar'[j]
          BY <2>2
        <5>2. IsMessage(toSidecar, i + 1, "invoke", r) /\ toSidecar[j + 1].kind = "invoke"
          BY <4>3, <5>1 DEF IsMessage
        <5>3. j + 1 <= i + 1
          BY <3>4, <5>1, <5>2 DEF Newest
        <5>4. QED
          BY <2>2, <5>3
      <4>4. QED
        BY <2>1, <3>0, <4>1, <4>2, <4>3 DEF Newest, IsMessage
    <3>5. QED
      BY <3>0, <3>1, <3>3, <3>4 DEF r
  <2>7. Busy'
    BY <2>1 DEF Busy
  <2>8. QED
    BY <1>l, <2>4, <2>6, <2>7
<1>2. CASE WriteReply
  <2>1. /\ work # None /\ work' = work /\ written' = TRUE /\ reply' = work
        /\ toSidecar' = toSidecar /\ toHost' = toHost
    BY <1>2 DEF WriteReply, wireVars
  <2>2. Given'
    BY <1>0, <2>1 DEF Given
  <2>3. ASSUME NEW c \in alone, id[c] # None
        PROVE  /\ Unsent(id[c]) => Unsent(id[c])'
               /\ Newest(id[c]) => Newest(id[c])'
               /\ Answered(id[c]) => Answered(id[c])'
    <3> DEFINE r == id[c]
    <3>0. r' = r
      BY <1>0
    <3> HIDE DEF r
    <3>1. InResult(r)' = InResult(r) /\ NoInvoke' = NoInvoke
      BY <2>1, <3>0 DEF InResult, NoInvoke, IsMessage
    <3>2. ~Answered(r) /\ (InResult(r) => ~Newest(r))
      BY <2>1 DEF Answered, Newest
    <3>3. Unsent(r) => Unsent(r)'
      BY <2>1, <3>0, <3>1 DEF Unsent, IsMessage
    <3>4. Newest(r) => Newest(r)'
      BY <2>1, <3>0, <3>1, <3>2 DEF Newest, IsMessage
    <3>5. QED
      BY <3>2, <3>3, <3>4 DEF r
  <2>4. Busy'
    BY <2>1 DEF Busy
  <2>5. QED
    BY <1>l, <2>2, <2>3, <2>4
<1>3. CASE SendResult \/ Refuse
  <2>1. /\ toSidecar' = toSidecar /\ reply' = reply /\ work' = None /\ written' = FALSE
        /\ \/ written /\ toHost' = Append(toHost, [kind |-> "result", request |-> work])
           \/ toHost' = Append(toHost, [kind |-> "refused", request |-> work])
    BY <1>3 DEF SendResult, Refuse, Answer, Message
  <2>m. /\ [kind |-> "result", request |-> work] \in Messages
        /\ [kind |-> "refused", request |-> work] \in Messages
    BY DEF Data, Messages, Kind
  <2>2. Given'
    <3>1. \A i \in 1 .. Len(toHost') : toHost'[i].request < nextId
      <4>1. \E x \in Messages : x.request < nextId /\ toHost' = Append(toHost, x)
        BY <2>1, <2>m DEF Given
      <4>2. QED
        BY <1>s, <1>n, <4>1, StillGiven DEF Given
    <3>2. QED
      BY <1>0, <1>n, <2>1, <3>1 DEF Given
  <2>3. ASSUME NEW r, InResult(r)' PROVE InResult(r) \/ (written /\ r = work)
    <3>1. PICK x \in Messages : /\ toHost' = Append(toHost, x) /\ x.request = work
                                /\ x.kind = "result" => written
      BY <2>1, <2>m
    <3>2. PICK i \in 1 .. Len(toHost') : IsMessage(toHost', i, "result", r)
      BY <2>3 DEF InResult, IsMessage
    <3>3. CASE i = Len(toHost) + 1
      BY <1>s, <3>1, <3>2, <3>3, Grown DEF IsMessage
    <3>4. CASE i # Len(toHost) + 1
      <4>1. i \in 1 .. Len(toHost)
        <5>1. Len(toHost) \in Nat
          BY <1>s
        <5>2. QED
          BY <1>s, <3>1, <3>4, <5>1, Grown
      <4>2. toHost'[i] = toHost[i]
        BY <1>s, <3>1, <4>1, Grown
      <4>3. QED
        BY <3>2, <4>1, <4>2 DEF InResult, IsMessage
    <3>5. QED
      BY <3>3, <3>4
  <2>4. ASSUME NEW c \in alone, id[c] # None
        PROVE  /\ Unsent(id[c]) => Unsent(id[c])'
               /\ Newest(id[c]) => Newest(id[c])'
               /\ Answered(id[c]) => Answered(id[c])'
    <3> DEFINE r == id[c]
    <3>0. r' = r /\ r # None
      BY <1>0, <2>4
    <3> HIDE DEF r
    <3>1. NoInvoke' = NoInvoke
      BY <2>1 DEF NoInvoke
    <3>i. InResult(r)' => InResult(r) \/ (written /\ r = work)
      BY <2>3, <3>0 DEF InResult, IsMessage
    <3>2. Unsent(r) => Unsent(r)'
      BY <2>1, <3>0, <3>i DEF Unsent, IsMessage
    <3>3. Answered(r) => Answered(r)'
      BY <2>1, <3>0, <3>1 DEF Answered
    <3>4. ASSUME Newest(r), InResult(r)' PROVE Answered(r)'
      BY <2>1, <3>0, <3>i, <3>1, <3>4 DEF Newest, Answered
    <3>5. Newest(r) => Newest(r)'
      BY <2>1, <3>0, <3>4 DEF Newest, IsMessage
    <3>6. QED
      BY <3>2, <3>3, <3>5 DEF r
  <2>5. Busy'
    BY <2>1 DEF Busy
  <2>6. QED
    BY <1>l, <2>2, <2>4, <2>5
<1>4. CASE Crash
  <2>1. UNCHANGED <<toSidecar, toHost, work, written, reply>>
    BY <1>4 DEF Crash, sidecarVars
  <2>2. QED
    BY <1>0, <1>l, <2>1 DEF Given, Busy, Unsent, Newest, Answered, NoInvoke, InResult, IsMessage
<1>5. QED
  BY <1>1, <1>2, <1>3, <1>4 DEF Serve

-----------------------------------------------------------------------------
(* The steps of a call.                                                    *)
LEMMA CallKeepsSInv ==
  ASSUME IInv, TInv, SInv, NEW d \in Caller, Begin(d) \/ Call(d)
  PROVE  SInv'
<1> USE DEF TInv, SInv
<1>s. /\ toSidecar \in Seq(Messages) /\ toHost \in Seq(Messages) /\ alone \subseteq Caller
      /\ d \in Task /\ Shape
  BY Tasks DEF Data, IInv
<1>n. nextId \in Nat \ {0} /\ None = 0 /\ work \in Nat /\ \A c \in Caller : id[c] \in Nat
  BY Numbers
<1>m. ASSUME NEW label, Goto(d, label)
      PROVE  /\ pc'[d] = label /\ \A c \in Caller \ {d} : pc'[c] = pc[c]
             /\ label \in {"idle", "returned"} \/ d \in Active => Active' \subseteq Active
  BY <1>s, <1>m, Tasks DEF Shape, Goto, Active
<1>o. ASSUME NEW c \in alone, d \in Active PROVE c = d
  BY <1>o DEF Lone
\* A step that leaves the streams and the sidecar alone.
<1>l. ASSUME UNCHANGED <<toSidecar, toHost, work, written, reply, nextId, alone>>,
             NEW label, Goto(d, label), label \in {"idle", "returned"} \/ d \in Active,
             \A c \in Caller \ {d} : id'[c] = id[c] /\ answer'[c] = answer[c],
             id'[d] < nextId, d \in alone => Lone(d)'
      PROVE  SInv'
  <2>1. Given' /\ Busy'
    BY <1>l DEF Given, Busy
  <2>2. ASSUME NEW c \in alone, c # d PROVE Lone(c)'
    <3>1. id'[c] = id[c] /\ answer'[c] = answer[c] /\ pc'[c] = pc[c] /\ Active' \subseteq Active
      BY <1>s, <1>l, <1>m, <2>2
    <3>2. /\ Unsent(id[c])' = Unsent(id[c]) /\ Newest(id[c])' = Newest(id[c])
          /\ Answered(id[c])' = Answered(id[c])
      BY <1>l, <3>1 DEF Unsent, Newest, Answered, NoInvoke, InResult, IsMessage
    <3>3. QED
      BY <3>1, <3>2 DEF Lone
  <2>3. QED
    BY <1>l, <2>1, <2>2
<1>1. CASE Begin(d)
  <2>1. /\ Goto(d, "write") /\ alone' = IF Active = {} THEN {d} ELSE {}
        /\ UNCHANGED <<toSidecar, toHost, work, written, reply, nextId, id>>
    BY <1>1 DEF Begin, wireVars, sidecarVars
  <2>2. Given' /\ Busy'
    BY <2>1 DEF Given, Busy
  <2>3. ASSUME Active = {} PROVE Lone(d)'
    BY <1>m, <2>1, <2>3 DEF Lone, Active
  <2>4. QED
    BY <2>1, <2>2, <2>3
<1>2. CASE Write(d)
  <2>1. /\ d \in Active /\ alone' = alone
        /\ UNCHANGED <<toSidecar, toHost, work, written, answer>>
    BY <1>2 DEF Write, At, Active, wireVars, sidecarVars
  <2>2. CASE /\ id' = [id EXCEPT ![d] = nextId] /\ nextId' = nextId + 1 /\ Goto(d, "lock")
    <3>1. id'[d] = nextId /\ \A c \in Caller \ {d} : id'[c] = id[c]
      BY <1>s, <2>2, Update DEF Shape, OnCallers
    <3>2. Given' /\ Busy'
      <4>1. \A i \in 1 .. Len(toSidecar) : toSidecar[i].request \in Nat
        BY Numbers
      <4>2. \A i \in 1 .. Len(toHost) : toHost[i].request \in Nat
        BY Numbers
      <4>3. QED
        BY <1>n, <2>1, <2>2, <3>1, <4>1, <4>2 DEF Given, Busy
    <3>3. Unsent(id[d])'
      <4>1. work # nextId
        BY <1>n DEF Given
      <4>2. ~InResult(nextId)
        BY <1>n DEF Given, InResult, IsMessage
      <4>3. \A i \in 1 .. Len(toSidecar) : ~IsMessage(toSidecar, i, "invoke", nextId)
        BY <1>n DEF Given, IsMessage
      <4>4. QED
        BY <2>1, <3>1, <4>1, <4>2, <4>3 DEF Unsent, InResult, IsMessage
    <3>4. d \in alone => Lone(d)'
      BY <1>n, <1>m, <2>1, <2>2, <3>1, <3>3 DEF Lone
    <3>5. QED
      BY <1>o, <2>1, <3>2, <3>4
  <2>3. CASE Goto(d, "idle") /\ UNCHANGED <<id, nextId, reply>>
    <3>1. d \in alone => Lone(d)'
      BY <1>m, <2>1, <2>3 DEF Lone
    <3>2. id'[d] < nextId
      BY <2>3 DEF Given
    <3>3. QED
      BY <1>l, <2>1, <2>3, <3>1, <3>2
  <2>4. QED
    BY <1>2, <2>2, <2>3 DEF Write
<1>3. CASE Send(d)
  <2> DEFINE m == [kind |-> "invoke", request |-> id[d]]
  <2>1. /\ pc[d] = "lock" /\ d \in Active /\ Goto(d, "recv") /\ toSidecar' = Append(toSidecar, m)
        /\ UNCHANGED <<toHost, work, written, reply, nextId, id, alone>>
    BY <1>3 DEF Send, At, Active, Deliver, Message, callVars, sidecarVars
  <2>2. m \in Messages
    BY DEF Data, Messages, Kind
  <2>3. Given' /\ Busy'
    <3>1. \A i \in 1 .. Len(toSidecar') : toSidecar'[i].request < nextId
      <4>1. \E x \in Messages : x.request < nextId /\ toSidecar' = Append(toSidecar, x)
        BY <2>1, <2>2 DEF Given
      <4>2. QED
        BY <1>s, <1>n, <4>1, StillGiven DEF Given
    <3>2. QED
      BY <2>1, <3>1 DEF Given, Busy
  <2>4. ASSUME d \in alone PROVE Lone(d)'
    <3>1. Unsent(id[d]) /\ id[d] # None
      BY <2>1, <2>4 DEF Lone
    <3>2. ASSUME NEW i \in 1 .. Len(toSidecar'), NEW j \in 1 .. Len(toSidecar'),
                 IsMessage(toSidecar', i, "invoke", id[d])
          PROVE  j <= i
      <4>1. Len(toSidecar) \in Nat /\ Len(toSidecar') = Len(toSidecar) + 1
        BY <1>s, <2>1, <2>2, Grown
      <4>2. i = Len(toSidecar) + 1
        <5>1. CASE i \in 1 .. Len(toSidecar)
          <6>1. toSidecar'[i] = toSidecar[i]
            BY <1>s, <2>1, <2>2, <5>1, Grown
          <6>2. QED
            BY <3>1, <3>2, <5>1, <6>1 DEF Unsent, IsMessage
        <5>2. QED
          BY <4>1, <5>1
      <4>3. QED
        BY <4>1, <4>2
    <3>3. Newest(id[d])'
      <4>1. InResult(id[d])' = InResult(id[d])
        BY <2>1 DEF InResult, IsMessage
      <4>2. QED
        BY <2>1, <3>1, <3>2, <4>1 DEF Unsent, Newest, IsMessage
    <3>4. QED
      BY <1>m, <2>1, <2>4, <3>1, <3>3 DEF Lone
  <2>5. QED
    BY <1>o, <2>1, <2>3, <2>4
<1>4. CASE Recv(d)
  <2>1. /\ pc[d] = "recv" /\ d \in Active /\ toHost # <<>> /\ toHost' = Tail(toHost)
        /\ Goto(d, "idle") \/ (Goto(d, "read") /\ Accepts(d, Head(toHost)))
        /\ UNCHANGED <<toSidecar, work, written, reply, nextId, id, alone>>
    BY <1>4 DEF Recv, At, Active, callVars, sidecarVars
  <2>2. Given' /\ Busy'
    <3>1. \A i \in 1 .. Len(toHost') : toHost'[i].request < nextId
      BY <1>s, <1>n, <2>1, StillGiven DEF Given
    <3>2. QED
      BY <2>1, <3>1 DEF Given, Busy
  <2>3. ASSUME d \in alone PROVE Lone(d)'
    <3>1. Newest(id[d]) /\ id[d] # None
      BY <2>1, <2>3 DEF Lone
    <3>2. ASSUME Accepts(d, Head(toHost)) PROVE Answered(id[d])'
      <4>1. InResult(id[d])
        BY <1>s, <2>1, <3>2, Shrunk DEF InResult, IsMessage, Accepts
      <4>2. QED
        BY <2>1, <3>1, <4>1 DEF Newest, Answered, NoInvoke
    <3>3. QED
      BY <1>m, <2>1, <2>3, <3>1, <3>2 DEF Lone
  <2>4. QED
    BY <1>o, <2>1, <2>2, <2>3
<1>5. CASE Read(d)
  <2>1. /\ pc[d] = "read" /\ d \in Active
        /\ UNCHANGED <<toSidecar, toHost, work, written, reply, nextId, id, alone>>
        /\ \/ answer' = [answer EXCEPT ![d] = reply] /\ Goto(d, "returned")
           \/ answer' = answer /\ Goto(d, "idle")
    BY <1>5 DEF Read, At, Active, wireVars, sidecarVars
  <2>2. /\ \A c \in Caller \ {d} : answer'[c] = answer[c]
        /\ Goto(d, "returned") => answer'[d] = reply
    <3>1. CASE answer' = [answer EXCEPT ![d] = reply]
      BY <1>s, <3>1, Update DEF Shape, OnCallers
    <3>2. CASE answer' = answer /\ Goto(d, "idle")
      BY <1>m, <3>2
    <3>3. QED
      BY <2>1, <3>1, <3>2
  <2>3. d \in alone => Lone(d)'
    <3>1. d \in alone => reply = id[d]
      BY <2>1 DEF Lone, Answered
    <3>2. QED
      BY <1>m, <2>1, <2>2, <3>1 DEF Lone
  <2>4. id'[d] < nextId
    BY <2>1 DEF Given
  <2>5. \E label \in {"idle", "returned"} : Goto(d, label)
    BY <2>1
  <2>6. QED
    BY <1>l, <2>1, <2>2, <2>3, <2>4, <2>5
<1>6. CASE Return(d)
  <2>1. /\ Goto(d, "idle")
        /\ answer' = [answer EXCEPT ![d] = None] /\ id' = [id EXCEPT ![d] = None]
        /\ UNCHANGED <<toSidecar, toHost, work, written, reply, nextId, alone>>
    BY <1>6 DEF Return, wireVars, sidecarVars
  <2>2. /\ \A c \in Caller \ {d} : id'[c] = id[c] /\ answer'[c] = answer[c]
        /\ id'[d] = None
    BY <1>s, <2>1, Update DEF Shape, OnCallers
  <2>3. d \in alone => Lone(d)'
    BY <1>m, <2>1 DEF Lone
  <2>4. QED
    BY <1>l, <1>n, <2>1, <2>2, <2>3
<1>7. CASE Fail(d)
  <2>1. /\ pc[d] \in {"lock", "recv"} /\ d \in Active /\ Goto(d, "idle")
        /\ toHost' = toHost /\ (toSidecar' = toSidecar \/ Deliver("torn", None))
        /\ UNCHANGED <<work, written, reply, nextId, id, alone>>
    BY <1>7 DEF Fail, Active, GiveUp, callVars, sidecarVars
  <2>2. Given' /\ Busy'
    <3>1. toSidecar' = toSidecar
            \/ \E x \in Messages : x.request < nextId /\ toSidecar' = Append(toSidecar, x)
      BY <1>n, <2>1 DEF Deliver, Message, Messages, Kind, RequestOrNone
    <3>2. \A i \in 1 .. Len(toSidecar') : toSidecar'[i].request < nextId
      BY <1>s, <1>n, <3>1, StillGiven DEF Given
    <3>3. QED
      BY <2>1, <3>2 DEF Given, Busy
  <2>3. d \in alone => Lone(d)'
    BY <1>m, <2>1 DEF Lone
  <2>4. QED
    BY <1>o, <2>1, <2>2, <2>3
<1>8. QED
  BY <1>1, <1>2, <1>3, <1>4, <1>5, <1>6, <1>7 DEF Call

LEMMA InitSInv == Init => SInv
<1> SUFFICES ASSUME Init PROVE SInv
  OBVIOUS
<1>1. Given /\ Busy
  BY DEF Init, Given, Busy, None
<1>2. alone = {}
  BY DEF Init
<1>3. QED
  BY <1>1, <1>2 DEF SInv

LEMMA NextKeepsSInv == IInv /\ TInv /\ SInv /\ [Next]_vars => SInv'
<1> SUFFICES ASSUME IInv, TInv, SInv, [Next]_vars PROVE SInv'
  OBVIOUS
<1>1. ASSUME NEW c \in Caller, Begin(c) \/ Call(c) PROVE SInv'
  BY <1>1, CallKeepsSInv
<1>2. CASE NextCheck \/ CheckHealth \/ StartDrain \/ Drain
  BY <1>2, LoopIsApart, ApartKeepsSInv
<1>3. CASE Serve \/ Crash
  BY <1>3, ServeKeepsSInv
<1>4. CASE UNCHANGED vars
  <2>1. Apart
    BY <1>4 DEF vars, wireVars, callVars, sidecarVars, Apart
  <2>2. QED
    BY <2>1, ApartKeepsSInv
<1> QED BY <1>1, <1>2, <1>3, <1>4 DEF Next

(* A call that no other call overlaps returns the reply to its own request, *)
(* for any number of callers and calls, whatever timed out before and is    *)
(* still on its way, in the stream or in the sidecar (dispatcher.rs 92-127),*)
(* and although all replies are written to one place.                      *)
THEOREM SidecarAnswersOwnAlone == Spec => []AnswersOwnAlone
<1>1. SInv => AnswersOwnAlone
  BY DEF SInv, Lone, AnswersOwnAlone, At
<1>2. QED
  BY <1>1, InitSInv, NextKeepsSInv, SidecarInvariant, TypesHold, PTL DEF Spec

-----------------------------------------------------------------------------
(* However many callers, calls and health checks there are, every part of   *)
(* the state keeps its type: the request numbers suffice, the failures      *)
(* counted stay below the rounds of the health loop (lifecycle.rs 232-257), *)
(* the gauge below zero is never reached.                                  *)
THEOREM SidecarTypeCorrect == Spec => []TypeOK
<1>1. ASSUME IInv, TInv PROVE TypeOK
  <2>1. Data /\ Shape /\ NumbersLast /\ RoundsLast /\ Queued
    BY <1>1 DEF IInv, TInv
  <2>2. failures \in 0 .. MaxChecks /\ checks \in 0 .. MaxChecks
    BY <2>1, SidecarAssumption DEF RoundsLast
  <2>3. inFlight \in Nat /\ leaked \in Nat
    BY <1>1, ActiveFinite DEF IInv, Shape, InFlightAccounted
  <2>4. nextId \in 1 .. MaxCalls + 1
    BY <2>1, WritingFinite, SidecarAssumption DEF NumbersLast
  <2>5. pc \in [Task -> {"idle", "write", "lock", "recv", "read", "returned", "bye", "stop",
                       "over"}]
    <3>1. pc \in [Task -> Label]
      BY <2>1 DEF Shape
    <3>2. QED
      BY <3>1 DEF Label, CallerLabel, OtherLabel
  <2>6. QED
    BY <2>1, <2>2, <2>3, <2>4, <2>5 DEF TypeOK, Data, RequestOrNone, Queued
<1>2. QED
  BY <1>1, SidecarInvariant, TypesHold, PTL

(* The stream belongs to one at a time: between its message and the end of  *)
(* its wait for the answer nobody else, caller, health loop or drain, sends *)
(* on or reads from the connection (dispatcher.rs 92-98).                  *)
THEOREM SidecarOneTalks ==
  Spec => [](\A t, u \in Task : pc[t] \in {"recv", "bye", "stop"} /\ pc[u] \in {"recv", "bye", "stop"} => t = u)
<1>1. TInv => \A t, u \in Task : pc[t] \in {"recv", "bye", "stop"} /\ pc[u] \in {"recv", "bye", "stop"} => t = u
  BY DEF TInv, Queued, Holds
<1>2. QED
  BY <1>1, TypesHold, PTL
=============================================================================
