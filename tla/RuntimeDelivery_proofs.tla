----------------------- MODULE RuntimeDelivery_proofs -----------------------
(***************************************************************************)
(* What becomes of a published value: every target it was published for    *)
(* reads it before it is removed (on Local, whatever dies; on Shared where *)
(* a port has one target); nothing is left behind, and nothing of a        *)
(* crashed process after its clean-up, when only sources of data die; and  *)
(* its readers get it in order.                                            *)
(*                                                                         *)
(* The account of Runtime_proofs counts reads; here they are told apart by *)
(* their readers.  A read of s by t is Coming from the moment publish has  *)
(* its list of targets: t waits in the list, then the descriptor is in t's *)
(* queue, in the hands of the drain, or in those of t.                     *)
(***************************************************************************)
EXTENDS Runtime_proofs

-----------------------------------------------------------------------------
(* Who is served.                                                          *)

Coming(s, t) ==
  \/ Stage(s, Serving) /\ Holds(todo[author[s]], t)
  \/ Holds(queue[t], s)
  \/ sup.at_queue = t /\ Holds(sup.valid, s)
  \/ t \in InHand(s)

\* Targets have read s or will, and nobody else does.
Serves(s) ==
  \A t \in Proc :
    /\ Coming(s, t) \/ t \in got[s] => t \in want[s]
    /\ t \in want[s] => Coming(s, t) \/ t \in got[s] \/ author[s] \in Crashed
Untargeted(s) == s >= nextSample \/ Stage(s, {"routes"}) => want[s] = {}

Served == \A s \in Sample : Serves(s) /\ Untargeted(s)

\* A step after which the reads of s that were coming are coming still.
LEMMA ServesKept ==
  ASSUME NEW s \in Sample, Serves(s), want'[s] = want[s], got'[s] = got[s], author'[s] = author[s],
         Crashed \subseteq Crashed', \A t \in Proc : Coming(s, t)' <=> Coming(s, t)
  PROVE  Serves(s)'
BY DEF Serves

\* A step of a thread that serves neither before nor after, takes nothing into its
\* hand and lays nothing down.
LEMMA ComingKept ==
  ASSUME NEW p \in Proc, NEW s \in Sample, pc[p] \notin Serving, pc'[p] \notin Serving,
         \A q \in Proc \ {p} : pc'[q] = pc[q] /\ cur'[q] = cur[q] /\ todo'[q] = todo[q],
         author'[s] = author[s], sup' = sup, \A t \in Proc : queue'[t] = queue[t],
         p \in InHand(s)' <=> p \in InHand(s)
  PROVE  \A t \in Proc : Coming(s, t)' <=> Coming(s, t)
<1>1. Stage(s, Serving)' <=> Stage(s, Serving)
  BY DEF Stage
<1>2. Stage(s, Serving) => todo'[author[s]] = todo[author[s]] /\ author'[s] = author[s]
  BY DEF Stage
<1>3. \A t \in Proc : t \in InHand(s)' <=> t \in InHand(s)
  BY DEF InHand
<1>4. \A t \in Proc : Holds(queue[t], s)' <=> Holds(queue[t], s)
  BY DEF Holds
<1>5. \A t \in Proc : Stage(s, Serving) => (Holds(todo[author[s]], t)' <=> Holds(todo[author[s]], t))
  BY <1>2 DEF Holds
<1>6. Holds(sup.valid, s)' <=> Holds(sup.valid, s)
  BY DEF Holds
<1> QED BY <1>1, <1>3, <1>4, <1>5, <1>6 DEF Coming

LEMMA InitServed == Init => Served
<1> SUFFICES ASSUME Init, NEW s \in Sample PROVE Serves(s) /\ Untargeted(s)
  BY DEF Served
<1>1. want[s] = {} /\ got[s] = {} /\ author[s] = None
  BY DEF Init
<1>2. ~Stage(s, Serving)
  BY <1>1, RuntimeAssumption DEF Stage
<1>3. \A t \in Proc : ~Coming(s, t)
  BY <1>2 DEF Init, Coming, Holds, InHand, NoCleanup
<1> QED BY <1>1, <1>3 DEF Serves, Untargeted

\* The steps of publish before its pushes.
LEMMA LoanServed ==
  ASSUME Typed, Account, Served, NEW p \in Proc, Loan(p)
  PROVE  Served'
<1>1. /\ pc[p] = "idle" /\ pc' = [pc EXCEPT ![p] = "routes"] /\ nextSample <= MaxSamples
      /\ cur' = [cur EXCEPT ![p] = nextSample]
      /\ author' = [author EXCEPT ![nextSample] = p]
      /\ nextSample' = nextSample + 1
      /\ UNCHANGED <<alive, queue, todo, sup, want, got>>
  BY DEF Loan, Goto, At
<1>2. nextSample \in Sample /\ nextSample \in Nat
  BY <1>1, RuntimeAssumption DEF Typed, TypeOK, Sample
<1>3. /\ pc'[p] = "routes" /\ cur'[p] = nextSample /\ author'[nextSample] = p
      /\ \A q \in Proc \ {p} : pc'[q] = pc[q] /\ cur'[q] = cur[q] /\ todo'[q] = todo[q]
      /\ \A s \in Sample \ {nextSample} : author'[s] = author[s]
  BY <1>1, <1>2 DEF Typed, TypeOK
<1>4. Crashed' = Crashed
  BY <1>1 DEF Crashed
<1>5. ASSUME NEW s \in Sample, s # nextSample
      PROVE  Serves(s)' /\ Untargeted(s)'
  <2>1. \A t \in Proc : Coming(s, t)' <=> Coming(s, t)
    BY <1>1, <1>3, <1>5, ComingKept DEF Serving, InHand
  <2>2. Serves(s)'
    BY <1>1, <1>3, <1>4, <1>5, <2>1, ServesKept DEF Served
  <2>3. Untargeted(s)'
    <3>1. s \in Nat
      BY DEF Sample
    <3>2. s >= nextSample' \/ Stage(s, {"routes"})' => s >= nextSample \/ Stage(s, {"routes"})
      BY <1>1, <1>2, <1>3, <1>5, <3>1 DEF Stage
    <3> QED BY <1>1, <3>2 DEF Served, Untargeted
  <2> QED BY <2>2, <2>3
<1>6. ASSUME NEW s \in Sample, s = nextSample
      PROVE  Serves(s)' /\ Untargeted(s)'
  <2>1. want[s] = {}
    BY <1>2, <1>6 DEF Served, Untargeted
  <2>2. \A t \in Proc : ~Coming(s, t) /\ t \notin got[s]
    BY <2>1 DEF Served, Serves
  <2>3. ~Stage(s, Serving)'
    BY <1>3, <1>6 DEF Stage, Serving
  <2>4. \A t \in Proc : t \notin InHand(s)'
    BY <1>3, <2>2 DEF InHand, Coming
  <2>5. \A t \in Proc : ~Coming(s, t)'
    BY <1>1, <2>2, <2>3, <2>4 DEF Coming, Holds
  <2> QED BY <1>1, <2>1, <2>2, <2>5 DEF Serves, Untargeted
<1> QED BY <1>5, <1>6 DEF Served

\* A thread in a call moves the reads of the sample in its hand only.
LEMMA OthersServed ==
  ASSUME Typed, Served, NEW p \in Proc, NEW l, pc' = [pc EXCEPT ![p] = l],
         cur' = cur, author' = author, sup' = sup, alive' = alive, nextSample' = nextSample,
         \A q \in Proc \ {p} : todo'[q] = todo[q],
         NEW s \in Sample, s # cur[p], want'[s] = want[s], got'[s] = got[s],
         \A t \in Proc : Holds(queue[t], s)' <=> Holds(queue[t], s)
  PROVE  Serves(s)' /\ Untargeted(s)'
<1>1. /\ \A P \in SUBSET Publishing : Stage(s, P)' <=> Stage(s, P)
      /\ InHand(s)' = InHand(s)
  BY Elsewhere
<1>2. (Stage(s, Serving)' <=> Stage(s, Serving)) /\ (Stage(s, {"routes"})' <=> Stage(s, {"routes"}))
  BY <1>1 DEF Publishing, Serving
<1>3. Stage(s, Serving) => todo'[author[s]] = todo[author[s]] /\ author'[s] = author[s]
  BY DEF Stage
<1>4. \A t \in Proc : Stage(s, Serving) => (Holds(todo[author[s]], t)' <=> Holds(todo[author[s]], t))
  BY <1>3 DEF Holds
<1>5. \A t \in Proc : Coming(s, t)' <=> Coming(s, t)
  BY <1>1, <1>2, <1>4 DEF Coming, Holds
<1>6. Crashed' = Crashed
  BY DEF Crashed
<1>7. Serves(s)'
  BY <1>5, <1>6, ServesKept DEF Served
<1>8. Untargeted(s)'
  BY <1>2 DEF Served, Untargeted
<1> QED BY <1>7, <1>8

\* publish has its targets: from now on their reads are coming.
LEMMA GetRoutesServed ==
  ASSUME Typed, Account, Served, NEW p \in Proc, GetRoutes(p)
  PROVE  Served'
<1> DEFINE l == CASE routes[p] = <<>> -> "idle"
                  [] routes[p] # <<>> /\ Shared -> "insert"
                  [] OTHER -> "register"
<1>1. /\ pc[p] = "routes" /\ pc' = [pc EXCEPT ![p] = l]
      /\ todo' = [todo EXCEPT ![p] = routes[p]]
      /\ want' = [want EXCEPT ![cur[p]] = Targets(routes[p])]
      /\ UNCHANGED <<alive, nextSample, queue, cur, sup, author, got>>
  BY DEF GetRoutes, Goto, At, registryVars
<1>2. cur[p] \in Sample /\ author[cur[p]] = p
  BY <1>1, OwnSample DEF Publishing
<1>3. /\ pc'[p] = l /\ todo'[p] = routes[p] /\ want'[cur[p]] = Targets(routes[p])
      /\ \A q \in Proc \ {p} : todo'[q] = todo[q] /\ pc'[q] = pc[q]
      /\ \A s \in Sample \ {cur[p]} : want'[s] = want[s]
      /\ l \in {"idle", "insert", "register"} /\ (l = "idle" <=> routes[p] = <<>>)
  BY <1>1, <1>2 DEF Typed, TypeOK
<1> HIDE DEF l
<1>4. ASSUME NEW s \in Sample, s # cur[p]
      PROVE  Serves(s)' /\ Untargeted(s)'
  BY <1>1, <1>3, <1>4, OthersServed DEF Holds
<1>5. ASSUME NEW s \in Sample, s = cur[p]
      PROVE  Serves(s)' /\ Untargeted(s)'
  <2>1. want[s] = {}
    BY <1>1, <1>2, <1>5 DEF Served, Untargeted, Stage
  <2>2. \A t \in Proc : ~Coming(s, t) /\ t \notin got[s]
    BY <2>1 DEF Served, Serves
  <2>3. Stage(s, Serving)' <=> routes[p] # <<>>
    BY <1>1, <1>2, <1>3, <1>5 DEF Stage, Serving
  <2>4. author'[s] = p /\ todo'[p] = routes[p]
    BY <1>1, <1>2, <1>3, <1>5
  <2>5. \A t \in Proc : t \notin InHand(s)'
    BY <1>1, <1>3, <2>2 DEF InHand, Coming
  <2>6. \A t \in Proc : t \in want'[s] <=> Holds(routes[p], t)
    BY <1>3, <1>5 DEF Targets, Holds
  <2>7. \A t \in Proc : Holds(routes[p], t) => routes[p] # <<>>
    BY DEF Holds
  <2>8. \A t \in Proc : Coming(s, t)' <=> Holds(routes[p], t)
    BY <1>1, <2>2, <2>3, <2>4, <2>5, <2>7 DEF Coming, Holds
  <2>9. Serves(s)'
    BY <1>1, <2>2, <2>6, <2>8 DEF Serves
  <2>10. Untargeted(s)'
    <3>1. Loaned(s) /\ s \in Nat /\ nextSample \in Nat
      BY <1>5, RuntimeAssumption DEF Account, Counts, Sample, Typed, TypeOK
    <3>2. s < nextSample
      BY <3>1, <1>2, <1>5 DEF Loaned
    <3>3. ~(s >= nextSample)
      BY <3>1, <3>2
    <3>4. ~Stage(s, {"routes"})'
      BY <1>1, <1>2, <1>3, <1>5 DEF Stage
    <3> QED BY <1>1, <3>3, <3>4 DEF Untargeted
  <2> QED BY <2>9, <2>10
<1> QED BY <1>4, <1>5 DEF Served

\* register, insert and mark: the targets wait.
LEMMA PrepareServed ==
  ASSUME Typed, Account, Served, NEW p \in Proc, Register(p) \/ InsertValue(p) \/ MarkPublished(p)
  PROVE  Served'
<1>1. PICK l \in Serving : pc' = [pc EXCEPT ![p] = l]
  BY DEF Register, InsertValue, MarkPublished, Goto, Serving
<1>2. /\ pc[p] \in {"register", "insert", "mark"}
      /\ UNCHANGED <<alive, nextSample, queue, cur, todo, sup, author, want, got>>
  BY DEF Register, InsertValue, MarkPublished, At, registryVars, historyVars
<1>3. pc'[p] = l /\ \A q \in Proc \ {p} : pc'[q] = pc[q]
  BY <1>1 DEF Typed, TypeOK
<1>4. ASSUME NEW s \in Sample
      PROVE  Serves(s)' /\ Untargeted(s)'
  <2>1. (Stage(s, Serving)' <=> Stage(s, Serving)) /\ (Stage(s, {"routes"})' <=> Stage(s, {"routes"}))
    BY <1>2, <1>3 DEF Stage, Serving
  <2>2. InHand(s)' = InHand(s)
    BY <1>2, <1>3 DEF InHand, Serving
  <2>3. \A t \in Proc : Coming(s, t)' <=> Coming(s, t)
    BY <1>2, <2>1, <2>2 DEF Coming, Holds
  <2>4. Crashed' = Crashed
    BY <1>2 DEF Crashed
  <2> QED BY <1>2, <2>1, <2>3, <2>4, ServesKept DEF Served, Untargeted
<1> QED BY <1>4 DEF Served

\* What is in a queue when something is put at its end, or taken from its head.
LEMMA HoldsAppend ==
  ASSUME NEW S, NEW q \in Seq(S), NEW x \in S, NEW y
  PROVE  Holds(Append(q, x), y) <=> Holds(q, y) \/ y = x
<1>1. /\ Len(Append(q, x)) = Len(q) + 1 /\ Len(q) \in Nat
      /\ \A i \in 1 .. Len(q) : Append(q, x)[i] = q[i]
      /\ Append(q, x)[Len(q) + 1] = x
  BY AppendSeq
<1>2. \A i \in 1 .. Len(q) + 1 : i \in 1 .. Len(q) \/ i = Len(q) + 1
  BY <1>1
<1>3. 1 .. Len(q) \subseteq 1 .. Len(q) + 1 /\ Len(q) + 1 \in 1 .. Len(q) + 1
  BY <1>1
<1> QED BY <1>1, <1>2, <1>3 DEF Holds

LEMMA HoldsTail ==
  ASSUME NEW S, NEW q \in Seq(S), q # <<>>, NEW y
  PROVE  Holds(q, y) <=> Holds(Tail(q), y) \/ y = Head(q)
<1>1. /\ Len(Tail(q)) = Len(q) - 1 /\ Len(q) \in Nat \ {0}
      /\ \A i \in 1 .. Len(q) - 1 : Tail(q)[i] = q[i + 1]
      /\ Head(q) = q[1]
  BY TailSeq
<1>2. ASSUME Holds(q, y), y # Head(q)
      PROVE  Holds(Tail(q), y)
  <2>1. PICK i \in 1 .. Len(q) : q[i] = y
    BY <1>2 DEF Holds
  <2>2. i # 1
    BY <1>1, <1>2, <2>1
  <2>3. i - 1 \in 1 .. Len(q) - 1 /\ (i - 1) + 1 = i
    BY <1>1, <2>2
  <2>4. Tail(q)[i - 1] = q[(i - 1) + 1]
    BY <1>1, <2>3
  <2> QED BY <1>1, <2>1, <2>3, <2>4 DEF Holds
<1>3. ASSUME Holds(Tail(q), y)
      PROVE  Holds(q, y)
  <2>1. PICK i \in 1 .. Len(q) - 1 : Tail(q)[i] = y
    BY <1>1, <1>3 DEF Holds
  <2>2. i + 1 \in 1 .. Len(q) /\ q[i + 1] = y
    BY <1>1, <2>1
  <2> QED BY <2>2 DEF Holds
<1>4. ASSUME y = Head(q)
      PROVE  Holds(q, y)
  <2>1. 1 \in 1 .. Len(q) /\ q[1] = y
    BY <1>1, <1>4
  <2> QED BY <2>1 DEF Holds
<1> QED BY <1>2, <1>3, <1>4

\* push: the target waits no longer in the list but in its queue.
LEMMA PushServed ==
  ASSUME Typed, Account, Served, NEW p \in Proc, PushDescriptor(p)
  PROVE  Served'
<1> DEFINE c == Head(todo[p])
           l == IF Len(todo[p]) = 1 THEN "idle" ELSE "push"
<1>1. /\ pc[p] = "push" /\ todo[p] # <<>> /\ pc' = [pc EXCEPT ![p] = l]
      /\ queue' = [queue EXCEPT ![c] = Append(@, cur[p])]
      /\ todo' = [todo EXCEPT ![p] = Tail(@)]
      /\ UNCHANGED <<alive, nextSample, cur, sup, author, want, got>>
  BY DEF PushDescriptor, Goto, At, registryVars, historyVars
<1>2. cur[p] \in Sample /\ author[cur[p]] = p
  BY <1>1, OwnSample DEF Publishing
<1>3. todo[p] \in Seq(Proc) /\ c \in Proc /\ queue[c] \in Seq(Sample)
  <2>1. todo[p] \in Seq(Proc)
    BY DEF Typed, TypeOK
  <2>2. c \in Proc
    BY <1>1, <2>1, TailSeq
  <2> QED BY <2>1, <2>2 DEF Typed, TypeOK
<1>4. \A t \in Proc : Holds(todo[p], t) <=> Holds(Tail(todo[p]), t) \/ t = c
  BY <1>1, <1>3, HoldsTail
<1>5. l = "idle" => Len(Tail(todo[p])) = 0
  BY <1>1, <1>3, TailSeq
<1>6. \A t \in Proc : l = "idle" => ~Holds(Tail(todo[p]), t)
  BY <1>5 DEF Holds
<1>7. l \in {"idle", "push"}
  OBVIOUS
<1> HIDE DEF c, l
<1>8. \A s : Holds(Append(queue[c], cur[p]), s) <=> Holds(queue[c], s) \/ s = cur[p]
  BY <1>2, <1>3, HoldsAppend
<1>9. /\ pc'[p] = l /\ todo'[p] = Tail(todo[p])
      /\ \A q \in Proc \ {p} : todo'[q] = todo[q] /\ pc'[q] = pc[q]
      /\ queue'[c] = Append(queue[c], cur[p])
      /\ \A t \in Proc \ {c} : queue'[t] = queue[t]
  BY <1>1, <1>3 DEF Typed, TypeOK
<1>10. \A s : \A t \in Proc : Holds(queue'[t], s) <=> Holds(queue[t], s) \/ (s = cur[p] /\ t = c)
  BY <1>8, <1>9
<1>11. ASSUME NEW s \in Sample, s # cur[p]
       PROVE  Serves(s)' /\ Untargeted(s)'
  <2>1. \A t \in Proc : Holds(queue[t], s)' <=> Holds(queue[t], s)
    BY <1>10, <1>11 DEF Holds
  <2> QED BY <1>1, <1>9, <1>11, <2>1, OthersServed
<1>12. ASSUME NEW s \in Sample, s = cur[p]
       PROVE  Serves(s)' /\ Untargeted(s)'
  <2>1. Stage(s, Serving) /\ author'[s] = p /\ author[s] = p
    BY <1>1, <1>2, <1>12 DEF Stage, Serving
  <2>2. Stage(s, Serving)' <=> l = "push"
    BY <1>1, <1>2, <1>7, <1>9, <1>12 DEF Stage, Serving
  <2>3. \A t \in Proc : t \in InHand(s)' <=> t \in InHand(s)
    BY <1>1, <1>7, <1>9 DEF InHand
  <2>4. ASSUME NEW t \in Proc
        PROVE  Coming(s, t)' <=> Coming(s, t)
    <3>1. Holds(todo[author[s]], t)' <=> Holds(Tail(todo[p]), t)
      BY <2>1, <1>9 DEF Holds
    <3>2. Holds(queue[t], s)' <=> Holds(queue[t], s) \/ t = c
      BY <1>10, <1>12 DEF Holds
    <3>3. Holds(sup.valid, s)' <=> Holds(sup.valid, s)
      BY <1>1 DEF Holds
    <3> QED BY <1>1, <1>4, <1>6, <1>7, <2>1, <2>2, <2>3, <3>1, <3>2, <3>3 DEF Coming
  <2>5. Crashed' = Crashed
    BY <1>1 DEF Crashed
  <2>6. Serves(s)'
    BY <1>1, <2>4, <2>5, ServesKept DEF Served
  <2>7. Untargeted(s)'
    <3>1. ~Stage(s, {"routes"})' /\ ~Stage(s, {"routes"})
      BY <1>1, <1>2, <1>7, <1>9, <1>12 DEF Stage
    <3> QED BY <1>1, <3>1 DEF Served, Untargeted
  <2> QED BY <2>6, <2>7
<1> QED BY <1>11, <1>12 DEF Served

\* try_pop: the descriptor goes from the queue into the hand.
LEMMA PopServed ==
  ASSUME Typed, Served, NEW p \in Proc, Pop(p)
  PROVE  Served'
<1> DEFINE x == Head(queue[p])
<1>1. /\ pc[p] = "idle" /\ queue[p] # <<>> /\ pc' = [pc EXCEPT ![p] = "lookup"]
      /\ cur' = [cur EXCEPT ![p] = x]
      /\ queue' = [queue EXCEPT ![p] = Tail(@)]
      /\ UNCHANGED <<alive, nextSample, todo, sup, author, want, got>>
  BY DEF Pop, Goto, At, registryVars, historyVars
<1>2. queue[p] \in Seq(Sample)
  BY DEF Typed, TypeOK
<1>3. \A s : Holds(queue[p], s) <=> Holds(Tail(queue[p]), s) \/ s = x
  BY <1>1, <1>2, HoldsTail
<1> HIDE DEF x
<1>4. /\ pc'[p] = "lookup" /\ cur'[p] = x /\ queue'[p] = Tail(queue[p])
      /\ \A q \in Proc \ {p} : queue'[q] = queue[q] /\ pc'[q] = pc[q] /\ cur'[q] = cur[q]
  BY <1>1 DEF Typed, TypeOK
<1>5. Crashed' = Crashed
  BY <1>1 DEF Crashed
<1>6. ASSUME NEW s \in Sample
      PROVE  Serves(s)' /\ Untargeted(s)'
  <2>1. (Stage(s, Serving)' <=> Stage(s, Serving)) /\ (Stage(s, {"routes"})' <=> Stage(s, {"routes"}))
    BY <1>1, <1>4 DEF Stage, Serving
  <2>2. ASSUME NEW t \in Proc, t # p
        PROVE  Coming(s, t)' <=> Coming(s, t)
    <3>1. t \in InHand(s)' <=> t \in InHand(s)
      BY <1>4, <2>2 DEF InHand
    <3>2. Holds(queue[t], s)' <=> Holds(queue[t], s)
      BY <1>4, <2>2 DEF Holds
    <3> QED BY <1>1, <2>1, <3>1, <3>2 DEF Coming, Holds
  <2>3. Coming(s, p)' <=> Coming(s, p)
    <3>1. p \notin InHand(s) /\ (p \in InHand(s)' <=> s = x)
      BY <1>1, <1>4 DEF InHand
    <3>2. Holds(queue[p], s)' <=> Holds(Tail(queue[p]), s)
      BY <1>4 DEF Holds
    <3>3. Holds(sup.valid, s)' <=> Holds(sup.valid, s)
      BY <1>1 DEF Holds
    <3>4. Holds(todo[author[s]], p)' <=> Holds(todo[author[s]], p)
      BY <1>1 DEF Holds
    <3> QED BY <1>1, <1>3, <2>1, <3>1, <3>2, <3>3, <3>4 DEF Coming
  <2>4. Serves(s)'
    BY <1>1, <1>5, <2>2, <2>3, ServesKept DEF Served
  <2> QED BY <1>1, <2>1, <2>4 DEF Served, Untargeted
<1> QED BY <1>6 DEF Served

\* get_typed: the value is read, or it was taken from under its readers when its
\* publisher was crashed.
LEMMA LookupServed ==
  ASSUME ~Shared, Typed, Account, Served, NEW p \in Proc, Lookup(p)
  PROVE  Served'
<1>1. /\ pc[p] = "lookup" /\ pc' = [pc EXCEPT ![p] = "idle"]
      /\ UNCHANGED <<alive, nextSample, queue, cur, todo, sup, author, want>>
      /\ got' = IF cur[p] \in store THEN [got EXCEPT ![cur[p]] = @ \cup {p}] ELSE got
  BY DEF Lookup, Goto, At, registryVars
<1>2. cur[p] \in Sample
  BY <1>1 DEF Typed, InHandOf, At
<1>3. /\ pc'[p] = "idle" /\ \A q \in Proc \ {p} : pc'[q] = pc[q]
      /\ \A s \in Sample \ {cur[p]} : got'[s] = got[s]
      /\ got'[cur[p]] = IF cur[p] \in store THEN got[cur[p]] \cup {p} ELSE got[cur[p]]
  BY <1>1, <1>2 DEF Typed, TypeOK
<1>4. ASSUME NEW s \in Sample, s # cur[p]
      PROVE  Serves(s)' /\ Untargeted(s)'
  BY <1>1, <1>3, <1>4, OthersServed DEF Holds
<1>5. ASSUME NEW s \in Sample, s = cur[p]
      PROVE  Serves(s)' /\ Untargeted(s)'
  <2>1. p \in InHand(s)
    BY <1>1, <1>5 DEF InHand
  <2>2. s \in store \/ author[s] \in Crashed
    BY <2>1, AccountKeepsValues DEF LiveReferences, IInv
  <2>3. (Stage(s, Serving)' <=> Stage(s, Serving)) /\ (Stage(s, {"routes"})' <=> Stage(s, {"routes"}))
    BY <1>1, <1>3 DEF Stage, Serving
  <2>4. \A t \in Proc : t # p => (t \in InHand(s)' <=> t \in InHand(s))
    BY <1>1, <1>3 DEF InHand
  <2>5. p \notin InHand(s)'
    BY <1>3 DEF InHand
  <2>6. \A t \in Proc : Coming(s, t)' => Coming(s, t)
    BY <1>1, <2>1, <2>3, <2>4 DEF Coming, Holds
  <2>7. \A t \in Proc : t # p => (Coming(s, t)' <=> Coming(s, t))
    BY <1>1, <2>3, <2>4 DEF Coming, Holds
  <2>8. Coming(s, p)
    BY <2>1 DEF Coming
  <2>9. Crashed' = Crashed /\ author' = author /\ want' = want
    BY <1>1 DEF Crashed
  <2>10. \A t \in Proc : t \in got'[s] <=> t \in got[s] \/ (t = p /\ s \in store)
    BY <1>3, <1>5
  <2>11. Serves(s)
    BY DEF Served
  <2>12. Serves(s)'
    BY <2>2, <2>6, <2>7, <2>8, <2>9, <2>10, <2>11 DEF Serves
  <2> QED BY <1>1, <2>3, <2>12 DEF Served, Untargeted
<1> QED BY <1>4, <1>5 DEF Served

\* The drop of a guard moves no read: what it drops was read.
LEMMA ReleaseServed ==
  ASSUME Typed, Served, NEW p \in Proc, Release(p)
  PROVE  Served'
<1>1. /\ pc[p] \in {"idle", "reclaim", "remove"} /\ pc'[p] \in {"idle", "reclaim", "remove"}
      /\ \A q \in Proc \ {p} : pc'[q] = pc[q] /\ cur'[q] = cur[q]
      /\ UNCHANGED <<alive, nextSample, queue, todo, sup, author, want, got>>
  <2>1. CASE DropGuard(p)
    <3>1. /\ pc[p] = "idle"
          /\ \E s : cur' = [cur EXCEPT ![p] = s]
          /\ \/ pc' = pc \/ pc' = [pc EXCEPT ![p] = "reclaim"] \/ pc' = [pc EXCEPT ![p] = "idle"]
          /\ UNCHANGED <<alive, nextSample, queue, todo, sup, author, want, got>>
      BY <2>1 DEF DropGuard, Goto, At, historyVars
    <3>2. pc'[p] \in {"idle", "reclaim"} /\ \A q \in Proc \ {p} : pc'[q] = pc[q]
      BY <3>1 DEF Typed, TypeOK
    <3>3. \A q \in Proc \ {p} : cur'[q] = cur[q]
      BY <3>1 DEF Typed, TypeOK
    <3> QED BY <3>1, <3>2, <3>3
  <2>2. CASE Reclaim(p)
    BY <2>2 DEF Reclaim, Goto, At, historyVars, Typed, TypeOK
  <2>3. CASE RemoveValue(p)
    BY <2>3 DEF RemoveValue, Goto, At, historyVars, registryVars, Typed, TypeOK
  <2> QED BY <2>1, <2>2, <2>3 DEF Release
<1>2. ASSUME NEW s \in Sample
      PROVE  Serves(s)' /\ Untargeted(s)'
  <2>1. p \notin InHand(s) /\ p \notin InHand(s)'
    BY <1>1 DEF InHand
  <2>2. pc[p] \notin Serving /\ pc'[p] \notin Serving
    BY <1>1 DEF Serving
  <2>3. \A t \in Proc : Coming(s, t)' <=> Coming(s, t)
    BY <1>1, <2>1, <2>2, ComingKept
  <2>4. Stage(s, {"routes"})' <=> Stage(s, {"routes"})
    BY <1>1 DEF Stage
  <2>5. Crashed' = Crashed
    BY <1>1 DEF Crashed
  <2>6. Serves(s)'
    BY <1>1, <2>3, <2>5, ServesKept DEF Served
  <2> QED BY <1>1, <2>4, <2>6 DEF Served, Untargeted
<1> QED BY <1>2 DEF Served

\* A step of no thread that moves no descriptor.
LEMMA ServedKept ==
  ASSUME Served, UNCHANGED <<pc, cur, todo, author, nextSample, queue, want, got>>,
         sup'.valid = sup.valid, sup'.at_queue = sup.at_queue \/ sup.valid = <<>>,
         Crashed \subseteq Crashed'
  PROVE  Served'
<1>1. ASSUME NEW s \in Sample
      PROVE  Serves(s)' /\ Untargeted(s)'
  <2>1. /\ (Stage(s, Serving)' <=> Stage(s, Serving))
        /\ (Stage(s, {"routes"})' <=> Stage(s, {"routes"}))
        /\ InHand(s)' = InHand(s)
    BY DEF Stage, InHand
  <2>2. ASSUME NEW t \in Proc
        PROVE  (sup.at_queue = t /\ Holds(sup.valid, s))' <=> sup.at_queue = t /\ Holds(sup.valid, s)
    <3>1. Holds(sup.valid, s)' <=> Holds(sup.valid, s)
      BY DEF Holds
    <3>2. sup.valid = <<>> => ~Holds(sup.valid, s)
      BY DEF Holds
    <3> QED BY <3>1, <3>2
  <2>3. \A t \in Proc : Coming(s, t)' <=> Coming(s, t)
    BY <2>1, <2>2 DEF Coming, Holds
  <2> QED BY <2>1, <2>3, ServesKept DEF Served, Untargeted
<1> QED BY <1>1 DEF Served

LEMMA AsideServed ==
  ASSUME Typed, Served,
         \/ \E p \in Proc : Die(p) \/ CrashProcess(p)
         \/ ReclaimOrphans \/ RemoveOrphan \/ StartDrain \/ DrainQueue \/ FinishCleanup
         \/ ClearRoutes \/ RegisterRoute \/ UNCHANGED vars
  PROVE  Served'
<1> USE DEF registryVars, threadVars, historyVars
<1>1. UNCHANGED <<pc, cur, todo, author, nextSample, queue, want, got>>
  BY DEF Die, CrashProcess, ReclaimOrphans, RemoveOrphan, StartDrain, DrainQueue, FinishCleanup,
         ClearRoutes, RegisterRoute, vars
<1>2. Crashed \subseteq Crashed'
  <2>1. CASE \E p \in Proc : CrashProcess(p)
    <3>1. PICK p \in Proc : alive' = [alive EXCEPT ![p] = FALSE]
      BY <2>1 DEF CrashProcess
    <3>2. \A q \in Proc : ~alive[q] => ~alive'[q]
      BY <3>1 DEF Typed, TypeOK
    <3> QED BY <3>2 DEF Crashed
  <2>2. CASE alive' = alive
    BY <2>2 DEF Crashed
  <2> QED BY <2>1, <2>2 DEF Die, ReclaimOrphans, RemoveOrphan, StartDrain, DrainQueue,
             FinishCleanup, ClearRoutes, RegisterRoute, vars
<1>3. sup'.valid = sup.valid /\ (sup'.at_queue = sup.at_queue \/ sup.valid = <<>>)
  <2>1. CASE \E p \in Proc : CrashProcess(p)
    BY <2>1 DEF CrashProcess, Typed, Supervision
  <2>2. CASE ReclaimOrphans
    BY <2>2 DEF ReclaimOrphans, Typed, Supervision
  <2>3. CASE RemoveOrphan
    BY <2>3 DEF RemoveOrphan, Typed, Supervision
  <2>4. CASE StartDrain
    BY <2>4 DEF StartDrain, Typed, Supervision
  <2>5. CASE DrainQueue
    BY <2>5 DEF DrainQueue, Typed, Supervision
  <2>6. CASE FinishCleanup
    BY <2>6 DEF FinishCleanup, NoCleanup, Typed, Supervision
  <2>7. CASE sup' = sup
    BY <2>7
  <2> QED BY <2>1, <2>2, <2>3, <2>4, <2>5, <2>6, <2>7 DEF Die, ClearRoutes, RegisterRoute, vars
<1> QED BY <1>1, <1>2, <1>3, ServedKept

\* The drain takes a descriptor, and keeps it or drops a victim's.
LEMMA DrainPopServed ==
  ASSUME Typed, Account, Served, DrainPop
  PROVE  Served'
<1> DEFINE c == sup.at_queue
           x == Head(queue[c])
<1>1. /\ UNCHANGED <<pc, cur, todo, author, nextSample, alive, want, got>>
      /\ sup.at = "pop"
  BY DEF DrainPop, registryVars, threadVars, historyVars
<1>2. c \in Proc /\ queue[c] \in Seq(Sample) /\ sup.valid \in Seq(Sample)
  BY <1>1 DEF Typed, TypeOK, Supervision
<1>3. Crashed' = Crashed
  BY <1>1 DEF Crashed
<1>4. CASE queue[c] = <<>>
  <2>1. queue' = queue /\ sup' = [sup EXCEPT !.at = "putback"]
    BY <1>4 DEF DrainPop
  <2>2. sup'.valid = sup.valid /\ sup'.at_queue = sup.at_queue
    BY <2>1 DEF Typed, Supervision
  <2> QED BY <1>1, <1>3, <2>1, <2>2, ServedKept
<1>5. CASE queue[c] # <<>>
  <2>1. /\ queue' = [queue EXCEPT ![c] = Tail(@)]
        /\ sup' = [sup EXCEPT !.valid = IF Drops(x) THEN @ ELSE Append(@, x)]
    BY <1>5 DEF DrainPop
  <2>2. x \in Sample
    BY <1>2, <1>5, TailSeq
  <2>3. \A s : Holds(queue[c], s) <=> Holds(Tail(queue[c]), s) \/ s = x
    BY <1>2, <1>5, HoldsTail
  <2> HIDE DEF x, c
  <2>4. \A s : Holds(Append(sup.valid, x), s) <=> Holds(sup.valid, s) \/ s = x
    BY <1>2, <2>2, HoldsAppend
  <2>5. /\ sup'.at_queue = c /\ sup.at_queue = c
        /\ sup'.valid = IF Drops(x) THEN sup.valid ELSE Append(sup.valid, x)
    BY <2>1 DEF Typed, Supervision, c
  <2>6. queue'[c] = Tail(queue[c]) /\ \A t \in Proc \ {c} : queue'[t] = queue[t]
    BY <1>2, <2>1 DEF Typed, TypeOK
  <2>7. Drops(x) => author[x] \in Crashed
    BY DEF Drops, Account, Victims
  <2>8. ASSUME NEW s \in Sample
        PROVE  Serves(s)' /\ Untargeted(s)'
    <3>1. /\ (Stage(s, Serving)' <=> Stage(s, Serving))
          /\ (Stage(s, {"routes"})' <=> Stage(s, {"routes"}))
          /\ InHand(s)' = InHand(s)
      BY <1>1 DEF Stage, InHand
    <3>2. \A t \in Proc : Holds(todo[author[s]], t)' <=> Holds(todo[author[s]], t)
      BY <1>1 DEF Holds
    <3>3. ASSUME NEW t \in Proc
          PROVE  /\ Coming(s, t)' => Coming(s, t)
                 /\ Coming(s, t) => Coming(s, t)' \/ author[s] \in Crashed
      <4>1. Holds(queue[t], s)' <=> Holds(queue'[t], s)
        BY DEF Holds
      <4>2. Holds(sup.valid, s)' <=> Holds(sup'.valid, s)
        BY DEF Holds
      <4>3. Coming(s, t)' <=> \/ Stage(s, Serving) /\ Holds(todo[author[s]], t)
                              \/ Holds(queue'[t], s)
                              \/ c = t /\ Holds(sup'.valid, s)
                              \/ t \in InHand(s)
        BY <2>5, <3>1, <3>2, <4>1, <4>2 DEF Coming
      <4>4. Holds(queue[t], s) <=> Holds(queue'[t], s) \/ (s = x /\ t = c)
        BY <2>3, <2>6
      <4>5. Holds(sup'.valid, s) <=> Holds(sup.valid, s) \/ (s = x /\ ~Drops(x))
        BY <2>4, <2>5
      <4> QED BY <2>5, <2>7, <4>3, <4>4, <4>5 DEF Coming
    <3>7. Serves(s)'
      BY <1>1, <1>3, <3>3 DEF Served, Serves
    <3> QED BY <1>1, <3>1, <3>7 DEF Served, Untargeted
  <2> QED BY <2>8 DEF Served
<1> QED BY <1>4, <1>5

\* The drain puts a descriptor back where it was.
LEMMA DrainPutBackServed ==
  ASSUME Typed, Served, DrainPutBack
  PROVE  Served'
<1> DEFINE c == sup.at_queue
           x == Head(sup.valid)
<1>1. /\ UNCHANGED <<pc, cur, todo, author, nextSample, alive, want, got>>
      /\ sup.at = "putback"
  BY DEF DrainPutBack, registryVars, threadVars, historyVars
<1>2. c \in Proc /\ queue[c] \in Seq(Sample) /\ sup.valid \in Seq(Sample)
  BY <1>1 DEF Typed, TypeOK, Supervision
<1>3. Crashed' = Crashed
  BY <1>1 DEF Crashed
<1>4. CASE sup.valid = <<>>
  <2>1. queue' = queue /\ sup' = [sup EXCEPT !.at = "next", !.at_queue = None]
    BY <1>4 DEF DrainPutBack
  <2>2. sup'.valid = sup.valid
    BY <2>1 DEF Typed, Supervision
  <2> QED BY <1>1, <1>3, <1>4, <2>1, <2>2, ServedKept
<1>5. CASE sup.valid # <<>>
  <2>1. /\ queue' = [queue EXCEPT ![c] = Append(@, x)]
        /\ sup' = [sup EXCEPT !.valid = Tail(@)]
    BY <1>5 DEF DrainPutBack
  <2>2. x \in Sample
    BY <1>2, <1>5, TailSeq
  <2>3. \A s : Holds(sup.valid, s) <=> Holds(Tail(sup.valid), s) \/ s = x
    BY <1>2, <1>5, HoldsTail
  <2> HIDE DEF x, c
  <2>4. \A s : Holds(Append(queue[c], x), s) <=> Holds(queue[c], s) \/ s = x
    BY <1>2, <2>2, HoldsAppend
  <2>5. sup'.at_queue = c /\ sup.at_queue = c /\ sup'.valid = Tail(sup.valid)
    BY <2>1 DEF Typed, Supervision, c
  <2>6. queue'[c] = Append(queue[c], x) /\ \A t \in Proc \ {c} : queue'[t] = queue[t]
    BY <1>2, <2>1 DEF Typed, TypeOK
  <2>7. ASSUME NEW s \in Sample
        PROVE  Serves(s)' /\ Untargeted(s)'
    <3>1. /\ (Stage(s, Serving)' <=> Stage(s, Serving))
          /\ (Stage(s, {"routes"})' <=> Stage(s, {"routes"}))
          /\ InHand(s)' = InHand(s)
      BY <1>1 DEF Stage, InHand
    <3>2. \A t \in Proc : Holds(todo[author[s]], t)' <=> Holds(todo[author[s]], t)
      BY <1>1 DEF Holds
    <3>3. ASSUME NEW t \in Proc
          PROVE  Coming(s, t)' <=> Coming(s, t)
      <4>1. Holds(queue[t], s)' <=> Holds(queue'[t], s)
        BY DEF Holds
      <4>2. Holds(sup.valid, s)' <=> Holds(sup'.valid, s)
        BY DEF Holds
      <4>3. Coming(s, t)' <=> \/ Stage(s, Serving) /\ Holds(todo[author[s]], t)
                              \/ Holds(queue'[t], s)
                              \/ c = t /\ Holds(sup'.valid, s)
                              \/ t \in InHand(s)
        BY <2>5, <3>1, <3>2, <4>1, <4>2 DEF Coming
      <4> QED BY <2>3, <2>4, <2>5, <2>6, <4>3 DEF Coming
    <3>4. Serves(s)'
      BY <1>1, <1>3, <3>3, ServesKept DEF Served
    <3> QED BY <1>1, <3>1, <3>4 DEF Served, Untargeted
  <2> QED BY <2>7 DEF Served
<1> QED BY <1>4, <1>5

\* No read of a sample is coming that is neither to be sent nor under way.
LEMMA NoneComing ==
  ASSUME Typed, NEW s \in Sample, Unsent(s) + Away(s) = 0, NEW t \in Proc
  PROVE  ~Coming(s, t)
<1>1. Unsent(s) = 0 /\ Away(s) = 0
  BY CountsAreNaturals
<1>2. Places(queue, s) = {} /\ InHand(s) = {}
  BY <1>1, AwayIsSomewhere
<1>3. ~Holds(queue[t], s)
  BY <1>2, InPlaces DEF Typed, TypeOK, Holds
<1>4. PutAside(s) = {}
  <2>1. sup.valid \in Seq(Sample)
    BY DEF Typed, TypeOK
  <2>2. IsFiniteSet(PutAside(s))
    BY <2>1, SpotsFinite DEF Spots, PutAside
  <2>3. Cardinality(PutAside(s)) = 0
    <3> DEFINE q == Cardinality(Places(queue, s))
               v == Cardinality(PutAside(s))
               h == Cardinality(InHand(s))
               g == Cardinality(Places(guards, s))
    <3>1. q \in Nat /\ v \in Nat /\ h \in Nat /\ g \in Nat
      BY CountsAreNaturals
    <3>2. q + v + h + g = 0
      BY <1>1 DEF Away
    <3>3. v = 0
      <4> HIDE DEF q, v, h, g
      <4> QED BY <3>1, <3>2
    <3> QED BY <3>3
  <2> QED BY <2>2, <2>3, FS_EmptySet
<1>5. ~Holds(sup.valid, s)
  BY <1>4 DEF Holds, PutAside
<1>6. ~(Stage(s, Serving) /\ Holds(todo[author[s]], t))
  <2>1. Stage(s, Serving) => Len(todo[author[s]]) = 0
    BY <1>1 DEF Stage, Unsent
  <2> QED BY <2>1 DEF Holds
<1> QED BY <1>2, <1>3, <1>5, <1>6 DEF Coming

LEMMA ServedStep ==
  ASSUME ~Shared, Typed, Account, Served, [Next]_vars
  PROVE  Served'
<1>1. ASSUME NEW p \in Proc, Step(p)
      PROVE  Served'
  <2>1. CASE Publish(p)
    BY <2>1, LoanServed, GetRoutesServed, PrepareServed, PushServed DEF Publish
  <2>2. CASE Recv(p)
    <3>1. ~MarkReceived(p)
      BY DEF MarkReceived, Account, Call
    <3> QED BY <2>2, <3>1, PopServed, LookupServed DEF Recv
  <2>3. CASE Release(p)
    BY <2>3, ReleaseServed
  <2> QED BY <1>1, <2>1, <2>2, <2>3 DEF Step
<1>2. CASE \E p \in Proc : Thread(p)
  BY <1>1, <1>2 DEF Thread
<1>3. CASE \E p \in Proc : Die(p) \/ CrashProcess(p)
  BY <1>3, AsideServed
<1>4. CASE Supervise
  BY <1>4, AsideServed, DrainPopServed, DrainPutBackServed DEF Supervise
<1>5. CASE ClearRoutes \/ RegisterRoute \/ UNCHANGED vars
  BY <1>5, AsideServed
<1> QED BY <1>2, <1>3, <1>4, <1>5 DEF Next

LEMMA AlwaysServed == ~Shared => (Spec => [](IInv /\ Served))
<1> SUFFICES ASSUME ~Shared PROVE Spec => [](IInv /\ Served)
  OBVIOUS
<1>1. Spec => []IInv
  BY AlwaysAccounted
<1>2. Init => Served
  BY InitServed
<1>3. IInv /\ Served /\ [Next]_vars => Served'
  BY ServedStep DEF IInv
<1> QED BY <1>1, <1>2, <1>3, PTL DEF Spec

\* A value leaves the store by the last reader's hand or by the supervisor's.
LEMMA LeavesTheStore ==
  ASSUME [Next]_vars, NEW s \in store \ store'
  PROVE  \/ \E p \in Proc : At(p, "remove") /\ cur[p] = s
         \/ sup.at = "remove" /\ s \in sup.left
<1> USE DEF registryVars, threadVars, historyVars
<1>1. CASE \E p \in Proc : Thread(p)
  <2>1. PICK p \in Proc : Step(p)
    BY <1>1 DEF Thread
  <2>2. CASE RemoveValue(p)
    BY <2>2 DEF RemoveValue
  <2>3. CASE store \subseteq store'
    BY <2>3
  <2> QED BY <2>1, <2>2, <2>3
          DEF Step, Publish, Recv, Release, Loan, GetRoutes, Register, InsertValue, MarkPublished,
              PushDescriptor, Pop, Lookup, MarkReceived, DropGuard, Reclaim
<1>2. CASE \E p \in Proc : Die(p) \/ CrashProcess(p)
  BY <1>2 DEF Die, CrashProcess
<1>3. CASE Supervise
  <2>1. CASE RemoveOrphan
    BY <2>1 DEF RemoveOrphan
  <2>2. CASE store \subseteq store'
    BY <2>2
  <2> QED BY <1>3, <2>1, <2>2
          DEF Supervise, ReclaimOrphans, StartDrain, DrainQueue, DrainPop, DrainPutBack,
              FinishCleanup
<1>4. CASE ClearRoutes \/ RegisterRoute \/ UNCHANGED vars
  BY <1>4 DEF ClearRoutes, RegisterRoute, vars
<1> QED BY <1>1, <1>2, <1>3, <1>4 DEF Next

(* On the Local backend a value is removed only when every target it was    *)
(* published for has read it, or its publisher was crashed, whatever is     *)
(* rerouted or dies in between (world.rs 361-413, 636-667).                 *)
THEOREM RuntimeReclaimsOnlyTheRead == ~Shared => (Spec => ReclaimOnlyWhenRead)
<1> SUFFICES ASSUME ~Shared PROVE Spec => ReclaimOnlyWhenRead
  OBVIOUS
<1>1. ASSUME IInv, Served, [Next]_vars, NEW s \in store \ store'
      PROVE  got[s] = want[s] \/ author[s] \in Crashed
  <2>1. s \in Sample /\ got[s] \in SUBSET Proc /\ want[s] \in SUBSET Proc
    BY <1>1 DEF IInv, Typed, TypeOK
  <2>2. CASE \E p \in Proc : At(p, "remove") /\ cur[p] = s
    <3>1. Unsent(s) + Away(s) = 0
      BY <1>1, <2>1, <2>2 DEF IInv, Account, Counts, Released, Releasing, At
    <3>2. \A t \in Proc : ~Coming(s, t)
      BY <1>1, <2>1, <3>1, NoneComing DEF IInv
    <3>3. \A t \in Proc : (t \in got[s] => t \in want[s])
                            /\ (t \in want[s] => t \in got[s] \/ author[s] \in Crashed)
      BY <1>1, <2>1, <3>2 DEF Served, Serves
    <3> QED BY <2>1, <3>3
  <2>3. CASE sup.at = "remove" /\ s \in sup.left
    BY <1>1, <2>3 DEF IInv, Account, Victims
  <2> QED BY <1>1, <2>2, <2>3, LeavesTheStore
<1>2. IInv /\ Served /\ [Next]_vars
        => [\A s \in store \ store' : got[s] = want[s] \/ author[s] \in Crashed]_vars
  BY <1>1
<1> QED BY <1>2, AlwaysServed, PTL DEF Spec, ReclaimOnlyWhenRead

-----------------------------------------------------------------------------
(* What is left behind when only sources of data die.                      *)

\* No process that may die is a target, and none is crashed while it runs.
OnlySourcesDie ==
  /\ MayBeCrashed = {}
  /\ \A p \in Proc : \A t \in MayDie : ~Holds(InitRoutes[p], t)
  /\ \A r \in Reroutes : \A t \in MayDie : ~Holds(r[2], t)

Reading == {"lookup", "received", "reclaim", "remove"}

\* So none of them ever has anything to read.
Sources ==
  \A t \in MayDie :
    /\ \A p \in Proc : ~Holds(routes[p], t) /\ ~Holds(todo[p], t)
    /\ ~Holds(admin.rest, t)
    /\ \A r \in admin.pending : ~Holds(r[2], t)
    /\ queue[t] = <<>> /\ guards[t] = <<>> /\ pc[t] \notin Reading
    /\ sup.at_queue = t => sup.valid = <<>>

\* The dead: those cleaned up after, and the one the supervisor is busy with.
Dead ==
  /\ Crashed \subseteq stopped
  /\ Crashed = sup.done \cup (IF sup.at = "idle" THEN {} ELSE {sup.victim})
  /\ sup.at # "idle" => sup.victim \notin sup.done

\* A call that serves has a target left.
Owing == \A p \in Proc : pc[p] \in Serving => todo[p] # <<>>

\* A live sample waits for a read, or for the record's removal by its last reader.
Last(s) ==
  s \in DOMAIN samples =>
    \/ samples[s].completed < samples[s].expected
    \/ \E p \in Proc \ stopped : cur[p] = s /\ At(p, "reclaim")

\* A value without a record is about to be removed.
Stored(s) ==
  s \in store =>
    \/ s \in DOMAIN samples
    \/ \E p \in Proc \ stopped : cur[p] = s /\ At(p, "remove")
    \/ sup.at = "remove" /\ s \in sup.left

Queued(s) == \E t \in Proc : Holds(queue[t], s)

\* The queues the drain has been through.
Swept ==
  CASE sup.at = "next" -> Proc \ sup.left
    [] sup.at = "pop" -> Proc \ (sup.left \cup {sup.at_queue})
    [] sup.at = "putback" -> Proc \ sup.left
    [] OTHER -> {}

\* The clean-up of the victim takes hold of its records, then of its descriptors.
OfVictim(s) ==
  author[s] = sup.victim /\ sup.at # "idle" =>
    /\ sup.at = "orphans" /\ s \notin DOMAIN samples => ~Queued(s)
    /\ sup.at # "orphans" =>
         /\ s \notin DOMAIN samples
         /\ Queued(s) => s \in sup.victims
         /\ ~Holds(sup.valid, s)
         /\ \A t \in Swept : ~Holds(queue[t], s)

OfTheDone(s) ==
  author[s] \in sup.done => s \notin DOMAIN samples /\ ~Queued(s) /\ ~Holds(sup.valid, s)

OnlyItsOwn ==
  sup.at \notin {"idle", "orphans"} => \A s \in sup.victims : author[s] = sup.victim

Cleaning(s) == Last(s) /\ Stored(s) /\ OfVictim(s) /\ OfTheDone(s)

Cleanup == Sources /\ Dead /\ Owing /\ OnlyItsOwn /\ \A s \in Sample : Cleaning(s)

\* A thread that runs is none of the dead.
LEMMA Living ==
  ASSUME Dead, NEW p \in Proc \ stopped
  PROVE  p \notin Crashed /\ p \notin sup.done /\ (sup.at # "idle" => p # sup.victim)
BY DEF Dead

\* What such a thread publishes is no concern of the supervisor.
LEMMA OfTheLiving ==
  ASSUME Dead', NEW s \in Sample, author'[s] \in Proc \ stopped'
  PROVE  OfVictim(s)' /\ OfTheDone(s)'
<1>1. author'[s] \notin sup'.done /\ (sup'.at # "idle" => author'[s] # sup'.victim)
  BY DEF Dead
<1> QED BY <1>1 DEF OfVictim, OfTheDone

LEMMA DeadKept ==
  ASSUME Dead, OnlyItsOwn, alive' = alive, stopped' = stopped, sup' = sup,
         \A s \in sup.victims : author'[s] = author[s]
  PROVE  Dead' /\ OnlyItsOwn'
BY DEF Dead, OnlyItsOwn, Crashed

\* A step of one thread: none of the sources gets anything to read.
LEMMA SourcesKept ==
  ASSUME Sources, NEW p \in Proc, UNCHANGED <<routes, admin, sup>>,
         \A q \in Proc \ {p} : pc'[q] = pc[q] /\ todo'[q] = todo[q] /\ guards'[q] = guards[q],
         \A t \in MayDie : ~Holds(todo'[p], t) /\ queue'[t] = queue[t],
         p \in MayDie => guards'[p] = guards[p] /\ pc'[p] \notin Reading
  PROVE  Sources'
<1> SUFFICES ASSUME NEW t \in MayDie
             PROVE  /\ \A q \in Proc : ~Holds(routes'[q], t) /\ ~Holds(todo'[q], t)
                    /\ ~Holds(admin'.rest, t)
                    /\ \A r \in admin'.pending : ~Holds(r[2], t)
                    /\ queue'[t] = <<>> /\ guards'[t] = <<>> /\ pc'[t] \notin Reading
                    /\ sup'.at_queue = t => sup'.valid = <<>>
  BY DEF Sources, Holds
<1>1. t \in Proc
  BY RuntimeAssumption
<1>2. /\ \A q \in Proc : ~Holds(routes[q], t) /\ ~Holds(todo[q], t)
      /\ ~Holds(admin.rest, t)
      /\ \A r \in admin.pending : ~Holds(r[2], t)
      /\ queue[t] = <<>> /\ guards[t] = <<>> /\ pc[t] \notin Reading
      /\ sup.at_queue = t => sup.valid = <<>>
  BY DEF Sources
<1>3. guards'[t] = <<>> /\ pc'[t] \notin Reading
  BY <1>1, <1>2
<1>4. \A q \in Proc : ~Holds(todo'[q], t)
  BY <1>2
<1> QED BY <1>2, <1>3, <1>4

\* A step of one thread that neither holds the last read of s nor publishes s.
LEMMA LastKept ==
  ASSUME NEW s \in Sample, NEW p \in Proc, Last(s), Stored(s), stopped' = stopped, sup' = sup,
         \A q \in Proc \ {p} : pc'[q] = pc[q] /\ cur'[q] = cur[q],
         ~(cur[p] = s /\ pc[p] \in Releasing),
         SameRecord(s), s \in store' => s \in store
  PROVE  Last(s)' /\ Stored(s)'
<1>1. \A q \in Proc : cur[q] = s /\ pc[q] \in Releasing => cur'[q] = s /\ pc'[q] = pc[q]
  OBVIOUS
<1>2. Last(s)'
  BY <1>1 DEF Last, SameRecord, At, Releasing
<1>3. Stored(s)'
  BY <1>1 DEF Stored, SameRecord, At, Releasing
<1> QED BY <1>2, <1>3

LEMMA OfKept ==
  ASSUME NEW s \in Sample, OfVictim(s), OfTheDone(s), sup' = sup, author'[s] = author[s],
         s \in DOMAIN samples' => s \in DOMAIN samples,
         \A t \in Proc : Holds(queue'[t], s) => Holds(queue[t], s),
         s \in DOMAIN samples' \/ s \notin DOMAIN samples \/ ~Queued(s)
  PROVE  OfVictim(s)' /\ OfTheDone(s)'
<1>1. \A t \in Proc : Holds(queue[t], s)' => Holds(queue[t], s)
  BY DEF Holds
<1>2. Queued(s)' => Queued(s)
  BY <1>1 DEF Queued
<1>3. Swept' = Swept /\ Swept \subseteq Proc
  BY DEF Swept
<1>4. Holds(sup.valid, s)' <=> Holds(sup.valid, s)
  BY DEF Holds
<1>5. OfTheDone(s)'
  BY <1>2, <1>4 DEF OfTheDone
<1>6. OfVictim(s)'
  BY <1>1, <1>2, <1>3, <1>4 DEF OfVictim
<1> QED BY <1>5, <1>6

LEMMA CleaningKept ==
  ASSUME NEW s \in Sample, NEW p \in Proc, Cleaning(s), stopped' = stopped, sup' = sup,
         \A q \in Proc \ {p} : pc'[q] = pc[q] /\ cur'[q] = cur[q],
         ~(cur[p] = s /\ pc[p] \in Releasing),
         SameRecord(s), s \in store' => s \in store, author'[s] = author[s],
         \A t \in Proc : Holds(queue'[t], s) => Holds(queue[t], s)
  PROVE  Cleaning(s)'
<1>1. Last(s)' /\ Stored(s)'
  BY LastKept DEF Cleaning
<1>2. OfVictim(s)' /\ OfTheDone(s)'
  BY OfKept DEF Cleaning, SameRecord
<1> QED BY <1>1, <1>2 DEF Cleaning

\* What is not under way is not queued.
LEMMA NotQueued ==
  ASSUME Typed, NEW s \in Sample, Away(s) = 0
  PROVE  ~Queued(s)
<1>1. Places(queue, s) = {}
  BY AwayIsSomewhere
<1> QED BY <1>1, InPlaces DEF Typed, TypeOK, Holds, Queued

LEMMA LoanCleans ==
  ASSUME Typed, Account, Cleanup, NEW p \in Proc \ stopped, Loan(p)
  PROVE  Cleanup'
<1>1. /\ pc[p] = "idle" /\ pc' = [pc EXCEPT ![p] = "routes"] /\ nextSample <= MaxSamples
      /\ cur' = [cur EXCEPT ![p] = nextSample]
      /\ author' = [author EXCEPT ![nextSample] = p]
      /\ UNCHANGED <<routes, samples, alive, store, queue, todo, guards, stopped, sup, admin>>
  BY DEF Loan, Goto, At
<1>2. nextSample \in Sample /\ nextSample \in Nat
  BY <1>1, RuntimeAssumption DEF Typed, TypeOK, Sample
<1>3. /\ pc'[p] = "routes" /\ cur'[p] = nextSample /\ author'[nextSample] = p
      /\ \A q \in Proc \ {p} : pc'[q] = pc[q] /\ cur'[q] = cur[q]
      /\ \A s \in Sample \ {nextSample} : author'[s] = author[s]
  BY <1>1, <1>2 DEF Typed, TypeOK
<1>4. \A s \in Sample : s = nextSample => s \notin DOMAIN samples /\ s \notin sup.victims
  BY <1>2 DEF Account, Counts, Fresh
<1>5. sup.victims \subseteq Sample
  BY DEF Typed, Supervision
<1>6. Dead' /\ OnlyItsOwn'
  BY <1>1, <1>3, <1>4, <1>5, DeadKept DEF Cleanup
<1>7. Sources'
  BY <1>1, <1>3, RuntimeAssumption, SourcesKept DEF Cleanup, Sources, Reading
<1>8. Owing'
  BY <1>1, <1>3 DEF Cleanup, Owing, Serving
<1>9. ASSUME NEW s \in Sample
      PROVE  Cleaning(s)'
  <2>1. pc[p] \notin Releasing /\ SameRecord(s)
    BY <1>1 DEF Releasing, SameRecord
  <2>2. CASE s # nextSample
    BY <1>1, <1>3, <2>1, <2>2, CleaningKept DEF Cleanup
  <2>3. CASE s = nextSample
    <3>1. Last(s)' /\ Stored(s)'
      BY <1>1, <1>3, <2>1, LastKept DEF Cleanup, Cleaning
    <3>2. OfVictim(s)' /\ OfTheDone(s)'
      BY <1>1, <1>3, <1>6, <2>3, OfTheLiving
    <3> QED BY <3>1, <3>2 DEF Cleaning
  <2> QED BY <2>2, <2>3
<1> QED BY <1>6, <1>7, <1>8, <1>9 DEF Cleanup

\* A step of a thread in its publish; what it publishes is the sample in its hand.
LEMMA PublishCleans ==
  ASSUME Typed, Account, Cleanup, NEW p \in Proc \ stopped, pc[p] \in Publishing, NEW l \in Label,
         l \notin Reading, pc' = [pc EXCEPT ![p] = l], l \in Serving => todo'[p] # <<>>,
         UNCHANGED <<routes, alive, cur, author, guards, stopped, sup, admin>>,
         \A q \in Proc \ {p} : todo'[q] = todo[q],
         \A t \in MayDie : ~Holds(todo'[p], t) /\ queue'[t] = queue[t],
         \A s \in Sample \ {cur[p]} :
            /\ SameRecord(s) /\ (s \in store' => s \in store)
            /\ \A t \in Proc : Holds(queue'[t], s) => Holds(queue[t], s),
         \A s \in Sample : s = cur[p] => Last(s)' /\ Stored(s)'
  PROVE  Cleanup'
<1>1. cur[p] \in Sample /\ author[cur[p]] = p
  BY OwnSample
<1>2. pc'[p] = l /\ \A q \in Proc \ {p} : pc'[q] = pc[q]
  BY DEF Typed, TypeOK
<1>3. Dead' /\ OnlyItsOwn'
  BY DeadKept DEF Cleanup
<1>4. Sources'
  BY <1>2, SourcesKept DEF Cleanup
<1>5. Owing'
  BY <1>2 DEF Cleanup, Owing
<1>6. ASSUME NEW s \in Sample
      PROVE  Cleaning(s)'
  <2>1. CASE s # cur[p]
    BY <1>2, <2>1, CleaningKept DEF Cleanup
  <2>2. CASE s = cur[p]
    <3>1. author'[s] \in Proc \ stopped'
      BY <1>1, <2>2
    <3>2. OfVictim(s)' /\ OfTheDone(s)'
      BY <1>3, <3>1, OfTheLiving
    <3> QED BY <2>2, <3>2 DEF Cleaning
  <2> QED BY <2>1, <2>2
<1> QED BY <1>3, <1>4, <1>5, <1>6 DEF Cleanup

LEMMA GetRoutesCleans ==
  ASSUME Typed, Account, Cleanup, NEW p \in Proc \ stopped, GetRoutes(p)
  PROVE  Cleanup'
<1> DEFINE l == CASE routes[p] = <<>> -> "idle"
                  [] routes[p] # <<>> /\ Shared -> "insert"
                  [] OTHER -> "register"
<1>1. /\ pc[p] = "routes" /\ pc' = [pc EXCEPT ![p] = l]
      /\ todo' = [todo EXCEPT ![p] = routes[p]]
      /\ UNCHANGED <<routes, samples, alive, store, queue, cur, author, guards, stopped, sup, admin>>
  BY DEF GetRoutes, Goto, At, registryVars
<1>2. /\ todo'[p] = routes[p] /\ \A q \in Proc \ {p} : todo'[q] = todo[q]
      /\ l \in {"idle", "insert", "register"} /\ (l = "idle" <=> routes[p] = <<>>)
  BY <1>1 DEF Typed, TypeOK
<1> HIDE DEF l
<1>3. l \in Label /\ l \notin Reading /\ (l \in Serving => todo'[p] # <<>>) /\ pc[p] \in Publishing
  BY <1>1, <1>2 DEF Label, Reading, Serving, Publishing
<1>4. \A t \in MayDie : ~Holds(todo'[p], t)
  BY <1>2 DEF Cleanup, Sources
<1>5. ASSUME NEW s \in Sample
      PROVE  SameRecord(s)
  BY <1>1 DEF SameRecord
<1>6. ASSUME NEW s \in Sample, s = cur[p]
      PROVE  Last(s)' /\ Stored(s)'
  <2>1. pc[p] \notin Releasing
    BY <1>1 DEF Releasing
  <2>2. \A q \in Proc \ {p} : pc'[q] = pc[q] /\ cur'[q] = cur[q]
    BY <1>1 DEF Typed, TypeOK
  <2> QED BY <1>1, <1>5, <2>1, <2>2, LastKept DEF Cleanup, Cleaning
<1> QED BY <1>1, <1>2, <1>3, <1>4, <1>5, <1>6, PublishCleans

\* register: the record waits for one read per target.
LEMMA RegisterCleans ==
  ASSUME ~Shared, Typed, Account, Cleanup, NEW p \in Proc \ stopped, Register(p)
  PROVE  Cleanup'
<1>1. /\ pc[p] = "register" /\ pc' = [pc EXCEPT ![p] = "insert"]
      /\ samples' = [s \in DOMAIN samples \cup {cur[p]} |->
                       IF s = cur[p] THEN [owner |-> p, published |-> FALSE,
                                           expected |-> Len(todo[p]), completed |-> 0]
                                     ELSE samples[s]]
      /\ UNCHANGED <<routes, alive, store, queue, cur, todo, author, guards, stopped, sup, admin>>
  BY DEF Register, Goto, At, TableFull, Expected, historyVars
<1>2. "insert" \in Label /\ "insert" \notin Reading /\ pc[p] \in Publishing
  BY <1>1 DEF Label, Reading, Publishing
<1>3. todo[p] # <<>> /\ todo[p] \in Seq(Proc)
  BY <1>1 DEF Cleanup, Owing, Serving, Typed, TypeOK
<1>4. \A t \in MayDie : ~Holds(todo'[p], t)
  BY <1>1 DEF Cleanup, Sources
<1>5. ASSUME NEW s \in Sample, s # cur[p]
      PROVE  SameRecord(s)
  BY <1>1, <1>5 DEF SameRecord
<1>6. ASSUME NEW s \in Sample, s = cur[p]
      PROVE  Last(s)' /\ Stored(s)'
  <2>1. /\ s \in DOMAIN samples' /\ samples'[s].expected = Len(todo[p])
        /\ samples'[s].completed = 0
    BY <1>1, <1>6
  <2>2. 0 < Len(todo[p])
    BY <1>3
  <2> QED BY <2>1, <2>2 DEF Last, Stored
<1> QED BY <1>1, <1>2, <1>3, <1>4, <1>5, <1>6, PublishCleans

\* insert: the record is there, for a publisher that runs was not cleaned up after.
LEMMA InsertCleans ==
  ASSUME ~Shared, Typed, Account, Cleanup, NEW p \in Proc \ stopped, InsertValue(p)
  PROVE  Cleanup'
<1>1. /\ pc[p] = "insert" /\ pc' = [pc EXCEPT ![p] = "mark"] /\ store' = store \cup {cur[p]}
      /\ UNCHANGED <<routes, samples, alive, queue, cur, todo, author, guards, stopped, sup, admin>>
  BY DEF InsertValue, Goto, At, historyVars, registryVars
<1>2. "mark" \in Label /\ "mark" \notin Reading /\ pc[p] \in Publishing
  BY <1>1 DEF Label, Reading, Publishing
<1>3. todo[p] # <<>> /\ todo[p] \in Seq(Proc)
  BY <1>1 DEF Cleanup, Owing, Serving, Typed, TypeOK
<1>4. \A t \in MayDie : ~Holds(todo'[p], t)
  BY <1>1 DEF Cleanup, Sources
<1>5. ASSUME NEW s \in Sample
      PROVE  SameRecord(s)
  BY <1>1 DEF SameRecord
<1>6. ASSUME NEW s \in Sample, s = cur[p]
      PROVE  Last(s)' /\ Stored(s)'
  <2>1. author[s] = p /\ Counts(s)
    BY <1>2, <1>6, OwnSample DEF Account
  <2>2. ~Stage(s, {"routes", "register"}) /\ s < nextSample
    BY <1>1, <1>6, <2>1 DEF Stage, Counts, Loaned
  <2>3. Unsent(s) + Away(s) # 0
    <3>1. Unsent(s) = Len(todo[p]) /\ Len(todo[p]) > 0
      BY <1>3, <1>6, <2>1 DEF Unsent
    <3> QED BY <3>1, CountsAreNaturals
  <2>4. author[s] \notin Crashed
    BY <2>1, Living DEF Cleanup
  <2>5. s \in DOMAIN samples
    BY <2>1, <2>2, <2>3, <2>4 DEF Counts, Settled
  <2>6. \A q \in Proc : pc[q] \in Releasing => pc'[q] = pc[q]
    BY <1>1 DEF Typed, TypeOK, Releasing
  <2>7. Last(s)
    BY DEF Cleanup, Cleaning
  <2>8. Last(s)'
    BY <1>1, <2>6, <2>7 DEF Last, At, Releasing
  <2> QED BY <1>1, <2>5, <2>8 DEF Stored
<1> QED BY <1>1, <1>2, <1>3, <1>4, <1>5, <1>6, PublishCleans

LEMMA MarkCleans ==
  ASSUME ~Shared, Typed, Account, Cleanup, NEW p \in Proc \ stopped, MarkPublished(p)
  PROVE  Cleanup'
<1>1. /\ pc[p] = "mark" /\ pc' = [pc EXCEPT ![p] = "push"]
      /\ samples' = IF cur[p] \in DOMAIN samples THEN WithPublished(cur[p]) ELSE samples
      /\ UNCHANGED <<routes, store, alive, queue, cur, todo, author, guards, stopped, sup, admin>>
  BY DEF MarkPublished, Goto, At, historyVars
<1>2. "push" \in Label /\ "push" \notin Reading /\ pc[p] \in Publishing
  BY <1>1 DEF Label, Reading, Publishing
<1>3. todo[p] # <<>>
  BY <1>1 DEF Cleanup, Owing, Serving
<1>4. \A t \in MayDie : ~Holds(todo'[p], t)
  BY <1>1 DEF Cleanup, Sources
<1>5. ASSUME NEW s \in Sample
      PROVE  SameRecord(s)
  <2>1. CASE cur[p] \in DOMAIN samples
    <3> DEFINE r == WithPublished(cur[p])
               c == cur[p]
    <3>1. /\ DOMAIN r = DOMAIN samples /\ \A t \in DOMAIN samples \ {c} : r[t] = samples[t]
          /\ r[c] = [owner |-> samples[c].owner, published |-> TRUE,
                     expected |-> samples[c].expected, completed |-> samples[c].completed]
      <4>1. TypeOK
        BY DEF Typed
      <4> QED BY <2>1, <4>1, RecordSteps
    <3>2. samples' = r
      BY <1>1, <2>1
    <3> HIDE DEF r, c
    <3>3. s # c => SameRecord(s)
      BY <1>1, <3>1, <3>2 DEF SameRecord
    <3>4. s = c => SameRecord(s)
      BY <1>1, <3>1, <3>2 DEF SameRecord
    <3> QED BY <3>3, <3>4
  <2>2. CASE cur[p] \notin DOMAIN samples
    BY <1>1, <2>2 DEF SameRecord
  <2> QED BY <2>1, <2>2
<1>6. ASSUME NEW s \in Sample, s = cur[p]
      PROVE  Last(s)' /\ Stored(s)'
  <2>1. pc[p] \notin Releasing
    BY <1>1 DEF Releasing
  <2>2. \A q \in Proc \ {p} : pc'[q] = pc[q] /\ cur'[q] = cur[q]
    BY <1>1 DEF Typed, TypeOK
  <2> QED BY <1>1, <1>5, <2>1, <2>2, LastKept DEF Cleanup, Cleaning
<1> QED BY <1>1, <1>2, <1>3, <1>4, <1>5, <1>6, PublishCleans

\* push: no target may die.
LEMMA PushCleans ==
  ASSUME Typed, Account, Cleanup, NEW p \in Proc \ stopped, PushDescriptor(p)
  PROVE  Cleanup'
<1> DEFINE c == Head(todo[p])
           l == IF Len(todo[p]) = 1 THEN "idle" ELSE "push"
<1>1. /\ pc[p] = "push" /\ todo[p] # <<>> /\ pc' = [pc EXCEPT ![p] = l]
      /\ queue' = [queue EXCEPT ![c] = Append(@, cur[p])]
      /\ todo' = [todo EXCEPT ![p] = Tail(@)]
      /\ UNCHANGED <<routes, samples, store, alive, cur, author, guards, stopped, sup, admin>>
  BY DEF PushDescriptor, Goto, At, registryVars, historyVars
<1>2. cur[p] \in Sample /\ author[cur[p]] = p
  BY <1>1, OwnSample DEF Publishing
<1>3. todo[p] \in Seq(Proc) /\ c \in Proc /\ queue[c] \in Seq(Sample)
  <2>1. todo[p] \in Seq(Proc)
    BY DEF Typed, TypeOK
  <2>2. c \in Proc
    BY <1>1, <2>1, TailSeq
  <2> QED BY <2>1, <2>2 DEF Typed, TypeOK
<1>4. \A t \in Proc : Holds(todo[p], t) <=> Holds(Tail(todo[p]), t) \/ t = c
  BY <1>1, <1>3, HoldsTail
<1>5. l = "push" => Tail(todo[p]) # <<>>
  <2>1. Len(todo[p]) \in Nat \ {0} /\ Len(Tail(todo[p])) = Len(todo[p]) - 1
    BY <1>1, <1>3, TailSeq
  <2>2. l = "push" => Len(Tail(todo[p])) # 0
    BY <2>1
  <2> QED BY <2>2
<1>6. l \in {"idle", "push"}
  OBVIOUS
<1> HIDE DEF c, l
<1>7. \A s : Holds(Append(queue[c], cur[p]), s) <=> Holds(queue[c], s) \/ s = cur[p]
  BY <1>2, <1>3, HoldsAppend
<1>8. /\ todo'[p] = Tail(todo[p])
      /\ \A q \in Proc \ {p} : todo'[q] = todo[q]
      /\ queue'[c] = Append(queue[c], cur[p])
      /\ \A t \in Proc \ {c} : queue'[t] = queue[t]
  BY <1>1, <1>3 DEF Typed, TypeOK
<1>9. l \in Label /\ l \notin Reading /\ (l \in Serving => todo'[p] # <<>>) /\ pc[p] \in Publishing
  BY <1>1, <1>5, <1>6, <1>8 DEF Label, Reading, Serving, Publishing
<1>10. \A t \in MayDie : t \in Proc /\ ~Holds(todo[p], t)
  BY RuntimeAssumption DEF Cleanup, Sources
<1>11. \A t \in MayDie : ~Holds(todo'[p], t) /\ queue'[t] = queue[t]
  BY <1>4, <1>8, <1>10
<1>12. ASSUME NEW s \in Sample
       PROVE  SameRecord(s)
  BY <1>1 DEF SameRecord
<1>13. \A s \in Sample \ {cur[p]} : \A t \in Proc : Holds(queue'[t], s) => Holds(queue[t], s)
  BY <1>7, <1>8
<1>14. ASSUME NEW s \in Sample, s = cur[p]
       PROVE  Last(s)' /\ Stored(s)'
  <2>1. pc[p] \notin Releasing
    BY <1>1 DEF Releasing
  <2>2. \A q \in Proc \ {p} : pc'[q] = pc[q] /\ cur'[q] = cur[q]
    BY <1>1 DEF Typed, TypeOK
  <2> QED BY <1>1, <1>12, <2>1, <2>2, LastKept DEF Cleanup, Cleaning
<1> QED BY <1>1, <1>8, <1>9, <1>11, <1>12, <1>13, <1>14, PublishCleans

\* recv: nobody pops from under the drain what is not his.
LEMMA PopCleans ==
  ASSUME Typed, Account, Cleanup, NEW p \in Proc \ stopped, Pop(p)
  PROVE  Cleanup'
<1>1. /\ pc[p] = "idle" /\ queue[p] # <<>> /\ pc' = [pc EXCEPT ![p] = "lookup"]
      /\ queue' = [queue EXCEPT ![p] = Tail(@)]
      /\ \A q \in Proc \ {p} : cur'[q] = cur[q]
      /\ UNCHANGED <<routes, samples, store, alive, todo, author, guards, stopped, sup, admin>>
  BY DEF Pop, Goto, At, registryVars, historyVars, Typed, TypeOK
<1>2. queue[p] \in Seq(Sample)
  BY DEF Typed, TypeOK
<1>3. /\ pc'[p] = "lookup" /\ queue'[p] = Tail(queue[p])
      /\ \A q \in Proc \ {p} : queue'[q] = queue[q] /\ pc'[q] = pc[q]
  BY <1>1 DEF Typed, TypeOK
<1>4. \A s : \A t \in Proc : Holds(queue'[t], s) => Holds(queue[t], s)
  <2>1. \A s : Holds(Tail(queue[p]), s) => Holds(queue[p], s)
    BY <1>1, <1>2, HoldsTail
  <2> QED BY <1>3, <2>1
<1>5. p \notin MayDie /\ \A t \in MayDie : t \in Proc /\ ~Holds(todo[p], t)
  BY <1>1, RuntimeAssumption DEF Cleanup, Sources
<1>6. Dead' /\ OnlyItsOwn'
  BY <1>1, DeadKept DEF Cleanup
<1>7. Sources'
  BY <1>1, <1>3, <1>5, SourcesKept DEF Cleanup
<1>8. Owing'
  BY <1>1, <1>3 DEF Cleanup, Owing, Serving
<1>9. ASSUME NEW s \in Sample
      PROVE  Cleaning(s)'
  <2>1. pc[p] \notin Releasing /\ SameRecord(s)
    BY <1>1 DEF Releasing, SameRecord
  <2> QED BY <1>1, <1>3, <1>4, <2>1, CleaningKept DEF Cleanup
<1> QED BY <1>6, <1>7, <1>8, <1>9 DEF Cleanup

LEMMA LookupCleans ==
  ASSUME ~Shared, Typed, Account, Cleanup, NEW p \in Proc \ stopped, Lookup(p)
  PROVE  Cleanup'
<1>1. /\ pc[p] = "lookup" /\ pc' = [pc EXCEPT ![p] = "idle"]
      /\ \A q \in Proc \ {p} : guards'[q] = guards[q]
      /\ UNCHANGED <<routes, samples, store, queue, cur, alive, todo, author, stopped, sup, admin>>
  BY DEF Lookup, Goto, At, registryVars, Typed, TypeOK
<1>2. pc'[p] = "idle" /\ \A q \in Proc \ {p} : pc'[q] = pc[q]
  BY <1>1 DEF Typed, TypeOK
<1>3. p \notin MayDie /\ \A t \in MayDie : t \in Proc /\ ~Holds(todo[p], t)
  BY <1>1, RuntimeAssumption DEF Cleanup, Sources, Reading
<1>4. Dead' /\ OnlyItsOwn'
  BY <1>1, DeadKept DEF Cleanup
<1>5. Sources'
  BY <1>1, <1>2, <1>3, SourcesKept DEF Cleanup
<1>6. Owing'
  BY <1>1, <1>2 DEF Cleanup, Owing, Serving
<1>7. ASSUME NEW s \in Sample
      PROVE  Cleaning(s)'
  <2>1. pc[p] \notin Releasing /\ SameRecord(s)
    BY <1>1 DEF Releasing, SameRecord
  <2> QED BY <1>1, <1>2, <2>1, CleaningKept DEF Cleanup
<1> QED BY <1>4, <1>5, <1>6, <1>7 DEF Cleanup

\* The drop of a guard completes a read; the last one takes the record in hand.
LEMMA DropCleans ==
  ASSUME Typed, Account, Cleanup, NEW p \in Proc \ stopped, DropGuard(p)
  PROVE  Cleanup'
<1>1. PICK i \in 1 .. Len(guards[p]) :
        LET s == guards[p][i] IN
        /\ guards' = [guards EXCEPT ![p] = RemoveIndex(@, i)]
        /\ cur' = [cur EXCEPT ![p] = s]
        /\ IF s \in DOMAIN samples
             THEN /\ samples' = WithRead(s)
                  /\ Goto(p, IF AllRead(samples[s]) THEN "reclaim" ELSE "idle")
             ELSE UNCHANGED <<samples, pc>>
  BY DEF DropGuard
<1> DEFINE x == guards[p][i]
<1>2. /\ pc[p] = "idle"
      /\ UNCHANGED <<routes, alive, store, queue, todo, author, stopped, sup, admin>>
  BY DEF DropGuard, At, historyVars
<1>3. guards[p] \in Seq(Sample) /\ x \in Sample /\ guards[p] # <<>>
  BY DEF Typed, TypeOK
<1>4. p \notin MayDie /\ \A t \in MayDie : t \in Proc /\ ~Holds(todo[p], t)
  BY <1>3, RuntimeAssumption DEF Cleanup, Sources
<1>5. cur'[p] = x /\ \A q \in Proc \ {p} : cur'[q] = cur[q] /\ guards'[q] = guards[q]
  BY <1>1 DEF Typed, TypeOK
<1>6. /\ x \in DOMAIN samples => /\ samples' = WithRead(x)
                                 /\ pc' = [pc EXCEPT ![p] = IF AllRead(samples[x]) THEN "reclaim" ELSE "idle"]
      /\ x \notin DOMAIN samples => samples' = samples /\ pc' = pc
  BY <1>1 DEF Goto
<1> HIDE DEF x
<1>7. /\ \A q \in Proc \ {p} : pc'[q] = pc[q]
      /\ pc'[p] \in {"idle", "reclaim"}
      /\ x \in DOMAIN samples => pc'[p] = IF AllRead(samples[x]) THEN "reclaim" ELSE "idle"
  BY <1>2, <1>6 DEF Typed, TypeOK
<1>8. Dead' /\ OnlyItsOwn'
  BY <1>2, DeadKept DEF Cleanup
<1>9. Sources'
  BY <1>2, <1>4, <1>5, <1>7, SourcesKept DEF Cleanup
<1>10. Owing'
  BY <1>2, <1>7 DEF Cleanup, Owing, Serving
<1>11. pc[p] \notin Releasing
  BY <1>2 DEF Releasing
<1>12. x \in DOMAIN samples =>
         /\ DOMAIN samples' = DOMAIN samples
         /\ \A t \in DOMAIN samples \ {x} : samples'[t] = samples[t]
         /\ samples'[x] = [owner |-> samples[x].owner, published |-> samples[x].published,
                           expected |-> samples[x].expected,
                           completed |-> samples[x].completed + 1]
  <2>1. TypeOK
    BY DEF Typed
  <2> SUFFICES ASSUME x \in DOMAIN samples
               PROVE  /\ DOMAIN samples' = DOMAIN samples
                      /\ \A t \in DOMAIN samples \ {x} : samples'[t] = samples[t]
                      /\ samples'[x] = [owner |-> samples[x].owner,
                                        published |-> samples[x].published,
                                        expected |-> samples[x].expected,
                                        completed |-> samples[x].completed + 1]
    OBVIOUS
  <2>2. samples' = WithRead(x)
    BY <1>6
  <2> QED BY <2>1, <2>2, RecordSteps
<1>13. ASSUME NEW s \in Sample, s # x \/ x \notin DOMAIN samples
       PROVE  Cleaning(s)'
  <2>1. SameRecord(s)
    BY <1>2, <1>6, <1>12, <1>13 DEF SameRecord
  <2> QED BY <1>2, <1>5, <1>7, <1>11, <2>1, CleaningKept DEF Cleanup
<1>14. ASSUME NEW s \in Sample, s = x, x \in DOMAIN samples
       PROVE  Cleaning(s)'
  <2>1. OfVictim(s)' /\ OfTheDone(s)'
    BY <1>2, <1>12, <1>14, OfKept DEF Cleanup, Cleaning
  <2>2. Stored(s)'
    BY <1>12, <1>14 DEF Stored
  <2>3. samples[s].completed \in Nat /\ samples[s].expected \in Nat
    BY <1>14 DEF Typed, TypeOK, SampleRecord
  <2>4. CASE AllRead(samples[s])
    <3>1. pc'[p] = "reclaim" /\ cur'[p] = s /\ p \in Proc \ stopped'
      BY <1>2, <1>5, <1>7, <1>14, <2>4
    <3> QED BY <2>1, <2>2, <3>1 DEF Cleaning, Last, At
  <2>5. CASE ~AllRead(samples[s])
    <3>1. samples[s].completed + 1 < samples[s].expected
      BY <2>3, <2>5 DEF AllRead
    <3>2. samples'[s].completed < samples'[s].expected
      BY <1>12, <1>14, <3>1
    <3> QED BY <2>1, <2>2, <3>2 DEF Cleaning, Last
  <2> QED BY <2>4, <2>5
<1> QED BY <1>8, <1>9, <1>10, <1>13, <1>14 DEF Cleanup

\* The last reader takes the record away: no descriptor is left of it.
LEMMA ReclaimCleans ==
  ASSUME Typed, Account, Cleanup, NEW p \in Proc \ stopped, Reclaim(p) \/ RemoveValue(p)
  PROVE  Cleanup'
<1>1. /\ pc[p] \in Releasing
      /\ \/ /\ At(p, "reclaim") /\ pc' = [pc EXCEPT ![p] = "remove"]
            /\ samples' = Without(samples, cur[p]) /\ store' = store
         \/ /\ At(p, "remove") /\ pc' = [pc EXCEPT ![p] = "idle"]
            /\ store' = store \ {cur[p]} /\ samples' = samples
      /\ UNCHANGED <<routes, alive, queue, cur, todo, author, guards, stopped, sup, admin>>
  BY DEF Reclaim, RemoveValue, At, Goto, Releasing, historyVars, registryVars
<1>2. cur[p] \in Sample
  BY <1>1 DEF Typed, InHandOf, At, Releasing
<1>3. p \notin MayDie /\ \A t \in MayDie : t \in Proc /\ ~Holds(todo[p], t)
  BY <1>1, RuntimeAssumption DEF Cleanup, Sources, Reading, Releasing
<1>4. /\ \A q \in Proc \ {p} : pc'[q] = pc[q]
      /\ pc'[p] \in {"idle", "remove"} /\ (At(p, "reclaim") => pc'[p] = "remove")
  BY <1>1 DEF Typed, TypeOK, At
<1>5. Dead' /\ OnlyItsOwn'
  BY <1>1, DeadKept DEF Cleanup
<1>6. Sources'
  BY <1>1, <1>3, <1>4, SourcesKept DEF Cleanup
<1>7. Owing'
  BY <1>1, <1>4 DEF Cleanup, Owing, Serving
<1>8. ASSUME NEW s \in Sample, s # cur[p]
      PROVE  Cleaning(s)'
  <2>1. SameRecord(s)
    BY <1>1, <1>8 DEF SameRecord, Without
  <2> QED BY <1>1, <1>4, <1>8, <2>1, CleaningKept DEF Cleanup
<1>9. ASSUME NEW s \in Sample, s = cur[p]
      PROVE  Cleaning(s)'
  <2>1. Unsent(s) + Away(s) = 0 /\ (At(p, "remove") => s \notin DOMAIN samples)
    BY <1>1, <1>9 DEF Account, Counts, Released
  <2>2. Away(s) = 0
    BY <2>1, CountsAreNaturals
  <2>3. ~Queued(s)
    BY <2>2, NotQueued
  <2>4. s \notin DOMAIN samples' /\ DOMAIN samples' \subseteq DOMAIN samples
    BY <1>1, <1>9, <2>1 DEF Without
  <2>5. OfVictim(s)' /\ OfTheDone(s)'
    BY <1>1, <2>3, <2>4, OfKept DEF Cleanup, Cleaning
  <2>6. Last(s)'
    BY <2>4 DEF Last
  <2>7. Stored(s)'
    <3>1. CASE At(p, "reclaim")
      BY <1>1, <1>4, <1>9, <3>1 DEF Stored, At
    <3>2. CASE At(p, "remove")
      BY <1>1, <1>9, <3>2 DEF Stored, At
    <3> QED BY <1>1, <3>1, <3>2
  <2> QED BY <2>5, <2>6, <2>7 DEF Cleaning
<1> QED BY <1>5, <1>6, <1>7, <1>8, <1>9 DEF Cleanup

\* A source dies: it had no record in hand.
LEMMA DieCleans ==
  ASSUME Typed, Cleanup, NEW p \in Proc, Die(p)
  PROVE  Cleanup'
<1>1. /\ p \in MayDie /\ stopped' = stopped \cup {p}
      /\ UNCHANGED <<routes, samples, alive, store, queue, pc, cur, todo, guards, sup, admin, author>>
  BY DEF Die, registryVars, historyVars
<1>2. Sources' /\ Owing' /\ OnlyItsOwn' /\ Dead'
  BY <1>1 DEF Cleanup, Sources, Owing, OnlyItsOwn, Dead, Crashed, Holds
<1>3. pc[p] \notin Reading
  BY <1>1 DEF Cleanup, Sources
<1>4. ASSUME NEW s \in Sample
      PROVE  Cleaning(s)'
  <2>1. Cleaning(s)
    BY DEF Cleanup
  <2>2. \A q \in Proc \ stopped : pc[q] \in Releasing => q \in Proc \ stopped'
    BY <1>1, <1>3 DEF Reading, Releasing
  <2>3. Last(s)' /\ Stored(s)'
    BY <1>1, <2>1, <2>2 DEF Cleaning, Last, Stored, At, Releasing
  <2>4. OfVictim(s)' /\ OfTheDone(s)'
    BY <1>1, <2>1, OfKept DEF Cleaning
  <2> QED BY <2>3, <2>4 DEF Cleaning
<1> QED BY <1>2, <1>4 DEF Cleanup

\* crash_process: what the victim has published and is not recorded is in no queue.
LEMMA CrashCleans ==
  ASSUME MayBeCrashed = {}, Typed, Account, Cleanup, NEW p \in Proc, CrashProcess(p)
  PROVE  Cleanup'
<1>1. /\ sup.at = "idle" /\ alive[p] /\ p \in stopped
      /\ alive' = [alive EXCEPT ![p] = FALSE]
      /\ sup' = [sup EXCEPT !.at = "orphans", !.victim = p]
      /\ UNCHANGED <<routes, samples, stopped, store, queue, pc, cur, todo, guards, admin, author>>
  BY DEF CrashProcess, threadVars, historyVars
<1>2. /\ sup'.at = "orphans" /\ sup'.victim = p /\ sup'.valid = sup.valid /\ sup'.done = sup.done
      /\ sup'.victims = sup.victims /\ sup'.at_queue = sup.at_queue
  BY <1>1 DEF Typed, Supervision
<1>3. Crashed' = Crashed \cup {p} /\ p \notin Crashed
  BY <1>1 DEF Crashed, Typed, TypeOK
<1>4. Dead'
  BY <1>1, <1>2, <1>3 DEF Cleanup, Dead
<1>5. Sources' /\ Owing' /\ OnlyItsOwn'
  BY <1>1, <1>2 DEF Cleanup, Sources, Owing, OnlyItsOwn, Holds
<1>6. ASSUME NEW s \in Sample
      PROVE  Cleaning(s)'
  <2>1. Cleaning(s) /\ Counts(s)
    BY DEF Cleanup, Account
  <2>2. Last(s)' /\ Stored(s)'
    BY <1>1, <2>1 DEF Cleaning, Last, Stored, At
  <2>3. Queued(s)' <=> Queued(s)
    BY <1>1 DEF Queued, Holds
  <2>4. OfTheDone(s)'
    BY <1>1, <1>2, <2>1, <2>3 DEF Cleaning, OfTheDone, Holds
  <2>5. author[s] = p /\ s \notin DOMAIN samples => ~Queued(s)
    <3> SUFFICES ASSUME author[s] = p, s \notin DOMAIN samples PROVE Away(s) = 0
      BY NotQueued
    <3>1. s < nextSample
      BY <2>1 DEF Counts, Loaned
    <3>2. CASE Stage(s, {"routes", "register", "insert", "mark"})
      BY <2>1, <3>2 DEF Counts, Unpublished
    <3>3. CASE ~Stage(s, {"routes", "register", "insert", "mark"})
      <4>1. ~Stage(s, {"routes", "register"})
        BY <3>3 DEF Stage
      <4>2. Unsent(s) + Away(s) = 0
        BY <1>3, <2>1, <3>1, <4>1 DEF Counts, Settled
      <4> QED BY <4>2, CountsAreNaturals
    <3> QED BY <3>2, <3>3
  <2>6. OfVictim(s)'
    BY <1>1, <1>2, <2>3, <2>5 DEF OfVictim
  <2> QED BY <2>2, <2>4, <2>6 DEF Cleaning
<1> QED BY <1>4, <1>5, <1>6 DEF Cleanup

\* The supervisor takes the records of its victim, and with them hold of whatever
\* of it is queued.
LEMMA ReclaimOrphansCleans ==
  ASSUME ~Shared, Typed, Account, Cleanup, ReclaimOrphans
  PROVE  Cleanup'
<1> DEFINE orphans == Orphans(sup.victim)
<1>1. /\ sup.at = "orphans" /\ samples' = [s \in DOMAIN samples \ orphans |-> samples[s]]
      /\ sup' = [sup EXCEPT !.at = "remove", !.victims = orphans, !.left = orphans]
      /\ UNCHANGED <<routes, alive, stopped, store, queue, pc, cur, todo, guards, admin, author>>
  BY DEF ReclaimOrphans, threadVars, historyVars
<1>2. \A s \in Sample : s \in orphans <=> s \in DOMAIN samples /\ author[s] = sup.victim
  BY DEF Orphans, Account, Counts, Recorded
<1>3. orphans \subseteq Sample
  BY DEF Orphans, Typed, TypeOK
<1> HIDE DEF orphans
<1>4. /\ sup'.at = "remove" /\ sup'.victim = sup.victim /\ sup'.valid = sup.valid
      /\ sup'.done = sup.done /\ sup'.victims = orphans /\ sup'.left = orphans
      /\ sup'.at_queue = sup.at_queue
  BY <1>1 DEF Typed, Supervision
<1>5. sup.valid = <<>>
  BY <1>1 DEF Typed, Supervision
<1>6. Sources' /\ Owing' /\ OnlyItsOwn' /\ Dead'
  BY <1>1, <1>2, <1>3, <1>4 DEF Cleanup, Sources, Owing, OnlyItsOwn, Dead, Crashed, Holds
<1>7. ASSUME NEW s \in Sample
      PROVE  Cleaning(s)'
  <2>1. Cleaning(s)
    BY DEF Cleanup
  <2>2. s \in DOMAIN samples' <=> s \in DOMAIN samples /\ s \notin orphans
    BY <1>1
  <2>3. Last(s)'
    BY <1>1, <2>1, <2>2 DEF Cleaning, Last, At
  <2>4. Stored(s)'
    BY <1>1, <1>4, <2>1, <2>2 DEF Cleaning, Stored, At
  <2>5. Queued(s)' <=> Queued(s)
    BY <1>1 DEF Queued, Holds
  <2>6. ~Holds(sup.valid, s)'
    BY <1>4, <1>5 DEF Holds
  <2>7. OfTheDone(s)'
    BY <1>1, <1>4, <2>1, <2>2, <2>5, <2>6 DEF Cleaning, OfTheDone
  <2>8. Swept' = {}
    BY <1>4 DEF Swept
  <2>9. OfVictim(s)'
    BY <1>1, <1>2, <1>4, <2>1, <2>2, <2>5, <2>6, <2>8 DEF Cleaning, OfVictim
  <2> QED BY <2>3, <2>4, <2>7, <2>9 DEF Cleaning
<1> QED BY <1>6, <1>7 DEF Cleanup

\* A step of the supervisor that touches neither records nor descriptors.
LEMMA SweepCleans ==
  ASSUME Typed, Cleanup, sup.at \notin {"idle", "orphans"}, sup'.at \notin {"idle", "orphans"},
         UNCHANGED <<routes, samples, alive, stopped, queue, pc, cur, todo, guards, admin, author>>,
         sup'.victim = sup.victim, sup'.victims = sup.victims, sup'.valid = sup.valid,
         sup'.done = sup.done, sup'.at_queue = sup.at_queue \/ sup.valid = <<>>,
         \A s \in Sample :
           /\ s \in store' /\ sup.at = "remove" /\ s \in sup.left
                => s \in store /\ sup'.at = "remove" /\ s \in sup'.left
           /\ s \in store' => s \in store
           /\ author[s] = sup.victim => \A t \in Swept' : t \in Swept \/ ~Holds(queue[t], s)
  PROVE  Cleanup'
<1>1. sup.valid = <<>> => \A s : ~Holds(sup.valid, s)
  BY DEF Holds
<1>2. Sources' /\ Owing' /\ OnlyItsOwn' /\ Dead'
  BY <1>1 DEF Cleanup, Sources, Owing, OnlyItsOwn, Dead, Crashed, Holds
<1>3. ASSUME NEW s \in Sample
      PROVE  Cleaning(s)'
  <2>1. Cleaning(s)
    BY DEF Cleanup
  <2>2. Last(s)' /\ Stored(s)'
    BY <2>1 DEF Cleaning, Last, Stored, At
  <2>3. (Queued(s)' <=> Queued(s)) /\ (Holds(sup.valid, s)' <=> Holds(sup.valid, s))
    BY DEF Queued, Holds
  <2>4. OfTheDone(s)'
    BY <2>1, <2>3 DEF Cleaning, OfTheDone
  <2>5. \A t : Holds(queue[t], s)' <=> Holds(queue'[t], s)
    BY DEF Holds
  <2>6. author[s] = sup.victim => \A t \in Swept' : ~Holds(queue'[t], s)
    BY <2>1 DEF Cleaning, OfVictim
  <2>7. OfVictim(s)'
    <3> SUFFICES ASSUME author[s] = sup.victim
                 PROVE  /\ s \notin DOMAIN samples'
                        /\ Queued(s)' => s \in sup'.victims
                        /\ ~Holds(sup.valid, s)'
                        /\ \A t \in Swept' : ~Holds(queue'[t], s)
      BY <2>5 DEF OfVictim, Holds
    <3> QED BY <2>1, <2>3, <2>6 DEF Cleaning, OfVictim
  <2> QED BY <2>2, <2>4, <2>7 DEF Cleaning
<1> QED BY <1>2, <1>3 DEF Cleanup

LEMMA DrainCleans ==
  ASSUME Typed, Account, Cleanup, RemoveOrphan \/ StartDrain \/ DrainQueue
  PROVE  Cleanup'
<1> USE DEF registryVars, threadVars, historyVars
<1>1. UNCHANGED <<routes, samples, alive, stopped, queue, pc, cur, todo, guards, admin, author>>
  BY DEF RemoveOrphan, StartDrain, DrainQueue
<1>2. CASE RemoveOrphan
  <2>1. PICK s \in sup.left : store' = store \ {s} /\ sup' = [sup EXCEPT !.left = @ \ {s}]
    BY <1>2 DEF RemoveOrphan
  <2>2. /\ sup.at = "remove" /\ sup'.at = "remove" /\ sup'.left = sup.left \ {s}
        /\ sup'.victim = sup.victim /\ sup'.victims = sup.victims /\ sup'.valid = sup.valid
        /\ sup'.done = sup.done /\ sup'.at_queue = sup.at_queue
    BY <1>2, <2>1 DEF RemoveOrphan, Typed, Supervision
  <2>3. Swept' = {}
    BY <2>2 DEF Swept
  <2> QED BY <1>1, <2>1, <2>2, <2>3, SweepCleans
<1>3. CASE StartDrain
  <2>1. /\ sup.at = "remove" /\ sup.left = {} /\ sup'.at = "next" /\ store' = store
        /\ sup'.left = IF sup.victims = {} THEN {} ELSE Proc
        /\ sup'.victim = sup.victim /\ sup'.victims = sup.victims /\ sup'.valid = sup.valid
        /\ sup'.done = sup.done /\ sup'.at_queue = sup.at_queue
    BY <1>3 DEF StartDrain, Typed, Supervision
  <2>2. Swept' \subseteq Proc /\ (sup.victims # {} => Swept' = {})
    BY <2>1 DEF Swept
  <2>3. ASSUME NEW s \in Sample, author[s] = sup.victim, NEW t \in Swept'
        PROVE  ~Holds(queue[t], s)
    <3>1. sup.victims = {} /\ t \in Proc
      BY <2>2, <2>3
    <3>2. Queued(s) => s \in sup.victims
      BY <2>1, <2>3 DEF Cleanup, Cleaning, OfVictim
    <3> QED BY <3>1, <3>2 DEF Queued
  <2> QED BY <1>1, <2>1, <2>3, SweepCleans
<1>4. CASE DrainQueue
  <2>1. PICK q \in sup.left : sup' = [sup EXCEPT !.at = "pop", !.at_queue = q, !.left = @ \ {q}]
    BY <1>4 DEF DrainQueue
  <2>2. /\ sup.at = "next" /\ sup'.at = "pop" /\ sup'.left = sup.left \ {q} /\ store' = store
        /\ sup'.victim = sup.victim /\ sup'.victims = sup.victims /\ sup'.valid = sup.valid
        /\ sup'.done = sup.done /\ sup'.at_queue = q /\ sup.valid = <<>>
    BY <1>4, <2>1 DEF DrainQueue, Typed, Supervision
  <2>3. Swept' = Swept
    BY <2>1, <2>2 DEF Swept
  <2> QED BY <1>1, <2>2, <2>3, SweepCleans
<1> QED BY <1>2, <1>3, <1>4

\* The drain moves a descriptor: nothing is put aside or back that is the victim's.
LEMMA MovesClean ==
  ASSUME Typed, Cleanup, sup.at \in {"pop", "putback"},
         UNCHANGED <<routes, samples, store, alive, stopped, pc, cur, todo, guards, admin, author>>,
         sup'.at = sup.at, sup'.left = sup.left, sup'.victim = sup.victim,
         sup'.victims = sup.victims, sup'.done = sup.done, sup'.at_queue = sup.at_queue,
         NEW x \in Sample, author[x] # sup.victim, author[x] \notin sup.done,
         sup.at_queue \notin MayDie,
         \A s \in Sample \ {x} : /\ \A t \in Proc : Holds(queue'[t], s) => Holds(queue[t], s)
                                 /\ Holds(sup'.valid, s) => Holds(sup.valid, s),
         \A t \in Proc \ {sup.at_queue} : queue'[t] = queue[t]
  PROVE  Cleanup'
<1>1. Owing' /\ OnlyItsOwn' /\ Dead'
  BY DEF Cleanup, Owing, OnlyItsOwn, Dead, Crashed
<1>2. Sources'
  BY RuntimeAssumption DEF Cleanup, Sources, Holds
<1>3. ASSUME NEW s \in Sample
      PROVE  Cleaning(s)'
  <2>1. Cleaning(s)
    BY DEF Cleanup
  <2>2. Last(s)' /\ Stored(s)'
    BY <2>1 DEF Cleaning, Last, Stored, At
  <2>3. \A t : Holds(queue[t], s)' <=> Holds(queue'[t], s)
    BY DEF Holds
  <2>4. Holds(sup.valid, s)' <=> Holds(sup'.valid, s)
    BY DEF Holds
  <2>5. Swept' = Swept /\ Swept \subseteq Proc
    BY DEF Swept
  <2>6. CASE s = x
    BY <2>2, <2>6 DEF Cleaning, OfVictim, OfTheDone
  <2>7. CASE s # x
    <3>1. Queued(s)' => Queued(s)
      BY <2>3, <2>7 DEF Queued
    <3>2. OfTheDone(s)'
      BY <2>1, <2>4, <2>7, <3>1 DEF Cleaning, OfTheDone
    <3>3. \A t \in Swept' : Holds(queue'[t], s) => Holds(queue[t], s)
      BY <2>5, <2>7
    <3>4. OfVictim(s)'
      <4> SUFFICES ASSUME author[s] = sup.victim
                   PROVE  /\ s \notin DOMAIN samples'
                          /\ Queued(s)' => s \in sup'.victims
                          /\ ~Holds(sup.valid, s)'
                          /\ \A t \in Swept' : ~Holds(queue'[t], s)
        BY <2>3 DEF OfVictim, Holds
      <4>1. /\ s \notin DOMAIN samples /\ (Queued(s) => s \in sup.victims)
            /\ ~Holds(sup.valid, s) /\ \A t \in Swept : ~Holds(queue[t], s)
        BY <2>1 DEF Cleaning, OfVictim
      <4> QED BY <2>4, <2>5, <2>7, <3>1, <3>3, <4>1
    <3> QED BY <2>2, <3>2, <3>4 DEF Cleaning
  <2> QED BY <2>6, <2>7
<1> QED BY <1>1, <1>2, <1>3 DEF Cleanup

LEMMA DrainPopCleans ==
  ASSUME Typed, Account, Cleanup, DrainPop
  PROVE  Cleanup'
<1> DEFINE c == sup.at_queue
           x == Head(queue[c])
<1>1. /\ UNCHANGED <<routes, samples, store, alive, stopped, pc, cur, todo, guards, admin, author>>
      /\ sup.at = "pop"
  BY DEF DrainPop, registryVars, threadVars, historyVars
<1>2. c \in Proc /\ queue[c] \in Seq(Sample) /\ sup.valid \in Seq(Sample)
  BY <1>1 DEF Typed, TypeOK, Supervision
<1>3. CASE queue[c] = <<>>
  <2>1. queue' = queue /\ sup' = [sup EXCEPT !.at = "putback"]
    BY <1>3 DEF DrainPop
  <2>2. /\ sup'.at = "putback" /\ sup'.left = sup.left
        /\ sup'.victim = sup.victim /\ sup'.victims = sup.victims /\ sup'.valid = sup.valid
        /\ sup'.done = sup.done /\ sup'.at_queue = sup.at_queue
    BY <2>1 DEF Typed, Supervision
  <2>3. \A t \in Swept' : t \in Swept \/ t = c
    BY <1>1, <2>2 DEF Swept
  <2>4. \A s : ~Holds(queue[c], s)
    BY <1>3 DEF Holds
  <2> QED BY <1>1, <2>1, <2>2, <2>3, <2>4, SweepCleans
<1>4. CASE queue[c] # <<>>
  <2>1. /\ queue' = [queue EXCEPT ![c] = Tail(@)]
        /\ sup' = [sup EXCEPT !.valid = IF Drops(x) THEN @ ELSE Append(@, x)]
    BY <1>4 DEF DrainPop
  <2>2. x \in Sample
    BY <1>2, <1>4, TailSeq
  <2>3. \A s : Holds(queue[c], s) <=> Holds(Tail(queue[c]), s) \/ s = x
    BY <1>2, <1>4, HoldsTail
  <2>4. c \notin MayDie
    BY <1>4 DEF Cleanup, Sources
  <2> HIDE DEF x, c
  <2>5. \A s : Holds(Append(sup.valid, x), s) <=> Holds(sup.valid, s) \/ s = x
    BY <1>2, <2>2, HoldsAppend
  <2>6. /\ sup'.at = sup.at /\ sup'.left = sup.left /\ sup'.victim = sup.victim
        /\ sup'.victims = sup.victims /\ sup'.done = sup.done /\ sup'.at_queue = sup.at_queue
        /\ sup'.valid = IF Drops(x) THEN sup.valid ELSE Append(sup.valid, x)
    BY <2>1 DEF Typed, Supervision
  <2>7. queue'[c] = Tail(queue[c]) /\ \A t \in Proc \ {c} : queue'[t] = queue[t]
    BY <1>2, <2>1 DEF Typed, TypeOK
  <2>8. Queued(x) /\ Cleaning(x)
    BY <1>2, <2>2, <2>3 DEF Queued, Cleanup
  <2>9. author[x] \notin sup.done
    BY <2>8 DEF Cleaning, OfTheDone
  <2>10. \A s \in Sample : Holds(queue'[c], s) => Holds(queue[c], s)
    BY <2>3, <2>7
  <2>11. CASE author[x] # sup.victim
    <3>1. \A s \in Sample \ {x} : /\ \A t \in Proc : Holds(queue'[t], s) => Holds(queue[t], s)
                                  /\ Holds(sup'.valid, s) => Holds(sup.valid, s)
      BY <2>5, <2>6, <2>7, <2>10
    <3>2. sup.at_queue \notin MayDie /\ \A t \in Proc \ {sup.at_queue} : queue'[t] = queue[t]
      BY <2>4, <2>7 DEF c
    <3> QED BY <1>1, <2>2, <2>6, <2>9, <2>11, <3>1, <3>2, MovesClean
  <2>12. CASE author[x] = sup.victim
    <3>1. Drops(x) /\ sup'.valid = sup.valid
      BY <1>1, <2>6, <2>8, <2>12 DEF Cleaning, OfVictim, Drops
    <3>2. Owing' /\ OnlyItsOwn' /\ Dead'
      BY <1>1, <2>6 DEF Cleanup, Owing, OnlyItsOwn, Dead, Crashed
    <3>3. \A t \in MayDie : queue'[t] = queue[t]
      BY <2>4, <2>7, RuntimeAssumption
    <3>4. Sources'
      BY <1>1, <2>6, <3>1, <3>3 DEF Cleanup, Sources, Holds
    <3>5. ASSUME NEW s \in Sample
          PROVE  Cleaning(s)'
      <4>1. Cleaning(s)
        BY DEF Cleanup
      <4>2. Last(s)' /\ Stored(s)'
        BY <1>1, <2>6, <4>1 DEF Cleaning, Last, Stored, At
      <4>3. \A t : Holds(queue[t], s)' <=> Holds(queue'[t], s)
        BY DEF Holds
      <4>4. \A t \in Proc : Holds(queue'[t], s) => Holds(queue[t], s)
        BY <2>7, <2>10
      <4>5. (Queued(s)' => Queued(s)) /\ (Holds(sup.valid, s)' <=> Holds(sup.valid, s))
        BY <3>1, <4>3, <4>4 DEF Queued, Holds
      <4>6. Swept' = Swept /\ Swept \subseteq Proc
        BY <2>6 DEF Swept
      <4>7. OfTheDone(s)'
        BY <1>1, <2>6, <4>1, <4>5 DEF Cleaning, OfTheDone
      <4>8. OfVictim(s)'
        <5> SUFFICES ASSUME author[s] = sup.victim
                     PROVE  /\ s \notin DOMAIN samples'
                            /\ Queued(s)' => s \in sup'.victims
                            /\ ~Holds(sup.valid, s)'
                            /\ \A t \in Swept' : ~Holds(queue'[t], s)
          BY <1>1, <2>6, <4>3 DEF OfVictim, Holds
        <5>1. /\ s \notin DOMAIN samples /\ (Queued(s) => s \in sup.victims)
              /\ ~Holds(sup.valid, s) /\ \A t \in Swept : ~Holds(queue[t], s)
          BY <1>1, <4>1 DEF Cleaning, OfVictim
        <5> QED BY <1>1, <2>6, <4>4, <4>5, <4>6, <5>1
      <4> QED BY <4>2, <4>7, <4>8 DEF Cleaning
    <3> QED BY <3>2, <3>4, <3>5 DEF Cleanup
  <2> QED BY <2>11, <2>12
<1> QED BY <1>3, <1>4

LEMMA DrainPutBackCleans ==
  ASSUME Typed, Account, Cleanup, DrainPutBack
  PROVE  Cleanup'
<1> DEFINE c == sup.at_queue
           x == Head(sup.valid)
<1>1. /\ UNCHANGED <<routes, samples, store, alive, stopped, pc, cur, todo, guards, admin, author>>
      /\ sup.at = "putback"
  BY DEF DrainPutBack, registryVars, threadVars, historyVars
<1>2. c \in Proc /\ queue[c] \in Seq(Sample) /\ sup.valid \in Seq(Sample)
  BY <1>1 DEF Typed, TypeOK, Supervision
<1>3. CASE sup.valid = <<>>
  <2>1. queue' = queue /\ sup' = [sup EXCEPT !.at = "next", !.at_queue = None]
    BY <1>3 DEF DrainPutBack
  <2>2. /\ sup'.at = "next" /\ sup'.left = sup.left
        /\ sup'.victim = sup.victim /\ sup'.victims = sup.victims /\ sup'.valid = sup.valid
        /\ sup'.done = sup.done
    BY <2>1 DEF Typed, Supervision
  <2>3. Swept' = Swept
    BY <1>1, <2>2 DEF Swept
  <2> QED BY <1>1, <1>3, <2>1, <2>2, <2>3, SweepCleans
<1>4. CASE sup.valid # <<>>
  <2>1. /\ queue' = [queue EXCEPT ![c] = Append(@, x)]
        /\ sup' = [sup EXCEPT !.valid = Tail(@)]
    BY <1>4 DEF DrainPutBack
  <2>2. x \in Sample
    BY <1>2, <1>4, TailSeq
  <2>3. \A s : Holds(sup.valid, s) <=> Holds(Tail(sup.valid), s) \/ s = x
    BY <1>2, <1>4, HoldsTail
  <2>4. c \notin MayDie
    BY <1>4 DEF Cleanup, Sources
  <2> HIDE DEF x, c
  <2>5. \A s : Holds(Append(queue[c], x), s) <=> Holds(queue[c], s) \/ s = x
    BY <1>2, <2>2, HoldsAppend
  <2>6. /\ sup'.at = sup.at /\ sup'.left = sup.left /\ sup'.victim = sup.victim
        /\ sup'.victims = sup.victims /\ sup'.done = sup.done /\ sup'.at_queue = sup.at_queue
        /\ sup'.valid = Tail(sup.valid)
    BY <2>1 DEF Typed, Supervision
  <2>7. queue'[c] = Append(queue[c], x) /\ \A t \in Proc \ {c} : queue'[t] = queue[t]
    BY <1>2, <2>1 DEF Typed, TypeOK
  <2>8. Holds(sup.valid, x) /\ Cleaning(x)
    BY <2>2, <2>3 DEF Cleanup
  <2>9. author[x] \notin sup.done /\ author[x] # sup.victim
    BY <1>1, <2>8 DEF Cleaning, OfTheDone, OfVictim
  <2>10. \A s \in Sample \ {x} : /\ \A t \in Proc : Holds(queue'[t], s) => Holds(queue[t], s)
                                 /\ Holds(sup'.valid, s) => Holds(sup.valid, s)
    BY <2>3, <2>5, <2>6, <2>7
  <2>11. sup.at_queue \notin MayDie /\ \A t \in Proc \ {sup.at_queue} : queue'[t] = queue[t]
    BY <2>4, <2>7 DEF c
  <2> QED BY <1>1, <2>2, <2>6, <2>9, <2>10, <2>11, MovesClean
<1> QED BY <1>3, <1>4

\* The clean-up is over: every queue was swept.
LEMMA FinishCleans ==
  ASSUME Typed, Account, Cleanup, FinishCleanup
  PROVE  Cleanup'
<1>1. /\ sup.at = "next" /\ sup.left = {}
      /\ UNCHANGED <<routes, samples, store, alive, stopped, queue, pc, cur, todo, guards, admin,
                     author>>
      /\ sup' = [at |-> "idle", victim |-> None, victims |-> {}, left |-> {},
                 at_queue |-> None, valid |-> <<>>, done |-> sup.done \cup {sup.victim}]
  BY DEF FinishCleanup, NoCleanup, registryVars, threadVars, historyVars
<1>2. Owing' /\ OnlyItsOwn' /\ Dead'
  BY <1>1 DEF Cleanup, Owing, OnlyItsOwn, Dead, Crashed
<1>3. Sources'
  BY <1>1 DEF Cleanup, Sources, Holds
<1>4. ASSUME NEW s \in Sample
      PROVE  Cleaning(s)'
  <2>1. Cleaning(s)
    BY DEF Cleanup
  <2>2. Last(s)' /\ Stored(s)'
    BY <1>1, <2>1 DEF Cleaning, Last, Stored, At
  <2>3. OfVictim(s)'
    BY <1>1 DEF OfVictim
  <2>4. (Queued(s)' <=> Queued(s)) /\ ~Holds(sup.valid, s)'
    BY <1>1 DEF Queued, Holds
  <2>5. author[s] = sup.victim => s \notin DOMAIN samples /\ ~Queued(s)
    <3>1. Swept = Proc
      BY <1>1 DEF Swept
    <3> QED BY <1>1, <2>1, <3>1 DEF Cleaning, OfVictim, Queued
  <2>6. author[s] \in sup.done => s \notin DOMAIN samples /\ ~Queued(s)
    BY <2>1 DEF Cleaning, OfTheDone
  <2>7. OfTheDone(s)'
    BY <1>1, <2>4, <2>5, <2>6 DEF OfTheDone
  <2> QED BY <2>2, <2>3, <2>7 DEF Cleaning
<1> QED BY <1>2, <1>3, <1>4 DEF Cleanup

LEMMA RerouteCleans ==
  ASSUME ~Shared, Typed, Cleanup, ClearRoutes \/ RegisterRoute \/ UNCHANGED vars
  PROVE  Cleanup'
<1> USE DEF registryVars, threadVars, historyVars
<1>1. UNCHANGED <<samples, store, alive, stopped, queue, pc, cur, todo, guards, sup, author>>
  BY DEF ClearRoutes, RegisterRoute, vars
<1>2. Owing' /\ OnlyItsOwn' /\ Dead'
  BY <1>1 DEF Cleanup, Owing, OnlyItsOwn, Dead, Crashed
<1>3. ASSUME NEW s \in Sample
      PROVE  Cleaning(s)'
  <2>1. Cleaning(s)
    BY DEF Cleanup
  <2>2. Last(s)' /\ Stored(s)'
    BY <1>1, <2>1 DEF Cleaning, Last, Stored, At
  <2>3. OfVictim(s)' /\ OfTheDone(s)'
    BY <1>1, <2>1, OfKept DEF Cleaning
  <2> QED BY <2>2, <2>3 DEF Cleaning
<1>4. ASSUME NEW t \in MayDie
      PROVE  /\ \A p \in Proc : ~Holds(routes'[p], t)
             /\ ~Holds(admin'.rest, t)
             /\ \A r \in admin'.pending : ~Holds(r[2], t)
  <2>1. /\ \A p \in Proc : ~Holds(routes[p], t)
        /\ ~Holds(admin.rest, t)
        /\ \A r \in admin.pending : ~Holds(r[2], t)
    BY DEF Cleanup, Sources
  <2>2. routes \in [Proc -> Seq(Proc)] /\ admin.rest \in Seq(Proc)
    BY DEF Typed, TypeOK, Administration
  <2>3. CASE ClearRoutes
    <3>1. PICK r \in admin.pending :
            /\ routes' = [routes EXCEPT ![r[1]] = <<>>]
            /\ admin' = [from |-> r[1], rest |-> r[2], pending |-> admin.pending \ {r}]
      BY <2>3 DEF ClearRoutes, WithoutRoutes
    <3>2. ~Holds(<<>>, t)
      BY DEF Holds
    <3>3. \A p \in Proc : routes'[p] = routes[p] \/ routes'[p] = <<>>
      BY <2>2, <3>1
    <3>4. \A p \in Proc : ~Holds(routes'[p], t)
      BY <2>1, <3>2, <3>3
    <3> QED BY <2>1, <3>1, <3>4
  <2>4. CASE RegisterRoute
    <3> DEFINE f == admin.from
               x == Head(admin.rest)
    <3>1. admin.rest # <<>> /\ routes' = [routes EXCEPT ![f] = Append(@, x)]
      BY <2>4 DEF RegisterRoute, WithRoute
    <3>2. admin'.rest = Tail(admin.rest) /\ admin'.pending = admin.pending
      BY <2>4 DEF RegisterRoute, Typed, Administration
    <3>3. x \in Proc
      BY <2>2, <3>1, TailSeq
    <3>4. Holds(admin.rest, t) <=> Holds(Tail(admin.rest), t) \/ t = x
      BY <2>2, <3>1, HoldsTail
    <3> HIDE DEF x, f
    <3>5. ASSUME NEW p \in Proc
          PROVE  ~Holds(routes'[p], t)
      <4>1. routes[p] \in Seq(Proc)
        BY <2>2
      <4>2. Holds(Append(routes[p], x), t) <=> Holds(routes[p], t) \/ t = x
        BY <3>3, <4>1, HoldsAppend
      <4>3. routes'[p] = routes[p] \/ routes'[p] = Append(routes[p], x)
        BY <2>2, <3>1
      <4> QED BY <2>1, <3>4, <4>2, <4>3
    <3> QED BY <2>1, <3>2, <3>4, <3>5
  <2>5. CASE UNCHANGED vars
    BY <2>1, <2>5 DEF vars
  <2> QED BY <2>3, <2>4, <2>5
<1>5. Sources'
  BY <1>1, <1>4 DEF Cleanup, Sources, Holds
<1> QED BY <1>2, <1>3, <1>5 DEF Cleanup

LEMMA CleanupInit == Init /\ OnlySourcesDie => Cleanup
<1> SUFFICES ASSUME Init, OnlySourcesDie PROVE Cleanup
  OBVIOUS
<1>1. /\ DOMAIN samples = {} /\ store = {} /\ sup.at = "idle" /\ sup.done = {} /\ sup.valid = <<>>
      /\ routes = InitRoutes /\ admin.rest = <<>> /\ admin.pending = Reroutes
      /\ \A p \in Proc : /\ pc[p] = "idle" /\ todo[p] = <<>> /\ alive[p]
                         /\ queue[p] = <<>> /\ guards[p] = <<>>
  BY DEF Init, NoCleanup, NoReroute
<1>2. \A t : ~Holds(<<>>, t)
  BY DEF Holds
<1>3. Sources
  BY <1>1, <1>2, RuntimeAssumption DEF Sources, OnlySourcesDie, Reading
<1>4. Dead /\ Owing /\ OnlyItsOwn
  BY <1>1 DEF Dead, Crashed, Owing, Serving, OnlyItsOwn
<1>5. \A s \in Sample : Cleaning(s)
  BY <1>1 DEF Cleaning, Last, Stored, OfVictim, OfTheDone
<1> QED BY <1>3, <1>4, <1>5 DEF Cleanup

LEMMA CleanupStep ==
  ASSUME ~Shared, MayBeCrashed = {}, Typed, Account, Cleanup, [Next]_vars
  PROVE  Cleanup'
<1>1. ASSUME NEW p \in Proc, Thread(p)
      PROVE  Cleanup'
  <2>1. p \in Proc \ stopped /\ Step(p)
    BY <1>1 DEF Thread
  <2>2. CASE Publish(p)
    BY <2>1, <2>2, LoanCleans, GetRoutesCleans, RegisterCleans, InsertCleans, MarkCleans,
       PushCleans DEF Publish
  <2>3. CASE Recv(p)
    <3>1. ~MarkReceived(p)
      BY DEF MarkReceived, Account, Call
    <3> QED BY <2>1, <2>3, <3>1, PopCleans, LookupCleans DEF Recv
  <2>4. CASE Release(p)
    BY <2>1, <2>4, DropCleans, ReclaimCleans DEF Release
  <2> QED BY <2>1, <2>2, <2>3, <2>4 DEF Step
<1>2. CASE \E p \in Proc : Die(p) \/ CrashProcess(p)
  BY <1>2, DieCleans, CrashCleans
<1>3. CASE Supervise
  BY <1>3, ReclaimOrphansCleans, DrainCleans, DrainPopCleans, DrainPutBackCleans, FinishCleans
     DEF Supervise
<1>4. CASE ClearRoutes \/ RegisterRoute \/ UNCHANGED vars
  BY <1>4, RerouteCleans
<1> QED BY <1>1, <1>2, <1>3, <1>4 DEF Next

\* The sample table has records and nothing else.
IsTable == samples = [s \in DOMAIN samples |-> samples[s]]

LEMMA AlwaysTable == Spec => []IsTable
<1>1. Init => IsTable
  BY DEF Init, IsTable
<1>2. IsTable /\ [Next]_vars => IsTable'
  <2> SUFFICES ASSUME IsTable, [Next]_vars PROVE IsTable'
    OBVIOUS
  <2>1. \/ samples' = samples
        \/ \E s : samples' = WithRead(s) \/ samples' = WithPublished(s) \/ samples' = Without(samples, s)
        \/ \E S, f : samples' = [s \in S |-> f[s]]
        \/ \E S, c, r : samples' = [s \in S |-> IF s = c THEN r ELSE samples[s]]
    <3> USE DEF registryVars, threadVars, historyVars
    <3>1. ASSUME NEW p \in Proc, Step(p)
          PROVE  \/ samples' = samples
                 \/ \E s : \/ samples' = WithRead(s) \/ samples' = WithPublished(s)
                           \/ samples' = Without(samples, s)
                 \/ \E S, c, r : samples' = [s \in S |-> IF s = c THEN r ELSE samples[s]]
      <4>1. CASE Register(p)
        <5> DEFINE r == [owner |-> p, published |-> FALSE, expected |-> Expected(p), completed |-> 0]
                   S == DOMAIN samples \cup {cur[p]}
        <5>1. samples' = samples \/ samples' = [s \in S |-> IF s = cur[p] THEN r ELSE samples[s]]
          BY <4>1 DEF Register
        <5> HIDE DEF r, S
        <5> QED BY <5>1
      <4>2. CASE Publish(p) /\ ~Register(p)
        BY <4>2 DEF Publish, Loan, GetRoutes, InsertValue, MarkPublished, PushDescriptor
      <4>3. CASE Recv(p)
        BY <4>3 DEF Recv, Pop, Lookup, MarkReceived
      <4>4. CASE Release(p)
        BY <4>4 DEF Release, DropGuard, Reclaim, RemoveValue
      <4> QED BY <3>1, <4>1, <4>2, <4>3, <4>4 DEF Step
    <3>2. CASE \E p \in Proc : Die(p) \/ CrashProcess(p)
      BY <3>2 DEF Die, CrashProcess
    <3>3. CASE ReclaimOrphans
      BY <3>3 DEF ReclaimOrphans
    <3>4. CASE Supervise /\ ~ReclaimOrphans
      BY <3>4 DEF Supervise, RemoveOrphan, StartDrain, DrainQueue, DrainPop, DrainPutBack,
                  FinishCleanup
    <3>5. CASE ClearRoutes \/ RegisterRoute \/ UNCHANGED vars
      BY <3>5 DEF ClearRoutes, RegisterRoute, vars
    <3> QED BY <3>1, <3>2, <3>3, <3>4, <3>5 DEF Next, Thread
  <2> QED BY <2>1 DEF IsTable, WithRead, WithPublished, Without
<1> QED BY <1>1, <1>2, PTL DEF Spec

LEMMA AlwaysCleaning == ~Shared /\ OnlySourcesDie => (Spec => [](IInv /\ Cleanup))
<1> SUFFICES ASSUME ~Shared, OnlySourcesDie PROVE Spec => [](IInv /\ Cleanup)
  OBVIOUS
<1>1. Spec => []IInv
  BY AlwaysAccounted
<1>2. Init => Cleanup
  BY CleanupInit
<1>3. IInv /\ Cleanup /\ [Next]_vars => Cleanup'
  BY CleanupStep DEF IInv, OnlySourcesDie
<1> QED BY <1>1, <1>2, <1>3, PTL DEF Spec

(* On the Local backend, when only processes that nobody publishes to die,  *)
(* and crash_process is called for none that runs, nothing of a process is  *)
(* left after its clean-up: no record, no descriptor, and no value but one  *)
(* its last reader is about to remove (supervisor.rs 103-185).              *)
THEOREM RuntimeCleanedMeansGone ==
  ~Shared /\ OnlySourcesDie => (Spec => []CleanedMeansGone)
<1> SUFFICES ASSUME ~Shared, OnlySourcesDie PROVE Spec => []CleanedMeansGone
  OBVIOUS
<1>1. ASSUME IInv, Cleanup, NEW s \in Sample, author[s] \in sup.done
      PROVE  /\ s \notin DOMAIN samples /\ Places(queue, s) = {}
             /\ s \in store => \E p \in Proc \ stopped : cur[p] = s /\ At(p, "remove")
  <2>1. s \notin DOMAIN samples /\ ~Queued(s)
    BY <1>1 DEF Cleanup, Cleaning, OfTheDone
  <2>2. Places(queue, s) = {}
    BY <2>1 DEF Queued, Holds, Places
  <2>3. ~(sup.at = "remove" /\ s \in sup.left)
    <3> SUFFICES ASSUME sup.at = "remove", s \in sup.left PROVE FALSE
      OBVIOUS
    <3>1. author[s] = sup.victim
      BY <1>1 DEF IInv, Account, Victims, Cleanup, OnlyItsOwn
    <3> QED BY <1>1, <3>1 DEF Cleanup, Dead
  <2>4. Stored(s)
    BY <1>1 DEF Cleanup, Cleaning
  <2> QED BY <2>1, <2>2, <2>3, <2>4 DEF Stored
<1>2. IInv /\ Cleanup => CleanedMeansGone
  BY <1>1 DEF CleanedMeansGone
<1> QED BY <1>2, AlwaysCleaning, PTL

(* On the Local backend, under the same hypothesis: when nobody uses the    *)
(* data plane any more it holds nothing, neither a record nor a value       *)
(* (world.rs 361-413, 648-667; supervisor.rs 103-185).                      *)
THEOREM RuntimeNothingLeaks == ~Shared /\ OnlySourcesDie => (Spec => []NothingLeaks)
<1> SUFFICES ASSUME ~Shared, OnlySourcesDie PROVE Spec => []NothingLeaks
  OBVIOUS
<1>1. ASSUME IInv, Cleanup, Quiescent, NEW s \in Sample
      PROVE  s \notin DOMAIN samples /\ s \notin store
  <2>1. /\ \A p \in Proc \ stopped : At(p, "idle") /\ guards[p] = <<>> /\ queue[p] = <<>>
        /\ sup.at = "idle" /\ stopped \subseteq sup.done
    BY <1>1 DEF Quiescent
  <2>2. \A p \in stopped : p \in MayDie
    BY <1>1 DEF IInv, Typed, TypeOK
  <2>3. \A p \in Proc : guards[p] = <<>> /\ queue[p] = <<>> /\ pc[p] \notin {"lookup", "received"}
    BY <1>1, <2>1, <2>2 DEF Cleanup, Sources, Reading, At
  <2>4. Away(s) = 0
    <3>1. Places(queue, s) = {} /\ Places(guards, s) = {} /\ InHand(s) = {}
      BY <2>3 DEF Places, InHand
    <3>2. sup.valid = <<>>
      BY <1>1, <2>1 DEF IInv, Typed, Supervision
    <3>3. PutAside(s) = {}
      BY <3>2 DEF PutAside
    <3> QED BY <3>1, <3>3, FS_EmptySet DEF Away
  <2>5. s \notin DOMAIN samples
    <3> SUFFICES ASSUME s \in DOMAIN samples PROVE FALSE
      OBVIOUS
    <3>1. Cleaning(s) /\ Recorded(s)
      BY <1>1 DEF Cleanup, IInv, Account, Counts
    <3>2. author[s] \in Proc /\ samples[s].completed \in Nat
      BY <1>1, <3>1 DEF Recorded, IInv, Typed, TypeOK, SampleRecord
    <3>3. author[s] \notin stopped
      BY <2>1, <3>1 DEF Cleaning, OfTheDone
    <3>4. todo[author[s]] = <<>>
      BY <1>1, <2>1, <3>2, <3>3 DEF IInv, Account, Call, Serving, At
    <3>5. Unsent(s) = 0
      BY <3>4 DEF Unsent
    <3>6. samples[s].completed = samples[s].expected
      BY <2>4, <3>1, <3>2, <3>5 DEF Recorded
    <3>7. ~(samples[s].completed < samples[s].expected)
      BY <3>2, <3>6
    <3>8. PICK p \in Proc \ stopped : At(p, "reclaim")
      BY <3>1, <3>7 DEF Cleaning, Last
    <3> QED BY <2>1, <3>8 DEF At
  <2>6. Stored(s)
    BY <1>1 DEF Cleanup, Cleaning
  <2> QED BY <2>1, <2>5, <2>6 DEF Stored, At
<1>2. ASSUME IInv, IsTable, Cleanup, Quiescent
      PROVE  store = {} /\ samples = [s \in {} |-> None]
  <2>1. DOMAIN samples \subseteq Sample /\ store \subseteq Sample
    BY <1>2 DEF IInv, Typed, TypeOK
  <2>2. DOMAIN samples = {} /\ store = {}
    BY <1>1, <1>2, <2>1
  <2> QED BY <1>2, <2>2 DEF IsTable
<1>3. IInv /\ IsTable /\ Cleanup => NothingLeaks
  BY <1>2 DEF NothingLeaks
<1> QED BY <1>3, AlwaysCleaning, AlwaysTable, PTL

-----------------------------------------------------------------------------
(* In order, unless a supervisor drains.                                   *)

Distinct(seq) == \A i, j \in 1 .. Len(seq) : i # j => seq[i] # seq[j]

\* No port is registered twice as a target of one port (the shared table sees to
\* it when it registers a route).
DistinctTargets ==
  /\ \A p \in Proc : Distinct(InitRoutes[p])
  /\ Shared \/ \A r \in Reroutes : Distinct(r[2])

\* So none is ever served twice with one sample.
Routing ==
  /\ \A p \in Proc : Distinct(routes[p]) /\ Distinct(todo[p])
  /\ Shared \/ /\ Distinct(admin.rest)
               /\ admin.rest # <<>> =>
                    \A t \in Proc : ~(Holds(routes[admin.from], t) /\ Holds(admin.rest, t))
  /\ Shared \/ \A r \in admin.pending : Distinct(r[2])

\* The sample in the hand of a publisher is its own; those to come are nobody's.
Loans ==
  /\ \A p \in Proc : pc[p] \in Publishing => author[cur[p]] = p
  /\ \A s \in Sample : s >= nextSample => author[s] = None

\* The samples of one author go up along the sequence; x comes before those in it.
Rising(seq) ==
  \A i, j \in 1 .. Len(seq) : i < j /\ author[seq[i]] = author[seq[j]] => seq[i] < seq[j]
Before(x, seq) == \A y \in Sample : Holds(seq, y) /\ author[y] = author[x] => x < y

\* What p has read, has in hand, and has queued is one line.
InLine(p) ==
  /\ Rising(reads[p]) /\ Rising(queue[p])
  /\ \A x \in Sample : Holds(reads[p], x) => Before(x, queue[p])
  /\ At(p, "lookup") => /\ Before(cur[p], queue[p])
                        /\ \A x \in Sample : Holds(reads[p], x) /\ author[x] = author[cur[p]]
                                               => x < cur[p]

Seen(p, x) == Holds(reads[p], x) \/ Holds(queue[p], x) \/ (At(p, "lookup") /\ cur[p] = x)

\* A publisher is ahead of what p has seen of it, until it pushes to p.
Behind(p, x) ==
  Seen(p, x) =>
    /\ author[x] \in Proc /\ x < nextSample
    /\ pc[author[x]] \in Publishing =>
         \/ x < cur[author[x]]
         \/ x = cur[author[x]] /\ At(author[x], "push") /\ ~Holds(todo[author[x]], p)

\* Nobody has taken descriptors out of a queue to put them back: no one was
\* crashed, or it is the Shared backend, whose supervisor knows of no sample.
Calm == Shared \/ Crashed = {}
Resting ==
  /\ Crashed = {} => sup.at = "idle"
  /\ Shared => /\ sup.at \in {"idle", "orphans", "remove", "next"} /\ sup.victims = {}
               /\ sup.at \in {"remove", "next"} => sup.left = {}

Lined == Calm => \A p \in Proc : InLine(p) /\ \A x \in Sample : Behind(p, x)

Ordering == Routing /\ Loans /\ Lined

LEMMA RisingAppend ==
  ASSUME NEW q \in Seq(Sample), NEW x \in Sample, Rising(q),
         \A y \in Sample : Holds(q, y) /\ author[y] = author[x] => y < x
  PROVE  Rising(Append(q, x))
<1>1. /\ Len(Append(q, x)) = Len(q) + 1 /\ Len(q) \in Nat
      /\ \A i \in 1 .. Len(q) : Append(q, x)[i] = q[i]
      /\ Append(q, x)[Len(q) + 1] = x
  BY AppendSeq
<1> DEFINE r == Append(q, x)
<1> HIDE DEF r
<1> SUFFICES ASSUME NEW i \in 1 .. Len(q) + 1, NEW j \in 1 .. Len(q) + 1,
                    i < j, author[r[i]] = author[r[j]]
             PROVE  r[i] < r[j]
  BY <1>1 DEF Rising, r
<1>2. i \in 1 .. Len(q) /\ r[i] = q[i]
  BY <1>1 DEF r
<1>3. CASE j \in 1 .. Len(q)
  BY <1>1, <1>2, <1>3 DEF Rising, r
<1>4. CASE j = Len(q) + 1
  <2>1. r[j] = x /\ q[i] \in Sample /\ Holds(q, q[i])
    BY <1>1, <1>2, <1>4 DEF Holds, r
  <2> QED BY <1>2, <2>1
<1> QED BY <1>1, <1>3, <1>4

LEMMA RisingTail ==
  ASSUME NEW q \in Seq(Sample), q # <<>>, Rising(q)
  PROVE  Rising(Tail(q)) /\ Before(Head(q), Tail(q))
<1>1. /\ Len(Tail(q)) = Len(q) - 1 /\ Len(q) \in Nat \ {0}
      /\ \A i \in 1 .. Len(q) - 1 : Tail(q)[i] = q[i + 1]
      /\ Head(q) = q[1]
  BY TailSeq
<1> DEFINE r == Tail(q)
<1> HIDE DEF r
<1>2. ASSUME NEW i \in 1 .. Len(q) - 1, NEW j \in 1 .. Len(q) - 1,
             i < j, author[r[i]] = author[r[j]]
      PROVE  r[i] < r[j]
  <2>1. /\ i + 1 \in 1 .. Len(q) /\ j + 1 \in 1 .. Len(q) /\ i + 1 < j + 1
        /\ r[i] = q[i + 1] /\ r[j] = q[j + 1]
    BY <1>1, <1>2 DEF r
  <2> QED BY <1>2, <2>1 DEF Rising
<1>3. ASSUME NEW y \in Sample, Holds(r, y), author[y] = author[q[1]]
      PROVE  q[1] < y
  <2>1. PICK i \in 1 .. Len(q) - 1 : r[i] = y
    BY <1>1, <1>3 DEF Holds, r
  <2>2. 1 \in 1 .. Len(q) /\ i + 1 \in 1 .. Len(q) /\ 1 < i + 1 /\ q[i + 1] = y
    BY <1>1, <2>1 DEF r
  <2> QED BY <1>3, <2>2 DEF Rising
<1>4. Rising(r)
  BY <1>1, <1>2 DEF Rising, r
<1>5. Before(Head(q), r)
  BY <1>1, <1>3 DEF Before
<1> QED BY <1>4, <1>5 DEF r

LEMMA DistinctTail ==
  ASSUME NEW S, NEW q \in Seq(S), q # <<>>, Distinct(q)
  PROVE  Distinct(Tail(q)) /\ ~Holds(Tail(q), Head(q))
<1>1. /\ Len(Tail(q)) = Len(q) - 1 /\ Len(q) \in Nat \ {0}
      /\ \A i \in 1 .. Len(q) - 1 : Tail(q)[i] = q[i + 1]
      /\ Head(q) = q[1]
  BY TailSeq
<1>2. \A i \in 1 .. Len(q) - 1 : i + 1 \in 1 .. Len(q) /\ i + 1 # 1
  BY <1>1
<1>3. 1 \in 1 .. Len(q)
  BY <1>1
<1>4. \A i \in 1 .. Len(q) - 1 : Tail(q)[i] # q[1]
  BY <1>1, <1>2, <1>3 DEF Distinct
<1>5. ASSUME NEW i \in 1 .. Len(q) - 1, NEW j \in 1 .. Len(q) - 1, i # j
      PROVE  Tail(q)[i] # Tail(q)[j]
  <2>1. i + 1 # j + 1
    BY <1>1, <1>5
  <2> QED BY <1>1, <1>2, <2>1 DEF Distinct
<1> QED BY <1>1, <1>4, <1>5 DEF Distinct, Holds

LEMMA DistinctAppend ==
  ASSUME NEW S, NEW q \in Seq(S), NEW x \in S, Distinct(q), ~Holds(q, x)
  PROVE  Distinct(Append(q, x))
<1>1. /\ Len(Append(q, x)) = Len(q) + 1 /\ Len(q) \in Nat
      /\ \A i \in 1 .. Len(q) : Append(q, x)[i] = q[i]
      /\ Append(q, x)[Len(q) + 1] = x
  BY AppendSeq
<1>2. \A i \in 1 .. Len(q) + 1 : i \in 1 .. Len(q) \/ i = Len(q) + 1
  BY <1>1
<1>3. \A i \in 1 .. Len(q) : Append(q, x)[i] # x
  BY <1>1 DEF Holds
<1> SUFFICES ASSUME NEW i \in 1 .. Len(q) + 1, NEW j \in 1 .. Len(q) + 1, i # j
             PROVE  Append(q, x)[i] # Append(q, x)[j]
  BY <1>1 DEF Distinct
<1>4. CASE i \in 1 .. Len(q) /\ j \in 1 .. Len(q)
  BY <1>1, <1>4 DEF Distinct
<1>5. CASE i = Len(q) + 1 \/ j = Len(q) + 1
  BY <1>1, <1>2, <1>3, <1>5
<1> QED BY <1>2, <1>4, <1>5

\* A step that leaves the line of p as it is, and the authors of what is in it.
LEMMA InLineKept ==
  ASSUME Typed, NEW p \in Proc, InLine(p), reads'[p] = reads[p], queue'[p] = queue[p],
         At(p, "lookup")' => At(p, "lookup") /\ cur'[p] = cur[p],
         \A x \in Sample : Seen(p, x) => author'[x] = author[x]
  PROVE  InLine(p)'
<1>1. reads[p] \in Seq(Sample) /\ queue[p] \in Seq(Sample)
  BY DEF Typed, TypeOK
<1>2. \A i \in 1 .. Len(reads[p]) : reads[p][i] \in Sample /\ Seen(p, reads[p][i])
  BY <1>1 DEF Seen, Holds
<1>3. \A i \in 1 .. Len(queue[p]) : queue[p][i] \in Sample /\ Seen(p, queue[p][i])
  BY <1>1 DEF Seen, Holds
<1>4. Rising(reads[p])' /\ Rising(queue[p])'
  BY <1>2, <1>3 DEF InLine, Rising
<1>5. \A x \in Sample : Holds(reads[p], x) \/ Holds(queue[p], x) => author'[x] = author[x]
  BY DEF Seen
<1>6. /\ \A x \in Sample : Holds(reads[p], x)' <=> Holds(reads[p], x)
      /\ \A x \in Sample : Holds(queue[p], x)' <=> Holds(queue[p], x)
  BY DEF Holds
<1>7. \A x \in Sample : Holds(reads[p], x)' => Before(x, queue[p])'
  <2> SUFFICES ASSUME NEW x \in Sample, Holds(reads[p], x), NEW y \in Sample, Holds(queue[p], y),
                      author'[y] = author'[x]
               PROVE  x < y
    BY <1>6 DEF Before
  <2>1. author[y] = author[x]
    BY <1>5
  <2> QED BY <2>1 DEF InLine, Before
<1>8. ASSUME At(p, "lookup")'
      PROVE  /\ Before(cur[p], queue[p])'
             /\ \A x \in Sample : Holds(reads[p], x)' /\ author'[x] = author'[cur'[p]]
                                    => x < cur'[p]
  <2>1. At(p, "lookup") /\ cur'[p] = cur[p] /\ cur[p] \in Sample
    BY <1>8 DEF Typed, InHandOf, At
  <2>2. author'[cur[p]] = author[cur[p]]
    BY <2>1 DEF Seen
  <2>3. Before(cur[p], queue[p])'
    BY <1>5, <1>6, <2>1, <2>2 DEF InLine, Before
  <2>4. \A x \in Sample : Holds(reads[p], x) /\ author'[x] = author'[cur[p]] => x < cur[p]
    BY <1>5, <2>1, <2>2 DEF InLine
  <2> QED BY <1>6, <2>1, <2>3, <2>4
<1> QED BY <1>4, <1>7, <1>8 DEF InLine

\* A step that shows p nothing of x's author, while that one publishes on.
LEMMA BehindKept ==
  ASSUME Typed, NEW p \in Proc, NEW x \in Sample, Behind(p, x), Seen(p, x)' => Seen(p, x),
         nextSample' \in Nat, nextSample <= nextSample',
         Seen(p, x) => author'[x] = author[x],
         \A a \in Proc : pc'[a] \in Publishing =>
           \/ pc[a] \in Publishing /\ cur'[a] = cur[a]
              /\ (At(a, "push") => At(a, "push")' /\ (Holds(todo'[a], p) => Holds(todo[a], p)))
           \/ x < nextSample => x < cur'[a]
  PROVE  Behind(p, x)'
<1> SUFFICES ASSUME Seen(p, x)'
             PROVE  /\ author'[x] \in Proc /\ x < nextSample'
                    /\ pc'[author'[x]] \in Publishing =>
                         \/ x < cur'[author'[x]]
                         \/ x = cur'[author'[x]] /\ At(author[x], "push")'
                              /\ ~Holds(todo[author[x]], p)'
  BY DEF Behind
<1> DEFINE a == author[x]
<1>1. Seen(p, x) /\ author'[x] = a
  OBVIOUS
<1>2. /\ a \in Proc /\ x < nextSample
      /\ pc[a] \in Publishing => \/ x < cur[a]
                                 \/ x = cur[a] /\ At(a, "push") /\ ~Holds(todo[a], p)
  BY <1>1 DEF Behind
<1>3. x \in Nat /\ nextSample \in Nat
  BY DEF Sample, Typed, TypeOK
<1>4. x < nextSample'
  BY <1>2, <1>3
<1>5. ASSUME pc'[a] \in Publishing
      PROVE  x < cur'[a] \/ (x = cur'[a] /\ pc'[a] = "push" /\ ~Holds(todo'[a], p))
  BY <1>1, <1>2, <1>5 DEF At
<1>6. At(author[x], "push")' <=> pc'[a] = "push"
  BY <1>1 DEF At
<1>7. Holds(todo[author[x]], p)' <=> Holds(todo'[a], p)
  BY <1>1 DEF Holds
<1> QED BY <1>1, <1>2, <1>4, <1>5, <1>6, <1>7

\* Whoever moves neither what is read nor what is queued keeps the lines.
LEMMA QuietLined ==
  ASSUME Typed, Lined, Calm' => Calm, nextSample' \in Nat, nextSample <= nextSample',
         UNCHANGED <<reads, queue>>,
         \A x \in Sample : x < nextSample => author'[x] = author[x],
         \A a \in Proc :
           /\ At(a, "lookup")' => At(a, "lookup") /\ cur'[a] = cur[a]
           /\ pc'[a] \in Publishing =>
                \/ pc[a] \in Publishing /\ cur'[a] = cur[a]
                   /\ (At(a, "push") => At(a, "push")' /\ todo'[a] = todo[a])
                \/ cur'[a] = nextSample
  PROVE  Lined'
<1> SUFFICES ASSUME Calm'
             PROVE  \A p \in Proc : InLine(p)' /\ \A x \in Sample : Behind(p, x)'
  BY DEF Lined
<1>2. \A p \in Proc : InLine(p) /\ \A x \in Sample : Behind(p, x)
  BY DEF Lined
<1>3. ASSUME NEW p \in Proc
      PROVE  InLine(p)' /\ \A x \in Sample : Behind(p, x)'
  <2>1. \A x \in Sample : Seen(p, x) => x < nextSample
    BY <1>2 DEF Behind
  <2>2. \A x \in Sample : Seen(p, x) => author'[x] = author[x]
    BY <2>1
  <2>3. InLine(p)'
    BY <1>2, <2>2, InLineKept
  <2>4. \A x \in Sample : Seen(p, x)' => Seen(p, x)
    BY DEF Seen, Holds, At
  <2>5. ASSUME NEW x \in Sample
        PROVE  Behind(p, x)'
    BY <1>2, <2>2, <2>4, BehindKept
  <2> QED BY <2>3, <2>5
<1> QED BY <1>3

LEMMA CalmKept ==
  ASSUME alive' = alive
  PROVE  Calm' => Calm
BY DEF Calm, Crashed

LEMMA RoutingKept ==
  ASSUME Routing, routes' = routes, admin' = admin, \A p \in Proc : Distinct(todo'[p])
  PROVE  Routing'
<1>1. \A p \in Proc : Distinct(routes[p])' /\ Distinct(todo[p])'
  BY DEF Routing, Distinct
<1>2. /\ Distinct(admin.rest)' <=> Distinct(admin.rest)
      /\ \A t \in Proc : /\ Holds(admin.rest, t)' <=> Holds(admin.rest, t)
                         /\ Holds(routes[admin.from], t)' <=> Holds(routes[admin.from], t)
  BY DEF Distinct, Holds
<1> QED BY <1>1, <1>2 DEF Routing

LEMMA LoanInOrder ==
  ASSUME Typed, Ordering, NEW p \in Proc, Loan(p)
  PROVE  Ordering'
<1>1. /\ pc' = [pc EXCEPT ![p] = "routes"] /\ nextSample <= MaxSamples
      /\ cur' = [cur EXCEPT ![p] = nextSample]
      /\ author' = [author EXCEPT ![nextSample] = p]
      /\ nextSample' = nextSample + 1
      /\ UNCHANGED <<routes, alive, queue, todo, sup, admin, reads>>
  BY DEF Loan, Goto
<1>2. nextSample \in Sample /\ nextSample \in Nat
  BY <1>1, RuntimeAssumption DEF Typed, TypeOK, Sample
<1>3. /\ pc'[p] = "routes" /\ cur'[p] = nextSample /\ author'[nextSample] = p
      /\ \A q \in Proc \ {p} : pc'[q] = pc[q] /\ cur'[q] = cur[q]
      /\ \A s \in Sample \ {nextSample} : author'[s] = author[s]
  BY <1>1, <1>2 DEF Typed, TypeOK
<1>4. Routing'
  <2>1. \A q \in Proc : Distinct(todo'[q])
    BY <1>1 DEF Ordering, Routing
  <2> QED BY <1>1, <2>1, RoutingKept DEF Ordering
<1>5. Loans'
  <2>1. ASSUME NEW q \in Proc, pc'[q] \in Publishing
        PROVE  author'[cur'[q]] = q
    <3>1. CASE q = p
      BY <1>3, <3>1
    <3>2. CASE q # p
      <4>1. pc[q] \in Publishing /\ author[cur[q]] = q
        BY <1>3, <2>1, <3>2 DEF Ordering, Loans
      <4>2. cur[q] \in Sample
        BY <4>1 DEF Typed, InHandOf, At, Publishing
      <4>3. author[nextSample] = None
        BY <1>2 DEF Ordering, Loans
      <4>4. cur[q] # nextSample
        BY <4>1, <4>3, RuntimeAssumption
      <4> QED BY <1>3, <3>2, <4>1, <4>2, <4>4
    <3> QED BY <3>1, <3>2
  <2>2. ASSUME NEW s \in Sample, s >= nextSample'
        PROVE  author'[s] = None
    <3>1. s \in Nat /\ s >= nextSample /\ s # nextSample
      BY <1>1, <1>2, <2>2 DEF Sample
    <3> QED BY <1>3, <3>1 DEF Ordering, Loans
  <2> QED BY <2>1, <2>2 DEF Loans
<1>6. Lined'
  <2>1. nextSample' \in Nat /\ nextSample <= nextSample'
    BY <1>1, <1>2
  <2>2. \A x \in Sample : x < nextSample => author'[x] = author[x]
    BY <1>2, <1>3
  <2>3. \A a \in Proc :
          /\ At(a, "lookup")' => At(a, "lookup") /\ cur'[a] = cur[a]
          /\ pc'[a] \in Publishing =>
               \/ pc[a] \in Publishing /\ cur'[a] = cur[a]
                  /\ (At(a, "push") => At(a, "push")' /\ todo'[a] = todo[a])
               \/ cur'[a] = nextSample
    BY <1>1, <1>3 DEF At
  <2> QED BY <1>1, <2>1, <2>2, <2>3, CalmKept, QuietLined DEF Ordering
<1> QED BY <1>4, <1>5, <1>6 DEF Ordering

\* The steps of publish up to its pushes.
LEMMA PrepareInOrder ==
  ASSUME Typed, Ordering, NEW p \in Proc,
         GetRoutes(p) \/ Register(p) \/ InsertValue(p) \/ MarkPublished(p)
  PROVE  Ordering'
<1>1. PICK l : pc' = [pc EXCEPT ![p] = l]
  BY DEF GetRoutes, Register, InsertValue, MarkPublished, Goto
<1>2. /\ pc'[p] \in {"idle", "register", "insert", "mark", "push"}
      /\ pc[p] \in {"routes", "register", "insert", "mark"}
      /\ \A q \in Proc \ {p} : pc'[q] = pc[q]
      /\ UNCHANGED <<routes, nextSample, alive, queue, cur, sup, admin, author, reads>>
      /\ todo' = todo \/ todo' = [todo EXCEPT ![p] = routes[p]]
  <2> USE DEF registryVars, historyVars, Goto, At, Typed, TypeOK
  <2>1. CASE GetRoutes(p)
    BY <2>1 DEF GetRoutes
  <2>2. CASE Register(p)
    BY <2>2 DEF Register
  <2>3. CASE InsertValue(p)
    BY <2>3 DEF InsertValue
  <2>4. CASE MarkPublished(p)
    BY <2>4 DEF MarkPublished
  <2> QED BY <2>1, <2>2, <2>3, <2>4
<1>3. \A q \in Proc : todo'[q] = todo[q] \/ todo'[q] = routes[q]
  BY <1>2 DEF Typed, TypeOK
<1>4. \A q \in Proc \ {p} : todo'[q] = todo[q]
  BY <1>2 DEF Typed, TypeOK
<1>5. Routing'
  <2>1. \A q \in Proc : Distinct(todo'[q])
    BY <1>3 DEF Ordering, Routing
  <2> QED BY <1>2, <2>1, RoutingKept DEF Ordering
<1>6. Loans'
  BY <1>2 DEF Ordering, Loans, Publishing
<1>7. Lined'
  <2>1. nextSample \in Nat
    BY RuntimeAssumption DEF Typed, TypeOK
  <2>2. \A a \in Proc :
          /\ At(a, "lookup")' => At(a, "lookup") /\ cur'[a] = cur[a]
          /\ pc'[a] \in Publishing =>
               pc[a] \in Publishing /\ cur'[a] = cur[a]
                  /\ (At(a, "push") => At(a, "push")' /\ todo'[a] = todo[a])
    BY <1>2, <1>4 DEF At, Publishing
  <2> QED BY <1>2, <2>1, <2>2, CalmKept, QuietLined DEF Ordering
<1> QED BY <1>5, <1>6, <1>7 DEF Ordering

\* The steps of a thread that neither publishes, pops nor looks up.
LEMMA ReleaseInOrder ==
  ASSUME Typed, Ordering, NEW p \in Proc, MarkReceived(p) \/ Release(p)
  PROVE  Ordering'
<1>1. /\ pc[p] \in {"received", "idle", "reclaim", "remove"}
      /\ pc'[p] \in {"idle", "reclaim", "remove"}
      /\ \A q \in Proc \ {p} : pc'[q] = pc[q] /\ cur'[q] = cur[q]
      /\ UNCHANGED <<routes, nextSample, alive, queue, todo, sup, admin, author, reads>>
  <2>1. CASE DropGuard(p)
    <3>1. /\ pc[p] = "idle"
          /\ \E s : cur' = [cur EXCEPT ![p] = s]
          /\ \/ pc' = pc \/ pc' = [pc EXCEPT ![p] = "reclaim"] \/ pc' = [pc EXCEPT ![p] = "idle"]
          /\ UNCHANGED <<routes, alive, nextSample, queue, todo, sup, admin, author, reads>>
      BY <2>1 DEF DropGuard, Goto, At, historyVars
    <3>2. pc'[p] \in {"idle", "reclaim"} /\ \A q \in Proc \ {p} : pc'[q] = pc[q]
      BY <3>1 DEF Typed, TypeOK
    <3>3. \A q \in Proc \ {p} : cur'[q] = cur[q]
      BY <3>1 DEF Typed, TypeOK
    <3> QED BY <3>1, <3>2, <3>3
  <2>2. CASE Reclaim(p)
    BY <2>2 DEF Reclaim, Goto, At, historyVars, Typed, TypeOK
  <2>3. CASE RemoveValue(p)
    BY <2>3 DEF RemoveValue, Goto, At, historyVars, registryVars, Typed, TypeOK
  <2>4. CASE MarkReceived(p)
    BY <2>4 DEF MarkReceived, Goto, At, historyVars, Typed, TypeOK
  <2> QED BY <2>1, <2>2, <2>3, <2>4 DEF Release
<1>2. Routing'
  <2>1. \A q \in Proc : Distinct(todo'[q])
    BY <1>1 DEF Ordering, Routing
  <2> QED BY <1>1, <2>1, RoutingKept DEF Ordering
<1>3. Loans'
  BY <1>1 DEF Ordering, Loans, Publishing
<1>4. Lined'
  <2>1. nextSample \in Nat
    BY RuntimeAssumption DEF Typed, TypeOK
  <2>2. \A a \in Proc :
          /\ At(a, "lookup")' => At(a, "lookup") /\ cur'[a] = cur[a]
          /\ pc'[a] \in Publishing =>
               pc[a] \in Publishing /\ cur'[a] = cur[a]
                  /\ (At(a, "push") => At(a, "push")' /\ todo'[a] = todo[a])
    BY <1>1 DEF At, Publishing
  <2> QED BY <1>1, <2>1, <2>2, CalmKept, QuietLined DEF Ordering
<1> QED BY <1>2, <1>3, <1>4 DEF Ordering

\* push: what the publisher has in hand is ahead of all that the target has seen of it.
LEMMA PushInOrder ==
  ASSUME Typed, Ordering, NEW p \in Proc, PushDescriptor(p)
  PROVE  Ordering'
<1>0. pc[p] = "push" /\ todo[p] # <<>>
  BY DEF PushDescriptor, At
<1>1. cur[p] \in Sample /\ author[cur[p]] = p
  BY <1>0 DEF Publishing, Ordering, Loans, Typed, InHandOf, At
<1>2. todo[p] \in Seq(Proc) /\ Head(todo[p]) \in Proc
  <2>1. todo[p] \in Seq(Proc)
    BY DEF Typed, TypeOK
  <2> QED BY <1>0, <2>1, TailSeq
<1>3. PICK c \in Proc, s \in Sample, l \in {"idle", "push"} :
        /\ c = Head(todo[p]) /\ s = cur[p] /\ author[s] = p
        /\ pc' = [pc EXCEPT ![p] = l]
        /\ queue' = [queue EXCEPT ![c] = Append(@, s)]
        /\ todo' = [todo EXCEPT ![p] = Tail(@)]
        /\ UNCHANGED <<routes, nextSample, alive, cur, sup, admin, author, reads>>
  BY <1>1, <1>2 DEF PushDescriptor, Goto, registryVars, historyVars
<1>31. queue[c] \in Seq(Sample)
  BY DEF Typed, TypeOK
<1>4. \A t : Holds(todo[p], t) <=> Holds(Tail(todo[p]), t) \/ t = c
  BY <1>0, <1>2, <1>3, HoldsTail
<1>5. Distinct(Tail(todo[p])) /\ ~Holds(Tail(todo[p]), c)
  BY <1>0, <1>2, <1>3, DistinctTail DEF Ordering, Routing
<1>7. \A x : Holds(Append(queue[c], s), x) <=> Holds(queue[c], x) \/ x = s
  BY <1>31, HoldsAppend
<1>8. /\ pc'[p] = l /\ todo'[p] = Tail(todo[p]) /\ cur'[p] = s /\ cur[p] = s /\ author[s] = p
      /\ \A q \in Proc \ {p} : todo'[q] = todo[q] /\ pc'[q] = pc[q]
      /\ queue'[c] = Append(queue[c], s)
      /\ \A t \in Proc \ {c} : queue'[t] = queue[t]
  BY <1>3 DEF Typed, TypeOK
<1>9. Routing'
  <2>1. \A q \in Proc : Distinct(todo'[q])
    BY <1>5, <1>8 DEF Ordering, Routing
  <2> QED BY <1>0, <1>3, <2>1, RoutingKept DEF Ordering
<1>10. Loans'
  BY <1>0, <1>3, <1>8 DEF Ordering, Loans, Publishing
<1>11. ASSUME Calm'
       PROVE  \A q \in Proc : InLine(q)' /\ \A x \in Sample : Behind(q, x)'
  <2>1. Calm
    BY <1>3, <1>11, CalmKept
  <2>2. \A q \in Proc : InLine(q) /\ \A x \in Sample : Behind(q, x)
    BY <2>1 DEF Ordering, Lined
  <2>3. nextSample \in Nat /\ s < nextSample
    <3>1. nextSample \in Nat /\ s \in Nat
      BY <1>8, RuntimeAssumption DEF Typed, TypeOK, Sample
    <3>2. ~(s >= nextSample)
      BY <1>8, RuntimeAssumption DEF Ordering, Loans
    <3> QED BY <3>1, <3>2
  <2>4. \A a \in Proc : \A q \in Proc : pc'[a] \in Publishing =>
          /\ pc[a] \in Publishing /\ cur'[a] = cur[a]
          /\ At(a, "push") => At(a, "push")' /\ (Holds(todo'[a], q) => Holds(todo[a], q))
    BY <1>0, <1>3, <1>4, <1>8 DEF At, Publishing
  <2>5. ASSUME NEW q \in Proc, q # c
        PROVE  InLine(q)' /\ \A x \in Sample : Behind(q, x)'
    <3>1. /\ reads'[q] = reads[q] /\ queue'[q] = queue[q]
          /\ At(q, "lookup")' => At(q, "lookup") /\ cur'[q] = cur[q]
      BY <1>0, <1>3, <1>8, <2>5 DEF At
    <3>2. InLine(q)'
      BY <1>0, <1>3, <2>2, <3>1, InLineKept
    <3>3. \A x \in Sample : Seen(q, x)' => Seen(q, x)
      BY <3>1 DEF Seen, Holds, At
    <3>4. ASSUME NEW x \in Sample
          PROVE  Behind(q, x)'
      BY <1>0, <1>3, <2>2, <2>3, <2>4, <3>3, BehindKept
    <3> QED BY <3>2, <3>4
  <2>6. ASSUME NEW x \in Sample, Seen(c, x), author[x] = p
        PROVE  x < s
    <3>1. Holds(todo[p], c)
      BY <1>4
    <3>2. pc[p] \in Publishing
      BY <1>0, <1>3 DEF Publishing
    <3>3. cur[author[x]] = s /\ todo[author[x]] = todo[p] /\ pc[author[x]] = pc[p] /\ Behind(c, x)
      BY <1>3, <1>8, <2>2, <2>6
    <3> QED BY <2>6, <3>1, <3>2, <3>3 DEF Behind
  <2>7. InLine(c)'
    <3>1. InLine(c) /\ queue[c] \in Seq(Sample)
      BY <1>31, <2>2
    <3>2. \A y \in Sample : Holds(queue[c], y) /\ author[y] = author[s] => y < s
      BY <1>3, <2>6 DEF Seen
    <3>3. Rising(Append(queue[c], s))
      BY <1>31, <3>1, <3>2, RisingAppend DEF InLine
    <3>4. Rising(reads[c])' /\ Rising(queue[c])'
      <4>1. Rising(reads[c])
        BY <3>1 DEF InLine
      <4>2. reads'[c] = reads[c] /\ queue'[c] = Append(queue[c], s) /\ author' = author
        BY <1>3, <1>8
      <4>3. Rising(reads[c])'
        BY <4>1, <4>2 DEF Rising
      <4> QED BY <3>3, <4>2, <4>3 DEF Rising
    <3>5. /\ \A x : Holds(reads[c], x)' <=> Holds(reads[c], x)
          /\ \A x : Holds(queue[c], x)' <=> Holds(queue[c], x) \/ x = s
      BY <1>0, <1>3, <1>7, <1>8 DEF Holds
    <3>6. ASSUME NEW x \in Sample, Seen(c, x), Before(x, queue[c])
          PROVE  Before(x, queue[c])'
      <4>1. \A y \in Sample : Holds(queue[c], y) /\ author[y] = author[x] => x < y
        BY <3>6 DEF Before
      <4>2. author[x] = author[s] => x < s
        BY <1>3, <2>6, <3>6
      <4> QED BY <1>0, <1>3, <3>5, <4>1, <4>2 DEF Before
    <3>7. \A x \in Sample : Holds(reads[c], x)' => Before(x, queue[c])'
      BY <3>1, <3>5, <3>6 DEF InLine, Seen
    <3>8. ASSUME At(c, "lookup")'
          PROVE  /\ Before(cur[c], queue[c])'
                 /\ \A x \in Sample : Holds(reads[c], x)' /\ author'[x] = author'[cur'[c]]
                                        => x < cur'[c]
      <4>1. At(c, "lookup") /\ cur'[c] = cur[c] /\ cur[c] \in Sample
        BY <1>0, <1>3, <1>8, <3>8 DEF At, Typed, InHandOf
      <4>2. Seen(c, cur[c]) /\ Before(cur[c], queue[c])
        BY <3>1, <4>1 DEF Seen, InLine
      <4>3. \A x : x = cur[c] => Before(x, queue[c])'
        BY <3>6, <4>1, <4>2
      <4>4. Before(cur[c], queue[c])'
        BY <4>1, <4>3 DEF Before
      <4> QED BY <1>0, <1>3, <3>1, <3>5, <4>1, <4>4 DEF InLine
    <3> QED BY <3>4, <3>7, <3>8 DEF InLine
  <2>8. ASSUME NEW x \in Sample
        PROVE  Behind(c, x)'
    <3>1. x # s => (Seen(c, x)' => Seen(c, x))
      BY <1>0, <1>3, <1>7, <1>8 DEF Seen, Holds, At
    <3>2. CASE x # s
      BY <1>0, <1>3, <2>2, <2>3, <2>4, <3>1, <3>2, BehindKept
    <3>3. CASE x = s
      <4>1. author'[x] = p /\ x < nextSample' /\ cur'[p] = x
        BY <1>0, <1>3, <1>31, <1>8, <2>3, <3>3
      <4>2. pc'[p] \in Publishing => pc'[p] = "push"
        BY <1>8 DEF Publishing
      <4>3. ~Holds(todo'[p], c)
        BY <1>5, <1>8
      <4> QED BY <1>0, <1>3, <1>31, <3>3, <4>1, <4>2, <4>3 DEF Behind, At, Holds
    <3> QED BY <3>2, <3>3
  <2>9. \A q \in Proc : InLine(q)' /\ \A x \in Sample : Behind(q, x)'
    BY <2>5, <2>7, <2>8
  <2> QED BY <2>9
<1>12. Lined'
  BY <1>11 DEF Lined
<1> QED BY <1>9, <1>10, <1>12 DEF Ordering

\* recv: the descriptor at the head of the queue goes into the hand, ...
LEMMA PopInOrder ==
  ASSUME Typed, Ordering, NEW p \in Proc, Pop(p)
  PROVE  Ordering'
<1>1. pc[p] = "idle" /\ queue[p] # <<>> /\ queue[p] \in Seq(Sample)
  BY DEF Pop, At, Typed, TypeOK
<1>2. Head(queue[p]) \in Sample
  BY <1>1, TailSeq
<1>3. PICK h \in Sample :
        /\ h = Head(queue[p])
        /\ pc' = [pc EXCEPT ![p] = "lookup"]
        /\ queue' = [queue EXCEPT ![p] = Tail(@)]
        /\ cur' = [cur EXCEPT ![p] = h]
        /\ UNCHANGED <<routes, nextSample, alive, todo, sup, admin, author, reads>>
  BY <1>2 DEF Pop, Goto, registryVars, historyVars
<1>4. \A x : Holds(queue[p], x) <=> Holds(Tail(queue[p]), x) \/ x = h
  BY <1>1, <1>3, HoldsTail
<1>5. /\ pc'[p] = "lookup" /\ cur'[p] = h /\ queue'[p] = Tail(queue[p])
      /\ \A q \in Proc \ {p} : pc'[q] = pc[q] /\ cur'[q] = cur[q] /\ queue'[q] = queue[q]
  BY <1>3 DEF Typed, TypeOK
<1>6. Routing'
  <2>1. \A q \in Proc : Distinct(todo'[q])
    BY <1>3 DEF Ordering, Routing
  <2> QED BY <1>3, <2>1, RoutingKept DEF Ordering
<1>7. Loans'
  BY <1>3, <1>5 DEF Ordering, Loans, Publishing
<1>8. ASSUME Calm'
      PROVE  \A q \in Proc : InLine(q)' /\ \A x \in Sample : Behind(q, x)'
  <2>1. Calm
    BY <1>3, <1>8, CalmKept
  <2>2. \A q \in Proc : InLine(q) /\ \A x \in Sample : Behind(q, x)
    BY <2>1 DEF Ordering, Lined
  <2>3. nextSample \in Nat
    BY RuntimeAssumption DEF Typed, TypeOK
  <2>4. \A a \in Proc : pc'[a] \in Publishing =>
          /\ pc[a] \in Publishing /\ cur'[a] = cur[a] /\ todo'[a] = todo[a]
          /\ At(a, "push") => At(a, "push")'
    BY <1>3, <1>5 DEF At, Publishing
  <2>5. \A a, q \in Proc : pc'[a] \in Publishing =>
          /\ pc[a] \in Publishing /\ cur'[a] = cur[a]
          /\ At(a, "push") => At(a, "push")' /\ (Holds(todo'[a], q) => Holds(todo[a], q))
    BY <2>4
  <2>6. ASSUME NEW q \in Proc
        PROVE  \A x \in Sample : Seen(q, x)' => Seen(q, x)
    <3>1. CASE q = p
      <4>1. \A x \in Sample : Holds(queue[q], x)' <=> Holds(Tail(queue[p]), x)
        BY <1>5, <3>1 DEF Holds
      <4>2. \A x \in Sample : Holds(reads[q], x)' <=> Holds(reads[q], x)
        BY <1>3 DEF Holds
      <4>3. At(q, "lookup")' /\ cur'[q] = h
        BY <1>5, <3>1 DEF At
      <4> QED BY <1>4, <3>1, <4>1, <4>2, <4>3 DEF Seen
    <3>2. CASE q # p
      BY <1>3, <1>5, <3>2 DEF Seen, Holds, At
    <3> QED BY <3>1, <3>2
  <2>7. ASSUME NEW q \in Proc, NEW x \in Sample
        PROVE  Behind(q, x)'
    BY <1>3, <2>2, <2>3, <2>5, <2>6, BehindKept
  <2>8. ASSUME NEW q \in Proc, q # p
        PROVE  InLine(q)'
    <3>1. At(q, "lookup")' => At(q, "lookup") /\ cur'[q] = cur[q]
      BY <1>5, <2>8 DEF At
    <3> QED BY <1>3, <1>5, <2>2, <2>8, <3>1, InLineKept
  <2>9. InLine(p)'
    <3>1. InLine(p)
      BY <2>2
    <3>2. Rising(Tail(queue[p])) /\ Before(h, Tail(queue[p]))
      BY <1>1, <1>3, <3>1, RisingTail DEF InLine
    <3>3. Rising(reads[p])' /\ Rising(queue[p])'
      BY <1>3, <1>5, <3>1, <3>2 DEF InLine, Rising
    <3>4. /\ \A x \in Sample : Holds(reads[p], x)' <=> Holds(reads[p], x)
          /\ \A x \in Sample : Holds(queue[p], x)' <=> Holds(Tail(queue[p]), x)
      BY <1>3, <1>5 DEF Holds
    <3>5. \A x \in Sample : Holds(reads[p], x) => Before(x, queue[p])
      BY <3>1 DEF InLine
    <3>6. \A x \in Sample : Holds(reads[p], x)' => Before(x, queue[p])'
      BY <1>3, <1>4, <3>4, <3>5 DEF Before
    <3>7. \A y \in Sample : Holds(Tail(queue[p]), y) /\ author[y] = author[h] => h < y
      BY <3>2 DEF Before
    <3>8. Before(cur[p], queue[p])'
      BY <1>3, <1>5, <3>4, <3>7 DEF Before
    <3>9. \A x \in Sample : Holds(reads[p], x)' /\ author'[x] = author'[cur'[p]] => x < cur'[p]
      BY <1>3, <1>4, <1>5, <3>4, <3>5 DEF Before
    <3> QED BY <3>3, <3>6, <3>8, <3>9 DEF InLine
  <2> QED BY <2>7, <2>8, <2>9
<1>9. Lined'
  BY <1>8 DEF Lined
<1> QED BY <1>6, <1>7, <1>9 DEF Ordering

\* ... and, when its value is stored, is read.
LEMMA LookupInOrder ==
  ASSUME Typed, Ordering, NEW p \in Proc, Lookup(p)
  PROVE  Ordering'
<1>1. pc[p] = "lookup" /\ cur[p] \in Sample
  BY DEF Lookup, At, Typed, InHandOf
<1>2. PICK s \in Sample, l \in {"idle", "received"} :
        /\ s = cur[p] /\ pc' = [pc EXCEPT ![p] = l]
        /\ reads' = reads \/ reads' = [reads EXCEPT ![p] = Append(@, s)]
        /\ UNCHANGED <<routes, nextSample, alive, queue, cur, todo, sup, admin, author>>
  <2>1. CASE cur[p] \in store
    <3>1. PICK l \in {"idle", "received"} : pc' = [pc EXCEPT ![p] = l]
      BY <2>1 DEF Lookup, Goto
    <3> QED BY <1>1, <2>1, <3>1 DEF Lookup, registryVars
  <2>2. CASE cur[p] \notin store
    BY <1>1, <2>2 DEF Lookup, Goto, registryVars
  <2> QED BY <2>1, <2>2
<1>3. reads[p] \in Seq(Sample)
  BY DEF Typed, TypeOK
<1>4. /\ pc'[p] = l
      /\ reads'[p] = reads[p] \/ reads'[p] = Append(reads[p], s)
      /\ \A q \in Proc \ {p} : pc'[q] = pc[q] /\ reads'[q] = reads[q]
  BY <1>2 DEF Typed, TypeOK
<1>5. \A x \in Sample : Holds(reads'[p], x) => Holds(reads[p], x) \/ x = s
  <2>1. \A x : Holds(Append(reads[p], s), x) <=> Holds(reads[p], x) \/ x = s
    BY <1>3, HoldsAppend
  <2> QED BY <1>4, <2>1
<1>6. Routing'
  <2>1. \A q \in Proc : Distinct(todo'[q])
    BY <1>2 DEF Ordering, Routing
  <2> QED BY <1>2, <2>1, RoutingKept DEF Ordering
<1>7. Loans'
  BY <1>2, <1>4 DEF Ordering, Loans, Publishing
<1>8. ASSUME Calm'
      PROVE  \A q \in Proc : InLine(q)' /\ \A x \in Sample : Behind(q, x)'
  <2>1. Calm
    BY <1>2, <1>8, CalmKept
  <2>2. \A q \in Proc : InLine(q) /\ \A x \in Sample : Behind(q, x)
    BY <2>1 DEF Ordering, Lined
  <2>3. nextSample \in Nat
    BY RuntimeAssumption DEF Typed, TypeOK
  <2>4. \A a \in Proc : pc'[a] \in Publishing =>
          /\ pc[a] \in Publishing /\ cur'[a] = cur[a] /\ todo'[a] = todo[a]
          /\ At(a, "push") => At(a, "push")'
    BY <1>2, <1>4 DEF At, Publishing
  <2>5. \A a, q \in Proc : pc'[a] \in Publishing =>
          /\ pc[a] \in Publishing /\ cur'[a] = cur[a]
          /\ At(a, "push") => At(a, "push")' /\ (Holds(todo'[a], q) => Holds(todo[a], q))
    BY <2>4
  <2>6. /\ \A x \in Sample : Holds(reads[p], x)' <=> Holds(reads'[p], x)
        /\ \A x \in Sample : Holds(queue[p], x)' <=> Holds(queue[p], x)
        /\ ~At(p, "lookup")'
    BY <1>2, <1>4 DEF Holds, At
  <2>7. ASSUME NEW q \in Proc
        PROVE  \A x \in Sample : Seen(q, x)' => Seen(q, x)
    <3>1. CASE q = p
      BY <1>1, <1>2, <1>5, <2>6, <3>1 DEF Seen, At
    <3>2. CASE q # p
      BY <1>2, <1>4, <3>2 DEF Seen, Holds, At
    <3> QED BY <3>1, <3>2
  <2>8. ASSUME NEW q \in Proc, NEW x \in Sample
        PROVE  Behind(q, x)'
    BY <1>2, <2>2, <2>3, <2>5, <2>7, BehindKept
  <2>9. ASSUME NEW q \in Proc, q # p
        PROVE  InLine(q)'
    <3>1. At(q, "lookup")' => At(q, "lookup") /\ cur'[q] = cur[q]
      BY <1>2, <1>4, <2>9 DEF At
    <3> QED BY <1>2, <1>4, <2>2, <2>9, <3>1, InLineKept
  <2>10. InLine(p)'
    <3>1. InLine(p)
      BY <2>2
    <3>2. /\ Rising(reads[p]) /\ Rising(queue[p]) /\ Before(s, queue[p])
          /\ \A x \in Sample : Holds(reads[p], x) => Before(x, queue[p])
          /\ \A x \in Sample : Holds(reads[p], x) /\ author[x] = author[s] => x < s
      BY <1>1, <1>2, <3>1 DEF InLine, At
    <3>3. Rising(Append(reads[p], s))
      BY <1>3, <3>2, RisingAppend
    <3>4. Rising(reads'[p])
      BY <1>4, <3>2, <3>3
    <3>5. Rising(reads[p])' /\ Rising(queue[p])'
      BY <1>2, <3>2, <3>4 DEF Rising
    <3>6. \A x \in Sample : Holds(reads[p], x)' => Before(x, queue[p])
      BY <1>5, <2>6, <3>2
    <3>7. \A x \in Sample : Holds(reads[p], x)' => Before(x, queue[p])'
      BY <1>2, <2>6, <3>6 DEF Before
    <3> QED BY <2>6, <3>5, <3>7 DEF InLine
  <2> QED BY <2>8, <2>9, <2>10
<1>9. Lined'
  BY <1>8 DEF Lined
<1> QED BY <1>6, <1>7, <1>9 DEF Ordering

\* reroute changes who will be served, and serves nobody twice.
LEMMA ClearRouted ==
  ASSUME Typed, Routing, ClearRoutes
  PROVE  /\ \A p \in Proc : Distinct(routes'[p])
         /\ Shared \/ /\ Distinct(admin'.rest)
                      /\ \A t : ~Holds(routes'[admin'.from], t)
                      /\ \A r \in admin'.pending : Distinct(r[2])
<1>1. PICK r \in admin.pending :
        /\ routes' = [routes EXCEPT ![r[1]] = <<>>]
        /\ admin' = [from |-> r[1], rest |-> r[2], pending |-> admin.pending \ {r}]
  BY DEF ClearRoutes, WithoutRoutes
<1>2. r \in Reroutes
  BY DEF Typed, Administration
<1>3. r[1] \in Proc
  BY <1>2, RuntimeAssumption
<1>4. /\ routes'[r[1]] = <<>> /\ \A p \in Proc \ {r[1]} : routes'[p] = routes[p]
      /\ admin'.from = r[1] /\ admin'.rest = r[2] /\ admin'.pending \subseteq admin.pending
  BY <1>1, <1>3 DEF Typed, TypeOK
<1>5. Distinct(<<>>) /\ \A t : ~Holds(<<>>, t)
  BY DEF Distinct, Holds
<1>6. \A p \in Proc : Distinct(routes'[p])
  BY <1>4, <1>5 DEF Routing
<1>7. \A t : ~Holds(routes'[admin'.from], t)
  BY <1>4, <1>5
<1> QED BY <1>1, <1>4, <1>6, <1>7 DEF Routing

LEMMA RegisterRouted ==
  ASSUME Typed, Routing, RegisterRoute
  PROVE  /\ \A p \in Proc : Distinct(routes'[p])
         /\ Shared \/ /\ Distinct(admin'.rest)
                      /\ \A t : ~(Holds(routes'[admin'.from], t) /\ Holds(admin'.rest, t))
                      /\ \A r \in admin'.pending : Distinct(r[2])
<1>1. /\ admin \in [from : Proc \cup {None}, rest : Seq(Proc), pending : SUBSET Reroutes]
      /\ admin.rest # <<>> /\ admin.rest \in Seq(Proc) /\ admin.from \in Proc
  BY DEF RegisterRoute, Typed, Administration
<1>2. Head(admin.rest) \in Proc
  BY <1>1, TailSeq
<1>3. PICK f \in Proc, t \in Proc :
        /\ f = admin.from /\ t = Head(admin.rest)
        /\ routes' = IF Shared /\ Holds(routes[f], t) THEN routes
                       ELSE [routes EXCEPT ![f] = Append(@, t)]
        /\ admin' = [admin EXCEPT !.rest = Tail(@)]
  BY <1>1, <1>2 DEF RegisterRoute, WithRoute
<1>4. /\ admin'.from = f /\ admin'.rest = Tail(admin.rest) /\ admin'.pending = admin.pending
  BY <1>1, <1>3
<1>5. routes[f] \in Seq(Proc) /\ Distinct(routes[f])
  BY DEF Typed, TypeOK, Routing
<1>6. \A u : Holds(Append(routes[f], t), u) <=> Holds(routes[f], u) \/ u = t
  BY <1>5, HoldsAppend
<1>7. \A u : Holds(admin.rest, u) <=> Holds(Tail(admin.rest), u) \/ u = t
  BY <1>1, <1>3, HoldsTail
<1>8. /\ \A p \in Proc \ {f} : routes'[p] = routes[p]
      /\ \/ routes'[f] = routes[f] /\ Shared
         \/ routes'[f] = Append(routes[f], t) /\ (Shared => ~Holds(routes[f], t))
  BY <1>3 DEF Typed, TypeOK
<1>9. Holds(admin.rest, t) /\ (Shared \/ ~Holds(routes[f], t))
  BY <1>1, <1>3, <1>7 DEF Routing
<1>10. ~Holds(routes[f], t) => Distinct(Append(routes[f], t))
  BY <1>5, DistinctAppend
<1>11. Distinct(routes'[f])
  BY <1>5, <1>8, <1>9, <1>10
<1>12. \A p \in Proc : Distinct(routes'[p])
  BY <1>8, <1>11 DEF Routing
<1>13. CASE Shared
  BY <1>12, <1>13
<1>14. CASE ~Shared
  <2>1. Distinct(admin.rest) /\ \A r \in admin.pending : Distinct(r[2])
    BY <1>14 DEF Routing
  <2>2. Distinct(Tail(admin.rest)) /\ ~Holds(Tail(admin.rest), t)
    BY <1>1, <1>3, <2>1, DistinctTail
  <2>3. routes'[f] = Append(routes[f], t)
    BY <1>8, <1>14
  <2>4. ASSUME NEW u, Holds(Tail(admin.rest), u), Holds(Append(routes[f], t), u)
        PROVE  FALSE
    <3>1. u # t /\ Holds(routes[f], u) /\ Holds(admin.rest, u)
      BY <1>6, <1>7, <2>2, <2>4
    <3>2. u \in Proc
      BY <1>1, <3>1 DEF Holds
    <3> QED BY <1>1, <1>3, <1>14, <3>1, <3>2 DEF Routing
  <2>5. \A u : ~(Holds(routes'[admin'.from], u) /\ Holds(admin'.rest, u))
    BY <1>4, <2>3, <2>4
  <2> QED BY <1>4, <1>12, <2>1, <2>2, <2>5
<1> QED BY <1>13, <1>14

LEMMA RerouteInOrder ==
  ASSUME Typed, Ordering, ClearRoutes \/ RegisterRoute
  PROVE  Ordering'
<1>1. UNCHANGED <<alive, nextSample, queue, pc, cur, todo, sup, author, reads>>
  BY DEF ClearRoutes, RegisterRoute, threadVars, historyVars
<1>2. /\ \A p \in Proc : Distinct(routes'[p])
      /\ Shared \/ /\ Distinct(admin'.rest)
                   /\ \A t \in Proc : ~(Holds(routes'[admin'.from], t) /\ Holds(admin'.rest, t))
                   /\ \A r \in admin'.pending : Distinct(r[2])
  BY ClearRouted, RegisterRouted DEF Ordering
<1>3. \A p \in Proc : Distinct(todo'[p])
  BY <1>1 DEF Ordering, Routing
<1>4. /\ \A p \in Proc : Distinct(routes[p])' /\ Distinct(todo[p])'
      /\ Distinct(admin.rest)' <=> Distinct(admin'.rest)
      /\ \A t \in Proc : /\ Holds(admin.rest, t)' <=> Holds(admin'.rest, t)
                         /\ Holds(routes[admin.from], t)' <=> Holds(routes'[admin'.from], t)
  BY <1>2, <1>3 DEF Distinct, Holds
<1>5. Routing'
  BY <1>2, <1>4 DEF Routing
<1>6. Loans'
  BY <1>1 DEF Ordering, Loans
<1>7. Lined'
  <2>1. nextSample \in Nat
    BY RuntimeAssumption DEF Typed, TypeOK
  <2>2. \A a \in Proc :
          /\ At(a, "lookup")' => At(a, "lookup") /\ cur'[a] = cur[a]
          /\ pc'[a] \in Publishing =>
               pc[a] \in Publishing /\ cur'[a] = cur[a]
                  /\ (At(a, "push") => At(a, "push")' /\ todo'[a] = todo[a])
    BY <1>1 DEF At
  <2> QED BY <1>1, <2>1, <2>2, CalmKept, QuietLined DEF Ordering
<1> QED BY <1>5, <1>6, <1>7 DEF Ordering

\* Neither a death nor a call of crash_process moves a descriptor.
LEMMA DeathInOrder ==
  ASSUME Typed, Ordering, NEW p \in Proc, Die(p) \/ CrashProcess(p)
  PROVE  Ordering'
<1>1. UNCHANGED <<routes, nextSample, queue, pc, cur, todo, admin, author, reads>>
  BY DEF Die, CrashProcess, registryVars, threadVars, historyVars
<1>2. Routing'
  <2>1. \A q \in Proc : Distinct(todo'[q])
    BY <1>1 DEF Ordering, Routing
  <2> QED BY <1>1, <2>1, RoutingKept DEF Ordering
<1>3. Loans'
  BY <1>1 DEF Ordering, Loans
<1>4. Calm' => Calm
  <2>1. CASE Die(p)
    BY <2>1, CalmKept DEF Die, registryVars
  <2>2. CASE CrashProcess(p)
    <3>1. alive' = [alive EXCEPT ![p] = FALSE]
      BY <2>2 DEF CrashProcess
    <3>2. ~alive'[p]
      BY <3>1 DEF Typed, TypeOK
    <3> QED BY <3>2 DEF Calm, Crashed
  <2> QED BY <2>1, <2>2
<1>5. Lined'
  <2>1. nextSample \in Nat
    BY RuntimeAssumption DEF Typed, TypeOK
  <2>2. \A a \in Proc :
          /\ At(a, "lookup")' => At(a, "lookup") /\ cur'[a] = cur[a]
          /\ pc'[a] \in Publishing =>
               pc[a] \in Publishing /\ cur'[a] = cur[a]
                  /\ (At(a, "push") => At(a, "push")' /\ todo'[a] = todo[a])
    BY <1>1 DEF At
  <2> QED BY <1>1, <1>4, <2>1, <2>2, QuietLined DEF Ordering
<1> QED BY <1>2, <1>3, <1>5 DEF Ordering

\* The supervisor moves only when someone was crashed, and on Shared no descriptor.
LEMMA SuperviseInOrder ==
  ASSUME Typed, Ordering, Resting, Supervise
  PROVE  Ordering'
<1>1. /\ sup.at # "idle"
      /\ UNCHANGED <<routes, nextSample, alive, pc, cur, todo, admin, author, reads>>
  BY DEF Supervise, ReclaimOrphans, RemoveOrphan, StartDrain, DrainQueue, DrainPop, DrainPutBack,
         FinishCleanup, registryVars, threadVars, historyVars
<1>2. Routing'
  <2>1. \A q \in Proc : Distinct(todo'[q])
    BY <1>1 DEF Ordering, Routing
  <2> QED BY <1>1, <2>1, RoutingKept DEF Ordering
<1>3. Loans'
  BY <1>1 DEF Ordering, Loans
<1>4. CASE ~Shared
  <2>1. ~Calm'
    BY <1>1, <1>4 DEF Resting, Calm, Crashed
  <2> QED BY <1>2, <1>3, <2>1 DEF Ordering, Lined
<1>5. CASE Shared
  <2>1. queue' = queue
    BY <1>5 DEF Resting, Supervise, ReclaimOrphans, RemoveOrphan, StartDrain, DrainQueue, DrainPop,
                DrainPutBack, FinishCleanup
  <2>2. nextSample \in Nat
    BY RuntimeAssumption DEF Typed, TypeOK
  <2>3. \A a \in Proc :
          /\ At(a, "lookup")' => At(a, "lookup") /\ cur'[a] = cur[a]
          /\ pc'[a] \in Publishing =>
               pc[a] \in Publishing /\ cur'[a] = cur[a]
                  /\ (At(a, "push") => At(a, "push")' /\ todo'[a] = todo[a])
    BY <1>1 DEF At
  <2>4. Lined'
    BY <1>1, <2>1, <2>2, <2>3, CalmKept, QuietLined DEF Ordering
  <2> QED BY <1>2, <1>3, <2>4 DEF Ordering
<1> QED BY <1>4, <1>5

LEMMA AlwaysResting == Spec => []Resting
<1>1. Init => Resting
  BY DEF Init, NoCleanup, Resting
<1>2. TypeOK /\ Supervision /\ Resting /\ [Next]_vars => Resting'
  <2> SUFFICES ASSUME TypeOK, Supervision, Resting, [Next]_vars
               PROVE  Resting'
    OBVIOUS
  <2>1. CASE UNCHANGED <<sup, alive>>
    BY <2>1 DEF Resting, Crashed
  <2>2. ASSUME NEW p \in Proc, CrashProcess(p)
        PROVE  Resting'
    <3>1. /\ alive' = [alive EXCEPT ![p] = FALSE] /\ sup.at = "idle"
          /\ sup' = [sup EXCEPT !.at = "orphans", !.victim = p]
      BY <2>2 DEF CrashProcess
    <3>2. ~alive'[p] /\ sup'.at = "orphans" /\ sup'.victims = sup.victims
      BY <3>1 DEF TypeOK, Supervision
    <3> QED BY <3>2 DEF Resting, Crashed
  <2>3. CASE Supervise
    <3>1. alive' = alive /\ sup.at # "idle"
      BY <2>3 DEF Supervise, ReclaimOrphans, RemoveOrphan, StartDrain, DrainQueue, DrainPop,
                  DrainPutBack, FinishCleanup, registryVars
    <3>2. Crashed' = Crashed /\ Crashed # {}
      BY <3>1 DEF Crashed, Resting
    <3>3. ASSUME Shared
          PROVE  /\ sup'.at \in {"idle", "orphans", "remove", "next"} /\ sup'.victims = {}
                 /\ sup'.at \in {"remove", "next"} => sup'.left = {}
      <4>1. CASE ReclaimOrphans
        <5>1. Orphans(sup.victim) = {}
          BY <3>3 DEF Orphans
        <5> QED BY <4>1, <5>1 DEF ReclaimOrphans, Supervision
      <4>2. CASE StartDrain
        BY <3>3, <4>2 DEF StartDrain, Resting, Supervision
      <4>3. CASE FinishCleanup
        BY <4>3 DEF FinishCleanup, NoCleanup
      <4>4. ~RemoveOrphan /\ ~DrainQueue /\ ~DrainPop /\ ~DrainPutBack
        BY <3>3 DEF RemoveOrphan, DrainQueue, DrainPop, DrainPutBack, Resting
      <4> QED BY <2>3, <4>1, <4>2, <4>3, <4>4 DEF Supervise
    <3> QED BY <3>2, <3>3 DEF Resting
  <2>4. ASSUME NEW p \in Proc, Thread(p) \/ Die(p)
        PROVE  UNCHANGED <<sup, alive>>
    BY <2>4 DEF Thread, Step, Publish, Recv, Release, Loan, GetRoutes, Register, InsertValue,
                MarkPublished, PushDescriptor, Pop, Lookup, MarkReceived, DropGuard, Reclaim,
                RemoveValue, Die, registryVars
  <2>5. CASE ClearRoutes \/ RegisterRoute \/ UNCHANGED vars
    BY <2>1, <2>5 DEF ClearRoutes, RegisterRoute, vars, registryVars
  <2> QED BY <2>1, <2>2, <2>3, <2>4, <2>5 DEF Next
<1>3. Typed => TypeOK /\ Supervision
  BY DEF Typed
<1> QED BY <1>1, <1>2, <1>3, AlwaysTyped, PTL DEF Spec

LEMMA InitInOrder == DistinctTargets /\ Init => Ordering
<1> SUFFICES ASSUME DistinctTargets, Init
             PROVE  Ordering
  OBVIOUS
<1>1. Distinct(<<>>) /\ \A t : ~Holds(<<>>, t)
  BY DEF Distinct, Holds
<1>2. Routing
  BY <1>1 DEF Init, NoReroute, Routing, DistinctTargets
<1>3. Loans
  BY DEF Init, Loans, Publishing
<1>4. \A p \in Proc : reads[p] = <<>> /\ queue[p] = <<>> /\ ~At(p, "lookup")
  BY DEF Init, At
<1>5. Rising(<<>>)
  BY DEF Rising
<1>6. \A p \in Proc : InLine(p) /\ \A x \in Sample : ~Seen(p, x)
  BY <1>1, <1>4, <1>5 DEF InLine, Seen
<1>7. Lined
  BY <1>6 DEF Init, NoCleanup, Lined, Behind
<1> QED BY <1>2, <1>3, <1>7 DEF Ordering

LEMMA OrderingStep == Typed /\ Resting /\ Ordering /\ [Next]_vars => Ordering'
<1> SUFFICES ASSUME Typed, Resting, Ordering, [Next]_vars
             PROVE  Ordering'
  OBVIOUS
<1>1. ASSUME NEW p \in Proc, Thread(p)
      PROVE  Ordering'
  BY <1>1, LoanInOrder, PrepareInOrder, PushInOrder, PopInOrder, LookupInOrder, ReleaseInOrder
     DEF Thread, Step, Publish, Recv
<1>2. ASSUME NEW p \in Proc, Die(p) \/ CrashProcess(p)
      PROVE  Ordering'
  BY <1>2, DeathInOrder
<1>3. CASE Supervise
  BY <1>3, SuperviseInOrder
<1>4. CASE ClearRoutes \/ RegisterRoute
  BY <1>4, RerouteInOrder
<1>5. CASE UNCHANGED vars
  <2>1. UNCHANGED <<routes, nextSample, alive, queue, pc, cur, todo, sup, admin, author, reads>>
    BY <1>5 DEF vars, registryVars, threadVars, historyVars
  <2> QED BY <2>1 DEF Ordering, Routing, Loans, Lined, Calm, InLine, Behind, Seen, Before, Rising,
                      Distinct, Holds, Crashed, At
<1> QED BY <1>1, <1>2, <1>3, <1>4, <1>5 DEF Next

LEMMA OrderingGivesOrder == Ordering => (Calm => OrderedReads)
BY DEF Ordering, Lined, InLine, Rising, OrderedReads

(* Each port hands out the samples of one publisher in the order in which   *)
(* it published them and none twice, through any reroute and any death: on *)
(* Shared always, on Local until crash_process is called, whose drain takes *)
(* descriptors out of a queue and pushes them back behind those that came  *)
(* meanwhile.  No port may be registered twice as a target of one port:    *)
(* publish_value pushes one descriptor for each time.                      *)
THEOREM RuntimeReadsInOrder ==
  DistinctTargets => (Spec => [](Shared \/ Crashed = {} => OrderedReads))
<1> SUFFICES ASSUME DistinctTargets
             PROVE  Spec => [](Shared \/ Crashed = {} => OrderedReads)
  OBVIOUS
<1>1. Init => Ordering
  BY InitInOrder
<1>2. Typed /\ Resting /\ Ordering /\ [Next]_vars => Ordering'
  BY OrderingStep
<1>3. Ordering => (Shared \/ Crashed = {} => OrderedReads)
  BY OrderingGivesOrder DEF Calm
<1> QED BY <1>1, <1>2, <1>3, AlwaysTyped, AlwaysResting, PTL DEF Spec

-----------------------------------------------------------------------------
(* On the Shared backend with one target to a port: nothing is taken away.  *)

Same(seq) == \A i, j \in 1 .. Len(seq) : seq[i] = seq[j]

\* A port has one target at most, at any time.
OneTarget ==
  /\ \A p \in Proc : Len(InitRoutes[p]) <= 1
  /\ \A r \in Reroutes : Same(r[2])

Narrow ==
  /\ \A p \in Proc : Len(routes[p]) <= 1 /\ Len(todo[p]) <= 1
  /\ Same(admin.rest)
  /\ admin.rest # <<>> =>
       \A t, u \in Proc : Holds(routes[admin.from], t) /\ Holds(admin.rest, u) => t = u
  /\ \A r \in admin.pending : Same(r[2])

\* Shared stores the value first; publish then registers, marks and pushes.
Early == {"routes", "insert", "register"}
Late == {"register", "mark", "push"}

Out(s) ==
  \/ \E p \in Proc : Holds(queue[p], s) \/ Holds(guards[p], s)
  \/ \E p \in Proc : cur[p] = s /\ pc[p] \in {"lookup", "received"}

\* The read that is marked first is the last one expected: the record goes with it,
\* and the drop of the guard finds none to count.
Keeps(s) ==
  /\ Out(s) => author[s] \in Proc /\ s \in store /\ ~Stage(s, Early)
  /\ Stage(s, Late) => s \in store
  /\ s \in DOMAIN samples => samples[s].expected <= 1 /\ \A p \in Proc : ~Holds(guards[p], s)

Kept ==
  /\ Narrow
  /\ \A p \in Proc : pc[p] \notin Releasing
  /\ \A s \in Sample : Keeps(s)

\* A step that brings no read of s forward and takes no value away.
LEMMA KeepsKept ==
  ASSUME NEW s \in Sample, Keeps(s), store \subseteq store',
         Out(s)' => Out(s) /\ author'[s] = author[s],
         Stage(s, Early)' => Stage(s, Early) \/ ~Out(s)',
         Stage(s, Late)' => Stage(s, Late) \/ s \in store',
         s \in DOMAIN samples' => samples'[s].expected <= 1 /\ \A p \in Proc : ~Holds(guards[p], s)'
  PROVE  Keeps(s)'
<1>1. Out(s)' => author'[s] \in Proc /\ s \in store' /\ ~Stage(s, Early)'
  BY DEF Keeps
<1>2. Stage(s, Late)' => s \in store'
  BY DEF Keeps
<1>3. s \in DOMAIN samples' => samples'[s].expected <= 1 /\ \A p \in Proc : ~Holds(guards[p], s)'
  OBVIOUS
<1>4. Keeps(s)' <=>
        /\ Out(s)' => author'[s] \in Proc /\ s \in store' /\ ~Stage(s, Early)'
        /\ Stage(s, Late)' => s \in store'
        /\ s \in DOMAIN samples' =>
             samples'[s].expected <= 1 /\ \A p \in Proc : ~Holds(guards[p], s)'
  BY DEF Keeps
<1> QED BY <1>1, <1>2, <1>3, <1>4

LEMMA NarrowKept ==
  ASSUME Narrow, routes' = routes, admin' = admin,
         \A p \in Proc : Len(todo'[p]) <= 1
  PROVE  Narrow'
<1>1. /\ Same(admin.rest)' <=> Same(admin.rest)
      /\ \A t \in Proc : /\ Holds(admin.rest, t)' <=> Holds(admin.rest, t)
                         /\ Holds(routes[admin.from], t)' <=> Holds(routes[admin.from], t)
      /\ \A r : Same(r[2])' <=> Same(r[2])
  BY DEF Same, Holds
<1> QED BY <1>1 DEF Narrow

\* The steps of publish before its push.
LEMMA PublishKeeps ==
  ASSUME Shared, Typed, Loans, Kept, NEW p \in Proc,
         Loan(p) \/ GetRoutes(p) \/ InsertValue(p) \/ Register(p) \/ MarkPublished(p)
  PROVE  Kept'
<1>1. PICK l : pc' = [pc EXCEPT ![p] = l]
  BY DEF Loan, GetRoutes, InsertValue, Register, MarkPublished, Goto
<1>2. /\ pc'[p] = l /\ \A q \in Proc \ {p} : pc'[q] = pc[q]
      /\ UNCHANGED <<routes, queue, guards, admin>> /\ store \subseteq store'
  BY <1>1 DEF Loan, GetRoutes, InsertValue, Register, MarkPublished, registryVars, Typed, TypeOK
<1>3. \/ pc[p] = "idle" /\ l = "routes" /\ Loan(p)
      \/ pc[p] = "routes" /\ l \in {"idle", "insert"} /\ GetRoutes(p)
      \/ pc[p] = "insert" /\ l = "register" /\ InsertValue(p)
      \/ pc[p] = "register" /\ l = "mark" /\ Register(p)
      \/ pc[p] = "mark" /\ l = "push" /\ MarkPublished(p)
  <2> USE <1>2
  <2>1. CASE Loan(p)
    BY <2>1 DEF Loan, Goto, At, Typed, TypeOK
  <2>2. CASE GetRoutes(p)
    BY <2>2 DEF GetRoutes, Goto, At, Typed, TypeOK
  <2>3. CASE InsertValue(p)
    BY <2>3 DEF InsertValue, Goto, At, Typed, TypeOK
  <2>4. CASE Register(p)
    BY <2>4 DEF Register, Goto, At, Typed, TypeOK
  <2>5. CASE MarkPublished(p)
    BY <2>5 DEF MarkPublished, Goto, At, Typed, TypeOK
  <2> QED BY <2>1, <2>2, <2>3, <2>4, <2>5
<1>4. \A q \in Proc : pc'[q] \notin Releasing
  BY <1>2, <1>3 DEF Kept, Releasing
<1>5. Narrow'
  <2>1. \A q \in Proc : todo'[q] = todo[q] \/ todo'[q] = routes[q]
    BY DEF Loan, GetRoutes, InsertValue, Register, MarkPublished, Typed, TypeOK
  <2>2. \A q \in Proc : Len(todo'[q]) <= 1
    BY <2>1 DEF Kept, Narrow
  <2> QED BY <1>2, <2>2, NarrowKept DEF Kept
<1>6. \A s \in Sample : \A q \in Proc : /\ Holds(queue[q], s)' <=> Holds(queue[q], s)
                                        /\ Holds(guards[q], s)' <=> Holds(guards[q], s)
  BY <1>2 DEF Holds
<1>7. ASSUME NEW s \in Sample, Loan(p)
      PROVE  Keeps(s)'
  <2>1. /\ nextSample \in Sample /\ samples' = samples /\ l = "routes" /\ pc[p] = "idle"
        /\ cur' = [cur EXCEPT ![p] = nextSample]
        /\ author' = [author EXCEPT ![nextSample] = p]
    BY <1>2, <1>7, RuntimeAssumption DEF Loan, Goto, At, Typed, TypeOK, Sample
  <2>2. /\ \A q \in Proc \ {p} : cur'[q] = cur[q]
        /\ \A x \in Sample \ {nextSample} : author'[x] = author[x]
        /\ author'[nextSample] = p
    BY <2>1 DEF Typed, TypeOK
  <2>3. Out(s)' => Out(s)
    BY <1>2, <1>6, <2>1, <2>2 DEF Out
  <2>4. s = nextSample => ~Out(s)
    <3>1. nextSample \in Nat
      BY <2>1 DEF Sample
    <3>2. author[nextSample] = None
      BY <2>1, <3>1 DEF Loans
    <3> QED BY <2>1, <3>2, RuntimeAssumption DEF Kept, Keeps
  <2>5. s # nextSample => author'[s] = author[s]
    BY <2>2
  <2>6. ASSUME s # nextSample, NEW P, Stage(s, P)', "routes" \notin P \/ P = Early
        PROVE  Stage(s, P)
    <3>1. author'[s] \in Proc /\ cur'[author[s]] = s /\ pc'[author[s]] \in P
      BY <2>5, <2>6 DEF Stage
    <3>2. author[s] # p
      BY <2>1, <2>6, <3>1 DEF Typed, TypeOK
    <3> QED BY <1>2, <2>2, <2>5, <2>6, <3>1, <3>2 DEF Stage
  <2>7. s # nextSample => (Stage(s, Early)' => Stage(s, Early)) /\ (Stage(s, Late)' => Stage(s, Late))
    BY <2>6 DEF Late
  <2>8. s = nextSample => ~Stage(s, Late)'
    BY <1>2, <2>1, <2>2 DEF Stage, Late
  <2>9. s \in DOMAIN samples' => samples'[s].expected <= 1 /\ \A q \in Proc : ~Holds(guards[q], s)'
    BY <1>6, <2>1 DEF Kept, Keeps
  <2> QED BY <1>2, <2>3, <2>4, <2>5, <2>7, <2>8, <2>9, KeepsKept DEF Kept
<1>8. ASSUME NEW s \in Sample, ~Loan(p)
      PROVE  Keeps(s)'
  <2>1. UNCHANGED <<cur, author>>
    BY <1>8 DEF GetRoutes, InsertValue, Register, MarkPublished, historyVars
  <2>2. Out(s)' => Out(s)
    <3>1. \A q \in Proc : pc'[q] \in {"lookup", "received"} => pc[q] \in {"lookup", "received"}
      BY <1>2, <1>3
    <3> QED BY <1>6, <2>1, <3>1 DEF Out
  <2>3. Stage(s, Early)' => Stage(s, Early)
    <3>1. \A q \in Proc : pc'[q] \in Early => pc[q] \in Early
      BY <1>2, <1>3, <1>8 DEF Early
    <3> QED BY <2>1, <3>1 DEF Stage
  <2>4. Stage(s, Late)' => Stage(s, Late) \/ s \in store'
    <3>1. \A q \in Proc : pc'[q] \in Late => pc[q] \in Late \/ (q = p /\ InsertValue(p))
      BY <1>2, <1>3, <1>8 DEF Late
    <3>2. InsertValue(p) => cur[p] \in store'
      BY DEF InsertValue
    <3> QED BY <2>1, <3>1, <3>2 DEF Stage
  <2>5. ASSUME s \in DOMAIN samples'
        PROVE  samples'[s].expected <= 1 /\ \A q \in Proc : ~Holds(guards[q], s)'
    <3>1. CASE ~Register(p)
      <4>1. CASE MarkPublished(p)
        <5>1. s \in DOMAIN samples /\ samples'[s].expected = samples[s].expected
          BY <2>5, <4>1 DEF MarkPublished, WithPublished, Typed, TypeOK, SampleRecord
        <5> QED BY <1>6, <5>1 DEF Kept, Keeps
      <4>2. CASE ~MarkPublished(p)
        <5>1. samples' = samples
          BY <1>8, <3>1, <4>2 DEF GetRoutes, InsertValue, registryVars
        <5> QED BY <1>6, <2>5, <5>1 DEF Kept, Keeps
      <4> QED BY <4>1, <4>2
    <3>2. CASE Register(p)
      <4>1. CASE s \in DOMAIN samples /\ samples'[s] = samples[s]
        BY <1>6, <4>1 DEF Kept, Keeps
      <4>2. CASE ~(s \in DOMAIN samples /\ samples'[s] = samples[s])
        <5>1. s = cur[p] /\ samples'[s].expected = Len(todo[p])
          BY <2>5, <3>2, <4>2 DEF Register, Expected
        <5>2. Stage(s, Early)
          <6>1. pc[p] = "register"
            BY <3>2 DEF Register, At
          <6>2. author[s] = p
            BY <5>1, <6>1 DEF Loans, Publishing
          <6> QED BY <5>1, <6>1, <6>2 DEF Stage, Early
        <5>3. ~Out(s)
          BY <5>2 DEF Kept, Keeps
        <5> QED BY <1>6, <5>1, <5>3 DEF Out, Kept, Narrow
      <4> QED BY <4>1, <4>2
    <3> QED BY <3>1, <3>2
  <2> QED BY <1>2, <2>1, <2>2, <2>3, <2>4, <2>5, KeepsKept DEF Kept
<1> QED BY <1>4, <1>5, <1>7, <1>8 DEF Kept

\* The push is the first that others know of the sample.
LEMMA PushKeeps ==
  ASSUME Shared, Typed, Loans, Kept, NEW p \in Proc, PushDescriptor(p)
  PROVE  Kept'
<1>0. pc[p] = "push" /\ todo[p] # <<>> /\ todo[p] \in Seq(Proc)
  BY DEF PushDescriptor, At, Typed, TypeOK
<1>1. cur[p] \in Sample /\ author[cur[p]] = p
  BY <1>0 DEF Publishing, Loans, Typed, InHandOf, At
<1>2. Head(todo[p]) \in Proc /\ Tail(todo[p]) \in Seq(Proc) /\ Len(Tail(todo[p])) = Len(todo[p]) - 1
  BY <1>0, TailSeq
<1>3. PICK c \in Proc, x \in Sample, l \in {"idle", "push"} :
        /\ x = cur[p] /\ author[x] = p
        /\ pc' = [pc EXCEPT ![p] = l]
        /\ queue' = [queue EXCEPT ![c] = Append(@, x)]
        /\ todo' = [todo EXCEPT ![p] = Tail(@)]
        /\ UNCHANGED <<routes, samples, store, cur, guards, admin, author>>
  BY <1>1, <1>2 DEF PushDescriptor, Goto, registryVars, historyVars
<1>4. /\ pc'[p] = l /\ todo'[p] = Tail(todo[p])
      /\ \A q \in Proc \ {p} : pc'[q] = pc[q] /\ todo'[q] = todo[q]
      /\ queue[c] \in Seq(Sample) /\ queue'[c] = Append(queue[c], x)
      /\ \A q \in Proc \ {c} : queue'[q] = queue[q]
  BY <1>3 DEF Typed, TypeOK
<1>5. \A q \in Proc : pc'[q] \notin Releasing
  BY <1>4 DEF Kept, Releasing
<1>6. Narrow'
  <2>1. Len(todo'[p]) <= 1
    <3>1. Len(todo[p]) \in Nat /\ Len(todo[p]) <= 1
      BY <1>0 DEF Kept, Narrow
    <3> QED BY <1>2, <1>4, <3>1
  <2>2. \A q \in Proc : Len(todo'[q]) <= 1
    BY <1>4, <2>1 DEF Kept, Narrow
  <2> QED BY <1>3, <2>2, NarrowKept DEF Kept
<1>7. \A q \in Proc : \A s : /\ Holds(guards[q], s)' <=> Holds(guards[q], s)
                             /\ s # x => (Holds(queue[q], s)' <=> Holds(queue[q], s))
  <2>1. \A s : Holds(Append(queue[c], x), s) <=> Holds(queue[c], s) \/ s = x
    BY <1>4, HoldsAppend
  <2>2. \A s : /\ Holds(queue[c], s)' <=> Holds(Append(queue[c], x), s)
               /\ \A q \in Proc \ {c} : Holds(queue[q], s)' <=> Holds(queue[q], s)
    BY <1>4 DEF Holds
  <2>3. \A q \in Proc : \A s : Holds(guards[q], s)' <=> Holds(guards[q], s)
    BY <1>3 DEF Holds
  <2> QED BY <2>1, <2>2, <2>3
<1>8. ASSUME NEW s \in Sample
      PROVE  /\ Stage(s, Early)' => Stage(s, Early) /\ s # x
             /\ Stage(s, Late)' => Stage(s, Late)
  BY <1>0, <1>3, <1>4 DEF Stage, Early, Late
<1>9. ASSUME NEW s \in Sample
      PROVE  s \in DOMAIN samples' => samples'[s].expected <= 1 /\ \A q \in Proc : ~Holds(guards[q], s)'
  BY <1>3, <1>7 DEF Kept, Keeps
<1>10. ASSUME NEW s \in Sample, s # x
       PROVE  Keeps(s)'
  <2>1. Out(s)' => Out(s)
    BY <1>3, <1>4, <1>7, <1>10 DEF Out
  <2> QED BY <1>3, <1>8, <1>9, <2>1, KeepsKept DEF Kept
<1>11. Keeps(x)'
  <2>1. Stage(x, Late)
    BY <1>0, <1>3 DEF Stage, Late
  <2>2. x \in store' /\ author'[x] \in Proc
    BY <1>3, <2>1 DEF Kept, Keeps
  <2> QED BY <1>8, <1>9, <2>2 DEF Keeps
<1> QED BY <1>5, <1>6, <1>10, <1>11 DEF Kept

\* What a step of a thread leaves of publish's and reroute's data.
LEMMA KeptBy ==
  ASSUME Kept, Typed, NEW p \in Proc, pc[p] \in {"idle", "lookup", "received"},
         pc'[p] \in {"idle", "lookup", "received"},
         \A q \in Proc \ {p} : pc'[q] = pc[q] /\ cur'[q] = cur[q],
         UNCHANGED <<routes, todo, admin, author>>, store \subseteq store',
         \A s \in Sample : Out(s)' => Out(s),
         \A s \in Sample : s \in DOMAIN samples' =>
           samples'[s].expected <= 1 /\ \A q \in Proc : ~Holds(guards[q], s)'
  PROVE  Kept'
<1>1. \A q \in Proc : pc'[q] \notin Releasing
  BY DEF Kept, Releasing
<1>2. Narrow'
  BY NarrowKept DEF Kept, Narrow
<1>3. ASSUME NEW s \in Sample
      PROVE  (Stage(s, Early)' => Stage(s, Early)) /\ (Stage(s, Late)' => Stage(s, Late))
  BY DEF Stage, Early, Late
<1>4. ASSUME NEW s \in Sample
      PROVE  Keeps(s)'
  BY <1>3, KeepsKept DEF Kept
<1> QED BY <1>1, <1>2, <1>4 DEF Kept

LEMMA RecvKeeps ==
  ASSUME Shared, Typed, Kept, NEW p \in Proc, Pop(p) \/ Lookup(p)
  PROVE  Kept'
<1>1. UNCHANGED <<routes, samples, store, guards, todo, admin, author>>
  <2>1. UNCHANGED <<routes, samples, store, todo, admin, author>>
    BY DEF Pop, Lookup, registryVars, historyVars
  <2>2. guards' = guards \/ guards' = [guards EXCEPT ![p] = @]
    BY DEF Pop, Lookup
  <2>3. [guards EXCEPT ![p] = @] = guards
    BY DEF Typed, TypeOK
  <2> QED BY <2>1, <2>2, <2>3
<1>2. PICK l : pc' = [pc EXCEPT ![p] = l]
  BY DEF Pop, Lookup, Goto
<1>3. /\ pc[p] \in {"idle", "lookup"} /\ pc'[p] \in {"idle", "lookup", "received"}
      /\ \A q \in Proc \ {p} : pc'[q] = pc[q]
  BY <1>2 DEF Pop, Lookup, Goto, At, Typed, TypeOK
<1>4. \A q \in Proc \ {p} : cur'[q] = cur[q]
  BY DEF Pop, Lookup, Typed, TypeOK
<1>5. \A s \in Sample : \A q \in Proc : Holds(guards[q], s)' <=> Holds(guards[q], s)
  BY <1>1 DEF Holds
<1>6. ASSUME NEW s \in Sample, Out(s)'
      PROVE  Out(s)
  <2>1. CASE Pop(p)
    <3>1. queue[p] \in Seq(Sample) /\ queue[p] # <<>>
      BY <2>1 DEF Pop, Typed, TypeOK
    <3>2. \A y : Holds(queue[p], y) <=> Holds(Tail(queue[p]), y) \/ y = Head(queue[p])
      BY <3>1, HoldsTail
    <3>3. /\ queue'[p] = Tail(queue[p]) /\ cur'[p] = Head(queue[p])
          /\ \A q \in Proc \ {p} : queue'[q] = queue[q]
      BY <2>1 DEF Pop, Typed, TypeOK
    <3>4. \A q \in Proc : Holds(queue[q], s)' => Holds(queue[q], s)
      BY <3>2, <3>3 DEF Holds
    <3> QED BY <1>3, <1>4, <1>5, <1>6, <3>2, <3>3, <3>4 DEF Out
  <2>2. CASE Lookup(p)
    <3>1. queue' = queue /\ cur' = cur /\ pc[p] = "lookup"
      BY <2>2 DEF Lookup, At
    <3>2. \A q \in Proc : Holds(queue[q], s)' <=> Holds(queue[q], s)
      BY <3>1 DEF Holds
    <3> QED BY <1>3, <1>5, <1>6, <3>1, <3>2 DEF Out
  <2> QED BY <2>1, <2>2
<1>7. \A s \in Sample : s \in DOMAIN samples' =>
        samples'[s].expected <= 1 /\ \A q \in Proc : ~Holds(guards[q], s)'
  BY <1>1, <1>5 DEF Kept, Keeps
<1> QED BY <1>1, <1>3, <1>4, <1>6, <1>7, KeptBy

\* mark_received: the record goes.
LEMMA ReceivedKeeps ==
  ASSUME Shared, Typed, Kept, NEW p \in Proc, MarkReceived(p)
  PROVE  Kept'
<1>1. /\ pc[p] = "received" /\ pc' = [pc EXCEPT ![p] = "idle"] /\ cur[p] \in Sample
      /\ guards' = [guards EXCEPT ![p] = Append(@, cur[p])]
      /\ UNCHANGED <<routes, store, queue, cur, todo, admin, author>>
  BY DEF MarkReceived, Goto, At, historyVars, Typed, InHandOf
<1>2. PICK x \in Sample : x = cur[p]
  BY <1>1
<1>3. /\ pc'[p] = "idle" /\ \A q \in Proc \ {p} : pc'[q] = pc[q] /\ guards'[q] = guards[q]
      /\ guards[p] \in Seq(Sample) /\ guards'[p] = Append(guards[p], x)
  BY <1>1, <1>2 DEF Typed, TypeOK
<1>4. x \notin DOMAIN samples' /\ \A s \in DOMAIN samples' : s \in DOMAIN samples /\ samples'[s] = samples[s]
  <2>1. CASE x \notin DOMAIN samples
    BY <1>2, <2>1 DEF MarkReceived
  <2>2. CASE x \in DOMAIN samples
    <3>1. samples[x].completed \in Nat /\ samples[x].expected \in Nat /\ samples[x].expected <= 1
      BY <2>2 DEF Typed, TypeOK, SampleRecord, Kept, Keeps
    <3>2. AllRead(samples[x])
      BY <3>1 DEF AllRead
    <3>3. samples' = Without(samples, x)
      BY <1>2, <2>2, <3>2 DEF MarkReceived
    <3> QED BY <3>3 DEF Without
  <2> QED BY <2>1, <2>2
<1>5. \A s \in Sample : /\ \A q \in Proc : Holds(queue[q], s)' <=> Holds(queue[q], s)
                        /\ \A q \in Proc : Holds(guards[q], s)' => Holds(guards[q], s) \/ (q = p /\ s = x)
  <2>1. \A s : Holds(Append(guards[p], x), s) <=> Holds(guards[p], s) \/ s = x
    BY <1>3, HoldsAppend
  <2>2. \A s : Holds(guards[p], s)' <=> Holds(Append(guards[p], x), s)
    BY <1>3 DEF Holds
  <2>3. \A s : \A q \in Proc \ {p} : Holds(guards[q], s)' <=> Holds(guards[q], s)
    BY <1>3 DEF Holds
  <2>4. \A s : \A q \in Proc : Holds(queue[q], s)' <=> Holds(queue[q], s)
    BY <1>1 DEF Holds
  <2> QED BY <2>1, <2>2, <2>3, <2>4
<1>6. ASSUME NEW s \in Sample, Out(s)'
      PROVE  Out(s)
  BY <1>1, <1>2, <1>3, <1>5, <1>6 DEF Out
<1>7. ASSUME NEW s \in Sample, s \in DOMAIN samples'
      PROVE  samples'[s].expected <= 1 /\ \A q \in Proc : ~Holds(guards[q], s)'
  <2>1. s # x /\ s \in DOMAIN samples /\ samples'[s] = samples[s]
    BY <1>4, <1>7
  <2> QED BY <1>5, <2>1 DEF Kept, Keeps
<1> QED BY <1>1, <1>3, <1>6, <1>7, KeptBy

\* The drop of a guard finds no record; there is nothing to reclaim.
LEMMA DropKeeps ==
  ASSUME Shared, Typed, Kept, NEW p \in Proc, Release(p)
  PROVE  Kept'
<1>1. DropGuard(p)
  BY DEF Release, Reclaim, RemoveValue, At, Kept, Releasing
<1>2. PICK k \in 1 .. Len(guards[p]) :
        /\ guards' = [guards EXCEPT ![p] = RemoveIndex(@, k)]
        /\ cur' = [cur EXCEPT ![p] = guards[p][k]]
        /\ IF guards[p][k] \in DOMAIN samples
             THEN /\ samples' = WithRead(guards[p][k])
                  /\ Goto(p, IF AllRead(samples[guards[p][k]]) THEN "reclaim" ELSE "idle")
             ELSE UNCHANGED <<samples, pc>>
  BY <1>1 DEF DropGuard
<1>3. guards[p] \in Seq(Sample) /\ guards[p][k] \in Sample /\ Holds(guards[p], guards[p][k])
  BY DEF Typed, TypeOK, Holds
<1>4. guards[p][k] \notin DOMAIN samples
  BY <1>3 DEF Kept, Keeps
<1>5. /\ pc[p] = "idle" /\ UNCHANGED <<routes, samples, store, pc, queue, todo, admin, author>>
      /\ \A q \in Proc \ {p} : cur'[q] = cur[q] /\ guards'[q] = guards[q]
      /\ guards'[p] = RemoveIndex(guards[p], k)
  BY <1>1, <1>2, <1>4 DEF DropGuard, At, historyVars, Typed, TypeOK
<1>6. \A s \in Sample : Holds(RemoveIndex(guards[p], k), s) => Holds(guards[p], s)
  <2>1. IsWithout(RemoveIndex(guards[p], k), guards[p], k)
    BY <1>3, RemoveIndexIsWithout
  <2> QED BY <1>3, <2>1 DEF IsWithout, Holds
<1>7. \A s \in Sample : \A q \in Proc : /\ Holds(queue[q], s)' <=> Holds(queue[q], s)
                                        /\ Holds(guards[q], s)' => Holds(guards[q], s)
  BY <1>5, <1>6 DEF Holds
<1>8. ASSUME NEW s \in Sample, Out(s)'
      PROVE  Out(s)
  BY <1>5, <1>7, <1>8 DEF Out
<1>9. \A s \in Sample : s \in DOMAIN samples' =>
        samples'[s].expected <= 1 /\ \A q \in Proc : ~Holds(guards[q], s)'
  BY <1>5, <1>7 DEF Kept, Keeps
<1> QED BY <1>5, <1>8, <1>9, KeptBy

\* What moves no descriptor, no guard and no thread leaves Keeps as it was.
LEMMA QuietKeeps ==
  ASSUME Kept, Narrow', UNCHANGED <<store, queue, pc, cur, guards, author>>,
         \A s \in DOMAIN samples' : s \in DOMAIN samples /\ samples'[s] = samples[s]
  PROVE  Kept'
<1>1. \A p \in Proc : pc'[p] \notin Releasing
  BY DEF Kept
<1>2. \A s \in Sample : \A p \in Proc : /\ Holds(queue[p], s)' <=> Holds(queue[p], s)
                                        /\ Holds(guards[p], s)' <=> Holds(guards[p], s)
  BY DEF Holds
<1>3. ASSUME NEW s \in Sample
      PROVE  Keeps(s)'
  <2>1. /\ Out(s)' <=> Out(s)
        /\ Stage(s, Early)' <=> Stage(s, Early)
        /\ Stage(s, Late)' <=> Stage(s, Late)
    BY <1>2 DEF Out, Stage, Early, Late
  <2>2. s \in DOMAIN samples' => samples'[s].expected <= 1 /\ \A p \in Proc : ~Holds(guards[p], s)'
    BY <1>2 DEF Kept, Keeps
  <2> QED BY <2>1, <2>2, KeepsKept DEF Kept
<1> QED BY <1>1, <1>3 DEF Kept

\* reroute leaves a port with one target, if its list names one.
LEMMA ClearNarrow ==
  ASSUME Typed, Narrow, ClearRoutes
  PROVE  Narrow'
<1>1. PICK r \in admin.pending :
        /\ routes' = [routes EXCEPT ![r[1]] = <<>>]
        /\ admin' = [from |-> r[1], rest |-> r[2], pending |-> admin.pending \ {r}]
        /\ todo' = todo
  BY DEF ClearRoutes, WithoutRoutes, threadVars
<1>2. r[1] \in Proc
  BY RuntimeAssumption DEF Typed, Administration
<1>3. /\ routes'[r[1]] = <<>> /\ \A p \in Proc \ {r[1]} : routes'[p] = routes[p]
      /\ admin'.from = r[1] /\ admin'.rest = r[2] /\ admin'.pending \subseteq admin.pending
  BY <1>1, <1>2 DEF Typed, TypeOK
<1>4. Same(r[2]) /\ \A x \in admin'.pending : Same(x[2])
  BY <1>3 DEF Narrow
<1>5. \A p \in Proc : Len(routes'[p]) <= 1 /\ Len(todo'[p]) <= 1
  BY <1>1, <1>3 DEF Narrow
<1>6. \A t : ~Holds(routes[admin.from], t)'
  BY <1>3 DEF Holds
<1>7. Same(admin.rest)' /\ \A x \in admin'.pending : Same(x[2])'
  BY <1>3, <1>4 DEF Same
<1> QED BY <1>5, <1>6, <1>7 DEF Narrow

LEMMA RegisterNarrow ==
  ASSUME Shared, Typed, Narrow, RegisterRoute
  PROVE  Narrow'
<1>1. /\ admin \in [from : Proc \cup {None}, rest : Seq(Proc), pending : SUBSET Reroutes]
      /\ admin.rest # <<>> /\ admin.rest \in Seq(Proc) /\ admin.from \in Proc
  BY DEF RegisterRoute, Typed, Administration
<1>2. Head(admin.rest) \in Proc
  BY <1>1, TailSeq
<1>3. PICK f \in Proc, t \in Proc :
        /\ f = admin.from /\ t = Head(admin.rest)
        /\ routes' = IF Holds(routes[f], t) THEN routes
                       ELSE [routes EXCEPT ![f] = Append(@, t)]
        /\ admin' = [admin EXCEPT !.rest = Tail(@)]
        /\ todo' = todo
  BY <1>1, <1>2 DEF RegisterRoute, WithRoute, threadVars
<1>4. /\ admin'.from = f /\ admin'.rest = Tail(admin.rest) /\ admin'.pending = admin.pending
  BY <1>1, <1>3
<1>5. routes[f] \in Seq(Proc) /\ Len(routes[f]) <= 1
  BY DEF Typed, TypeOK, Narrow
<1>6. \A u : Holds(admin.rest, u) <=> Holds(Tail(admin.rest), u) \/ u = t
  BY <1>1, <1>3, HoldsTail
<1>7. \A u, v \in Proc : Holds(admin.rest, u) /\ Holds(admin.rest, v) => u = v
  BY DEF Narrow, Same, Holds
<1>8. \A p \in Proc \ {f} : routes'[p] = routes[p]
  BY <1>3 DEF Typed, TypeOK
<1>9. /\ Len(routes'[f]) <= 1
      /\ \A u, v \in Proc : Holds(routes'[f], u) /\ Holds(Tail(admin.rest), v) => u = v
  <2>1. CASE Holds(routes[f], t)
    <3>1. routes'[f] = routes[f]
      BY <1>3, <2>1
    <3>2. \A u, v \in Proc : Holds(routes[f], u) /\ Holds(admin.rest, v) => u = v
      BY <1>1, <1>3 DEF Narrow
    <3> QED BY <1>5, <1>6, <3>1, <3>2
  <2>2. CASE ~Holds(routes[f], t)
    <3>1. routes'[f] = Append(routes[f], t)
      BY <1>3, <2>2 DEF Typed, TypeOK
    <3>2. ASSUME Len(routes[f]) # 0
          PROVE  FALSE
      <4>1. 1 \in 1 .. Len(routes[f]) /\ routes[f][1] \in Proc
        BY <1>5, <3>2
      <4>2. Holds(routes[f], routes[f][1]) /\ Holds(admin.rest, t)
        BY <1>6, <4>1 DEF Holds
      <4>3. routes[f][1] = t
        BY <1>1, <1>3, <4>1, <4>2 DEF Narrow
      <4> QED BY <2>2, <4>2, <4>3
    <3>3. Len(routes'[f]) = 1
      BY <1>5, <3>1, <3>2
    <3>4. \A u : Holds(Append(routes[f], t), u) <=> Holds(routes[f], u) \/ u = t
      BY <1>5, HoldsAppend
    <3>5. \A u : ~Holds(routes[f], u)
      BY <3>2, <1>5 DEF Holds
    <3> QED BY <1>6, <1>7, <3>1, <3>3, <3>4, <3>5
  <2> QED BY <2>1, <2>2
<1>10. Same(Tail(admin.rest))
  <2>1. /\ Len(Tail(admin.rest)) = Len(admin.rest) - 1 /\ Len(admin.rest) \in Nat \ {0}
        /\ \A i \in 1 .. Len(admin.rest) - 1 : Tail(admin.rest)[i] = admin.rest[i + 1]
    BY <1>1, TailSeq
  <2>2. Same(admin.rest)
    BY DEF Narrow
  <2>3. PICK q : q = Tail(admin.rest)
    OBVIOUS
  <2>4. ASSUME NEW i \in 1 .. Len(admin.rest) - 1, NEW j \in 1 .. Len(admin.rest) - 1
        PROVE  q[i] = q[j]
    <3>1. i + 1 \in 1 .. Len(admin.rest) /\ j + 1 \in 1 .. Len(admin.rest)
      BY <2>1
    <3> QED BY <2>1, <2>2, <2>3, <3>1 DEF Same
  <2>5. Same(q)
    BY <2>1, <2>3, <2>4 DEF Same
  <2> QED BY <2>3, <2>5
<1>11. \A p \in Proc : Len(routes'[p]) <= 1 /\ Len(todo'[p]) <= 1
  BY <1>3, <1>8, <1>9 DEF Narrow
<1>12. /\ Same(admin.rest)' <=> Same(Tail(admin.rest))
       /\ \A r : Same(r[2])' <=> Same(r[2])
       /\ \A u : /\ Holds(routes[admin.from], u)' <=> Holds(routes'[f], u)
                 /\ Holds(admin.rest, u)' <=> Holds(Tail(admin.rest), u)
  BY <1>4 DEF Same, Holds
<1>13. \A r \in admin'.pending : Same(r[2])'
  BY <1>4, <1>12 DEF Narrow
<1> QED BY <1>9, <1>10, <1>11, <1>12, <1>13 DEF Narrow

\* What is not a thread's step.
LEMMA OthersKeep ==
  ASSUME Shared, Typed, Resting, Kept,
         \/ ClearRoutes \/ RegisterRoute \/ Supervise \/ UNCHANGED vars
         \/ \E p \in Proc : Die(p) \/ CrashProcess(p)
  PROVE  Kept'
<1>1. CASE ClearRoutes \/ RegisterRoute
  <2>1. UNCHANGED <<samples, store, queue, pc, cur, guards, author>>
    BY <1>1 DEF ClearRoutes, RegisterRoute, threadVars, historyVars
  <2>2. Narrow'
    BY <1>1, ClearNarrow, RegisterNarrow DEF Kept
  <2> QED BY <2>1, <2>2, QuietKeeps
<1>2. CASE \E p \in Proc : Die(p) \/ CrashProcess(p)
  <2>1. UNCHANGED <<routes, admin, todo, samples, store, queue, pc, cur, guards, author>>
    BY <1>2 DEF Die, CrashProcess, registryVars, threadVars, historyVars
  <2>2. Narrow'
    <3>1. \A p \in Proc : Len(todo'[p]) <= 1
      BY <2>1 DEF Kept, Narrow
    <3> QED BY <2>1, <3>1, NarrowKept DEF Kept
  <2> QED BY <2>1, <2>2, QuietKeeps
<1>3. CASE Supervise
  <2>1. UNCHANGED <<routes, admin, todo, pc, cur, guards, author>>
    BY <1>3 DEF Supervise, ReclaimOrphans, RemoveOrphan, StartDrain, DrainQueue, DrainPop,
                DrainPutBack, FinishCleanup, registryVars, threadVars, historyVars
  <2>2. UNCHANGED <<store, queue>>
    BY <1>3 DEF Resting, Supervise, ReclaimOrphans, RemoveOrphan, StartDrain, DrainQueue, DrainPop,
                DrainPutBack, FinishCleanup
  <2>3. \A s \in DOMAIN samples' : s \in DOMAIN samples /\ samples'[s] = samples[s]
    BY <1>3 DEF Supervise, ReclaimOrphans, RemoveOrphan, StartDrain, DrainQueue, DrainPop,
                DrainPutBack, FinishCleanup, registryVars
  <2>4. Narrow'
    <3>1. \A p \in Proc : Len(todo'[p]) <= 1
      BY <2>1 DEF Kept, Narrow
    <3> QED BY <2>1, <3>1, NarrowKept DEF Kept
  <2> QED BY <2>1, <2>2, <2>3, <2>4, QuietKeeps
<1>4. CASE UNCHANGED vars
  <2>1. UNCHANGED <<routes, admin, todo, samples, store, queue, pc, cur, guards, author>>
    BY <1>4 DEF vars, registryVars, threadVars, historyVars
  <2>2. Narrow'
    <3>1. \A p \in Proc : Len(todo'[p]) <= 1
      BY <2>1 DEF Kept, Narrow
    <3> QED BY <2>1, <3>1, NarrowKept DEF Kept
  <2> QED BY <2>1, <2>2, QuietKeeps
<1> QED BY <1>1, <1>2, <1>3, <1>4

LEMMA KeptStep ==
  Shared /\ Typed /\ Resting /\ Loans /\ Kept /\ [Next]_vars => Kept'
<1> SUFFICES ASSUME Shared, Typed, Resting, Loans, Kept, [Next]_vars
             PROVE  Kept'
  OBVIOUS
<1>1. ASSUME NEW p \in Proc, Thread(p)
      PROVE  Kept'
  BY <1>1, PublishKeeps, PushKeeps, RecvKeeps, ReceivedKeeps, DropKeeps
     DEF Thread, Step, Publish, Recv
<1> QED BY <1>1, OthersKeep DEF Next

LEMMA InitKept == OneTarget /\ Init => Kept
<1> SUFFICES ASSUME OneTarget, Init
             PROVE  Kept
  OBVIOUS
<1>1. Narrow
  BY DEF Init, NoReroute, OneTarget, Narrow, Same
<1>2. \A p \in Proc : pc[p] = "idle" /\ queue[p] = <<>> /\ guards[p] = <<>>
  BY DEF Init
<1>3. ASSUME NEW s \in Sample
      PROVE  Keeps(s)
  <2>1. ~Out(s)
    BY <1>2 DEF Out, Holds
  <2>2. ~Stage(s, Late) /\ s \notin DOMAIN samples
    BY <1>2 DEF Init, Stage, Late
  <2> QED BY <2>1, <2>2 DEF Keeps
<1> QED BY <1>1, <1>2, <1>3 DEF Kept, Releasing

LEMMA KeptIsLive == Kept => LiveReferences
<1> SUFFICES ASSUME Kept, NEW s \in Sample,
                    Places(queue, s) # {} \/ InHand(s) # {} \/ Places(guards, s) # {}
             PROVE  s \in store
  BY DEF LiveReferences
<1>1. Out(s)
  <2>1. CASE Places(queue, s) # {} \/ Places(guards, s) # {}
    BY <2>1 DEF Places, Holds, Out
  <2>2. CASE InHand(s) # {}
    BY <2>2 DEF InHand, Out
  <2> QED BY <2>1, <2>2
<1> QED BY <1>1 DEF Kept, Keeps

LEMMA OneTargetIsDistinct == Shared /\ OneTarget => DistinctTargets
<1> SUFFICES ASSUME Shared, OneTarget, NEW p \in Proc
             PROVE  Distinct(InitRoutes[p])
  BY DEF DistinctTargets
<1>1. Len(InitRoutes[p]) \in Nat /\ Len(InitRoutes[p]) <= 1
  BY RuntimeAssumption DEF OneTarget
<1> QED BY <1>1 DEF Distinct

(* What readers get on the Local backend is sound: its value is in the      *)
(* store for as long as they may look, whatever dies, and until            *)
(* crash_process is called it comes in the order of its publication.       *)
THEOREM RuntimeSoundReads ==
  ~Shared /\ DistinctTargets => (Spec => []LiveReferences /\ [](Crashed = {} => SoundReads))
<1> SUFFICES ASSUME ~Shared, DistinctTargets
             PROVE  Spec => []LiveReferences /\ [](Crashed = {} => SoundReads)
  OBVIOUS
<1>1. IInv => LiveReferences
  BY AccountKeepsValues
<1>2. Spec => []IInv
  BY AlwaysAccounted
<1>3. Spec => [](Crashed = {} => OrderedReads)
  <2>1. (Shared \/ Crashed = {} => OrderedReads) => (Crashed = {} => OrderedReads)
    OBVIOUS
  <2> QED BY <2>1, RuntimeReadsInOrder, PTL
<1>4. LiveReferences /\ (Crashed = {} => OrderedReads) => (Crashed = {} => SoundReads)
  BY DEF SoundReads
<1> QED BY <1>1, <1>2, <1>3, <1>4, PTL

(* What readers get on the Shared backend is sound where a port has one     *)
(* target at most: nothing takes the value away, not even the death of its *)
(* publisher and the clean-up after it, and the order is always kept.      *)
(* With a second target the record goes at the first read's guard, and     *)
(* its value before the second read.                                       *)
THEOREM RuntimeSharedSoundReads == Shared /\ OneTarget => (Spec => []SoundReads)
<1> SUFFICES ASSUME Shared, OneTarget
             PROVE  Spec => []SoundReads
  OBVIOUS
<1>1. DistinctTargets
  BY OneTargetIsDistinct
<1>2. Init => Ordering /\ Kept
  BY <1>1, InitInOrder, InitKept
<1>3. Typed /\ Resting /\ (Ordering /\ Kept) /\ [Next]_vars => (Ordering /\ Kept)'
  <2>1. Ordering => Loans
    BY DEF Ordering
  <2> QED BY <2>1, OrderingStep, KeptStep
<1>4. Ordering /\ Kept => SoundReads
  BY OrderingGivesOrder, KeptIsLive DEF SoundReads, Calm
<1> QED BY <1>2, <1>3, <1>4, AlwaysTyped, AlwaysResting, PTL DEF Spec
=============================================================================
