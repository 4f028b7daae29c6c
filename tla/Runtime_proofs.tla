---------------------------- MODULE Runtime_proofs ---------------------------
(***************************************************************************)
(* The data plane on the Local backend, for any finite set of processes,   *)
(* any routes and reroutes, any queue size and any deaths and crash calls: *)
(* the counters of a live sample tell exactly how many reads are to come,  *)
(* and whoever may still look at a published value finds it.               *)
(*                                                                         *)
(* The argument is one account per sample.  Unsent counts the pushes its   *)
(* publisher still owes, Away the reads under way; a step moves a read     *)
(* from one place to the next (what Away and Unsent become is computed     *)
(* once per action), and only the drop of a guard completes it (Recorded). *)
(* A sample without a record is therefore unborn (Fresh, Unpublished), the *)
(* sample of a crashed process, or done with (Settled).                    *)
(***************************************************************************)
EXTENDS Runtime, SequenceTheorems, FiniteSetTheorems, FunctionTheorems, TLAPS

-----------------------------------------------------------------------------
\* The types, with those of the callers whose steps the invariants do not name.
SupPoint == {"idle", "orphans", "remove", "next", "pop", "putback"}

Supervision ==
  /\ sup \in [at : SupPoint, victim : Proc \cup {None}, victims : SUBSET Sample,
              left : SUBSET (Sample \cup Proc), at_queue : Proc \cup {None},
              valid : Seq(Sample), done : SUBSET Proc]
  /\ sup.at # "idle" => sup.victim \in Proc
  /\ sup.at \in {"next", "pop", "putback"} => sup.left \subseteq Proc
  /\ sup.at \in {"pop", "putback"} => sup.at_queue \in Proc
  /\ sup.at \notin {"pop", "putback"} => sup.valid = <<>>

Administration ==
  /\ admin \in [from : Proc \cup {None}, rest : Seq(Proc), pending : SUBSET Reroutes]
  /\ admin.rest # <<>> => admin.from \in Proc

InHandOf(p) == ~At(p, "idle") => cur[p] \in Sample

Typed == /\ TypeOK /\ Supervision /\ Administration
         /\ \A p \in Proc : InHandOf(p)

-----------------------------------------------------------------------------
\* What a call knows: whose sample it publishes, and that targets wait only then.
Publishing == {"routes", "register", "insert", "mark", "push"}
Serving == {"register", "insert", "mark", "push"}
Releasing == {"reclaim", "remove"}

Call(p) ==
  /\ pc[p] \in Publishing => author[cur[p]] = p
  /\ pc[p] \notin Serving => todo[p] = <<>>
  /\ ~At(p, "received")

\* The reads of s under way: queued, put aside by the drain, popped, or guarded.
Away(s) == Cardinality(Places(queue, s)) + Cardinality(PutAside(s))
             + Cardinality(InHand(s)) + Cardinality(Places(guards, s))

\* The author of s is in its publish, at one of these points.
Stage(s, points) == author[s] \in Proc /\ cur[author[s]] = s /\ pc[author[s]] \in points

Loaned(s) == author[s] \in Proc <=> s < nextSample

\* Before its record is made nothing knows of s; before its value is complete
\* nobody reads it.
Fresh(s) == s >= nextSample \/ Stage(s, {"routes", "register"}) =>
              s \notin DOMAIN samples /\ s \notin sup.victims
Unpublished(s) ==
  s >= nextSample \/ Stage(s, {"routes", "register", "insert", "mark"}) =>
    Away(s) = 0 /\ \A p \in Proc : cur[p] = s => pc[p] \notin Releasing

\* A live sample: its counters are exact and its value is in the store.
Recorded(s) ==
  s \in DOMAIN samples =>
    /\ samples[s].owner = author[s]
    /\ samples[s].completed + Unsent(s) + Away(s) = samples[s].expected
    /\ s \in store \/ Stage(s, {"insert"})

\* A sample whose record is gone is done with, or its publisher was crashed.
Settled(s) ==
  s \notin DOMAIN samples /\ s < nextSample /\ ~Stage(s, {"routes", "register"}) =>
    Unsent(s) + Away(s) = 0 \/ author[s] \in Crashed

\* Whoever releases a sample is the last: nobody will read it.
Released(s) ==
  \A p \in Proc : cur[p] = s /\ pc[p] \in Releasing =>
    /\ Unsent(s) + Away(s) = 0
    /\ At(p, "remove") => s \notin DOMAIN samples

Counts(s) == Loaned(s) /\ Fresh(s) /\ Unpublished(s) /\ Recorded(s) /\ Settled(s) /\ Released(s)

\* The supervisor takes the samples of crashed processes only.
Victims ==
  /\ sup.at = "orphans" => sup.victim \in Crashed
  /\ \A s \in sup.victims : s \notin DOMAIN samples /\ author[s] \in Crashed
  /\ sup.at = "remove" => sup.left \subseteq sup.victims

Account == /\ \A p \in Proc : Call(p)
           /\ \A s \in Sample : Counts(s)
           /\ Victims

\* The inductive invariant.
IInv == Typed /\ Account

-----------------------------------------------------------------------------
\* Sequences: what Append, Tail and RemoveIndex do to the elements.
LEMMA AppendSeq ==
  ASSUME NEW S, NEW q \in Seq(S), NEW x \in S
  PROVE  /\ Append(q, x) \in Seq(S) /\ Len(Append(q, x)) = Len(q) + 1 /\ Len(q) \in Nat
         /\ \A i \in 1 .. Len(q) : Append(q, x)[i] = q[i]
         /\ Append(q, x)[Len(q) + 1] = x
OBVIOUS

LEMMA TailSeq ==
  ASSUME NEW S, NEW q \in Seq(S), q # <<>>
  PROVE  /\ Tail(q) \in Seq(S) /\ Len(Tail(q)) = Len(q) - 1 /\ Len(q) \in Nat \ {0}
         /\ \A i \in 1 .. Len(q) - 1 : Tail(q)[i] = q[i + 1]
         /\ Head(q) = q[1] /\ Head(q) \in S
OBVIOUS

\* q without its k-th element
IsWithout(r, q, k) ==
  /\ Len(r) = Len(q) - 1
  /\ \A j \in 1 .. Len(r) : r[j] = IF j < k THEN q[j] ELSE q[j + 1]

LEMMA TailIsWithout ==
  ASSUME NEW S, NEW q \in Seq(S), q # <<>>
  PROVE  1 \in 1 .. Len(q) /\ IsWithout(Tail(q), q, 1)
BY TailSeq DEF IsWithout

LEMMA RemoveIndexIsWithout ==
  ASSUME NEW S, NEW q \in Seq(S), NEW k \in 1 .. Len(q)
  PROVE  RemoveIndex(q, k) \in Seq(S) /\ IsWithout(RemoveIndex(q, k), q, k)
<1> DEFINE a == SubSeq(q, 1, k - 1)
           b == SubSeq(q, k + 1, Len(q))
<1>0. k \in Nat /\ Len(q) \in Nat /\ 1 <= k /\ k <= Len(q)
  OBVIOUS
<1>1. a \in Seq(S) /\ Len(a) = k - 1 /\ \A i \in 1 .. k - 1 : a[i] = q[i]
  OBVIOUS
<1>2. b \in Seq(S) /\ Len(b) = Len(q) - k /\ \A i \in 1 .. Len(q) - k : b[i] = q[k + i]
  OBVIOUS
<1> HIDE DEF a, b
<1>3. /\ a \o b \in Seq(S) /\ Len(a \o b) = Len(q) - 1
      /\ \A i \in 1 .. Len(a \o b) : (a \o b)[i] = IF i <= k - 1 THEN a[i] ELSE b[i - (k - 1)]
  <2>1. /\ a \o b \in Seq(S) /\ Len(a \o b) = Len(a) + Len(b)
        /\ \A i \in 1 .. Len(a) + Len(b) : (a \o b)[i] =
                                IF i <= Len(a) THEN a[i] ELSE b[i - Len(a)]
    BY <1>1, <1>2, ConcatProperties
  <2>2. Len(a) + Len(b) = Len(q) - 1
    BY <1>0, <1>1, <1>2
  <2> QED BY <1>1, <2>1, <2>2
<1>4. ASSUME NEW i \in 1 .. Len(q) - 1
      PROVE  (a \o b)[i] = IF i < k THEN q[i] ELSE q[i + 1]
  <2>1. CASE i < k
    BY <2>1, <1>0, <1>1, <1>3
  <2>2. CASE i >= k
    <3>1. i - (k - 1) \in 1 .. Len(q) - k /\ k + (i - (k - 1)) = i + 1
      BY <2>2, <1>0
    <3>2. b[i - (k - 1)] = q[k + (i - (k - 1))]
      BY <3>1, <1>2
    <3>3. i \in 1 .. Len(a \o b) /\ ~(i <= k - 1) /\ ~(i < k)
      BY <2>2, <1>0, <1>3
    <3>4. (a \o b)[i] = b[i - (k - 1)]
      BY <3>3, <1>3
    <3> QED BY <3>1, <3>2, <3>3, <3>4
  <2>3. i < k \/ i >= k
    BY <1>0
  <2> QED BY <2>1, <2>2, <2>3
<1>5. RemoveIndex(q, k) = a \o b
  BY DEF RemoveIndex, a, b
<1> QED BY <1>3, <1>4, <1>5 DEF IsWithout

-----------------------------------------------------------------------------
\* Counting: the places of a sample in a sequence, and in one per process.
Spots(v, s) == {i \in 1 .. Len(v) : v[i] = s}
One(b) == IF b THEN 1 ELSE 0

LEMMA SpotsFinite ==
  ASSUME NEW v \in Seq(Sample), NEW s
  PROVE  IsFiniteSet(Spots(v, s)) /\ Cardinality(Spots(v, s)) \in Nat
<1>1. IsFiniteSet(1 .. Len(v)) /\ Spots(v, s) \subseteq 1 .. Len(v)
  BY FS_Interval DEF Spots
<1> QED BY <1>1, FS_Subset, FS_CardinalityType

LEMMA SpotsAppend ==
  ASSUME NEW v \in Seq(Sample), NEW x \in Sample, NEW s
  PROVE  Cardinality(Spots(Append(v, x), s)) = Cardinality(Spots(v, s)) + One(x = s)
<1>1. CASE x = s
  <2>1. Spots(Append(v, x), s) = Spots(v, s) \cup {Len(v) + 1}
    BY <1>1, AppendSeq DEF Spots
  <2>2. Len(v) + 1 \notin Spots(v, s)
    BY DEF Spots
  <2> QED BY <1>1, <2>1, <2>2, SpotsFinite, FS_AddElement DEF One
<1>2. CASE x # s
  <2>1. Spots(Append(v, x), s) = Spots(v, s)
    BY <1>2, AppendSeq DEF Spots
  <2> QED BY <1>2, <2>1, SpotsFinite DEF One
<1> QED BY <1>1, <1>2

LEMMA SpotsTail ==
  ASSUME NEW v \in Seq(Sample), v # <<>>, NEW s
  PROVE  Cardinality(Spots(Tail(v), s)) = Cardinality(Spots(v, s)) - One(Head(v) = s)
<1> DEFINE S == Spots(Tail(v), s)
           T == Spots(v, s) \ {1}
           h == [i \in S |-> i + 1]
<1>1. \A i \in S : h[i] \in T
  BY TailSeq DEF Spots
<1>2. \A i, j \in S : h[i] = h[j] => i = j
  BY DEF Spots
<1>3. \A j \in T : \E i \in S : h[i] = j
  <2> TAKE j \in T
  <2>1. j - 1 \in S /\ h[j - 1] = j
    BY TailSeq DEF Spots
  <2> QED BY <2>1
<1>4. h \in Bijection(S, T)
  BY <1>1, <1>2, <1>3 DEF Bijection, Injection, Surjection, IsInjective
<1>5. ExistsBijection(S, T)
  BY <1>4 DEF ExistsBijection
<1>6. Tail(v) \in Seq(Sample)
  BY TailSeq
<1>7. IsFiniteSet(S) /\ Cardinality(T) = Cardinality(S)
  BY <1>5, <1>6, SpotsFinite, FS_Bijection
<1>8. Cardinality(T) = IF 1 \in Spots(v, s) THEN Cardinality(Spots(v, s)) - 1
                                             ELSE Cardinality(Spots(v, s))
  BY SpotsFinite, FS_RemoveElement
<1>9. 1 \in Spots(v, s) <=> Head(v) = s
  BY TailSeq DEF Spots
<1> QED BY <1>7, <1>8, <1>9, SpotsFinite DEF One

\* g is f with x put at the end of p's sequence, or with the k-th element taken out.
Grown(g, f, p, x) ==
  /\ g \in [Proc -> Seq(Sample)]
  /\ \A q \in Proc : q # p => g[q] = f[q]
  /\ g[p] = Append(f[p], x)
Shrunk(g, f, p, k) ==
  /\ g \in [Proc -> Seq(Sample)]
  /\ \A q \in Proc : q # p => g[q] = f[q]
  /\ k \in 1 .. Len(f[p]) /\ IsWithout(g[p], f[p], k)

LEMMA InPlaces ==
  ASSUME NEW f \in [Proc -> Seq(Sample)], NEW s, NEW e
  PROVE  e \in Places(f, s) <=>
           \E p \in Proc : \E i \in 1 .. Len(f[p]) : e = <<p, i>> /\ f[p][i] = s
BY DEF Places

LEMMA PlacesFinite ==
  ASSUME NEW f \in [Proc -> Seq(Sample)], NEW s
  PROVE  /\ IsFiniteSet(Places(f, s)) /\ Cardinality(Places(f, s)) \in Nat
         /\ Cardinality(Places(f, s)) = 0 <=> Places(f, s) = {}
<1> DEFINE F(p) == {<<p, i>> : i \in {j \in 1 .. Len(f[p]) : f[p][j] = s}}
           T == {F(p) : p \in Proc}
           g == [p \in Proc |-> F(p)]
<1>1. IsFiniteSet(T)
  <2>0. g \in [Proc -> T] /\ \A t \in T : \E p \in Proc : g[p] = t
    OBVIOUS
  <2>1. g \in Surjection(Proc, T)
    BY <2>0 DEF Surjection
  <2> QED BY <2>1, FS_Surjection, RuntimeAssumption
<1>2. ASSUME NEW p \in Proc
      PROVE  IsFiniteSet(F(p))
  <2>1. F(p) \subseteq {p} \X (1 .. Len(f[p]))
    OBVIOUS
  <2>2. IsFiniteSet({p}) /\ IsFiniteSet(1 .. Len(f[p]))
    <3>1. Len(f[p]) \in Int
      OBVIOUS
    <3>2. IsFiniteSet({p})
      BY FS_Singleton
    <3>3. IsFiniteSet(1 .. Len(f[p]))
      BY <3>1, FS_Interval
    <3> QED BY <3>2, <3>3
  <2>3. IsFiniteSet({p} \X (1 .. Len(f[p])))
    BY <2>2, FS_Product
  <2> QED BY <2>1, <2>3, FS_Subset
<1>3. Places(f, s) = UNION T
  BY DEF Places
<1>4. \A X \in T : IsFiniteSet(X)
  BY <1>2
<1>5. IsFiniteSet(UNION T)
  BY <1>1, <1>4, FS_UNION
<1> QED BY <1>3, <1>5, FS_CardinalityType, FS_EmptySet

LEMMA PlacesAppend ==
  ASSUME NEW f \in [Proc -> Seq(Sample)], NEW p \in Proc, NEW x \in Sample, NEW s,
         NEW g, Grown(g, f, p, x)
  PROVE  Cardinality(Places(g, s)) = Cardinality(Places(f, s)) + One(x = s)
<1> DEFINE new == <<p, Len(f[p]) + 1>>
<1>1. /\ g \in [Proc -> Seq(Sample)]
      /\ \A q \in Proc : q # p => g[q] = f[q]
      /\ g[p] = Append(f[p], x)
  BY DEF Grown
<1>2. /\ Len(g[p]) = Len(f[p]) + 1 /\ Len(f[p]) \in Nat
      /\ \A i \in 1 .. Len(f[p]) : g[p][i] = f[p][i]
      /\ g[p][Len(f[p]) + 1] = x
  BY <1>1, AppendSeq
<1>3. ASSUME NEW e, e \in Places(f, s)
      PROVE  e \in Places(g, s)
  <2>1. PICK q \in Proc : \E i \in 1 .. Len(f[q]) : e = <<q, i>> /\ f[q][i] = s
    BY <1>3, InPlaces
  <2>2. PICK i \in 1 .. Len(f[q]) : e = <<q, i>> /\ f[q][i] = s
    BY <2>1
  <2>3. i \in 1 .. Len(g[q]) /\ g[q][i] = s
    <3>1. CASE q = p
      BY <2>2, <3>1, <1>2
    <3>2. CASE q # p
      BY <2>2, <3>2, <1>1
    <3> QED BY <3>1, <3>2
  <2> QED BY <1>1, <2>2, <2>3, InPlaces
<1>4. ASSUME NEW e, e \in Places(g, s), e \notin Places(f, s)
      PROVE  e = new /\ x = s
  <2>1. PICK q \in Proc : \E i \in 1 .. Len(g[q]) : e = <<q, i>> /\ g[q][i] = s
    BY <1>1, <1>4, InPlaces
  <2>2. PICK i \in 1 .. Len(g[q]) : e = <<q, i>> /\ g[q][i] = s
    BY <2>1
  <2>3. ~(i \in 1 .. Len(f[q]) /\ f[q][i] = s)
    BY <1>4, <2>2, InPlaces
  <2>4. q = p /\ i = Len(f[p]) + 1
    <3>1. q = p
      BY <1>1, <2>2, <2>3
    <3>2. i \in 1 .. Len(f[p]) + 1
      BY <1>2, <3>1
    <3>3. i \notin 1 .. Len(f[p])
      BY <1>2, <2>2, <2>3, <3>1
    <3> QED BY <3>1, <3>2, <3>3, <1>2
  <2> QED BY <1>2, <2>2, <2>4
<1>5. new \notin Places(f, s)
  BY <1>2, InPlaces
<1>6. x = s => new \in Places(g, s)
  <2> SUFFICES ASSUME x = s PROVE new \in Places(g, s)
    OBVIOUS
  <2>1. Len(f[p]) + 1 \in 1 .. Len(g[p]) /\ g[p][Len(f[p]) + 1] = s
    BY <1>2
  <2> QED BY <1>1, <2>1, InPlaces
<1> HIDE DEF new
<1>7. CASE x = s
  <2>1. Places(g, s) = Places(f, s) \cup {new}
    BY <1>3, <1>4, <1>6, <1>7
  <2>2. Cardinality(Places(f, s) \cup {new}) = Cardinality(Places(f, s)) + 1
    BY <1>5, PlacesFinite, FS_AddElement
  <2> QED BY <2>1, <2>2, <1>7 DEF One
<1>8. CASE x # s
  <2>1. Places(g, s) = Places(f, s)
    BY <1>3, <1>4, <1>8
  <2> QED BY <2>1, <1>8, PlacesFinite DEF One
<1> QED BY <1>7, <1>8

LEMMA PlacesWithout ==
  ASSUME NEW f \in [Proc -> Seq(Sample)], NEW p \in Proc, NEW k, NEW s,
         NEW g, Shrunk(g, f, p, k)
  PROVE  Cardinality(Places(g, s)) = Cardinality(Places(f, s)) - One(f[p][k] = s)
<1> DEFINE S == Places(g, s)
           old == <<p, k>>
           T == Places(f, s) \ {old}
           Moved(e) == IF e[1] = p /\ e[2] >= k THEN <<p, e[2] + 1>> ELSE e
           h == [e \in S |-> Moved(e)]
<1>1. /\ g \in [Proc -> Seq(Sample)]
      /\ \A q \in Proc : q # p => g[q] = f[q]
      /\ k \in 1 .. Len(f[p]) /\ g[p] \in Seq(Sample)
  BY DEF Shrunk
<1>0. g \in [Proc -> Seq(Sample)]
  BY <1>1
<1>2. /\ Len(g[p]) = Len(f[p]) - 1 /\ Len(g[p]) \in Nat /\ Len(f[p]) \in Nat
      /\ k \in Nat /\ 1 <= k /\ k <= Len(f[p])
      /\ \A j \in 1 .. Len(g[p]) : g[p][j] = IF j < k THEN f[p][j] ELSE f[p][j + 1]
  BY <1>1 DEF Shrunk, IsWithout
<1>3. ASSUME NEW e \in S
      PROVE  /\ h[e] \in T
             /\ \E q \in Proc : \E i \in 1 .. Len(g[q]) : e = <<q, i>>
  <2>1. PICK q \in Proc : \E i \in 1 .. Len(g[q]) : e = <<q, i>> /\ g[q][i] = s
    BY <1>0, InPlaces
  <2>2. PICK i \in 1 .. Len(g[q]) : e = <<q, i>> /\ g[q][i] = s
    BY <2>1
  <2>3. CASE q # p
    <3>1. h[e] = e /\ g[q] = f[q]
      BY <2>2, <2>3, <1>1
    <3>2. e \in Places(f, s)
      BY <2>2, <3>1, InPlaces
    <3> QED BY <2>2, <2>3, <3>1, <3>2
  <2>4. CASE q = p /\ i < k
    <3>1. h[e] = e /\ i \in 1 .. Len(f[p]) /\ f[p][i] = s
      BY <2>2, <2>4, <1>1, <1>2
    <3>2. e \in Places(f, s)
      BY <2>2, <2>4, <3>1, InPlaces
    <3> QED BY <2>2, <2>4, <3>1, <3>2
  <2>5. CASE q = p /\ i >= k
    <3>1. h[e] = <<p, i + 1>> /\ i + 1 \in 1 .. Len(f[p]) /\ f[p][i + 1] = s
      BY <2>2, <2>5, <1>1, <1>2
    <3>2. h[e] \in Places(f, s)
      BY <3>1, InPlaces
    <3> QED BY <2>2, <2>5, <3>1, <3>2
  <2>6. i < k \/ i >= k
    BY <1>1, <1>2, <2>2
  <2> QED BY <2>3, <2>4, <2>5, <2>6
<1>4. \A e1, e2 \in S : h[e1] = h[e2] => e1 = e2
  <2> SUFFICES ASSUME NEW e1 \in S, NEW e2 \in S, h[e1] = h[e2]
               PROVE  e1 = e2
    OBVIOUS
  <2>1. PICK q1 \in Proc, i1 \in Nat : e1 = <<q1, i1>>
    BY <1>3
  <2>2. PICK q2 \in Proc, i2 \in Nat : e2 = <<q2, i2>>
    BY <1>3
  <2>3. Moved(e1) = Moved(e2)
    OBVIOUS
  <2> QED BY <1>2, <2>1, <2>2, <2>3
<1>5. \A e \in T : \E d \in S : h[d] = e
  <2> TAKE e \in T
  <2>1. PICK q \in Proc : \E i \in 1 .. Len(f[q]) : e = <<q, i>> /\ f[q][i] = s
    BY InPlaces
  <2>2. PICK i \in 1 .. Len(f[q]) : e = <<q, i>> /\ f[q][i] = s
    BY <2>1
  <2>3. CASE q # p
    <3>1. g[q] = f[q]
      BY <1>1, <2>3
    <3>2. e \in S /\ h[e] = e
      BY <1>1, <2>2, <2>3, <3>1, InPlaces
    <3> QED BY <3>2
  <2>4. CASE q = p /\ i < k
    <3>1. i \in 1 .. Len(g[p]) /\ g[p][i] = s
      BY <2>2, <2>4, <1>1, <1>2
    <3>2. e \in S
      BY <1>1, <2>2, <2>4, <3>1, InPlaces
    <3>3. h[e] = Moved(e) /\ Moved(e) = e
      BY <1>2, <2>2, <2>4, <3>2
    <3> QED BY <3>2, <3>3
  <2>5. CASE q = p /\ i >= k
    <3>0. i # k
      BY <2>2, <2>5
    <3>1. i - 1 \in 1 .. Len(g[p]) /\ g[p][i - 1] = s /\ i - 1 >= k
      BY <2>2, <2>5, <3>0, <1>1, <1>2
    <3>2. <<p, i - 1>> \in S
      BY <1>1, <3>1, InPlaces
    <3>3. h[<<p, i - 1>>] = e
      BY <2>2, <2>5, <3>1, <3>2
    <3> QED BY <3>2, <3>3
  <2>6. i < k \/ i >= k
    BY <1>1, <1>2, <2>2
  <2> QED BY <2>3, <2>4, <2>5, <2>6
<1> HIDE DEF T, S
<1>6. h \in Bijection(S, T)
  BY <1>3, <1>4, <1>5 DEF Bijection, Injection, Surjection, IsInjective
<1>7. ExistsBijection(S, T)
  BY <1>6 DEF ExistsBijection
<1>8. IsFiniteSet(S) /\ IsFiniteSet(Places(f, s)) /\ Cardinality(Places(f, s)) \in Nat
  <2>1. IsFiniteSet(Places(g, s))
    BY <1>0, PlacesFinite
  <2>2. IsFiniteSet(Places(f, s)) /\ Cardinality(Places(f, s)) \in Nat
    BY PlacesFinite
  <2> QED BY <2>1, <2>2 DEF S
<1>9. Cardinality(T) = Cardinality(S)
  BY <1>7, <1>8, FS_Bijection
<1>10. old \in Places(f, s) <=> f[p][k] = s
  <2>1. k \in 1 .. Len(f[p])
    BY <1>1
  <2>2. f[p][k] = s => old \in Places(f, s)
    BY <2>1, InPlaces
  <2>3. old \in Places(f, s) => f[p][k] = s
    BY InPlaces
  <2> QED BY <2>2, <2>3
<1>11. Cardinality(T) = IF old \in Places(f, s) THEN Cardinality(Places(f, s)) - 1
                                                 ELSE Cardinality(Places(f, s))
  BY <1>8, FS_RemoveElement DEF T
<1> QED BY <1>8, <1>9, <1>10, <1>11 DEF One, S

-----------------------------------------------------------------------------
(* Types.                                                                  *)

LEMMA TypedInit == Init => Typed
<1> SUFFICES ASSUME Init PROVE Typed
  OBVIOUS
<1>1. TypeOK
  BY RuntimeAssumption DEF Init, TypeOK, NoCleanup, NoReroute, Sample, Label, None
<1>2. Supervision
  BY DEF Init, Supervision, NoCleanup, SupPoint
<1>3. Administration /\ \A p \in Proc : InHandOf(p)
  BY DEF Init, Administration, NoReroute, InHandOf, At
<1> QED BY <1>1, <1>2, <1>3 DEF Typed

\* A record that is marked, or counts a read, stays a record.
LEMMA RecordSteps ==
  ASSUME TypeOK, NEW s \in DOMAIN samples
  PROVE  /\ DOMAIN WithRead(s) = DOMAIN samples /\ DOMAIN WithPublished(s) = DOMAIN samples
         /\ \A t \in DOMAIN samples \ {s} : WithRead(s)[t] = samples[t]
         /\ \A t \in DOMAIN samples \ {s} : WithPublished(s)[t] = samples[t]
         /\ WithRead(s)[s] = [owner |-> samples[s].owner, published |-> samples[s].published,
                              expected |-> samples[s].expected,
                              completed |-> samples[s].completed + 1]
         /\ WithPublished(s)[s] = [owner |-> samples[s].owner, published |-> TRUE,
                                   expected |-> samples[s].expected,
                                   completed |-> samples[s].completed]
         /\ \A t \in DOMAIN samples : WithRead(s)[t] \in SampleRecord
         /\ \A t \in DOMAIN samples : WithPublished(s)[t] \in SampleRecord
<1>1. samples[s] \in SampleRecord
  BY DEF TypeOK
<1>2. /\ DOMAIN WithRead(s) = DOMAIN samples
      /\ \A t \in DOMAIN samples \ {s} : WithRead(s)[t] = samples[t]
      /\ WithRead(s)[s] = [samples[s] EXCEPT !.completed = @ + 1]
  BY DEF WithRead
<1>3. /\ DOMAIN WithPublished(s) = DOMAIN samples
      /\ \A t \in DOMAIN samples \ {s} : WithPublished(s)[t] = samples[t]
      /\ WithPublished(s)[s] = [samples[s] EXCEPT !.published = TRUE]
  BY DEF WithPublished
<1>4. /\ WithRead(s)[s] = [owner |-> samples[s].owner, published |-> samples[s].published,
                           expected |-> samples[s].expected,
                           completed |-> samples[s].completed + 1]
      /\ WithPublished(s)[s] = [owner |-> samples[s].owner, published |-> TRUE,
                                expected |-> samples[s].expected,
                                completed |-> samples[s].completed]
  BY <1>1, <1>2, <1>3 DEF SampleRecord
<1>5. WithRead(s)[s] \in SampleRecord /\ WithPublished(s)[s] \in SampleRecord
  BY <1>1, <1>4 DEF SampleRecord
<1>6. \A t \in DOMAIN samples : samples[t] \in SampleRecord
  BY DEF TypeOK
<1> QED BY <1>2, <1>3, <1>4, <1>5, <1>6

LEMMA PublishTyped ==
  ASSUME Typed, NEW p \in Proc, Publish(p)
  PROVE  Typed'
<1> USE RuntimeAssumption
<1>1. CASE Loan(p)
  <2>1. nextSample \in Sample /\ nextSample + 1 \in 1 .. MaxSamples + 1
    BY <1>1 DEF Loan, Typed, TypeOK, Sample
  <2> QED BY <1>1, <2>1 DEF Loan, Goto, At, Label, Typed, TypeOK, Supervision, Administration, InHandOf
<1>2. CASE GetRoutes(p)
  <2>1. routes[p] \in Seq(Proc)
    BY DEF Typed, TypeOK
  <2>2. Targets(routes[p]) \in SUBSET Proc
    BY <2>1 DEF Targets
  <2>3. want' \in [Sample -> SUBSET Proc]
    BY <1>2, <2>2 DEF GetRoutes, Typed, TypeOK
  <2> QED BY <1>2, <2>3 DEF GetRoutes, registryVars, Goto, At, Label, Typed, TypeOK, Supervision, Administration, InHandOf
<1>3. CASE Register(p)
  <2>1. cur[p] \in Sample
    BY <1>3 DEF Register, At, Typed, InHandOf
  <2>2. Expected(p) \in Nat
    <3>1. todo[p] \in Seq(Proc)
      BY DEF Typed, TypeOK
    <3> QED BY <3>1 DEF Expected
  <2>3. /\ DOMAIN samples \subseteq Sample
        /\ \A s \in DOMAIN samples : samples[s] \in SampleRecord
    BY DEF Typed, TypeOK
  <2>4. DOMAIN samples' \subseteq Sample /\ \A s \in DOMAIN samples' : samples'[s] \in SampleRecord
    BY <1>3, <2>1, <2>2, <2>3 DEF Register, SampleRecord
  <2> QED BY <1>3, <2>4 DEF Register, historyVars, Goto, At, Label, Typed, TypeOK, Supervision, Administration, InHandOf
<1>4. CASE InsertValue(p)
  <2>1. store' \subseteq Sample
    BY <1>4 DEF InsertValue, At, Typed, TypeOK, InHandOf
  <2>2. pc' \in [Proc -> Label] /\ \A q \in Proc : InHandOf(q)'
    BY <1>4 DEF InsertValue, Goto, At, Label, Typed, TypeOK, InHandOf
  <2> QED BY <1>4, <2>1, <2>2 DEF InsertValue, registryVars, historyVars, Typed, TypeOK, Supervision, Administration
<1>5. CASE MarkPublished(p)
  <2>1. DOMAIN samples' \subseteq Sample /\ \A s \in DOMAIN samples' : samples'[s] \in SampleRecord
    <3>1. CASE cur[p] \in DOMAIN samples
      BY <1>5, <3>1, RecordSteps DEF MarkPublished, Typed, TypeOK
    <3>2. CASE cur[p] \notin DOMAIN samples
      BY <1>5, <3>2 DEF MarkPublished, Typed, TypeOK
    <3> QED BY <3>1, <3>2
  <2> QED BY <1>5, <2>1 DEF MarkPublished, historyVars, Goto, At, Label, Typed, TypeOK, Supervision, Administration, InHandOf
<1>6. CASE PushDescriptor(p)
  <2> DEFINE t == Head(todo[p])
  <2>1. t \in Proc /\ Tail(todo[p]) \in Seq(Proc) /\ cur[p] \in Sample
    BY <1>6, TailSeq DEF PushDescriptor, At, Typed, TypeOK, InHandOf
  <2>2. /\ Append(queue[t], cur[p]) \in Seq(Sample)
        /\ Len(Append(queue[t], cur[p])) <= QueueCap
    <3>1. queue[t] \in Seq(Sample) /\ Len(queue[t]) < QueueCap
      BY <1>6, <2>1 DEF PushDescriptor, HasRoom, Typed, TypeOK
    <3>2. Append(queue[t], cur[p]) \in Seq(Sample)
          /\ Len(Append(queue[t], cur[p])) = Len(queue[t]) + 1 /\ Len(queue[t]) \in Nat
      BY <2>1, <3>1, AppendSeq
    <3> QED BY <3>1, <3>2
  <2> QED BY <1>6, <2>1, <2>2 DEF PushDescriptor, registryVars, historyVars, Goto, At, Label, Typed, TypeOK, Supervision, Administration, InHandOf
<1> QED BY <1>1, <1>2, <1>3, <1>4, <1>5, <1>6 DEF Publish

LEMMA RecvTyped ==
  ASSUME Typed, NEW p \in Proc, Recv(p)
  PROVE  Typed'
<1> USE RuntimeAssumption
<1>1. CASE Pop(p)
  <2>1. /\ Head(queue[p]) \in Sample /\ Tail(queue[p]) \in Seq(Sample)
        /\ Len(Tail(queue[p])) <= QueueCap
    BY <1>1, TailSeq DEF Pop, Typed, TypeOK
  <2> QED BY <1>1, <2>1 DEF Pop, registryVars, historyVars, Goto, At, Label, Typed, TypeOK, Supervision, Administration, InHandOf
<1>2. CASE Lookup(p)
  <2>1. cur[p] \in Sample /\ cur' = cur
    BY <1>2 DEF Lookup, At, Typed, InHandOf
  <2>2. /\ Append(reads[p], cur[p]) \in Seq(Sample)
        /\ Append(guards[p], cur[p]) \in Seq(Sample)
    BY <2>1, AppendSeq DEF Typed, TypeOK
  <2>3. /\ got' \in [Sample -> SUBSET Proc] /\ reads' \in [Proc -> Seq(Sample)]
        /\ guards' \in [Proc -> Seq(Sample)] /\ pc' \in [Proc -> Label]
        /\ \A q \in Proc : pc'[q] # "idle" => pc[q] # "idle"
    <3>1. CASE cur[p] \in store
      <4>1. /\ got' = [got EXCEPT ![cur[p]] = @ \cup {p}]
            /\ reads' = [reads EXCEPT ![p] = Append(@, cur[p])]
            /\ guards' = [guards EXCEPT ![p] = IF Shared THEN @ ELSE Append(@, cur[p])]
            /\ pc' = [pc EXCEPT ![p] = IF Shared THEN "received" ELSE "idle"]
            /\ pc[p] = "lookup"
        BY <1>2, <3>1 DEF Lookup, Goto, At
      <4>2. got' \in [Sample -> SUBSET Proc]
        BY <2>1, <4>1 DEF Typed, TypeOK
      <4>3. reads' \in [Proc -> Seq(Sample)] /\ guards' \in [Proc -> Seq(Sample)]
        BY <2>2, <4>1 DEF Typed, TypeOK
      <4>4. pc' \in [Proc -> Label] /\ \A q \in Proc : pc'[q] # "idle" => pc[q] # "idle"
        BY <4>1 DEF Label, Typed, TypeOK
      <4> QED BY <4>2, <4>3, <4>4
    <3>2. CASE cur[p] \notin store
      BY <1>2, <2>1, <3>2 DEF Lookup, Goto, Label, At, Typed, TypeOK
    <3> QED BY <3>1, <3>2
  <2> QED BY <1>2, <2>1, <2>3 DEF Lookup, registryVars, At, Typed, TypeOK, Supervision, Administration, InHandOf
<1>3. CASE MarkReceived(p)
  <2>1. cur[p] \in Sample /\ Append(guards[p], cur[p]) \in Seq(Sample)
    BY <1>3, AppendSeq DEF MarkReceived, At, Typed, TypeOK, InHandOf
  <2>2. DOMAIN samples' \subseteq Sample /\ \A s \in DOMAIN samples' : samples'[s] \in SampleRecord
    <3>1. CASE samples' = samples
      BY <3>1 DEF Typed, TypeOK
    <3>2. CASE cur[p] \in DOMAIN samples /\ samples' = WithRead(cur[p])
      BY <3>2, RecordSteps DEF Typed, TypeOK
    <3>3. CASE samples' = Without(samples, cur[p])
      BY <3>3 DEF Without, Typed, TypeOK
    <3> QED BY <1>3, <3>1, <3>2, <3>3 DEF MarkReceived
  <2> QED BY <1>3, <2>1, <2>2 DEF MarkReceived, historyVars, Goto, At, Label, Typed, TypeOK, Supervision, Administration, InHandOf
<1> QED BY <1>1, <1>2, <1>3 DEF Recv

LEMMA ReleaseTyped ==
  ASSUME Typed, NEW p \in Proc, Release(p)
  PROVE  Typed'
<1> USE RuntimeAssumption
<1>1. CASE DropGuard(p)
  <2>1. PICK i \in 1 .. Len(guards[p]) :
          LET s == guards[p][i] IN
          /\ guards' = [guards EXCEPT ![p] = RemoveIndex(@, i)]
          /\ cur' = [cur EXCEPT ![p] = s]
          /\ IF s \in DOMAIN samples
               THEN /\ samples' = WithRead(s)
                    /\ Goto(p, IF AllRead(samples[s]) THEN "reclaim" ELSE "idle")
               ELSE UNCHANGED <<samples, pc>>
    BY <1>1 DEF DropGuard
  <2>2. guards[p][i] \in Sample /\ RemoveIndex(guards[p], i) \in Seq(Sample)
    BY RemoveIndexIsWithout DEF Typed, TypeOK
  <2>3. DOMAIN samples' \subseteq Sample /\ \A s \in DOMAIN samples' : samples'[s] \in SampleRecord
    <3>1. CASE samples' = samples
      BY <3>1 DEF Typed, TypeOK
    <3>2. CASE guards[p][i] \in DOMAIN samples /\ samples' = WithRead(guards[p][i])
      BY <3>2, RecordSteps DEF Typed, TypeOK
    <3> QED BY <2>1, <3>1, <3>2
  <2>4. pc' \in [Proc -> Label]
    BY <2>1 DEF Goto, Label, Typed, TypeOK
  <2>5. guards' \in [Proc -> Seq(Sample)] /\ cur' \in [Proc -> Sample \cup {None}]
    BY <2>1, <2>2 DEF Typed, TypeOK
  <2>6. \A q \in Proc : InHandOf(q)'
    BY <2>1, <2>2 DEF Goto, At, InHandOf, Typed, TypeOK
  <2> QED BY <1>1, <2>3, <2>4, <2>5, <2>6 DEF DropGuard, historyVars, Typed, TypeOK, Supervision, Administration
<1>2. CASE Reclaim(p)
  <2>1. DOMAIN samples' \subseteq Sample /\ \A s \in DOMAIN samples' : samples'[s] \in SampleRecord
    BY <1>2 DEF Reclaim, Without, Typed, TypeOK
  <2> QED BY <1>2, <2>1 DEF Reclaim, historyVars, Goto, At, Label, Typed, TypeOK, Supervision, Administration, InHandOf
<1>3. CASE RemoveValue(p)
  BY <1>3 DEF RemoveValue, registryVars, historyVars, Goto, At, Label, Typed, TypeOK, Supervision, Administration, InHandOf
<1> QED BY <1>1, <1>2, <1>3 DEF Release

LEMMA DeathTyped ==
  ASSUME Typed, NEW p \in Proc, Die(p) \/ CrashProcess(p)
  PROVE  Typed'
<1>1. CASE Die(p)
  BY <1>1 DEF Die, registryVars, historyVars, At, Typed, TypeOK, Supervision, Administration, InHandOf
<1>2. CASE CrashProcess(p)
  <2>1. Supervision'
    BY <1>2 DEF CrashProcess, Supervision, SupPoint, Typed
  <2> QED BY <1>2, <2>1 DEF CrashProcess, threadVars, historyVars, At, Typed, TypeOK, Supervision, Administration, InHandOf
<1> QED BY <1>1, <1>2

LEMMA SuperviseTyped ==
  ASSUME Typed, Supervise
  PROVE  Typed'
<1> USE RuntimeAssumption
<1> USE DEF registryVars, threadVars, historyVars
<1>0. /\ UNCHANGED <<routes, alive, nextSample, threadVars, admin, historyVars>>
      /\ DOMAIN samples' \subseteq Sample /\ \A s \in DOMAIN samples' : samples'[s] \in SampleRecord
      /\ store' \subseteq Sample
  <2>1. CASE ReclaimOrphans
    BY <2>1 DEF ReclaimOrphans, Orphans, Typed, TypeOK
  <2>2. CASE RemoveOrphan
    BY <2>2 DEF RemoveOrphan, Typed, TypeOK
  <2>3. CASE StartDrain \/ DrainQueue \/ DrainPop \/ DrainPutBack \/ FinishCleanup
    BY <2>3 DEF StartDrain, DrainQueue, DrainPop, DrainPutBack, FinishCleanup, Typed, TypeOK
  <2> QED BY <2>1, <2>2, <2>3 DEF Supervise
<1>1. /\ queue' \in [Proc -> Seq(Sample)] /\ \A p \in Proc : Len(queue'[p]) <= QueueCap
      /\ Supervision'
  <2>1. CASE ReclaimOrphans
    <3>1. Orphans(sup.victim) \subseteq Sample
      BY DEF Orphans, Typed, TypeOK
    <3> QED BY <2>1, <3>1 DEF ReclaimOrphans, Typed, TypeOK, Supervision, SupPoint
  <2>2. CASE RemoveOrphan
    <3>1. PICK s \in sup.left : sup' = [sup EXCEPT !.left = @ \ {s}]
      BY <2>2 DEF RemoveOrphan
    <3>2. sup.at = "remove" /\ queue' = queue
      BY <2>2 DEF RemoveOrphan
    <3> QED BY <3>1, <3>2 DEF Typed, TypeOK, Supervision, SupPoint
  <2>3. CASE StartDrain
    BY <2>3 DEF StartDrain, Typed, TypeOK, Supervision, SupPoint
  <2>4. CASE DrainQueue
    <3>1. PICK q \in sup.left :
            sup' = [sup EXCEPT !.at = "pop", !.at_queue = q, !.left = @ \ {q}]
      BY <2>4 DEF DrainQueue
    <3>2. sup.at = "next" /\ queue' = queue
      BY <2>4 DEF DrainQueue
    <3>3. q \in Proc
      BY <3>2 DEF Typed, Supervision
    <3> QED BY <3>1, <3>2, <3>3 DEF Typed, TypeOK, Supervision, SupPoint
  <2>5. CASE DrainPop
    <3> DEFINE q == queue[sup.at_queue]
    <3>1. sup.at_queue \in Proc /\ q \in Seq(Sample) /\ sup.valid \in Seq(Sample)
      BY <2>5 DEF DrainPop, Typed, TypeOK, Supervision
    <3>2. CASE q = <<>>
      <4>1. queue' = queue /\ sup' = [sup EXCEPT !.at = "putback"]
        BY <2>5, <3>2 DEF DrainPop
      <4>2. sup.at = "pop" /\ sup.left \subseteq Proc /\ sup.victim \in Proc
        BY <2>5 DEF DrainPop, Typed, Supervision
      <4>3. Supervision'
        BY <3>1, <4>1, <4>2 DEF Typed, Supervision, SupPoint
      <4> QED BY <4>1, <4>3 DEF Typed, TypeOK
    <3>3. CASE q # <<>>
      <4>1. /\ Head(q) \in Sample /\ Tail(q) \in Seq(Sample) /\ Len(Tail(q)) <= QueueCap
            /\ Append(sup.valid, Head(q)) \in Seq(Sample)
        BY <3>1, <3>3, TailSeq, AppendSeq DEF Typed, TypeOK
      <4>2. /\ queue' = [queue EXCEPT ![sup.at_queue] = Tail(@)]
            /\ sup' = [sup EXCEPT !.valid = IF Drops(Head(q)) THEN @ ELSE Append(@, Head(q))]
        BY <2>5, <3>3 DEF DrainPop
      <4>3. sup.at = "pop"
        BY <2>5 DEF DrainPop
      <4> HIDE DEF q
      <4> QED BY <3>1, <4>1, <4>2, <4>3 DEF Typed, TypeOK, Supervision, SupPoint, q
    <3> QED BY <3>2, <3>3
  <2>6. CASE DrainPutBack
    <3>1. /\ sup.at_queue \in Proc /\ queue[sup.at_queue] \in Seq(Sample)
          /\ sup.valid \in Seq(Sample) /\ sup.at = "putback"
      BY <2>6 DEF DrainPutBack, Typed, TypeOK, Supervision
    <3>2. CASE sup.valid = <<>>
      <4>1. queue' = queue /\ sup' = [sup EXCEPT !.at = "next", !.at_queue = None]
        BY <2>6, <3>2 DEF DrainPutBack
      <4>2. sup.left \subseteq Proc
        BY <3>1 DEF Typed, Supervision
      <4> QED BY <3>1, <3>2, <4>1, <4>2 DEF Typed, TypeOK, Supervision, SupPoint
    <3>3. CASE sup.valid # <<>>
      <4>1. Head(sup.valid) \in Sample /\ Tail(sup.valid) \in Seq(Sample)
        BY <3>1, <3>3, TailSeq
      <4>2. /\ Append(queue[sup.at_queue], Head(sup.valid)) \in Seq(Sample)
            /\ Len(Append(queue[sup.at_queue], Head(sup.valid))) <= QueueCap
        <5>1. Len(queue[sup.at_queue]) < QueueCap
          BY <2>6, <3>3 DEF DrainPutBack, HasRoom
        <5>2. /\ Append(queue[sup.at_queue], Head(sup.valid)) \in Seq(Sample)
              /\ Len(Append(queue[sup.at_queue], Head(sup.valid)))
                   = Len(queue[sup.at_queue]) + 1
              /\ Len(queue[sup.at_queue]) \in Nat
          BY <3>1, <4>1, AppendSeq
        <5> QED BY <5>1, <5>2
      <4>3. /\ queue' = [queue EXCEPT ![sup.at_queue] = Append(@, Head(sup.valid))]
            /\ sup' = [sup EXCEPT !.valid = Tail(@)]
        BY <2>6, <3>3 DEF DrainPutBack
      <4> QED BY <3>1, <4>1, <4>2, <4>3 DEF Typed, TypeOK, Supervision, SupPoint
    <3> QED BY <3>2, <3>3
  <2>7. CASE FinishCleanup
    <3>1. sup.victim \in Proc
      BY <2>7 DEF FinishCleanup, Typed, Supervision
    <3>2. /\ sup' = [NoCleanup EXCEPT !.done = sup.done \cup {sup.victim}]
          /\ queue' = queue
      BY <2>7 DEF FinishCleanup
    <3>3. sup' = [at |-> "idle", victim |-> None, victims |-> {}, left |-> {},
                   at_queue |-> None, valid |-> <<>>, done |-> sup.done \cup {sup.victim}]
      BY <3>2 DEF NoCleanup
    <3>4. sup.done \cup {sup.victim} \subseteq Proc
      BY <3>1 DEF Typed, Supervision
    <3>5. Supervision'
      BY <3>3, <3>4 DEF Supervision, SupPoint
    <3> QED BY <3>2, <3>5 DEF Typed, TypeOK
  <2> QED BY <2>1, <2>2, <2>3, <2>4, <2>5, <2>6, <2>7 DEF Supervise
<1> QED BY <1>0, <1>1 DEF Typed, TypeOK, Supervision, Administration, InHandOf, At

LEMMA RerouteTyped ==
  ASSUME Typed, ClearRoutes \/ RegisterRoute
  PROVE  Typed'
<1>1. CASE ClearRoutes
  <2>1. PICK r \in admin.pending :
          /\ routes' = WithoutRoutes(r[1])
          /\ admin' = [from |-> r[1], rest |-> r[2], pending |-> admin.pending \ {r}]
    BY <1>1 DEF ClearRoutes
  <2>2. r[1] \in Proc /\ r[2] \in Seq(Proc)
    BY RuntimeAssumption DEF Typed, Administration
  <2>3. routes' \in [Proc -> Seq(Proc)]
    <3>1. <<>> \in Seq(Proc)
      OBVIOUS
    <3> QED BY <2>1, <2>2, <3>1 DEF WithoutRoutes, Typed, TypeOK
  <2>4. Administration'
    BY <2>1, <2>2 DEF Administration, Typed
  <2> QED BY <1>1, <2>3, <2>4 DEF ClearRoutes, threadVars, historyVars, Typed, TypeOK, Supervision, InHandOf, At
<1>2. CASE RegisterRoute
  <2>1. /\ admin.rest # <<>> /\ routes' = WithRoute(admin.from, Head(admin.rest))
        /\ admin' = [admin EXCEPT !.rest = Tail(@)]
    BY <1>2 DEF RegisterRoute
  <2>2. admin.from \in Proc /\ Head(admin.rest) \in Proc /\ Tail(admin.rest) \in Seq(Proc)
    BY <2>1, TailSeq DEF Typed, Administration
  <2>3. Append(routes[admin.from], Head(admin.rest)) \in Seq(Proc)
    BY <2>2, AppendSeq DEF Typed, TypeOK
  <2>4. routes' \in [Proc -> Seq(Proc)]
    BY <2>1, <2>2, <2>3 DEF WithRoute, Typed, TypeOK
  <2>5. Administration'
    BY <2>1, <2>2 DEF Administration, Typed
  <2> QED BY <1>2, <2>4, <2>5 DEF RegisterRoute, threadVars, historyVars, Typed, TypeOK, Supervision, InHandOf, At
<1> QED BY <1>1, <1>2

LEMMA TypedStep == Typed /\ [Next]_vars => Typed'
<1> SUFFICES ASSUME Typed, [Next]_vars PROVE Typed'
  OBVIOUS
<1>1. CASE \E p \in Proc : Thread(p)
  BY <1>1, PublishTyped, RecvTyped, ReleaseTyped DEF Thread, Step
<1>2. CASE \E p \in Proc : Die(p) \/ CrashProcess(p)
  BY <1>2, DeathTyped
<1>3. CASE Supervise
  BY <1>3, SuperviseTyped
<1>4. CASE ClearRoutes \/ RegisterRoute
  BY <1>4, RerouteTyped
<1>5. CASE UNCHANGED vars
  BY <1>5 DEF vars, registryVars, threadVars, historyVars, Typed, TypeOK, Supervision, Administration, InHandOf, At
<1> QED BY <1>1, <1>2, <1>3, <1>4, <1>5 DEF Next

LEMMA AlwaysTyped == Spec => []Typed
BY TypedInit, TypedStep, PTL DEF Spec

(* Types, the bound of every queue, and that only those stop whom the host *)
(* lets die, on both backends (vil_rt world.rs, supervisor.rs; spsc.rs     *)
(* 158-169: a push waits while its queue is full).                         *)
THEOREM RuntimeTypeCorrect == Spec => []TypeOK
<1>1. Typed => TypeOK
  BY DEF Typed
<1> QED BY <1>1, AlwaysTyped, PTL

-----------------------------------------------------------------------------
(* The account of one sample.                                              *)

LEMMA CountsAreNaturals ==
  ASSUME Typed, NEW s \in Sample
  PROVE  /\ Unsent(s) \in Nat /\ Away(s) \in Nat
         /\ IsFiniteSet(InHand(s)) /\ Cardinality(InHand(s)) \in Nat
         /\ Cardinality(Places(queue, s)) \in Nat /\ Cardinality(Places(guards, s)) \in Nat
         /\ Cardinality(PutAside(s)) \in Nat
<1>1. InHand(s) \subseteq Proc
  BY DEF InHand
<1>2. IsFiniteSet(InHand(s)) /\ Cardinality(InHand(s)) \in Nat
  BY <1>1, RuntimeAssumption, FS_Subset, FS_CardinalityType
<1>3. queue \in [Proc -> Seq(Sample)] /\ guards \in [Proc -> Seq(Sample)]
      /\ sup.valid \in Seq(Sample)
  BY DEF Typed, TypeOK
<1>4. /\ Cardinality(Places(queue, s)) \in Nat /\ Cardinality(Places(guards, s)) \in Nat
      /\ Cardinality(PutAside(s)) \in Nat
  BY <1>3, PlacesFinite, SpotsFinite DEF PutAside, Spots
<1>5. Unsent(s) \in Nat
  <2>1. \A p \in Proc : Len(todo[p]) \in Nat
    BY DEF Typed, TypeOK
  <2> QED BY <2>1 DEF Unsent
<1> QED BY <1>2, <1>4, <1>5 DEF Away

\* What is under way is somewhere.
LEMMA AwayIsSomewhere ==
  ASSUME Typed, NEW s \in Sample
  PROVE  /\ Places(queue, s) # {} => Away(s) > 0
         /\ Places(guards, s) # {} => Away(s) > 0
         /\ InHand(s) # {} => Away(s) > 0
<1>1. queue \in [Proc -> Seq(Sample)] /\ guards \in [Proc -> Seq(Sample)]
  BY DEF Typed, TypeOK
<1>2. /\ Places(queue, s) # {} => Cardinality(Places(queue, s)) # 0
      /\ Places(guards, s) # {} => Cardinality(Places(guards, s)) # 0
  BY <1>1, PlacesFinite
<1>3. InHand(s) # {} => Cardinality(InHand(s)) # 0
  BY CountsAreNaturals, FS_EmptySet
<1> DEFINE a == Cardinality(Places(queue, s))
           b == Cardinality(PutAside(s))
           c == Cardinality(InHand(s))
           d == Cardinality(Places(guards, s))
<1>4. a \in Nat /\ b \in Nat /\ c \in Nat /\ d \in Nat /\ Away(s) = a + b + c + d
  BY CountsAreNaturals DEF Away
<1>5. (Places(queue, s) # {} => a # 0) /\ (InHand(s) # {} => c # 0)
      /\ (Places(guards, s) # {} => d # 0)
  BY <1>2, <1>3
<1> HIDE DEF a, b, c, d
<1>6. (a # 0 \/ c # 0 \/ d # 0) => Away(s) > 0
  BY <1>4
<1> QED BY <1>5, <1>6

\* A thread that moves takes a read into its hand or gives one away.
LEMMA HandStep ==
  ASSUME Typed, NEW p \in Proc, NEW s \in Sample,
         \A q \in Proc \ {p} : pc'[q] = pc[q] /\ cur'[q] = cur[q]
  PROVE  /\ Cardinality(InHand(s)') =
              Cardinality(InHand(s)) - One(p \in InHand(s)) + One(p \in InHand(s)')
<1> DEFINE A == InHand(s)
           B == InHand(s)'
<1>1. B \ {p} = A \ {p}
  BY DEF InHand
<1>2. IsFiniteSet(A) /\ Cardinality(A) \in Nat
  BY CountsAreNaturals
<1> HIDE DEF A, B
<1>3. IsFiniteSet(A \ {p}) /\ Cardinality(A \ {p}) = Cardinality(A) - One(p \in A)
  <2>1. CASE p \in A
    <3>1. IsFiniteSet(A \ {p}) /\ Cardinality(A \ {p}) = Cardinality(A) - 1
      BY <1>2, <2>1, FS_RemoveElement
    <3> QED BY <2>1, <3>1 DEF One
  <2>2. CASE p \notin A
    <3>1. A \ {p} = A
      BY <2>2
    <3> QED BY <1>2, <2>2, <3>1 DEF One
  <2> QED BY <2>1, <2>2
<1>4. Cardinality(B) = Cardinality(A \ {p}) + One(p \in B)
  <2>1. CASE p \in B
    <3>1. B = (A \ {p}) \cup {p} /\ p \notin A \ {p}
      BY <1>1, <2>1
    <3>2. Cardinality((A \ {p}) \cup {p}) = Cardinality(A \ {p}) + 1
      BY <1>3, <3>1, FS_AddElement
    <3> QED BY <2>1, <3>1, <3>2 DEF One
  <2>2. CASE p \notin B
    <3>1. B = A \ {p}
      BY <1>1, <2>2
    <3>2. Cardinality(A \ {p}) \in Nat
      BY <1>3, FS_CardinalityType
    <3> QED BY <2>2, <3>1, <3>2 DEF One
  <2> QED BY <2>1, <2>2
<1> QED BY <1>3, <1>4 DEF A, B

\* A step that concerns s at most by dropping reads of it, s being without a record.
Untouched(s) ==
  /\ Unsent(s)' = Unsent(s)
  /\ Away(s)' \in Nat /\ Away(s)' <= Away(s) /\ (s \in DOMAIN samples => Away(s)' = Away(s))
  /\ \A P \in SUBSET Publishing : Stage(s, P)' <=> Stage(s, P)
  /\ \A q \in Proc : cur'[q] = s /\ pc'[q] \in Releasing => cur[q] = s /\ pc[q] = pc'[q]
  /\ author'[s] = author[s] /\ (s < nextSample' <=> s < nextSample)
  /\ Crashed \subseteq Crashed'

SameRecord(s) ==
  /\ s \in DOMAIN samples' <=> s \in DOMAIN samples
  /\ s \in DOMAIN samples => /\ samples'[s].owner = samples[s].owner
                             /\ samples'[s].completed = samples[s].completed
                             /\ samples'[s].expected = samples[s].expected
                             /\ s \in store => s \in store'
  /\ s \in sup'.victims => s \in sup.victims

LEMMA CountsKept ==
  ASSUME Typed, NEW s \in Sample, Counts(s), Untouched(s), SameRecord(s),
         nextSample' \in Nat
  PROVE  Counts(s)'
<1> USE DEF Counts, Untouched, SameRecord
<1>0. /\ Unsent(s) \in Nat /\ Away(s) \in Nat /\ s \in Nat /\ nextSample \in Nat
      /\ s >= nextSample' <=> s >= nextSample
  <2>1. Unsent(s) \in Nat /\ Away(s) \in Nat
    BY CountsAreNaturals
  <2>2. s \in Nat /\ nextSample \in Nat
    BY RuntimeAssumption DEF Typed, TypeOK, Sample
  <2>3. s < nextSample' <=> s < nextSample
    OBVIOUS
  <2> HIDE DEF Counts, Untouched, SameRecord
  <2> QED BY <2>1, <2>2, <2>3
<1>1. Stage(s, {"routes", "register"})' <=> Stage(s, {"routes", "register"})
  BY DEF Publishing
<1>2. Stage(s, {"routes", "register", "insert", "mark"})'
        <=> Stage(s, {"routes", "register", "insert", "mark"})
  BY DEF Publishing
<1>3. Stage(s, {"insert"})' <=> Stage(s, {"insert"})
  BY DEF Publishing
<1>4. Loaned(s)'
  BY DEF Loaned
<1>5. Fresh(s)'
  BY <1>0, <1>1 DEF Fresh
<1>6. Unpublished(s)'
  BY <1>0, <1>2 DEF Unpublished
<1>7. Recorded(s)'
  BY <1>0, <1>3 DEF Recorded
<1>8. Settled(s)'
  BY <1>0, <1>1 DEF Settled
<1>9. Released(s)'
  BY <1>0 DEF Released, At
<1> QED BY <1>4, <1>5, <1>6, <1>7, <1>8, <1>9

\* A thread in a call concerns the sample in its hand only.
LEMMA Elsewhere ==
  ASSUME Typed, NEW p \in Proc, NEW l, pc' = [pc EXCEPT ![p] = l], cur' = cur,
         author' = author, \A q \in Proc \ {p} : todo'[q] = todo[q],
         NEW s \in Sample, s # cur[p]
  PROVE  /\ Unsent(s)' = Unsent(s)
         /\ \A P \in SUBSET Publishing : Stage(s, P)' <=> Stage(s, P)
         /\ \A q \in Proc : cur'[q] = s /\ pc'[q] \in Releasing => cur[q] = s /\ pc[q] = pc'[q]
         /\ InHand(s)' = InHand(s)
<1>1. \A q \in Proc \ {p} : pc'[q] = pc[q]
  BY DEF Typed, TypeOK
<1>2. Unsent(s)' = Unsent(s)
  BY DEF Unsent
<1>3. \A P \in SUBSET Publishing : Stage(s, P)' <=> Stage(s, P)
  BY <1>1 DEF Stage
<1>4. InHand(s)' = InHand(s)
  BY <1>1 DEF InHand
<1> QED BY <1>1, <1>2, <1>3, <1>4

\* A thread between calls owes nothing: what it takes up moves nobody's account.
LEMMA TakesUp ==
  ASSUME Typed, NEW p \in Proc, Call(p), At(p, "idle"),
         \A q \in Proc \ {p} : pc'[q] = pc[q] /\ cur'[q] = cur[q],
         todo' = todo, NEW s \in Sample, author'[s] = author[s],
         pc'[p] \notin Publishing \/ cur'[p] # s
  PROVE  /\ Unsent(s)' = Unsent(s)
         /\ \A P \in SUBSET Publishing : Stage(s, P)' <=> Stage(s, P)
<1>2. todo[p] = <<>> /\ Len(todo[p]) = 0 /\ pc[p] = "idle"
  BY DEF Call, At, Serving
<1>3. Unsent(s)' = Unsent(s)
  <2>1. CASE author[s] = p
    BY <1>2, <2>1 DEF Unsent
  <2>2. CASE author[s] # p
    BY <2>2 DEF Unsent
  <2> QED BY <2>1, <2>2
<1>4. \A P \in SUBSET Publishing : Stage(s, P)' <=> Stage(s, P)
  BY <1>2 DEF Stage, Publishing
<1> QED BY <1>3, <1>4

LEMMA AwaySame ==
  ASSUME NEW s \in Sample, queue' = queue, sup'.valid = sup.valid, guards' = guards,
         InHand(s)' = InHand(s)
  PROVE  Away(s)' = Away(s)
<1>1. Places(queue, s)' = Places(queue, s) /\ Places(guards, s)' = Places(guards, s)
  BY DEF Places
<1>2. PutAside(s)' = PutAside(s)
  BY DEF PutAside
<1> QED BY <1>1, <1>2 DEF Away

\* The sample in the hand of a publishing process is its own.
LEMMA OwnSample ==
  ASSUME Typed, Account, NEW p \in Proc, pc[p] \in Publishing
  PROVE  cur[p] \in Sample /\ author[cur[p]] = p
BY DEF Account, Call, Typed, InHandOf, At, Publishing

\* A step of a thread that changes its own call and nobody's sample.
LEMMA CallsKept ==
  ASSUME Typed, Account, NEW p \in Proc,
         \A q \in Proc \ {p} : pc'[q] = pc[q] /\ cur'[q] = cur[q] /\ todo'[q] = todo[q],
         author' = author, Call(p)'
  PROVE  \A q \in Proc : Call(q)'
BY DEF Account, Call, At

\* While no sample loses its publisher the supervisor's victims stay what they are.
LEMMA VictimsKept ==
  ASSUME Account, sup' = sup, alive' = alive,
         \A s \in sup.victims : author'[s] = author[s] /\ s \notin DOMAIN samples'
  PROVE  Victims'
BY DEF Account, Victims, Crashed

-----------------------------------------------------------------------------
(* publish                                                                 *)

LEMMA LoanAccount ==
  ASSUME Typed, Typed', Account, NEW p \in Proc, Loan(p)
  PROVE  Account'
<1> DEFINE c == nextSample
<1>1. /\ pc' = [pc EXCEPT ![p] = "routes"] /\ cur' = [cur EXCEPT ![p] = c]
      /\ author' = [author EXCEPT ![c] = p] /\ nextSample' = c + 1
      /\ UNCHANGED <<samples, alive, store, queue, todo, guards, sup>>
      /\ At(p, "idle")
  BY DEF Loan, Goto
<1>2. c \in Sample /\ c \in Nat
  BY RuntimeAssumption DEF Loan, Typed, TypeOK, Sample
<1>3. author'[c] = p /\ \A s \in Sample \ {c} : author'[s] = author[s]
  BY <1>1, <1>2 DEF Typed, TypeOK
<1>4. Counts(c) /\ author[c] \notin Proc /\ Call(p)
  BY <1>2, RuntimeAssumption DEF Account, Counts, Loaned
<1>5. /\ \A q \in Proc \ {p} : pc'[q] = pc[q] /\ cur'[q] = cur[q]
      /\ pc'[p] = "routes" /\ cur'[p] = c /\ pc[p] = "idle" /\ todo[p] = <<>>
  BY <1>1, <1>2, <1>4 DEF Typed, TypeOK, At, Call, Serving
<1> HIDE DEF c
<1>6. \A s \in Sample : InHand(s)' = InHand(s)
  BY <1>5 DEF InHand
<1>7. \A s \in Sample : Away(s)' = Away(s)
  BY <1>1, <1>6, AwaySame
<1>8. \A q \in Proc : Call(q)'
  <2>1. Call(p)'
    BY <1>1, <1>3, <1>5 DEF Call, At, Serving
  <2>2. ASSUME NEW q \in Proc \ {p}
        PROVE  Call(q)'
    <3>1. pc[q] \in Publishing => cur[q] \in Sample /\ author[cur[q]] = q
      BY OwnSample
    <3>2. pc[q] \in Publishing => author'[cur[q]] = q
      BY <1>3, <1>4, <3>1
    <3> QED BY <1>1, <1>5, <3>2 DEF Account, Call, At
  <2> QED BY <2>1, <2>2
<1>9. ASSUME NEW s \in Sample
      PROVE  Counts(s)'
  <2>0. Unsent(s) \in Nat /\ Away(s) \in Nat /\ s \in Nat
    BY CountsAreNaturals, RuntimeAssumption DEF Sample
  <2>1. CASE s # c
    <3>1. /\ Unsent(s)' = Unsent(s)
          /\ \A P \in SUBSET Publishing : Stage(s, P)' <=> Stage(s, P)
      <4>1. author'[s] = author[s] /\ todo' = todo
        BY <1>1, <1>3, <2>1
      <4>2. At(p, "idle") /\ Call(p)
        BY <1>1, <1>4
      <4>3. cur'[p] # s
        BY <1>5, <2>1
      <4> QED BY <1>5, <4>1, <4>2, <4>3, TakesUp
    <3>2. \A q \in Proc : cur'[q] = s /\ pc'[q] \in Releasing => cur[q] = s /\ pc[q] = pc'[q]
      BY <1>5, <2>1
    <3>3. s < nextSample' <=> s < nextSample
      BY <1>1, <1>2, <2>0, <2>1 DEF c
    <3>4. Untouched(s)
      BY <1>1, <1>3, <1>7, <2>0, <2>1, <3>1, <3>2, <3>3 DEF Untouched, Crashed
    <3>5. SameRecord(s)
      BY <1>1 DEF SameRecord
    <3>6. nextSample' \in Nat
      BY <1>1, <1>2
    <3> QED BY <3>4, <3>5, <3>6, CountsKept DEF Account
  <2>2. CASE s = c
    <3>1. /\ s \notin DOMAIN samples /\ s \notin sup.victims
          /\ Away(s) = 0 /\ \A q \in Proc : cur[q] = s => pc[q] \notin Releasing
      BY <1>2, <1>4, <2>2 DEF Counts, Fresh, Unpublished, c
    <3>2. Stage(s, {"routes", "register"})'
      BY <1>3, <1>5, <2>2 DEF Stage
    <3>3. Loaned(s)'
      BY <1>1, <1>2, <1>3, <2>2 DEF Loaned
    <3>4. \A q \in Proc : cur'[q] = s => pc'[q] \notin Releasing
      BY <1>5, <3>1 DEF Releasing
    <3> QED BY <1>1, <1>7, <3>1, <3>2, <3>3, <3>4
            DEF Counts, Fresh, Unpublished, Recorded, Settled, Released
  <2> QED BY <2>1, <2>2
<1>10. Victims'
  <2>1. \A s \in sup.victims : s \in Sample /\ author[s] \in Proc /\ s \notin DOMAIN samples
    BY DEF Account, Victims, Crashed, Typed, Supervision
  <2> QED BY <1>1, <1>3, <1>4, <2>1, VictimsKept
<1> QED BY <1>8, <1>9, <1>10 DEF Account

\* A step of a publishing thread, but for the sample in its hand.
LEMMA PublishOthers ==
  ASSUME Typed, Account, NEW p \in Proc, NEW l,
         l \in {"idle", "register", "insert", "mark", "push"}, pc[p] \in Publishing,
         pc' = [pc EXCEPT ![p] = l], cur' = cur, author' = author,
         nextSample' = nextSample, alive' = alive, sup' = sup, guards' = guards,
         \A q \in Proc \ {p} : todo'[q] = todo[q]
  PROVE  /\ \A s \in Sample : InHand(s)' = InHand(s)
         /\ \A s \in Sample : s # cur[p] /\ SameRecord(s) /\ Away(s)' = Away(s) => Counts(s)'
         /\ \A q \in Proc \ {p} : pc'[q] = pc[q]
         /\ pc'[p] = l
<1>1. (\A q \in Proc \ {p} : pc'[q] = pc[q]) /\ pc'[p] = l
  BY DEF Typed, TypeOK
<1>2. \A s \in Sample : InHand(s)' = InHand(s)
  BY <1>1 DEF InHand, Publishing
<1>3. ASSUME NEW s \in Sample, s # cur[p], SameRecord(s), Away(s)' = Away(s)
      PROVE  Counts(s)'
  <2>1. Untouched(s)
    <3>1. /\ Unsent(s)' = Unsent(s)
          /\ \A P \in SUBSET Publishing : Stage(s, P)' <=> Stage(s, P)
          /\ \A q \in Proc : cur'[q] = s /\ pc'[q] \in Releasing =>
               cur[q] = s /\ pc[q] = pc'[q]
      BY <1>3, Elsewhere
    <3>2. Away(s) \in Nat
      BY CountsAreNaturals
    <3> QED BY <1>3, <3>1, <3>2 DEF Untouched, Crashed
  <2>2. nextSample' \in Nat
    BY RuntimeAssumption DEF Typed, TypeOK
  <2> QED BY <1>3, <2>1, <2>2, CountsKept DEF Account
<1> QED BY <1>1, <1>2, <1>3

LEMMA GetRoutesAccount ==
  ASSUME ~Shared, Typed, Typed', Account, NEW p \in Proc, GetRoutes(p)
  PROVE  Account'
<1> DEFINE l == IF routes[p] = <<>> THEN "idle" ELSE "register"
<1>1. /\ pc[p] = "routes" /\ pc' = [pc EXCEPT ![p] = l]
      /\ todo' = [todo EXCEPT ![p] = routes[p]]
      /\ UNCHANGED <<samples, alive, nextSample, store, queue, cur, guards, sup, author>>
  BY DEF GetRoutes, Goto, At, registryVars
<1>2. /\ todo'[p] = routes[p] /\ \A q \in Proc \ {p} : todo'[q] = todo[q]
  BY <1>1 DEF Typed, TypeOK
<1>3. pc[p] \in Publishing /\ l \in {"idle", "register", "insert", "mark", "push"}
  BY <1>1 DEF Publishing
<1>4. cur[p] \in Sample /\ author[cur[p]] = p
  BY <1>3, OwnSample
<1>5. /\ \A s \in Sample : InHand(s)' = InHand(s)
      /\ \A s \in Sample : s # cur[p] /\ SameRecord(s) /\ Away(s)' = Away(s) => Counts(s)'
      /\ \A q \in Proc \ {p} : pc'[q] = pc[q]
      /\ pc'[p] = l
  BY <1>1, <1>2, <1>3, PublishOthers
<1>6. \A s \in Sample : Away(s)' = Away(s)
  BY <1>1, <1>5, AwaySame
<1>7. ASSUME NEW s \in Sample
      PROVE  Counts(s)'
  <2>1. CASE s # cur[p]
    BY <1>1, <1>5, <1>6, <2>1 DEF SameRecord
  <2>2. CASE s = cur[p]
    <3>1. /\ Stage(s, {"routes", "register"})
          /\ Stage(s, {"routes", "register", "insert", "mark"})
      BY <1>1, <1>4, <2>2 DEF Stage
    <3>2. /\ s \notin DOMAIN samples /\ s \notin sup.victims
          /\ Away(s) = 0 /\ \A q \in Proc : cur[q] = s => pc[q] \notin Releasing
          /\ Loaned(s)
      BY <3>1 DEF Account, Counts, Fresh, Unpublished
    <3>3. \A q \in Proc : cur'[q] = s => pc'[q] \notin Releasing
      BY <1>1, <1>5, <3>2 DEF Releasing
    <3>4. Stage(s, {"routes", "register"})' \/ Unsent(s)' = 0
      <4>1. CASE routes[p] = <<>>
        BY <1>1, <1>2, <1>4, <2>2, <4>1 DEF Unsent
      <4>2. CASE routes[p] # <<>>
        BY <1>1, <1>4, <1>5, <2>2, <4>2 DEF Stage
      <4> QED BY <4>1, <4>2
    <3>5. Loaned(s)' /\ Fresh(s)' /\ Unpublished(s)' /\ Recorded(s)' /\ Released(s)'
      BY <1>1, <1>6, <3>2, <3>3 DEF Loaned, Fresh, Unpublished, Recorded, Released
    <3>6. Settled(s)'
      BY <1>6, <3>2, <3>4 DEF Settled
    <3> QED BY <3>5, <3>6 DEF Counts
  <2> QED BY <2>1, <2>2
<1>8. \A q \in Proc : Call(q)'
  <2>1. Call(p)'
    BY <1>1, <1>2, <1>4, <1>5 DEF Call, At, Serving, Publishing
  <2> QED BY <1>1, <1>2, <1>5, <2>1, CallsKept
<1>9. Victims'
  BY <1>1, VictimsKept DEF Account, Victims
<1> QED BY <1>7, <1>8, <1>9 DEF Account

LEMMA RegisterAccount ==
  ASSUME ~Shared, Typed, Typed', Account, NEW p \in Proc, Register(p)
  PROVE  Account'
<1>1. /\ pc[p] = "register" /\ pc' = [pc EXCEPT ![p] = "insert"]
      /\ samples' = [s \in DOMAIN samples \cup {cur[p]} |->
                       IF s = cur[p]
                         THEN [owner |-> p, published |-> FALSE,
                               expected |-> Len(todo[p]), completed |-> 0]
                         ELSE samples[s]]
      /\ UNCHANGED <<alive, nextSample, store, queue, cur, todo, guards, sup, author>>
  BY DEF Register, Expected, TableFull, Goto, At, historyVars
<1>3. pc[p] \in Publishing
  BY <1>1 DEF Publishing
<1>4. cur[p] \in Sample /\ author[cur[p]] = p
  BY <1>3, OwnSample
<1>5. /\ \A s \in Sample : InHand(s)' = InHand(s)
      /\ \A s \in Sample : s # cur[p] /\ SameRecord(s) /\ Away(s)' = Away(s) => Counts(s)'
      /\ \A q \in Proc \ {p} : pc'[q] = pc[q]
      /\ pc'[p] = "insert"
  BY <1>1, <1>3, PublishOthers
<1>6. \A s \in Sample : Away(s)' = Away(s)
  BY <1>1, <1>5, AwaySame
<1>2. /\ Stage(cur[p], {"routes", "register"})
      /\ Stage(cur[p], {"routes", "register", "insert", "mark"})
  BY <1>1, <1>4 DEF Stage
<1>7. ASSUME NEW s \in Sample
      PROVE  Counts(s)'
  <2>1. CASE s # cur[p]
    <3>1. SameRecord(s)
      BY <1>1, <2>1 DEF SameRecord
    <3> QED BY <1>5, <1>6, <2>1, <3>1
  <2>2. CASE s = cur[p]
    <3>2. /\ s \notin sup.victims
          /\ Away(s) = 0 /\ \A q \in Proc : cur[q] = s => pc[q] \notin Releasing
          /\ Loaned(s)
      BY <1>2, <2>2 DEF Account, Counts, Fresh, Unpublished
    <3>3. \A q \in Proc : cur'[q] = s => pc'[q] \notin Releasing
      BY <1>1, <1>5, <3>2 DEF Releasing
    <3>4. Stage(s, {"insert"})' /\ ~Stage(s, {"routes", "register"})'
      BY <1>1, <1>4, <1>5, <2>2 DEF Stage
    <3>5. Unsent(s)' = Len(todo[p]) /\ Len(todo[p]) \in Nat
      BY <1>1, <1>4, <2>2 DEF Unsent, Typed, TypeOK
    <3>6. /\ s \in DOMAIN samples' /\ samples'[s].owner = p
          /\ samples'[s].expected = Len(todo[p]) /\ samples'[s].completed = 0
      BY <1>1, <2>2
    <3>7. s < nextSample' /\ s \in Nat /\ nextSample' \in Nat
      BY <1>1, <1>4, <2>2, <3>2, RuntimeAssumption DEF Loaned, Typed, TypeOK, Sample
    <3>8. Recorded(s)'
      BY <1>1, <1>4, <1>6, <2>2, <3>2, <3>4, <3>5, <3>6 DEF Recorded
    <3>9. Loaned(s)' /\ Fresh(s)' /\ Unpublished(s)' /\ Settled(s)' /\ Released(s)'
      BY <1>1, <1>6, <3>2, <3>3, <3>4, <3>6, <3>7
         DEF Loaned, Fresh, Unpublished, Settled, Released
    <3> QED BY <3>8, <3>9 DEF Counts
  <2> QED BY <2>1, <2>2
<1>8. \A q \in Proc : Call(q)'
  <2>1. Call(p)'
    BY <1>1, <1>4, <1>5 DEF Call, At, Serving, Publishing
  <2> QED BY <1>1, <1>5, <2>1, CallsKept
<1>9. Victims'
  <2>1. cur[p] \notin sup.victims
    BY <1>2, <1>4 DEF Account, Counts, Fresh
  <2> QED BY <1>1, <2>1, VictimsKept DEF Account, Victims
<1> QED BY <1>7, <1>8, <1>9 DEF Account

LEMMA InsertAccount ==
  ASSUME ~Shared, Typed, Typed', Account, NEW p \in Proc, InsertValue(p)
  PROVE  Account'
<1>1. /\ pc[p] = "insert" /\ pc' = [pc EXCEPT ![p] = "mark"]
      /\ store' = store \cup {cur[p]}
      /\ UNCHANGED <<samples, alive, nextSample, queue, cur, todo, guards, sup, author>>
  BY DEF InsertValue, Goto, At, registryVars, historyVars
<1>3. pc[p] \in Publishing
  BY <1>1 DEF Publishing
<1>4. cur[p] \in Sample /\ author[cur[p]] = p
  BY <1>3, OwnSample
<1>5. /\ \A s \in Sample : InHand(s)' = InHand(s)
      /\ \A s \in Sample : s # cur[p] /\ SameRecord(s) /\ Away(s)' = Away(s) => Counts(s)'
      /\ \A q \in Proc \ {p} : pc'[q] = pc[q]
      /\ pc'[p] = "mark"
  BY <1>1, <1>3, PublishOthers
<1>6. \A s \in Sample : Away(s)' = Away(s)
  BY <1>1, <1>5, AwaySame
<1>7. ASSUME NEW s \in Sample
      PROVE  Counts(s)'
  <2>1. CASE s # cur[p]
    BY <1>1, <1>5, <1>6, <2>1 DEF SameRecord
  <2>2. CASE s = cur[p]
    <3>1. /\ ~Stage(s, {"routes", "register"}) /\ ~Stage(s, {"routes", "register"})'
          /\ Stage(s, {"routes", "register", "insert", "mark"})
      BY <1>1, <1>4, <1>5, <2>2 DEF Stage
    <3>2. /\ Away(s) = 0 /\ \A q \in Proc : cur[q] = s => pc[q] \notin Releasing
          /\ Loaned(s) /\ Fresh(s) /\ Recorded(s) /\ Settled(s)
      BY <3>1 DEF Account, Counts, Unpublished
    <3>3. \A q \in Proc : cur'[q] = s => pc'[q] \notin Releasing
      BY <1>1, <1>5, <3>2 DEF Releasing
    <3>5. Unsent(s)' = Unsent(s)
      BY <1>1 DEF Unsent
    <3>7. s < nextSample /\ s \in Nat /\ nextSample \in Nat /\ s \in store'
      BY <1>1, <1>4, <2>2, <3>2, RuntimeAssumption DEF Loaned, Typed, TypeOK, Sample
    <3>8. Recorded(s)' /\ Settled(s)'
      BY <1>1, <1>6, <3>1, <3>2, <3>5, <3>7 DEF Recorded, Settled, Crashed
    <3>9. Loaned(s)' /\ Fresh(s)' /\ Unpublished(s)' /\ Released(s)'
      BY <1>1, <1>6, <3>1, <3>2, <3>3, <3>7 DEF Loaned, Fresh, Unpublished, Released
    <3> QED BY <3>8, <3>9 DEF Counts
  <2> QED BY <2>1, <2>2
<1>8. \A q \in Proc : Call(q)'
  <2>1. Call(p)'
    BY <1>1, <1>4, <1>5 DEF Call, At, Serving, Publishing
  <2> QED BY <1>1, <1>5, <2>1, CallsKept
<1>9. Victims'
  BY <1>1, VictimsKept DEF Account, Victims
<1> QED BY <1>7, <1>8, <1>9 DEF Account

LEMMA MarkAccount ==
  ASSUME ~Shared, Typed, Typed', Account, NEW p \in Proc, MarkPublished(p)
  PROVE  Account'
<1>1. /\ pc[p] = "mark" /\ pc' = [pc EXCEPT ![p] = "push"]
      /\ UNCHANGED <<store, alive, nextSample, queue, cur, todo, guards, sup, author>>
  BY DEF MarkPublished, Goto, At, historyVars
<1>2. /\ DOMAIN samples' = DOMAIN samples
      /\ \A s \in DOMAIN samples : /\ samples'[s].owner = samples[s].owner
                                   /\ samples'[s].expected = samples[s].expected
                                   /\ samples'[s].completed = samples[s].completed
  <2>1. CASE cur[p] \in DOMAIN samples
    <3>1. samples' = WithPublished(cur[p])
      BY <2>1 DEF MarkPublished
    <3>2. TypeOK
      BY DEF Typed
    <3>3. /\ DOMAIN samples' = DOMAIN samples
          /\ \A s \in DOMAIN samples \ {cur[p]} : samples'[s] = samples[s]
      BY <2>1, <3>1, <3>2, RecordSteps
    <3>4. samples'[cur[p]] = [owner |-> samples[cur[p]].owner, published |-> TRUE,
                              expected |-> samples[cur[p]].expected,
                              completed |-> samples[cur[p]].completed]
      BY <2>1, <3>1, <3>2, RecordSteps
    <3>5. /\ samples'[cur[p]].owner = samples[cur[p]].owner
          /\ samples'[cur[p]].expected = samples[cur[p]].expected
          /\ samples'[cur[p]].completed = samples[cur[p]].completed
      BY <3>4
    <3> QED BY <3>3, <3>5
  <2>2. CASE cur[p] \notin DOMAIN samples
    BY <2>2 DEF MarkPublished
  <2> QED BY <2>1, <2>2
<1>3. pc[p] \in Publishing
  BY <1>1 DEF Publishing
<1>4. cur[p] \in Sample /\ author[cur[p]] = p
  BY <1>3, OwnSample
<1>5. /\ \A s \in Sample : InHand(s)' = InHand(s)
      /\ \A s \in Sample : s # cur[p] /\ SameRecord(s) /\ Away(s)' = Away(s) => Counts(s)'
      /\ \A q \in Proc \ {p} : pc'[q] = pc[q]
      /\ pc'[p] = "push"
  BY <1>1, <1>3, PublishOthers
<1>6. \A s \in Sample : Away(s)' = Away(s)
  BY <1>1, <1>5, AwaySame
<1>7. ASSUME NEW s \in Sample
      PROVE  Counts(s)'
  <2>1. CASE s # cur[p]
    <3>1. SameRecord(s)
      BY <1>1, <1>2 DEF SameRecord
    <3> QED BY <1>5, <1>6, <2>1, <3>1
  <2>2. CASE s = cur[p]
    <3>1. /\ ~Stage(s, {"routes", "register"}) /\ ~Stage(s, {"routes", "register"})'
          /\ Stage(s, {"routes", "register", "insert", "mark"}) /\ ~Stage(s, {"insert"})
          /\ ~Stage(s, {"routes", "register", "insert", "mark"})'
      BY <1>1, <1>4, <1>5, <2>2 DEF Stage
    <3>2. /\ Away(s) = 0 /\ \A q \in Proc : cur[q] = s => pc[q] \notin Releasing
          /\ Loaned(s) /\ Fresh(s) /\ Recorded(s) /\ Settled(s)
      BY <3>1 DEF Account, Counts, Unpublished
    <3>3. \A q \in Proc : cur'[q] = s => pc'[q] \notin Releasing
      BY <1>1, <1>5, <3>2 DEF Releasing
    <3>5. Unsent(s)' = Unsent(s)
      BY <1>1 DEF Unsent
    <3>7. s < nextSample /\ s \in Nat /\ nextSample \in Nat
      BY <1>4, <2>2, <3>2, RuntimeAssumption DEF Loaned, Typed, TypeOK, Sample
    <3>8. Recorded(s)'
      BY <1>1, <1>2, <1>6, <3>1, <3>2, <3>5 DEF Recorded
    <3>9. Settled(s)'
      BY <1>1, <1>2, <1>6, <3>1, <3>2, <3>5, <3>7 DEF Settled, Crashed
    <3>10. Loaned(s)' /\ Fresh(s)' /\ Unpublished(s)' /\ Released(s)'
      BY <1>1, <1>6, <3>1, <3>2, <3>3, <3>7 DEF Loaned, Fresh, Unpublished, Released
    <3> QED BY <3>8, <3>9, <3>10 DEF Counts
  <2> QED BY <2>1, <2>2
<1>8. \A q \in Proc : Call(q)'
  <2>1. Call(p)'
    BY <1>1, <1>4, <1>5 DEF Call, At, Serving, Publishing
  <2> QED BY <1>1, <1>5, <2>1, CallsKept
<1>9. Victims'
  BY <1>1, <1>2, VictimsKept DEF Account, Victims
<1> QED BY <1>7, <1>8, <1>9 DEF Account

LEMMA AwayMoves ==
  ASSUME Typed, NEW s \in Sample,
         Cardinality(Places(queue, s)') \in Int, Cardinality(PutAside(s)') \in Int,
         Cardinality(InHand(s)') \in Int, Cardinality(Places(guards, s)') \in Int
  PROVE  Away(s)' = Away(s) + (Cardinality(Places(queue, s)') - Cardinality(Places(queue, s)))
                            + (Cardinality(PutAside(s)') - Cardinality(PutAside(s)))
                            + (Cardinality(InHand(s)') - Cardinality(InHand(s)))
                            + (Cardinality(Places(guards, s)') - Cardinality(Places(guards, s)))
<1> DEFINE q0 == Cardinality(Places(queue, s))
           v0 == Cardinality(PutAside(s))
           h0 == Cardinality(InHand(s))
           g0 == Cardinality(Places(guards, s))
           q1 == Cardinality(Places(queue, s)')
           v1 == Cardinality(PutAside(s)')
           h1 == Cardinality(InHand(s)')
           g1 == Cardinality(Places(guards, s)')
<1>1. Away(s)' = q1 + v1 + h1 + g1 /\ Away(s) = q0 + v0 + h0 + g0
  BY DEF Away
<1>2. q0 \in Nat /\ v0 \in Nat /\ h0 \in Nat /\ g0 \in Nat
  BY CountsAreNaturals
<1>3. q1 \in Int /\ v1 \in Int /\ h1 \in Int /\ g1 \in Int
  OBVIOUS
<1> HIDE DEF q0, v0, h0, g0, q1, v1, h1, g1
<1>4. Away(s)' = Away(s) + (q1 - q0) + (v1 - v0) + (h1 - h0) + (g1 - g0)
  BY <1>1, <1>2, <1>3
<1> QED BY <1>4 DEF q0, v0, h0, g0, q1, v1, h1, g1

\* The terms of Away that a step leaves alone.
LEMMA AwayParts ==
  ASSUME Typed, NEW s \in Sample
  PROVE  /\ queue' = queue =>
              Cardinality(Places(queue, s)') = Cardinality(Places(queue, s))
         /\ sup'.valid = sup.valid => Cardinality(PutAside(s)') = Cardinality(PutAside(s))
         /\ InHand(s)' = InHand(s) => Cardinality(InHand(s)') = Cardinality(InHand(s))
         /\ guards' = guards =>
              Cardinality(Places(guards, s)') = Cardinality(Places(guards, s))
<1>1. /\ queue' = queue => Places(queue, s)' = Places(queue, s)
      /\ guards' = guards => Places(guards, s)' = Places(guards, s)
  BY DEF Places
<1>2. sup'.valid = sup.valid => PutAside(s)' = PutAside(s)
  BY DEF PutAside
<1> QED BY <1>1, <1>2, CountsAreNaturals

LEMMA PushAccount ==
  ASSUME ~Shared, Typed, Typed', Account, NEW p \in Proc, PushDescriptor(p)
  PROVE  Account'
<1> DEFINE l == IF Len(todo[p]) = 1 THEN "idle" ELSE "push"
           t == Head(todo[p])
<1>1. /\ pc[p] = "push" /\ pc' = [pc EXCEPT ![p] = l] /\ todo[p] # <<>>
      /\ todo' = [todo EXCEPT ![p] = Tail(@)]
      /\ queue' = [queue EXCEPT ![t] = Append(@, cur[p])]
      /\ UNCHANGED <<samples, store, alive, nextSample, cur, guards, sup, author>>
  BY DEF PushDescriptor, Goto, At, registryVars, historyVars
<1>2. /\ t \in Proc /\ todo'[p] = Tail(todo[p]) /\ \A q \in Proc \ {p} : todo'[q] = todo[q]
      /\ Len(todo[p]) \in Nat \ {0} /\ Len(todo'[p]) = Len(todo[p]) - 1
      /\ todo'[p] \in Seq(Proc)
  BY <1>1, TailSeq DEF Typed, TypeOK
<1>3. pc[p] \in Publishing /\ l \in {"idle", "register", "insert", "mark", "push"}
  BY <1>1 DEF Publishing
<1>4. cur[p] \in Sample /\ author[cur[p]] = p
  BY <1>3, OwnSample
<1>5. /\ \A s \in Sample : InHand(s)' = InHand(s)
      /\ \A s \in Sample : s # cur[p] /\ SameRecord(s) /\ Away(s)' = Away(s) => Counts(s)'
      /\ \A q \in Proc \ {p} : pc'[q] = pc[q]
      /\ pc'[p] = l
  BY <1>1, <1>2, <1>3, PublishOthers
<1> HIDE DEF t, l
<1>6. ASSUME NEW s \in Sample
      PROVE  Away(s)' = Away(s) + One(cur[p] = s)
  <2>1. Cardinality(Places(queue, s)') = Cardinality(Places(queue, s)) + One(cur[p] = s)
    <3>1. queue \in [Proc -> Seq(Sample)]
      BY DEF Typed, TypeOK
    <3>2. Grown(queue', queue, t, cur[p])
      BY <1>1, <1>2, <3>1 DEF Typed, TypeOK, Grown
    <3>3. Cardinality(Places(queue', s)) = Cardinality(Places(queue, s)) + One(cur[p] = s)
      BY <1>2, <1>4, <3>1, <3>2, PlacesAppend
    <3> QED BY <3>3 DEF Places
  <2>2. /\ Cardinality(PutAside(s)') = Cardinality(PutAside(s))
        /\ Cardinality(InHand(s)') = Cardinality(InHand(s))
        /\ Cardinality(Places(guards, s)') = Cardinality(Places(guards, s))
    BY <1>1, <1>5, AwayParts
  <2>3. One(cur[p] = s) \in Nat /\ Away(s) \in Nat
    BY CountsAreNaturals DEF One
  <2>4. Cardinality(Places(queue, s)) \in Nat /\ Cardinality(PutAside(s)) \in Nat
        /\ Cardinality(InHand(s)) \in Nat /\ Cardinality(Places(guards, s)) \in Nat
    BY CountsAreNaturals
  <2>5. Away(s)' = Away(s) + (Cardinality(Places(queue, s)') - Cardinality(Places(queue, s)))
                           + (Cardinality(PutAside(s)') - Cardinality(PutAside(s)))
                           + (Cardinality(InHand(s)') - Cardinality(InHand(s)))
                           + (Cardinality(Places(guards, s)') - Cardinality(Places(guards, s)))
    BY <2>1, <2>2, <2>3, <2>4, AwayMoves
  <2> QED BY <2>1, <2>2, <2>3, <2>4, <2>5
<1>7. ASSUME NEW s \in Sample
      PROVE  Counts(s)'
  <2>0. Unsent(s) \in Nat /\ Away(s) \in Nat
    BY CountsAreNaturals
  <2>1. CASE s # cur[p]
    <3>1. SameRecord(s)
      BY <1>1 DEF SameRecord
    <3>2. Away(s)' = Away(s)
      BY <1>6, <2>0, <2>1 DEF One
    <3> QED BY <1>5, <2>1, <3>1, <3>2
  <2>2. CASE s = cur[p]
    <3>1. /\ ~Stage(s, {"routes", "register"}) /\ ~Stage(s, {"routes", "register"})'
          /\ ~Stage(s, {"insert"})
          /\ ~Stage(s, {"routes", "register", "insert", "mark"})'
      BY <1>1, <1>4, <1>5, <2>2 DEF Stage, l
    <3>2. Loaned(s) /\ Recorded(s) /\ Settled(s) /\ Released(s)
      BY DEF Account, Counts
    <3>5. /\ Unsent(s) = Len(todo[p]) /\ Unsent(s)' = Len(todo[p]) - 1
          /\ Away(s)' = Away(s) + 1
      BY <1>1, <1>2, <1>4, <1>6, <2>2 DEF Unsent, One
    <3>6. Unsent(s) + Away(s) # 0 /\ Unsent(s)' + Away(s)' = Unsent(s) + Away(s)
      BY <1>2, <2>0, <3>5
    <3>7. s < nextSample /\ s \in Nat /\ nextSample \in Nat
      BY <1>4, <2>2, <3>2, RuntimeAssumption DEF Loaned, Typed, TypeOK, Sample
    <3>3. \A q \in Proc : cur'[q] = s => pc'[q] \notin Releasing
      BY <1>1, <1>5, <3>2, <3>6 DEF Releasing, Released, l
    <3>8. Recorded(s)'
      <4> SUFFICES ASSUME s \in DOMAIN samples
                   PROVE  /\ samples[s].owner = author[s]
                          /\ samples[s].completed + Unsent(s)' + Away(s)' = samples[s].expected
                          /\ s \in store
        BY <1>1 DEF Recorded
      <4>1. /\ samples[s].owner = author[s]
            /\ samples[s].completed + Unsent(s) + Away(s) = samples[s].expected
            /\ s \in store
        BY <3>1, <3>2 DEF Recorded
      <4>2. samples[s].completed \in Nat
        BY DEF Typed, TypeOK, SampleRecord
      <4>3. Unsent(s)' \in Int /\ Away(s)' \in Int
        BY <1>2, <2>0, <3>5
      <4> QED BY <2>0, <3>6, <4>1, <4>2, <4>3
    <3>9. Settled(s)'
      BY <1>1, <3>1, <3>2, <3>6, <3>7 DEF Settled, Crashed
    <3>10. Loaned(s)' /\ Fresh(s)' /\ Unpublished(s)' /\ Released(s)'
      BY <1>1, <3>1, <3>2, <3>3, <3>7 DEF Loaned, Fresh, Unpublished, Released
    <3> QED BY <3>8, <3>9, <3>10 DEF Counts
  <2> QED BY <2>1, <2>2
<1>8. \A q \in Proc : Call(q)'
  <2>1. Call(p)'
    <3>1. l = "idle" => todo'[p] = <<>>
      <4>1. l = "idle" => Len(todo'[p]) = 0
        BY <1>2 DEF l
      <4> QED BY <1>2, <4>1, EmptySeq
    <3> QED BY <1>1, <1>4, <1>5, <3>1 DEF Call, At, Serving, Publishing, l
  <2> QED BY <1>1, <1>2, <1>5, <2>1, CallsKept
<1>9. Victims'
  BY <1>1, VictimsKept DEF Account, Victims
<1> QED BY <1>7, <1>8, <1>9 DEF Account

-----------------------------------------------------------------------------
(* recv, and the drop of a guard                                           *)

\* A step of a thread that is not publishing, and of nobody else.
LEMMA Aside ==
  ASSUME Typed, Account, NEW p \in Proc, pc[p] \notin Publishing, pc'[p] \notin Publishing,
         ~At(p, "received")',
         \A q \in Proc \ {p} : pc'[q] = pc[q] /\ cur'[q] = cur[q],
         todo' = todo, author' = author, alive' = alive, sup' = sup, nextSample' = nextSample,
         DOMAIN samples' \subseteq DOMAIN samples
  PROVE  /\ \A q \in Proc : Call(q)'
         /\ Victims'
         /\ \A s \in Sample : /\ Unsent(s)' = Unsent(s)
                              /\ \A P \in SUBSET Publishing : Stage(s, P)' <=> Stage(s, P)
<1>1. todo[p] = <<>>
  BY DEF Account, Call, Publishing, Serving
<1>2. \A q \in Proc : Call(q)'
  <2>1. Call(p)'
    BY <1>1 DEF Call, At
  <2> QED BY <2>1, CallsKept
<1>3. Victims'
  BY VictimsKept DEF Account, Victims
<1>4. ASSUME NEW s \in Sample
      PROVE  Unsent(s)' = Unsent(s)
  <2>1. CASE author[s] = p
    <3>1. Len(todo[p]) = 0
      BY <1>1
    <3> QED BY <2>1, <3>1 DEF Unsent
  <2>2. CASE author[s] # p
    BY <2>2 DEF Unsent
  <2> QED BY <2>1, <2>2
<1>5. ASSUME NEW s \in Sample, NEW P \in SUBSET Publishing
      PROVE  Stage(s, P)' <=> Stage(s, P)
  BY DEF Stage
<1> QED BY <1>2, <1>3, <1>4, <1>5

LEMMA PopAccount ==
  ASSUME ~Shared, Typed, Typed', Account, NEW p \in Proc, Pop(p)
  PROVE  Account'
<1> DEFINE x == Head(queue[p])
<1>1. /\ pc[p] = "idle" /\ pc' = [pc EXCEPT ![p] = "lookup"] /\ queue[p] # <<>>
      /\ cur' = [cur EXCEPT ![p] = x] /\ queue' = [queue EXCEPT ![p] = Tail(@)]
      /\ UNCHANGED <<samples, store, alive, nextSample, todo, guards, sup, author>>
  BY DEF Pop, Goto, At, registryVars, historyVars
<1>2. /\ queue \in [Proc -> Seq(Sample)] /\ queue[p] \in Seq(Sample)
      /\ pc'[p] = "lookup" /\ cur'[p] = x
      /\ \A q \in Proc \ {p} : pc'[q] = pc[q] /\ cur'[q] = cur[q]
  BY <1>1 DEF Typed, TypeOK
<1>3. x \in Sample /\ x = queue[p][1] /\ Tail(queue[p]) \in Seq(Sample)
      /\ 1 \in 1 .. Len(queue[p]) /\ IsWithout(Tail(queue[p]), queue[p], 1)
  BY <1>1, <1>2, TailSeq, TailIsWithout
<1> HIDE DEF x
<1>4. pc[p] \notin Publishing /\ pc'[p] \notin Publishing /\ ~At(p, "received")'
  BY <1>1, <1>2 DEF Publishing, At
<1>5. /\ \A q \in Proc : Call(q)'
      /\ Victims'
      /\ \A s \in Sample : /\ Unsent(s)' = Unsent(s)
                           /\ \A P \in SUBSET Publishing : Stage(s, P)' <=> Stage(s, P)
  BY <1>1, <1>2, <1>4, Aside
<1>6. ASSUME NEW s \in Sample
      PROVE  Away(s)' = Away(s)
  <2>1. Cardinality(Places(queue, s)') = Cardinality(Places(queue, s)) - One(x = s)
    <3>1. Shrunk(queue', queue, p, 1)
      BY <1>1, <1>2, <1>3 DEF Typed, TypeOK, Shrunk
    <3>2. Cardinality(Places(queue', s)) = Cardinality(Places(queue, s)) - One(queue[p][1] = s)
      BY <1>2, <1>3, <3>1, PlacesWithout
    <3> QED BY <1>3, <3>2 DEF Places
  <2>2. Cardinality(InHand(s)') = Cardinality(InHand(s)) + One(x = s)
    <3>1. p \notin InHand(s) /\ (p \in InHand(s)' <=> x = s)
      BY <1>1, <1>2 DEF InHand
    <3>2. Cardinality(InHand(s)') =
            Cardinality(InHand(s)) - One(p \in InHand(s)) + One(p \in InHand(s)')
      BY <1>2, HandStep
    <3>3. One(p \in InHand(s)) = 0 /\ One(p \in InHand(s)') = One(x = s)
      BY <3>1 DEF One
    <3>4. Cardinality(InHand(s)) \in Nat /\ One(x = s) \in Nat
      BY CountsAreNaturals DEF One
    <3> QED BY <3>2, <3>3, <3>4
  <2>3. /\ Cardinality(PutAside(s)') = Cardinality(PutAside(s))
        /\ Cardinality(Places(guards, s)') = Cardinality(Places(guards, s))
    BY <1>1, AwayParts
  <2>4. One(x = s) \in Nat /\ Away(s) \in Nat
    BY CountsAreNaturals DEF One
  <2>5. Cardinality(Places(queue, s)) \in Nat /\ Cardinality(PutAside(s)) \in Nat
        /\ Cardinality(InHand(s)) \in Nat /\ Cardinality(Places(guards, s)) \in Nat
    BY CountsAreNaturals
  <2>6. Away(s)' = Away(s) + (Cardinality(Places(queue, s)') - Cardinality(Places(queue, s)))
                           + (Cardinality(PutAside(s)') - Cardinality(PutAside(s)))
                           + (Cardinality(InHand(s)') - Cardinality(InHand(s)))
                           + (Cardinality(Places(guards, s)') - Cardinality(Places(guards, s)))
    BY <2>1, <2>2, <2>3, <2>4, <2>5, AwayMoves
  <2> QED BY <2>1, <2>2, <2>3, <2>4, <2>5, <2>6
<1>7. ASSUME NEW s \in Sample
      PROVE  Counts(s)'
  <2>1. Untouched(s)
    <3>1. \A q \in Proc : cur'[q] = s /\ pc'[q] \in Releasing => cur[q] = s /\ pc[q] = pc'[q]
      BY <1>2 DEF Releasing
    <3>2. Away(s) \in Nat
      BY CountsAreNaturals
    <3> QED BY <1>1, <1>5, <1>6, <3>1, <3>2 DEF Untouched, Crashed
  <2>2. SameRecord(s)
    BY <1>1 DEF SameRecord
  <2>3. nextSample' \in Nat
    BY <1>1, RuntimeAssumption DEF Typed, TypeOK
  <2> QED BY <2>1, <2>2, <2>3, CountsKept DEF Account
<1> QED BY <1>5, <1>7 DEF Account

\* What a popped descriptor names is not published any more, and so stored or gone.
LEMMA PoppedIsSettled ==
  ASSUME Typed, NEW s \in Sample, Counts(s), Away(s) > 0
  PROVE  /\ s \in DOMAIN samples => s \in store
         /\ ~(s >= nextSample) /\ ~Stage(s, {"routes", "register", "insert", "mark"})
         /\ ~Stage(s, {"routes", "register"})
         /\ \A q \in Proc : cur[q] = s => pc[q] \notin Releasing
<1>1. /\ ~(s >= nextSample)
      /\ ~Stage(s, {"routes", "register", "insert", "mark"})
  BY DEF Counts, Unpublished
<1>2. ~Stage(s, {"insert"}) /\ ~Stage(s, {"routes", "register"})
  BY <1>1 DEF Stage
<1>3. s \in DOMAIN samples => s \in store
  BY <1>2 DEF Counts, Recorded
<1>4. Unsent(s) + Away(s) # 0
  BY CountsAreNaturals
<1> QED BY <1>1, <1>2, <1>3, <1>4 DEF Counts, Released

LEMMA LookupAccount ==
  ASSUME ~Shared, Typed, Typed', Account, NEW p \in Proc, Lookup(p)
  PROVE  Account'
<1>1. /\ pc[p] = "lookup" /\ pc' = [pc EXCEPT ![p] = "idle"]
      /\ guards' = IF cur[p] \in store THEN [guards EXCEPT ![p] = Append(@, cur[p])]
                                       ELSE guards
      /\ UNCHANGED <<samples, store, alive, nextSample, queue, cur, todo, sup, author>>
  BY DEF Lookup, Goto, At, registryVars
<1>2. /\ cur[p] \in Sample /\ pc'[p] = "idle"
      /\ \A q \in Proc \ {p} : pc'[q] = pc[q] /\ cur'[q] = cur[q]
  BY <1>1 DEF Typed, TypeOK, InHandOf, At
<1>3. pc[p] \notin Publishing /\ pc'[p] \notin Publishing /\ ~At(p, "received")'
  BY <1>1, <1>2 DEF Publishing, At
<1>4. /\ \A q \in Proc : Call(q)'
      /\ Victims'
      /\ \A s \in Sample : /\ Unsent(s)' = Unsent(s)
                           /\ \A P \in SUBSET Publishing : Stage(s, P)' <=> Stage(s, P)
  BY <1>1, <1>2, <1>3, Aside
<1> DEFINE hit == IF cur[p] \in store THEN 1 ELSE 0
<1>5. ASSUME NEW s \in Sample
      PROVE  /\ Away(s)' = Away(s) - One(cur[p] = s) + hit * One(cur[p] = s)
             /\ Away(s) - One(cur[p] = s) \in Nat
  <2>1. /\ Cardinality(InHand(s)') = Cardinality(InHand(s)) - One(cur[p] = s)
        /\ cur[p] = s => InHand(s) # {}
    <3>1. p \notin InHand(s)' /\ (p \in InHand(s) <=> cur[p] = s)
      BY <1>1, <1>2 DEF InHand
    <3>2. Cardinality(InHand(s)') =
            Cardinality(InHand(s)) - One(p \in InHand(s)) + One(p \in InHand(s)')
      BY <1>2, HandStep
    <3>3. One(p \in InHand(s)') = 0 /\ One(p \in InHand(s)) = One(cur[p] = s)
      BY <3>1 DEF One
    <3>4. Cardinality(InHand(s)) \in Nat /\ One(cur[p] = s) \in Nat
      BY CountsAreNaturals DEF One
    <3> QED BY <3>1, <3>2, <3>3, <3>4
  <2>2. Cardinality(Places(guards, s)')
          = Cardinality(Places(guards, s)) + hit * One(cur[p] = s)
    <3>1. CASE cur[p] \in store
      <4>1. guards \in [Proc -> Seq(Sample)]
        BY DEF Typed, TypeOK
      <4>2. Grown(guards', guards, p, cur[p])
        BY <1>1, <3>1, <4>1 DEF Typed, TypeOK, Grown
      <4>3. Cardinality(Places(guards', s))
              = Cardinality(Places(guards, s)) + One(cur[p] = s)
        BY <1>2, <4>1, <4>2, PlacesAppend
      <4>4. One(cur[p] = s) \in Nat
        BY DEF One
      <4> QED BY <3>1, <4>3, <4>4 DEF Places
    <3>2. CASE cur[p] \notin store
      <4>1. Cardinality(Places(guards, s)') = Cardinality(Places(guards, s))
        BY <1>1, <3>2, AwayParts
      <4>2. One(cur[p] = s) \in Nat /\ Cardinality(Places(guards, s)) \in Nat
        BY CountsAreNaturals DEF One
      <4> QED BY <3>2, <4>1, <4>2
    <3> QED BY <3>1, <3>2
  <2>3. /\ Cardinality(PutAside(s)') = Cardinality(PutAside(s))
        /\ Cardinality(Places(queue, s)') = Cardinality(Places(queue, s))
    BY <1>1, AwayParts
  <2>4. /\ One(cur[p] = s) \in Nat /\ hit * One(cur[p] = s) \in Nat /\ Away(s) \in Nat
    BY CountsAreNaturals DEF One
  <2>5. Cardinality(Places(queue, s)) \in Nat /\ Cardinality(PutAside(s)) \in Nat
        /\ Cardinality(InHand(s)) \in Nat /\ Cardinality(Places(guards, s)) \in Nat
    BY CountsAreNaturals
  <2> HIDE DEF hit
  <2>6. Away(s)' = Away(s) + (Cardinality(Places(queue, s)') - Cardinality(Places(queue, s)))
                           + (Cardinality(PutAside(s)') - Cardinality(PutAside(s)))
                           + (Cardinality(InHand(s)') - Cardinality(InHand(s)))
                           + (Cardinality(Places(guards, s)') - Cardinality(Places(guards, s)))
    BY <2>1, <2>2, <2>3, <2>4, <2>5, AwayMoves
  <2>7. Away(s) - One(cur[p] = s) \in Nat
    BY <2>1, <2>4, AwayIsSomewhere DEF One
  <2> QED BY <2>1, <2>2, <2>3, <2>4, <2>5, <2>6, <2>7
<1>6. cur[p] \in DOMAIN samples => hit = 1
  <2>1. p \in InHand(cur[p])
    BY <1>1 DEF InHand
  <2>2. Away(cur[p]) > 0
    BY <1>2, <2>1, AwayIsSomewhere
  <2> QED BY <1>2, <2>2, PoppedIsSettled DEF Account
<1>7. ASSUME NEW s \in Sample
      PROVE  Counts(s)'
  <2>1. /\ Away(s)' \in Nat /\ Away(s)' <= Away(s)
        /\ s \in DOMAIN samples => Away(s)' = Away(s)
    <3>1. Away(s) \in Nat
      BY CountsAreNaturals
    <3>2. CASE cur[p] = s /\ hit = 0
      BY <1>5, <1>6, <3>1, <3>2 DEF One
    <3>3. CASE cur[p] = s /\ hit = 1
      BY <1>5, <3>1, <3>3 DEF One
    <3>4. CASE cur[p] # s
      <4>1. One(cur[p] = s) = 0 /\ hit \in Nat
        BY <3>4 DEF One
      <4> HIDE DEF hit
      <4>2. hit * One(cur[p] = s) = 0
        BY <4>1
      <4> QED BY <1>5, <3>1, <4>1, <4>2
    <3> QED BY <3>2, <3>3, <3>4
  <2>2. \A q \in Proc : cur'[q] = s /\ pc'[q] \in Releasing => cur[q] = s /\ pc[q] = pc'[q]
    BY <1>2 DEF Releasing
  <2>3. Untouched(s)
    BY <1>1, <1>4, <2>1, <2>2 DEF Untouched, Crashed
  <2>4. SameRecord(s)
    BY <1>1 DEF SameRecord
  <2>5. nextSample' \in Nat
    BY <1>1, RuntimeAssumption DEF Typed, TypeOK
  <2> QED BY <2>3, <2>4, <2>5, CountsKept DEF Account
<1> QED BY <1>4, <1>7 DEF Account

LEMMA DropAccount ==
  ASSUME ~Shared, Typed, Typed', Account, NEW p \in Proc, DropGuard(p)
  PROVE  Account'
<1>0. PICK i \in 1 .. Len(guards[p]) :
        LET s == guards[p][i] IN
        /\ guards' = [guards EXCEPT ![p] = RemoveIndex(@, i)]
        /\ cur' = [cur EXCEPT ![p] = s]
        /\ IF s \in DOMAIN samples
             THEN /\ samples' = WithRead(s)
                  /\ Goto(p, IF AllRead(samples[s]) THEN "reclaim" ELSE "idle")
             ELSE UNCHANGED <<samples, pc>>
  BY DEF DropGuard
<1> DEFINE x == guards[p][i]
<1>1. /\ pc[p] = "idle" /\ cur' = [cur EXCEPT ![p] = x]
      /\ guards' = [guards EXCEPT ![p] = RemoveIndex(@, i)]
      /\ UNCHANGED <<store, alive, nextSample, queue, todo, sup, author>>
      /\ x \in DOMAIN samples => samples' = WithRead(x)
      /\ x \notin DOMAIN samples => samples' = samples
  BY <1>0 DEF DropGuard, At, historyVars
<1>2. /\ guards \in [Proc -> Seq(Sample)] /\ guards[p] \in Seq(Sample) /\ x \in Sample
      /\ cur'[p] = x /\ TypeOK
      /\ \A q \in Proc \ {p} : pc'[q] = pc[q] /\ cur'[q] = cur[q]
      /\ pc'[p] \in {"idle", "reclaim"}
      /\ pc'[p] = "reclaim" => x \in DOMAIN samples /\ AllRead(samples[x])
  <2>1. TypeOK /\ guards \in [Proc -> Seq(Sample)] /\ guards[p] \in Seq(Sample)
    BY DEF Typed, TypeOK
  <2>2. x \in Sample
    BY <2>1
  <2>3. cur'[p] = x /\ \A q \in Proc \ {p} : cur'[q] = cur[q]
    BY <1>1, <2>1 DEF TypeOK
  <2>4. CASE x \in DOMAIN samples
    <3>1. pc' = [pc EXCEPT ![p] = IF AllRead(samples[x]) THEN "reclaim" ELSE "idle"]
      BY <1>0, <2>4 DEF Goto
    <3> QED BY <2>1, <2>2, <2>3, <2>4, <3>1 DEF TypeOK
  <2>5. CASE x \notin DOMAIN samples
    <3>1. pc' = pc
      BY <1>0, <2>5
    <3> QED BY <1>1, <2>1, <2>2, <2>3, <3>1
  <2> QED BY <2>4, <2>5
<1>3. DOMAIN samples' = DOMAIN samples /\ \A s \in DOMAIN samples \ {x} : samples'[s] = samples[s]
  <2>1. CASE x \in DOMAIN samples
    <3>1. samples' = WithRead(x)
      BY <1>1, <2>1
    <3>2. /\ DOMAIN WithRead(x) = DOMAIN samples
          /\ \A s \in DOMAIN samples \ {x} : WithRead(x)[s] = samples[s]
      BY <1>2, <2>1, RecordSteps
    <3> QED BY <3>1, <3>2
  <2>2. CASE x \notin DOMAIN samples
    BY <1>1, <2>2
  <2> QED BY <2>1, <2>2
<1>4. Shrunk(guards', guards, p, i)
  <2>1. RemoveIndex(guards[p], i) \in Seq(Sample) /\ IsWithout(RemoveIndex(guards[p], i), guards[p], i)
    BY <1>2, RemoveIndexIsWithout
  <2>2. guards' \in [Proc -> Seq(Sample)] /\ guards'[p] = RemoveIndex(guards[p], i)
        /\ \A q \in Proc : q # p => guards'[q] = guards[q]
    BY <1>1, <1>2 DEF Typed, TypeOK
  <2> QED BY <2>1, <2>2 DEF Shrunk
<1>5. <<p, i>> \in Places(guards, x)
  BY <1>2, InPlaces
<1> HIDE DEF x
<1>6. pc[p] \notin Publishing /\ pc'[p] \notin Publishing /\ ~At(p, "received")'
  BY <1>1, <1>2 DEF Publishing, At
<1>7. /\ \A q \in Proc : Call(q)'
      /\ Victims'
      /\ \A s \in Sample : /\ Unsent(s)' = Unsent(s)
                           /\ \A P \in SUBSET Publishing : Stage(s, P)' <=> Stage(s, P)
  BY <1>1, <1>2, <1>3, <1>6, Aside
<1>8. ASSUME NEW s \in Sample
      PROVE  Away(s)' = Away(s) - One(x = s)
  <2>1. Cardinality(Places(guards, s)') = Cardinality(Places(guards, s)) - One(x = s)
    <3>1. Cardinality(Places(guards', s)) = Cardinality(Places(guards, s)) - One(guards[p][i] = s)
      BY <1>2, <1>4, PlacesWithout
    <3> QED BY <3>1 DEF Places, x
  <2>2. InHand(s)' = InHand(s)
    BY <1>1, <1>2 DEF InHand
  <2>3. /\ Cardinality(PutAside(s)') = Cardinality(PutAside(s))
        /\ Cardinality(Places(queue, s)') = Cardinality(Places(queue, s))
        /\ Cardinality(InHand(s)') = Cardinality(InHand(s))
    BY <1>1, <2>2, AwayParts
  <2>4. One(x = s) \in Nat /\ Away(s) \in Nat
    BY CountsAreNaturals DEF One
  <2>5. Cardinality(Places(queue, s)) \in Nat /\ Cardinality(PutAside(s)) \in Nat
        /\ Cardinality(InHand(s)) \in Nat /\ Cardinality(Places(guards, s)) \in Nat
    BY CountsAreNaturals
  <2>6. Away(s)' = Away(s) + (Cardinality(Places(queue, s)') - Cardinality(Places(queue, s)))
                           + (Cardinality(PutAside(s)') - Cardinality(PutAside(s)))
                           + (Cardinality(InHand(s)') - Cardinality(InHand(s)))
                           + (Cardinality(Places(guards, s)') - Cardinality(Places(guards, s)))
    BY <2>1, <2>3, <2>4, <2>5, AwayMoves
  <2> QED BY <2>1, <2>3, <2>4, <2>5, <2>6
<1>9. Away(x) > 0 /\ Counts(x)
  BY <1>2, <1>5, AwayIsSomewhere DEF Account
<1>10. ASSUME NEW s \in Sample
       PROVE  Counts(s)'
  <2>0. Unsent(s) \in Nat /\ Away(s) \in Nat
    BY CountsAreNaturals
  <2>1. CASE s # x \/ x \notin DOMAIN samples
    <3>1. /\ Away(s)' \in Nat /\ Away(s)' <= Away(s)
          /\ s \in DOMAIN samples => Away(s)' = Away(s)
      BY <1>8, <1>9, <2>0, <2>1 DEF One
    <3>2. \A q \in Proc : cur'[q] = s /\ pc'[q] \in Releasing => cur[q] = s /\ pc[q] = pc'[q]
      BY <1>2, <2>1 DEF Releasing
    <3>3. Untouched(s)
      BY <1>1, <1>7, <3>1, <3>2 DEF Untouched, Crashed
    <3>4. SameRecord(s)
      BY <1>1, <1>3, <2>1 DEF SameRecord
    <3>5. nextSample' \in Nat
      BY <1>1, RuntimeAssumption DEF Typed, TypeOK
    <3> QED BY <3>3, <3>4, <3>5, CountsKept DEF Account
  <2>2. CASE s = x /\ x \in DOMAIN samples
    <3>1. /\ s \in store /\ ~(s >= nextSample)
          /\ ~Stage(s, {"routes", "register", "insert", "mark"})
          /\ ~Stage(s, {"routes", "register"})
          /\ \A q \in Proc : cur[q] = s => pc[q] \notin Releasing
      BY <1>9, <2>2, PoppedIsSettled
    <3>2. /\ ~Stage(s, {"routes", "register", "insert", "mark"})'
          /\ ~Stage(s, {"routes", "register"})'
      BY <1>7, <3>1 DEF Publishing
    <3>3. /\ samples[s].owner = author[s] /\ samples[s].completed \in Nat
          /\ samples[s].completed + Unsent(s) + Away(s) = samples[s].expected
          /\ Loaned(s)
      BY <1>2, <1>9, <2>2 DEF Counts, Recorded, TypeOK, SampleRecord
    <3>4. Away(s)' = Away(s) - 1 /\ Unsent(s)' = Unsent(s) /\ Away(s) > 0
      BY <1>7, <1>8, <1>9, <2>2 DEF One
    <3>5. samples'[s] = [owner |-> samples[s].owner, published |-> samples[s].published,
                         expected |-> samples[s].expected,
                         completed |-> samples[s].completed + 1]
      BY <1>1, <1>2, <2>2, RecordSteps
    <3>6. Recorded(s)'
      <4>1. /\ samples'[s].owner = author'[s]
            /\ samples'[s].completed = samples[s].completed + 1
            /\ samples'[s].expected = samples[s].expected
        BY <1>1, <3>3, <3>5
      <4>2. samples'[s].completed + Unsent(s)' + Away(s)' = samples'[s].expected
        BY <2>0, <3>3, <3>4, <4>1
      <4> QED BY <1>1, <3>1, <4>1, <4>2 DEF Recorded
    <3>7. Released(s)'
      <4>1. ASSUME NEW q \in Proc, cur'[q] = s, pc'[q] \in Releasing
            PROVE  q = p /\ pc'[p] = "reclaim"
        BY <1>2, <3>1, <4>1 DEF Releasing
      <4>2. ASSUME pc'[p] = "reclaim"
            PROVE  Unsent(s)' + Away(s)' = 0
        <5>1. samples[s].completed + 1 >= samples[s].expected
          BY <1>2, <2>2, <4>2 DEF AllRead
        <5> QED BY <2>0, <3>3, <3>4, <5>1
      <4> QED BY <4>1, <4>2 DEF Released, At
    <3>8. s \in DOMAIN samples'
      BY <1>3, <2>2
    <3>9. Loaned(s)' /\ Fresh(s)' /\ Unpublished(s)' /\ Settled(s)'
      BY <1>1, <3>1, <3>2, <3>3, <3>8 DEF Loaned, Fresh, Unpublished, Settled
    <3> QED BY <3>6, <3>7, <3>9 DEF Counts
  <2> QED BY <2>1, <2>2
<1> QED BY <1>7, <1>10 DEF Account

LEMMA ReclaimAccount ==
  ASSUME ~Shared, Typed, Typed', Account, NEW p \in Proc, Reclaim(p) \/ RemoveValue(p)
  PROVE  Account'
<1>1. /\ pc[p] \in Releasing /\ UNCHANGED <<alive, nextSample, queue, cur, todo, guards, sup, author>>
      /\ \/ Reclaim(p) /\ pc' = [pc EXCEPT ![p] = "remove"]
         \/ RemoveValue(p) /\ pc' = [pc EXCEPT ![p] = "idle"]
  BY DEF Reclaim, RemoveValue, Goto, At, registryVars, historyVars, Releasing
<1>2. /\ cur[p] \in Sample /\ pc'[p] \in {"remove", "idle"}
      /\ \A q \in Proc \ {p} : pc'[q] = pc[q] /\ cur'[q] = cur[q]
  BY <1>1 DEF Typed, TypeOK, InHandOf, At, Releasing
<1>3. pc[p] \notin Publishing /\ pc'[p] \notin Publishing /\ ~At(p, "received")'
  BY <1>1, <1>2 DEF Publishing, Releasing, At
<1>4. /\ DOMAIN samples' \subseteq DOMAIN samples
      /\ \A s \in Sample : s # cur[p] => SameRecord(s)
      /\ RemoveValue(p) => samples' = samples /\ pc[p] = "remove"
      /\ Reclaim(p) => store' = store /\ cur[p] \notin DOMAIN samples'
  <2>1. CASE Reclaim(p)
    BY <1>1, <2>1 DEF Reclaim, Without, SameRecord, RemoveValue, At
  <2>2. CASE RemoveValue(p)
    BY <1>1, <2>2 DEF RemoveValue, registryVars, SameRecord, Reclaim, At
  <2> QED BY <2>1, <2>2
<1>5. /\ \A q \in Proc : Call(q)'
      /\ Victims'
      /\ \A s \in Sample : /\ Unsent(s)' = Unsent(s)
                           /\ \A P \in SUBSET Publishing : Stage(s, P)' <=> Stage(s, P)
  BY <1>1, <1>2, <1>3, <1>4, Aside
<1>6. \A s \in Sample : Away(s)' = Away(s)
  <2>1. \A s \in Sample : InHand(s)' = InHand(s)
    BY <1>1, <1>2 DEF InHand, Releasing
  <2> QED BY <1>1, <2>1, AwaySame
<1>7. /\ Unsent(cur[p]) + Away(cur[p]) = 0
      /\ pc[p] = "remove" => cur[p] \notin DOMAIN samples
  BY <1>1, <1>2 DEF Account, Counts, Released, At
<1>8. ASSUME NEW s \in Sample, SameRecord(s), s # cur[p] \/ pc'[p] = "idle"
      PROVE  Counts(s)'
  <2>1. \A q \in Proc : cur'[q] = s /\ pc'[q] \in Releasing => cur[q] = s /\ pc[q] = pc'[q]
    BY <1>1, <1>2, <1>8 DEF Releasing
  <2>2. Away(s) \in Nat
    BY CountsAreNaturals
  <2>3. Untouched(s)
    BY <1>1, <1>5, <1>6, <2>1, <2>2 DEF Untouched, Crashed
  <2>4. nextSample' \in Nat
    BY <1>1, RuntimeAssumption DEF Typed, TypeOK
  <2> QED BY <1>8, <2>3, <2>4, CountsKept DEF Account
<1>9. ASSUME NEW s \in Sample, s = cur[p]
      PROVE  Counts(s)'
  <2>1. CASE RemoveValue(p)
    <3>1. SameRecord(s)
      BY <1>1, <1>4, <1>7, <1>9, <2>1 DEF SameRecord
    <3>2. pc'[p] = "idle"
      BY <1>1, <1>4, <2>1 DEF Reclaim, At, Typed, TypeOK
    <3> QED BY <1>8, <3>1, <3>2
  <2>2. CASE Reclaim(p)
    <3>1. s \notin DOMAIN samples' /\ Unsent(s)' + Away(s)' = 0
      BY <1>4, <1>5, <1>6, <1>7, <1>9, <2>2
    <3>2. Counts(s)
      BY DEF Account
    <3>3. ~(s >= nextSample) /\ ~Stage(s, {"routes", "register", "insert", "mark"})
      BY <1>1, <1>9, <3>2 DEF Counts, Unpublished
    <3>4. /\ ~Stage(s, {"routes", "register", "insert", "mark"})'
          /\ ~Stage(s, {"routes", "register"})'
      <4>1. ~Stage(s, {"routes", "register", "insert", "mark"})'
        BY <1>5, <3>3 DEF Publishing
      <4> QED BY <4>1 DEF Stage
    <3>5. Released(s)' /\ Settled(s)' /\ Recorded(s)'
      BY <3>1 DEF Released, Settled, Recorded
    <3>6. Loaned(s)' /\ Fresh(s)' /\ Unpublished(s)'
      BY <1>1, <3>2, <3>3, <3>4 DEF Counts, Loaned, Fresh, Unpublished
    <3> QED BY <3>5, <3>6 DEF Counts
  <2> QED BY <2>1, <2>2
<1>10. \A s \in Sample : Counts(s)'
  BY <1>4, <1>8, <1>9
<1> QED BY <1>5, <1>10 DEF Account

-----------------------------------------------------------------------------
(* Deaths, the supervisor and reroutes: no call moves.                     *)

LEMMA AccountKept ==
  ASSUME Typed, Account, UNCHANGED <<pc, cur, todo, author, nextSample>>,
         Crashed \subseteq Crashed', Victims',
         \A s \in Sample : /\ SameRecord(s) /\ Away(s)' \in Nat /\ Away(s)' <= Away(s)
                           /\ s \in DOMAIN samples => Away(s)' = Away(s)
  PROVE  Account'
<1>1. \A p \in Proc : Call(p)'
  BY DEF Account, Call, At
<1>2. ASSUME NEW s \in Sample
      PROVE  Counts(s)'
  <2>1. Untouched(s)
    BY DEF Untouched, Unsent, Stage
  <2>2. nextSample' \in Nat
    BY RuntimeAssumption DEF Typed, TypeOK
  <2> QED BY <2>1, <2>2, CountsKept DEF Account
<1> QED BY <1>1, <1>2 DEF Account

\* ... nor a descriptor.
LEMMA StillAccounted ==
  ASSUME Typed, Account, UNCHANGED <<pc, cur, todo, author, nextSample>>,
         UNCHANGED <<queue, guards>>, sup'.valid = sup.valid,
         Crashed \subseteq Crashed', Victims', \A s \in Sample : SameRecord(s)
  PROVE  Account'
<1>1. \A s \in Sample : InHand(s)' = InHand(s)
  BY DEF InHand
<1>2. \A s \in Sample : Away(s)' = Away(s) /\ Away(s) \in Nat
  BY <1>1, AwaySame, CountsAreNaturals
<1> QED BY <1>2, AccountKept

LEMMA DeathAccount ==
  ASSUME Typed, Account, NEW p \in Proc, Die(p) \/ CrashProcess(p)
  PROVE  Account'
<1>1. CASE Die(p)
  <2>1. UNCHANGED <<pc, cur, todo, author, nextSample, queue, guards, samples, store, sup, alive>>
    BY <1>1 DEF Die, registryVars, historyVars
  <2>2. Victims' /\ Crashed \subseteq Crashed'
    BY <2>1 DEF Account, Victims, Crashed
  <2>3. \A s \in Sample : SameRecord(s)
    BY <2>1 DEF SameRecord
  <2> QED BY <2>1, <2>2, <2>3, StillAccounted
<1>2. CASE CrashProcess(p)
  <2>1. /\ UNCHANGED <<pc, cur, todo, author, nextSample, queue, guards, samples, store>>
        /\ alive' = [alive EXCEPT ![p] = FALSE]
        /\ sup' = [sup EXCEPT !.at = "orphans", !.victim = p]
    BY <1>2 DEF CrashProcess, threadVars, historyVars
  <2>2. Crashed \subseteq Crashed' /\ p \in Crashed'
    BY <2>1 DEF Crashed, Typed, TypeOK
  <2>3. /\ sup'.at = "orphans" /\ sup'.victim = p /\ sup'.victims = sup.victims
        /\ sup'.valid = sup.valid
    BY <2>1 DEF Typed, Supervision
  <2>4. Victims'
    BY <2>1, <2>2, <2>3 DEF Account, Victims
  <2>5. \A s \in Sample : SameRecord(s)
    BY <2>1, <2>3 DEF SameRecord
  <2> QED BY <2>1, <2>2, <2>3, <2>4, <2>5, StillAccounted
<1> QED BY <1>1, <1>2

LEMMA RerouteAccount ==
  ASSUME Typed, Account, ClearRoutes \/ RegisterRoute \/ UNCHANGED vars
  PROVE  Account'
<1>1. UNCHANGED <<pc, cur, todo, author, nextSample, queue, guards, samples, store, sup, alive>>
  BY DEF ClearRoutes, RegisterRoute, vars, registryVars, threadVars, historyVars
<1>2. Victims' /\ Crashed \subseteq Crashed'
  BY <1>1 DEF Account, Victims, Crashed
<1>3. \A s \in Sample : SameRecord(s)
  BY <1>1 DEF SameRecord
<1> QED BY <1>1, <1>2, <1>3, StillAccounted

\* Only what the crashed process published loses its record.
LEMMA ReclaimOrphansAccount ==
  ASSUME Typed, Account, ReclaimOrphans
  PROVE  Account'
<1> DEFINE o == Orphans(sup.victim)
<1>1. /\ UNCHANGED <<pc, cur, todo, author, nextSample, queue, guards, store, alive>>
      /\ sup.at = "orphans" /\ samples' = [s \in DOMAIN samples \ o |-> samples[s]]
      /\ sup' = [sup EXCEPT !.at = "remove", !.victims = o, !.left = o]
  BY DEF ReclaimOrphans, threadVars, historyVars
<1>2. \A s \in o : s \in Sample /\ s \in DOMAIN samples /\ author[s] = sup.victim
  BY DEF Orphans, Account, Counts, Recorded, Typed, TypeOK
<1>3. sup.victim \in Crashed
  BY <1>1 DEF Account, Victims
<1> HIDE DEF o
<1>4. sup'.at = "remove" /\ sup'.victims = o /\ sup'.left = o /\ sup'.valid = sup.valid
  BY <1>1 DEF Typed, Supervision
<1>5. Victims'
  BY <1>1, <1>2, <1>3, <1>4 DEF Victims, Crashed
<1>6. \A s \in Sample : InHand(s)' = InHand(s)
  BY <1>1 DEF InHand
<1>7. \A s \in Sample : Away(s)' = Away(s) /\ Away(s) \in Nat
  BY <1>1, <1>4, <1>6, AwaySame, CountsAreNaturals
<1>8. ASSUME NEW s \in Sample
      PROVE  Counts(s)'
  <2>0. Counts(s)
    BY DEF Account
  <2>1. Untouched(s)
    BY <1>1, <1>7 DEF Untouched, Unsent, Stage, Crashed
  <2>2. nextSample' \in Nat
    BY <1>1, RuntimeAssumption DEF Typed, TypeOK
  <2>3. CASE s \notin o
    <3>1. SameRecord(s)
      BY <1>1, <1>4, <2>3 DEF SameRecord
    <3> QED BY <2>0, <2>1, <2>2, <3>1, CountsKept
  <2>4. CASE s \in o
    <3>1. s \in DOMAIN samples /\ s \notin DOMAIN samples' /\ author[s] \in Crashed
      BY <1>1, <1>2, <1>3, <2>4
    <3>2. /\ ~(s >= nextSample) /\ ~Stage(s, {"routes", "register"})
          /\ ~Stage(s, {"routes", "register"})'
      BY <1>1, <2>0, <3>1 DEF Counts, Fresh, Stage
    <3>3. /\ Unsent(s)' = Unsent(s) /\ Away(s)' = Away(s)
          /\ Stage(s, {"routes", "register", "insert", "mark"})'
               <=> Stage(s, {"routes", "register", "insert", "mark"})
      BY <1>1, <1>7 DEF Unsent, Stage
    <3>4. Loaned(s)' /\ Fresh(s)' /\ Unpublished(s)'
      BY <1>1, <2>0, <3>1, <3>2, <3>3 DEF Counts, Loaned, Fresh, Unpublished
    <3>5. Recorded(s)' /\ Settled(s)' /\ Released(s)'
      BY <1>1, <2>0, <3>1, <3>3 DEF Counts, Recorded, Settled, Released, Crashed, At
    <3> QED BY <3>4, <3>5 DEF Counts
  <2> QED BY <2>3, <2>4
<1>9. \A p \in Proc : Call(p)'
  BY <1>1 DEF Account, Call, At
<1> QED BY <1>5, <1>8, <1>9 DEF Account

\* The supervisor goes on: neither a record nor a live value is touched.
LEMMA SuperviseAccount ==
  ASSUME Typed, Typed', Account, RemoveOrphan \/ StartDrain \/ DrainQueue \/ FinishCleanup
  PROVE  Account'
<1>1. UNCHANGED <<pc, cur, todo, author, nextSample, queue, guards, samples, alive>>
  BY DEF RemoveOrphan, StartDrain, DrainQueue, FinishCleanup, registryVars, threadVars,
         historyVars
<1>2. Crashed \subseteq Crashed'
  BY <1>1 DEF Crashed
<1>3. /\ sup'.valid = sup.valid /\ sup'.victims \subseteq sup.victims
      /\ sup'.at # "orphans" /\ (sup'.at = "remove" => sup'.left \subseteq sup'.victims)
      /\ \A s \in DOMAIN samples : s \in store => s \in store'
  <2>1. CASE RemoveOrphan
    <3>1. PICK s \in sup.left : store' = store \ {s} /\ sup' = [sup EXCEPT !.left = @ \ {s}]
      BY <2>1 DEF RemoveOrphan
    <3>2. sup.at = "remove" /\ sup.left \subseteq sup.victims /\ s \notin DOMAIN samples
      BY <2>1 DEF RemoveOrphan, Account, Victims
    <3>3. /\ sup'.at = sup.at /\ sup'.left = sup.left \ {s} /\ sup'.victims = sup.victims
          /\ sup'.valid = sup.valid
      BY <3>1 DEF Typed, Supervision
    <3> QED BY <3>1, <3>2, <3>3
  <2>2. CASE StartDrain
    <3>1. sup'.at = "next" /\ sup'.victims = sup.victims /\ sup'.valid = sup.valid
      BY <2>2 DEF StartDrain, Typed, Supervision
    <3> QED BY <2>2, <3>1 DEF StartDrain
  <2>3. CASE DrainQueue
    <3>1. PICK q \in sup.left :
            sup' = [sup EXCEPT !.at = "pop", !.at_queue = q, !.left = @ \ {q}]
      BY <2>3 DEF DrainQueue
    <3>2. sup'.at = "pop" /\ sup'.victims = sup.victims /\ sup'.valid = sup.valid
      BY <3>1 DEF Typed, Supervision
    <3> QED BY <2>3, <3>2 DEF DrainQueue
  <2>4. CASE FinishCleanup
    <3>1. sup' = [at |-> "idle", victim |-> None, victims |-> {}, left |-> {},
                  at_queue |-> None, valid |-> <<>>, done |-> sup.done \cup {sup.victim}]
      BY <2>4 DEF FinishCleanup, NoCleanup
    <3>2. sup.valid = <<>>
      BY <2>4 DEF FinishCleanup, Typed, Supervision
    <3> QED BY <2>4, <3>1, <3>2 DEF FinishCleanup
  <2> QED BY <2>1, <2>2, <2>3, <2>4
<1>4. Victims'
  BY <1>1, <1>2, <1>3 DEF Account, Victims
<1>5. \A s \in Sample : SameRecord(s)
  BY <1>1, <1>3 DEF SameRecord
<1> QED BY <1>1, <1>2, <1>3, <1>4, <1>5, StillAccounted

\* The drain moves a descriptor into the supervisor's hands, or drops a victim's.
LEMMA DrainPopAccount ==
  ASSUME Typed, Typed', Account, DrainPop
  PROVE  Account'
<1> DEFINE t == sup.at_queue
           x == Head(queue[t])
<1>1. /\ UNCHANGED <<pc, cur, todo, author, nextSample, guards, samples, store, alive>>
      /\ sup.at = "pop"
  BY DEF DrainPop, registryVars, threadVars, historyVars
<1>2. /\ t \in Proc /\ queue \in [Proc -> Seq(Sample)] /\ queue[t] \in Seq(Sample)
      /\ sup.valid \in Seq(Sample)
  BY <1>1 DEF Typed, TypeOK, Supervision
<1>3. Crashed \subseteq Crashed' /\ \A s \in Sample : InHand(s)' = InHand(s)
  BY <1>1 DEF Crashed, InHand
<1>4. CASE queue[t] = <<>>
  <2>1. queue' = queue /\ sup' = [sup EXCEPT !.at = "putback"]
    BY <1>4 DEF DrainPop
  <2>2. sup'.at = "putback" /\ sup'.victims = sup.victims /\ sup'.valid = sup.valid
    BY <2>1 DEF Typed, Supervision
  <2>3. Victims'
    BY <1>1, <1>3, <2>2 DEF Account, Victims
  <2>4. \A s \in Sample : SameRecord(s)
    BY <1>1, <2>2 DEF SameRecord
  <2> QED BY <1>1, <1>3, <2>1, <2>2, <2>3, <2>4, StillAccounted
<1>5. CASE queue[t] # <<>>
  <2>1. /\ queue' = [queue EXCEPT ![t] = Tail(@)]
        /\ sup' = [sup EXCEPT !.valid = IF Drops(x) THEN @ ELSE Append(@, x)]
    BY <1>5 DEF DrainPop
  <2>2. /\ x \in Sample /\ x = queue[t][1] /\ Tail(queue[t]) \in Seq(Sample)
        /\ 1 \in 1 .. Len(queue[t]) /\ IsWithout(Tail(queue[t]), queue[t], 1)
    BY <1>2, <1>5, TailSeq, TailIsWithout
  <2> HIDE DEF x, t
  <2>3. /\ sup'.at = "pop" /\ sup'.victims = sup.victims
        /\ sup'.valid = IF Drops(x) THEN sup.valid ELSE Append(sup.valid, x)
    BY <1>1, <2>1 DEF Typed, Supervision
  <2>4. Victims' /\ \A s \in Sample : SameRecord(s)
    BY <1>1, <1>3, <2>3 DEF Account, Victims, SameRecord
  <2>5. Drops(x) => x \notin DOMAIN samples
    BY DEF Drops, Account, Victims
  <2>6. ASSUME NEW s \in Sample
        PROVE  /\ Away(s)' \in Nat /\ Away(s)' <= Away(s)
               /\ s \in DOMAIN samples => Away(s)' = Away(s)
    <3> DEFINE kept == IF Drops(x) THEN 0 ELSE One(x = s)
    <3>1. Cardinality(Places(queue, s)') = Cardinality(Places(queue, s)) - One(x = s)
      <4>1. Shrunk(queue', queue, t, 1)
        BY <1>2, <2>1, <2>2 DEF Typed, TypeOK, Shrunk
      <4>2. Cardinality(Places(queue', s)) = Cardinality(Places(queue, s)) - One(queue[t][1] = s)
        BY <1>2, <4>1, PlacesWithout
      <4> QED BY <2>2, <4>2 DEF Places
    <3>2. Cardinality(PutAside(s)') = Cardinality(PutAside(s)) + kept
      <4>1. Cardinality(Spots(Append(sup.valid, x), s)) = Cardinality(Spots(sup.valid, s)) + One(x = s)
        BY <1>2, <2>2, SpotsAppend
      <4>2. PutAside(s)' = Spots(sup'.valid, s) /\ PutAside(s) = Spots(sup.valid, s)
        BY DEF PutAside, Spots
      <4>3. Cardinality(Spots(sup.valid, s)) \in Nat
        BY <1>2, SpotsFinite
      <4> QED BY <2>3, <4>1, <4>2, <4>3
    <3>3. /\ Cardinality(InHand(s)') = Cardinality(InHand(s))
          /\ Cardinality(Places(guards, s)') = Cardinality(Places(guards, s))
      BY <1>1, <1>3, AwayParts
    <3>4. One(x = s) \in Nat /\ kept \in Nat /\ Away(s) \in Nat
      BY CountsAreNaturals DEF One
    <3>5. /\ kept = One(x = s) \/ (kept = 0 /\ One(x = s) = 1 /\ x = s /\ Drops(x))
      BY DEF One
    <3> HIDE DEF kept
    <3>6. Cardinality(Places(queue, s)) \in Nat /\ Cardinality(PutAside(s)) \in Nat
          /\ Cardinality(InHand(s)) \in Nat /\ Cardinality(Places(guards, s)) \in Nat
      BY CountsAreNaturals
    <3>7. Away(s)' = Away(s) + (Cardinality(Places(queue, s)') - Cardinality(Places(queue, s)))
                             + (Cardinality(PutAside(s)') - Cardinality(PutAside(s)))
                             + (Cardinality(InHand(s)') - Cardinality(InHand(s)))
                             + (Cardinality(Places(guards, s)') - Cardinality(Places(guards, s)))
      BY <3>1, <3>2, <3>3, <3>4, <3>6, AwayMoves
    <3>8. Away(s)' = Away(s) - One(x = s) + kept
      BY <3>1, <3>2, <3>3, <3>4, <3>6, <3>7
    <3>9. Drops(x) /\ x = s => Away(s) > 0
      <4>1. x = s => <<t, 1>> \in Places(queue, s)
        BY <1>2, <2>2, InPlaces
      <4> QED BY <4>1, AwayIsSomewhere
    <3> QED BY <2>5, <3>4, <3>5, <3>8, <3>9
  <2> QED BY <1>1, <1>3, <2>4, <2>6, AccountKept
<1> QED BY <1>4, <1>5

LEMMA DrainPutBackAccount ==
  ASSUME Typed, Typed', Account, DrainPutBack
  PROVE  Account'
<1> DEFINE t == sup.at_queue
           x == Head(sup.valid)
<1>1. /\ UNCHANGED <<pc, cur, todo, author, nextSample, guards, samples, store, alive>>
      /\ sup.at = "putback"
  BY DEF DrainPutBack, registryVars, threadVars, historyVars
<1>2. /\ t \in Proc /\ queue \in [Proc -> Seq(Sample)] /\ queue[t] \in Seq(Sample)
      /\ sup.valid \in Seq(Sample)
  BY <1>1 DEF Typed, TypeOK, Supervision
<1>3. Crashed \subseteq Crashed' /\ \A s \in Sample : InHand(s)' = InHand(s)
  BY <1>1 DEF Crashed, InHand
<1>4. CASE sup.valid = <<>>
  <2>1. queue' = queue /\ sup' = [sup EXCEPT !.at = "next", !.at_queue = None]
    BY <1>4 DEF DrainPutBack
  <2>2. sup'.at = "next" /\ sup'.victims = sup.victims /\ sup'.valid = sup.valid
    BY <2>1 DEF Typed, Supervision
  <2>3. Victims'
    BY <1>1, <1>3, <2>2 DEF Account, Victims
  <2>4. \A s \in Sample : SameRecord(s)
    BY <1>1, <2>2 DEF SameRecord
  <2> QED BY <1>1, <1>3, <2>1, <2>2, <2>3, <2>4, StillAccounted
<1>5. CASE sup.valid # <<>>
  <2>1. /\ queue' = [queue EXCEPT ![t] = Append(@, x)]
        /\ sup' = [sup EXCEPT !.valid = Tail(@)]
    BY <1>5 DEF DrainPutBack
  <2>2. x \in Sample
    BY <1>2, <1>5, TailSeq
  <2> HIDE DEF t
  <2>3. sup'.at = "putback" /\ sup'.victims = sup.victims /\ sup'.valid = Tail(sup.valid)
    BY <1>1, <2>1 DEF Typed, Supervision
  <2>4. Victims' /\ \A s \in Sample : SameRecord(s)
    BY <1>1, <1>3, <2>3 DEF Account, Victims, SameRecord
  <2>5. ASSUME NEW s \in Sample
        PROVE  Away(s)' = Away(s) /\ Away(s) \in Nat
    <3>1. Cardinality(PutAside(s)') = Cardinality(PutAside(s)) - One(x = s)
      <4>1. Cardinality(Spots(Tail(sup.valid), s)) = Cardinality(Spots(sup.valid, s)) - One(x = s)
        BY <1>2, <1>5, SpotsTail
      <4>2. PutAside(s)' = Spots(sup'.valid, s) /\ PutAside(s) = Spots(sup.valid, s)
        BY DEF PutAside, Spots
      <4> QED BY <2>3, <4>1, <4>2
    <3> HIDE DEF x
    <3>2. Cardinality(Places(queue, s)') = Cardinality(Places(queue, s)) + One(x = s)
      <4>1. Grown(queue', queue, t, x)
        BY <1>2, <2>1, <2>2 DEF Typed, TypeOK, Grown
      <4>2. Cardinality(Places(queue', s)) = Cardinality(Places(queue, s)) + One(x = s)
        BY <1>2, <2>2, <4>1, PlacesAppend
      <4> QED BY <4>2 DEF Places
    <3>3. /\ Cardinality(InHand(s)') = Cardinality(InHand(s))
          /\ Cardinality(Places(guards, s)') = Cardinality(Places(guards, s))
      BY <1>1, <1>3, AwayParts
    <3>4. One(x = s) \in Nat /\ Away(s) \in Nat
      BY CountsAreNaturals DEF One
    <3>6. Cardinality(Places(queue, s)) \in Nat /\ Cardinality(PutAside(s)) \in Nat
          /\ Cardinality(InHand(s)) \in Nat /\ Cardinality(Places(guards, s)) \in Nat
      BY CountsAreNaturals
    <3>7. Away(s)' = Away(s) + (Cardinality(Places(queue, s)') - Cardinality(Places(queue, s)))
                             + (Cardinality(PutAside(s)') - Cardinality(PutAside(s)))
                             + (Cardinality(InHand(s)') - Cardinality(InHand(s)))
                             + (Cardinality(Places(guards, s)') - Cardinality(Places(guards, s)))
      BY <3>1, <3>2, <3>3, <3>4, <3>6, AwayMoves
    <3> QED BY <3>1, <3>2, <3>3, <3>4, <3>6, <3>7
  <2> QED BY <1>1, <1>3, <2>4, <2>5, AccountKept
<1> QED BY <1>4, <1>5

-----------------------------------------------------------------------------
(* The theorems.                                                           *)

LEMMA AccountInit == Init => Account
<1> SUFFICES ASSUME Init PROVE Account
  OBVIOUS
<1>1. /\ DOMAIN samples = {} /\ sup.victims = {} /\ sup.at = "idle" /\ sup.valid = <<>>
      /\ nextSample = 1
      /\ \A s \in Sample : author[s] = None
      /\ \A p \in Proc : /\ pc[p] = "idle" /\ todo[p] = <<>> /\ cur[p] = None
                         /\ queue[p] = <<>> /\ guards[p] = <<>>
  BY DEF Init, NoCleanup
<1>2. \A p \in Proc : Call(p)
  BY <1>1 DEF Call, At, Publishing
<1>3. Victims
  BY <1>1 DEF Victims
<1>4. ASSUME NEW s \in Sample
      PROVE  Counts(s)
  <2>1. Places(queue, s) = {} /\ Places(guards, s) = {}
    BY <1>1 DEF Places
  <2>2. PutAside(s) = {} /\ InHand(s) = {}
    BY <1>1 DEF PutAside, InHand
  <2>3. Away(s) = 0
    BY <2>1, <2>2, FS_EmptySet DEF Away
  <2>4. s >= nextSample /\ ~(s < nextSample) /\ author[s] \notin Proc
    BY <1>1, RuntimeAssumption DEF Sample
  <2>5. \A p \in Proc : pc[p] \notin Releasing
    BY <1>1 DEF Releasing
  <2> QED BY <1>1, <2>3, <2>4, <2>5
          DEF Counts, Loaned, Fresh, Unpublished, Recorded, Settled, Released
<1> QED BY <1>2, <1>3, <1>4 DEF Account

LEMMA AccountStep ==
  ASSUME ~Shared, Typed, Typed', Account, [Next]_vars
  PROVE  Account'
<1>1. ASSUME NEW p \in Proc, Step(p)
      PROVE  Account'
  <2>1. CASE Publish(p)
    BY <2>1, LoanAccount, GetRoutesAccount, RegisterAccount, InsertAccount, MarkAccount,
       PushAccount DEF Publish
  <2>2. CASE Recv(p)
    <3>1. ~MarkReceived(p)
      BY DEF MarkReceived, Account, Call
    <3> QED BY <2>2, <3>1, PopAccount, LookupAccount DEF Recv
  <2>3. CASE Release(p)
    BY <2>3, DropAccount, ReclaimAccount DEF Release
  <2> QED BY <1>1, <2>1, <2>2, <2>3 DEF Step
<1>2. CASE \E p \in Proc : Thread(p)
  BY <1>1, <1>2 DEF Thread
<1>3. CASE \E p \in Proc : Die(p) \/ CrashProcess(p)
  BY <1>3, DeathAccount
<1>4. CASE Supervise
  BY <1>4, ReclaimOrphansAccount, SuperviseAccount, DrainPopAccount, DrainPutBackAccount
     DEF Supervise
<1>5. CASE ClearRoutes \/ RegisterRoute \/ UNCHANGED vars
  BY <1>5, RerouteAccount
<1> QED BY <1>2, <1>3, <1>4, <1>5 DEF Next

LEMMA AlwaysAccounted == ~Shared => (Spec => []IInv)
<1> SUFFICES ASSUME ~Shared PROVE Spec => []IInv
  OBVIOUS
<1>1. Init => IInv
  BY TypedInit, AccountInit DEF IInv
<1>2. IInv /\ [Next]_vars => IInv'
  <2> SUFFICES ASSUME Typed, Account, [Next]_vars
               PROVE  Typed' /\ Account'
    BY DEF IInv
  <2>1. Typed'
    BY TypedStep
  <2> QED BY <2>1, AccountStep
<1> QED BY <1>1, <1>2, PTL DEF Spec

LEMMA AccountGivesCounts == IInv => ReadsAccounted
<1> SUFFICES ASSUME Typed, Account, NEW s \in DOMAIN samples
             PROVE  samples[s].completed + Outstanding(s) = samples[s].expected
  BY DEF ReadsAccounted, IInv
<1>1. s \in Sample /\ samples[s].completed \in Nat
  BY DEF Typed, TypeOK, SampleRecord
<1> DEFINE u == Unsent(s)
           q == Cardinality(Places(queue, s))
           v == Cardinality(PutAside(s))
           h == Cardinality(InHand(s))
           g == Cardinality(Places(guards, s))
<1>2. samples[s].completed + u + Away(s) = samples[s].expected
  BY <1>1 DEF Account, Counts, Recorded
<1>3. u \in Nat /\ q \in Nat /\ v \in Nat /\ h \in Nat /\ g \in Nat
  BY <1>1, CountsAreNaturals
<1>4. Away(s) = q + v + h + g /\ Outstanding(s) = u + q + v + h + g
  BY DEF Away, Outstanding
<1> HIDE DEF u, q, v, h, g
<1> QED BY <1>1, <1>2, <1>3, <1>4

LEMMA AccountKeepsValues == IInv => LiveReferences
<1> SUFFICES ASSUME Typed, Account, NEW s \in Sample,
                    Places(queue, s) # {} \/ InHand(s) # {} \/ Places(guards, s) # {}
             PROVE  s \in store \/ author[s] \in Crashed
  BY DEF LiveReferences, IInv
<1>1. Away(s) > 0 /\ Counts(s)
  BY AwayIsSomewhere DEF Account
<1>2. /\ s \in DOMAIN samples => s \in store
      /\ ~(s >= nextSample) /\ ~Stage(s, {"routes", "register"})
  BY <1>1, PoppedIsSettled
<1>3. Unsent(s) + Away(s) # 0
  BY <1>1, CountsAreNaturals
<1>4. s < nextSample
  BY <1>2, RuntimeAssumption DEF Typed, TypeOK, Sample
<1> QED BY <1>1, <1>2, <1>3, <1>4 DEF Counts, Settled

(* On the Local backend the counters of a live sample tell exactly how many *)
(* reads are still to come, whatever is rerouted, dies or is crashed in     *)
(* between (world.rs 361-413, 648-667; registry.rs 158-207).               *)
THEOREM RuntimeReadsAccounted == ~Shared => (Spec => []ReadsAccounted)
<1> SUFFICES ASSUME ~Shared PROVE Spec => []ReadsAccounted
  OBVIOUS
<1> QED BY AlwaysAccounted, AccountGivesCounts, PTL

(* On the Local backend a descriptor or guard names a value that is in the  *)
(* store, unless its publisher was crashed, and the clean-up of one process *)
(* leaves the samples of the others as they were (supervisor.rs 103-185).  *)
THEOREM RuntimeLivingUnharmed == ~Shared => (Spec => []LivingUnharmed)
<1> SUFFICES ASSUME ~Shared PROVE Spec => []LivingUnharmed
  OBVIOUS
<1>1. IInv => LivingUnharmed
  BY AccountGivesCounts, AccountKeepsValues DEF LivingUnharmed
<1> QED BY <1>1, AlwaysAccounted, PTL
=============================================================================
