-------------------------- MODULE QueryCache_proofs -------------------------
(***************************************************************************)
(* With one putter the cache never answers with other bytes than those of  *)
(* the query's last put, for any number of clients, keys, pages and sizes. *)
(* The types hold for any number of putters.                               *)
(*                                                                         *)
(* HitIsLastPut says nothing of the steps before: why is what a live entry *)
(* names not overwritten?  Because the allocator's cursor is above all of  *)
(* them (Below), but for the time in which the region was reset and the    *)
(* map is being cleared; then no entry is left among the keys that were    *)
(* visited (Clearing), and no other putter can use the reset cursor.       *)
(***************************************************************************)
EXTENDS QueryCache, TLAPS

OnePutter == \A c, d \in Putter : c = d

InPut == {"evict", "clear", "alloc", "reset", "retry", "write", "insert"}
Placed == {"write", "insert"}

Cursor == page * PageSize + used
EndOf(k) == entries[k].at + entries[k].len

\* Who puts is a putter, what it has in hand lies in the region, and an entry
\* that is held is there.
InRegion ==
  \A c \in Client :
    /\ At(c, "hit") => key[c] \in DOMAIN entries
    /\ pc[c] \in InPut => c \in Putter /\ len[c] \in 1 .. MaxSize /\ mine[c] \in PutId
    /\ pc[c] \in Placed => at[c] \in Unit /\ at[c] + len[c] <= NumPages * PageSize

TInv == TypeOK /\ InRegion

\* The units of an entry hold what the last put of its key wrote.
Whole == \A k \in DOMAIN entries :
           /\ latest[k] \in PutId
           /\ \A u \in Extent(entries[k].at, entries[k].len) : mem[u] = latest[k]
Below == (\A c \in Client : ~At(c, "clear")) => \A k \in DOMAIN entries : EndOf(k) <= Cursor
Clearing == \A c \in Client : At(c, "clear") => DOMAIN entries \subseteq left[c]
\* What a putter was given lies behind every entry.
InHand == \A c \in Client : pc[c] \in Placed =>
            /\ at[c] + len[c] <= Cursor
            /\ \A k \in DOMAIN entries : EndOf(k) <= at[c]
Written == \A c \in Client : At(c, "insert") =>
             \A u \in Extent(at[c], len[c]) : mem[u] = mine[c]
Held == \A c \in Client : At(c, "hit") => due[c] = latest[key[c]]

IInv == TInv /\ Whole /\ Below /\ Clearing /\ InHand /\ Written /\ Held /\ HitIsLastPut

USE QueryCacheAssumption

\* Products of natural numbers keep the order.
LEMMA TimesMonotone == \A a, b, s \in Nat : a <= b => a * s <= b * s
<1> SUFFICES ASSUME NEW a \in Nat, NEW b \in Nat, NEW s \in Nat, a <= b
             PROVE  a * s <= b * s
  OBVIOUS
<1>1. PICK d \in Nat : b = a + d
  <2>1. b - a \in Nat /\ b = a + (b - a)
    OBVIOUS
  <2> QED BY <2>1
<1>2. b * s = a * s + d * s /\ d * s \in Nat /\ a * s \in Nat
  BY <1>1
<1> QED BY <1>2

\* The cursor, and the page behind it, lie in the region.
LEMMA CursorInRegion ==
  ASSUME page \in 0 .. NumPages - 1, used \in 0 .. PageSize
  PROVE  /\ page * PageSize \in Nat /\ NumPages * PageSize \in Nat
         /\ (page + 1) * PageSize = page * PageSize + PageSize
         /\ (page + 1) * PageSize <= NumPages * PageSize
         /\ page + 1 < NumPages =>
              (page + 1) * PageSize + PageSize <= NumPages * PageSize
<1>1. page \in Nat /\ page + 1 \in Nat /\ NumPages \in Nat /\ PageSize \in Nat
      /\ page + 1 <= NumPages
  OBVIOUS
<1>2. (page + 1) * PageSize <= NumPages * PageSize
  BY <1>1, TimesMonotone
<1>3. page + 1 < NumPages => (page + 2) * PageSize <= NumPages * PageSize
  <2>1. page + 2 \in Nat /\ (page + 1 < NumPages => page + 2 <= NumPages)
    BY <1>1
  <2> QED BY <1>1, <2>1, TimesMonotone
<1>4. (page + 2) * PageSize = (page + 1) * PageSize + PageSize
      /\ (page + 1) * PageSize = page * PageSize + PageSize
  BY <1>1
<1>5. page * PageSize \in Nat /\ NumPages * PageSize \in Nat
  BY <1>1
<1> QED BY <1>2, <1>3, <1>4, <1>5

\* What Allocate hands out begins at or behind the cursor, ends at the new
\* one, and stays in the region.
LEMMA AllocateAbove ==
  ASSUME TypeOK, NEW c \in Client, len[c] \in 1 .. MaxSize, Fits(len[c]), Allocate(c)
  PROVE  /\ page' \in 0 .. NumPages - 1 /\ used' \in 0 .. PageSize
         /\ at' \in [Client -> Nat]
         /\ \A d \in Client : d # c => at'[d] = at[d]
         /\ at'[c] \in Unit
         /\ Cursor <= at'[c] /\ Cursor \in Nat
         /\ at'[c] + len[c] = Cursor'
         /\ at'[c] + len[c] <= NumPages * PageSize
<1>1. page \in 0 .. NumPages - 1 /\ used \in 0 .. PageSize /\ at \in [Client -> Nat]
      /\ len[c] \in Nat \ {0}
  BY DEF TypeOK
<1>2. /\ page * PageSize \in Nat /\ NumPages * PageSize \in Nat
      /\ (page + 1) * PageSize = page * PageSize + PageSize
      /\ (page + 1) * PageSize <= NumPages * PageSize
      /\ page + 1 < NumPages => (page + 1) * PageSize + PageSize <= NumPages * PageSize
  BY <1>1, CursorInRegion
<1>3. CASE FitsHere(len[c])
  <2>1. at' = [at EXCEPT ![c] = page * PageSize + used] /\ used' = used + len[c] /\ page' = page
    BY <1>3 DEF Allocate
  <2>2. used' \in 0 .. PageSize /\ page' \in 0 .. NumPages - 1
    BY <1>1, <1>3, <2>1 DEF FitsHere
  <2>3. at'[c] = page * PageSize + used /\ \A d \in Client : d # c => at'[d] = at[d]
    BY <1>1, <2>1
  <2>4. at' \in [Client -> Nat]
    BY <1>1, <1>2, <2>1
  <2>5. Cursor' = page * PageSize + used + len[c]
    BY <1>1, <1>2, <2>1 DEF Cursor
  <2>6. page * PageSize + used + len[c] <= NumPages * PageSize
    BY <1>1, <1>2, <1>3 DEF FitsHere
  <2> QED BY <1>1, <1>2, <2>2, <2>3, <2>4, <2>5, <2>6 DEF Cursor, Unit
<1>4. CASE ~FitsHere(len[c])
  <2>1. at' = [at EXCEPT ![c] = (page + 1) * PageSize] /\ used' = len[c] /\ page' = page + 1
    BY <1>4 DEF Allocate
  <2>2. len[c] <= PageSize /\ page + 1 < NumPages
    BY <1>4 DEF Fits, FitsNext
  <2>3. used' \in 0 .. PageSize /\ page' \in 0 .. NumPages - 1
    BY <1>1, <2>1, <2>2
  <2>4. at'[c] = (page + 1) * PageSize /\ \A d \in Client : d # c => at'[d] = at[d]
    BY <1>1, <2>1
  <2>5. at' \in [Client -> Nat]
    BY <1>1, <1>2, <2>1
  <2>6. Cursor' = (page + 1) * PageSize + len[c]
    BY <2>1 DEF Cursor
  <2>7. (page + 1) * PageSize + len[c] <= NumPages * PageSize
    BY <1>1, <1>2, <2>2
  <2> QED BY <1>1, <1>2, <2>3, <2>4, <2>5, <2>6, <2>7 DEF Cursor, Unit
<1> QED BY <1>3, <1>4

-----------------------------------------------------------------------------
(* The types, for any number of putters.                                   *)
LEMMA TInvInit == Init => TInv
<1> SUFFICES ASSUME Init
             PROVE  TInv
  OBVIOUS
<1>1. 0 \in 0 .. NumPages - 1 /\ 0 \in 0 .. PageSize /\ 0 \in 0 .. MaxPuts
  OBVIOUS
<1>2. (CHOOSE k \in Key : TRUE) \in Key
  OBVIOUS
<1>3. TypeOK
  BY <1>1, <1>2 DEF Init, TypeOK, Label, Nobody, PutId
<1>4. InRegion
  BY DEF Init, InRegion, InPut, Placed, At
<1> QED BY <1>3, <1>4 DEF TInv

\* get
LEMMA TInvGet ==
  ASSUME TInv, NEW c \in Client, Get(c)
  PROVE  TInv'
<1> USE DEF TInv, TypeOK, InRegion, At, Goto, Label, InPut, Placed
<1>1. ASSUME NEW k \in Key, LookUp(c, k) PROVE TInv'
  BY <1>1 DEF LookUp, mapVars, heapVars
<1>2. CASE RemoveStale(c)
  BY <1>2 DEF RemoveStale, Without, Unguarded, heapVars
<1>3. CASE ReadHit(c)
  <2>1. {mem[u] : u \in Extent(entries[key[c]].at, entries[key[c]].len)}
          \in SUBSET (PutId \cup {Nobody})
    BY <1>3 DEF ReadHit
  <2> QED BY <1>3, <2>1 DEF ReadHit, mapVars, heapVars
<1>4. CASE Return(c)
  BY <1>4 DEF Return, mapVars, heapVars, Nobody
<1> QED BY <1>1, <1>2, <1>3, <1>4 DEF Get

\* invalidate, and the end of a TTL
LEMMA TInvMap ==
  ASSUME TInv, NEW k \in Key, Invalidate(k) \/ Expire(k)
  PROVE  TInv'
<1> USE DEF TInv, TypeOK, InRegion, At, Label, InPut, Placed
<1>1. CASE Invalidate(k)
  BY <1>1 DEF Invalidate, Without, Unguarded, heapVars, callVars
<1>2. CASE Expire(k)
  <2>1. /\ DOMAIN entries' = DOMAIN entries
        /\ \A j \in DOMAIN entries :
             /\ entries'[j] \in Entry
             /\ entries'[j].at = entries[j].at /\ entries'[j].len = entries[j].len
    BY <1>2 DEF Expire, Entry
  <2> QED BY <1>2, <2>1 DEF Expire, heapVars, callVars
<1> QED BY <1>1, <1>2

\* put_with_ttl
LEMMA TInvPut ==
  ASSUME TInv, NEW c \in Putter, Put(c)
  PROVE  TInv'
<1>c. c \in Client
  OBVIOUS
<1> USE DEF At, Goto, Label, InPut, Placed
<1>1. ASSUME NEW k \in Key, NEW n \in 1 .. MaxSize, CallPut(c, k, n) PROVE TInv'
  <2>1. puts + 1 \in PutId /\ puts' \in 0 .. MaxPuts /\ mine' = [mine EXCEPT ![c] = puts + 1]
    BY <1>1 DEF CallPut, TInv, TypeOK, PutId
  <2>2. PICK label \in {"evict", "alloc"} : pc' = [pc EXCEPT ![c] = label]
    BY <1>1 DEF CallPut
  <2>3. left' \in [Client -> SUBSET Key]
    BY <1>1 DEF CallPut, TInv, TypeOK
  <2>4. /\ key' = [key EXCEPT ![c] = k] /\ len' = [len EXCEPT ![c] = n]
        /\ UNCHANGED <<entries, latest, mem, page, used, at, seen, due>>
    BY <1>1 DEF CallPut, mapVars, heapVars
  <2>5. /\ pc' \in [Client -> Label] /\ key' \in [Client -> Key] /\ len' \in [Client -> Nat]
        /\ mine' \in [Client -> PutId \cup {Nobody}]
    BY <1>c, <2>1, <2>2, <2>4 DEF TInv, TypeOK
  <2>6. TypeOK'
    BY <2>1, <2>3, <2>4, <2>5 DEF TInv, TypeOK
  <2>7. InRegion'
    BY <1>c, <1>1, <2>1, <2>2, <2>4 DEF CallPut, TInv, TypeOK, InRegion
  <2> QED BY <2>6, <2>7 DEF TInv
<1>2. ASSUME NEW k \in Key, Visit(c, k) PROVE TInv'
  BY <1>c, <1>2 DEF Visit, Without, Unguarded, TInv, TypeOK, InRegion, heapVars
<1>3. CASE Alloc(c)
  BY <1>c, <1>3, AllocateAbove DEF Alloc, TInv, TypeOK, InRegion, mapVars
<1>4. CASE Reset(c)
  BY <1>c, <1>4 DEF Reset, TInv, TypeOK, InRegion, mapVars
<1>5. CASE Retry(c)
  BY <1>c, <1>5, AllocateAbove DEF Retry, TInv, TypeOK, InRegion, mapVars
<1>6. CASE Write(c)
  BY <1>c, <1>6 DEF Write, TInv, TypeOK, InRegion, mapVars
<1>7. CASE Insert(c)
  <2>1. Extent(at[c], len[c]) \subseteq Unit
    BY <1>c, <1>7 DEF Insert, TInv, TypeOK, InRegion, Extent, Unit
  <2>2. [at |-> at[c], len |-> len[c], expired |-> FALSE] \in Entry
    BY <1>c, <1>7 DEF Insert, TInv, TypeOK, InRegion, Entry
  <2> QED BY <1>c, <1>7, <2>1, <2>2 DEF Insert, TInv, TypeOK, InRegion, heapVars
<1> QED BY <1>1, <1>2, <1>3, <1>4, <1>5, <1>6, <1>7 DEF Put

LEMMA TInvNext == TInv /\ [Next]_vars => TInv'
<1> SUFFICES ASSUME TInv, [Next]_vars
             PROVE  TInv'
  OBVIOUS
<1>1. ASSUME NEW c \in Client, Get(c) PROVE TInv'
  BY <1>1, TInvGet
<1>2. ASSUME NEW c \in Putter, Put(c) PROVE TInv'
  BY <1>2, TInvPut
<1>3. ASSUME NEW k \in Key, Invalidate(k) \/ Expire(k) PROVE TInv'
  BY <1>3, TInvMap
<1>4. CASE UNCHANGED vars
  BY <1>4 DEF vars, mapVars, heapVars, callVars, TInv, TypeOK, InRegion, At
<1> QED BY <1>1, <1>2, <1>3, <1>4 DEF Next

(* No entry, no putter and no page ever leaves the region of the cache.     *)
THEOREM CacheTypeCorrect == Spec => []TypeOK
<1>1. TInv => TypeOK
  BY DEF TInv
<1> QED BY TInvInit, TInvNext, <1>1, PTL DEF Spec

-----------------------------------------------------------------------------
(* With one putter, what live entries name is never written over.          *)
Safe == Whole /\ Below /\ Clearing /\ InHand /\ Written /\ Held /\ HitIsLastPut

LEMMA SafeInit == Init => Safe
BY DEF Init, Safe, Whole, Below, Clearing, InHand, Written, Held, HitIsLastPut, At, Placed

(* A reader moves no place and no cursor; what it reads under the guard is  *)
(* whole.                                                                  *)
LEMMA SafeGet ==
  ASSUME TInv, Safe, NEW c \in Client, Get(c)
  PROVE  Safe'
<1> USE DEF TInv, TypeOK, InRegion, Safe, At, Goto, Label, InPut, Placed
<1>1. ASSUME NEW k \in Key, LookUp(c, k) PROVE Safe'
  BY <1>1 DEF LookUp, mapVars, heapVars, Whole, Below, Clearing, InHand, Written, Held,
              HitIsLastPut, Cursor, EndOf
<1>2. CASE RemoveStale(c)
  BY <1>2 DEF RemoveStale, Without, Unguarded, heapVars, Whole, Below, Clearing, InHand,
              Written, Held, HitIsLastPut, Cursor, EndOf
<1>3. CASE ReadHit(c)
  <2> DEFINE place == Extent(entries[key[c]].at, entries[key[c]].len)
  <2>1. /\ pc[c] = "hit" /\ key[c] \in DOMAIN entries /\ due[c] = latest[key[c]]
        /\ seen' = [seen EXCEPT ![c] = {mem[u] : u \in place}]
        /\ pc' = [pc EXCEPT ![c] = "done"]
        /\ UNCHANGED <<entries, latest, mem, page, used, key, len, mine, at, left, due>>
    BY <1>3 DEF ReadHit, Held, mapVars, heapVars
  <2>2. entries[key[c]].at \in place
    BY <2>1 DEF Extent, Entry, Unit
  <2>3. \A u \in place : mem[u] = due[c]
    BY <2>1 DEF Whole
  <2>4. {mem[u] : u \in place} = {due[c]}
    BY <2>2, <2>3
  <2>5. HitIsLastPut'
    BY <2>1, <2>4 DEF HitIsLastPut
  <2> HIDE DEF place
  <2> QED BY <2>1, <2>5 DEF Whole, Below, Clearing, InHand, Written, Held, Cursor, EndOf
<1>4. CASE Return(c)
  BY <1>4 DEF Return, mapVars, heapVars, Whole, Below, Clearing, InHand, Written, Held,
              HitIsLastPut, Cursor, EndOf
<1> QED BY <1>1, <1>2, <1>3, <1>4 DEF Get

\* Entries may go and age; places stay.
LEMMA SafeMap ==
  ASSUME TInv, Safe, NEW k \in Key, Invalidate(k) \/ Expire(k)
  PROVE  Safe'
<1> USE DEF TInv, TypeOK, Safe, At, Placed
<1>1. CASE Invalidate(k)
  BY <1>1 DEF Invalidate, Without, Unguarded, heapVars, callVars, Whole, Below, Clearing,
              InHand, Written, Held, HitIsLastPut, Cursor, EndOf
<1>2. CASE Expire(k)
  <2>1. /\ DOMAIN entries' = DOMAIN entries
        /\ \A j \in DOMAIN entries :
             entries'[j].at = entries[j].at /\ entries'[j].len = entries[j].len
    BY <1>2 DEF Expire, Entry
  <2> QED BY <1>2, <2>1 DEF Expire, heapVars, callVars, Whole, Below, Clearing,
              InHand, Written, Held, HitIsLastPut, Cursor, EndOf
<1> QED BY <1>1, <1>2

\* The putter is alone: nobody else is clearing, or has been given a place.
LEMMA Alone ==
  ASSUME OnePutter, TInv, NEW c \in Putter
  PROVE  \A d \in Client : d # c => pc[d] \notin InPut
BY DEF OnePutter, TInv, InRegion

\* Being given a place, by the first allocation or by the second.
LEMMA SafePlaced ==
  ASSUME TInv, Safe, NEW c \in Client, \A d \in Client : d # c => pc[d] \notin InPut,
         pc[c] \in {"alloc", "retry"}, pc' = [pc EXCEPT ![c] = "write"],
         Fits(len[c]), Allocate(c),
         UNCHANGED <<entries, latest, mem, key, len, mine, left, seen, due, puts>>
  PROVE  Safe'
<1>1. pc \in [Client -> Label] /\ len[c] \in 1 .. MaxSize
  BY DEF TInv, TypeOK, InRegion, InPut
<1>2. /\ \A d \in Client : d # c => at'[d] = at[d]
      /\ Cursor <= at'[c] /\ Cursor \in Nat /\ at'[c] \in Nat
      /\ at'[c] + len[c] = Cursor'
  BY <1>1, AllocateAbove DEF TInv, Unit
<1>3. \A k \in DOMAIN entries : EndOf(k) \in Nat /\ EndOf(k) <= Cursor /\ EndOf(k)' = EndOf(k)
  BY DEF TInv, TypeOK, Safe, Below, At, InPut, EndOf, Entry, Unit
<1>4. Below' /\ InHand'
  <2>1. \A k \in DOMAIN entries : EndOf(k) <= at'[c] /\ EndOf(k) <= Cursor'
    BY <1>1, <1>2, <1>3
  <2>2. \A d \in Client : d # c => pc'[d] \notin Placed
    BY <1>1 DEF InPut, Placed
  <2>3. at'[c] + len'[c] <= Cursor'
    BY <1>2, <1>1
  <2> QED BY <1>3, <2>1, <2>2, <2>3 DEF Below, InHand
<1>5. Whole' /\ Clearing' /\ Written' /\ Held' /\ HitIsLastPut'
  BY <1>1 DEF Safe, Whole, Clearing, Written, Held, HitIsLastPut, At, InPut
<1> QED BY <1>4, <1>5 DEF Safe

LEMMA SafePut ==
  ASSUME OnePutter, TInv, TInv', Safe, NEW c \in Putter, Put(c)
  PROVE  Safe'
<1>c. c \in Client /\ \A d \in Client : d # c => pc[d] \notin InPut
  BY Alone
<1> USE DEF TInv, TypeOK, Safe, At, Goto, InPut, Placed
<1>1. ASSUME NEW k \in Key, NEW n \in 1 .. MaxSize, CallPut(c, k, n) PROVE Safe'
  <2>1. PICK label \in {"evict", "alloc"} : pc' = [pc EXCEPT ![c] = label]
    BY <1>1 DEF CallPut
  <2>2. /\ key' = [key EXCEPT ![c] = k] /\ pc[c] = "idle"
        /\ UNCHANGED <<entries, latest, mem, page, used, seen, due>>
    BY <1>1 DEF CallPut, mapVars, heapVars
  <2>3. \A d \in Client : d # c => UNCHANGED <<len[d], mine[d], at[d], left[d]>>
    BY <1>c, <1>1 DEF CallPut
  <2> QED BY <1>c, <2>1, <2>2, <2>3 DEF Whole, Below, Clearing, InHand, Written, Held,
                HitIsLastPut, Cursor, EndOf
<1>2. ASSUME NEW k \in Key, Visit(c, k) PROVE Safe'
  BY <1>c, <1>2 DEF Visit, Without, Goes, Unguarded, InRegion, heapVars, Whole, Below,
                Clearing, InHand, Written, Held, HitIsLastPut, Cursor, EndOf
<1>3. CASE Alloc(c)
  <2>1. CASE Fits(len[c])
    <3>1. Allocate(c) /\ pc[c] = "alloc"
      BY <1>3, <2>1 DEF Alloc
    <3> QED BY <1>c, <1>3, <2>1, <3>1, SafePlaced DEF Alloc, mapVars
  <2>2. CASE ~Fits(len[c])
    BY <1>c, <1>3, <2>2 DEF Alloc, InRegion, mapVars, Whole, Below,
                Clearing, InHand, Written, Held, HitIsLastPut, Cursor, EndOf
  <2> QED BY <2>1, <2>2
<1>4. CASE Reset(c)
  BY <1>c, <1>4 DEF Reset, InRegion, mapVars, Whole, Below, Clearing, InHand, Written,
                Held, HitIsLastPut, EndOf
<1>5. CASE Retry(c)
  <2>1. CASE Fits(len[c])
    <3>1. Allocate(c) /\ pc[c] = "retry"
      BY <1>5, <2>1 DEF Retry
    <3> QED BY <1>c, <1>5, <2>1, <3>1, SafePlaced DEF Retry, mapVars
  <2>2. CASE ~Fits(len[c])
    BY <1>c, <1>5, <2>2 DEF Retry, InRegion, mapVars, Whole, Below,
                Clearing, InHand, Written, Held, HitIsLastPut, Cursor, EndOf
  <2> QED BY <2>1, <2>2
<1>6. CASE Write(c)
  <2>1. /\ pc[c] = "write" /\ pc' = [pc EXCEPT ![c] = "insert"]
        /\ UNCHANGED <<entries, latest, page, used, key, len, mine, at, left, seen, due>>
        /\ \A u \in Unit : mem'[u] = IF u \in Extent(at[c], len[c]) THEN mine[c] ELSE mem[u]
    BY <1>6 DEF Write, mapVars
  <2>2. /\ at[c] \in Nat /\ len[c] \in Nat /\ at[c] + len[c] <= NumPages * PageSize
        /\ NumPages * PageSize \in Nat
    BY <2>1, CursorInRegion DEF InRegion, Unit
  <2>3. Whole'
    <3>1. ASSUME NEW k \in DOMAIN entries, NEW u \in Extent(entries[k].at, entries[k].len)
          PROVE  mem'[u] = mem[u]
      <4>1. EndOf(k) <= at[c] /\ entries[k] \in Entry /\ u \in Unit
        BY <2>1, <3>1 DEF InHand
      <4>2. u < at[c]
        BY <2>2, <4>1 DEF EndOf, Extent, Entry, Unit
      <4> QED BY <2>1, <2>2, <4>1, <4>2 DEF Extent, Unit
    <3> QED BY <2>1, <3>1 DEF Whole
  <2>4. Written'
    <3>1. Extent(at[c], len[c]) \subseteq Unit
      BY <2>2 DEF Extent, Unit
    <3> QED BY <1>c, <2>1, <3>1 DEF Written
  <2> QED BY <1>c, <2>1, <2>3, <2>4 DEF Below, Clearing, InHand, Held, HitIsLastPut, Cursor, EndOf
<1>7. CASE Insert(c)
  BY <1>c, <1>7 DEF Insert, InRegion, Unguarded, heapVars, Whole, Below, Clearing, InHand,
                Written, Held, HitIsLastPut, Cursor, EndOf
<1> QED BY <1>1, <1>2, <1>3, <1>4, <1>5, <1>6, <1>7 DEF Put

LEMMA SafeStutter ==
  ASSUME Safe, UNCHANGED vars
  PROVE  Safe'
<1>1. UNCHANGED <<entries, latest, mem, page, used, pc, key, len, mine, at, left, seen, due>>
  BY DEF vars, mapVars, heapVars, callVars
<1>2. Whole' /\ Below' /\ Clearing'
  BY <1>1 DEF Safe, Whole, Below, Clearing, At, Cursor, EndOf
<1>3. InHand' /\ Written'
  BY <1>1 DEF Safe, InHand, Written, At, Cursor, EndOf
<1>4. Held' /\ HitIsLastPut'
  BY <1>1 DEF Safe, Held, HitIsLastPut, At
<1> QED BY <1>2, <1>3, <1>4 DEF Safe

LEMMA SafeNext == OnePutter /\ IInv /\ [Next]_vars => IInv'
<1> SUFFICES ASSUME OnePutter, IInv, [Next]_vars
             PROVE  IInv'
  OBVIOUS
<1>1. TInv /\ TInv' /\ Safe
  BY TInvNext DEF IInv, Safe
<1>2. ASSUME NEW c \in Client, Get(c) PROVE Safe'
  BY <1>1, <1>2, SafeGet
<1>3. ASSUME NEW c \in Putter, Put(c) PROVE Safe'
  BY <1>1, <1>3, SafePut
<1>4. ASSUME NEW k \in Key, Invalidate(k) \/ Expire(k) PROVE Safe'
  BY <1>1, <1>4, SafeMap
<1>5. ASSUME UNCHANGED vars PROVE Safe'
  BY <1>1, <1>5, SafeStutter
<1>6. Safe'
  BY <1>2, <1>3, <1>4, <1>5 DEF Next
<1> QED BY <1>1, <1>6 DEF IInv, Safe

(* With one putter and any number of other clients, every hit returns the   *)
(* bytes of the query's last put: IInv is inductive, and implies it.       *)
THEOREM CacheHitIsLastPut ==
  ASSUME OnePutter
  PROVE  Spec => []HitIsLastPut
<1>1. Init => IInv
  BY TInvInit, SafeInit DEF IInv, Safe
<1>2. IInv /\ [Next]_vars => IInv'
  BY SafeNext
<1>3. IInv => HitIsLastPut
  BY DEF IInv
<1> QED BY <1>1, <1>2, <1>3, PTL DEF Spec
=============================================================================
