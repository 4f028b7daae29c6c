------------------------------ MODULE SpscRing ------------------------------
(***************************************************************************)
(* The lock-free ring of vil_queue/src/spsc.rs (SpscRingBuffer and its     *)
(* shared-memory twin ShmSpscQueue), one action per atomic access.         *)
(*                                                                         *)
(* The indices are machine words: they count modulo Modulus (2^64 in the   *)
(* build) and are compared by a wrapping subtraction.  A load of the other *)
(* side's index may return any value between the last one this thread saw  *)
(* and the current one, which is what Acquire on a single location allows; *)
(* a thread always reads the last value it stored itself.                  *)
(*                                                                         *)
(* The ring is meant for one producer and one consumer.  The sets below    *)
(* let a configuration break that rule, as the runtime's wiring can.       *)
(***************************************************************************)
EXTENDS Integers, Sequences

CONSTANTS Producers, Consumers,   \* threads calling push / try_pop
          Item,                   \* the values that may be queued
          Uninit,                 \* a slot that was never written
          Capacity,               \* slots, after next_power_of_two
          Modulus,                \* number of values of a usize
          MaxPushes               \* bound: items accepted in a behaviour

ASSUME RingAssumption ==
  /\ Capacity \in Nat \ {0}
  /\ Modulus \in Nat
  /\ \E k \in 2 .. Modulus : Modulus = k * Capacity
  /\ Uninit \notin Item
  /\ MaxPushes \in Nat

VARIABLES tail, head,      \* the two atomics
          buffer,          \* the slots
          ppc, pitem, pspin, ptail, phead,  \* per producer: its call and registers
          cpc, citem, chead, ctail,         \* per consumer
          pushed, popped   \* accepted and returned items (history variables)

producerVars == <<ppc, pitem, pspin, ptail, phead>>
consumerVars == <<cpc, citem, chead, ctail>>
vars == <<tail, head, buffer, producerVars, consumerVars, pushed, popped>>

Index == 0 .. Modulus - 1
Slots == 0 .. Capacity - 1

\* A variant: the sum of two indices without the wrap.
AddUnwrapped(a, d) == a + d

\* usize::wrapping_add and usize::wrapping_sub, on arguments below Modulus
WrapAdd(a, d) == IF a + d >= Modulus THEN a + d - Modulus ELSE a + d
WrapSub(a, b) == IF a >= b THEN a - b ELSE a - b + Modulus

\* usize::next_power_of_two: what new(min_capacity) makes of a request above 0
NextPowerOfTwo(n) == CHOOSE c \in {2^k : k \in 0 .. n} : n <= c /\ c < 2 * n

\* StripedRing: the number of rings, and the ring of the n-th thread that logs
MaxStripes == 32
StripeCount(requested) ==
  LET c == NextPowerOfTwo(IF requested > 1 THEN requested ELSE 1)
  IN  IF c < MaxStripes THEN c ELSE MaxStripes
StripeOf(n, stripes) == n % stripes

\* `idx & mask`, with mask = capacity - 1 and a power-of-two capacity
Slot(i) == i % Capacity

\* Variants of the two tests below: one item late; a plain subtraction that
\* saturates, or a plain comparison, where the words may have wrapped; none.
FullLate(t, h) == WrapSub(t, h) > Capacity
FullSaturating(t, h) == t >= h /\ t - h >= Capacity
EmptyOrdered(h, t) == h >= t
EmptyNever(h, t) == FALSE

Full(t, h) == WrapSub(t, h) >= Capacity
Empty(h, t) == h = t

\* A variant: a cached index that is never loaded again.
ViewsCached(seen, current) == {seen}

\* What a load of an index may return to a thread that last saw `seen`.
Views(seen, current) == {WrapAdd(seen, d) : d \in 0 .. WrapSub(current, seen)}

Init ==
  /\ tail = 0 /\ head = 0
  /\ buffer = [s \in Slots |-> Uninit]
  /\ ppc = [p \in Producers |-> "idle"]
  /\ pitem = [p \in Producers |-> Uninit]
  /\ pspin = [p \in Producers |-> FALSE]
  /\ ptail = [p \in Producers |-> 0]
  /\ phead = [p \in Producers |-> 0]
  /\ cpc = [c \in Consumers |-> "idle"]
  /\ citem = [c \in Consumers |-> Uninit]
  /\ chead = [c \in Consumers |-> 0]
  /\ ctail = [c \in Consumers |-> 0]
  /\ pushed = <<>> /\ popped = <<>>

-----------------------------------------------------------------------------
(* The producer side: try_push(item), or push(item), which repeats it.     *)

PushCall(p, x, spin) ==
  /\ ppc[p] = "idle"
  /\ Len(pushed) < MaxPushes
  /\ ppc' = [ppc EXCEPT ![p] = "tail"]
  /\ pitem' = [pitem EXCEPT ![p] = x]
  /\ pspin' = [pspin EXCEPT ![p] = spin]
  /\ UNCHANGED <<tail, head, buffer, ptail, phead, consumerVars, pushed, popped>>

PushLoadTail(p) ==
  /\ ppc[p] = "tail"
  /\ ptail' = [ptail EXCEPT ![p] = tail]
  /\ ppc' = [ppc EXCEPT ![p] = "head"]
  /\ UNCHANGED <<tail, head, buffer, pitem, pspin, phead, consumerVars,
                 pushed, popped>>

\* Full: try_push returns Err(item), push starts over with the same item.
PushLoadHead(p) ==
  /\ ppc[p] = "head"
  /\ \E h \in Views(phead[p], head) :
       /\ phead' = [phead EXCEPT ![p] = h]
       /\ ppc' = [ppc EXCEPT ![p] =
                    CASE ~Full(ptail[p], h) -> "write"
                      [] Full(ptail[p], h) /\ pspin[p] -> "tail"
                      [] OTHER -> "idle"]
  /\ UNCHANGED <<tail, head, buffer, pitem, pspin, ptail, consumerVars,
                 pushed, popped>>

PushWrite(p) ==
  /\ ppc[p] = "write"
  /\ buffer' = [buffer EXCEPT ![Slot(ptail[p])] = pitem[p]]
  /\ ppc' = [ppc EXCEPT ![p] = "store"]
  /\ UNCHANGED <<tail, head, pitem, pspin, ptail, phead, consumerVars,
                 pushed, popped>>

PushStore(p) ==
  /\ ppc[p] = "store"
  /\ tail' = WrapAdd(ptail[p], 1)
  /\ pushed' = Append(pushed, pitem[p])
  /\ ppc' = [ppc EXCEPT ![p] = "idle"]
  /\ UNCHANGED <<head, buffer, pitem, pspin, ptail, phead, consumerVars,
                 popped>>

-----------------------------------------------------------------------------
(* The consumer side: try_pop.                                             *)

PopLoadHead(c) ==
  /\ cpc[c] = "idle"
  /\ chead' = [chead EXCEPT ![c] = head]
  /\ cpc' = [cpc EXCEPT ![c] = "tail"]
  /\ UNCHANGED <<tail, head, buffer, producerVars, citem, ctail, pushed, popped>>

\* Empty: try_pop returns None.
PopLoadTail(c) ==
  /\ cpc[c] = "tail"
  /\ \E t \in Views(ctail[c], tail) :
       /\ ctail' = [ctail EXCEPT ![c] = t]
       /\ cpc' = [cpc EXCEPT ![c] = IF Empty(chead[c], t) THEN "idle" ELSE "read"]
  /\ UNCHANGED <<tail, head, buffer, producerVars, citem, chead, pushed, popped>>

PopRead(c) ==
  /\ cpc[c] = "read"
  /\ citem' = [citem EXCEPT ![c] = buffer[Slot(chead[c])]]
  /\ cpc' = [cpc EXCEPT ![c] = "store"]
  /\ UNCHANGED <<tail, head, buffer, producerVars, chead, ctail, pushed, popped>>

PopStore(c) ==
  /\ cpc[c] = "store"
  /\ head' = WrapAdd(chead[c], 1)
  /\ popped' = Append(popped, citem[c])
  /\ cpc' = [cpc EXCEPT ![c] = "idle"]
  /\ UNCHANGED <<tail, buffer, producerVars, citem, chead, ctail, pushed>>

-----------------------------------------------------------------------------
Produce(p) == \/ \E x \in Item, spin \in BOOLEAN : PushCall(p, x, spin)
              \/ PushLoadTail(p) \/ PushLoadHead(p) \/ PushWrite(p) \/ PushStore(p)

Consume(c) == PopLoadHead(c) \/ PopLoadTail(c) \/ PopRead(c) \/ PopStore(c)

Next == (\E p \in Producers : Produce(p)) \/ (\E c \in Consumers : Consume(c))

Spec == Init /\ [][Next]_vars

(***************************************************************************)
(* Scheduling: a thread that is inside a call keeps running, the consumer  *)
(* keeps polling, and a store becomes visible to a thread that keeps       *)
(* loading it (the fresh value is returned again and again, then once      *)
(* the old one cannot be returned for ever).                               *)
(***************************************************************************)
Running(p) == PushLoadTail(p) \/ PushLoadHead(p) \/ PushWrite(p) \/ PushStore(p)
FreshHead(p) == PushLoadHead(p) /\ phead'[p] = head
FreshTail(c) == PopLoadTail(c) /\ ctail'[c] = tail

Fairness ==
  /\ \A p \in Producers : WF_vars(Running(p)) /\ SF_vars(FreshHead(p))
  /\ \A c \in Consumers : WF_vars(Consume(c)) /\ SF_vars(FreshTail(c))

FairSpec == Spec /\ Fairness

-----------------------------------------------------------------------------
(* Properties.                                                             *)

TypeOK ==
  /\ tail \in Index /\ head \in Index
  /\ buffer \in [Slots -> Item \cup {Uninit}]
  /\ ppc \in [Producers -> {"idle", "tail", "head", "write", "store"}]
  /\ pitem \in [Producers -> Item \cup {Uninit}]
  /\ pspin \in [Producers -> BOOLEAN]
  /\ ptail \in [Producers -> Index] /\ phead \in [Producers -> Index]
  /\ cpc \in [Consumers -> {"idle", "tail", "read", "store"}]
  /\ citem \in [Consumers -> Item \cup {Uninit}]
  /\ chead \in [Consumers -> Index] /\ ctail \in [Consumers -> Index]
  /\ pushed \in Seq(Item) /\ popped \in Seq(Item \cup {Uninit})

(* What try_pop returned so far is a prefix of what push accepted: nothing *)
(* is lost, duplicated, reordered or read from an unwritten slot, through  *)
(* any number of wraps of the slots and of the machine words.              *)
DeliveredInOrder ==
  /\ Len(popped) <= Len(pushed)
  /\ \A i \in 1 .. Len(popped) : popped[i] = pushed[i]

(* The unsynchronised accesses to a slot, `write(item)` and                *)
(* `assume_init_read()`, never meet: no thread is about to write the slot  *)
(* another one is about to read or write, whatever the index registers     *)
(* held since.                                                             *)
SlotExclusive ==
  \A p \in Producers : ppc[p] = "write" =>
     /\ \A c \in Consumers : cpc[c] = "read" => Slot(ptail[p]) # Slot(chead[c])
     /\ \A q \in Producers \ {p} : ppc[q] = "write" => Slot(ptail[p]) # Slot(ptail[q])

(* The two atomics alone tell how many items wait, and never more than the *)
(* ring holds: the wrapping difference that len and the full test compute  *)
(* is the number of accepted items not yet returned.                       *)
IndicesCountItems ==
  /\ WrapSub(tail, head) = Len(pushed) - Len(popped)
  /\ WrapSub(tail, head) <= Capacity

(* Every call of push returns, although a full ring makes it spin, and     *)
(* every accepted item is returned by a later try_pop, as long as the      *)
(* consumer keeps polling.                                                 *)
PushReturns == \A p \in Producers : (ppc[p] # "idle") ~> (ppc[p] = "idle")
EveryItemDelivered ==
  \A n \in 1 .. MaxPushes : (Len(pushed) >= n) ~> (Len(popped) >= n)

(* The ring implements the queue contract.                                 *)
Queue == INSTANCE Fifo WITH sent <- pushed, received <- popped
ImplementsFifo == Queue!Spec

\* The ring's usage rule, which its header states and nothing enforces.
SingleProducerConsumer ==
  /\ \A p, q \in Producers : p = q
  /\ \A c, d \in Consumers : c = d
=============================================================================
