-------------------------- MODULE SpscRing_proofs ---------------------------
(***************************************************************************)
(* Under the usage rule of the ring (one producer, one consumer) the ring  *)
(* of SpscRing delivers in order, keeps its slots exclusive and implements *)
(* Fifo, for every capacity, every word size that is a multiple of it and  *)
(* every number of pushes.                                                 *)
(***************************************************************************)
EXTENDS SpscRing, TLAPS

(* The order of the four indices on the circle of machine words:           *)
(*   phead <= head <= ctail <= tail, and tail at most Capacity past phead. *)
Window ==
  /\ \A p \in Producers :
       /\ WrapSub(head, phead[p]) + WrapSub(tail, head) = WrapSub(tail, phead[p])
       /\ WrapSub(tail, phead[p]) <= Capacity
  /\ \A c \in Consumers :
       WrapSub(ctail[c], head) + WrapSub(tail, ctail[c]) = WrapSub(tail, head)

(* What a thread's registers mean at each point of its call.               *)
ProducerRegisters ==
  \A p \in Producers :
    /\ ppc[p] # "idle" => pitem[p] \in Item
    /\ ppc[p] \in {"head", "write", "store"} => ptail[p] = tail
    /\ ppc[p] \in {"write", "store"} => WrapSub(tail, phead[p]) < Capacity
    /\ ppc[p] = "store" => buffer[Slot(tail)] = pitem[p]

ConsumerRegisters ==
  \A c \in Consumers :
    /\ cpc[c] # "idle" => chead[c] = head
    /\ cpc[c] \in {"read", "store"} => ctail[c] # head
    /\ cpc[c] = "store" => citem[c] = pushed[Len(popped) + 1]

(* The waiting items lie in the slots from head on.                        *)
Contents ==
  \A i \in Nat : i < WrapSub(tail, head) =>
     buffer[Slot(WrapAdd(head, i))] = pushed[Len(popped) + 1 + i]

IInv == /\ TypeOK
        /\ Window
        /\ ProducerRegisters
        /\ ConsumerRegisters
        /\ Contents
        /\ IndicesCountItems
        /\ DeliveredInOrder

-----------------------------------------------------------------------------
(* Arithmetic on the circle.                                               *)

(* No multiple of the capacity lies strictly between 0 and the capacity.   *)
LEMMA NoMultipleBetween ==
  ASSUME NEW z \in Int, Capacity * z > 0
  PROVE  Capacity * z >= Capacity
<1>1. Capacity \in Nat /\ Capacity > 0
  BY RingAssumption
<1>2. z >= 1
  BY <1>1
<1>3. QED
  BY <1>1, <1>2

(* Two indices less than a capacity apart never share a slot: this is what *)
(* the mask relies on, and why Modulus must be a multiple of Capacity.     *)
LEMMA SlotsDiffer ==
  ASSUME NEW a \in Index, NEW b \in Index,
         WrapSub(a, b) > 0, WrapSub(a, b) < Capacity
  PROVE  Slot(a) # Slot(b)
<1>1. PICK k \in 2 .. Modulus : Modulus = k * Capacity
  BY RingAssumption
<1>2. /\ Capacity \in Nat /\ Capacity > 0 /\ Modulus \in Nat
      /\ a \in Nat /\ b \in Nat /\ k \in Nat
  BY <1>1, RingAssumption DEF Index
<1> DEFINE qa == a \div Capacity
           qb == b \div Capacity
<1>3. /\ qa \in Int /\ a = Capacity * qa + (a % Capacity)
      /\ qb \in Int /\ b = Capacity * qb + (b % Capacity)
      /\ a % Capacity \in Int /\ b % Capacity \in Int
  BY <1>2
<1>4. SUFFICES ASSUME a % Capacity = b % Capacity PROVE FALSE
  BY DEF Slot
<1> HIDE DEF qa, qb
<1>5. a - b = Capacity * (qa - qb)
  BY <1>2, <1>3, <1>4
<1>6. CASE a >= b
  <2>1. Capacity * (qa - qb) > 0 /\ Capacity * (qa - qb) < Capacity
    BY <1>2, <1>5, <1>6 DEF WrapSub
  <2>2. QED
    BY <1>2, <1>3, <2>1, NoMultipleBetween
<1>7. CASE ~(a >= b)
  <2>1. Capacity * (qa - qb + k) = a - b + Modulus
    BY <1>1, <1>2, <1>3, <1>5
  <2>2. Capacity * (qa - qb + k) > 0 /\ Capacity * (qa - qb + k) < Capacity
    BY <1>2, <1>7, <2>1 DEF WrapSub
  <2>3. QED
    BY <1>2, <1>3, <2>2, NoMultipleBetween
<1>8. QED
  BY <1>6, <1>7

(* Slots are slots.                                                        *)
LEMMA SlotType == ASSUME NEW i \in Index PROVE Slot(i) \in Slots
  BY RingAssumption DEF Slot, Slots, Index

(* The circle is at least twice as long as the ring.                       *)
LEMMA ModulusLarge == /\ Modulus \in Nat /\ Capacity \in Nat
                      /\ Capacity > 0 /\ Modulus >= 2 * Capacity
<1>1. PICK k \in 2 .. Modulus : Modulus = k * Capacity
  BY RingAssumption
<1>2. Capacity \in Nat /\ Capacity > 0 /\ k \in Nat /\ k >= 2
  BY <1>1, RingAssumption
<1>3. k * Capacity >= 2 * Capacity
  BY <1>2
<1>4. QED
  BY <1>1, <1>2, <1>3, RingAssumption

(* WrapAdd and WrapSub stay on the circle, and undo each other.            *)
LEMMA WrapType ==
  ASSUME NEW a \in Index, NEW b \in Index
  PROVE  /\ WrapSub(a, b) \in Index
         /\ \A d \in Index : WrapAdd(a, d) \in Index /\ WrapSub(WrapAdd(a, d), a) = d
         /\ WrapAdd(b, WrapSub(a, b)) = a
         /\ (WrapSub(a, b) = 0) <=> (a = b)
  BY ModulusLarge DEF Index, WrapAdd, WrapSub

LEMMA WrapNat == \A a, b \in Index : WrapSub(a, b) \in Nat /\ WrapSub(a, b) \in Index
  BY ModulusLarge DEF Index, WrapSub

(* Two different indices are a positive distance apart.                    *)
LEMMA WrapSubPositive ==
  ASSUME NEW a \in Index, NEW b \in Index, a # b
  PROVE  WrapSub(a, b) \in Nat /\ WrapSub(a, b) >= 1
  BY ModulusLarge DEF Index, WrapSub

(* One step forward from the leading index, or of the trailing one.         *)
LEMMA StepAhead ==
  ASSUME NEW a \in Index, NEW b \in Index
  PROVE  /\ WrapAdd(a, 1) \in Index
         /\ WrapSub(a, b) < Capacity => WrapSub(WrapAdd(a, 1), b) = WrapSub(a, b) + 1
         /\ WrapSub(a, b) > 0 => WrapSub(a, WrapAdd(b, 1)) = WrapSub(a, b) - 1
  BY ModulusLarge DEF Index, WrapAdd, WrapSub

(* A view d words ahead of a trailing register keeps the order of the       *)
(* circle: between x and h on the way to t.                                *)
LEMMA ViewInOrder ==
  ASSUME NEW x \in Index, NEW h \in Index, NEW t \in Index,
         NEW d \in 0 .. WrapSub(h, x),
         WrapSub(h, x) + WrapSub(t, h) = WrapSub(t, x)
  PROVE  /\ WrapAdd(x, d) \in Index
         /\ WrapSub(h, WrapAdd(x, d)) = WrapSub(h, x) - d
         /\ WrapSub(t, WrapAdd(x, d)) = WrapSub(t, x) - d
<1>1. /\ x \in Nat /\ h \in Nat /\ t \in Nat /\ d \in Nat /\ Modulus \in Nat
      /\ x < Modulus /\ h < Modulus /\ t < Modulus
      /\ d <= WrapSub(h, x)
  BY ModulusLarge DEF Index, WrapSub
<1>2. QED
  BY <1>1 DEF Index, WrapAdd, WrapSub

(* A view of the leading index seen from the trailing one.                 *)
LEMMA ViewAhead ==
  ASSUME NEW c \in Index, NEW h \in Index, NEW t \in Index,
         NEW d \in 0 .. WrapSub(t, c),
         WrapSub(c, h) + WrapSub(t, c) = WrapSub(t, h)
  PROVE  /\ WrapAdd(c, d) \in Index
         /\ WrapSub(WrapAdd(c, d), h) = WrapSub(c, h) + d
         /\ WrapSub(t, WrapAdd(c, d)) = WrapSub(t, c) - d
<1>1. /\ c \in Nat /\ h \in Nat /\ t \in Nat /\ d \in Nat /\ Modulus \in Nat
      /\ c < Modulus /\ h < Modulus /\ t < Modulus
      /\ d <= WrapSub(t, c)
  BY ModulusLarge DEF Index, WrapSub
<1>2. QED
  BY <1>1 DEF Index, WrapAdd, WrapSub

-----------------------------------------------------------------------------
(* The inductive invariant.                                                *)

LEMMA InitIInv == Init => IInv
<1> SUFFICES ASSUME Init PROVE IInv
  OBVIOUS
<1>1. 0 \in Index /\ WrapSub(0, 0) = 0 /\ 0 <= Capacity
  BY ModulusLarge DEF Index, WrapSub
<1>2. TypeOK
  BY <1>1 DEF Init, TypeOK
<1>3. Window /\ Contents
  BY <1>1 DEF Init, Window, Contents
<1>4. ProducerRegisters /\ ConsumerRegisters
  BY <1>1 DEF Init, ProducerRegisters, ConsumerRegisters
<1>5. IndicesCountItems /\ DeliveredInOrder
  BY <1>1 DEF Init, IndicesCountItems, DeliveredInOrder
<1>6. QED
  BY <1>2, <1>3, <1>4, <1>5 DEF IInv

(* The producer's steps.  Only PushWrite and PushStore touch shared state. *)
LEMMA ProduceKeepsIInv ==
  ASSUME SingleProducerConsumer, IInv, NEW p \in Producers, Produce(p)
  PROVE  IInv'
<1> USE ModulusLarge
<1>1. ASSUME NEW x \in Item, NEW spin \in BOOLEAN, PushCall(p, x, spin)
      PROVE  IInv'
  <2>1. TypeOK'
    BY <1>1 DEF IInv, TypeOK, PushCall, consumerVars
  <2>2. ProducerRegisters'
    BY <1>1 DEF IInv, TypeOK, ProducerRegisters, PushCall, consumerVars
  <2>3. (Window /\ Contents /\ ConsumerRegisters /\ IndicesCountItems /\ DeliveredInOrder)'
    BY <1>1 DEF IInv, Window, Contents, ConsumerRegisters, IndicesCountItems,
                DeliveredInOrder, PushCall, consumerVars
  <2>4. QED
    BY <2>1, <2>2, <2>3 DEF IInv
<1>2. ASSUME PushLoadTail(p) PROVE IInv'
  <2>1. TypeOK'
    BY <1>2 DEF IInv, TypeOK, PushLoadTail, consumerVars
  <2>2. ProducerRegisters'
    BY <1>2 DEF IInv, TypeOK, ProducerRegisters, PushLoadTail, consumerVars
  <2>3. (Window /\ Contents /\ ConsumerRegisters /\ IndicesCountItems /\ DeliveredInOrder)'
    BY <1>2 DEF IInv, Window, Contents, ConsumerRegisters, IndicesCountItems,
                DeliveredInOrder, PushLoadTail, consumerVars
  <2>4. QED
    BY <2>1, <2>2, <2>3 DEF IInv
<1>3. ASSUME PushLoadHead(p) PROVE IInv'
  <2>0. PICK d \in 0 .. WrapSub(head, phead[p]) :
          /\ phead' = [phead EXCEPT ![p] = WrapAdd(phead[p], d)]
          /\ ppc' = [ppc EXCEPT ![p] =
               CASE ~Full(ptail[p], WrapAdd(phead[p], d)) -> "write"
                 [] Full(ptail[p], WrapAdd(phead[p], d)) /\ pspin[p] -> "tail"
                 [] OTHER -> "idle"]
    <3>1. PICK h \in Views(phead[p], head) :
            /\ phead' = [phead EXCEPT ![p] = h]
            /\ ppc' = [ppc EXCEPT ![p] = CASE ~Full(ptail[p], h) -> "write"
                                          [] Full(ptail[p], h) /\ pspin[p] -> "tail"
                                          [] OTHER -> "idle"]
      BY <1>3, ZenonT(30) DEF PushLoadHead
    <3>2. PICK d \in 0 .. WrapSub(head, phead[p]) : h = WrapAdd(phead[p], d)
      BY <3>1 DEF Views
    <3>3. QED
      BY <3>1, <3>2
  <2>a. /\ head \in Index /\ tail \in Index /\ phead[p] \in Index
        /\ ptail[p] = tail /\ pitem[p] \in Item /\ ppc[p] = "head"
    BY <1>3 DEF IInv, TypeOK, ProducerRegisters, PushLoadHead
  <2>b. /\ WrapSub(head, phead[p]) + WrapSub(tail, head) = WrapSub(tail, phead[p])
        /\ WrapSub(tail, phead[p]) <= Capacity
    BY DEF IInv, Window
  <2>c. /\ d \in Index /\ WrapAdd(phead[p], d) \in Index
        /\ WrapSub(head, WrapAdd(phead[p], d)) = WrapSub(head, phead[p]) - d
        /\ WrapSub(tail, WrapAdd(phead[p], d)) = WrapSub(tail, phead[p]) - d
    <3>1. d \in Index
      BY <2>0, <2>a, WrapType DEF Index
    <3>2. QED
      BY <2>0, <2>a, <2>b, <3>1, ViewInOrder
  <2>d. WrapSub(tail, head) \in Index /\ WrapSub(tail, phead[p]) \in Index
    BY <2>a, WrapType
  <2>1. TypeOK'
    <3>1. ppc' \in [Producers -> {"idle", "tail", "head", "write", "store"}]
      BY <2>0 DEF IInv, TypeOK
    <3>2. phead' \in [Producers -> Index]
      BY <2>0, <2>c DEF IInv, TypeOK
    <3>3. QED
      BY <1>3, <3>1, <3>2 DEF IInv, TypeOK, PushLoadHead, consumerVars
  <2>2. ProducerRegisters'
    BY <1>3, <2>0, <2>a, <2>c, <2>d DEF IInv, TypeOK, ProducerRegisters, PushLoadHead, consumerVars,
                                     Full, Index
  <2>3. Window'
    <3>1. WrapSub(head, phead[p]) \in Nat /\ WrapSub(tail, phead[p]) \in Nat
          /\ WrapSub(tail, head) \in Nat /\ d \in Nat
      BY <2>a, <2>0, <2>c, WrapType DEF Index
    <3>2. phead'[p] = WrapAdd(phead[p], d)
      BY <2>0 DEF IInv, TypeOK
    <3>3. /\ WrapSub(head, phead'[p]) + WrapSub(tail, head) = WrapSub(tail, phead'[p])
          /\ WrapSub(tail, phead'[p]) <= Capacity
      BY <2>b, <2>c, <3>1, <3>2
    <3>4. \A q \in Producers : q = p
      BY DEF SingleProducerConsumer
    <3>5. QED
      BY <1>3, <3>3, <3>4 DEF IInv, Window, PushLoadHead, consumerVars
  <2>4. (Contents /\ ConsumerRegisters /\ IndicesCountItems /\ DeliveredInOrder)'
    BY <1>3 DEF IInv, Contents, ConsumerRegisters, IndicesCountItems,
                DeliveredInOrder, PushLoadHead, consumerVars
  <2>5. QED
    BY <2>1, <2>2, <2>3, <2>4 DEF IInv
<1>4. ASSUME PushWrite(p) PROVE IInv'
  <2>a. /\ head \in Index /\ tail \in Index /\ phead[p] \in Index
        /\ ptail[p] = tail /\ pitem[p] \in Item /\ ppc[p] = "write"
        /\ buffer \in [Slots -> Item \cup {Uninit}] /\ Slot(tail) \in Slots
    BY <1>4, SlotType DEF IInv, TypeOK, ProducerRegisters, PushWrite
  <2>b. WrapSub(tail, head) < Capacity /\ WrapSub(tail, head) \in Index
    <3>1. /\ WrapSub(tail, phead[p]) < Capacity
          /\ WrapSub(head, phead[p]) + WrapSub(tail, head) = WrapSub(tail, phead[p])
      BY <2>a DEF IInv, Window, ProducerRegisters
    <3>2. WrapSub(tail, phead[p]) \in Nat /\ WrapSub(head, phead[p]) \in Nat
          /\ WrapSub(tail, head) \in Index
      BY <2>a, WrapNat
    <3>3. QED
      BY <3>1, <3>2 DEF Index
  <2>1. TypeOK'
    BY <1>4, <2>a DEF IInv, TypeOK, PushWrite, consumerVars
  <2>2. ProducerRegisters'
    BY <1>4, <2>a DEF IInv, TypeOK, ProducerRegisters, PushWrite, consumerVars,
                      SingleProducerConsumer
  <2>3. Contents'
    <3> SUFFICES ASSUME NEW i \in Nat, i < WrapSub(tail, head)
                 PROVE  buffer'[Slot(WrapAdd(head, i))] = pushed[Len(popped) + 1 + i]
      BY <1>4 DEF Contents, PushWrite
    <3>1. /\ WrapAdd(head, i) \in Index
          /\ WrapSub(tail, WrapAdd(head, i)) = WrapSub(tail, head) - i
      BY <2>a, <2>b DEF Index, WrapAdd, WrapSub
    <3>2. Slot(tail) # Slot(WrapAdd(head, i))
      BY <2>a, <2>b, <3>1, SlotsDiffer DEF Index
    <3>3. Slot(WrapAdd(head, i)) \in Slots
      BY <3>1, SlotType
    <3>4. buffer'[Slot(WrapAdd(head, i))] = buffer[Slot(WrapAdd(head, i))]
      BY <1>4, <2>a, <3>2, <3>3 DEF PushWrite
    <3>5. QED
      BY <3>4 DEF IInv, Contents
  <2>4. (Window /\ ConsumerRegisters /\ IndicesCountItems /\ DeliveredInOrder)'
    BY <1>4 DEF IInv, Window, ConsumerRegisters, IndicesCountItems,
                DeliveredInOrder, PushWrite, consumerVars
  <2>5. QED
    BY <2>1, <2>2, <2>3, <2>4 DEF IInv
<1>5. ASSUME PushStore(p) PROVE IInv'
  <2>a. /\ head \in Index /\ tail \in Index /\ phead[p] \in Index
        /\ ptail[p] = tail /\ pitem[p] \in Item /\ ppc[p] = "store"
        /\ buffer[Slot(tail)] = pitem[p]
        /\ pushed \in Seq(Item) /\ Len(pushed) \in Nat
        /\ Len(popped) \in Nat
    BY <1>5 DEF IInv, TypeOK, ProducerRegisters, PushStore
  <2>b. /\ WrapSub(tail, phead[p]) < Capacity
        /\ WrapSub(head, phead[p]) + WrapSub(tail, head) = WrapSub(tail, phead[p])
        /\ WrapSub(tail, head) = Len(pushed) - Len(popped)
        /\ WrapSub(tail, head) \in Index /\ WrapSub(head, phead[p]) \in Index
    BY <2>a, WrapType DEF IInv, Window, ProducerRegisters, IndicesCountItems
  <2>c. /\ tail' \in Index /\ tail' = WrapAdd(tail, 1)
        /\ WrapSub(tail', head) = WrapSub(tail, head) + 1
        /\ WrapSub(tail', phead[p]) = WrapSub(tail, phead[p]) + 1
    <3>1. tail' = WrapAdd(tail, 1)
      BY <1>5, <2>a DEF PushStore
    <3>2. WrapSub(tail, head) < Capacity
      BY <2>b DEF Index
    <3>3. QED
      BY <3>1, <3>2, <2>a, <2>b, StepAhead
  <2>d. /\ pushed' = Append(pushed, pitem[p]) /\ pushed' \in Seq(Item)
        /\ Len(pushed') = Len(pushed) + 1
        /\ pushed'[Len(pushed) + 1] = pitem[p]
        /\ \A i \in 1 .. Len(pushed) : pushed'[i] = pushed[i]
    BY <1>5, <2>a DEF PushStore
  <2>1. TypeOK'
    BY <1>5, <2>c, <2>d DEF IInv, TypeOK, PushStore, consumerVars
  <2>2. ProducerRegisters'
    BY <1>5, <2>a DEF IInv, TypeOK, ProducerRegisters, PushStore, SingleProducerConsumer
  <2>3. Window'
    <3>1. ASSUME NEW q \in Producers
          PROVE  /\ WrapSub(head, phead[q]) + WrapSub(tail', head) = WrapSub(tail', phead[q])
                 /\ WrapSub(tail', phead[q]) <= Capacity
      <4>1. q = p
        BY DEF SingleProducerConsumer
      <4>2. QED
        BY <4>1, <2>a, <2>b, <2>c DEF Index
    <3>2. ASSUME NEW c \in Consumers
          PROVE  WrapSub(ctail[c], head) + WrapSub(tail', ctail[c]) = WrapSub(tail', head)
      <4>1. /\ ctail[c] \in Index
            /\ WrapSub(ctail[c], head) + WrapSub(tail, ctail[c]) = WrapSub(tail, head)
        BY DEF IInv, TypeOK, Window
      <4>2. /\ WrapSub(ctail[c], head) \in Nat /\ WrapSub(tail, ctail[c]) \in Nat
            /\ WrapSub(tail, head) \in Nat /\ WrapSub(head, phead[p]) \in Nat
        BY <4>1, <2>a, WrapNat
      <4>3. WrapSub(tail, ctail[c]) < Capacity
        BY <4>1, <4>2, <2>b
      <4>4. WrapSub(tail', ctail[c]) = WrapSub(tail, ctail[c]) + 1
        BY <4>1, <4>3, <2>a, <2>c, StepAhead
      <4>5. QED
        BY <4>1, <4>2, <4>4, <2>c
    <3>3. QED
      BY <1>5, <3>1, <3>2 DEF Window, PushStore, consumerVars
  <2>4. ConsumerRegisters'
    <3> SUFFICES ASSUME NEW c \in Consumers
                 PROVE  /\ cpc[c] # "idle" => chead[c] = head
                        /\ cpc[c] \in {"read", "store"} => ctail[c] # head
                        /\ cpc[c] = "store" => citem[c] = pushed'[Len(popped) + 1]
      BY <1>5 DEF ConsumerRegisters, PushStore, consumerVars
    <3>1. cpc[c] = "store" => WrapSub(tail, head) >= 1
      <4>1. /\ ctail[c] \in Index
            /\ WrapSub(ctail[c], head) + WrapSub(tail, ctail[c]) = WrapSub(tail, head)
            /\ cpc[c] = "store" => ctail[c] # head
        BY DEF IInv, TypeOK, Window, ConsumerRegisters
      <4>2. QED
        BY <4>1, <2>a DEF Index, WrapSub
    <3>2. QED
      BY <2>a, <2>b, <2>d, <3>1 DEF IInv, ConsumerRegisters, Index
  <2>5. Contents'
    <3> SUFFICES ASSUME NEW i \in Nat, i < WrapSub(tail', head)
                 PROVE  buffer[Slot(WrapAdd(head, i))] = pushed'[Len(popped) + 1 + i]
      BY <1>5 DEF Contents, PushStore
    <3>1. CASE i < WrapSub(tail, head)
      <4>1. buffer[Slot(WrapAdd(head, i))] = pushed[Len(popped) + 1 + i]
        BY <3>1 DEF IInv, Contents
      <4>2. Len(popped) + 1 + i \in 1 .. Len(pushed)
        BY <3>1, <2>a, <2>b DEF Index
      <4>3. QED
        BY <4>1, <4>2, <2>d
    <3>2. CASE i = WrapSub(tail, head)
      <4>1. WrapAdd(head, i) = tail
        BY <3>2, <2>a, WrapType
      <4>2. Len(popped) + 1 + i = Len(pushed) + 1
        BY <3>2, <2>a, <2>b
      <4>3. QED
        BY <4>1, <4>2, <2>a, <2>d
    <3>3. QED
      BY <3>1, <3>2, <2>b, <2>c DEF Index
  <2>6. (IndicesCountItems /\ DeliveredInOrder)'
    BY <1>5, <2>a, <2>b, <2>c, <2>d DEF IInv, IndicesCountItems, DeliveredInOrder,
                                        PushStore, Index
  <2>7. QED
    BY <2>1, <2>2, <2>3, <2>4, <2>5, <2>6 DEF IInv
<1>6. QED
  BY <1>1, <1>2, <1>3, <1>4, <1>5 DEF Produce

(* The consumer's steps.  Only PopStore touches shared state.              *)
LEMMA ConsumeKeepsIInv ==
  ASSUME SingleProducerConsumer, IInv, NEW c \in Consumers, Consume(c)
  PROVE  IInv'
<1> USE ModulusLarge
<1>a. /\ head \in Index /\ tail \in Index /\ ctail[c] \in Index
      /\ pushed \in Seq(Item) /\ Len(pushed) \in Nat
      /\ popped \in Seq(Item \cup {Uninit}) /\ Len(popped) \in Nat
      /\ WrapSub(ctail[c], head) + WrapSub(tail, ctail[c]) = WrapSub(tail, head)
      /\ WrapSub(tail, head) <= Capacity
      /\ WrapSub(tail, head) = Len(pushed) - Len(popped)
  BY DEF IInv, TypeOK, Window, IndicesCountItems
<1>b. /\ WrapSub(tail, head) \in Index /\ WrapSub(ctail[c], head) \in Index
      /\ WrapSub(tail, ctail[c]) \in Index
  BY <1>a, WrapType
<1>1. ASSUME PopLoadHead(c) PROVE IInv'
  <2>1. TypeOK'
    BY <1>1 DEF IInv, TypeOK, PopLoadHead, producerVars
  <2>2. ConsumerRegisters'
    BY <1>1 DEF IInv, TypeOK, ConsumerRegisters, PopLoadHead
  <2>3. (Window /\ Contents /\ ProducerRegisters /\ IndicesCountItems /\ DeliveredInOrder)'
    BY <1>1 DEF IInv, Window, Contents, ProducerRegisters, IndicesCountItems,
                DeliveredInOrder, PopLoadHead, producerVars
  <2>4. QED
    BY <2>1, <2>2, <2>3 DEF IInv
<1>2. ASSUME PopLoadTail(c) PROVE IInv'
  <2>0. PICK d \in 0 .. WrapSub(tail, ctail[c]) :
          /\ ctail' = [ctail EXCEPT ![c] = WrapAdd(ctail[c], d)]
          /\ cpc' = [cpc EXCEPT ![c] =
                       IF Empty(chead[c], WrapAdd(ctail[c], d)) THEN "idle" ELSE "read"]
    <3>1. PICK t \in Views(ctail[c], tail) :
            /\ ctail' = [ctail EXCEPT ![c] = t]
            /\ cpc' = [cpc EXCEPT ![c] = IF Empty(chead[c], t) THEN "idle" ELSE "read"]
      BY <1>2 DEF PopLoadTail
    <3>2. QED
      BY <3>1 DEF Views
  <2>1. /\ d \in Index /\ WrapAdd(ctail[c], d) \in Index
        /\ WrapSub(WrapAdd(ctail[c], d), head) = WrapSub(ctail[c], head) + d
        /\ WrapSub(tail, WrapAdd(ctail[c], d)) = WrapSub(tail, ctail[c]) - d
    BY <2>0, <1>a, <1>b, ViewAhead DEF Index
  <2>2. TypeOK'
    <3>1. cpc' \in [Consumers -> {"idle", "tail", "read", "store"}]
      BY <2>0 DEF IInv, TypeOK
    <3>2. ctail' \in [Consumers -> Index]
      BY <2>0, <2>1 DEF IInv, TypeOK
    <3>3. QED
      BY <1>2, <3>1, <3>2 DEF IInv, TypeOK, PopLoadTail, producerVars
  <2>3. Window'
    <3>1. ctail'[c] = WrapAdd(ctail[c], d)
      BY <2>0 DEF IInv, TypeOK
    <3>2. WrapSub(ctail'[c], head) + WrapSub(tail, ctail'[c]) = WrapSub(tail, head)
      BY <3>1, <2>1, <1>a, <1>b DEF Index
    <3>3. \A e \in Consumers : e = c
      BY DEF SingleProducerConsumer
    <3>4. QED
      BY <1>2, <3>2, <3>3 DEF IInv, Window, PopLoadTail, producerVars
  <2>4. ConsumerRegisters'
    BY <1>2, <2>0, <2>1, <1>a DEF IInv, TypeOK, ConsumerRegisters, PopLoadTail, Empty
  <2>5. (Contents /\ ProducerRegisters /\ IndicesCountItems /\ DeliveredInOrder)'
    BY <1>2 DEF IInv, Contents, ProducerRegisters, IndicesCountItems,
                DeliveredInOrder, PopLoadTail, producerVars
  <2>6. QED
    BY <2>2, <2>3, <2>4, <2>5 DEF IInv
<1>3. ASSUME PopRead(c) PROVE IInv'
  <2>1. /\ chead[c] = head /\ ctail[c] # head
    BY <1>3 DEF IInv, ConsumerRegisters, PopRead
  <2>2. WrapSub(tail, head) > 0
    <3>1. WrapSub(ctail[c], head) \in Nat /\ WrapSub(ctail[c], head) >= 1
      BY <2>1, <1>a, WrapSubPositive
    <3>2. WrapSub(tail, ctail[c]) \in Nat
      BY <1>b DEF Index
    <3>3. QED
      BY <3>1, <3>2, <1>a
  <2>3. WrapAdd(head, 0) = head
    BY <1>a DEF WrapAdd, Index
  <2>4. buffer[Slot(head)] = pushed[Len(popped) + 1]
    <3>1. buffer[Slot(WrapAdd(head, 0))] = pushed[Len(popped) + 1 + 0]
      BY <2>2 DEF IInv, Contents
    <3>2. QED
      BY <3>1, <2>3, <1>a
  <2>5. TypeOK'
    <3>1. buffer[Slot(chead[c])] \in Item \cup {Uninit}
      BY <2>1, <1>a, SlotType DEF IInv, TypeOK
    <3>2. QED
      BY <3>1, <1>3 DEF IInv, TypeOK, PopRead, producerVars
  <2>6. ConsumerRegisters'
    BY <1>3, <2>1, <2>4 DEF IInv, TypeOK, ConsumerRegisters, PopRead
  <2>7. (Window /\ Contents /\ ProducerRegisters /\ IndicesCountItems /\ DeliveredInOrder)'
    BY <1>3 DEF IInv, Window, Contents, ProducerRegisters, IndicesCountItems,
                DeliveredInOrder, PopRead, producerVars
  <2>8. QED
    BY <2>5, <2>6, <2>7 DEF IInv
<1>4. ASSUME PopStore(c) PROVE IInv'
  <2>1. /\ chead[c] = head /\ ctail[c] # head /\ citem[c] = pushed[Len(popped) + 1]
        /\ citem[c] \in Item \cup {Uninit}
    BY <1>4 DEF IInv, TypeOK, ConsumerRegisters, PopStore
  <2>2. WrapSub(ctail[c], head) > 0 /\ WrapSub(tail, head) > 0
    <3>1. WrapSub(ctail[c], head) # 0
      BY <2>1, <1>a, WrapType
    <3>2. QED
      BY <3>1, <1>a, <1>b DEF Index
  <2>3. /\ head' \in Index /\ head' = WrapAdd(head, 1)
        /\ WrapSub(tail, head') = WrapSub(tail, head) - 1
        /\ WrapSub(ctail[c], head') = WrapSub(ctail[c], head) - 1
    <3>1. head' = WrapAdd(head, 1)
      BY <1>4, <2>1 DEF PopStore
    <3>2. QED
      BY <3>1, <2>2, <1>a, StepAhead
  <2>4. /\ popped' = Append(popped, citem[c]) /\ popped' \in Seq(Item \cup {Uninit})
        /\ Len(popped') = Len(popped) + 1
        /\ popped'[Len(popped) + 1] = citem[c]
        /\ \A i \in 1 .. Len(popped) : popped'[i] = popped[i]
    BY <1>4, <2>1, <1>a DEF PopStore
  <2>5. TypeOK'
    BY <1>4, <2>3, <2>4 DEF IInv, TypeOK, PopStore, producerVars
  <2>6. ConsumerRegisters'
    BY <1>4 DEF IInv, TypeOK, ConsumerRegisters, PopStore, SingleProducerConsumer
  <2>7. ProducerRegisters'
    BY <1>4 DEF IInv, ProducerRegisters, PopStore, producerVars
  <2>8. Window'
    <3>1. ASSUME NEW p \in Producers
          PROVE  /\ WrapSub(head', phead[p]) + WrapSub(tail, head') = WrapSub(tail, phead[p])
                 /\ WrapSub(tail, phead[p]) <= Capacity
      <4>1. /\ phead[p] \in Index
            /\ WrapSub(head, phead[p]) + WrapSub(tail, head) = WrapSub(tail, phead[p])
            /\ WrapSub(tail, phead[p]) <= Capacity
        BY DEF IInv, TypeOK, Window
      <4>2. QED
        <5>1. WrapSub(head, phead[p]) \in Nat /\ WrapSub(tail, phead[p]) \in Nat
              /\ WrapSub(tail, head) \in Nat
          BY <4>1, <1>a, WrapNat
        <5>2. WrapSub(head, phead[p]) < Capacity
          BY <4>1, <5>1, <2>2, ModulusLarge
        <5>3. WrapSub(head', phead[p]) = WrapSub(head, phead[p]) + 1
          BY <4>1, <5>2, <2>3, <1>a, StepAhead
        <5>4. QED
          BY <4>1, <5>1, <5>3, <2>3
    <3>2. ASSUME NEW d \in Consumers
          PROVE  WrapSub(ctail[d], head') + WrapSub(tail, ctail[d]) = WrapSub(tail, head')
      <4>1. d = c
        BY DEF SingleProducerConsumer
      <4>2. QED
        BY <4>1, <2>3, <1>a, <1>b DEF Index
    <3>3. QED
      BY <1>4, <3>1, <3>2 DEF Window, PopStore, producerVars
  <2>9. Contents'
    <3> SUFFICES ASSUME NEW i \in Nat, i < WrapSub(tail, head')
                 PROVE  buffer[Slot(WrapAdd(head', i))] = pushed[Len(popped') + 1 + i]
      BY <1>4 DEF Contents, PopStore
    <3>1. WrapAdd(head', i) = WrapAdd(head, i + 1)
      BY <2>3, <1>a, <1>b DEF Index, WrapAdd
    <3>2. Len(popped') + 1 + i = Len(popped) + 1 + (i + 1)
      BY <2>4, <1>a
    <3>3. i + 1 \in Nat /\ i + 1 < WrapSub(tail, head)
      BY <2>3, <1>b DEF Index
    <3>4. QED
      BY <3>1, <3>2, <3>3 DEF IInv, Contents
  <2>10. (IndicesCountItems /\ DeliveredInOrder)'
    <3>1. IndicesCountItems'
      BY <1>4, <2>3, <2>4, <1>a, <1>b DEF IndicesCountItems, PopStore, Index
    <3>2. DeliveredInOrder'
      BY <1>4, <2>1, <2>2, <2>4, <1>a, <1>b DEF IInv, DeliveredInOrder, PopStore, Index
    <3>3. QED
      BY <3>1, <3>2
  <2>11. QED
    BY <2>5, <2>6, <2>7, <2>8, <2>9, <2>10 DEF IInv
<1>5. QED
  BY <1>1, <1>2, <1>3, <1>4 DEF Consume

LEMMA StutterKeepsIInv == IInv /\ UNCHANGED vars => IInv'
BY DEF IInv, TypeOK, Window, ProducerRegisters, ConsumerRegisters, Contents,
       IndicesCountItems, DeliveredInOrder, vars, producerVars, consumerVars

LEMMA NextKeepsIInv ==
  ASSUME SingleProducerConsumer PROVE IInv /\ [Next]_vars => IInv'
BY ProduceKeepsIInv, ConsumeKeepsIInv, StutterKeepsIInv DEF Next

-----------------------------------------------------------------------------
(* The theorems.                                                           *)

(* The inductive invariant: what the two index words, the slots and the    *)
(* registers of both threads say about each other at every atomic access.  *)
THEOREM RingInvariant ==
  ASSUME SingleProducerConsumer PROVE Spec => []IInv
<1>1. Init => IInv
  BY InitIInv
<1>2. IInv /\ [Next]_vars => IInv'
  BY NextKeepsIInv
<1>3. QED
  BY <1>1, <1>2, PTL DEF Spec

(* Type correctness: with one producer and one consumer the index words    *)
(* stay words and no thread is ever outside its call's steps.              *)
THEOREM RingTypeCorrect ==
  ASSUME SingleProducerConsumer PROVE Spec => []TypeOK
<1>1. IInv => TypeOK
  BY DEF IInv
<1>2. QED
  BY <1>1, RingInvariant, PTL

(* Nothing is lost, duplicated, reordered or invented between try_push and *)
(* try_pop.                                                                *)
THEOREM RingDeliversInOrder ==
  ASSUME SingleProducerConsumer PROVE Spec => []DeliveredInOrder
<1>1. IInv => DeliveredInOrder
  BY DEF IInv
<1>2. QED
  BY <1>1, RingInvariant, PTL

(* `tail - head`, computed with wrap-around, is the number of waiting      *)
(* items and is at most the capacity: what len, the full test and the      *)
(* empty test rely on.                                                     *)
THEOREM RingIndicesCount ==
  ASSUME SingleProducerConsumer PROVE Spec => []IndicesCountItems
<1>1. IInv => IndicesCountItems
  BY DEF IInv
<1>2. QED
  BY <1>1, RingInvariant, PTL

(* The plain writes and reads of a slot never meet, so the unsafe blocks   *)
(* of try_push and try_pop have the exclusive access they claim.           *)
THEOREM RingSlotExclusive ==
  ASSUME SingleProducerConsumer PROVE Spec => []SlotExclusive
<1>1. ASSUME IInv, NEW p \in Producers, ppc[p] = "write",
             NEW c \in Consumers, cpc[c] = "read"
      PROVE  Slot(ptail[p]) # Slot(chead[c])
  <2>1. /\ tail \in Index /\ head \in Index /\ phead[p] \in Index /\ ctail[c] \in Index
        /\ ptail[p] = tail /\ chead[c] = head /\ ctail[c] # head
        /\ WrapSub(tail, phead[p]) < Capacity
        /\ WrapSub(head, phead[p]) + WrapSub(tail, head) = WrapSub(tail, phead[p])
        /\ WrapSub(ctail[c], head) + WrapSub(tail, ctail[c]) = WrapSub(tail, head)
    BY <1>1 DEF IInv, TypeOK, Window, ProducerRegisters, ConsumerRegisters
  <2>2. /\ WrapSub(tail, head) \in Nat /\ WrapSub(tail, phead[p]) \in Nat
        /\ WrapSub(head, phead[p]) \in Nat /\ WrapSub(tail, ctail[c]) \in Nat
        /\ WrapSub(ctail[c], head) \in Nat /\ WrapSub(ctail[c], head) # 0
    BY <2>1, WrapNat, WrapType
  <2>3. WrapSub(tail, head) > 0 /\ WrapSub(tail, head) < Capacity
    BY <2>1, <2>2, ModulusLarge
  <2>4. QED
    BY <2>1, <2>3, SlotsDiffer
<1>2. SingleProducerConsumer /\ IInv => SlotExclusive
  BY <1>1 DEF SlotExclusive, SingleProducerConsumer
<1>3. QED
  BY <1>2, RingInvariant, PTL

(* The ring implements the FIFO contract: storing tail is Send, storing    *)
(* head is Receive, and every other access is invisible to it.             *)
THEOREM RingImplementsFifo ==
  ASSUME SingleProducerConsumer PROVE Spec => ImplementsFifo
<1>1. Init => Queue!Init
  BY DEF Init, Queue!Init
<1>2. ASSUME IInv, IInv', Next PROVE [Queue!Next]_(Queue!vars)
  <2>1. ASSUME NEW p \in Producers, PushStore(p) PROVE Queue!Next
    <3>1. /\ pitem[p] \in Item /\ ptail[p] = tail
          /\ tail \in Index /\ head \in Index /\ phead[p] \in Index
          /\ WrapSub(tail, phead[p]) < Capacity
          /\ WrapSub(head, phead[p]) + WrapSub(tail, head) = WrapSub(tail, phead[p])
          /\ WrapSub(tail, head) = Len(pushed) - Len(popped)
      BY <1>2, <2>1 DEF IInv, TypeOK, Window, ProducerRegisters, IndicesCountItems, PushStore
    <3>2. WrapSub(tail, head) \in Nat /\ WrapSub(head, phead[p]) \in Nat
      BY <3>1, WrapNat
    <3>3. Len(pushed) - Len(popped) < Capacity
      BY <3>1, <3>2, ModulusLarge
    <3>4. Queue!Send(pitem[p])
      BY <2>1, <3>3 DEF Queue!Send, PushStore
    <3>5. QED
      BY <3>1, <3>4 DEF Queue!Next
  <2>2. ASSUME NEW c \in Consumers, PopStore(c) PROVE Queue!Next
    <3>1. /\ citem[c] = pushed[Len(popped) + 1]
          /\ popped' = Append(popped, citem[c]) /\ UNCHANGED pushed
          /\ Len(popped) \in Nat /\ Len(pushed) \in Nat
          /\ Len(popped') = Len(popped) + 1
          /\ Len(popped') <= Len(pushed')
      BY <1>2, <2>2 DEF IInv, TypeOK, ConsumerRegisters, DeliveredInOrder, PopStore
    <3>2. Queue!Receive
      BY <3>1 DEF Queue!Receive
    <3>3. QED
      BY <3>2 DEF Queue!Next
  <2>3. ASSUME NEW p \in Producers, Produce(p), ~PushStore(p) PROVE UNCHANGED <<pushed, popped>>
    BY <2>3 DEF Produce, PushCall, PushLoadTail, PushLoadHead, PushWrite
  <2>4. ASSUME NEW c \in Consumers, Consume(c), ~PopStore(c) PROVE UNCHANGED <<pushed, popped>>
    BY <2>4 DEF Consume, PopLoadHead, PopLoadTail, PopRead
  <2>5. QED
    BY <1>2, <2>1, <2>2, <2>3, <2>4 DEF Next, Queue!vars
<1>3. UNCHANGED vars => UNCHANGED Queue!vars
  BY DEF vars, Queue!vars
<1>4. IInv /\ IInv' /\ [Next]_vars => [Queue!Next]_(Queue!vars)
  BY <1>2, <1>3
<1>5. QED
  BY <1>1, <1>4, RingInvariant, PTL DEF Spec, ImplementsFifo, Queue!Spec
=============================================================================
