-------------------------------- MODULE Fifo --------------------------------
(***************************************************************************)
(* What a descriptor queue promises its users (the QueueBackend contract   *)
(* of vil_queue/src/traits.rs: "Ordering: FIFO (first-in, first-out)"):    *)
(* every accepted item is handed out exactly once, in the order in which   *)
(* items were accepted, and at most Capacity items are waiting.            *)
(***************************************************************************)
EXTENDS Naturals, Sequences

CONSTANTS Item,      \* the values that may be queued
          Capacity   \* the number of items that may wait

VARIABLES sent,      \* the items accepted so far, in order
          received   \* the items handed out so far, in order

vars == <<sent, received>>

Init == sent = <<>> /\ received = <<>>

Send(x) ==
  /\ Len(sent) - Len(received) < Capacity
  /\ sent' = Append(sent, x)
  /\ UNCHANGED received

Receive ==
  /\ Len(received) < Len(sent)
  /\ received' = Append(received, sent[Len(received) + 1])
  /\ UNCHANGED sent

Next == (\E x \in Item : Send(x)) \/ Receive

Spec == Init /\ [][Next]_vars
=============================================================================
