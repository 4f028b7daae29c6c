SPECIFICATION FairSpec
CONSTANTS
  Producers = {p1}
  Consumers = {c1}
  Item = {a, b}
  Uninit = Uninit
  Capacity <- MCCapacity
  Modulus = 4
  MaxPushes = 6
INVARIANTS TypeOK DeliveredInOrder SlotExclusive IndicesCountItems
PROPERTIES ImplementsFifo PushReturns EveryItemDelivered
CHECK_DEADLOCK TRUE
