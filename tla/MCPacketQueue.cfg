\* Two producers, the blocking reader, an asynchronous reader, three packets.
SPECIFICATION ListFairSpec
CONSTANTS
  Producers = {p1, p2}
  Getters = {g1}
  Pollers = {w1}
  Main = main
  Packets = {k1, k2, k3}
  NULL = NULL
  list_head = list_head
  LIST_POISON = LIST_POISON
INVARIANTS
  FifoOrder
  NoLostWakeup
  Custody
  ListIsQueue
PROPERTIES
  ImplementsFifo
  GetterServed
CHECK_DEADLOCK FALSE
