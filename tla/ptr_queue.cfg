\* Two producers and two consumers on a ring of two slots.
SPECIFICATION Spec
CONSTANTS
  Producers = {p1, p2}
  Consumers = {c1, c2}
  MaxSize = 2
  Items = {d1, d2}
  Null = Null
  Free = Free
SYMMETRY Interchangeable
INVARIANTS TypeOK RingConsistent MutexHeld DecisionStable NoLostWakeup
PROPERTY ImplementsFifo
