\* The result queue's shape: one producer, two consumers, one slot.
SPECIFICATION FairSpec
CONSTANTS
  Producers = {p1}
  Consumers = {c1, c2}
  MaxSize = 1
  Items = {d1}
  Null = Null
  Free = Free
PROPERTY CallsReturn
