\* Queues of two and one slots, four results, one failed frame.
SPECIFICATION Spec
CONSTANTS
  InfoCap = 2
  UartCap = 1
  Lifespan = 15
  MaxResults = 4
  MaxErrs = 1
  NoGrp = NoGrp
CHECK_DEADLOCK FALSE
INVARIANTS TypeOK GroupOwned OneOutputPerResult
PROPERTIES LeaksExplained OverlayLifetime OverlayAdvances
