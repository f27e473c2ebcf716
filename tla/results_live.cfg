\* Two results: queued groups are taken, overlays end.
SPECIFICATION FairSpec
CONSTANTS
  InfoCap = 2
  UartCap = 1
  Lifespan = 15
  MaxResults = 2
  MaxErrs = 1
  NoGrp = NoGrp
CHECK_DEADLOCK FALSE
PROPERTIES InfoConsumed OverlayEnds
