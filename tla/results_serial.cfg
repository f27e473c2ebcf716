\* Violated: the disp thread takes results before the serial port sees them.
SPECIFICATION FairSpec
CONSTANTS
  InfoCap = 2
  UartCap = 1
  Lifespan = 15
  MaxResults = 2
  MaxErrs = 0
  NoGrp = NoGrp
CHECK_DEADLOCK FALSE
PROPERTY EveryResultSent
