\* One buffer, which the threads share in turn, and two results; nothing
\* outside fails.  Every result holds an object.
SPECIFICATION FairSpec
CONSTANTS
  Bufs = {b1}
  Pkts = {k1, k2}
  DispCap = 1
  RknnCap = 1
  EnvErrors <- NoErrors
  MaxErrs = 0
  NoPkt = NoPkt
  NoBuf = NoBuf
  InfoCap = 1
  UartCap = 1
  Lifespan = 3
  MaxResults = 2
  NoGrp = NoGrp
ACTION_CONSTRAINTS InOrder WithObjects UntilBroken
CHECK_DEADLOCK FALSE
PROPERTIES ImplementsResults ProgramEnds
