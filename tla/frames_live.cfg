\* Two buffers, as many as the screen's queue holds; nothing outside fails.
SPECIFICATION FairSpec
CONSTANTS
  Bufs = {b1, b2}
  Pkts = {k1, k2, k3}
  DispCap = 2
  RknnCap = 1
  EnvErrors <- NoErrors
  MaxErrs = 0
  NoPkt = NoPkt
  NoBuf = NoBuf
CONSTRAINT UntilStale
CHECK_DEADLOCK FALSE
PROPERTIES PreviewContinues ShutdownCompletes
