\* Three buffers, queues of two and one, one failure of any kind.
SPECIFICATION Spec
CONSTANTS
  Bufs = {b1, b2, b3}
  Pkts = {k1, k2, k3, k4, k5}
  DispCap = 2
  RknnCap = 1
  EnvErrors <- AllErrors
  MaxErrs = 1
  NoPkt = NoPkt
  NoBuf = NoBuf
SYMMETRY Interchangeable
VIEW Observable
CONSTRAINT UntilStale
CHECK_DEADLOCK FALSE
INVARIANTS TypeOK RefsCounted BuffersOwned FrameStable LeaksAreFailures
PROPERTY FaultOrigin
