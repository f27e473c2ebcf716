\* Violated: a frame in the NPU queue may have been freed already.
SPECIFICATION Spec
CONSTANTS
  Bufs = {b1, b2}
  Pkts = {k1, k2, k3}
  DispCap = 2
  RknnCap = 1
  EnvErrors <- NoErrors
  MaxErrs = 0
  NoPkt = NoPkt
  NoBuf = NoBuf
CHECK_DEADLOCK FALSE
INVARIANT NpuGetsFrames
