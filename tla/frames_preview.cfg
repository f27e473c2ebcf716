\* Violated: as many failed conversions as buffers end the preview.
SPECIFICATION FairSpec
CONSTANTS
  Bufs = {b1, b2}
  Pkts = {k1, k2, k3}
  DispCap = 2
  RknnCap = 1
  EnvErrors <- RgaErrors
  MaxErrs = 2
  NoPkt = NoPkt
  NoBuf = NoBuf
CONSTRAINT UntilStale
CHECK_DEADLOCK FALSE
PROPERTY PreviewContinues
