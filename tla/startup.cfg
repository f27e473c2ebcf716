\* One camera buffer asked for and up to two granted, which failed exports can
\* confuse, two scanout buffers as in the code and one failure in each life of
\* the process.
SPECIFICATION Spec
CONSTANTS
  NIn = 1
  NOut = 3
  Scanouts = 2
  NoBuf = NoBuf
  CamBufs = 1
  CamMost = 2
  Unset = Unset
  MaxFailures = 1
CONSTRAINTS FewFailures UntilUndefined
CHECK_DEADLOCK FALSE
INVARIANTS TypeOK ObjectsAccounted ScreenWhole RunnerReleased OwnBufferReturned CameraReady LifetimesNested
