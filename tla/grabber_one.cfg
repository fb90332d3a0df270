\* One consumer thread, with liveness and the abstract specification.
CONSTANTS
  Consumers = {c1}
  Windows = TRUE
  MaxFrames = 3
SPECIFICATION Spec
PROPERTIES CurrentIsNew NoFrameMissed WakesForFrame StopEnds Reconnects ImplementsLatest
