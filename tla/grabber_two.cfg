\* Two consumer threads share one grabber (POSIX build).
CONSTANTS
  Consumers = {c1, c2}
  Windows = FALSE
  MaxFrames = 3
SPECIFICATION Safe
SYMMETRY ConsumerSymmetry
INVARIANTS TypeOK HandlersDistinct AvailableIsNewest NoReadWithoutTransport
PROPERTIES FrameUntouched NextIsNew NextIsAfterCall
