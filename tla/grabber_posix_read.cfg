\* The receive timeout of the POSIX build.
CONSTANTS
  Consumers = {c1}
  Windows = FALSE
  MaxFrames = 1
SPECIFICATION Spec
PROPERTIES ReadEnds
