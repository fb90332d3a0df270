\* The POSIX build of isConnected and a connection that is reset.
CONSTANTS
  Consumers = {c1}
  Windows = FALSE
  MaxFrames = 1
SPECIFICATION Spec
PROPERTIES Reconnects
