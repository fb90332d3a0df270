\* CoLa B and a byte that is no STX in front of a message.
CONSTANTS
  Readers = {"COLA_B"}
  Payloads <- MCPlainPayloads
  MaxMessages = 1
  MaxJunk = 2
  MaxFailures = 0
SPECIFICATION Spec
PROPERTIES LooksForNewRun
CHECK_DEADLOCK FALSE
