\* The three loops, any fragmentation, noise of two cells, one failure.
CONSTANTS
  Readers = {"COLA_B", "COLA_2", "STREAM"}
  Payloads <- MCPayloads
  MaxMessages = 3
  MaxJunk = 2
  MaxFailures = 1
SPECIFICATION Spec
INVARIANTS SyncIsExact OnlySent AlignedUnlessFailed LossIsBounded
PROPERTIES CallReturns
CHECK_DEADLOCK FALSE
