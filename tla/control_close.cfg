\* close() after a reconnect that failed.
CONSTANTS
  Protocols = {"COLA_2"}
  Posix = FALSE
  ReqIdModulus = 4
  MaxOpens = 2
  MaxCalls = 2
SPECIFICATION Spec
INVARIANTS CloseIsSafe
