\* CoLa 2 and CoLa B, a device of either protocol version.
CONSTANTS
  Protocols = {"COLA_B", "COLA_2"}
  DeviceProtocols = {"SUL1", "SUL2"}
  Posix = FALSE
  ReqIdModulus = 5
  MaxOpens = 2
  MaxCalls = 4
  MaxPlain = 1
SPECIFICATION AuthSpec
INVARIANTS LearnsItsProtocol SafeWithoutReconnect
PROPERTIES LoginMeansLevel LoginReturns
