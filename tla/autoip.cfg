\* Two octets of two bits; every prefix length; two ports, so that a port comes
\* again.
CONSTANTS
  Octets = 2
  OctetBits = 2
  Ports = {1, 2}
  TimeOut = 1
  RecvTimeout = 1
  HandlingTime = 1
  ServerIPs = {6}
  MaxCalls = 2
  MaxDatagrams = 3
SPECIFICATION Spec
INVARIANTS TypeOK BroadcastIsOfNetwork XmlEntriesAreOwn ConfirmedMeansConfigured
PROPERTIES NoReplyMissed TakesItsTime CallsReturn
CHECK_DEADLOCK FALSE
