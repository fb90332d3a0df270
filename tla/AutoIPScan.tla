----------------------------- MODULE AutoIPScan -----------------------------
(***************************************************************************)
(* VisionaryAutoIPScan: doScan asks by broadcast which devices there are,  *)
(* assign tells one device its address, both over a UdpSocket made for the *)
(* call.  The network may lose, duplicate, delay and reorder datagrams; a  *)
(* datagram reaches whatever socket has its port when it arrives, which may*)
(* be that of a later call.                                                *)
(*                                                                         *)
(* Time is counted in ticks.  It passes while recv waits for a datagram,   *)
(* and while one is handled, when others may be in the socket already.     *)
(* A telegram id is a 32-bit random number; two calls are taken to have    *)
(* different ones.                                                         *)
(* Addresses have Octets octets of OctetBits bits (4 and 8 in the code).   *)
(***************************************************************************)
EXTENDS Integers, Sequences, FiniteSets

CONSTANTS
  Octets, OctetBits,
  Ports,          \* the ephemeral ports the system hands out
  TimeOut,        \* the caller's timeout
  RecvTimeout,    \* SO_RCVTIMEO (5 s in the code)
  HandlingTime,   \* bound: the ticks it takes to handle one datagram
  ServerIPs,      \* the addresses of the client, as numbers
  MaxCalls,       \* bound: calls of doScan and assign
  MaxDatagrams    \* bound: datagrams that arrive

ASSUME AutoIPAssumption ==
  /\ Octets \in Nat \ {0} /\ OctetBits \in Nat \ {0} /\ Ports # {}
  /\ TimeOut \in Nat /\ RecvTimeout \in Nat \ {0} /\ HandlingTime \in Nat
  /\ MaxCalls \in Nat /\ MaxDatagrams \in Nat
  /\ ServerIPs \subseteq Nat

VARIABLES
  m_serverIP, m_serverNetMask,  \* of the VisionaryAutoIPScan object
  prefixLength,                 \* ... and what the mask was made from
  pc, op,                       \* where the caller is, and in which call
  call,                         \* calls begun; the telegram id of the newest
  port, broadcast,              \* of the call's socket, and where it sends
  elapsed, waited,              \* ticks since startTime; in recv, or since it returned
  socket,                       \* datagrams in the socket
  deviceList, confirmed,        \* the results of doScan and assign
  requests, replies,            \* datagrams that may arrive, once or again
  configured,                   \* calls of assign a device has executed
  arrived, delivered, assigns   \* history: replies in time; datagrams; <<call, port>>

object  == <<m_serverIP, m_serverNetMask, prefixLength>>
results == <<deviceList, confirmed>>
network == <<requests, replies, configured>>
history == <<arrived, delivered, assigns>>
vars    == <<object, pc, op, call, port, broadcast, elapsed, waited, socket, results, network,
             history>>

-----------------------------------------------------------------------------
(* Addresses *)

\* 2^k: a shift by k bits multiplies or divides by it.
TwoTo[k \in Nat] == IF k = 0 THEN 1 ELSE 2 * TwoTo[k - 1]

Width == Octets * OctetBits
Octet == TwoTo[OctetBits]

\* The lowest Width bits of all ones shifted left; each octet is shifted to the
\* top, masked and shifted down.
HostPrefix(prefix) == ((TwoTo[Width] - 1) * TwoTo[Width - prefix]) % TwoTo[Width]
networkPrefixToMask(prefix) ==
  [i \in 1 .. Octets |->
     ((HostPrefix(prefix) * TwoTo[(i - 1) * OctetBits]) % TwoTo[Width]) \div TwoTo[Width - OctetBits]]

\* Of the dotted form of an address.
convertIpToBinary(n) ==
  [i \in 1 .. Octets |-> (n \div TwoTo[(Octets - i) * OctetBits]) % Octet]

\* The octet of the bits set in a or in b.
Bit(a, k) == (a \div TwoTo[k]) % 2
Or(a, b) ==
  CHOOSE c \in 0 .. Octet - 1 :
    \A k \in 0 .. OctetBits - 1 : Bit(c, k) = 1 <=> Bit(a, k) = 1 \/ Bit(b, k) = 1

\* Mutant: the mask is not inverted.
BroadcastAddressMask(ip, mask) == [i \in 1 .. Octets |-> Or(mask[i], ip[i])]

BroadcastAddress(ip, mask) == [i \in 1 .. Octets |-> Or(Octet - 1 - mask[i], ip[i])]

-----------------------------------------------------------------------------
(* Calls *)

Datagram(kind, p, c) == [kind |-> kind, port |-> p, call |-> c]

Init ==
  /\ m_serverIP \in {convertIpToBinary(n) : n \in ServerIPs} /\ prefixLength \in 0 .. Width
  /\ m_serverNetMask = networkPrefixToMask(prefixLength)
  /\ pc = "idle" /\ op = "none" /\ call = 0
  /\ port = (CHOOSE p \in Ports : TRUE) /\ broadcast = m_serverIP
  /\ elapsed = 0 /\ waited = 0 /\ socket = <<>>
  /\ deviceList = <<>> /\ confirmed = FALSE
  /\ requests = {} /\ replies = {} /\ configured = {}
  /\ arrived = {} /\ delivered = 0 /\ assigns = {}

\* A new UdpSocket is connected, or cannot be: the call then returns nothing.
Call(name) ==
  /\ pc = "idle" /\ call < MaxCalls
  /\ call' = call + 1
  /\ op' = name
  /\ deviceList' = <<>> /\ confirmed' = FALSE /\ arrived' = {}
  /\ broadcast' = BroadcastAddress(m_serverIP, m_serverNetMask)
  /\ \/ pc' = "send" /\ port' \in Ports
     \/ pc' = "idle" /\ UNCHANGED port
  /\ elapsed' = 0 /\ waited' = 0 /\ socket' = <<>>
  /\ assigns' = IF name = "assign" /\ pc' = "send" THEN assigns \cup {<<call', port'>>} ELSE assigns
  /\ UNCHANGED <<object, network, delivered>>

doScan == Call("scan")
assign == Call("assign")

\* assign for a protocol it does not know returns before anything is done.
assignRefused ==
  /\ pc = "idle" /\ call < MaxCalls
  /\ call' = call + 1 /\ op' = "refused"
  /\ deviceList' = <<>> /\ confirmed' = FALSE /\ arrived' = {}
  /\ UNCHANGED <<object, pc, port, broadcast, elapsed, waited, socket, network, delivered, assigns>>

\* What send returns is not looked at: the request may not have been sent.
SendRequest ==
  /\ pc = "send"
  /\ pc' = "check"
  /\ requests' \in {requests, requests \cup {Datagram(op, port, call)}}
  /\ UNCHANGED <<object, op, call, port, broadcast, elapsed, waited, socket, results, replies,
                 configured, history>>

-----------------------------------------------------------------------------
(* The loop that waits for answers *)

\* Mutant: the time is never looked at.
CheckNever ==
  /\ pc \in {"check", "handle"}
  /\ pc' = "recv" /\ waited' = 0
  /\ UNCHANGED <<object, op, call, port, broadcast, elapsed, socket, results, network, history>>

\* The call returns; its socket goes, with what nobody has read.
Return == pc' = "idle" /\ socket' = <<>> /\ elapsed' = 0 /\ waited' = 0

\* The time is looked at before each recv only: at first, after a recv that
\* timed out, and after a datagram was handled.
Check ==
  /\ pc \in {"check", "handle"}
  /\ IF elapsed > TimeOut THEN Return
     ELSE pc' = "recv" /\ waited' = 0 /\ UNCHANGED <<socket, elapsed>>
  /\ UNCHANGED <<object, op, call, port, broadcast, results, network, history>>

\* Mutant: the telegram id of an XML reply is not compared.
ListsAnyXml(d) == d.kind \in {"binary", "badBinary", "xml"}

\* doScan lists a binary reply unseen, an XML reply that has its telegram id
\* and can be parsed.
Lists(d) == d.kind \in {"binary", "badBinary"} \/ (d.kind = "xml" /\ d.call = call)

\* Mutant: any answer confirms.
ConfirmsAny(d) == TRUE

\* assign takes any answer to any IP configuration.
Confirms(d) == d.kind = "confirmation"

\* Mutant: the scan ends at a reply that is not its own.
ReceiveStops ==
  /\ pc = "recv" /\ socket # <<>>
  /\ LET listed == op = "scan" /\ Lists(Head(socket))
     IN  /\ IF ~listed THEN Return
            ELSE pc' = "handle" /\ socket' = Tail(socket) /\ waited' = 0 /\ UNCHANGED elapsed
         /\ deviceList' = IF listed THEN Append(deviceList, Head(socket)) ELSE deviceList
  /\ UNCHANGED <<object, op, call, port, broadcast, confirmed, network, history>>

\* recv returns a datagram, and the caller handles it.
Receive ==
  /\ pc = "recv" /\ socket # <<>>
  /\ LET d == Head(socket)
     IN  /\ confirmed' = (op = "assign" /\ Confirms(d))
         /\ IF confirmed' THEN Return
            ELSE pc' = "handle" /\ socket' = Tail(socket) /\ waited' = 0 /\ UNCHANGED elapsed
         /\ deviceList' = IF op = "scan" /\ Lists(d) THEN Append(deviceList, d) ELSE deviceList
  /\ UNCHANGED <<object, op, call, port, broadcast, network, history>>

\* The lengths in a binary reply are taken as they are: one that lies makes the
\* parser read outside the buffer.  What it finds is listed (Receive), or the
\* program ends here.
ParseAutoIPBinary ==
  /\ pc = "recv" /\ socket # <<>>
  /\ op = "scan" /\ Head(socket).kind = "badBinary"
  /\ pc' = "crashed"
  /\ UNCHANGED <<object, op, call, port, broadcast, elapsed, waited, socket, results, network,
                 history>>

\* Mutant: the first recv that times out ends the call.
RecvTimesOutEnds ==
  /\ pc = "recv" /\ socket = <<>> /\ waited = RecvTimeout
  /\ Return
  /\ UNCHANGED <<object, op, call, port, broadcast, results, network, history>>

\* Mutant: recv has no timeout.
RecvTimesOutNever == FALSE /\ UNCHANGED vars

RecvTimesOut ==
  /\ pc = "recv" /\ socket = <<>> /\ waited = RecvTimeout
  /\ pc' = "check"
  /\ UNCHANGED <<object, op, call, port, broadcast, elapsed, waited, socket, results, network,
                 history>>

\* recv returns at once when there is a datagram; to handle one takes time.
Tick ==
  /\ \/ pc = "recv" /\ socket = <<>> /\ waited < RecvTimeout
     \/ pc = "handle" /\ waited < HandlingTime
  /\ waited' = waited + 1 /\ elapsed' = elapsed + 1
  /\ UNCHANGED <<object, pc, op, call, port, broadcast, socket, results, network, history>>

Caller == SendRequest \/ Check \/ Receive \/ ParseAutoIPBinary \/ RecvTimesOut

-----------------------------------------------------------------------------
(* The devices and the network *)

\* A device answers a scan, in the binary or the XML form; or it takes the
\* address and confirms it.  A request may come again.
DeviceReplies ==
  /\ pc # "crashed"
  /\ \E r \in requests :
       /\ IF r.kind = "scan"
          THEN /\ \E k \in {"binary", "xml"} :
                    replies' = replies \cup {Datagram(k, r.port, r.call)}
               /\ UNCHANGED configured
          ELSE /\ replies' = replies \cup {Datagram("confirmation", r.port, r.call)}
               /\ configured' = configured \cup {r.call}
       /\ UNCHANGED <<object, pc, op, call, port, broadcast, elapsed, waited, socket, results,
                      requests, history>>

\* The reply is one the call is waiting for, and it is in time.
InTime(d) == op = "scan" /\ d.call = call /\ d.kind \in {"binary", "xml"} /\ elapsed <= TimeOut

\* What a reply of a kind may have become: XML that is cut or cannot be parsed,
\* which the caller passes over, or a binary reply with wrong lengths.
Kinds(kind) ==
  {kind} \cup (IF kind = "xml" THEN {"badXml"} ELSE IF kind = "binary" THEN {"badBinary"} ELSE {})

Arrive ==
  /\ pc \notin {"idle", "crashed"} /\ delivered < MaxDatagrams
  /\ \E r \in replies : \E k \in Kinds(r.kind) :
       LET d == Datagram(k, r.port, r.call)
       IN  /\ r.port = port
           /\ socket' = Append(socket, d)
           /\ arrived' = IF InTime(d) THEN arrived \cup {d} ELSE arrived
  /\ delivered' = delivered + 1
  /\ UNCHANGED <<object, pc, op, call, port, broadcast, elapsed, waited, results, network, assigns>>

Next ==
  \/ doScan \/ assign \/ assignRefused
  \/ SendRequest \/ Check \/ Receive \/ ParseAutoIPBinary \/ RecvTimesOut \/ Tick
  \/ DeviceReplies \/ Arrive

\* The caller's thread runs, and time passes.
Spec == Init /\ [][Next]_vars /\ WF_vars(Caller) /\ WF_vars(Tick)

-----------------------------------------------------------------------------
(* Properties *)

Datagrams == [kind : {"scan", "assign", "binary", "xml", "badBinary", "badXml", "confirmation"},
              port : Ports, call : 1 .. MaxCalls]
Addresses == [1 .. Octets -> 0 .. Octet - 1]

TypeOK ==
  /\ m_serverIP \in Addresses /\ m_serverNetMask \in Addresses /\ prefixLength \in 0 .. Width
  /\ pc \in {"idle", "send", "check", "recv", "handle", "crashed"} /\ op \in {"none", "scan", "assign", "refused"}
  /\ call \in 0 .. MaxCalls /\ port \in Ports /\ broadcast \in Addresses
  /\ elapsed \in 0 .. TimeOut + RecvTimeout + HandlingTime
  /\ waited \in 0 .. IF pc = "handle" THEN HandlingTime ELSE RecvTimeout
  /\ socket \in Seq(Datagrams) /\ deviceList \in Seq(Datagrams) /\ confirmed \in BOOLEAN
  /\ requests \subseteq Datagrams /\ replies \subseteq Datagrams /\ configured \subseteq 1 .. MaxCalls
  /\ arrived \subseteq Datagrams /\ delivered \in 0 .. MaxDatagrams
  /\ assigns \subseteq (1 .. MaxCalls) \X Ports

Number(address) ==
  LET Value[i \in 0 .. Octets] == IF i = 0 THEN 0 ELSE Value[i - 1] * Octet + address[i]
  IN  Value[Octets]

\* A request goes to the last address of the client's own network, for every
\* length of its prefix, also one that ends within an octet
\* (VisionaryAutoIPScan.cpp:74-78, 484).
BroadcastIsOfNetwork ==
  pc # "idle" =>
    LET hosts == TwoTo[Width - prefixLength]
    IN  Number(broadcast) = (Number(m_serverIP) \div hosts) * hosts + hosts - 1

\* An XML reply is listed by the scan it answers and by no later one that got
\* its port (VisionaryAutoIPScan.cpp:150).
XmlEntriesAreOwn ==
  \A i \in DOMAIN deviceList : deviceList[i].kind = "xml" => deviceList[i].call = call

Listed(d) == \E i \in DOMAIN deviceList : deviceList[i] = d
Queued(d) == \E i \in DOMAIN socket : socket[i] = d

\* A reply that came within the timeout is in the list when the scan returns,
\* whatever else came: replies of other scans, damaged ones, the same one again.
\* There is one exception: the time passed while an earlier datagram was handled
\* and this one was still in the socket.  The clock is read again before the
\* next recv, and what the socket holds is given up (VisionaryAutoIPScan.cpp:126).
NoReplyMissed ==
  [][(pc # "idle" /\ pc' = "idle" /\ op = "scan")
       => \A d \in arrived : Listed(d)' \/ (pc = "handle" /\ elapsed > TimeOut /\ Queued(d))]_vars

\* assign returns true only when a device has taken an address: that of this
\* call, unless an earlier assign used the same port; its answer may come now.
ConfirmedMeansConfigured ==
  confirmed => \/ call \in configured
               \/ \E c \in configured : c < call /\ <<c, port>> \in assigns

\* A call that is not confirmed takes longer than the timeout, and at most one
\* receive timeout and the handling of one datagram more.
TakesItsTime ==
  [][(pc \in {"check", "recv", "handle"} /\ pc' = "idle" /\ ~confirmed')
       => elapsed > TimeOut /\ elapsed <= TimeOut + RecvTimeout + HandlingTime]_vars

\* Every call returns, or ends where a binary reply with wrong lengths is
\* parsed, as long as datagrams do not come without end.
CallsReturn == pc # "idle" ~> pc \in {"idle", "crashed"}

=============================================================================
