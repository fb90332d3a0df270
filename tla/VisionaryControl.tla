-------------------------- MODULE VisionaryControl --------------------------
(***************************************************************************)
(* The control channel: VisionaryControl with the ControlSession, protocol *)
(* handler (CoLa B or CoLa 2) and TcpSocket it owns, one client thread that*)
(* calls open, close and sendCommand, and the device at the other end.     *)
(*                                                                         *)
(* Objects.  m_pTransport, m_pProtocolHandler, m_pControlSession and       *)
(* m_pAuthentication are pointers; each is modelled by the number of the   *)
(* open() that made the object, 0 for nullptr.  A ControlSession keeps a   *)
(* reference to the handler of the same open(): it dangles when            *)
(* m_pControlSession # m_pProtocolHandler, and a call through it is        *)
(* undefined behaviour: the client ends in the step "crashed".              *)
(*                                                                         *)
(* Messages.  A request is known by the number n of the sendCommand call   *)
(* it belongs to; the program does not see n, the properties do.  CoLa 2   *)
(* messages carry a session id and a request id, CoLa B messages do not.   *)
(* A receive timeout may strike whatever is under way: what the device     *)
(* sends later stays in the socket.  The part of a message that a failed   *)
(* receive has taken is lost, and the rest of it comes first in the stream *)
(* (`rest`): the next receive starts inside a message.                     *)
(***************************************************************************)
EXTENDS Integers, Sequences, FiniteSets

CONSTANTS
  Protocols,   \* the protocol types open() is called with
  Posix,       \* TRUE for the POSIX build of TcpSocket::connect
  ReqIdModulus,\* request ids wrap here (2^16 in the code)
  MaxOpens,    \* bound: connections that get established
  MaxCalls     \* bound: sendCommand calls

ASSUME ProtocolsAssumption == Protocols \subseteq {"COLA_B", "COLA_2"} /\ Posix \in BOOLEAN
ASSUME BoundsAssumption ==
  MaxOpens \in Nat /\ MaxCalls \in Nat /\ ReqIdModulus \in Nat \ {0} /\ MaxCalls < ReqIdModulus

VARIABLES
  m_protocolType, m_autoReconnect,
  m_pTransport, m_pProtocolHandler, m_pControlSession, m_pAuthentication,
  m_sessionID, m_reqID,      \* of the newest protocol handler
  pc,                        \* where the client thread is
  op,                        \* the public call it is in
  resent,                    \* sendCommand is past its reconnect
  response,                  \* what sendCommand has in `response`
  opens, calls,              \* connections made and sendCommand calls begun
  link,                      \* the TCP connection of the newest TcpSocket
  rcvTimeout,                \* that socket has a receive timeout (SO_RCVTIMEO)
  req, rsp,                  \* messages under way to the device and to the client
  rest,                      \* the client's stream begins inside a message
  late,                      \* history: a receive failed on this connection
  devSessions,               \* sessions the device knows
  executed                   \* history: how often the device executed call n

params  == <<m_protocolType, m_autoReconnect>>
objects == <<m_pTransport, m_pProtocolHandler, m_pControlSession, m_pAuthentication>>
ids     == <<m_sessionID, m_reqID>>
control == <<pc, op, resent>>
network == <<link, rcvTimeout, req, rsp, rest, late>>
device  == <<devSessions, executed>>
vars    == <<params, objects, ids, control, response, opens, calls, network, device>>

\* CoLaError values the client tells apart; "UNKNOWN" is what CoLaCommand
\* makes of an empty buffer.
Errors == {"OK", "UNKNOWN", "NETWORK_ERROR", "SESSION_UNKNOWN_ID"}
Response(err, n) == [err |-> err, n |-> n]
Unanswered   == Response("UNKNOWN", 0)
NetworkError == Response("NETWORK_ERROR", 0)

Message(kind, sid, rid, n) == [kind |-> kind, sid |-> sid, rid |-> rid, n |-> n]

\* "none": no socket; "pending": connect timed out and the socket is used all
\* the same; "up"; "down": closed by the device or broken.
Links == {"none", "pending", "up", "down"}
Steps == {"idle", "connect", "openSession", "awaitSession", "send", "await", "check",
          "closeSession", "awaitClose", "closeRest", "misled", "crashed"}

Init ==
  /\ m_protocolType = "INVALID_PROTOCOL" /\ m_autoReconnect = FALSE
  /\ m_pTransport = 0 /\ m_pProtocolHandler = 0
  /\ m_pControlSession = 0 /\ m_pAuthentication = 0
  /\ m_sessionID = 0 /\ m_reqID = 0
  /\ pc = "idle" /\ op = "none" /\ resent = FALSE
  /\ response = Unanswered
  /\ opens = 0 /\ calls = 0
  /\ link = "none" /\ rcvTimeout = TRUE /\ req = <<>> /\ rsp = <<>>
  /\ rest = FALSE /\ late = FALSE
  /\ devSessions = {} /\ executed = [n \in 1 .. MaxCalls |-> 0]

Goto(from, to) == pc = from /\ pc' = to

-----------------------------------------------------------------------------
(* VisionaryControl::open *)

\* The socket is closed.
Disconnect ==
  /\ link' = "none" /\ rcvTimeout' = TRUE
  /\ req' = <<>> /\ rsp' = <<>> /\ rest' = FALSE /\ late' = FALSE

\* Mutant: what the old socket still holds is read from the new one.
DropConnectionUnread ==
  /\ m_pProtocolHandler' = 0
  /\ m_pTransport' = 0
  /\ UNCHANGED <<m_pControlSession, m_pAuthentication>>
  /\ link' = "none" /\ rcvTimeout' = TRUE
  /\ req' = <<>> /\ rsp' = rsp /\ rest' = FALSE /\ late' = FALSE

\* The handler and the transport of an earlier open() go at once; the control
\* session and the authentication stay until open() has succeeded.
DropConnection ==
  /\ m_pProtocolHandler' = 0
  /\ m_pTransport' = 0
  /\ UNCHANGED <<m_pControlSession, m_pAuthentication>>
  /\ Disconnect

CallOpen ==
  /\ Goto("idle", "connect")
  /\ op' = "open"
  /\ m_protocolType' \in Protocols
  /\ m_autoReconnect' \in BOOLEAN
  /\ resent' = FALSE /\ response' = Unanswered
  /\ DropConnection
  /\ UNCHANGED <<ids, opens, calls, device>>

\* open() returned false: to the user, or to sendCommand, which then returns
\* the response it had before.
OpenFails ==
  /\ pc' = IF op = "close" THEN "closeSession" ELSE "idle"
  /\ Disconnect
  /\ m_pAuthentication' = IF op = "close" THEN 0 ELSE m_pAuthentication
  /\ UNCHANGED <<m_pTransport, m_pProtocolHandler, m_pControlSession>>

\* Mutant: the control session is not replaced.
InstallNoSession ==
  /\ pc' = IF op = "open" THEN "idle" ELSE "send"
  /\ m_pTransport' = opens' /\ m_pProtocolHandler' = opens' /\ m_pAuthentication' = opens'
  /\ m_pControlSession' = IF m_pControlSession = 0 THEN opens' ELSE m_pControlSession

\* open() succeeds: its four objects become the members, and sendCommand
\* sends its command again.
Install ==
  /\ pc' = IF op = "open" THEN "idle" ELSE "send"
  /\ m_pTransport' = opens' /\ m_pProtocolHandler' = opens'
  /\ m_pControlSession' = opens' /\ m_pAuthentication' = opens'

\* TcpSocket::connect.  The POSIX build overwrites the result of select with
\* SO_ERROR, which is 0 while the connection attempt is still pending; by then
\* select has counted tv down to 0, and a receive timeout of 0 is none.  A new
\* handler begins with m_reqID = 0; CoLa B has no session to open.
ConnectAs(linkState) ==
  /\ pc = "connect"
  /\ opens < MaxOpens
  /\ opens' = opens + 1
  /\ link' = linkState /\ rcvTimeout' = (linkState # "pending")
  /\ m_reqID' = 0 /\ m_sessionID' = 0
  /\ IF m_protocolType = "COLA_B"
     THEN Install
     ELSE pc' = "openSession" /\ UNCHANGED objects
  /\ UNCHANGED <<params, op, resent, response, calls, req, rsp, rest, late, device>>

Connect == ConnectAs("up")

ConnectTimesOut == Posix /\ ConnectAs("pending")

ConnectFails ==
  /\ pc = "connect"
  /\ OpenFails
  /\ UNCHANGED <<params, ids, op, resent, response, opens, calls, device>>

-----------------------------------------------------------------------------
(* The protocol handlers *)

\* Mutant: the request id is not counted up.
CreateReqIdConstant == m_reqID

\* Mutant: the id is wider than its two bytes on the wire.
CreateReqIdWide == m_reqID + 1

CreateReqId == (m_reqID + 1) % ReqIdModulus

\* The bytes are written to the socket; only an open connection carries them.
\* send waits for the end of a connection attempt.
Transmit(kind, n) ==
  /\ link # "pending"
  /\ IF m_protocolType = "COLA_2" THEN m_reqID' = CreateReqId ELSE UNCHANGED m_reqID
  /\ req' = IF link = "up" THEN Append(req, Message(kind, m_sessionID, m_reqID', n)) ELSE req
  /\ UNCHANGED <<link, rcvTimeout, rsp, rest, late, m_sessionID>>

\* A receive timeout strikes, or the connection is closed or broken.
RecvFails == rcvTimeout \/ link = "down"

\* CoLa2ProtocolHandler::openSession: the request.
OpenSession ==
  /\ Goto("openSession", "awaitSession")
  /\ Transmit("open", 0)
  /\ UNCHANGED <<params, objects, op, resent, response, opens, calls, device>>

\* ... and its answer.  Only the request id is looked at: a refusal (session
\* id 0) is taken for a session.
SessionOpened ==
  /\ pc = "awaitSession"
  /\ rsp # <<>>
  /\ Head(rsp).rid = m_reqID
  /\ rsp' = Tail(rsp)
  /\ m_sessionID' = Head(rsp).sid
  /\ opens' = opens
  /\ Install
  /\ UNCHANGED <<params, m_reqID, op, resent, response, calls, link, rcvTimeout, req, rest,
                 late, device>>

\* No answer, or one with another request id: the socket is shut down.
SessionNotOpened ==
  /\ pc = "awaitSession"
  /\ RecvFails \/ (rsp # <<>> /\ Head(rsp).rid # m_reqID)
  /\ OpenFails
  /\ UNCHANGED <<params, ids, op, resent, response, opens, calls, device>>

-----------------------------------------------------------------------------
(* VisionaryControl::sendCommand *)

CallSend ==
  /\ Goto("idle", "send")
  /\ calls < MaxCalls
  /\ calls' = calls + 1
  /\ op' = "send"
  /\ resent' = FALSE /\ response' = Unanswered
  /\ UNCHANGED <<params, objects, ids, opens, network, device>>

\* Without a control session the response is that of an empty buffer.
SendUnopened ==
  /\ Goto("send", "check")
  /\ m_pControlSession = 0
  /\ response' = Unanswered
  /\ UNCHANGED <<params, objects, ids, op, resent, opens, calls, network, device>>

\* ControlSession::send through its reference to a handler that is gone.
SendDangling ==
  /\ pc = "send"
  /\ m_pControlSession # 0 /\ m_pControlSession # m_pProtocolHandler
  /\ pc' = "crashed"
  /\ UNCHANGED <<params, objects, ids, op, resent, response, opens, calls, network, device>>

\* The handler writes the command.
Send ==
  /\ Goto("send", "await")
  /\ m_pControlSession # 0 /\ m_pControlSession = m_pProtocolHandler
  /\ Transmit("command", calls)
  /\ UNCHANGED <<params, objects, op, resent, response, opens, calls, device>>

\* What a handler makes of the message it receives: CoLa 2 compares session
\* and request id with its own, CoLa B takes what comes.
Accepts(m) ==
  m_protocolType = "COLA_2" => m.sid = m_sessionID /\ m.rid = m_reqID

\* A message is received.  Behind the rest of one that failed CoLa 2 searches for
\* the next start; CoLa B cannot (see Misled).
Receive ==
  /\ Goto("await", "check")
  /\ rest => m_protocolType = "COLA_2"
  /\ rsp # <<>>
  /\ rsp' = Tail(rsp) /\ rest' = FALSE
  /\ response' = IF Accepts(Head(rsp)) THEN Response(Head(rsp).kind, Head(rsp).n)
                                       ELSE NetworkError
  /\ UNCHANGED <<params, objects, ids, op, resent, opens, calls, link, rcvTimeout, req, late,
                 device>>

\* Bytes inside the rest are taken for the start of a message, whose length may
\* reach over the rest and over messages behind it.  CoLa 2 finds other ids in
\* it, CoLa B takes it for an answer.  (Left out: bytes of an answer that spell
\* the two ids of a later request, or one of the errors sendCommand looks for.)
Misread ==
  /\ Goto("await", "check")
  /\ rest
  /\ \E k \in 0 .. Len(rsp) : rsp' = SubSeq(rsp, k + 1, Len(rsp))
  /\ rest' \in BOOLEAN
  /\ response' \in {NetworkError} \cup (IF m_protocolType = "COLA_B" THEN {Response("OK", 0)} ELSE {})
  /\ UNCHANGED <<params, objects, ids, op, resent, opens, calls, link, rcvTimeout, req, late,
                 device>>

\* CoLa B at the rest of a message: at a byte that is not STX nothing is erased
\* and the loop over the buffer never ends; or four STX and a length of 2^32 - 1
\* are found, and a byte is taken from an empty buffer.
Misled ==
  /\ Goto("await", "misled")
  /\ rest /\ m_protocolType = "COLA_B"
  /\ UNCHANGED <<params, objects, ids, op, resent, response, opens, calls, network, device>>

\* What a receive that fails leaves: nothing had come; or a part of a message
\* had, which is dropped.
TakenInPart ==
  \/ UNCHANGED <<rsp, rest>>
  \/ ~rest /\ rsp # <<>> /\ rsp' = Tail(rsp) /\ rest' = TRUE

\* Mutant: no receive timeout is set on the socket.
ReceiveFailsNoTimeout ==
  /\ Goto("await", "check")
  /\ link = "down"
  /\ TakenInPart
  /\ response' = NetworkError
  /\ late' = TRUE
  /\ UNCHANGED <<params, objects, ids, op, resent, opens, calls, link, rcvTimeout, req, device>>

\* Nothing, or not enough, came within the timeout; or the write failed; or
\* the connection is closed.
ReceiveFails ==
  /\ Goto("await", "check")
  /\ RecvFails
  /\ TakenInPart
  /\ response' = NetworkError
  /\ late' = TRUE
  /\ UNCHANGED <<params, objects, ids, op, resent, opens, calls, link, rcvTimeout, req, device>>

Lost == response.err \in {"SESSION_UNKNOWN_ID", "NETWORK_ERROR"}

\* Mutant: the command is sent again as often as it fails.
ReconnectAlways ==
  /\ Goto("check", "connect")
  /\ m_autoReconnect /\ Lost
  /\ resent' = resent
  /\ DropConnection
  /\ UNCHANGED <<params, ids, op, response, opens, calls, device>>

\* Mutant: m_autoReconnect is not asked.
ReconnectUnasked ==
  /\ Goto("check", "connect")
  /\ Lost /\ ~resent
  /\ resent' = TRUE
  /\ DropConnection
  /\ UNCHANGED <<params, ids, op, response, opens, calls, device>>

\* The connection is lost and m_autoReconnect set: shutdown, open, send again.
Reconnect ==
  /\ Goto("check", "connect")
  /\ m_autoReconnect /\ Lost /\ ~resent
  /\ resent' = TRUE
  /\ DropConnection
  /\ UNCHANGED <<params, ids, op, response, opens, calls, device>>

\* sendCommand returns: to the user, or to logout in close().
Return ==
  /\ Goto("check", IF op = "close" THEN "closeSession" ELSE "idle")
  /\ ~(m_autoReconnect /\ Lost /\ ~resent)
  /\ m_pAuthentication' = IF op = "close" THEN 0 ELSE m_pAuthentication
  /\ UNCHANGED <<params, m_pTransport, m_pProtocolHandler, m_pControlSession, ids, op, resent,
                 response, opens, calls, network, device>>

-----------------------------------------------------------------------------
(* VisionaryControl::close *)

\* With an authentication object, close logs out first: a sendCommand.
CallClose ==
  /\ pc = "idle"
  /\ op' = "close"
  /\ resent' = FALSE /\ response' = Unanswered
  /\ IF m_pAuthentication # 0
     THEN calls < MaxCalls /\ calls' = calls + 1 /\ pc' = "send"
     ELSE calls' = calls /\ pc' = "closeSession"
  /\ UNCHANGED <<params, objects, ids, opens, network, device>>

\* A CoLa 2 session is closed by a message whose answer is ignored.
CloseSession ==
  /\ pc = "closeSession"
  /\ IF m_pProtocolHandler # 0 /\ m_protocolType = "COLA_2"
     THEN Transmit("end", 0) /\ pc' = "awaitClose"
     ELSE UNCHANGED <<ids, network>> /\ pc' = "closeRest"
  /\ UNCHANGED <<params, objects, op, resent, response, opens, calls, device>>

SessionClosed ==
  /\ Goto("awaitClose", "closeRest")
  /\ \/ (RecvFails \/ rest) /\ rsp' = rsp
     \/ rsp # <<>> /\ rsp' = Tail(rsp)
  /\ UNCHANGED <<params, objects, ids, op, resent, response, opens, calls, link, rcvTimeout, req,
                 rest, late, device>>

\* Mutant: the transport is left to whatever logout made of it.
CloseRestHandlerOnly ==
  /\ Goto("closeRest", "idle")
  /\ m_pProtocolHandler' = 0 /\ m_pControlSession' = 0
  /\ UNCHANGED <<m_pTransport, m_pAuthentication>>
  /\ UNCHANGED <<params, ids, op, resent, response, opens, calls, network, device>>

CloseRest ==
  /\ Goto("closeRest", "idle")
  /\ m_pProtocolHandler' = 0 /\ m_pTransport' = 0 /\ m_pControlSession' = 0
  /\ UNCHANGED m_pAuthentication
  /\ Disconnect
  /\ UNCHANGED <<params, ids, op, resent, response, opens, calls, device>>

Client ==
  \/ Connect \/ ConnectTimesOut \/ ConnectFails
  \/ OpenSession \/ SessionOpened \/ SessionNotOpened
  \/ SendUnopened \/ SendDangling \/ Send
  \/ Receive \/ Misread \/ Misled \/ ReceiveFails \/ Reconnect \/ Return
  \/ CloseSession \/ SessionClosed \/ CloseRest

User == CallOpen \/ CallSend \/ CallClose

-----------------------------------------------------------------------------
(* The device and the network *)

\* The device takes the next message of the connection and answers it.
Answer(kind, sid) ==
  /\ req # <<>>
  /\ req' = Tail(req)
  /\ rsp' = Append(rsp, Message(kind, sid, Head(req).rid, Head(req).n))
  /\ UNCHANGED <<params, objects, ids, control, response, opens, calls, link, rcvTimeout, rest, late>>

\* A session is granted, or refused for want of resources (session id 0).
DeviceOpens ==
  /\ req # <<>> /\ Head(req).kind = "open"
  /\ \/ Answer("session", opens) /\ devSessions' = devSessions \cup {opens}
     \/ Answer("session", 0) /\ UNCHANGED devSessions
  /\ UNCHANGED executed

DeviceExecutes ==
  /\ req # <<>> /\ Head(req).kind = "command"
  /\ m_protocolType = "COLA_2" => Head(req).sid \in devSessions
  /\ Answer("OK", Head(req).sid)
  /\ executed' = [executed EXCEPT ![Head(req).n] = @ + 1]
  /\ UNCHANGED devSessions

DeviceRejects ==
  /\ req # <<>> /\ Head(req).kind = "command"
  /\ m_protocolType = "COLA_2" /\ Head(req).sid \notin devSessions
  /\ Answer("SESSION_UNKNOWN_ID", Head(req).sid)
  /\ UNCHANGED device

DeviceCloses ==
  /\ req # <<>> /\ Head(req).kind = "end"
  /\ Answer("OK", Head(req).sid)
  /\ devSessions' = devSessions \ {Head(req).sid}
  /\ UNCHANGED executed

\* The session timeout, or a restart of the device.
SessionExpires ==
  /\ \E s \in devSessions : devSessions' = devSessions \ {s}
  /\ UNCHANGED <<params, objects, ids, control, response, opens, calls, network, executed>>

\* The connection breaks; answers that have arrived may still be read.
LinkBreaks ==
  /\ link \in {"up", "pending"}
  /\ link' = "down" /\ req' = <<>>
  /\ UNCHANGED <<rsp, rest>> \/ (rsp' = <<>> /\ rest' = FALSE)
  /\ UNCHANGED <<params, objects, ids, control, response, opens, calls, rcvTimeout, late,
                 device>>

\* A connection attempt that open() did not wait for succeeds after all.
LinkComesUp ==
  /\ link = "pending"
  /\ link' = "up"
  /\ UNCHANGED <<params, objects, ids, control, response, opens, calls, rcvTimeout, req, rsp, rest,
                 late, device>>

Environment ==
  \/ DeviceOpens \/ DeviceExecutes \/ DeviceRejects \/ DeviceCloses
  \/ SessionExpires \/ LinkBreaks \/ LinkComesUp

\* After undefined behaviour, or in a loop without end, the client does nothing
\* more that can be said.
Crashed == pc \in {"crashed", "misled"} /\ UNCHANGED vars

Next == Client \/ User \/ Environment \/ Crashed

\* The client's thread runs, and the system gives a connection attempt up after
\* a while.
Spec ==
  /\ Init /\ [][Next]_vars
  /\ WF_vars(Client)
  /\ WF_vars(link = "pending" /\ (LinkBreaks \/ LinkComesUp))

-----------------------------------------------------------------------------
(* Properties *)

Messages == [kind : {"open", "command", "end", "session", "OK", "SESSION_UNKNOWN_ID"},
             sid : 0 .. MaxOpens, rid : 0 .. ReqIdModulus - 1, n : 0 .. MaxCalls]

ObjectsOK ==
  /\ opens \in 0 .. MaxOpens
  /\ m_pTransport \in 0 .. opens /\ m_pProtocolHandler \in 0 .. opens
  /\ m_pControlSession \in 0 .. opens /\ m_pAuthentication \in 0 .. opens

ClientOK ==
  /\ m_protocolType \in Protocols \cup {"INVALID_PROTOCOL"}
  /\ m_autoReconnect \in BOOLEAN /\ resent \in BOOLEAN
  /\ pc \in Steps /\ op \in {"none", "open", "send", "close"}
  /\ calls \in 0 .. MaxCalls
  /\ response \in [err : Errors, n : 0 .. MaxCalls]

NetworkOK ==
  /\ m_sessionID \in 0 .. MaxOpens /\ m_reqID \in 0 .. ReqIdModulus - 1
  /\ link \in Links /\ rcvTimeout \in BOOLEAN /\ rest \in BOOLEAN
  /\ late \in BOOLEAN
  /\ req \in Seq(Messages) /\ rsp \in Seq(Messages)

DeviceOK == devSessions \subseteq 0 .. MaxOpens /\ executed \in [1 .. MaxCalls -> Nat]

TypeOK == ObjectsOK /\ ClientOK /\ NetworkOK /\ DeviceOK

\* Where there is a protocol handler, it is that of the current transport and
\* the control session refers to it (VisionaryControl.cpp:102-105): however
\* often the connection is made again, no object of an old one is left beside
\* those of the new.
ConnectionIsWhole ==
  m_pProtocolHandler # 0 => /\ m_pTransport = m_pProtocolHandler
                            /\ m_pControlSession = m_pProtocolHandler
                            /\ m_pAuthentication \in {m_pProtocolHandler, 0}

Returned == pc = "idle" /\ op = "send" /\ calls > 0 /\ response.err \in {"OK", "SESSION_UNKNOWN_ID"}

\* "Send a command to the device and waits for the result" (VisionaryControl.h:116):
\* the response sendCommand returns is the device's answer to that command,
\* not to an earlier one whose answer came too late or in two pieces.  CoLa 2
\* numbers its requests for this.
AnswerIsForCommand2 ==
  m_protocolType = "COLA_2" /\ Returned => response.n = calls

\* CoLa B has nothing to tell a late answer by, and breaks the promise above.  It
\* returns the answer to another command only on a connection on which a receive
\* failed before: the answers of an old connection never come through
\* (CoLaBProtocolHandler.cpp:140).
OnlyLateAnswersAreForeign == Returned /\ response.n # calls => late

\* A command is executed at most once without autoReconnect and at most twice
\* with it, whatever is lost and however often the connection breaks.  Twice is
\* more than stepAcquisition says of itself, "Trigger a single image"
\* (VisionaryControl.h:100): when its answer is lost, two are triggered.
ExecutedAtMostTwice ==
  [][\A n \in 1 .. MaxCalls :
       executed'[n] # executed[n] => executed'[n] <= (IF m_autoReconnect THEN 2 ELSE 1)]_vars

\* After close() there is no connection and no object of one, even when its
\* own logout made a new connection.
CloseCloses ==
  pc = "idle" /\ op = "close" =>
    /\ link = "none"
    /\ {m_pTransport, m_pProtocolHandler, m_pControlSession, m_pAuthentication} = {0}

\* "It is allowed to call close of a connection that is not open. In this case
\* this call is a no-op" (VisionaryControl.h:59): close() never reaches a
\* handler that is gone.
CloseIsSafe == ~(pc = "crashed" /\ op = "close")

\* Every call returns (or ends in undefined behaviour): sendCommand reconnects
\* at most once, whatever the device and the network do.  There are two
\* exceptions.  On a connection whose attempt timed out, which has no receive
\* timeout, a call may wait for ever; and with CoLa B a call that starts to
\* receive inside a message may search for ever (CoLaBProtocolHandler.cpp:71),
\* which takes a receive that failed before on the same connection.
CallsReturn ==
  pc # "idle" ~> \/ pc \in {"idle", "crashed"}
                 \/ ~rcvTimeout
                 \/ pc = "misled" /\ m_protocolType = "COLA_B" /\ late

=============================================================================
