----------------------- MODULE VisionaryControlProofs -----------------------
(***************************************************************************)
(* Proofs about VisionaryControl, for any set of protocols, either build   *)
(* and any number of connections and calls.                                *)
(*                                                                         *)
(* TypeOK is not inductive: that sendCommand is never given the answer to  *)
(* openSession depends on what may be under way at each step (Flow).  That *)
(* close leaves nothing behind depends on the authentication object being  *)
(* gone from the end of the logout on (Closing).  That a command is        *)
(* executed twice at most depends on where its copies can be (Copies).     *)
(***************************************************************************)
EXTENDS VisionaryControl, SequenceTheorems, TLAPS

USE ProtocolsAssumption, BoundsAssumption

-----------------------------------------------------------------------------
(* The inductive invariant *)

Opening == pc \in {"connect", "openSession", "awaitSession"}
Sending == pc \in {"send", "await", "check"}

\* A request under way to the device.
RequestOK(m) ==
  /\ m.kind \in {"open", "command", "end"}
  /\ m.kind = "open" <=> pc = "awaitSession"
  /\ m.kind = "command" => m.n \in 1 .. calls

\* An answer under way to the client.
AnswerOK(m) ==
  /\ m.kind \in {"session", "OK", "SESSION_UNKNOWN_ID"}
  /\ m.kind = "session" <=> pc = "awaitSession"

Flow ==
  /\ pc \in {"connect", "openSession"} => req = <<>> /\ rsp = <<>>
  /\ pc = "awaitSession" => Len(req) + Len(rsp) <= 1
  /\ \A i \in 1 .. Len(req) : RequestOK(req[i])
  /\ \A i \in 1 .. Len(rsp) : AnswerOK(rsp[i])

Closing ==
  /\ Sending => op \in {"send", "close"}
  /\ Opening => op \in {"open", "send", "close"}
  /\ op \in {"send", "close"} /\ (Sending \/ Opening) => calls > 0
  /\ pc \in {"closeSession", "awaitClose", "closeRest"} => op = "close" /\ m_pAuthentication = 0

\* How often the device has executed the command of the current call.
Counts ==
  /\ resent => m_autoReconnect
  /\ \A n \in 1 .. MaxCalls : n > calls => executed[n] = 0
  /\ Sending => executed[calls] <= (IF resent /\ pc # "send" THEN 2 ELSE 1)
  /\ pc = "send" /\ executed[calls] = 1 => resent
  /\ Opening /\ op # "open" => resent /\ executed[calls] <= 1

\* A command may be on its way when the device has executed it already, but
\* only once, and only when the client has sent it again.
CopyOK(m) ==
  /\ executed[m.n] <= 1
  /\ executed[m.n] = 1 => m_autoReconnect /\ (Sending /\ m.n = calls => resent)
  /\ pc = "send" => m.n # calls

Copies ==
  /\ \A i \in 1 .. Len(req) : req[i].kind = "command" => CopyOK(req[i])
  /\ \A i, j \in 1 .. Len(req) :
       req[i].kind = "command" /\ req[j].kind = "command" /\ req[i].n = req[j].n => i = j

IInv == TypeOK /\ Flow /\ Closing /\ Counts /\ Copies /\ ConnectionIsWhole /\ CloseCloses

-----------------------------------------------------------------------------
(* The messages under way *)

\* What taking the first message of a sequence leaves.
LEMMA TakenFirst ==
  ASSUME NEW s \in Seq(Messages), s # <<>>
  PROVE  /\ Head(s) = s[1] /\ 1 \in 1 .. Len(s) /\ Head(s) \in Messages
         /\ Tail(s) \in Seq(Messages) /\ Len(Tail(s)) = Len(s) - 1
         /\ \A i \in 1 .. Len(Tail(s)) : i + 1 \in 1 .. Len(s) /\ Tail(s)[i] = s[i + 1]
  OBVIOUS

\* What adding a message at the end does.
LEMMA AddedLast ==
  ASSUME NEW s \in Seq(Messages), NEW m \in Messages
  PROVE  /\ Append(s, m) \in Seq(Messages) /\ Len(Append(s, m)) = Len(s) + 1
         /\ \A i \in 1 .. Len(s) : Append(s, m)[i] = s[i]
         /\ Append(s, m)[Len(s) + 1] = m
  OBVIOUS

\* What a receive leaves in the stream was in it before, in the same order.
LEMMA LeftOver ==
  ASSUME rsp \in Seq(Messages), Receive \/ Misread \/ Misled \/ ReceiveFails \/ SessionClosed
  PROVE  \E k \in 0 .. Len(rsp) :
           /\ rsp' \in Seq(Messages) /\ Len(rsp') = Len(rsp) - k
           /\ \A i \in 1 .. Len(rsp') : i + k \in 1 .. Len(rsp) /\ rsp'[i] = rsp[i + k]
<1>1. Len(rsp) \in Nat
  OBVIOUS
<1>2. CASE UNCHANGED rsp
  <2>1. /\ rsp' \in Seq(Messages) /\ Len(rsp') = Len(rsp) - 0
        /\ \A i \in 1 .. Len(rsp') : i + 0 \in 1 .. Len(rsp) /\ rsp'[i] = rsp[i + 0]
    BY <1>1, <1>2
  <2> QED  BY <1>1, <2>1
<1>3. CASE rsp # <<>> /\ rsp' = Tail(rsp)
  <2>1. 1 \in 0 .. Len(rsp)
    BY <1>1, <1>3, TakenFirst
  <2> QED  BY <1>3, <2>1, TakenFirst
<1>4. ASSUME NEW k \in 0 .. Len(rsp), rsp' = SubSeq(rsp, k + 1, Len(rsp))
      PROVE  /\ rsp' \in Seq(Messages) /\ Len(rsp') = Len(rsp) - k
             /\ \A i \in 1 .. Len(rsp') : i + k \in 1 .. Len(rsp) /\ rsp'[i] = rsp[i + k]
  <2>1. /\ SubSeq(rsp, k + 1, Len(rsp)) \in Seq(Messages)
        /\ Len(SubSeq(rsp, k + 1, Len(rsp))) = Len(rsp) - k
    BY <1>1, <1>4, SMTT(30)
  <2>2. ASSUME NEW i \in 1 .. Len(rsp) - k
        PROVE  i + k \in 1 .. Len(rsp) /\ SubSeq(rsp, k + 1, Len(rsp))[i] = rsp[i + k]
    BY <1>1, SMTT(30)
  <2> QED  BY <1>4, <2>1, <2>2
<1>5. CASE Misread
  <2>1. PICK k \in 0 .. Len(rsp) : rsp' = SubSeq(rsp, k + 1, Len(rsp))
    BY <1>5 DEF Misread
  <2> QED  BY <1>4, <2>1
<1>6. CASE Receive \/ Misled \/ ReceiveFails \/ SessionClosed
  <2>1. rsp' = rsp \/ (rsp # <<>> /\ rsp' = Tail(rsp))
    BY <1>6 DEF Receive, Misled, ReceiveFails, TakenInPart, SessionClosed, network
  <2> QED  BY <1>2, <1>3, <2>1
<1> QED  BY <1>5, <1>6

\* A handler counts its request id within two bytes and writes its message
\* with it, or the message is lost.
LEMMA Transmitted ==
  ASSUME NetworkOK, NEW kind \in {"open", "command", "end"}, NEW n \in 0 .. MaxCalls,
         Transmit(kind, n)
  PROVE  /\ m_reqID' \in 0 .. ReqIdModulus - 1
         /\ Message(kind, m_sessionID, m_reqID', n) \in Messages
         /\ req' \in Seq(Messages)
         /\ req' = req \/ req' = Append(req, Message(kind, m_sessionID, m_reqID', n))
<1>1. m_reqID' \in 0 .. ReqIdModulus - 1
  <2>1. \A a \in Nat : a % ReqIdModulus \in 0 .. ReqIdModulus - 1
    OBVIOUS
  <2>2. m_reqID' = m_reqID \/ m_reqID' = (m_reqID + 1) % ReqIdModulus
    BY DEF Transmit, CreateReqId
  <2>3. m_reqID \in 0 .. ReqIdModulus - 1
    BY DEF NetworkOK
  <2> QED  BY <2>1, <2>2, <2>3
<1>2. Message(kind, m_sessionID, m_reqID', n) \in Messages
  BY <1>1 DEF Message, Messages, NetworkOK
<1>3. req' = req \/ req' = Append(req, Message(kind, m_sessionID, m_reqID', n))
  BY DEF Transmit
<1>4. req \in Seq(Messages)
  BY DEF NetworkOK
<1> QED  BY <1>1, <1>2, <1>3, <1>4, AddedLast

-----------------------------------------------------------------------------
(* The initial state *)

LEMMA InitSafe == Init => IInv
<1> SUFFICES ASSUME Init PROVE IInv
  OBVIOUS
<1>1. TypeOK
  <2>1. ObjectsOK
    BY DEF Init, ObjectsOK
  <2>2. ClientOK
    <3>1. response \in [err : Errors, n : 0 .. MaxCalls]
      BY DEF Init, Unanswered, Response, Errors
    <3>2. pc \in Steps /\ calls \in 0 .. MaxCalls
      BY DEF Init, Steps
    <3>3. m_protocolType = "INVALID_PROTOCOL" /\ op = "none" /\ m_autoReconnect = FALSE /\ resent = FALSE
      BY DEF Init
    <3> QED  BY <3>1, <3>2, <3>3 DEF ClientOK
  <2>3. NetworkOK
    <3>1. req \in Seq(Messages) /\ rsp \in Seq(Messages)
      BY DEF Init
    <3>2. m_sessionID \in 0 .. MaxOpens /\ m_reqID \in 0 .. ReqIdModulus - 1 /\ link \in Links
      BY DEF Init, Links
    <3>3. rcvTimeout = TRUE /\ late = FALSE /\ rest = FALSE
      BY DEF Init
    <3> QED  BY <3>1, <3>2, <3>3 DEF NetworkOK
  <2>4. DeviceOK
    BY DEF Init, DeviceOK
  <2> QED  BY <2>1, <2>2, <2>3, <2>4 DEF TypeOK
<1>2. Flow /\ Closing
  BY DEF Init, Flow, Closing, Opening, Sending
<1>3. Counts /\ Copies
  BY DEF Init, Counts, Copies, Opening, Sending
<1> QED  BY <1>1, <1>2, <1>3 DEF IInv, Init, ConnectionIsWhole, CloseCloses

-----------------------------------------------------------------------------
(* Every step keeps the types *)

\* Only the device, and what happens to it, changes what it knows.
LEMMA DeviceStep == ASSUME TypeOK, Flow, [Next]_vars PROVE DeviceOK'
<1> USE DEF DeviceOK
<1>1. CASE UNCHANGED device
  BY <1>1 DEF TypeOK, device
<1>2. CASE DeviceOpens
  BY <1>2 DEF DeviceOpens, TypeOK, ObjectsOK
<1>3. CASE DeviceExecutes
  <2>1. Head(req).n \in 1 .. MaxCalls
    BY <1>3, TakenFirst DEF DeviceExecutes, TypeOK, NetworkOK, ClientOK, Flow, RequestOK
  <2> QED  BY <1>3, <2>1 DEF DeviceExecutes, TypeOK
<1>4. CASE DeviceCloses
  BY <1>4 DEF DeviceCloses, TypeOK
<1>5. CASE SessionExpires
  BY <1>5 DEF SessionExpires, TypeOK
<1>6. CASE UNCHANGED vars
  BY <1>6 DEF TypeOK, vars, device
<1>7. CASE Client \/ User
  <2>1. UNCHANGED device
    BY <1>7 DEF Client, User, Connect, ConnectTimesOut, ConnectAs, ConnectFails, OpenSession,
         SessionOpened, SessionNotOpened, SendUnopened, SendDangling, Send, Receive, Misread, Misled, ReceiveFails,
         Reconnect, Return, CloseSession, SessionClosed, CloseRest, CallOpen, CallSend, CallClose
  <2> QED  BY <1>1, <2>1
<1>8. CASE DeviceRejects \/ LinkBreaks \/ LinkComesUp
  BY <1>1, <1>8 DEF DeviceRejects, LinkBreaks, LinkComesUp
<1> QED  BY <1>2, <1>3, <1>4, <1>5, <1>6, <1>7, <1>8 DEF Next, Environment, Crashed

\* Opening and closing, and the end of a call, change the objects.
LEMMA ObjectsStep == ASSUME TypeOK, [Next]_vars PROVE ObjectsOK'
<1> USE DEF TypeOK, ObjectsOK
<1>1. CASE UNCHANGED <<objects, opens>>
  BY <1>1 DEF objects
<1>2. CASE CallOpen \/ Reconnect
  BY <1>2 DEF CallOpen, Reconnect, DropConnection
<1>3. ASSUME NEW l, ConnectAs(l) PROVE ObjectsOK'
  BY <1>3 DEF ConnectAs, Install, objects
<1>4. CASE ConnectFails \/ SessionNotOpened
  BY <1>4 DEF ConnectFails, SessionNotOpened, OpenFails
<1>5. CASE SessionOpened
  BY <1>5 DEF SessionOpened, Install
<1>6. CASE Return
  BY <1>6 DEF Return
<1>7. CASE CloseRest
  BY <1>7 DEF CloseRest
<1>8. CASE OpenSession \/ SendUnopened \/ SendDangling \/ Send \/ Receive \/ Misread \/ Misled \/ ReceiveFails
           \/ CloseSession \/ SessionClosed \/ CallSend \/ CallClose
  BY <1>1, <1>8 DEF OpenSession, SendUnopened, SendDangling, Send, Receive, Misread, Misled, ReceiveFails,
     CloseSession, SessionClosed, CallSend, CallClose
<1>9. CASE Environment \/ UNCHANGED vars
  <2>1. UNCHANGED <<objects, opens>>
    BY <1>9 DEF Environment, DeviceOpens, DeviceExecutes, DeviceRejects, DeviceCloses, Answer,
       SessionExpires, LinkBreaks, LinkComesUp, vars
  <2> QED  BY <1>1, <2>1
<1> QED  BY <1>2, <1>3, <1>4, <1>5, <1>6, <1>7, <1>8, <1>9
         DEF Next, Client, User, Crashed, Connect, ConnectTimesOut

\* An answer to openSession is never taken for that to a command.
LEMMA ResponseStep ==
  ASSUME TypeOK, Flow, [Next]_vars PROVE response' \in [err : Errors, n : 0 .. MaxCalls]
<1> USE DEF TypeOK, ClientOK
<1>1. CASE UNCHANGED response
  BY <1>1
<1>2. CASE response' \in {Unanswered, NetworkError}
  BY <1>2 DEF Unanswered, NetworkError, Response, Errors
<1>3. CASE Receive
  <2>1. Head(rsp).kind \in {"OK", "SESSION_UNKNOWN_ID"} /\ Head(rsp).n \in 0 .. MaxCalls
    BY <1>3, TakenFirst DEF Receive, Goto, NetworkOK, Flow, AnswerOK, Messages
  <2>2. response' = NetworkError \/ response' = Response(Head(rsp).kind, Head(rsp).n)
    BY <1>3 DEF Receive
  <2> QED  BY <1>2, <2>1, <2>2 DEF Response, Errors
<1>4. CASE CallOpen \/ CallSend \/ CallClose \/ SendUnopened \/ ReceiveFails
  BY <1>2, <1>4 DEF CallOpen, CallSend, CallClose, SendUnopened, ReceiveFails
<1>7. CASE Misread
  BY <1>7 DEF Misread, NetworkError, Response, Errors
<1>5. CASE Connect \/ ConnectTimesOut \/ ConnectFails \/ OpenSession \/ SessionOpened \/ SessionNotOpened
           \/ SendDangling \/ Send \/ Misled \/ Reconnect \/ Return \/ CloseSession \/ SessionClosed
           \/ CloseRest
  BY <1>1, <1>5 DEF Connect, ConnectTimesOut, ConnectAs, ConnectFails, OpenSession, SessionOpened,
     SessionNotOpened, SendDangling, Send, Misled, Reconnect, Return, CloseSession, SessionClosed, CloseRest
<1>6. CASE Environment \/ UNCHANGED vars
  BY <1>1, <1>6 DEF Environment, DeviceOpens, DeviceExecutes, DeviceRejects, DeviceCloses, Answer,
     SessionExpires, LinkBreaks, LinkComesUp, vars
<1> QED  BY <1>3, <1>4, <1>5, <1>6, <1>7 DEF Next, Client, User, Crashed

LEMMA ClientTypeStep == ASSUME TypeOK, Flow, [Next]_vars PROVE ClientOK'
<1> USE DEF TypeOK, ClientOK, Steps
<1>1. response' \in [err : Errors, n : 0 .. MaxCalls]
  BY ResponseStep
<1>2. CASE UNCHANGED <<params, control, calls>>
  BY <1>1, <1>2 DEF params, control
<1>3. CASE CallOpen
  BY <1>1, <1>3 DEF CallOpen, Goto
<1>4. CASE CallSend
  <2>1. calls' \in 0 .. MaxCalls
    BY <1>4 DEF CallSend
  <2>2. pc' = "send" /\ op' = "send" /\ resent' = FALSE /\ UNCHANGED params
    BY <1>4 DEF CallSend, Goto
  <2> QED  BY <1>1, <2>1, <2>2 DEF params
<1>5. CASE CallClose
  <2>1. calls' \in 0 .. MaxCalls
    BY <1>5 DEF CallClose
  <2>2. pc' \in {"send", "closeSession"} /\ op' = "close" /\ resent' = FALSE /\ UNCHANGED params
    BY <1>5 DEF CallClose
  <2> QED  BY <1>1, <2>1, <2>2 DEF params
<1>6. CASE Reconnect
  BY <1>1, <1>6 DEF Reconnect, Goto, params
<1>7. CASE UNCHANGED <<params, op, resent, calls>> /\ pc' \in Steps
  BY <1>1, <1>7 DEF params
<1>8. CASE Client /\ ~Reconnect
  <2>1. UNCHANGED <<params, op, resent, calls>> /\ pc' \in Steps
    BY <1>8 DEF Client, Connect, ConnectTimesOut, ConnectAs, Install, ConnectFails, OpenFails,
       OpenSession, SessionOpened, SessionNotOpened, SendUnopened, SendDangling, Send, Receive,
       Misread, Misled, ReceiveFails, Return, CloseSession, SessionClosed, CloseRest, Goto
  <2> QED  BY <1>7, <2>1
<1>9. CASE Environment \/ UNCHANGED vars
  <2>1. UNCHANGED <<params, control, calls>>
    BY <1>9 DEF Environment, DeviceOpens, DeviceExecutes, DeviceRejects, DeviceCloses, Answer,
       SessionExpires, LinkBreaks, LinkComesUp, vars, network, device
  <2> QED  BY <1>2, <2>1
<1> QED  BY <1>3, <1>4, <1>5, <1>6, <1>8, <1>9 DEF Next, User, Crashed

\* The handlers number their messages and add them to those under way; the
\* client and the device take the first of them.
LEMMA NetworkStep == ASSUME TypeOK, Flow, [Next]_vars PROVE NetworkOK'
<1> USE DEF NetworkOK
<1>1. NetworkOK
  BY DEF TypeOK
<1>2. CASE UNCHANGED <<ids, network>>
  BY <1>1, <1>2 DEF ids, network
<1>3. CASE Disconnect /\ UNCHANGED ids
  <2>1. req' \in Seq(Messages) /\ rsp' \in Seq(Messages)
    BY <1>3 DEF Disconnect
  <2> QED  BY <1>1, <1>3, <2>1 DEF Disconnect, ids, Links
<1>4. CASE CallOpen \/ ConnectFails \/ SessionNotOpened \/ Reconnect \/ CloseRest
  BY <1>3, <1>4 DEF CallOpen, ConnectFails, SessionNotOpened, Reconnect, CloseRest, DropConnection, OpenFails
<1>5. ASSUME NEW l \in Links, ConnectAs(l) PROVE NetworkOK'
  BY <1>1, <1>5 DEF ConnectAs
<1>6. ASSUME NEW kind \in {"open", "command", "end"}, NEW n \in 0 .. MaxCalls, Transmit(kind, n)
      PROVE  NetworkOK'
  <2>1. m_reqID' \in 0 .. ReqIdModulus - 1 /\ req' \in Seq(Messages)
    BY <1>1, <1>6, Transmitted
  <2>2. UNCHANGED <<link, rcvTimeout, rsp, rest, late, m_sessionID>>
    BY <1>6 DEF Transmit
  <2> QED  BY <1>1, <2>1, <2>2
<1>7. CASE OpenSession
  BY <1>6, <1>7 DEF OpenSession
<1>8. CASE Send
  BY <1>6, <1>8 DEF Send, TypeOK, ClientOK
<1>9. CASE CloseSession
  BY <1>2, <1>6, <1>9 DEF CloseSession
<1>10. CASE SessionOpened
  <2>1. Tail(rsp) \in Seq(Messages) /\ Head(rsp).sid \in 0 .. MaxOpens
    BY <1>1, <1>10, TakenFirst DEF SessionOpened, Messages
  <2> QED  BY <1>1, <1>10, <2>1 DEF SessionOpened
<1>11. CASE Receive \/ Misread \/ Misled \/ ReceiveFails \/ SessionClosed
  <2>1. rsp' \in Seq(Messages)
    BY <1>1, <1>11, LeftOver
  <2>2. UNCHANGED <<ids, req, link, rcvTimeout>> /\ late' \in {late, TRUE} /\ rest' \in BOOLEAN
    BY <1>1, <1>11 DEF Receive, Misread, Misled, ReceiveFails, TakenInPart, SessionClosed, network
  <2> QED  BY <1>1, <2>1, <2>2 DEF ids
<1>13. ASSUME NEW kind \in {"session", "OK", "SESSION_UNKNOWN_ID"}, NEW sid \in 0 .. MaxOpens,
              Answer(kind, sid)
       PROVE  NetworkOK'
  <2>1. Message(kind, sid, Head(req).rid, Head(req).n) \in Messages /\ Tail(req) \in Seq(Messages)
    BY <1>1, <1>13, TakenFirst DEF Answer, Message, Messages
  <2>2. req' \in Seq(Messages) /\ rsp' \in Seq(Messages)
    BY <1>1, <1>13, <2>1, AddedLast DEF Answer
  <2> QED  BY <1>1, <1>13, <2>2 DEF Answer, ids
<1>14. CASE DeviceOpens
  BY <1>13, <1>14 DEF DeviceOpens, TypeOK, ObjectsOK
<1>15. CASE DeviceExecutes \/ DeviceRejects \/ DeviceCloses
  <2>1. Head(req).sid \in 0 .. MaxOpens
    BY <1>1, <1>15, TakenFirst DEF DeviceExecutes, DeviceRejects, DeviceCloses, Messages
  <2> QED  BY <1>13, <1>15, <2>1 DEF DeviceExecutes, DeviceRejects, DeviceCloses
<1>16. CASE LinkBreaks
  <2>1. req' \in Seq(Messages) /\ rsp' \in Seq(Messages)
    <3>1. req' = <<>> /\ (rsp' = rsp \/ rsp' = <<>>)
      BY <1>16 DEF LinkBreaks
    <3>2. <<>> \in Seq(Messages)
      OBVIOUS
    <3> QED  BY <1>1, <3>1, <3>2
  <2>2. /\ link' = "down" /\ UNCHANGED <<m_sessionID, m_reqID, rcvTimeout, late>>
        /\ rest' \in {rest, FALSE}
    BY <1>16 DEF LinkBreaks, ids
  <2> QED  BY <1>1, <2>1, <2>2 DEF Links
<1>17. CASE LinkComesUp
  BY <1>1, <1>17 DEF LinkComesUp, ids, Links
<1>18. CASE SendUnopened \/ SendDangling \/ Return \/ CallSend \/ CallClose \/ SessionExpires
            \/ UNCHANGED vars
  BY <1>2, <1>18 DEF SendUnopened, SendDangling, Return, CallSend, CallClose, SessionExpires, vars
<1> QED  BY <1>4, <1>5, <1>7, <1>8, <1>9, <1>10, <1>11, <1>14, <1>15, <1>16, <1>17, <1>18
         DEF Next, Client, User, Environment, Crashed, Connect, ConnectTimesOut, Links

LEMMA TypeStep == ASSUME TypeOK, Flow, [Next]_vars PROVE TypeOK'
  BY ObjectsStep, ClientTypeStep, NetworkStep, DeviceStep DEF TypeOK

-----------------------------------------------------------------------------
(* Every step keeps what may be under way *)

LEMMA FlowStep == ASSUME TypeOK, Flow, Closing, [Next]_vars PROVE Flow'
<1> USE DEF Flow, RequestOK, AnswerOK
<1>1. req \in Seq(Messages) /\ rsp \in Seq(Messages) /\ calls \in Nat
  BY DEF TypeOK, NetworkOK, ClientOK
<1>2. CASE UNCHANGED <<req, rsp, calls, pc>>
  BY <1>2
<1>3. CASE req' = <<>> /\ rsp' = <<>>
  BY <1>3
<1>4. CASE CallOpen \/ ConnectFails \/ SessionNotOpened \/ Reconnect \/ CloseRest
  BY <1>3, <1>4 DEF CallOpen, ConnectFails, SessionNotOpened, Reconnect, CloseRest, DropConnection,
     OpenFails, Disconnect
<1>5. CASE ~Opening /\ ~Opening' /\ UNCHANGED <<req, rsp>> /\ calls' \in {calls, calls + 1}
  BY <1>1, <1>5 DEF Opening
<1>6. CASE SendUnopened \/ SendDangling \/ Return \/ CallSend \/ CallClose
  BY <1>5, <1>6 DEF SendUnopened, SendDangling, Return, CallSend, CallClose, Goto,
     Opening, network
<1>7. ASSUME NEW l, ConnectAs(l) PROVE Flow'
  BY <1>3, <1>7 DEF ConnectAs
<1>8. ASSUME NEW kind \in {"open", "command", "end"}, NEW n \in 0 .. MaxCalls, Transmit(kind, n),
             UNCHANGED calls, pc' \notin {"connect", "openSession"},
             kind = "command" => n \in 1 .. calls,
             \/ pc = "openSession" /\ pc' = "awaitSession" /\ kind = "open"
             \/ ~Opening /\ ~Opening' /\ kind # "open"
      PROVE  Flow'
  <2> DEFINE m == Message(kind, m_sessionID, m_reqID', n)
  <2>1. m \in Messages /\ m.kind = kind /\ m.n = n /\ rsp' = rsp
    BY <1>8, Transmitted DEF TypeOK, Message, Transmit
  <2>2. req' = req \/ req' = Append(req, m)
    BY <1>8, Transmitted DEF TypeOK
  <2> HIDE DEF m
  <2>3. /\ Len(req') <= Len(req) + 1
        /\ \A i \in 1 .. Len(req') : (i \in 1 .. Len(req) /\ req'[i] = req[i]) \/ req'[i] = m
    BY <1>1, <2>1, <2>2, AddedLast, SMTT(30)
  <2> QED  BY <1>1, <1>8, <2>1, <2>3 DEF Opening
<1>9. CASE OpenSession
  BY <1>8, <1>9 DEF OpenSession, Goto
<1>10. CASE Send
  <2>1. calls \in 1 .. calls /\ calls \in 0 .. MaxCalls
    BY <1>1, <1>10 DEF Send, Goto, Closing, Sending, TypeOK, ClientOK
  <2> QED  BY <1>8, <1>10, <2>1 DEF Send, Goto, Opening
<1>11. CASE CloseSession
  BY <1>5, <1>8, <1>11 DEF CloseSession, Opening, network
<1>12. CASE SessionOpened
  <2>1. rsp # <<>> /\ Len(req) + Len(rsp) <= 1
    BY <1>12 DEF SessionOpened
  <2>2. Len(Tail(rsp)) = Len(rsp) - 1 /\ Len(rsp) >= 1 /\ Tail(rsp) \in Seq(Messages)
    BY <1>1, <2>1, TakenFirst
  <2>3. Len(req) \in Nat /\ Len(rsp) \in Nat
    BY <1>1
  <2>4. Len(req) = 0 /\ Len(Tail(rsp)) = 0
    BY <2>1, <2>2, <2>3
  <2>5. req = <<>> /\ Tail(rsp) = <<>>
    BY <1>1, <2>2, <2>4, EmptySeq
  <2> QED  BY <1>3, <1>12, <2>5 DEF SessionOpened
<1>13. CASE Receive \/ Misread \/ Misled \/ ReceiveFails \/ SessionClosed
  <2>1. ~Opening /\ ~Opening' /\ UNCHANGED <<req, calls>>
    BY <1>13 DEF Receive, Misread, Misled, ReceiveFails, SessionClosed, Goto, Opening, network
  <2>2. \A i \in 1 .. Len(rsp') : \E j \in 1 .. Len(rsp) : rsp'[i] = rsp[j]
    BY <1>1, <1>13, LeftOver
  <2> QED  BY <1>1, <2>1, <2>2 DEF Opening
<1>14. ASSUME NEW kind \in {"session", "OK", "SESSION_UNKNOWN_ID"}, NEW sid \in 0 .. MaxOpens,
              Answer(kind, sid), kind = "session" <=> pc = "awaitSession"
       PROVE  Flow'
  <2> DEFINE m == Message(kind, sid, Head(req).rid, Head(req).n)
  <2>1. m \in Messages /\ m.kind = kind
    BY <1>1, <1>14, TakenFirst DEF Answer, Message, Messages
  <2> HIDE DEF m
  <2>2. req # <<>> /\ req' = Tail(req) /\ rsp' = Append(rsp, m) /\ UNCHANGED <<pc, calls>>
    BY <1>14 DEF Answer, m, control
  <2>3. \A i \in 1 .. Len(rsp') : (i \in 1 .. Len(rsp) /\ rsp'[i] = rsp[i]) \/ rsp'[i] = m
    BY <1>1, <2>1, <2>2, AddedLast
  <2>4. Len(req') + Len(rsp') = Len(req) + Len(rsp) /\ Len(req) > 0
    BY <1>1, <2>1, <2>2, AddedLast, TakenFirst
  <2>5. \A i \in 1 .. Len(req') : RequestOK(req[i + 1]) /\ req'[i] = req[i + 1]
    BY <1>1, <2>2, TakenFirst
  <2>6. pc \notin {"connect", "openSession"}
    BY <2>2
  <2> QED  BY <1>14, <2>1, <2>2, <2>3, <2>4, <2>5, <2>6
<1>15. CASE DeviceOpens
  BY <1>1, <1>14, <1>15, TakenFirst DEF DeviceOpens, TypeOK, ObjectsOK
<1>16. CASE DeviceExecutes \/ DeviceRejects \/ DeviceCloses
  <2>1. Head(req).sid \in 0 .. MaxOpens /\ pc # "awaitSession"
    BY <1>1, <1>16, TakenFirst DEF DeviceExecutes, DeviceRejects, DeviceCloses, Messages
  <2> QED  BY <1>14, <1>16, <2>1 DEF DeviceExecutes, DeviceRejects, DeviceCloses
<1>17. CASE LinkBreaks
  <2>1. req' = <<>> /\ (rsp' = rsp \/ rsp' = <<>>) /\ UNCHANGED <<pc, calls>>
    BY <1>17 DEF LinkBreaks, control
  <2> QED  BY <1>1, <2>1
<1>18. CASE SessionExpires \/ LinkComesUp \/ UNCHANGED vars
  BY <1>2, <1>18 DEF SessionExpires, LinkComesUp, vars, control, network
<1> QED  BY <1>4, <1>6, <1>7, <1>9, <1>10, <1>11, <1>12, <1>13, <1>15, <1>16, <1>17, <1>18
         DEF Next, Client, User, Environment, Crashed, Connect, ConnectTimesOut

-----------------------------------------------------------------------------
(* Every step keeps the objects together *)

LEMMA ClosingStep == ASSUME TypeOK, Closing, [Next]_vars PROVE Closing'
<1> USE DEF Closing, Sending, Opening
<1>1. calls \in Nat
  BY DEF TypeOK, ClientOK
<1>2. CASE UNCHANGED <<pc, op, calls, m_pAuthentication>>
  BY <1>2
<1>3. CASE CallOpen \/ CallSend \/ CallClose
  BY <1>1, <1>3 DEF CallOpen, CallSend, CallClose, Goto, objects
<1>4. ASSUME NEW l, ConnectAs(l) PROVE Closing'
  BY <1>4 DEF ConnectAs, Install, objects
<1>5. CASE ConnectFails \/ SessionNotOpened
  BY <1>5 DEF ConnectFails, SessionNotOpened, OpenFails
<1>6. CASE OpenSession \/ SessionOpened
  BY <1>6 DEF OpenSession, SessionOpened, Install, Goto, objects
<1>7. CASE SendUnopened \/ SendDangling \/ Send \/ Receive \/ Misread \/ Misled \/ ReceiveFails
  BY <1>7 DEF SendUnopened, SendDangling, Send, Receive, Misread, Misled, ReceiveFails, Goto, objects
<1>8. CASE Reconnect \/ Return
  BY <1>8 DEF Reconnect, Return, DropConnection, Goto
<1>9. CASE CloseSession \/ SessionClosed \/ CloseRest
  BY <1>9 DEF CloseSession, SessionClosed, CloseRest, Goto, objects
<1>10. CASE Environment \/ UNCHANGED vars
  <2>1. UNCHANGED <<pc, op, calls, m_pAuthentication>>
    BY <1>10 DEF Environment, DeviceOpens, DeviceExecutes, DeviceRejects, DeviceCloses, Answer,
       SessionExpires, LinkBreaks, LinkComesUp, vars, control, objects
  <2> QED  BY <1>2, <2>1
<1> QED  BY <1>3, <1>4, <1>5, <1>6, <1>7, <1>8, <1>9, <1>10
         DEF Next, Client, User, Crashed, Connect, ConnectTimesOut

LEMMA WholeStep == ASSUME ConnectionIsWhole, [Next]_vars PROVE ConnectionIsWhole'
<1> USE DEF ConnectionIsWhole
<1>1. CASE UNCHANGED objects
  BY <1>1 DEF objects
<1>2. CASE CallOpen \/ Reconnect \/ CloseRest
  BY <1>2 DEF CallOpen, Reconnect, DropConnection, CloseRest
<1>3. ASSUME NEW l, ConnectAs(l) PROVE ConnectionIsWhole'
  BY <1>1, <1>3 DEF ConnectAs, Install
<1>4. CASE SessionOpened
  BY <1>4 DEF SessionOpened, Install
<1>5. CASE ConnectFails \/ SessionNotOpened \/ Return
  BY <1>5 DEF ConnectFails, SessionNotOpened, OpenFails, Return
<1>6. CASE OpenSession \/ SendUnopened \/ SendDangling \/ Send \/ Receive \/ Misread \/ Misled \/ ReceiveFails
           \/ CloseSession \/ SessionClosed \/ CallSend \/ CallClose
  BY <1>1, <1>6 DEF OpenSession, SendUnopened, SendDangling, Send, Receive, Misread, Misled, ReceiveFails,
     CloseSession, SessionClosed, CallSend, CallClose
<1>7. CASE Environment \/ UNCHANGED vars
  BY <1>1, <1>7 DEF Environment, DeviceOpens, DeviceExecutes, DeviceRejects, DeviceCloses, Answer,
     SessionExpires, LinkBreaks, LinkComesUp, vars
<1> QED  BY <1>2, <1>3, <1>4, <1>5, <1>6, <1>7
         DEF Next, Client, User, Crashed, Connect, ConnectTimesOut

LEMMA ClosesStep == ASSUME Closing, CloseCloses, [Next]_vars PROVE CloseCloses'
<1> USE DEF CloseCloses
<1>1. CASE UNCHANGED <<pc, op, objects, link>>
  BY <1>1 DEF objects
<1>2. CASE pc' # "idle" \/ op' # "close"
  BY <1>2
<1>3. CASE CloseRest
  BY <1>3 DEF CloseRest, Closing, Disconnect, Goto
<1>4. CASE User
  BY <1>2, <1>4 DEF User, CallOpen, CallSend, CallClose, Goto
<1>5. CASE Client /\ ~CloseRest
  <2>1. pc' # "idle" \/ op' # "close"
    BY <1>5 DEF Client, Connect, ConnectTimesOut, ConnectAs, Install, ConnectFails, OpenFails,
       OpenSession, SessionOpened, SessionNotOpened, SendUnopened, SendDangling, Send, Receive,
       Misread, Misled, ReceiveFails, Reconnect, Return, CloseSession, SessionClosed, Goto, Closing, Opening, Sending
  <2> QED  BY <1>2, <2>1
<1>6. CASE LinkBreaks \/ LinkComesUp
  BY <1>6 DEF LinkBreaks, LinkComesUp, control, objects
<1>7. CASE DeviceOpens \/ DeviceExecutes \/ DeviceRejects \/ DeviceCloses \/ SessionExpires \/ UNCHANGED vars
  BY <1>1, <1>7 DEF DeviceOpens, DeviceExecutes, DeviceRejects, DeviceCloses, Answer, SessionExpires,
     vars, control, network
<1> QED  BY <1>3, <1>4, <1>5, <1>6, <1>7 DEF Next, Environment, Crashed

-----------------------------------------------------------------------------
(* Every step keeps account of the executions *)

\* The command the device executes is at most the second copy, and that only
\* of a command sent again.
LEMMA Executed ==
  ASSUME TypeOK, Flow, Copies, DeviceExecutes
  PROVE  /\ Head(req).n \in 1 .. calls /\ Head(req).n \in 1 .. MaxCalls
         /\ executed[Head(req).n] \in Nat /\ executed[Head(req).n] <= 1
         /\ executed[Head(req).n] = 1 => m_autoReconnect /\ (Sending /\ Head(req).n = calls => resent)
         /\ pc = "send" => Head(req).n # calls
         /\ ~Opening
         /\ UNCHANGED <<params, control, calls>>
         /\ executed' = [executed EXCEPT ![Head(req).n] = @ + 1]
<1>1. req \in Seq(Messages) /\ calls \in 0 .. MaxCalls /\ executed \in [1 .. MaxCalls -> Nat]
  BY DEF TypeOK, NetworkOK, ClientOK, DeviceOK
<1>2. req # <<>> /\ Head(req).kind = "command"
  BY DEF DeviceExecutes
<1>3. Head(req) = req[1] /\ 1 \in 1 .. Len(req)
  BY <1>1, <1>2, TakenFirst
<1>4. Head(req).n \in 1 .. calls /\ ~Opening
  BY <1>2, <1>3 DEF Flow, RequestOK, Opening
<1>5. /\ executed[Head(req).n] <= 1
      /\ executed[Head(req).n] = 1 => m_autoReconnect /\ (Sending /\ Head(req).n = calls => resent)
      /\ pc = "send" => Head(req).n # calls
  BY <1>2, <1>3 DEF Copies, CopyOK
<1> QED  BY <1>1, <1>4, <1>5 DEF DeviceExecutes, Answer

LEMMA CountsStep == ASSUME TypeOK, Flow, Closing, Counts, Copies, [Next]_vars PROVE Counts'
<1> USE DEF Counts, Sending, Opening
<1>1. calls \in 0 .. MaxCalls /\ executed \in [1 .. MaxCalls -> Nat]
  BY DEF TypeOK, ClientOK, DeviceOK
<1>2. CASE UNCHANGED <<pc, op, resent, m_autoReconnect, calls, executed>>
  BY <1>2
<1>3. CASE CallOpen
  BY <1>3 DEF CallOpen, Goto, device
<1>4. CASE (CallSend \/ CallClose) /\ calls' = calls + 1
  <2>1. executed[calls + 1] = 0 /\ calls + 1 \in 1 .. MaxCalls
    BY <1>1, <1>4 DEF CallSend, CallClose
  <2>2. pc' = "send" /\ resent' = FALSE /\ executed' = executed
    BY <1>1, <1>4 DEF CallSend, CallClose, Goto, device
  <2> QED  BY <1>1, <1>4, <2>1, <2>2
<1>5. CASE CallClose /\ calls' = calls
  <2>1. pc' = "closeSession" /\ resent' = FALSE /\ executed' = executed
    BY <1>1, <1>5 DEF CallClose, device
  <2> QED  BY <1>5, <2>1
<1>6. ASSUME NEW l, ConnectAs(l) PROVE Counts'
  BY <1>6 DEF ConnectAs, Install, params, device
<1>7. CASE OpenSession \/ SessionOpened
  BY <1>7 DEF OpenSession, SessionOpened, Install, Goto, params, device
<1>8. CASE ConnectFails \/ SessionNotOpened
  BY <1>8 DEF ConnectFails, SessionNotOpened, OpenFails, params, device
<1>9. CASE SendUnopened \/ SendDangling \/ Send \/ Receive \/ Misread \/ Misled \/ ReceiveFails
  <2>1. UNCHANGED <<op, resent, m_autoReconnect, calls, executed>>
    BY <1>9 DEF SendUnopened, SendDangling, Send, Receive, Misread, Misled, ReceiveFails, params, device
  <2>2. pc \in {"send", "await"} /\ pc' \in {"await", "check", "misled", "crashed"}
    BY <1>9 DEF SendUnopened, SendDangling, Send, Receive, Misread, Misled, ReceiveFails, Goto
  <2>3. executed[calls] \in Nat /\ executed[calls] <= 2
    BY <1>1, <2>2 DEF Closing
  <2> QED  BY <1>1, <2>1, <2>2, <2>3
<1>10. CASE Reconnect
  <2>1. pc = "check" /\ pc' = "connect" /\ ~resent /\ resent' /\ m_autoReconnect
    BY <1>10 DEF Reconnect, Goto
  <2>2. UNCHANGED <<m_autoReconnect, op, calls, executed>>
    BY <1>10 DEF Reconnect, params, device
  <2> QED  BY <2>1, <2>2
<1>11. CASE Return \/ CloseSession \/ SessionClosed \/ CloseRest
  BY <1>11 DEF Return, CloseSession, SessionClosed, CloseRest, Goto, params, device
<1>12. CASE DeviceExecutes
  <2> DEFINE k == Head(req).n
  <2>1. /\ k \in 1 .. calls /\ executed[k] <= 1 /\ (Sending /\ executed[k] = 1 /\ k = calls => resent)
        /\ pc = "send" => k # calls
        /\ ~Opening /\ UNCHANGED <<m_autoReconnect, pc, op, resent, calls>>
        /\ executed' = [executed EXCEPT ![k] = @ + 1]
    BY <1>12, Executed DEF params, control
  <2> HIDE DEF k
  <2>2. k \in 1 .. MaxCalls /\ executed[k] \in Nat
    BY <1>1, <2>1
  <2>3. Sending => executed'[calls] <= (IF resent /\ pc # "send" THEN 2 ELSE 1)
    <3>1. CASE k = calls
      BY <1>1, <2>1, <2>2, <3>1
    <3>2. CASE k # calls
      BY <1>1, <2>1, <2>2, <3>2
    <3> QED  BY <3>1, <3>2
  <2>4. \A n \in 1 .. MaxCalls : n > calls => executed'[n] = 0
    BY <1>1, <2>1, <2>2
  <2>5. pc = "send" /\ executed'[calls] = 1 => resent
    BY <1>1, <2>1, <2>2
  <2> QED  BY <2>1, <2>3, <2>4, <2>5
<1>13. CASE DeviceOpens \/ DeviceRejects \/ DeviceCloses \/ SessionExpires \/ LinkBreaks
            \/ LinkComesUp \/ UNCHANGED vars
  BY <1>2, <1>13 DEF DeviceOpens, DeviceRejects, DeviceCloses, Answer, SessionExpires, LinkBreaks,
     LinkComesUp, vars, params, control, device
<1>14. CASE CallSend \/ CallClose
  BY <1>4, <1>5, <1>14 DEF CallSend, CallClose
<1> QED  BY <1>3, <1>6, <1>7, <1>8, <1>9, <1>10, <1>11, <1>12, <1>13, <1>14
         DEF Next, Client, User, Environment, Crashed, Connect, ConnectTimesOut

LEMMA CopiesStep == ASSUME TypeOK, Flow, Closing, Counts, Copies, [Next]_vars PROVE Copies'
<1> USE DEF Copies, CopyOK, Sending
<1>1. /\ req \in Seq(Messages) /\ calls \in 0 .. MaxCalls /\ executed \in [1 .. MaxCalls -> Nat]
      /\ Len(req) \in Nat
  BY DEF TypeOK, NetworkOK, ClientOK, DeviceOK
<1>2. \A i \in 1 .. Len(req) : req[i].kind = "command" => req[i].n \in 1 .. calls
  BY DEF Flow, RequestOK
<1>3. CASE req' = <<>>
  BY <1>3
\* What is still under way was under way before.
<1>4. CASE /\ req' = req \/ (req # <<>> /\ req' = Tail(req))
           /\ UNCHANGED <<executed, m_autoReconnect>>
           /\ \/ UNCHANGED <<calls, resent>> /\ (Sending' => Sending) /\ (pc' = "send" => pc = "send")
              \/ UNCHANGED calls /\ ~Sending'
              \/ calls' = calls + 1
  <2>1. PICK d \in {0, 1} : /\ Len(req') = Len(req) - d
                            /\ \A i \in 1 .. Len(req') : i + d \in 1 .. Len(req) /\ req'[i] = req[i + d]
    BY <1>1, <1>4, TakenFirst
  <2>2. ASSUME NEW i \in 1 .. Len(req'), req'[i].kind = "command" PROVE CopyOK(req[i])'
    <3>1. CopyOK(req[i + d]) /\ req'[i] = req[i + d] /\ req[i + d].n \in 1 .. calls
      BY <1>2, <2>1, <2>2
    <3> QED  BY <1>1, <1>4, <3>1
  <2>3. \A i, j \in 1 .. Len(req') :
          req'[i].kind = "command" /\ req'[j].kind = "command" /\ req'[i].n = req'[j].n => i + d = j + d
    BY <2>1
  <2> QED  BY <2>1, <2>2, <2>3
<1>5. CASE CallSend \/ CallClose
  <2>1. req' = req /\ UNCHANGED <<executed, m_autoReconnect>>
    BY <1>5 DEF CallSend, CallClose, network, device, params
  <2>2. calls' = calls + 1 \/ (UNCHANGED calls /\ ~Sending')
    BY <1>5 DEF CallSend, CallClose
  <2> QED  BY <1>4, <2>1, <2>2
<1>6. CASE CallOpen \/ ConnectFails \/ SessionNotOpened \/ Reconnect \/ CloseRest \/ LinkBreaks
  BY <1>3, <1>6 DEF CallOpen, ConnectFails, SessionNotOpened, Reconnect, CloseRest, LinkBreaks,
     DropConnection, OpenFails, Disconnect
<1>7. ASSUME NEW l, ConnectAs(l) PROVE Copies'
  BY <1>3, <1>7 DEF ConnectAs, Flow
<1>8. CASE OpenSession
  <2> DEFINE m == Message("open", m_sessionID, m_reqID', 0)
  <2>1. m \in Messages /\ m.kind = "open" /\ (req' = req \/ req' = Append(req, m))
    BY <1>8, Transmitted DEF OpenSession, TypeOK, Message
  <2>2. req = <<>>
    BY <1>8 DEF OpenSession, Goto, Flow
  <2>3. \A i \in 1 .. Len(req') : req'[i].kind = "open"
    BY <1>1, <2>1, <2>2, AddedLast
  <2> QED  BY <2>3
<1>9. CASE SessionOpened
  <2>1. req' = req /\ pc = "awaitSession"
    BY <1>9 DEF SessionOpened
  <2> QED  BY <2>1 DEF Flow, RequestOK
<1>10. CASE Send
  <2> DEFINE m == Message("command", m_sessionID, m_reqID', calls)
  <2>1. m \in Messages /\ m.kind = "command" /\ m.n = calls /\ (req' = req \/ req' = Append(req, m))
    BY <1>1, <1>10, Transmitted DEF Send, TypeOK, Message
  <2> HIDE DEF m
  <2>2. /\ pc = "send" /\ pc' = "await" /\ UNCHANGED <<executed, calls, resent, m_autoReconnect>>
        /\ calls \in 1 .. MaxCalls /\ executed[calls] <= 1 /\ (executed[calls] = 1 => resent /\ m_autoReconnect)
    BY <1>1, <1>10 DEF Send, Goto, params, device, Closing, Counts
  <2>3. CASE req' = req
    BY <2>2, <2>3
  <2>4. CASE req' = Append(req, m)
    <3>1. /\ Len(req') = Len(req) + 1 /\ req'[Len(req) + 1] = m
          /\ \A i \in 1 .. Len(req) : req'[i] = req[i]
      BY <1>1, <2>1, <2>4, AddedLast
    <3>2. \A i \in 1 .. Len(req) : req[i].kind = "command" => req[i].n # calls
      BY <2>2
    <3>3. ASSUME NEW i \in 1 .. Len(req'), req'[i].kind = "command" PROVE CopyOK(req[i])'
      <4>1. CASE i \in 1 .. Len(req)
        BY <2>2, <3>1, <3>3, <4>1
      <4>2. CASE i = Len(req) + 1
        BY <2>1, <2>2, <3>1, <4>2
      <4> QED  BY <1>1, <3>1, <4>1, <4>2
    <3>4. \A i, j \in 1 .. Len(req') :
            req'[i].kind = "command" /\ req'[j].kind = "command" /\ req'[i].n = req'[j].n => i = j
      BY <1>1, <2>1, <3>1, <3>2, SMTT(30)
    <3> QED  BY <3>3, <3>4
  <2> QED  BY <2>1, <2>3, <2>4
<1>11. CASE CloseSession
  <2>1. CASE UNCHANGED network
    BY <1>4, <1>11, <2>1 DEF CloseSession, network, device, params
  <2>2. CASE Transmit("end", 0)
    <3> DEFINE m == Message("end", m_sessionID, m_reqID', 0)
    <3>1. m \in Messages /\ m.kind = "end" /\ (req' = req \/ req' = Append(req, m))
      BY <2>2, Transmitted DEF TypeOK, Message
    <3> HIDE DEF m
    <3>2. ~Sending' /\ UNCHANGED <<executed, calls, m_autoReconnect>>
      BY <1>11 DEF CloseSession, device, params
    <3>3. \A i \in 1 .. Len(req') : req'[i].kind = "command" => i \in 1 .. Len(req) /\ req'[i] = req[i]
      BY <1>1, <3>1, AddedLast, SMTT(20)
    <3> QED  BY <3>2, <3>3
  <2> QED  BY <1>11, <2>1, <2>2 DEF CloseSession
<1>12. CASE SendUnopened \/ SendDangling \/ Receive \/ Misread \/ Misled \/ ReceiveFails \/ Return \/ SessionClosed
  <2>1. UNCHANGED <<req, executed, m_autoReconnect, calls, resent>>
    BY <1>12 DEF SendUnopened, SendDangling, Receive, Misread, Misled, ReceiveFails, Return, SessionClosed, network,
       device, params
  <2>2. (Sending' => Sending) /\ pc' # "send"
    BY <1>12 DEF SendUnopened, SendDangling, Receive, Misread, Misled, ReceiveFails, Return, SessionClosed, Goto
  <2> QED  BY <1>4, <2>1, <2>2
<1>13. CASE DeviceExecutes
  <2>1. /\ req # <<>> /\ req' = Tail(req) /\ Head(req).kind = "command"
        /\ UNCHANGED <<m_autoReconnect, pc, calls, resent>>
        /\ executed' = [executed EXCEPT ![Head(req).n] = @ + 1]
    BY <1>13 DEF DeviceExecutes, Answer, params, control
  <2>2. /\ Head(req) = req[1] /\ 1 \in 1 .. Len(req) /\ Len(req') = Len(req) - 1
        /\ \A i \in 1 .. Len(req') : i + 1 \in 1 .. Len(req) /\ req'[i] = req[i + 1]
    BY <1>1, <2>1, TakenFirst
  <2>3. \A i \in 1 .. Len(req') : req'[i].kind = "command" =>
          req'[i].n # req[1].n /\ executed'[req'[i].n] = executed[req'[i].n]
    BY <1>1, <1>2, <2>1, <2>2
  <2>4. ASSUME NEW i \in 1 .. Len(req'), req'[i].kind = "command" PROVE CopyOK(req[i])'
    <3>1. CopyOK(req[i + 1]) /\ req'[i] = req[i + 1]
      BY <2>2, <2>4
    <3>2. executed'[req'[i].n] = executed[req'[i].n]
      BY <2>3, <2>4
    <3> QED  BY <2>1, <3>1, <3>2
  <2>5. ASSUME NEW i \in 1 .. Len(req'), NEW j \in 1 .. Len(req'),
               req'[i].kind = "command", req'[j].kind = "command", req'[i].n = req'[j].n
        PROVE  i = j
    <3>1. i + 1 = j + 1
      BY <2>2, <2>5
    <3> QED  BY <3>1
  <2> QED  BY <2>4, <2>5
<1>14. CASE DeviceOpens \/ DeviceRejects \/ DeviceCloses
  <2>1. req # <<>> /\ req' = Tail(req) /\ UNCHANGED <<executed, m_autoReconnect, calls, resent, pc>>
    BY <1>14 DEF DeviceOpens, DeviceRejects, DeviceCloses, Answer, params, control, device
  <2> QED  BY <1>4, <2>1
<1>15. CASE SessionExpires \/ LinkComesUp \/ UNCHANGED vars
  <2>1. UNCHANGED <<req, executed, m_autoReconnect, calls, resent, pc>>
    BY <1>15 DEF SessionExpires, LinkComesUp, vars, params, control, network, device
  <2> QED  BY <1>4, <2>1
<1> QED  BY <1>5, <1>6, <1>7, <1>8, <1>9, <1>10, <1>11, <1>12, <1>13, <1>14, <1>15
         DEF Next, Client, User, Environment, Crashed, Connect, ConnectTimesOut

-----------------------------------------------------------------------------
(* Theorems *)

\* A step changes how often a command was executed only when the device
\* executes it.
LEMMA ExecutedStep ==
  ASSUME IInv, [Next]_vars, NEW n \in 1 .. MaxCalls, executed'[n] # executed[n]
  PROVE  executed'[n] <= (IF m_autoReconnect THEN 2 ELSE 1)
<1>1. TypeOK /\ Flow /\ Copies
  BY DEF IInv
<1>2. CASE DeviceExecutes
  <2>1. /\ Head(req).n \in 1 .. MaxCalls /\ executed \in [1 .. MaxCalls -> Nat]
        /\ executed' = [executed EXCEPT ![Head(req).n] = @ + 1]
        /\ executed[Head(req).n] <= 1 /\ (executed[Head(req).n] = 1 => m_autoReconnect)
    BY <1>1, <1>2, Executed DEF TypeOK, DeviceOK
  <2>2. n = Head(req).n /\ executed'[n] = executed[n] + 1 /\ executed[n] \in Nat
    BY <2>1
  <2> QED  BY <2>1, <2>2
<1>3. CASE UNCHANGED executed
  BY <1>3
<1>4. CASE Client \/ User
  <2>1. UNCHANGED executed
    BY <1>4 DEF Client, User, Connect, ConnectTimesOut, ConnectAs, ConnectFails, OpenSession,
       SessionOpened, SessionNotOpened, SendUnopened, SendDangling, Send, Receive, Misread, Misled, ReceiveFails,
       Reconnect, Return, CloseSession, SessionClosed, CloseRest, CallOpen, CallSend, CallClose, device
  <2> QED  BY <1>3, <2>1
<1>5. CASE DeviceOpens \/ DeviceRejects \/ DeviceCloses \/ SessionExpires \/ LinkBreaks
           \/ LinkComesUp \/ UNCHANGED vars
  BY <1>3, <1>5 DEF DeviceOpens, DeviceRejects, DeviceCloses, SessionExpires, LinkBreaks, LinkComesUp,
     vars, device
<1> QED  BY <1>2, <1>4, <1>5 DEF Next, Environment, Crashed

LEMMA IInvStep == IInv /\ [Next]_vars => IInv'
  BY TypeStep, FlowStep, ClosingStep, CountsStep, CopiesStep, WholeStep, ClosesStep DEF IInv

\* The inductive invariant holds in every state of every behaviour.
THEOREM Inductive == Spec => []IInv
<1>1. Init => IInv
  BY InitSafe
<1>2. IInv /\ [Next]_vars => IInv'
  BY IInvStep
<1> QED  BY <1>1, <1>2, PTL DEF Spec

\* Every variable keeps its type; the request id stays within its two bytes.
THEOREM TypeCorrect == Spec => []TypeOK
<1>1. IInv => TypeOK
  BY DEF IInv
<1> QED  BY <1>1, Inductive, PTL

\* However often the connection is made again, the objects of one open() are
\* never mixed with those of another.
THEOREM StaysWhole == Spec => []ConnectionIsWhole
<1>1. IInv => ConnectionIsWhole
  BY DEF IInv
<1> QED  BY <1>1, Inductive, PTL

\* close() leaves no connection and no object, even when its own logout made a
\* new connection.
THEOREM CloseLeavesNothing == Spec => []CloseCloses
<1>1. IInv => CloseCloses
  BY DEF IInv
<1> QED  BY <1>1, Inductive, PTL

\* Whatever is lost, however often the connection breaks and however many
\* commands are sent: no command is executed more than twice, and none more
\* than once without autoReconnect.
THEOREM AtMostTwice == Spec => ExecutedAtMostTwice
<1>1. IInv /\ [Next]_vars =>
        [\A n \in 1 .. MaxCalls :
           executed'[n] # executed[n] => executed'[n] <= (IF m_autoReconnect THEN 2 ELSE 1)]_vars
  BY ExecutedStep
<1> QED  BY <1>1, Inductive, PTL DEF Spec, ExecutedAtMostTwice

=============================================================================
