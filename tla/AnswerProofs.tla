---------------------------- MODULE AnswerProofs ----------------------------
(***************************************************************************)
(* Which command the answer that sendCommand returns belongs to, for any   *)
(* number of connections and calls, as long as the request ids do not wrap *)
(* within one connection (BoundsAssumption).                               *)
(*                                                                         *)
(* CoLa 2: the id of a message that is under way lies as far behind the    *)
(* newest one as there were calls since, and at least one behind once a    *)
(* newer command was written (Numbered).  CoLa B: unless a receive failed, *)
(* only the current command is under way, and only while it is awaited     *)
(* (Quiet).                                                                *)
(***************************************************************************)
EXTENDS VisionaryControlProofs

USE ProtocolsAssumption, BoundsAssumption

\* How many ids a message lies behind the newest of its connection.
Behind(m) == IF m.rid <= m_reqID THEN m_reqID - m.rid ELSE m_reqID + ReqIdModulus - m.rid

Ending == pc \in {"awaitClose", "closeRest"}

NumberedMessage(m) ==
  /\ m.n <= calls
  /\ m.n = 0 => pc = "awaitSession" \/ Ending
  /\ m_protocolType = "COLA_2" /\ m.n > 0 /\ ~Ending =>
       /\ Behind(m) <= calls - m.n
       /\ pc = "send" => Behind(m) < calls - m.n
       /\ pc # "send" /\ m.n < calls => Behind(m) > 0

Numbered ==
  /\ \A i \in 1 .. Len(req) : NumberedMessage(req[i])
  /\ \A i \in 1 .. Len(rsp) : NumberedMessage(rsp[i])

\* Without a handler nothing is under way.
Unconnected == m_pProtocolHandler = 0 /\ ~Opening => req = <<>> /\ rsp = <<>>

Quiet ==
  ~late /\ ~Opening /\ ~Ending =>
    IF pc = "await"
    THEN /\ Len(req) + Len(rsp) <= 1
         /\ \A i \in 1 .. Len(req) : req[i].n = calls
         /\ \A i \in 1 .. Len(rsp) : rsp[i].n = calls
    ELSE req = <<>> /\ rsp = <<>>

\* A device with CoLa B knows no sessions.
Sessionless ==
  m_protocolType = "COLA_B" =>
    /\ response.err # "SESSION_UNKNOWN_ID"
    /\ \A i \in 1 .. Len(rsp) : rsp[i].kind # "SESSION_UNKNOWN_ID"

HasAnswer == response.err \in {"OK", "SESSION_UNKNOWN_ID"}

OwnAnswer ==
  /\ m_protocolType = "COLA_2" /\ HasAnswer => response.n = calls
  /\ op = "send" /\ HasAnswer /\ response.n # calls => late
  /\ Opening => response.err # "OK"

\* Before the first open().
Unopened ==
  m_protocolType = "INVALID_PROTOCOL" =>
    m_pProtocolHandler = 0 /\ ~m_autoReconnect /\ ~Opening /\ ~HasAnswer

\* Only a receive that failed leaves the rest of a message.
Torn == rest => late

AInv == Unopened /\ Numbered /\ Unconnected /\ Quiet /\ Sessionless /\ OwnAnswer /\ Torn

-----------------------------------------------------------------------------
(* The messages under way *)

LEMMA Types ==
  ASSUME IInv
  PROVE  /\ req \in Seq(Messages) /\ rsp \in Seq(Messages) /\ Len(req) \in Nat /\ Len(rsp) \in Nat
         /\ calls \in 0 .. MaxCalls /\ m_reqID \in 0 .. ReqIdModulus - 1
         /\ \A i \in 1 .. Len(req) : req[i] \in Messages
         /\ \A i \in 1 .. Len(rsp) : rsp[i] \in Messages
  BY DEF IInv, TypeOK, NetworkOK, ClientOK

\* A step that writes no command.
Kept ==
  /\ UNCHANGED <<m_reqID, m_protocolType>>
  /\ \/ UNCHANGED <<pc, calls>>
     \/ UNCHANGED calls /\ Ending'
     \/ UNCHANGED calls /\ ~Ending /\ pc \notin {"awaitSession", "send"} /\ pc' # "send"
     \/ calls' = calls + 1 /\ pc = "idle" /\ pc' = "send"

\* A message that stays under way then keeps its place.
LEMMA StaysNumbered ==
  ASSUME IInv, NEW m \in Messages, NumberedMessage(m), Kept
  PROVE  NumberedMessage(m)'
<1>1. m.n \in Nat /\ m.rid \in Nat /\ calls \in Nat /\ m_reqID \in Nat
  BY Types DEF Messages
<1>2. Behind(m)' = Behind(m)
  BY DEF Behind, Kept
<1>3. CASE UNCHANGED <<pc, calls>>
  BY <1>2, <1>3 DEF NumberedMessage, Ending, Kept
<1>4. CASE UNCHANGED calls /\ Ending'
  BY <1>4 DEF NumberedMessage
<1>5. CASE UNCHANGED calls /\ ~Ending /\ pc \notin {"awaitSession", "send"} /\ pc' # "send"
  BY <1>1, <1>2, <1>5 DEF NumberedMessage, Kept
<1>6. CASE calls' = calls + 1 /\ pc = "idle" /\ pc' = "send"
  <2>1. m.n <= calls /\ m.n > 0 /\ ~Ending
    BY <1>1, <1>6 DEF NumberedMessage, Ending
  <2>2. m_protocolType = "COLA_2" => Behind(m) <= calls - m.n
    BY <2>1 DEF NumberedMessage
  <2>3. m_protocolType = "COLA_2" => Behind(m) < calls' - m.n /\ Behind(m) <= calls' - m.n
    <3>1. Behind(m) \in Int
      BY <1>1 DEF Behind
    <3> QED  BY <1>1, <1>6, <2>2, <3>1
  <2> QED  BY <1>1, <1>2, <1>6, <2>1, <2>3 DEF NumberedMessage, Kept
<1> QED  BY <1>3, <1>4, <1>5, <1>6 DEF Kept

\* A new command puts every other one more behind; it is itself the newest.
LEMMA CommandNumbered ==
  ASSUME IInv, Send, m_protocolType = "COLA_2", NEW m \in Messages, NumberedMessage(m)
  PROVE  NumberedMessage(m)'
<1>1. /\ pc = "send" /\ pc' = "await" /\ UNCHANGED <<calls, m_protocolType>>
      /\ m_reqID' = (m_reqID + 1) % ReqIdModulus
  BY DEF Send, Goto, Transmit, CreateReqId, params
<1>2. /\ calls \in 0 .. MaxCalls /\ m_reqID \in 0 .. ReqIdModulus - 1
      /\ m.n \in Nat /\ m.rid \in 0 .. ReqIdModulus - 1
  BY Types DEF Messages
<1>3. m.n > 0 /\ Behind(m) < calls - m.n
  BY <1>1, <1>2 DEF NumberedMessage, Ending
<1>4. m_reqID' = IF m_reqID + 1 = ReqIdModulus THEN 0 ELSE m_reqID + 1
  BY <1>1, <1>2
<1>5. Behind(m)' = Behind(m) + 1
  BY <1>2, <1>3, <1>4 DEF Behind
<1>6. Behind(m) \in Nat
  BY <1>2 DEF Behind
<1> QED  BY <1>1, <1>2, <1>3, <1>5, <1>6 DEF NumberedMessage, Ending

\* The message a handler writes.
LEMMA Written ==
  ASSUME IInv, NEW kind \in {"open", "command", "end"}, NEW n \in 0 .. MaxCalls, Transmit(kind, n)
  PROVE  /\ rsp' = rsp
         /\ \E m \in Messages : /\ m.kind = kind /\ m.n = n /\ m.rid = m_reqID'
                                /\ req' = req \/ req' = Append(req, m)
<1> DEFINE m == Message(kind, m_sessionID, m_reqID', n)
<1>1. m \in Messages /\ (req' = req \/ req' = Append(req, m))
  BY Transmitted DEF IInv, TypeOK
<1>2. m.kind = kind /\ m.n = n /\ m.rid = m_reqID' /\ rsp' = rsp
  BY DEF Message, Transmit
<1> HIDE DEF m
<1> QED  BY <1>1, <1>2

\* Opening a connection, or giving one up, leaves nothing under way.
Empties ==
  CallOpen \/ Connect \/ ConnectTimesOut \/ ConnectFails \/ SessionOpened \/ SessionNotOpened
  \/ Reconnect \/ CloseRest

LEMMA Emptied == ASSUME IInv, Empties PROVE req' = <<>> /\ rsp' = <<>>
<1>1. CASE CallOpen \/ ConnectFails \/ SessionNotOpened \/ Reconnect \/ CloseRest
  BY <1>1 DEF CallOpen, ConnectFails, SessionNotOpened, Reconnect, CloseRest, DropConnection,
     OpenFails, Disconnect
<1>2. CASE Connect \/ ConnectTimesOut
  BY <1>2 DEF Connect, ConnectTimesOut, ConnectAs, IInv, Flow
<1>3. CASE SessionOpened
  <2>1. rsp # <<>> /\ Len(req) + Len(rsp) <= 1 /\ req' = req /\ rsp' = Tail(rsp)
    BY <1>3 DEF SessionOpened, IInv, Flow
  <2>2. Len(Tail(rsp)) = Len(rsp) - 1 /\ Len(rsp) >= 1 /\ Tail(rsp) \in Seq(Messages)
    BY <2>1, Types, TakenFirst
  <2>3. Len(req) \in Nat /\ Len(rsp) \in Nat /\ req \in Seq(Messages)
    BY Types
  <2>4. Len(req) = 0 /\ Len(Tail(rsp)) = 0
    BY <2>1, <2>2, <2>3
  <2>5. req = <<>> /\ Tail(rsp) = <<>>
    BY <2>2, <2>3, <2>4, EmptySeq
  <2> QED  BY <2>1, <2>5
<1> QED  BY <1>1, <1>2, <1>3 DEF Empties

\* The client receives, or gives a receive up.
Taking == Receive \/ Misread \/ Misled \/ ReceiveFails \/ SessionClosed

LEMMA Taken ==
  ASSUME IInv, Taking
  PROVE  /\ rsp' \in Seq(Messages) /\ (rsp = <<>> => Len(rsp') = 0)
         /\ \A i \in 1 .. Len(rsp') : \E j \in 1 .. Len(rsp) : rsp'[i] = rsp[j]
<1>1. PICK k \in 0 .. Len(rsp) :
        /\ rsp' \in Seq(Messages) /\ Len(rsp') = Len(rsp) - k
        /\ \A i \in 1 .. Len(rsp') : i + k \in 1 .. Len(rsp) /\ rsp'[i] = rsp[i + k]
  BY Types, LeftOver DEF Taking
<1>2. rsp = <<>> => Len(rsp') = 0
  BY <1>1
<1> QED  BY <1>1, <1>2

\* The device turns the first message to it into the last one to the client.
DeviceStepsIn == DeviceOpens \/ DeviceExecutes \/ DeviceRejects \/ DeviceCloses

Moved ==
  /\ req # <<>> /\ req' = Tail(req)
  /\ \E m \in Messages : /\ m.n = Head(req).n /\ m.rid = Head(req).rid
                         /\ m.kind = "SESSION_UNKNOWN_ID" => m_protocolType = "COLA_2"
                         /\ rsp' = Append(rsp, m)

LEMMA DeviceMoves ==
  ASSUME IInv, DeviceStepsIn
  PROVE  UNCHANGED <<params, objects, ids, control, response, calls, late>> /\ Moved
<1>1. UNCHANGED <<params, objects, ids, control, response, calls, late>>
  BY DEF DeviceStepsIn, DeviceOpens, DeviceExecutes, DeviceRejects, DeviceCloses, Answer
<1>2. ASSUME NEW kind \in {"session", "OK", "SESSION_UNKNOWN_ID"}, NEW sid \in 0 .. MaxOpens,
             Answer(kind, sid), kind = "SESSION_UNKNOWN_ID" => m_protocolType = "COLA_2"
      PROVE  Moved
  <2> DEFINE m == Message(kind, sid, Head(req).rid, Head(req).n)
  <2>1. Head(req) \in Messages /\ req # <<>> /\ req' = Tail(req) /\ rsp' = Append(rsp, m)
    BY <1>2, Types, TakenFirst DEF Answer
  <2>2. m \in Messages /\ m.n = Head(req).n /\ m.rid = Head(req).rid /\ m.kind = kind
    BY <2>1 DEF Message, Messages
  <2> HIDE DEF m
  <2> QED  BY <1>2, <2>1, <2>2 DEF Moved
<1>3. CASE DeviceOpens
  <2>1. opens \in 0 .. MaxOpens /\ 0 \in 0 .. MaxOpens
    BY DEF IInv, TypeOK, ObjectsOK
  <2>2. \E sid \in 0 .. MaxOpens : Answer("session", sid)
    BY <1>3, <2>1 DEF DeviceOpens
  <2> QED  BY <1>1, <1>2, <2>2
<1>4. CASE DeviceExecutes \/ DeviceRejects \/ DeviceCloses
  <2>1. Head(req).sid \in 0 .. MaxOpens
    BY <1>4, Types, TakenFirst DEF DeviceExecutes, DeviceRejects, DeviceCloses, Messages
  <2>2. \/ Answer("OK", Head(req).sid)
        \/ Answer("SESSION_UNKNOWN_ID", Head(req).sid) /\ m_protocolType = "COLA_2"
    BY <1>4 DEF DeviceExecutes, DeviceRejects, DeviceCloses
  <2> QED  BY <1>1, <1>2, <2>1, <2>2
<1> QED  BY <1>3, <1>4 DEF DeviceStepsIn

-----------------------------------------------------------------------------
(* Every step keeps the invariant *)

LEMMA UnconnectedStep == ASSUME IInv, AInv, [Next]_vars PROVE Unconnected'
<1> USE DEF AInv, Unconnected
<1>1. CASE req' = <<>> /\ rsp' = <<>>
  BY <1>1
<1>2. CASE UNCHANGED <<m_pProtocolHandler, req, rsp>> /\ (Opening => Opening')
  BY <1>2
<1>3. CASE Empties
  BY <1>1, <1>3, Emptied
<1>4. CASE OpenSession
  BY <1>4 DEF OpenSession, Goto, Opening
<1>5. CASE Send
  BY <1>5 DEF Send, objects
<1>6. CASE CloseSession
  BY <1>2, <1>6 DEF CloseSession, objects, network, Opening
<1>7. CASE SendUnopened \/ SendDangling \/ Return \/ CallSend \/ CallClose
  BY <1>2, <1>7 DEF SendUnopened, SendDangling, Return, CallSend, CallClose, Goto,
     objects, network, Opening
<1>8. CASE Taking
  <2>1. UNCHANGED <<m_pProtocolHandler, req>> /\ ~Opening
    BY <1>8 DEF Taking, Receive, Misread, Misled, ReceiveFails, SessionClosed, Goto, objects, network,
       Opening
  <2>2. rsp = <<>> => rsp' = <<>>
    <3> SUFFICES ASSUME rsp = <<>> PROVE rsp' = <<>>
      OBVIOUS
    <3>1. rsp' \in Seq(Messages) /\ Len(rsp') = 0
      BY <1>8, Types, Taken
    <3> QED  BY <3>1, EmptySeq
  <2> QED  BY <2>1, <2>2
<1>9. CASE DeviceStepsIn
  <2>1. req # <<>> /\ UNCHANGED <<pc, m_pProtocolHandler>>
    BY <1>9, DeviceMoves DEF objects, control, Moved
  <2> QED  BY <2>1 DEF Opening
<1>10. CASE LinkBreaks
  <2>1. req' = <<>> /\ (rsp' = rsp \/ rsp' = <<>>) /\ UNCHANGED <<pc, m_pProtocolHandler>>
    BY <1>10 DEF LinkBreaks, objects, control
  <2> QED  BY <2>1 DEF Opening
<1>11. CASE SessionExpires \/ LinkComesUp \/ UNCHANGED vars
  <2>1. UNCHANGED <<m_pProtocolHandler, req, rsp, pc>>
    BY <1>11 DEF SessionExpires, LinkComesUp, vars, objects, control, network
  <2> QED  BY <1>2, <2>1 DEF Opening
<1> QED  BY <1>3, <1>4, <1>5, <1>6, <1>7, <1>8, <1>9, <1>10, <1>11
         DEF Next, Client, User, Environment, Crashed, Empties, DeviceStepsIn, Taking

LEMMA NumberedStep == ASSUME IInv, AInv, [Next]_vars PROVE Numbered'
<1> USE DEF Numbered
<1>1. Numbered
  BY DEF AInv
<1>2. CASE req' = <<>> /\ rsp' = <<>>
  BY <1>2
<1>3. ASSUME Kept,
             \A i \in 1 .. Len(req') : \E j \in 1 .. Len(req) : req'[i] = req[j],
             \A i \in 1 .. Len(rsp') : \E j \in 1 .. Len(rsp) : rsp'[i] = rsp[j]
      PROVE  Numbered'
  <2>1. ASSUME NEW i \in 1 .. Len(req') PROVE NumberedMessage(req[i])'
    <3>1. PICK j \in 1 .. Len(req) : req'[i] = req[j]
      BY <1>3
    <3>2. req[j] \in Messages /\ NumberedMessage(req[j])
      BY <1>1, Types
    <3>3. \A m \in Messages : NumberedMessage(m) => NumberedMessage(m)'
      BY <1>3, StaysNumbered
    <3> QED  BY <3>1, <3>2, <3>3 DEF NumberedMessage, Behind, Ending
  <2>2. ASSUME NEW i \in 1 .. Len(rsp') PROVE NumberedMessage(rsp[i])'
    <3>1. PICK j \in 1 .. Len(rsp) : rsp'[i] = rsp[j]
      BY <1>3
    <3>2. rsp[j] \in Messages /\ NumberedMessage(rsp[j])
      BY <1>1, Types
    <3>3. \A m \in Messages : NumberedMessage(m) => NumberedMessage(m)'
      BY <1>3, StaysNumbered
    <3> QED  BY <3>1, <3>2, <3>3 DEF NumberedMessage, Behind, Ending
  <2> QED  BY <2>1, <2>2
<1>4. CASE Empties
  BY <1>2, <1>4, Emptied
<1>5. CASE UNCHANGED <<req, rsp>> /\ Kept
  BY <1>3, <1>5
<1>6. CASE CallSend \/ CallClose \/ Return
  BY <1>5, <1>6 DEF CallSend, CallClose, Return, Goto, Kept, params, ids, network, Ending
<1>7. CASE SendUnopened \/ SendDangling
  <2>1. m_pProtocolHandler = 0 /\ ~Opening
    BY <1>7 DEF SendUnopened, SendDangling, Goto, IInv, ConnectionIsWhole, Opening
  <2>2. req = <<>> /\ rsp = <<>>
    BY <2>1 DEF AInv, Unconnected
  <2> QED  BY <1>2, <1>7, <2>2 DEF SendUnopened, SendDangling, network
<1>8. CASE OpenSession
  <2>1. PICK m \in Messages : m.n = 0 /\ (req' = req \/ req' = Append(req, m)) /\ rsp' = rsp
    BY <1>8, Written DEF OpenSession
  <2>2. req = <<>> /\ rsp = <<>> /\ pc' = "awaitSession" /\ calls' \in Nat
    BY <1>8, Types DEF OpenSession, Goto, IInv, Flow
  <2>3. \A i \in 1 .. Len(req') : req'[i] = m
    BY <2>1, <2>2, AddedLast
  <2> QED  BY <2>1, <2>2, <2>3 DEF NumberedMessage
<1>9. CASE Send
  <2>1. /\ pc = "send" /\ pc' = "await" /\ UNCHANGED <<calls, m_protocolType>>
        /\ calls \in 0 .. MaxCalls /\ calls > 0
    BY <1>9, Types DEF Send, Goto, params, IInv, Closing, Sending
  <2>2. PICK m \in Messages : m.n = calls /\ m.rid = m_reqID' /\ (req' = req \/ req' = Append(req, m))
    BY <1>9, <2>1, Written DEF Send
  <2>3. NumberedMessage(m)'
    <3>1. Behind(m)' = 0
      BY <2>2, Types DEF Behind, Messages
    <3> QED  BY <2>1, <2>2, <3>1 DEF NumberedMessage
  <2>4. ASSUME NEW o \in Messages, NumberedMessage(o) PROVE NumberedMessage(o)'
    <3>1. CASE m_protocolType = "COLA_2"
      BY <1>9, <2>4, <3>1, CommandNumbered
    <3>2. CASE m_protocolType # "COLA_2"
      BY <2>1, <2>4, <3>2 DEF NumberedMessage, Ending
    <3> QED  BY <3>1, <3>2
  <2>5. \A i \in 1 .. Len(req') : req'[i] = m \/ \E j \in 1 .. Len(req) : req'[i] = req[j]
    <3>1. CASE req' = req
      BY <3>1
    <3>2. CASE req' = Append(req, m)
      BY <3>2, Types, AddedLast
    <3> QED  BY <2>2, <3>1, <3>2
  <2>6. rsp' = rsp
    BY <1>9, <2>1, Written DEF Send
  <2>7. ASSUME NEW i \in 1 .. Len(req') PROVE NumberedMessage(req[i])'
    BY <1>1, <2>3, <2>4, <2>5, <2>7, Types DEF NumberedMessage, Behind, Ending
  <2>8. ASSUME NEW i \in 1 .. Len(rsp') PROVE NumberedMessage(rsp[i])'
    BY <1>1, <2>4, <2>6, <2>8, Types DEF NumberedMessage, Behind, Ending
  <2> QED  BY <2>7, <2>8
<1>10. CASE CloseSession
  <2>1. CASE UNCHANGED <<ids, network>>
    BY <1>5, <1>10, <2>1 DEF CloseSession, ids, network, params, Kept, Ending
  <2>2. CASE Transmit("end", 0)
    <3>1. PICK m \in Messages : m.n = 0 /\ (req' = req \/ req' = Append(req, m)) /\ rsp' = rsp
      BY <2>2, Written
    <3>2. Ending' /\ UNCHANGED calls /\ calls \in Nat
      BY <1>10, Types DEF CloseSession, Ending
    <3>3. \A i \in 1 .. Len(req') : req'[i] = m \/ (i \in 1 .. Len(req) /\ req'[i] = req[i])
      BY <3>1, Types, AddedLast
    <3>4. \A i \in 1 .. Len(req') : req'[i].n <= calls'
      BY <1>1, <3>1, <3>2, <3>3 DEF NumberedMessage
    <3>5. \A i \in 1 .. Len(rsp') : rsp'[i].n <= calls'
      BY <1>1, <3>1, <3>2 DEF NumberedMessage
    <3> QED  BY <3>2, <3>4, <3>5 DEF NumberedMessage
  <2> QED  BY <1>10, <2>1, <2>2 DEF CloseSession
<1>11. CASE Taking
  <2>1. Kept /\ req' = req
    BY <1>11 DEF Taking, Receive, Misread, Misled, ReceiveFails, SessionClosed, Goto, params, ids, network,
       Kept, Ending
  <2>2. \A i \in 1 .. Len(req') : \E j \in 1 .. Len(req) : req'[i] = req[j]
    BY <2>1
  <2> QED  BY <1>3, <1>11, <2>1, <2>2, Taken
<1>12. CASE DeviceStepsIn
  <2>1. Kept /\ Moved
    BY <1>12, DeviceMoves DEF params, ids, control, Kept
  <2>2. PICK m \in Messages : m.n = Head(req).n /\ m.rid = Head(req).rid /\ rsp' = Append(rsp, m)
    BY <2>1 DEF Moved
  <2>3. \A o \in Messages : NumberedMessage(o) => NumberedMessage(o)'
    BY <2>1, StaysNumbered
  <2>4. NumberedMessage(Head(req))
    BY <1>1, <2>1, Types, TakenFirst DEF Moved
  <2>5. NumberedMessage(m)'
    BY <2>2, <2>3, <2>4 DEF NumberedMessage, Behind
  <2>6. ASSUME NEW i \in 1 .. Len(rsp') PROVE NumberedMessage(rsp[i])'
    <3>1. rsp'[i] = m \/ (i \in 1 .. Len(rsp) /\ rsp'[i] = rsp[i])
      BY <2>2, <2>6, Types, AddedLast
    <3> QED  BY <1>1, <2>3, <2>5, <3>1, Types DEF NumberedMessage, Behind, Ending
  <2>7. ASSUME NEW i \in 1 .. Len(req') PROVE NumberedMessage(req[i])'
    <3>1. i + 1 \in 1 .. Len(req) /\ req'[i] = req[i + 1]
      BY <2>1, <2>7, Types, TakenFirst DEF Moved
    <3> QED  BY <1>1, <2>3, <3>1, Types DEF NumberedMessage, Behind, Ending
  <2> QED  BY <2>6, <2>7
<1>13. CASE LinkBreaks
  <2>1. req' = <<>> /\ (rsp' = rsp \/ rsp' = <<>>) /\ Kept
    BY <1>13 DEF LinkBreaks, params, ids, control, Kept
  <2>2. /\ \A i \in 1 .. Len(req') : \E j \in 1 .. Len(req) : req'[i] = req[j]
        /\ \A i \in 1 .. Len(rsp') : \E j \in 1 .. Len(rsp) : rsp'[i] = rsp[j]
    BY <2>1
  <2> QED  BY <1>3, <2>1, <2>2
<1>14. CASE SessionExpires \/ LinkComesUp \/ UNCHANGED vars
  <2>1. UNCHANGED <<req, rsp>> /\ Kept
    BY <1>14 DEF SessionExpires, LinkComesUp, vars, params, ids, control, network, Kept
  <2> QED  BY <1>5, <2>1
<1> QED  BY <1>4, <1>6, <1>7, <1>8, <1>9, <1>10, <1>11, <1>12, <1>13, <1>14
         DEF Next, Client, User, Environment, Crashed, Empties, DeviceStepsIn, Taking

LEMMA SessionlessStep == ASSUME IInv, AInv, [Next]_vars PROVE Sessionless'
<1> USE DEF Sessionless
<1>1. Sessionless
  BY DEF AInv
<1>2. CASE response'.err # "SESSION_UNKNOWN_ID" /\ rsp' = <<>>
  BY <1>2
<1>3. CASE UNCHANGED <<m_protocolType, response>> /\ (rsp' = rsp \/ rsp' = <<>>)
  BY <1>1, <1>3
<1>4. CASE CallOpen
  BY <1>2, <1>4 DEF CallOpen, DropConnection, Disconnect, Unanswered, Response
<1>5. CASE Empties /\ ~CallOpen
  <2>1. rsp' = <<>>
    BY <1>5, Emptied
  <2>2. UNCHANGED <<m_protocolType, response>>
    BY <1>5 DEF Empties, Connect, ConnectTimesOut, ConnectAs, ConnectFails, SessionOpened,
       SessionNotOpened, Reconnect, CloseRest, params
  <2> QED  BY <1>3, <2>1, <2>2
<1>6. CASE CallSend \/ CallClose \/ SendUnopened
  BY <1>1, <1>6 DEF CallSend, CallClose, SendUnopened, params, network, Unanswered, Response
<1>7. CASE SendDangling \/ Return
  BY <1>3, <1>7 DEF SendDangling, Return, params, network
<1>8. CASE OpenSession \/ Send \/ CloseSession
  BY <1>3, <1>8 DEF OpenSession, Send, CloseSession, Transmit, params, network
<1>9. CASE Taking
  <2>1. m_protocolType' = m_protocolType
    BY <1>9 DEF Taking, Receive, Misread, Misled, ReceiveFails, SessionClosed, params
  <2>2. m_protocolType = "COLA_B" => \A i \in 1 .. Len(rsp') : rsp'[i].kind # "SESSION_UNKNOWN_ID"
    BY <1>1, <1>9, Taken
  <2>3. CASE Receive
    <3>1. rsp # <<>> /\ (response' = Response(Head(rsp).kind, Head(rsp).n) \/ response' = NetworkError)
      BY <2>3 DEF Receive
    <3>2. m_protocolType = "COLA_B" => response'.err # "SESSION_UNKNOWN_ID"
      BY <1>1, <3>1, Types, TakenFirst DEF Response, NetworkError
    <3> QED  BY <2>1, <2>2, <3>2
  <2>4. CASE Misread \/ ReceiveFails
    <3>1. response' \in {NetworkError, Response("OK", 0)}
      BY <2>4 DEF Misread, ReceiveFails
    <3> QED  BY <2>1, <2>2, <3>1 DEF Response, NetworkError
  <2>5. CASE Misled \/ SessionClosed
    BY <1>1, <2>1, <2>2, <2>5 DEF Misled, SessionClosed
  <2> QED  BY <1>9, <2>3, <2>4, <2>5 DEF Taking
<1>11. CASE DeviceStepsIn
  <2>1. UNCHANGED <<m_protocolType, response>> /\ Moved
    BY <1>11, DeviceMoves DEF params
  <2>2. PICK m \in Messages : /\ m.kind = "SESSION_UNKNOWN_ID" => m_protocolType = "COLA_2"
                              /\ rsp' = Append(rsp, m)
    BY <2>1 DEF Moved
  <2>3. \A i \in 1 .. Len(rsp') : rsp'[i] = m \/ (i \in 1 .. Len(rsp) /\ rsp'[i] = rsp[i])
    BY <2>2, Types, AddedLast
  <2> QED  BY <1>1, <2>1, <2>2, <2>3
<1>12. CASE LinkBreaks \/ SessionExpires \/ LinkComesUp \/ UNCHANGED vars
  BY <1>3, <1>12 DEF LinkBreaks, SessionExpires, LinkComesUp, vars, params, network
<1> QED  BY <1>4, <1>5, <1>6, <1>7, <1>8, <1>9, <1>11, <1>12
         DEF Next, Client, User, Environment, Crashed, Empties, DeviceStepsIn, Taking

LEMMA UnopenedStep == ASSUME IInv, AInv, [Next]_vars PROVE Unopened'
<1> SUFFICES ASSUME m_protocolType' = "INVALID_PROTOCOL"
             PROVE  (m_pProtocolHandler = 0 /\ ~m_autoReconnect /\ ~Opening /\ ~HasAnswer)'
  BY DEF Unopened
<1> USE DEF Opening, HasAnswer
<1>1. ~CallOpen
  BY DEF CallOpen
<1>2. UNCHANGED params
  BY <1>1 DEF Next, Client, User, Environment, Crashed, Connect, ConnectTimesOut, ConnectAs,
     ConnectFails, OpenSession, SessionOpened, SessionNotOpened, CallSend, SendUnopened,
     SendDangling, Send, Receive, Misread, Misled, ReceiveFails, Reconnect, Return, CallClose, CloseSession,
     SessionClosed, CloseRest, DeviceOpens, DeviceExecutes, DeviceRejects, DeviceCloses, Answer,
     SessionExpires, LinkBreaks, LinkComesUp, vars
<1>3. m_pProtocolHandler = 0 /\ ~m_autoReconnect /\ ~Opening /\ ~HasAnswer /\ req = <<>> /\ rsp = <<>>
  BY <1>2 DEF params, AInv, Unopened, Unconnected
<1>4. CASE UNCHANGED <<m_pProtocolHandler, pc, response>>
  BY <1>2, <1>3, <1>4 DEF params
<1>5. CASE CallSend \/ CallClose \/ SendUnopened \/ ReceiveFails
  BY <1>2, <1>3, <1>5 DEF CallSend, CallClose, SendUnopened, ReceiveFails, Goto, objects, params,
     Unanswered, NetworkError, Response
<1>6. CASE SendDangling \/ Return \/ CloseSession \/ SessionClosed \/ CloseRest
  BY <1>2, <1>3, <1>6 DEF SendDangling, Return, CloseSession, SessionClosed, CloseRest, Goto,
     objects, params
<1>7. CASE Connect \/ ConnectTimesOut \/ ConnectFails \/ OpenSession \/ SessionOpened \/ SessionNotOpened
  BY <1>3, <1>7 DEF Connect, ConnectTimesOut, ConnectAs, ConnectFails, OpenSession, SessionOpened,
     SessionNotOpened, Goto
<1>8. CASE Send \/ Receive \/ Reconnect
  BY <1>3, <1>8 DEF Send, Receive, Reconnect
<1>10. CASE Misread \/ Misled
  BY <1>2, <1>3, <1>10 DEF Misread, Misled, Goto, objects, params, NetworkError, Response
<1>9. CASE Environment \/ Crashed \/ UNCHANGED vars
  BY <1>4, <1>9 DEF Environment, Crashed, DeviceOpens, DeviceExecutes, DeviceRejects, DeviceCloses,
     Answer, SessionExpires, LinkBreaks, LinkComesUp, vars, objects, control
<1> QED  BY <1>1, <1>5, <1>6, <1>7, <1>8, <1>9, <1>10 DEF Next, Client, User

LEMMA QuietStep == ASSUME IInv, AInv, [Next]_vars PROVE Quiet'
<1> USE DEF Quiet
<1>1. Quiet
  BY DEF AInv
<1>2. CASE req' = <<>> /\ rsp' = <<>>
  BY <1>2
<1>3. CASE late' \/ Opening' \/ Ending'
  BY <1>3
<1>4. CASE UNCHANGED network /\ ~Opening /\ ~Ending /\ pc # "await" /\ pc' # "await"
  BY <1>1, <1>4 DEF network
<1>5. CASE Empties
  BY <1>2, <1>5, Emptied
<1>6. CASE OpenSession \/ ReceiveFails \/ CloseSession \/ SessionClosed
  BY <1>3, <1>6 DEF OpenSession, ReceiveFails, CloseSession, SessionClosed, Goto, Opening, Ending
<1>12. CASE Misread \/ Misled
  BY <1>3, <1>12 DEF Misread, Misled, AInv, Torn, network
<1>7. CASE CallSend \/ CallClose \/ SendUnopened \/ SendDangling \/ Return
  BY <1>4, <1>7 DEF CallSend, CallClose, SendUnopened, SendDangling, Return, Goto, Opening, Ending
<1>8. CASE Send
  <2>1. /\ pc = "send" /\ pc' = "await" /\ late' = late /\ calls' = calls /\ calls \in 0 .. MaxCalls
    BY <1>8, Types DEF Send, Goto, Transmit
  <2>2. PICK m \in Messages : m.n = calls /\ (req' = req \/ req' = Append(req, m)) /\ rsp' = rsp
    BY <1>8, <2>1, Written DEF Send
  <2>3. CASE late
    BY <1>3, <2>1, <2>3
  <2>4. CASE ~late
    <3>1. req = <<>> /\ rsp = <<>>
      BY <1>1, <2>1, <2>4 DEF Opening, Ending
    <3>2. Len(req') + Len(rsp') <= 1 /\ \A i \in 1 .. Len(req') : req'[i].n = calls
      <4>1. CASE req' = req
        BY <2>2, <3>1, <4>1
      <4>2. CASE req' = Append(req, m)
        BY <2>2, <3>1, <4>2
      <4> QED  BY <2>2, <4>1, <4>2
    <3> QED  BY <2>1, <2>2, <3>1, <3>2
  <2> QED  BY <2>3, <2>4
<1>9. CASE Receive
  <2>1. pc = "await" /\ pc' = "check" /\ late' = late /\ req' = req /\ rsp # <<>> /\ rsp' = Tail(rsp)
    BY <1>9 DEF Receive, Goto
  <2>2. CASE late
    BY <1>3, <2>1, <2>2
  <2>3. CASE ~late
    <3>1. Len(req) + Len(rsp) <= 1
      BY <1>1, <2>1, <2>3 DEF Opening, Ending
    <3>2. Len(Tail(rsp)) = Len(rsp) - 1 /\ Tail(rsp) \in Seq(Messages)
      BY <2>1, Types, TakenFirst
    <3>3. Len(req) = 0 /\ Len(Tail(rsp)) = 0
      <4>1. Len(Tail(rsp)) \in Nat /\ Len(req) \in Nat /\ Len(rsp) \in Nat
        BY <3>2, Types
      <4> QED  BY <3>1, <3>2, <4>1
    <3>4. req = <<>> /\ Tail(rsp) = <<>>
      BY <3>2, <3>3, Types, EmptySeq
    <3> QED  BY <1>2, <2>1, <3>4
  <2> QED  BY <2>2, <2>3
<1>10. CASE DeviceStepsIn
  <2>1. UNCHANGED <<pc, late, calls>> /\ Moved
    BY <1>10, DeviceMoves DEF control
  <2>2. Opening' = Opening /\ Ending' = Ending
    BY <2>1 DEF Opening, Ending
  <2>3. CASE late \/ Opening \/ Ending
    BY <1>3, <2>1, <2>2, <2>3
  <2>4. CASE ~(late \/ Opening \/ Ending)
    <3>1. req # <<>> /\ pc = "await" /\ Len(req) + Len(rsp) <= 1
      BY <1>1, <2>1, <2>4 DEF Moved
    <3>2. PICK m \in Messages : m.n = Head(req).n /\ rsp' = Append(rsp, m) /\ req' = Tail(req)
      BY <2>1 DEF Moved
    <3>3. Head(req) = req[1] /\ 1 \in 1 .. Len(req)
      BY <3>1, Types, TakenFirst
    <3>4. m.n = calls
      BY <1>1, <2>4, <3>1, <3>2, <3>3
    <3>5. /\ Len(req') = Len(req) - 1 /\ \A i \in 1 .. Len(req') : i + 1 \in 1 .. Len(req) /\ req'[i] = req[i + 1]
      BY <3>1, <3>2, Types, TakenFirst
    <3>6. Len(rsp') = Len(rsp) + 1 /\ \A i \in 1 .. Len(rsp') : rsp'[i] = m \/ (i \in 1 .. Len(rsp) /\ rsp'[i] = rsp[i])
      BY <3>2, Types, AddedLast
    <3>7. Len(req') + Len(rsp') <= 1
      BY <3>1, <3>5, <3>6, Types
    <3>8. \A i \in 1 .. Len(req') : req'[i].n = calls
      BY <1>1, <2>4, <3>1, <3>5
    <3>9. \A i \in 1 .. Len(rsp') : rsp'[i].n = calls
      BY <1>1, <2>4, <3>1, <3>4, <3>6
    <3> QED  BY <2>1, <3>1, <3>7, <3>8, <3>9
  <2> QED  BY <2>3, <2>4
<1>11. CASE LinkBreaks \/ SessionExpires \/ LinkComesUp \/ UNCHANGED vars
  <2>1. UNCHANGED <<pc, late, calls>> /\ req' \in {req, <<>>} /\ rsp' \in {rsp, <<>>}
    BY <1>11 DEF LinkBreaks, SessionExpires, LinkComesUp, vars, control, network
  <2>2. Opening' = Opening /\ Ending' = Ending
    BY <2>1 DEF Opening, Ending
  <2> QED  BY <1>1, <2>1, <2>2, Types
<1> QED  BY <1>5, <1>6, <1>7, <1>8, <1>9, <1>10, <1>11, <1>12
         DEF Next, Client, User, Environment, Crashed, Empties, DeviceStepsIn

LEMMA TornStep == ASSUME IInv, AInv, [Next]_vars PROVE Torn'
<1> USE DEF AInv, Torn
<1>1. CASE rest' = FALSE
  BY <1>1
<1>2. CASE UNCHANGED <<rest, late>>
  BY <1>2
<1>3. CASE CallOpen \/ ConnectFails \/ SessionNotOpened \/ Reconnect \/ CloseRest
  BY <1>1, <1>3 DEF CallOpen, ConnectFails, SessionNotOpened, Reconnect, CloseRest, DropConnection,
     OpenFails, Disconnect
<1>4. CASE Connect \/ ConnectTimesOut \/ SessionOpened
  BY <1>2, <1>4 DEF Connect, ConnectTimesOut, ConnectAs, SessionOpened
<1>5. CASE OpenSession \/ Send \/ CloseSession
  BY <1>2, <1>5 DEF OpenSession, Send, CloseSession, Transmit, network
<1>6. CASE Taking
  BY <1>6 DEF Taking, Receive, Misread, Misled, ReceiveFails, SessionClosed, network
<1>7. CASE CallSend \/ CallClose \/ SendUnopened \/ SendDangling \/ Return
  BY <1>2, <1>7 DEF CallSend, CallClose, SendUnopened, SendDangling, Return, network
<1>8. CASE DeviceStepsIn
  BY <1>2, <1>8 DEF DeviceStepsIn, DeviceOpens, DeviceExecutes, DeviceRejects, DeviceCloses, Answer
<1>9. CASE LinkBreaks \/ SessionExpires \/ LinkComesUp \/ UNCHANGED vars
  BY <1>9 DEF LinkBreaks, SessionExpires, LinkComesUp, vars, network
<1> QED  BY <1>3, <1>4, <1>5, <1>6, <1>7, <1>8, <1>9
         DEF Next, Client, User, Environment, Crashed, DeviceStepsIn, Taking

\* An answer that counts, of a connection that is given up, is that of the
\* current command.
LEMMA LostIsOwn ==
  ASSUME IInv, AInv, HasAnswer, response.err # "OK"
  PROVE  response.n = calls
<1>1. response.err = "SESSION_UNKNOWN_ID" /\ m_protocolType # "INVALID_PROTOCOL" /\ m_protocolType # "COLA_B"
  BY DEF AInv, HasAnswer, Unopened, Sessionless
<1>2. m_protocolType = "COLA_2"
  BY <1>1 DEF IInv, TypeOK, ClientOK
<1> QED  BY <1>2 DEF AInv, OwnAnswer

LEMMA OwnAnswerStep == ASSUME IInv, AInv, [Next]_vars PROVE OwnAnswer'
<1>1. OwnAnswer /\ Unopened'
  BY UnopenedStep DEF AInv
<1>2. CASE response' = Unanswered \/ response' = NetworkError
  BY <1>2 DEF OwnAnswer, HasAnswer, Unanswered, NetworkError, Response
<1>3. ASSUME UNCHANGED <<m_protocolType, response, calls>>,
             op' = "send" /\ HasAnswer /\ response.n # calls => op = "send" /\ (late => late'),
             Opening' => response.err # "OK"
      PROVE  OwnAnswer'
  BY <1>1, <1>3 DEF OwnAnswer, HasAnswer
<1>4. CASE CallOpen \/ CallSend \/ CallClose \/ SendUnopened \/ ReceiveFails
  BY <1>2, <1>4 DEF CallOpen, CallSend, CallClose, SendUnopened, ReceiveFails
<1>5. CASE Connect \/ ConnectTimesOut \/ OpenSession \/ SessionOpened
  <2>1. UNCHANGED <<m_protocolType, response, calls, op, late>> /\ Opening
    BY <1>5 DEF Connect, ConnectTimesOut, ConnectAs, OpenSession, SessionOpened, Transmit, Goto,
       params, Opening
  <2> QED  BY <1>1, <1>3, <2>1 DEF OwnAnswer
<1>6. CASE ConnectFails \/ SessionNotOpened
  <2>1. UNCHANGED <<m_protocolType, response, calls, op>> /\ Opening
    BY <1>6 DEF ConnectFails, SessionNotOpened, params, Opening
  <2>2. response.err # "OK"
    BY <1>1, <2>1 DEF OwnAnswer
  <2> QED  BY <1>3, <2>1, <2>2, LostIsOwn
<1>7. CASE Reconnect
  <2>1. UNCHANGED <<m_protocolType, response, calls, op>> /\ response.err # "OK"
    BY <1>7 DEF Reconnect, Lost, params
  <2> QED  BY <1>3, <2>1, LostIsOwn
<1>8. CASE CloseRest
  <2>1. UNCHANGED <<m_protocolType, response, calls, op>> /\ op = "close" /\ ~Opening'
    BY <1>8 DEF CloseRest, Goto, params, IInv, Closing, Opening
  <2> QED  BY <1>3, <2>1
<1>9. CASE SendDangling \/ Send \/ Misled \/ Return \/ CloseSession \/ SessionClosed
  <2>1. UNCHANGED <<m_protocolType, response, calls, op, late>> /\ ~Opening'
    BY <1>9 DEF SendDangling, Send, Misled, Return, CloseSession, SessionClosed, Transmit, Goto, params,
       network, Opening
  <2> QED  BY <1>3, <2>1
<1>12. CASE Misread
  <2>1. /\ late /\ late' = late /\ ~Opening' /\ m_protocolType' = m_protocolType
        /\ response' = NetworkError \/ (response' = Response("OK", 0) /\ m_protocolType = "COLA_B")
    BY <1>12 DEF Misread, Goto, params, Opening, AInv, Torn
  <2> QED  BY <1>2, <2>1 DEF OwnAnswer, Response
<1>10. CASE Receive
  <2> DEFINE m == rsp[1]
  <2>1. /\ pc = "await" /\ pc' = "check" /\ rsp # <<>>
        /\ UNCHANGED <<m_protocolType, calls, op, late, m_reqID>>
    BY <1>10 DEF Receive, Goto, params, ids
  <2>2. (response' = Response(m.kind, m.n) /\ Accepts(m)) \/ response' = NetworkError
    BY <1>10, <2>1, Types, TakenFirst DEF Receive
  <2>3. m \in Messages /\ 1 \in 1 .. Len(rsp) /\ NumberedMessage(m)
    BY <2>1, Types, TakenFirst DEF AInv, Numbered
  <2>4. ASSUME m_protocolType = "COLA_2", Accepts(m)
        PROVE  m.n = calls
    <3>1. Behind(m) = 0
      BY <2>3, <2>4, Types DEF Behind, Accepts, Messages
    <3>2. m.n <= calls /\ m.n # 0 /\ ~(m.n < calls)
      BY <2>1, <2>3, <2>4, <3>1 DEF NumberedMessage, Ending, Messages
    <3> QED  BY <2>3, <3>2, Types DEF Messages
  <2>5. ASSUME m_protocolType # "COLA_2", ~late PROVE m.n = calls
    BY <2>1, <2>3, <2>5 DEF AInv, Quiet, Opening, Ending
  <2>6. CASE response' = NetworkError
    BY <1>2, <2>6
  <2>7. CASE response' = Response(m.kind, m.n) /\ Accepts(m)
    BY <2>1, <2>4, <2>5, <2>7 DEF OwnAnswer, Response, Opening
  <2> HIDE DEF m
  <2> QED  BY <2>2, <2>6, <2>7
<1>11. CASE Environment \/ Crashed \/ UNCHANGED vars
  <2>1. UNCHANGED <<m_protocolType, response, calls, op, late, pc>>
    BY <1>11 DEF Environment, Crashed, DeviceOpens, DeviceExecutes, DeviceRejects, DeviceCloses,
       Answer, SessionExpires, LinkBreaks, LinkComesUp, vars, params, control, network
  <2> QED  BY <1>1, <1>3, <2>1 DEF OwnAnswer, Opening
<1> QED  BY <1>4, <1>5, <1>6, <1>7, <1>8, <1>9, <1>10, <1>11, <1>12 DEF Next, Client, User

-----------------------------------------------------------------------------
(* The theorems *)

LEMMA InitAnswers == Init => AInv
<1> SUFFICES ASSUME Init PROVE AInv
  OBVIOUS
<1>1. req = <<>> /\ rsp = <<>> /\ response.err = "UNKNOWN" /\ pc = "idle" /\ m_pProtocolHandler = 0
      /\ m_protocolType = "INVALID_PROTOCOL" /\ m_autoReconnect = FALSE /\ rest = FALSE
  BY DEF Init, Unanswered, Response
<1> QED  BY <1>1 DEF AInv, Unopened, Numbered, Unconnected, Quiet, Sessionless, OwnAnswer, Torn,
            Opening, HasAnswer

\* The numbering of the messages under way holds of every state.
THEOREM AnswersInvariant == Spec => []AInv
<1>1. IInv /\ AInv /\ [Next]_vars => AInv'
  BY UnopenedStep, NumberedStep, UnconnectedStep, QuietStep, SessionlessStep, OwnAnswerStep, TornStep DEF AInv
<1>2. Spec => []IInv
  BY Inductive
<1> QED  BY InitAnswers, <1>1, <1>2, PTL DEF Spec

\* With CoLa 2, sendCommand returns only the answer to its own command, however
\* many answers came too late, as long as fewer commands than request ids are
\* sent (CoLa2ProtocolHandler.cpp:85).
THEOREM OwnAnswer2 == Spec => []AnswerIsForCommand2
<1>1. AInv => AnswerIsForCommand2
  BY DEF AInv, OwnAnswer, HasAnswer, AnswerIsForCommand2, Returned
<1> QED  BY <1>1, AnswersInvariant, PTL

\* With either protocol, the answer to another command is returned only when a
\* receive failed before on the same connection (CoLaBProtocolHandler.cpp:140).
THEOREM ForeignOnlyLate == Spec => []OnlyLateAnswersAreForeign
<1>1. AInv => OnlyLateAnswersAreForeign
  BY DEF AInv, OwnAnswer, HasAnswer, OnlyLateAnswersAreForeign, Returned
<1> QED  BY <1>1, AnswersInvariant, PTL

=============================================================================
