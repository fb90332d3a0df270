------------------------ MODULE AuthenticationProofs ------------------------
(***************************************************************************)
(* Proofs about Authentication, for any protocols and any number of        *)
(* connections and calls.  A step of it is one of VisionaryControl, or the *)
(* end of the client in undefined behaviour: the invariant of              *)
(* VisionaryControl holds here too.  Without autoReconnect the object that *)
(* a login runs on stays that of the connection (Method), and an open      *)
(* control has one (Authenticated).                                        *)
(*                                                                         *)
(* The last part is about the session: messages under way carry the one    *)
(* the client has (OneSession), so that the level a login gets is granted  *)
(* to it (Granting).                                                       *)
(***************************************************************************)
EXTENDS Authentication, AnswerProofs

USE ProtocolsAssumption, BoundsAssumption

-----------------------------------------------------------------------------
(* The inductive invariant *)

\* A control that is open, and not about to be closed, has the authentication
\* object of its connection.
Authenticated ==
  m_pProtocolHandler # 0 /\ pc \notin {"closeSession", "awaitClose", "closeRest"}
    => m_pAuthentication = m_pProtocolHandler

Method ==
  stage # "none" => /\ op = "send"
                    /\ ~m_autoReconnect => self = m_pAuthentication /\ ~Opening

AuthIInv == IInv /\ Authenticated /\ Method /\ SafeWithoutReconnect

-----------------------------------------------------------------------------
(* Steps *)

\* The client runs into undefined behaviour between two commands.
Crash ==
  /\ pc = "idle" /\ pc' = "crashed"
  /\ UNCHANGED <<params, objects, ids, op, resent, response, opens, calls, network, device, auth>>

LEMMA StepOfControl == ASSUME [AuthNext]_authVars PROVE [Next]_vars \/ Crash
<1>1. CASE CallLogin \/ CallLogout \/ CallOther
  BY <1>1 DEF CallLogin, CallLogout, CallOther, NextCommand, GetChallenge, GetChallengeLevel,
     SendCarrying, Next, User
<1>2. CASE CallWithoutObject \/ UsesGone
  BY <1>2 DEF CallWithoutObject, UsesGone, Goto, Back, Crash
<1>3. CASE ProtocolUnknown \/ ChallengeComes
  BY <1>3 DEF ProtocolUnknown, ChallengeComes, GetChallengeLevel, SetUserLevel, NextCommand,
     SendCarrying, Next, User
<1>4. CASE ChallengeFails \/ LevelAnswered \/ ReadResult
  BY <1>4 DEF ChallengeFails, LevelAnswered, ReadResult, End
<1>5. CASE ClientStep \/ EnvironmentStep \/ AuthCrashed \/ UNCHANGED authVars
  BY <1>5 DEF ClientStep, EnvironmentStep, AuthCrashed, authVars, Next, Environment
<1> QED  BY <1>1, <1>2, <1>3, <1>4, <1>5 DEF AuthNext, LoginStep

LEMMA CrashKeeps == ASSUME IInv, Crash PROVE IInv'
<1> USE DEF Crash, params, objects, ids, network, device
<1>1. TypeOK'
  <2>1. ObjectsOK' /\ NetworkOK' /\ DeviceOK'
    BY DEF IInv, TypeOK, ObjectsOK, NetworkOK, DeviceOK
  <2>2. ClientOK'
    <3>1. pc' \in Steps
      BY DEF Steps
    <3> QED  BY <3>1 DEF IInv, TypeOK, ClientOK
  <2> QED  BY <2>1, <2>2 DEF TypeOK
<1>2. Flow'
  BY DEF IInv, Flow, RequestOK, AnswerOK
<1>3. Closing' /\ Counts'
  BY DEF IInv, Closing, Counts, Sending, Opening
<1>4. Copies'
  BY DEF IInv, Copies, CopyOK, Sending
<1>5. ConnectionIsWhole' /\ CloseCloses'
  BY DEF IInv, ConnectionIsWhole, CloseCloses
<1> QED  BY <1>1, <1>2, <1>3, <1>4, <1>5 DEF IInv

LEMMA AuthenticatedStep == ASSUME IInv, Authenticated, [Next]_vars PROVE Authenticated'
<1> USE DEF Authenticated
<1>1. CASE CallOpen \/ Reconnect \/ CloseRest
  BY <1>1 DEF CallOpen, Reconnect, CloseRest, DropConnection
<1>2. CASE Connect \/ ConnectTimesOut \/ SessionOpened
  BY <1>2 DEF Connect, ConnectTimesOut, ConnectAs, SessionOpened, Install, objects
<1>3. CASE ConnectFails \/ SessionNotOpened
  BY <1>3 DEF ConnectFails, SessionNotOpened, OpenFails
<1>4. CASE Return \/ CallClose \/ CloseSession \/ SessionClosed
  BY <1>4 DEF Return, CallClose, CloseSession, SessionClosed, Goto, objects
<1>5. CASE OpenSession \/ CallSend \/ SendUnopened \/ SendDangling \/ Send \/ Receive \/ Misread \/ Misled \/ ReceiveFails
  BY <1>5 DEF OpenSession, CallSend, SendUnopened, SendDangling, Send, Receive, Misread, Misled, ReceiveFails, Goto,
     objects
<1>6. CASE Environment \/ Crashed \/ UNCHANGED vars
  BY <1>6 DEF Environment, Crashed, DeviceOpens, DeviceExecutes, DeviceRejects, DeviceCloses, Answer,
     SessionExpires, LinkBreaks, LinkComesUp, vars, objects, control
<1> QED  BY <1>1, <1>2, <1>3, <1>4, <1>5, <1>6 DEF Next, Client, User

\* Within a command sent without autoReconnect the authentication object stays.
LEMMA ObjectStays ==
  ASSUME IInv, Client, op = "send"
  PROVE  /\ op' = "send" /\ m_autoReconnect' = m_autoReconnect
         /\ ~m_autoReconnect /\ ~Opening => m_pAuthentication' = m_pAuthentication /\ ~Opening'
<1>1. pc \notin {"closeSession", "awaitClose", "closeRest"}
  BY DEF IInv, Closing
<1>2. CASE Connect \/ ConnectTimesOut \/ ConnectFails \/ OpenSession \/ SessionOpened \/ SessionNotOpened
  BY <1>2 DEF Connect, ConnectTimesOut, ConnectAs, ConnectFails, OpenSession, SessionOpened,
     SessionNotOpened, Goto, Opening, params
<1>3. CASE Reconnect
  BY <1>3 DEF Reconnect, params
<1>4. CASE SendUnopened \/ SendDangling \/ Send \/ Receive \/ Misread \/ Misled \/ ReceiveFails \/ Return
  BY <1>4 DEF SendUnopened, SendDangling, Send, Receive, Misread, Misled, ReceiveFails, Return, Goto, Opening, objects,
     params
<1>5. ~(CloseSession \/ SessionClosed \/ CloseRest)
  BY <1>1 DEF CloseSession, SessionClosed, CloseRest, Goto
<1> QED  BY <1>2, <1>3, <1>4, <1>5 DEF Client

LEMMA EnvironmentLeaves ==
  ASSUME Environment \/ Crashed \/ UNCHANGED vars
  PROVE  UNCHANGED <<params, objects, control>>
  BY DEF Environment, Crashed, DeviceOpens, DeviceExecutes, DeviceRejects, DeviceCloses, Answer,
     SessionExpires, LinkBreaks, LinkComesUp, vars

LEMMA MethodStep == ASSUME IInv, Method, [AuthNext]_authVars PROVE Method'
<1> USE DEF Method
<1>1. CASE stage' = "none"
  BY <1>1
<1>2. CASE CallLogin \/ CallLogout
  <2>1. CallSend /\ self' = m_pAuthentication
    BY <1>2 DEF CallLogin, CallLogout, NextCommand, GetChallenge, GetChallengeLevel, SendCarrying
  <2> QED  BY <2>1 DEF CallSend, Goto, Opening, objects
<1>3. CASE CallOther \/ ChallengeFails \/ LevelAnswered \/ ReadResult
  BY <1>1, <1>3 DEF CallOther, ChallengeFails, LevelAnswered, ReadResult, End
<1>4. CASE CallWithoutObject \/ UsesGone
  BY <1>4 DEF CallWithoutObject, UsesGone, Goto, Opening, objects, params, auth, method
<1>5. CASE ProtocolUnknown \/ ChallengeComes
  <2>1. CallSend /\ self' = self /\ stage # "none"
    BY <1>5 DEF ProtocolUnknown, ChallengeComes, Back, GetChallengeLevel, SetUserLevel, NextCommand,
       SendCarrying
  <2> QED  BY <2>1 DEF CallSend, Goto, Opening, objects, params
<1>6. CASE ClientStep
  BY <1>6, ObjectStays DEF ClientStep, auth, method
<1>7. CASE EnvironmentStep \/ AuthCrashed \/ UNCHANGED authVars
  <2>1. UNCHANGED <<params, objects, control, stage, self>>
    BY <1>7, EnvironmentLeaves DEF EnvironmentStep, AuthCrashed, authVars, auth, method, Environment
  <2> QED  BY <2>1 DEF params, objects, control, Opening
<1> QED  BY <1>2, <1>3, <1>4, <1>5, <1>6, <1>7 DEF AuthNext, LoginStep

LEMMA SafeStep == ASSUME AuthIInv, [AuthNext]_authVars PROVE SafeWithoutReconnect'
<1> SUFFICES ASSUME pc' = "crashed" PROVE (m_autoReconnect \/ m_pProtocolHandler = 0)'
  BY DEF SafeWithoutReconnect
<1>1. CASE UNCHANGED <<pc, m_autoReconnect, m_pProtocolHandler>>
  BY <1>1 DEF AuthIInv, SafeWithoutReconnect
<1>2. CASE CallWithoutObject
  BY <1>2 DEF CallWithoutObject, Goto, objects, AuthIInv, Authenticated
<1>3. CASE UsesGone
  BY <1>3 DEF UsesGone, Gone, Back, params, objects, AuthIInv, Method
<1>4. CASE CallLogin \/ CallLogout \/ CallOther
  BY <1>4 DEF CallLogin, CallLogout, CallOther, NextCommand, GetChallenge, GetChallengeLevel,
     SendCarrying, CallSend, CallOpen, CallClose, Goto
<1>5. CASE ProtocolUnknown \/ ChallengeComes
  BY <1>5 DEF ProtocolUnknown, ChallengeComes, GetChallengeLevel, SetUserLevel, NextCommand,
     SendCarrying, CallSend, Goto
<1>6. CASE ChallengeFails \/ LevelAnswered \/ ReadResult
  BY <1>1, <1>6 DEF ChallengeFails, LevelAnswered, ReadResult, End, vars, control, params, objects
<1>7. CASE EnvironmentStep \/ AuthCrashed \/ UNCHANGED authVars
  BY <1>1, <1>7, EnvironmentLeaves DEF EnvironmentStep, AuthCrashed, authVars, Environment, control,
     params, objects
<1>8. CASE ClientStep
  <2>1. CASE SendDangling
    BY <2>1 DEF SendDangling, objects, AuthIInv, IInv, ConnectionIsWhole
  <2>2. CASE ~SendDangling
    BY <1>8, <2>2 DEF ClientStep, Client, Connect, ConnectTimesOut, ConnectAs, ConnectFails, Install,
       OpenSession, SessionOpened, SessionNotOpened, OpenFails, SendUnopened, Send, Receive,
       Misread, Misled, ReceiveFails, Reconnect, Return, CloseSession, SessionClosed, CloseRest, Goto
  <2> QED  BY <2>1, <2>2
<1> QED  BY <1>2, <1>3, <1>4, <1>5, <1>6, <1>7, <1>8 DEF AuthNext, LoginStep

LEMMA AuthInitSafe == AuthInit => AuthIInv
<1> SUFFICES ASSUME AuthInit PROVE AuthIInv
  OBVIOUS
<1>1. IInv
  BY InitSafe DEF AuthInit
<1>2. m_pProtocolHandler = 0 /\ stage = "none"
  BY DEF AuthInit, Init
<1> QED  BY <1>1, <1>2 DEF AuthIInv, Authenticated, Method, SafeWithoutReconnect

LEMMA AuthStep == ASSUME AuthIInv, [AuthNext]_authVars PROVE AuthIInv'
<1>1. IInv'
  BY StepOfControl, CrashKeeps, IInvStep DEF AuthIInv
<1>2. Authenticated'
  <2>1. CASE Crash
    BY <2>1 DEF Crash, objects, AuthIInv, Authenticated
  <2> QED  BY <2>1, StepOfControl, AuthenticatedStep DEF AuthIInv
<1> QED  BY <1>1, <1>2, MethodStep, SafeStep DEF AuthIInv

-----------------------------------------------------------------------------
(* The protocol version of the device *)

\* Commands are executed in the order of their calls: nothing that an answer
\* was given to, or received for, comes before a command under way.
Order ==
  /\ response.n <= calls
  /\ \A i \in 1 .. Len(rsp) : rsp[i].n <= calls
  /\ \A j \in 1 .. Len(req) :
       /\ req[j].n <= calls /\ (req[j].kind = "end" => req[j].n = 0)
       /\ req[j].kind = "command" =>
            /\ \A i \in 1 .. j : req[i].n <= req[j].n
            /\ \A i \in 1 .. Len(rsp) : rsp[i].n <= req[j].n
            /\ response.err = "OK" => response.n <= req[j].n

\* The device has executed the command of the current call.
Done ==
  \/ response.err = "OK" /\ response.n = calls
  \/ \E i \in 1 .. Len(rsp) : rsp[i].kind = "OK" /\ rsp[i].n = calls

Learning ==
  /\ devSul \in {"SUL1", "SUL2"}
  /\ DOMAIN sul = 1 .. MaxOpens /\ LearnsItsProtocol
  /\ DOMAIN command = 1 .. MaxCalls
  /\ answer.err = "BUFFER_UNDERFLOW" => devSul = "SUL2"
  /\ stage \in {"challenge1", "challenge2", "level1", "level2"} => m_protocolType # "COLA_B"
  /\ stage \in {"challenge2", "level2"} => devSul = "SUL2"
  /\ stage = "level1" => devSul = "SUL1"
  /\ stage = "challenge1" => /\ calls \in 1 .. MaxCalls /\ command[calls].name = "GetChallenge"
                             /\ Done /\ answer.err = "OK" /\ answer.success => devSul = "SUL1"

\* A handler writes a message of the current call, or one that is no command.
LEMMA WrittenInOrder ==
  ASSUME IInv, Order, NEW kind \in {"open", "command", "end"}, NEW n \in 0 .. MaxCalls,
         Transmit(kind, n), n = (IF kind = "command" THEN calls ELSE 0), UNCHANGED <<calls, response>>
  PROVE  Order'
<1>1. PICK m \in Messages : m.kind = kind /\ m.n = n /\ rsp' = rsp /\ (req' = req \/ req' = Append(req, m))
  BY Written
<1>2. CASE req' = req
  BY <1>1, <1>2 DEF Order
<1>3. CASE req' = Append(req, m)
  <2>1. /\ Len(req') = Len(req) + 1 /\ req'[Len(req) + 1] = m /\ Len(req) \in Nat
        /\ \A i \in 1 .. Len(req) : req'[i] = req[i]
    BY <1>3, Types, AddedLast
  <2>2. m.n <= calls /\ (m.kind = "end" => m.n = 0) /\ (m.kind = "command" => m.n = calls)
    BY <1>1, Types
  <2>3. ASSUME NEW j \in 1 .. Len(req')
        PROVE  /\ req'[j].n <= calls /\ (req'[j].kind = "end" => req'[j].n = 0)
               /\ req'[j].kind = "command" =>
                    /\ \A i \in 1 .. j : req'[i].n <= req'[j].n
                    /\ \A i \in 1 .. Len(rsp) : rsp[i].n <= req'[j].n
                    /\ response.err = "OK" => response.n <= req'[j].n
    <3>1. CASE j \in 1 .. Len(req)
      <4>1. req'[j] = req[j] /\ \A i \in 1 .. j : i \in 1 .. Len(req) /\ req'[i] = req[i]
        BY <2>1, <3>1
      <4> QED  BY <3>1, <4>1 DEF Order
    <3>2. CASE j = Len(req) + 1
      <4>1. \A i \in 1 .. j : i \in 1 .. Len(req) \/ i = Len(req) + 1
        BY <2>1, <3>2
      <4>2. \A i \in 1 .. j : req'[i].n <= calls
        BY <2>1, <2>2, <4>1 DEF Order
      <4> QED  BY <2>1, <2>2, <3>2, <4>2 DEF Order
    <3> QED  BY <2>1, <3>1, <3>2
  <2> QED  BY <1>1, <2>3 DEF Order
<1> QED  BY <1>1, <1>2, <1>3

LEMMA OrderStep == ASSUME IInv, Order, [Next]_vars PROVE Order'
<1>1. CASE /\ UNCHANGED req /\ (calls' = calls \/ calls' = calls + 1)
           /\ response' \in {response, Unanswered, NetworkError} \/ response' = Response("OK", 0)
           /\ \A i \in 1 .. Len(rsp') : \E j \in 1 .. Len(rsp) : rsp'[i] = rsp[j]
  <2>1. calls \in Nat /\ \A m \in Messages : m.n \in Nat
    BY Types DEF Messages
  <2>2. response \in [err : Errors, n : 0 .. MaxCalls]
    BY DEF IInv, TypeOK, ClientOK
  <2>3. response'.n <= calls' /\ (response'.err = "OK" => response' = response \/ response'.n = 0)
    BY <1>1, <2>1, <2>2 DEF Order, Unanswered, NetworkError, Response
  <2>4. \A m \in Messages : m.n <= calls => m.n <= calls'
    BY <1>1, <2>1
  <2>5. \A i \in 1 .. Len(rsp') : rsp'[i].n <= calls'
    BY <1>1, <2>4, Types DEF Order
  <2>6. ASSUME NEW j \in 1 .. Len(req)
        PROVE  /\ req[j].n <= calls' /\ (req[j].kind = "end" => req[j].n = 0)
               /\ req[j].kind = "command" =>
                    /\ \A i \in 1 .. j : req[i].n <= req[j].n
                    /\ \A i \in 1 .. Len(rsp') : rsp'[i].n <= req[j].n
                    /\ response'.err = "OK" => response'.n <= req[j].n
    <3>1. /\ req[j].n <= calls /\ (req[j].kind = "end" => req[j].n = 0) /\ req[j].n \in Nat
          /\ req[j].kind = "command" =>
               /\ \A i \in 1 .. j : req[i].n <= req[j].n
               /\ \A i \in 1 .. Len(rsp) : rsp[i].n <= req[j].n
               /\ response.err = "OK" => response.n <= req[j].n
      BY <2>1, Types DEF Order
    <3>2. req[j].n <= calls'
      BY <2>1, <2>4, <3>1, Types
    <3>3. req[j].kind = "command" => \A i \in 1 .. Len(rsp') : rsp'[i].n <= req[j].n
      BY <1>1, <3>1
    <3>4. req[j].kind = "command" /\ response'.err = "OK" => response'.n <= req[j].n
      BY <2>3, <3>1
    <3> QED  BY <3>1, <3>2, <3>3, <3>4
  <2> QED  BY <1>1, <2>3, <2>5, <2>6 DEF Order
<1>2. CASE /\ req' = <<>> /\ UNCHANGED calls /\ response' \in {response, Unanswered}
           /\ rsp' \in {rsp, <<>>}
  BY <1>2, Types DEF Order, Unanswered, Response
<1>3. CASE Empties
  <2>1. UNCHANGED calls /\ response' \in {response, Unanswered}
    BY <1>3 DEF Empties, CallOpen, Connect, ConnectTimesOut, ConnectAs, ConnectFails, SessionOpened,
       SessionNotOpened, Reconnect, CloseRest
  <2> QED  BY <1>2, <1>3, <2>1, Emptied
<1>4. CASE CallSend \/ CallClose \/ SendUnopened \/ SendDangling \/ Return
  BY <1>1, <1>4 DEF CallSend, CallClose, SendUnopened, SendDangling, Return, network
<1>5. CASE OpenSession
  BY <1>5, WrittenInOrder DEF OpenSession
<1>6. CASE Send
  BY <1>6, Types, WrittenInOrder DEF Send
<1>7. CASE CloseSession
  <2>1. CASE Transmit("end", 0)
    BY <1>7, <2>1, WrittenInOrder DEF CloseSession
  <2>2. CASE UNCHANGED network
    BY <1>1, <1>7, <2>2 DEF CloseSession, network
  <2> QED  BY <1>7, <2>1, <2>2 DEF CloseSession
<1>8. CASE Misread \/ Misled \/ ReceiveFails \/ SessionClosed
  <2>1. UNCHANGED <<req, calls>> /\ response' \in {response, NetworkError, Response("OK", 0)}
    BY <1>8 DEF Misread, Misled, ReceiveFails, SessionClosed, network
  <2>2. \A i \in 1 .. Len(rsp') : \E j \in 1 .. Len(rsp) : rsp'[i] = rsp[j]
    BY <1>8, Taken DEF Taking
  <2> QED  BY <1>1, <2>1, <2>2
<1>9. CASE Receive
  <2>1. /\ UNCHANGED <<req, calls>> /\ rsp # <<>> /\ rsp' = Tail(rsp)
        /\ response' = Response(Head(rsp).kind, Head(rsp).n) \/ response' = NetworkError
    BY <1>9 DEF Receive
  <2>2. \A i \in 1 .. Len(rsp') : \E j \in 1 .. Len(rsp) : rsp'[i] = rsp[j]
    BY <2>1, Types, TakenFirst
  <2>3. CASE response' = NetworkError
    BY <1>1, <2>1, <2>2, <2>3
  <2>4. CASE response' = Response(Head(rsp).kind, Head(rsp).n)
    <3>1. 1 \in 1 .. Len(rsp) /\ response'.n = rsp[1].n
      BY <2>1, <2>4, Types, TakenFirst DEF Response
    <3> QED  BY <2>1, <2>2, <3>1 DEF Order
  <2> QED  BY <2>1, <2>3, <2>4
<1>10. CASE DeviceStepsIn
  <2>1. UNCHANGED <<calls, response>> /\ Moved
    BY <1>10, DeviceMoves
  <2>2. PICK m \in Messages : m.n = Head(req).n /\ rsp' = Append(rsp, m)
    BY <2>1 DEF Moved
  <2>3. /\ 1 \in 1 .. Len(req) /\ m.n = req[1].n
        /\ \A j \in 1 .. Len(req') : j + 1 \in 1 .. Len(req) /\ req'[j] = req[j + 1]
        /\ \A j \in 1 .. Len(req') : \A i \in 1 .. j : i \in 1 .. Len(req') /\ i + 1 \in 1 .. j + 1
    BY <2>1, <2>2, Types, TakenFirst, SMTT(30) DEF Moved
  <2>4. \A i \in 1 .. Len(rsp') : rsp'[i] = m \/ (i \in 1 .. Len(rsp) /\ rsp'[i] = rsp[i])
    BY <2>2, Types, AddedLast
  <2>5. \A i \in 1 .. Len(rsp') : rsp'[i].n <= calls
    BY <2>3, <2>4 DEF Order
  <2>6. ASSUME NEW j \in 1 .. Len(req'), req'[j].kind = "command"
        PROVE  /\ \A i \in 1 .. j : req'[i].n <= req'[j].n
               /\ \A i \in 1 .. Len(rsp') : rsp'[i].n <= req'[j].n
               /\ response.err = "OK" => response.n <= req'[j].n
    <3>1. j + 1 \in 1 .. Len(req) /\ req'[j] = req[j + 1] /\ 1 \in 1 .. j + 1
      BY <2>3
    <3>2. \A i \in 1 .. j : req'[i].n <= req'[j].n
      BY <2>3, <2>6, <3>1 DEF Order
    <3>3. m.n <= req'[j].n
      BY <2>3, <2>6, <3>1 DEF Order
    <3>4. \A i \in 1 .. Len(rsp) : rsp[i].n <= req'[j].n
      BY <2>6, <3>1 DEF Order
    <3> QED  BY <2>4, <2>6, <3>1, <3>2, <3>3, <3>4 DEF Order
  <2> QED  BY <2>1, <2>3, <2>5, <2>6 DEF Order
<1>11. CASE LinkBreaks
  BY <1>2, <1>11 DEF LinkBreaks
<1>12. CASE SessionExpires \/ LinkComesUp \/ UNCHANGED vars
  BY <1>1, <1>12 DEF SessionExpires, LinkComesUp, vars, network
<1> QED  BY <1>3, <1>4, <1>5, <1>6, <1>7, <1>8, <1>9, <1>10, <1>11, <1>12
         DEF Next, Client, User, Environment, Crashed, Empties, DeviceStepsIn

\* Only the device brings news of the command of the current call.
LEMMA ClientDone ==
  ASSUME IInv, Client
  PROVE  UNCHANGED <<calls, m_protocolType>> /\ (Done' => Done)
<1>1. UNCHANGED <<calls, m_protocolType>>
  BY DEF Client, Connect, ConnectTimesOut, ConnectAs, ConnectFails, OpenSession, SessionOpened,
     SessionNotOpened, SendUnopened, SendDangling, Send, Receive, Misread, Misled, ReceiveFails, Reconnect, Return,
     CloseSession, SessionClosed, CloseRest, params
<1>2. CASE response'.err # "OK" /\ \A i \in 1 .. Len(rsp') : \E j \in 1 .. Len(rsp) : rsp'[i] = rsp[j]
  BY <1>1, <1>2 DEF Done
<1>3. CASE response' = response /\ \A i \in 1 .. Len(rsp') : \E j \in 1 .. Len(rsp) : rsp'[i] = rsp[j]
  BY <1>1, <1>3 DEF Done
<1>4. CASE response' = response /\ rsp' \in {rsp, <<>>}
  BY <1>3, <1>4
<1>5. CASE Empties
  <2>1. rsp' = <<>>
    BY <1>5, Emptied
  <2>2. CASE CallOpen
    BY <1>2, <2>1, <2>2 DEF CallOpen, Unanswered, Response
  <2>3. CASE ~CallOpen
    BY <1>4, <1>5, <2>1, <2>3 DEF Empties, Connect, ConnectTimesOut, ConnectAs, ConnectFails,
       SessionOpened, SessionNotOpened, Reconnect, CloseRest
  <2> QED  BY <2>2, <2>3
<1>6. CASE OpenSession \/ SendDangling \/ Send \/ Return \/ CloseSession
  BY <1>4, <1>6 DEF OpenSession, SendDangling, Send, Return, CloseSession, Transmit, network
<1>7. CASE SendUnopened
  BY <1>2, <1>7 DEF SendUnopened, network, Unanswered, Response
<1>8. CASE Misread \/ Misled \/ ReceiveFails \/ SessionClosed
  <2>1. \A i \in 1 .. Len(rsp') : \E j \in 1 .. Len(rsp) : rsp'[i] = rsp[j]
    BY <1>8, Taken DEF Taking
  <2>2. \/ response' = response \/ response'.err # "OK"
        \/ response'.n = 0
    BY <1>8 DEF Misread, Misled, ReceiveFails, SessionClosed, NetworkError, Response
  <2>3. calls > 0 \/ response' = response \/ response'.err # "OK"
    BY <1>8 DEF Misread, Misled, ReceiveFails, SessionClosed, NetworkError, Response, Goto, IInv,
       Closing, Sending
  <2>4. CASE response' = response \/ response'.err # "OK"
    BY <1>2, <1>3, <2>1, <2>4
  <2>5. CASE response'.n = 0 /\ calls > 0
    <3>1. response'.n # calls'
      BY <1>1, <2>5
    <3>2. Done' => \E i \in 1 .. Len(rsp') : rsp'[i].kind = "OK" /\ rsp'[i].n = calls'
      BY <3>1 DEF Done
    <3>3. Done' => \E j \in 1 .. Len(rsp) : rsp[j].kind = "OK" /\ rsp[j].n = calls
      BY <1>1, <2>1, <3>2
    <3> QED  BY <1>1, <3>3 DEF Done
  <2> QED  BY <2>2, <2>3, <2>4, <2>5
<1>9. CASE Receive
  <2>1. /\ rsp # <<>> /\ rsp' = Tail(rsp)
        /\ response' = Response(Head(rsp).kind, Head(rsp).n) \/ response' = NetworkError
    BY <1>9 DEF Receive
  <2>2. \A i \in 1 .. Len(rsp') : \E j \in 1 .. Len(rsp) : rsp'[i] = rsp[j]
    BY <2>1, Types, TakenFirst
  <2>3. CASE response' = NetworkError
    BY <1>2, <2>2, <2>3 DEF NetworkError, Response
  <2>4. CASE response' = Response(Head(rsp).kind, Head(rsp).n)
    <3>1. 1 \in 1 .. Len(rsp) /\ response'.n = rsp[1].n /\ response'.err = rsp[1].kind
      BY <2>1, <2>4, Types, TakenFirst DEF Response
    <3> QED  BY <1>1, <2>2, <3>1 DEF Done
  <2> QED  BY <2>1, <2>3, <2>4
<1> QED  BY <1>5, <1>6, <1>7, <1>8, <1>9 DEF Client, Empties

\* A call starts with no news.
LEMMA CallUndone == ASSUME IInv, Order, CallSend PROVE ~Done' /\ calls' = calls + 1 /\ calls' \in 1 .. MaxCalls
<1>1. calls' = calls + 1 /\ calls \in Nat /\ calls < MaxCalls /\ rsp' = rsp /\ response'.err # "OK"
  BY Types DEF CallSend, network, Unanswered, Response
<1>2. \A m \in Messages : m.n \in Nat
  BY DEF Messages
<1>3. \A i \in 1 .. Len(rsp) : rsp[i].n \in Nat /\ rsp[i].n <= calls
  BY <1>2, Types DEF Order
<1> QED  BY <1>1, <1>3 DEF Done

Unexecuted ==
  \/ DeviceOpens \/ DeviceRejects \/ DeviceCloses
  \/ SessionExpires \/ LinkBreaks \/ LinkComesUp

\* The environment brings news only when it executes the command.
LEMMA EnvironmentDone ==
  ASSUME IInv, Order, Environment
  PROVE  /\ UNCHANGED <<calls, m_protocolType>>
         /\ Unexecuted /\ calls > 0 /\ Done' => Done
         /\ DeviceExecutes /\ Done' => Head(req).n = calls
<1>1. UNCHANGED <<calls, m_protocolType, response>>
  BY DEF Environment, DeviceOpens, DeviceExecutes, DeviceRejects, DeviceCloses, Answer, SessionExpires,
     LinkBreaks, LinkComesUp, params
<1>2. ASSUME LinkBreaks \/ SessionExpires \/ LinkComesUp PROVE Done' => Done
  <2>1. rsp' \in {rsp, <<>>}
    BY <1>2 DEF LinkBreaks, SessionExpires, LinkComesUp, network
  <2>2. Done' => Done
    BY <1>1, <2>1 DEF Done
  <2> QED  BY <2>2
<1>3. ASSUME NEW kind \in {"session", "OK", "SESSION_UNKNOWN_ID"}, NEW sid, Answer(kind, sid)
      PROVE  /\ 1 \in 1 .. Len(req) /\ Head(req) = req[1]
             /\ Done' => Done \/ (kind = "OK" /\ Head(req).n = calls)
  <2> DEFINE m == Message(kind, sid, Head(req).rid, Head(req).n)
  <2>1. req # <<>> /\ rsp' = Append(rsp, m) /\ 1 \in 1 .. Len(req) /\ Head(req) = req[1]
    BY <1>3, Types, TakenFirst DEF Answer
  <2>2. m.kind = kind /\ m.n = Head(req).n
    BY DEF Message
  <2> HIDE DEF m
  <2>3. \A i \in 1 .. Len(rsp') : rsp'[i] = m \/ (i \in 1 .. Len(rsp) /\ rsp'[i] = rsp[i])
    BY <2>1, Types
  <2> QED  BY <1>1, <2>1, <2>2, <2>3 DEF Done
<1>4. ASSUME DeviceOpens \/ DeviceRejects PROVE Done' => Done
  <2>1. \E kind \in {"session", "SESSION_UNKNOWN_ID"} : \E sid : Answer(kind, sid)
    BY <1>4 DEF DeviceOpens, DeviceRejects
  <2>2. Done' => Done
    BY <1>3, <2>1
  <2> QED  BY <2>2
<1>5. ASSUME DeviceCloses, calls > 0 PROVE Done' => Done
  <2>1. Answer("OK", Head(req).sid) /\ Head(req).kind = "end"
    BY <1>5 DEF DeviceCloses
  <2>2. Head(req).n = 0 /\ (Done' => Done \/ Head(req).n = calls)
    BY <1>3, <2>1 DEF Order
  <2> QED  BY <1>5, <2>2
<1>6. ASSUME DeviceExecutes, Done' PROVE Head(req).n = calls
  <2>1. Answer("OK", Head(req).sid) /\ Head(req).kind = "command"
    BY <1>6 DEF DeviceExecutes
  <2>2. 1 \in 1 .. Len(req) /\ Head(req) = req[1] /\ (Done' => Done \/ Head(req).n = calls)
    BY <1>3, <2>1
  <2>3. Done => calls <= req[1].n
    BY <2>1, <2>2 DEF Order, Done
  <2>4. req[1].n \in Nat /\ calls \in Nat /\ req[1].n <= calls
    BY <2>2, Types DEF Order, Messages
  <2> QED  BY <1>6, <2>2, <2>3, <2>4
<1> QED  BY <1>1, <1>2, <1>4, <1>5, <1>6 DEF Unexecuted

LEMMA LearningStep ==
  ASSUME IInv, AInv, Order, Learning, Method, [AuthNext]_authVars
  PROVE  Learning'
<1> USE DEF Learning, LearnsItsProtocol
<1>1. CASE CallLogin
  <2>1. /\ CallSend /\ UNCHANGED <<sul, answer, devSul>> /\ UNCHANGED params
        /\ DOMAIN command' = DOMAIN command
    BY <1>1 DEF CallLogin, NextCommand, GetChallenge, GetChallengeLevel, SendCarrying, CallSend, devLogin
  <2>2. ~Done' /\ calls' \in 1 .. MaxCalls
    BY <2>1, CallUndone
  <2>3. CASE stage' = "access"
    BY <2>1, <2>3
  <2>4. CASE /\ m_protocolType # "COLA_B" /\ stage' = "challenge1"
             /\ command' = [command EXCEPT ![calls'] = Command("GetChallenge", NoChallenge)]
    <3>1. command'[calls'].name = "GetChallenge"
      BY <2>2, <2>4 DEF Command
    <3> QED  BY <2>1, <2>2, <2>4, <3>1 DEF params
  <2>5. CASE m_protocolType # "COLA_B" /\ stage' = "challenge2" /\ sul[self'] \notin {"UNKNOWN", "SUL1"}
    <3>1. self' \in 1 .. MaxOpens
      BY <1>1 DEF CallLogin, IInv, TypeOK, ObjectsOK
    <3> QED  BY <2>1, <2>5, <3>1 DEF params
  <2> QED  BY <1>1, <2>3, <2>4, <2>5 DEF CallLogin, NextCommand, GetChallenge, GetChallengeLevel, SendCarrying
<1>2. CASE CallLogout \/ CallOther
  <2>1. /\ stage' \in {"run", "none"} /\ UNCHANGED <<sul, answer, devSul>>
        /\ DOMAIN command' = DOMAIN command
    BY <1>2 DEF CallLogout, CallOther, NextCommand, SendCarrying, devLogin
  <2> QED  BY <2>1
<1>3. CASE CallWithoutObject \/ UsesGone \/ AuthCrashed \/ UNCHANGED authVars
  <2>1. UNCHANGED <<m_protocolType, response, rsp, calls, stage, sul, command, answer, devSul>>
    BY <1>3 DEF CallWithoutObject, UsesGone, AuthCrashed, Crashed, authVars, vars, auth, method, devLogin,
       params, network
  <2> QED  BY <2>1 DEF Done
<1>4. CASE ProtocolUnknown
  <2>1. /\ stage = "challenge1" /\ stage' = "challenge2" /\ Err = "BUFFER_UNDERFLOW"
        /\ sul' = [sul EXCEPT ![self] = "SUL2"] /\ UNCHANGED <<answer, devSul>> /\ UNCHANGED params
        /\ DOMAIN command' = DOMAIN command
    BY <1>4 DEF ProtocolUnknown, Back, Learn, GetChallengeLevel, NextCommand, SendCarrying, CallSend, devLogin
  <2>2. response.err # "BUFFER_UNDERFLOW"
    BY DEF IInv, TypeOK, ClientOK, Errors
  <2>3. devSul = "SUL2"
    BY <2>1, <2>2 DEF Err
  <2> QED  BY <2>1, <2>3 DEF params
<1>5. CASE ChallengeFails \/ ReadResult
  BY <1>5 DEF ChallengeFails, ReadResult, End, devLogin
<1>6. CASE LevelAnswered
  <2>1. /\ stage' = "none" /\ UNCHANGED <<command, answer, devSul>>
        /\ sul' = [sul EXCEPT ![self] = devSul]
    BY <1>6 DEF LevelAnswered, Back, Learn, End, devLogin
  <2> QED  BY <2>1
<1>7. CASE ChallengeComes
  <2>1. /\ UNCHANGED <<sul, answer, devSul>> /\ UNCHANGED params /\ DOMAIN command' = DOMAIN command
        /\ Err = "OK" /\ answer.success
        /\ (stage = "challenge1" /\ stage' = "level1") \/ (stage = "challenge2" /\ stage' = "level2")
    BY <1>7 DEF ChallengeComes, Back, Agreed, SetUserLevel, NextCommand, SendCarrying, CallSend, devLogin
  <2>2. stage = "challenge1" => devSul = "SUL1"
    <3> SUFFICES ASSUME stage = "challenge1" PROVE devSul = "SUL1"
      OBVIOUS
    <3>1. response.err = "OK"
      BY <2>1 DEF Err
    <3>2. m_protocolType = "COLA_2"
      BY <3>1 DEF AInv, Unopened, HasAnswer, IInv, TypeOK, ClientOK
    <3>3. response.n = calls
      BY <3>1, <3>2 DEF AInv, OwnAnswer, HasAnswer
    <3> QED  BY <2>1, <3>1, <3>3 DEF Err, Done
  <2> QED  BY <2>1, <2>2 DEF params
<1>8. CASE ClientStep
  <2>1. UNCHANGED <<stage, sul, command, answer, devSul>> /\ Client
    BY <1>8 DEF ClientStep, auth, method, devLogin
  <2> QED  BY <2>1, ClientDone
<1>9. CASE EnvironmentStep
  <2>1. UNCHANGED <<stage, sul, command, devSul>> /\ Environment
    BY <1>9 DEF EnvironmentStep, Environment, method
  <2>2. CASE DeviceExecutes /\ DeviceAnswers
    <3>1. answer'.err = "BUFFER_UNDERFLOW" => devSul = "SUL2"
      BY <2>2 DEF DeviceAnswers, DeviceChallenges, DeviceLevel, Answered
    <3>2. ASSUME stage = "challenge1", Done', answer'.err = "OK", answer'.success
          PROVE  devSul = "SUL1"
      <4>1. Head(req).n = calls
        BY <2>1, <2>2, <3>2, EnvironmentDone
      <4>2. Received.name = "GetChallenge"
        BY <3>2, <4>1 DEF Received
      <4> QED  BY <2>2, <3>2, <4>2 DEF DeviceAnswers, Answered
    <3> QED  BY <2>1, <3>1, <3>2, EnvironmentDone
  <2>3. CASE Unexecuted /\ UNCHANGED answer
    <3>1. calls \in 0 .. MaxCalls /\ calls' = calls /\ m_protocolType' = m_protocolType
      BY <2>1, EnvironmentDone, Types
    <3>2. calls > 0 /\ Done' => Done
      BY <2>1, <2>3, EnvironmentDone
    <3>3. stage' = "challenge1" => calls > 0
      BY <2>1, <3>1, BoundsAssumption
    <3> QED  BY <2>1, <2>3, <3>1, <3>2, <3>3
  <2> QED  BY <1>9, <2>2, <2>3 DEF EnvironmentStep, Unexecuted
<1> QED  BY <1>1, <1>2, <1>3, <1>4, <1>5, <1>6, <1>7, <1>8, <1>9 DEF AuthNext, LoginStep

LearningInv == AuthIInv /\ AInv /\ Order /\ Learning

\* What is proved of the messages under way holds with logins too.
LEMMA MessagesStep == ASSUME AuthIInv, AInv, Order, [AuthNext]_authVars PROVE AInv' /\ Order'
<1>1. CASE [Next]_vars
  BY <1>1, UnopenedStep, NumberedStep, UnconnectedStep, QuietStep, SessionlessStep, OwnAnswerStep,
     TornStep, OrderStep DEF AuthIInv, AInv
<1>2. CASE Crash
  <2>1. /\ UNCHANGED <<params, objects, ids, op, response, calls, req, rsp, rest, late>>
        /\ pc = "idle" /\ pc' = "crashed"
    BY <1>2 DEF Crash, network
  <2>2. Order'
    BY <2>1 DEF Order
  <2>3. Numbered'
    BY <2>1 DEF AInv, Numbered, NumberedMessage, Behind, Ending, params, ids
  <2>4. (Unconnected /\ Unopened /\ Quiet /\ Sessionless /\ OwnAnswer /\ Torn)'
    BY <2>1 DEF AInv, Unconnected, Unopened, Quiet, Sessionless, OwnAnswer, Torn, HasAnswer, Opening, Ending,
       params, objects
  <2> QED  BY <2>2, <2>3, <2>4 DEF AInv
<1> QED  BY <1>1, <1>2, StepOfControl

LEMMA LearningInit == AuthInit => LearningInv
<1> SUFFICES ASSUME AuthInit PROVE LearningInv
  OBVIOUS
<1>1. AInv
  BY InitAnswers DEF AuthInit
<1>2. Order
  <2>1. req = <<>> /\ rsp = <<>> /\ calls = 0 /\ response = Unanswered
    BY DEF AuthInit, Init
  <2>2. response.n <= calls
    BY <2>1 DEF Unanswered, Response
  <2> QED  BY <2>1, <2>2 DEF Order
<1>3. Learning
  BY DeviceProtocolsAssumption DEF AuthInit, Learning, LearnsItsProtocol, Answered
<1> QED  BY <1>1, <1>2, <1>3, AuthInitSafe DEF LearningInv

-----------------------------------------------------------------------------
(* The level of a login *)

\* What is under way on a connection carries the session the client has, but
\* for the answer that brings it.
OneSession ==
  /\ \A i \in 1 .. Len(req) : req[i].sid = m_sessionID
  /\ \A i \in 1 .. Len(rsp) : rsp[i].kind # "session" => rsp[i].sid = m_sessionID

\* While SetUserLevel is under way, the device's agreement to the command of the
\* current call is the grant of a level to it, on the client's session.
Granting ==
  stage \in {"level1", "level2"} =>
    /\ calls \in 1 .. MaxCalls /\ command[calls].name = "SetUserLevel"
    /\ Done /\ answer.success => granted = <<m_sessionID, calls>>

\* A handler writes a message with the session it has.
LEMMA WrittenWithSession ==
  ASSUME IInv, OneSession, NEW kind \in {"open", "command", "end"}, NEW n \in 0 .. MaxCalls,
         Transmit(kind, n)
  PROVE  OneSession'
<1> DEFINE m == Message(kind, m_sessionID, m_reqID', n)
<1>1. m \in Messages /\ (req' = req \/ req' = Append(req, m))
  BY Transmitted DEF IInv, TypeOK
<1>2. m.sid = m_sessionID /\ rsp' = rsp /\ m_sessionID' = m_sessionID
  BY DEF Message, Transmit
<1> HIDE DEF m
<1>3. \A i \in 1 .. Len(req') : req'[i] = m \/ (i \in 1 .. Len(req) /\ req'[i] = req[i])
  BY <1>1, Types, AddedLast
<1> QED  BY <1>2, <1>3 DEF OneSession

LEMMA OneSessionStep == ASSUME IInv, OneSession, [Next]_vars PROVE OneSession'
<1>1. CASE req' = <<>> /\ rsp' = <<>>
  BY <1>1 DEF OneSession
<1>2. ASSUME m_sessionID' = m_sessionID, req' \in {req, <<>>},
             \A i \in 1 .. Len(rsp') : \E j \in 1 .. Len(rsp) : rsp'[i] = rsp[j]
      PROVE  OneSession'
  BY <1>2 DEF OneSession
<1>3. CASE m_sessionID' = m_sessionID /\ req' \in {req, <<>>} /\ rsp' \in {rsp, <<>>}
  BY <1>2, <1>3
<1>4. CASE Empties
  BY <1>1, <1>4, Emptied
<1>5. CASE CallSend \/ CallClose \/ SendUnopened \/ SendDangling \/ Return
  BY <1>3, <1>5 DEF CallSend, CallClose, SendUnopened, SendDangling, Return, ids, network
<1>6. CASE OpenSession
  BY <1>6, WrittenWithSession DEF OpenSession
<1>7. CASE Send
  BY <1>7, Types, WrittenWithSession DEF Send
<1>8. CASE CloseSession
  <2>1. CASE Transmit("end", 0)
    BY <2>1, WrittenWithSession
  <2>2. CASE UNCHANGED <<ids, network>>
    BY <1>3, <2>2 DEF ids, network
  <2> QED  BY <1>8, <2>1, <2>2 DEF CloseSession
<1>9. CASE Taking
  <2>1. m_sessionID' = m_sessionID /\ req' = req
    BY <1>9 DEF Taking, Receive, Misread, Misled, ReceiveFails, SessionClosed, ids, network
  <2> QED  BY <1>2, <1>9, <2>1, Taken
<1>10. CASE DeviceStepsIn
  <2>1. PICK kind, sid : Answer(kind, sid) /\ (kind = "session" \/ sid = Head(req).sid)
    BY <1>10 DEF DeviceStepsIn, DeviceOpens, DeviceExecutes, DeviceRejects, DeviceCloses
  <2> DEFINE m == Message(kind, sid, Head(req).rid, Head(req).n)
  <2>2. /\ req # <<>> /\ req' = Tail(req) /\ rsp' = Append(rsp, m) /\ m_sessionID' = m_sessionID
        /\ m.kind = kind /\ m.sid = sid
    BY <2>1 DEF Answer, Message, ids
  <2> HIDE DEF m
  <2>3. /\ 1 \in 1 .. Len(req) /\ Head(req) = req[1]
        /\ \A i \in 1 .. Len(req') : i + 1 \in 1 .. Len(req) /\ req'[i] = req[i + 1]
    BY <2>2, Types, TakenFirst
  <2>4. \A i \in 1 .. Len(rsp') : rsp'[i] = m \/ (i \in 1 .. Len(rsp) /\ rsp'[i] = rsp[i])
    BY <2>2, Types
  <2>5. m.kind # "session" => m.sid = m_sessionID
    BY <2>1, <2>2, <2>3 DEF OneSession
  <2> QED  BY <2>2, <2>3, <2>4, <2>5 DEF OneSession
<1>11. CASE SessionExpires \/ LinkBreaks \/ LinkComesUp \/ UNCHANGED vars
  BY <1>3, <1>11 DEF SessionExpires, LinkBreaks, LinkComesUp, vars, ids, network
<1> QED  BY <1>4, <1>5, <1>6, <1>7, <1>8, <1>9, <1>10, <1>11
         DEF Next, Client, User, Environment, Crashed, Empties, DeviceStepsIn, Taking

\* A new session leaves no news of the current call.
LEMMA NewSessionUndone ==
  ASSUME IInv, AInv, Client, m_sessionID' # m_sessionID
  PROVE  ~Done'
<1>1. CASE Connect \/ ConnectTimesOut \/ SessionOpened
  <2>1. Opening /\ response' = response /\ rsp' = <<>>
    BY <1>1, Emptied DEF Connect, ConnectTimesOut, ConnectAs, SessionOpened, Opening, Empties
  <2>2. response'.err # "OK"
    BY <2>1 DEF AInv, OwnAnswer
  <2> QED  BY <2>1, <2>2 DEF Done
<1>2. CASE ~(Connect \/ ConnectTimesOut \/ SessionOpened)
  BY <1>2 DEF Client, ConnectFails, OpenSession, SessionNotOpened, SendUnopened, SendDangling, Send,
     Receive, Misread, Misled, ReceiveFails, Reconnect, Return, CloseSession, SessionClosed, CloseRest, Transmit, ids
<1> QED  BY <1>1, <1>2

LEMMA GrantingStep ==
  ASSUME IInv, AInv, Order, OneSession, Learning, Granting, [AuthNext]_authVars
  PROVE  Granting'
<1> USE DEF Granting
<1>1. CASE stage' \notin {"level1", "level2"}
  BY <1>1
<1>2. CASE CallLogin \/ CallLogout \/ CallOther \/ ProtocolUnknown \/ ChallengeFails \/ LevelAnswered
           \/ ReadResult
  BY <1>1, <1>2 DEF CallLogin, CallLogout, CallOther, ProtocolUnknown, ChallengeFails, LevelAnswered,
     ReadResult, End, GetChallenge, GetChallengeLevel, NextCommand
<1>3. CASE ChallengeComes
  <2>1. CallSend /\ command' = [command EXCEPT ![calls'] = Command("SetUserLevel", <<opens, calls>>)]
    BY <1>3 DEF ChallengeComes, SetUserLevel, NextCommand, SendCarrying
  <2>2. ~Done' /\ calls' \in 1 .. MaxCalls
    BY <2>1, CallUndone
  <2>3. command'[calls'].name = "SetUserLevel"
    BY <2>1, <2>2 DEF Learning, Command
  <2> QED  BY <2>2, <2>3
<1>4. CASE CallWithoutObject \/ UsesGone \/ AuthCrashed \/ UNCHANGED authVars
  <2>1. UNCHANGED <<m_sessionID, response, rsp, calls, stage, command, answer, granted>>
    BY <1>4 DEF CallWithoutObject, UsesGone, AuthCrashed, Crashed, authVars, vars, auth, method, devLogin,
       ids, network
  <2> QED  BY <2>1 DEF Done
<1>5. CASE ClientStep
  <2>1. UNCHANGED <<stage, command, answer, granted>> /\ Client
    BY <1>5 DEF ClientStep, auth, method, devLogin
  <2>2. UNCHANGED calls /\ (Done' => Done) /\ (Done' => m_sessionID' = m_sessionID)
    BY <2>1, ClientDone, NewSessionUndone
  <2> QED  BY <2>1, <2>2
<1>6. CASE EnvironmentStep
  <2>1. UNCHANGED <<stage, command>> /\ Environment
    BY <1>6 DEF EnvironmentStep, Environment, method
  <2>2. UNCHANGED <<calls, m_sessionID>>
    BY <2>1, EnvironmentDone DEF Environment, DeviceOpens, DeviceExecutes, DeviceRejects, DeviceCloses,
       Answer, SessionExpires, LinkBreaks, LinkComesUp, ids
  <2>3. CASE DeviceExecutes /\ DeviceAnswers
    <3> SUFFICES ASSUME stage \in {"level1", "level2"}, Done', answer'.success
                 PROVE  granted' = <<m_sessionID, calls>>
      BY <2>1, <2>2
    <3>1. Head(req).n = calls
      BY <2>1, <2>3, EnvironmentDone
    <3>2. DeviceLevel
      BY <2>3, <3>1 DEF DeviceAnswers, Received
    <3>3. granted' = <<Head(req).sid, Head(req).n>>
      BY <3>2 DEF DeviceLevel, Answered
    <3>4. Head(req).sid = m_sessionID
      BY <2>3, Types, TakenFirst DEF DeviceExecutes, OneSession
    <3> QED  BY <3>1, <3>3, <3>4
  <2>4. CASE Unexecuted /\ UNCHANGED <<answer, granted>>
    <3> SUFFICES ASSUME stage \in {"level1", "level2"} PROVE Done' => Done
      BY <2>1, <2>2, <2>4
    <3>1. calls > 0
      BY BoundsAssumption
    <3> QED  BY <2>1, <2>4, <3>1, EnvironmentDone
  <2> QED  BY <1>6, <2>3, <2>4 DEF EnvironmentStep, Unexecuted
<1> QED  BY <1>2, <1>3, <1>4, <1>5, <1>6 DEF AuthNext, LoginStep

LoginInv == LearningInv /\ OneSession /\ Granting

LEMMA LoginStepKeeps == ASSUME LoginInv, [AuthNext]_authVars PROVE LoginInv'
<1>1. LearningInv'
  BY AuthStep, MessagesStep, LearningStep DEF LoginInv, LearningInv, AuthIInv
<1>2. OneSession'
  <2>1. CASE Crash
    BY <2>1 DEF Crash, LoginInv, OneSession, ids, network
  <2> QED  BY <2>1, StepOfControl, OneSessionStep DEF LoginInv, LearningInv, AuthIInv
<1>3. Granting'
  BY GrantingStep DEF LoginInv, LearningInv, AuthIInv
<1> QED  BY <1>1, <1>2, <1>3 DEF LoginInv

\* A login that returns true returns from the answer to its own SetUserLevel.
LEMMA TrueIsAgreed ==
  ASSUME LoginInv, [AuthNext]_authVars,
         stage \in {"level1", "level2"}, stage' = "none", result' = "true"
  PROVE  granted = <<m_sessionID, calls>>
<1>1. LevelAnswered
  BY DEF AuthNext, LoginStep, CallLogin, CallLogout, CallWithoutObject, CallOther, ClientStep,
     ProtocolUnknown, ChallengeFails, ChallengeComes, UsesGone, ReadResult, Back, GetChallengeLevel,
     SetUserLevel, NextCommand, EnvironmentStep, AuthCrashed, authVars, auth, method
<1>2. Agreed
  BY <1>1 DEF LevelAnswered, End
<1>3. response.err = "OK"
  BY <1>2 DEF Agreed, Err
<1>4. m_protocolType = "COLA_2"
  BY <1>3 DEF LoginInv, LearningInv, Learning, AuthIInv, AInv, Unopened, HasAnswer, IInv, TypeOK, ClientOK
<1>5. response.n = calls
  BY <1>3, <1>4 DEF LoginInv, LearningInv, AInv, OwnAnswer, HasAnswer
<1> QED  BY <1>2, <1>3, <1>5 DEF Agreed, Done, LoginInv, Granting

-----------------------------------------------------------------------------
(* The theorems *)

\* What is proved of VisionaryControl holds with logins too.
THEOREM AuthInductive == AuthSpec => []AuthIInv
<1>1. AuthIInv /\ [AuthNext]_authVars => AuthIInv'
  BY AuthStep
<1> QED  BY AuthInitSafe, <1>1, PTL DEF AuthSpec

\* Without autoReconnect a login or logout of an open control never uses an
\* object that is gone (AuthenticationSecure.cpp:155, VisionaryControl.cpp:213).
THEOREM LoginSafe == AuthSpec => []SafeWithoutReconnect
<1>1. AuthIInv => SafeWithoutReconnect
  BY DEF AuthIInv
<1> QED  BY <1>1, AuthInductive, PTL

\* No authentication object takes the device to speak another protocol version
\* than it does (AuthenticationSecure.cpp:155,179), whatever is lost or late,
\* and also where a login runs on an object that is gone.
THEOREM LearnsVersion == AuthSpec => []LearnsItsProtocol
<1>1. LearningInv /\ [AuthNext]_authVars => LearningInv'
  BY AuthStep, MessagesStep, LearningStep DEF LearningInv, AuthIInv
<1>2. LearningInv => LearnsItsProtocol
  BY DEF LearningInv, Learning
<1> QED  BY LearningInit, <1>1, <1>2, PTL DEF AuthSpec

\* A login of CoLa 2 that returns true has its level from the device, for its
\* own SetUserLevel and on the session the client has, however often the
\* connection was made again and whatever came late (VisionaryControl.h:63,
\* AuthenticationSecure.cpp:155).
THEOREM LoginHasLevel == AuthSpec => LoginMeansLevel
<1>1. AuthInit => LoginInv
  <2> SUFFICES ASSUME AuthInit PROVE OneSession /\ Granting
    BY LearningInit DEF LoginInv
  <2>1. req = <<>> /\ rsp = <<>> /\ stage = "none"
    BY DEF AuthInit, Init
  <2> QED  BY <2>1 DEF OneSession, Granting
<1>2. LoginInv /\ [AuthNext]_authVars => LoginInv'
  BY LoginStepKeeps
<1>3. LoginInv /\ [AuthNext]_authVars =>
        [(stage \in {"level1", "level2"} /\ stage' = "none" /\ result' = "true")
           => granted = <<m_sessionID, calls>>]_authVars
  BY TrueIsAgreed
<1> QED  BY <1>1, <1>2, <1>3, PTL DEF AuthSpec, LoginMeansLevel

=============================================================================
