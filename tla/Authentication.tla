--------------------------- MODULE Authentication ---------------------------
(***************************************************************************)
(* login and logout: AuthenticationSecure (CoLa 2) and AuthenticationLegacy*)
(* (CoLa B), composed with VisionaryControl.  A login is one to three      *)
(* commands, each a complete sendCommand of VisionaryControl: the actions  *)
(* of that module are taken as they are, and this module says which        *)
(* commands the calls carry and what happens between them.                 *)
(*                                                                         *)
(* The object a method runs on belongs to the open() that made it, and a   *)
(* reconnection inside sendCommand replaces it: `self` is then gone, and   *)
(* every later use of a member of it is undefined behaviour.  The model    *)
(* has both outcomes: the client ends in "crashed", or the memory is still *)
(* intact and the method goes on.                                          *)
(*                                                                         *)
(* Passwords and hashes are abstracted: a challenge is known by the        *)
(* connection and the call it was issued for, its answer by the challenge. *)
(***************************************************************************)
EXTENDS VisionaryControl

CONSTANTS
  DeviceProtocols, \* the secure user level protocols of the devices
  MaxPlain         \* bound: the first so many calls may be other than a login's

ASSUME DeviceProtocolsAssumption == DeviceProtocols \subseteq {"SUL1", "SUL2"} /\ MaxPlain \in Nat

VARIABLES
  stage,       \* which command of a login or logout is under way
  self,        \* the authentication object whose method runs
  sul,         \* m_protocolType of each AuthenticationSecure object
  result,      \* of the last login or logout
  command,     \* what the sendCommand call n carries
  answer,      \* what the device answered to the last command it executed
  devSul,      \* the protocol the device speaks
  outstanding, \* the challenge the device waits for an answer to
  granted      \* history: session and call of the last SetUserLevel granted

method   == <<stage, self, sul, result>>
devLogin == <<answer, devSul, outstanding, granted>>
auth     == <<method, command, devLogin>>
authVars == <<vars, auth>>

Stages == {"none", "access", "run", "challenge1", "level1", "challenge2", "level2"}
Command(name, challenge) == [name |-> name, challenge |-> challenge]
Answered(err, success) == [err |-> err, success |-> success]
NoChallenge == <<0, 0>>
NoGrant == <<0, 0>>

AuthInit ==
  /\ Init
  /\ stage = "none" /\ self = 0 /\ result = "none"
  /\ sul = [o \in 1 .. MaxOpens |-> "UNKNOWN"]
  /\ command = [n \in 1 .. MaxCalls |-> Command("none", NoChallenge)]
  /\ answer = Answered("OK", TRUE)
  /\ devSul \in DeviceProtocols
  /\ outstanding = NoChallenge
  /\ granted = NoGrant

-----------------------------------------------------------------------------
(* Calls *)

\* A sendCommand call that carries c.
SendCarrying(c) ==
  /\ CallSend
  /\ command' = [command EXCEPT ![calls'] = c]

\* The stage after a command, with the command that is sent next.
NextCommand(st, c) == stage' = st /\ SendCarrying(c)

\* Without a level a device that speaks SUL2 answers BUFFER_UNDERFLOW.
GetChallenge      == NextCommand("challenge1", Command("GetChallenge", NoChallenge))
GetChallengeLevel == NextCommand("challenge2", Command("GetChallengeLevel", NoChallenge))
SetUserLevel(st, challenge) == NextCommand(st, Command("SetUserLevel", challenge))

\* The objects of CoLa B are AuthenticationLegacy, those of CoLa 2
\* AuthenticationSecure.  A login begins only where the bound has room for the
\* commands it may need.
CallLogin ==
  /\ stage = "none" /\ m_pAuthentication # 0
  /\ calls + 3 <= MaxCalls
  /\ self' = m_pAuthentication /\ result' = "none"
  /\ IF m_protocolType = "COLA_B"
     THEN NextCommand("access", Command("SetAccessMode", NoChallenge))
     ELSE IF sul[self'] \in {"UNKNOWN", "SUL1"} THEN GetChallenge ELSE GetChallengeLevel
  /\ UNCHANGED <<sul, devLogin>>

CallLogout ==
  /\ stage = "none" /\ m_pAuthentication # 0
  /\ calls < MaxPlain
  /\ self' = m_pAuthentication /\ result' = "none"
  /\ NextCommand("run", Command("Run", NoChallenge))
  /\ UNCHANGED <<sul, devLogin>>

\* login and logout of a control that is not open.
CallWithoutObject ==
  /\ stage = "none" /\ m_pAuthentication = 0
  /\ Goto("idle", "crashed")
  /\ UNCHANGED <<params, objects, ids, op, resent, response, opens, calls, network, device, auth>>

\* The other commands, and open and close; close logs out first.
CallOther ==
  /\ stage = "none"
  /\ \/ calls < MaxPlain /\ SendCarrying(Command("other", NoChallenge))
     \/ CallOpen /\ UNCHANGED command
     \/ CallClose /\ command' = IF calls' = calls THEN command
                                ELSE [command EXCEPT ![calls'] = Command("Run", NoChallenge)]
  /\ result' = "none"
  /\ UNCHANGED <<stage, self, sul, devLogin>>

\* What VisionaryControl does within a call.
ClientStep == Client /\ UNCHANGED auth

-----------------------------------------------------------------------------
(* AuthenticationSecure::login between its commands *)

\* sendCommand has returned to the login or logout that called it.
Back(st) == stage = st /\ pc = "idle"
Gone == self # m_pAuthentication

Err == IF response.err = "OK" /\ response.n = calls THEN answer.err ELSE response.err
Agreed == Err = "OK" /\ answer.success
Refused == Err = "OK" /\ ~answer.success

\* The method returns r.
End(r) ==
  /\ stage' = "none" /\ self' = 0 /\ result' = r
  /\ UNCHANGED <<vars, command, devLogin>>

Learn(protocol) == sul' = [sul EXCEPT ![self] = protocol]

\* Mutant: every answer that is not a challenge is taken for that of SUL2.
ProtocolUnknownAnyError ==
  /\ Back("challenge1") /\ Err # "OK"
  /\ Learn("SUL2")
  /\ GetChallengeLevel
  /\ UNCHANGED <<self, result, devLogin>>

\* The device wants the user level with the command.
ProtocolUnknown ==
  /\ Back("challenge1") /\ Err = "BUFFER_UNDERFLOW"
  /\ Learn("SUL2")
  /\ GetChallengeLevel
  /\ UNCHANGED <<self, result, devLogin>>

\* No challenge: the login has failed.
ChallengeFails ==
  /\ \/ Back("challenge1") /\ Err \notin {"OK", "BUFFER_UNDERFLOW"}
     \/ Back("challenge1") /\ Refused
     \/ Back("challenge2") /\ ~Agreed
  /\ End("false")
  /\ UNCHANGED sul

\* loginImpl answers the challenge it has.
ChallengeComes ==
  /\ \/ Back("challenge1") /\ Agreed /\ SetUserLevel("level1", <<opens, calls>>)
     \/ Back("challenge2") /\ Agreed /\ SetUserLevel("level2", <<opens, calls>>)
  /\ UNCHANGED <<self, sul, result, devLogin>>

\* Whatever SetUserLevel brought, the protocol version is kept.
LevelAnswered ==
  /\ Back("level1") \/ Back("level2")
  /\ Learn(IF stage = "level1" THEN "SUL1" ELSE "SUL2")
  /\ End(IF Agreed THEN "true" ELSE "false")

\* A member of an object that is gone is used: always, except after a second
\* GetChallenge that failed.
UsesGone ==
  /\ Gone
  /\ Back("challenge1") \/ Back("level1") \/ Back("level2") \/ (Back("challenge2") /\ Agreed)
  /\ pc' = "crashed"
  /\ UNCHANGED <<params, objects, ids, op, resent, response, opens, calls, network, device, auth>>

\* AuthenticationLegacy::login, and logout of either: the result is a byte of
\* the answer.  CoLa B may have the answer to another command here, which
\* holds any byte, or none: at() throws.
ReadResult ==
  /\ Back("access") \/ Back("run")
  /\ \E r \in IF response.err # "OK" THEN {"false"}
              ELSE IF response.n # calls THEN {"true", "false", "throws"}
              ELSE {IF Agreed THEN "true" ELSE "false"} : End(r)
  /\ UNCHANGED sul

LoginStep ==
  \/ ProtocolUnknown \/ ChallengeFails \/ ChallengeComes \/ LevelAnswered
  \/ UsesGone \/ ReadResult

-----------------------------------------------------------------------------
(* The device *)

Received == command[Head(req).n]

\* It issues a challenge, or refuses (too many attempts).
DeviceChallenges ==
  \/ /\ answer' = Answered("OK", TRUE)
     /\ outstanding' = <<opens, Head(req).n>>
  \/ /\ answer' = Answered("OK", FALSE)
     /\ UNCHANGED outstanding

\* It grants a level for the answer to the challenge it has outstanding, if
\* the password was right.
DeviceLevel ==
  /\ outstanding' = NoChallenge
  /\ \/ /\ Received.challenge = outstanding /\ outstanding # NoChallenge
        /\ answer' = Answered("OK", TRUE)
        /\ granted' = <<Head(req).sid, Head(req).n>>
     \/ answer' = Answered("OK", FALSE) /\ UNCHANGED granted

DeviceAnswers ==
  CASE Received.name = "GetChallenge" ->
         /\ IF devSul = "SUL1" THEN DeviceChallenges
            ELSE answer' = Answered("BUFFER_UNDERFLOW", FALSE) /\ UNCHANGED outstanding
         /\ UNCHANGED granted
    [] Received.name = "GetChallengeLevel" ->
         /\ IF devSul = "SUL2" THEN DeviceChallenges
            ELSE answer' = Answered("BUFFER_OVERFLOW", FALSE) /\ UNCHANGED outstanding
         /\ UNCHANGED granted
    [] Received.name = "SetUserLevel" -> DeviceLevel
    [] Received.name = "SetAccessMode" ->
         \E s \in BOOLEAN : answer' = Answered("OK", s) /\ UNCHANGED <<outstanding, granted>>
    [] OTHER -> answer' = Answered("OK", TRUE) /\ UNCHANGED <<outstanding, granted>>

EnvironmentStep ==
  /\ \/ DeviceExecutes /\ DeviceAnswers
     \/ /\ \/ DeviceOpens \/ DeviceRejects \/ DeviceCloses
           \/ SessionExpires \/ LinkBreaks \/ LinkComesUp
        /\ UNCHANGED <<answer, outstanding, granted>>
  /\ UNCHANGED <<method, command, devSul>>

AuthCrashed == Crashed /\ UNCHANGED auth

AuthNext ==
  \/ CallLogin \/ CallLogout \/ CallWithoutObject \/ CallOther
  \/ ClientStep \/ LoginStep \/ EnvironmentStep \/ AuthCrashed

\* As in VisionaryControl: the client's thread runs, within a command and
\* between two, and a connection attempt is given up after a while.
AuthSpec ==
  /\ AuthInit /\ [][AuthNext]_authVars
  /\ WF_authVars(ClientStep \/ LoginStep)
  /\ WF_authVars(link = "pending" /\ EnvironmentStep /\ link' # "pending")

-----------------------------------------------------------------------------
(* Properties *)

\* A CoLa 2 login that returns true has its level from the device, for its own
\* SetUserLevel, on the session the client now has, whatever answers came late
\* and however often the connection was made again between the commands.  That
\* true means success is what the code does (AuthenticationSecure.cpp:152,196):
\* VisionaryControl.h:67 documents login by "error code, 0 on success", which read
\* for a bool is the opposite.
LoginMeansLevel ==
  [][(stage \in {"level1", "level2"} /\ stage' = "none" /\ result' = "true")
       => granted = <<m_sessionID, calls>>]_authVars

\* No authentication object ever takes the device to speak another protocol
\* version than it does (AuthenticationSecure.cpp:155,179): the version is kept
\* for the life of the object, so that a wrong one would make every later login
\* fail.
LearnsItsProtocol == \A o \in 1 .. MaxOpens : sul[o] \in {"UNKNOWN", devSul}

\* Without autoReconnect, login and logout of an open control are never
\* undefined: only a reconnection can destroy the object they run on.
SafeWithoutReconnect ==
  pc = "crashed" => m_autoReconnect \/ m_pProtocolHandler = 0

\* A login or logout returns, whatever is lost, unless it runs into undefined
\* behaviour or onto a connection without a receive timeout, or with CoLa B starts
\* to receive inside a message, after a receive that failed (Misled).
LoginReturns ==
  stage # "none" ~> \/ stage = "none" \/ pc = "crashed" \/ ~rcvTimeout
                    \/ pc = "misled" /\ m_protocolType = "COLA_B" /\ late

=============================================================================
