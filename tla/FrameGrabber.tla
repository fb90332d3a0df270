---------------------------- MODULE FrameGrabber ----------------------------
(***************************************************************************)
(* FrameGrabber<T> / FrameGrabberBase: a background thread reads frames    *)
(* from a VisionaryDataStream and swaps each one into m_pDataHandler under *)
(* m_dataHandler_mutex; consumer threads swap their own handler for it in  *)
(* getNextFrame and getCurrentFrame.  Frames are never copied: two handler *)
(* objects of the grabber and one per consumer rotate between the stream,  *)
(* the grabber and the consumers.                                          *)
(*                                                                         *)
(* Granularity.  A critical section of m_dataHandler_mutex is one action:  *)
(* the only access to its data outside the mutex is the read of            *)
(* m_FrameAvailable at the top of getCurrentFrame, an action of its own.   *)
(* Socket calls, parsing, and each step of the grabber's loop are separate *)
(* actions.  The bools read without synchronisation (m_isRunning,          *)
(* m_FrameAvailable) are read from memory in every iteration: the loop     *)
(* calls functions the compiler cannot see through.                        *)
(***************************************************************************)
EXTENDS Integers, FiniteSets

CONSTANTS
  Consumers,   \* threads that fetch frames from the grabber
  Windows,     \* TRUE for the _WIN32 build, FALSE for the POSIX build
  MaxFrames    \* bound: frames the device sends in one behaviour

ASSUME ConsumersAssumption == Consumers \cap {"active", "inactive", "nullptr"} = {}
ASSUME BoundsAssumption == Windows \in BOOLEAN /\ MaxFrames \in Nat

VARIABLES
  m_isRunning, m_connected,  \* FrameGrabberBase's flags of these names
  m_FrameAvailable,
  m_pDataHandler,            \* the handler the grabber keeps for the consumers
  streamHandler,             \* VisionaryDataStream::m_dataHandler
  holds,                     \* the handler in each consumer's hands
  content,                   \* the frame in each handler: its number, Empty or Torn
  published,                 \* frames put into m_pDataHandler so far
  sock,                      \* the stream's transport, see Transport
  soError,                   \* an error is pending on the socket (SO_ERROR)
  rcvTimeout,                \* the socket has a receive timeout (SO_RCVTIMEO)
  gpc,                       \* where the grabber thread is in run()
  cpc,                       \* where each consumer is in its call
  calledAt,                  \* history: published when the consumer called getNextFrame
  taken                      \* history: the largest frame number handed out

flags    == <<m_isRunning, m_connected, m_FrameAvailable>>
handlers == <<m_pDataHandler, streamHandler, holds>>
socket   == <<sock, soError, rcvTimeout>>
history  == <<calledAt, taken>>
vars     == <<flags, handlers, content, published, socket, gpc, cpc, history>>

Handlers == {"active", "inactive"} \cup Consumers
Empty    == 0      \* a handler no frame was parsed into
Torn     == -1     \* parsing has begun or has failed half way
Frames   == Torn .. MaxFrames

\* "null": m_pTransport is nullptr; "live": connected, or believed to be;
\* "fin": the peer closed, reads return 0; "reset": reads and sends fail.
Transport    == {"null", "live", "fin", "reset"}
GrabberSteps == {"loop", "open", "read", "parse", "publish", "notify", "probe",
                 "lasterr", "reopen", "done"}
CallSteps    == {"idle", "waiting", "woken", "expired", "taking"}

(***************************************************************************)
(* FrameGrabber's constructor calls start(), which opens the stream and    *)
(* spawns the thread whether or not the connection succeeded.  A consumer  *)
(* that passes nullptr gets a new handler: its own, named after it.        *)
(***************************************************************************)
Init ==
  /\ m_isRunning = TRUE
  /\ m_FrameAvailable = FALSE
  /\ m_connected \in BOOLEAN
  /\ m_pDataHandler = "inactive" /\ streamHandler = "active"
  /\ holds = [c \in Consumers |-> c]
  /\ content = [h \in Handlers |-> Empty]
  /\ published = 0
  /\ sock = IF m_connected THEN "live" ELSE "null"
  /\ soError = FALSE
  /\ rcvTimeout \in IF m_connected /\ ~Windows THEN BOOLEAN ELSE {TRUE}
  /\ gpc = "loop"
  /\ cpc = [c \in Consumers |-> "idle"]
  /\ calledAt = [c \in Consumers |-> 0]
  /\ taken = 0

-----------------------------------------------------------------------------
(* The grabber thread, FrameGrabberBase::run *)

At(step, next) == gpc = step /\ gpc' = next

\* Mutant: m_isRunning is read once (the compiler may, it is no atomic).
LoopTestHoisted ==
  /\ At("loop", IF m_connected THEN "read" ELSE "open")
  /\ UNCHANGED <<flags, handlers, content, published, socket, cpc, history>>

LoopTest ==
  /\ gpc = "loop"
  /\ gpc' = CASE ~m_isRunning -> "done"
              [] m_isRunning /\ ~m_connected -> "open"
              [] OTHER -> "read"
  /\ UNCHANGED <<flags, handlers, content, published, socket, cpc, history>>

\* VisionaryDataStream::open: the old transport goes first, then a new one is
\* connected.  On POSIX a connect that timed out counts as a "live" one; select
\* has counted tv down to 0 by then, and a receive timeout of 0 is none.
OpenStream(ok) ==
  /\ sock' = IF ok THEN "live" ELSE "null"
  /\ soError' = FALSE
  /\ rcvTimeout' \in IF ok /\ ~Windows THEN BOOLEAN ELSE {TRUE}
  /\ m_connected' = ok

Open(ok) ==
  /\ At("open", IF ok THEN "read" ELSE "loop")
  /\ OpenStream(ok)
  /\ UNCHANGED <<m_isRunning, m_FrameAvailable, handlers, content, published, cpc, history>>

\* The blob of a frame came in and parseSegmentBinaryData starts to overwrite
\* the members of the stream's handler.
ReadBlob ==
  /\ At("read", "parse")
  /\ sock = "live"
  /\ published < MaxFrames
  /\ content' = [content EXCEPT ![streamHandler] = Torn]
  /\ UNCHANGED <<flags, handlers, published, socket, cpc, history>>

ParseSucceeds ==
  /\ At("parse", "publish")
  /\ content' = [content EXCEPT ![streamHandler] = published + 1]
  /\ UNCHANGED <<flags, handlers, published, socket, cpc, history>>

ParseFails ==
  /\ At("parse", "probe")
  /\ UNCHANGED <<flags, handlers, content, published, socket, cpc, history>>

\* getNextFrame of the stream fails before it parses: what came in is no frame.
ReadRejects ==
  /\ At("read", "probe")
  /\ sock = "live"
  /\ UNCHANGED <<flags, handlers, content, published, socket, cpc, history>>

\* ... or nothing comes in: timeout, end of stream or socket error.  recv
\* reports a pending error and thereby may clear it.
ReadNothing ==
  /\ At("read", "probe")
  /\ rcvTimeout \/ sock # "live"
  /\ soError' \in {soError, FALSE}
  /\ UNCHANGED <<flags, handlers, content, published, sock, rcvTimeout, cpc, history>>

\* The mutants' Publish: the stream keeps the handler it has handed over.
PublishNoSwap ==
  /\ At("publish", "notify")
  /\ m_FrameAvailable' = TRUE
  /\ m_pDataHandler' = streamHandler
  /\ published' = published + 1
  /\ UNCHANGED <<m_isRunning, m_connected, streamHandler, holds, content, socket, cpc, history>>

Publish ==
  /\ At("publish", "notify")
  /\ m_FrameAvailable' = TRUE
  /\ m_pDataHandler' = streamHandler
  /\ streamHandler' = m_pDataHandler
  /\ published' = published + 1
  /\ UNCHANGED <<m_isRunning, m_connected, holds, content, socket, cpc, history>>

\* Mutant: nobody is woken.
NotifyNobody ==
  /\ At("notify", "loop")
  /\ UNCHANGED <<flags, handlers, content, published, socket, cpc, history>>

\* notify_one: one of the threads that wait, if any, is woken.
Notify ==
  /\ At("notify", "loop")
  /\ \/ \E c \in Consumers : cpc[c] = "waiting" /\ cpc' = [cpc EXCEPT ![c] = "woken"]
     \/ (\A c \in Consumers : cpc[c] # "waiting") /\ UNCHANGED cpc
  /\ UNCHANGED <<flags, handlers, content, published, socket, history>>

\* Mutant: the Windows build ignores the result of send as the POSIX build does.
ProbeSendUnchecked ==
  /\ At("probe", "lasterr")
  /\ soError' = (soError /\ sock # "reset")
  /\ UNCHANGED <<flags, handlers, content, published, sock, rcvTimeout, cpc, history>>

\* isConnected, first half: send of "BlbRqst".  It fails on a reset
\* connection and takes the pending error with it.  Only the Windows build
\* looks at the result.
ProbeSend ==
  /\ At("probe", IF Windows /\ sock = "reset" THEN "reopen" ELSE "lasterr")
  /\ soError' = (soError /\ sock # "reset")
  /\ UNCHANGED <<flags, handlers, content, published, sock, rcvTimeout, cpc, history>>

\* isConnected, second half: getLastError reads and clears SO_ERROR.
ProbeError ==
  /\ At("lasterr", IF soError THEN "reopen" ELSE "loop")
  /\ soError' = FALSE
  /\ UNCHANGED <<flags, handlers, content, published, sock, rcvTimeout, cpc, history>>

\* Mutant: the result of open is not stored.
ReopenUnstored(ok) ==
  /\ At("reopen", "loop")
  /\ sock' = IF ok THEN "live" ELSE "null"
  /\ soError' = FALSE /\ rcvTimeout' = TRUE
  /\ UNCHANGED <<flags, handlers, content, published, cpc, history>>

Reopen(ok) ==
  /\ At("reopen", "loop")
  /\ OpenStream(ok)
  /\ UNCHANGED <<m_isRunning, m_FrameAvailable, handlers, content, published, cpc, history>>

\* What the thread does by itself, and what it does when the device sends.
GrabberRuns ==
  \/ LoopTest \/ ParseSucceeds \/ ParseFails \/ ReadNothing
  \/ Publish \/ Notify \/ ProbeSend \/ ProbeError
  \/ \E ok \in BOOLEAN : Open(ok) \/ Reopen(ok)

Grabber == GrabberRuns \/ ReadBlob \/ ReadRejects

-----------------------------------------------------------------------------
(* Consumer threads *)

\* Mutant: a frame from before the call is kept.
CallNextNoReset(c) ==
  /\ cpc[c] = "idle" /\ m_isRunning
  /\ cpc' = [cpc EXCEPT ![c] = IF m_FrameAvailable THEN "woken" ELSE "waiting"]
  /\ calledAt' = [calledAt EXCEPT ![c] = published]
  /\ UNCHANGED <<flags, handlers, content, published, socket, gpc, taken>>

\* getNextFrame up to the wait: the frame that is there already is discarded.
CallNext(c) ==
  /\ cpc[c] = "idle" /\ m_isRunning
  /\ m_FrameAvailable' = FALSE
  /\ cpc' = [cpc EXCEPT ![c] = "waiting"]
  /\ calledAt' = [calledAt EXCEPT ![c] = published]
  /\ UNCHANGED <<m_isRunning, m_connected, handlers, content, published, socket, gpc, taken>>

\* The wait ends by timeout, or by a spurious wake-up.
Wake(c, how) ==
  /\ cpc[c] = "waiting"
  /\ cpc' = [cpc EXCEPT ![c] = how]
  /\ UNCHANGED <<flags, handlers, content, published, socket, gpc, history>>

\* Mutant: the caller's handler is not given back to the grabber.
TakeNoReturn(c) ==
  /\ m_FrameAvailable' = FALSE
  /\ holds' = [holds EXCEPT ![c] = m_pDataHandler]
  /\ m_pDataHandler' = "nullptr"
  /\ taken' = content[m_pDataHandler]

\* Mutant: the frame that was taken still counts as available.
TakeNoReset(c) ==
  /\ UNCHANGED m_FrameAvailable
  /\ holds' = [holds EXCEPT ![c] = m_pDataHandler]
  /\ m_pDataHandler' = holds[c]
  /\ taken' = content[m_pDataHandler]

\* The consumer's handler changes places with m_pDataHandler.
Take(c) ==
  /\ m_FrameAvailable' = FALSE
  /\ holds' = [holds EXCEPT ![c] = m_pDataHandler]
  /\ m_pDataHandler' = holds[c]
  /\ taken' = IF content[m_pDataHandler] > taken THEN content[m_pDataHandler] ELSE taken

\* Mutant: a wake-up is taken for a frame (wait_for without its predicate).
RecheckNoPredicate(c) ==
  /\ cpc[c] \in {"woken", "expired"}
  /\ cpc' = [cpc EXCEPT ![c] = "idle"]
  /\ IF m_FrameAvailable \/ cpc[c] = "woken" THEN Take(c)
     ELSE UNCHANGED <<m_FrameAvailable, holds, m_pDataHandler, taken>>
  /\ UNCHANGED <<m_isRunning, m_connected, streamHandler, content, published, socket, gpc,
                 calledAt>>

\* Mutant: a timeout is reported without a last look at the predicate.
RecheckNotAfterTimeout(c) ==
  /\ cpc[c] \in {"woken", "expired"}
  /\ LET take == m_FrameAvailable /\ cpc[c] = "woken" IN
     /\ cpc' = [cpc EXCEPT ![c] = IF take \/ @ = "expired" THEN "idle" ELSE "waiting"]
     /\ IF take THEN Take(c) ELSE UNCHANGED <<m_FrameAvailable, holds, m_pDataHandler, taken>>
  /\ UNCHANGED <<m_isRunning, m_connected, streamHandler, content, published, socket, gpc,
                 calledAt>>

\* getNextFrame after the wait, the mutex held again: a frame is taken (true),
\* a timeout without a frame returns (false), a wake-up without one waits on.
Recheck(c) ==
  /\ cpc[c] \in {"woken", "expired"}
  /\ IF m_FrameAvailable
     THEN Take(c) /\ cpc' = [cpc EXCEPT ![c] = "idle"]
     ELSE /\ cpc' = [cpc EXCEPT ![c] = IF @ = "woken" THEN "waiting" ELSE "idle"]
          /\ UNCHANGED <<m_FrameAvailable, holds, m_pDataHandler, taken>>
  /\ UNCHANGED <<m_isRunning, m_connected, streamHandler, content, published, socket, gpc,
                 calledAt>>

\* getCurrentFrame reads m_FrameAvailable without the mutex.  (If it is FALSE
\* the call returns FALSE at once and nothing changes.)
CallCurrent(c) ==
  /\ cpc[c] = "idle" /\ m_isRunning
  /\ m_FrameAvailable
  /\ cpc' = [cpc EXCEPT ![c] = "taking"]
  /\ UNCHANGED <<flags, handlers, content, published, socket, gpc, history>>

\* getCurrentFrame under the mutex: it takes what is there and returns TRUE.
TakeCurrent(c) ==
  /\ cpc[c] = "taking"
  /\ Take(c)
  /\ cpc' = [cpc EXCEPT ![c] = "idle"]
  /\ UNCHANGED <<m_isRunning, m_connected, streamHandler, content, published, socket, gpc,
                 calledAt>>

\* The consumer lets its frame go and passes nullptr in its next call, for
\* which the template makes a new, empty handler.
Renew(c) ==
  /\ cpc[c] = "idle" /\ m_isRunning
  /\ content' = [content EXCEPT ![holds[c]] = Empty]
  /\ UNCHANGED <<flags, handlers, published, socket, gpc, cpc, history>>

Consumer(c) ==
  \/ CallNext(c) \/ Wake(c, "woken") \/ Wake(c, "expired") \/ Recheck(c)
  \/ CallCurrent(c) \/ TakeCurrent(c) \/ Renew(c)

-----------------------------------------------------------------------------
(* The owner of the grabber, and the network *)

\* ~FrameGrabberBase: no call is in progress, and none follows.  The
\* destructor then joins the thread, i.e. waits for gpc = "done".
Stop ==
  /\ m_isRunning
  /\ \A c \in Consumers : cpc[c] = "idle"
  /\ m_isRunning' = FALSE
  /\ UNCHANGED <<m_connected, m_FrameAvailable, handlers, content, published, socket, gpc, cpc,
                 history>>

Joined == gpc = "done" /\ UNCHANGED vars

\* The connection ends: in order, or by a reset (a device that restarted, a
\* retransmission timeout), which leaves an error pending.
ConnectionLost ==
  /\ sock = "live"
  /\ \/ sock' = "fin" /\ UNCHANGED soError
     \/ sock' = "reset" /\ soError' = TRUE
  /\ UNCHANGED <<rcvTimeout, flags, handlers, content, published, gpc, cpc, history>>

\* The peer answers data sent to a connection it closed with a reset.
PeerResets ==
  /\ sock = "fin"
  /\ sock' = "reset" /\ soError' = TRUE
  /\ UNCHANGED <<rcvTimeout, flags, handlers, content, published, gpc, cpc, history>>

Next ==
  \/ Grabber
  \/ \E c \in Consumers : Consumer(c)
  \/ Stop \/ Joined \/ ConnectionLost \/ PeerResets

Safe == Init /\ [][Next]_vars

\* The threads run, and a recv with a timeout returns; the device need not
\* send.  A consumer need not call, a wait need not time out soon.  The last
\* conjunct is about the network: it does not refuse every attempt for ever.
Fairness ==
  /\ WF_vars(GrabberRuns)
  /\ \A c \in Consumers : WF_vars(Recheck(c)) /\ WF_vars(TakeCurrent(c))
  /\ WF_vars(PeerResets)
  /\ SF_vars(Open(TRUE)) /\ SF_vars(Reopen(TRUE))

Spec == Safe /\ Fairness

-----------------------------------------------------------------------------
(* Properties *)

TypeOK ==
  /\ m_isRunning \in BOOLEAN /\ m_connected \in BOOLEAN /\ m_FrameAvailable \in BOOLEAN
  /\ m_pDataHandler \in Handlers /\ streamHandler \in Handlers
  /\ holds \in [Consumers -> Handlers]
  /\ content \in [Handlers -> Frames]
  /\ published \in 0 .. MaxFrames
  /\ sock \in Transport /\ soError \in BOOLEAN /\ rcvTimeout \in BOOLEAN
  /\ gpc \in GrabberSteps
  /\ cpc \in [Consumers -> CallSteps]
  /\ calledAt \in [Consumers -> 0 .. MaxFrames]
  /\ taken \in 0 .. MaxFrames

\* However the handlers rotate, no two of the stream, the grabber and the
\* consumers have the same one: nobody reads a handler the parser writes
\* (FrameGrabberBase.cpp:66-68, 92-95, 105-108).
HandlersDistinct ==
  /\ streamHandler # m_pDataHandler
  /\ \A c \in Consumers : holds[c] \notin {streamHandler, m_pDataHandler}
  /\ \A c, d \in Consumers : c # d => holds[c] # holds[d]

\* While m_FrameAvailable is set, m_pDataHandler has the newest frame, parsed
\* to its end and not handed out yet: neither the handler that came back from
\* a consumer nor one whose parse failed is ever offered.
AvailableIsNewest ==
  m_FrameAvailable => /\ content[m_pDataHandler] = published
                      /\ taken < published

\* The grabber never reads from or probes a stream whose open failed: that
\* would dereference the null m_pTransport (VisionaryDataStream.cpp:65, 221).
NoReadWithoutTransport ==
  gpc \in {"read", "parse", "probe", "lasterr"} => sock # "null"

\* A frame in a consumer's hands is changed by nobody but that consumer's own
\* calls: no step of the grabber or of another consumer writes to it.
FrameUntouched ==
  [][\A c \in Consumers :
       (cpc[c] = "idle" /\ cpc'[c] = "idle" /\ ~ Renew(c))
         => holds'[c] = holds[c] /\ content'[holds[c]] = content[holds[c]]]_vars

Delivers(c) == holds'[c] # holds[c]

\* getNextFrame returns TRUE only with a whole frame nobody got before, and
\* newer than every frame handed out (FrameGrabber.h:36).
NextIsNew ==
  [][\A c \in Consumers : (Delivers(c) /\ cpc[c] # "taking")
                            => content[holds'[c]] > taken]_vars

\* ... and with one that was published after the call began, not the one that
\* was waiting there: this is what line 87 is for.
NextIsAfterCall ==
  [][\A c \in Consumers : (Delivers(c) /\ cpc[c] # "taking")
                            => content[holds'[c]] > calledAt[c]]_vars

\* getCurrentFrame returns TRUE only if a blob was available (FrameGrabber.h:51):
\* a whole frame, newer than those handed out.  Two consumers can both see
\* m_FrameAvailable set before either has the mutex; the second one then gets
\* the handler the first one gave back.
CurrentIsNew ==
  [][\A c \in Consumers : (Delivers(c) /\ cpc[c] = "taking")
                            => content[holds'[c]] > taken]_vars

\* getNextFrame returns FALSE only if no frame was published during the call
\* (FrameGrabber.h:37), for a consumer that has the grabber for itself.
NoFrameMissed ==
  [][\A c \in Consumers : (cpc[c] = "expired" /\ cpc'[c] = "idle" /\ ~Delivers(c))
                            => calledAt[c] = published]_vars

\* A consumer that waits in getNextFrame gets the frame that is published
\* without waiting for its timeout (no fairness is assumed of the timeout).
WakesForFrame ==
  \A c \in Consumers : (cpc[c] = "waiting" /\ m_FrameAvailable) ~> (cpc[c] = "idle")

\* The destructor returns: after m_isRunning is cleared the thread ends, whatever
\* becomes of the connection.  (A read here ends with a frame, without one, or at
\* its timeout.  A device that sends bytes without four STX for ever would keep
\* syncCoLa, and with it the destructor.)
StopEnds == ~m_isRunning ~> gpc = "done"

\* timeoutMs "controls the socket timeout" (VisionaryDataStream.h:26): a read of
\* the stream ends, whatever the device sends or does not send.  The POSIX
\* build may have no timeout after an open; then the destructor hangs as well.
ReadEnds == gpc = "read" ~> gpc # "read"

\* "It also handles automatically reconnects in case of connection issues"
\* (FrameGrabber.h:17): the grabber never stays for ever with a connection
\* that is over, or with none.
Reconnects == []<>(sock = "live" \/ ~m_isRunning)

\* FrameGrabber implements LatestFrame for one consumer.
Latest == INSTANCE LatestFrame WITH
            count <- published,
            fresh <- m_FrameAvailable,
            got   <- [c \in Consumers |-> content[holds[c]]]

ImplementsLatest == Latest!Spec

=============================================================================
