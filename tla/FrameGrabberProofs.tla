------------------------- MODULE FrameGrabberProofs -------------------------
(***************************************************************************)
(* Proofs about FrameGrabber, for any set of consumers, either build and   *)
(* any number of frames.                                                   *)
(*                                                                         *)
(* The invariants the runs check are not inductive: that the frame on      *)
(* offer is the newest one depends on what the stream's handler contains   *)
(* between the end of the parse and the swap (Pipeline), on no handler     *)
(* having a frame from the future (NothingNewer), and that the transport   *)
(* exists while it is used depends on m_connected (ConnectedMeansOpen).    *)
(***************************************************************************)
EXTENDS FrameGrabber, TLAPS

Pipeline ==
  /\ gpc = "parse" => published < MaxFrames
  /\ gpc = "publish" => /\ published < MaxFrames
                        /\ content[streamHandler] = published + 1

NothingNewer ==
  /\ \A h \in Handlers :
       content[h] <= published \/ (h = streamHandler /\ gpc = "publish")
  /\ taken <= published
  /\ \A c \in Consumers : calledAt[c] <= published

ConnectedMeansOpen ==
  /\ m_connected => sock # "null"
  /\ gpc \in {"read", "parse", "publish", "notify", "probe", "lasterr"} => sock # "null"

\* A frame on offer was published after every call that waits for one began.
OfferIsForWaiters ==
  \A c \in Consumers :
    m_FrameAvailable /\ cpc[c] \in {"waiting", "woken", "expired"} => calledAt[c] < published

IInv == /\ TypeOK /\ HandlersDistinct /\ Pipeline /\ NothingNewer
        /\ ConnectedMeansOpen /\ AvailableIsNewest /\ OfferIsForWaiters

USE ConsumersAssumption, BoundsAssumption

LEMMA InitIInv == Init => IInv
  <1> SUFFICES ASSUME Init PROVE IInv
    OBVIOUS
  <1> USE DEF Init
  <1>1. TypeOK
    <2> USE DEF Handlers, Frames, Empty, Torn, Transport, GrabberSteps, CallSteps
    <2>1. m_isRunning \in BOOLEAN /\ m_connected \in BOOLEAN /\ m_FrameAvailable \in BOOLEAN
          /\ soError \in BOOLEAN
      BY Zenon
    <2>5. rcvTimeout \in BOOLEAN
      OBVIOUS
    <2>2. sock \in Transport
      <3>1. CASE m_connected
        BY <3>1
      <3>2. CASE ~m_connected
        BY <3>2
      <3> QED BY <3>1, <3>2
    <2>3. /\ holds \in [Consumers -> Handlers]
          /\ cpc \in [Consumers -> CallSteps]
      BY Zenon
    <2>4. /\ content \in [Handlers -> Frames]
          /\ calledAt \in [Consumers -> 0 .. MaxFrames]
          /\ published \in 0 .. MaxFrames /\ taken \in 0 .. MaxFrames
      OBVIOUS
    <2> QED BY <2>1, <2>2, <2>3, <2>4, <2>5 DEF TypeOK
  <1>2. HandlersDistinct
    BY DEF HandlersDistinct, Handlers
  <1>3. Pipeline /\ NothingNewer /\ ConnectedMeansOpen /\ AvailableIsNewest /\ OfferIsForWaiters
    BY DEF Pipeline, NothingNewer, ConnectedMeansOpen, AvailableIsNewest, OfferIsForWaiters,
           Empty, Handlers
  <1> QED BY <1>1, <1>2, <1>3 DEF IInv

\* What one grabber step does to the invariant.
LEMMA GrabberStep == IInv /\ Grabber => IInv'
  <1> SUFFICES ASSUME IInv, Grabber PROVE IInv'
    OBVIOUS
  <1> USE DEF IInv, TypeOK, HandlersDistinct, Pipeline, NothingNewer, ConnectedMeansOpen,
              AvailableIsNewest, OfferIsForWaiters, Frames, Empty, Torn, Transport,
              GrabberSteps, CallSteps, At, flags, handlers, socket, history
  <1>1. CASE LoopTest
    BY <1>1 DEF LoopTest
  <1>2. CASE ReadBlob
    BY <1>2 DEF ReadBlob
  <1>3. CASE ParseSucceeds
    BY <1>3 DEF ParseSucceeds
  <1>4. CASE ParseFails
    BY <1>4 DEF ParseFails
  <1>5. CASE ReadNothing
    BY <1>5 DEF ReadNothing
  <1>6. CASE Publish
    BY <1>6 DEF Publish
  <1>7. CASE Notify
    BY <1>7 DEF Notify
  <1>8. CASE ProbeSend
    BY <1>8 DEF ProbeSend
  <1>9. CASE ProbeError
    BY <1>9 DEF ProbeError
  <1>10. ASSUME NEW ok \in BOOLEAN, Open(ok) PROVE IInv'
    BY <1>10 DEF Open, OpenStream
  <1>11. ASSUME NEW ok \in BOOLEAN, Reopen(ok) PROVE IInv'
    BY <1>11 DEF Reopen, OpenStream
  <1>12. CASE ReadRejects
    BY <1>12 DEF ReadRejects
  <1> QED
    BY <1>1, <1>2, <1>3, <1>4, <1>5, <1>6, <1>7, <1>8, <1>9, <1>10, <1>11, <1>12
       DEF Grabber, GrabberRuns

\* The swap of a consumer's handler for the grabber's keeps the types of what it writes.
LEMMA TakeTypes ==
  ASSUME NEW c \in Consumers, IInv, Take(c)
  PROVE  /\ m_FrameAvailable' \in BOOLEAN
         /\ m_pDataHandler' \in Handlers
         /\ holds' \in [Consumers -> Handlers]
         /\ taken' \in 0 .. MaxFrames
  <1> USE DEF IInv, TypeOK
  <1>1. m_FrameAvailable' \in BOOLEAN /\ m_pDataHandler' \in Handlers
    BY DEF Take
  <1>2. holds' \in [Consumers -> Handlers]
    BY DEF Take
  <1>3. content[m_pDataHandler] \in Frames /\ content[m_pDataHandler] <= MaxFrames
    BY DEF Frames, Torn
  <1>4. taken' \in 0 .. MaxFrames
    BY <1>3 DEF Take, Frames, Torn
  <1> QED BY <1>1, <1>2, <1>4

\* What one step of a consumer does to it.
LEMMA ConsumerStep == ASSUME NEW c \in Consumers PROVE IInv /\ Consumer(c) => IInv'
  <1> SUFFICES ASSUME IInv, Consumer(c) PROVE IInv'
    OBVIOUS
  <1> USE DEF IInv, TypeOK, HandlersDistinct, Pipeline, NothingNewer, ConnectedMeansOpen,
              AvailableIsNewest, OfferIsForWaiters, Frames, Empty, Torn, Transport,
              GrabberSteps, CallSteps, flags, handlers, socket, history
  <1>1. CASE CallNext(c)
    <2>1. TypeOK'
      BY <1>1 DEF CallNext
    <2>2. HandlersDistinct'
      BY <1>1 DEF CallNext
    <2>3. Pipeline'
      BY <1>1 DEF CallNext
    <2>4. NothingNewer'
      BY <1>1 DEF CallNext
    <2>5. ConnectedMeansOpen'
      BY <1>1 DEF CallNext
    <2>6. AvailableIsNewest'
      BY <1>1 DEF CallNext
    <2>7. OfferIsForWaiters'
      BY <1>1 DEF CallNext
    <2> QED BY <2>1, <2>2, <2>3, <2>4, <2>5, <2>6, <2>7
  <1>2. CASE Wake(c, "woken") \/ Wake(c, "expired")
    BY <1>2 DEF Wake
  <1>3. CASE Recheck(c)
    <2>1. CASE m_FrameAvailable
      <3>1. TypeOK'
        BY <1>3, <2>1, TakeTypes DEF Recheck
      <3>2. HandlersDistinct'
        BY <1>3, <2>1 DEF Recheck, Take
      <3>3. Pipeline'
        BY <1>3, <2>1 DEF Recheck, Take
      <3>4. NothingNewer'
        BY <1>3, <2>1 DEF Recheck, Take
      <3>5. ConnectedMeansOpen'
        BY <1>3, <2>1 DEF Recheck, Take
      <3>6. AvailableIsNewest'
        BY <1>3, <2>1 DEF Recheck, Take
      <3>7. OfferIsForWaiters'
        BY <1>3, <2>1 DEF Recheck, Take
      <3> QED BY <3>1, <3>2, <3>3, <3>4, <3>5, <3>6, <3>7
    <2>2. CASE ~m_FrameAvailable
      BY <1>3, <2>2 DEF Recheck
    <2> QED BY <2>1, <2>2
  <1>4. CASE CallCurrent(c)
    BY <1>4 DEF CallCurrent
  <1>5. CASE TakeCurrent(c)
    <2>1. TypeOK'
      BY <1>5, TakeTypes DEF TakeCurrent
    <2>2. HandlersDistinct'
      BY <1>5 DEF TakeCurrent, Take
    <2>3. Pipeline'
      BY <1>5 DEF TakeCurrent, Take
    <2>4. NothingNewer'
      BY <1>5 DEF TakeCurrent, Take
    <2>5. ConnectedMeansOpen'
      BY <1>5 DEF TakeCurrent, Take
    <2>6. AvailableIsNewest'
      BY <1>5 DEF TakeCurrent, Take
    <2>7. OfferIsForWaiters'
      BY <1>5 DEF TakeCurrent, Take
    <2> QED BY <2>1, <2>2, <2>3, <2>4, <2>5, <2>6, <2>7
  <1>6. CASE Renew(c)
    BY <1>6 DEF Renew
  <1> QED
    BY <1>1, <1>2, <1>3, <1>4, <1>5, <1>6 DEF Consumer

LEMMA IInvStep == IInv /\ [Next]_vars => IInv'
  <1> SUFFICES ASSUME IInv, [Next]_vars PROVE IInv'
    OBVIOUS
  <1>1. CASE Grabber
    BY <1>1, GrabberStep
  <1>2. ASSUME NEW c \in Consumers, Consumer(c) PROVE IInv'
    BY <1>2, ConsumerStep
  <1> USE DEF IInv, TypeOK, HandlersDistinct, Pipeline, NothingNewer, ConnectedMeansOpen,
              AvailableIsNewest, OfferIsForWaiters, Transport, flags, handlers, socket, history
  <1>3. CASE Stop
    BY <1>3 DEF Stop
  <1>4. CASE ConnectionLost
    BY <1>4 DEF ConnectionLost
  <1>5. CASE PeerResets
    BY <1>5 DEF PeerResets
  <1>6. CASE Joined \/ UNCHANGED vars
    BY <1>6 DEF Joined, vars
  <1> QED
    BY <1>1, <1>2, <1>3, <1>4, <1>5, <1>6 DEF Next

\* The inductive invariant holds in every reachable state.
LEMMA Invariance == Safe => []IInv
  BY InitIInv, IInvStep, PTL DEF Safe

-----------------------------------------------------------------------------
(* The safety properties of the runs *)

\* Every variable keeps its type; in particular no handler is ever lost to
\* nullptr by the moves of Publish, getNextFrame and getCurrentFrame.
THEOREM TypeCorrect == Safe => []TypeOK
  BY Invariance, PTL DEF IInv

\* The stream, the grabber and the consumers never share a handler
\* (FrameGrabberBase.cpp:66-68, 92-95, 105-108).
THEOREM ExclusiveHandlers == Safe => []HandlersDistinct
  BY Invariance, PTL DEF IInv

\* What is on offer is the newest frame, whole and not handed out yet.
THEOREM OfferIsNewest == Safe => []AvailableIsNewest
  BY Invariance, PTL DEF IInv

\* The grabber never uses a stream that has no transport.
THEOREM TransportExists == Safe => []NoReadWithoutTransport
  <1>1. IInv => NoReadWithoutTransport
    BY DEF IInv, ConnectedMeansOpen, NoReadWithoutTransport
  <1> QED BY <1>1, Invariance, PTL

\* A delivery is a step of the consumer it is made to: Recheck with a frame on
\* offer, or TakeCurrent.
LEMMA DeliveryStep ==
  ASSUME IInv, [Next]_vars, NEW c \in Consumers, Delivers(c)
  PROVE  \/ Recheck(c) /\ m_FrameAvailable /\ Take(c)
         \/ TakeCurrent(c) /\ cpc[c] = "taking"
  <1> USE DEF Delivers, flags, handlers, socket, history
  <1>1. CASE Grabber
    <2>1. UNCHANGED holds
      BY <1>1 DEF Grabber, GrabberRuns, LoopTest, ReadBlob, ReadRejects,
           ParseSucceeds, ParseFails, ReadNothing, Publish,
                  Notify, ProbeSend, ProbeError, Open, Reopen
    <2> QED BY <2>1
  <1>2. ASSUME NEW d \in Consumers, Consumer(d)
        PROVE  \/ Recheck(c) /\ m_FrameAvailable /\ Take(c)
               \/ TakeCurrent(c) /\ cpc[c] = "taking"
    <2>1. CASE \/ CallNext(d) \/ Wake(d, "woken") \/ Wake(d, "expired")
               \/ CallCurrent(d) \/ Renew(d)
      BY <2>1 DEF CallNext, Wake, CallCurrent, Renew
    <2>2. CASE Recheck(d) \/ TakeCurrent(d)
      <3>1. UNCHANGED holds \/ holds' = [holds EXCEPT ![d] = m_pDataHandler]
        BY <2>2 DEF Recheck, TakeCurrent, Take
      <3>2. d = c
        BY <3>1 DEF IInv, TypeOK
      <3> QED BY <2>2, <3>2 DEF Recheck, TakeCurrent
    <2> QED BY <1>2, <2>1, <2>2 DEF Consumer
  <1>3. CASE Stop \/ Joined \/ ConnectionLost \/ PeerResets \/ UNCHANGED vars
    BY <1>3 DEF Stop, Joined, ConnectionLost, PeerResets, vars
  <1> QED BY <1>1, <1>2, <1>3 DEF Next

\* getNextFrame returns TRUE only with a frame newer than all handed out.
THEOREM NextDeliversNew == Safe => NextIsNew
  <1>1. ASSUME IInv, [Next]_vars, NEW c \in Consumers, Delivers(c), cpc[c] # "taking"
        PROVE  content[holds'[c]] > taken
    <2>1. m_FrameAvailable /\ Take(c)
      BY <1>1, DeliveryStep
    <2>2. holds'[c] = m_pDataHandler
      BY <1>1, <2>1 DEF Take, IInv, TypeOK
    <2> QED BY <1>1, <2>1, <2>2 DEF IInv, AvailableIsNewest, TypeOK
  <1>2. IInv /\ [Next]_vars => [\A c \in Consumers : (Delivers(c) /\ cpc[c] # "taking")
                                 => content[holds'[c]] > taken]_vars
    BY <1>1
  <1> QED BY <1>2, Invariance, PTL DEF Safe, NextIsNew

\* ... and with one that was published after the call began.
THEOREM NextDeliversAfterCall == Safe => NextIsAfterCall
  <1>1. ASSUME IInv, [Next]_vars, NEW c \in Consumers, Delivers(c), cpc[c] # "taking"
        PROVE  content[holds'[c]] > calledAt[c]
    <2>1. Recheck(c) /\ m_FrameAvailable /\ Take(c)
      BY <1>1, DeliveryStep
    <2>2. holds'[c] = m_pDataHandler
      BY <1>1, <2>1 DEF Take, IInv, TypeOK
    <2>3. calledAt[c] < published
      BY <1>1, <2>1 DEF Recheck, IInv, OfferIsForWaiters
    <2> QED BY <1>1, <2>1, <2>2, <2>3 DEF IInv, AvailableIsNewest, TypeOK
  <1>2. IInv /\ [Next]_vars => [\A c \in Consumers : (Delivers(c) /\ cpc[c] # "taking")
                                 => content[holds'[c]] > calledAt[c]]_vars
    BY <1>1
  <1> QED BY <1>2, Invariance, PTL DEF Safe, NextIsAfterCall

-----------------------------------------------------------------------------
(* The rotation and the frame in a consumer's hands *)

\* No step but the consumer's own writes to the frame it holds.
THEOREM FrameIsStable == Safe => FrameUntouched
  <1> DEFINE Kept(c) == holds'[c] = holds[c] /\ content'[holds[c]] = content[holds[c]]
  <1> USE DEF flags, handlers, socket, history, IInv, TypeOK
  <1>1. ASSUME IInv, [Next]_vars, NEW c \in Consumers,
               cpc[c] = "idle", cpc'[c] = "idle", ~ Renew(c)
        PROVE  Kept(c)
    <2>1. CASE Grabber
      BY <1>1, <2>1 DEF Grabber, GrabberRuns, LoopTest, ReadBlob, ReadRejects,
           ParseSucceeds, ParseFails, ReadNothing,
           Publish, Notify, ProbeSend, ProbeError, Open, Reopen, HandlersDistinct
    <2>2. ASSUME NEW d \in Consumers, Consumer(d) PROVE Kept(c)
      <3>1. CASE CallNext(d) \/ Wake(d, "woken") \/ Wake(d, "expired") \/ CallCurrent(d)
        BY <3>1 DEF CallNext, Wake, CallCurrent
      <3>2. CASE Recheck(d) \/ TakeCurrent(d)
        <4>1. c # d
          BY <1>1, <3>2 DEF Recheck, TakeCurrent
        <4> QED BY <1>1, <3>2, <4>1 DEF Recheck, TakeCurrent, Take
      <3>3. CASE Renew(d)
        <4>1. c # d
          BY <1>1, <3>3
        <4> QED BY <1>1, <3>3, <4>1 DEF Renew, HandlersDistinct
      <3> QED BY <2>2, <3>1, <3>2, <3>3 DEF Consumer
    <2>3. CASE Stop \/ Joined \/ ConnectionLost \/ PeerResets \/ UNCHANGED vars
      BY <2>3 DEF Stop, Joined, ConnectionLost, PeerResets, vars
    <2> QED BY <1>1, <2>1, <2>2, <2>3 DEF Next
  <1>2. IInv /\ [Next]_vars
          => [\A c \in Consumers : (cpc[c] = "idle" /\ cpc'[c] = "idle" /\ ~ Renew(c))
                => holds'[c] = holds[c] /\ content'[holds[c]] = content[holds[c]]]_vars
    BY <1>1
  <1> QED BY <1>2, Invariance, PTL DEF Safe, FrameUntouched

-----------------------------------------------------------------------------
(* One consumer: the grabber implements LatestFrame *)

\* Between getCurrentFrame's look at m_FrameAvailable and its mutex, a lone
\* consumer has nobody who could take the frame away.
OfferIsForPoller ==
  \A c \in Consumers : cpc[c] = "taking" => m_FrameAvailable

LEMMA LoneStep ==
  ASSUME \A c, d \in Consumers : c = d, IInv, OfferIsForPoller, [Next]_vars
  PROVE  OfferIsForPoller'
  <1> USE DEF flags, handlers, socket, history, IInv, TypeOK, OfferIsForPoller
  <1>1. CASE Grabber
    BY <1>1 DEF Grabber, GrabberRuns, LoopTest, ReadBlob, ReadRejects,
         ParseSucceeds, ParseFails, ReadNothing,
         Publish, Notify, ProbeSend, ProbeError, Open, Reopen
  <1>2. ASSUME NEW c \in Consumers, Consumer(c) PROVE OfferIsForPoller'
    BY <1>2 DEF Consumer, CallNext, Wake, Recheck, CallCurrent, TakeCurrent, Renew, Take
  <1>3. CASE Stop \/ Joined \/ ConnectionLost \/ PeerResets \/ UNCHANGED vars
    BY <1>3 DEF Stop, Joined, ConnectionLost, PeerResets, vars
  <1> QED BY <1>1, <1>2, <1>3 DEF Next

got == [c \in Consumers |-> content[holds[c]]]

\* Steps that leave the frames in the consumers' hands alone.
LEMMA GotUnchanged ==
  ASSUME IInv, UNCHANGED holds,
         \A h \in Handlers : (\E c \in Consumers : holds[c] = h) => content'[h] = content[h]
  PROVE  UNCHANGED got
  <1> USE DEF IInv, TypeOK
  <1>1. \A c \in Consumers : content'[holds'[c]] = content[holds[c]]
    OBVIOUS
  <1> QED BY <1>1 DEF got

LEMMA GrabberImplements ==
  ASSUME IInv, Grabber
  PROVE  [Latest!Next]_(Latest!vars)
  <1> USE DEF flags, handlers, socket, history, Latest!vars
  <1>1. UNCHANGED got
    <2>1. UNCHANGED holds
      BY DEF Grabber, GrabberRuns, LoopTest, ReadBlob, ReadRejects,
           ParseSucceeds, ParseFails, ReadNothing, Publish,
             Notify, ProbeSend, ProbeError, Open, Reopen
    <2>2. \A h \in Handlers : h # streamHandler => content'[h] = content[h]
      BY DEF Grabber, GrabberRuns, LoopTest, ReadBlob, ReadRejects,
           ParseSucceeds, ParseFails, ReadNothing, Publish,
             Notify, ProbeSend, ProbeError, Open, Reopen, IInv, TypeOK
    <2> QED BY <2>1, <2>2, GotUnchanged DEF IInv, HandlersDistinct
  <1>2. CASE Publish
    BY <1>1, <1>2 DEF Publish, got, Latest!Next, Latest!Publish
  <1>3. CASE ~Publish
    <2>1. UNCHANGED <<published, m_FrameAvailable>>
      BY <1>3 DEF Grabber, GrabberRuns, LoopTest, ReadBlob, ReadRejects,
           ParseSucceeds, ParseFails, ReadNothing,
             Notify, ProbeSend, ProbeError, Open, Reopen
    <2> QED BY <1>1, <2>1 DEF got
  <1> QED BY <1>2, <1>3

LEMMA ConsumerImplements ==
  ASSUME IInv, OfferIsForPoller, NEW c \in Consumers, Consumer(c)
  PROVE  [Latest!Next]_(Latest!vars)
  <1> USE DEF flags, handlers, socket, history, Latest!vars, IInv, TypeOK
  <1>1. CASE CallNext(c)
    <2>1. UNCHANGED got
      BY <1>1 DEF CallNext, got
    <2> QED BY <1>1, <2>1 DEF CallNext, got, Latest!Next, Latest!Discard
  <1>2. CASE Wake(c, "woken") \/ Wake(c, "expired") \/ CallCurrent(c)
    <2>1. UNCHANGED got
      BY <1>2 DEF Wake, CallCurrent, got
    <2> QED BY <1>2, <2>1 DEF Wake, CallCurrent, got
  <1>3. CASE Recheck(c) /\ ~m_FrameAvailable
    <2>1. UNCHANGED got
      BY <1>3 DEF Recheck, got
    <2> QED BY <1>3, <2>1 DEF Recheck, got
  <1>4. CASE TakeCurrent(c) \/ (Recheck(c) /\ m_FrameAvailable)
    <2>1. m_FrameAvailable /\ Take(c) /\ UNCHANGED <<content, published>>
      BY <1>4 DEF TakeCurrent, Recheck, OfferIsForPoller
    <2>2. got' = [got EXCEPT ![c] = published]
      <3>1. \A d \in Consumers : holds'[d] = IF d = c THEN m_pDataHandler ELSE holds[d]
        BY <2>1 DEF Take
      <3>2. content[m_pDataHandler] = published
        BY <2>1 DEF AvailableIsNewest
      <3>3. \A d \in Consumers :
              content'[holds'[d]] = IF d = c THEN published ELSE content[holds[d]]
        BY <2>1, <3>1, <3>2
      <3> QED BY <3>3 DEF got
    <2>3. Latest!Take(c)
      BY <2>1, <2>2 DEF Take, got, Latest!Take
    <2> QED BY <2>3 DEF Latest!Next
  <1>5. CASE Renew(c)
    <2>1. got' = [got EXCEPT ![c] = Empty]
      <3>1. \A d \in Consumers :
              content'[holds'[d]] = IF d = c THEN Empty ELSE content[holds[d]]
        BY <1>5 DEF Renew, HandlersDistinct
      <3> QED BY <3>1 DEF got
    <2>2. Latest!Forget(c)
      BY <1>5, <2>1 DEF Renew, got, Empty, Latest!Forget, Latest!None
    <2> QED BY <2>2 DEF Latest!Next
  <1> QED BY <1>1, <1>2, <1>3, <1>4, <1>5 DEF Consumer

\* A grabber that serves one consumer implements LatestFrame: it hands out the
\* newest frame, and no frame twice, with getNextFrame as with getCurrentFrame.
THEOREM LoneConsumerGetsLatest ==
  ASSUME \A c, d \in Consumers : c = d
  PROVE  Safe => ImplementsLatest
  <1>1. Init => Latest!Init /\ OfferIsForPoller
    BY DEF Init, Latest!Init, Latest!None, Empty, OfferIsForPoller, Handlers
  <1>2. IInv /\ OfferIsForPoller /\ [Next]_vars => OfferIsForPoller'
    BY LoneStep
  <1>3. IInv /\ OfferIsForPoller /\ [Next]_vars => [Latest!Next]_(Latest!vars)
    <2> SUFFICES ASSUME IInv, OfferIsForPoller, [Next]_vars PROVE [Latest!Next]_(Latest!vars)
      OBVIOUS
    <2>1. CASE Grabber
      BY <2>1, GrabberImplements
    <2>2. ASSUME NEW c \in Consumers, Consumer(c) PROVE [Latest!Next]_(Latest!vars)
      BY <2>2, ConsumerImplements
    <2>3. CASE Stop \/ Joined \/ ConnectionLost \/ PeerResets \/ UNCHANGED vars
      <3>1. UNCHANGED <<published, m_FrameAvailable, holds, content>>
        BY <2>3 DEF Stop, Joined, ConnectionLost, PeerResets, vars, flags, handlers
      <3> QED BY <3>1 DEF Latest!vars
    <2> QED BY <2>1, <2>2, <2>3 DEF Next
  <1> QED BY <1>1, <1>2, <1>3, Invariance, PTL DEF Safe, ImplementsLatest, Latest!Spec

-----------------------------------------------------------------------------
(* One consumer: what its calls report *)

\* A frame that was published during the call and is not on offer was taken,
\* and the consumer that waits has taken none.
NoneMissed ==
  \A c \in Consumers :
    cpc[c] \in {"waiting", "woken", "expired"} /\ ~m_FrameAvailable => calledAt[c] = published

LEMMA MissedStep ==
  ASSUME \A c, d \in Consumers : c = d, IInv, NoneMissed, [Next]_vars
  PROVE  NoneMissed'
  <1> USE DEF flags, handlers, socket, history, IInv, TypeOK, NoneMissed
  <1>1. CASE Grabber
    BY <1>1 DEF Grabber, GrabberRuns, LoopTest, ReadBlob, ReadRejects,
         ParseSucceeds, ParseFails, ReadNothing,
         Publish, Notify, ProbeSend, ProbeError, Open, Reopen
  <1>2. ASSUME NEW c \in Consumers, Consumer(c) PROVE NoneMissed'
    BY <1>2 DEF Consumer, CallNext, Wake, Recheck, CallCurrent, TakeCurrent, Renew, Take
  <1>3. CASE Stop \/ Joined \/ ConnectionLost \/ PeerResets \/ UNCHANGED vars
    BY <1>3 DEF Stop, Joined, ConnectionLost, PeerResets, vars
  <1> QED BY <1>1, <1>2, <1>3 DEF Next

\* The only step that ends a call in which the wait has timed out.
LEMMA ExpiredStep ==
  ASSUME IInv, [Next]_vars, NEW c \in Consumers, cpc[c] = "expired", cpc'[c] = "idle"
  PROVE  Recheck(c)
  <1> USE DEF flags, handlers, socket, history, IInv, TypeOK
  <1>1. ~Grabber
    BY DEF Grabber, GrabberRuns, LoopTest, ReadBlob, ReadRejects,
         ParseSucceeds, ParseFails, ReadNothing,
         Publish, Notify, ProbeSend, ProbeError, Open, Reopen
  <1>2. ASSUME NEW d \in Consumers, Consumer(d) PROVE Recheck(c)
    BY <1>2 DEF Consumer, CallNext, Wake, Recheck, CallCurrent, TakeCurrent, Renew
  <1>3. ~(Stop \/ Joined \/ ConnectionLost \/ PeerResets \/ UNCHANGED vars)
    BY DEF Stop, Joined, ConnectionLost, PeerResets, vars
  <1> QED BY <1>1, <1>2, <1>3 DEF Next

\* getNextFrame of a lone consumer returns FALSE only if no frame was published
\* during the call, also when one comes in between the timeout and the mutex
\* (FrameGrabberBase.cpp:84-98).
THEOREM LoneConsumerMissesNone ==
  ASSUME \A c, d \in Consumers : c = d
  PROVE  Safe => NoFrameMissed
  <1>1. Init => NoneMissed
    BY DEF Init, NoneMissed
  <1>2. IInv /\ NoneMissed /\ [Next]_vars => NoneMissed'
    BY MissedStep
  <1>3. ASSUME IInv, NoneMissed, [Next]_vars, NEW c \in Consumers,
               cpc[c] = "expired", cpc'[c] = "idle", ~Delivers(c)
        PROVE  calledAt[c] = published
    <2>1. Recheck(c)
      BY <1>3, ExpiredStep
    <2>2. ~m_FrameAvailable
      <3> SUFFICES ASSUME m_FrameAvailable PROVE FALSE
        OBVIOUS
      <3>1. holds'[c] = m_pDataHandler
        BY <1>3, <2>1 DEF Recheck, Take, IInv, TypeOK
      <3> QED BY <1>3, <3>1 DEF Delivers, IInv, HandlersDistinct
    <2> QED BY <1>3, <2>2 DEF NoneMissed
  <1>4. IInv /\ NoneMissed /\ [Next]_vars
          => [\A c \in Consumers : (cpc[c] = "expired" /\ cpc'[c] = "idle" /\ ~Delivers(c))
                => calledAt[c] = published]_vars
    BY <1>3
  <1> QED BY <1>1, <1>2, <1>4, Invariance, PTL DEF Safe, NoFrameMissed

\* getCurrentFrame of a lone consumer returns TRUE only with a whole frame newer
\* than those it got before: nobody takes the frame it has seen on offer
\* (FrameGrabberBase.cpp:100-112).
THEOREM LoneConsumerPollsNew ==
  ASSUME \A c, d \in Consumers : c = d
  PROVE  Safe => CurrentIsNew
  <1>1. Init => OfferIsForPoller
    BY DEF Init, OfferIsForPoller
  <1>2. IInv /\ OfferIsForPoller /\ [Next]_vars => OfferIsForPoller'
    BY LoneStep
  <1>3. ASSUME IInv, OfferIsForPoller, [Next]_vars, NEW c \in Consumers,
               Delivers(c), cpc[c] = "taking"
        PROVE  content[holds'[c]] > taken
    <2>1. m_FrameAvailable /\ Take(c)
      BY <1>3, DeliveryStep DEF OfferIsForPoller, TakeCurrent
    <2>2. holds'[c] = m_pDataHandler
      BY <1>3, <2>1 DEF Take, IInv, TypeOK
    <2> QED BY <1>3, <2>1, <2>2 DEF IInv, AvailableIsNewest, TypeOK
  <1>4. IInv /\ OfferIsForPoller /\ [Next]_vars
          => [\A c \in Consumers : (Delivers(c) /\ cpc[c] = "taking")
                => content[holds'[c]] > taken]_vars
    BY <1>3
  <1> QED BY <1>1, <1>2, <1>4, Invariance, PTL DEF Safe, CurrentIsNew

=============================================================================
