# Verification of sick_visionary_cpp_shared

TLA+ models of the library in `src/`, the TLC runs that check them and the TLAPS
proofs about them. Line numbers refer to the files under `src/src/`.

## 1. The system

The library talks to a SICK Visionary 3D camera. An application opens a *control
channel* (CoLa B on port 2112 or CoLa 2 on port 2122) to configure the device and
to start its acquisition, and a *data stream* (TCP port 2114) on which the device
sends frames ("blobs"). A device is found by UDP broadcast (AutoIP).

```
 application threads                                  device
   |  getNextFrame / getCurrentFrame
   v
 FrameGrabber<T> -> FrameGrabberBase --thread--> VisionaryDataStream --TcpSocket--> blob port
                          |  swap under a mutex        | parse
                          +------ VisionaryData <------+  (T / S / T-Mini)
   |  open, login, sendCommand, close
   v
 VisionaryControl -> ControlSession -> CoLaB/CoLa2ProtocolHandler -> TcpSocket ---> CoLa port
        ^--- AuthenticationLegacy / AuthenticationSecure (call sendCommand back)
   |  doScan, assign
   v
 VisionaryAutoIPScan -> UdpSocket ------------------------------------------------> broadcast
```

### Inventory

| Component | State | Operations | What is hard | What makes it correct |
|---|---|---|---|---|
| FrameGrabber, FrameGrabberBase | `m_isRunning`, `m_connected`, `m_FrameAvailable`, `m_pDataHandler`, mutex, condition variable, thread | start, run, getNextFrame, getCurrentFrame, destructor | a reader thread and any number of consumers; one flag read outside the mutex; frames rotate instead of being copied; reconnection | nobody reads a frame that is being parsed; what is handed out is whole, newest, and handed out once; a waiting consumer is woken; the destructor and the reconnection terminate |
| VisionaryDataStream | `m_dataHandler`, `m_pTransport` | open, close, getNextFrame, isConnected, setDataHandler | resynchronisation after a lost byte or a timeout; probing a dead connection | frames are found however the stream is cut; a dead connection is noticed |
| VisionaryControl | four owning pointers, connection parameters, `m_autoReconnect` | open, close, login, logout, sendCommand and its wrappers | reconnection inside a command; failure half way through open(); close() that itself sends | the four objects belong together; a command runs at most twice; every call returns; close() is safe |
| ControlSession | reference to the handler | send, prepareRead/Write/Call | the reference may dangle | it refers to the current handler |
| CoLaBProtocolHandler, CoLa2ProtocolHandler | CoLa 2: `m_sessionID`, `m_reqID` | openSession, closeSession, send, readProtocol | late answers, refused and expired sessions, fragmentation | an answer belongs to its command; a message is found in the stream |
| TcpSocket | socket | connect, shutdown, send, recv, read, getLastError | connection timeout, receive timeout, partial receives, differences between the builds | connect is true to what happened; every receive ends |
| AuthenticationSecure, AuthenticationLegacy | `m_protocolType` (SUL1/SUL2) | login, logout | challenge and answer are two commands; a reconnection between them replaces this very object | a login counts on the session it was made on |
| VisionaryData and its T, S, T-Mini parsers | metadata, change counter, LUT, maps | parseXML, parseBinaryData, getters, point cloud | metadata cached by change counter, two data set versions, segment arithmetic | a frame is interpreted with its own metadata |
| VisionaryAutoIPScan, UdpSocket | telegram id, socket | doScan, assign | answers to other requests, duplicates, timeouts | a result belongs to the request |
| CoLaCommand, CoLaParameterReader/Writer, VisionaryEndian, NumericConv, PointCloudPlyWriter | buffers | encode, decode, write files | boundaries of the numeric conversions | decoding inverts encoding, clamping stays in range |

The `hazards` of PROJECT.json list at its line each thing in this code that a test would
hardly reach, with the property that covers it or the reason why none does. The
repository's own tests (`src/tests/`) cover the CoLa 2 handler with a mock transport, the
T-Mini parser, the endian and the numeric conversions; no test has two threads, a
reconnection, a fragmented or a late message.

## 2. Modules

| Module | Models | Proofs |
|---|---|---|
| `LatestFrame` | abstract specification of the frame grabber: one shelf for the newest frame | |
| `FrameGrabber` | FrameGrabber, FrameGrabberBase and what they use of VisionaryDataStream and TcpSocket | `FrameGrabberProofs` |
| `MCFrameGrabber` | the symmetry of the consumers, for TLC | |
| `VisionaryControl` | VisionaryControl with ControlSession, both protocol handlers, its TcpSocket, and the device and the network as its environment | `VisionaryControlProofs`, `AnswerProofs` |
| `Authentication` | login and logout of both authentication classes; composes the actions of VisionaryControl | `AuthenticationProofs` |
| `Framing` | the byte loops: readProtocol of both CoLa handlers, syncCoLa and getNextFrame of the data stream, TcpSocket::recv and read | `FramingProofs` |
| `MCFraming` | the payloads, for TLC | |
| `FrameData` | the parsers of VisionaryTMiniData, VisionaryTData and VisionarySData: what a handler keeps from blob to blob | `FrameDataProofs` |
| `AutoIPScan` | doScan and assign of VisionaryAutoIPScan over UdpSocket, and the network between | `AutoIPScanProofs` |
| `NumericConv` | castClamped for the integer types | in the module |

### FrameGrabber

The grabber thread is the program counter `gpc`: `loop` (line 48), `open` (52), `read` and
`parse` (61), `publish` (63-69), `notify` (70), `probe` and `lasterr` (the two halves of
`isConnected`, VisionaryDataStream.cpp 218-233), `reopen` (77-78). A consumer is `cpc[c]`:
`CallNext` is getNextFrame up to its wait, `Wake` a spurious wake-up or the timeout,
`Recheck` what follows with the mutex held again; `CallCurrent` is getCurrentFrame's look
at `m_FrameAvailable` outside the mutex (line 102), `TakeCurrent` the rest of it. A critical
section is one action, since everything else that touches its data is inside another one.

Handler objects have names: `"active"` and `"inactive"` are the two of the grabber, each
consumer brings its own. `content[h]` is the number of the frame parsed into `h`; from the
moment the parser starts to overwrite `h` until it succeeds it is `Torn`. `Renew` is the
consumer that passes a null pointer and so gets a new object: the old one is gone, so the
new one takes its name.

`sock`, `soError` and `rcvTimeout` are the connection, a pending SO_ERROR and whether the
socket has a receive timeout. `Windows` chooses the `#ifdef`: the POSIX build ignores what
`send` returned in `isConnected`, and its `connect` (TcpSocket.cpp 136, 161-172) overwrites
the result of `select` with SO_ERROR, so an attempt that timed out counts as a connection.
`POSIX` means Linux here: its `select` counts `tv` down, and line 212 uses the same `tv` as
the receive timeout, which then is 0, that is, none. SIGPIPE is handled nowhere in the
library; the models assume the application ignores it.

`calledAt` and `taken` are history variables.

### VisionaryControl

The client thread is `pc`, and `op` is the public call it is in: sendCommand, which
open(), logout() and close() share, is written once. Objects are known by the number of the
open() that made them, 0 being nullptr, which is all that is needed to say that
`m_pControlSession` refers to a handler that has been destroyed; a call through it is
undefined behaviour, the step `crashed`. A message carries the number of its sendCommand
call, which the code does not see but the properties do. The link (`none`, `pending`, `up`,
`down`) and the device's sessions are environment. A receive timeout may come at any moment
on a socket that has one, so that the answer arrives afterwards; `late` (history) says that
this has happened on the connection. Request ids wrap at `ReqIdModulus`. The logout that
close() makes is a sendCommand here; `Authentication` has what it carries.

TcpSocket::read drops what it has taken when a later recv fails. `TakenInPart` is this: the
answer under way is gone, and `rest` says that the stream now begins with what is left of
it. The next receive on the connection can go three ways: CoLa 2 passes over the rest and
finds the next message (`Receive`); bytes of the rest look like the front of a message,
which takes a part of the stream and which CoLa 2 refuses, since its ids are not the
expected ones (`Misread`); or readProtocol of CoLa B comes upon a byte that is not STX and
loops for ever, or upon a length of 2^32 - 1 (`Misled`). Which of them happens depends on
bytes the module does not have, so that each is possible whenever there is a rest. Left
out are rests whose bytes spell the two ids of a later request, or one of the errors
sendCommand looks for.

### Authentication

The module extends `VisionaryControl` and uses its actions as they are: a login is one to
three commands, each a complete sendCommand with its reconnection. `stage` says which of
them is under way: `access` (SetAccessMode of the legacy class), `challenge1` and `level1`
(GetChallenge with the user level left out, and its SetUserLevel), `challenge2` and `level2`
(GetChallenge with it), `run` (the command of logout). `sul[o]` is `m_protocolType` of the
object made by open() `o`, UNKNOWN until an error code of the device teaches it better
(AuthenticationSecure.cpp 155 and 179). A device speaks SUL1 or SUL2; which error it
answers to the challenge of the other one is modelled from what the code looks for.

`self` is the object whose method runs. A reconnection inside sendCommand replaces the
control's authentication object, so that what the method does afterwards with its members
is undefined behaviour. The model has both outcomes: the client ends in `crashed`, or the
memory is still intact and the method goes on, with the values of the old object.
A challenge is the connection and the call it was issued for, and the hash that answers it
is the challenge itself. `MaxPlain` bounds how many of the calls may be ordinary commands
before the logins, so that the commands of two logins fit into `MaxCalls`.

### Framing

The device sends its messages before the first call (`Send`; what it sends does not depend
on what the client has received, and recv decides how much of it has arrived): `stream` is
the connection as one sequence of cells, `ends` where each message ends, and `rd` says how
many cells have been received. No definition is recursive, so that `FramingProofs` can use
the module. `RecvStx`
receives any non-empty part of what the code asks for, `ScanStx`/`ScanOther` are the inner
loop, one cell a step; `ReadSome` is an iteration of TcpSocket::read; `RecvFails` is a recv
that times out, after which the call returns without a message and what it has taken from
the stream is gone. A cell stands for a byte, two cells for the four bytes of the length.

A payload is any sequence of cells, and so is the noise in front of the first message, but
for its length; the checksum of CoLa B is a cell that may be STX. This matters: after a
failed recv in the middle of a message the next call searches through the rest of it, and
four STX in there, or an STX at its end, which comes in front of the four of the next
message, make it take the wrong place for the front of a message. `NotMisled` says that no
search did so: the first four STX behind each place where a recv failed, and in front of
the first message, are the front of a message (`LeadsToMessage`). `OnlySent` and
`LossIsBounded` are claimed under this condition and do not hold without it: TLC then finds
a message that was never sent, and one that swallows the messages behind it.
`AlignedUnlessFailed` asks it of the noise alone, `SyncIsExact` of nothing. Behind noise or
the rest of a message the loop of CoLa B hardly ever returns (`LooksForNewRun`), so that
for CoLa B the properties say little but of messages one behind the other.

### FrameData

Three handlers rotate: the one the stream parses into, the one the grabber offers, the
user's. `FrameGrabber` shows that they are never shared, so that here receiving a frame and
taking one are single steps. A handler holds what survives a blob: `m_changeCounter` and
`meta` (parseXML, skipped when the counter is that of the last blob parsed into this
handler), `table` (the point cloud's, computed when first needed, invalidated by new
metadata), `m_frameNum`, `m_blobTimestamp` and `image`, which says of each layer the blob it
came from and its size. `own` is history: the metadata of the blob parsed last.

`XmlParsed`, `XmlFailed`, `BinaryParsed` and `Misfit` are the four outcomes of the code of
the three classes, which differ in what they leave behind: T-Mini clears a layer that the
metadata does not name, T and S resize it and keep its pixels. `ReceiveDamagedXml`,
`ReceiveDamagedBinary` and `ReceiveShort` are blobs whose bytes do not fit; how a wrong
offset or length shows itself is abstracted. Damaged metadata without a
CameraToWorldTransform, or S without its data set, throw an exception that leaves the
grabber thread: the process ends there, and these blobs are not among the damaged ones.
With data set version 1 each handler counts its own frames, so that the frame numbers of
delivered frames may go back; version 2 takes the number from the blob.

### AutoIPScan

A call is `send`, then a look at the clock (line 127 and 614) and `recv` in turn; `check` is
in front of the first recv and behind one that timed out, `handle` behind one that returned
a datagram. `port` is the ephemeral port of the call's socket, and a datagram reaches
whatever socket has its port when it arrives: the network may lose, repeat, delay, reorder
and damage datagrams, and ports are used again. Time is counted in ticks. It passes while
recv waits with nothing in the socket, and while a datagram is handled, up to
`HandlingTime`; what else the code does takes none, in particular there is no time between
a recv that times out and the look at the clock. A call therefore gives up what arrived
while it handled an earlier datagram, if the clock has passed the timeout by then. The
result of the send is ignored, as the code ignores it. A telegram id is the number of the
call: two calls are taken to draw different random numbers.

A damaged XML reply is passed over: it is too short, or does not parse (`badXml`). A binary
reply carries lengths which parseAutoIPBinary does not check (`badBinary`): where they lie
it reads outside its buffer, and either something is listed or the program ends
(`ParseAutoIPBinary`, the step `crashed`).

`HostPrefix`, `networkPrefixToMask` and `BroadcastAddress` are the code's arithmetic, for
any number and width of the octets. doScan compares the telegram id of XML replies only,
assign of none: both are as in the code, and `XmlEntriesAreOwn` and
`ConfirmedMeansConfigured` say no more than what can be promised so. Also as in the code, a
device that answers twice is listed twice, and assign may return false although the device
has taken its address.

### NumericConv

`castClamped` with the code's comparisons, made in the common type of source and target;
types are records of signedness and largest value, and a conversion is modulo the size of
its target. There is no run: the theorem says all.

## 3. Runs

| Run | Question | Bounds | Distinct states |
|---|---|---|---|
| `grabber_two` | safety with two consumers that use both getters at will, POSIX build | 2 consumers (symmetric), 3 frames | 940,944 |
| `grabber_one` | liveness, the properties that need a lone consumer, and the refinement of `LatestFrame`, Windows build | 1 consumer, 3 frames | 12,462 |
| `grabber_current_race` | *violated*: getCurrentFrame of two consumers | 2 consumers | |
| `grabber_posix_reconnect` | *violated*: reconnection of the POSIX build after a reset | 1 consumer, 1 frame | |
| `grabber_posix_read` | *violated*: every read of the stream ends, POSIX build | 1 consumer, 1 frame | |
| `control` | the control channel, both protocols, POSIX build | 3 connections, 3 commands, ids modulo 4 | 302,252 |
| `control_close` | *violated*: close() is a no-op without a connection | 2 connections, 2 commands | |
| `authentication` | what a login's result means, which protocol version an object learns, and whether it returns | 2 connections, 4 commands of which 1 an ordinary one, ids modulo 5, both protocols, devices of both versions | 778,830 |
| `framing` | the three loops under any fragmentation | 3 messages, 2 payloads (one ends with STX, one holds four), up to 2 cells of noise or a runt in front, 1 failed receive | 983,672 |
| `framing_colab_junk` | *violated*: CoLa B looks for a new run of STX after another byte | 1 message | |
| `framedata` | metadata, table and layers of delivered frames while the device is configured anew, restarts and sends damaged blobs | 3 subclasses, 4 blobs, 2 configurations or restarts, 1 damaged blob | 2,077,555 |
| `autoip` | scan and assign over an unreliable network; the broadcast address of every prefix | 2 octets of 2 bits, every prefix length, 2 ports, timeout 1, receive timeout 1, handling time 1, 2 calls, 3 datagrams | 1,338,669 |

Two consumers are enough for `grabber_two`: the only places where consumers meet are the
mutex, `m_FrameAvailable`, and notify_one, each of which involves two of them at a time; the
theorems hold for any number. Three frames let a frame be published while one is in a
consumer's hands and another on offer, so that all handlers of the rotation are in use. In
`control`, three connections are an open, its automatic reconnection, and one more on top
(close() whose logout reconnects); a command that fails needs at most two. `ReqIdModulus`
exceeds `MaxCalls`: two requests that are under way together never have the same id; in the
code 65536 requests would have to be under way. In `authentication` a login needs up to
three commands with the fallback from one protocol version to the other; the fourth is an
ordinary command before it, whose late answer may come in between, and the second connection
lets any of them meet a reconnection. In `framing` three messages let a failure fall into
one, the search pass through its rest, and the message after the next one show that the
loops have recovered; with one failure both outcomes of the search occur, and several are
left to the theorems, which hold for any number. In `framedata` four blobs take the rotation
once round and come back to the first handler with two configurations skipped in between. In
`autoip` two calls and two ports let the second call have the port of the first; one octet
boundary and prefixes on both sides of it are what networkPrefixToMask tells apart. With all
three times 1, a call can end while its socket is empty, while a datagram that came in time
is still in it, and after the handling of the last one.

`framing`, `framing_colab_junk`, `framedata` and `autoip` stop when their bounds are used up,
hence their CHECK_DEADLOCK FALSE. The other runs check deadlock.

### What the runs show

The code is right about most of what is hard in it. Whatever the interleaving, no two
parties share a handler; what is on offer is the newest frame and whole; getNextFrame
returns a frame that nobody got before and that is younger than the call; no frame or
wake-up is lost to a lone consumer; the destructor terminates; a command is executed at most
twice; a connection's four objects belong together; CoLa 2 never returns another command's
answer; the three framing loops stop exactly behind the first run of four STX, and a failed
receive costs at most the message it fell into, unless STX in the rest of that message
mislead the next search. A CoLa 2 login that returns true was granted by the device on the session
the client has then, whatever reconnections came between its commands; no object learns a
protocol version the device does not speak; without autoReconnect a login of an open control
is never undefined. A delivered frame is whole, was parsed with its own metadata as long as
the change counter tells them apart, and its point cloud's table belongs to it. A scan lists
every reply that came in time, except one that was still in the socket when the timeout
passed over the handling of an earlier one; and a call takes at most one receive timeout and
one handling longer than asked for.

Not every call returns, and what the models except is what the code does: a call on a
connection without a receive timeout (`grabber_posix_read`), undefined behaviour
(`crashed`), and a command of CoLa B that begins to receive inside a message, after a
receive that failed (`Misled`; it is the loop of `framing_colab_junk` that does not end).
A peer that sends bytes without four STX for ever keeps syncCoLa and readProtocol searching
for ever, and with them a call, or the destructor of the grabber: the streams of the models
end.

The models also show where the code departs from its documentation in a way that one line
of it decides, or that a property has as its exception:

* With CoLa B, which has no request id, the next command gets the answer of one whose
  receive timed out (`OnlyLateAnswersAreForeign`: it takes a failed receive). sendCommand
  "waits for the result" of its command (VisionaryControl.h:116).
* An attempt to connect that timed out counts as a connection in the POSIX build
  (`ConnectTimesOut`). open() returns true when "the connection to the sensor successfully
  was established" (VisionaryControl.h:46, VisionaryDataStream.h:28).
* stepAcquisition is to "trigger a single image" (VisionaryControl.h:100). When its answer is
  lost and autoReconnect is set, it is executed twice (`ExecutedAtMostTwice`).
* login returns true for success (AuthenticationSecure.cpp:152, 196), while
  VisionaryControl.h:67 documents it by "error code, 0 on success", which for a bool would
  be the opposite. `LoginMeansLevel` follows the code.
* With data set version 1, the frame number is "incremented on each received image"
  (VisionaryData.h:129), but each handler counts its own, and delivered numbers go back.

And without a statement to compare with: with autoReconnect a login may use its object after
it was destroyed, and the level is not restored afterwards; login without an open control
dereferences a null pointer; a binary scan reply with wrong lengths is read outside its
buffer.

Five statements of the documentation do not hold; each run stops at the counterexample.

* `grabber_current_race`: two threads in getCurrentFrame both see `m_FrameAvailable`
  (line 102) before either has the mutex. The second one gets, with result true, the handler
  the first one has just given back: an old or an empty frame. Line 102 would have to be
  inside the mutex. FrameGrabber.h:51 promises a blob that was available.
* `grabber_posix_reconnect`: after a reset, recv or send take the pending error with them,
  the POSIX build ignores the result of send, and getLastError finds 0: isConnected returns
  true for ever. FrameGrabber.h:17 promises a reconnection.
* `grabber_posix_read`: after a connection attempt that timed out and later succeeded, the
  socket has no receive timeout, so a device that does not stream keeps the thread in recv,
  and the destructor in join. VisionaryDataStream.h:26 says timeoutMs controls the timeout.
* `control_close`: open() that fails drops the handler (line 40) but keeps control session
  and authentication of the connection before; close() then logs out through a reference to
  a destroyed handler. VisionaryControl.h:59-60 calls this a no-op.
* `framing_colab_junk`: line 71 of CoLaBProtocolHandler.cpp erases what is in front of the
  iterator, which is nothing once the other byte is the first one: the loop 62-75 never
  ends. The CoLa 2 handler has moved its iterator past the byte and is right.

## 4. Fairness

`FrameGrabber`: weak fairness of the grabber thread except for receiving data, which is the
device's doing (`GrabberRuns`): the thread is never blocked except in a recv, and a recv on
a socket with a timeout returns. Weak fairness of a consumer that has been woken: it needs
the mutex, which every holder releases without blocking. None for calls, timeouts of a wait
or spurious wake-ups. For `Reconnects` alone, strong fairness of a successful open: the
device does not refuse every attempt for ever; and weak fairness of the reset by which a
peer answers data sent to a connection it has closed.
`VisionaryControl`: weak fairness of the client thread; a pending connection attempt is
given up or succeeds (the system bounds its retries). None for the device. `CallsReturn`
excepts a connection without a receive timeout, where fairness of recv would promise too
much, and CoLa B inside a message.
`Authentication`: the same two, for the client's thread within a command and between two
commands of a login.
`Framing`: weak fairness of the call's own steps and of recv, which has a timeout.
`AutoIPScan`: weak fairness of the caller's thread and of time, which passes while it waits
and while it handles a datagram. Datagrams come to an end in the model; in the code the
clock ends a call also when they do not.
`FrameData` states none: it has no liveness property.

## 5. Proofs

All theorems hold for every value of the constants that satisfies the named assumptions of
the modules; nothing else is assumed. Each proof module begins with its inductive invariant,
has one lemma per action, or per kind of action, and ends with the theorems.

### FrameGrabberProofs

For every set of consumers, either build and every number of frames:

* `TypeCorrect`, `ExclusiveHandlers`, `OfferIsNewest`, `TransportExists`: invariants;
* `NextDeliversNew`, `NextDeliversAfterCall`, `FrameIsStable`: action properties;
* `LoneConsumerGetsLatest`: with one consumer, FrameGrabber implements `LatestFrame`;
  `LoneConsumerMissesNone`, `LoneConsumerPollsNew`: what its two calls return.

None of the invariants is inductive by itself. That the frame on offer is the newest
(`AvailableIsNewest`) needs to know, at the swap, that the stream's handler has the next
frame (`Pipeline`), which in turn needs that nobody else writes to it (`HandlersDistinct`);
that it was not handed out before needs that no handler has a frame that was not published
(`NothingNewer`); that the transport exists needs that `m_connected` is TRUE only with one
(`ConnectedMeansOpen`); and that a frame is younger than the call that gets it needs that
the call's own reset of the flag is the last one (`OfferIsForWaiters`). `IInv` is their
conjunction. `GrabberStep`, `ConsumerStep` and `IInvStep` go through the actions. A
delivery is Recheck or TakeCurrent of the consumer that receives (`DeliveryStep`), and from
this and IInv the action properties follow. For the refinement one more invariant is
needed, which only holds with one consumer: that the frame a poller saw is still there when
it has the mutex (`OfferIsForPoller`); it is what `grabber_current_race` breaks with two,
and `CurrentIsNew` is proved from it. `NoFrameMissed` needs that a lone consumer which waits
while nothing is on offer has had nothing published since it called (`NoneMissed`).

### VisionaryControlProofs and AnswerProofs

`TypeCorrect`, `StaysWhole`, `CloseLeavesNothing` and `AtMostTwice` follow from one `IInv`.
TypeOK is not inductive: that sendCommand is never given the answer to openSession depends
on what may be under way at each step (`Flow`); that close() leaves nothing depends on the
authentication object being gone from the end of the logout on (`Closing`); that a command
is executed twice at most depends on where its copies can be: in the client's hands, under
way, or executed already (`Copies`).

`AnswerProofs` adds what request ids say. The id of a CoLa 2 message lies as far behind the
newest one as there were calls since, and at least one behind once a newer command was
written (`Numbered`): hence `OwnAnswer2`, as long as ids do not wrap on one connection
(`MaxCalls < ReqIdModulus` of BoundsAssumption). On a connection without a failed receive
only the current command is under way, and only while it is awaited (`Quiet`): hence
`ForeignOnlyLate`. The rest of a torn message is there only after a failed receive (`Torn`),
and whatever a receive makes of it, what stays under way is a tail of what was (`LeftOver`),
so that the numbers of the messages keep their meaning.

### AuthenticationProofs

A step is one of VisionaryControl's or the end in undefined behaviour, so that the two
invariants above hold here as well. `LoginSafe` needs that an open control has the
authentication object of its connection (`Authenticated`) and that without autoReconnect the
object a method runs on stays that one (`Method`); `LearnsVersion` needs that the
error code looked at is the answer to this login's own challenge (`Learning`), which is
`OwnAnswer2` again, that the device has executed that challenge and nothing newer by then
(`Order`, `Done`), and that the error is not one the client made up itself.

`LoginHasLevel` needs more of the sessions: what is under way on a connection carries the
session id the client has, since every new connection drops what was under way on the old
one before its openSession brings another id (`OneSession`). Then a device that agrees to the
SetUserLevel of the current call grants the level to the client's own session, and to this
call (`Granting`), also when the command was written again on a new connection.

### FramingProofs

`SyncsExactly`: the STX that a search does not miss any more are the last cells it has
looked at, and no run of four is among the cells in front (`Searching`); in front of them
is no further STX, unless CoLa B has come upon the byte it never gets past (`Maximal`,
`Stuck`). This holds for any stream.

The other three are about what the search finds, for any payloads. The stream is noise and
then one message after the other (`Layout`, from `MessageIs`). A search that begins at the
end of a message finds the next one, whatever the messages hold, since the four STX behind
it are the first four cells it meets (`EndLeads`); a runt leads to the first message in the
same way (`RuntLeads`). Only in front of the first message and behind a failed recv is there
something to assume: `LeadsToMessage` of that place, which is `NotMisled`. A place that
leads to a message does so for the rest of the behaviour (`LeadsKept`), so that the
condition may be looked at in the last state; hence the invariant `CInv`, whose parts about
the calls stand under `NotMisled`. Such a call finds the first message that begins behind it
(`Target`), or the runt, and the read of length and body stays within it (`InLength`,
`InBody`). Between calls every message up to the place reached was returned, or there is a
failed receive for it (`Accounted`). `ReturnsOnlySent` and `LosesOnePerFailure` follow, and
`EndsAligned`, which needs of `NotMisled` only what it says of the noise.

### FrameDataProofs

`OwnMetadata`, `CurrentTable`, `CloudsFit` and `WholeFrames`. The frame on offer and the
user's were parsed whole (`FramesOK`); of the stream's handler, which may have been left in
the middle of anything, weaker things hold (`HandlersOK`): above all, that its metadata was
announced together with its counter, unless that counter came damaged once or is the 0
that handlers begin with.

### AutoIPScanProofs

`Traced` follows a confirmation back over the socket, the network and the device to the
assign it answers (`ConfirmedIsExecuted`). `Listing` says where a reply that came in
time is until it is in the list: in the socket, and either the timeout has not passed yet,
or it passes while an earlier datagram is handled, which is the exception of
`NoReplyMissed` (`NoneMissed`, `XmlIsOwn`). `Timely` bounds the two clocks at each place of
the loop (`BoundedTime`, `TypeCorrect`).

`ReachesNetwork` is about the arithmetic of the addresses, for any number of octets of any
number of bits. Shifts are products and quotients by `TwoTo[k]`, whose laws come first
(`PowerOfSum`, `PowerRatio`, `HighDigits`). Octet i of the mask is 2^OctetBits - 2^f, where
f is the number of host bits in that octet (`MaskOctet`), so that the disjunction with its
complement fills the last f bits of the client's octet with 1 and leaves the others
(`OctetOfBroadcast`, from `LowBits`, `HighBits` and `BitsDecide`: numbers with the same bits
are the same). Octet by octet the number so far is that of the client with its last host bits
1 (`BroadcastNumber`).

These need induction over octets and bits. The library's induction theorems are stated for
an operator and cannot be used, but one for sets can be had from its theorems about
well-founded relations: if a set of numbers with 0 and all successors lacked some number n,
it would lack n - 1 as well, and the intervals 1 .. n of those it lacks would have no minimal
one (`Induction`). From this,
`Recursion` gives the function that a recursive definition describes, which TLA+ itself only
chooses, and with it what `TwoTo` (`Powers`) and `Number` (`NumberDefined`) are.

### NumericConv

`ClampsToNearest`: for any two integer types, castClamped returns the value of the target
that is nearest to its argument; the lemmas show that each comparison the code gets to is
made in a type that can hold both sides.

### Only model-checked

Every invariant and action property that a passing run checks is stated by a theorem. What
is left to TLC is liveness, whose fairness (ENABLED) is out of the prover's reach:
`WakesForFrame`, `StopEnds`, `Reconnects`, `CallsReturn`, `CallReturns`, `LoginReturns`.

## 6. Not modelled

* Numbers inside the parsers: offsets and lengths of segments, with their 32-bit
  differences, and the arithmetic of the point cloud and its transformation (floating point
  is out of TLC's reach). FrameData has a blob fit or not fit; what the code reads outside
  its buffer when the offsets lie is not a state of the model.
* The 32-bit arithmetic of message lengths (`length + 1u` of CoLa B): Framing's lengths are
  two cells and do not wrap.
* The bytes of a torn answer in `VisionaryControl`: its rest may be passed over or misread,
  but not spell the two ids of a later request of CoLa 2, nor one of the errors that
  sendCommand looks for. `Framing` has the cells, and no ids.
* Encoding and decoding of commands and parameters, the fields of AutoIP replies, MAC
  addresses, checksums and hashes: formatting without state. A command is a number or a
  name.
* The windows of time inside `select` and SO_RCVTIMEO except for their outcomes; a receive
  timeout that is merely shorter than asked for, since `select` used part of it up. In
  AutoIPScan: signals that interrupt recv, time between a recv that times out and the look
  at the clock, and an endless stream of datagrams.
* A peer that sends bytes without four STX for ever: the searches of `Framing` would go on,
  and a read of `FrameGrabber` ends.
* XML replies leave `DeviceInfo.protocolType` uninitialised; the model has no such field.
* castClamped of floating types, byte order functions, PLY output: sequential code without
  state, covered by unit tests.
* `src/3pp`: vendored boost headers and hash functions, about 253,000 of the repository's
  260,000 lines of code. The library itself, under `src/src`, has 6,940, and the models
  translate some 2,660 of them; most of the others encode, format or declare. This is why the
  share of all lines that is modelled stays small.

## 7. Plan

Done: everything the models of section 2 list. What would add most now:

1. The lengths: 32-bit arithmetic of segment offsets and message lengths as operators
   modulo 2^32, checked against what the buffer holds.
2. The rotation of FrameData shown to be implemented by FrameGrabber's, as a refinement
   instead of an argument.
3. Parameter readers and writers and the byte order functions against reference
   definitions.
