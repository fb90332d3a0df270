------------------------------ MODULE Framing ------------------------------
(***************************************************************************)
(* How a message is found in the byte stream of a TCP connection:          *)
(* readProtocol of CoLaBProtocolHandler and CoLa2ProtocolHandler, and      *)
(* syncCoLa and getNextFrame of VisionaryDataStream.  A message is four    *)
(* STX, a length, and as many bytes as it says (CoLa B: and a checksum).   *)
(* recv hands over any non-empty part of what was asked for, or fails;     *)
(* what a failed call has taken from the stream is gone.                   *)
(*                                                                         *)
(* The stream is a sequence of cells.  A cell is a byte, except that the   *)
(* length takes two cells for four bytes.  What the device sends does not  *)
(* depend on what the client has received, so that all of it is sent before*)
(* the first call; recv decides how much of it has arrived.  A failed call *)
(* is repeated on the same connection, as FrameGrabberBase::run does and as*)
(* a user of ControlSession may do.                                        *)
(***************************************************************************)
EXTENDS Integers, Sequences

CONSTANTS
  Readers,       \* which of the three loops: {"COLA_B", "COLA_2", "STREAM"}
  Payloads,      \* what a message may carry: any cells whatever
  MaxMessages,   \* bound: messages in the stream
  MaxJunk,       \* bound: cells in front of the first message
  MaxFailures    \* bound: recv calls that fail before the stream has ended

ASSUME ReadersAssumption == Readers \subseteq {"COLA_B", "COLA_2", "STREAM"}
ASSUME BoundsAssumption ==
  /\ Payloads \subseteq Seq(Nat)
  /\ MaxMessages \in Nat /\ MaxJunk \in Nat /\ MaxFailures \in Nat

VARIABLES
  reader, junk,  \* the loop, and what is in front of the first message
  sending,       \* no call has been made yet
  payloads, stream, ends, \* what the device sends, and where each message ends
  rd,            \* cells taken from the stream so far
  pc,            \* "idle" between calls, or where the call is
  stxRecvLeft,   \* STX still missing (syncCoLa: 4 - elements)
  buffer, it,    \* the received cells and the iterator over them
  length,        \* the length field
  returned,      \* history: the payloads the calls returned, and rd when they did
  begin,         \* history: rd when the call began
  failures       \* history: rd when a recv failed, the stream not at its end

input == <<reader, junk, sending, payloads, stream, ends>>
vars  == <<input, rd, pc, stxRecvLeft, buffer, it, length, returned, begin, failures>>

STX    == 2
NumStx == 4
Other  == 9
Base   == 16     \* a cell of the length field

-----------------------------------------------------------------------------
(* What the device sends *)

\* The cells in front of the payload that the length counts: HubCtr and NoC of
\* CoLa 2, protocol version and packet type of the data stream.
Front == [COLA_B |-> <<>>, COLA_2 |-> <<0, 0>>, STREAM |-> <<0, 1, 98>>]

\* Only CoLa B has a checksum: the exclusive or of the bytes, which may be STX.
ChecksumSize == IF reader = "COLA_B" THEN 1 ELSE 0
Checksums == [1 .. ChecksumSize -> {STX, Other}]

Framed(body, check) == <<STX, STX, STX, STX, 0, Len(body)>> \o body \o check
Message(payload, check) == Framed(Front[reader] \o payload, check)
Runt == Framed(<<Other>>, <<>>)

\* Where message i ends; message 0 is what is in front of the first.
MessageEnd(i) == ends[i + 1]

AtEnd == rd = Len(stream)

\* The connection may begin in the middle of something, or with a message that
\* is too short to be one.
Junk(r) ==
  (UNION {[1 .. n -> {STX, Other}] : n \in 0 .. MaxJunk})
    \cup (IF r = "COLA_B" THEN {} ELSE {Runt})

Init ==
  /\ reader \in Readers
  /\ junk \in Junk(reader)
  /\ sending = TRUE /\ payloads = <<>> /\ stream = junk /\ ends = <<Len(junk)>>
  /\ rd = 0 /\ pc = "idle" /\ stxRecvLeft = 0 /\ buffer = <<>> /\ it = 1
  /\ length = 0 /\ returned = <<>> /\ begin = 0 /\ failures = <<>>

Send ==
  /\ sending /\ Len(payloads) < MaxMessages
  /\ \E payload \in Payloads, check \in Checksums :
       /\ payloads' = Append(payloads, payload)
       /\ stream' = stream \o Message(payload, check)
       /\ ends' = Append(ends, Len(stream'))
  /\ UNCHANGED <<reader, junk, sending, rd, pc, stxRecvLeft, buffer, it, length, returned,
                 begin, failures>>

-----------------------------------------------------------------------------
(* Receiving *)

\* recv hands over the next n cells.
Received(n) == /\ rd + n <= Len(stream)
               /\ rd' = rd + n

Taken(n) == SubSeq(stream, rd + 1, rd + n)

Call ==
  /\ pc = "idle" /\ ~AtEnd
  /\ sending' = FALSE
  /\ pc' = "stx" /\ begin' = rd
  /\ stxRecvLeft' = NumStx
  /\ UNCHANGED <<reader, junk, payloads, stream, ends, rd, buffer, it, length, returned, failures>>

\* Mutant: four cells are asked for every time.
RecvStxFour ==
  /\ pc = "stx"
  /\ \E n \in 1 .. NumStx : Received(n) /\ buffer' = Taken(n)
  /\ pc' = "scan" /\ it' = 1
  /\ UNCHANGED <<input, stxRecvLeft, length, returned, begin, failures>>

\* The CoLa handlers ask for the missing STX, syncCoLa for one cell.
RecvStx ==
  /\ pc = "stx"
  /\ \E n \in 1 .. (IF reader = "STREAM" THEN 1 ELSE stxRecvLeft) :
       Received(n) /\ buffer' = Taken(n)
  /\ pc' = "scan" /\ it' = 1
  /\ UNCHANGED <<input, stxRecvLeft, length, returned, begin, failures>>

ScanStx ==
  /\ pc = "scan" /\ it <= Len(buffer) /\ buffer[it] = STX
  /\ stxRecvLeft' = stxRecvLeft - 1
  /\ it' = it + 1
  /\ UNCHANGED <<input, rd, pc, buffer, length, returned, begin, failures>>

FoundOther == pc = "scan" /\ it <= Len(buffer) /\ buffer[it] # STX

\* Mutant: another byte does not start a new run.
ScanOtherKeepsCount ==
  /\ FoundOther
  /\ buffer' = SubSeq(buffer, it + 1, Len(buffer)) /\ it' = 1
  /\ UNCHANGED <<input, rd, pc, stxRecvLeft, length, returned, begin, failures>>

\* Mutant: every loop erases what is in front of the iterator only.
ScanOtherKeepsByte ==
  /\ FoundOther
  /\ buffer' = SubSeq(buffer, it, Len(buffer)) /\ it' = 1
  /\ stxRecvLeft' = NumStx
  /\ UNCHANGED <<input, rd, pc, length, returned, begin, failures>>

\* CoLa 2 has moved its iterator past the byte before it erases up to it; the
\* iterator of CoLa B still points at the byte, which therefore stays.
ScanOther ==
  /\ FoundOther
  /\ buffer' = SubSeq(buffer, IF reader = "COLA_B" THEN it ELSE it + 1, Len(buffer))
  /\ it' = 1
  /\ stxRecvLeft' = NumStx
  /\ UNCHANGED <<input, rd, pc, length, returned, begin, failures>>

ScanDone ==
  /\ pc = "scan" /\ it > Len(buffer)
  /\ pc' = IF stxRecvLeft > 0 THEN "stx" ELSE "length"
  /\ buffer' = <<>>
  /\ UNCHANGED <<input, rd, stxRecvLeft, it, length, returned, begin, failures>>

-----------------------------------------------------------------------------
(* TcpSocket::read: recv until everything asked for is there *)

Wanted == CASE pc = "length" -> 2
            [] pc = "body"   -> length + ChecksumSize
            [] OTHER         -> 0

ReadSome ==
  /\ pc \in {"length", "body"}
  /\ \E n \in 1 .. Wanted - Len(buffer) : Received(n) /\ buffer' = buffer \o Taken(n)
  /\ UNCHANGED <<input, pc, stxRecvLeft, it, length, returned, begin, failures>>

Complete(what) == pc = what /\ Len(buffer) = Wanted

\* Mutant: CoLa B reads no checksum, which then is in front of the next message.
LengthReadNoChecksum ==
  /\ Complete("length")
  /\ length' = buffer[1] * Base + buffer[2] - ChecksumSize
  /\ pc' = IF reader = "STREAM" /\ length' < 3 THEN "idle" ELSE "body"
  /\ buffer' = <<>>
  /\ UNCHANGED <<input, rd, stxRecvLeft, it, returned, begin, failures>>

\* getNextFrame gives up on a short length before it reads the body.
LengthRead ==
  /\ Complete("length")
  /\ length' = buffer[1] * Base + buffer[2]
  /\ pc' = IF reader = "STREAM" /\ length' < 3 THEN "idle" ELSE "body"
  /\ buffer' = <<>>
  /\ UNCHANGED <<input, rd, stxRecvLeft, it, returned, begin, failures>>

\* What the caller gets of a complete body.
Stripped(body) ==
  SubSeq(body, Len(Front[reader]) + 1, Len(body) - ChecksumSize)

\* Mutant: a short read is taken for a complete one.
BodyReadUnchecked ==
  /\ pc = "body" /\ buffer # <<>>
  /\ returned' = Append(returned, [payload |-> Stripped(buffer), end |-> rd])
  /\ pc' = "idle" /\ buffer' = <<>>
  /\ UNCHANGED <<input, rd, stxRecvLeft, it, length, begin, failures>>

\* CoLa 2 gives up on a short length after it has read the body.
BodyRead ==
  /\ Complete("body")
  /\ returned' = IF reader = "COLA_2" /\ length < 2 THEN returned
                 ELSE Append(returned, [payload |-> Stripped(buffer), end |-> rd])
  /\ pc' = "idle" /\ buffer' = <<>>
  /\ UNCHANGED <<input, rd, stxRecvLeft, it, length, begin, failures>>

\* recv fails: timeout, error, or the end of the stream.
RecvFails ==
  /\ pc = "stx" \/ (pc \in {"length", "body"} /\ Len(buffer) < Wanted)
  /\ AtEnd \/ Len(failures) < MaxFailures
  /\ failures' = IF AtEnd THEN failures ELSE Append(failures, rd)
  /\ pc' = "idle" /\ buffer' = <<>>
  /\ UNCHANGED <<input, rd, stxRecvLeft, it, length, returned, begin>>

Receiving == RecvStx \/ ReadSome \/ RecvFails
Computing == ScanStx \/ ScanOther \/ ScanDone \/ LengthRead \/ BodyRead

Next == Send \/ Call \/ Receiving \/ Computing

\* recv has a timeout, so every recv ends; nothing obliges the caller to call.
Spec == Init /\ [][Next]_vars /\ WF_vars(Receiving) /\ WF_vars(Computing)

-----------------------------------------------------------------------------
(* Properties *)

\* A run of four STX that lies in the cells first+1 .. last and ends at last.
RunEndsAt(first, last) ==
  /\ last - first >= NumStx
  /\ \A k \in last - NumStx + 1 .. last : stream[k] = STX

FirstRun(first, last) ==
  /\ RunEndsAt(first, last)
  /\ \A k \in first .. last - 1 : ~RunEndsAt(first, k)

\* However recv cuts the stream, the search stops right behind the first run of
\* four STX that begins after the call did: the three loops have one meaning.
SyncIsExact == (pc = "length" /\ buffer = <<>>) => FirstRun(begin, rd)

(***************************************************************************)
(* Nothing in a message keeps four STX from its payload, and an STX at the *)
(* end of one runs into the four of the next.  Where a search begins with a*)
(* message this does no harm.  It begins elsewhere in front of the first   *)
(* one and after every recv that failed, and there the loops can be misled:*)
(* to four STX that are not the front of a message.                        *)
(***************************************************************************)
IsFront(last) ==
  \/ \E i \in 1 .. Len(payloads) : last = MessageEnd(i - 1) + NumStx
  \/ junk = Runt /\ last = NumStx

LeadsToMessage(first) ==
  \A last \in first .. Len(stream) : FirstRun(first, last) => IsFront(last)

NotMisled ==
  LeadsToMessage(0) /\ \A k \in 1 .. Len(failures) : LeadsToMessage(failures[k])

\* Unless the noise, or the rest of a message behind a failed recv, misleads a
\* search to four STX that are not the front of a message, the calls return
\* messages that were sent, whole, in the order in which they were sent and none
\* twice, although a call that failed has left the next one in the middle of a
\* message.  Without a failure this needs nothing of the payloads.
OnlySent ==
  NotMisled =>
    /\ \A k \in 1 .. Len(returned) :
         \E i \in 1 .. Len(payloads) : returned[k] = [payload |-> payloads[i], end |-> MessageEnd(i)]
    /\ \A j, k \in 1 .. Len(returned) : j < k => returned[j].end < returned[k].end

\* As long as no recv fails, a call that has returned leaves the stream exactly
\* at the end of the last message returned, whatever the payloads are, unless
\* the noise in front of the first message looks like the front of one.  (The
\* loop of CoLa B does not return behind noise: LooksForNewRun.)
AlignedUnlessFailed ==
  (pc = "idle" /\ failures = <<>> /\ LeadsToMessage(0)) =>
    IF returned = <<>> THEN rd <= Len(junk) ELSE rd = MessageEnd(Len(returned))

\* A failed recv costs the message it fell into and no other, unless STX in the
\* rest of that message mislead the next call: then the two cells behind the four
\* it finds are its length, and it may take the rest of the stream for one message.
LossIsBounded ==
  LET Begun == {i \in 1 .. Len(payloads) : MessageEnd(i - 1) < rd}
  IN  (pc = "idle" /\ NotMisled) => \A i \in Begun : i <= Len(returned) + Len(failures)

\* A call of CoLa 2 or of the data stream comes to an end, whatever the stream
\* holds.  (A device that sends bytes without four STX for ever keeps the call
\* searching for ever; the stream of the model ends.)
CallReturns == (pc # "idle" /\ reader # "COLA_B") ~> pc = "idle"

\* What the comment in both CoLa handlers says of another byte: that a new run
\* of four STX is looked for.  CoLa B never gets past the byte.
LooksForNewRun == FoundOther ~> pc # "scan"
=============================================================================
