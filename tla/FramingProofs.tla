--------------------------- MODULE FramingProofs ----------------------------
(***************************************************************************)
(* Proofs about Framing, for any of the loops, any payloads and any number *)
(* of messages, cells of noise and failed receives.                        *)
(*                                                                         *)
(* While a call searches, it has looked at the cells up to At.  The STX it *)
(* no longer misses are the last cells it has looked at (Searching), and in*)
(* front of them is no other STX of the search (Maximal), unless CoLa B has*)
(* come upon the byte it never gets past (Stuck).                          *)
(*                                                                         *)
(* The second part follows the calls through the stream, which is noise    *)
(* and then one message after the other (Layout). Wherever a search        *)
(* begins, the first four STX it can find are the front of a message:      *)
(* behind a message that was read to its end, whatever the messages hold   *)
(* (EndLeads), and else as long as nothing misleads it (NotMisled). So it  *)
(* finds the first message that begins after it does (Target) and the call *)
(* reads that one to its end (InLength, InBody). Between calls every       *)
(* message that has begun was returned or belongs to a failed receive      *)
(* (Accounted).                                                            *)
(***************************************************************************)
EXTENDS Framing, SequenceTheorems, TLAPS

USE ReadersAssumption

-----------------------------------------------------------------------------
(* The inductive invariant *)

Types ==
  /\ reader \in {"COLA_B", "COLA_2", "STREAM"} /\ sending \in BOOLEAN
  /\ junk \in Seq(Nat) /\ payloads \in Seq(Seq(Nat)) /\ stream \in Seq(Nat)
  /\ rd \in 0 .. Len(stream) /\ begin \in 0 .. rd
  /\ pc \in {"idle", "stx", "scan", "length", "body"}
  /\ stxRecvLeft \in 0 .. NumStx /\ buffer \in Seq(Nat) /\ it \in Nat \ {0}
  /\ length \in Nat
  /\ sending => pc = "idle"
  /\ pc \in {"idle", "stx"} => buffer = <<>>

\* What is in the buffer of the search was received last, and no more of it is
\* left to look at than there are STX missing.
Window ==
  pc = "scan" =>
    /\ it <= Len(buffer) + 1 /\ Len(buffer) <= rd - begin
    /\ Len(buffer) - it + 1 <= stxRecvLeft
    /\ \A k \in 1 .. Len(buffer) : buffer[k] = stream[rd - Len(buffer) + k]

\* The last cell the search has looked at, and the last in front of the STX found.
At == IF pc = "scan" THEN rd - Len(buffer) + it - 1 ELSE rd
Before == At - (NumStx - stxRecvLeft)

Stuck == pc = "scan" /\ it <= Len(buffer) /\ buffer[it] # STX
Maximal == Before = begin \/ stream[Before] # STX \/ Stuck

Searching ==
  pc \in {"stx", "scan"} =>
    /\ Before >= begin
    /\ \A k \in Before + 1 .. At : stream[k] = STX
    /\ \A last \in begin .. At - 1 : ~RunEndsAt(begin, last)
    /\ stxRecvLeft > 0 => ~RunEndsAt(begin, At) /\ Maximal
    /\ pc = "stx" => stxRecvLeft > 0

IInv == Types /\ Window /\ Searching /\ SyncIsExact

-----------------------------------------------------------------------------
(* What the device sends *)

LEMMA FrontsAre ==
  ASSUME NEW r \in {"COLA_B", "COLA_2", "STREAM"}
  PROVE  /\ Front[r] \in Seq(Nat)
         /\ Len(Front[r]) = (IF r = "COLA_B" THEN 0 ELSE IF r = "COLA_2" THEN 2 ELSE 3)
<1>1. CASE r = "COLA_B"
  BY <1>1 DEF Front
<1>2. CASE r = "COLA_2"
  BY <1>2 DEF Front
<1>3. CASE r = "STREAM"
  BY <1>3 DEF Front
<1> QED  BY <1>1, <1>2, <1>3

LEMMA ChecksumsAre ==
  /\ ChecksumSize \in Nat
  /\ \A check \in Checksums : check \in Seq(Nat) /\ Len(check) = ChecksumSize
<1>1. ChecksumSize \in Nat
  BY DEF ChecksumSize
<1>2. STX \in Nat /\ Other \in Nat
  BY DEF STX, Other
<1>3. ASSUME NEW check \in Checksums PROVE check \in Seq(Nat) /\ Len(check) = ChecksumSize
  BY <1>1, <1>2 DEF Checksums
<1> QED  BY <1>1, <1>3

LEMMA Joined ==
  ASSUME NEW s \in Seq(Nat), NEW t \in Seq(Nat)
  PROVE  /\ s \o t \in Seq(Nat) /\ Len(s \o t) = Len(s) + Len(t)
         /\ Len(s) \in Nat /\ Len(t) \in Nat
         /\ \A k \in 1 .. Len(s) : (s \o t)[k] = s[k]
         /\ \A k \in 1 .. Len(t) : (s \o t)[Len(s) + k] = t[k]
  OBVIOUS

LEMMA FramedIs ==
  ASSUME NEW body \in Seq(Nat), NEW check \in Seq(Nat)
  PROVE  /\ Framed(body, check) \in Seq(Nat)
         /\ Len(Framed(body, check)) = 6 + Len(body) + Len(check)
         /\ \A k \in 1 .. 4 : Framed(body, check)[k] = STX
         /\ Framed(body, check)[5] = 0 /\ Framed(body, check)[6] = Len(body)
         /\ \A k \in 1 .. Len(body) : Framed(body, check)[6 + k] = body[k]
         /\ \A k \in 1 .. Len(check) : Framed(body, check)[6 + Len(body) + k] = check[k]
<1> DEFINE head == <<STX, STX, STX, STX, 0, Len(body)>>
<1>1. /\ head \in Seq(Nat) /\ Len(head) = 6 /\ \A k \in 1 .. 4 : head[k] = STX
      /\ head[5] = 0 /\ head[6] = Len(body)
  <2>1. Len(body) \in Nat /\ STX \in Nat /\ 0 \in Nat
    BY DEF STX
  <2>2. head \in Seq(Nat)
    BY <2>1
  <2>3. Len(head) = 6
    OBVIOUS
  <2>4. head[1] = STX /\ head[2] = STX /\ head[3] = STX /\ head[4] = STX /\ head[5] = 0 /\ head[6] = Len(body)
    OBVIOUS
  <2> HIDE DEF head
  <2>5. \A k \in 1 .. 4 : k = 1 \/ k = 2 \/ k = 3 \/ k = 4
    OBVIOUS
  <2>6. \A k \in 1 .. 4 : head[k] = STX
    BY <2>4, <2>5
  <2> QED  BY <2>2, <2>3, <2>4, <2>6
<1>2. Framed(body, check) = (head \o body) \o check
  BY DEF Framed
<1> HIDE DEF head
<1>3. /\ head \o body \in Seq(Nat) /\ Len(head \o body) = 6 + Len(body)
      /\ \A k \in 1 .. 6 : (head \o body)[k] = head[k]
      /\ \A k \in 1 .. Len(body) : (head \o body)[6 + k] = body[k]
  <2>1. /\ head \o body \in Seq(Nat) /\ Len(head \o body) = Len(head) + Len(body)
        /\ \A k \in 1 .. Len(head) : (head \o body)[k] = head[k]
        /\ \A k \in 1 .. Len(body) : (head \o body)[Len(head) + k] = body[k]
    BY <1>1, Joined
  <2> QED  BY <1>1, <2>1
<1>4. /\ Framed(body, check) \in Seq(Nat) /\ Len(Framed(body, check)) = 6 + Len(body) + Len(check)
      /\ \A k \in 1 .. 6 : Framed(body, check)[k] = head[k]
      /\ \A k \in 1 .. Len(body) : Framed(body, check)[6 + k] = body[k]
      /\ \A k \in 1 .. Len(check) : Framed(body, check)[6 + Len(body) + k] = check[k]
  <2>1. Len(body) \in Nat /\ Len(check) \in Nat
    OBVIOUS
  <2>2. /\ \A k \in 1 .. 6 : k \in 1 .. 6 + Len(body)
        /\ \A k \in 1 .. Len(body) : 6 + k \in 1 .. 6 + Len(body)
    BY <2>1
  <2> DEFINE front == head \o body
  <2>3. /\ front \in Seq(Nat) /\ Len(front) = 6 + Len(body)
        /\ \A k \in 1 .. 6 : front[k] = head[k]
        /\ \A k \in 1 .. Len(body) : front[6 + k] = body[k]
    BY <1>3
  <2>4. Framed(body, check) = front \o check
    BY <1>2
  <2> HIDE DEF front
  <2>5. /\ front \o check \in Seq(Nat) /\ Len(front \o check) = Len(front) + Len(check)
        /\ \A k \in 1 .. Len(front) : (front \o check)[k] = front[k]
        /\ \A k \in 1 .. Len(check) : (front \o check)[Len(front) + k] = check[k]
    BY <2>3, Joined
  <2>6. \A k \in 1 .. Len(body) : Framed(body, check)[6 + k] = body[k]
    BY <2>2, <2>3, <2>4, <2>5
  <2> QED  BY <2>1, <2>2, <2>3, <2>4, <2>5, <2>6
<1> QED  BY <1>1, <1>4

LEMMA MessageIs ==
  ASSUME reader \in {"COLA_B", "COLA_2", "STREAM"}, NEW p \in Seq(Nat), NEW check \in Checksums
  PROVE  Message(p, check) \in Seq(Nat)
<1> DEFINE body == Front[reader] \o p
<1>1. Front[reader] \in Seq(Nat) /\ check \in Seq(Nat)
  BY FrontsAre, ChecksumsAre
<1>2. body \in Seq(Nat)
  BY <1>1, Joined
<1>3. Message(p, check) = Framed(body, check)
  BY DEF Message
<1> HIDE DEF body
<1> QED  BY <1>1, <1>2, <1>3, FramedIs

LEMMA JunkIs == ASSUME NEW r \in Readers, NEW j \in Junk(r) PROVE j \in Seq(Nat)
<1>1. CASE j = Runt
  <2>1. <<Other>> \in Seq(Nat) /\ <<>> \in Seq(Nat)
    BY DEF Other
  <2> QED  BY <1>1, <2>1, FramedIs DEF Runt
<1>2. CASE j # Runt
  <2>1. PICK n \in 0 .. MaxJunk : j \in [1 .. n -> {STX, Other}]
    <3>1. j \in UNION {[1 .. n -> {STX, Other}] : n \in 0 .. MaxJunk}
      BY <1>2 DEF Junk
    <3> QED  BY <3>1
  <2>2. n \in Nat /\ STX \in Nat /\ Other \in Nat
    BY BoundsAssumption DEF STX, Other
  <2> QED  BY <2>1, <2>2
<1> QED  BY <1>1, <1>2

-----------------------------------------------------------------------------
(* Steps *)

LEMMA InitSafe == Init => IInv
<1> SUFFICES ASSUME Init PROVE IInv
  OBVIOUS
<1>1. reader \in {"COLA_B", "COLA_2", "STREAM"} /\ junk \in Seq(Nat)
  BY JunkIs DEF Init
<1> QED  BY <1>1 DEF Init, IInv, Types, Window, Searching, SyncIsExact, FirstRun, NumStx

\* What recv hands over.
LEMMA TakenIs ==
  ASSUME Types, NEW n \in Nat, Received(n)
  PROVE  /\ Taken(n) \in Seq(Nat) /\ Len(Taken(n)) = n
         /\ \A k \in 1 .. n : Taken(n)[k] = stream[rd + k]
         /\ rd' = rd + n /\ rd' \in 0 .. Len(stream)
  BY DEF Types, Received, Taken

LEMMA SendSafe == ASSUME IInv, Send PROVE IInv'
<1> USE DEF Send, IInv
<1>1. pc = "idle" /\ pc' = "idle"
  BY DEF Types
<1>2. PICK p \in Payloads, check \in Checksums :
        payloads' = Append(payloads, p) /\ stream' = stream \o Message(p, check)
  OBVIOUS
<1>3. p \in Seq(Nat)
  BY BoundsAssumption
<1>4. Message(p, check) \in Seq(Nat)
  BY <1>3, MessageIs DEF Types
<1>5. stream' \in Seq(Nat) /\ Len(stream) <= Len(stream')
  BY <1>2, <1>4 DEF Types
<1>6. payloads' \in Seq(Seq(Nat))
  BY <1>2, <1>3 DEF Types
<1>7. Types'
  BY <1>5, <1>6 DEF Types
<1> QED  BY <1>1, <1>7 DEF Window, Searching, SyncIsExact, FirstRun

LEMMA CallSafe == ASSUME IInv, Call PROVE IInv'
<1> USE DEF Call, IInv
<1>1. Types'
  <2>1. pc = "idle" /\ pc' = "stx" /\ begin' = rd /\ stxRecvLeft' = 4 /\ sending' = FALSE
    BY DEF NumStx
  <2>2. UNCHANGED <<reader, junk, payloads, stream, rd, buffer, it, length>>
    OBVIOUS
  <2>3. rd \in 0 .. rd
    BY DEF Types
  <2>4. stxRecvLeft' \in 0 .. NumStx
    BY <2>1 DEF NumStx
  <2>5. /\ reader' \in {"COLA_B", "COLA_2", "STREAM"} /\ sending' \in BOOLEAN
        /\ junk' \in Seq(Nat) /\ payloads' \in Seq(Seq(Nat)) /\ stream' \in Seq(Nat)
        /\ rd' \in 0 .. Len(stream') /\ buffer' \in Seq(Nat) /\ it' \in Nat \ {0} /\ length' \in Nat
        /\ buffer' = <<>>
    BY <2>1, <2>2 DEF Types
  <2> HIDE DEF Call, IInv
  <2> QED  BY <2>1, <2>2, <2>3, <2>4, <2>5 DEF Types
<1>2. Searching'
  BY DEF Searching, Types, NumStx, At, Before, Maximal, RunEndsAt
<1> QED  BY <1>1, <1>2 DEF Window, SyncIsExact, FirstRun

LEMMA RecvStxSafe == ASSUME IInv, RecvStx PROVE IInv'
<1> USE DEF IInv
<1>1. PICK n \in 1 .. NumStx : n <= stxRecvLeft /\ Received(n) /\ buffer' = Taken(n)
  <2>1. pc = "stx" /\ stxRecvLeft \in 1 .. NumStx
    BY DEF RecvStx, Types, Searching, NumStx
  <2>2. PICK n \in 1 .. (IF reader = "STREAM" THEN 1 ELSE stxRecvLeft) :
          Received(n) /\ buffer' = Taken(n)
    BY DEF RecvStx
  <2>3. n \in 1 .. NumStx /\ n <= stxRecvLeft
    BY <2>1, <2>2 DEF NumStx
  <2> QED  BY <2>2, <2>3
<1>2. pc = "stx" /\ pc' = "scan" /\ it' = 1 /\ UNCHANGED <<input, stxRecvLeft, length, begin>>
  BY DEF RecvStx
<1>3. n \in Nat /\ buffer' \in Seq(Nat) /\ Len(buffer') = n /\ rd' = rd + n /\ rd' \in 0 .. Len(stream)
      /\ \A k \in 1 .. n : buffer'[k] = stream[rd + k]
  BY <1>1, TakenIs DEF NumStx
<1>4. Types'
  BY <1>2, <1>3 DEF Types, input
<1>5. Window'
  BY <1>1, <1>2, <1>3 DEF Window, Types, input
<1>6. At' = At /\ Before' = Before
  BY <1>2, <1>3 DEF At, Before, Types
<1>7. Searching'
  BY <1>2, <1>6 DEF Searching, Maximal, Stuck, RunEndsAt, input
<1> QED  BY <1>2, <1>4, <1>5, <1>7 DEF SyncIsExact

LEMMA InScan ==
  ASSUME Types, Window, pc = "scan"
  PROVE  /\ Len(buffer) \in Nat /\ it \in Nat \ {0} /\ buffer \in Seq(Nat)
         /\ rd \in Nat /\ begin \in Nat /\ stxRecvLeft \in 0 .. 4
         /\ Len(buffer) <= rd - begin /\ Len(buffer) - it + 1 <= stxRecvLeft /\ it <= Len(buffer) + 1
<1>1. /\ Len(buffer) \in Nat /\ it \in Nat \ {0} /\ buffer \in Seq(Nat)
      /\ rd \in Nat /\ begin \in Nat /\ stxRecvLeft \in 0 .. 4
  BY DEF Types, NumStx
<1>2. Len(buffer) <= rd - begin /\ Len(buffer) - it + 1 <= stxRecvLeft /\ it <= Len(buffer) + 1
  BY DEF Window
<1> QED  BY <1>1, <1>2

LEMMA ScanStxSafe == ASSUME IInv, ScanStx PROVE IInv'
<1> USE DEF IInv
<1>1. /\ pc = "scan" /\ it <= Len(buffer) /\ buffer[it] = STX
      /\ stxRecvLeft' = stxRecvLeft - 1 /\ it' = it + 1
      /\ UNCHANGED <<input, rd, pc, buffer, length, begin>>
  BY DEF ScanStx
<1>2. stxRecvLeft \in 1 .. 4 /\ Len(buffer) \in Nat /\ it \in Nat \ {0}
  BY <1>1, InScan
<1>3. Types'
  <2>1. stxRecvLeft' \in 0 .. NumStx /\ it' \in Nat \ {0}
    BY <1>1, <1>2 DEF NumStx
  <2>2. UNCHANGED <<reader, sending, junk, payloads, stream, rd, begin, pc, buffer, length>>
    BY <1>1 DEF input
  <2> QED  BY <2>1, <2>2 DEF Types
<1>31. Window'
  BY <1>1, <1>2 DEF Types, Window, input
<1>4. At' = At + 1 /\ Before' = Before /\ At \in Nat /\ Before \in Int /\ rd \in Nat /\ begin \in Nat
  BY <1>1, <1>2 DEF At, Before, NumStx, Types, Window
<1>5. stream[At + 1] = STX
  <2>1. At + 1 = rd - Len(buffer) + it
    BY <1>1, <1>2, <1>4 DEF At
  <2>2. it \in 1 .. Len(buffer)
    BY <1>1, <1>2
  <2> QED  BY <1>1, <2>1, <2>2 DEF Window
<1>6. Before >= begin /\ Maximal /\ ~Stuck /\ ~RunEndsAt(begin, At)
  BY <1>1, <1>2 DEF Searching, Stuck
<1>7. stxRecvLeft' > 0 => ~RunEndsAt(begin, At + 1)
  <2> SUFFICES ASSUME stxRecvLeft >= 2, RunEndsAt(begin, At + 1) PROVE FALSE
    BY <1>1, <1>2
  <2>1. Before >= At - 2 /\ Before <= At
    BY <1>2, <1>4 DEF Before, NumStx
  <2>2. CASE Before = begin
    BY <1>4, <2>1, <2>2 DEF RunEndsAt, NumStx
  <2>3. CASE stream[Before] # STX
    BY <1>4, <2>1, <2>3 DEF RunEndsAt, NumStx
  <2> QED  BY <1>6, <2>2, <2>3 DEF Maximal
<1>8. Searching'
  <2>1. \A k \in Before + 1 .. At + 1 : stream[k] = STX
    BY <1>1, <1>4, <1>5 DEF Searching
  <2>2. \A last \in begin .. At : ~RunEndsAt(begin, last)
    <3>1. \A last \in begin .. At : last = At \/ last \in begin .. At - 1
      BY <1>4
    <3> QED  BY <1>1, <1>6, <3>1 DEF Searching
  <2>3. Maximal'
    BY <1>1, <1>4, <1>6 DEF Maximal, input
  <2> QED  BY <1>1, <1>4, <1>6, <1>7, <2>1, <2>2, <2>3 DEF Searching, RunEndsAt, input
<1> QED  BY <1>1, <1>3, <1>31, <1>8 DEF SyncIsExact, FirstRun

\* Searching after a step that leaves the stream alone.
LEMMA Searched ==
  ASSUME stream' = stream, begin' = begin, pc' = "scan",
         Before' >= begin, \A k \in Before' + 1 .. At' : stream[k] = STX,
         \A last \in begin .. At' - 1 : ~RunEndsAt(begin, last),
         ~RunEndsAt(begin, At'), Before' = begin \/ stream[Before'] # STX \/ Stuck'
  PROVE  Searching'
<1>1. Maximal'
  BY DEF Maximal
<1> QED  BY <1>1 DEF Searching, RunEndsAt

LEMMA EndsInStx == ASSUME NEW f, NEW last \in Int, RunEndsAt(f, last) PROVE stream[last] = STX
  BY DEF RunEndsAt, NumStx

LEMMA ScanOtherSafe == ASSUME IInv, ScanOther PROVE IInv'
<1> USE DEF IInv
<1> DEFINE first == IF reader = "COLA_B" THEN it ELSE it + 1
<1>1. /\ pc = "scan" /\ it <= Len(buffer) /\ buffer[it] # STX
      /\ buffer' = SubSeq(buffer, first, Len(buffer)) /\ it' = 1 /\ stxRecvLeft' = 4
      /\ UNCHANGED <<input, rd, pc, length, begin>>
  BY DEF ScanOther, FoundOther, NumStx
<1>2. /\ stxRecvLeft \in 1 .. 4 /\ Len(buffer) \in Nat /\ it \in Nat \ {0} /\ buffer \in Seq(Nat)
      /\ rd \in Nat /\ begin \in Nat /\ Len(buffer) <= rd - begin /\ Len(buffer) - it + 1 <= 4
  BY <1>1, InScan
<1>3. first \in {it, it + 1} /\ first \in Nat \ {0} /\ (first = it <=> reader = "COLA_B")
  BY <1>2
<1> HIDE DEF first
<1>4. /\ buffer' \in Seq(Nat) /\ Len(buffer') = Len(buffer) - first + 1
      /\ \A k \in 1 .. Len(buffer') : buffer'[k] = buffer[first + k - 1]
  <2>1. first \in 1 .. Len(buffer) + 1 /\ first \in Int /\ Len(buffer) \in Int
    BY <1>1, <1>2, <1>3
  <2>2. \A i \in first .. Len(buffer) : buffer[i] \in Nat
    BY <1>2, <2>1
  <2>3. /\ SubSeq(buffer, first, Len(buffer)) \in Seq(Nat)
        /\ Len(SubSeq(buffer, first, Len(buffer))) = IF first <= Len(buffer) THEN Len(buffer) - first + 1 ELSE 0
        /\ \A i \in 1 .. Len(buffer) - first + 1 : SubSeq(buffer, first, Len(buffer))[i] = buffer[first + i - 1]
    BY <2>1, <2>2, SubSeqProperties
  <2>4. buffer' \in Seq(Nat) /\ \A i \in 1 .. Len(buffer) - first + 1 : buffer'[i] = buffer[first + i - 1]
    BY <1>1, <2>3
  <2>5. Len(buffer') = Len(buffer) - first + 1
    <3>1. CASE first <= Len(buffer)
      BY <1>1, <2>3, <3>1
    <3>2. CASE first = Len(buffer) + 1
      BY <1>1, <2>1, <2>3, <3>2
    <3> QED  BY <2>1, <3>1, <3>2
  <2> QED  BY <2>4, <2>5
<1>5. Types'
  BY <1>1, <1>2, <1>4 DEF Types, NumStx, input
<1>6. Window'
  <2>1. \A k \in 1 .. Len(buffer') : buffer'[k] = stream[rd - Len(buffer') + k]
    <3> SUFFICES ASSUME NEW k \in 1 .. Len(buffer') PROVE buffer'[k] = stream[rd - Len(buffer') + k]
      OBVIOUS
    <3>1. first + k - 1 \in 1 .. Len(buffer)
      BY <1>1, <1>2, <1>3, <1>4
    <3>2. rd - Len(buffer) + (first + k - 1) = rd - Len(buffer') + k
      BY <1>2, <1>3, <1>4
    <3> QED  BY <1>1, <1>4, <3>1, <3>2 DEF Window
  <2>2. it' <= Len(buffer') + 1 /\ Len(buffer') <= rd - begin /\ Len(buffer') - it' + 1 <= stxRecvLeft'
    BY <1>1, <1>2, <1>3, <1>4
  <2> QED  BY <1>1, <2>1, <2>2 DEF Window, input
<1>7. At' = At + (first - it) /\ Before' = At' /\ At \in Nat /\ begin <= At
  <2>1. At = rd - Len(buffer) + it - 1 /\ At' = rd - Len(buffer') + 1 - 1
    BY <1>1 DEF At
  <2>2. At \in Nat /\ begin <= At /\ At' = At + (first - it) /\ At' \in Int
    BY <1>2, <1>3, <1>4, <2>1
  <2> QED  BY <1>1, <2>2 DEF Before, NumStx
<1>8. stream[At + 1] # STX
  <2>1. At + 1 = rd - Len(buffer) + it
    BY <1>1, <1>2, <1>7 DEF At
  <2>2. it \in 1 .. Len(buffer)
    BY <1>1, <1>2
  <2> QED  BY <1>1, <2>1, <2>2 DEF Window
<1>9. ~RunEndsAt(begin, At) /\ \A last \in begin .. At - 1 : ~RunEndsAt(begin, last)
  BY <1>1, <1>2, SMTT(30) DEF Searching
<1>10. ~RunEndsAt(begin, At + 1)
  BY <1>7, <1>8, EndsInStx
<1>11. ASSUME first = it PROVE Searching'
  <2>1. At' = At /\ Before' = At
    BY <1>2, <1>7, <1>11
  <2>2. Stuck'
    <3>1. Len(buffer') = Len(buffer) - it + 1 /\ 1 \in 1 .. Len(buffer')
      BY <1>1, <1>2, <1>4, <1>11
    <3>2. buffer'[1] = buffer[it]
      BY <1>2, <1>4, <1>11, <3>1
    <3> QED  BY <1>1, <3>1, <3>2 DEF Stuck
  <2>3. \A k \in At + 1 .. At : stream[k] = STX
    BY <1>7
  <2>4. stream' = stream /\ begin' = begin /\ pc' = "scan"
    BY <1>1 DEF input
  <2>5. /\ Before' >= begin /\ \A k \in Before' + 1 .. At' : stream[k] = STX
        /\ \A last \in begin .. At' - 1 : ~RunEndsAt(begin, last)
        /\ ~RunEndsAt(begin, At')
    BY <1>7, <1>9, <2>1, <2>3
  <2> QED  BY <2>2, <2>4, <2>5, Searched
<1>12. ASSUME first = it + 1 PROVE Searching'
  <2>1. At' = At + 1 /\ Before' = At + 1
    BY <1>2, <1>7, <1>12
  <2>2. \A last \in begin .. At : ~RunEndsAt(begin, last)
    <3>1. \A last \in begin .. At : last = At \/ last \in begin .. At - 1
      BY <1>2, <1>7
    <3> QED  BY <1>9, <3>1
  <2>3. \A k \in At + 1 + 1 .. At + 1 : stream[k] = STX
    BY <1>7
  <2>4. At + 1 >= begin
    BY <1>2, <1>7
  <2>5. stream' = stream /\ begin' = begin /\ pc' = "scan"
    BY <1>1 DEF input
  <2>6. /\ Before' >= begin /\ \A k \in Before' + 1 .. At' : stream[k] = STX
        /\ \A last \in begin .. At' - 1 : ~RunEndsAt(begin, last)
        /\ ~RunEndsAt(begin, At') /\ stream[Before'] # STX
    <3>1. Before' >= begin /\ \A k \in Before' + 1 .. At' : stream[k] = STX
      BY <2>1, <2>3, <2>4
    <3>2. \A last \in begin .. At' - 1 : ~RunEndsAt(begin, last)
      <4>1. At' - 1 = At
        BY <1>7, <2>1
      <4> QED  BY <2>2, <4>1
    <3>3. ~RunEndsAt(begin, At') /\ stream[Before'] # STX
      BY <1>8, <1>10, <2>1
    <3> QED  BY <3>1, <3>2, <3>3
  <2> QED  BY <2>5, <2>6, Searched
<1>13. Searching'
  BY <1>3, <1>11, <1>12
<1> QED  BY <1>1, <1>5, <1>6, <1>13 DEF SyncIsExact, FirstRun

LEMMA ScanDoneSafe == ASSUME IInv, ScanDone PROVE IInv'
<1> USE DEF IInv
<1>1. /\ pc = "scan" /\ it > Len(buffer) /\ buffer' = <<>>
      /\ pc' = IF stxRecvLeft > 0 THEN "stx" ELSE "length"
      /\ UNCHANGED <<input, rd, stxRecvLeft, it, length, begin>>
  BY DEF ScanDone
<1>2. Types'
  BY <1>1 DEF Types, input
<1>3. /\ it = Len(buffer) + 1 /\ ~Stuck /\ At = rd /\ rd \in Nat /\ begin \in Nat
      /\ stxRecvLeft \in 0 .. 4 /\ Before = rd - (4 - stxRecvLeft)
  <2>1. it = Len(buffer) + 1 /\ rd \in Nat /\ begin \in Nat /\ stxRecvLeft \in 0 .. 4 /\ Len(buffer) \in Nat
    BY <1>1, InScan
  <2>2. ~Stuck
    BY <1>1, <2>1 DEF Stuck
  <2>3. At = rd
    BY <1>1, <2>1 DEF At
  <2> QED  BY <2>1, <2>2, <2>3 DEF Before, NumStx
<1>4. CASE stxRecvLeft > 0
  <2>1. pc' = "stx" /\ At' = At /\ Before' = Before
    BY <1>1, <1>3, <1>4 DEF At, Before
  <2> QED  BY <1>1, <1>2, <1>3, <1>4, <2>1
           DEF Searching, Maximal, Window, SyncIsExact, FirstRun, RunEndsAt, input
<1>5. CASE stxRecvLeft = 0
  <2>1. pc' = "length"
    BY <1>1, <1>5
  <2>2. RunEndsAt(begin, rd) /\ \A last \in begin .. rd - 1 : ~RunEndsAt(begin, last)
    BY <1>1, <1>3, <1>5 DEF Searching, RunEndsAt, NumStx
  <2> QED  BY <1>1, <1>2, <2>1, <2>2 DEF Searching, Window, SyncIsExact, FirstRun, RunEndsAt, input
<1> QED  BY <1>3, <1>4, <1>5

\* What happens outside the search does not disturb it.
LEMMA OutsideSafe ==
  ASSUME IInv, Types', pc' \in {"idle", "length", "body"}, pc' = "length" => buffer' # <<>>
  PROVE  IInv'
  BY DEF IInv, Window, Searching, SyncIsExact, FirstRun

LEMMA WantedIs ==
  ASSUME Types
  PROVE  Wanted \in Nat /\ (pc = "length" => Wanted = 2) /\ Len(buffer) \in Nat
<1>1. ChecksumSize \in Nat /\ length \in Nat /\ Len(buffer) \in Nat
  BY ChecksumsAre DEF Types
<1> QED  BY <1>1 DEF Wanted

LEMMA ReadSomeSafe == ASSUME IInv, ReadSome PROVE IInv'
<1>1. Types
  BY DEF IInv
<1>2. PICK n \in 1 .. Wanted - Len(buffer) : Received(n) /\ buffer' = buffer \o Taken(n)
  BY DEF ReadSome
<1>3. n \in Nat \ {0}
  BY <1>1, <1>2, WantedIs
<1>4. /\ Taken(n) \in Seq(Nat) /\ Len(Taken(n)) = n
      /\ rd' = rd + n /\ rd' \in 0 .. Len(stream)
  BY <1>1, <1>2, <1>3, TakenIs
<1>5. buffer' \in Seq(Nat) /\ Len(buffer') = Len(buffer) + n
  BY <1>1, <1>2, <1>4, Joined DEF Types
<1>6. buffer' # <<>>
  BY <1>1, <1>3, <1>5 DEF Types
<1>7. Types'
  <2>1. begin \in 0 .. rd'
    <3>1. rd \in Nat /\ begin \in 0 .. rd
      BY <1>1 DEF Types
    <3> QED  BY <1>3, <1>4, <3>1
  <2>2. pc # "idle" /\ pc # "stx"
    BY DEF ReadSome
  <2> QED  BY <1>1, <1>4, <1>5, <2>1, <2>2 DEF Types, ReadSome, input
<1> QED  BY <1>6, <1>7, OutsideSafe DEF ReadSome

LEMMA LengthReadSafe == ASSUME IInv, LengthRead PROVE IInv'
<1>1. Types /\ pc = "length" /\ Len(buffer) = 2
  BY WantedIs DEF IInv, LengthRead, Complete
<1>2. length' \in Nat
  <2>1. buffer[1] \in Nat /\ buffer[2] \in Nat
    <3>1. buffer \in Seq(Nat) /\ 1 \in 1 .. Len(buffer) /\ 2 \in 1 .. Len(buffer)
      BY <1>1 DEF Types
    <3> QED  BY <3>1
  <2> QED  BY <2>1 DEF LengthRead, Base
<1>3. Types'
  BY <1>1, <1>2 DEF Types, LengthRead, input
<1> QED  BY <1>3, OutsideSafe DEF LengthRead

LEMMA EndSafe == ASSUME IInv, BodyRead \/ RecvFails PROVE IInv'
<1>1. pc' = "idle" /\ buffer' = <<>> /\ UNCHANGED <<input, rd, stxRecvLeft, it, length, begin>>
  BY DEF BodyRead, RecvFails
<1>2. Types'
  BY <1>1 DEF IInv, Types, input
<1> QED  BY <1>1, <1>2, OutsideSafe

LEMMA StepSafe == ASSUME IInv, [Next]_vars PROVE IInv'
<1>1. CASE Send \/ Call
  BY <1>1, SendSafe, CallSafe
<1>2. CASE Receiving
  BY <1>2, RecvStxSafe, ReadSomeSafe, EndSafe DEF Receiving
<1>3. CASE Computing
  BY <1>3, ScanStxSafe, ScanOtherSafe, ScanDoneSafe, LengthReadSafe, EndSafe DEF Computing
<1>4. CASE UNCHANGED vars
  BY <1>4 DEF vars, input, IInv, Types, Window, Searching, At, Before, Maximal, Stuck, SyncIsExact, FirstRun,
     RunEndsAt
<1> QED  BY <1>1, <1>2, <1>3, <1>4 DEF Next

-----------------------------------------------------------------------------
(* Theorems *)

\* However recv cuts the stream, the search of each of the three loops stops
\* right behind the first run of four STX that begins after the call did
\* (CoLaBProtocolHandler.cpp:44-76, CoLa2ProtocolHandler.cpp:42-71,
\* VisionaryDataStream.cpp:58-80).
THEOREM SyncsExactly == Spec => []SyncIsExact
<1>1. Init => IInv
  BY InitSafe
<1>2. IInv /\ [Next]_vars => IInv'
  BY StepSafe
<1>3. IInv => SyncIsExact
  BY DEF IInv
<1> QED  BY <1>1, <1>2, <1>3, PTL DEF Spec

-----------------------------------------------------------------------------
(* Where the messages lie *)

FrontLen == Len(Front[reader])

\* The stream is what is in front, and then one message after the other.
MessageAt(i) ==
  \E check \in Checksums :
    LET m == Message(payloads[i], check)
    IN  /\ ends[i + 1] = ends[i] + Len(m)
        /\ \A k \in 1 .. Len(m) : stream[ends[i] + k] = m[k]

Layout ==
  /\ ends \in Seq(Nat) /\ Len(ends) = Len(payloads) + 1
  /\ ends[1] = Len(junk) /\ ends[Len(ends)] = Len(stream)
  /\ \A i, j \in 1 .. Len(ends) : i < j => ends[i] < ends[j]
  /\ \A i \in 1 .. Len(payloads) : MessageAt(i)
  /\ junk \in Junk(reader) /\ \A k \in 1 .. Len(junk) : stream[k] = junk[k]

LEMMA LensAre ==
  ASSUME Types
  PROVE  /\ FrontLen = (IF reader = "COLA_B" THEN 0 ELSE IF reader = "COLA_2" THEN 2 ELSE 3)
         /\ ChecksumSize = (IF reader = "COLA_B" THEN 1 ELSE 0)
         /\ FrontLen \in Nat /\ ChecksumSize \in Nat
<1>1. reader \in {"COLA_B", "COLA_2", "STREAM"}
  BY DEF Types
<1>2. FrontLen = (IF reader = "COLA_B" THEN 0 ELSE IF reader = "COLA_2" THEN 2 ELSE 3)
  BY <1>1, FrontsAre DEF FrontLen
<1> QED  BY <1>2 DEF ChecksumSize

\* The cells of a message.
LEMMA MessageCells ==
  ASSUME Types, NEW p \in Seq(Nat), NEW check \in Checksums
  PROVE  LET m == Message(p, check)
         IN  /\ m \in Seq(Nat) /\ Len(m) = 6 + FrontLen + Len(p) + ChecksumSize
             /\ \A k \in 1 .. 4 : m[k] = STX
             /\ m[5] = 0 /\ m[6] = FrontLen + Len(p)
             /\ \A k \in 1 .. Len(p) : m[6 + FrontLen + k] = p[k]
<1> DEFINE front == Front[reader]
           body  == front \o p
           m     == Message(p, check)
<1>1. /\ front \in Seq(Nat) /\ check \in Seq(Nat) /\ Len(front) = FrontLen
      /\ Len(check) = ChecksumSize
  BY FrontsAre, ChecksumsAre DEF Types, FrontLen
<1>2. m = Framed(body, check)
  BY DEF Message
<1>3. body = front \o p
  OBVIOUS
<1> HIDE DEF front, body, m
<1>4. /\ body \in Seq(Nat) /\ Len(body) = FrontLen + Len(p)
      /\ FrontLen \in Nat /\ Len(p) \in Nat /\ ChecksumSize \in Nat
      /\ \A k \in 1 .. Len(p) : body[FrontLen + k] = p[k]
  BY <1>1, <1>3, Joined, LensAre
<1>5. /\ m \in Seq(Nat) /\ Len(m) = 6 + Len(body) + Len(check)
      /\ \A k \in 1 .. 4 : m[k] = STX
      /\ m[5] = 0 /\ m[6] = Len(body)
      /\ \A k \in 1 .. Len(body) : m[6 + k] = body[k]
  <2>1. body \in Seq(Nat) /\ check \in Seq(Nat)
    BY <1>1, <1>4
  <2>2. /\ Framed(body, check) \in Seq(Nat) /\ Len(Framed(body, check)) = 6 + Len(body) + Len(check)
        /\ \A k \in 1 .. 4 : Framed(body, check)[k] = STX
        /\ Framed(body, check)[5] = 0 /\ Framed(body, check)[6] = Len(body)
        /\ \A k \in 1 .. Len(body) : Framed(body, check)[6 + k] = body[k]
    BY <2>1, FramedIs
  <2> QED  BY <1>2, <2>2
<1>6. PICK f \in Nat, n \in Nat, c \in Nat : f = FrontLen /\ n = Len(p) /\ c = ChecksumSize
  BY <1>4
<1>7. Len(m) = 6 + FrontLen + Len(p) + ChecksumSize
  BY <1>1, <1>4, <1>5, <1>6
<1>8. ASSUME NEW k \in 1 .. n PROVE m[6 + f + k] = p[k]
  <2>1. f + k \in 1 .. f + n /\ 6 + (f + k) = 6 + f + k
    OBVIOUS
  <2>2. m[6 + (f + k)] = body[f + k] /\ body[f + k] = p[k]
    BY <1>4, <1>5, <1>6, <2>1
  <2> QED  BY <2>1, <2>2
<1>9. \A k \in 1 .. Len(p) : m[6 + FrontLen + k] = p[k]
  BY <1>6, <1>8
<1>10. m[6] = FrontLen + Len(p)
  BY <1>4, <1>5
<1> QED  BY <1>5, <1>7, <1>9, <1>10 DEF m

LEMMA RuntIs ==
  /\ Runt \in Seq(Nat) /\ Len(Runt) = 7
  /\ \A k \in 1 .. 4 : Runt[k] = STX
  /\ Runt[5] = 0 /\ Runt[6] = 1 /\ Runt[7] # STX
<1>1. <<Other>> \in Seq(Nat) /\ Len(<<Other>>) = 1 /\ <<>> \in Seq(Nat) /\ Len(<<>>) = 0
  BY DEF Other
<1> DEFINE body == <<Other>>
           none == <<>>
<1>2. Runt = Framed(body, none)
  BY DEF Runt
<1>4. body \in Seq(Nat) /\ Len(body) = 1 /\ none \in Seq(Nat) /\ Len(none) = 0
  BY <1>1
<1> HIDE DEF body, none
<1>5. /\ Framed(body, none) \in Seq(Nat) /\ Len(Framed(body, none)) = 6 + Len(body) + Len(none)
      /\ \A k \in 1 .. 4 : Framed(body, none)[k] = STX
      /\ Framed(body, none)[5] = 0 /\ Framed(body, none)[6] = Len(body)
  BY <1>4, FramedIs
<1>3. Runt[7] = Other
  BY DEF Runt, Framed
<1> QED  BY <1>2, <1>3, <1>4, <1>5 DEF Other, STX

LEMMA Monotone ==
  ASSUME Types, Layout
  PROVE  /\ Len(payloads) \in Nat /\ Len(ends) = Len(payloads) + 1 /\ Len(stream) \in Nat
         /\ \A i \in 1 .. Len(ends) : ends[i] \in Nat /\ Len(junk) <= ends[i] /\ ends[i] <= Len(stream)
         /\ \A i, j \in 1 .. Len(ends) : i <= j => ends[i] <= ends[j]
<1>1. /\ Len(payloads) \in Nat /\ Len(ends) = Len(payloads) + 1 /\ ends \in Seq(Nat)
      /\ Len(stream) \in Nat
  BY DEF Types, Layout
<1>2. \A i \in 1 .. Len(ends) : ends[i] \in Nat
  BY <1>1
<1>3. \A i, j \in 1 .. Len(ends) : i <= j => ends[i] <= ends[j]
  <2>1. \A i, j \in 1 .. Len(ends) : i <= j => i = j \/ i < j
    BY <1>1
  <2> QED  BY <1>2, <2>1 DEF Layout
<1>4. \A i \in 1 .. Len(ends) : Len(junk) <= ends[i] /\ ends[i] <= Len(stream)
  <2>1. 1 \in 1 .. Len(ends) /\ Len(ends) \in 1 .. Len(ends)
    BY <1>1
  <2>2. \A i \in 1 .. Len(ends) : 1 <= i /\ i <= Len(ends)
    BY <1>1
  <2> QED  BY <1>3, <2>1, <2>2 DEF Layout
<1> QED  BY <1>1, <1>2, <1>3, <1>4

\* What is known of message i and of its place in the stream.
LEMMA MessagePlace ==
  ASSUME Types, Layout, NEW i \in 1 .. Len(payloads)
  PROVE  /\ payloads[i] \in Seq(Nat) /\ Len(payloads[i]) \in Nat
         /\ ends[i] \in Nat /\ ends[i + 1] \in Nat /\ ends[i + 1] <= Len(stream)
         /\ ends[i + 1] = ends[i] + 6 + FrontLen + Len(payloads[i]) + ChecksumSize
         /\ \A k \in 1 .. 4 : stream[ends[i] + k] = STX
         /\ stream[ends[i] + 5] = 0 /\ stream[ends[i] + 6] = FrontLen + Len(payloads[i])
         /\ \A k \in 1 .. Len(payloads[i]) : stream[ends[i] + 6 + FrontLen + k] = payloads[i][k]
<1>1. /\ Len(payloads) \in Nat /\ Len(ends) = Len(payloads) + 1 /\ MessageAt(i)
      /\ i \in 1 .. Len(ends) /\ i + 1 \in 1 .. Len(ends) /\ i \in Nat
  <2>1. Len(payloads) \in Nat /\ Len(ends) = Len(payloads) + 1
    BY Monotone
  <2>2. MessageAt(i)
    BY DEF Layout
  <2> QED  BY <2>1, <2>2
<1>2. ends[i] \in Nat /\ ends[i + 1] \in Nat /\ ends[i + 1] <= Len(stream)
  <2>1. \A j \in 1 .. Len(ends) : ends[j] \in Nat /\ ends[j] <= Len(stream)
    BY Monotone
  <2> QED  BY <1>1, <2>1
<1>3. PICK check \in Checksums :
        LET m == Message(payloads[i], check)
        IN  /\ ends[i + 1] = ends[i] + Len(m)
            /\ \A k \in 1 .. Len(m) : stream[ends[i] + k] = m[k]
  BY <1>1 DEF MessageAt
<1> DEFINE p == payloads[i]
           m == Message(p, check)
           n == Len(p)
<1>4. p \in Seq(Nat) /\ n \in Nat /\ Len(p) = n
  BY DEF Types
<1>5. /\ ends[i + 1] = ends[i] + Len(m)
      /\ \A k \in 1 .. Len(m) : stream[ends[i] + k] = m[k]
  BY <1>3
<1> HIDE DEF p, n
<1>6. /\ Len(m) = 6 + FrontLen + Len(p) + ChecksumSize
      /\ \A k \in 1 .. 4 : m[k] = STX
      /\ m[5] = 0 /\ m[6] = FrontLen + Len(p)
      /\ \A k \in 1 .. Len(p) : m[6 + FrontLen + k] = p[k]
  BY <1>4, MessageCells
<1> HIDE DEF m
<1>7. PICK e \in Nat, f \in Nat, c \in Nat : e = ends[i] /\ f = FrontLen /\ c = ChecksumSize
  BY <1>2, LensAre
<1>8. /\ ends[i + 1] = e + 6 + f + n + c /\ Len(m) = 6 + f + n + c
      /\ \A k \in 1 .. 6 : k \in 1 .. Len(m)
      /\ \A k \in 1 .. n : 6 + f + k \in 1 .. Len(m)
  <2>1. Len(m) = 6 + f + n + c /\ ends[i + 1] = e + Len(m)
    BY <1>4, <1>5, <1>6, <1>7
  <2>2. \A a, b, d \in Nat :
          /\ e + (6 + a + b + d) = e + 6 + a + b + d
          /\ \A k \in 1 .. 6 : k \in 1 .. 6 + a + b + d
          /\ \A k \in 1 .. b : 6 + a + k \in 1 .. 6 + a + b + d
    OBVIOUS
  <2> QED  BY <1>4, <2>1, <2>2
<1>9. \A k \in 1 .. 4 : stream[ends[i] + k] = STX
  <2>1. \A k \in 1 .. 4 : k \in 1 .. 6
    OBVIOUS
  <2> QED  BY <1>5, <1>6, <1>8, <2>1
<1>10. stream[ends[i] + 5] = 0 /\ stream[ends[i] + 6] = FrontLen + Len(p)
  <2>1. 5 \in 1 .. 6 /\ 6 \in 1 .. 6
    OBVIOUS
  <2> QED  BY <1>5, <1>6, <1>8, <2>1
<1>11. \A k \in 1 .. Len(p) : stream[ends[i] + 6 + FrontLen + k] = p[k]
  <2> SUFFICES ASSUME NEW k \in 1 .. n PROVE stream[e + 6 + f + k] = p[k]
    BY <1>4, <1>7
  <2>1. 6 + f + k \in 1 .. Len(m) /\ e + (6 + f + k) = e + 6 + f + k
    BY <1>4, <1>8
  <2>2. stream[e + (6 + f + k)] = m[6 + f + k]
    BY <1>5, <1>7, <2>1
  <2>3. m[6 + f + k] = p[k]
    BY <1>4, <1>6, <1>7
  <2> QED  BY <2>1, <2>2, <2>3
<1> QED  BY <1>2, <1>4, <1>7, <1>8, <1>9, <1>10, <1>11 DEF p

\* A run begins with every message.
LEMMA RunAt ==
  ASSUME Types, Layout, NEW i \in 1 .. Len(payloads), NEW first \in Nat, first <= ends[i]
  PROVE  /\ RunEndsAt(first, ends[i] + 4) /\ ends[i] + 4 <= ends[i + 1]
         /\ ends[i + 1] <= Len(stream) /\ ends[i] \in Nat /\ ends[i + 1] \in Nat
<1>1. /\ ends[i] \in Nat /\ ends[i + 1] \in Nat /\ ends[i + 1] <= Len(stream)
      /\ ends[i + 1] = ends[i] + 6 + FrontLen + Len(payloads[i]) + ChecksumSize
      /\ Len(payloads[i]) \in Nat /\ FrontLen \in Nat /\ ChecksumSize \in Nat
      /\ \A k \in 1 .. 4 : stream[ends[i] + k] = STX
  BY MessagePlace, LensAre
<1>2. PICK e \in Nat, f \in Nat, n \in Nat, c \in Nat :
        e = ends[i] /\ f = FrontLen /\ n = Len(payloads[i]) /\ c = ChecksumSize
  BY <1>1
<1>3. ends[i] + 4 <= ends[i + 1]
  <2>1. ends[i + 1] = e + 6 + f + n + c
    BY <1>1, <1>2
  <2>2. e + 4 <= e + 6 + f + n + c
    OBVIOUS
  <2> QED  BY <1>2, <2>1, <2>2
<1>4. ASSUME NEW k \in e + 4 - 4 + 1 .. e + 4 PROVE stream[k] = STX
  <2>1. k - e \in 1 .. 4 /\ e + (k - e) = k
    OBVIOUS
  <2> QED  BY <1>1, <1>2, <2>1
<1>5. e + 4 - first >= 4
  BY <1>2
<1>6. RunEndsAt(first, e + 4)
  BY <1>4, <1>5 DEF RunEndsAt, NumStx
<1> QED  BY <1>1, <1>2, <1>3, <1>6

-----------------------------------------------------------------------------
(* What the calls have returned *)

Begun ==
  /\ failures \in Seq(Nat)
  /\ sending => rd = 0 /\ returned = <<>>

History ==
  /\ returned \in Seq([payload : Seq(Nat), end : Nat])
  /\ \A j, k \in 1 .. Len(returned) : j < k => returned[j].end < returned[k].end

\* What a call that returns message m adds to the history.
Entry(m) == [payload |-> payloads[m], end |-> ends[m + 1]]

\* Up to x, as many messages have ended as were returned, each of those among
\* them, and as many at most have begun as were returned or may have been lost.
Accounted(x) ==
  /\ returned # <<>> => Len(returned) <= Len(payloads) /\ ends[Len(returned) + 1] <= x
  /\ \A k \in 1 .. Len(returned) :
       \E m \in 1 .. Len(payloads) : returned[k] = Entry(m) /\ ends[m + 1] <= x
  /\ \A i \in 1 .. Len(payloads) : ends[i] < x => i <= Len(returned) + Len(failures)

\* The call has found message i, the first that begins after the call did, or
\* the message that is too short.
Target(i) == begin <= ends[i] /\ \A j \in 1 .. Len(payloads) : j < i => ends[j] < begin
InRunt == junk = Runt /\ reader # "COLA_B" /\ begin = 0

BufferIsLast == \A k \in 1 .. Len(buffer) : buffer[k] = stream[rd - Len(buffer) + k]

InLength ==
  /\ Len(buffer) <= 2 /\ BufferIsLast
  /\ \/ \E i \in 1 .. Len(payloads) : Target(i) /\ rd = ends[i] + 4 + Len(buffer)
     \/ InRunt /\ rd = 4 + Len(buffer)

InBody ==
  /\ Len(buffer) <= Wanted /\ BufferIsLast
  /\ \/ \E i \in 1 .. Len(payloads) :
          Target(i) /\ rd = ends[i] + 6 + Len(buffer) /\ length = FrontLen + Len(payloads[i])
     \/ InRunt /\ reader = "COLA_2" /\ rd = 6 + Len(buffer) /\ length = 1

Progress ==
  /\ pc = "idle" => Accounted(rd) /\ (AtEnd \/ LeadsToMessage(rd))
  /\ pc # "idle" => Accounted(begin) /\ LeadsToMessage(begin)
  /\ pc = "length" => InLength
  /\ pc = "body" => InBody

AInv == IInv /\ Layout /\ Begun /\ History /\ Progress

\* The inductive invariant: the calls are followed as long as none was misled.
CInv == IInv /\ Layout /\ Begun /\ (NotMisled => History /\ Progress)

LEMMA RuntMeans == ASSUME Layout, junk = Runt PROVE reader # "COLA_B"
<1> SUFFICES ASSUME reader = "COLA_B" PROVE FALSE
  OBVIOUS
<1>1. PICK n \in 0 .. MaxJunk : junk \in [1 .. n -> {STX, Other}]
  BY DEF Layout, Junk
<1>2. n \in Nat /\ Len(junk) = n
  BY <1>1
<1>3. Len(junk) = 7 /\ junk[5] = 0
  BY RuntIs
<1>4. junk[5] \in {STX, Other}
  BY <1>1, <1>2, <1>3
<1> QED  BY <1>3, <1>4 DEF STX, Other

\* A search that comes upon no other run finds the message in front of it.
LEMMA Leads ==
  ASSUME Types, Layout, NEW i \in 1 .. Len(payloads), NEW x \in Nat, x <= ends[i],
         \A last \in x .. ends[i] + 3 : ~RunEndsAt(x, last)
  PROVE  LeadsToMessage(x)
<1>1. RunEndsAt(x, ends[i] + 4) /\ ends[i] \in Nat /\ i \in Nat
  BY RunAt, MessagePlace, Monotone
<1>2. ASSUME NEW last \in x .. Len(stream), FirstRun(x, last) PROVE IsFront(last)
  <2>1. last \in Nat
    BY DEF Types
  <2>2. ~(ends[i] + 4 < last)
    <3>1. ends[i] + 4 < last => ends[i] + 4 \in x .. last - 1
      BY <1>1, <2>1
    <3> QED  BY <1>1, <1>2, <3>1 DEF FirstRun
  <2>3. ~(last <= ends[i] + 3)
    <3>1. last <= ends[i] + 3 => last \in x .. ends[i] + 3
      BY <1>1, <2>1
    <3> QED  BY <1>2, <3>1 DEF FirstRun
  <2>4. last = ends[i] + 4
    BY <1>1, <2>1, <2>2, <2>3
  <2>5. MessageEnd(i - 1) = ends[i]
    <3>1. i - 1 + 1 = i
      BY <1>1
    <3> QED  BY <3>1 DEF MessageEnd
  <2> QED  BY <2>4, <2>5 DEF IsFront, NumStx
<1> QED  BY <1>2 DEF LeadsToMessage

\* At the end of a message the next call finds the next one, whatever they hold.
LEMMA EndLeads ==
  ASSUME Types, Layout, NEW i \in 1 .. Len(ends)
  PROVE  ends[i] = Len(stream) \/ LeadsToMessage(ends[i])
<1>1. Len(ends) = Len(payloads) + 1 /\ Len(payloads) \in Nat /\ ends[i] \in Nat
  BY Monotone
<1>2. CASE i = Len(ends)
  BY <1>2 DEF Layout
<1>3. CASE i # Len(ends)
  <2>1. i \in 1 .. Len(payloads)
    BY <1>1, <1>3
  <2>2. \A last \in ends[i] .. ends[i] + 3 : ~RunEndsAt(ends[i], last)
    BY <1>1 DEF RunEndsAt, NumStx
  <2> QED  BY <1>1, <2>1, <2>2, Leads
<1> QED  BY <1>2, <1>3

\* So it does in the middle of the message that is too short.
LEMMA RuntLeads ==
  ASSUME Types, Layout, junk = Runt
  PROVE  LeadsToMessage(6)
<1>1. /\ ends[1] = 7 /\ stream[7] # STX /\ Len(ends) = Len(payloads) + 1 /\ ends[Len(ends)] = Len(stream)
      /\ Len(payloads) \in Nat /\ Len(stream) \in Nat
  <2>1. Len(junk) = 7 /\ 7 \in 1 .. 7 /\ junk[7] # STX
    BY RuntIs
  <2> QED  BY <2>1, Monotone DEF Layout
<1>2. CASE Len(payloads) = 0
  BY <1>1, <1>2 DEF LeadsToMessage, FirstRun, RunEndsAt, NumStx
<1>3. CASE Len(payloads) # 0
  <2>1. 1 \in 1 .. Len(payloads)
    BY <1>1, <1>3
  <2>2. ASSUME NEW last \in 6 .. 10, RunEndsAt(6, last) PROVE FALSE
    <3>1. last = 10
      BY <2>2 DEF RunEndsAt, NumStx
    <3>2. 7 \in 10 - 4 + 1 .. 10
      OBVIOUS
    <3> QED  BY <1>1, <2>2, <3>1, <3>2 DEF RunEndsAt, NumStx
  <2>3. ends[1] + 3 = 10 /\ 6 <= ends[1]
    BY <1>1
  <2> QED  BY <2>1, <2>2, <2>3, Leads
<1> QED  BY <1>2, <1>3

LEMMA InitAligned == Init => CInv
<1> SUFFICES ASSUME Init PROVE CInv
  OBVIOUS
<1>1. IInv
  BY InitSafe
<1>2. junk \in Seq(Nat) /\ Len(junk) \in Nat /\ payloads = <<>> /\ Len(payloads) = 0
      /\ stream = junk /\ ends = <<Len(junk)>>
  BY <1>1 DEF IInv, Types, Init
<1>3. Layout
  <2>1. ends \in Seq(Nat) /\ Len(ends) = 1 /\ ends[1] = Len(junk)
    BY <1>2
  <2>2. junk \in Junk(reader)
    BY DEF Init
  <2>3. \A i, j \in 1 .. 1 : ~(i < j)
    OBVIOUS
  <2> QED  BY <1>2, <2>1, <2>2, <2>3 DEF Layout
<1>4. returned = <<>> /\ Len(returned) = 0 /\ pc = "idle" /\ rd = 0 /\ failures = <<>>
  BY DEF Init
<1>5. Begun /\ History
  BY <1>4 DEF Begun, History
<1>6. ASSUME NotMisled PROVE Progress
  <2>1. Accounted(rd)
    BY <1>2, <1>4 DEF Accounted
  <2>2. LeadsToMessage(rd)
    BY <1>4, <1>6 DEF NotMisled
  <2> QED  BY <1>4, <2>1, <2>2 DEF Progress
<1> QED  BY <1>1, <1>3, <1>5, <1>6 DEF CInv

-----------------------------------------------------------------------------
(* Steps *)

LEMMA LayoutKept ==
  ASSUME Layout, UNCHANGED <<reader, junk, payloads, stream, ends>>
  PROVE  Layout'
<1>1. Checksums' = Checksums
  BY DEF Checksums, ChecksumSize
<1>2. ASSUME NEW p, NEW check PROVE Message(p, check)' = Message(p, check)
  BY DEF Message
<1>3. ASSUME NEW i, MessageAt(i) PROVE MessageAt(i)'
  BY <1>1, <1>2, <1>3 DEF MessageAt
<1> QED  BY <1>3 DEF Layout

\* A step that returns nothing.
LEMMA HistoryKept ==
  ASSUME History, UNCHANGED returned
  PROVE  History'
  BY DEF History

LEMMA LeadsKept ==
  ASSUME UNCHANGED <<junk, payloads, stream, ends>>, NEW x
  PROVE  LeadsToMessage(x)' <=> LeadsToMessage(x)
  BY DEF LeadsToMessage, FirstRun, RunEndsAt, IsFront, MessageEnd

LEMMA StillAccounted ==
  ASSUME UNCHANGED <<input, returned, failures, begin>>, Accounted(begin), LeadsToMessage(begin)
  PROVE  Accounted(begin)' /\ LeadsToMessage(begin)'
<1>1. UNCHANGED <<junk, payloads, stream, ends, returned, failures, begin>>
  BY DEF input
<1>2. Accounted(begin)'
  <2>1. \A m : Entry(m)' = Entry(m)
    BY <1>1 DEF Entry
  <2> QED  BY <1>1, <2>1 DEF Accounted
<1>3. LeadsToMessage(begin)'
  BY <1>1 DEF LeadsToMessage, FirstRun, RunEndsAt, IsFront, MessageEnd
<1> QED  BY <1>2, <1>3

\* Nothing has been returned while a call reads the message that is too short.
LEMMA RuntIsFirst ==
  ASSUME Types, Layout, History, Accounted(begin), InRunt
  PROVE  /\ returned = <<>> /\ Len(returned) = 0
         /\ \A k \in 1 .. 7 : stream[k] = Runt[k]
         /\ \A i \in 1 .. Len(payloads) : ends[i] \in Nat /\ 7 <= ends[i]
         /\ Len(stream) \in Nat /\ 7 <= Len(stream)
<1>1. Len(junk) = 7 /\ begin = 0 /\ \A k \in 1 .. 7 : stream[k] = Runt[k]
  BY RuntIs DEF InRunt, Layout
<1>2. /\ Len(payloads) \in Nat /\ Len(ends) = Len(payloads) + 1 /\ Len(stream) \in Nat
      /\ \A i \in 1 .. Len(ends) : ends[i] \in Nat /\ 7 <= ends[i] /\ ends[i] <= Len(stream)
  BY <1>1, Monotone
<1>3. \A i \in 1 .. Len(payloads) : i \in 1 .. Len(ends)
  BY <1>2
<1>4. 7 <= Len(stream)
  <2>1. 1 \in 1 .. Len(ends)
    BY <1>2
  <2>2. ends[1] \in Nat /\ 7 <= ends[1] /\ ends[1] <= Len(stream)
    BY <1>2, <2>1
  <2> QED  BY <1>2, <2>2
<1>5. returned = <<>>
  <2> SUFFICES ASSUME returned # <<>> PROVE FALSE
    OBVIOUS
  <2>1. Len(returned) <= Len(payloads) /\ ends[Len(returned) + 1] <= 0 /\ Len(returned) \in Nat
    BY <1>1 DEF Accounted, History
  <2>2. Len(returned) + 1 \in 1 .. Len(ends)
    BY <1>2, <2>1
  <2> QED  BY <1>2, <2>1, <2>2
<1> QED  BY <1>1, <1>2, <1>3, <1>4, <1>5

\* A call that has found message i has at most those it may have lost and those
\* that were returned in front of it.
LEMMA TargetCounts ==
  ASSUME Types, Layout, Begun, History, Accounted(begin), NEW i \in 1 .. Len(payloads), Target(i)
  PROVE  /\ i \in Nat /\ Len(returned) \in Nat /\ Len(failures) \in Nat
         /\ i <= Len(returned) + Len(failures) + 1
         /\ Len(returned) + 1 <= i
         /\ \A j \in 1 .. Len(payloads) : ends[j] < ends[i + 1] => j <= i
<1>1. /\ Len(payloads) \in Nat /\ Len(ends) = Len(payloads) + 1 /\ i \in Nat
      /\ Len(returned) \in Nat /\ Len(failures) \in Nat /\ i \in 1 .. Len(ends) /\ i + 1 \in 1 .. Len(ends)
      /\ begin \in Nat
  <2>1. Len(payloads) \in Nat /\ Len(ends) = Len(payloads) + 1
    BY Monotone
  <2>2. Len(returned) \in Nat /\ Len(failures) \in Nat /\ begin \in Nat
    <3>1. Len(returned) \in Nat
      BY DEF History
    <3>2. Len(failures) \in Nat
      BY DEF Begun
    <3>3. begin \in Nat
      BY DEF Types
    <3> QED  BY <3>1, <3>2, <3>3
  <2>3. i \in Nat /\ i \in 1 .. Len(ends) /\ i + 1 \in 1 .. Len(ends)
    BY <2>1
  <2> QED  BY <2>1, <2>2, <2>3
<1>2. \A j \in 1 .. Len(ends) : ends[j] \in Nat
  BY Monotone
<1>3. i <= Len(returned) + Len(failures) + 1
  <2>1. CASE i = 1
    BY <1>1, <2>1
  <2>2. CASE i # 1
    <3>1. i - 1 \in 1 .. Len(payloads) /\ i - 1 < i
      BY <1>1, <2>2
    <3>2. ends[i - 1] < begin
      BY <3>1 DEF Target
    <3>3. i - 1 <= Len(returned) + Len(failures)
      BY <3>1, <3>2 DEF Accounted
    <3> QED  BY <1>1, <3>3
  <2> QED  BY <2>1, <2>2
<1>4. Len(returned) + 1 <= i
  <2>1. CASE returned = <<>>
    BY <1>1, <2>1
  <2>2. CASE returned # <<>>
    <3> SUFFICES ASSUME i < Len(returned) + 1 PROVE FALSE
      BY <1>1
    <3>1. Len(returned) + 1 \in 1 .. Len(ends) /\ ends[Len(returned) + 1] <= begin
      BY <1>1, <2>2 DEF Accounted
    <3>2. ends[i] < ends[Len(returned) + 1]
      BY <1>1, <3>1 DEF Layout
    <3>3. begin <= ends[i]
      BY DEF Target
    <3> QED  BY <1>1, <1>2, <3>1, <3>2, <3>3
  <2> QED  BY <2>1, <2>2
<1>5. ASSUME NEW j \in 1 .. Len(payloads), ends[j] < ends[i + 1] PROVE j <= i
  <2> SUFFICES ASSUME i < j PROVE FALSE
    BY <1>1
  <2>1. j \in 1 .. Len(ends) /\ i + 1 <= j
    BY <1>1
  <2>2. ends[i + 1] <= ends[j]
    BY <1>1, <2>1, Monotone
  <2> QED  BY <1>1, <1>2, <1>5, <2>1, <2>2
<1> QED  BY <1>1, <1>3, <1>4, <1>5

\* Messages that the call has passed without finding them do not exist.
LEMMA NothingPassed ==
  ASSUME Types, Layout, NEW x \in Nat, x <= Len(stream),
         \A last \in begin .. x : ~RunEndsAt(begin, last),
         NEW j \in 1 .. Len(payloads), ends[j] + 4 <= x
  PROVE  ends[j] < begin
<1>1. begin \in Nat /\ ends[j] \in Nat
  BY MessagePlace DEF Types
<1> SUFFICES ASSUME begin <= ends[j] PROVE FALSE
  BY <1>1
<1>2. RunEndsAt(begin, ends[j] + 4)
  BY <1>1, RunAt
<1>3. ends[j] + 4 \in begin .. x
  BY <1>1
<1> QED  BY <1>2, <1>3

LEMMA SearchFinds ==
  ASSUME Types, Layout, FirstRun(begin, rd), LeadsToMessage(begin)
  PROVE  \/ \E i \in 1 .. Len(payloads) : Target(i) /\ rd = ends[i] + 4
         \/ InRunt /\ rd = 4
<1>1. begin \in Nat /\ rd \in Nat /\ rd <= Len(stream) /\ rd - begin >= 4 /\ Len(stream) \in Nat
  BY DEF Types, FirstRun, RunEndsAt, NumStx
<1>2. CASE \E i \in 1 .. Len(payloads) : rd = ends[i] + 4
  <2>1. PICK i \in 1 .. Len(payloads) : rd = ends[i] + 4
    BY <1>2
  <2>2. ends[i] \in Nat /\ begin <= ends[i]
    <3>1. ends[i] \in Nat
      BY MessagePlace
    <3> QED  BY <1>1, <2>1, <3>1
  <2>3. ASSUME NEW j \in 1 .. Len(payloads), j < i PROVE ends[j] < begin
    <3>1. /\ ends[j] \in Nat /\ ends[j + 1] \in Nat /\ ends[j] + 4 <= ends[j + 1]
      <4>1. ends[j] \in Nat
        BY MessagePlace
      <4>2. ends[j] <= ends[j]
        BY <4>1
      <4> QED  BY <4>1, <4>2, RunAt
    <3>2. j + 1 \in 1 .. Len(ends) /\ i \in 1 .. Len(ends) /\ j + 1 <= i
      BY <2>3, Monotone
    <3>3. ends[j + 1] <= ends[i]
      BY <3>2, Monotone
    <3>4. ends[j] + 4 <= rd - 1 /\ rd - 1 \in Nat /\ rd - 1 <= Len(stream)
      <4>1. PICK a \in Nat, b \in Nat, c \in Nat : a = ends[j] /\ b = ends[j + 1] /\ c = ends[i]
        BY <2>2, <3>1
      <4>2. a + 4 <= b /\ b <= c /\ rd = c + 4
        BY <2>1, <3>1, <3>3, <4>1
      <4>3. \A l \in Nat : a + 4 <= b /\ b <= c /\ c + 4 <= l =>
              a + 4 <= c + 4 - 1 /\ c + 4 - 1 \in Nat /\ c + 4 - 1 <= l
        OBVIOUS
      <4>4. c + 4 <= Len(stream) /\ Len(stream) \in Nat
        BY <1>1, <4>2
      <4>5. a + 4 <= c + 4 - 1 /\ c + 4 - 1 \in Nat /\ c + 4 - 1 <= Len(stream)
        BY <4>2, <4>3, <4>4
      <4>6. rd = c + 4 /\ ends[j] = a
        BY <4>1, <4>2
      <4> QED  BY <4>5, <4>6
    <3>5. \A last \in begin .. rd - 1 : ~RunEndsAt(begin, last)
      BY DEF FirstRun
    <3> QED  BY <3>4, <3>5, NothingPassed
  <2>4. Target(i)
    BY <2>2, <2>3 DEF Target
  <2> QED  BY <2>1, <2>4
<1>3. CASE junk = Runt /\ rd = 4
  BY <1>1, <1>3, RuntMeans DEF InRunt
<1>4. IsFront(rd)
  <2>1. rd \in begin .. Len(stream)
    BY DEF Types
  <2> QED  BY <2>1 DEF LeadsToMessage
<1>5. ASSUME NEW i \in 1 .. Len(payloads) PROVE MessageEnd(i - 1) = ends[i]
  <2>1. i \in Nat
    BY Monotone
  <2>2. i - 1 + 1 = i
    BY <2>1
  <2> QED  BY <2>2 DEF MessageEnd
<1> QED  BY <1>2, <1>3, <1>4, <1>5 DEF IsFront, NumStx

LEMMA CallAligned == ASSUME AInv, Call PROVE History' /\ Progress'
<1>1. /\ UNCHANGED <<junk, payloads, stream, ends, returned, failures, rd>>
      /\ ~AtEnd /\ pc = "idle" /\ pc' = "stx" /\ begin' = rd
      /\ History /\ Accounted(rd) /\ LeadsToMessage(rd)
  BY DEF Call, AInv, Progress
<1>2. Accounted(begin)'
  BY <1>1 DEF Accounted, Entry
<1>3. LeadsToMessage(begin)'
  BY <1>1 DEF LeadsToMessage, FirstRun, RunEndsAt, IsFront, MessageEnd
<1>4. History'
  BY <1>1, HistoryKept
<1> QED  BY <1>1, <1>2, <1>3, <1>4 DEF Progress

LEMMA SearchAligned ==
  ASSUME Progress, UNCHANGED <<input, returned, failures, begin>>, pc \in {"stx", "scan"},
         pc' \in {"stx", "scan"}
  PROVE  Progress'
<1>1. Accounted(begin)' /\ LeadsToMessage(begin)'
  BY StillAccounted DEF Progress
<1> QED  BY <1>1 DEF Progress

LEMMA ScanDoneAligned == ASSUME AInv, IInv', ScanDone PROVE Progress'
<1>1. /\ pc = "scan" /\ buffer' = <<>> /\ pc' = IF stxRecvLeft > 0 THEN "stx" ELSE "length"
      /\ UNCHANGED <<input, rd, returned, begin, failures>>
      /\ Types /\ Layout /\ Progress
  BY DEF ScanDone, AInv, IInv
<1>2. CASE pc' = "stx"
  BY <1>1, <1>2, SearchAligned
<1>3. CASE pc' = "length"
  <2>1. Accounted(begin)' /\ LeadsToMessage(begin)'
    BY <1>1, StillAccounted DEF Progress
  <2>2. FirstRun(begin, rd) /\ LeadsToMessage(begin)
    <3>1. FirstRun(begin, rd)'
      BY <1>1, <1>3 DEF IInv, SyncIsExact
    <3> QED  BY <1>1, <3>1 DEF FirstRun, RunEndsAt, input, Progress
  <2>3. \/ \E i \in 1 .. Len(payloads) : Target(i) /\ rd = ends[i] + 4
        \/ InRunt /\ rd = 4
    BY <1>1, <2>2, SearchFinds
  <2>4. Len(buffer') = 0 /\ BufferIsLast'
    BY <1>1 DEF BufferIsLast
  <2>5. UNCHANGED <<reader, junk, payloads, ends, begin, rd>>
    BY <1>1 DEF input
  <2>6. ASSUME NEW i \in 1 .. Len(payloads), Target(i), rd = ends[i] + 4 PROVE InLength'
    <3>1. Target(i)'
      BY <2>5, <2>6 DEF Target
    <3>2. rd' = ends'[i] + 4 + Len(buffer')
      BY <2>4, <2>5, <2>6, MessagePlace, <1>1
    <3> QED  BY <2>4, <2>5, <3>1, <3>2 DEF InLength
  <2>7. ASSUME InRunt, rd = 4 PROVE InLength'
    BY <2>4, <2>5, <2>7 DEF InLength, InRunt
  <2>8. InLength'
    BY <2>3, <2>6, <2>7
  <2> QED  BY <1>3, <2>1, <2>8 DEF Progress
<1> QED  BY <1>1, <1>2, <1>3

\* In a call that has found a message, the stream does not end.
LEMMA WithinMessage ==
  ASSUME AInv, pc \in {"length", "body"}, Len(buffer) < Wanted
  PROVE  /\ rd < Len(stream)
         /\ \/ \E i \in 1 .. Len(payloads) : Target(i) /\ rd < ends[i + 1]
            \/ InRunt /\ rd < 7
<1>1. /\ Types /\ Layout /\ History /\ Accounted(begin) /\ Len(buffer) \in Nat
      /\ rd \in Nat /\ Len(stream) \in Nat /\ length \in Nat
      /\ FrontLen \in Nat /\ ChecksumSize \in Nat
  BY LensAre DEF AInv, IInv, Progress, Types
<1>2. /\ pc = "length" => InLength /\ Wanted = 2
      /\ pc = "body" => InBody /\ Wanted = length + ChecksumSize
  BY <1>1, WantedIs DEF AInv, Progress, Wanted
<1>3. ASSUME NEW i \in 1 .. Len(payloads), Target(i),
             \/ rd = ends[i] + 4 + Len(buffer) /\ Len(buffer) < 2
             \/ rd = ends[i] + 6 + Len(buffer) /\ Len(buffer) < FrontLen + Len(payloads[i]) + ChecksumSize
      PROVE  rd < ends[i + 1] /\ rd < Len(stream)
  <2>1. /\ ends[i] \in Nat /\ ends[i + 1] <= Len(stream) /\ Len(payloads[i]) \in Nat
        /\ ends[i + 1] = ends[i] + 6 + FrontLen + Len(payloads[i]) + ChecksumSize
    BY <1>1, MessagePlace
  <2>2. PICK e \in Nat, b \in Nat, f \in Nat, n \in Nat, c \in Nat :
          e = ends[i] /\ b = Len(buffer) /\ f = FrontLen /\ n = Len(payloads[i]) /\ c = ChecksumSize
    BY <1>1, <2>1
  <2>3. \/ rd = e + 4 + b /\ b < 2
        \/ rd = e + 6 + b /\ b < f + n + c
    BY <1>3, <2>2
  <2>4. rd < e + 6 + f + n + c
    BY <2>3
  <2>5. ends[i + 1] = e + 6 + f + n + c
    BY <2>1, <2>2
  <2>6. e + 6 + f + n + c \in Nat
    OBVIOUS
  <2>7. rd < ends[i + 1]
    BY <2>4, <2>5
  <2> QED  BY <1>1, <2>1, <2>7, SMTT(30)
<1>4. ASSUME InRunt PROVE 7 <= Len(stream)
  BY <1>1, <1>4, RuntIsFirst
<1>5. CASE pc = "length"
  <2>1. CASE \E i \in 1 .. Len(payloads) : Target(i) /\ rd = ends[i] + 4 + Len(buffer)
    BY <1>2, <1>3, <1>5, <2>1
  <2>2. CASE InRunt /\ rd = 4 + Len(buffer)
    BY <1>1, <1>2, <1>4, <1>5, <2>2
  <2> QED  BY <1>2, <1>5, <2>1, <2>2 DEF InLength
<1>6. CASE pc = "body"
  <2>1. ASSUME NEW i \in 1 .. Len(payloads),
               Target(i) /\ rd = ends[i] + 6 + Len(buffer) /\ length = FrontLen + Len(payloads[i])
        PROVE  rd < ends[i + 1] /\ rd < Len(stream)
    <3>1. Len(buffer) < FrontLen + Len(payloads[i]) + ChecksumSize
      BY <1>2, <1>6, <2>1
    <3> QED  BY <1>3, <2>1, <3>1
  <2>2. CASE InRunt /\ reader = "COLA_2" /\ rd = 6 + Len(buffer) /\ length = 1
    <3>1. ChecksumSize = 0
      BY <1>1, <2>2, LensAre
    <3> QED  BY <1>1, <1>2, <1>4, <1>6, <2>2, <3>1
  <2> QED  BY <1>2, <1>6, <2>1, <2>2 DEF InBody
<1> QED  BY <1>5, <1>6

\* A failed receive costs the message it falls into, and none at the end of the stream.
LEMMA RecvFailsAligned == ASSUME AInv, RecvFails, NotMisled' PROVE Progress'
<1>1. /\ pc' = "idle" /\ UNCHANGED <<input, rd, returned>> /\ failures \in Seq(Nat)
      /\ failures' = IF AtEnd THEN failures ELSE Append(failures, rd)
      /\ pc = "stx" \/ (pc \in {"length", "body"} /\ Len(buffer) < Wanted)
  BY DEF RecvFails, AInv, Begun
<1>2. /\ Types /\ Layout /\ Begun /\ History /\ Accounted(begin) /\ rd \in Nat /\ begin \in Nat /\ begin <= rd
      /\ rd <= Len(stream) /\ Len(stream) \in Nat /\ Len(returned) \in Nat
  <2>1. Types /\ Layout /\ Begun /\ History /\ Accounted(begin)
    BY <1>1 DEF AInv, IInv, Progress
  <2>2. /\ rd \in Nat /\ begin \in Nat /\ begin <= rd /\ rd <= Len(stream) /\ Len(stream) \in Nat
        /\ Len(returned) \in Nat
    BY <2>1 DEF Types, History
  <2> QED  BY <2>1, <2>2
<1>3. UNCHANGED <<payloads, ends, rd, returned>>
  BY <1>1 DEF input
<1>4. \A i \in 1 .. Len(ends) : ends[i] \in Nat
  BY <1>2, Monotone
<1>9. Len(failures) \in Nat /\ Len(failures') = IF AtEnd THEN Len(failures) ELSE Len(failures) + 1
  BY <1>1, <1>2
<1>5. ASSUME NEW j \in 1 .. Len(payloads), ends[j] < rd
      PROVE  j <= Len(returned) + Len(failures')
  <2>1. j \in Nat /\ ends[j] \in Nat /\ Len(payloads) \in Nat
    BY <1>2, Monotone, MessagePlace
  <2>2. CASE ends[j] < begin
    <3>1. j <= Len(returned) + Len(failures)
      BY <1>2, <2>2 DEF Accounted
    <3>2. Len(failures') \in {Len(failures), Len(failures) + 1}
      BY <1>1, <1>9
    <3> QED  BY <1>1, <1>2, <1>9, <2>1, <3>1, <3>2
  <2>3. CASE pc = "stx" /\ ~(ends[j] < begin)
    <3>1. \A last \in begin .. rd : ~RunEndsAt(begin, last)
      <4>1. At = rd /\ stxRecvLeft > 0
        BY <2>3 DEF At, AInv, IInv, Searching
      <4>2. (\A last \in begin .. rd - 1 : ~RunEndsAt(begin, last)) /\ ~RunEndsAt(begin, rd)
        BY <2>3, <4>1 DEF AInv, IInv, Searching
      <4>3. \A last \in begin .. rd : last = rd \/ last \in begin .. rd - 1
        BY <1>2
      <4> QED  BY <4>2, <4>3
    <3>2. ~AtEnd
      <4> SUFFICES ASSUME rd = Len(stream) PROVE FALSE
        BY DEF AtEnd
      <4>1. ends[j] + 4 <= rd
        <5>1. begin <= ends[j]
          BY <1>2, <2>1, <2>3
        <5>2. PICK a \in Nat, b \in Nat : a = ends[j] /\ b = ends[j + 1] /\ a + 4 <= b /\ b <= rd
          BY <1>2, <5>1, RunAt
        <5> QED  BY <1>2, <5>2
      <4> QED  BY <1>2, <2>3, <3>1, <4>1, NothingPassed
    <3>3. CASE j = 1
      BY <1>1, <1>2, <1>9, <3>2, <3>3
    <3>4. CASE j # 1
      <4>1. /\ j - 1 \in 1 .. Len(payloads) /\ j - 1 + 1 = j
        BY <2>1, <3>4
      <4>2. ends[j - 1] + 4 <= rd
        <5>1. PICK a \in Nat, b \in Nat : a = ends[j - 1] /\ b = ends[j - 1 + 1] /\ a + 4 <= b
          <6>1. ends[j - 1] \in Nat
            BY <1>2, <4>1, MessagePlace
          <6>2. ends[j - 1] + 4 <= ends[j - 1 + 1] /\ ends[j - 1 + 1] \in Nat
            BY <1>2, <4>1, <6>1, RunAt
          <6> QED  BY <6>1, <6>2
        <5>2. b <= rd
          BY <1>2, <1>5, <2>1, <4>1, <5>1
        <5> QED  BY <1>2, <5>1, <5>2, SMTT(30)
      <4>3. ends[j - 1] < begin
        BY <1>2, <3>1, <4>1, <4>2, NothingPassed
      <4>4. j - 1 <= Len(returned) + Len(failures)
        BY <1>2, <4>1, <4>3 DEF Accounted
      <4> QED  BY <1>1, <1>2, <1>9, <2>1, <3>2, <4>4
    <3> QED  BY <3>3, <3>4
  <2>4. CASE pc \in {"length", "body"} /\ Len(buffer) < Wanted
    <3>1. ~AtEnd
      BY <1>2, <2>4, WithinMessage DEF AtEnd
    <3>2. CASE \E i \in 1 .. Len(payloads) : Target(i) /\ rd < ends[i + 1]
      <4>1. PICK i \in 1 .. Len(payloads) : Target(i) /\ rd < ends[i + 1]
        BY <3>2
      <4>2. /\ i \in Nat /\ i <= Len(returned) + Len(failures) + 1
            /\ ends[j] < ends[i + 1] => j <= i
        BY <1>2, <4>1, TargetCounts
      <4>3. ends[i + 1] \in Nat
        BY <1>2, MessagePlace
      <4> QED  BY <1>2, <1>5, <1>9, <2>1, <3>1, <4>1, <4>2, <4>3, SMTT(20)
    <3>3. CASE InRunt /\ rd < 7
      BY <1>2, <1>5, <2>1, <3>3, RuntIsFirst, SMTT(20)
    <3> QED  BY <2>4, <3>2, <3>3, WithinMessage
  <2> QED  BY <1>1, <2>2, <2>3, <2>4
<1>6. ASSUME NEW k \in 1 .. Len(returned)
      PROVE  \E m \in 1 .. Len(payloads) : returned[k] = Entry(m) /\ ends[m + 1] <= rd
  <2>1. PICK m \in 1 .. Len(payloads) : returned[k] = Entry(m) /\ ends[m + 1] <= begin
    BY <1>2 DEF Accounted
  <2>2. ends[m + 1] \in Nat
    BY <1>2, MessagePlace
  <2> QED  BY <1>2, <2>1, <2>2
<1>7. returned # <<>> => Len(returned) <= Len(payloads) /\ ends[Len(returned) + 1] <= rd
  <2> SUFFICES ASSUME returned # <<>>
               PROVE  Len(returned) <= Len(payloads) /\ ends[Len(returned) + 1] <= rd
    OBVIOUS
  <2>1. Len(returned) <= Len(payloads) /\ ends[Len(returned) + 1] <= begin
    BY <1>2 DEF Accounted
  <2>2. Len(returned) + 1 \in 1 .. Len(ends)
    BY <1>2, <2>1, Monotone
  <2> QED  BY <1>2, <1>4, <2>1, <2>2
<1>8. Accounted(rd)'
  BY <1>3, <1>5, <1>6, <1>7 DEF Accounted, Entry
<1>10. (AtEnd \/ LeadsToMessage(rd))'
  <2>1. CASE AtEnd
    BY <1>1, <2>1 DEF AtEnd, input
  <2>2. CASE ~AtEnd
    <3>1. PICK k \in 1 .. Len(failures') : failures'[k] = rd
      <4>1. Len(failures') \in 1 .. Len(failures') /\ failures'[Len(failures')] = rd
        BY <1>1, <1>2, <1>9, <2>2
      <4> QED  BY <4>1
    <3>2. LeadsToMessage(failures[k])'
      BY DEF NotMisled
    <3> QED  BY <1>3, <3>1, <3>2 DEF LeadsToMessage, FirstRun, RunEndsAt, IsFront, MessageEnd
  <2> QED  BY <2>1, <2>2
<1> QED  BY <1>1, <1>8, <1>10 DEF Progress

LEMMA ReadSomeAligned == ASSUME AInv, IInv', ReadSome PROVE Progress'
<1>1. Types /\ Layout
  BY DEF AInv, IInv
<1>2. PICK n \in 1 .. Wanted - Len(buffer) : Received(n) /\ buffer' = buffer \o Taken(n)
  BY DEF ReadSome
<1>3. /\ pc \in {"length", "body"} /\ pc' = pc
      /\ UNCHANGED <<input, length, returned, begin, failures>>
  BY DEF ReadSome
<1>4. n \in Nat \ {0} /\ Wanted \in Nat /\ Len(buffer) \in Nat /\ n <= Wanted - Len(buffer)
  BY <1>1, <1>2, WantedIs
<1>5. /\ Taken(n) \in Seq(Nat) /\ Len(Taken(n)) = n /\ rd' = rd + n /\ rd \in Nat
      /\ \A k \in 1 .. n : Taken(n)[k] = stream[rd + k]
  <2>1. n \in Nat /\ rd \in Nat
    BY <1>1, <1>4 DEF Types
  <2> QED  BY <1>1, <1>2, <2>1, TakenIs
<1>6. /\ Len(buffer') = Len(buffer) + n
      /\ \A k \in 1 .. Len(buffer) : buffer'[k] = buffer[k]
      /\ \A k \in 1 .. n : buffer'[Len(buffer) + k] = Taken(n)[k]
  <2> DEFINE t == Taken(n)
  <2>1. buffer \in Seq(Nat) /\ t \in Seq(Nat) /\ Len(t) = n
    BY <1>1, <1>5 DEF Types
  <2>2. buffer' = buffer \o t
    BY <1>2
  <2>3. t = Taken(n)
    OBVIOUS
  <2> HIDE DEF t
  <2>4. /\ Len(buffer \o t) = Len(buffer) + Len(t)
        /\ \A k \in 1 .. Len(buffer) : (buffer \o t)[k] = buffer[k]
        /\ \A k \in 1 .. Len(t) : (buffer \o t)[Len(buffer) + k] = t[k]
    BY <2>1, Joined
  <2> QED  BY <2>1, <2>2, <2>3, <2>4
<1>7. Wanted' = Wanted /\ UNCHANGED <<reader, junk, payloads, stream, ends, begin, length>>
  BY <1>3 DEF Wanted, input
<1>8. Accounted(begin)' /\ LeadsToMessage(begin)'
  BY <1>3, StillAccounted DEF AInv, Progress
<1>9. BufferIsLast /\ Len(buffer') <= Wanted
  BY <1>3, <1>4, <1>6 DEF AInv, Progress, InLength, InBody
<1>10. BufferIsLast'
  <2> SUFFICES ASSUME NEW k \in 1 .. Len(buffer')
               PROVE  buffer'[k] = stream[rd' - Len(buffer') + k]
    BY <1>7 DEF BufferIsLast
  <2>1. rd' - Len(buffer') = rd - Len(buffer) /\ k \in Nat
    BY <1>4, <1>5, <1>6
  <2>2. CASE k \in 1 .. Len(buffer)
    BY <1>6, <1>9, <2>1, <2>2 DEF BufferIsLast
  <2>3. CASE k \notin 1 .. Len(buffer)
    <3>1. k - Len(buffer) \in 1 .. n
      BY <1>4, <1>6, <2>3
    <3>2. Len(buffer) + (k - Len(buffer)) = k /\ rd + (k - Len(buffer)) = rd - Len(buffer) + k
      BY <1>4, <1>5, <2>1
    <3>3. buffer'[Len(buffer) + (k - Len(buffer))] = stream[rd + (k - Len(buffer))]
      BY <1>5, <1>6, <3>1
    <3>4. buffer'[k] = stream[rd - Len(buffer) + k]
      BY <3>2, <3>3
    <3> QED  BY <2>1, <3>4
  <2> QED  BY <2>2, <2>3
<1>11. \A i \in 1 .. Len(payloads) : Target(i) => Target(i)'
  BY <1>7 DEF Target
<1>12. InRunt => InRunt'
  BY <1>7 DEF InRunt
<1>13. \A a \in Nat : rd = a + Len(buffer) => rd' = a + Len(buffer')
  BY <1>4, <1>5, <1>6
<1>14. ASSUME pc = "length" PROVE InLength'
  <2>1. InLength /\ Wanted = 2
    BY <1>1, <1>14, WantedIs DEF AInv, Progress
  <2>2. ASSUME NEW i \in 1 .. Len(payloads), Target(i), rd = ends[i] + 4 + Len(buffer)
        PROVE  Target(i)' /\ rd' = ends'[i] + 4 + Len(buffer')
    <3>1. ends[i] + 4 \in Nat
      <4>1. ends[i] \in Nat
        BY <1>1, MessagePlace
      <4> QED  BY <4>1
    <3> QED  BY <1>7, <1>11, <1>13, <2>2, <3>1
  <2>3. CASE \E i \in 1 .. Len(payloads) : Target(i) /\ rd = ends[i] + 4 + Len(buffer)
    BY <1>7, <1>9, <1>10, <2>1, <2>2, <2>3 DEF InLength
  <2>4. CASE InRunt /\ rd = 4 + Len(buffer)
    BY <1>9, <1>10, <1>12, <1>13, <2>1, <2>4 DEF InLength
  <2> QED  BY <2>1, <2>3, <2>4 DEF InLength
<1>15. ASSUME pc = "body" PROVE InBody'
  <2>1. InBody
    BY <1>15 DEF AInv, Progress
  <2>2. ASSUME NEW i \in 1 .. Len(payloads),
               Target(i) /\ rd = ends[i] + 6 + Len(buffer) /\ length = FrontLen + Len(payloads[i])
        PROVE  (Target(i) /\ rd = ends[i] + 6 + Len(buffer) /\ length = FrontLen + Len(payloads[i]))'
    <3>1. ends[i] + 6 \in Nat
      <4>1. ends[i] \in Nat
        BY <1>1, MessagePlace
      <4> QED  BY <4>1
    <3>2. Target(i)' /\ rd' = ends'[i] + 6 + Len(buffer')
      BY <1>7, <1>11, <1>13, <2>2, <3>1
    <3> QED  BY <1>7, <2>2, <3>2 DEF FrontLen
  <2>3. CASE \E i \in 1 .. Len(payloads) :
               Target(i) /\ rd = ends[i] + 6 + Len(buffer) /\ length = FrontLen + Len(payloads[i])
    <3>1. PICK i \in 1 .. Len(payloads') :
                 (Target(i) /\ rd = ends[i] + 6 + Len(buffer) /\ length = FrontLen + Len(payloads[i]))'
      BY <1>7, <2>2, <2>3
    <3> QED  BY <1>7, <1>9, <1>10, <3>1 DEF InBody
  <2>4. CASE InRunt /\ reader = "COLA_2" /\ rd = 6 + Len(buffer) /\ length = 1
    BY <1>7, <1>9, <1>10, <1>12, <1>13, <2>4 DEF InBody
  <2> QED  BY <2>1, <2>3, <2>4 DEF InBody
<1> QED  BY <1>3, <1>8, <1>14, <1>15 DEF Progress

LEMMA LengthReadAligned == ASSUME AInv, IInv', LengthRead PROVE Progress'
<1>1. /\ Types /\ Layout /\ History /\ pc = "length" /\ Len(buffer) = 2
      /\ length' = buffer[1] * Base + buffer[2] /\ buffer' = <<>>
      /\ pc' = IF reader = "STREAM" /\ length' < 3 THEN "idle" ELSE "body"
      /\ UNCHANGED <<input, rd, returned, begin, failures>>
  BY WantedIs DEF AInv, IInv, LengthRead, Complete
<1>2. Accounted(begin) /\ LeadsToMessage(begin) /\ InLength /\ rd \in Nat
  BY <1>1 DEF AInv, Progress, Types
<1>3. buffer[1] = stream[rd - 1] /\ buffer[2] = stream[rd]
  <2>1. rd - 2 + 1 = rd - 1 /\ rd - 2 + 2 = rd /\ 1 \in 1 .. Len(buffer) /\ 2 \in 1 .. Len(buffer)
    BY <1>1, <1>2
  <2> QED  BY <1>1, <1>2, <2>1 DEF InLength, BufferIsLast
<1>4. Len(buffer') = 0 /\ 0 <= Wanted' /\ BufferIsLast'
  <2>1. ChecksumSize' \in Nat /\ length' \in Nat
    <3>1. Types'
      BY DEF IInv
    <3>2. length' \in Nat
      BY <3>1 DEF Types
    <3>3. ChecksumSize' \in Nat
      BY DEF ChecksumSize
    <3> QED  BY <3>2, <3>3
  <2>2. 0 <= Wanted'
    <3>1. CASE pc' = "idle"
      <4>1. Wanted' = 0
        BY <3>1 DEF Wanted
      <4> QED  BY <4>1
    <3>2. CASE pc' = "body"
      <4>1. Wanted' = length' + ChecksumSize'
        BY <3>2 DEF Wanted
      <4>2. PICK l \in Nat, c \in Nat : l = length' /\ c = ChecksumSize'
        BY <2>1
      <4>3. Wanted' = l + c
        BY <4>1, <4>2
      <4>4. 0 <= l + c
        OBVIOUS
      <4> QED  BY <4>3, <4>4
    <3> QED  BY <1>1, <3>1, <3>2
  <2>3. Len(buffer') = 0
    BY <1>1
  <2>4. BufferIsLast'
    <3>1. \A k \in 1 .. 0 : FALSE
      OBVIOUS
    <3>2. \A k \in 1 .. Len(buffer') : FALSE
      BY <2>3, <3>1
    <3> QED  BY <3>2 DEF BufferIsLast
  <2> QED  BY <2>2, <2>3, <2>4
<1>5. UNCHANGED <<reader, junk, payloads, stream, ends, begin, rd, returned, failures>>
  BY <1>1 DEF input
<1>6. Accounted(begin)' /\ LeadsToMessage(begin)'
  BY <1>1, <1>2, StillAccounted
<1>7. ASSUME NEW i \in 1 .. Len(payloads), Target(i), rd = ends[i] + 4 + Len(buffer)
      PROVE  Progress'
  <2>1. /\ Len(payloads[i]) \in Nat /\ ends[i] \in Nat
        /\ stream[ends[i] + 5] = 0 /\ stream[ends[i] + 6] = FrontLen + Len(payloads[i])
        /\ FrontLen \in Nat
    BY <1>1, MessagePlace, LensAre
  <2>2. rd = ends[i] + 6 /\ rd - 1 = ends[i] + 5
    BY <1>1, <1>7, <2>1
  <2>3. length' = FrontLen + Len(payloads[i])
    BY <1>1, <1>3, <2>1, <2>2, SMTT(20) DEF Base
  <2>4. pc' = "body"
    <3>1. reader = "STREAM" => FrontLen = 3
      BY <1>1, LensAre
    <3> QED  BY <1>1, <2>1, <2>3, <3>1
  <2>5. (Target(i) /\ rd = ends[i] + 6 + Len(buffer) /\ length = FrontLen + Len(payloads[i]))'
    <3>1. Target(i)'
      BY <1>5, <1>7 DEF Target
    <3>2. rd' = ends'[i] + 6 + Len(buffer')
      BY <1>4, <1>5, <2>1, <2>2
    <3>3. (length = FrontLen + Len(payloads[i]))'
      BY <1>5, <2>3 DEF FrontLen
    <3> QED  BY <3>1, <3>2, <3>3
  <2>6. InBody'
    BY <1>4, <1>5, <2>5 DEF InBody
  <2> QED  BY <1>6, <2>4, <2>6 DEF Progress
<1>8. ASSUME InRunt, rd = 4 + Len(buffer) PROVE Progress'
  <2>1. /\ returned = <<>> /\ Len(returned) = 0
        /\ \A k \in 1 .. 7 : stream[k] = Runt[k]
        /\ \A i \in 1 .. Len(payloads) : ends[i] \in Nat /\ 7 <= ends[i]
    BY <1>1, <1>2, <1>8, RuntIsFirst
  <2>2. rd = 6 /\ rd - 1 = 5 /\ stream[5] = 0 /\ stream[6] = 1
    BY <1>1, <1>8, <2>1, RuntIs
  <2>3. length' = 1
    BY <1>1, <1>3, <2>2 DEF Base
  <2>4. reader \in {"COLA_2", "STREAM"}
    BY <1>1, <1>8 DEF InRunt, Types
  <2>5. CASE reader = "STREAM"
    <3>1. pc' = "idle"
      BY <1>1, <2>3, <2>5
    <3>2. \A i \in 1 .. Len(payloads) : ~(ends[i] < rd)
      BY <2>1, <2>2
    <3>3. Accounted(rd)'
      BY <1>5, <2>1, <3>2 DEF Accounted
    <3>4. LeadsToMessage(6)
      BY <1>1, <1>8, RuntLeads DEF InRunt
    <3>5. LeadsToMessage(rd)'
      BY <1>5, <2>2, <3>4 DEF LeadsToMessage, FirstRun, RunEndsAt, IsFront, MessageEnd
    <3> QED  BY <3>1, <3>3, <3>5 DEF Progress
  <2>6. CASE reader = "COLA_2"
    <3>1. pc' = "body"
      BY <1>1, <2>6
    <3>2. InRunt' /\ reader' = "COLA_2" /\ rd' = 6 + Len(buffer') /\ length' = 1
      BY <1>4, <1>5, <1>8, <2>2, <2>3, <2>6 DEF InRunt
    <3>3. InBody'
      BY <1>4, <3>2 DEF InBody
    <3> QED  BY <1>6, <3>1, <3>3 DEF Progress
  <2> QED  BY <2>4, <2>5, <2>6
<1> QED  BY <1>2, <1>7, <1>8 DEF InLength

\* What the caller gets of a buffer whose cells follow the length of message i.
LEMMA StrippedIs ==
  ASSUME Types, NEW p \in Seq(Nat), NEW body \in Seq(Nat),
         Len(body) = FrontLen + Len(p) + ChecksumSize,
         \A k \in 1 .. Len(p) : body[FrontLen + k] = p[k]
  PROVE  Stripped(body) = p
<1>1. PICK f \in Nat, n \in Nat, c \in Nat : f = FrontLen /\ n = Len(p) /\ c = ChecksumSize
  BY LensAre
<1>2. Len(body) = f + n + c /\ \A k \in 1 .. n : body[f + k] = p[k]
  BY <1>1
<1>3. Stripped(body) = SubSeq(body, f + 1, f + n)
  <2>1. f + n + c - c = f + n
    OBVIOUS
  <2>2. Stripped(body) = SubSeq(body, FrontLen + 1, Len(body) - ChecksumSize)
    BY DEF Stripped, FrontLen
  <2> QED  BY <1>1, <1>2, <2>1, <2>2, SMTT(30)
<1>4. \A k \in f + 1 .. f + n : body[k] \in Nat
  <2>1. \A k \in f + 1 .. f + n : k \in 1 .. f + n + c
    OBVIOUS
  <2> QED  BY <1>2, <2>1
<1>5. /\ SubSeq(body, f + 1, f + n) \in Seq(Nat)
      /\ Len(SubSeq(body, f + 1, f + n)) = IF f + 1 <= f + n THEN f + n - (f + 1) + 1 ELSE 0
      /\ \A k \in 1 .. f + n - (f + 1) + 1 : SubSeq(body, f + 1, f + n)[k] = body[f + 1 + k - 1]
  BY <1>4, SubSeqProperties, SMTT(30)
<1>6. /\ (IF f + 1 <= f + n THEN f + n - (f + 1) + 1 ELSE 0) = n /\ f + n - (f + 1) + 1 = n
      /\ \A k \in 1 .. n : f + 1 + k - 1 = f + k
  OBVIOUS
<1> DEFINE s == SubSeq(body, f + 1, f + n)
<1>7. s \in Seq(Nat) /\ Len(s) = n /\ \A k \in 1 .. n : s[k] = p[k]
  BY <1>2, <1>5, <1>6
<1>8. s = Stripped(body)
  BY <1>3
<1> HIDE DEF s
<1> QED  BY <1>1, <1>7, <1>8, SeqEqual

\* A message that is returned was sent behind all that were returned before.
LEMMA BodyReadAligned == ASSUME AInv, BodyRead PROVE History' /\ Progress'
<1>1. /\ Types /\ Layout /\ Begun /\ History /\ pc = "body" /\ Len(buffer) = Wanted
      /\ pc' = "idle" /\ UNCHANGED <<input, rd, length, failures>>
      /\ returned' = IF reader = "COLA_2" /\ length < 2 THEN returned
                     ELSE Append(returned, [payload |-> Stripped(buffer), end |-> rd])
  BY DEF AInv, IInv, BodyRead, Complete
<1>2. /\ Accounted(begin) /\ InBody /\ Wanted = length + ChecksumSize /\ buffer \in Seq(Nat)
      /\ Len(returned) \in Nat /\ Len(failures) \in Nat
      /\ returned \in Seq([payload : Seq(Nat), end : Nat])
      /\ length \in Nat /\ ~sending /\ ChecksumSize \in Nat /\ FrontLen \in Nat /\ begin \in Nat /\ rd \in Nat
  <2>1. Accounted(begin) /\ InBody
    BY <1>1 DEF AInv, Progress
  <2>2. Wanted = length + ChecksumSize /\ ChecksumSize \in Nat /\ FrontLen \in Nat
    BY <1>1, LensAre DEF Wanted
  <2> QED  BY <1>1, <2>1, <2>2 DEF Types, Begun, History
<1>3. UNCHANGED <<reader, junk, sending, payloads, stream, ends, rd, failures>>
  BY <1>1 DEF input
<1>4. ASSUME InRunt, reader = "COLA_2", rd = 6 + Len(buffer), length = 1
      PROVE  History' /\ Progress'
  <2>1. ChecksumSize = 0
    BY <1>1, <1>4, LensAre
  <2>2. rd = 7 /\ returned' = returned
    BY <1>1, <1>2, <1>4, <2>1
  <2>3. /\ returned = <<>> /\ Len(returned) = 0
        /\ \A i \in 1 .. Len(payloads) : ends[i] \in Nat /\ 7 <= ends[i]
    BY <1>1, <1>2, <1>4, RuntIsFirst
  <2>4. \A i \in 1 .. Len(payloads) : ~(ends[i] < rd)
    BY <2>2, <2>3
  <2>5. Accounted(rd)'
    BY <1>3, <2>2, <2>3, <2>4 DEF Accounted
  <2>6. History'
    BY <1>1, <2>2, HistoryKept
  <2>7. (AtEnd \/ LeadsToMessage(rd))'
    <3>1. ends[1] = 7 /\ 1 \in 1 .. Len(ends)
      BY <1>1, <1>4, RuntIs, Monotone DEF InRunt, Layout
    <3>2. AtEnd \/ LeadsToMessage(rd)
      BY <1>1, <2>2, <3>1, EndLeads DEF AtEnd
    <3> QED  BY <1>3, <3>2 DEF AtEnd, LeadsToMessage, FirstRun, RunEndsAt, IsFront, MessageEnd
  <2> QED  BY <1>1, <2>5, <2>6, <2>7 DEF Progress
<1>5. ASSUME NEW i \in 1 .. Len(payloads), Target(i), rd = ends[i] + 6 + Len(buffer),
             length = FrontLen + Len(payloads[i])
      PROVE  History' /\ Progress'
  <2>1. /\ payloads[i] \in Seq(Nat) /\ Len(payloads[i]) \in Nat /\ ends[i] \in Nat
        /\ ends[i + 1] \in Nat
        /\ ends[i + 1] = ends[i] + 6 + FrontLen + Len(payloads[i]) + ChecksumSize
        /\ \A k \in 1 .. Len(payloads[i]) : stream[ends[i] + 6 + FrontLen + k] = payloads[i][k]
    BY <1>1, MessagePlace
  <2>2. PICK e \in Nat, f \in Nat, n \in Nat, c \in Nat :
          e = ends[i] /\ f = FrontLen /\ n = Len(payloads[i]) /\ c = ChecksumSize
    BY <1>2, <2>1
  <2>3. Len(buffer) = f + n + c /\ rd = ends[i + 1] /\ rd - Len(buffer) = e + 6
    <3>1. Len(buffer) = f + n + c
      BY <1>1, <1>2, <1>5, <2>2
    <3>2. rd = e + 6 + (f + n + c)
      BY <1>5, <2>2, <3>1
    <3>3. e + 6 + (f + n + c) = e + 6 + f + n + c /\ e + 6 + (f + n + c) - (f + n + c) = e + 6
      OBVIOUS
    <3>4. ends[i + 1] = e + 6 + f + n + c
      BY <2>1, <2>2
    <3>5. rd - Len(buffer) = e + 6
      BY <3>1, <3>2, <3>3
    <3> QED  BY <3>1, <3>2, <3>3, <3>4, <3>5
  <2>4. Stripped(buffer) = payloads[i]
    <3>1. ASSUME NEW k \in 1 .. n PROVE buffer[f + k] = payloads[i][k]
      <4>1. f + k \in 1 .. f + n + c /\ e + 6 + (f + k) = e + 6 + f + k
        OBVIOUS
      <4>2. buffer[f + k] = stream[e + 6 + (f + k)]
        BY <1>2, <2>3, <4>1 DEF InBody, BufferIsLast
      <4> QED  BY <2>1, <2>2, <4>1, <4>2
    <3> QED  BY <1>1, <1>2, <2>1, <2>2, <2>3, <3>1, StrippedIs
  <2>5. returned' = Append(returned, Entry(i)) /\ Entry(i) \in [payload : Seq(Nat), end : Nat]
    <3>1. reader = "COLA_2" => length >= 2
      BY <1>1, <1>5, <2>2, LensAre
    <3>2. Entry(i) = [payload |-> Stripped(buffer), end |-> rd]
      BY <2>3, <2>4 DEF Entry
    <3>3. returned' = Append(returned, Entry(i))
      <4>1. ~(reader = "COLA_2" /\ length < 2)
        BY <1>2, <3>1
      <4>2. returned' = Append(returned, [payload |-> Stripped(buffer), end |-> rd])
        BY <1>1, <4>1
      <4> QED  BY <3>2, <4>2
    <3>4. Entry(i) \in [payload : Seq(Nat), end : Nat]
      BY <2>1 DEF Entry
    <3> QED  BY <3>3, <3>4
  <2>6. /\ Len(returned') = Len(returned) + 1 /\ returned' \in Seq([payload : Seq(Nat), end : Nat])
        /\ returned'[Len(returned) + 1] = Entry(i)
        /\ \A k \in 1 .. Len(returned) : returned'[k] = returned[k]
        /\ \A k \in 1 .. Len(returned') : k \in 1 .. Len(returned) \/ k = Len(returned) + 1
    <3>1. PICK q \in [payload : Seq(Nat), end : Nat] : q = Entry(i)
      BY <2>5
    <3>2. PICK l \in Nat : l = Len(returned)
      BY <1>2
    <3> DEFINE Entries == [payload : Seq(Nat), end : Nat]
    <3>5. returned \in Seq(Entries) /\ q \in Entries
      BY <1>2
    <3> HIDE DEF Entries
    <3>3. /\ Append(returned, q) \in Seq(Entries) /\ Len(Append(returned, q)) = l + 1
          /\ Append(returned, q)[l + 1] = q
          /\ \A k \in 1 .. l : Append(returned, q)[k] = returned[k]
      BY <3>2, <3>5
    <3>4. \A k \in 1 .. l + 1 : k \in 1 .. l \/ k = l + 1
      OBVIOUS
    <3> QED  BY <2>5, <3>1, <3>2, <3>3, <3>4 DEF Entries
  <2>7. /\ i \in Nat /\ i <= Len(returned) + Len(failures) + 1 /\ Len(returned) + 1 <= i
        /\ \A j \in 1 .. Len(payloads) : ends[j] < ends[i + 1] => j <= i
    BY <1>1, <1>2, <1>5, TargetCounts
  <2>8. /\ Len(payloads) \in Nat /\ Len(ends) = Len(payloads) + 1
        /\ \A k \in 1 .. Len(ends) : ends[k] \in Nat
    BY <1>1, Monotone
  <2>9. begin <= ends[i] /\ ends[i] < rd
    <3>1. i \in 1 .. Len(ends) /\ i + 1 \in 1 .. Len(ends) /\ i < i + 1
      BY <2>7, <2>8
    <3> QED  BY <1>1, <1>5, <2>3, <3>1 DEF Target, Layout
  <2>10. ASSUME NEW k \in 1 .. Len(returned)
         PROVE  \E m \in 1 .. Len(payloads) :
                  returned[k] = Entry(m) /\ ends[m + 1] <= rd /\ ends[m + 1] < rd
    <3>1. PICK m \in 1 .. Len(payloads) : returned[k] = Entry(m) /\ ends[m + 1] <= begin
      BY <1>2 DEF Accounted
    <3>2. ends[m + 1] \in Nat
      <4>1. m + 1 \in 1 .. Len(ends)
        BY <2>8
      <4> QED  BY <2>8, <4>1
    <3>3. PICK a \in Nat, b \in Nat, h \in Nat : a = ends[m + 1] /\ b = begin /\ h = ends[i]
      BY <1>2, <2>1, <3>2
    <3>4. a <= b /\ b <= h /\ h < rd
      BY <2>9, <3>1, <3>3
    <3>5. a <= rd /\ a < rd
      BY <1>2, <3>4, SMTT(30)
    <3> QED  BY <3>1, <3>3, <3>5
  <2>11. History'
    <3>1. ASSUME NEW j \in 1 .. Len(returned'), NEW k \in 1 .. Len(returned'), j < k
          PROVE  returned'[j].end < returned'[k].end
      <4>1. j \in 1 .. Len(returned)
        BY <1>2, <2>6, <3>1
      <4>2. CASE k \in 1 .. Len(returned)
        BY <1>1, <2>6, <3>1, <4>1, <4>2 DEF History
      <4>3. CASE k = Len(returned) + 1
        <5>1. returned'[k].end = rd
          BY <2>3, <2>6, <4>3 DEF Entry
        <5>2. returned'[j].end < rd
          <6>1. PICK m \in 1 .. Len(payloads) : returned[j] = Entry(m) /\ ends[m + 1] < rd
            BY <2>10, <4>1
          <6>2. returned'[j].end = ends[m + 1]
            <7>1. returned'[j] = returned[j]
              BY <2>6, <4>1
            <7> QED  BY <6>1, <7>1 DEF Entry
          <6> QED  BY <6>1, <6>2
        <5> QED  BY <5>1, <5>2
      <4> QED  BY <2>6, <4>2, <4>3
    <3> QED  BY <2>6, <3>1 DEF History
  <2>12. Accounted(rd)'
    <3>1. /\ Len(returned') <= Len(payloads) /\ ends[Len(returned') + 1] <= rd
      <4>1. Len(returned') + 1 \in 1 .. Len(ends) /\ i + 1 \in 1 .. Len(ends)
            /\ Len(returned') + 1 <= i + 1
        BY <1>2, <2>6, <2>7, <2>8
      <4>2. ends[Len(returned') + 1] <= ends[i + 1]
        BY <1>1, <4>1, Monotone
      <4>3. Len(returned') <= Len(payloads)
        BY <1>2, <2>6, <2>7, <2>8
      <4> QED  BY <2>3, <4>2, <4>3
    <3>2. ASSUME NEW k \in 1 .. Len(returned')
          PROVE  \E m \in 1 .. Len(payloads) : returned'[k] = Entry(m) /\ ends[m + 1] <= rd
      <4>1. CASE k \in 1 .. Len(returned)
        BY <2>6, <2>10, <4>1
      <4>2. CASE k = Len(returned) + 1
        BY <1>2, <2>3, <2>6, <4>2
      <4> QED  BY <2>6, <4>1, <4>2
    <3>3. ASSUME NEW j \in 1 .. Len(payloads), ends[j] < rd PROVE j <= Len(returned') + Len(failures)
      <4>1. j <= i /\ j \in Nat
        BY <2>3, <2>7, <2>8, <3>3
      <4> QED  BY <1>2, <2>6, <2>7, <4>1
    <3> QED  BY <1>3, <3>1, <3>2, <3>3 DEF Accounted, Entry
  <2>13. (AtEnd \/ LeadsToMessage(rd))'
    <3>1. i + 1 \in 1 .. Len(ends)
      BY <2>7, <2>8
    <3>2. AtEnd \/ LeadsToMessage(rd)
      BY <1>1, <2>3, <3>1, EndLeads DEF AtEnd
    <3> QED  BY <1>3, <3>2 DEF AtEnd, LeadsToMessage, FirstRun, RunEndsAt, IsFront, MessageEnd
  <2> QED  BY <1>1, <2>11, <2>12, <2>13 DEF Progress
<1> QED  BY <1>2, <1>4, <1>5 DEF InBody

LEMMA SendAligned ==
  ASSUME CInv, Send
  PROVE  Layout' /\ Begun' /\ (NotMisled' => History' /\ Progress')
<1>1. /\ Types /\ Layout /\ Begun /\ pc = "idle" /\ sending /\ rd = 0 /\ returned = <<>>
      /\ UNCHANGED <<reader, junk, sending, rd, pc, returned, failures>>
  BY DEF CInv, IInv, Types, Begun, Send
<1>2. PICK p \in Payloads, check \in Checksums :
        /\ payloads' = Append(payloads, p)
        /\ stream' = stream \o Message(p, check)
        /\ ends' = Append(ends, Len(stream'))
  BY DEF Send
<1> DEFINE m == Message(p, check)
<1>3. p \in Seq(Nat) /\ Len(payloads) \in Nat /\ Len(p) \in Nat
  BY <1>1, BoundsAssumption DEF Types
<1>4. m \in Seq(Nat) /\ Len(m) = 6 + FrontLen + Len(p) + ChecksumSize
  BY <1>1, <1>3, MessageCells
<1>5. payloads' = Append(payloads, p) /\ stream' = stream \o m /\ ends' = Append(ends, Len(stream'))
  BY <1>2
<1>6. m = Message(p, check)
  OBVIOUS
<1> HIDE DEF m
<1>7. /\ Len(stream) \in Nat /\ Len(m) \in Nat /\ Len(stream') = Len(stream) + Len(m)
      /\ \A k \in 1 .. Len(stream) : stream'[k] = stream[k]
      /\ \A k \in 1 .. Len(m) : stream'[Len(stream) + k] = m[k]
      /\ stream' \in Seq(Nat)
  <2>1. stream \in Seq(Nat) /\ m \in Seq(Nat)
    BY <1>1, <1>4 DEF Types
  <2> QED  BY <1>5, <2>1, Joined
<1>8. Len(m) >= 6
  <2>1. FrontLen \in Nat /\ ChecksumSize \in Nat
    BY <1>1, LensAre
  <2>2. \A a, b, c \in Nat : 6 + a + b + c >= 6
    OBVIOUS
  <2> QED  BY <1>3, <1>4, <2>1, <2>2
<1>9. /\ Len(payloads) \in Nat /\ Len(payloads') = Len(payloads) + 1
      /\ payloads'[Len(payloads) + 1] = p
      /\ \A i \in 1 .. Len(payloads) : payloads'[i] = payloads[i]
  BY <1>1, <1>3, <1>5 DEF Types
<1>10. /\ ends \in Seq(Nat) /\ Len(ends) = Len(payloads) + 1 /\ Len(ends) \in Nat
       /\ Len(ends') = Len(ends) + 1 /\ ends' \in Seq(Nat)
       /\ ends'[Len(ends) + 1] = Len(stream')
       /\ \A i \in 1 .. Len(ends) : ends'[i] = ends[i]
  <2>1. ends \in Seq(Nat) /\ Len(ends) = Len(payloads) + 1
    BY <1>1 DEF Layout
  <2>2. Len(stream') \in Nat
    BY <1>7
  <2> QED  BY <1>5, <2>1, <2>2
<1>11. \A i \in 1 .. Len(ends) : ends[i] \in Nat /\ Len(junk) <= ends[i] /\ ends[i] <= Len(stream)
  BY <1>1, Monotone
<1>12. ASSUME NEW i \in 1 .. Len(payloads) PROVE MessageAt(i)'
  <2>1. i \in 1 .. Len(ends) /\ i + 1 \in 1 .. Len(ends)
    BY <1>10, <1>9
  <2>2. payloads[i] \in Seq(Nat) /\ MessageAt(i)
    BY <1>1 DEF Types, Layout
  <2>3. PICK c \in Checksums :
          LET q == Message(payloads[i], c)
          IN  /\ ends[i + 1] = ends[i] + Len(q)
              /\ \A k \in 1 .. Len(q) : stream[ends[i] + k] = q[k]
    BY <2>2 DEF MessageAt
  <2> DEFINE q == Message(payloads[i], c)
  <2>4. /\ ends[i + 1] = ends[i] + Len(q)
        /\ \A k \in 1 .. Len(q) : stream[ends[i] + k] = q[k]
    BY <2>3
  <2>9. q \in Seq(Nat) /\ Len(q) \in Nat
    <3>1. q \in Seq(Nat)
      BY <1>1, <2>2, MessageCells
    <3> QED  BY <3>1
  <2>5. ends'[i] = ends[i] /\ ends'[i + 1] = ends[i + 1] /\ payloads'[i] = payloads[i]
    BY <1>9, <1>10, <2>1
  <2>6. Message(payloads[i], c)' = q /\ Checksums' = Checksums
    BY <1>1, <2>5 DEF Message, Checksums, ChecksumSize
  <2> HIDE DEF q
  <2>7. \A k \in 1 .. Len(q) : ends[i] + k \in 1 .. Len(stream)
    <3>1. PICK e \in Nat, l \in Nat, s \in Nat : e = ends[i] /\ l = Len(q) /\ s = Len(stream)
      <4>1. ends[i] \in Nat /\ Len(q) \in Nat /\ Len(stream) \in Nat
        BY <1>7, <1>11, <2>1, <2>9
      <4> QED  BY <4>1
    <3>2. e + l <= s
      BY <1>11, <2>1, <2>4, <3>1
    <3>3. \A k \in 1 .. l : e + k \in 1 .. s
      BY <3>2
    <3> QED  BY <3>1, <3>3
  <2>8. \A k \in 1 .. Len(q) : stream'[ends[i] + k] = q[k]
    BY <1>7, <2>4, <2>7
  <2> QED  BY <2>4, <2>5, <2>6, <2>8 DEF MessageAt
<1>13. ASSUME NEW i \in Nat, i = Len(payloads) + 1 PROVE MessageAt(i)'
  <2>1. ends'[i] = Len(stream) /\ ends'[i + 1] = Len(stream) + Len(m)
    <3>1. i = Len(ends) /\ i \in 1 .. Len(ends) /\ ends[i] = Len(stream)
      BY <1>1, <1>10, <1>13 DEF Layout
    <3> QED  BY <1>7, <1>10, <3>1
  <2>2. Message(payloads[i], check)' = m /\ Checksums' = Checksums
    <3>1. payloads'[i] = p
      BY <1>9, <1>13
    <3> QED  BY <1>1, <1>6, <3>1 DEF Message, Checksums, ChecksumSize
  <2> QED  BY <1>7, <2>1, <2>2 DEF MessageAt
<1>14. \A i \in 1 .. Len(payloads') : MessageAt(i)'
  <2>1. \A i \in 1 .. Len(payloads') : i \in 1 .. Len(payloads) \/ i = Len(payloads) + 1
    BY <1>9
  <2> QED  BY <1>9, <1>12, <1>13, <2>1
<1>15. ends'[1] = Len(junk) /\ ends'[Len(ends')] = Len(stream') /\ Len(ends') = Len(payloads') + 1
  <2>1. 1 \in 1 .. Len(ends) /\ ends[1] = Len(junk)
    BY <1>1, <1>9, <1>10 DEF Layout
  <2> QED  BY <1>9, <1>10, <2>1
<1>16. ASSUME NEW i \in 1 .. Len(ends'), NEW j \in 1 .. Len(ends'), i < j PROVE ends'[i] < ends'[j]
  <2>1. PICK l \in Nat : l = Len(ends)
    BY <1>10
  <2>2. i \in 1 .. l /\ (j \in 1 .. l \/ j = l + 1)
    BY <1>10, <1>16, <2>1
  <2>3. CASE j \in 1 .. l
    BY <1>1, <1>10, <1>16, <2>1, <2>2, <2>3 DEF Layout
  <2>4. CASE j = l + 1
    <3>1. ends'[i] = ends[i] /\ ends[i] \in Nat /\ ends[i] <= Len(stream) /\ ends'[j] = Len(stream')
      BY <1>10, <1>11, <2>1, <2>2, <2>4
    <3>2. Len(stream) < Len(stream') /\ Len(stream) \in Nat /\ Len(stream') \in Nat
      BY <1>7, <1>8
    <3> QED  BY <3>1, <3>2
  <2> QED  BY <2>2, <2>3, <2>4
<1>18. junk' \in Junk(reader') /\ \A k \in 1 .. Len(junk') : stream'[k] = junk'[k]
  <2>1. junk \in Junk(reader) /\ \A k \in 1 .. Len(junk) : stream[k] = junk[k]
    BY <1>1 DEF Layout
  <2>2. Len(junk) \in Nat /\ Len(junk) <= Len(stream)
    <3>1. 1 \in 1 .. Len(ends) /\ ends[1] = Len(junk)
      BY <1>1, <1>9, <1>10 DEF Layout
    <3> QED  BY <1>11, <3>1
  <2>3. \A k \in 1 .. Len(junk) : k \in 1 .. Len(stream)
    BY <1>7, <2>2
  <2> QED  BY <1>1, <1>7, <2>1, <2>3
<1>19. Layout' /\ Begun'
  BY <1>1, <1>10, <1>14, <1>15, <1>16, <1>18 DEF Layout, Begun
<1>20. Len(returned') = 0 /\ returned' = <<>> /\ rd' = 0
  BY <1>1
<1>21. Accounted(rd)'
  <2>1. \A i \in 1 .. Len(payloads') : ends'[i] \in Nat
    <3>1. \A i \in 1 .. Len(payloads') : i \in 1 .. Len(ends')
      BY <1>9, <1>10
    <3> QED  BY <1>10, <3>1
  <2>2. \A i \in 1 .. Len(payloads') : ~(ends'[i] < 0)
    BY <2>1
  <2> QED  BY <1>20, <2>2 DEF Accounted
<1>22. History'
  BY <1>20 DEF History
<1>23. NotMisled' => LeadsToMessage(rd)'
  BY <1>20 DEF NotMisled, LeadsToMessage, FirstRun, RunEndsAt, IsFront, MessageEnd
<1> QED  BY <1>1, <1>19, <1>21, <1>22, <1>23 DEF Progress

\* What misleads stays in the stream.
LEMMA StillMisled ==
  ASSUME UNCHANGED <<junk, payloads, stream, ends>>, failures \in Seq(Nat),
         failures' = failures \/ failures' = Append(failures, rd), rd \in Nat, NotMisled'
  PROVE  NotMisled
<1>1. LeadsToMessage(0)
  BY LeadsKept DEF NotMisled
<1>2. ASSUME NEW k \in 1 .. Len(failures) PROVE LeadsToMessage(failures[k])
  <2>1. k \in 1 .. Len(failures') /\ failures'[k] = failures[k]
    OBVIOUS
  <2>2. LeadsToMessage(failures[k])'
    BY <2>1 DEF NotMisled
  <2> QED  BY <2>1, <2>2 DEF LeadsToMessage, FirstRun, RunEndsAt, IsFront, MessageEnd
<1> QED  BY <1>1, <1>2 DEF NotMisled

LEMMA CallStep ==
  ASSUME CInv, Call \/ Receiving \/ Computing
  PROVE  /\ UNCHANGED <<reader, junk, payloads, stream, ends>> /\ ~sending'
         /\ failures' = failures \/ failures' = Append(failures, rd)
<1>1. sending => pc = "idle"
  BY DEF CInv, IInv, Types
<1>2. CASE Call
  BY <1>2 DEF Call
<1>3. CASE RecvStx \/ ReadSome \/ ScanStx \/ ScanOther \/ ScanDone \/ LengthRead \/ BodyRead
  BY <1>1, <1>3
     DEF RecvStx, ReadSome, ScanStx, ScanOther, FoundOther, ScanDone, LengthRead, BodyRead, Complete, input
<1>4. CASE RecvFails
  BY <1>1, <1>4 DEF RecvFails, input
<1> QED  BY <1>2, <1>3, <1>4 DEF Receiving, Computing

LEMMA StepAligned == ASSUME CInv, [Next]_vars PROVE CInv'
<1>1. IInv' /\ Types /\ Layout /\ Begun /\ rd \in Nat
  BY StepSafe DEF CInv, IInv, Types
<1>2. CASE Send
  BY <1>1, <1>2, SendAligned DEF CInv
<1>3. CASE Call \/ Receiving \/ Computing
  <2>1. /\ UNCHANGED <<reader, junk, payloads, stream, ends>> /\ ~sending'
        /\ failures' = failures \/ failures' = Append(failures, rd)
    BY <1>3, CallStep
  <2>2. Layout'
    BY <1>1, <2>1, LayoutKept
  <2>3. Begun'
    BY <1>1, <2>1 DEF Begun
  <2>4. ASSUME NotMisled' PROVE History' /\ Progress'
    <3>1. AInv
      BY <1>1, <2>1, <2>4, StillMisled DEF AInv, CInv, Begun
    <3>2. CASE Call
      BY <3>1, <3>2, CallAligned
    <3>3. CASE RecvStx \/ ScanStx \/ ScanOther
      <4>1. /\ pc \in {"stx", "scan"} /\ pc' \in {"stx", "scan"}
            /\ UNCHANGED <<input, returned, begin, failures>>
        BY <3>3 DEF RecvStx, ScanStx, ScanOther, FoundOther
      <4> QED  BY <3>1, <4>1, SearchAligned, HistoryKept DEF AInv
    <3>4. CASE ScanDone \/ RecvFails \/ ReadSome \/ LengthRead
      <4>1. returned' = returned
        BY <3>4 DEF ScanDone, RecvFails, ReadSome, LengthRead
      <4>2. History'
        BY <3>1, <4>1, HistoryKept DEF AInv
      <4>3. Progress'
        BY <1>1, <2>4, <3>1, <3>4,
           ScanDoneAligned, RecvFailsAligned, ReadSomeAligned, LengthReadAligned
      <4> QED  BY <4>2, <4>3
    <3>5. CASE BodyRead
      BY <3>1, <3>5, BodyReadAligned
    <3> QED  BY <1>3, <3>2, <3>3, <3>4, <3>5 DEF Receiving, Computing
  <2> QED  BY <1>1, <2>2, <2>3, <2>4 DEF CInv
<1>4. CASE UNCHANGED vars
  <2>1. UNCHANGED <<reader, junk, sending, payloads, stream, ends, rd, pc, buffer, length, returned,
                    begin, failures>> /\ UNCHANGED input
    BY <1>4 DEF vars, input
  <2>2. Layout' /\ Begun'
    BY <1>1, <2>1, LayoutKept DEF Begun, input
  <2>3. ASSUME NotMisled' PROVE History' /\ Progress'
    <3>1. History /\ Progress
      BY <1>1, <2>1, <2>3, StillMisled DEF CInv, Begun
    <3>2. pc = "idle" => Accounted(rd)' /\ (AtEnd \/ LeadsToMessage(rd))'
      BY <2>1, <3>1
         DEF Progress, Accounted, Entry, AtEnd, LeadsToMessage, FirstRun, RunEndsAt, IsFront, MessageEnd
    <3>3. pc # "idle" => Accounted(begin)' /\ LeadsToMessage(begin)'
      BY <2>1, <3>1, StillAccounted DEF Progress
    <3>4. pc = "length" => InLength'
      BY <2>1, <3>1 DEF Progress, InLength, Target, InRunt, BufferIsLast
    <3>5. pc = "body" => InBody'
      BY <2>1, <3>1 DEF Progress, InBody, Target, InRunt, BufferIsLast, Wanted, FrontLen, ChecksumSize
    <3> QED  BY <2>1, <3>1, <3>2, <3>3, <3>4, <3>5, HistoryKept DEF Progress
  <2> QED  BY <1>1, <2>2, <2>3 DEF CInv
<1> QED  BY <1>2, <1>3, <1>4 DEF Next

THEOREM Follows == Spec => []CInv
<1>1. Init => CInv
  BY InitAligned
<1>2. CInv /\ [Next]_vars => CInv'
  BY StepAligned
<1> QED  BY <1>1, <1>2, PTL DEF Spec

\* A call that has met no failed receive leaves the stream exactly at the end
\* of the last message returned, whatever the messages hold, so that the next
\* call begins with a message (CoLaBProtocolHandler.cpp:37-103,
\* CoLa2ProtocolHandler.cpp:32-104, VisionaryDataStream.cpp:81-128).  Noise in
\* front of the first message must not look like the front of one.
THEOREM EndsAligned == Spec => []AlignedUnlessFailed
<1>1. CInv => AlignedUnlessFailed
  <2> SUFFICES ASSUME CInv, pc = "idle", failures = <<>>, LeadsToMessage(0)
               PROVE  IF returned = <<>> THEN rd <= Len(junk) ELSE rd = MessageEnd(Len(returned))
    BY DEF AlignedUnlessFailed
  <2>1. /\ Types /\ Layout /\ Begun /\ History /\ Accounted(rd) /\ rd \in Nat
        /\ Len(returned) \in Nat /\ Len(failures) = 0
        /\ Len(payloads) \in Nat /\ Len(ends) = Len(payloads) + 1 /\ rd <= Len(stream)
        /\ \A k \in 1 .. Len(ends) : ends[k] \in Nat
    <3>1. Len(failures) = 0 /\ NotMisled
      BY DEF NotMisled
    <3>2. Types /\ Layout /\ Begun /\ History /\ Accounted(rd)
      BY <3>1 DEF CInv, IInv, Progress
    <3>3. rd \in Nat /\ Len(returned) \in Nat /\ rd <= Len(stream)
      BY <3>2 DEF Types, History
    <3> QED  BY <3>1, <3>2, <3>3, Monotone
  <2>2. ASSUME Len(returned) <= Len(payloads) PROVE rd <= ends[Len(returned) + 1]
    <3>1. CASE Len(returned) = Len(payloads)
      BY <2>1, <3>1 DEF Layout
    <3>2. CASE Len(returned) < Len(payloads)
      <4>1. Len(returned) + 1 \in 1 .. Len(payloads) /\ Len(returned) + 1 \in 1 .. Len(ends)
        BY <2>1, <3>2
      <4>2. ~(ends[Len(returned) + 1] < rd)
        <5>1. ~(Len(returned) + 1 <= Len(returned) + 0)
          BY <2>1
        <5> QED  BY <2>1, <4>1, <5>1 DEF Accounted
      <4> QED  BY <2>1, <4>1, <4>2
    <3> QED  BY <2>1, <2>2, <3>1, <3>2
  <2>3. CASE returned = <<>>
    <3>1. Len(returned) = 0 /\ ends[1] = Len(junk)
      BY <2>1, <2>3 DEF Layout
    <3> QED  BY <2>1, <2>2, <2>3, <3>1
  <2>4. CASE returned # <<>>
    <3>1. Len(returned) <= Len(payloads) /\ ends[Len(returned) + 1] <= rd
      BY <2>1, <2>4 DEF Accounted
    <3>2. Len(returned) + 1 \in 1 .. Len(ends)
      BY <2>1, <3>1
    <3> QED  BY <2>1, <2>2, <2>4, <3>1, <3>2 DEF MessageEnd
  <2> QED  BY <2>3, <2>4
<1> QED  BY <1>1, Follows, PTL

\* For any payloads, and however recv cuts or fails: unless a search that begins
\* in noise, or inside a message where a receive failed, comes upon four STX that
\* are not the front of a message (NotMisled), the calls return messages that were
\* sent, whole, in order and none twice (CoLaBProtocolHandler.cpp:37-103,
\* CoLa2ProtocolHandler.cpp:32-104, VisionaryDataStream.cpp:81-128).
THEOREM ReturnsOnlySent == Spec => []OnlySent
<1>1. CInv => OnlySent
  <2> SUFFICES ASSUME CInv, NotMisled
               PROVE  /\ \A k \in 1 .. Len(returned) : \E i \in 1 .. Len(payloads) :
                           returned[k] = [payload |-> payloads[i], end |-> MessageEnd(i)]
                      /\ \A j, k \in 1 .. Len(returned) : j < k => returned[j].end < returned[k].end
    BY DEF OnlySent
  <2>1. History /\ Progress
    BY DEF CInv
  <2>2. \A k \in 1 .. Len(returned) : \E i \in 1 .. Len(payloads) : returned[k] = Entry(i)
    BY <2>1 DEF Progress, Accounted
  <2> QED  BY <2>1, <2>2 DEF History, Entry, MessageEnd
<1> QED  BY <1>1, Follows, PTL

\* Under the same condition, and again for any payloads, every failed receive
\* loses one message at most: of those that have begun, as many are missing at
\* most as receives have failed.
THEOREM LosesOnePerFailure == Spec => []LossIsBounded
<1>1. CInv => LossIsBounded
  <2> SUFFICES ASSUME CInv, pc = "idle", NotMisled, NEW i \in 1 .. Len(payloads),
                      MessageEnd(i - 1) < rd
               PROVE  i <= Len(returned) + Len(failures)
    BY DEF LossIsBounded
  <2>1. Accounted(rd) /\ i \in Nat
    BY Monotone DEF CInv, IInv, Progress
  <2>2. i - 1 + 1 = i
    BY <2>1
  <2>3. ends[i] < rd
    BY <2>2 DEF MessageEnd
  <2> QED  BY <2>1, <2>3 DEF Accounted
<1> QED  BY <1>1, Follows, PTL
=============================================================================
