-------------------------- MODULE FrameDataProofs ---------------------------
(***************************************************************************)
(* Proofs about FrameData, for any of the subclasses and any number of     *)
(* blobs, configurations and damaged blobs.                                *)
(*                                                                         *)
(* A frame on offer or with the user was parsed whole; the handler of the  *)
(* stream may be left in the middle of anything.  What the properties say  *)
(* of the frame of the user is therefore shown for both (FrameOK), and     *)
(* weaker things for all three handlers (HandlerOK): above all that the    *)
(* metadata of a handler was announced with its counter, unless that       *)
(* counter was damaged once or is the 0 handlers begin with.               *)
(***************************************************************************)
EXTENDS FrameData, TLAPS

USE FrameDataAssumption

-----------------------------------------------------------------------------
(* The inductive invariant *)

Metas == [size : Nat, camera : Nat, layers : SUBSET Layers]
Frames == [m_changeCounter : Nat, meta : Metas, table : Metas, m_frameNum : Nat,
           m_blobTimestamp : Nat, image : [Layers -> [from : Nat, size : Nat]], own : Metas]

Counted(h) ==
  \/ h.m_changeCounter = 0 \/ h.m_changeCounter \in spoiled
  \/ <<h.m_changeCounter, h.meta>> \in announced

\* Only T has scans.
ScanOfT(h) == kind # "T" => "scan" \notin h.meta.layers /\ h.image["scan"] = Empty

HandlerOK(h) ==
  /\ h \in Frames
  /\ h.table # NoMetadata => h.table = h.meta
  /\ Counted(h)
  /\ ScanOfT(h)

Own(h) == ~Ambiguous(h.m_changeCounter) => h.meta = h.own
Fits(h) == h.image["distance"].size \in {h.meta.size, 0}
Whole(h) ==
  /\ \A l \in h.meta.layers : h.image[l].from = h.m_blobTimestamp
  /\ version > 1 => h.m_frameNum = h.m_blobTimestamp
  /\ \A l \in Layers \ h.meta.layers :
       (kind = "TMini" \/ (kind = "T" /\ l = "scan")) => h.image[l] = Empty

FrameOK(h) == Delivered(h) => Own(h) /\ Fits(h) /\ Whole(h)

DeviceOK ==
  /\ kind \in {"TMini", "T", "S"} /\ version \in {1, 2} /\ blobs \in Nat
  /\ devCounter \in Nat /\ devMeta \in Metas /\ (kind # "T" => "scan" \notin devMeta.layers)
  /\ <<devCounter, devMeta>> \in announced

HandlersOK == HandlerOK(stream) /\ HandlerOK(offered) /\ HandlerOK(user)
FramesOK   == FrameOK(offered) /\ FrameOK(user)

IInv == DeviceOK /\ HandlersOK /\ FramesOK

-----------------------------------------------------------------------------
(* The parsers *)

\* Metadata that is sent.
LEMMA Announced ==
  ASSUME NEW m \in Metadatas
  PROVE  m \in Metas /\ (kind # "T" => "scan" \notin m.layers)
  BY DEF Metadatas, NoMetadata, Metadata, Metas, Layers

LEMMA NoMetadataIsOne == NoMetadata \in Metas /\ NoMetadata.layers = {}
  BY DEF NoMetadata, Metadata, Metas

\* A parse that ends nowhere got past every check.
LEMMA NoneIsLast ==
  /\ Past("none", "header") /\ Past("none", "extension")
  /\ Past("none", "images") /\ Past("none", "footer")
<1>1. DOMAIN Order = 1 .. 7
  BY DEF Order
<1>2. \A i \in 1 .. 7 : Order[i] = "none" <=> i = 7
  BY DEF Order
<1>3. Rank("none") = 7
  BY <1>1, <1>2 DEF Rank
<1>4. \A s \in {"header", "extension", "images", "footer"} : Rank(s) \in 1 .. 6
  <2> SUFFICES ASSUME NEW s \in {"header", "extension", "images", "footer"}
               PROVE  Rank(s) \in 1 .. 6
    OBVIOUS
  <2>1. Order[2] = "header" /\ Order[3] = "extension" /\ Order[4] = "images" /\ Order[5] = "footer"
    BY DEF Order
  <2>2. \E i \in DOMAIN Order : Order[i] = s
    BY <1>1, <2>1
  <2>3. Rank(s) \in DOMAIN Order /\ Order[Rank(s)] = s
    BY <2>2 DEF Rank
  <2> QED  BY <1>1, <1>2, <2>3
<1> QED  BY <1>3, <1>4 DEF Past

\* Parsing the metadata leaves a handler with the counter of the device.
LEMMA XmlStep ==
  ASSUME IInv
  PROVE  /\ HandlerOK(XmlParsed(stream, devCounter, devMeta))
         /\ XmlParsed(stream, devCounter, devMeta).m_changeCounter = devCounter
         /\ XmlParsed(stream, devCounter, devMeta).own = stream.own
<1> DEFINE h == XmlParsed(stream, devCounter, devMeta)
<1>1. stream \in Frames /\ HandlerOK(stream) /\ DeviceOK
  BY DEF IInv, HandlersOK, HandlerOK
<1>2. CASE stream.m_changeCounter = devCounter
  BY <1>1, <1>2 DEF XmlParsed
<1>3. CASE stream.m_changeCounter # devCounter
  <2>1. h = [stream EXCEPT !.m_changeCounter = devCounter, !.table = NoMetadata, !.meta = devMeta]
    BY <1>3 DEF XmlParsed
  <2>2. /\ h \in Frames /\ h.m_changeCounter = devCounter /\ h.table = NoMetadata
        /\ h.meta = devMeta /\ h.own = stream.own /\ h.image = stream.image
    BY <1>1, <2>1, NoMetadataIsOne DEF Frames, DeviceOK
  <2> HIDE DEF h
  <2>3. HandlerOK(h)
    BY <1>1, <2>2 DEF HandlerOK, Counted, ScanOfT, DeviceOK
  <2> QED  BY <2>2, <2>3 DEF h
<1> QED  BY <1>2, <1>3

\* What a parse of the images does to each field.
LEMMA ParsedFields ==
  ASSUME NEW h \in Frames, NEW b \in Nat, NEW m \in Metas, NEW e, version \in {1, 2}
  PROVE  LET p == BinaryParsed(h, b, m, e) IN
         /\ p \in Frames
         /\ p.m_changeCounter = h.m_changeCounter /\ p.meta = h.meta /\ p.table = h.table
         /\ p.image = (IF Past(e, "images") THEN Images(h, b, e) ELSE h.image)
         /\ p.own = (IF e = "none" THEN m ELSE h.own)
         /\ p.m_blobTimestamp = (IF Past(e, "header") THEN b ELSE h.m_blobTimestamp)
         /\ p.m_frameNum = (IF Past(e, "extension") THEN FrameNum(h, b) ELSE h.m_frameNum)
<1>1. Images(h, b, e) \in [Layers -> [from : Nat, size : Nat]]
  <2>1. ASSUME NEW l \in Layers
        PROVE  Images(h, b, e)[l] \in [from : Nat, size : Nat]
    BY DEF Images, Layer, Empty, Frames, Metas
  <2> QED  BY <2>1 DEF Images
<1>2. FrameNum(h, b) \in Nat
  BY DEF FrameNum, Frames
<1> QED  BY <1>1, <1>2 DEF BinaryParsed, Frames

\* However it ends, a handler stays one.
LEMMA ParsedHandler ==
  ASSUME NEW h, HandlerOK(h), NEW b \in Nat, DeviceOK, NEW e
  PROVE  HandlerOK(BinaryParsed(h, b, devMeta, e))
<1> DEFINE p == BinaryParsed(h, b, devMeta, e)
<1>1. h \in Frames /\ devMeta \in Metas /\ version \in {1, 2}
  BY DEF HandlerOK, DeviceOK
<1>2. /\ p \in Frames /\ p.m_changeCounter = h.m_changeCounter
      /\ p.meta = h.meta /\ p.table = h.table
      /\ p.image = h.image \/ p.image = Images(h, b, e)
  BY <1>1, ParsedFields
<1>3. kind # "T" => Images(h, b, e)["scan"] = h.image["scan"]
  BY DEF Images, Layers
<1> HIDE DEF p
<1>4. HandlerOK(p)
  BY <1>2, <1>3 DEF HandlerOK, Counted, ScanOfT
<1> QED  BY <1>4 DEF p

\* A parse that ends nowhere makes a frame.
LEMMA ParsedFrame ==
  ASSUME NEW h, HandlerOK(h), h.m_changeCounter = devCounter, NEW b \in Nat, DeviceOK
  PROVE  FrameOK(BinaryParsed(h, b, devMeta, "none"))
<1> DEFINE p == BinaryParsed(h, b, devMeta, "none")
<1>1. h \in Frames /\ devMeta \in Metas /\ version \in {1, 2}
  BY DEF HandlerOK, DeviceOK
<1>2. /\ p.m_changeCounter = devCounter /\ p.meta = h.meta /\ p.own = devMeta
      /\ p.image = Images(h, b, "none") /\ p.m_blobTimestamp = b /\ p.m_frameNum = FrameNum(h, b)
  BY <1>1, ParsedFields, NoneIsLast
<1>3. h.meta \in Metas /\ h.meta.layers \subseteq Layers
  BY <1>1 DEF Frames, Metas
<1> HIDE DEF p
<1>4. Own(p)
  <2>1. CASE <<devCounter, h.meta>> \in announced
    BY <1>2, <2>1 DEF Own, Ambiguous, DeviceOK
  <2>2. CASE devCounter = 0 \/ devCounter \in spoiled
    BY <1>2, <2>2 DEF Own, Ambiguous
  <2> QED  BY <2>1, <2>2 DEF HandlerOK, Counted
<1>5. Fits(p)
  BY <1>2 DEF Fits, Images, Layers, Layer, Empty
<1>6. Whole(p)
  <2>1. ASSUME NEW l \in h.meta.layers PROVE p.image[l].from = b
    <3>1. l \in Layers /\ (l = "scan" => kind = "T")
      BY <1>3 DEF HandlerOK, ScanOfT
    <3> QED  BY <1>2, <3>1, NoneIsLast DEF Images, Layer
  <2>2. ASSUME NEW l \in Layers \ h.meta.layers, kind = "TMini" \/ (kind = "T" /\ l = "scan")
        PROVE  p.image[l] = Empty
    <3>1. CASE l = "scan" /\ kind = "T"
      BY <1>2, <2>2, <3>1, NoneIsLast DEF Images
    <3>2. CASE l = "scan" /\ kind = "TMini"
      BY <1>2, <3>2 DEF Images, HandlerOK, ScanOfT, Layers
    <3>3. CASE l # "scan"
      BY <1>2, <2>2, <3>3 DEF Images
    <3> QED  BY <2>2, <3>1, <3>2, <3>3
  <2> QED  BY <1>1, <1>2, <2>1, <2>2 DEF Whole, FrameNum
<1>7. FrameOK(p)
  BY <1>4, <1>5, <1>6 DEF FrameOK
<1> QED  BY <1>7 DEF p

-----------------------------------------------------------------------------
(* Every step keeps the invariant *)

\* What was announced or spoiled stays so.
Grown ==
  /\ announced \subseteq announced' /\ spoiled \subseteq spoiled'
  /\ UNCHANGED <<kind, version>>

LEMMA Kept ==
  ASSUME Grown
  PROVE  /\ \A h : HandlerOK(h) => HandlerOK(h)'
         /\ \A h : FrameOK(h) => FrameOK(h)'
<1>1. ASSUME NEW h, HandlerOK(h) PROVE HandlerOK(h)'
  BY <1>1 DEF HandlerOK, Counted, ScanOfT, Grown
<1>2. ASSUME NEW h, FrameOK(h) PROVE FrameOK(h)'
  <2>1. Ambiguous(h.m_changeCounter) => Ambiguous(h.m_changeCounter)'
    BY DEF Ambiguous, Grown
  <2> QED  BY <1>2, <2>1 DEF FrameOK, Delivered, Own, Fits, Whole, Grown
<1> QED  BY <1>1, <1>2

LEMMA ParseStep ==
  ASSUME IInv, NEW f, Parse(f), blobs' = blobs + 1, UNCHANGED spoiled, Unannounced
  PROVE  HandlersOK' /\ FramesOK'
<1> DEFINE h == XmlParsed(stream, devCounter, devMeta)
<1>1. DeviceOK /\ blobs' \in Nat /\ Grown /\ user' = user
  BY DEF IInv, DeviceOK, Unannounced, Grown
<1>2. PICK e : Finish(BinaryParsed(h, blobs', devMeta, e), e)
  BY DEF Parse
<1>3. HandlerOK(h) /\ h.m_changeCounter = devCounter
  BY XmlStep
<1> HIDE DEF h
<1> DEFINE p == BinaryParsed(h, blobs', devMeta, e)
<1>4. HandlerOK(p)
  BY <1>1, <1>3, ParsedHandler
<1>5. e = "none" => FrameOK(p)
  BY <1>1, <1>3, ParsedFrame
<1> HIDE DEF p
<1>6. CASE e # "none"
  <2>1. stream' = p /\ UNCHANGED <<offered, user>>
    BY <1>1, <1>2, <1>6 DEF Finish, p
  <2>2. HandlerOK(stream)'
    BY <1>4, <2>1 DEF HandlerOK, Counted, ScanOfT, Unannounced
  <2> QED  BY <2>1, <2>2 DEF IInv, HandlersOK, FramesOK, HandlerOK, Counted, ScanOfT, FrameOK,
              Delivered, Own, Fits, Whole, Ambiguous, Unannounced
<1>7. CASE e = "none"
  <2>1. offered' = p /\ stream' = offered /\ user' = user
    BY <1>1, <1>2, <1>7 DEF Finish, Publish, p
  <2>2. HandlersOK'
    BY <1>4, <2>1 DEF IInv, HandlersOK, HandlerOK, Counted, ScanOfT, Unannounced
  <2>3. FramesOK'
    BY <1>5, <1>7, <2>1 DEF IInv, FramesOK, FrameOK, Delivered, Own, Fits, Whole, Ambiguous, Unannounced
  <2> QED  BY <2>2, <2>3
<1> QED  BY <1>6, <1>7

\* Handlers that no step of the stream has changed.
LEMMA OthersStep ==
  ASSUME IInv, Grown
  PROVE  /\ stream' = stream => HandlerOK(stream)'
         /\ UNCHANGED offered => HandlerOK(offered)' /\ FrameOK(offered)'
         /\ UNCHANGED user => HandlerOK(user)' /\ FrameOK(user)'
<1>1. \A c : Ambiguous(c) => Ambiguous(c)'
  BY DEF Ambiguous, Grown
<1>2. stream' = stream => HandlerOK(stream)'
  BY DEF IInv, HandlersOK, HandlerOK, Counted, ScanOfT, Grown
<1>3. UNCHANGED offered => HandlerOK(offered)' /\ FrameOK(offered)'
  BY <1>1 DEF IInv, HandlersOK, FramesOK, HandlerOK, Counted, ScanOfT, FrameOK, Delivered, Own, Fits,
     Whole, Ambiguous, Grown
<1>4. UNCHANGED user => HandlerOK(user)' /\ FrameOK(user)'
  BY <1>1 DEF IInv, HandlersOK, FramesOK, HandlerOK, Counted, ScanOfT, FrameOK, Delivered, Own, Fits,
     Whole, Ambiguous, Grown
<1> QED  BY <1>2, <1>3, <1>4

LEMMA IInvStep == IInv /\ [Next]_vars => IInv'
<1> SUFFICES ASSUME IInv, [Next]_vars PROVE IInv'
  OBVIOUS
<1>1. DeviceOK
  BY DEF IInv
<1>2. DeviceOK'
  <2>1. CASE Reconfigure \/ Restart
    <3>1. devMeta' \in Metadatas /\ UNCHANGED kind
      BY <2>1 DEF Reconfigure, Restart
    <3>2. devMeta' \in Metas /\ (kind # "T" => "scan" \notin devMeta'.layers)
      BY <3>1, Announced
    <3> QED  BY <1>1, <2>1, <3>1, <3>2 DEF DeviceOK, Reconfigure, Restart, Announce
  <2>2. CASE UNCHANGED <<kind, version, devCounter, devMeta, announced>> /\ blobs' \in {blobs, blobs + 1}
    BY <1>1, <2>2 DEF DeviceOK
  <2>3. CASE ReceiveBlob \/ ReceiveDamagedBinary \/ ReceiveShort \/ ReceiveDamagedXml \/ LoseBlob
    BY <2>2, <2>3 DEF ReceiveBlob, ReceiveDamagedBinary, ReceiveShort, ReceiveDamagedXml, LoseBlob,
       SendsBlob, Unannounced, sender
  <2>4. CASE Take \/ GeneratePointCloud \/ UNCHANGED vars
    BY <2>2, <2>4 DEF Take, GeneratePointCloud, vars, sender, history
  <2> QED  BY <2>1, <2>3, <2>4 DEF Next
<1>3. Grown
  BY DEF Next, ReceiveBlob, ReceiveDamagedBinary, ReceiveShort, ReceiveDamagedXml, LoseBlob, Take,
     GeneratePointCloud, Reconfigure, Restart, Announce, Unannounced, vars, history, Grown
<1>4. CASE HandlersOK' /\ FramesOK'
  BY <1>2, <1>4 DEF IInv
<1>5. CASE ReceiveBlob
  BY <1>4, <1>5, ParseStep DEF ReceiveBlob, SendsBlob
<1>6. CASE ReceiveDamagedBinary
  BY <1>4, <1>6, ParseStep DEF ReceiveDamagedBinary, SendsBlob
<1>7. CASE ReceiveShort
  <2>1. stream' = XmlParsed(stream, devCounter, devMeta) /\ UNCHANGED <<offered, user, spoiled>> /\ Unannounced
    BY <1>7 DEF ReceiveShort, Unannounced
  <2>2. HandlerOK(stream)'
    BY <2>1, XmlStep DEF HandlerOK, Counted, ScanOfT, Unannounced
  <2> QED  BY <1>3, <1>4, <2>1, <2>2, OthersStep DEF HandlersOK, FramesOK
<1>8. CASE ReceiveDamagedXml
  <2>1. CASE Parse("none") /\ UNCHANGED spoiled
    BY <1>4, <1>8, <2>1, ParseStep DEF ReceiveDamagedXml, SendsBlob
  <2>2. CASE /\ stream.m_changeCounter # devCounter
             /\ stream' = XmlFailed(stream, devCounter)
             /\ spoiled' = spoiled \cup {devCounter} /\ UNCHANGED <<offered, user>>
    <3>1. stream' = [stream EXCEPT !.m_changeCounter = devCounter, !.table = NoMetadata]
      BY <2>2 DEF XmlFailed
    <3>2. stream \in Frames /\ ScanOfT(stream) /\ devCounter \in Nat
      BY DEF IInv, HandlersOK, HandlerOK, DeviceOK
    <3>3. /\ stream' \in Frames /\ stream'.m_changeCounter = devCounter /\ stream'.table = NoMetadata
          /\ stream'.meta = stream.meta /\ stream'.image = stream.image
      BY <3>1, <3>2, NoMetadataIsOne DEF Frames
    <3>4. HandlerOK(stream)'
      BY <1>3, <2>2, <3>2, <3>3 DEF HandlerOK, Counted, ScanOfT, Grown
    <3> QED  BY <1>3, <1>4, <2>2, <3>4, OthersStep DEF HandlersOK, FramesOK
  <2> QED  BY <1>8, <2>1, <2>2 DEF ReceiveDamagedXml, Unannounced
<1>9. CASE LoseBlob \/ Reconfigure \/ Restart \/ UNCHANGED vars
  <2>1. UNCHANGED <<stream, offered, user>>
    BY <1>9 DEF LoseBlob, Reconfigure, Restart, vars, handlers
  <2> QED  BY <1>3, <1>4, <2>1, OthersStep DEF HandlersOK, FramesOK
<1>10. CASE Take
  <2>1. user' = offered /\ offered' = user /\ UNCHANGED <<stream, kind, version, announced, spoiled>>
    BY <1>10 DEF Take, history
  <2>2. HandlersOK' /\ FramesOK'
    BY <2>1 DEF IInv, HandlersOK, FramesOK, HandlerOK, Counted, ScanOfT, FrameOK, Delivered, Own,
       Fits, Whole, Ambiguous
  <2> QED  BY <1>4, <2>2
<1>11. CASE GeneratePointCloud
  <2>1. /\ user' = [user EXCEPT !.table = user.meta]
        /\ UNCHANGED <<stream, offered, kind, version, announced, spoiled>>
    BY <1>11 DEF GeneratePointCloud, history
  <2>2. HandlerOK(user) /\ FrameOK(user) /\ user \in Frames
    BY DEF IInv, HandlersOK, FramesOK, HandlerOK
  <2>3. /\ user' \in Frames /\ user'.table = user.meta /\ user'.meta = user.meta
        /\ user'.m_changeCounter = user.m_changeCounter /\ user'.image = user.image
        /\ user'.own = user.own /\ user'.m_frameNum = user.m_frameNum
        /\ user'.m_blobTimestamp = user.m_blobTimestamp
    BY <2>1, <2>2 DEF Frames
  <2>4. HandlerOK(user)'
    BY <2>1, <2>2, <2>3 DEF HandlerOK, Counted, ScanOfT
  <2>5. FrameOK(user)'
    BY <2>1, <2>2, <2>3 DEF FrameOK, Delivered, Own, Fits, Whole, Ambiguous
  <2> QED  BY <1>3, <1>4, <2>1, <2>4, <2>5, OthersStep DEF HandlersOK, FramesOK
<1> QED  BY <1>5, <1>6, <1>7, <1>8, <1>9, <1>10, <1>11 DEF Next

LEMMA InitSafe == Init => IInv
<1> SUFFICES ASSUME Init PROVE IInv
  OBVIOUS
<1>1. Metadata(1, 1, {"distance", "intensity"}) \in Metas
  BY DEF Metadata, Metas, Layers
<1>2. DeviceOK
  BY <1>1 DEF Init, DeviceOK, Metadata
<1>3. NewHandler \in Frames
  <2>1. [l \in Layers |-> Empty] \in [Layers -> [from : Nat, size : Nat]]
    BY DEF Empty, Layer
  <2> QED  BY <2>1, NoMetadataIsOne DEF NewHandler, Frames
<1>4. HandlerOK(NewHandler) /\ ~Delivered(NewHandler)
  BY <1>3, NoMetadataIsOne DEF NewHandler, HandlerOK, Counted, ScanOfT, Delivered, Layers
<1> QED  BY <1>2, <1>4 DEF Init, IInv, HandlersOK, FramesOK, FrameOK

-----------------------------------------------------------------------------
(* The theorems *)

\* Handlers and frames are what the invariant says in every state.
THEOREM Inductive == Spec => []IInv
<1> QED  BY InitSafe, IInvStep, PTL DEF Spec

\* A frame is shown with its own metadata, whichever frames its handler saw
\* before (VisionaryTMiniData.cpp:56), as long as the device counts its
\* configurations.
THEOREM OwnMetadata == Spec => []MetadataIsOwn
<1>1. IInv => MetadataIsOwn
  BY DEF IInv, FramesOK, FrameOK, Own, MetadataIsOwn
<1> QED  BY <1>1, Inductive, PTL

\* A cached table for the point cloud is never that of other metadata
\* (VisionaryData.cpp:130).
THEOREM CurrentTable == Spec => []TableIsCurrent
<1>1. IInv => TableIsCurrent
  BY DEF IInv, HandlersOK, HandlerOK, TableIsCurrent
<1> QED  BY <1>1, Inductive, PTL

\* Map and table have the same size when a point cloud is computed
\* (VisionaryData.cpp:134-146).
THEOREM CloudsFit == Spec => []CloudFits
<1>1. IInv => CloudFits
  BY DEF IInv, FramesOK, FrameOK, Fits, CloudFits
<1> QED  BY <1>1, Inductive, PTL

\* No part of a delivered frame is left from another blob.
THEOREM WholeFrames == Spec => []FrameIsWhole
<1>1. IInv => FrameIsWhole
  BY DEF IInv, FramesOK, FrameOK, Whole, FrameIsWhole
<1> QED  BY <1>1, Inductive, PTL

=============================================================================
