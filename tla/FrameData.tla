----------------------------- MODULE FrameData ------------------------------
(***************************************************************************)
(* What a frame handler holds: the parsers of VisionaryData and its        *)
(* subclasses VisionaryTMiniData, VisionaryTData and VisionarySData, called*)
(* by VisionaryDataStream for one handler after the other.  Three handlers *)
(* rotate: the stream parses into one, FrameGrabber offers one, the user   *)
(* has one.  FrameGrabber.tla shows that they are never shared, so that    *)
(* receiving a frame and taking one are single steps here.                 *)
(*                                                                         *)
(* What makes the content wrong is what a handler keeps from blob to blob: *)
(* the metadata, parsed only when the change counter differs from that of  *)
(* the last blob parsed into the SAME handler; the table for the point     *)
(* cloud, computed once per metadata; layers the metadata does not name.   *)
(*                                                                         *)
(* Images are abstracted to the blob each layer came from and its size in  *)
(* pixels.  "intensity" stands for every layer of the depth map data set   *)
(* but the first, "scan" for the Polar2D and Cartesian data sets of T.     *)
(***************************************************************************)
EXTENDS Integers, FiniteSets

CONSTANTS
  Kinds,        \* the subclasses in use
  MaxBlobs,     \* bound: blobs sent
  MaxChanges,   \* bound: configurations and restarts of the device
  MaxFaults     \* bound: blobs that are damaged

ASSUME FrameDataAssumption ==
  /\ Kinds \subseteq {"TMini", "T", "S"}
  /\ MaxBlobs \in Nat /\ MaxChanges \in Nat /\ MaxFaults \in Nat

VARIABLES
  kind, version,             \* the subclass; the version of the data sets
  stream, offered, user,     \* the three handlers
  available,                 \* m_FrameAvailable of the grabber
  devCounter, devMeta,       \* what the device sends
  announced,                 \* history: the <<counter, metadata>> it has sent
  spoiled,                   \* history: counters whose metadata came damaged
  blobs, changes, faults     \* how many there were

handlers == <<stream, offered, user, available>>
sender   == <<devCounter, devMeta, changes>>
history  == <<announced, spoiled, blobs, faults>>
vars     == <<kind, version, handlers, sender, history>>

Layers == {"distance", "intensity", "scan"}

\* Metadata: image size, camera parameters and the layers present.  Without a
\* depth map data set the size is 0; S always has its data set.
Metadata(size, camera, layers) == [size |-> size, camera |-> camera, layers |-> layers]
NoMetadata == Metadata(0, 0, {})
Metadatas ==
  {Metadata(1, 1, {"distance", "intensity"}), Metadata(1, 2, {"distance", "intensity"}),
   Metadata(2, 1, {"distance"})}
    \cup (IF kind = "T" THEN {Metadata(1, 1, {"distance", "scan"})}
          ELSE {Metadata(1, 1, {"intensity"})})
    \cup (IF kind = "S" THEN {} ELSE {NoMetadata})

\* A layer comes from the blob `from` (0 for none).  A handler parses with the
\* metadata it has in `meta`; `own` (history) is that of the blob it parsed.
Layer(from, size) == [from |-> from, size |-> size]
Empty == Layer(0, 0)

NewHandler == [m_changeCounter |-> 0, meta |-> NoMetadata, table |-> NoMetadata,
               m_frameNum |-> 0, m_blobTimestamp |-> 0,
               image |-> [l \in Layers |-> Empty], own |-> NoMetadata]

Init ==
  /\ kind \in Kinds /\ version \in {1, 2}
  /\ stream = NewHandler /\ offered = NewHandler /\ user = NewHandler
  /\ available = FALSE
  /\ devCounter \in {0, 1} /\ devMeta = Metadata(1, 1, {"distance", "intensity"})
  /\ announced = {<<devCounter, devMeta>>} /\ spoiled = {}
  /\ blobs = 0 /\ changes = 0 /\ faults = 0

-----------------------------------------------------------------------------
(* parseXML *)

\* Mutant: the table for the point cloud outlives its metadata.
XmlParsedTableKept(h, counter, m) ==
  IF h.m_changeCounter = counter THEN h
  ELSE [h EXCEPT !.m_changeCounter = counter, !.meta = m]

\* Mutant: only a greater counter is taken for new metadata.
XmlParsedIfGreater(h, counter, m) ==
  IF counter <= h.m_changeCounter THEN h
  ELSE [h EXCEPT !.m_changeCounter = counter, !.table = NoMetadata, !.meta = m]

\* Nothing is parsed for the counter the handler has.  `table` is NoMetadata
\* for m_preCalcCamInfoType = UNKNOWN, else what m_preCalcCamInfo came from.
XmlParsed(h, counter, m) ==
  IF h.m_changeCounter = counter THEN h
  ELSE [h EXCEPT !.m_changeCounter = counter, !.table = NoMetadata, !.meta = m]

\* The counter is stored before the XML is found to be damaged.
XmlFailed(h, counter) ==
  IF h.m_changeCounter = counter THEN h
  ELSE [h EXCEPT !.m_changeCounter = counter, !.table = NoMetadata]

-----------------------------------------------------------------------------
(* parseBinaryData *)

Amount(m) == m.size * Cardinality(m.layers \ {"scan"})

\* Where a parse with the metadata h can end that has another amount of data
\* than the blob, of metadata m: at the images, when too little is left; at the
\* footer, unless the bytes there happen to be the length; or at the scan.
Misfit(h, m) ==
  {"footer"} \cup (IF Amount(h) > Amount(m) THEN {"images"} ELSE {})
             \cup (IF Amount(h) < Amount(m) \/ "scan" \in m.layers THEN {"none"} ELSE {})
             \cup (IF "scan" \in h.layers THEN {"scan"} ELSE {})

\* Where parsing a blob of metadata m with the metadata of h ends, if the blob
\* itself is damaged at f.
Ends(h, m, f) ==
  IF h.meta.size < 1 THEN {"size"}
  ELSE IF f \in {"header", "extension"} THEN {f}
  ELSE IF Amount(h.meta) = Amount(m) THEN {f}
  ELSE Misfit(h.meta, m)

\* How far a parse that ends at e got.
Order == <<"size", "header", "extension", "images", "footer", "scan", "none">>
Rank(e) == CHOOSE i \in DOMAIN Order : Order[i] = e
Past(e, stage) == Rank(e) > Rank(stage)

\* Mutant: T-Mini does not clear a layer that is absent, as T and S do not.
ImagesKept(h, b, e) ==
  [l \in Layers |->
     IF l = "scan" THEN h.image[l]
     ELSE IF l \in h.meta.layers THEN Layer(b, h.meta.size)
     ELSE Layer(h.image[l].from, h.meta.size)]

\* The maps after a parse of blob b that came past the images.  T-Mini clears
\* the layers that are absent; T and S only resize them.  The scans of T are
\* read last, and cleared when absent.
Images(h, b, e) ==
  [l \in Layers |->
     IF l = "scan"
     THEN IF kind # "T" \/ ~Past(e, "footer") THEN h.image[l]
          ELSE IF l \in h.meta.layers THEN Layer(b, 1) ELSE Empty
     ELSE IF l \in h.meta.layers THEN Layer(b, h.meta.size)
     ELSE IF kind = "TMini" THEN Empty
     ELSE Layer(h.image[l].from, h.meta.size)]

\* The frame number: sent along since version 2 of the data sets, counted by
\* the handler before.
FrameNum(h, b) == IF version > 1 THEN b ELSE h.m_frameNum + 1

\* The handler after a parse of blob b, which carries metadata m, that ends at e.
BinaryParsed(h, b, m, e) ==
  [h EXCEPT !.m_blobTimestamp = IF Past(e, "header") THEN b ELSE @,
            !.m_frameNum = IF Past(e, "extension") THEN FrameNum(h, b) ELSE @,
            !.image = IF Past(e, "images") THEN Images(h, b, e) ELSE @,
            !.own = IF e = "none" THEN m ELSE @]

-----------------------------------------------------------------------------
(* The stream: parseSegmentBinaryData for each blob, and the rotation *)

\* Damage of a blob: of its framing or segments, of the XML, of the binary
\* segment at one of the checks of parseBinaryData ("scan": the copy of a length
\* at the end of a scan).
Damages == {"segments", "xml", "binarySize", "header", "images", "footer"}
             \cup (IF version > 1 THEN {"extension"} ELSE {})
             \cup (IF kind = "T" /\ "scan" \in devMeta.layers THEN {"scan"} ELSE {})

SendsBlob == blobs < MaxBlobs /\ blobs' = blobs + 1
Damaged(d) == faults < MaxFaults /\ faults' = faults + 1 /\ d \in Damages
Unannounced == UNCHANGED <<kind, version, user, sender, announced>>

\* A handler that parsed a whole blob is offered, and the one that was offered
\* goes to the stream.
Publish(h) == offered' = h /\ stream' = offered /\ available' = TRUE

\* Mutant: a frame is offered however its parsing ended.
FinishUnchecked(h, e) == Publish(h)

Finish(h, e) ==
  IF e = "none" THEN Publish(h)
  ELSE stream' = h /\ UNCHANGED <<offered, available>>

\* A blob is parsed: f is its damage, "none" if it has none.
Parse(f) ==
  LET h == XmlParsed(stream, devCounter, devMeta)
  IN  \E e \in Ends(h, devMeta, f) : Finish(BinaryParsed(h, blobs', devMeta, e), e)

ReceiveBlob ==
  /\ SendsBlob
  /\ Parse("none")
  /\ UNCHANGED <<faults, spoiled>>
  /\ Unannounced

ReceiveDamagedBinary ==
  /\ SendsBlob
  /\ \E d \in Damages \ {"segments", "xml", "binarySize"} : Damaged(d) /\ Parse(d)
  /\ UNCHANGED spoiled
  /\ Unannounced

\* The binary segment is too short: the XML has been parsed by then.
ReceiveShort ==
  /\ SendsBlob
  /\ Damaged("binarySize")
  /\ stream' = XmlParsed(stream, devCounter, devMeta)
  /\ UNCHANGED <<offered, available, spoiled>>
  /\ Unannounced

\* Damaged XML is noticed only by a handler that parses it; another parses the
\* images with the metadata it has.
ReceiveDamagedXml ==
  /\ SendsBlob
  /\ Damaged("xml")
  /\ IF stream.m_changeCounter = devCounter
     THEN Parse("none") /\ UNCHANGED spoiled
     ELSE /\ stream' = XmlFailed(stream, devCounter)
          /\ spoiled' = spoiled \cup {devCounter}
          /\ UNCHANGED <<offered, available>>
  /\ Unannounced

\* The blob is lost, or its description of segments is damaged.
LoseBlob ==
  /\ SendsBlob
  /\ Damaged("segments")
  /\ UNCHANGED <<handlers, spoiled>>
  /\ Unannounced

-----------------------------------------------------------------------------
(* The user *)

\* FrameGrabber::getNextFrame or getCurrentFrame.
Take ==
  /\ available
  /\ available' = FALSE
  /\ user' = offered /\ offered' = user
  /\ UNCHANGED <<kind, version, stream, sender, history>>

\* generatePointCloud of a frame that was delivered.
GeneratePointCloud ==
  /\ user.own # NoMetadata
  /\ user.table = NoMetadata
  /\ user' = [user EXCEPT !.table = user.meta]
  /\ UNCHANGED <<kind, version, stream, offered, available, sender, history>>

-----------------------------------------------------------------------------
(* The device *)

Announce == announced' = announced \cup {<<devCounter', devMeta'>>}

\* A new configuration counts the change counter up.
Reconfigure ==
  /\ changes < MaxChanges /\ changes' = changes + 1
  /\ devCounter' = devCounter + 1
  /\ devMeta' \in Metadatas \ {devMeta}
  /\ Announce
  /\ UNCHANGED <<kind, version, handlers, spoiled, blobs, faults>>

\* Another device, or the same after a restart, begins to count again.
Restart ==
  /\ changes < MaxChanges /\ changes' = changes + 1
  /\ devCounter' = 1
  /\ devMeta' \in Metadatas
  /\ Announce
  /\ UNCHANGED <<kind, version, handlers, spoiled, blobs, faults>>

Next ==
  \/ ReceiveBlob \/ ReceiveDamagedBinary \/ ReceiveShort \/ ReceiveDamagedXml \/ LoseBlob
  \/ Take \/ GeneratePointCloud
  \/ Reconfigure \/ Restart

Spec == Init /\ [][Next]_vars

-----------------------------------------------------------------------------
(* Properties *)

Delivered(h) == h.own # NoMetadata

\* A change counter that does not tell metadata apart: used for two, or its
\* metadata came damaged once, or 0, with which new handlers begin.
Ambiguous(c) ==
  \/ c = 0 \/ c \in spoiled
  \/ \E p, q \in announced : p[1] = c /\ q[1] = c /\ p[2] # q[2]

\* "Same XML content as on last received blob" (VisionaryTMiniData.cpp:56): the
\* frame the user holds was parsed with its own metadata, although each of the
\* three handlers saw other blobs before, skipped others, and failed to parse
\* some.
MetadataIsOwn ==
  Delivered(user) /\ ~Ambiguous(user.m_changeCounter) => user.meta = user.own

\* The table of a handler was computed from the metadata it has now, however
\* often it has been round (VisionaryData.cpp:130): a table of another size would
\* be read past its end.
TableIsCurrent ==
  \A h \in {stream, offered, user} : h.table # NoMetadata => h.table = h.meta

\* The map a point cloud is made of has the size of the table computed from the
\* metadata, or is empty (VisionaryData.cpp:134-146 walks both to the end of the
\* map).
CloudFits ==
  Delivered(user) => user.image["distance"].size \in {user.meta.size, 0}

\* No part of a delivered frame is left from another blob, whole or in a parse
\* that failed: timestamp, number and every layer its metadata names belong
\* together.  T-Mini, and the scans of T, hold nothing besides.
FrameIsWhole ==
  Delivered(user) =>
    /\ \A l \in user.meta.layers : user.image[l].from = user.m_blobTimestamp
    /\ version > 1 => user.m_frameNum = user.m_blobTimestamp
    /\ \A l \in Layers \ user.meta.layers :
         (kind = "TMini" \/ (kind = "T" /\ l = "scan")) => user.image[l] = Empty

=============================================================================
