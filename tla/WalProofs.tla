------------------------------ MODULE WalProofs ------------------------------
(***************************************************************************)
(* The write-ahead log, for any connections, pages and numbers of marks,   *)
(* transactions and faults: types, locks and positions in the log.         *)
(***************************************************************************)
EXTENDS WalInv, TLAPS, WellFoundedInduction

-----------------------------------------------------------------------------
(* Data *)

\* A nonempty set of numbers up to a bound has a largest one.
LEMMA MaxIsLargest ==
    ASSUME NEW n \in Nat, NEW S \in SUBSET (0..n), S # {}
    PROVE  Max(S) \in S /\ \A x \in S : x <= Max(S)
<1> DEFINE T == {n - x : x \in S}
<1>1. T \subseteq Nat /\ T # {}
  OBVIOUS
<1>2. PICK y \in T : \A z \in T : ~(<<z, y>> \in OpToRel(<, Nat))
  BY <1>1, WFMin, NatLessThanWellFounded
<1>3. PICK x \in S : y = n - x
  BY <1>2
<1>4. \A z \in S : z <= x
  <2> TAKE z \in S
  <2>1. n - z \in T /\ n - z \in Nat /\ y \in Nat
    BY <1>3
  <2>2. ~(n - z < y)
    BY <1>2, <2>1 DEF OpToRel
  <2> QED
    BY <1>3, <2>2
<1>5. \E m \in S : \A z \in S : m >= z
  BY <1>4
<1> QED
  BY <1>5 DEF Max

\* A nonempty set of numbers has a smallest one.
LEMMA MinIsSmallest ==
    ASSUME NEW S \in SUBSET Nat, S # {}
    PROVE  Min(S) \in S /\ \A x \in S : Min(S) <= x
<1>1. PICK y \in S : \A z \in S : ~(<<z, y>> \in OpToRel(<, Nat))
  BY WFMin, NatLessThanWellFounded
<1>2. \A z \in S : y <= z
  <2> TAKE z \in S
  <2>1. z \in Nat /\ y \in Nat
    OBVIOUS
  <2>2. ~(z < y)
    BY <1>1, <2>1 DEF OpToRel
  <2> QED
    BY <2>1, <2>2
<1>3. \E m \in S : \A z \in S : m =< z
  BY <1>2
<1> QED
  BY <1>3 DEF Min

\* FindFrame and ImageOf of any frames and database.
LastFrame(frames, p, first, last) ==
    Max({0} \cup {i \in first..last : frames[i].page = p})
Img(frames, d, first, last) ==
    [p \in Pages |-> LET i == LastFrame(frames, p, first, last)
                     IN  IF i = 0 THEN d[p] ELSE frames[i].val]

LEMMA FindFrameIsLast ==
    /\ \A p, first, last : FindFrame(p, first, last) = LastFrame(wal.frames, p, first, last)
    /\ \A first, last : ImageOf(first, last) = Img(wal.frames, db, first, last)
BY DEF FindFrame, LastFrame, ImageOf, Img

LEMMA FindFrameIsLastNext ==
    /\ \A p, first, last : FindFrame(p, first, last)' = LastFrame(wal'.frames, p, first, last)
    /\ \A first, last : ImageOf(first, last)' = Img(wal'.frames, db', first, last)
BY DEF FindFrame, LastFrame, ImageOf, Img

LEMMA LastFrameProps ==
    ASSUME NEW frames, NEW p, NEW first \in Nat \ {0}, NEW last \in Nat
    PROVE  /\ \/ LastFrame(frames, p, first, last) = 0
              \/ /\ LastFrame(frames, p, first, last) \in first..last
                 /\ frames[LastFrame(frames, p, first, last)].page = p
           /\ LastFrame(frames, p, first, last) \in Nat
           /\ \A i \in first..last : frames[i].page = p =>
                 i <= LastFrame(frames, p, first, last)
<1> DEFINE S == {0} \cup {i \in first..last : frames[i].page = p}
<1>1. S \in SUBSET (0..last) /\ S # {}
  OBVIOUS
<1>2. Max(S) \in S /\ \A x \in S : x <= Max(S)
  <2> HIDE DEF S
  <2> QED
    BY <1>1, MaxIsLargest
<1> QED
  BY <1>2 DEF LastFrame

-----------------------------------------------------------------------------
(* Types *)

\* A step of connection c leaves it as r.
Sets(c, r) ==
    /\ conn' \in [Conns -> Wals] /\ conn'[c] = r
    /\ \A d \in Conns \ {c} : conn'[d] = conn[d]

LEMMA SetsConn ==
    ASSUME TypeInv, NEW c \in Conns, NEW r \in Wals, conn' = [conn EXCEPT ![c] = r]
    PROVE  Sets(c, r)
BY DEF TypeInv, Sets

LEMMA Fields ==
    ASSUME TypeInv
    PROVE  /\ wal \in WalFiles /\ shm \in Shms /\ db \in Image
           /\ wal.hdr \in Nat /\ wal.frames \in Seq(Frames) /\ Len(wal.frames) \in Nat
           /\ \A i \in 1..Len(wal.frames) : wal.frames[i] \in Frames
           /\ shm.open \in BOOLEAN /\ shm.hdr \in Hdrs /\ shm.nBackfill \in Nat
           /\ shm.nBackfillAttempted \in Nat /\ shm.aReadMark \in [Slots -> Nat]
           /\ shm.hdr.mxFrame \in Nat /\ shm.hdr.aSalt \in Nat /\ shm.hdr.isInit \in BOOLEAN
BY DEF TypeInv, WalFiles, Shms, Hdrs

LEMMA ConnFields ==
    ASSUME TypeInv, NEW c \in Conns
    PROVE  /\ conn[c] \in Wals /\ conn[c].pc \in Pcs
           /\ conn[c].hdr \in Hdrs /\ conn[c].hdr.mxFrame \in Nat /\ conn[c].hdr.aSalt \in Nat
           /\ conn[c].hdr.isInit \in BOOLEAN /\ conn[c].hdr.aFrameCksum \in Seq(Items)
           /\ conn[c].readLock \in -1..(NReader - 1) /\ conn[c].minFrame \in Nat
           /\ conn[c].mxI \in 0..(NReader - 1) /\ conn[c].mxReadMark \in Nat
           /\ conn[c].isCommit \in BOOLEAN /\ conn[c].todo \in SUBSET Pages
           /\ conn[c].iFirst \in Nat /\ conn[c].iFrame \in Nat /\ conn[c].iReCksum \in Nat
           /\ conn[c].i \in Nat /\ conn[c].mxSafeFrame \in Nat /\ conn[c].nBackFill \in Nat
           /\ conn[c].pChange \in BOOLEAN /\ conn[c].isChanged \in BOOLEAN
BY DEF TypeInv, Wals, Hdrs

LEMMA FieldsNext ==
    ASSUME TypeInv'
    PROVE  /\ wal' \in WalFiles /\ shm' \in Shms /\ db' \in Image
           /\ wal'.hdr \in Nat /\ wal'.frames \in Seq(Frames) /\ Len(wal'.frames) \in Nat
           /\ \A i \in 1..Len(wal'.frames) : wal'.frames[i] \in Frames
           /\ shm'.open \in BOOLEAN /\ shm'.hdr \in Hdrs /\ shm'.nBackfill \in Nat
           /\ shm'.nBackfillAttempted \in Nat /\ shm'.aReadMark \in [Slots -> Nat]
           /\ shm'.hdr.mxFrame \in Nat /\ shm'.hdr.aSalt \in Nat /\ shm'.hdr.isInit \in BOOLEAN
BY DEF TypeInv, WalFiles, Shms, Hdrs

LEMMA ConnFieldsNext ==
    ASSUME TypeInv', NEW c \in Conns
    PROVE  /\ conn'[c] \in Wals /\ conn'[c].pc \in Pcs
           /\ conn'[c].hdr \in Hdrs /\ conn'[c].hdr.mxFrame \in Nat /\ conn'[c].hdr.aSalt \in Nat
           /\ conn'[c].hdr.isInit \in BOOLEAN /\ conn'[c].hdr.aFrameCksum \in Seq(Items)
           /\ conn'[c].readLock \in -1..(NReader - 1) /\ conn'[c].minFrame \in Nat
           /\ conn'[c].mxI \in 0..(NReader - 1) /\ conn'[c].mxReadMark \in Nat
           /\ conn'[c].isCommit \in BOOLEAN /\ conn'[c].todo \in SUBSET Pages
           /\ conn'[c].iFirst \in Nat /\ conn'[c].iFrame \in Nat /\ conn'[c].iReCksum \in Nat
           /\ conn'[c].i \in Nat /\ conn'[c].mxSafeFrame \in Nat /\ conn'[c].nBackFill \in Nat
           /\ conn'[c].pChange \in BOOLEAN /\ conn'[c].isChanged \in BOOLEAN
BY DEF TypeInv, Wals, Hdrs

LEMMA FrameFields ==
    ASSUME NEW f \in Frames
    PROVE  /\ f.page \in Pages /\ f.page \in Nat /\ f.val \in Nat /\ f.val \in 0..(2 * MaxTx)
           /\ f.commit \in BOOLEAN /\ f.aSalt \in Nat /\ f.aFrameCksum \in Seq(Items)
<1>1. MaxTx \in Nat /\ Pages \subseteq Nat
  BY WalConstants
<1>2. /\ f.page \in Pages /\ f.val \in 1..(2 * MaxTx)
      /\ f.commit \in BOOLEAN /\ f.aSalt \in Nat /\ f.aFrameCksum \in Seq(Items)
  BY DEF Frames
<1>3. f.val \in Nat /\ f.val \in 0..(2 * MaxTx)
  BY <1>1, <1>2
<1> QED
  BY <1>1, <1>2, <1>3

LEMMA ReadLocks ==
    /\ -1 \in -1..(NReader - 1) /\ 0 \in 0..(NReader - 1) /\ 0 \in -1..(NReader - 1)
    /\ \A i \in Slots : i \in -1..(NReader - 1) /\ i \in 0..(NReader - 1) /\ i > 0
    /\ 1 \in Slots /\ NReader - 1 \in Slots
BY WalConstants DEF Slots

\* Updates of the wal-index.
LEMMA ShmUpdates ==
    ASSUME NEW s \in Shms, NEW x
    PROVE  /\ LET t == [s EXCEPT !.hdr = x]
              IN  /\ t.hdr = x /\ t.open = s.open /\ t.nBackfill = s.nBackfill
                  /\ t.nBackfillAttempted = s.nBackfillAttempted /\ t.aReadMark = s.aReadMark
           /\ LET t == [s EXCEPT !.nBackfill = x]
              IN  /\ t.hdr = s.hdr /\ t.open = s.open /\ t.nBackfill = x
                  /\ t.nBackfillAttempted = s.nBackfillAttempted /\ t.aReadMark = s.aReadMark
           /\ LET t == [s EXCEPT !.nBackfillAttempted = x]
              IN  /\ t.hdr = s.hdr /\ t.open = s.open /\ t.nBackfill = s.nBackfill
                  /\ t.nBackfillAttempted = x /\ t.aReadMark = s.aReadMark
           /\ \A i \in Slots :
                 LET t == [s EXCEPT !.aReadMark[i] = x]
                 IN  /\ t.hdr = s.hdr /\ t.open = s.open /\ t.nBackfill = s.nBackfill
                     /\ t.nBackfillAttempted = s.nBackfillAttempted /\ t.aReadMark[i] = x
                     /\ \A j \in Slots \ {i} : t.aReadMark[j] = s.aReadMark[j]
BY DEF Shms

LEMMA ZeroTypes == ZeroHdr \in Hdrs /\ NewConn \in Wals /\ ZeroShm \in Shms
<1>1. ZeroHdr \in Hdrs
  BY DEF ZeroHdr, Hdrs
<1>2. NewConn \in Wals
  BY <1>1, WalConstants DEF NewConn, Wals, Pcs
<1>3. ZeroShm \in Shms
  BY <1>1 DEF ZeroShm, Shms
<1> QED
  BY <1>1, <1>2, <1>3

LEMMA IdleType ==
    ASSUME NEW h \in Hdrs
    PROVE  /\ Idle(h) \in Wals /\ Idle(h).pc = "idle" /\ Idle(h).hdr = h
           /\ Idle(h).readLock = -1 /\ Idle(h).pChange = FALSE
           /\ Idle(h).iReCksum = 0 /\ Idle(h).nBackFill = 0 /\ Idle(h).isChanged = FALSE
<1>1. NewConn \in Wals
  BY ZeroTypes
<1>2. Idle(h) \in Wals
  BY <1>1 DEF Idle, Wals
<1> QED
  BY <1>2 DEF Idle, NewConn

LEMMA ReadingType ==
    ASSUME NEW r, r.hdr \in Hdrs, r.readLock \in -1..(NReader - 1), r.minFrame \in Nat
    PROVE  /\ Reading(r) \in Wals /\ Reading(r).pc = "read" /\ Reading(r).hdr = r.hdr
           /\ Reading(r).readLock = r.readLock /\ Reading(r).minFrame = r.minFrame
           /\ Reading(r).pChange = FALSE /\ Reading(r).iReCksum = 0
           /\ Reading(r).nBackFill = 0 /\ Reading(r).isChanged = FALSE
<1> DEFINE q == Idle(r.hdr)
<1>1. /\ q \in Wals /\ q.hdr = r.hdr /\ q.pChange = FALSE /\ q.iReCksum = 0
      /\ q.nBackFill = 0 /\ q.isChanged = FALSE
  BY IdleType
<1>2. Reading(r) = [q EXCEPT !.pc = "read", !.readLock = r.readLock, !.minFrame = r.minFrame]
  BY DEF Reading
<1> HIDE DEF q
<1> QED
  BY <1>1, <1>2 DEF Wals, Pcs

\* What readers of the log see is an image.
LEMMA ImgType ==
    ASSUME NEW frames \in Seq(Frames), NEW d \in Image, NEW first \in Nat \ {0},
           NEW last \in 0..Len(frames)
    PROVE  Img(frames, d, first, last) \in Image
<1>1. \A p \in Pages : LET i == LastFrame(frames, p, first, last)
                       IN  (IF i = 0 THEN d[p] ELSE frames[i].val) \in 0..(2 * MaxTx)
  <2> TAKE p \in Pages
  <2> DEFINE i == LastFrame(frames, p, first, last)
  <2>1. i = 0 \/ i \in 1..Len(frames)
    BY LastFrameProps
  <2>2. i # 0 => frames[i] \in Frames
    BY <2>1
  <2> HIDE DEF i
  <2>3. i # 0 => frames[i].val \in 0..(2 * MaxTx)
    BY <2>2, WalConstants DEF Frames
  <2>4. d[p] \in 0..(2 * MaxTx)
    BY DEF Image
  <2> QED
    BY <2>3, <2>4 DEF i
<1> QED
  BY <1>1 DEF Img, Image

LEMMA ImageType ==
    ASSUME TypeInv, NEW first \in Nat \ {0}, NEW last \in 0..Len(wal.frames)
    PROVE  ImageOf(first, last) \in Image
<1>1. wal.frames \in Seq(Frames) /\ db \in Image
  BY Fields DEF TypeInv
<1> QED
  BY <1>1, ImgType, FindFrameIsLast

LEMMA RecoveredType ==
    ASSUME TypeInv
    PROVE  /\ RecoveredFrame \in 0..Len(wal.frames)
           /\ RecoveredHdr \in Hdrs /\ RecoveredHdr.isInit
           /\ RecoveredHdr.mxFrame = RecoveredFrame
           /\ RecoveredHdr.aSalt = IF wal.frames = <<>> THEN 0 ELSE wal.hdr
           /\ tryRecoverBackfill \in Nat
<1> DEFINE S == {0} \cup {n \in 1..Len(wal.frames) :
                     wal.frames[n].commit /\ \A i \in 1..n : walDecodeFrame(i)}
<1>1. Len(wal.frames) \in Nat /\ S \in SUBSET (0..Len(wal.frames)) /\ S # {}
  BY Fields
<1>2. Max(S) \in 0..Len(wal.frames)
  <2> HIDE DEF S
  <2> QED
    BY <1>1, MaxIsLargest
<1>3. RecoveredFrame \in 0..Len(wal.frames)
  BY <1>2 DEF RecoveredFrame
<1> HIDE DEF S
<1>4. wal.frames = <<>> => RecoveredFrame = 0
  BY <1>3
<1>5. HeaderCksum(wal.hdr) \in Seq(Items)
  <2>1. <<0, wal.hdr, FALSE>> \in Items
    BY Fields DEF Items
  <2> QED
    BY <2>1 DEF HeaderCksum
<1>6. RecoveredFrame # 0 => wal.frames[RecoveredFrame].aFrameCksum \in Seq(Items)
  BY <1>3, Fields, SMTT(30) DEF Frames
<1>7. ZeroHdr \in Hdrs
  BY ZeroTypes
<1>8. RecoveredHdr \in Hdrs /\ RecoveredHdr.isInit
      /\ RecoveredHdr.aSalt = IF wal.frames = <<>> THEN 0 ELSE wal.hdr
  <2>1. CASE wal.frames = <<>>
    <3>1. RecoveredHdr = [ZeroHdr EXCEPT !.isInit = TRUE]
      BY <2>1 DEF RecoveredHdr
    <3>2. ZeroHdr.aSalt = 0
      BY DEF ZeroHdr
    <3> QED
      BY <1>7, <2>1, <3>1, <3>2 DEF Hdrs
  <2>2. CASE wal.frames # <<>>
    <3> DEFINE ck == IF RecoveredFrame = 0 THEN HeaderCksum(wal.hdr)
                     ELSE wal.frames[RecoveredFrame].aFrameCksum
    <3>1. ck \in Seq(Items) /\ RecoveredFrame \in Nat /\ wal.hdr \in Nat
      BY <1>3, <1>5, <1>6, Fields
    <3>2. RecoveredHdr = [isInit |-> TRUE, mxFrame |-> RecoveredFrame, aSalt |-> wal.hdr,
                          aFrameCksum |-> ck]
      BY <2>2 DEF RecoveredHdr
    <3> HIDE DEF ck
    <3> QED
      BY <2>2, <3>1, <3>2 DEF Hdrs
  <2> QED
    BY <2>1, <2>2
<1>9. RecoveredHdr.mxFrame = RecoveredFrame
  BY <1>4 DEF RecoveredHdr, ZeroHdr
<1>10. tryRecoverBackfill \in Nat
  BY Fields DEF tryRecoverBackfill
<1> QED
  BY <1>3, <1>8, <1>9, <1>10

LEMMA RestartedInfoType ==
    ASSUME NEW s \in Shms
    PROVE  /\ RestartedInfo(s) \in Shms
           /\ RestartedInfo(s).hdr = s.hdr /\ RestartedInfo(s).nBackfill = 0
           /\ RestartedInfo(s).open = s.open
<1> DEFINE marks == [i \in Slots |-> IF i = 1 THEN 0 ELSE READMARK_NOT_USED]
<1>1. marks \in [Slots -> Nat]
  BY DEF READMARK_NOT_USED
<1>2. RestartedInfo(s) =
        [s EXCEPT !.nBackfill = 0, !.nBackfillAttempted = 0, !.aReadMark = marks]
  BY DEF RestartedInfo
<1> HIDE DEF marks
<1>3. [s EXCEPT !.nBackfill = 0, !.nBackfillAttempted = 0, !.aReadMark = marks] \in Shms
  BY <1>1 DEF Shms
<1> QED
  BY <1>2, <1>3 DEF Shms

LEMMA OpenShmTypes ==
    ASSUME TypeInv, NEW c \in Conns, OpenShm(c)
    PROVE  TypeInv' /\ Sets(c, [conn[c] EXCEPT !.nBackFill = tryRecoverBackfill])
<1> DEFINE r == [conn[c] EXCEPT !.nBackFill = tryRecoverBackfill]
<1>1. r \in Wals
  BY ConnFields, RecoveredType, ZenonT(40) DEF Wals, Pcs
<1>2. Sets(c, r)
  <2>1. conn' = [conn EXCEPT ![c] = r]
    BY DEF OpenShm, Go
  <2> QED
    BY <1>1, <2>1, SetsConn
<1>3. shm' \in Shms
  BY Fields, ZeroTypes DEF OpenShm, Shms
<1> QED
  BY <1>2, <1>3 DEF OpenShm, TypeInv, Sets, files, bounds

LEMMA EndReadTypes ==
    ASSUME TypeInv, NEW c \in Conns, EndRead(c)
    PROVE  TypeInv' /\ Sets(c, Idle(conn[c].hdr))
<1> DEFINE r == Idle(conn[c].hdr)
<1>1. r \in Wals
  BY ConnFields, IdleType DEF Wals, Pcs
<1>2. Sets(c, r)
  <2>1. conn' = [conn EXCEPT ![c] = r]
    BY DEF EndRead, Go
  <2> QED
    BY <1>1, <2>1, SetsConn
<1> QED
  BY <1>2 DEF EndRead, TypeInv, Sets, files, bounds

LEMMA BeginWriteTypes ==
    ASSUME TypeInv, NEW c \in Conns, BeginWrite(c)
    PROVE  TypeInv' /\ Sets(c, [conn[c] EXCEPT !.pc = "write"])
<1> DEFINE r == [conn[c] EXCEPT !.pc = "write"]
<1>1. r \in Wals
  BY ConnFields, ZenonT(40) DEF Wals, Pcs, WritePcs
<1>2. Sets(c, r)
  <2>1. conn' = [conn EXCEPT ![c] = r]
    BY DEF BeginWrite, Go
  <2> QED
    BY <1>1, <2>1, SetsConn
<1> QED
  BY <1>2, WalConstants, ConnFields DEF BeginWrite, TypeInv, Sets, files, bounds

LEMMA RestartInfoTypes ==
    ASSUME TypeInv, NEW c \in Conns, RestartInfo(c)
    PROVE  TypeInv' /\ Sets(c, [conn[c] EXCEPT !.pc = "mark", !.readLock = -1])
<1> DEFINE r == [conn[c] EXCEPT !.pc = "mark", !.readLock = -1]
<1>1. r \in Wals
  BY ConnFields, ReadLocks, ZenonT(40) DEF Wals, Pcs, WritePcs
<1>2. Sets(c, r)
  <2>1. conn' = [conn EXCEPT ![c] = r]
    BY DEF RestartInfo, Go
  <2> QED
    BY <1>1, <2>1, SetsConn
<1>3. shm' \in Shms
  BY Fields, RestartedInfoType DEF RestartInfo
<1> QED
  BY <1>2, <1>3 DEF RestartInfo, TypeInv, Sets, files, bounds

LEMMA KeepHeaderTypes ==
    ASSUME TypeInv, NEW c \in Conns, KeepHeader(c)
    PROVE  TypeInv' /\ Sets(c, [conn[c] EXCEPT !.pc = "frames", !.iFrame = conn[c].hdr.mxFrame])
<1> DEFINE r == [conn[c] EXCEPT !.pc = "frames", !.iFrame = conn[c].hdr.mxFrame]
<1>1. r \in Wals
  BY ConnFields, ZenonT(40) DEF Wals, Pcs, WritePcs, FramePcs
<1>2. Sets(c, r)
  <2>1. conn' = [conn EXCEPT ![c] = r]
    BY DEF KeepHeader, Go
  <2> QED
    BY <1>1, <2>1, SetsConn
<1> QED
  BY <1>2 DEF KeepHeader, TypeInv, Sets, files, bounds

LEMMA CkptInfoTypes ==
    ASSUME TypeInv, NEW c \in Conns, CkptInfo(c)
    PROVE  TypeInv' /\ Sets(c, [conn[c] EXCEPT !.pc = IF conn[c].eMode = "TRUNCATE" THEN "ckTruncate" ELSE "ckHeader"])
<1> DEFINE r == [conn[c] EXCEPT !.pc = IF conn[c].eMode = "TRUNCATE" THEN "ckTruncate" ELSE "ckHeader"]
<1>1. r \in Wals
  BY ConnFields, ZenonT(40) DEF Wals, Pcs, CkptPcs, RestartPcs
<1>2. Sets(c, r)
  <2>1. conn' = [conn EXCEPT ![c] = r]
    BY DEF CkptInfo, Go
  <2> QED
    BY <1>1, <2>1, SetsConn
<1>3. shm' \in Shms
  BY Fields, RestartedInfoType DEF CkptInfo
<1> QED
  BY <1>2, <1>3 DEF CkptInfo, TypeInv, Sets, files, bounds

LEMMA CkptPublishTypes ==
    ASSUME TypeInv, NEW c \in Conns, CkptPublish(c)
    PROVE  TypeInv' /\ Sets(c, [conn[c] EXCEPT !.pc = "ckEnd"])
<1> DEFINE r == [conn[c] EXCEPT !.pc = "ckEnd"]
<1>1. r \in Wals
  BY ConnFields, ZenonT(40) DEF Wals, Pcs, CkptPcs
<1>2. Sets(c, r)
  <2>1. conn' = [conn EXCEPT ![c] = r]
    BY DEF CkptPublish, Go
  <2> QED
    BY <1>1, <2>1, SetsConn
<1>3. shm' \in Shms
  BY Fields, ConnFields DEF CkptPublish, Shms
<1> QED
  BY <1>2, <1>3 DEF CkptPublish, TypeInv, Sets, files, bounds

LEMMA CkptTruncateTypes ==
    ASSUME TypeInv, NEW c \in Conns, CkptTruncate(c)
    PROVE  TypeInv' /\ Sets(c, [conn[c] EXCEPT !.pc = "ckEnd"])
<1> DEFINE r == [conn[c] EXCEPT !.pc = "ckEnd"]
<1>1. r \in Wals
  BY ConnFields, ZenonT(40) DEF Wals, Pcs, CkptPcs
<1>2. Sets(c, r)
  <2>1. conn' = [conn EXCEPT ![c] = r]
    BY DEF CkptTruncate, Go
  <2> QED
    BY <1>1, <2>1, SetsConn
<1> QED
  BY <1>2 DEF CkptTruncate, TypeInv, Sets, files, bounds, WalFiles

LEMMA CkptFailTypes ==
    ASSUME TypeInv, NEW c \in Conns, CkptFail(c)
    PROVE  TypeInv' /\ Sets(c, [conn[c] EXCEPT !.pc = "ckEnd"])
<1> DEFINE r == [conn[c] EXCEPT !.pc = "ckEnd"]
<1>1. r \in Wals
  BY ConnFields DEF Wals, Pcs, CkptPcs
<1>2. Sets(c, r)
  <2>1. conn' = [conn EXCEPT ![c] = r]
    BY DEF CkptFail, Go
  <2> QED
    BY <1>1, <2>1, SetsConn
<1> QED
  BY <1>2 DEF CkptFail, TypeInv, Sets, files, bounds

LEMMA CkptEndTypes ==
    ASSUME TypeInv, NEW c \in Conns, CkptEnd(c)
    PROVE  TypeInv' /\ Sets(c, Idle(IF conn[c].isChanged THEN ZeroHdr ELSE conn[c].hdr))
<1> DEFINE r == Idle(IF conn[c].isChanged THEN ZeroHdr ELSE conn[c].hdr)
<1>1. r \in Wals
  BY ConnFields, IdleType, ZeroTypes DEF Wals, Pcs
<1>2. Sets(c, r)
  <2>1. conn' = [conn EXCEPT ![c] = r]
    BY DEF CkptEnd, Go
  <2> QED
    BY <1>1, <2>1, SetsConn
<1> QED
  BY <1>2 DEF CkptEnd, TypeInv, Sets, files, bounds

LEMMA CkptBackfillTypes ==
    ASSUME TypeInv, NEW c \in Conns, CkptBackfill(c)
    PROVE  TypeInv' /\ Sets(c, [conn[c] EXCEPT !.pc = "ckDone"])
<1> DEFINE r == [conn[c] EXCEPT !.pc = "ckDone"]
<1>1. r \in Wals
  BY ConnFields, ZenonT(40) DEF Wals, Pcs, CkptPcs
<1>2. Sets(c, r)
  <2>1. conn' = [conn EXCEPT ![c] = r]
    BY DEF CkptBackfill, Go
  <2> QED
    BY <1>1, <2>1, SetsConn
<1>3. shm' \in Shms
  BY Fields, ConnFields DEF CkptBackfill, Shms
<1> QED
  BY <1>2, <1>3 DEF CkptBackfill, TypeInv, Sets, files, bounds

LEMMA TryType ==
    ASSUME NEW h \in Hdrs
    PROVE  /\ [Idle(h) EXCEPT !.pc = "try"] \in Wals
           /\ [Idle(h) EXCEPT !.pc = "try"].pc = "try"
           /\ [Idle(h) EXCEPT !.pc = "try"].hdr = h
           /\ [Idle(h) EXCEPT !.pc = "try"].readLock = -1
           /\ [Idle(h) EXCEPT !.pc = "try"].nBackFill = 0
           /\ [Idle(h) EXCEPT !.pc = "try"].isChanged = FALSE
<1> DEFINE q == Idle(h)
<1>1. q \in Wals /\ q.hdr = h /\ q.readLock = -1 /\ q.nBackFill = 0 /\ q.isChanged = FALSE
  BY IdleType
<1> HIDE DEF q
<1>2. [q EXCEPT !.pc = "try"] \in Wals /\ [q EXCEPT !.pc = "try"].pc = "try"
  BY <1>1 DEF Wals, Pcs
<1>3. /\ [q EXCEPT !.pc = "try"].hdr = h /\ [q EXCEPT !.pc = "try"].readLock = -1
      /\ [q EXCEPT !.pc = "try"].nBackFill = 0 /\ [q EXCEPT !.pc = "try"].isChanged = FALSE
  BY <1>1
<1> QED
  BY <1>2, <1>3 DEF q

LEMMA FillType ==
    ASSUME TypeInv, NEW c \in Conns, NEW image \in Image, Fill(c, image)
    PROVE  cache' \in [Conns -> Image \cup {None}]
BY DEF TypeInv, Fill

LEMMA ReadHdrTypes ==
    ASSUME TypeInv, NEW c \in Conns, ReadHdr(c)
    PROVE  TypeInv' /\ Sets(c, [Idle(shm.hdr) EXCEPT !.pc = "try"])
<1> DEFINE r == [Idle(shm.hdr) EXCEPT !.pc = "try"]
<1>1. r \in Wals
  BY Fields, TryType
<1>2. Sets(c, r)
  <2>1. conn' = [conn EXCEPT ![c] = r]
    BY DEF ReadHdr
  <2> QED
    BY <1>1, <2>1, SetsConn
<1>3. cache' \in [Conns -> Image \cup {None}]
  BY DEF ReadHdr, TypeInv
<1> QED
  BY <1>2, <1>3 DEF ReadHdr, TypeInv, Sets, files, bounds

\* The wal-index that recovery builds, and the header it leaves in the connection.
LEMMA RecoverTypes ==
    ASSUME TypeInv, NEW c \in Conns, Recover(c)
    PROVE  /\ TypeInv' /\ Sets(c, [Idle(RecoveredHdr) EXCEPT !.pc = "try"])
           /\ shm'.hdr = RecoveredHdr /\ shm'.open = shm.open
           /\ shm'.nBackfill = IF conn[c].nBackFill <= RecoveredFrame
                               THEN conn[c].nBackFill ELSE 0
<1> DEFINE r == [Idle(RecoveredHdr) EXCEPT !.pc = "try"]
           n == IF conn[c].nBackFill <= RecoveredHdr.mxFrame THEN conn[c].nBackFill ELSE 0
           marks == [i \in Slots |-> IF i = 1 /\ RecoveredHdr.mxFrame > 0
                                     THEN RecoveredHdr.mxFrame ELSE READMARK_NOT_USED]
<1>1. r \in Wals
  BY RecoveredType, TryType
<1>2. Sets(c, r)
  <2>1. conn' = [conn EXCEPT ![c] = r]
    BY DEF Recover
  <2> QED
    BY <1>1, <2>1, SetsConn
<1>3. n \in Nat /\ marks \in [Slots -> Nat]
  BY RecoveredType, ConnFields, Fields DEF READMARK_NOT_USED
<1>4. shm' = [shm EXCEPT !.hdr = RecoveredHdr, !.nBackfill = n,
                         !.nBackfillAttempted = RecoveredHdr.mxFrame, !.aReadMark = marks]
  BY DEF Recover
<1>5. cache' \in [Conns -> Image \cup {None}]
  BY DEF Recover, TypeInv
<1> HIDE DEF marks, n, r
<1>6. shm' \in Shms /\ shm'.hdr = RecoveredHdr /\ shm'.open = shm.open /\ shm'.nBackfill = n
  <2> DEFINE h == RecoveredHdr
             m == RecoveredHdr.mxFrame
  <2>1. h \in Hdrs /\ m \in Nat /\ shm \in Shms
    BY RecoveredType, Fields DEF Hdrs
  <2>2. shm' = [shm EXCEPT !.hdr = h, !.nBackfill = n,
                           !.nBackfillAttempted = m, !.aReadMark = marks]
    BY <1>4
  <2> HIDE DEF h, m
  <2>3. shm' \in Shms /\ shm'.hdr = h /\ shm'.open = shm.open /\ shm'.nBackfill = n
    BY <1>3, <2>1, <2>2 DEF Shms
  <2> QED
    BY <2>3 DEF h
<1> QED
  BY <1>2, <1>5, <1>6, RecoveredType, ZenonT(40) DEF Recover, TypeInv, Sets, files, bounds, n, r

LEMMA LockZeroTypes ==
    ASSUME TypeInv, NEW c \in Conns, LockZero(c)
    PROVE  /\ TypeInv'
           /\ IF shm.hdr = conn[c].hdr THEN Sets(c, Reading([conn[c] EXCEPT !.readLock = 0]))
                                       ELSE Sets(c, Idle(conn[c].hdr))
<1> DEFINE q == [conn[c] EXCEPT !.readLock = 0]
<1>4. /\ q.hdr = conn[c].hdr /\ q.hdr \in Hdrs
      /\ q.readLock = 0 /\ q.minFrame \in Nat
  BY ConnFields DEF Wals
<1>1. Reading(q) \in Wals /\ Idle(conn[c].hdr) \in Wals
  <2> HIDE DEF q
  <2> QED
    BY <1>4, ConnFields, IdleType, ReadingType, ReadLocks
<1>2. CASE shm.hdr = conn[c].hdr
  <2>1. conn' = [conn EXCEPT ![c] = Reading(q)] /\ Fill(c, db)
    BY <1>2 DEF LockZero
  <2>2. Sets(c, Reading(q))
    BY <1>1, <2>1, SetsConn
  <2> QED
    BY <1>2, <2>1, <2>2, FillType, Fields DEF LockZero, TypeInv, Sets, files, bounds
<1>3. CASE shm.hdr # conn[c].hdr
  <2>1. conn' = [conn EXCEPT ![c] = Idle(conn[c].hdr)] /\ UNCHANGED cache
    BY <1>3 DEF LockZero
  <2>2. Sets(c, Idle(conn[c].hdr))
    BY <1>1, <2>1, SetsConn
  <2> QED
    BY <1>3, <2>1, <2>2 DEF LockZero, TypeInv, Sets, files, bounds
<1> QED
  BY <1>2, <1>3

\* Where a connection starts again.
Retried(c) == IF writeLock = c THEN [conn[c] EXCEPT !.pc = "mark", !.readLock = -1]
              ELSE Idle(conn[c].hdr)

LEMMA RetryTypes ==
    ASSUME TypeInv, NEW c \in Conns, Retry(c)
    PROVE  Sets(c, Retried(c))
<1>3. [conn[c] EXCEPT !.pc = "mark", !.readLock = -1] \in Wals
  BY ConnFields, ReadLocks, ZenonT(40) DEF Wals, Pcs, WritePcs
<1>1. Retried(c) \in Wals
  BY <1>3, ConnFields, IdleType DEF Retried
<1>2. conn' = [conn EXCEPT ![c] = Retried(c)]
  BY DEF Retry, Retried
<1> QED
  BY <1>1, <1>2, SetsConn

\* A connection that chose mark i at frame m.
Chosen(c, i, m) == [conn[c] EXCEPT !.pc = "lockMark", !.mxI = i, !.mxReadMark = m]

LEMMA ChosenTypes ==
    ASSUME TypeInv, NEW c \in Conns, NEW i \in Slots, NEW m \in Nat,
           conn' = [conn EXCEPT ![c].pc = "lockMark", ![c].mxI = i, ![c].mxReadMark = m]
    PROVE  Sets(c, Chosen(c, i, m))
<1>1. Chosen(c, i, m) \in Wals
  BY ConnFields, ReadLocks, ZenonT(40) DEF Chosen, Wals, Pcs
<1>2. conn' = [conn EXCEPT ![c] = Chosen(c, i, m)]
  BY DEF Chosen
<1> QED
  BY <1>1, <1>2, SetsConn

\* The mark is a free one that was moved up to the header, or a usable one, or
\* there is none.
LEMMA ChooseMarkTypes ==
    ASSUME TypeInv, NEW c \in Conns, ChooseMark(c)
    PROVE  /\ TypeInv'
           /\ \/ \E i \in Slots : /\ ~LockedAll /\ Shared(i) = {}
                                  /\ Sets(c, Chosen(c, i, conn[c].hdr.mxFrame))
                                  /\ shm' = [shm EXCEPT !.aReadMark[i] = conn[c].hdr.mxFrame]
              \/ Sets(c, Retried(c)) /\ UNCHANGED shm
              \/ \E i \in Slots, m \in 0..conn[c].hdr.mxFrame :
                    Sets(c, Chosen(c, i, m)) /\ UNCHANGED shm
<1> DEFINE mxFrame == conn[c].hdr.mxFrame
           Usable == {i \in Slots : shm.aReadMark[i] <= mxFrame}
           M == {0} \cup {shm.aReadMark[i] : i \in Usable}
           I == {0} \cup {i \in Usable : shm.aReadMark[i] = Max(M)}
           Free == {i \in Slots : ~LockedAll /\ Shared(i) = {}}
<1>1. mxFrame \in Nat /\ shm.aReadMark \in [Slots -> Nat]
  BY Fields, ConnFields
<1>2. Max(M) \in 0..mxFrame
  <2>1. M \in SUBSET (0..mxFrame) /\ M # {}
    BY <1>1
  <2> HIDE DEF M, mxFrame
  <2> QED
    BY <1>1, <2>1, MaxIsLargest
<1>3. Max(I) \in 0..(NReader - 1)
  <2>1. I \in SUBSET (0..(NReader - 1)) /\ I # {} /\ NReader - 1 \in Nat
    BY ReadLocks, WalConstants
  <2> HIDE DEF I
  <2> QED
    BY <2>1, MaxIsLargest
<1>4. Free # {} => Min(Free) \in Free
  <2>1. Free \in SUBSET Nat
    BY DEF Slots
  <2> HIDE DEF Free
  <2> QED
    BY <2>1, MinIsSmallest
<1>5. \/ /\ Free # {}
         /\ conn' = [conn EXCEPT ![c].pc = "lockMark", ![c].mxI = Min(Free),
                                 ![c].mxReadMark = mxFrame]
         /\ shm' = [shm EXCEPT !.aReadMark[Min(Free)] = mxFrame]
      \/ Retry(c) /\ UNCHANGED shm
      \/ /\ Max(I) # 0
         /\ conn' = [conn EXCEPT ![c].pc = "lockMark", ![c].mxI = Max(I),
                                 ![c].mxReadMark = Max(M)]
         /\ UNCHANGED shm
  BY DEF ChooseMark
<1>6. UNCHANGED <<wal, db, writeLock, ckptLock, cache, nTx, nSalt, nRare, kept>>
  BY DEF ChooseMark, files, bounds
<1> HIDE DEF M, I, Free
<1>7. CASE /\ Free # {}
           /\ conn' = [conn EXCEPT ![c].pc = "lockMark", ![c].mxI = Min(Free),
                                   ![c].mxReadMark = mxFrame]
           /\ shm' = [shm EXCEPT !.aReadMark[Min(Free)] = mxFrame]
  <2>1. Min(Free) \in Slots /\ ~LockedAll /\ Shared(Min(Free)) = {}
    BY <1>4, <1>7 DEF Free
  <2>2. Sets(c, Chosen(c, Min(Free), mxFrame))
    BY <1>1, <1>7, <2>1, ChosenTypes
  <2>3. shm' \in Shms
    BY <1>1, <1>7, <2>1, Fields DEF Shms
  <2> QED
    BY <1>6, <1>7, <2>1, <2>2, <2>3 DEF TypeInv, Sets
<1>8. CASE Retry(c) /\ UNCHANGED shm
  BY <1>6, <1>8, RetryTypes DEF TypeInv, Sets
<1>9. CASE /\ Max(I) # 0
           /\ conn' = [conn EXCEPT ![c].pc = "lockMark", ![c].mxI = Max(I),
                                   ![c].mxReadMark = Max(M)]
           /\ UNCHANGED shm
  <2>1. Max(I) \in Slots /\ Max(M) \in Nat
    BY <1>1, <1>2, <1>3, <1>9, WalConstants DEF Slots
  <2>2. Sets(c, Chosen(c, Max(I), Max(M)))
    BY <1>9, <2>1, ChosenTypes
  <2> QED
    BY <1>2, <1>6, <1>9, <2>1, <2>2 DEF TypeInv, Sets
<1> QED
  BY <1>5, <1>7, <1>8, <1>9

LEMMA LockMarkTypes ==
    ASSUME TypeInv, NEW c \in Conns, LockMark(c)
    PROVE  /\ TypeInv'
           /\ IF LockedAll THEN Sets(c, Retried(c))
              ELSE Sets(c, [conn[c] EXCEPT !.pc = "check", !.readLock = conn[c].mxI,
                                           !.minFrame = shm.nBackfill + 1])
<1>1. CASE LockedAll
  <2>1. Retry(c)
    BY <1>1 DEF LockMark
  <2> QED
    BY <1>1, <2>1, RetryTypes DEF LockMark, TypeInv, Sets, files, bounds
<1>2. CASE ~LockedAll
  <2> DEFINE r == [conn[c] EXCEPT !.pc = "check", !.readLock = conn[c].mxI,
                                  !.minFrame = shm.nBackfill + 1]
  <2>1. conn[c].mxI \in -1..(NReader - 1) /\ shm.nBackfill + 1 \in Nat
    BY ConnFields, Fields
  <2>2. r \in Wals
    BY <2>1, ConnFields, ZenonT(40) DEF Wals, Pcs
  <2>3. conn' = [conn EXCEPT ![c] = r]
    BY <1>2 DEF LockMark
  <2>4. Sets(c, r)
    BY <2>2, <2>3, SetsConn
  <2> QED
    BY <1>2, <2>4 DEF LockMark, TypeInv, Sets, files, bounds
<1> QED
  BY <1>1, <1>2

\* Mark and header are what they were: the read transaction is open, or the writer
\* goes on; else the connection retries.
LEMMA CheckMarkTypes ==
    ASSUME TypeInv, LockInv, PosInv, NEW c \in Conns, CheckMark(c)
    PROVE  /\ TypeInv'
           /\ \/ Sets(c, Retried(c)) /\ UNCHANGED cache
              \/ /\ shm.aReadMark[conn[c].mxI] = conn[c].mxReadMark /\ shm.hdr = conn[c].hdr
                 /\ writeLock = c /\ Sets(c, [conn[c] EXCEPT !.pc = "header"])
                 /\ UNCHANGED cache
              \/ /\ shm.aReadMark[conn[c].mxI] = conn[c].mxReadMark /\ shm.hdr = conn[c].hdr
                 /\ writeLock # c /\ Sets(c, Reading(conn[c]))
                 /\ Fill(c, ImageOf(conn[c].minFrame, conn[c].hdr.mxFrame))
<1> DEFINE same == shm.aReadMark[conn[c].mxI] = conn[c].mxReadMark /\ shm.hdr = conn[c].hdr
<1>1. \/ Retry(c) /\ UNCHANGED cache
      \/ same /\ writeLock = c /\ Go(c, "header") /\ UNCHANGED cache
      \/ /\ same /\ writeLock # c /\ conn' = [conn EXCEPT ![c] = Reading(conn[c])]
         /\ Fill(c, ImageOf(conn[c].minFrame, conn[c].hdr.mxFrame))
  BY DEF CheckMark
<1>2. /\ UNCHANGED <<wal, db, shm, writeLock, ckptLock, nTx, nSalt, nRare, kept>>
      /\ conn[c].pc = "check"
  BY DEF CheckMark, files, bounds
<1>3. CASE Retry(c) /\ UNCHANGED cache
  BY <1>2, <1>3, RetryTypes DEF TypeInv, Sets
<1>4. CASE same /\ writeLock = c /\ Go(c, "header") /\ UNCHANGED cache
  <2> DEFINE r == [conn[c] EXCEPT !.pc = "header"]
  <2>1. r \in Wals
    BY ConnFields, ZenonT(40) DEF Wals, Pcs, WritePcs, FramePcs
  <2>2. conn' = [conn EXCEPT ![c] = r]
    BY <1>4 DEF Go
  <2>3. Sets(c, r)
    BY <2>1, <2>2, SetsConn
  <2> QED
    BY <1>2, <1>4, <2>3 DEF TypeInv, Sets
<1>5. CASE /\ same /\ writeLock # c /\ conn' = [conn EXCEPT ![c] = Reading(conn[c])]
           /\ Fill(c, ImageOf(conn[c].minFrame, conn[c].hdr.mxFrame))
  <2>1. Reading(conn[c]) \in Wals
    BY ConnFields, ReadingType
  <2>2. Sets(c, Reading(conn[c]))
    BY <1>5, <2>1, SetsConn
  <2>3. conn[c].minFrame \in Nat \ {0} /\ conn[c].hdr.mxFrame \in 0..Len(wal.frames)
    BY <1>2, <1>5, ConnFields, Fields DEF LockInv, LockInvOf, PosInv, ShapeInv, ReaderInv, mx
  <2>4. ImageOf(conn[c].minFrame, conn[c].hdr.mxFrame) \in Image
    BY <2>3, ImageType
  <2>5. cache' \in [Conns -> Image \cup {None}]
    BY <1>5, <2>4, FillType
  <2> QED
    BY <1>2, <1>5, <2>2, <2>5 DEF TypeInv, Sets
<1> QED
  BY <1>1, <1>3, <1>4, <1>5

LEMMA WalFramesTypes ==
    ASSUME TypeInv, NEW c \in Conns, NEW P \in SUBSET Pages, NEW commit \in BOOLEAN,
           WalFrames(c, P, commit)
    PROVE  /\ TypeInv'
           /\ Sets(c, [conn[c] EXCEPT
                !.pc = IF conn[c].readLock = 0 THEN "restartLog" ELSE "header",
                !.isCommit = commit, !.todo = P,
                !.iFirst = IF conn[c].hdr = shm.hdr THEN 0 ELSE shm.hdr.mxFrame + 1])
<1> DEFINE pc == IF conn[c].readLock = 0 THEN "restartLog" ELSE "header"
           first == IF conn[c].hdr = shm.hdr THEN 0 ELSE shm.hdr.mxFrame + 1
           r == [conn[c] EXCEPT !.pc = pc, !.isCommit = commit, !.todo = P, !.iFirst = first]
<1>1. pc \in Pcs /\ first \in Nat
  BY Fields DEF Pcs, WritePcs, FramePcs
<1>2. conn' = [conn EXCEPT ![c] = r]
  BY DEF WalFrames
<1> HIDE DEF pc, first
<1>3. r \in Wals
  BY <1>1, ConnFields, ZenonT(40) DEF Wals
<1>4. Sets(c, r)
  BY <1>2, <1>3, SetsConn
<1>5. nRare' \in Nat
  BY DEF WalFrames, TypeInv
<1> QED
  BY <1>4, <1>5 DEF WalFrames, TypeInv, Sets, files, pc, first

LEMMA RestartedType ==
    ASSUME TypeInv, NEW h \in Hdrs
    PROVE  /\ RestartedHdr(h) \in Hdrs /\ RestartedHdr(h).mxFrame = 0
           /\ RestartedHdr(h).aSalt = nSalt + 1 /\ RestartedHdr(h).isInit = h.isInit
<1>1. nSalt + 1 \in Nat
  BY DEF TypeInv
<1>2. RestartedHdr(h) = [h EXCEPT !.mxFrame = 0, !.aSalt = nSalt + 1]
  BY DEF RestartedHdr
<1>3. [h EXCEPT !.mxFrame = 0, !.aSalt = nSalt + 1] \in Hdrs
  BY <1>1 DEF Hdrs
<1> QED
  BY <1>2, <1>3 DEF Hdrs

LEMMA RestartLogTypes ==
    ASSUME TypeInv, NEW c \in Conns, RestartLog(c)
    PROVE  /\ TypeInv'
           /\ \/ /\ shm.nBackfill > 0 /\ NoWalReader
                 /\ Sets(c, [conn[c] EXCEPT !.pc = "restartInfo", !.hdr = RestartedHdr(conn[c].hdr),
                                            !.pChange = TRUE])
                 /\ shm' = [shm EXCEPT !.hdr = RestartedHdr(conn[c].hdr)]
                 /\ nSalt' = nSalt + 1
              \/ /\ Sets(c, [conn[c] EXCEPT !.pc = "mark", !.readLock = -1])
                 /\ UNCHANGED <<shm, nSalt>>
<1> DEFINE h == RestartedHdr(conn[c].hdr)
           q == [conn[c] EXCEPT !.pc = "restartInfo", !.hdr = h, !.pChange = TRUE]
           r == [conn[c] EXCEPT !.pc = "mark", !.readLock = -1]
<1>1. \/ /\ shm.nBackfill > 0 /\ NoWalReader
         /\ conn' = [conn EXCEPT ![c] = q]
         /\ shm' = [shm EXCEPT !.hdr = h] /\ nSalt' = nSalt + 1
      \/ conn' = [conn EXCEPT ![c] = r] /\ UNCHANGED <<shm, nSalt>>
  BY DEF RestartLog
<1>2. h \in Hdrs
  BY ConnFields, RestartedType
<1>3. q \in Wals
  <2> HIDE DEF h
  <2> QED
    BY <1>2, ConnFields, ZenonT(40) DEF Wals, Pcs, WritePcs
<1>4. r \in Wals
  BY ConnFields, ReadLocks DEF Wals, Pcs, WritePcs
<1>5. UNCHANGED <<wal, db, writeLock, ckptLock, cache, nTx, nRare, kept>>
  BY DEF RestartLog, files
<1>6. CASE /\ shm.nBackfill > 0 /\ NoWalReader
           /\ conn' = [conn EXCEPT ![c] = q]
           /\ shm' = [shm EXCEPT !.hdr = h] /\ nSalt' = nSalt + 1
  <2>1. Sets(c, q)
    BY <1>3, <1>6, SetsConn
  <2>2. shm' \in Shms
    <3> HIDE DEF h
    <3> QED
      BY <1>2, <1>6, Fields DEF Shms
  <2> QED
    BY <1>5, <1>6, <2>1, <2>2 DEF TypeInv, Sets
<1>7. CASE conn' = [conn EXCEPT ![c] = r] /\ UNCHANGED <<shm, nSalt>>
  <2>1. Sets(c, r)
    BY <1>4, <1>7, SetsConn
  <2> QED
    BY <1>5, <1>7, <2>1 DEF TypeInv, Sets
<1> QED
  BY <1>1, <1>6, <1>7

LEMMA HeaderCksumType ==
    ASSUME NEW salt \in Nat
    PROVE  HeaderCksum(salt) \in Seq(Items)
<1>1. <<0, salt, FALSE>> \in Items
  BY DEF Items
<1> QED
  BY <1>1 DEF HeaderCksum

LEMMA WriteHeaderTypes ==
    ASSUME TypeInv, NEW c \in Conns, NEW salt \in 1..(nSalt + 1), WriteHeader(c, salt)
    PROVE  /\ TypeInv' /\ nSalt' \in {nSalt, nSalt + 1} /\ salt <= nSalt'
           /\ wal' = [wal EXCEPT !.hdr = salt]
           /\ Sets(c, [conn[c] EXCEPT !.pc = "frames", !.hdr.aSalt = salt,
                                      !.hdr.aFrameCksum = HeaderCksum(salt), !.iFrame = 0])
<1> DEFINE h == [conn[c].hdr EXCEPT !.aSalt = salt, !.aFrameCksum = HeaderCksum(salt)]
           r == [conn[c] EXCEPT !.pc = "frames", !.hdr = h, !.iFrame = 0]
<1>9. salt \in Nat /\ nSalt \in Nat
  BY DEF TypeInv
<1>1. h \in Hdrs
  BY <1>9, ConnFields, HeaderCksumType DEF Hdrs
<1>2. r \in Wals
  <2>1. "frames" \in Pcs /\ conn[c] \in Wals
    BY ConnFields DEF Pcs, WritePcs, FramePcs
  <2> HIDE DEF h
  <2> QED
    BY <1>1, <2>1 DEF Wals
<1>3. r = [conn[c] EXCEPT !.pc = "frames", !.hdr.aSalt = salt,
                          !.hdr.aFrameCksum = HeaderCksum(salt), !.iFrame = 0]
  BY ConnFields DEF Wals
<1>4. conn' = [conn EXCEPT ![c] = r]
  BY ZenonT(40) DEF WriteHeader
<1>5. Sets(c, r)
  BY <1>2, <1>4, SetsConn
<1>6. nSalt' \in {nSalt, salt} /\ salt <= nSalt' /\ nSalt <= nSalt'
  <2>1. {nSalt, salt} \in SUBSET (0..(nSalt + 1)) /\ {nSalt, salt} # {}
    BY <1>9
  <2> DEFINE S == {nSalt, salt}
  <2>2. Max(S) \in S /\ \A x \in S : x <= Max(S)
    <3>1. S \in SUBSET (0..(nSalt + 1)) /\ S # {} /\ nSalt + 1 \in Nat
      BY <1>9, <2>1
    <3> HIDE DEF S
    <3> QED
      BY <3>1, MaxIsLargest
  <2> QED
    BY <2>2 DEF WriteHeader
<1>7. nSalt' \in {nSalt, nSalt + 1}
  BY <1>9, <1>6
<1>8. wal' \in WalFiles
  BY <1>9, Fields DEF WriteHeader, WalFiles
<1> QED
  BY <1>9, <1>3, <1>5, <1>6, <1>7, <1>8 DEF WriteHeader, TypeInv, Sets

LEMMA PcTypes ==
    \A pc \in {"frames", "publish", "recksum", "write", "ckMarks", "ckLock0", "ckCopy", "ckDone",
               "ckEnd", "ckInfo", "ckHeader", "ckPublish", "ckTruncate"} : pc \in Pcs
BY DEF Pcs, WritePcs, FramePcs, CkptPcs, BackfillPcs, RestartPcs

\* A turn of the loop over the dirty pages, for page p of connection c.
CommitsNow(c, p) == conn[c].isCommit /\ conn[c].todo \ {p} = {}
NextPc(c, p) == IF conn[c].todo \ {p} # {} THEN "frames" ELSE "publish"
NewDigest(c, p) == <<p, Content(conn[c]), CommitsNow(c, p)>>
NewCksum(c, p) == Append(conn[c].hdr.aFrameCksum, NewDigest(c, p))
NewFrame(c, p) ==
    [page |-> p, val |-> Content(conn[c]), commit |-> CommitsNow(c, p),
     aSalt |-> IF conn[c].iReCksum = 0 THEN conn[c].hdr.aSalt ELSE 0,
     aFrameCksum |-> IF conn[c].iReCksum = 0 THEN NewCksum(c, p) ELSE <<>>]

\* The page stands at i already, ...
Overwrites(c, p, i) ==
    /\ conn[c].iFirst > 0 /\ ~CommitsNow(c, p)
    /\ i = FindFrame(p, conn[c].minFrame, conn[c].hdr.mxFrame)
    /\ conn[c].iFirst <= i /\ i <= conn[c].hdr.mxFrame /\ wal.frames[i].page = p
    /\ wal' = [wal EXCEPT !.frames[i].val = Content(conn[c])]
    /\ Sets(c, [conn[c] EXCEPT !.todo = conn[c].todo \ {p}, !.pc = NextPc(c, p),
                  !.iReCksum = IF conn[c].iReCksum = 0 \/ i < conn[c].iReCksum THEN i
                               ELSE conn[c].iReCksum])

\* ... or it is written after the frames there are.
Appends(c, p) ==
    /\ wal' = [wal EXCEPT !.frames = PutFrame(wal.frames, conn[c].iFrame + 1, NewFrame(c, p))]
    /\ Sets(c, [conn[c] EXCEPT !.todo = conn[c].todo \ {p}, !.iFrame = conn[c].iFrame + 1,
                  !.hdr.aFrameCksum = IF conn[c].iReCksum = 0 THEN NewCksum(c, p)
                                      ELSE conn[c].hdr.aFrameCksum,
                  !.pc = IF CommitsNow(c, p) /\ conn[c].iReCksum > 0 THEN "recksum"
                         ELSE NextPc(c, p)])

\* The frames after a write at i: one more if i is the next position.
LEMMA PutFrameProps ==
    ASSUME NEW frames \in Seq(Frames), NEW i \in 1..(Len(frames) + 1), NEW f \in Frames
    PROVE  /\ PutFrame(frames, i, f) \in Seq(Frames)
           /\ Len(PutFrame(frames, i, f)) = IF i > Len(frames) THEN i ELSE Len(frames)
           /\ PutFrame(frames, i, f)[i] = f
           /\ \A j \in 1..Len(frames) : j # i => PutFrame(frames, i, f)[j] = frames[j]
<1>1. CASE i > Len(frames)
  <2>1. PutFrame(frames, i, f) = Append(frames, f) /\ i = Len(frames) + 1
    BY <1>1 DEF PutFrame
  <2> QED
    BY <2>1
<1>2. CASE ~(i > Len(frames))
  <2>1. PutFrame(frames, i, f) = [frames EXCEPT ![i] = f] /\ i \in 1..Len(frames)
    BY <1>2 DEF PutFrame
  <2> QED
    BY <1>2, <2>1
<1> QED
  BY <1>1, <1>2

LEMMA FrameUpdate ==
    ASSUME TypeInv, NEW i \in 1..Len(wal.frames), NEW f \in Frames,
           wal' = [wal EXCEPT !.frames = [wal.frames EXCEPT ![i] = f]]
    PROVE  /\ wal' \in WalFiles /\ wal'.hdr = wal.hdr /\ wal'.frames \in Seq(Frames)
           /\ Len(wal'.frames) = Len(wal.frames) /\ wal'.frames[i] = f
           /\ \A j \in 1..Len(wal.frames) : j # i => wal'.frames[j] = wal.frames[j]
<1> DEFINE fr == [wal.frames EXCEPT ![i] = f]
<1>1. /\ fr \in Seq(Frames) /\ Len(fr) = Len(wal.frames) /\ fr[i] = f
      /\ \A j \in 1..Len(wal.frames) : j # i => fr[j] = wal.frames[j]
  BY Fields
<1> HIDE DEF fr
<1>2. wal' \in WalFiles /\ wal'.hdr = wal.hdr /\ wal'.frames = fr
  BY <1>1, Fields DEF WalFiles, fr
<1> QED
  BY <1>1, <1>2

LEMMA ContentType ==
    ASSUME TypeInv, NEW c \in Conns, nTx > 0
    PROVE  Content(conn[c]) \in 1..(2 * MaxTx) /\ Content(conn[c]) \in Nat
BY WalConstants DEF Content, TypeInv

\* What a writer that has frames to write knows.
LEMMA WriterKnows ==
    ASSUME TypeInv, LockInv, PosInv, NEW c \in Conns, conn[c].pc \in WritePcs
    PROVE  /\ Writing(c) /\ nTx > 0 /\ writeLock = c /\ ckptLock # c /\ WriterInv(c)
           /\ conn[c].pc \in FramePcs => conn[c].minFrame \in Nat \ {0}
<1>1. conn[c].pc \notin CkptPcs
  BY DEF WritePcs, FramePcs, CkptPcs, BackfillPcs, RestartPcs
<1>2. writeLock = c /\ ckptLock # c
  BY <1>1 DEF LockInv, LockInvOf
<1>3. Writing(c) /\ nTx > 0 /\ WriterInv(c)
  BY <1>2 DEF LockInv, LockInvOf, PosInv, Writing
<1>4. conn[c].pc \in FramePcs => conn[c].minFrame \in Nat \ {0}
  BY ConnFields, SMTT(30) DEF LockInv, LockInvOf, PosInv, ReaderInv
<1> QED
  BY <1>2, <1>3, <1>4

LEMMA WriteFrameTypes ==
    ASSUME TypeInv, LockInv, PosInv, NEW c \in Conns, WriteFrame(c)
    PROVE  /\ TypeInv'
           /\ \E p \in conn[c].todo : Appends(c, p) \/ \E i \in Nat : Overwrites(c, p, i)
<1> DEFINE p == Min(conn[c].todo)
           i == FindFrame(p, conn[c].minFrame, conn[c].hdr.mxFrame)
           inPlace == conn[c].iFirst > 0 /\ ~CommitsNow(c, p) /\ i >= conn[c].iFirst
<1>8. /\ UNCHANGED <<db, shm, writeLock, ckptLock, cache, nTx, nSalt, nRare, kept>>
      /\ conn[c].pc = "frames"
  BY DEF WriteFrame, bounds
<1>1. /\ Writing(c) /\ nTx > 0 /\ WriterInv(c) /\ conn[c].minFrame \in Nat \ {0}
      /\ conn[c].todo # {}
  BY <1>8, WriterKnows DEF WritePcs, FramePcs, LockInv, LockInvOf, Writing
<1>2. p \in conn[c].todo /\ p \in Pages
  BY <1>1, ConnFields, MinIsSmallest, WalConstants
<1>3. \/ /\ inPlace
         /\ wal' = [wal EXCEPT !.frames[i].val = Content(conn[c])]
         /\ conn' = [conn EXCEPT ![c].todo = conn[c].todo \ {p}, ![c].pc = NextPc(c, p),
                       ![c].iReCksum = IF @ = 0 THEN i ELSE Min({@, i})]
      \/ /\ wal' = [wal EXCEPT !.frames = PutFrame(@, conn[c].iFrame + 1, NewFrame(c, p))]
         /\ conn' = [conn EXCEPT ![c].todo = conn[c].todo \ {p}, ![c].iFrame = @ + 1,
                       ![c].hdr.aFrameCksum = IF conn[c].iReCksum = 0 THEN NewCksum(c, p) ELSE @,
                       ![c].pc = IF CommitsNow(c, p) /\ conn[c].iReCksum > 0 THEN "recksum"
                                 ELSE NextPc(c, p)]
  BY DEF WriteFrame, NextPc, CommitsNow, NewCksum, NewDigest, NewFrame
<1>4. Content(conn[c]) \in 1..(2 * MaxTx) /\ Content(conn[c]) \in Nat
  BY <1>1, ContentType
<1>5. NextPc(c, p) \in Pcs
  BY PcTypes DEF NextPc
<1>6. CASE /\ inPlace
           /\ wal' = [wal EXCEPT !.frames[i].val = Content(conn[c])]
           /\ conn' = [conn EXCEPT ![c].todo = conn[c].todo \ {p}, ![c].pc = NextPc(c, p),
                         ![c].iReCksum = IF @ = 0 THEN i ELSE Min({@, i})]
  <2>1. /\ i \in Nat /\ 0 < i /\ i <= conn[c].hdr.mxFrame /\ wal.frames[i].page = p
    BY <1>1, <1>6, ConnFields, FindFrameIsLast, LastFrameProps
  <2>2. i \in 1..Len(wal.frames)
    BY <1>1, <2>1, ConnFields, Fields DEF WriterInv
  <2> HIDE DEF i
  <2>3. \A n \in Nat : Min({n, i}) = IF i < n THEN i ELSE n
    <3> TAKE n \in Nat
    <3> DEFINE S == {n, i}
    <3>1. Min(S) \in S /\ \A x \in S : Min(S) <= x
      <4>1. S \in SUBSET Nat /\ S # {}
        BY <2>1
      <4> HIDE DEF S
      <4> QED
        BY <4>1, MinIsSmallest
    <3> QED
      BY <2>1, <3>1
  <2> DEFINE k == IF conn[c].iReCksum = 0 \/ i < conn[c].iReCksum THEN i ELSE conn[c].iReCksum
             r == [conn[c] EXCEPT !.todo = conn[c].todo \ {p}, !.pc = NextPc(c, p), !.iReCksum = k]
  <2>4. (IF conn[c].iReCksum = 0 THEN i ELSE Min({conn[c].iReCksum, i})) = k /\ k \in Nat
    BY <2>1, <2>3, ConnFields
  <2>5. conn' = [conn EXCEPT ![c] = r]
    BY <1>6, <2>4
  <2>6. r \in Wals
    <3> HIDE DEF k
    <3> QED
      BY <1>5, <2>4, ConnFields, ZenonT(40) DEF Wals
  <2>7. Sets(c, r)
    BY <2>5, <2>6, SetsConn
  <2> DEFINE f == [wal.frames[i] EXCEPT !.val = Content(conn[c])]
  <2>8. f \in Frames
    BY <1>4, <2>2, Fields DEF Frames
  <2>9. wal' = [wal EXCEPT !.frames = [wal.frames EXCEPT ![i] = f]]
    BY <1>6
  <2>10. wal' \in WalFiles
    <3> HIDE DEF f
    <3> QED
      BY <2>2, <2>8, <2>9, FrameUpdate
  <2>11. TypeInv'
    BY <1>8, <2>7, <2>10, SMTT(30) DEF TypeInv, Sets
  <2>12. Overwrites(c, p, i)
    BY <1>6, <2>1, <2>7, ConnFields DEF Overwrites, i
  <2> QED
    BY <1>2, <2>1, <2>11, <2>12
<1>7. CASE /\ wal' = [wal EXCEPT !.frames = PutFrame(@, conn[c].iFrame + 1, NewFrame(c, p))]
           /\ conn' = [conn EXCEPT ![c].todo = conn[c].todo \ {p}, ![c].iFrame = @ + 1,
                         ![c].hdr.aFrameCksum = IF conn[c].iReCksum = 0 THEN NewCksum(c, p) ELSE @,
                         ![c].pc = IF CommitsNow(c, p) /\ conn[c].iReCksum > 0 THEN "recksum"
                                   ELSE NextPc(c, p)]
  <2>1. NewDigest(c, p) \in Items
    <3>1. CommitsNow(c, p) \in BOOLEAN
      BY DEF CommitsNow
    <3>2. p \in Nat
      BY <1>2, WalConstants
    <3> QED
      BY <1>4, <3>1, <3>2 DEF NewDigest, Items
  <2>2. NewCksum(c, p) \in Seq(Items)
    BY <2>1, ConnFields DEF NewCksum
  <2>3. NewFrame(c, p) \in Frames
    BY <1>2, <1>4, <2>2, ConnFields DEF NewFrame, Frames, CommitsNow
  <2>4. conn[c].iFrame + 1 \in 1..(Len(wal.frames) + 1)
    BY <1>8, <1>1, ConnFields, Fields, SMTT(30) DEF WriterInv
  <2>5. wal' \in WalFiles
    BY <1>7, <2>3, <2>4, PutFrameProps, Fields DEF WalFiles
  <2> DEFINE ck == IF conn[c].iReCksum = 0 THEN NewCksum(c, p) ELSE conn[c].hdr.aFrameCksum
             h == [conn[c].hdr EXCEPT !.aFrameCksum = ck]
             pc == IF CommitsNow(c, p) /\ conn[c].iReCksum > 0 THEN "recksum" ELSE NextPc(c, p)
             r == [conn[c] EXCEPT !.todo = conn[c].todo \ {p}, !.iFrame = conn[c].iFrame + 1,
                                  !.hdr = h, !.pc = pc]
  <2>6. h \in Hdrs
    BY <2>2, ConnFields DEF Hdrs
  <2>7. pc \in Pcs
    BY <1>5, PcTypes
  <2>8. r \in Wals
    <3>1. conn[c].todo \ {p} \in SUBSET Pages /\ conn[c].iFrame + 1 \in Nat /\ conn[c] \in Wals
      BY ConnFields
    <3> HIDE DEF h, pc
    <3> QED
      BY <2>6, <2>7, <3>1 DEF Wals
  <2>9. conn' = [conn EXCEPT ![c] = r]
    BY <1>7, ZenonT(40)
  <2>10. Sets(c, r)
    BY <2>8, <2>9, SetsConn
  <2>11. r = [conn[c] EXCEPT !.todo = conn[c].todo \ {p}, !.iFrame = conn[c].iFrame + 1,
                  !.hdr.aFrameCksum = ck, !.pc = pc]
    BY ConnFields DEF Wals
  <2>12. TypeInv'
    BY <1>8, <2>5, <2>10 DEF TypeInv, Sets
  <2>13. Appends(c, p)
    BY <1>7, <2>10, <2>11 DEF Appends
  <2> QED
    BY <1>2, <2>12, <2>13
<1> QED
  BY <1>3, <1>6, <1>7

\* One more checksum is right.
RightCksum(c) ==
    LET i == conn[c].iReCksum
    IN  Append(IF i = 1 THEN HeaderCksum(wal.hdr) ELSE wal.frames[i - 1].aFrameCksum,
               Digest(wal.frames[i]))
RightFrame(c) == [wal.frames[conn[c].iReCksum] EXCEPT
                    !.aSalt = conn[c].hdr.aSalt, !.aFrameCksum = RightCksum(c)]

LEMMA RewriteChecksumTypes ==
    ASSUME TypeInv, LockInv, PosInv, NEW c \in Conns, RewriteChecksum(c)
    PROVE  /\ TypeInv'
           /\ conn[c].iReCksum \in 1..Len(wal.frames) /\ RightFrame(c) \in Frames
           /\ wal' = [wal EXCEPT !.frames = [wal.frames EXCEPT ![conn[c].iReCksum] = RightFrame(c)]]
           /\ Sets(c, [conn[c] EXCEPT !.hdr.aFrameCksum = RightCksum(c),
                 !.iReCksum = IF conn[c].iReCksum = conn[c].iFrame THEN 0 ELSE conn[c].iReCksum + 1,
                 !.pc = IF conn[c].iReCksum = conn[c].iFrame THEN "publish" ELSE "recksum"])
<1> DEFINE i == conn[c].iReCksum
           ck == RightCksum(c)
<1>1. /\ UNCHANGED <<db, shm, writeLock, ckptLock, cache, nTx, nSalt, nRare, kept>>
      /\ conn[c].pc = "recksum"
  BY DEF RewriteChecksum, bounds
<1>2. i \in 1..Len(wal.frames)
  BY <1>1, WriterKnows, ConnFields, Fields DEF WritePcs, FramePcs, WriterInv
<1>3. wal.frames[i] \in Frames /\ (i # 1 => wal.frames[i - 1] \in Frames)
  BY <1>2, Fields
<1>4. Digest(wal.frames[i]) \in Items
  <2> DEFINE f == wal.frames[i]
  <2>1. f \in Frames
    BY <1>3
  <2> HIDE DEF f
  <2>2. f.page \in Nat /\ f.val \in Nat /\ f.commit \in BOOLEAN
    BY <2>1, FrameFields
  <2>4. <<f.page, f.val, f.commit>> \in Items
    BY <2>2 DEF Items
  <2> QED
    BY <2>4 DEF Digest, f
<1>5. HeaderCksum(wal.hdr) \in Seq(Items) /\ (i # 1 => wal.frames[i - 1].aFrameCksum \in Seq(Items))
  BY <1>3, Fields, HeaderCksumType DEF Frames
<1>6. ck \in Seq(Items)
  <2>1. (IF i = 1 THEN HeaderCksum(wal.hdr) ELSE wal.frames[i - 1].aFrameCksum) \in Seq(Items)
    BY <1>5
  <2> QED
    BY <1>4, <2>1 DEF RightCksum
<1>7. RightFrame(c) \in Frames
  BY <1>3, <1>6, ConnFields, Zenon DEF RightFrame, Frames
<1>8. wal' = [wal EXCEPT !.frames = [wal.frames EXCEPT ![i] = RightFrame(c)]]
  BY DEF RewriteChecksum, RightFrame, RightCksum
<1>9. wal' \in WalFiles
  BY <1>2, <1>7, <1>8, FrameUpdate
<1> DEFINE h == [conn[c].hdr EXCEPT !.aFrameCksum = ck]
           k == IF i = conn[c].iFrame THEN 0 ELSE i + 1
           pc == IF i = conn[c].iFrame THEN "publish" ELSE "recksum"
           r == [conn[c] EXCEPT !.hdr = h, !.iReCksum = k, !.pc = pc]
<1>10. h \in Hdrs
  BY <1>6, ConnFields DEF Hdrs
<1>11. r \in Wals
  <2>1. k \in Nat /\ pc \in Pcs /\ conn[c] \in Wals
    BY ConnFields, PcTypes, SMTT(30)
  <2> HIDE DEF h, k, pc
  <2> QED
    BY <1>10, <2>1 DEF Wals
<1>12. conn' = [conn EXCEPT ![c] = r]
  BY Zenon DEF RewriteChecksum, RightCksum
<1>13. Sets(c, r)
  BY <1>11, <1>12, SetsConn
<1>14. r = [conn[c] EXCEPT !.hdr.aFrameCksum = ck, !.iReCksum = k, !.pc = pc]
  BY ConnFields DEF Wals
<1>15. TypeInv'
  BY <1>1, <1>9, <1>13 DEF TypeInv, Sets
<1> QED
  BY <1>2, <1>7, <1>8, <1>13, <1>14, <1>15, SMTT(30)

\* A commit shares the header, a spill keeps it private.
Committed(c) == Reading([conn[c] EXCEPT !.hdr = PublishedHdr(conn[c])])
Spilled(c) == [Committed(c) EXCEPT !.pc = "write", !.iReCksum = conn[c].iReCksum]

LEMMA PublishedType ==
    ASSUME TypeInv, NEW c \in Conns
    PROVE  /\ PublishedHdr(conn[c]) \in Hdrs /\ Committed(c) \in Wals /\ Spilled(c) \in Wals
           /\ PublishedHdr(conn[c]).mxFrame = conn[c].iFrame
           /\ PublishedHdr(conn[c]).aSalt = conn[c].hdr.aSalt
           /\ PublishedHdr(conn[c]).isInit = conn[c].hdr.isInit
           /\ PublishedHdr(conn[c]).aFrameCksum = conn[c].hdr.aFrameCksum
           /\ \A r \in {Committed(c), Spilled(c)} :
                 /\ r.hdr = PublishedHdr(conn[c]) /\ r.readLock = conn[c].readLock
                 /\ r.minFrame = conn[c].minFrame /\ r.pChange = FALSE /\ r.isChanged = FALSE
                 /\ r.nBackFill = 0
           /\ Committed(c).pc = "read" /\ Spilled(c).pc = "write"
           /\ Committed(c).iReCksum = 0 /\ Spilled(c).iReCksum = conn[c].iReCksum
<1> DEFINE h == PublishedHdr(conn[c])
           q == [conn[c] EXCEPT !.hdr = h]
           s == Committed(c)
<1>1. /\ h \in Hdrs /\ h.mxFrame = conn[c].iFrame /\ h.aSalt = conn[c].hdr.aSalt
      /\ h.isInit = conn[c].hdr.isInit /\ h.aFrameCksum = conn[c].hdr.aFrameCksum
  BY ConnFields DEF PublishedHdr, Hdrs
<1> HIDE DEF h
<1>2. q.hdr = h /\ q.readLock = conn[c].readLock /\ q.minFrame = conn[c].minFrame
  BY ConnFields DEF Wals
<1>3. /\ s \in Wals /\ s.pc = "read" /\ s.hdr = h /\ s.readLock = conn[c].readLock
      /\ s.minFrame = conn[c].minFrame /\ s.pChange = FALSE /\ s.iReCksum = 0
      /\ s.nBackFill = 0 /\ s.isChanged = FALSE
  <2>1. s = Reading(q)
    BY DEF Committed, h
  <2>2. q.hdr \in Hdrs /\ q.readLock \in -1..(NReader - 1) /\ q.minFrame \in Nat
    BY <1>1, <1>2, ConnFields
  <2> HIDE DEF q, s
  <2> QED
    BY <1>2, <2>1, <2>2, ReadingType
<1>4. Spilled(c) = [s EXCEPT !.pc = "write", !.iReCksum = conn[c].iReCksum]
  BY DEF Spilled
<1> HIDE DEF s
<1>5. Spilled(c) \in Wals
  <2>1. s \in Wals /\ "write" \in Pcs /\ conn[c].iReCksum \in Nat
    BY <1>3, PcTypes, ConnFields
  <2> QED
    BY <1>4, <2>1 DEF Wals
<1>6. /\ Spilled(c).pc = "write" /\ Spilled(c).iReCksum = conn[c].iReCksum /\ Spilled(c).hdr = h
      /\ Spilled(c).readLock = s.readLock /\ Spilled(c).minFrame = s.minFrame
      /\ Spilled(c).pChange = s.pChange /\ Spilled(c).isChanged = s.isChanged
      /\ Spilled(c).nBackFill = s.nBackFill
  BY <1>3, <1>4 DEF Wals
<1> QED
  BY <1>1, <1>3, <1>5, <1>6 DEF h, s

LEMMA PublishTypes ==
    ASSUME TypeInv, LockInv, PosInv, NEW c \in Conns, Publish(c)
    PROVE  /\ TypeInv'
           /\ \/ /\ conn[c].isCommit /\ Sets(c, Committed(c))
                 /\ shm' = [shm EXCEPT !.hdr = PublishedHdr(conn[c])]
                 /\ cache' = [cache EXCEPT ![c] = ImageOf(conn[c].minFrame, conn[c].iFrame)]
                 /\ writeLock' = None
              \/ ~conn[c].isCommit /\ Sets(c, Spilled(c)) /\ UNCHANGED <<shm, cache, writeLock>>
<1>1. UNCHANGED <<wal, db, ckptLock, nTx, nSalt, nRare, kept>> /\ conn[c].pc = "publish"
  BY DEF Publish, files, bounds
<1>2. CASE conn[c].isCommit
  <2>1. /\ conn' = [conn EXCEPT ![c] = Committed(c)]
        /\ shm' = [shm EXCEPT !.hdr = PublishedHdr(conn[c])]
        /\ cache' = [cache EXCEPT ![c] = ImageOf(conn[c].minFrame, conn[c].iFrame)]
        /\ writeLock' = None
    BY <1>2 DEF Publish, Committed
  <2>2. Sets(c, Committed(c))
    BY <2>1, PublishedType, SetsConn
  <2>3. shm' \in Shms
    BY <2>1, PublishedType, Fields DEF Shms
  <2>4. /\ conn[c].iFrame \in 0..Len(wal.frames) /\ conn[c].minFrame \in Nat \ {0}
    BY <1>1, WriterKnows, ConnFields, Fields DEF WritePcs, FramePcs, WriterInv
  <2>5. ImageOf(conn[c].minFrame, conn[c].iFrame) \in Image
    BY <2>4, ImageType
  <2> QED
    BY <1>1, <1>2, <2>1, <2>2, <2>3, <2>5 DEF TypeInv, Sets
<1>3. CASE ~conn[c].isCommit
  <2>1. conn' = [conn EXCEPT ![c] = Spilled(c)] /\ UNCHANGED <<shm, cache, writeLock>>
    BY <1>3 DEF Publish, Committed, Spilled
  <2>2. Sets(c, Spilled(c))
    BY <2>1, PublishedType, SetsConn
  <2> QED
    BY <1>1, <1>3, <2>1, <2>2 DEF TypeInv, Sets
<1> QED
  BY <1>2, <1>3

LEMMA RollbackTypes ==
    ASSUME TypeInv, NEW c \in Conns, Rollback(c)
    PROVE  TypeInv' /\ Sets(c, Reading([conn[c] EXCEPT !.hdr = shm.hdr]))
<1> DEFINE q == [conn[c] EXCEPT !.hdr = shm.hdr]
<1>1. q.hdr \in Hdrs /\ q.readLock \in -1..(NReader - 1) /\ q.minFrame \in Nat
  BY ConnFields, Fields DEF Wals
<1>2. conn' = [conn EXCEPT ![c] = Reading(q)]
  BY DEF Rollback
<1> HIDE DEF q
<1>3. Sets(c, Reading(q))
  BY <1>1, <1>2, ReadingType, SetsConn
<1> QED
  BY <1>3 DEF Rollback, TypeInv, Sets, files, q

\* A checkpoint that begins has the shared header.
LEMMA CkptBeginTypes ==
    ASSUME TypeInv, NEW c \in Conns, NEW mode \in {"PASSIVE", "TRUNCATE"}, CkptBegin(c, mode)
    PROVE  LET full == mode = "TRUNCATE" /\ writeLock = None IN
           /\ TypeInv'
           /\ Sets(c, [Idle(shm.hdr) EXCEPT
                 !.pc = IF shm.nBackfill < shm.hdr.mxFrame THEN "ckMarks" ELSE "ckDone",
                 !.eMode = IF full THEN "TRUNCATE" ELSE "PASSIVE",
                 !.i = 1, !.mxSafeFrame = shm.hdr.mxFrame,
                 !.isChanged = (conn[c].hdr # shm.hdr)])
           /\ writeLock' = IF full THEN c ELSE writeLock
<1> DEFINE full == mode = "TRUNCATE" /\ writeLock = None
           pc == IF shm.nBackfill < shm.hdr.mxFrame THEN "ckMarks" ELSE "ckDone"
           eMode == IF full THEN "TRUNCATE" ELSE "PASSIVE"
           q == Idle(shm.hdr)
           changed == (conn[c].hdr # shm.hdr)
           m == shm.hdr.mxFrame
           r == [q EXCEPT !.pc = pc, !.eMode = eMode, !.i = 1, !.mxSafeFrame = m,
                          !.isChanged = changed]
<1>1. /\ q \in Wals /\ pc \in Pcs /\ eMode \in {None, "PASSIVE", "TRUNCATE"}
      /\ m \in Nat /\ changed \in BOOLEAN
  BY IdleType, Fields, PcTypes
<1>2. conn' = [conn EXCEPT ![c] = r]
  BY DEF CkptBegin
<1>3. nRare' \in Nat
  BY DEF CkptBegin, TypeInv
<1> HIDE DEF q, pc, eMode, changed, m
<1>4. r \in Wals
  BY <1>1 DEF Wals
<1>5. Sets(c, r)
  BY <1>2, <1>4, SetsConn
<1>6. TypeInv'
  BY <1>3, <1>5 DEF CkptBegin, TypeInv, Sets, files
<1> QED
  BY <1>5, <1>6 DEF CkptBegin, q, pc, eMode, changed, m

LEMMA CkptMarkTypes ==
    ASSUME TypeInv, LockInv, PosInv, NEW c \in Conns, CkptMark(c)
    PROVE  LET r == conn[c]
               y == shm.aReadMark[r.i]
               free == ~LockedAll /\ Shared(r.i) = {}
               safe == IF r.mxSafeFrame > y /\ ~free THEN y ELSE r.mxSafeFrame
           IN  /\ TypeInv' /\ r.i \in Slots
               /\ \/ /\ r.mxSafeFrame > y /\ free
                     /\ \E m \in Nat : shm' = [shm EXCEPT !.aReadMark[r.i] = m]
                  \/ ~(r.mxSafeFrame > y /\ free) /\ UNCHANGED shm
               /\ Sets(c, [r EXCEPT !.mxSafeFrame = safe, !.i = r.i + 1,
                     !.pc = IF r.i < NReader - 1 THEN "ckMarks"
                            ELSE IF shm.nBackfill < safe THEN "ckLock0" ELSE "ckDone"])
<1> DEFINE i == conn[c].i
           y == shm.aReadMark[i]
           free == ~LockedAll /\ Shared(i) = {}
           safe == IF conn[c].mxSafeFrame > y /\ ~free THEN y ELSE conn[c].mxSafeFrame
           pc == IF i < NReader - 1 THEN "ckMarks"
                 ELSE IF shm.nBackfill < safe THEN "ckLock0" ELSE "ckDone"
           m == IF i = 1 THEN conn[c].mxSafeFrame ELSE READMARK_NOT_USED
           r == [conn[c] EXCEPT !.mxSafeFrame = safe, !.i = i + 1, !.pc = pc]
<1>1. i \in Slots /\ i <= NReader - 1 /\ i \in Nat
  <2>1. CkptInv(c) /\ conn[c].pc = "ckMarks"
    BY DEF CkptMark, PosInv
  <2>2. i \in Slots
    BY <2>1 DEF CkptInv
  <2> QED
    BY <2>2, WalConstants DEF Slots
<1>2. y \in Nat /\ safe \in Nat /\ m \in Nat
  BY <1>1, ConnFields, Fields, SMTT(30) DEF READMARK_NOT_USED
<1>3. /\ shm' = IF conn[c].mxSafeFrame > y /\ free THEN [shm EXCEPT !.aReadMark[i] = m] ELSE shm
      /\ UNCHANGED <<wal, db, writeLock, ckptLock, cache, nTx, nSalt, nRare, kept>>
  BY DEF CkptMark, files, bounds
<1>4. conn' = [conn EXCEPT ![c] = r]
  <2>1. \/ i < NReader - 1 /\ ~(i = NReader - 1)
        \/ i = NReader - 1 /\ ~(i < NReader - 1)
    BY <1>1, WalConstants
  <2> QED
    BY <2>1 DEF CkptMark
<1>5. pc \in Pcs
  BY PcTypes
<1> HIDE DEF safe, pc, m, free
<1>6. r \in Wals
  <2>1. i + 1 \in Nat /\ conn[c] \in Wals
    BY <1>1, ConnFields
  <2> HIDE DEF i
  <2> QED
    BY <1>2, <1>5, <2>1 DEF Wals
<1>7. Sets(c, r)
  BY <1>4, <1>6, SetsConn
<1>8. shm' \in Shms
  BY <1>1, <1>2, <1>3, Fields DEF Shms
<1>9. TypeInv'
  BY <1>3, <1>7, <1>8 DEF TypeInv, Sets
<1> QED
  BY <1>1, <1>2, <1>3, <1>7, <1>9, SMTT(30) DEF safe, pc, free

LEMMA CkptLock0Types ==
    ASSUME TypeInv, NEW c \in Conns, CkptLock0(c)
    PROVE  /\ TypeInv'
           /\ \/ /\ Shared(0) = {}
                 /\ Sets(c, [conn[c] EXCEPT !.pc = "ckCopy", !.todo = ToCopy(conn[c])])
                 /\ shm' = [shm EXCEPT !.nBackfillAttempted = conn[c].mxSafeFrame]
              \/ Sets(c, [conn[c] EXCEPT !.pc = "ckDone"]) /\ UNCHANGED shm
<1>1. UNCHANGED <<wal, db, writeLock, ckptLock, cache, nTx, nSalt, nRare, kept>>
  BY DEF CkptLock0, files, bounds
<1>2. CASE Shared(0) = {}
  <2> DEFINE r == [conn[c] EXCEPT !.pc = "ckCopy", !.todo = ToCopy(conn[c])]
  <2>1. ToCopy(conn[c]) \in SUBSET Pages
    BY DEF ToCopy
  <2>2. r \in Wals
    BY <2>1, ConnFields, PcTypes, ZenonT(40) DEF Wals
  <2>3. conn' = [conn EXCEPT ![c] = r] /\ shm' = [shm EXCEPT !.nBackfillAttempted = conn[c].mxSafeFrame]
    BY <1>2 DEF CkptLock0
  <2>4. Sets(c, r)
    BY <2>2, <2>3, SetsConn
  <2>5. shm' \in Shms
    BY <2>3, Fields, ConnFields DEF Shms
  <2> QED
    BY <1>1, <1>2, <2>3, <2>4, <2>5 DEF TypeInv, Sets
<1>3. CASE Shared(0) # {}
  <2> DEFINE r == [conn[c] EXCEPT !.pc = "ckDone"]
  <2>1. r \in Wals
    BY ConnFields, PcTypes, ZenonT(40) DEF Wals
  <2>2. conn' = [conn EXCEPT ![c] = r] /\ UNCHANGED shm
    BY <1>3 DEF CkptLock0, Go
  <2>3. Sets(c, r)
    BY <2>1, <2>2, SetsConn
  <2> QED
    BY <1>1, <2>2, <2>3 DEF TypeInv, Sets
<1> QED
  BY <1>2, <1>3

\* The page that is copied has a frame to copy.
LEMMA CkptCopyTypes ==
    ASSUME TypeInv, LockInv, PosInv, NEW c \in Conns, CkptCopy(c)
    PROVE  /\ TypeInv'
           /\ \E p \in conn[c].todo :
                 LET i == FindFrame(p, nb + 1, conn[c].hdr.mxFrame) IN
                 /\ i \in (nb + 1)..conn[c].hdr.mxFrame /\ i <= conn[c].mxSafeFrame
                 /\ i \in 1..Len(wal.frames) /\ wal.frames[i].page = p
                 /\ db' = [db EXCEPT ![p] = wal.frames[i].val]
                 /\ Sets(c, [conn[c] EXCEPT !.todo = conn[c].todo \ {p}])
<1> DEFINE p == Min(conn[c].todo)
           i == FindFrame(p, nb + 1, conn[c].hdr.mxFrame)
           r == [conn[c] EXCEPT !.todo = conn[c].todo \ {p}]
<1>1. p \in conn[c].todo /\ p \in Pages
  BY ConnFields, MinIsSmallest, WalConstants DEF CkptCopy
<1>2. i > 0 /\ i <= conn[c].mxSafeFrame
  <2>1. p \in ToCopy(conn[c])
    BY <1>1 DEF CkptCopy, PosInv, CkptInv
  <2> QED
    BY <2>1 DEF ToCopy, nb
<1>3. i \in (nb + 1)..conn[c].hdr.mxFrame /\ wal.frames[i].page = p
  BY <1>2, ConnFields, Fields, FindFrameIsLast, LastFrameProps DEF nb
<1>4. conn[c].hdr.mxFrame <= Len(wal.frames)
  BY ConnFields, Fields DEF CkptCopy, PosInv, CkptInv, ShapeInv, BackfillPcs, mx
<1>5. i \in 1..Len(wal.frames)
  BY <1>3, <1>4, ConnFields, Fields DEF nb
<1>6. wal.frames[i].val \in 0..(2 * MaxTx)
  BY <1>5, Fields, FrameFields
<1>7. /\ db' = [db EXCEPT ![p] = wal.frames[i].val] /\ conn' = [conn EXCEPT ![c] = r]
      /\ UNCHANGED <<wal, shm, writeLock, ckptLock, cache, nTx, nSalt, nRare, kept>>
  BY DEF CkptCopy, bounds, nb
<1> HIDE DEF i
<1>8. r \in Wals
  BY ConnFields, ZenonT(40) DEF Wals
<1>9. Sets(c, r)
  BY <1>7, <1>8, SetsConn
<1>10. db' \in Image
  BY <1>1, <1>6, <1>7, Fields DEF Image
<1>11. TypeInv'
  BY <1>7, <1>9, <1>10 DEF TypeInv, Sets
<1> QED
  BY <1>1, <1>2, <1>3, <1>5, <1>7, <1>9, <1>11 DEF i

\* The end of a checkpoint: it does not get the write lock, or finds a newer header
\* under it, or restarts the log.
CkptCanRestart(c) ==
    /\ shm.nBackfill = conn[c].hdr.mxFrame
    /\ conn[c].eMode = "PASSIVE" =>
          shm.nBackfill > 0 /\ writeLock = None /\ shm.hdr = conn[c].hdr
    /\ NoWalReader

LEMMA CkptRestartTypes ==
    ASSUME TypeInv, NEW c \in Conns, CkptRestart(c)
    PROVE  /\ TypeInv'
           /\ writeLock' = writeLock \/ (writeLock = None /\ writeLock' = c)
           /\ conn[c].eMode # "PASSIVE" => writeLock' = writeLock
           /\ \/ /\ Sets(c, [conn[c] EXCEPT !.pc = "ckEnd", !.isChanged = TRUE])
                 /\ UNCHANGED <<shm, nSalt>>
              \/ Sets(c, [conn[c] EXCEPT !.pc = "ckEnd"]) /\ UNCHANGED <<shm, nSalt>>
              \/ /\ CkptCanRestart(c)
                 /\ conn[c].eMode = "PASSIVE" => writeLock' = c
                 /\ Sets(c, [conn[c] EXCEPT !.pc = "ckInfo", !.hdr = RestartedHdr(conn[c].hdr)])
                 /\ shm' = [shm EXCEPT !.hdr = RestartedHdr(conn[c].hdr)]
                 /\ nSalt' = nSalt + 1
<1> DEFINE h == RestartedHdr(conn[c].hdr)
           r1 == [conn[c] EXCEPT !.pc = "ckEnd", !.isChanged = TRUE]
           r2 == [conn[c] EXCEPT !.pc = "ckEnd"]
           r3 == [conn[c] EXCEPT !.pc = "ckInfo", !.hdr = h]
           locked == /\ conn[c].eMode = "PASSIVE" /\ shm.nBackfill = conn[c].hdr.mxFrame
                     /\ shm.nBackfill > 0 /\ writeLock = None
<1>1. /\ writeLock' = IF locked THEN c ELSE writeLock
      /\ UNCHANGED <<wal, db, ckptLock, cache, nTx, nRare, kept>>
  BY DEF CkptRestart, files
<1>2. \/ conn' = [conn EXCEPT ![c] = r1] /\ UNCHANGED <<shm, nSalt>>
      \/ conn' = [conn EXCEPT ![c] = r2] /\ UNCHANGED <<shm, nSalt>>
      \/ /\ CkptCanRestart(c) /\ (conn[c].eMode = "PASSIVE" => locked)
         /\ conn' = [conn EXCEPT ![c] = r3] /\ shm' = [shm EXCEPT !.hdr = h] /\ nSalt' = nSalt + 1
  BY DEF CkptRestart, CkptCanRestart, Go
<1>3. r1 \in Wals /\ r2 \in Wals
  BY ConnFields, PcTypes, ZenonT(40) DEF Wals
<1>4. h \in Hdrs
  BY ConnFields, RestartedType
<1> HIDE DEF h
<1>5. r3 \in Wals
  BY <1>4, ConnFields, PcTypes, ZenonT(40) DEF Wals
<1>6. writeLock' \in Conns \cup {None}
  BY <1>1 DEF TypeInv
<1>7. CASE conn' = [conn EXCEPT ![c] = r1] /\ UNCHANGED <<shm, nSalt>>
  <2>1. Sets(c, r1)
    BY <1>3, <1>7, SetsConn
  <2> QED
    BY <1>1, <1>6, <1>7, <2>1 DEF TypeInv, Sets
<1>8. CASE conn' = [conn EXCEPT ![c] = r2] /\ UNCHANGED <<shm, nSalt>>
  <2>1. Sets(c, r2)
    BY <1>3, <1>8, SetsConn
  <2> QED
    BY <1>1, <1>6, <1>8, <2>1 DEF TypeInv, Sets
<1>9. CASE /\ CkptCanRestart(c) /\ (conn[c].eMode = "PASSIVE" => locked)
           /\ conn' = [conn EXCEPT ![c] = r3] /\ shm' = [shm EXCEPT !.hdr = h] /\ nSalt' = nSalt + 1
  <2>1. Sets(c, r3)
    BY <1>5, <1>9, SetsConn
  <2>2. shm' \in Shms
    BY <1>4, <1>9, Fields DEF Shms
  <2>3. TypeInv'
    BY <1>1, <1>6, <1>9, <2>1, <2>2 DEF TypeInv, Sets
  <2> QED
    BY <1>1, <1>9, <2>1, <2>3 DEF h
<1> QED
  BY <1>2, <1>7, <1>8, <1>9

LEMMA CkptHeaderTypes ==
    ASSUME TypeInv, NEW c \in Conns, CkptHeader(c)
    PROVE  /\ TypeInv'
           /\ Sets(c, [conn[c] EXCEPT !.pc = "ckPublish",
                                      !.hdr.aFrameCksum = HeaderCksum(conn[c].hdr.aSalt)])
<1> DEFINE h == [conn[c].hdr EXCEPT !.aFrameCksum = HeaderCksum(conn[c].hdr.aSalt)]
           r == [conn[c] EXCEPT !.pc = "ckPublish", !.hdr = h]
<1>1. h \in Hdrs
  BY ConnFields, HeaderCksumType DEF Hdrs
<1>2. r \in Wals
  <2> HIDE DEF h
  <2> QED
    BY <1>1, ConnFields, PcTypes, ZenonT(40) DEF Wals
<1>3. conn' = [conn EXCEPT ![c] = r]
  BY DEF CkptHeader
<1>4. Sets(c, r)
  BY <1>2, <1>3, SetsConn
<1>5. r = [conn[c] EXCEPT !.pc = "ckPublish",
                          !.hdr.aFrameCksum = HeaderCksum(conn[c].hdr.aSalt)]
  BY ConnFields DEF Wals
<1>6. wal' \in WalFiles
  BY Fields, ConnFields DEF CkptHeader, WalFiles
<1> QED
  BY <1>4, <1>5, <1>6 DEF CkptHeader, TypeInv, Sets, bounds

LEMMA KillTypes ==
    ASSUME TypeInv, Kill
    PROVE  /\ TypeInv' /\ shm'.open = FALSE /\ shm'.hdr = shm.hdr
           /\ shm'.nBackfill = shm.nBackfill
           /\ shm'.nBackfillAttempted = shm.nBackfillAttempted
<1>1. shm' = [shm EXCEPT !.open = FALSE]
  BY DEF Kill
<1>2. /\ shm' \in Shms /\ shm'.open = FALSE /\ shm'.hdr = shm.hdr
      /\ shm'.nBackfill = shm.nBackfill /\ shm'.nBackfillAttempted = shm.nBackfillAttempted
  BY <1>1, Fields DEF Shms
<1>3. nRare' \in Nat
  BY DEF TypeInv, Kill
<1> QED
  BY <1>2, <1>3, ZeroTypes DEF Kill, TypeInv, files

-----------------------------------------------------------------------------
(* Locks *)

\* Every exclusive read lock.
ExclusivePcs == {"restartInfo", "ckInfo", "ckHeader", "ckPublish", "ckTruncate"}

LEMMA LockedAllPcs == LockedAll <=> \E c \in Conns : conn[c].pc \in ExclusivePcs
BY DEF LockedAll, ExclusivePcs

LEMMA LockedAllPcsNext == LockedAll' <=> \E c \in Conns : conn'[c].pc \in ExclusivePcs
BY DEF LockedAll, ExclusivePcs

LEMMA NoWalReaderMeans ==
    ASSUME TypeInv, NoWalReader
    PROVE  ~LockedAll /\ \A c \in Conns : conn[c].readLock <= 0
<1>1. ASSUME NEW c \in Conns, conn[c].readLock > 0
      PROVE  FALSE
  <2>1. conn[c].readLock \in Slots
    BY <1>1, ConnFields, WalConstants DEF Slots
  <2> QED
    BY <2>1 DEF NoWalReader, Shared
<1> QED
  BY <1>1, ConnFields DEF NoWalReader

LEMMA NotIdleIsLive ==
    ASSUME LockInv, NEW c \in Conns, conn[c].pc # "idle"
    PROVE  Live
BY DEF LockInv

\* Only c takes or gives back locks.
OwnLocks(c) ==
    /\ \A d \in Conns \ {c} : (writeLock' = d <=> writeLock = d) /\ (ckptLock' = d <=> ckptLock = d)
    /\ nTx <= nTx'

LEMMA OwnLocksIntro ==
    ASSUME TypeInv, NEW c \in Conns, nTx' \in {nTx, nTx + 1},
           writeLock' = writeLock \/ {writeLock, writeLock'} \subseteq {None, c},
           ckptLock' = ckptLock \/ {ckptLock, ckptLock'} \subseteq {None, c}
    PROVE  OwnLocks(c)
BY WalConstants DEF OwnLocks, TypeInv

\* A step of c keeps the locks in order if c does, and takes no lock that excludes
\* another's.
LEMMA LockStep ==
    ASSUME TypeInv, LockInv, NEW c \in Conns, Sets(c, conn'[c]), OwnLocks(c), Live',
           TypeInv', LockInvOf(c)',
           conn'[c].pc \in ExclusivePcs => conn[c].pc \in ExclusivePcs \/ NoWalReader,
           conn'[c].pc \in ExclusivePcs => conn'[c].readLock <= 0,
           conn'[c].readLock > 0 => conn[c].readLock > 0 \/ ~LockedAll,
           conn'[c].pc = "ckCopy" => conn[c].pc = "ckCopy" \/ Shared(0) = {},
           conn'[c].pc = "ckCopy" => conn'[c].readLock # 0,
           conn'[c].readLock = 0 => conn[c].readLock = 0 \/ ~Locked0
    PROVE  LockInv'
<1>1. \A d \in Conns : LockInvOf(d)'
  <2> SUFFICES ASSUME NEW d \in Conns \ {c}
               PROVE  LockInvOf(d)'
    OBVIOUS
  <2>1. /\ conn'[d] = conn[d] /\ (writeLock' = d <=> writeLock = d)
        /\ (ckptLock' = d <=> ckptLock = d) /\ nTx <= nTx' /\ nTx \in Nat /\ nTx' \in Nat
        /\ LockInvOf(d)
    BY DEF Sets, OwnLocks, LockInv, TypeInv
  <2> QED
    BY <2>1 DEF LockInvOf, Writing
<1>2. ASSUME LockedAll', NEW d \in Conns
      PROVE  conn'[d].readLock <= 0
  <2>1. PICK e \in Conns : conn'[e].pc \in ExclusivePcs
    BY <1>2, LockedAllPcsNext
  <2>2. conn[c].readLock \in Int /\ conn'[c].readLock \in Int
    BY ConnFields, ConnFieldsNext
  <2>3. CASE LockedAll
    <3>1. \A x \in Conns : conn[x].readLock <= 0
      BY <2>3 DEF LockInv
    <3> QED
      BY <2>2, <2>3, <3>1 DEF Sets
  <2>4. CASE ~LockedAll
    <3>1. e = c /\ conn[c].pc \notin ExclusivePcs
      BY <2>1, <2>4, LockedAllPcs DEF Sets
    <3>2. \A x \in Conns : conn[x].readLock <= 0
      BY <2>1, <3>1, NoWalReaderMeans
    <3> QED
      BY <2>1, <3>1, <3>2 DEF Sets
  <2> QED
    BY <2>3, <2>4
<1>3. ASSUME Locked0', NEW d \in Conns
      PROVE  conn'[d].readLock # 0
  <2>1. PICK e \in Conns : conn'[e].pc = "ckCopy"
    BY <1>3 DEF Locked0
  <2>2. CASE Locked0
    BY <2>1, <2>2 DEF LockInv, Sets
  <2>3. CASE ~Locked0
    <3>1. e = c /\ conn[c].pc # "ckCopy"
      BY <2>1, <2>3 DEF Sets, Locked0
    <3>2. \A x \in Conns : conn[x].readLock # 0
      BY <2>1, <3>1 DEF Shared
    <3> QED
      BY <2>1, <3>1, <3>2 DEF Sets
  <2> QED
    BY <2>2, <2>3
<1> QED
  BY <1>1, <1>2, <1>3 DEF LockInv, Live

-----------------------------------------------------------------------------
(* What a step changes, field by field *)

\* c stands in its read transaction, its write transaction, its checkpoint as it did.
KeepsRead(c) ==
    /\ conn'[c].readLock = conn[c].readLock /\ conn'[c].minFrame = conn[c].minFrame
    /\ conn'[c].mxI = conn[c].mxI /\ conn'[c].mxReadMark = conn[c].mxReadMark
KeepsWrite(c) ==
    /\ conn'[c].isCommit = conn[c].isCommit /\ conn'[c].todo = conn[c].todo
    /\ conn'[c].iFirst = conn[c].iFirst /\ conn'[c].iFrame = conn[c].iFrame
    /\ conn'[c].iReCksum = conn[c].iReCksum /\ conn'[c].pChange = conn[c].pChange
KeepsCkpt(c) ==
    /\ conn'[c].eMode = conn[c].eMode /\ conn'[c].i = conn[c].i
    /\ conn'[c].mxSafeFrame = conn[c].mxSafeFrame /\ conn'[c].isChanged = conn[c].isChanged
\* c has a header and no transaction.
Rests(c, hdr) ==
    /\ conn'[c].pc = "idle" /\ conn'[c].hdr = hdr /\ conn'[c].readLock = -1
    /\ conn'[c].pChange = FALSE /\ conn'[c].iReCksum = 0 /\ conn'[c].isChanged = FALSE
\* c reads under the lock it has.
Reads(c, hdr, readLock) ==
    /\ conn'[c].pc = "read" /\ conn'[c].hdr = hdr /\ conn'[c].readLock = readLock
    /\ conn'[c].minFrame = conn[c].minFrame
    /\ conn'[c].pChange = FALSE /\ conn'[c].iReCksum = 0 /\ conn'[c].isChanged = FALSE
\* c starts again.
Retries(c) ==
    \/ writeLock # c /\ Rests(c, conn[c].hdr)
    \/ /\ writeLock = c /\ conn'[c].pc = "mark" /\ conn'[c].readLock = -1
       /\ conn'[c].hdr = conn[c].hdr /\ KeepsWrite(c) /\ KeepsCkpt(c)
\* The wal-index, but for its header.
KeepsShm == /\ shm'.open = shm.open /\ shm'.nBackfill = shm.nBackfill
            /\ shm'.nBackfillAttempted = shm.nBackfillAttempted
            /\ shm'.aReadMark = shm.aReadMark

LEMMA BeginWriteEffect ==
    ASSUME TypeInv, NEW c \in Conns, BeginWrite(c)
    PROVE  /\ TypeInv' /\ Sets(c, conn'[c])
           /\ conn[c].pc = "read" /\ writeLock = None /\ conn[c].hdr = shm.hdr
           /\ conn'[c].pc = "write" /\ conn'[c].hdr = conn[c].hdr
           /\ KeepsRead(c) /\ KeepsWrite(c) /\ KeepsCkpt(c)
           /\ writeLock' = c /\ nTx' = nTx + 1
           /\ UNCHANGED <<wal, db, shm, ckptLock, cache, nSalt, nRare, kept>>
<1>1. /\ conn'[c].pc = "write" /\ conn'[c].hdr = conn[c].hdr
      /\ KeepsRead(c) /\ KeepsWrite(c) /\ KeepsCkpt(c)
  BY BeginWriteTypes, ConnFields, ZenonT(40) DEF Sets, Wals, KeepsRead, KeepsWrite, KeepsCkpt
<1> QED
  BY <1>1, BeginWriteTypes DEF Sets, BeginWrite, files, bounds

LEMMA KeepHeaderEffect ==
    ASSUME TypeInv, NEW c \in Conns, KeepHeader(c)
    PROVE  /\ TypeInv' /\ Sets(c, conn'[c])
           /\ conn[c].pc = "header" /\ (conn[c].hdr.mxFrame = 0 => ~NeedsHeader(c))
           /\ conn'[c].pc = "frames" /\ conn'[c].hdr = conn[c].hdr /\ KeepsRead(c) /\ KeepsCkpt(c)
           /\ conn'[c].isCommit = conn[c].isCommit /\ conn'[c].todo = conn[c].todo
           /\ conn'[c].iFirst = conn[c].iFirst /\ conn'[c].iFrame = conn[c].hdr.mxFrame
           /\ conn'[c].iReCksum = conn[c].iReCksum /\ conn'[c].pChange = conn[c].pChange
           /\ kept' = (kept \/ (conn[c].hdr.mxFrame = 0 /\
                                conn[c].hdr # [conn[c].hdr EXCEPT !.aSalt = wal.hdr,
                                                        !.aFrameCksum = HeaderCksum(wal.hdr)]))
           /\ UNCHANGED <<wal, db, shm, writeLock, ckptLock, cache, nTx, nSalt, nRare>>
<1> DEFINE n == conn[c].hdr.mxFrame
<1> DEFINE r == [conn[c] EXCEPT !.pc = "frames", !.iFrame = n]
<1>3. Sets(c, r)
  BY KeepHeaderTypes
<1>2. conn'[c] = [conn[c] EXCEPT !.pc = "frames", !.iFrame = n]
  BY <1>3 DEF Sets
<1>1. /\ conn'[c].pc = "frames" /\ conn'[c].hdr = conn[c].hdr /\ KeepsRead(c) /\ KeepsCkpt(c)
      /\ conn'[c].isCommit = conn[c].isCommit /\ conn'[c].todo = conn[c].todo
      /\ conn'[c].iFirst = conn[c].iFirst /\ conn'[c].iFrame = conn[c].hdr.mxFrame
      /\ conn'[c].iReCksum = conn[c].iReCksum /\ conn'[c].pChange = conn[c].pChange
  <2> HIDE DEF n
  <2>1. /\ conn'[c].pc = "frames" /\ conn'[c].hdr = conn[c].hdr /\ KeepsRead(c) /\ KeepsCkpt(c)
        /\ conn'[c].isCommit = conn[c].isCommit /\ conn'[c].todo = conn[c].todo
        /\ conn'[c].iFirst = conn[c].iFirst /\ conn'[c].iFrame = n
        /\ conn'[c].iReCksum = conn[c].iReCksum /\ conn'[c].pChange = conn[c].pChange
    BY <1>2, ConnFields DEF Wals, KeepsRead, KeepsWrite, KeepsCkpt
  <2> QED
    BY <2>1 DEF n
<1> QED
  BY <1>1, KeepHeaderTypes DEF Sets, KeepHeader, files, bounds

LEMMA RestartInfoEffect ==
    ASSUME TypeInv, NEW c \in Conns, RestartInfo(c)
    PROVE  /\ TypeInv' /\ Sets(c, conn'[c])
           /\ conn[c].pc = "restartInfo"
           /\ conn'[c].pc = "mark" /\ conn'[c].readLock = -1 /\ conn'[c].hdr = conn[c].hdr /\ KeepsWrite(c) /\ KeepsCkpt(c)
           /\ shm'.hdr = shm.hdr /\ shm'.open = shm.open /\ shm'.nBackfill = 0
           /\ shm' = RestartedInfo(shm)
           /\ UNCHANGED <<wal, db, writeLock, ckptLock, cache, nTx, nSalt, nRare, kept>>
<1>1. /\ conn'[c].pc = "mark" /\ conn'[c].readLock = -1 /\ conn'[c].hdr = conn[c].hdr /\ KeepsWrite(c) /\ KeepsCkpt(c)
  BY RestartInfoTypes, ConnFields, ZenonT(40) DEF Sets, Wals, KeepsRead, KeepsWrite, KeepsCkpt
<1> QED
  BY <1>1, RestartInfoTypes, RestartedInfoType, Fields DEF Sets, RestartInfo, files, bounds

LEMMA CkptInfoEffect ==
    ASSUME TypeInv, NEW c \in Conns, CkptInfo(c)
    PROVE  /\ TypeInv' /\ Sets(c, conn'[c])
           /\ conn[c].pc = "ckInfo"
           /\ conn'[c].pc = (IF conn[c].eMode = "TRUNCATE" THEN "ckTruncate" ELSE "ckHeader")
           /\ conn'[c].hdr = conn[c].hdr /\ KeepsRead(c) /\ KeepsWrite(c) /\ KeepsCkpt(c)
           /\ shm'.hdr = shm.hdr /\ shm'.open = shm.open /\ shm'.nBackfill = 0
           /\ shm' = RestartedInfo(shm)
           /\ UNCHANGED <<wal, db, writeLock, ckptLock, cache, nTx, nSalt, nRare, kept>>
<1> DEFINE pc == IF conn[c].eMode = "TRUNCATE" THEN "ckTruncate" ELSE "ckHeader"
<1> DEFINE r == [conn[c] EXCEPT !.pc = pc]
<1>3. Sets(c, r)
  BY CkptInfoTypes
<1>2. conn'[c] = [conn[c] EXCEPT !.pc = pc]
  BY <1>3 DEF Sets
<1>1. /\ conn'[c].pc = (IF conn[c].eMode = "TRUNCATE" THEN "ckTruncate" ELSE "ckHeader")
      /\ conn'[c].hdr = conn[c].hdr /\ KeepsRead(c) /\ KeepsWrite(c) /\ KeepsCkpt(c)
  <2> HIDE DEF pc
  <2>1. /\ conn'[c].pc = pc
        /\ conn'[c].hdr = conn[c].hdr /\ KeepsRead(c) /\ KeepsWrite(c) /\ KeepsCkpt(c)
    BY <1>2, ConnFields DEF Wals, KeepsRead, KeepsWrite, KeepsCkpt
  <2> QED
    BY <2>1 DEF pc
<1> QED
  BY <1>1, CkptInfoTypes, RestartedInfoType, Fields DEF Sets, CkptInfo, files, bounds

LEMMA CkptPublishEffect ==
    ASSUME TypeInv, NEW c \in Conns, CkptPublish(c)
    PROVE  /\ TypeInv' /\ Sets(c, conn'[c])
           /\ conn[c].pc = "ckPublish"
           /\ conn'[c].pc = "ckEnd" /\ conn'[c].hdr = conn[c].hdr /\ KeepsRead(c) /\ KeepsWrite(c) /\ KeepsCkpt(c)
           /\ shm'.hdr = conn[c].hdr /\ KeepsShm
           /\ UNCHANGED <<wal, db, writeLock, ckptLock, cache, nTx, nSalt, nRare, kept>>
<1>1. /\ conn'[c].pc = "ckEnd" /\ conn'[c].hdr = conn[c].hdr /\ KeepsRead(c) /\ KeepsWrite(c) /\ KeepsCkpt(c)
  BY CkptPublishTypes, ConnFields, ZenonT(40) DEF Sets, Wals, KeepsRead, KeepsWrite, KeepsCkpt
<1>2. shm' = [shm EXCEPT !.hdr = conn[c].hdr]
  BY CkptPublishTypes DEF CkptPublish
<1>3. shm'.hdr = conn[c].hdr /\ KeepsShm
  BY <1>2, Fields DEF Shms, KeepsShm
<1> QED
  BY <1>1, <1>2, <1>3, CkptPublishTypes DEF Sets, CkptPublish, files, bounds

LEMMA CkptTruncateEffect ==
    ASSUME TypeInv, NEW c \in Conns, CkptTruncate(c)
    PROVE  /\ TypeInv' /\ Sets(c, conn'[c])
           /\ conn[c].pc = "ckTruncate"
           /\ conn'[c].pc = "ckEnd" /\ conn'[c].hdr = conn[c].hdr /\ KeepsRead(c) /\ KeepsWrite(c) /\ KeepsCkpt(c)
           /\ wal' = [hdr |-> 0, frames |-> <<>>]
           /\ UNCHANGED <<db, shm, writeLock, ckptLock, cache, nTx, nSalt, nRare, kept>>
<1>1. /\ conn'[c].pc = "ckEnd" /\ conn'[c].hdr = conn[c].hdr /\ KeepsRead(c) /\ KeepsWrite(c) /\ KeepsCkpt(c)
  BY CkptTruncateTypes, ConnFields, ZenonT(40) DEF Sets, Wals, KeepsRead, KeepsWrite, KeepsCkpt
<1> QED
  BY <1>1, CkptTruncateTypes DEF Sets, CkptTruncate, files, bounds

LEMMA CkptFailEffect ==
    ASSUME TypeInv, NEW c \in Conns, CkptFail(c)
    PROVE  /\ TypeInv' /\ Sets(c, conn'[c])
           /\ conn[c].pc \in {"ckCopy", "ckHeader", "ckTruncate"}
           /\ conn'[c].pc = "ckEnd" /\ conn'[c].hdr = conn[c].hdr /\ KeepsRead(c) /\ KeepsWrite(c) /\ KeepsCkpt(c)
           /\ UNCHANGED <<wal, db, shm, writeLock, ckptLock, cache, nTx, nSalt, kept>>
<1>1. /\ conn'[c].pc = "ckEnd" /\ conn'[c].hdr = conn[c].hdr /\ KeepsRead(c) /\ KeepsWrite(c) /\ KeepsCkpt(c)
  BY CkptFailTypes, ConnFields DEF Sets, Wals, KeepsRead, KeepsWrite, KeepsCkpt
<1> QED
  BY <1>1, CkptFailTypes DEF Sets, CkptFail, files, bounds

LEMMA CkptBackfillEffect ==
    ASSUME TypeInv, NEW c \in Conns, CkptBackfill(c)
    PROVE  /\ TypeInv' /\ Sets(c, conn'[c])
           /\ conn[c].pc = "ckCopy" /\ conn[c].todo = {}
           /\ conn'[c].pc = "ckDone" /\ conn'[c].hdr = conn[c].hdr /\ KeepsRead(c) /\ KeepsWrite(c) /\ KeepsCkpt(c)
           /\ shm'.hdr = shm.hdr /\ shm'.open = shm.open /\ shm'.nBackfill = conn[c].mxSafeFrame
           /\ shm'.nBackfillAttempted = shm.nBackfillAttempted /\ shm'.aReadMark = shm.aReadMark
           /\ UNCHANGED <<wal, db, writeLock, ckptLock, cache, nTx, nSalt, nRare, kept>>
<1>1. /\ conn'[c].pc = "ckDone" /\ conn'[c].hdr = conn[c].hdr /\ KeepsRead(c) /\ KeepsWrite(c) /\ KeepsCkpt(c)
  BY CkptBackfillTypes, ConnFields, ZenonT(40) DEF Sets, Wals, KeepsRead, KeepsWrite, KeepsCkpt
<1>2. shm' = [shm EXCEPT !.nBackfill = conn[c].mxSafeFrame]
  BY CkptBackfillTypes DEF CkptBackfill
<1>3. /\ shm'.hdr = shm.hdr /\ shm'.open = shm.open /\ shm'.nBackfill = conn[c].mxSafeFrame
      /\ shm'.nBackfillAttempted = shm.nBackfillAttempted /\ shm'.aReadMark = shm.aReadMark
  BY <1>2, Fields DEF Shms
<1> QED
  BY <1>1, <1>2, <1>3, CkptBackfillTypes DEF Sets, CkptBackfill, files, bounds

LEMMA WalFramesEffect ==
    ASSUME TypeInv, NEW c \in Conns, NEW P \in SUBSET Pages, NEW commit \in BOOLEAN,
           WalFrames(c, P, commit)
    PROVE  /\ TypeInv' /\ Sets(c, conn'[c])
           /\ conn[c].pc = "write"
           /\ commit \/ conn[c].hdr = shm.hdr
           /\ conn'[c].pc = (IF conn[c].readLock = 0 THEN "restartLog" ELSE "header")
           /\ conn'[c].hdr = conn[c].hdr /\ KeepsRead(c) /\ KeepsCkpt(c)
           /\ conn'[c].isCommit = commit /\ conn'[c].todo = P
           /\ conn'[c].iFirst = (IF conn[c].hdr = shm.hdr THEN 0 ELSE shm.hdr.mxFrame + 1)
           /\ conn'[c].iFrame = conn[c].iFrame
           /\ conn'[c].iReCksum = conn[c].iReCksum /\ conn'[c].pChange = conn[c].pChange
           /\ UNCHANGED <<wal, db, shm, writeLock, ckptLock, cache, nTx, nSalt, kept>>
<1> DEFINE pc == IF conn[c].readLock = 0 THEN "restartLog" ELSE "header"
           first == IF conn[c].hdr = shm.hdr THEN 0 ELSE shm.hdr.mxFrame + 1
<1> DEFINE r == [conn[c] EXCEPT !.pc = pc, !.isCommit = commit, !.todo = P, !.iFirst = first]
<1>3. Sets(c, r)
  BY WalFramesTypes
<1>2. conn'[c] = [conn[c] EXCEPT !.pc = pc, !.isCommit = commit, !.todo = P, !.iFirst = first]
  BY <1>3 DEF Sets
<1>1. /\ conn'[c].pc = (IF conn[c].readLock = 0 THEN "restartLog" ELSE "header")
      /\ conn'[c].hdr = conn[c].hdr /\ KeepsRead(c) /\ KeepsCkpt(c)
      /\ conn'[c].isCommit = commit /\ conn'[c].todo = P
      /\ conn'[c].iFirst = (IF conn[c].hdr = shm.hdr THEN 0 ELSE shm.hdr.mxFrame + 1)
      /\ conn'[c].iFrame = conn[c].iFrame
      /\ conn'[c].iReCksum = conn[c].iReCksum /\ conn'[c].pChange = conn[c].pChange
  <2> HIDE DEF pc, first
  <2>1. /\ conn'[c].pc = pc
        /\ conn'[c].hdr = conn[c].hdr /\ KeepsRead(c) /\ KeepsCkpt(c)
        /\ conn'[c].isCommit = commit /\ conn'[c].todo = P
        /\ conn'[c].iFirst = first
        /\ conn'[c].iFrame = conn[c].iFrame
        /\ conn'[c].iReCksum = conn[c].iReCksum /\ conn'[c].pChange = conn[c].pChange
    BY <1>2, ConnFields DEF Wals, KeepsRead, KeepsWrite, KeepsCkpt
  <2> QED
    BY <2>1 DEF pc, first
<1> QED
  BY <1>1, WalFramesTypes DEF Sets, WalFrames, files, bounds

LEMMA OpenShmEffect ==
    ASSUME TypeInv, NEW c \in Conns, OpenShm(c)
    PROVE  /\ TypeInv' /\ Sets(c, conn'[c])
           /\ conn[c].pc = "idle" /\ ~shm.open
           /\ conn'[c].pc = "idle" /\ conn'[c].hdr = conn[c].hdr
           /\ KeepsRead(c) /\ KeepsWrite(c) /\ KeepsCkpt(c)
           /\ conn'[c].nBackFill = tryRecoverBackfill
           /\ shm'.open /\ shm'.hdr = ZeroHdr /\ shm'.nBackfill = 0
           /\ UNCHANGED <<wal, db, writeLock, ckptLock, cache, nTx, nSalt, nRare, kept>>
<1> DEFINE n == tryRecoverBackfill
<1>1. conn'[c] = [conn[c] EXCEPT !.nBackFill = n]
  BY OpenShmTypes DEF Sets
<1>2. /\ conn'[c].pc = conn[c].pc /\ conn'[c].hdr = conn[c].hdr /\ conn'[c].nBackFill = n
      /\ KeepsRead(c) /\ KeepsWrite(c) /\ KeepsCkpt(c)
  <2> HIDE DEF n
  <2> QED
    BY <1>1, ConnFields DEF Wals, KeepsRead, KeepsWrite, KeepsCkpt
<1>3. shm'.open /\ shm'.hdr = ZeroHdr /\ shm'.nBackfill = 0
  BY DEF OpenShm, ZeroShm
<1> QED
  BY <1>2, <1>3, OpenShmTypes DEF Sets, OpenShm, files, bounds

LEMMA RecoverEffect ==
    ASSUME TypeInv, NEW c \in Conns, Recover(c)
    PROVE  /\ TypeInv' /\ Sets(c, conn'[c])
           /\ conn[c].pc = "idle" /\ shm.open /\ ~shm.hdr.isInit /\ writeLock = None
           /\ conn'[c].pc = "try" /\ conn'[c].hdr = RecoveredHdr /\ conn'[c].readLock = -1
           /\ conn'[c].isChanged = FALSE
           /\ shm'.open /\ shm'.hdr = RecoveredHdr
           /\ shm'.nBackfill = IF conn[c].nBackFill <= RecoveredFrame
                               THEN conn[c].nBackFill ELSE 0
           /\ cache' = [cache EXCEPT ![c] = None]
           /\ UNCHANGED <<wal, db, writeLock, ckptLock, nTx, nSalt, nRare, kept>>
<1> DEFINE h == RecoveredHdr
<1>1. h \in Hdrs
  BY RecoveredType
<1>2. conn'[c] = [Idle(h) EXCEPT !.pc = "try"]
  BY RecoverTypes DEF Sets
<1>3. /\ conn'[c].pc = "try" /\ conn'[c].hdr = h /\ conn'[c].readLock = -1
      /\ conn'[c].isChanged = FALSE
  <2> HIDE DEF h
  <2> QED
    BY <1>1, <1>2, TryType
<1> QED
  BY <1>3, RecoverTypes DEF Sets, Recover, files, bounds

LEMMA ReadHdrEffect ==
    ASSUME TypeInv, NEW c \in Conns, ReadHdr(c)
    PROVE  /\ TypeInv' /\ Sets(c, conn'[c])
           /\ conn[c].pc = "idle" /\ shm.open /\ shm.hdr.isInit
           /\ conn'[c].pc = "try" /\ conn'[c].hdr = shm.hdr /\ conn'[c].readLock = -1
           /\ conn'[c].isChanged = FALSE
           /\ cache' = [cache EXCEPT ![c] = IF conn[c].hdr = shm.hdr THEN @ ELSE None]
           /\ UNCHANGED <<wal, db, shm, writeLock, ckptLock, nTx, nSalt, nRare, kept>>
<1> DEFINE h == shm.hdr
<1>1. h \in Hdrs
  BY Fields
<1>2. conn'[c] = [Idle(h) EXCEPT !.pc = "try"]
  BY ReadHdrTypes DEF Sets
<1>3. /\ conn'[c].pc = "try" /\ conn'[c].hdr = h /\ conn'[c].readLock = -1
      /\ conn'[c].isChanged = FALSE
  <2> HIDE DEF h
  <2> QED
    BY <1>1, <1>2, TryType
<1> QED
  BY <1>3, ReadHdrTypes DEF Sets, ReadHdr, files, bounds

LEMMA RestsIntro ==
    ASSUME TypeInv, NEW c \in Conns, NEW h \in Hdrs, conn'[c] = Idle(h)
    PROVE  Rests(c, h)
BY IdleType DEF Rests

LEMMA ReadsIntro ==
    ASSUME TypeInv, NEW c \in Conns, NEW h \in Hdrs, NEW l \in -1..(NReader - 1),
           NEW r, r.hdr = h, r.readLock = l, r.minFrame = conn[c].minFrame,
           conn'[c] = Reading(r)
    PROVE  Reads(c, h, l)
<1>1. r.minFrame \in Nat
  BY ConnFields
<1> QED
  BY <1>1, ReadingType, ZenonT(40) DEF Reads

LEMMA LockZeroEffect ==
    ASSUME TypeInv, NEW c \in Conns, LockZero(c)
    PROVE  /\ TypeInv' /\ Sets(c, conn'[c])
           /\ conn[c].pc = "try" /\ shm.nBackfill = conn[c].hdr.mxFrame /\ ~Locked0
           /\ \/ shm.hdr = conn[c].hdr /\ Reads(c, conn[c].hdr, 0) /\ Fill(c, db)
              \/ shm.hdr # conn[c].hdr /\ Rests(c, conn[c].hdr) /\ cache' = cache
           /\ UNCHANGED <<wal, db, shm, writeLock, ckptLock, nTx, nSalt, nRare, kept>>
<1> DEFINE q == [conn[c] EXCEPT !.readLock = 0]
<1>1. /\ q.hdr = conn[c].hdr /\ q.readLock = 0 /\ q.minFrame = conn[c].minFrame
      /\ conn[c].hdr \in Hdrs /\ 0 \in -1..(NReader - 1)
  BY ConnFields, ReadLocks DEF Wals
<1>2. CASE shm.hdr = conn[c].hdr
  <2>1. conn'[c] = Reading(q) /\ Fill(c, db) /\ Sets(c, conn'[c])
    BY <1>2, LockZeroTypes DEF LockZero, Sets
  <2>2. Reads(c, conn[c].hdr, 0)
    <3> HIDE DEF q
    <3> QED
      BY <1>1, <2>1, ReadsIntro
  <2> QED
    BY <1>2, <2>1, <2>2, LockZeroTypes DEF LockZero, IgnoreWal, files, bounds
<1>3. CASE shm.hdr # conn[c].hdr
  <2>1. conn'[c] = Idle(conn[c].hdr) /\ cache' = cache /\ Sets(c, conn'[c])
    BY <1>3, LockZeroTypes DEF LockZero, Sets
  <2>2. Rests(c, conn[c].hdr)
    BY <1>1, <2>1, RestsIntro
  <2> QED
    BY <1>3, <2>1, <2>2, LockZeroTypes DEF LockZero, IgnoreWal, files, bounds
<1> QED
  BY <1>2, <1>3

LEMMA RetriesIntro ==
    ASSUME TypeInv, NEW c \in Conns, Sets(c, Retried(c))
    PROVE  Retries(c) /\ Sets(c, conn'[c])
<1>1. CASE writeLock = c
  <2>1. conn'[c] = [conn[c] EXCEPT !.pc = "mark", !.readLock = -1]
    BY <1>1 DEF Sets, Retried
  <2> QED
    BY <1>1, <2>1, ConnFields DEF Sets, Retries, Wals, KeepsWrite, KeepsCkpt
<1>2. CASE writeLock # c
  <2>1. conn'[c] = Idle(conn[c].hdr)
    BY <1>2 DEF Sets, Retried
  <2> QED
    BY <1>2, <2>1, ConnFields, RestsIntro DEF Sets, Retries
<1> QED
  BY <1>1, <1>2

\* c chose mark i, at frame m.
Chooses(c, i, m) ==
    /\ conn'[c].pc = "lockMark" /\ conn'[c].hdr = conn[c].hdr
    /\ conn'[c].readLock = conn[c].readLock /\ conn'[c].minFrame = conn[c].minFrame
    /\ conn'[c].mxI = i /\ conn'[c].mxReadMark = m
    /\ KeepsWrite(c) /\ KeepsCkpt(c)

LEMMA ChooseMarkEffect ==
    ASSUME TypeInv, NEW c \in Conns, ChooseMark(c)
    PROVE  /\ TypeInv' /\ Sets(c, conn'[c]) /\ conn[c].pc \in {"try", "mark"}
           /\ shm'.hdr = shm.hdr /\ shm'.open = shm.open /\ shm'.nBackfill = shm.nBackfill
           /\ shm'.nBackfillAttempted = shm.nBackfillAttempted
           /\ \/ \E i \in Slots : /\ ~LockedAll /\ Shared(i) = {}
                                  /\ Chooses(c, i, conn[c].hdr.mxFrame)
                                  /\ shm'.aReadMark[i] = conn[c].hdr.mxFrame
                                  /\ \A j \in Slots \ {i} : shm'.aReadMark[j] = shm.aReadMark[j]
              \/ Retries(c) /\ shm' = shm
              \/ \E i \in Slots, m \in 0..conn[c].hdr.mxFrame : Chooses(c, i, m) /\ shm' = shm
           /\ UNCHANGED <<wal, db, writeLock, ckptLock, cache, nTx, nSalt, nRare, kept>>
<1>1. ASSUME NEW i \in Slots, NEW m \in Nat, Sets(c, Chosen(c, i, m))
      PROVE  Sets(c, conn'[c]) /\ Chooses(c, i, m)
  <2>1. conn'[c] = [conn[c] EXCEPT !.pc = "lockMark", !.mxI = i, !.mxReadMark = m]
    BY <1>1 DEF Sets, Chosen
  <2> QED
    BY <1>1, <2>1, ConnFields DEF Sets, Wals, Chooses, KeepsWrite, KeepsCkpt
<1>2. /\ TypeInv' /\ conn[c].pc \in {"try", "mark"}
      /\ UNCHANGED <<wal, db, writeLock, ckptLock, cache, nTx, nSalt, nRare, kept>>
  BY ChooseMarkTypes DEF ChooseMark, files, bounds
<1>3. CASE \E i \in Slots : /\ ~LockedAll /\ Shared(i) = {}
                            /\ Sets(c, Chosen(c, i, conn[c].hdr.mxFrame))
                            /\ shm' = [shm EXCEPT !.aReadMark[i] = conn[c].hdr.mxFrame]
  <2> DEFINE m == conn[c].hdr.mxFrame
  <2>1. PICK i \in Slots : /\ ~LockedAll /\ Shared(i) = {} /\ Sets(c, Chosen(c, i, m))
                           /\ shm' = [shm EXCEPT !.aReadMark[i] = m]
    BY <1>3
  <2>2. m \in Nat /\ shm \in Shms
    BY ConnFields, Fields
  <2> HIDE DEF m
  <2>3. /\ shm'.hdr = shm.hdr /\ shm'.open = shm.open /\ shm'.nBackfill = shm.nBackfill
        /\ shm'.nBackfillAttempted = shm.nBackfillAttempted /\ shm'.aReadMark[i] = m
        /\ \A j \in Slots \ {i} : shm'.aReadMark[j] = shm.aReadMark[j]
    BY <2>1, <2>2 DEF Shms
  <2>4. Sets(c, conn'[c]) /\ Chooses(c, i, m)
    BY <1>1, <2>1, <2>2
  <2> QED
    BY <1>2, <2>1, <2>3, <2>4 DEF m
<1>4. CASE Sets(c, Retried(c)) /\ UNCHANGED shm
  BY <1>2, <1>4, RetriesIntro
<1>5. CASE \E i \in Slots, m \in 0..conn[c].hdr.mxFrame :
              Sets(c, Chosen(c, i, m)) /\ UNCHANGED shm
  BY <1>1, <1>2, <1>5, ConnFields
<1> QED
  BY <1>3, <1>4, <1>5, ChooseMarkTypes

LEMMA LockMarkEffect ==
    ASSUME TypeInv, NEW c \in Conns, LockMark(c)
    PROVE  /\ TypeInv' /\ Sets(c, conn'[c]) /\ conn[c].pc = "lockMark"
           /\ \/ Retries(c)
              \/ /\ ~LockedAll
                 /\ conn'[c].pc = "check" /\ conn'[c].hdr = conn[c].hdr
                 /\ conn'[c].readLock = conn[c].mxI /\ conn'[c].minFrame = shm.nBackfill + 1
                 /\ conn'[c].mxI = conn[c].mxI /\ conn'[c].mxReadMark = conn[c].mxReadMark
                 /\ KeepsWrite(c) /\ KeepsCkpt(c)
           /\ UNCHANGED <<wal, db, shm, writeLock, ckptLock, cache, nTx, nSalt, nRare, kept>>
<1>1. /\ TypeInv' /\ conn[c].pc = "lockMark"
      /\ UNCHANGED <<wal, db, shm, writeLock, ckptLock, cache, nTx, nSalt, nRare, kept>>
  BY LockMarkTypes, Zenon DEF LockMark, files, bounds
<1>2. CASE LockedAll
  BY <1>1, <1>2, LockMarkTypes, RetriesIntro
<1>3. CASE ~LockedAll
  <2> DEFINE i == conn[c].mxI
             n == shm.nBackfill + 1
  <2>1. conn'[c] = [conn[c] EXCEPT !.pc = "check", !.readLock = i, !.minFrame = n]
        /\ Sets(c, conn'[c])
    BY <1>3, LockMarkTypes DEF Sets
  <2>2. /\ conn'[c].pc = "check" /\ conn'[c].hdr = conn[c].hdr
        /\ conn'[c].readLock = i /\ conn'[c].minFrame = n
        /\ conn'[c].mxI = conn[c].mxI /\ conn'[c].mxReadMark = conn[c].mxReadMark
        /\ KeepsWrite(c) /\ KeepsCkpt(c)
    <3> HIDE DEF i, n
    <3> QED
      BY <2>1, ConnFields DEF Wals, KeepsWrite, KeepsCkpt
  <2> QED
    BY <1>1, <1>3, <2>1, <2>2
<1> QED
  BY <1>2, <1>3, SMTT(30)

LEMMA CheckMarkEffect ==
    ASSUME TypeInv, LockInv, PosInv, NEW c \in Conns, CheckMark(c)
    PROVE  /\ TypeInv' /\ Sets(c, conn'[c]) /\ conn[c].pc = "check"
           /\ \/ Retries(c) /\ cache' = cache
              \/ /\ shm.aReadMark[conn[c].mxI] = conn[c].mxReadMark /\ shm.hdr = conn[c].hdr
                 /\ writeLock = c /\ conn'[c].pc = "header" /\ conn'[c].hdr = conn[c].hdr
                 /\ KeepsRead(c) /\ KeepsWrite(c) /\ KeepsCkpt(c) /\ cache' = cache
              \/ /\ shm.aReadMark[conn[c].mxI] = conn[c].mxReadMark /\ shm.hdr = conn[c].hdr
                 /\ writeLock # c /\ Reads(c, conn[c].hdr, conn[c].readLock)
                 /\ Fill(c, ImageOf(conn[c].minFrame, conn[c].hdr.mxFrame))
           /\ UNCHANGED <<wal, db, shm, writeLock, ckptLock, nTx, nSalt, nRare, kept>>
<1> DEFINE same == shm.aReadMark[conn[c].mxI] = conn[c].mxReadMark /\ shm.hdr = conn[c].hdr
<1>1. /\ TypeInv' /\ conn[c].pc = "check"
      /\ UNCHANGED <<wal, db, shm, writeLock, ckptLock, nTx, nSalt, nRare, kept>>
  BY CheckMarkTypes DEF CheckMark, files, bounds
<1>2. CASE Sets(c, Retried(c)) /\ UNCHANGED cache
  BY <1>1, <1>2, RetriesIntro
<1>3. CASE /\ same /\ writeLock = c /\ Sets(c, [conn[c] EXCEPT !.pc = "header"])
           /\ UNCHANGED cache
  <2>1. conn'[c] = [conn[c] EXCEPT !.pc = "header"] /\ Sets(c, conn'[c])
    BY <1>3 DEF Sets
  <2>2. /\ conn'[c].pc = "header" /\ conn'[c].hdr = conn[c].hdr
        /\ KeepsRead(c) /\ KeepsWrite(c) /\ KeepsCkpt(c)
    BY <2>1, ConnFields DEF Wals, KeepsRead, KeepsWrite, KeepsCkpt
  <2> QED
    BY <1>1, <1>3, <2>1, <2>2
<1>4. CASE /\ same /\ writeLock # c /\ Sets(c, Reading(conn[c]))
           /\ Fill(c, ImageOf(conn[c].minFrame, conn[c].hdr.mxFrame))
  <2> DEFINE r == conn[c]
  <2>1. conn'[c] = Reading(r) /\ Sets(c, conn'[c])
    BY <1>4 DEF Sets
  <2>2. Reads(c, r.hdr, r.readLock)
    BY <2>1, ConnFields, ReadsIntro
  <2> QED
    BY <1>1, <1>4, <2>1, <2>2
<1> QED
  BY <1>2, <1>3, <1>4, CheckMarkTypes

LEMMA EndReadEffect ==
    ASSUME TypeInv, NEW c \in Conns, EndRead(c)
    PROVE  /\ TypeInv' /\ Sets(c, conn'[c])
           /\ conn[c].pc = "read" /\ Rests(c, conn[c].hdr)
           /\ UNCHANGED <<wal, db, shm, writeLock, ckptLock, cache, nTx, nSalt, nRare, kept>>
<1>1. conn'[c] = Idle(conn[c].hdr) /\ Sets(c, conn'[c]) /\ conn[c].hdr \in Hdrs
  BY EndReadTypes, ConnFields DEF Sets
<1>2. Rests(c, conn[c].hdr)
  BY <1>1, RestsIntro
<1> QED
  BY <1>1, <1>2, EndReadTypes DEF EndRead, files, bounds

\* The log is begun anew, with new salts.
Restarts(c) ==
    LET h == RestartedHdr(conn[c].hdr) IN
    /\ NoWalReader
    /\ conn'[c].hdr = h /\ shm'.hdr = h /\ KeepsShm /\ nSalt' = nSalt + 1
    /\ h.mxFrame = 0 /\ h.aSalt = nSalt + 1 /\ h.isInit = conn[c].hdr.isInit
    /\ conn'[c].readLock = conn[c].readLock /\ conn'[c].minFrame = conn[c].minFrame

LEMMA RestartsIntro ==
    ASSUME TypeInv, NEW c \in Conns, NoWalReader, nSalt' = nSalt + 1,
           shm' = [shm EXCEPT !.hdr = RestartedHdr(conn[c].hdr)],
           conn'[c].hdr = RestartedHdr(conn[c].hdr),
           conn'[c].readLock = conn[c].readLock, conn'[c].minFrame = conn[c].minFrame
    PROVE  Restarts(c)
<1> DEFINE h == RestartedHdr(conn[c].hdr)
<1>1. h.mxFrame = 0 /\ h.aSalt = nSalt + 1 /\ h.isInit = conn[c].hdr.isInit
  BY ConnFields, RestartedType
<1>2. shm' = [shm EXCEPT !.hdr = h]
  OBVIOUS
<1>3. shm'.hdr = h /\ KeepsShm
  <2> HIDE DEF h
  <2> QED
    BY <1>2, Fields, SMTT(30) DEF Shms, KeepsShm
<1> QED
  BY <1>1, <1>3 DEF Restarts

LEMMA RestartLogEffect ==
    ASSUME TypeInv, NEW c \in Conns, RestartLog(c)
    PROVE  /\ TypeInv' /\ Sets(c, conn'[c]) /\ conn[c].pc = "restartLog"
           /\ conn'[c].isCommit = conn[c].isCommit /\ conn'[c].todo = conn[c].todo
           /\ conn'[c].iFirst = conn[c].iFirst /\ conn'[c].iReCksum = conn[c].iReCksum
           /\ KeepsCkpt(c)
           /\ \/ /\ conn'[c].pc = "restartInfo" /\ Restarts(c) /\ conn'[c].pChange
                 /\ shm.nBackfill > 0
              \/ /\ conn'[c].pc = "mark" /\ conn'[c].readLock = -1
                 /\ conn'[c].hdr = conn[c].hdr /\ conn'[c].pChange = conn[c].pChange
                 /\ shm' = shm /\ nSalt' = nSalt
           /\ UNCHANGED <<wal, db, writeLock, ckptLock, cache, nTx, nRare, kept>>
<1> DEFINE h == RestartedHdr(conn[c].hdr)
<1>1. /\ TypeInv' /\ conn[c].pc = "restartLog"
      /\ UNCHANGED <<wal, db, writeLock, ckptLock, cache, nTx, nRare, kept>>
  BY RestartLogTypes, Zenon DEF RestartLog, files
<1>2. CASE /\ shm.nBackfill > 0 /\ NoWalReader
           /\ Sets(c, [conn[c] EXCEPT !.pc = "restartInfo", !.hdr = RestartedHdr(conn[c].hdr),
                                      !.pChange = TRUE])
           /\ shm' = [shm EXCEPT !.hdr = RestartedHdr(conn[c].hdr)]
           /\ nSalt' = nSalt + 1
  <2>1. conn'[c] = [conn[c] EXCEPT !.pc = "restartInfo", !.hdr = h, !.pChange = TRUE]
        /\ Sets(c, conn'[c])
    BY <1>2 DEF Sets
  <2>2. /\ conn'[c].pc = "restartInfo" /\ conn'[c].hdr = h /\ conn'[c].pChange
        /\ conn'[c].readLock = conn[c].readLock /\ conn'[c].minFrame = conn[c].minFrame
        /\ conn'[c].isCommit = conn[c].isCommit /\ conn'[c].todo = conn[c].todo
        /\ conn'[c].iFirst = conn[c].iFirst /\ conn'[c].iReCksum = conn[c].iReCksum
        /\ KeepsCkpt(c)
    <3> HIDE DEF h
    <3> QED
      BY <2>1, ConnFields DEF Wals, KeepsCkpt
  <2>3. Restarts(c)
    BY <1>2, <2>2, RestartsIntro
  <2> QED
    BY <1>1, <1>2, <2>1, <2>2, <2>3
<1>3. CASE /\ Sets(c, [conn[c] EXCEPT !.pc = "mark", !.readLock = -1])
           /\ UNCHANGED <<shm, nSalt>>
  <2>1. conn'[c] = [conn[c] EXCEPT !.pc = "mark", !.readLock = -1] /\ Sets(c, conn'[c])
    BY <1>3 DEF Sets
  <2>2. /\ conn'[c].pc = "mark" /\ conn'[c].readLock = -1
        /\ conn'[c].hdr = conn[c].hdr /\ conn'[c].pChange = conn[c].pChange
        /\ conn'[c].isCommit = conn[c].isCommit /\ conn'[c].todo = conn[c].todo
        /\ conn'[c].iFirst = conn[c].iFirst /\ conn'[c].iReCksum = conn[c].iReCksum
        /\ KeepsCkpt(c)
    BY <2>1, ConnFields DEF Wals, KeepsCkpt
  <2> QED
    BY <1>1, <1>3, <2>1, <2>2
<1> QED
  BY <1>2, <1>3, RestartLogTypes, ZenonT(40)

LEMMA WriteHeaderEffect ==
    ASSUME TypeInv, NEW c \in Conns, NEW salt \in 1..(nSalt + 1), WriteHeader(c, salt)
    PROVE  /\ TypeInv' /\ Sets(c, conn'[c])
           /\ conn[c].pc = "header" /\ conn[c].hdr.mxFrame = 0 /\ NeedsHeader(c)
           /\ IF conn[c].pChange THEN salt = conn[c].hdr.aSalt
              ELSE salt \in {conn[c].hdr.aSalt, nSalt + 1} \ {0}
           /\ nSalt' \in {nSalt, nSalt + 1} /\ salt <= nSalt'
           /\ wal'.hdr = salt /\ wal'.frames = wal.frames
           /\ conn'[c].pc = "frames" /\ conn'[c].hdr.mxFrame = 0 /\ conn'[c].hdr.aSalt = salt
           /\ conn'[c].hdr.aFrameCksum = HeaderCksum(salt)
           /\ conn'[c].hdr.isInit = conn[c].hdr.isInit
           /\ KeepsRead(c) /\ KeepsCkpt(c) /\ conn'[c].iFrame = 0
           /\ conn'[c].isCommit = conn[c].isCommit /\ conn'[c].todo = conn[c].todo
           /\ conn'[c].iFirst = conn[c].iFirst /\ conn'[c].iReCksum = conn[c].iReCksum
           /\ conn'[c].pChange = conn[c].pChange
           /\ UNCHANGED <<db, shm, writeLock, ckptLock, cache, nTx, nRare, kept>>
<1> DEFINE h == [conn[c].hdr EXCEPT !.aSalt = salt, !.aFrameCksum = HeaderCksum(salt)]
<1>1. Sets(c, conn'[c]) /\ TypeInv'
      /\ conn'[c] = [conn[c] EXCEPT !.pc = "frames", !.hdr.aSalt = salt,
                                    !.hdr.aFrameCksum = HeaderCksum(salt), !.iFrame = 0]
  BY WriteHeaderTypes DEF Sets
<1>2. conn'[c] = [conn[c] EXCEPT !.pc = "frames", !.hdr = h, !.iFrame = 0]
  BY <1>1, ConnFields DEF Wals
<1>3. /\ h.mxFrame = conn[c].hdr.mxFrame /\ h.aSalt = salt /\ h.isInit = conn[c].hdr.isInit
      /\ h.aFrameCksum = HeaderCksum(salt)
  BY ConnFields DEF Hdrs
<1>4. /\ conn'[c].pc = "frames" /\ conn'[c].hdr = h /\ KeepsRead(c) /\ KeepsCkpt(c)
      /\ conn'[c].iFrame = 0
      /\ conn'[c].isCommit = conn[c].isCommit /\ conn'[c].todo = conn[c].todo
      /\ conn'[c].iFirst = conn[c].iFirst /\ conn'[c].iReCksum = conn[c].iReCksum
      /\ conn'[c].pChange = conn[c].pChange
  <2> HIDE DEF h
  <2> QED
    BY <1>2, ConnFields DEF Wals, KeepsRead, KeepsCkpt
<1>5. wal'.hdr = salt /\ wal'.frames = wal.frames
  BY WriteHeaderTypes, Fields DEF WalFiles
<1> HIDE DEF h
<1> QED
  BY <1>1, <1>3, <1>4, <1>5, WriteHeaderTypes DEF WriteHeader

LEMMA RollbackEffect ==
    ASSUME TypeInv, NEW c \in Conns, Rollback(c)
    PROVE  /\ TypeInv' /\ Sets(c, conn'[c])
           /\ conn[c].pc \in {"write", "header", "frames", "recksum"}
           /\ Reads(c, shm.hdr, conn[c].readLock)
           /\ writeLock' = None
           /\ UNCHANGED <<wal, db, shm, ckptLock, cache, nTx, nSalt, kept>>
<1> DEFINE h == shm.hdr
           l == conn[c].readLock
           q == [conn[c] EXCEPT !.hdr = h]
<1>1. h \in Hdrs /\ l \in -1..(NReader - 1)
  BY Fields, ConnFields
<1>2. conn'[c] = Reading(q) /\ Sets(c, conn'[c])
  BY RollbackTypes DEF Sets
<1>3. q.hdr = h /\ q.readLock = l /\ q.minFrame = conn[c].minFrame
  <2> HIDE DEF h
  <2> QED
    BY ConnFields DEF Wals
<1>4. Reads(c, h, l)
  <2> HIDE DEF h, l, q
  <2> QED
    BY <1>1, <1>2, <1>3, ReadsIntro
<1> QED
  BY <1>2, <1>4, RollbackTypes DEF Rollback, files

LEMMA PublishEffect ==
    ASSUME TypeInv, LockInv, PosInv, NEW c \in Conns, Publish(c)
    PROVE  LET h == PublishedHdr(conn[c]) IN
           /\ TypeInv' /\ Sets(c, conn'[c]) /\ conn[c].pc = "publish"
           /\ h.mxFrame = conn[c].iFrame /\ h.aSalt = conn[c].hdr.aSalt
           /\ h.isInit = conn[c].hdr.isInit /\ h.aFrameCksum = conn[c].hdr.aFrameCksum
           /\ \/ /\ conn[c].isCommit /\ Reads(c, h, conn[c].readLock)
                 /\ shm'.hdr = h /\ KeepsShm /\ writeLock' = None
                 /\ cache' = [cache EXCEPT ![c] = ImageOf(conn[c].minFrame, conn[c].iFrame)]
              \/ /\ ~conn[c].isCommit
                 /\ conn'[c].pc = "write" /\ conn'[c].hdr = h
                 /\ conn'[c].readLock = conn[c].readLock /\ conn'[c].minFrame = conn[c].minFrame
                 /\ conn'[c].pChange = FALSE /\ conn'[c].iReCksum = conn[c].iReCksum
                 /\ UNCHANGED <<shm, cache, writeLock>>
           /\ UNCHANGED <<wal, db, ckptLock, nTx, nSalt, nRare, kept>>
<1> DEFINE h == PublishedHdr(conn[c])
<1>1. /\ TypeInv' /\ conn[c].pc = "publish"
      /\ UNCHANGED <<wal, db, ckptLock, nTx, nSalt, nRare, kept>>
  BY PublishTypes DEF Publish, files, bounds
<1>2. /\ h.mxFrame = conn[c].iFrame /\ h.aSalt = conn[c].hdr.aSalt
      /\ h.isInit = conn[c].hdr.isInit /\ h.aFrameCksum = conn[c].hdr.aFrameCksum
  BY PublishedType
<1>3. CASE /\ conn[c].isCommit /\ Sets(c, Committed(c))
           /\ shm' = [shm EXCEPT !.hdr = PublishedHdr(conn[c])]
           /\ cache' = [cache EXCEPT ![c] = ImageOf(conn[c].minFrame, conn[c].iFrame)]
           /\ writeLock' = None
  <2>1. conn'[c] = Committed(c) /\ Sets(c, conn'[c]) /\ shm' = [shm EXCEPT !.hdr = h]
    BY <1>3 DEF Sets
  <2>2. Reads(c, h, conn[c].readLock)
    BY <2>1, PublishedType DEF Reads
  <2>3. shm'.hdr = h /\ KeepsShm
    <3> HIDE DEF h
    <3> QED
      BY <2>1, Fields DEF Shms, KeepsShm
  <2> QED
    BY <1>1, <1>2, <1>3, <2>1, <2>2, <2>3
<1>4. CASE ~conn[c].isCommit /\ Sets(c, Spilled(c)) /\ UNCHANGED <<shm, cache, writeLock>>
  <2>1. conn'[c] = Spilled(c) /\ Sets(c, conn'[c])
    BY <1>4 DEF Sets
  <2> QED
    BY <1>1, <1>2, <1>4, <2>1, PublishedType
<1> QED
  BY <1>3, <1>4, PublishTypes

LEMMA CkptBeginEffect ==
    ASSUME TypeInv, NEW c \in Conns, NEW mode \in {"PASSIVE", "TRUNCATE"}, CkptBegin(c, mode)
    PROVE  /\ TypeInv' /\ Sets(c, conn'[c])
           /\ conn[c].pc = "idle" /\ shm.open /\ shm.hdr.isInit /\ ckptLock = None
           /\ conn'[c].pc = IF shm.nBackfill < shm.hdr.mxFrame THEN "ckMarks" ELSE "ckDone"
           /\ conn'[c].hdr = shm.hdr /\ conn'[c].readLock = -1
           /\ conn'[c].i = 1 /\ conn'[c].mxSafeFrame = shm.hdr.mxFrame
           /\ conn'[c].isChanged = (conn[c].hdr # shm.hdr)
           /\ \/ conn'[c].eMode = "TRUNCATE" /\ writeLock = None /\ writeLock' = c
              \/ conn'[c].eMode = "PASSIVE" /\ writeLock' = writeLock
           /\ ckptLock' = c
           /\ UNCHANGED <<wal, db, shm, cache, nTx, nSalt, kept>>
<1> DEFINE full == mode = "TRUNCATE" /\ writeLock = None
           pc == IF shm.nBackfill < shm.hdr.mxFrame THEN "ckMarks" ELSE "ckDone"
           eMode == IF full THEN "TRUNCATE" ELSE "PASSIVE"
           h == shm.hdr
           q == Idle(h)
           changed == (conn[c].hdr # shm.hdr)
           m == shm.hdr.mxFrame
           r == [q EXCEPT !.pc = pc, !.eMode = eMode, !.i = 1, !.mxSafeFrame = m,
                          !.isChanged = changed]
<1>1. TypeInv' /\ Sets(c, r) /\ writeLock' = IF full THEN c ELSE writeLock
  BY CkptBeginTypes
<1>2. conn'[c] = r /\ Sets(c, conn'[c])
  BY <1>1 DEF Sets
<1>3. q \in Wals /\ q.readLock = -1 /\ q.hdr = h
  <2>1. h \in Hdrs
    BY Fields
  <2> HIDE DEF h
  <2> QED
    BY <2>1, IdleType, ZenonT(40)
<1>4. /\ conn'[c].pc = pc /\ conn'[c].eMode = eMode /\ conn'[c].i = 1
      /\ conn'[c].mxSafeFrame = m /\ conn'[c].isChanged = changed
      /\ conn'[c].readLock = -1 /\ conn'[c].hdr = h
  <2> HIDE DEF q, pc, eMode, changed, m, h
  <2> QED
    BY <1>2, <1>3 DEF Wals
<1> QED
  BY <1>1, <1>2, <1>4 DEF CkptBegin, files

LEMMA CkptMarkEffect ==
    ASSUME TypeInv, LockInv, PosInv, NEW c \in Conns, CkptMark(c)
    PROVE  /\ TypeInv' /\ Sets(c, conn'[c]) /\ conn[c].pc = "ckMarks" /\ conn[c].i \in Slots
           /\ shm'.hdr = shm.hdr /\ shm'.open = shm.open /\ shm'.nBackfill = shm.nBackfill
           /\ shm'.nBackfillAttempted = shm.nBackfillAttempted
           /\ \A j \in Slots \ {conn[c].i} : shm'.aReadMark[j] = shm.aReadMark[j]
           /\ \/ /\ Shared(conn[c].i) = {} /\ ~LockedAll
                 /\ conn'[c].mxSafeFrame = conn[c].mxSafeFrame
              \/ /\ shm' = shm /\ conn'[c].mxSafeFrame <= conn[c].mxSafeFrame
                 /\ conn'[c].mxSafeFrame <= shm.aReadMark[conn[c].i]
           /\ \/ conn'[c].pc = "ckMarks" /\ conn[c].i + 1 \in Slots
              \/ /\ conn[c].i = NReader - 1
                 /\ conn'[c].pc = IF shm.nBackfill < conn'[c].mxSafeFrame THEN "ckLock0"
                                  ELSE "ckDone"
           /\ conn'[c].i = conn[c].i + 1 /\ conn'[c].hdr = conn[c].hdr
           /\ conn'[c].eMode = conn[c].eMode /\ conn'[c].isChanged = conn[c].isChanged
           /\ KeepsRead(c) /\ KeepsWrite(c)
           /\ UNCHANGED <<wal, db, writeLock, ckptLock, cache, nTx, nSalt, nRare, kept>>
<1> DEFINE i == conn[c].i
           y == shm.aReadMark[i]
           free == ~LockedAll /\ Shared(i) = {}
           safe == IF conn[c].mxSafeFrame > y /\ ~free THEN y ELSE conn[c].mxSafeFrame
           pc == IF i < NReader - 1 THEN "ckMarks"
                 ELSE IF shm.nBackfill < safe THEN "ckLock0" ELSE "ckDone"
           next == i + 1
<1>1. /\ TypeInv' /\ i \in Slots
      /\ \/ conn[c].mxSafeFrame > y /\ free /\ \E m \in Nat : shm' = [shm EXCEPT !.aReadMark[i] = m]
         \/ ~(conn[c].mxSafeFrame > y /\ free) /\ UNCHANGED shm
      /\ Sets(c, [conn[c] EXCEPT !.mxSafeFrame = safe, !.i = next, !.pc = pc])
  BY CkptMarkTypes
<1>2. /\ Sets(c, conn'[c])
      /\ conn'[c] = [conn[c] EXCEPT !.mxSafeFrame = safe, !.i = next, !.pc = pc]
  BY <1>1 DEF Sets
<1>3. /\ conn'[c].mxSafeFrame = safe /\ conn'[c].i = next /\ conn'[c].pc = pc
      /\ conn'[c].hdr = conn[c].hdr
      /\ conn'[c].eMode = conn[c].eMode /\ conn'[c].isChanged = conn[c].isChanged
      /\ KeepsRead(c) /\ KeepsWrite(c)
  <2> HIDE DEF safe, next, pc
  <2> QED
    BY <1>2, ConnFields DEF Wals, KeepsRead, KeepsWrite
<1>4. conn[c].mxSafeFrame \in Nat /\ y \in Nat /\ i \in Nat /\ i <= NReader - 1 /\ NReader \in Nat
  BY <1>1, ConnFields, Fields, WalConstants, SMTT(30) DEF Slots
<1>5. /\ shm'.hdr = shm.hdr /\ shm'.open = shm.open /\ shm'.nBackfill = shm.nBackfill
      /\ shm'.nBackfillAttempted = shm.nBackfillAttempted
      /\ \A j \in Slots \ {i} : shm'.aReadMark[j] = shm.aReadMark[j]
  <2>1. CASE \E m \in Nat : shm' = [shm EXCEPT !.aReadMark[i] = m]
    <3>1. PICK m \in Nat : shm' = [shm EXCEPT !.aReadMark[i] = m]
      BY <2>1
    <3> HIDE DEF i
    <3> QED
      BY <1>1, <3>1, Fields DEF Shms
  <2> QED
    BY <1>1, <2>1
<1>6. \/ free /\ safe = conn[c].mxSafeFrame
      \/ shm' = shm /\ safe <= conn[c].mxSafeFrame /\ safe <= y
  BY <1>1, <1>4
<1>7. \/ pc = "ckMarks" /\ i + 1 \in Slots
      \/ i = NReader - 1 /\ pc = IF shm.nBackfill < safe THEN "ckLock0" ELSE "ckDone"
  <2>1. i < NReader - 1 => i + 1 \in Slots
    BY <1>4 DEF Slots
  <2> HIDE DEF safe
  <2> QED
    BY <1>4, <2>1
<1> HIDE DEF safe, pc
<1> QED
  BY <1>1, <1>2, <1>3, <1>5, <1>6, <1>7, Zenon DEF CkptMark, files, bounds

LEMMA CkptLock0Effect ==
    ASSUME TypeInv, NEW c \in Conns, CkptLock0(c)
    PROVE  /\ TypeInv' /\ Sets(c, conn'[c]) /\ conn[c].pc = "ckLock0"
           /\ shm'.hdr = shm.hdr /\ shm'.open = shm.open /\ shm'.nBackfill = shm.nBackfill
           /\ shm'.aReadMark = shm.aReadMark
           /\ \/ /\ Shared(0) = {} /\ conn'[c].pc = "ckCopy" /\ conn'[c].todo = ToCopy(conn[c])
                 /\ shm'.nBackfillAttempted = conn[c].mxSafeFrame
              \/ conn'[c].pc = "ckDone" /\ shm' = shm
           /\ conn'[c].hdr = conn[c].hdr /\ KeepsRead(c) /\ KeepsCkpt(c)
           /\ UNCHANGED <<wal, db, writeLock, ckptLock, cache, nTx, nSalt, nRare, kept>>
<1>1. /\ TypeInv' /\ conn[c].pc = "ckLock0"
      /\ UNCHANGED <<wal, db, writeLock, ckptLock, cache, nTx, nSalt, nRare, kept>>
  BY CkptLock0Types DEF CkptLock0, files, bounds
<1>2. CASE /\ Shared(0) = {}
           /\ Sets(c, [conn[c] EXCEPT !.pc = "ckCopy", !.todo = ToCopy(conn[c])])
           /\ shm' = [shm EXCEPT !.nBackfillAttempted = conn[c].mxSafeFrame]
  <2> DEFINE P == ToCopy(conn[c])
             m == conn[c].mxSafeFrame
  <2>1. conn'[c] = [conn[c] EXCEPT !.pc = "ckCopy", !.todo = P] /\ Sets(c, conn'[c])
        /\ shm' = [shm EXCEPT !.nBackfillAttempted = m]
    BY <1>2 DEF Sets
  <2>2. /\ conn'[c].pc = "ckCopy" /\ conn'[c].todo = P
        /\ conn'[c].hdr = conn[c].hdr /\ KeepsRead(c) /\ KeepsCkpt(c)
    <3> HIDE DEF P
    <3> QED
      BY <2>1, ConnFields DEF Wals, KeepsRead, KeepsCkpt
  <2>3. /\ shm'.hdr = shm.hdr /\ shm'.open = shm.open /\ shm'.nBackfill = shm.nBackfill
        /\ shm'.nBackfillAttempted = m /\ shm'.aReadMark = shm.aReadMark
    <3> HIDE DEF m
    <3> QED
      BY <2>1, Fields DEF Shms
  <2> QED
    BY <1>1, <1>2, <2>1, <2>2, <2>3
<1>3. CASE Sets(c, [conn[c] EXCEPT !.pc = "ckDone"]) /\ UNCHANGED shm
  <2>1. conn'[c] = [conn[c] EXCEPT !.pc = "ckDone"] /\ Sets(c, conn'[c])
    BY <1>3 DEF Sets
  <2>2. /\ conn'[c].pc = "ckDone" /\ conn'[c].hdr = conn[c].hdr /\ KeepsRead(c) /\ KeepsCkpt(c)
    BY <2>1, ConnFields DEF Wals, KeepsRead, KeepsCkpt
  <2> QED
    BY <1>1, <1>3, <2>1, <2>2
<1> QED
  BY <1>2, <1>3, CkptLock0Types

LEMMA CkptCopyEffect ==
    ASSUME TypeInv, LockInv, PosInv, NEW c \in Conns, CkptCopy(c)
    PROVE  /\ TypeInv' /\ Sets(c, conn'[c]) /\ conn[c].pc = "ckCopy" /\ conn'[c].pc = "ckCopy"
           /\ \E p \in conn[c].todo :
                 LET i == FindFrame(p, nb + 1, conn[c].hdr.mxFrame) IN
                 /\ i \in (nb + 1)..conn[c].hdr.mxFrame /\ i <= conn[c].mxSafeFrame
                 /\ i \in 1..Len(wal.frames) /\ wal.frames[i].page = p
                 /\ db' = [db EXCEPT ![p] = wal.frames[i].val]
                 /\ conn'[c].todo = conn[c].todo \ {p}
           /\ conn'[c].hdr = conn[c].hdr /\ KeepsRead(c) /\ KeepsCkpt(c)
           /\ UNCHANGED <<wal, shm, writeLock, ckptLock, cache, nTx, nSalt, nRare, kept>>
<1>1. /\ TypeInv' /\ conn[c].pc = "ckCopy"
      /\ UNCHANGED <<wal, shm, writeLock, ckptLock, cache, nTx, nSalt, nRare, kept>>
  BY CkptCopyTypes DEF CkptCopy, bounds
<1>2. PICK p \in conn[c].todo :
        /\ FindFrame(p, nb + 1, conn[c].hdr.mxFrame) \in (nb + 1)..conn[c].hdr.mxFrame
        /\ FindFrame(p, nb + 1, conn[c].hdr.mxFrame) <= conn[c].mxSafeFrame
        /\ FindFrame(p, nb + 1, conn[c].hdr.mxFrame) \in 1..Len(wal.frames)
        /\ wal.frames[FindFrame(p, nb + 1, conn[c].hdr.mxFrame)].page = p
        /\ db' = [db EXCEPT ![p] = wal.frames[FindFrame(p, nb + 1, conn[c].hdr.mxFrame)].val]
        /\ Sets(c, [conn[c] EXCEPT !.todo = conn[c].todo \ {p}])
  BY CkptCopyTypes
<1> DEFINE P == conn[c].todo \ {p}
<1>3. conn'[c] = [conn[c] EXCEPT !.todo = P] /\ Sets(c, conn'[c])
  BY <1>2 DEF Sets
<1>4. /\ conn'[c].pc = conn[c].pc /\ conn'[c].todo = P
      /\ conn'[c].hdr = conn[c].hdr /\ KeepsRead(c) /\ KeepsCkpt(c)
  <2> HIDE DEF P
  <2> QED
    BY <1>3, ConnFields DEF Wals, KeepsRead, KeepsCkpt
<1> QED
  BY <1>1, <1>2, <1>3, <1>4

LEMMA CkptRestartEffect ==
    ASSUME TypeInv, NEW c \in Conns, CkptRestart(c)
    PROVE  /\ TypeInv' /\ Sets(c, conn'[c]) /\ conn[c].pc = "ckDone"
           /\ writeLock' = writeLock \/ (writeLock = None /\ writeLock' = c)
           /\ conn[c].eMode # "PASSIVE" => writeLock' = writeLock
           /\ KeepsWrite(c) /\ conn'[c].eMode = conn[c].eMode
           /\ \/ /\ conn'[c].pc = "ckEnd" /\ conn'[c].hdr = conn[c].hdr
                 /\ conn'[c].isChanged \in {conn[c].isChanged, TRUE}
                 /\ conn'[c].readLock = conn[c].readLock
                 /\ shm' = shm /\ nSalt' = nSalt
              \/ /\ CkptCanRestart(c) /\ Restarts(c) /\ conn'[c].pc = "ckInfo"
                 /\ conn'[c].isChanged = conn[c].isChanged
                 /\ conn[c].eMode = "PASSIVE" => writeLock' = c
           /\ UNCHANGED <<wal, db, ckptLock, cache, nTx, nRare, kept>>
<1> DEFINE h == RestartedHdr(conn[c].hdr)
<1>1. /\ TypeInv' /\ conn[c].pc = "ckDone"
      /\ writeLock' = writeLock \/ (writeLock = None /\ writeLock' = c)
      /\ conn[c].eMode # "PASSIVE" => writeLock' = writeLock
      /\ UNCHANGED <<wal, db, ckptLock, cache, nTx, nRare, kept>>
  BY CkptRestartTypes, Zenon DEF CkptRestart, files
<1>2. CASE Sets(c, [conn[c] EXCEPT !.pc = "ckEnd", !.isChanged = TRUE]) /\ UNCHANGED <<shm, nSalt>>
  <2>1. conn'[c] = [conn[c] EXCEPT !.pc = "ckEnd", !.isChanged = TRUE] /\ Sets(c, conn'[c])
    BY <1>2 DEF Sets
  <2>2. /\ conn'[c].pc = "ckEnd" /\ conn'[c].hdr = conn[c].hdr /\ conn'[c].isChanged = TRUE
        /\ conn'[c].readLock = conn[c].readLock /\ conn'[c].eMode = conn[c].eMode
        /\ KeepsWrite(c)
    BY <2>1, ConnFields DEF Wals, KeepsWrite
  <2> QED
    BY <1>1, <1>2, <2>1, <2>2
<1>3. CASE Sets(c, [conn[c] EXCEPT !.pc = "ckEnd"]) /\ UNCHANGED <<shm, nSalt>>
  <2>1. conn'[c] = [conn[c] EXCEPT !.pc = "ckEnd"] /\ Sets(c, conn'[c])
    BY <1>3 DEF Sets
  <2>2. /\ conn'[c].pc = "ckEnd" /\ conn'[c].hdr = conn[c].hdr
        /\ conn'[c].isChanged = conn[c].isChanged
        /\ conn'[c].readLock = conn[c].readLock /\ conn'[c].eMode = conn[c].eMode
        /\ KeepsWrite(c)
    BY <2>1, ConnFields DEF Wals, KeepsWrite
  <2> QED
    BY <1>1, <1>3, <2>1, <2>2
<1>4. CASE /\ CkptCanRestart(c)
           /\ conn[c].eMode = "PASSIVE" => writeLock' = c
           /\ Sets(c, [conn[c] EXCEPT !.pc = "ckInfo", !.hdr = RestartedHdr(conn[c].hdr)])
           /\ shm' = [shm EXCEPT !.hdr = RestartedHdr(conn[c].hdr)]
           /\ nSalt' = nSalt + 1
  <2>1. conn'[c] = [conn[c] EXCEPT !.pc = "ckInfo", !.hdr = h] /\ Sets(c, conn'[c])
    BY <1>4 DEF Sets
  <2>2. /\ conn'[c].pc = "ckInfo" /\ conn'[c].hdr = h
        /\ conn'[c].readLock = conn[c].readLock /\ conn'[c].minFrame = conn[c].minFrame
        /\ conn'[c].eMode = conn[c].eMode /\ conn'[c].isChanged = conn[c].isChanged
        /\ KeepsWrite(c)
    <3> HIDE DEF h
    <3> QED
      BY <2>1, ConnFields DEF Wals, KeepsWrite
  <2>3. Restarts(c)
    BY <1>4, <2>2, RestartsIntro DEF CkptCanRestart
  <2> QED
    BY <1>1, <1>4, <2>1, <2>2, <2>3
<1> QED
  BY <1>1, <1>2, <1>3, <1>4, CkptRestartTypes, ZenonT(40)

LEMMA CkptHeaderEffect ==
    ASSUME TypeInv, NEW c \in Conns, CkptHeader(c)
    PROVE  /\ TypeInv' /\ Sets(c, conn'[c])
           /\ conn[c].pc = "ckHeader" /\ conn'[c].pc = "ckPublish"
           /\ conn'[c].hdr.mxFrame = conn[c].hdr.mxFrame
           /\ conn'[c].hdr.aSalt = conn[c].hdr.aSalt
           /\ conn'[c].hdr.isInit = conn[c].hdr.isInit
           /\ conn'[c].hdr.aFrameCksum = HeaderCksum(conn[c].hdr.aSalt)
           /\ KeepsRead(c) /\ KeepsWrite(c) /\ KeepsCkpt(c)
           /\ wal'.hdr = conn[c].hdr.aSalt /\ wal'.frames = wal.frames
           /\ UNCHANGED <<db, shm, writeLock, ckptLock, cache, nTx, nSalt, nRare, kept>>
<1> DEFINE salt == conn[c].hdr.aSalt
           h == [conn[c].hdr EXCEPT !.aFrameCksum = HeaderCksum(salt)]
<1>1. Sets(c, conn'[c]) /\ TypeInv'
      /\ conn'[c] = [conn[c] EXCEPT !.pc = "ckPublish", !.hdr.aFrameCksum = HeaderCksum(salt)]
  BY CkptHeaderTypes DEF Sets
<1>2. conn'[c] = [conn[c] EXCEPT !.pc = "ckPublish", !.hdr = h]
  BY <1>1, ConnFields DEF Wals
<1>3. /\ h.mxFrame = conn[c].hdr.mxFrame /\ h.aSalt = salt /\ h.isInit = conn[c].hdr.isInit
      /\ h.aFrameCksum = HeaderCksum(salt)
  BY ConnFields DEF Hdrs
<1>4. conn'[c].pc = "ckPublish" /\ conn'[c].hdr = h /\ KeepsRead(c) /\ KeepsWrite(c) /\ KeepsCkpt(c)
  <2> HIDE DEF h
  <2> QED
    BY <1>2, ConnFields DEF Wals, KeepsRead, KeepsWrite, KeepsCkpt
<1>5. wal'.hdr = salt /\ wal'.frames = wal.frames
  BY Fields DEF CkptHeader, WalFiles
<1> HIDE DEF h
<1> QED
  BY <1>1, <1>3, <1>4, <1>5 DEF CkptHeader, bounds

LEMMA CkptEndEffect ==
    ASSUME TypeInv, NEW c \in Conns, CkptEnd(c)
    PROVE  /\ TypeInv' /\ Sets(c, conn'[c]) /\ conn[c].pc = "ckEnd"
           /\ \/ conn[c].isChanged /\ Rests(c, ZeroHdr)
              \/ ~conn[c].isChanged /\ Rests(c, conn[c].hdr)
           /\ writeLock' = IF writeLock = c THEN None ELSE writeLock
           /\ ckptLock' = None
           /\ UNCHANGED <<wal, db, shm, cache, nTx, nSalt, nRare, kept>>
<1>1. TypeInv' /\ Sets(c, Idle(IF conn[c].isChanged THEN ZeroHdr ELSE conn[c].hdr))
  BY CkptEndTypes
<1>2. CASE conn[c].isChanged
  <2>1. conn'[c] = Idle(ZeroHdr) /\ Sets(c, conn'[c])
    BY <1>1, <1>2 DEF Sets
  <2> QED
    BY <1>1, <1>2, <2>1, ZeroTypes, RestsIntro DEF CkptEnd, files, bounds
<1>3. CASE ~conn[c].isChanged
  <2>1. conn'[c] = Idle(conn[c].hdr) /\ Sets(c, conn'[c])
    BY <1>1, <1>3 DEF Sets
  <2> QED
    BY <1>1, <1>3, <2>1, ConnFields, RestsIntro DEF CkptEnd, files, bounds
<1> QED
  BY <1>2, <1>3

\* The fields of a connection that a turn of the loop over the pages leaves alone.
KeepsLoop(c) ==
    /\ KeepsRead(c) /\ KeepsCkpt(c) /\ conn'[c].isCommit = conn[c].isCommit
    /\ conn'[c].iFirst = conn[c].iFirst /\ conn'[c].pChange = conn[c].pChange
    /\ conn'[c].hdr.mxFrame = conn[c].hdr.mxFrame /\ conn'[c].hdr.aSalt = conn[c].hdr.aSalt
    /\ conn'[c].hdr.isInit = conn[c].hdr.isInit
\* Frame n of the log is f now, and nothing else changed.
PutsFrame(n, f) ==
    /\ wal'.hdr = wal.hdr /\ wal'.frames[n] = f
    /\ Len(wal'.frames) = IF n > Len(wal.frames) THEN n ELSE Len(wal.frames)
    /\ \A j \in 1..Len(wal.frames) : j # n => wal'.frames[j] = wal.frames[j]

OverwritesAt(c, p, i) ==
    /\ conn[c].iFirst > 0 /\ ~CommitsNow(c, p)
    /\ i = FindFrame(p, conn[c].minFrame, conn[c].hdr.mxFrame)
    /\ conn[c].iFirst <= i /\ i <= conn[c].hdr.mxFrame /\ wal.frames[i].page = p
    /\ i \in 1..Len(wal.frames) /\ PutsFrame(i, [wal.frames[i] EXCEPT !.val = Content(conn[c])])
    /\ conn'[c].pc = NextPc(c, p) /\ conn'[c].todo = conn[c].todo \ {p}
    /\ conn'[c].iReCksum = IF conn[c].iReCksum = 0 \/ i < conn[c].iReCksum THEN i
                           ELSE conn[c].iReCksum
    /\ conn'[c].iFrame = conn[c].iFrame /\ conn'[c].hdr = conn[c].hdr

AppendsAt(c, p, n) ==
    /\ n = conn[c].iFrame + 1 /\ n \in 1..(Len(wal.frames) + 1)
    /\ NewFrame(c, p) \in Frames /\ PutsFrame(n, NewFrame(c, p))
    /\ conn'[c].pc = IF CommitsNow(c, p) /\ conn[c].iReCksum > 0 THEN "recksum" ELSE NextPc(c, p)
    /\ conn'[c].todo = conn[c].todo \ {p} /\ conn'[c].iFrame = n
    /\ conn'[c].iReCksum = conn[c].iReCksum
    /\ conn'[c].hdr.aFrameCksum = IF conn[c].iReCksum = 0 THEN NewCksum(c, p)
                                  ELSE conn[c].hdr.aFrameCksum

LEMMA NewFrameType ==
    ASSUME TypeInv, LockInv, PosInv, NEW c \in Conns, conn[c].pc = "frames",
           NEW p \in conn[c].todo
    PROVE  /\ NewFrame(c, p) \in Frames /\ NewCksum(c, p) \in Seq(Items)
           /\ NewDigest(c, p) \in Items
           /\ Content(conn[c]) \in 1..(2 * MaxTx) /\ Content(conn[c]) \in Nat
           /\ WriterInv(c) /\ Writing(c) /\ conn[c].iFrame + 1 \in 1..(Len(wal.frames) + 1)
<1>1. Writing(c) /\ WriterInv(c) /\ nTx > 0
  BY WriterKnows DEF WritePcs, FramePcs
<1>2. Content(conn[c]) \in 1..(2 * MaxTx) /\ Content(conn[c]) \in Nat
  BY <1>1, ContentType
<1>3. p \in Pages /\ p \in Nat /\ CommitsNow(c, p) \in BOOLEAN
  BY ConnFields, WalConstants DEF CommitsNow
<1>4. NewDigest(c, p) \in Items
  BY <1>2, <1>3 DEF NewDigest, Items
<1>5. NewCksum(c, p) \in Seq(Items)
  BY <1>4, ConnFields DEF NewCksum
<1>6. NewFrame(c, p) \in Frames
  BY <1>2, <1>3, <1>5, ConnFields DEF NewFrame, Frames, CommitsNow
<1>7. conn[c].iFrame + 1 \in 1..(Len(wal.frames) + 1)
  BY <1>1, ConnFields, Fields, SMTT(30) DEF WriterInv
<1> QED
  BY <1>1, <1>2, <1>4, <1>5, <1>6, <1>7

LEMMA WriteFrameEffect ==
    ASSUME TypeInv, LockInv, PosInv, NEW c \in Conns, WriteFrame(c)
    PROVE  /\ TypeInv' /\ Sets(c, conn'[c]) /\ conn[c].pc = "frames" /\ KeepsLoop(c)
           /\ \E p \in conn[c].todo :
                 AppendsAt(c, p, conn[c].iFrame + 1) \/ \E i \in Nat : OverwritesAt(c, p, i)
           /\ UNCHANGED <<db, shm, writeLock, ckptLock, cache, nTx, nSalt, nRare, kept>>
<1>1. /\ TypeInv' /\ conn[c].pc = "frames"
      /\ UNCHANGED <<db, shm, writeLock, ckptLock, cache, nTx, nSalt, nRare, kept>>
  BY WriteFrameTypes, Zenon DEF WriteFrame, bounds
<1>2. PICK p \in conn[c].todo : Appends(c, p) \/ \E i \in Nat : Overwrites(c, p, i)
  BY WriteFrameTypes
<1>3. /\ NewFrame(c, p) \in Frames /\ NewCksum(c, p) \in Seq(Items)
      /\ Content(conn[c]) \in 1..(2 * MaxTx)
      /\ WriterInv(c) /\ Writing(c) /\ conn[c].iFrame + 1 \in 1..(Len(wal.frames) + 1)
  BY <1>1, NewFrameType
<1> DEFINE P == conn[c].todo \ {p}
           next == NextPc(c, p)
<1>4. CASE Appends(c, p)
  <2> DEFINE n == conn[c].iFrame + 1
             f == NewFrame(c, p)
             ck == IF conn[c].iReCksum = 0 THEN NewCksum(c, p) ELSE conn[c].hdr.aFrameCksum
             h == [conn[c].hdr EXCEPT !.aFrameCksum = ck]
             pc == IF CommitsNow(c, p) /\ conn[c].iReCksum > 0 THEN "recksum" ELSE next
  <2>1. /\ wal' = [wal EXCEPT !.frames = PutFrame(wal.frames, n, f)]
        /\ Sets(c, [conn[c] EXCEPT !.todo = P, !.iFrame = n, !.hdr.aFrameCksum = ck, !.pc = pc])
    BY <1>4 DEF Appends
  <2>2. Sets(c, conn'[c])
        /\ conn'[c] = [conn[c] EXCEPT !.todo = P, !.iFrame = n, !.hdr = h, !.pc = pc]
    BY <2>1, ConnFields DEF Sets, Wals
  <2>3. /\ h.mxFrame = conn[c].hdr.mxFrame /\ h.aSalt = conn[c].hdr.aSalt
        /\ h.isInit = conn[c].hdr.isInit /\ h.aFrameCksum = ck
    <3> HIDE DEF ck
    <3> QED
      BY ConnFields DEF Hdrs
  <2>4. /\ conn'[c].todo = P /\ conn'[c].iFrame = n /\ conn'[c].hdr = h /\ conn'[c].pc = pc
        /\ conn'[c].iReCksum = conn[c].iReCksum
        /\ KeepsRead(c) /\ KeepsCkpt(c) /\ conn'[c].isCommit = conn[c].isCommit
        /\ conn'[c].iFirst = conn[c].iFirst /\ conn'[c].pChange = conn[c].pChange
    <3> HIDE DEF P, n, h, pc
    <3> QED
      BY <2>2, ConnFields DEF Wals, KeepsRead, KeepsCkpt
  <2>5. wal'.hdr = wal.hdr /\ wal'.frames = PutFrame(wal.frames, n, f)
    BY <2>1, Fields DEF WalFiles
  <2>6. PutsFrame(n, f)
    <3>1. n \in 1..(Len(wal.frames) + 1) /\ f \in Frames /\ wal.frames \in Seq(Frames)
      BY <1>3, Fields
    <3> DEFINE g == PutFrame(wal.frames, n, f)
    <3> HIDE DEF n, f
    <3>2. /\ g[n] = f /\ Len(g) = IF n > Len(wal.frames) THEN n ELSE Len(wal.frames)
          /\ \A j \in 1..Len(wal.frames) : j # n => g[j] = wal.frames[j]
      BY <3>1, PutFrameProps, ZenonT(40)
    <3>3. wal'.hdr = wal.hdr /\ wal'.frames = g
      BY <2>5
    <3> HIDE DEF g
    <3> QED
      BY <3>2, <3>3 DEF PutsFrame
  <2> HIDE DEF h
  <2>7. KeepsLoop(c)
    BY <2>3, <2>4 DEF KeepsLoop
  <2>8. AppendsAt(c, p, n)
    BY <1>3, <2>3, <2>4, <2>6 DEF AppendsAt
  <2> QED
    BY <1>1, <2>2, <2>7, <2>8
<1>5. ASSUME NEW i \in Nat, Overwrites(c, p, i)
      PROVE  Sets(c, conn'[c]) /\ KeepsLoop(c) /\ OverwritesAt(c, p, i)
  <2> DEFINE k == IF conn[c].iReCksum = 0 \/ i < conn[c].iReCksum THEN i ELSE conn[c].iReCksum
             f == [wal.frames[i] EXCEPT !.val = Content(conn[c])]
  <2>1. /\ wal' = [wal EXCEPT !.frames[i].val = Content(conn[c])]
        /\ Sets(c, [conn[c] EXCEPT !.todo = P, !.pc = next, !.iReCksum = k])
        /\ conn[c].iFirst > 0 /\ ~CommitsNow(c, p)
        /\ i = FindFrame(p, conn[c].minFrame, conn[c].hdr.mxFrame)
        /\ conn[c].iFirst <= i /\ i <= conn[c].hdr.mxFrame /\ wal.frames[i].page = p
    BY <1>5 DEF Overwrites
  <2>2. i \in 1..Len(wal.frames)
    <3>1. conn[c].hdr.mxFrame <= Len(wal.frames)
      BY <1>3 DEF WriterInv
    <3>2. /\ Len(wal.frames) \in Nat /\ conn[c].hdr.mxFrame \in Nat /\ conn[c].iFirst \in Nat
          /\ conn[c].iFirst > 0 /\ conn[c].iFirst <= i /\ i <= conn[c].hdr.mxFrame
      BY <2>1, ConnFields, Fields
    <3> QED
      BY <3>1, <3>2
  <2>3. Sets(c, conn'[c]) /\ conn'[c] = [conn[c] EXCEPT !.todo = P, !.pc = next, !.iReCksum = k]
    BY <2>1 DEF Sets
  <2>4. /\ conn'[c].todo = P /\ conn'[c].pc = next /\ conn'[c].iReCksum = k
        /\ conn'[c].iFrame = conn[c].iFrame /\ conn'[c].hdr = conn[c].hdr
        /\ KeepsRead(c) /\ KeepsCkpt(c) /\ conn'[c].isCommit = conn[c].isCommit
        /\ conn'[c].iFirst = conn[c].iFirst /\ conn'[c].pChange = conn[c].pChange
    <3> HIDE DEF P, next, k
    <3> QED
      BY <2>3, ConnFields DEF Wals, KeepsRead, KeepsCkpt
  <2>5. f \in Frames
    BY <1>3, <2>2, Fields DEF Frames
  <2>6. wal' = [wal EXCEPT !.frames = [wal.frames EXCEPT ![i] = f]]
    BY <2>1
  <2>7. PutsFrame(i, f)
    <3> HIDE DEF f
    <3> QED
      BY <2>2, <2>5, <2>6, FrameUpdate, Fields DEF PutsFrame
  <2>8. OverwritesAt(c, p, i)
    BY <2>1, <2>2, <2>4, <2>7 DEF OverwritesAt
  <2> QED
    BY <2>3, <2>4, <2>8 DEF KeepsLoop
<1> QED
  BY <1>1, <1>2, <1>4, <1>5

LEMMA RewriteChecksumEffect ==
    ASSUME TypeInv, LockInv, PosInv, NEW c \in Conns, RewriteChecksum(c)
    PROVE  LET i == conn[c].iReCksum IN
           /\ TypeInv' /\ Sets(c, conn'[c]) /\ conn[c].pc = "recksum" /\ KeepsLoop(c)
           /\ i \in 1..Len(wal.frames) /\ RightFrame(c) \in Frames /\ PutsFrame(i, RightFrame(c))
           /\ conn'[c].todo = conn[c].todo /\ conn'[c].iFrame = conn[c].iFrame
           /\ conn'[c].hdr.aFrameCksum = RightCksum(c)
           /\ \/ i = conn[c].iFrame /\ conn'[c].iReCksum = 0 /\ conn'[c].pc = "publish"
              \/ i # conn[c].iFrame /\ conn'[c].iReCksum = i + 1 /\ conn'[c].pc = "recksum"
           /\ UNCHANGED <<db, shm, writeLock, ckptLock, cache, nTx, nSalt, nRare, kept>>
<1> DEFINE i == conn[c].iReCksum
           ck == RightCksum(c)
           f == RightFrame(c)
           h == [conn[c].hdr EXCEPT !.aFrameCksum = ck]
           k == IF i = conn[c].iFrame THEN 0 ELSE i + 1
           pc == IF i = conn[c].iFrame THEN "publish" ELSE "recksum"
<1>1. /\ TypeInv' /\ conn[c].pc = "recksum" /\ i \in 1..Len(wal.frames) /\ f \in Frames
      /\ wal' = [wal EXCEPT !.frames = [wal.frames EXCEPT ![i] = f]]
      /\ Sets(c, [conn[c] EXCEPT !.hdr.aFrameCksum = ck, !.iReCksum = k, !.pc = pc])
      /\ UNCHANGED <<db, shm, writeLock, ckptLock, cache, nTx, nSalt, nRare, kept>>
  BY RewriteChecksumTypes, Zenon DEF RewriteChecksum, bounds
<1>2. Sets(c, conn'[c]) /\ conn'[c] = [conn[c] EXCEPT !.hdr = h, !.iReCksum = k, !.pc = pc]
  BY <1>1, ConnFields DEF Sets, Wals
<1>3. /\ h.mxFrame = conn[c].hdr.mxFrame /\ h.aSalt = conn[c].hdr.aSalt
      /\ h.isInit = conn[c].hdr.isInit /\ h.aFrameCksum = ck
  <2> HIDE DEF ck
  <2> QED
    BY ConnFields DEF Hdrs
<1>4. /\ conn'[c].hdr = h /\ conn'[c].iReCksum = k /\ conn'[c].pc = pc
      /\ conn'[c].todo = conn[c].todo /\ conn'[c].iFrame = conn[c].iFrame
      /\ KeepsRead(c) /\ KeepsCkpt(c) /\ conn'[c].isCommit = conn[c].isCommit
      /\ conn'[c].iFirst = conn[c].iFirst /\ conn'[c].pChange = conn[c].pChange
  <2> HIDE DEF h, k, pc
  <2> QED
    BY <1>2, ConnFields DEF Wals, KeepsRead, KeepsCkpt
<1>5. PutsFrame(i, f)
  <2> HIDE DEF f, i
  <2> QED
    BY <1>1, FrameUpdate, Fields DEF PutsFrame
<1>6. KeepsLoop(c)
  <2> HIDE DEF h
  <2> QED
    BY <1>3, <1>4 DEF KeepsLoop
<1>7. conn'[c].hdr.aFrameCksum = RightCksum(c)
  <2> HIDE DEF h
  <2> QED
    BY <1>3, <1>4
<1> HIDE DEF h
<1> QED
  BY <1>1, <1>2, <1>4, <1>5, <1>6, <1>7, SMTT(30)

\* What the point of its call says of the locks a connection holds.
LEMMA HeldLocks ==
    ASSUME TypeInv, LockInv, NEW c \in Conns
    PROVE  /\ conn[c].pc \in {"idle", "try", "read"} => writeLock # c /\ ckptLock # c
           /\ conn[c].pc \in {"lockMark", "check"} => ckptLock # c
           /\ conn[c].pc \in WritePcs => writeLock = c /\ ckptLock # c
           /\ conn[c].pc \in RestartPcs => writeLock = c
           /\ conn[c].pc \in CkptPcs => ckptLock = c /\ conn[c].readLock = -1
           /\ Writing(c) => nTx > 0
           /\ conn[c].pc # "idle" => conn[c].hdr.isInit /\ Live
           /\ writeLock = c => Live
           /\ ckptLock = c => Live
<1>1. LockInvOf(c) /\ (~Live => writeLock = None /\ ckptLock = None)
  BY DEF LockInv
<1>2. c # None
  BY WalConstants
<1>3. conn[c].pc \in {"idle", "try", "read", "lockMark", "check"} \cup WritePcs
        => conn[c].pc \notin CkptPcs
  BY DEF WritePcs, FramePcs, CkptPcs, BackfillPcs, RestartPcs
<1>4. conn[c].pc \in RestartPcs => conn[c].pc \in CkptPcs
  BY DEF CkptPcs
<1> QED
  BY <1>1, <1>2, <1>3, <1>4, NotIdleIsLive DEF LockInvOf

\* Which points are in which part of a call.
LEMMA PcParts ==
    /\ \A pc \in {"idle", "try", "read", "lockMark", "check"} : pc \notin WritePcs \cup CkptPcs
    /\ \A pc \in WritePcs : pc \notin CkptPcs
    /\ \A pc \in {"write", "restartLog", "restartInfo", "mark", "header", "frames", "recksum",
                  "publish"} : pc \in WritePcs
    /\ \A pc \in FramePcs : pc \in {"header", "frames", "recksum", "publish"} /\ pc \in WritePcs
    /\ \A pc \in {"header", "frames", "recksum", "publish"} : pc \in FramePcs
    /\ \A pc \in {"ckDone", "ckEnd", "ckMarks", "ckLock0", "ckCopy", "ckInfo", "ckHeader",
                  "ckPublish", "ckTruncate"} : pc \in CkptPcs
    /\ \A pc \in BackfillPcs : pc \in CkptPcs /\ pc \in {"ckMarks", "ckLock0", "ckCopy"}
    /\ \A pc \in RestartPcs : pc \in CkptPcs /\ pc \in {"ckInfo", "ckHeader", "ckPublish",
                                                         "ckTruncate"}
    /\ \A pc \in {"ckMarks", "ckLock0", "ckCopy"} : pc \in BackfillPcs
    /\ \A pc \in {"ckInfo", "ckHeader", "ckPublish", "ckTruncate"} : pc \in RestartPcs
    /\ \A pc \in RestartPcs : pc \in ExclusivePcs
BY DEF WritePcs, FramePcs, CkptPcs, BackfillPcs, RestartPcs, ExclusivePcs

\* A step that takes no exclusive read lock and no new read lock.
LEMMA LockStepQuiet ==
    ASSUME TypeInv, LockInv, NEW c \in Conns, Sets(c, conn'[c]), OwnLocks(c), Live',
           TypeInv', LockInvOf(c)',
           conn'[c].pc \notin ExclusivePcs, conn'[c].pc # "ckCopy",
           conn'[c].readLock \in {-1, conn[c].readLock}
    PROVE  LockInv'
<1>1. conn[c].readLock \in Int /\ conn'[c].readLock \in Int
  BY ConnFields, ConnFieldsNext
<1> QED
  BY <1>1, LockStep

\* A connection that starts or ends a call, holding nothing but a header.
LEMMA RestsLocks ==
    ASSUME TypeInv, TypeInv', LockInv, NEW c \in Conns, NEW h, Sets(c, conn'[c]), Rests(c, h),
           OwnLocks(c), Live', writeLock' # c, ckptLock' # c
    PROVE  LockInv'
<1>1. LockInvOf(c)'
  BY PcParts DEF LockInvOf, Rests, Writing, RestartPcs, BackfillPcs, WritePcs, FramePcs, CkptPcs
<1> QED
  BY <1>1, LockStepQuiet DEF Rests, ExclusivePcs

LEMMA ReadsLocks ==
    ASSUME TypeInv, TypeInv', LockInv, NEW c \in Conns, NEW h, h.isInit, NEW l \in Nat,
           Sets(c, conn'[c]), Reads(c, h, l), l = conn[c].readLock \/ (l = 0 /\ ~Locked0),
           OwnLocks(c), Live', writeLock' # c, ckptLock' # c
    PROVE  LockInv'
<1>1. LockInvOf(c)'
  BY DEF LockInvOf, Reads, Writing, RestartPcs, BackfillPcs, WritePcs, FramePcs, CkptPcs
<1>2. conn'[c].readLock > 0 => conn[c].readLock > 0
  BY DEF Reads
<1>3. conn'[c].readLock = 0 => conn[c].readLock = 0 \/ ~Locked0
  BY DEF Reads
<1>4. conn'[c].pc \notin ExclusivePcs /\ conn'[c].pc # "ckCopy"
  BY DEF Reads, ExclusivePcs
<1> QED
  BY <1>1, <1>2, <1>3, <1>4, LockStep

LEMMA RetriesLocks ==
    ASSUME TypeInv, TypeInv', LockInv, NEW c \in Conns, Sets(c, conn'[c]), Retries(c),
           conn[c].pc \in {"try", "mark", "lockMark", "check"},
           UNCHANGED <<writeLock, ckptLock, nTx>>, Live'
    PROVE  LockInv'
<1>1. OwnLocks(c) /\ ckptLock # c
  BY OwnLocksIntro, HeldLocks, PcParts
<1>2. CASE writeLock # c /\ Rests(c, conn[c].hdr)
  BY <1>1, <1>2, RestsLocks
<1>3. CASE /\ writeLock = c /\ conn'[c].pc = "mark" /\ conn'[c].readLock = -1
           /\ conn'[c].hdr = conn[c].hdr /\ KeepsWrite(c) /\ KeepsCkpt(c)
  <2>1. conn[c].todo # {} /\ nTx > 0 /\ conn[c].hdr.isInit
    BY <1>1, <1>3, HeldLocks DEF LockInv, LockInvOf, Writing
  <2>2. LockInvOf(c)'
    BY <1>1, <1>3, <2>1 DEF LockInvOf, Writing, KeepsWrite, RestartPcs, BackfillPcs, WritePcs,
                            FramePcs, CkptPcs
  <2> QED
    BY <1>1, <1>3, <2>2, LockStepQuiet DEF ExclusivePcs
<1> QED
  BY <1>2, <1>3 DEF Retries

LEMMA OpenShmLocks ==
    ASSUME TypeInv, LockInv, NEW c \in Conns, OpenShm(c)
    PROVE  LockInv'
<1>1. ~Live /\ ~Live' /\ shm'.open
  BY OpenShmEffect DEF Live, ZeroHdr
<1>2. /\ writeLock' = None /\ ckptLock' = None
      /\ \A d \in Conns : /\ conn[d].pc = "idle" /\ conn'[d].pc = "idle"
                          /\ conn[d].hdr = ZeroHdr /\ conn'[d].hdr = ZeroHdr
                          /\ conn'[d].readLock = conn[d].readLock
  BY <1>1, OpenShmEffect DEF LockInv, Sets, KeepsRead
<1>3. \A d \in Conns : LockInvOf(d) /\ conn'[d].readLock = -1
  BY <1>2 DEF LockInv, LockInvOf
<1>4. ~LockedAll' /\ ~Locked0'
  BY <1>2, LockedAllPcsNext DEF ExclusivePcs, Locked0
<1>5. \A d \in Conns : LockInvOf(d)'
  <2> TAKE d \in Conns
  <2>1. d # None
    BY WalConstants
  <2> QED
    BY <1>2, <1>3, <2>1 DEF LockInvOf, Writing, WritePcs, FramePcs, CkptPcs, BackfillPcs,
       RestartPcs
<1> QED
  BY <1>1, <1>2, <1>3, <1>4, <1>5 DEF LockInv, Live

LEMMA RecoverLocks ==
    ASSUME TypeInv, LockInv, NEW c \in Conns, Recover(c)
    PROVE  LockInv'
<1>1. ~Live /\ Live' /\ RecoveredHdr.isInit
  BY RecoverEffect, RecoveredType DEF Live
<1>2. /\ writeLock' = None /\ ckptLock' = None /\ conn'[c].pc = "try" /\ conn'[c].readLock = -1
      /\ conn'[c].hdr.isInit
      /\ \A d \in Conns : /\ d # None /\ LockInvOf(d) /\ conn[d].pc = "idle"
                          /\ d # c => conn'[d] = conn[d]
  BY <1>1, RecoverEffect, WalConstants DEF LockInv, Sets
<1>3. \A d \in Conns : conn'[d].pc \in {"idle", "try"} /\ conn'[d].readLock = -1
  BY <1>2 DEF LockInvOf
<1>4. ~LockedAll' /\ ~Locked0'
  BY <1>3, LockedAllPcsNext DEF ExclusivePcs, Locked0
<1>5. \A d \in Conns : LockInvOf(d)'
  BY <1>2, <1>3 DEF LockInvOf, Writing, WritePcs, FramePcs, CkptPcs, BackfillPcs, RestartPcs
<1> QED
  BY <1>1, <1>4, <1>5 DEF LockInv, Live

LEMMA KillLocks ==
    ASSUME TypeInv, LockInv, Kill
    PROVE  LockInv'
<1>1. /\ writeLock' = None /\ ckptLock' = None /\ ~Live'
      /\ \A d \in Conns : conn'[d] = NewConn /\ d # None
  BY KillTypes, WalConstants DEF Kill, Live
<1>2. /\ NewConn.pc = "idle" /\ NewConn.readLock = -1 /\ NewConn.hdr = ZeroHdr
      /\ NewConn.nBackFill = 0
  BY DEF NewConn
<1>3. ~LockedAll' /\ ~Locked0'
  BY <1>1, <1>2, LockedAllPcsNext DEF ExclusivePcs, Locked0
<1>4. \A d \in Conns : LockInvOf(d)'
  BY <1>1, <1>2 DEF LockInvOf, Writing, WritePcs, FramePcs, CkptPcs, BackfillPcs, RestartPcs
<1> QED
  BY <1>1, <1>2, <1>3, <1>4 DEF LockInv, Live

LEMMA ReadHdrLocks ==
    ASSUME TypeInv, LockInv, NEW c \in Conns, ReadHdr(c)
    PROVE  LockInv'
<1>1. writeLock' # c /\ ckptLock' # c /\ OwnLocks(c) /\ Live'
  <2>1. /\ conn[c].pc = "idle" /\ shm.open /\ shm.hdr.isInit
        /\ UNCHANGED <<shm, writeLock, ckptLock, nTx>>
    BY ReadHdrEffect
  <2> QED
    BY <2>1, HeldLocks, OwnLocksIntro DEF Live
<1>2. conn'[c].pc = "try" /\ conn'[c].hdr.isInit /\ conn'[c].readLock = -1
  BY ReadHdrEffect
<1>3. LockInvOf(c)'
  BY <1>1, <1>2 DEF LockInvOf, Writing, RestartPcs, BackfillPcs, WritePcs, FramePcs, CkptPcs
<1> QED
  BY <1>1, <1>2, <1>3, ReadHdrEffect, LockStepQuiet DEF ExclusivePcs

LEMMA LockZeroLocks ==
    ASSUME TypeInv, LockInv, NEW c \in Conns, LockZero(c)
    PROVE  LockInv'
<1>1. /\ writeLock' # c /\ ckptLock' # c /\ OwnLocks(c) /\ Live' /\ conn[c].hdr.isInit
      /\ ~Locked0
  BY LockZeroEffect, HeldLocks, OwnLocksIntro DEF Live
<1>2. CASE Reads(c, conn[c].hdr, 0)
  BY <1>1, <1>2, LockZeroEffect, ReadsLocks
<1>3. CASE Rests(c, conn[c].hdr)
  BY <1>1, <1>3, LockZeroEffect, RestsLocks
<1> QED
  BY <1>2, <1>3, LockZeroEffect

LEMMA ChooseMarkLocks ==
    ASSUME TypeInv, LockInv, NEW c \in Conns, ChooseMark(c)
    PROVE  LockInv'
<1>1. /\ TypeInv' /\ Sets(c, conn'[c]) /\ conn[c].pc \in {"try", "mark"}
      /\ UNCHANGED <<writeLock, ckptLock, nTx>>
      /\ Live' /\ OwnLocks(c) /\ ckptLock # c /\ conn[c].hdr.isInit /\ conn[c].readLock = -1
  BY ChooseMarkEffect, HeldLocks, PcParts, OwnLocksIntro DEF Live, LockInv, LockInvOf
<1>2. CASE Retries(c)
  BY <1>1, <1>2, RetriesLocks
<1>3. ASSUME NEW i \in Slots, NEW m, Chooses(c, i, m)
      PROVE  LockInv'
  <2>1. writeLock = c => conn[c].todo # {} /\ nTx > 0
    BY <1>1, HeldLocks DEF LockInv, LockInvOf, Writing
  <2>2. LockInvOf(c)'
    BY <1>1, <1>3, <2>1, ReadLocks DEF LockInvOf, Writing, Chooses, KeepsWrite, RestartPcs,
                            BackfillPcs, WritePcs, FramePcs, CkptPcs
  <2> QED
    BY <1>1, <1>3, <2>2, LockStepQuiet DEF ExclusivePcs, Chooses
<1> QED
  BY <1>2, <1>3, ChooseMarkEffect

LEMMA LockMarkLocks ==
    ASSUME TypeInv, LockInv, NEW c \in Conns, LockMark(c)
    PROVE  LockInv'
<1>1. /\ TypeInv' /\ Sets(c, conn'[c]) /\ conn[c].pc = "lockMark"
      /\ UNCHANGED <<writeLock, ckptLock, nTx>>
      /\ Live' /\ OwnLocks(c) /\ ckptLock # c /\ conn[c].hdr.isInit /\ conn[c].mxI > 0
  BY LockMarkEffect, HeldLocks, OwnLocksIntro DEF Live, LockInv, LockInvOf
<1>2. CASE Retries(c)
  BY <1>1, <1>2, RetriesLocks
<1>3. CASE /\ ~LockedAll
           /\ conn'[c].pc = "check" /\ conn'[c].hdr = conn[c].hdr
           /\ conn'[c].readLock = conn[c].mxI /\ conn'[c].minFrame = shm.nBackfill + 1
           /\ conn'[c].mxI = conn[c].mxI /\ conn'[c].mxReadMark = conn[c].mxReadMark
           /\ KeepsWrite(c) /\ KeepsCkpt(c)
  <2>1. writeLock = c => conn[c].todo # {} /\ nTx > 0
    BY <1>1, HeldLocks DEF LockInv, LockInvOf, Writing
  <2>2. LockInvOf(c)'
    BY <1>1, <1>3, <2>1 DEF LockInvOf, Writing, KeepsWrite, RestartPcs,
                            BackfillPcs, WritePcs, FramePcs, CkptPcs
  <2>3. conn'[c].readLock # 0
    BY <1>1, <1>3, ConnFields
  <2> QED
    BY <1>1, <1>3, <2>2, <2>3, LockStep DEF ExclusivePcs
<1> QED
  BY <1>2, <1>3, LockMarkEffect

LEMMA CheckMarkLocks ==
    ASSUME TypeInv, LockInv, PosInv, NEW c \in Conns, CheckMark(c)
    PROVE  LockInv'
<1>1. /\ TypeInv' /\ Sets(c, conn'[c]) /\ conn[c].pc = "check"
      /\ UNCHANGED <<writeLock, ckptLock, nTx>>
      /\ Live' /\ OwnLocks(c) /\ ckptLock # c /\ conn[c].hdr.isInit /\ conn[c].readLock > 0
  BY CheckMarkEffect, HeldLocks, OwnLocksIntro DEF Live, LockInv, LockInvOf
<1>2. CASE Retries(c)
  BY <1>1, <1>2, RetriesLocks
<1>3. CASE /\ writeLock = c /\ conn'[c].pc = "header" /\ conn'[c].hdr = conn[c].hdr
           /\ KeepsRead(c) /\ KeepsWrite(c) /\ KeepsCkpt(c)
  <2>1. conn[c].todo # {} /\ nTx > 0
    BY <1>1, <1>3, HeldLocks DEF LockInv, LockInvOf, Writing
  <2>2. LockInvOf(c)'
    BY <1>1, <1>3, <2>1 DEF LockInvOf, Writing, KeepsWrite, KeepsRead, RestartPcs,
                            BackfillPcs, WritePcs, FramePcs, CkptPcs
  <2> QED
    BY <1>1, <1>3, <2>2, LockStepQuiet DEF ExclusivePcs, KeepsRead
<1>4. CASE writeLock # c /\ Reads(c, conn[c].hdr, conn[c].readLock)
  BY <1>1, <1>4, ConnFields, ReadsLocks
<1> QED
  BY <1>2, <1>3, <1>4, CheckMarkEffect

LEMMA EndReadLocks ==
    ASSUME TypeInv, LockInv, NEW c \in Conns, EndRead(c)
    PROVE  LockInv'
<1>1. writeLock' # c /\ ckptLock' # c /\ OwnLocks(c) /\ Live'
  BY EndReadEffect, HeldLocks, OwnLocksIntro DEF Live
<1> QED
  BY <1>1, EndReadEffect, RestsLocks

LEMMA RestartLogLocks ==
    ASSUME TypeInv, LockInv, NEW c \in Conns, RestartLog(c)
    PROVE  LockInv'
<1>1. /\ TypeInv' /\ Sets(c, conn'[c]) /\ conn[c].pc = "restartLog"
      /\ UNCHANGED <<writeLock, ckptLock, nTx>>
      /\ OwnLocks(c) /\ writeLock = c /\ ckptLock # c /\ conn[c].hdr.isInit /\ nTx > 0
      /\ conn[c].readLock = 0 /\ Live
  BY RestartLogEffect, HeldLocks, PcParts, OwnLocksIntro DEF LockInv, LockInvOf, Writing
<1>2. conn[c].todo # {} /\ conn'[c].todo = conn[c].todo
  BY <1>1, RestartLogEffect DEF LockInv, LockInvOf, Writing
<1>3. CASE conn'[c].pc = "restartInfo" /\ Restarts(c)
  <2>1. Live' /\ conn'[c].hdr.isInit /\ conn'[c].readLock = 0
    BY <1>1, <1>3 DEF Live, Restarts, KeepsShm
  <2>2. LockInvOf(c)'
    BY <1>1, <1>2, <1>3, <2>1 DEF LockInvOf, Writing, RestartPcs, BackfillPcs, WritePcs,
                                  FramePcs, CkptPcs
  <2> QED
    BY <1>1, <1>3, <2>1, <2>2, LockStep DEF ExclusivePcs, Restarts
<1>4. CASE /\ conn'[c].pc = "mark" /\ conn'[c].readLock = -1
           /\ conn'[c].hdr = conn[c].hdr /\ shm' = shm
  <2>1. Live'
    BY <1>1, <1>4 DEF Live
  <2>2. LockInvOf(c)'
    BY <1>1, <1>2, <1>4 DEF LockInvOf, Writing, RestartPcs, BackfillPcs, WritePcs,
                            FramePcs, CkptPcs
  <2> QED
    BY <1>1, <1>4, <2>1, <2>2, LockStepQuiet DEF ExclusivePcs
<1> QED
  BY <1>3, <1>4, RestartLogEffect

LEMMA WriteFrameLocks ==
    ASSUME TypeInv, LockInv, PosInv, NEW c \in Conns, WriteFrame(c)
    PROVE  LockInv'
<1>1. /\ TypeInv' /\ Sets(c, conn'[c]) /\ conn[c].pc = "frames"
      /\ UNCHANGED <<writeLock, ckptLock, nTx>>
      /\ OwnLocks(c) /\ writeLock = c /\ ckptLock # c /\ conn[c].hdr.isInit /\ nTx > 0
      /\ conn[c].readLock > 0 /\ Live'
  BY WriteFrameEffect, HeldLocks, PcParts, OwnLocksIntro DEF LockInv, LockInvOf, Writing, Live
<1>2. /\ conn'[c].pc \in {"frames", "recksum", "publish"}
      /\ conn'[c].pc = "frames" => conn'[c].todo # {}
  BY WriteFrameEffect DEF AppendsAt, OverwritesAt, NextPc, CommitsNow
<1>3. conn'[c].readLock = conn[c].readLock /\ conn'[c].hdr.isInit
  BY <1>1, WriteFrameEffect DEF KeepsLoop, KeepsRead
<1>4. LockInvOf(c)'
  BY <1>1, <1>2, <1>3 DEF LockInvOf, Writing, RestartPcs, BackfillPcs, WritePcs, FramePcs, CkptPcs
<1> QED
  BY <1>1, <1>2, <1>3, <1>4, LockStepQuiet DEF ExclusivePcs

LEMMA PublishLocks ==
    ASSUME TypeInv, LockInv, PosInv, NEW c \in Conns, Publish(c)
    PROVE  LockInv'
<1> DEFINE h == PublishedHdr(conn[c])
<1>1. /\ TypeInv' /\ Sets(c, conn'[c]) /\ conn[c].pc = "publish"
      /\ UNCHANGED <<ckptLock, nTx>>
      /\ writeLock = c /\ ckptLock # c /\ h.isInit /\ nTx > 0
      /\ conn[c].readLock > 0 /\ Live /\ c # None
  <2>1. /\ TypeInv' /\ Sets(c, conn'[c]) /\ conn[c].pc = "publish"
        /\ UNCHANGED <<ckptLock, nTx>> /\ h.isInit = conn[c].hdr.isInit
    BY PublishEffect
  <2>2. conn[c].readLock > 0
    BY <2>1, PcParts DEF LockInv, LockInvOf
  <2>3. writeLock = c /\ ckptLock # c /\ conn[c].hdr.isInit /\ Live /\ c # None
    BY <2>1, HeldLocks, PcParts, WalConstants
  <2>4. nTx > 0
    BY <2>3, HeldLocks DEF Writing
  <2> QED
    BY <2>1, <2>2, <2>3, <2>4
<1>2. CASE /\ conn[c].isCommit /\ Reads(c, h, conn[c].readLock)
           /\ shm'.hdr = h /\ KeepsShm /\ writeLock' = None
  <2>1. Live' /\ OwnLocks(c) /\ writeLock' # c
    BY <1>1, <1>2, OwnLocksIntro DEF Live, KeepsShm
  <2> HIDE DEF h
  <2> QED
    BY <1>1, <1>2, <2>1, ConnFields, ReadsLocks
<1>3. CASE /\ conn'[c].pc = "write" /\ conn'[c].hdr = h
           /\ conn'[c].readLock = conn[c].readLock
           /\ UNCHANGED <<shm, writeLock>>
  <2>1. Live' /\ OwnLocks(c)
    BY <1>1, <1>3, OwnLocksIntro DEF Live
  <2>2. LockInvOf(c)'
    <3> HIDE DEF h
    <3> QED
      BY <1>1, <1>3, ConnFields DEF LockInvOf, Writing, RestartPcs, BackfillPcs, WritePcs,
         FramePcs, CkptPcs
  <2> QED
    BY <1>1, <1>3, <2>1, <2>2, LockStepQuiet DEF ExclusivePcs
<1> QED
  BY <1>2, <1>3, PublishEffect

LEMMA RollbackLocks ==
    ASSUME TypeInv, LockInv, NEW c \in Conns, Rollback(c)
    PROVE  LockInv'
<1>1. /\ writeLock = c /\ ckptLock # c /\ Live /\ c # None
      /\ conn[c].pc \in {"write", "header", "frames", "recksum"}
  BY RollbackEffect, HeldLocks, PcParts, WalConstants
<1>2. conn[c].readLock >= 0
  BY <1>1, ConnFields DEF LockInv, LockInvOf, FramePcs
<1>3. writeLock' # c /\ ckptLock' # c /\ OwnLocks(c) /\ Live' /\ shm.hdr.isInit
  BY <1>1, RollbackEffect, OwnLocksIntro DEF Live
<1> QED
  BY <1>2, <1>3, ConnFields, RollbackEffect, ReadsLocks

LEMMA CkptRestartLocks ==
    ASSUME TypeInv, LockInv, NEW c \in Conns, CkptRestart(c)
    PROVE  LockInv'
<1>1. /\ TypeInv' /\ Sets(c, conn'[c]) /\ conn[c].pc = "ckDone"
      /\ OwnLocks(c) /\ ckptLock = c /\ ckptLock' = c /\ conn[c].hdr.isInit
      /\ conn[c].readLock = -1 /\ Live /\ conn'[c].eMode = conn[c].eMode
      /\ conn[c].eMode \in {"PASSIVE", "TRUNCATE"} /\ (conn[c].eMode = "TRUNCATE" <=> writeLock = c)
      /\ ~(Writing(c)')
  <2>1. /\ TypeInv' /\ Sets(c, conn'[c]) /\ conn[c].pc = "ckDone" /\ conn'[c].eMode = conn[c].eMode
        /\ writeLock' = writeLock \/ (writeLock = None /\ writeLock' = c)
        /\ ckptLock' = ckptLock /\ nTx' = nTx
    BY CkptRestartEffect
  <2>2. ckptLock = c /\ conn[c].hdr.isInit /\ conn[c].readLock = -1 /\ Live
    BY <2>1, HeldLocks, PcParts
  <2>3. conn[c].eMode \in {"PASSIVE", "TRUNCATE"} /\ (conn[c].eMode = "TRUNCATE" <=> writeLock = c)
    BY <2>1, PcParts DEF LockInv, LockInvOf
  <2> QED
    BY <2>1, <2>2, <2>3, OwnLocksIntro DEF Writing
<1>2. CASE /\ conn'[c].pc = "ckEnd" /\ conn'[c].hdr = conn[c].hdr
           /\ conn'[c].readLock = conn[c].readLock /\ shm' = shm
  <2>1. Live'
    BY <1>1, <1>2 DEF Live
  <2>2. LockInvOf(c)'
    BY <1>1, <1>2 DEF LockInvOf, RestartPcs, BackfillPcs, WritePcs, FramePcs, CkptPcs
  <2> QED
    BY <1>1, <1>2, <2>1, <2>2, LockStepQuiet DEF ExclusivePcs
<1>3. CASE /\ Restarts(c) /\ conn'[c].pc = "ckInfo"
           /\ conn[c].eMode = "PASSIVE" => writeLock' = c
  <2>1. Live' /\ conn'[c].hdr.isInit /\ conn'[c].readLock = -1 /\ NoWalReader
    BY <1>1, <1>3 DEF Live, Restarts, KeepsShm
  <2>2. writeLock' = c
    BY <1>1, <1>3, CkptRestartEffect
  <2>3. LockInvOf(c)'
    BY <1>1, <1>3, <2>1, <2>2 DEF LockInvOf, RestartPcs, BackfillPcs, WritePcs, FramePcs, CkptPcs
  <2> QED
    BY <1>1, <1>3, <2>1, <2>3, LockStep DEF ExclusivePcs
<1> QED
  BY <1>2, <1>3, CkptRestartEffect

LEMMA CkptPublishLocks ==
    ASSUME TypeInv, LockInv, NEW c \in Conns, CkptPublish(c)
    PROVE  LockInv'
<1>1. /\ TypeInv' /\ Sets(c, conn'[c]) /\ conn[c].pc = "ckPublish" /\ conn'[c].pc = "ckEnd"
      /\ ckptLock' = c /\ writeLock' = c /\ conn'[c].hdr.isInit
      /\ conn'[c].readLock = -1 /\ conn'[c].eMode = conn[c].eMode
  BY CkptPublishEffect, HeldLocks, PcParts DEF KeepsRead, KeepsCkpt
<1>2. OwnLocks(c) /\ Live' /\ conn[c].eMode \in {"PASSIVE", "TRUNCATE"}
  BY <1>1, CkptPublishEffect, HeldLocks, PcParts, OwnLocksIntro
     DEF Live, KeepsShm, LockInv, LockInvOf
<1>3. LockInvOf(c)'
  BY <1>1, <1>2 DEF LockInvOf, Writing, RestartPcs, BackfillPcs, WritePcs, FramePcs, CkptPcs
<1>4. conn'[c].readLock \in {-1, conn[c].readLock} /\ conn'[c].pc \notin ExclusivePcs
  BY <1>1 DEF ExclusivePcs
<1> QED
  BY <1>1, <1>2, <1>3, <1>4, LockStepQuiet

LEMMA CkptEndLocks ==
    ASSUME TypeInv, LockInv, NEW c \in Conns, CkptEnd(c)
    PROVE  LockInv'
<1>1. ckptLock = c /\ Live /\ c # None
  BY CkptEndEffect, HeldLocks, PcParts, WalConstants
<1>2. writeLock' # c /\ ckptLock' # c /\ OwnLocks(c) /\ Live'
  BY <1>1, CkptEndEffect, OwnLocksIntro DEF Live
<1> QED
  BY <1>2, CkptEndEffect, RestsLocks

LEMMA BeginWriteLocks ==
    ASSUME TypeInv, LockInv, NEW c \in Conns, BeginWrite(c)
    PROVE  LockInv'
<1>1. LockInvOf(c) /\ Live
  BY BeginWriteEffect, NotIdleIsLive DEF LockInv
<1>2. OwnLocks(c) /\ Live'
  BY <1>1, BeginWriteEffect, OwnLocksIntro, Fields DEF Live
<1>3. LockInvOf(c)'
  BY <1>1, BeginWriteEffect, ConnFields, Fields DEF LockInvOf, Writing, WritePcs, FramePcs,
     CkptPcs, BackfillPcs, RestartPcs, TypeInv, KeepsRead, KeepsWrite, KeepsCkpt
<1> QED
  BY <1>1, <1>2, <1>3, BeginWriteEffect, LockStep DEF LockInvOf, ExclusivePcs, WritePcs,
     FramePcs, CkptPcs, BackfillPcs, RestartPcs, KeepsRead

LEMMA WalFramesLocks ==
    ASSUME TypeInv, LockInv, NEW c \in Conns, NEW P \in SUBSET Pages, NEW commit \in BOOLEAN, P # {},
           WalFrames(c, P, commit)
    PROVE  LockInv'
<1>1. LockInvOf(c) /\ Live
  BY WalFramesEffect, NotIdleIsLive DEF LockInv
<1>2. OwnLocks(c) /\ Live'
  BY <1>1, WalFramesEffect, OwnLocksIntro, Fields DEF Live
<1>3. LockInvOf(c)'
  BY <1>1, WalFramesEffect, ConnFields, Fields DEF LockInvOf, Writing, WritePcs, FramePcs,
     CkptPcs, BackfillPcs, RestartPcs, TypeInv, KeepsRead, KeepsWrite, KeepsCkpt
<1> QED
  BY <1>1, <1>2, <1>3, WalFramesEffect, LockStep DEF LockInvOf, ExclusivePcs, WritePcs,
     FramePcs, CkptPcs, BackfillPcs, RestartPcs, KeepsRead

LEMMA RestartInfoLocks ==
    ASSUME TypeInv, LockInv, NEW c \in Conns, RestartInfo(c)
    PROVE  LockInv'
<1>1. LockInvOf(c) /\ Live
  BY RestartInfoEffect, NotIdleIsLive DEF LockInv
<1>2. OwnLocks(c) /\ Live'
  BY <1>1, RestartInfoEffect, OwnLocksIntro, Fields DEF Live
<1>3. LockInvOf(c)'
  BY <1>1, RestartInfoEffect, ConnFields, Fields DEF LockInvOf, Writing, WritePcs, FramePcs,
     CkptPcs, BackfillPcs, RestartPcs, TypeInv, KeepsRead, KeepsWrite, KeepsCkpt
<1> QED
  BY <1>1, <1>2, <1>3, RestartInfoEffect, LockStep DEF LockInvOf, ExclusivePcs, WritePcs,
     FramePcs, CkptPcs, BackfillPcs, RestartPcs, KeepsRead

LEMMA WriteHeaderLocks ==
    ASSUME TypeInv, LockInv, NEW c \in Conns, NEW salt \in 1..(nSalt + 1), WriteHeader(c, salt)
    PROVE  LockInv'
<1>1. LockInvOf(c) /\ Live
  BY WriteHeaderEffect, NotIdleIsLive DEF LockInv
<1>2. OwnLocks(c) /\ Live'
  BY <1>1, WriteHeaderEffect, OwnLocksIntro, Fields DEF Live
<1>3. LockInvOf(c)'
  BY <1>1, WriteHeaderEffect, ConnFields, Fields, ZenonT(40) DEF LockInvOf, Writing, WritePcs,
     FramePcs, CkptPcs, BackfillPcs, RestartPcs, TypeInv, KeepsRead, KeepsWrite, KeepsCkpt
<1> QED
  BY <1>1, <1>2, <1>3, WriteHeaderEffect, LockStep DEF LockInvOf, ExclusivePcs, WritePcs,
     FramePcs, CkptPcs, BackfillPcs, RestartPcs, KeepsRead

LEMMA KeepHeaderLocks ==
    ASSUME TypeInv, LockInv, NEW c \in Conns, KeepHeader(c)
    PROVE  LockInv'
<1>1. LockInvOf(c) /\ Live
  BY KeepHeaderEffect, NotIdleIsLive DEF LockInv
<1>2. OwnLocks(c) /\ Live'
  BY <1>1, KeepHeaderEffect, OwnLocksIntro, Fields, ZenonT(40) DEF Live
<1>3. LockInvOf(c)'
  BY <1>1, KeepHeaderEffect, ConnFields, Fields DEF LockInvOf, Writing, WritePcs, FramePcs,
     CkptPcs, BackfillPcs, RestartPcs, TypeInv, KeepsRead, KeepsWrite, KeepsCkpt
<1> QED
  BY <1>1, <1>2, <1>3, KeepHeaderEffect, LockStep, ZenonT(40) DEF LockInvOf, ExclusivePcs,
     WritePcs, FramePcs, CkptPcs, BackfillPcs, RestartPcs, KeepsRead

LEMMA RewriteChecksumLocks ==
    ASSUME TypeInv, LockInv, PosInv, NEW c \in Conns, RewriteChecksum(c)
    PROVE  LockInv'
<1>1. LockInvOf(c) /\ Live
  BY RewriteChecksumEffect, NotIdleIsLive DEF LockInv
<1>2. OwnLocks(c) /\ Live'
  BY <1>1, RewriteChecksumEffect, OwnLocksIntro, Fields DEF Live
<1>3. LockInvOf(c)'
  BY <1>1, RewriteChecksumEffect, ConnFields, Fields DEF LockInvOf, Writing, WritePcs, FramePcs,
     CkptPcs, BackfillPcs, RestartPcs, TypeInv, KeepsRead, KeepsWrite, KeepsCkpt, KeepsLoop
<1> QED
  BY <1>1, <1>2, <1>3, RewriteChecksumEffect, LockStep DEF LockInvOf, ExclusivePcs, WritePcs,
     FramePcs, CkptPcs, BackfillPcs, RestartPcs, KeepsRead, KeepsLoop

LEMMA CkptBeginLocks ==
    ASSUME TypeInv, LockInv, NEW c \in Conns, NEW mode \in {"PASSIVE", "TRUNCATE"}, CkptBegin(c, mode)
    PROVE  LockInv'
<1>1. LockInvOf(c) /\ Live
  BY CkptBeginEffect, NotIdleIsLive DEF LockInv, Live
<1>2. OwnLocks(c) /\ Live'
  BY <1>1, CkptBeginEffect, OwnLocksIntro, Fields DEF Live
<1>3. LockInvOf(c)'
  BY <1>1, CkptBeginEffect, ConnFields, Fields DEF LockInvOf, Writing, WritePcs, FramePcs,
     CkptPcs, BackfillPcs, RestartPcs, TypeInv, KeepsRead, KeepsWrite, KeepsCkpt
<1> QED
  BY <1>1, <1>2, <1>3, CkptBeginEffect, LockStep DEF LockInvOf, ExclusivePcs, WritePcs,
     FramePcs, CkptPcs, BackfillPcs, RestartPcs, KeepsRead

LEMMA CkptMarkLocks ==
    ASSUME TypeInv, LockInv, PosInv, NEW c \in Conns, CkptMark(c)
    PROVE  LockInv'
<1>1. LockInvOf(c) /\ Live
  BY CkptMarkEffect, NotIdleIsLive DEF LockInv
<1>2. OwnLocks(c) /\ Live'
  BY <1>1, CkptMarkEffect, OwnLocksIntro, Fields DEF Live
<1>3. LockInvOf(c)'
  BY <1>1, CkptMarkEffect, ConnFields, Fields DEF LockInvOf, Writing, WritePcs, FramePcs,
     CkptPcs, BackfillPcs, RestartPcs, TypeInv, KeepsRead, KeepsWrite, KeepsCkpt
<1> QED
  BY <1>1, <1>2, <1>3, CkptMarkEffect, LockStep DEF LockInvOf, ExclusivePcs, WritePcs, FramePcs,
     CkptPcs, BackfillPcs, RestartPcs, KeepsRead

LEMMA CkptLock0Locks ==
    ASSUME TypeInv, LockInv, NEW c \in Conns, CkptLock0(c)
    PROVE  LockInv'
<1>1. LockInvOf(c) /\ Live
  BY CkptLock0Effect, NotIdleIsLive DEF LockInv
<1>2. OwnLocks(c) /\ Live'
  BY <1>1, CkptLock0Effect, OwnLocksIntro, Fields DEF Live
<1>3. LockInvOf(c)'
  BY <1>1, CkptLock0Effect, ConnFields, Fields DEF LockInvOf, Writing, WritePcs, FramePcs,
     CkptPcs, BackfillPcs, RestartPcs, TypeInv, KeepsRead, KeepsWrite, KeepsCkpt
<1> QED
  BY <1>1, <1>2, <1>3, CkptLock0Effect, LockStep DEF LockInvOf, ExclusivePcs, WritePcs,
     FramePcs, CkptPcs, BackfillPcs, RestartPcs, KeepsRead

LEMMA CkptCopyLocks ==
    ASSUME TypeInv, LockInv, PosInv, NEW c \in Conns, CkptCopy(c)
    PROVE  LockInv'
<1>1. LockInvOf(c) /\ Live
  BY CkptCopyEffect, NotIdleIsLive DEF LockInv
<1>2. OwnLocks(c) /\ Live'
  BY <1>1, CkptCopyEffect, OwnLocksIntro, Fields DEF Live
<1>3. LockInvOf(c)'
  BY <1>1, CkptCopyEffect, ConnFields, Fields DEF LockInvOf, Writing, WritePcs, FramePcs,
     CkptPcs, BackfillPcs, RestartPcs, TypeInv, KeepsRead, KeepsWrite, KeepsCkpt
<1> QED
  BY <1>1, <1>2, <1>3, CkptCopyEffect, LockStep DEF LockInvOf, ExclusivePcs, WritePcs, FramePcs,
     CkptPcs, BackfillPcs, RestartPcs, KeepsRead

LEMMA CkptBackfillLocks ==
    ASSUME TypeInv, LockInv, NEW c \in Conns, CkptBackfill(c)
    PROVE  LockInv'
<1>1. LockInvOf(c) /\ Live
  BY CkptBackfillEffect, NotIdleIsLive DEF LockInv
<1>2. OwnLocks(c) /\ Live'
  BY <1>1, CkptBackfillEffect, OwnLocksIntro, Fields DEF Live
<1>3. LockInvOf(c)'
  BY <1>1, CkptBackfillEffect, ConnFields, Fields DEF LockInvOf, Writing, WritePcs, FramePcs,
     CkptPcs, BackfillPcs, RestartPcs, TypeInv, KeepsRead, KeepsWrite, KeepsCkpt
<1> QED
  BY <1>1, <1>2, <1>3, CkptBackfillEffect, LockStep DEF LockInvOf, ExclusivePcs, WritePcs,
     FramePcs, CkptPcs, BackfillPcs, RestartPcs, KeepsRead

LEMMA CkptInfoLocks ==
    ASSUME TypeInv, LockInv, NEW c \in Conns, CkptInfo(c)
    PROVE  LockInv'
<1>1. LockInvOf(c) /\ Live
  BY CkptInfoEffect, NotIdleIsLive DEF LockInv
<1>2. OwnLocks(c) /\ Live'
  BY <1>1, CkptInfoEffect, OwnLocksIntro, Fields DEF Live
<1>3. LockInvOf(c)'
  BY <1>1, CkptInfoEffect, ConnFields, Fields DEF LockInvOf, Writing, WritePcs, FramePcs,
     CkptPcs, BackfillPcs, RestartPcs, TypeInv, KeepsRead, KeepsWrite, KeepsCkpt
<1> QED
  BY <1>1, <1>2, <1>3, CkptInfoEffect, LockStep DEF LockInvOf, ExclusivePcs, WritePcs, FramePcs,
     CkptPcs, BackfillPcs, RestartPcs, KeepsRead

LEMMA CkptHeaderLocks ==
    ASSUME TypeInv, LockInv, NEW c \in Conns, CkptHeader(c)
    PROVE  LockInv'
<1>1. LockInvOf(c) /\ Live
  BY CkptHeaderEffect, NotIdleIsLive DEF LockInv
<1>2. OwnLocks(c) /\ Live'
  BY <1>1, CkptHeaderEffect, OwnLocksIntro, Fields DEF Live
<1>3. LockInvOf(c)'
  BY <1>1, CkptHeaderEffect, ConnFields, Fields DEF LockInvOf, Writing, WritePcs, FramePcs,
     CkptPcs, BackfillPcs, RestartPcs, TypeInv, KeepsRead, KeepsWrite, KeepsCkpt
<1> QED
  BY <1>1, <1>2, <1>3, CkptHeaderEffect, LockStep DEF LockInvOf, ExclusivePcs, WritePcs,
     FramePcs, CkptPcs, BackfillPcs, RestartPcs, KeepsRead

LEMMA CkptTruncateLocks ==
    ASSUME TypeInv, LockInv, NEW c \in Conns, CkptTruncate(c)
    PROVE  LockInv'
<1>1. LockInvOf(c) /\ Live
  BY CkptTruncateEffect, NotIdleIsLive DEF LockInv
<1>2. OwnLocks(c) /\ Live'
  BY <1>1, CkptTruncateEffect, OwnLocksIntro, Fields DEF Live
<1>3. LockInvOf(c)'
  BY <1>1, CkptTruncateEffect, ConnFields, Fields DEF LockInvOf, Writing, WritePcs, FramePcs,
     CkptPcs, BackfillPcs, RestartPcs, TypeInv, KeepsRead, KeepsWrite, KeepsCkpt
<1> QED
  BY <1>1, <1>2, <1>3, CkptTruncateEffect, LockStep DEF LockInvOf, ExclusivePcs, WritePcs,
     FramePcs, CkptPcs, BackfillPcs, RestartPcs, KeepsRead

LEMMA CkptFailLocks ==
    ASSUME TypeInv, LockInv, NEW c \in Conns, CkptFail(c)
    PROVE  LockInv'
<1>1. LockInvOf(c) /\ Live
  BY CkptFailEffect, NotIdleIsLive DEF LockInv
<1>2. OwnLocks(c) /\ Live'
  BY <1>1, CkptFailEffect, OwnLocksIntro, Fields DEF Live
<1>3. LockInvOf(c)'
  BY <1>1, CkptFailEffect, ConnFields, Fields DEF LockInvOf, Writing, WritePcs, FramePcs,
     CkptPcs, BackfillPcs, RestartPcs, TypeInv, KeepsRead, KeepsWrite, KeepsCkpt
<1> QED
  BY <1>1, <1>2, <1>3, CkptFailEffect, LockStep DEF LockInvOf, ExclusivePcs, WritePcs, FramePcs,
     CkptPcs, BackfillPcs, RestartPcs, KeepsRead

-----------------------------------------------------------------------------
(* Positions in the log *)

\* What a step of c may do to the readers and checkpoints of the others: move a mark
\* that nobody holds, raise the backfill up to the header, write beyond the header
\* under the write lock.
Considerate(c) ==
    /\ shm'.hdr.mxFrame = shm.hdr.mxFrame /\ shm'.hdr.aSalt = shm.hdr.aSalt
    /\ nb' = nb \/ (ckptLock = c /\ nb <= nb' /\ nb' <= mx)
    /\ \A i \in Slots : shm'.aReadMark[i] = shm.aReadMark[i] \/ Shared(i) = {}
    /\ wal' = wal \/ writeLock = c
    /\ \A i \in 1..mx : wal'.frames[i].page = wal.frames[i].page

\* c reads what it read, or all that is committed.
Pins(c) == Pinned(c)' => \/ mx <= conn'[c].hdr.mxFrame
                         \/ /\ Pinned(c) /\ conn'[c].readLock = conn[c].readLock
                            /\ conn[c].hdr.mxFrame <= conn'[c].hdr.mxFrame

\* The salts of c's header are known to it, shared, none, or new.
Salted(c) == \/ conn'[c].hdr.aSalt \in {conn[c].hdr.aSalt, shm.hdr.aSalt, 0}
             \/ nSalt < conn'[c].hdr.aSalt

LEMMA OthersRead ==
    ASSUME TypeInv, TypeInv', LockInv, PosInv, NEW c \in Conns, NEW d \in Conns \ {c},
           Sets(c, conn'[c]), OwnLocks(c), Considerate(c)
    PROVE  ReaderInv(d)'
<1>1. conn'[d] = conn[d] /\ (Writing(d)' <=> Writing(d)) /\ ReaderInv(d)
  BY DEF Sets, OwnLocks, Writing, PosInv
<1>2. mx' = mx /\ mx \in Nat /\ nb \in Nat /\ nb' \in Nat
  BY Fields, FieldsNext DEF Considerate, mx, nb
<1>3. nb <= nb' /\ (nb = mx => nb' = mx)
  BY <1>2 DEF Considerate
<1>4. Pinned(d)' <=> Pinned(d)
  BY <1>1 DEF Pinned
<1>5. conn[d].readLock > 0 =>
         shm'.aReadMark[conn[d].readLock] = shm.aReadMark[conn[d].readLock]
  <2> HAVE conn[d].readLock > 0
  <2>1. conn[d].readLock \in Slots
    BY ConnFields, WalConstants DEF Slots
  <2>2. Shared(conn[d].readLock) # {}
    BY DEF Shared
  <2> QED
    BY <2>1, <2>2 DEF Considerate
<1>6. conn[d].minFrame \in Nat /\ shm'.hdr.aSalt = shm.hdr.aSalt
  BY ConnFields DEF Considerate
<1> QED
  BY <1>1, <1>2, <1>3, <1>4, <1>5, <1>6 DEF ReaderInv, Pinned

LEMMA OthersWrite ==
    ASSUME TypeInv, TypeInv', LockInv, PosInv, NEW c \in Conns, NEW d \in Conns \ {c},
           Sets(c, conn'[c]), OwnLocks(c), Considerate(c), Salted(c), shm'.hdr = shm.hdr
    PROVE  WriterInv(d)'
<1> SUFFICES ASSUME Writing(d)'
             PROVE  WriterInv(d)'
  BY DEF WriterInv
<1>1. conn'[d] = conn[d] /\ Writing(d) /\ WriterInv(d)
  BY DEF Sets, OwnLocks, Writing, PosInv
<1>2. mx' = mx /\ mx \in Nat /\ nb \in Nat /\ nb' \in Nat
  BY Fields, FieldsNext DEF Considerate, mx, nb
<1>3. nb <= nb' /\ (nb = mx => nb' = mx)
  BY <1>2 DEF Considerate
<1>4. wal' = wal
  BY <1>1 DEF Considerate, Writing
<1>5. conn[d].hdr.aSalt # shm.hdr.aSalt =>
         /\ mx = 0 /\ 0 < conn[d].hdr.aSalt
         /\ \A e \in Conns \ {d} : conn'[e].hdr.aSalt # conn[d].hdr.aSalt
  <2> HAVE conn[d].hdr.aSalt # shm.hdr.aSalt
  <2>1. /\ mx = 0 /\ 0 < conn[d].hdr.aSalt
        /\ \A e \in Conns \ {d} : conn[e].hdr.aSalt # conn[d].hdr.aSalt
    BY <1>1 DEF WriterInv
  <2>2. conn[d].hdr.aSalt <= nSalt /\ conn[d].hdr.aSalt \in Nat /\ nSalt \in Nat
        /\ conn'[c].hdr.aSalt \in Nat
    BY ConnFields, ConnFieldsNext DEF PosInv, ShapeInv, TypeInv
  <2>3. conn'[c].hdr.aSalt # conn[d].hdr.aSalt
    BY <2>1, <2>2 DEF Salted
  <2> QED
    BY <2>1, <2>3 DEF Sets
<1>6. /\ conn[d].hdr.mxFrame \in Nat /\ conn[d].iFrame \in Nat /\ conn[d].iFirst \in Nat
      /\ conn[d].iReCksum \in Nat
  BY ConnFields
<1> QED
  BY <1>1, <1>2, <1>3, <1>4, <1>5, <1>6 DEF WriterInv

LEMMA SamePagesToCopy ==
    ASSUME TypeInv, TypeInv', NEW c \in Conns, NEW d \in Conns, Considerate(c), nb' = nb,
           conn[d].hdr.mxFrame <= mx, conn'[d] = conn[d], mx <= Len(wal.frames)
    PROVE  ToCopy(conn[d])' = ToCopy(conn[d])
<1>1. \A i \in (nb + 1)..conn[d].hdr.mxFrame : wal'.frames[i].page = wal.frames[i].page
  BY Fields, ConnFields DEF Considerate, mx, nb
<1>2. \A p : LastFrame(wal'.frames, p, nb + 1, conn[d].hdr.mxFrame)
               = LastFrame(wal.frames, p, nb + 1, conn[d].hdr.mxFrame)
  BY <1>1 DEF LastFrame
<1>3. \A p : FindFrame(p, nb + 1, conn[d].hdr.mxFrame)'
               = FindFrame(p, nb + 1, conn[d].hdr.mxFrame)
  BY <1>2, FindFrameIsLast, FindFrameIsLastNext
<1> QED
  BY <1>3 DEF ToCopy, nb

LEMMA OthersCheckpoint ==
    ASSUME TypeInv, TypeInv', LockInv, PosInv, NEW c \in Conns, NEW d \in Conns \ {c},
           Sets(c, conn'[c]), OwnLocks(c), Considerate(c), Pins(c),
           shm'.hdr = shm.hdr \/ writeLock = c
    PROVE  CkptInv(d)'
<1>1. conn'[d] = conn[d] /\ CkptInv(d) /\ (writeLock' = d <=> writeLock = d)
  BY DEF Sets, OwnLocks, PosInv
<1>2. /\ mx' = mx /\ mx \in Nat /\ nb \in Nat /\ nb' \in Nat
      /\ shm'.hdr.aSalt = shm.hdr.aSalt /\ mx <= Len(wal.frames)
  BY Fields, FieldsNext DEF Considerate, mx, nb, PosInv, ShapeInv
<1>3. conn[d].pc \in CkptPcs => nb' = nb
  <2>1. conn[d].pc \in CkptPcs => ckptLock # c
    BY HeldLocks
  <2> QED
    BY <2>1 DEF Considerate
<1>4. conn[d].pc = "ckCopy" => ToCopy(conn[d])' = ToCopy(conn[d])
  <2> HAVE conn[d].pc = "ckCopy"
  <2>1. conn[d].hdr.mxFrame <= mx /\ nb' = nb
    BY <1>1, <1>3, PcParts DEF CkptInv
  <2> QED
    BY <1>1, <1>2, <2>1, SamePagesToCopy
<1>5. ASSUME conn[d].pc \in BackfillPcs, NEW e \in Conns,
             Pinned(e)', conn[d].pc = "ckMarks" => conn'[e].readLock < conn[d].i
      PROVE  conn[d].mxSafeFrame <= conn'[e].hdr.mxFrame
  <2>1. conn[d].mxSafeFrame <= mx
    BY <1>1, <1>2, <1>5, ConnFields DEF CkptInv
  <2>2. /\ conn[d].mxSafeFrame \in Nat /\ conn[e].hdr.mxFrame \in Nat
        /\ conn'[e].hdr.mxFrame \in Nat
    BY ConnFields, ConnFieldsNext
  <2>3. CASE e # c
    <3>1. conn'[e] = conn[e] /\ Pinned(e)
      BY <1>5, <2>3 DEF Sets, Pinned
    <3> QED
      BY <1>1, <1>5, <3>1 DEF CkptInv
  <2>4. CASE e = c /\ mx <= conn'[c].hdr.mxFrame
    BY <1>2, <2>1, <2>2, <2>4
  <2>5. CASE e = c /\ ~(mx <= conn'[c].hdr.mxFrame)
    <3>1. /\ Pinned(c) /\ conn'[c].readLock = conn[c].readLock
          /\ conn[c].hdr.mxFrame <= conn'[c].hdr.mxFrame
      BY <1>5, <2>5 DEF Pins
    <3>2. conn[d].mxSafeFrame <= conn[c].hdr.mxFrame
      BY <1>1, <1>5, <2>5, <3>1 DEF CkptInv
    <3> QED
      BY <2>2, <2>5, <3>1, <3>2
  <2> QED
    BY <2>3, <2>4, <2>5
<1>6. conn[d].pc \in {"ckDone"} \cup BackfillPcs /\ writeLock = d => conn[d].hdr = shm'.hdr
  BY <1>1 DEF CkptInv
<1>7. BackfillPcs \subseteq CkptPcs /\ {"ckLock0", "ckCopy"} \subseteq BackfillPcs
  BY PcParts
<1> QED
  BY <1>1, <1>2, <1>3, <1>4, <1>5, <1>6, <1>7 DEF CkptInv

LEMMA PosStep ==
    ASSUME TypeInv, TypeInv', LockInv, PosInv, NEW c \in Conns,
           Sets(c, conn'[c]), OwnLocks(c), Considerate(c), Pins(c), Salted(c),
           shm'.hdr = shm.hdr \/ writeLock = c,
           ShapeInv', ReaderInv(c)', WriterInv(c)', CkptInv(c)'
    PROVE  PosInv'
<1>1. \A d \in Conns \ {c} : ReaderInv(d)' /\ CkptInv(d)'
  BY OthersRead, OthersCheckpoint
<1>2. ASSUME NEW d \in Conns \ {c}
      PROVE  WriterInv(d)'
  <2>1. CASE shm'.hdr = shm.hdr
    BY <2>1, OthersWrite
  <2>2. CASE writeLock = c
    <3>1. ~Writing(d)'
      BY <2>2 DEF OwnLocks, Writing
    <3> QED
      BY <3>1 DEF WriterInv
  <2> QED
    BY <2>1, <2>2
<1> QED
  BY <1>1, <1>2 DEF PosInv

LEMMA ShapeStep ==
    ASSUME TypeInv, TypeInv', PosInv, NEW c \in Conns,
           Sets(c, conn'[c]), Considerate(c), wal' = wal, nSalt <= nSalt',
           shm'.open = shm.open, shm'.hdr.isInit = shm.hdr.isInit,
           conn[c].pc \notin {"restartInfo", "ckInfo"}, conn'[c].hdr.aSalt <= nSalt'
    PROVE  ShapeInv'
<1>1. ShapeInv /\ nSalt \in Nat /\ nSalt' \in Nat
  BY DEF PosInv, TypeInv
<1>2. /\ mx' = mx /\ mx \in Nat /\ nb \in Nat /\ nb' \in Nat /\ Len(wal.frames) \in Nat
      /\ shm'.hdr.aSalt = shm.hdr.aSalt /\ shm.hdr.aSalt \in Nat /\ wal.hdr \in Nat
      /\ (Live' <=> Live)
  BY Fields, FieldsNext DEF Considerate, mx, nb, Live
<1>3. nb' = nb \/ nb' <= mx
  BY DEF Considerate
<1>4. \A d \in Conns : conn'[d].hdr.aSalt <= nSalt'
  <2> TAKE d \in Conns
  <2>1. conn[d].hdr.aSalt \in Nat /\ conn[d].hdr.aSalt <= nSalt
    BY <1>1, ConnFields DEF ShapeInv
  <2> QED
    BY <1>1, <2>1 DEF Sets
<1>5. \A n \in 1..Len(wal.frames) : wal'.frames[n].aSalt <= nSalt'
  <2> TAKE n \in 1..Len(wal.frames)
  <2>1. wal.frames[n].aSalt \in Nat /\ wal.frames[n].aSalt <= nSalt
    BY <1>1, Fields DEF ShapeInv, Frames
  <2> QED
    BY <1>1, <2>1
<1>6. nb' <= mx' \/ ~Live' \/ \E d \in Conns : conn'[d].pc \in {"restartInfo", "ckInfo"}
  <2>1. CASE \E d \in Conns : conn[d].pc \in {"restartInfo", "ckInfo"}
    BY <2>1 DEF Sets
  <2> QED
    BY <1>1, <1>2, <1>3, <2>1 DEF ShapeInv
<1> QED
  BY <1>1, <1>2, <1>3, <1>4, <1>5, <1>6 DEF ShapeInv

\* A step that writes neither the log nor the wal-index.
LEMMA QuietStep ==
    ASSUME TypeInv, TypeInv', LockInv, PosInv, NEW c \in Conns,
           Sets(c, conn'[c]), OwnLocks(c), UNCHANGED <<wal, shm, nSalt>>, Pins(c),
           conn'[c].hdr.aSalt \in {conn[c].hdr.aSalt, shm.hdr.aSalt, 0},
           conn[c].pc \notin {"restartInfo", "ckInfo"},
           ReaderInv(c)', WriterInv(c)', CkptInv(c)'
    PROVE  PosInv'
<1>1. Considerate(c) /\ Salted(c)
  BY Fields DEF Considerate, Salted, nb
<1>2. conn'[c].hdr.aSalt <= nSalt' /\ nSalt <= nSalt'
  BY DEF PosInv, ShapeInv, TypeInv
<1>3. ShapeInv'
  BY <1>1, <1>2, ShapeStep
<1> QED
  BY <1>1, <1>3, PosStep

\* A connection that starts or ends a call.
LEMMA RestsPos ==
    ASSUME TypeInv, TypeInv', LockInv, PosInv, NEW c \in Conns, NEW h,
           Sets(c, conn'[c]), OwnLocks(c), UNCHANGED <<wal, shm, nSalt>>, Rests(c, h),
           writeLock' # c, conn[c].pc \notin {"restartInfo", "ckInfo"},
           h.aSalt \in {conn[c].hdr.aSalt, shm.hdr.aSalt, 0},
           h.aSalt = shm.hdr.aSalt => h.mxFrame <= mx
    PROVE  PosInv'
<1>1. ReaderInv(c)' /\ Pins(c)
  BY DEF ReaderInv, Pins, Pinned, Rests, mx, nb, FramePcs
<1>2. WriterInv(c)'
  BY DEF WriterInv, Writing
<1>3. CkptInv(c)'
  BY DEF CkptInv, Rests, BackfillPcs, RestartPcs
<1> QED
  BY <1>1, <1>2, <1>3, QuietStep DEF Rests

\* A read transaction that opens, or is left to itself again.
LEMMA ReadsPos ==
    ASSUME TypeInv, TypeInv', LockInv, PosInv, NEW c \in Conns, NEW l \in Nat,
           Sets(c, conn'[c]), OwnLocks(c), UNCHANGED <<wal, shm, nSalt>>, Reads(c, shm.hdr, l),
           writeLock' # c, conn[c].pc \notin {"restartInfo", "ckInfo"},
           l > 0 => /\ conn[c].readLock = l /\ l \in Slots
                    /\ shm.aReadMark[l] <= mx,
           l = 0 => nb = mx
    PROVE  PosInv'
<1>1. ReaderInv(c)'
  <2>1. l > 0 => 1 <= conn[c].minFrame /\ conn[c].minFrame <= nb + 1
    BY DEF PosInv, ReaderInv
  <2>2. mx \in Nat /\ nb \in Nat
    BY Fields DEF mx, nb
  <2> QED
    BY <2>1, <2>2 DEF ReaderInv, Pinned, Reads, mx, nb, FramePcs
<1>2. WriterInv(c)' /\ Pins(c)
  BY Fields DEF WriterInv, Writing, Pins, Reads, mx
<1>3. CkptInv(c)'
  BY DEF CkptInv, Reads, BackfillPcs, RestartPcs
<1> QED
  BY <1>1, <1>2, <1>3, QuietStep DEF Reads

LEMMA RetriesPos ==
    ASSUME TypeInv, TypeInv', LockInv, PosInv, NEW c \in Conns, Sets(c, conn'[c]), Retries(c),
           conn[c].pc \in {"try", "mark", "lockMark", "check"},
           UNCHANGED <<wal, shm, writeLock, ckptLock, nTx, nSalt>>
    PROVE  PosInv'
<1>1. OwnLocks(c) /\ ckptLock # c
  BY OwnLocksIntro, HeldLocks, PcParts
<1>2. CASE writeLock # c /\ Rests(c, conn[c].hdr)
  <2>1. conn[c].hdr.aSalt = shm.hdr.aSalt => conn[c].hdr.mxFrame <= mx
    BY <1>2 DEF PosInv, ReaderInv, Writing
  <2> QED
    BY <1>1, <1>2, <2>1, RestsPos
<1>3. CASE /\ writeLock = c /\ conn'[c].pc = "mark" /\ conn'[c].readLock = -1
           /\ conn'[c].hdr = conn[c].hdr /\ KeepsWrite(c) /\ KeepsCkpt(c)
  <2>1. Writing(c) /\ Writing(c)' /\ WriterInv(c)
    BY <1>1, <1>3 DEF Writing, PosInv
  <2>2. conn[c].hdr = shm.hdr
    BY <1>3, <2>1, HeldLocks DEF WriterInv
  <2>3. ReaderInv(c)' /\ Pins(c)
    BY <1>3, <2>1 DEF ReaderInv, Pins, Pinned, FramePcs
  <2>4. WriterInv(c)'
    BY <1>3, <2>1, <2>2, HeldLocks DEF WriterInv, KeepsWrite, mx, nb
  <2>5. CkptInv(c)'
    BY <1>3 DEF CkptInv, BackfillPcs, RestartPcs
  <2> QED
    BY <1>1, <1>3, <2>3, <2>4, <2>5, QuietStep
<1> QED
  BY <1>2, <1>3 DEF Retries

\* A positive read lock is that of a mark.
LEMMA HeldMark ==
    ASSUME TypeInv, NEW c \in Conns
    PROVE  /\ conn[c].readLock > 0 <=> conn[c].readLock \in Slots
           /\ conn[c].readLock >= 0 <=> conn[c].readLock \in Nat
<1>1. conn[c].readLock \in -1..(NReader - 1) /\ NReader \in Nat
  BY ConnFields, WalConstants
<1> QED
  BY <1>1 DEF Slots

LEMMA EndReadPos ==
    ASSUME TypeInv, LockInv, PosInv, NEW c \in Conns, EndRead(c)
    PROVE  PosInv'
<1>1. OwnLocks(c) /\ writeLock # c
  BY EndReadEffect, OwnLocksIntro, HeldLocks
<1>2. conn[c].hdr.aSalt = shm.hdr.aSalt => conn[c].hdr.mxFrame <= mx
  BY <1>1 DEF PosInv, ReaderInv, Writing
<1> QED
  BY <1>1, <1>2, EndReadEffect, RestsPos

LEMMA CkptEndPos ==
    ASSUME TypeInv, LockInv, PosInv, NEW c \in Conns, CkptEnd(c)
    PROVE  PosInv'
<1>1. OwnLocks(c) /\ ckptLock = c /\ writeLock' # c
  BY CkptEndEffect, OwnLocksIntro, HeldLocks, PcParts, WalConstants
<1>2. conn[c].hdr.aSalt = shm.hdr.aSalt => conn[c].hdr.mxFrame <= mx
  BY <1>1 DEF PosInv, ReaderInv, Writing
<1>3. ZeroHdr.aSalt = 0 /\ ZeroHdr.mxFrame = 0 /\ mx \in Nat
  BY Fields DEF ZeroHdr, mx
<1> QED
  BY <1>1, <1>2, <1>3, CkptEndEffect, RestsPos

LEMMA LockZeroPos ==
    ASSUME TypeInv, LockInv, PosInv, NEW c \in Conns, LockZero(c)
    PROVE  PosInv'
<1>1. OwnLocks(c) /\ writeLock # c
  BY LockZeroEffect, OwnLocksIntro, HeldLocks
<1>2. CASE shm.hdr = conn[c].hdr /\ Reads(c, conn[c].hdr, 0)
  <2>1. nb = mx
    BY <1>2, LockZeroEffect DEF nb, mx
  <2> QED
    BY <1>1, <1>2, <2>1, LockZeroEffect, ReadsPos
<1>3. CASE Rests(c, conn[c].hdr)
  <2>1. conn[c].hdr.aSalt = shm.hdr.aSalt => conn[c].hdr.mxFrame <= mx
    BY <1>1 DEF PosInv, ReaderInv, Writing
  <2> QED
    BY <1>1, <1>3, <2>1, LockZeroEffect, RestsPos
<1> QED
  BY <1>2, <1>3, LockZeroEffect

LEMMA RollbackPos ==
    ASSUME TypeInv, LockInv, PosInv, NEW c \in Conns, Rollback(c)
    PROVE  PosInv'
<1>1. OwnLocks(c) /\ writeLock = c /\ Writing(c) /\ writeLock' # c
  BY RollbackEffect, OwnLocksIntro, HeldLocks, PcParts, WalConstants DEF Writing
<1>2. conn[c].readLock \in Nat /\ (conn[c].readLock > 0 => conn[c].readLock \in Slots)
  <2>1. conn[c].pc \in {"read", "write"} \/ conn[c].pc \in {"check"} \cup FramePcs
    BY RollbackEffect, PcParts
  <2>2. conn[c].readLock >= 0
    BY <2>1, ConnFields DEF LockInv, LockInvOf
  <2> QED
    BY <2>2, HeldMark
<1>3. conn[c].readLock > 0 => shm.aReadMark[conn[c].readLock] <= mx
  BY RollbackEffect, PcParts DEF Pinned, PosInv, ReaderInv
<1>4. conn[c].readLock = 0 => nb = mx
  <2> HAVE conn[c].readLock = 0
  <2>1. conn[c].pc = "write"
    BY RollbackEffect, PcParts DEF LockInv, LockInvOf
  <2> QED
    BY <1>1, <2>1 DEF PosInv, WriterInv
<1>5. conn[c].pc \notin {"restartInfo", "ckInfo"}
  BY RollbackEffect
<1> QED
  BY <1>1, <1>2, <1>3, <1>4, <1>5, RollbackEffect, ReadsPos

LEMMA LockMarkPos ==
    ASSUME TypeInv, LockInv, PosInv, NEW c \in Conns, LockMark(c)
    PROVE  PosInv'
<1>1. OwnLocks(c) /\ ckptLock # c
  BY LockMarkEffect, OwnLocksIntro, HeldLocks
<1>2. CASE Retries(c)
  BY <1>2, LockMarkEffect, RetriesPos
<1>3. CASE /\ conn'[c].pc = "check" /\ conn'[c].hdr = conn[c].hdr
           /\ conn'[c].readLock = conn[c].mxI /\ conn'[c].minFrame = shm.nBackfill + 1
           /\ conn'[c].mxI = conn[c].mxI /\ conn'[c].mxReadMark = conn[c].mxReadMark
           /\ KeepsWrite(c) /\ KeepsCkpt(c)
  <2>1. conn[c].pc = "lockMark" /\ ReaderInv(c) /\ nb' = nb /\ mx' = mx /\ nb \in Nat
        /\ (Writing(c)' <=> Writing(c)) /\ shm' = shm
    BY LockMarkEffect, Fields DEF PosInv, nb, mx, Writing
  <2>2. ReaderInv(c)' /\ Pins(c)
    BY <1>3, <2>1 DEF ReaderInv, Pins, Pinned, FramePcs, nb
  <2>3. WriterInv(c)'
    <3>1. WriterInv(c) /\ conn[c].mxI > 0 /\ wal' = wal
      BY <2>1, LockMarkEffect DEF PosInv, LockInv, LockInvOf
    <3>2. \A d \in Conns \ {c} : conn'[d] = conn[d]
      BY LockMarkEffect DEF Sets
    <3> QED
      BY <1>3, <2>1, <3>1, <3>2 DEF WriterInv, KeepsWrite
  <2>4. CkptInv(c)'
    BY <1>3 DEF CkptInv, BackfillPcs, RestartPcs
  <2> QED
    BY <1>1, <1>3, <2>1, <2>2, <2>3, <2>4, LockMarkEffect, QuietStep
<1> QED
  BY <1>2, <1>3, LockMarkEffect

LEMMA CheckMarkPos ==
    ASSUME TypeInv, LockInv, PosInv, NEW c \in Conns, CheckMark(c)
    PROVE  PosInv'
<1>1. OwnLocks(c) /\ ckptLock # c
  BY CheckMarkEffect, OwnLocksIntro, HeldLocks
<1>6. /\ conn[c].readLock = conn[c].mxI /\ conn[c].readLock > 0 /\ conn[c].readLock \in Slots
      /\ conn[c].mxReadMark <= conn[c].hdr.mxFrame
  <2>1. conn[c].readLock = conn[c].mxI /\ conn[c].readLock > 0
    BY CheckMarkEffect DEF LockInv, LockInvOf
  <2> QED
    BY <2>1, CheckMarkEffect, HeldMark DEF PosInv, ReaderInv
<1>2. CASE Retries(c)
  BY <1>2, CheckMarkEffect, RetriesPos
<1>3. CASE /\ shm.aReadMark[conn[c].mxI] = conn[c].mxReadMark /\ shm.hdr = conn[c].hdr
           /\ writeLock = c /\ conn'[c].pc = "header" /\ conn'[c].hdr = conn[c].hdr
           /\ KeepsRead(c) /\ KeepsWrite(c) /\ KeepsCkpt(c)
  <2>1. conn[c].pc = "check" /\ ReaderInv(c) /\ nb' = nb /\ mx' = mx /\ nb \in Nat /\ mx \in Nat
        /\ Writing(c) /\ shm' = shm /\ mx = conn[c].hdr.mxFrame
    BY <1>1, <1>3, CheckMarkEffect, Fields DEF PosInv, nb, mx, Writing
  <2>2. ReaderInv(c)' /\ Pins(c)
    BY <1>6, <1>3, <2>1 DEF ReaderInv, Pins, Pinned, FramePcs, KeepsRead, Writing
  <2>3. WriterInv(c)'
    <3>1. WriterInv(c) /\ wal' = wal
      BY <2>1, CheckMarkEffect DEF PosInv
    <3>2. \A d \in Conns \ {c} : conn'[d] = conn[d]
      BY CheckMarkEffect DEF Sets
    <3> QED
      BY <1>6, <1>3, <2>1, <3>1, <3>2 DEF WriterInv, KeepsWrite, KeepsRead
  <2>4. CkptInv(c)'
    BY <1>3 DEF CkptInv, BackfillPcs, RestartPcs
  <2> QED
    BY <1>1, <1>3, <2>1, <2>2, <2>3, <2>4, CheckMarkEffect, QuietStep
<1>4. CASE /\ shm.aReadMark[conn[c].mxI] = conn[c].mxReadMark /\ shm.hdr = conn[c].hdr
           /\ writeLock # c /\ Reads(c, conn[c].hdr, conn[c].readLock)
  <2>1. shm.aReadMark[conn[c].readLock] <= mx /\ conn[c].readLock \in Nat
    BY <1>6, <1>4, ConnFields DEF mx
  <2> QED
    BY <1>6, <1>1, <1>4, <2>1, CheckMarkEffect, ReadsPos
<1> QED
  BY <1>2, <1>3, <1>4, CheckMarkEffect

LEMMA ReadHdrPos ==
    ASSUME TypeInv, LockInv, PosInv, NEW c \in Conns, ReadHdr(c)
    PROVE  PosInv'
<1>1. OwnLocks(c) /\ writeLock # c /\ UNCHANGED <<wal, shm, nSalt, writeLock>>
  BY ReadHdrEffect, OwnLocksIntro, HeldLocks
<1>2. conn'[c].pc = "try" /\ conn'[c].hdr = shm.hdr /\ conn'[c].readLock = -1
  BY ReadHdrEffect
<1>3. ReaderInv(c)' /\ Pins(c)
  BY <1>1, <1>2, Fields DEF ReaderInv, Pins, Pinned, FramePcs, mx
<1>4. WriterInv(c)' /\ CkptInv(c)'
  BY <1>1, <1>2 DEF WriterInv, Writing, CkptInv, BackfillPcs, RestartPcs
<1> QED
  BY <1>1, <1>2, <1>3, <1>4, ReadHdrEffect, QuietStep

LEMMA BeginWritePos ==
    ASSUME TypeInv, LockInv, PosInv, NEW c \in Conns, BeginWrite(c)
    PROVE  PosInv'
<1>1. OwnLocks(c) /\ writeLock # c /\ ckptLock # c
  BY BeginWriteEffect, OwnLocksIntro, HeldLocks, WalConstants
<1>2. /\ conn[c].pc = "read" /\ conn[c].hdr = shm.hdr
      /\ conn'[c].pc = "write" /\ conn'[c].hdr = shm.hdr /\ KeepsRead(c)
      /\ conn'[c].iReCksum = conn[c].iReCksum
      /\ UNCHANGED <<wal, shm, nSalt>>
  BY BeginWriteEffect DEF KeepsWrite
<1>3. ReaderInv(c) /\ shm.hdr.aSalt = conn[c].hdr.aSalt /\ shm.hdr.mxFrame = mx
      /\ mx \in Nat /\ nb \in Nat /\ Len(wal.frames) \in Nat /\ mx <= Len(wal.frames)
  BY <1>2, Fields DEF PosInv, ShapeInv, mx, nb
<1>4. ReaderInv(c)' /\ Pins(c)
  BY <1>1, <1>2, <1>3 DEF ReaderInv, Pins, Pinned, KeepsRead, Writing, mx, nb
<1>5. WriterInv(c)'
  BY <1>1, <1>2, <1>3 DEF WriterInv, ReaderInv, KeepsRead, FramePcs, mx, nb, Writing
<1>6. CkptInv(c)'
  BY <1>2 DEF CkptInv, BackfillPcs, RestartPcs
<1> QED
  BY <1>1, <1>2, <1>4, <1>5, <1>6, BeginWriteEffect, QuietStep

LEMMA WalFramesPos ==
    ASSUME TypeInv, LockInv, PosInv, NEW c \in Conns, NEW P \in SUBSET Pages,
           NEW commit \in BOOLEAN, WalFrames(c, P, commit)
    PROVE  PosInv'
<1>1. OwnLocks(c) /\ Writing(c) /\ Writing(c)'
  BY WalFramesEffect, OwnLocksIntro, HeldLocks, PcParts DEF Writing
<1>2. /\ conn[c].pc = "write" /\ conn'[c].pc \in {"restartLog", "header"}
      /\ conn'[c].pc = "restartLog" <=> conn[c].readLock = 0
      /\ conn'[c].hdr = conn[c].hdr /\ KeepsRead(c)
      /\ conn'[c].iReCksum = conn[c].iReCksum
      /\ conn'[c].iFirst = (IF conn[c].hdr = shm.hdr THEN 0 ELSE shm.hdr.mxFrame + 1)
      /\ UNCHANGED <<wal, shm, nSalt>>
      /\ \A d \in Conns \ {c} : conn'[d] = conn[d]
  BY WalFramesEffect DEF Sets
<1>3. ReaderInv(c) /\ WriterInv(c) /\ mx \in Nat /\ nb \in Nat /\ conn[c].hdr.mxFrame \in Nat
  BY Fields, ConnFields DEF PosInv, mx, nb
<1>4. ReaderInv(c)' /\ Pins(c)
  <2>1. conn'[c].pc \notin {"lockMark", "check", "read"} /\ (Pinned(c)' => Pinned(c))
    BY <1>2 DEF Pinned, KeepsRead
  <2> QED
    BY <1>1, <1>2, <1>3, <2>1 DEF ReaderInv, Pins, KeepsRead, mx, nb
<1>5. WriterInv(c)'
  BY <1>1, <1>2, <1>3 DEF WriterInv, KeepsRead, mx, nb
<1>6. CkptInv(c)'
  BY <1>2, SMTT(30) DEF CkptInv, BackfillPcs, RestartPcs
<1> QED
  BY <1>1, <1>2, <1>4, <1>5, <1>6, WalFramesEffect, QuietStep

LEMMA KeepHeaderPos ==
    ASSUME TypeInv, LockInv, PosInv, NEW c \in Conns, KeepHeader(c)
    PROVE  PosInv'
<1>1. OwnLocks(c) /\ Writing(c) /\ Writing(c)'
  <2>1. conn[c].pc = "header" /\ UNCHANGED <<writeLock, ckptLock, nTx>>
    BY KeepHeaderEffect
  <2> QED
    BY <2>1, OwnLocksIntro, HeldLocks, PcParts DEF Writing
<1>2. /\ conn[c].pc = "header" /\ conn'[c].pc = "frames"
      /\ conn'[c].hdr = conn[c].hdr /\ KeepsRead(c)
      /\ conn'[c].iReCksum = conn[c].iReCksum /\ conn'[c].iFirst = conn[c].iFirst
      /\ conn'[c].iFrame = conn[c].hdr.mxFrame
      /\ UNCHANGED <<wal, shm, nSalt>>
      /\ \A d \in Conns \ {c} : conn'[d] = conn[d]
  BY KeepHeaderEffect DEF Sets
<1>3. ReaderInv(c) /\ WriterInv(c) /\ mx \in Nat /\ nb \in Nat /\ conn[c].hdr.mxFrame \in Nat
  BY Fields, ConnFields DEF PosInv, mx, nb
<1>4. ReaderInv(c)' /\ Pins(c)
  BY <1>1, <1>2, <1>3 DEF ReaderInv, Pins, Pinned, KeepsRead, FramePcs, mx, nb
<1>5. WriterInv(c)'
  <2>1. wal.hdr # 0
    <3>1. CASE conn[c].hdr.mxFrame = 0
      BY <3>1, KeepHeaderEffect DEF NeedsHeader
    <3>2. CASE conn[c].hdr.mxFrame > 0
      <4>1. conn[c].hdr.mxFrame <= Len(wal.frames)
        BY <1>1, <1>3 DEF WriterInv
      <4>2. Len(wal.frames) # 0
        BY <1>3, <3>2, <4>1, Fields
      <4> QED
        BY <4>2 DEF PosInv, ShapeInv
    <3> QED
      BY <1>3, <3>1, <3>2
  <2> QED
    BY <1>1, <1>2, <1>3, <2>1 DEF WriterInv, KeepsRead, mx, nb
<1>6. CkptInv(c)'
  BY <1>2 DEF CkptInv, BackfillPcs, RestartPcs
<1> QED
  BY <1>1, <1>2, <1>4, <1>5, <1>6, KeepHeaderEffect, QuietStep

LEMMA CkptBeginPos ==
    ASSUME TypeInv, LockInv, PosInv, NEW c \in Conns, NEW mode \in {"PASSIVE", "TRUNCATE"},
           CkptBegin(c, mode)
    PROVE  PosInv'
<1>1. OwnLocks(c) /\ ~Writing(c)'
  BY CkptBeginEffect, OwnLocksIntro DEF Writing
<1>2. /\ conn'[c].pc = IF nb < mx THEN "ckMarks" ELSE "ckDone"
      /\ conn'[c].hdr = shm.hdr /\ conn'[c].readLock = -1 /\ conn'[c].i = 1
      /\ conn'[c].mxSafeFrame = mx
      /\ conn[c].pc = "idle" /\ UNCHANGED <<wal, shm, nSalt>>
  BY CkptBeginEffect DEF mx, nb
<1>3. mx \in Nat /\ nb \in Nat
  BY Fields DEF mx, nb
<1>4. ReaderInv(c)' /\ Pins(c) /\ WriterInv(c)'
  BY <1>1, <1>2, <1>3 DEF ReaderInv, Pins, Pinned, FramePcs, mx, nb, WriterInv
<1>5. CkptInv(c)'
  <2>1. 1 \in Slots /\ shm.hdr.mxFrame = mx /\ shm'.hdr = shm.hdr /\ nb' = nb /\ mx' = mx
    BY <1>2, ReadLocks DEF mx, nb
  <2>2. \A d \in Conns : ~(Pinned(d)' /\ conn'[d].readLock < 1)
    BY ConnFieldsNext, CkptBeginEffect DEF Pinned
  <2> QED
    BY <1>2, <1>3, <2>1, <2>2 DEF CkptInv, BackfillPcs, RestartPcs
<1> QED
  BY <1>1, <1>2, <1>4, <1>5, CkptBeginEffect, QuietStep

LEMMA CkptFailPos ==
    ASSUME TypeInv, LockInv, PosInv, NEW c \in Conns, CkptFail(c)
    PROVE  PosInv'
<1>1. OwnLocks(c) /\ ckptLock = c /\ ckptLock' = c /\ writeLock' = writeLock
  BY CkptFailEffect, OwnLocksIntro, HeldLocks, PcParts
<1>2. /\ conn'[c].pc = "ckEnd" /\ conn'[c].hdr = conn[c].hdr /\ KeepsRead(c)
      /\ conn[c].readLock = -1 /\ conn[c].pc \notin {"restartInfo", "ckInfo"}
      /\ UNCHANGED <<wal, shm, nSalt>>
  BY CkptFailEffect, HeldLocks, PcParts
<1>3. ReaderInv(c)' /\ Pins(c)
  <2>1. ReaderInv(c)
    BY DEF PosInv
  <2> QED
    BY <1>1, <1>2, <2>1 DEF ReaderInv, Pins, Pinned, FramePcs, KeepsRead, Writing, mx
<1>4. WriterInv(c)' /\ CkptInv(c)'
  BY <1>1, <1>2 DEF WriterInv, Writing, CkptInv, BackfillPcs, RestartPcs
<1> QED
  BY <1>1, <1>2, <1>3, <1>4, CkptFailEffect, QuietStep

LEMMA CkptCopyPos ==
    ASSUME TypeInv, LockInv, PosInv, NEW c \in Conns, CkptCopy(c)
    PROVE  PosInv'
<1>1. OwnLocks(c) /\ ckptLock = c /\ ckptLock' = c /\ writeLock' = writeLock
  BY CkptCopyEffect, OwnLocksIntro, HeldLocks, PcParts
<1>2. /\ conn[c].pc = "ckCopy" /\ conn'[c].pc = "ckCopy" /\ conn'[c].hdr = conn[c].hdr
      /\ KeepsRead(c) /\ KeepsCkpt(c) /\ conn[c].readLock = -1
      /\ UNCHANGED <<wal, shm, nSalt>> /\ conn'[c].todo \subseteq conn[c].todo
      /\ \A d \in Conns \ {c} : conn'[d] = conn[d]
  BY CkptCopyEffect, HeldLocks, PcParts DEF Sets
<1>3. ReaderInv(c)' /\ Pins(c)
  <2>1. ReaderInv(c)
    BY DEF PosInv
  <2> QED
    BY <1>1, <1>2, <2>1 DEF ReaderInv, Pins, Pinned, FramePcs, KeepsRead, Writing, mx
<1>4. WriterInv(c)'
  BY <1>1 DEF WriterInv, Writing
<1>5. CkptInv(c)'
  <2>1. CkptInv(c) /\ nb' = nb /\ mx' = mx
    BY <1>2 DEF PosInv, nb, mx
  <2>2. ToCopy(conn[c])' = ToCopy(conn[c])
    BY <1>2 DEF ToCopy, FindFrame, KeepsCkpt
  <2>3. \A d \in Conns : Pinned(d)' => Pinned(d) /\ conn'[d].hdr = conn[d].hdr
    BY <1>2 DEF Pinned, FramePcs
  <2> QED
    BY <1>1, <1>2, <2>1, <2>2, <2>3 DEF CkptInv, KeepsCkpt, BackfillPcs, RestartPcs
<1> QED
  BY <1>1, <1>2, <1>3, <1>4, <1>5, CkptCopyEffect, QuietStep

LEMMA ChooseMarkPos ==
    ASSUME TypeInv, LockInv, PosInv, NEW c \in Conns, ChooseMark(c)
    PROVE  PosInv'
<1>1. OwnLocks(c) /\ ckptLock # c /\ UNCHANGED <<wal, nSalt, writeLock, ckptLock, nTx>>
      /\ shm'.hdr = shm.hdr /\ shm'.open = shm.open /\ nb' = nb
      /\ conn[c].pc \in {"try", "mark"} /\ conn[c].readLock = -1
  <2>1. conn[c].pc \in {"try", "mark"} /\ UNCHANGED <<wal, nSalt, writeLock, ckptLock, nTx>>
        /\ shm'.hdr = shm.hdr /\ shm'.open = shm.open /\ nb' = nb
    BY ChooseMarkEffect DEF nb
  <2>2. conn[c].readLock = -1
    BY <2>1 DEF LockInv, LockInvOf
  <2> QED
    BY <2>1, <2>2, OwnLocksIntro, HeldLocks, PcParts
<1>2. CASE Retries(c) /\ shm' = shm
  BY <1>1, <1>2, ChooseMarkEffect, RetriesPos
<1>3. ASSUME NEW i \in Slots, NEW m \in 0..conn[c].hdr.mxFrame, Chooses(c, i, m),
             \A j \in Slots : shm'.aReadMark[j] = shm.aReadMark[j] \/ Shared(j) = {}
      PROVE  PosInv'
  <2>1. Considerate(c)
    BY <1>1, <1>3 DEF Considerate
  <2>2. /\ conn'[c].pc = "lockMark" /\ conn'[c].hdr = conn[c].hdr /\ conn'[c].readLock = -1
        /\ conn'[c].mxReadMark = m /\ KeepsWrite(c)
    BY <1>1, <1>3 DEF Chooses
  <2>3. Salted(c) /\ Pins(c)
    BY <2>2 DEF Salted, Pins, Pinned, FramePcs
  <2>4. conn[c].hdr.aSalt <= nSalt /\ nSalt <= nSalt'
    BY <1>1 DEF PosInv, ShapeInv, TypeInv
  <2>5. ShapeInv'
    BY <1>1, <2>1, <2>2, <2>4, ChooseMarkEffect, ShapeStep
  <2>6. mx' = mx /\ (Writing(c)' <=> Writing(c)) /\ conn[c].hdr.mxFrame \in Nat
    BY <1>1, ConnFields DEF mx, Writing
  <2>7. ReaderInv(c)'
    <3>1. ReaderInv(c)
      BY DEF PosInv
    <3> QED
      BY <1>1, <2>2, <2>6, <3>1 DEF ReaderInv, Pinned, FramePcs
  <2>8. WriterInv(c)'
    <3>1. WriterInv(c) /\ \A d \in Conns \ {c} : conn'[d] = conn[d]
      BY ChooseMarkEffect DEF PosInv, Sets
    <3>2. Writing(c) => conn[c].pc = "mark"
      BY <1>1, HeldLocks DEF Writing
    <3> QED
      BY <1>1, <2>2, <2>6, <3>1, <3>2 DEF WriterInv, KeepsWrite, mx
  <2>9. CkptInv(c)'
    BY <2>2 DEF CkptInv, BackfillPcs, RestartPcs
  <2> QED
    BY <1>1, <2>1, <2>3, <2>5, <2>7, <2>8, <2>9, ChooseMarkEffect, PosStep
<1>4. ASSUME NEW i \in Slots, Shared(i) = {}, Chooses(c, i, conn[c].hdr.mxFrame),
             \A j \in Slots \ {i} : shm'.aReadMark[j] = shm.aReadMark[j]
      PROVE  PosInv'
  <2>1. conn[c].hdr.mxFrame \in 0..conn[c].hdr.mxFrame
    BY ConnFields
  <2> QED
    BY <1>3, <1>4, <2>1
<1>5. ASSUME NEW i \in Slots, NEW m \in 0..conn[c].hdr.mxFrame, Chooses(c, i, m), shm' = shm
      PROVE  PosInv'
  BY <1>3, <1>5
<1> QED
  BY <1>2, <1>4, <1>5, ChooseMarkEffect

LEMMA CkptLock0Pos ==
    ASSUME TypeInv, LockInv, PosInv, NEW c \in Conns, CkptLock0(c)
    PROVE  PosInv'
<1>1. /\ conn[c].pc = "ckLock0" /\ UNCHANGED <<wal, nSalt, writeLock, ckptLock, nTx>>
      /\ shm'.hdr = shm.hdr /\ shm'.open = shm.open /\ nb' = nb /\ mx' = mx
      /\ shm'.aReadMark = shm.aReadMark
      /\ conn'[c].hdr = conn[c].hdr /\ KeepsRead(c) /\ KeepsCkpt(c)
      /\ \A d \in Conns \ {c} : conn'[d] = conn[d]
  BY CkptLock0Effect DEF nb, mx, Sets
<1>2. OwnLocks(c) /\ ckptLock = c /\ conn[c].readLock = -1
  BY <1>1, OwnLocksIntro, HeldLocks, PcParts
<1>3. conn'[c].pc = "ckDone" \/ (conn'[c].pc = "ckCopy" /\ conn'[c].todo = ToCopy(conn[c]))
  BY CkptLock0Effect
<1>4. Considerate(c) /\ Salted(c) /\ Pins(c)
  BY <1>1, <1>2, <1>3 DEF Considerate, Salted, Pins, Pinned, FramePcs, KeepsRead
<1>5. conn[c].hdr.aSalt <= nSalt /\ nSalt <= nSalt'
  BY <1>1 DEF PosInv, ShapeInv, TypeInv
<1>6. ShapeInv'
  BY <1>1, <1>4, <1>5, CkptLock0Effect, ShapeStep
<1>7. ReaderInv(c)'
  <2>1. ReaderInv(c)
    BY DEF PosInv
  <2> QED
    BY <1>1, <1>2, <1>3, <2>1 DEF ReaderInv, Pinned, FramePcs, KeepsRead, Writing
<1>8. WriterInv(c)'
  BY <1>1, <1>2 DEF WriterInv, Writing
<1>9. CkptInv(c)'
  <2>1. CkptInv(c)
    BY DEF PosInv
  <2>2. ToCopy(conn[c])' = ToCopy(conn[c])
    BY <1>1 DEF ToCopy, FindFrame, KeepsCkpt, nb
  <2>3. \A d \in Conns : Pinned(d)' => Pinned(d) /\ conn'[d].hdr = conn[d].hdr
    BY <1>1, <1>3 DEF Pinned, FramePcs
  <2> QED
    BY <1>1, <1>3, <2>1, <2>2, <2>3 DEF CkptInv, KeepsCkpt, BackfillPcs, RestartPcs
<1> QED
  BY <1>1, <1>2, <1>4, <1>6, <1>7, <1>8, <1>9, CkptLock0Effect, PosStep

LEMMA CkptBackfillPos ==
    ASSUME TypeInv, LockInv, PosInv, NEW c \in Conns, CkptBackfill(c)
    PROVE  PosInv'
<1>1. /\ conn[c].pc = "ckCopy" /\ UNCHANGED <<wal, nSalt, writeLock, ckptLock, nTx>>
      /\ shm'.hdr = shm.hdr /\ shm'.open = shm.open /\ nb' = conn[c].mxSafeFrame /\ mx' = mx
      /\ shm'.aReadMark = shm.aReadMark
      /\ conn'[c].pc = "ckDone" /\ conn'[c].hdr = conn[c].hdr /\ KeepsRead(c)
  BY CkptBackfillEffect DEF nb, mx
<1>2. OwnLocks(c) /\ ckptLock = c /\ conn[c].readLock = -1
  BY <1>1, OwnLocksIntro, HeldLocks, PcParts
<1>3. CkptInv(c) /\ nb \in Nat /\ mx \in Nat
  BY Fields DEF PosInv, mx, nb
<1>4. nb <= nb' /\ nb' <= mx
  BY <1>1, <1>3, ConnFields, PcParts DEF CkptInv
<1>5. Considerate(c) /\ Salted(c) /\ Pins(c)
  <2>1. Considerate(c)
    BY <1>1, <1>2, <1>4 DEF Considerate
  <2> QED
    BY <1>1, <1>2, <2>1 DEF Salted, Pins, Pinned, FramePcs
<1>6. conn[c].hdr.aSalt <= nSalt /\ nSalt <= nSalt'
  BY <1>1 DEF PosInv, ShapeInv, TypeInv
<1>7. ShapeInv'
  BY <1>1, <1>5, <1>6, CkptBackfillEffect, ShapeStep
<1>8. ReaderInv(c)'
  <2>1. ReaderInv(c)
    BY DEF PosInv
  <2> QED
    BY <1>1, <1>2, <2>1 DEF ReaderInv, Pinned, FramePcs, KeepsRead, Writing
<1>9. WriterInv(c)' /\ CkptInv(c)'
  BY <1>1, <1>2, <1>3 DEF WriterInv, Writing, CkptInv, BackfillPcs, RestartPcs
<1> QED
  BY <1>1, <1>2, <1>5, <1>7, <1>8, <1>9, CkptBackfillEffect, PosStep

LEMMA CkptMarkPos ==
    ASSUME TypeInv, LockInv, PosInv, NEW c \in Conns, CkptMark(c)
    PROVE  PosInv'
<1> DEFINE i == conn[c].i
<1>1. /\ conn[c].pc = "ckMarks" /\ i \in Slots /\ UNCHANGED <<wal, nSalt, writeLock, ckptLock, nTx>>
      /\ shm'.hdr = shm.hdr /\ shm'.open = shm.open /\ nb' = nb /\ mx' = mx
      /\ \A j \in Slots \ {i} : shm'.aReadMark[j] = shm.aReadMark[j]
      /\ \/ conn'[c].pc = "ckMarks" /\ i + 1 \in Slots
         \/ conn'[c].pc = "ckLock0" /\ nb < conn'[c].mxSafeFrame /\ i = NReader - 1
         \/ conn'[c].pc = "ckDone"
      /\ conn'[c].hdr = conn[c].hdr /\ KeepsRead(c) /\ conn'[c].i = i + 1
      /\ \A d \in Conns \ {c} : conn'[d] = conn[d]
  BY CkptMarkEffect DEF nb, mx, Sets
<1>2. OwnLocks(c) /\ ckptLock = c /\ conn[c].readLock = -1
  BY <1>1, OwnLocksIntro, HeldLocks, PcParts
<1>3. \/ Shared(i) = {} /\ conn'[c].mxSafeFrame = conn[c].mxSafeFrame
      \/ shm' = shm /\ conn'[c].mxSafeFrame <= conn[c].mxSafeFrame
         /\ conn'[c].mxSafeFrame <= shm.aReadMark[i]
  BY CkptMarkEffect
<1>4. Considerate(c) /\ Salted(c) /\ Pins(c)
  <2>1. Considerate(c)
    BY <1>1, <1>3 DEF Considerate
  <2> QED
    BY <1>1, <1>2, <2>1 DEF Salted, Pins, Pinned, FramePcs, KeepsRead
<1>5. conn[c].hdr.aSalt <= nSalt /\ nSalt <= nSalt'
  BY <1>1 DEF PosInv, ShapeInv, TypeInv
<1>6. ShapeInv'
  BY <1>1, <1>4, <1>5, CkptMarkEffect, ShapeStep
<1>7. ReaderInv(c)'
  <2>1. ReaderInv(c)
    BY DEF PosInv
  <2> QED
    BY <1>1, <1>2, <2>1 DEF ReaderInv, Pinned, FramePcs, KeepsRead, Writing
<1>8. WriterInv(c)'
  BY <1>1, <1>2 DEF WriterInv, Writing
<1>9. CkptInv(c)'
  <2>1. CkptInv(c) /\ conn[c].pc \in BackfillPcs /\ mx \in Nat /\ nb \in Nat
    BY <1>1, Fields, PcParts DEF PosInv, mx, nb
  <2>2. conn'[c].mxSafeFrame <= conn[c].mxSafeFrame
        /\ conn[c].mxSafeFrame \in Nat /\ conn'[c].mxSafeFrame \in Nat
        /\ conn[c].hdr.mxFrame \in Nat /\ i \in Nat
    BY <1>3, ConnFields, ConnFieldsNext, CkptMarkEffect
  <2>3. ASSUME NEW d \in Conns, Pinned(d)', conn'[c].pc \in BackfillPcs,
               conn'[c].pc = "ckMarks" => conn'[d].readLock < i + 1
        PROVE  conn'[c].mxSafeFrame <= conn'[d].hdr.mxFrame
    <3>1. d # c
      BY <1>1, <1>2, <2>3 DEF Pinned, KeepsRead
    <3>2. conn'[d] = conn[d] /\ Pinned(d) /\ conn[d].readLock \in Slots
          /\ conn[d].hdr.mxFrame \in Nat
      BY <1>1, <2>3, <3>1, HeldMark, ConnFields DEF Pinned
    <3>3. CASE conn[d].readLock < i
      BY <2>1, <2>2, <3>2, <3>3, <1>1 DEF CkptInv
    <3>4. CASE conn[d].readLock = i
      <4>1. Shared(i) # {}
        BY <3>2, <3>4 DEF Shared
      <4>2. shm.aReadMark[i] <= conn[d].hdr.mxFrame
        BY <3>2, <3>4 DEF PosInv, ReaderInv
      <4>3. shm.aReadMark[i] \in Nat
        BY <1>1, Fields
      <4> QED
        BY <1>3, <2>2, <3>2, <4>1, <4>2, <4>3
    <3>5. conn[d].readLock <= i
      <4>1. conn[d].readLock \in 1..(NReader - 1) /\ NReader \in Nat
        BY <3>2, WalConstants DEF Slots
      <4>2. CASE conn'[c].pc = "ckMarks"
        BY <2>2, <2>3, <3>2, <4>1, <4>2
      <4>3. CASE i = NReader - 1
        BY <4>1, <4>3
      <4> QED
        BY <1>1, <2>3, <4>2, <4>3 DEF BackfillPcs
    <3> QED
      BY <2>2, <3>2, <3>3, <3>4, <3>5 DEF Slots
  <2>4. conn'[c].mxSafeFrame <= conn[c].hdr.mxFrame
    BY <2>1, <2>2 DEF CkptInv
  <2> QED
    BY <1>1, <2>1, <2>2, <2>3, <2>4 DEF CkptInv, BackfillPcs, RestartPcs
<1> QED
  BY <1>1, <1>2, <1>4, <1>6, <1>7, <1>8, <1>9, CkptMarkEffect, PosStep

\* A step that writes the log under the write lock, beyond the shared header.
LEMMA LogStep ==
    ASSUME TypeInv, TypeInv', LockInv, PosInv, NEW c \in Conns,
           Sets(c, conn'[c]), OwnLocks(c), writeLock = c, shm' = shm, Pins(c), Salted(c),
           \A i \in 1..mx : wal'.frames[i].page = wal.frames[i].page,
           nSalt <= nSalt', conn'[c].hdr.aSalt <= nSalt', mx <= Len(wal'.frames),
           nb <= Len(wal'.frames), wal'.hdr <= nSalt', wal'.hdr = 0 => wal'.frames = <<>>,
           \A n \in 1..Len(wal'.frames) : wal'.frames[n].aSalt <= nSalt',
           conn[c].pc \notin {"restartInfo", "ckInfo"},
           ReaderInv(c)', WriterInv(c)', CkptInv(c)'
    PROVE  PosInv'
<1>1. ShapeInv /\ nSalt \in Nat /\ nSalt' \in Nat /\ shm.hdr.aSalt \in Nat
  BY Fields DEF PosInv, TypeInv
<1>2. Considerate(c) /\ mx' = mx /\ nb' = nb /\ (Live' <=> Live)
  BY DEF Considerate, mx, nb, Live
<1>3. \A d \in Conns : conn'[d].hdr.aSalt <= nSalt'
  <2> TAKE d \in Conns
  <2>1. conn[d].hdr.aSalt \in Nat /\ conn[d].hdr.aSalt <= nSalt
    BY <1>1, ConnFields DEF ShapeInv
  <2> QED
    BY <1>1, <2>1 DEF Sets
<1>4. nb <= mx \/ ~Live \/ \E d \in Conns : conn'[d].pc \in {"restartInfo", "ckInfo"}
  BY <1>1 DEF ShapeInv, Sets
<1>5. ShapeInv'
  BY <1>1, <1>2, <1>3, <1>4 DEF ShapeInv
<1> QED
  BY <1>2, <1>5, PosStep

LEMMA WriteHeaderPos ==
    ASSUME TypeInv, LockInv, PosInv, NEW c \in Conns, NEW salt \in 1..(nSalt + 1),
           WriteHeader(c, salt)
    PROVE  PosInv'
<1>1. /\ conn[c].pc = "header" /\ UNCHANGED <<shm, writeLock, ckptLock, nTx>>
      /\ conn[c].hdr.mxFrame = 0 /\ nSalt' \in {nSalt, nSalt + 1} /\ salt <= nSalt'
      /\ salt \in {conn[c].hdr.aSalt, nSalt + 1} \ {0}
      /\ wal'.hdr = salt /\ wal'.frames = wal.frames
      /\ conn'[c].pc = "frames" /\ conn'[c].hdr.mxFrame = 0 /\ conn'[c].hdr.aSalt = salt
      /\ KeepsRead(c) /\ conn'[c].iFrame = 0
      /\ conn'[c].iFirst = conn[c].iFirst /\ conn'[c].iReCksum = conn[c].iReCksum
      /\ \A d \in Conns \ {c} : conn'[d] = conn[d]
  BY WriteHeaderEffect DEF Sets
<1>2. OwnLocks(c) /\ Writing(c) /\ Writing(c)' /\ writeLock = c
  BY <1>1, OwnLocksIntro, HeldLocks, PcParts DEF Writing
<1>3. ReaderInv(c) /\ WriterInv(c) /\ ShapeInv /\ mx \in Nat /\ nb \in Nat /\ nSalt \in Nat
  BY Fields DEF PosInv, mx, nb, TypeInv
<1>4. mx' = mx /\ nb' = nb /\ mx = 0 /\ conn[c].readLock > 0
  BY <1>1, <1>2, <1>3, PcParts DEF mx, nb, WriterInv, LockInv, LockInvOf
<1>5. ReaderInv(c)' /\ Pins(c)
  BY <1>1, <1>2, <1>3, <1>4 DEF ReaderInv, Pins, Pinned, KeepsRead, FramePcs
<1>6. conn'[c].hdr.aSalt # shm.hdr.aSalt =>
         \A d \in Conns \ {c} : conn'[d].hdr.aSalt # conn'[c].hdr.aSalt
  <2>1. CASE salt = conn[c].hdr.aSalt
    BY <1>1, <1>2, <1>3, <2>1 DEF WriterInv
  <2>2. CASE salt = nSalt + 1
    <3>1. \A d \in Conns \ {c} : conn[d].hdr.aSalt <= nSalt /\ conn[d].hdr.aSalt \in Nat
      BY <1>3, ConnFields DEF ShapeInv
    <3> QED
      BY <1>1, <1>3, <2>2, <3>1
  <2> QED
    BY <1>1, <2>1, <2>2
<1>7. WriterInv(c)'
  <2>1. conn[c].iReCksum = 0 /\ conn[c].iFirst = 0
    BY <1>1, <1>2, <1>3, <1>4, ConnFields DEF WriterInv
  <2>2. 0 <= Len(wal'.frames)
    BY FieldsNext
  <2> QED
    BY <1>1, <1>2, <1>4, <1>6, <2>1, <2>2 DEF WriterInv, KeepsRead
<1>8. CkptInv(c)'
  BY <1>1 DEF CkptInv, BackfillPcs, RestartPcs
<1>9. Salted(c) /\ conn'[c].hdr.aSalt <= nSalt' /\ nSalt <= nSalt'
  BY <1>1, <1>3 DEF Salted
<1>10. /\ mx <= Len(wal'.frames) /\ nb <= Len(wal'.frames) /\ wal'.hdr <= nSalt'
       /\ (wal'.hdr = 0 => wal'.frames = <<>>)
       /\ \A n \in 1..Len(wal'.frames) : wal'.frames[n].aSalt <= nSalt'
  <2>1. \A n \in 1..Len(wal.frames) : wal.frames[n].aSalt \in Nat
    BY Fields, FrameFields
  <2> QED
    BY <1>1, <1>3, <2>1 DEF ShapeInv
<1> QED
  BY <1>1, <1>2, <1>5, <1>7, <1>8, <1>9, <1>10, WriteHeaderEffect, LogStep

LEMMA CkptHeaderPos ==
    ASSUME TypeInv, LockInv, PosInv, NEW c \in Conns, CkptHeader(c)
    PROVE  PosInv'
<1>1. /\ conn[c].pc = "ckHeader" /\ UNCHANGED <<shm, writeLock, ckptLock, nTx, nSalt>>
      /\ wal'.hdr = conn[c].hdr.aSalt /\ wal'.frames = wal.frames
      /\ conn'[c].pc = "ckPublish" /\ conn'[c].hdr.mxFrame = conn[c].hdr.mxFrame
      /\ conn'[c].hdr.aSalt = conn[c].hdr.aSalt /\ KeepsRead(c)
  BY CkptHeaderEffect
<1>2. OwnLocks(c) /\ writeLock = c /\ ckptLock = c /\ conn[c].readLock = -1
  BY <1>1, OwnLocksIntro, HeldLocks, PcParts
<1>3. ReaderInv(c) /\ CkptInv(c) /\ ShapeInv /\ conn[c].pc \in RestartPcs /\ nSalt \in Nat
      /\ mx' = mx /\ nb' = nb /\ conn[c].hdr.aSalt \in Nat
  BY <1>1, PcParts, ConnFields DEF PosInv, mx, nb, TypeInv
<1>4. ReaderInv(c)' /\ Pins(c) /\ Salted(c)
  BY <1>1, <1>2, <1>3 DEF ReaderInv, Pins, Pinned, KeepsRead, FramePcs, Salted, Writing
<1>5. WriterInv(c)' /\ CkptInv(c)'
  BY <1>1, <1>2, <1>3 DEF WriterInv, Writing, CkptInv, BackfillPcs, RestartPcs
<1>6. /\ mx <= Len(wal'.frames) /\ nb <= Len(wal'.frames) /\ wal'.hdr <= nSalt'
      /\ (wal'.hdr = 0 => wal'.frames = <<>>)
      /\ \A n \in 1..Len(wal'.frames) : wal'.frames[n].aSalt <= nSalt'
      /\ nSalt <= nSalt' /\ conn'[c].hdr.aSalt <= nSalt'
  BY <1>1, <1>3 DEF ShapeInv, CkptInv
<1> QED
  BY <1>1, <1>2, <1>4, <1>5, <1>6, CkptHeaderEffect, LogStep

LEMMA CkptTruncatePos ==
    ASSUME TypeInv, LockInv, PosInv, NEW c \in Conns, CkptTruncate(c)
    PROVE  PosInv'
<1>1. /\ conn[c].pc = "ckTruncate" /\ UNCHANGED <<shm, writeLock, ckptLock, nTx, nSalt>>
      /\ wal'.hdr = 0 /\ wal'.frames = <<>>
      /\ conn'[c].pc = "ckEnd" /\ conn'[c].hdr = conn[c].hdr /\ KeepsRead(c)
  BY CkptTruncateEffect
<1>2. OwnLocks(c) /\ writeLock = c /\ ckptLock = c /\ conn[c].readLock = -1 /\ Live
  BY <1>1, OwnLocksIntro, HeldLocks, PcParts
<1>3. ReaderInv(c) /\ CkptInv(c) /\ ShapeInv /\ conn[c].pc \in RestartPcs /\ nSalt \in Nat
      /\ mx' = mx /\ nb' = nb /\ nb \in Nat
  BY <1>1, PcParts, Fields DEF PosInv, mx, nb, TypeInv
<1>4. ReaderInv(c)' /\ Pins(c) /\ Salted(c)
  BY <1>1, <1>2, <1>3 DEF ReaderInv, Pins, Pinned, KeepsRead, FramePcs, Salted, Writing
<1>5. WriterInv(c)' /\ CkptInv(c)'
  BY <1>1, <1>2, <1>3 DEF WriterInv, Writing, CkptInv, BackfillPcs, RestartPcs
<1>6. mx = 0 /\ nb = 0
  <2>1. ~\E d \in Conns : conn[d].pc \in {"restartInfo", "ckInfo"}
    BY <1>1, <1>2, HeldLocks, PcParts
  <2> QED
    BY <1>2, <1>3, <2>1 DEF ShapeInv, CkptInv
<1>7. /\ mx <= Len(wal'.frames) /\ nb <= Len(wal'.frames) /\ wal'.hdr <= nSalt'
      /\ \A n \in 1..Len(wal'.frames) : wal'.frames[n].aSalt <= nSalt'
      /\ nSalt <= nSalt' /\ conn'[c].hdr.aSalt <= nSalt'
      /\ \A i \in 1..mx : wal'.frames[i].page = wal.frames[i].page
  BY <1>1, <1>3, <1>6 DEF ShapeInv
<1> QED
  BY <1>1, <1>2, <1>4, <1>5, <1>7, CkptTruncateEffect, LogStep

LEMMA CkptPublishPos ==
    ASSUME TypeInv, LockInv, PosInv, NEW c \in Conns, CkptPublish(c)
    PROVE  PosInv'
<1>1. /\ conn[c].pc = "ckPublish" /\ UNCHANGED <<wal, writeLock, ckptLock, nTx, nSalt>>
      /\ conn'[c].pc = "ckEnd" /\ conn'[c].hdr = conn[c].hdr /\ KeepsRead(c)
      /\ shm'.hdr = conn[c].hdr /\ KeepsShm
  BY CkptPublishEffect
<1>2. OwnLocks(c) /\ writeLock = c /\ ckptLock = c /\ conn[c].readLock = -1 /\ Live
      /\ conn[c].hdr.isInit
  BY <1>1, OwnLocksIntro, HeldLocks, PcParts
<1>3. ReaderInv(c) /\ CkptInv(c) /\ ShapeInv /\ conn[c].pc \in RestartPcs /\ nSalt \in Nat
      /\ nb' = nb
  BY <1>1, PcParts DEF PosInv, nb, TypeInv, KeepsShm
<1>4. mx' = 0 /\ mx = 0 /\ shm'.hdr.aSalt = shm.hdr.aSalt /\ conn[c].hdr.mxFrame = 0
  BY <1>1, <1>3 DEF CkptInv, mx
<1>5. Considerate(c)
  BY <1>1, <1>3, <1>4 DEF Considerate, KeepsShm, mx
<1>6. ReaderInv(c)' /\ Pins(c) /\ Salted(c)
  BY <1>1, <1>2, <1>3, <1>4 DEF ReaderInv, Pins, Pinned, KeepsRead, FramePcs, Salted, Writing
<1>7. WriterInv(c)' /\ CkptInv(c)'
  BY <1>1, <1>2, <1>3 DEF WriterInv, Writing, CkptInv, BackfillPcs, RestartPcs
<1>8. shm'.open = shm.open /\ shm'.hdr.isInit = shm.hdr.isInit
      /\ conn'[c].hdr.aSalt <= nSalt' /\ nSalt <= nSalt'
  BY <1>1, <1>2, <1>3 DEF KeepsShm, Live, ShapeInv
<1>9. ShapeInv'
  BY <1>1, <1>5, <1>8, CkptPublishEffect, ShapeStep
<1> QED
  BY <1>1, <1>2, <1>5, <1>6, <1>7, <1>9, CkptPublishEffect, PosStep

\* The wal-index of an empty log is reset.
LEMMA InfoPos ==
    ASSUME TypeInv, TypeInv', LockInv, PosInv, NEW c \in Conns, Sets(c, conn'[c]),
           conn[c].pc \in {"restartInfo", "ckInfo"}, mx = 0, writeLock = c,
           UNCHANGED <<wal, writeLock, ckptLock, nTx, nSalt>>,
           shm'.hdr = shm.hdr, shm'.open = shm.open, nb' = 0,
           conn'[c].hdr = conn[c].hdr, ReaderInv(c)', WriterInv(c)', CkptInv(c)'
    PROVE  PosInv'
<1>1. mx' = 0 /\ nb \in Nat /\ ShapeInv /\ (Live' <=> Live)
  BY Fields DEF mx, nb, PosInv, Live
<1>2. \A d \in Conns : conn[d].readLock <= 0
  <2>1. LockedAll
    BY LockedAllPcs DEF ExclusivePcs
  <2> QED
    BY <2>1 DEF LockInv
<1>3. ASSUME NEW d \in Conns \ {c}
      PROVE  ReaderInv(d)' /\ WriterInv(d)' /\ CkptInv(d)'
  <2>1. conn'[d] = conn[d] /\ writeLock # d /\ ~(conn[d].readLock > 0)
        /\ ReaderInv(d) /\ CkptInv(d) /\ conn[d].hdr.mxFrame \in Nat
    BY <1>2, ConnFields DEF Sets, PosInv
  <2>2. ReaderInv(d)'
    BY <1>1, <2>1 DEF ReaderInv, Pinned, Writing
  <2>3. WriterInv(d)'
    BY <2>1 DEF WriterInv, Writing
  <2>4. conn[d].pc \notin BackfillPcs \cup RestartPcs
    <3>1. conn[d].pc \notin BackfillPcs
      BY <1>1, <2>1 DEF CkptInv
    <3> QED
      BY <2>1, <3>1, HeldLocks
  <2>5. CkptInv(d)'
    BY <2>1, <2>4 DEF CkptInv, BackfillPcs
  <2> QED
    BY <2>2, <2>3, <2>5
<1>4. \A d \in Conns : conn'[d].hdr = conn[d].hdr
  BY DEF Sets
<1>5. ShapeInv'
  <2>1. Len(wal.frames) \in Nat
    BY Fields
  <2> QED
    BY <1>1, <1>4, <2>1 DEF ShapeInv
<1> QED
  BY <1>3, <1>5 DEF PosInv

LEMMA RestartInfoPos ==
    ASSUME TypeInv, LockInv, PosInv, NEW c \in Conns, RestartInfo(c)
    PROVE  PosInv'
<1>1. /\ conn[c].pc = "restartInfo" /\ UNCHANGED <<wal, writeLock, ckptLock, nTx, nSalt>>
      /\ shm'.hdr = shm.hdr /\ shm'.open = shm.open /\ nb' = 0 /\ mx' = mx
      /\ conn'[c].pc = "mark" /\ conn'[c].readLock = -1 /\ conn'[c].hdr = conn[c].hdr
      /\ KeepsWrite(c) /\ \A d \in Conns \ {c} : conn'[d] = conn[d]
  BY RestartInfoEffect DEF nb, mx, Sets
<1>2. writeLock = c /\ Writing(c) /\ Writing(c)' /\ WriterInv(c) /\ conn[c].readLock = 0
  BY <1>1, HeldLocks, PcParts DEF Writing, PosInv, LockInv, LockInvOf
<1>3. mx = 0 /\ conn[c].hdr = shm.hdr
  BY <1>1, <1>2 DEF WriterInv
<1>4. ReaderInv(c)' /\ CkptInv(c)'
  BY <1>1, <1>2 DEF ReaderInv, Pinned, FramePcs, CkptInv, BackfillPcs, RestartPcs
<1>5. WriterInv(c)'
  BY <1>1, <1>2, <1>3 DEF WriterInv, KeepsWrite
<1> QED
  BY <1>1, <1>2, <1>3, <1>4, <1>5, RestartInfoEffect, InfoPos

LEMMA CkptInfoPos ==
    ASSUME TypeInv, LockInv, PosInv, NEW c \in Conns, CkptInfo(c)
    PROVE  PosInv'
<1>1. /\ conn[c].pc = "ckInfo" /\ UNCHANGED <<wal, writeLock, ckptLock, nTx, nSalt>>
      /\ shm'.hdr = shm.hdr /\ shm'.open = shm.open /\ nb' = 0 /\ mx' = mx
      /\ conn'[c].pc \in {"ckTruncate", "ckHeader"} /\ conn'[c].hdr = conn[c].hdr
      /\ KeepsRead(c)
  BY CkptInfoEffect DEF nb, mx
<1>2. writeLock = c /\ ckptLock = c /\ conn[c].readLock = -1 /\ CkptInv(c) /\ ReaderInv(c)
      /\ conn[c].pc \in RestartPcs
  BY <1>1, HeldLocks, PcParts DEF PosInv
<1>3. mx = 0 /\ conn[c].hdr.aSalt = shm.hdr.aSalt /\ conn[c].hdr.mxFrame = 0
      /\ 0 < conn[c].hdr.aSalt
  BY <1>2 DEF CkptInv
<1>4. ReaderInv(c)' /\ WriterInv(c)'
  BY <1>1, <1>2, <1>3 DEF ReaderInv, Pinned, FramePcs, WriterInv, Writing, KeepsRead
<1>5. CkptInv(c)'
  BY <1>1, <1>2, <1>3 DEF CkptInv, BackfillPcs, RestartPcs
<1> QED
  BY <1>1, <1>2, <1>3, <1>4, <1>5, CkptInfoEffect, InfoPos

\* A log that nobody reads begins anew, under the write lock and with a new salt.
LEMMA RestartsPos ==
    ASSUME TypeInv, TypeInv', LockInv, PosInv, NEW c \in Conns, Sets(c, conn'[c]),
           Restarts(c), OwnLocks(c), writeLock' = c, wal' = wal,
           conn'[c].pc \in {"restartInfo", "ckInfo"},
           \A d \in Conns \ {c} : conn[d].pc \notin BackfillPcs \cup RestartPcs,
           ReaderInv(c)', WriterInv(c)', CkptInv(c)'
    PROVE  PosInv'
<1>1. /\ mx' = 0 /\ nb' = nb /\ nSalt' = nSalt + 1 /\ nSalt \in Nat /\ ShapeInv
      /\ conn'[c].hdr.aSalt = nSalt + 1 /\ shm'.hdr.aSalt = nSalt + 1
  BY DEF Restarts, KeepsShm, mx, nb, TypeInv, PosInv
<1>2. ASSUME NEW d \in Conns \ {c}
      PROVE  ReaderInv(d)' /\ WriterInv(d)' /\ CkptInv(d)'
  <2>1. conn'[d] = conn[d] /\ writeLock' # d /\ ReaderInv(d)
        /\ conn[d].hdr.aSalt # nSalt + 1 /\ ~(conn[d].readLock > 0)
    <3>1. conn[d].hdr.aSalt <= nSalt /\ conn[d].hdr.aSalt \in Nat
      BY <1>1, ConnFields DEF ShapeInv
    <3>2. conn[d].readLock <= 0 /\ conn[d].readLock \in Int
      BY NoWalReaderMeans, ConnFields DEF Restarts
    <3> QED
      BY <1>1, <3>1, <3>2 DEF Sets, PosInv
  <2>2. ReaderInv(d)'
    BY <1>1, <2>1 DEF ReaderInv, Pinned
  <2>3. WriterInv(d)'
    BY <2>1 DEF WriterInv, Writing
  <2>4. CkptInv(d)'
    BY <2>1 DEF CkptInv, BackfillPcs
  <2> QED
    BY <2>2, <2>3, <2>4
<1>3. ShapeInv'
  <2>1. \A d \in Conns : conn'[d].hdr.aSalt <= nSalt'
    <3> TAKE d \in Conns
    <3>1. conn[d].hdr.aSalt <= nSalt /\ conn[d].hdr.aSalt \in Nat
      BY <1>1, ConnFields DEF ShapeInv
    <3> QED
      BY <1>1, <3>1 DEF Sets
  <2>2. \A n \in 1..Len(wal.frames) : wal.frames[n].aSalt <= nSalt + 1
    BY <1>1, Fields, FrameFields DEF ShapeInv
  <2>3. Len(wal.frames) \in Nat /\ wal.hdr \in Nat
    BY Fields
  <2> QED
    BY <1>1, <2>1, <2>2, <2>3 DEF ShapeInv
<1> QED
  BY <1>2, <1>3 DEF PosInv

LEMMA RestartLogPos ==
    ASSUME TypeInv, LockInv, PosInv, NEW c \in Conns, RestartLog(c)
    PROVE  PosInv'
<1>1. /\ conn[c].pc = "restartLog" /\ UNCHANGED <<wal, writeLock, ckptLock, nTx>>
      /\ conn'[c].iFirst = conn[c].iFirst /\ conn'[c].iReCksum = conn[c].iReCksum
      /\ \A d \in Conns \ {c} : conn'[d] = conn[d]
  BY RestartLogEffect DEF Sets
<1>2. /\ OwnLocks(c) /\ writeLock = c /\ Writing(c) /\ Writing(c)' /\ WriterInv(c)
      /\ conn[c].readLock = 0 /\ Live
  BY <1>1, OwnLocksIntro, HeldLocks, PcParts DEF Writing, PosInv, LockInv, LockInvOf
<1>3. conn[c].hdr = shm.hdr /\ nb = mx /\ conn[c].iFirst = 0 /\ conn[c].iReCksum = 0
      /\ mx \in Nat
  <2>1. conn[c].hdr = shm.hdr /\ nb = mx /\ mx \in Nat
    BY <1>1, <1>2, Fields DEF WriterInv, mx
  <2>2. conn[c].hdr.mxFrame = mx
    BY <2>1 DEF mx
  <2> QED
    BY <1>1, <1>2, <2>1, <2>2, ConnFields DEF WriterInv
<1>4. CASE /\ conn'[c].pc = "restartInfo" /\ Restarts(c)
  <2>1. \A d \in Conns \ {c} : conn[d].pc \notin BackfillPcs \cup RestartPcs
    <3> TAKE d \in Conns \ {c}
    <3>1. conn[d].pc \notin BackfillPcs
      BY <1>3, ConnFields DEF PosInv, CkptInv
    <3> QED
      BY <1>2, <3>1, HeldLocks
  <2>2. conn'[c].hdr = shm'.hdr /\ mx' = 0 /\ conn'[c].hdr.mxFrame = 0 /\ conn'[c].readLock = 0
    BY <1>2, <1>4 DEF Restarts, mx
  <2>3. ReaderInv(c)' /\ CkptInv(c)'
    BY <1>2, <1>4, <2>2 DEF ReaderInv, Pinned, FramePcs, CkptInv, BackfillPcs, RestartPcs
  <2>4. WriterInv(c)'
    <3>1. 0 <= Len(wal'.frames)
      BY FieldsNext
    <3> QED
      BY <1>1, <1>2, <1>3, <1>4, <2>2, <3>1 DEF WriterInv
  <2> QED
    BY <1>1, <1>2, <1>4, <2>1, <2>3, <2>4, RestartLogEffect, RestartsPos
<1>5. CASE /\ conn'[c].pc = "mark" /\ conn'[c].readLock = -1
           /\ conn'[c].hdr = conn[c].hdr /\ shm' = shm /\ nSalt' = nSalt
  <2>1. ReaderInv(c)' /\ Pins(c) /\ CkptInv(c)'
    BY <1>2, <1>5 DEF ReaderInv, Pins, Pinned, FramePcs, CkptInv, BackfillPcs, RestartPcs
  <2>2. WriterInv(c)'
    BY <1>1, <1>2, <1>3, <1>5 DEF WriterInv, mx, nb
  <2> QED
    BY <1>1, <1>2, <1>5, <2>1, <2>2, RestartLogEffect, QuietStep
<1> QED
  BY <1>4, <1>5, RestartLogEffect

LEMMA CkptRestartPos ==
    ASSUME TypeInv, LockInv, PosInv, NEW c \in Conns, CkptRestart(c)
    PROVE  PosInv'
<1>1. /\ conn[c].pc = "ckDone" /\ UNCHANGED <<wal, ckptLock, nTx>>
      /\ writeLock' = writeLock \/ (writeLock = None /\ writeLock' = c)
      /\ \A d \in Conns \ {c} : conn'[d] = conn[d]
  BY CkptRestartEffect DEF Sets
<1>2. OwnLocks(c) /\ ckptLock = c /\ conn[c].readLock = -1 /\ ReaderInv(c)
  BY <1>1, OwnLocksIntro, HeldLocks, PcParts DEF PosInv
<1>3. CASE /\ conn'[c].pc = "ckEnd" /\ conn'[c].hdr = conn[c].hdr
           /\ conn'[c].readLock = conn[c].readLock /\ shm' = shm /\ nSalt' = nSalt
  <2>1. ReaderInv(c)' /\ Pins(c)
    BY <1>1, <1>2, <1>3 DEF ReaderInv, Pins, Pinned, FramePcs, Writing, mx
  <2>2. WriterInv(c)' /\ CkptInv(c)'
    BY <1>1, <1>2, <1>3 DEF WriterInv, Writing, CkptInv, BackfillPcs, RestartPcs
  <2> QED
    BY <1>1, <1>2, <1>3, <2>1, <2>2, CkptRestartEffect, QuietStep
<1>4. CASE /\ CkptCanRestart(c) /\ Restarts(c) /\ conn'[c].pc = "ckInfo"
           /\ conn[c].eMode = "PASSIVE" => writeLock' = c
  <2>1. writeLock' = c
    <3>1. conn[c].eMode # "PASSIVE" => writeLock = c
      BY <1>1, PcParts DEF LockInv, LockInvOf, CkptPcs
    <3> QED
      BY <1>1, <1>4, <3>1, WalConstants
  <2>2. \A d \in Conns \ {c} : conn[d].pc \notin BackfillPcs \cup RestartPcs
    BY <1>2, HeldLocks, PcParts
  <2>3. conn'[c].hdr = shm'.hdr /\ mx' = 0 /\ conn'[c].hdr.mxFrame = 0
        /\ conn'[c].readLock = -1 /\ 0 < conn'[c].hdr.aSalt
    BY <1>2, <1>4 DEF Restarts, mx, TypeInv
  <2>4. ReaderInv(c)' /\ WriterInv(c)'
    BY <1>1, <1>2, <1>4, <2>3 DEF ReaderInv, Pinned, FramePcs, WriterInv, Writing
  <2>5. CkptInv(c)'
    BY <1>4, <2>3 DEF CkptInv, BackfillPcs, RestartPcs
  <2> QED
    BY <1>1, <1>2, <1>4, <2>1, <2>2, <2>4, <2>5, CkptRestartEffect, RestartsPos
<1> QED
  BY <1>3, <1>4, CkptRestartEffect

LEMMA WriteFramePos ==
    ASSUME TypeInv, LockInv, PosInv, NEW c \in Conns, WriteFrame(c)
    PROVE  PosInv'
<1>1. /\ conn[c].pc = "frames" /\ UNCHANGED <<shm, writeLock, ckptLock, nTx, nSalt>>
      /\ KeepsLoop(c) /\ \A d \in Conns \ {c} : conn'[d] = conn[d]
  BY WriteFrameEffect DEF Sets
<1>2. /\ OwnLocks(c) /\ writeLock = c /\ Writing(c) /\ Writing(c)' /\ WriterInv(c)
      /\ ReaderInv(c) /\ conn[c].readLock > 0 /\ ShapeInv
  BY <1>1, OwnLocksIntro, HeldLocks, PcParts DEF Writing, PosInv, LockInv, LockInvOf
<1>3. /\ mx \in Nat /\ nb \in Nat /\ nSalt \in Nat /\ mx' = mx /\ nb' = nb
      /\ conn[c].hdr.mxFrame \in Nat /\ conn[c].iFrame \in Nat /\ conn[c].iReCksum \in Nat
      /\ Len(wal.frames) \in Nat
  BY <1>1, Fields, ConnFields DEF mx, nb, TypeInv
<1>4. /\ mx <= conn[c].hdr.mxFrame /\ conn[c].hdr.mxFrame <= conn[c].iFrame
      /\ conn[c].iFrame <= Len(wal.frames) /\ wal.hdr # 0
      /\ conn[c].iFirst = IF mx < conn[c].hdr.mxFrame THEN mx + 1 ELSE 0
      /\ (conn[c].iReCksum > 0 => mx < conn[c].iReCksum /\ conn[c].iReCksum <= conn[c].iFrame)
  BY <1>1, <1>2 DEF WriterInv
<1>5. PICK p \in conn[c].todo :
         AppendsAt(c, p, conn[c].iFrame + 1) \/ \E i \in Nat : OverwritesAt(c, p, i)
  BY WriteFrameEffect
<1>6. ASSUME NEW n \in Nat, NEW f \in Frames, PutsFrame(n, f), mx < n, f.aSalt <= nSalt,
             n <= Len(wal.frames) + 1,
             conn'[c].pc \in {"frames", "recksum", "publish"},
             conn[c].hdr.mxFrame <= conn'[c].iFrame, conn'[c].iFrame <= Len(wal'.frames),
             conn'[c].pc \in {"recksum", "publish"} => mx < conn'[c].iFrame,
             conn'[c].pc = "recksum" => 0 < conn'[c].iReCksum,
             conn'[c].pc = "publish" /\ conn[c].isCommit => conn'[c].iReCksum = 0,
             conn'[c].iReCksum > 0 => mx < conn'[c].iReCksum /\ conn'[c].iReCksum <= conn'[c].iFrame
      PROVE  PosInv'
  <2>1. wal'.hdr = wal.hdr /\ Len(wal.frames) <= Len(wal'.frames) /\ Len(wal'.frames) \in Nat
    BY <1>3, <1>6 DEF PutsFrame
  <2>2. \A j \in 1..mx : wal'.frames[j].page = wal.frames[j].page
    BY <1>3, <1>4, <1>6 DEF PutsFrame
  <2>3. ASSUME NEW j \in 1..Len(wal'.frames)
        PROVE  wal'.frames[j].aSalt <= nSalt'
    <3>1. CASE j = n
      BY <1>1, <1>6, <3>1 DEF PutsFrame
    <3>2. CASE j # n
      <4>1. j \in 1..Len(wal.frames) \/ j \notin 1..Len(wal.frames)
        OBVIOUS
      <4>2. CASE j \in 1..Len(wal.frames)
        BY <1>1, <1>2, <1>6, <3>2, <4>2 DEF PutsFrame, ShapeInv
      <4>3. CASE j \notin 1..Len(wal.frames)
        BY <1>3, <1>6, <3>2, <4>3 DEF PutsFrame
      <4> QED
        BY <4>2, <4>3
    <3> QED
      BY <3>1, <3>2
  <2>4. ReaderInv(c)' /\ Pins(c)
    BY <1>1, <1>2, <1>3, <1>6 DEF ReaderInv, Pins, Pinned, FramePcs, KeepsLoop, KeepsRead
  <2>5. WriterInv(c)'
    BY <1>1, <1>2, <1>3, <1>4, <1>6, <2>1 DEF WriterInv, KeepsLoop, KeepsRead
  <2>6. CkptInv(c)'
    BY <1>6 DEF CkptInv, BackfillPcs, RestartPcs
  <2>7. Salted(c) /\ conn'[c].hdr.aSalt <= nSalt' /\ nSalt <= nSalt'
    BY <1>1, <1>2, <1>3 DEF Salted, KeepsLoop, ShapeInv
  <2>8. mx <= Len(wal'.frames) /\ nb <= Len(wal'.frames) /\ wal'.hdr <= nSalt'
        /\ (wal'.hdr = 0 => wal'.frames = <<>>)
    BY <1>1, <1>2, <1>3, <1>4, <2>1 DEF ShapeInv
  <2> QED
    BY <1>1, <1>2, <2>2, <2>3, <2>4, <2>5, <2>6, <2>7, <2>8, WriteFrameEffect, LogStep
<1>7. CASE AppendsAt(c, p, conn[c].iFrame + 1)
  <2> DEFINE n == conn[c].iFrame + 1
             f == NewFrame(c, p)
  <2>1. n \in Nat /\ f \in Frames /\ PutsFrame(n, f) /\ mx < n /\ conn'[c].iFrame = n
        /\ conn'[c].iReCksum = conn[c].iReCksum /\ n <= Len(wal.frames) + 1
        /\ conn'[c].pc = (IF CommitsNow(c, p) /\ conn[c].iReCksum > 0 THEN "recksum"
                          ELSE NextPc(c, p))
    BY <1>3, <1>4, <1>7 DEF AppendsAt
  <2>2. f.aSalt <= nSalt
    BY <1>2, <1>3 DEF NewFrame, ShapeInv
  <2>3. n <= Len(wal'.frames)
    BY <1>3, <2>1 DEF PutsFrame
  <2>4. /\ conn'[c].pc \in {"frames", "recksum", "publish"}
        /\ conn'[c].pc = "recksum" => 0 < conn'[c].iReCksum
        /\ conn'[c].pc = "publish" /\ conn[c].isCommit => conn'[c].iReCksum = 0
    BY <1>3, <2>1 DEF NextPc, CommitsNow
  <2> HIDE DEF n, f
  <2> QED
    BY <1>3, <1>4, <1>6, <2>1, <2>2, <2>3, <2>4 DEF n
<1>8. ASSUME NEW i \in Nat, OverwritesAt(c, p, i)
      PROVE  PosInv'
  <2> DEFINE f == [wal.frames[i] EXCEPT !.val = Content(conn[c])]
  <2>1. i \in 1..Len(wal.frames) /\ PutsFrame(i, f) /\ mx < i /\ i <= conn[c].hdr.mxFrame
        /\ i <= Len(wal.frames) + 1 /\ mx < conn[c].hdr.mxFrame /\ conn'[c].iFrame = conn[c].iFrame
        /\ conn'[c].iReCksum = (IF conn[c].iReCksum = 0 \/ i < conn[c].iReCksum THEN i
                                ELSE conn[c].iReCksum)
        /\ conn'[c].pc = NextPc(c, p) /\ ~CommitsNow(c, p)
    BY <1>3, <1>4, <1>8 DEF OverwritesAt
  <2>2. f \in Frames /\ f.aSalt <= nSalt
    <3>1. wal.frames[i] \in Frames /\ wal.frames[i].aSalt <= nSalt
      BY <1>2, <2>1, Fields DEF ShapeInv
    <3>2. wal'.frames[i] \in Frames
      <4>1. i \in 1..Len(wal'.frames)
        BY <1>3, <2>1 DEF PutsFrame
      <4> QED
        BY <4>1, WriteFrameEffect, FieldsNext
    <3> QED
      BY <2>1, <3>1, <3>2 DEF Frames, PutsFrame
  <2>3. conn[c].iFrame <= Len(wal'.frames)
    BY <1>3, <1>4, <2>1 DEF PutsFrame
  <2>4. /\ conn'[c].pc \in {"frames", "publish"}
        /\ conn'[c].pc = "publish" => ~conn[c].isCommit
    BY <2>1 DEF NextPc, CommitsNow
  <2> HIDE DEF f
  <2> QED
    BY <1>3, <1>4, <1>6, <2>1, <2>2, <2>3, <2>4
<1> QED
  BY <1>5, <1>7, <1>8

LEMMA RewriteChecksumPos ==
    ASSUME TypeInv, LockInv, PosInv, NEW c \in Conns, RewriteChecksum(c)
    PROVE  PosInv'
<1> DEFINE i == conn[c].iReCksum
           f == RightFrame(c)
<1>1. /\ conn[c].pc = "recksum" /\ UNCHANGED <<shm, writeLock, ckptLock, nTx, nSalt>>
      /\ KeepsLoop(c) /\ \A d \in Conns \ {c} : conn'[d] = conn[d]
      /\ i \in 1..Len(wal.frames) /\ f \in Frames /\ PutsFrame(i, f)
      /\ conn'[c].iFrame = conn[c].iFrame
      /\ \/ i = conn[c].iFrame /\ conn'[c].iReCksum = 0 /\ conn'[c].pc = "publish"
         \/ i # conn[c].iFrame /\ conn'[c].iReCksum = i + 1 /\ conn'[c].pc = "recksum"
  BY RewriteChecksumEffect DEF Sets
<1>2. /\ OwnLocks(c) /\ writeLock = c /\ Writing(c) /\ Writing(c)' /\ WriterInv(c)
      /\ ReaderInv(c) /\ conn[c].readLock > 0 /\ ShapeInv
  BY <1>1, OwnLocksIntro, HeldLocks, PcParts DEF Writing, PosInv, LockInv, LockInvOf
<1>3. /\ mx \in Nat /\ nb \in Nat /\ nSalt \in Nat /\ mx' = mx /\ nb' = nb
      /\ conn[c].hdr.mxFrame \in Nat /\ conn[c].iFrame \in Nat /\ i \in Nat
      /\ Len(wal.frames) \in Nat
  BY <1>1, Fields, ConnFields DEF mx, nb, TypeInv
<1>4. /\ mx <= conn[c].hdr.mxFrame /\ conn[c].hdr.mxFrame <= conn[c].iFrame
      /\ conn[c].iFrame <= Len(wal.frames) /\ wal.hdr # 0 /\ mx < conn[c].iFrame
      /\ mx < i /\ i <= conn[c].iFrame
  BY <1>1, <1>2, <1>3 DEF WriterInv
<1>5. wal'.hdr = wal.hdr /\ Len(wal'.frames) = Len(wal.frames)
  BY <1>1, <1>3 DEF PutsFrame
<1>6. \A j \in 1..mx : wal'.frames[j].page = wal.frames[j].page
  BY <1>1, <1>2, <1>3, <1>4, SMTT(30) DEF PutsFrame, ShapeInv
<1>7. \A j \in 1..Len(wal'.frames) : wal'.frames[j].aSalt <= nSalt'
  <2>1. f.aSalt = conn[c].hdr.aSalt
    <3>1. wal.frames[i] \in Frames
      BY <1>1, Fields
    <3> QED
      BY <3>1 DEF RightFrame, Frames
  <2> HIDE DEF f
  <2> QED
    BY <1>1, <1>2, <1>5, <2>1 DEF PutsFrame, ShapeInv
<1>8. ReaderInv(c)' /\ Pins(c)
  BY <1>1, <1>2, <1>3 DEF ReaderInv, Pins, Pinned, FramePcs, KeepsLoop, KeepsRead
<1>9. WriterInv(c)'
  BY <1>1, <1>2, <1>3, <1>4, <1>5 DEF WriterInv, KeepsLoop, KeepsRead
<1>10. CkptInv(c)'
  BY <1>1 DEF CkptInv, BackfillPcs, RestartPcs
<1>11. /\ Salted(c) /\ conn'[c].hdr.aSalt <= nSalt' /\ nSalt <= nSalt'
       /\ mx <= Len(wal'.frames) /\ nb <= Len(wal'.frames) /\ wal'.hdr <= nSalt'
       /\ (wal'.hdr = 0 => wal'.frames = <<>>)
  BY <1>1, <1>2, <1>3, <1>4, <1>5 DEF Salted, KeepsLoop, ShapeInv
<1> QED
  BY <1>1, <1>2, <1>6, <1>7, <1>8, <1>9, <1>10, <1>11, RewriteChecksumEffect, LogStep

LEMMA PublishPos ==
    ASSUME TypeInv, LockInv, PosInv, NEW c \in Conns, Publish(c)
    PROVE  PosInv'
<1> DEFINE h == PublishedHdr(conn[c])
<1>1. /\ conn[c].pc = "publish" /\ UNCHANGED <<wal, ckptLock, nTx, nSalt>>
      /\ h.mxFrame = conn[c].iFrame /\ h.aSalt = conn[c].hdr.aSalt
      /\ h.isInit = conn[c].hdr.isInit
      /\ \A d \in Conns \ {c} : conn'[d] = conn[d]
  BY PublishEffect DEF Sets
<1>2. /\ writeLock = c /\ Writing(c) /\ WriterInv(c) /\ ReaderInv(c) /\ conn[c].readLock > 0
      /\ ShapeInv /\ conn[c].hdr.isInit /\ Live /\ conn[c].readLock \in Slots
      /\ ckptLock # c
  BY <1>1, HeldLocks, PcParts, HeldMark DEF Writing, PosInv, LockInv, LockInvOf
<1>3. /\ mx \in Nat /\ nb \in Nat /\ nSalt \in Nat /\ conn[c].hdr.mxFrame \in Nat
      /\ conn[c].iFrame \in Nat /\ conn[c].iReCksum \in Nat /\ Len(wal.frames) \in Nat
      /\ shm.aReadMark[conn[c].readLock] \in Nat
  BY <1>2, Fields, ConnFields DEF mx, nb, TypeInv
<1>4. /\ mx <= conn[c].hdr.mxFrame /\ conn[c].hdr.mxFrame <= conn[c].iFrame
      /\ conn[c].iFrame <= Len(wal.frames) /\ mx < conn[c].iFrame
      /\ (conn[c].iReCksum > 0 => mx < conn[c].iReCksum /\ conn[c].iReCksum <= conn[c].iFrame)
  BY <1>1, <1>2 DEF WriterInv
<1> HIDE DEF h
<1>5. CASE /\ conn'[c].pc = "write" /\ conn'[c].hdr = h
           /\ conn'[c].readLock = conn[c].readLock /\ conn'[c].minFrame = conn[c].minFrame
           /\ conn'[c].iReCksum = conn[c].iReCksum
           /\ UNCHANGED <<shm, writeLock>>
  <2>1. OwnLocks(c) /\ Writing(c)' /\ mx' = mx /\ nb' = nb
    BY <1>1, <1>2, <1>5, OwnLocksIntro, PublishEffect DEF Writing, mx, nb
  <2>2. ReaderInv(c)' /\ Pins(c)
    BY <1>1, <1>2, <1>3, <1>4, <1>5, <2>1 DEF ReaderInv, Pins, Pinned, FramePcs
  <2>3. WriterInv(c)' /\ CkptInv(c)'
    BY <1>1, <1>2, <1>3, <1>4, <1>5, <2>1 DEF WriterInv, CkptInv, BackfillPcs, RestartPcs
  <2> QED
    BY <1>1, <1>5, <2>1, <2>2, <2>3, PublishEffect, QuietStep
<1>6. CASE /\ Reads(c, h, conn[c].readLock) /\ shm'.hdr = h /\ KeepsShm /\ writeLock' = None
  <2>1. /\ conn'[c].pc = "read" /\ conn'[c].hdr = h /\ conn'[c].readLock = conn[c].readLock
        /\ conn'[c].minFrame = conn[c].minFrame /\ conn'[c].iReCksum = 0 /\ ~conn'[c].pChange
        /\ nb' = nb /\ mx' = conn[c].iFrame /\ shm'.aReadMark = shm.aReadMark
        /\ \A d \in Conns : ~Writing(d)'
    BY <1>1, <1>6, WalConstants DEF Reads, KeepsShm, nb, mx, Writing
  <2>2. ReaderInv(c)'
    BY <1>1, <1>2, <1>3, <1>4, <2>1 DEF ReaderInv, Pinned, FramePcs
  <2>3. WriterInv(c)' /\ CkptInv(c)'
    BY <2>1 DEF WriterInv, CkptInv, BackfillPcs, RestartPcs
  <2>4. ASSUME NEW d \in Conns \ {c}
        PROVE  ReaderInv(d)' /\ WriterInv(d)' /\ CkptInv(d)'
    <3>1. conn'[d] = conn[d] /\ ReaderInv(d) /\ CkptInv(d) /\ writeLock # d
          /\ conn[d].hdr.mxFrame \in Nat
          /\ (conn[d].readLock > 0 => shm.aReadMark[conn[d].readLock] \in Nat)
      BY <1>1, <1>2, ConnFields, HeldMark, Fields DEF PosInv
    <3>2. shm.hdr.aSalt # h.aSalt => mx = 0 /\ conn[d].hdr.aSalt # h.aSalt
      BY <1>1, <1>2 DEF WriterInv
    <3>3. ReaderInv(d)'
      <4>1. conn[d].hdr.aSalt = shm'.hdr.aSalt => conn[d].hdr.mxFrame <= mx
        BY <1>6, <3>1, <3>2 DEF ReaderInv, Writing
      <4> QED
        BY <1>3, <1>4, <2>1, <3>1, <4>1 DEF ReaderInv, Pinned
    <3>4. conn[d].pc \notin RestartPcs
      BY <3>1, HeldLocks
    <3>5. CkptInv(d)'
      <4>1. conn[d].pc \in BackfillPcs => shm'.hdr.aSalt = shm.hdr.aSalt
        BY <1>3, <1>6, <3>1, <3>2 DEF CkptInv
      <4>2. ToCopy(conn[d])' = ToCopy(conn[d])
        BY <1>1, <2>1, <3>1 DEF ToCopy, FindFrame, nb
      <4>3. ASSUME NEW e \in Conns, conn[d].pc \in BackfillPcs, Pinned(e)',
                   conn[d].pc = "ckMarks" => conn'[e].readLock < conn[d].i
            PROVE  conn[d].mxSafeFrame <= conn'[e].hdr.mxFrame
        <5>1. conn[d].mxSafeFrame \in Nat /\ conn[e].hdr.mxFrame \in Nat
          BY ConnFields
        <5>2. CASE e = c
          BY <1>1, <1>3, <1>4, <2>1, <3>1, <4>3, <5>1, <5>2 DEF CkptInv
        <5>3. CASE e # c
          BY <1>1, <3>1, <4>3, <5>3 DEF CkptInv, Pinned
        <5> QED
          BY <5>2, <5>3
      <4> QED
        <5>1. writeLock' # d
          BY <1>6, WalConstants
        <5>2. conn[d].pc \in BackfillPcs =>
                 /\ conn[d].hdr.aSalt = shm'.hdr.aSalt
                 /\ nb' < conn[d].hdr.mxFrame /\ conn[d].hdr.mxFrame <= mx'
                 /\ conn[d].mxSafeFrame <= conn[d].hdr.mxFrame
          BY <1>3, <1>4, <2>1, <3>1, <4>1 DEF CkptInv
        <5> QED
          BY <2>1, <3>1, <3>4, <4>2, <4>3, <5>1, <5>2 DEF CkptInv
    <3>6. WriterInv(d)'
      BY <2>1 DEF WriterInv
    <3> QED
      BY <3>3, <3>5, <3>6
  <2>5. ShapeInv'
    <3>1. \A d \in Conns : conn'[d].hdr.aSalt <= nSalt'
      BY <1>1, <1>2, <2>1 DEF ShapeInv
    <3>2. nb' <= mx' \/ ~Live' \/ \E d \in Conns : conn'[d].pc \in {"restartInfo", "ckInfo"}
      <4>1. ~\E d \in Conns : conn[d].pc \in {"restartInfo", "ckInfo"}
        BY <1>1, <1>2, HeldLocks, PcParts
      <4>2. nb <= mx
        BY <1>2, <4>1 DEF ShapeInv
      <4> QED
        BY <1>3, <1>4, <2>1, <4>2
    <3> QED
      BY <1>1, <1>2, <1>3, <1>4, <1>6, <2>1, <3>1, <3>2 DEF ShapeInv
  <2> QED
    BY <2>2, <2>3, <2>4, <2>5 DEF PosInv
<1> QED
  BY <1>5, <1>6, PublishEffect DEF h

\* No connection is in a transaction or a checkpoint.
LEMMA IdlePos ==
    ASSUME TypeInv', ShapeInv', writeLock' = None,
           \A c \in Conns : conn'[c].pc \in {"idle", "try"} /\ conn'[c].readLock = -1,
           \A c \in Conns : conn'[c].hdr.aSalt = shm'.hdr.aSalt => conn'[c].hdr.mxFrame <= mx'
    PROVE  PosInv'
<1> SUFFICES ASSUME NEW c \in Conns
             PROVE  ReaderInv(c)' /\ WriterInv(c)' /\ CkptInv(c)'
  BY DEF PosInv
<1>1. /\ conn'[c].pc \in {"idle", "try"} /\ conn'[c].readLock = -1 /\ writeLock' # c
      /\ (conn'[c].hdr.aSalt = shm'.hdr.aSalt => conn'[c].hdr.mxFrame <= mx')
  BY WalConstants
<1> QED
  BY <1>1 DEF ReaderInv, WriterInv, CkptInv, Pinned, FramePcs, BackfillPcs, RestartPcs, Writing

LEMMA KillPos ==
    ASSUME TypeInv, LockInv, PosInv, Kill
    PROVE  PosInv'
<1>1. /\ writeLock' = None /\ ~Live' /\ \A d \in Conns : conn'[d] = NewConn
      /\ shm'.hdr = shm.hdr /\ nb' = nb /\ mx' = mx /\ wal' = wal /\ nSalt' = nSalt
  BY KillTypes DEF Kill, Live, nb, mx, files
<1>2. /\ NewConn.pc = "idle" /\ NewConn.readLock = -1 /\ NewConn.hdr.aSalt = 0
      /\ NewConn.hdr.mxFrame = 0 /\ mx \in Nat /\ nSalt \in Nat
  BY Fields DEF NewConn, ZeroHdr, mx, TypeInv
<1>3. ShapeInv'
  <2>1. ShapeInv
    BY DEF PosInv
  <2> QED
    BY <1>1, <1>2, <2>1 DEF ShapeInv
<1> QED
  BY <1>1, <1>2, <1>3, KillTypes, IdlePos

LEMMA OpenShmPos ==
    ASSUME TypeInv, LockInv, PosInv, NEW c \in Conns, OpenShm(c)
    PROVE  PosInv'
<1>1. ~Live /\ ZeroHdr.aSalt = 0 /\ ZeroHdr.mxFrame = 0 /\ ~ZeroHdr.isInit
  BY OpenShmEffect DEF Live, ZeroHdr
<1>2. \A d \in Conns : conn[d].pc = "idle" /\ conn[d].hdr = ZeroHdr /\ conn[d].readLock = -1
  BY <1>1 DEF LockInv, LockInvOf
<1>3. \A d \in Conns : conn'[d].pc = "idle" /\ conn'[d].hdr = ZeroHdr /\ conn'[d].readLock = -1
  BY <1>2, OpenShmEffect DEF Sets, KeepsRead
<1>4. /\ writeLock' = None /\ ~Live' /\ mx' = 0 /\ nb' = 0 /\ shm'.hdr.aSalt = 0
      /\ wal' = wal /\ nSalt' = nSalt /\ Len(wal.frames) \in Nat /\ nSalt \in Nat
  BY <1>1, OpenShmEffect, Fields DEF LockInv, Live, mx, nb, TypeInv
<1>5. ShapeInv'
  <2>1. ShapeInv
    BY DEF PosInv
  <2> QED
    BY <1>1, <1>3, <1>4, <2>1 DEF ShapeInv
<1> QED
  BY <1>1, <1>3, <1>4, <1>5, OpenShmEffect, IdlePos

LEMMA RecoverPos ==
    ASSUME TypeInv, LockInv, PosInv, NEW c \in Conns, Recover(c)
    PROVE  PosInv'
<1> DEFINE h == RecoveredHdr
<1>1. /\ ~Live /\ ZeroHdr.aSalt = 0 /\ ZeroHdr.mxFrame = 0
      /\ h.mxFrame = RecoveredFrame /\ h.aSalt \in {0, wal.hdr}
      /\ RecoveredFrame \in Nat /\ RecoveredFrame <= Len(wal.frames) /\ Len(wal.frames) \in Nat
  <2>1. Len(wal.frames) \in Nat /\ RecoveredFrame \in 0..Len(wal.frames) /\ ~Live
        /\ h.mxFrame = RecoveredFrame
    BY RecoverEffect, RecoveredType, Fields DEF Live
  <2>2. h.aSalt \in {0, wal.hdr}
    BY RecoveredType
  <2>3. ZeroHdr.aSalt = 0 /\ ZeroHdr.mxFrame = 0
    BY DEF ZeroHdr
  <2> HIDE DEF h
  <2> QED
    BY <2>1, <2>2, <2>3
<1> HIDE DEF h
<1>2. \A d \in Conns : conn[d].pc = "idle" /\ conn[d].hdr = ZeroHdr /\ conn[d].readLock = -1
  BY <1>1 DEF LockInv, LockInvOf
<1>3. \A d \in Conns : /\ conn'[d].pc \in {"idle", "try"} /\ conn'[d].hdr \in {ZeroHdr, h}
                       /\ conn'[d].readLock = -1
  BY <1>2, RecoverEffect, ZenonT(40) DEF Sets, h
<1>4. /\ writeLock' = None /\ mx' = RecoveredFrame /\ shm'.hdr.aSalt = h.aSalt
      /\ wal' = wal /\ nSalt' = nSalt /\ nSalt \in Nat
  BY <1>1, RecoverEffect DEF LockInv, mx, TypeInv, h
<1>5. nb' <= mx' /\ nb' \in Nat
  <2>1. conn[c].nBackFill \in Nat /\ nb' = IF conn[c].nBackFill <= RecoveredFrame
                                           THEN conn[c].nBackFill ELSE 0
    BY RecoverEffect, ConnFields DEF nb
  <2> QED
    BY <1>1, <1>4, <2>1
<1>6. ShapeInv'
  <2>1. ShapeInv
    BY DEF PosInv
  <2>2. \A d \in Conns : conn'[d].hdr.aSalt <= nSalt
    BY <1>1, <1>3, <1>4, <2>1 DEF ShapeInv
  <2> QED
    BY <1>1, <1>3, <1>4, <1>5, <2>1, <2>2 DEF ShapeInv
<1>7. \A d \in Conns : conn'[d].hdr.mxFrame <= mx'
  BY <1>1, <1>3, <1>4
<1> QED
  BY <1>3, <1>4, <1>6, <1>7, RecoverEffect, IdlePos

-----------------------------------------------------------------------------
(* The invariant *)

\* Types, locks and positions hold in every state, whether or not a foreign header
\* was kept.
LogInv == TypeInv /\ LockInv /\ PosInv

LEMMA InitLog == Init => LogInv
<1> SUFFICES ASSUME Init
             PROVE  LogInv
  OBVIOUS
<1>1. /\ wal.hdr = 0 /\ wal.frames = <<>> /\ Len(wal.frames) = 0 /\ shm = ZeroShm
      /\ writeLock = None /\ ckptLock = None /\ nSalt = 0 /\ ~Live
      /\ \A c \in Conns : conn[c] = NewConn /\ c # None
  BY WalConstants DEF Init, Live, ZeroShm
<1>2. /\ NewConn.pc = "idle" /\ NewConn.readLock = -1 /\ NewConn.hdr = ZeroHdr
      /\ NewConn.nBackFill = 0 /\ ZeroHdr.aSalt = 0 /\ ZeroHdr.mxFrame = 0
      /\ ZeroShm.hdr = ZeroHdr /\ ZeroShm.nBackfill = 0
  BY DEF NewConn, ZeroHdr, ZeroShm
<1>3. TypeInv
  <2>1. wal \in WalFiles
    BY DEF Init, WalFiles
  <2>2. db \in Image
    BY WalConstants DEF Init, Image
  <2>3. shm \in Shms /\ conn \in [Conns -> Wals] /\ cache \in [Conns -> Image \cup {None}]
    BY ZeroTypes DEF Init
  <2>4. nTx = 0 /\ nRare = 0 /\ nSalt = 0 /\ 0 \in 0..MaxTx
    BY WalConstants DEF Init
  <2>5. kept \in BOOLEAN
    BY DEF Init
  <2> QED
    BY <1>1, <2>1, <2>2, <2>3, <2>4, <2>5 DEF TypeInv
<1>4. LockInv
  <2>1. \A c \in Conns : LockInvOf(c)
    BY <1>1, <1>2 DEF LockInvOf, Writing, WritePcs, FramePcs, CkptPcs, BackfillPcs, RestartPcs
  <2>2. ~LockedAll /\ ~Locked0
    BY <1>1, <1>2 DEF LockedAll, Locked0
  <2> QED
    BY <1>1, <1>2, <2>1, <2>2 DEF LockInv
<1>5. PosInv
  <2>1. ShapeInv
    BY <1>1, <1>2 DEF ShapeInv, mx, nb
  <2>2. \A c \in Conns : ReaderInv(c) /\ WriterInv(c) /\ CkptInv(c)
    BY <1>1, <1>2 DEF ReaderInv, WriterInv, CkptInv, Pinned, FramePcs, BackfillPcs, RestartPcs,
                      Writing, mx
  <2> QED
    BY <2>1, <2>2 DEF PosInv
<1> QED
  BY <1>3, <1>4, <1>5 DEF LogInv

LEMMA ReadSteps ==
    ASSUME LogInv, NEW c \in Conns,
           \/ OpenShm(c) \/ Recover(c) \/ ReadHdr(c) \/ LockZero(c)
           \/ ChooseMark(c) \/ LockMark(c) \/ CheckMark(c) \/ EndRead(c)
    PROVE  LogInv'
<1> USE DEF LogInv
<1>1. CASE OpenShm(c)
  BY <1>1, OpenShmTypes, OpenShmLocks, OpenShmPos
<1>2. CASE Recover(c)
  BY <1>2, RecoverTypes, RecoverLocks, RecoverPos
<1>3. CASE ReadHdr(c)
  BY <1>3, ReadHdrTypes, ReadHdrLocks, ReadHdrPos
<1>4. CASE LockZero(c)
  BY <1>4, LockZeroTypes, LockZeroLocks, LockZeroPos
<1>5. CASE ChooseMark(c)
  BY <1>5, ChooseMarkTypes, ChooseMarkLocks, ChooseMarkPos
<1>6. CASE LockMark(c)
  BY <1>6, LockMarkTypes, LockMarkLocks, LockMarkPos
<1>7. CASE CheckMark(c)
  BY <1>7, CheckMarkEffect, CheckMarkLocks, CheckMarkPos
<1>8. CASE EndRead(c)
  BY <1>8, EndReadTypes, EndReadLocks, EndReadPos
<1> QED
  BY <1>1, <1>2, <1>3, <1>4, <1>5, <1>6, <1>7, <1>8

LEMMA WriteSteps ==
    ASSUME LogInv, NEW c \in Conns,
           \/ BeginWrite(c) \/ RestartLog(c) \/ RestartInfo(c) \/ KeepHeader(c)
           \/ \E P \in (SUBSET Pages) \ {{}}, commit \in BOOLEAN : WalFrames(c, P, commit)
           \/ \E salt \in 1..(nSalt + 1) : WriteHeader(c, salt)
           \/ WriteFrame(c) \/ RewriteChecksum(c) \/ Publish(c) \/ Rollback(c)
    PROVE  LogInv'
<1> USE DEF LogInv
<1>1. CASE BeginWrite(c)
  BY <1>1, BeginWriteTypes, BeginWriteLocks, BeginWritePos
<1>2. CASE RestartLog(c)
  BY <1>2, RestartLogTypes, RestartLogLocks, RestartLogPos
<1>3. CASE RestartInfo(c)
  BY <1>3, RestartInfoTypes, RestartInfoLocks, RestartInfoPos
<1>4. CASE KeepHeader(c)
  BY <1>4, KeepHeaderTypes, KeepHeaderLocks, KeepHeaderPos
<1>5. ASSUME NEW P \in (SUBSET Pages) \ {{}}, NEW commit \in BOOLEAN, WalFrames(c, P, commit)
      PROVE  LogInv'
  <2>1. P \in SUBSET Pages /\ P # {}
    OBVIOUS
  <2> QED
    BY <1>5, <2>1, WalFramesTypes, WalFramesLocks, WalFramesPos
<1>6. ASSUME NEW salt \in 1..(nSalt + 1), WriteHeader(c, salt)
      PROVE  LogInv'
  BY <1>6, WriteHeaderTypes, WriteHeaderLocks, WriteHeaderPos
<1>7. CASE WriteFrame(c)
  BY <1>7, WriteFrameEffect, WriteFrameLocks, WriteFramePos
<1>8. CASE RewriteChecksum(c)
  BY <1>8, RewriteChecksumEffect, RewriteChecksumLocks, RewriteChecksumPos
<1>9. CASE Publish(c)
  BY <1>9, PublishEffect, PublishLocks, PublishPos
<1>10. CASE Rollback(c)
  BY <1>10, RollbackTypes, RollbackLocks, RollbackPos
<1> QED
  BY <1>1, <1>2, <1>3, <1>4, <1>5, <1>6, <1>7, <1>8, <1>9, <1>10

LEMMA CkptSteps ==
    ASSUME LogInv, NEW c \in Conns,
           \/ \E mode \in {"PASSIVE", "TRUNCATE"} : CkptBegin(c, mode)
           \/ CkptMark(c) \/ CkptLock0(c) \/ CkptCopy(c) \/ CkptBackfill(c)
           \/ CkptRestart(c) \/ CkptInfo(c) \/ CkptHeader(c) \/ CkptPublish(c)
           \/ CkptTruncate(c) \/ CkptFail(c) \/ CkptEnd(c)
    PROVE  LogInv'
<1> USE DEF LogInv
<1>1. ASSUME NEW mode \in {"PASSIVE", "TRUNCATE"}, CkptBegin(c, mode)
      PROVE  LogInv'
  BY <1>1, CkptBeginTypes, CkptBeginLocks, CkptBeginPos
<1>2. CASE CkptMark(c)
  BY <1>2, CkptMarkEffect, CkptMarkLocks, CkptMarkPos
<1>3. CASE CkptLock0(c)
  BY <1>3, CkptLock0Types, CkptLock0Locks, CkptLock0Pos
<1>4. CASE CkptCopy(c)
  BY <1>4, CkptCopyEffect, CkptCopyLocks, CkptCopyPos
<1>5. CASE CkptBackfill(c)
  BY <1>5, CkptBackfillTypes, CkptBackfillLocks, CkptBackfillPos
<1>6. CASE CkptRestart(c)
  BY <1>6, CkptRestartTypes, CkptRestartLocks, CkptRestartPos
<1>7. CASE CkptInfo(c)
  BY <1>7, CkptInfoTypes, CkptInfoLocks, CkptInfoPos
<1>8. CASE CkptHeader(c)
  BY <1>8, CkptHeaderTypes, CkptHeaderLocks, CkptHeaderPos
<1>9. CASE CkptPublish(c)
  BY <1>9, CkptPublishTypes, CkptPublishLocks, CkptPublishPos
<1>10. CASE CkptTruncate(c)
  BY <1>10, CkptTruncateTypes, CkptTruncateLocks, CkptTruncatePos
<1>11. CASE CkptFail(c)
  BY <1>11, CkptFailTypes, CkptFailLocks, CkptFailPos
<1>12. CASE CkptEnd(c)
  BY <1>12, CkptEndTypes, CkptEndLocks, CkptEndPos
<1> QED
  BY <1>1, <1>2, <1>3, <1>4, <1>5, <1>6, <1>7, <1>8, <1>9, <1>10, <1>11, <1>12

LEMMA NextLog == LogInv /\ [Next]_vars => LogInv'
<1> SUFFICES ASSUME LogInv, [Next]_vars
             PROVE  LogInv'
  OBVIOUS
<1>1. Readers \subseteq Conns /\ Writers \subseteq Conns /\ Ckpters \subseteq Conns
  BY WalConstants
<1>2. CASE Kill
  BY <1>2, KillTypes, KillLocks, KillPos DEF LogInv
<1>3. CASE Next /\ ~Kill
  BY <1>1, <1>3, ReadSteps, WriteSteps, CkptSteps DEF Next
<1>4. CASE UNCHANGED vars
  <2>1. TypeInv'
    BY <1>4 DEF vars, LogInv, TypeInv
  <2>2. LockInv'
    BY <1>4 DEF vars, LogInv, LockInv, LockInvOf, Writing, LockedAll, Locked0, Live
  <2>3. ShapeInv'
    BY <1>4 DEF vars, LogInv, PosInv, ShapeInv, Live, mx, nb
  <2>4. ASSUME NEW c \in Conns
        PROVE  ReaderInv(c)' /\ WriterInv(c)' /\ CkptInv(c)'
    <3>1. ReaderInv(c) /\ WriterInv(c) /\ CkptInv(c)
      BY DEF LogInv, PosInv
    <3>2. ReaderInv(c)' /\ WriterInv(c)'
      BY <1>4, <3>1 DEF vars, ReaderInv, WriterInv, Pinned, Writing, mx, nb
    <3>3. CkptInv(c)'
      BY <1>4, <3>1 DEF vars, CkptInv, Pinned, ToCopy, FindFrame, mx, nb
    <3> QED
      BY <3>2, <3>3
  <2> QED
    BY <2>1, <2>2, <2>3, <2>4 DEF LogInv, PosInv
<1> QED
  BY <1>2, <1>3, <1>4

\* The log's types, its locks and its positions, in every state of every run.
THEOREM LogTheorem == Spec => []LogInv
<1>1. Init => LogInv
  BY InitLog
<1>2. LogInv /\ [Next]_vars => LogInv'
  BY NextLog
<1> QED
  BY <1>1, <1>2, PTL DEF Spec

\* Wal.TypeOK: no header, shared or cached by a reader of the WAL, names a frame beyond
\* the WAL file, however checkpoints truncate it and writers restart it.
THEOREM WalTypeTheorem == Spec => []TypeOK
<1>1. LogInv => TypeOK
  <2> SUFFICES ASSUME LogInv
               PROVE  TypeOK
    OBVIOUS
  <2>1. TypeInv /\ ShapeInv /\ nSalt \in Nat /\ Len(wal.frames) \in Nat /\ mx \in Nat /\ nb \in Nat
    BY Fields DEF LogInv, PosInv, TypeInv, mx, nb
  <2>2. wal.hdr \in Salts /\ db \in Image /\ {writeLock, ckptLock} \subseteq Conns \cup {None}
    BY <2>1, Fields DEF Salts, ShapeInv, TypeInv
  <2>3. ASSUME NEW n \in 1..Len(wal.frames)
        PROVE  /\ wal.frames[n].page \in Pages /\ wal.frames[n].val \in 1..(2 * MaxTx)
               /\ wal.frames[n].commit \in BOOLEAN /\ wal.frames[n].aSalt \in Salts
    <3>1. wal.frames[n] \in Frames /\ wal.frames[n].aSalt <= nSalt
      BY <2>1, Fields DEF ShapeInv
    <3>2. wal.frames[n].aSalt \in Nat
      BY <3>1, FrameFields
    <3> QED
      BY <2>1, <3>1, <3>2 DEF Frames, Salts
  <2>4. IsHdr(shm.hdr) /\ shm.nBackfill \in 0..Len(wal.frames)
    BY <2>1, Fields DEF IsHdr, Salts, ShapeInv, mx, nb
  <2>5. ASSUME NEW c \in Conns
        PROVE  /\ conn[c].readLock \in -1..(NReader - 1)
               /\ conn[c].pc = "read" /\ conn[c].readLock > 0 => IsHdr(conn[c].hdr)
               /\ cache[c] \in Image \cup {None}
    <3>1. conn[c].pc = "read" /\ conn[c].readLock > 0 => conn[c].hdr.mxFrame <= mx
      BY DEF LogInv, PosInv, ReaderInv, Pinned
    <3>2. conn[c].hdr.mxFrame \in Nat /\ conn[c].hdr.aSalt \in Nat
          /\ conn[c].hdr.isInit \in BOOLEAN /\ conn[c].hdr.aSalt <= nSalt
          /\ conn[c].readLock \in -1..(NReader - 1)
      BY <2>1, ConnFields DEF ShapeInv
    <3> QED
      BY <2>1, <3>1, <3>2 DEF IsHdr, Salts, ShapeInv, TypeInv
  <2> QED
    BY <2>2, <2>3, <2>4, <2>5 DEF TypeOK
<1> QED
  BY <1>1, LogTheorem, PTL

=============================================================================
