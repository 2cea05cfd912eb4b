---------------------------- MODULE WalDataProofs ----------------------------
(***************************************************************************)
(* The write-ahead log, for any connections, pages and numbers of marks,   *)
(* transactions and faults: what the files and the page caches hold.       *)
(***************************************************************************)
EXTENDS WalProofs, SequenceTheorems

-----------------------------------------------------------------------------
(* Frames and images *)

BackfilledBy(frames, d, n, m) ==
    \A p \in Pages : LET i == LastFrame(frames, p, 1, m)
                     IN  1 <= i /\ i <= n => d[p] = frames[i].val
ChainOf(salt, frames, n) == HeaderCksum(salt) \o [j \in 1..n |-> Digest(frames[j])]
Decodes(salt, frames, i) ==
    frames[i].aSalt = salt /\ frames[i].aFrameCksum = ChainOf(salt, frames, i)
EndsAt(salt, frames, m) ==
    /\ m \in 0..Len(frames)
    /\ \A n \in 1..m : Decodes(salt, frames, n)
    /\ m > 0 => frames[m].commit
    /\ \A n \in (m + 1)..Len(frames) : ~(frames[n].commit /\ frames[n].aSalt = salt)
RecoveredBy(salt, frames) ==
    Max({0} \cup {n \in 1..Len(frames) :
                     frames[n].commit /\ \A i \in 1..n : Decodes(salt, frames, i)})

\* The operators of the invariant, with the files they read as parameters.
LEMMA OfFiles ==
    /\ \A n, m : Backfilled(n, m) <=> BackfilledBy(wal.frames, db, n, m)
    /\ \A n : Chain(n) = ChainOf(wal.hdr, wal.frames, n)
    /\ \A i : walDecodeFrame(i) <=> Decodes(wal.hdr, wal.frames, i)
    /\ \A m : LogEnds(m) <=> EndsAt(wal.hdr, wal.frames, m)
    /\ RecoveredFrame = RecoveredBy(wal.hdr, wal.frames)
BY DEF Backfilled, BackfilledBy, FindFrame, LastFrame, Chain, ChainOf, walDecodeFrame, Decodes,
       LogEnds, EndsAt, RecoveredFrame, RecoveredBy

LEMMA OfFilesNext ==
    /\ \A n, m : Backfilled(n, m)' <=> BackfilledBy(wal'.frames, db', n, m)
    /\ \A n : Chain(n)' = ChainOf(wal'.hdr, wal'.frames, n)
    /\ \A i : walDecodeFrame(i)' <=> Decodes(wal'.hdr, wal'.frames, i)
    /\ \A m : LogEnds(m)' <=> EndsAt(wal'.hdr, wal'.frames, m)
    /\ RecoveredFrame' = RecoveredBy(wal'.hdr, wal'.frames)
BY DEF Backfilled, BackfilledBy, FindFrame, LastFrame, Chain, ChainOf, walDecodeFrame, Decodes,
       LogEnds, EndsAt, RecoveredFrame, RecoveredBy

LEMMA LastFrameIs ==
    ASSUME NEW frames, NEW p, NEW first \in Nat \ {0}, NEW last \in Nat, NEW i \in first..last,
           frames[i].page = p, \A j \in first..last : frames[j].page = p => j <= i
    PROVE  LastFrame(frames, p, first, last) = i
<1>1. /\ \/ LastFrame(frames, p, first, last) = 0
         \/ /\ LastFrame(frames, p, first, last) \in first..last
            /\ frames[LastFrame(frames, p, first, last)].page = p
      /\ LastFrame(frames, p, first, last) \in Nat
      /\ \A j \in first..last : frames[j].page = p => j <= LastFrame(frames, p, first, last)
  BY LastFrameProps
<1>2. i \in Nat /\ i > 0 /\ i <= LastFrame(frames, p, first, last)
  BY <1>1
<1>3. LastFrame(frames, p, first, last) <= i
  BY <1>1, <1>2
<1> QED
  BY <1>1, <1>2, <1>3

Agree(frames, new, first, last) == \A i \in first..last : new[i] = frames[i]

\* What lies beyond the last frame looked at does not matter.
LEMMA SameFrames ==
    ASSUME NEW frames, NEW new, NEW first \in Nat \ {0}, NEW last \in Nat,
           Agree(frames, new, first, last)
    PROVE  /\ \A p : LastFrame(new, p, first, last) = LastFrame(frames, p, first, last)
           /\ \A d : Img(new, d, first, last) = Img(frames, d, first, last)
<1>1. \A p : LastFrame(new, p, first, last) = LastFrame(frames, p, first, last)
  BY DEF LastFrame, Agree
<1>2. ASSUME NEW p
      PROVE  LastFrame(frames, p, first, last) = 0 \/ LastFrame(frames, p, first, last) \in first..last
  BY LastFrameProps
<1>3. ASSUME NEW d
      PROVE  Img(new, d, first, last) = Img(frames, d, first, last)
  BY <1>1, <1>2 DEF Img, Agree
<1> QED
  BY <1>1, <1>3

\* A log backfilled up to n reads the same from any frame up to n + 1 on.
LEMMA BackfilledImage ==
    ASSUME NEW frames, NEW d, NEW n \in Nat, NEW m \in Nat, n <= m,
           BackfilledBy(frames, d, n, m)
    PROVE  \A k \in 1..(n + 1) : Img(frames, d, k, m) = Img(frames, d, 1, m)
<1> TAKE k \in 1..(n + 1)
<1> SUFFICES ASSUME NEW p \in Pages
             PROVE  Img(frames, d, k, m)[p] = Img(frames, d, 1, m)[p]
  BY DEF Img
<1> DEFINE i == LastFrame(frames, p, 1, m)
           j == LastFrame(frames, p, k, m)
<1>1. /\ i = 0 \/ (i \in 1..m /\ frames[i].page = p)
      /\ i \in Nat /\ \A x \in 1..m : frames[x].page = p => x <= i
  BY LastFrameProps
<1>2. /\ j = 0 \/ (j \in k..m /\ frames[j].page = p)
      /\ j \in Nat /\ \A x \in k..m : frames[x].page = p => x <= j
  BY LastFrameProps
<1>3. /\ Img(frames, d, k, m)[p] = (IF j = 0 THEN d[p] ELSE frames[j].val)
      /\ Img(frames, d, 1, m)[p] = (IF i = 0 THEN d[p] ELSE frames[i].val)
      /\ (1 <= i /\ i <= n => d[p] = frames[i].val)
  BY DEF Img, BackfilledBy
<1> HIDE DEF i, j
<1>4. CASE j = 0
  <2>1. i = 0 \/ i < k
    BY <1>1, <1>2, <1>4
  <2> QED
    BY <1>1, <1>3, <1>4, <2>1
<1>5. CASE j # 0
  <2>1. j \in 1..m /\ j <= i /\ i \in k..m
    BY <1>1, <1>2, <1>5
  <2>2. i <= j
    BY <1>1, <1>2, <2>1
  <2> QED
    BY <1>2, <1>3, <2>1, <2>2
<1> QED
  BY <1>4, <1>5

LEMMA EmptyImage ==
    ASSUME NEW frames, NEW d \in Image, NEW m \in Nat
    PROVE  Img(frames, d, m + 1, m) = d
<1>1. \A p : LastFrame(frames, p, m + 1, m) = 0
  BY LastFrameProps
<1> QED
  BY <1>1 DEF Img, Image

LEMMA BackfilledAll ==
    ASSUME NEW frames, NEW d \in Image, NEW m \in Nat, BackfilledBy(frames, d, m, m)
    PROVE  Img(frames, d, 1, m) = d
BY BackfilledImage, EmptyImage

LEMMA BackfilledLess ==
    ASSUME NEW frames, NEW d, NEW n \in Nat, NEW m \in Nat, BackfilledBy(frames, d, n, m)
    PROVE  /\ \A k \in 0..n : BackfilledBy(frames, d, k, m)
           /\ n <= m => \A l \in Nat : m <= l => BackfilledBy(frames, d, n, l)
<1>1. ASSUME NEW k \in 0..n
      PROVE  BackfilledBy(frames, d, k, m)
  <2>1. \A p : LastFrame(frames, p, 1, m) \in Nat
    BY LastFrameProps
  <2> QED
    BY <2>1 DEF BackfilledBy
<1>2. ASSUME NEW l \in Nat, n <= m, m <= l, NEW p \in Pages,
             1 <= LastFrame(frames, p, 1, l), LastFrame(frames, p, 1, l) <= n
      PROVE  d[p] = frames[LastFrame(frames, p, 1, l)].val
  <2> DEFINE i == LastFrame(frames, p, 1, l)
  <2>1. i \in 1..l /\ frames[i].page = p /\ \A x \in 1..l : frames[x].page = p => x <= i
    BY <1>2, LastFrameProps
  <2> HIDE DEF i
  <2>2. i \in 1..m /\ i <= n /\ \A x \in 1..m : frames[x].page = p => x <= i
    BY <1>2, <2>1 DEF i
  <2>3. LastFrame(frames, p, 1, m) = i
    BY <2>1, <2>2, LastFrameIs
  <2> QED
    BY <2>2, <2>3 DEF BackfilledBy, i
<1> QED
  BY <1>1, <1>2 DEF BackfilledBy

LEMMA NoneBackfilled ==
    ASSUME NEW frames, NEW d, NEW m \in Nat
    PROVE  BackfilledBy(frames, d, 0, m)
<1>1. \A p : LastFrame(frames, p, 1, m) \in Nat
  BY LastFrameProps
<1> QED
  BY <1>1 DEF BackfilledBy

\* Recovery ends where the log ends.
LEMMA RecoversEnd ==
    ASSUME NEW salt, NEW frames, Len(frames) \in Nat, NEW m, EndsAt(salt, frames, m)
    PROVE  RecoveredBy(salt, frames) = m
<1> DEFINE S == {0} \cup {n \in 1..Len(frames) :
                     frames[n].commit /\ \A i \in 1..n : Decodes(salt, frames, i)}
<1>1. m \in S /\ S \in SUBSET (0..Len(frames))
  BY DEF EndsAt
<1>2. \A x \in S : x <= m
  BY DEF EndsAt, Decodes
<1>3. Max(S) \in S /\ \A x \in S : x <= Max(S)
  <2> HIDE DEF S
  <2> QED
    BY <1>1, MaxIsLargest
<1>4. Max(S) = m
  <2> HIDE DEF S
  <2>1. Max(S) <= m /\ m <= Max(S)
    BY <1>1, <1>2, <1>3
  <2>2. S \subseteq Nat
    BY <1>1
  <2>3. Max(S) \in Nat /\ m \in Nat
    BY <1>1, <1>3, <2>2
  <2> QED
    BY <2>1, <2>3
<1> QED
  BY <1>4 DEF RecoveredBy

\* Checksums chain: each frame adds its digest to that of the frames before.
LEMMA DigestType ==
    ASSUME NEW f \in Frames
    PROVE  Digest(f) \in Items
BY FrameFields DEF Digest, Items

LEMMA ChainSame ==
    ASSUME NEW frames, NEW new, NEW n \in Nat, \A i \in 1..n : Digest(new[i]) = Digest(frames[i])
    PROVE  \A salt : \A i \in 0..n : ChainOf(salt, new, i) = ChainOf(salt, frames, i)
<1> TAKE salt
<1> TAKE i \in 0..n
<1>1. [j \in 1..i |-> Digest(new[j])] = [j \in 1..i |-> Digest(frames[j])]
  OBVIOUS
<1> QED
  BY <1>1 DEF ChainOf

LEMMA ChainStart ==
    ASSUME NEW salt \in Nat, NEW frames
    PROVE  ChainOf(salt, frames, 0) = HeaderCksum(salt)
<1>1. [j \in 1..0 |-> Digest(frames[j])] = <<>>
  OBVIOUS
<1>2. HeaderCksum(salt) \in Seq(Items)
  BY HeaderCksumType
<1> QED
  BY <1>1, <1>2, ConcatEmptySeq DEF ChainOf

LEMMA ChainNext ==
    ASSUME NEW salt \in Nat, NEW frames, NEW n \in Nat, \A i \in 1..(n + 1) : frames[i] \in Frames
    PROVE  /\ ChainOf(salt, frames, n) \in Seq(Items)
           /\ ChainOf(salt, frames, n + 1) = Append(ChainOf(salt, frames, n), Digest(frames[n + 1]))
<1> DEFINE s == [j \in 1..n |-> Digest(frames[j])]
           t == [j \in 1..(n + 1) |-> Digest(frames[j])]
           d == Digest(frames[n + 1])
           h == HeaderCksum(salt)
<1>1. s \in Seq(Items) /\ Len(s) = n /\ t \in Seq(Items) /\ Len(t) = n + 1 /\ d \in Items
  BY DigestType
<1>2. h \in Seq(Items)
  BY HeaderCksumType
<1>3. t = Append(s, d)
  OBVIOUS
<1>4. h \o Append(s, d) = Append(h \o s, d)
  <2> HIDE DEF h, s, d
  <2> QED
    BY <1>1, <1>2
<1>5. h \o s \in Seq(Items)
  <2> HIDE DEF h, s
  <2> QED
    BY <1>1, <1>2
<1> QED
  BY <1>3, <1>4, <1>5 DEF ChainOf


-----------------------------------------------------------------------------
(* What the transactions read *)

LEMMA ViewIs ==
    ASSUME TypeInv, NEW c \in Conns
    PROVE  /\ ~InTransaction(c) => View(c) = None
           /\ InTransaction(c) /\ conn[c].readLock = 0 => View(c) = db
           /\ InTransaction(c) /\ conn[c].readLock = -1 => View(c) = ImageOf(1, mx)
           /\ InTransaction(c) /\ conn[c].readLock > 0 =>
                 View(c) = IF writeLock = c THEN ImageOf(conn[c].minFrame, mx)
                           ELSE ImageOf(conn[c].minFrame, conn[c].hdr.mxFrame)
           /\ conn[c].readLock = 0 \/ conn[c].readLock = -1 \/ conn[c].readLock > 0
<1>1. conn[c].readLock \in -1..(NReader - 1) /\ NReader \in Nat
  BY ConnFields, WalConstants
<1> DEFINE x == conn[c].readLock
<1>2. x = 0 \/ x = -1 \/ x > 0
  <2> HIDE DEF x
  <2>1. x \in -1..(NReader - 1)
    BY <1>1 DEF x
  <2> QED
    BY <1>1, <2>1
<1>3. x > 0 => x # 0 /\ x # -1
  <2> HIDE DEF x
  <2>1. x \in -1..(NReader - 1)
    BY <1>1 DEF x
  <2> QED
    BY <1>1, <2>1
<1>4. 0 # -1
  OBVIOUS
<1> HIDE DEF x
<1>5. /\ InTransaction(c) /\ x = 0 => View(c) = db
      /\ InTransaction(c) /\ x = -1 => View(c) = ImageOf(1, mx)
      /\ InTransaction(c) /\ x > 0 =>
            View(c) = ImageOf(conn[c].minFrame, IF writeLock = c THEN mx ELSE conn[c].hdr.mxFrame)
      /\ ~InTransaction(c) => View(c) = None
  BY <1>3, <1>4, Zenon DEF View, x, mx
<1> QED
  BY <1>2, <1>5 DEF x

\* Under a read mark nobody restarts the log.
LEMMA HeldBackfill ==
    ASSUME LogInv, NEW c \in Conns, Live, conn[c].readLock > 0
    PROVE  nb <= mx /\ 1 <= conn[c].minFrame /\ conn[c].minFrame <= nb + 1
<1>1. ~LockedAll
  <2>1. LockedAll => conn[c].readLock <= 0
    BY DEF LogInv, LockInv
  <2>2. ~(conn[c].readLock <= 0 /\ conn[c].readLock > 0)
    BY ConnFields, WalConstants DEF LogInv
  <2> QED
    BY <2>1, <2>2
<1>2. \A d \in Conns : conn[d].pc \notin {"restartInfo", "ckInfo"}
  BY <1>1 DEF LockedAll
<1>3. nb <= mx
  BY <1>2 DEF LogInv, PosInv, ShapeInv
<1> QED
  BY <1>3 DEF LogInv, PosInv, ReaderInv

\* A log backfilled to its end has it all in the database file.
LEMMA BackfilledEnd ==
    ASSUME LogInv, Backfilled(nb, mx), nb = mx
    PROVE  ImageOf(1, mx) = db
<1>1. BackfilledBy(wal.frames, db, mx, mx) /\ mx \in Nat /\ db \in Image
  BY OfFiles, Fields DEF LogInv, mx
<1>2. Img(wal.frames, db, 1, mx) = db
  BY <1>1, BackfilledAll
<1> QED
  BY <1>2, FindFrameIsLast

\* From its minFrame on, a reader of the log finds all that it says.
LEMMA FromMinFrame ==
    ASSUME LogInv, Backfilled(nb, mx), NEW c \in Conns, Live, conn[c].readLock > 0
    PROVE  ImageOf(conn[c].minFrame, mx) = ImageOf(1, mx)
<1>1. nb \in Nat /\ mx \in Nat /\ conn[c].minFrame \in Nat
  BY Fields, ConnFields DEF LogInv, nb, mx
<1>2. conn[c].minFrame \in 1..(nb + 1) /\ nb <= mx
  BY <1>1, HeldBackfill
<1>3. BackfilledBy(wal.frames, db, nb, mx)
  BY OfFiles
<1> QED
  BY <1>1, <1>2, <1>3, BackfilledImage, FindFrameIsLast

LEMMA LiveStore ==
    ASSUME Live
    PROVE  Store = ImageOf(1, mx)
BY DEF Live, Store, mx

\* A writer reads the last commit.
LEMMA WritersView ==
    ASSUME LogInv, Backfilled(nb, mx), NEW c \in Conns, Writing(c)
    PROVE  Live /\ InTransaction(c) /\ View(c) = Store
<1>1. Live /\ InTransaction(c) /\ writeLock = c
  BY HeldLocks DEF LogInv, Writing, InTransaction
<1>2. CASE conn[c].readLock = -1
  BY <1>1, <1>2, ViewIs, LiveStore DEF LogInv
<1>3. CASE conn[c].readLock > 0
  BY <1>1, <1>3, ViewIs, LiveStore, FromMinFrame DEF LogInv
<1>4. CASE conn[c].readLock = 0
  <2>1. conn[c].pc \in {"write", "restartLog", "restartInfo"}
    <3>1. LockInvOf(c) /\ conn[c].pc \in Pcs
      BY ConnFields DEF LogInv, LockInv
    <3>2. ~(0 > 0) /\ 0 # -1
      OBVIOUS
    <3> QED
      BY <1>1, <1>4, <3>1, <3>2 DEF LockInvOf, Writing, Pcs, WritePcs, FramePcs
  <2>2. CASE conn[c].pc \in {"write", "restartLog"}
    <3>1. nb = mx
      BY <1>4, <2>2 DEF LogInv, PosInv, WriterInv
    <3> QED
      BY <1>1, <1>4, <3>1, ViewIs, LiveStore, BackfilledEnd DEF LogInv
  <2>3. CASE conn[c].pc = "restartInfo"
    <3>1. mx = 0
      BY <2>3 DEF LogInv, PosInv, WriterInv
    <3>2. BackfilledBy(wal.frames, db, 0, 0) /\ db \in Image
      BY NoneBackfilled, Fields DEF LogInv
    <3>3. ImageOf(1, mx) = db
      BY <3>1, <3>2, BackfilledAll, FindFrameIsLast
    <3> QED
      BY <1>1, <1>4, <3>3, ViewIs, LiveStore DEF LogInv
  <2> QED
    BY <2>1, <2>2, <2>3
<1> QED
  BY <1>2, <1>3, <1>4, ViewIs DEF LogInv


LEMMA WritersViewNext ==
    ASSUME NEW c \in Conns
    PROVE  LogInv' /\ Backfilled(nb, mx)' /\ Writing(c)' =>
              Live' /\ InTransaction(c)' /\ View(c)' = Store'
<1>1. LogInv /\ Backfilled(nb, mx) /\ Writing(c) => Live /\ InTransaction(c) /\ View(c) = Store
  BY WritersView
<1>2. (LogInv /\ Backfilled(nb, mx) /\ Writing(c) => Live /\ InTransaction(c) /\ View(c) = Store)'
  BY <1>1, PTL
<1> QED
  BY <1>2

LEMMA ViewIsNext ==
    ASSUME NEW c \in Conns
    PROVE  TypeInv' =>
           /\ ~InTransaction(c)' => View(c)' = None
           /\ InTransaction(c)' /\ conn'[c].readLock = 0 => View(c)' = db'
           /\ InTransaction(c)' /\ conn'[c].readLock = -1 => View(c)' = ImageOf(1, mx)'
           /\ InTransaction(c)' /\ conn'[c].readLock > 0 =>
                 View(c)' = IF writeLock' = c THEN ImageOf(conn[c].minFrame, mx)'
                            ELSE ImageOf(conn[c].minFrame, conn[c].hdr.mxFrame)'
<1>1. TypeInv =>
           /\ ~InTransaction(c) => View(c) = None
           /\ InTransaction(c) /\ conn[c].readLock = 0 => View(c) = db
           /\ InTransaction(c) /\ conn[c].readLock = -1 => View(c) = ImageOf(1, mx)
           /\ InTransaction(c) /\ conn[c].readLock > 0 =>
                 View(c) = IF writeLock = c THEN ImageOf(conn[c].minFrame, mx)
                           ELSE ImageOf(conn[c].minFrame, conn[c].hdr.mxFrame)
  BY ViewIs
<1>2. (TypeInv =>
           /\ ~InTransaction(c) => View(c) = None
           /\ InTransaction(c) /\ conn[c].readLock = 0 => View(c) = db
           /\ InTransaction(c) /\ conn[c].readLock = -1 => View(c) = ImageOf(1, mx)
           /\ InTransaction(c) /\ conn[c].readLock > 0 =>
                 View(c) = IF writeLock = c THEN ImageOf(conn[c].minFrame, mx)
                           ELSE ImageOf(conn[c].minFrame, conn[c].hdr.mxFrame))'
  BY <1>1, PTL
<1> QED
  BY <1>2

-----------------------------------------------------------------------------
(* What a step of c leaves to the others *)

\* The frames of a write transaction, with what it depends on as parameters.
WriterFile(salt, frames, m, sharedSalt, r) ==
    LET n == IF r.pc \in {"frames", "recksum", "publish"} THEN r.iFrame ELSE r.hdr.mxFrame IN
    /\ r.pChange => r.hdr.aSalt = sharedSalt /\ m = 0
    /\ r.pChange /\ r.pc \notin {"frames", "recksum", "publish"} => salt < sharedSalt
    /\ r.pc = "write" => ~r.pChange
    /\ r.pc \in {"frames", "recksum", "publish"} \/ m < r.hdr.mxFrame =>
          /\ salt = r.hdr.aSalt /\ sharedSalt <= salt
          /\ r.iReCksum = 0 => r.hdr.aFrameCksum = ChainOf(salt, frames, n)
          /\ \A j \in 1..(IF r.iReCksum = 0 THEN n ELSE r.iReCksum - 1) : Decodes(salt, frames, j)
          /\ \A j \in (m + 1)..n : frames[j].commit =>
                /\ j = r.iFrame
                /\ r.pc = "publish" => r.isCommit
                /\ r.pc \in {"recksum", "publish"}
                /\ r.pc = "recksum" => frames[j].aSalt = 0
          /\ r.pc = "recksum" \/ (r.pc = "publish" /\ r.isCommit) => r.isCommit /\ frames[n].commit
          /\ r.pc = "publish" /\ r.isCommit => EndsAt(salt, frames, n)

LEMMA WriterFileIs ==
    ASSUME NEW c \in Conns
    PROVE  /\ WriterFileInv(c) <=>
                 (Writing(c) => WriterFile(wal.hdr, wal.frames, mx, shm.hdr.aSalt, conn[c]))
           /\ WriterFileInv(c)' <=>
                 (Writing(c)' => WriterFile(wal'.hdr, wal'.frames, mx', shm'.hdr.aSalt, conn'[c]))
<1>1. WriterFileInv(c) <=>
         (Writing(c) => WriterFile(wal.hdr, wal.frames, mx, shm.hdr.aSalt, conn[c]))
  BY OfFiles DEF WriterFileInv, WriterFile, Outdated
<1>2. WriterFileInv(c)' <=>
         (Writing(c)' => WriterFile(wal'.hdr, wal'.frames, mx', shm'.hdr.aSalt, conn'[c]))
  BY DEF WriterFileInv, WriterFile, Outdated, Chain, ChainOf, walDecodeFrame, Decodes, LogEnds,
         EndsAt
<1> QED
  BY <1>1, <1>2

LEMMA OthersWriterFile ==
    ASSUME NEW c \in Conns, NEW d \in Conns \ {c}, Sets(c, conn'[c]), OwnLocks(c),
           WriterFileInv(d), (wal' = wal /\ shm'.hdr = shm.hdr) \/ writeLock \in {c, None}
    PROVE  WriterFileInv(d)'
<1>1. conn'[d] = conn[d] /\ (Writing(d)' <=> Writing(d)) /\ d # None
  BY WalConstants DEF Sets, OwnLocks, Writing
<1>2. CASE wal' = wal /\ shm'.hdr = shm.hdr
  BY <1>1, <1>2, WriterFileIs DEF mx
<1>3. CASE writeLock \in {c, None}
  BY <1>1, <1>3, WriterFileIs DEF Writing
<1> QED
  BY <1>2, <1>3

LEMMA OthersCkptFile ==
    ASSUME LogInv, NEW c \in Conns, NEW d \in Conns \ {c}, Sets(c, conn'[c]), OwnLocks(c),
           CkptFileInv(d), ckptLock = c \/ (db' = db /\ (nb' = nb \/ mx = 0)),
           \A i \in 1..mx : wal'.frames[i] = wal.frames[i],
           (wal' = wal /\ shm'.hdr = shm.hdr) \/ writeLock \in {c, None}
    PROVE  CkptFileInv(d)'
<1>1. conn'[d] = conn[d] /\ d # None /\ conn[d].pc \in Pcs
  BY WalConstants, ConnFields DEF Sets, LogInv
<1>2. conn[d].pc \in CkptPcs => ckptLock = d
  BY DEF LogInv, LockInv, LockInvOf
<1>3. CASE ckptLock = c
  BY <1>1, <1>2, <1>3, PcParts DEF CkptFileInv
<1>4. CASE ckptLock # c /\ conn[d].pc \in RestartPcs
  <2>1. writeLock = d
    BY <1>4 DEF LogInv, LockInv, LockInvOf
  <2>2. wal' = wal /\ shm'.hdr = shm.hdr
    BY <1>1, <2>1
  <2>3. conn[d].pc # "ckCopy"
    BY <1>4 DEF RestartPcs
  <2> QED
    BY <1>1, <2>2, <2>3 DEF CkptFileInv, Outdated
<1>5. CASE ckptLock # c /\ conn[d].pc = "ckCopy"
  <2>1. nb < conn[d].hdr.mxFrame /\ conn[d].hdr.mxFrame <= mx
    BY <1>5, PcParts DEF LogInv, PosInv, CkptInv
  <2>2. nb \in Nat /\ mx \in Nat /\ conn[d].hdr.mxFrame \in Nat
    BY Fields, ConnFields DEF LogInv, nb, mx
  <2>3. nb' = nb /\ db' = db
    BY <1>5, <2>1, <2>2
  <2>4. \A i \in (nb + 1)..conn[d].hdr.mxFrame : wal'.frames[i] = wal.frames[i]
    BY <2>1, <2>2
  <2>5. \A p : LastFrame(wal'.frames, p, nb + 1, conn[d].hdr.mxFrame) =
                LastFrame(wal.frames, p, nb + 1, conn[d].hdr.mxFrame)
    <3> DEFINE new == wal'.frames
               frames == wal.frames
               first == nb + 1
               last == conn[d].hdr.mxFrame
    <3>1. first \in Nat \ {0} /\ last \in Nat
      BY <2>2
    <3>2. Agree(frames, new, first, last)
      BY <2>4 DEF Agree
    <3> HIDE DEF new, frames, first, last
    <3>3. \A p : LastFrame(new, p, first, last) = LastFrame(frames, p, first, last)
      BY <3>1, <3>2, SameFrames
    <3> QED
      BY <3>3 DEF new, frames, first, last
  <2>6. \A p : FindFrame(p, nb + 1, conn[d].hdr.mxFrame)' = FindFrame(p, nb + 1, conn[d].hdr.mxFrame)
    BY <1>1, <2>3, <2>5, FindFrameIsLast, FindFrameIsLastNext
  <2>7. ToCopy(conn[d])' = ToCopy(conn[d])
    BY <1>1, <2>3, <2>6 DEF ToCopy, nb
  <2>8. ASSUME NEW p \in ToCopy(conn[d]) \ conn[d].todo
        PROVE  db'[p] = wal'.frames[FindFrame(p, nb + 1, conn[d].hdr.mxFrame)].val
    <3>1. FindFrame(p, nb + 1, conn[d].hdr.mxFrame) \in (nb + 1)..conn[d].hdr.mxFrame
      BY <2>2, LastFrameProps, FindFrameIsLast DEF ToCopy, nb
    <3> QED
      BY <1>5, <2>3, <2>4, <3>1 DEF CkptFileInv
  <2> QED
    BY <1>1, <1>5, <2>3, <2>6, <2>7, <2>8 DEF CkptFileInv
<1> QED
  BY <1>1, <1>3, <1>4, <1>5, PcParts DEF CkptFileInv


LEMMA SamePrefix ==
    ASSUME LogInv, db' = db, \A i \in 1..mx : wal'.frames[i] = wal.frames[i]
    PROVE  \A first \in Nat \ {0}, last \in 0..mx :
              Img(wal'.frames, db', first, last) = Img(wal.frames, db, first, last)
<1> SUFFICES ASSUME NEW first \in Nat \ {0}, NEW last \in 0..mx
             PROVE  Img(wal'.frames, db', first, last) = Img(wal.frames, db, first, last)
  OBVIOUS
<1> DEFINE new == wal'.frames
           frames == wal.frames
<1>1. mx \in Nat
  BY Fields DEF LogInv, mx
<1>2. last \in Nat
  BY <1>1
<1>3. Agree(frames, new, first, last)
  BY <1>1 DEF Agree
<1>4. first \in Nat \ {0}
  OBVIOUS
<1> HIDE DEF new, frames
<1>5. \A d : Img(new, d, first, last) = Img(frames, d, first, last)
  BY <1>2, <1>3, <1>4, SameFrames
<1> QED
  BY <1>5 DEF new, frames

LEMMA SameTransactions ==
    ASSUME NEW c \in Conns, NEW d \in Conns \ {c}, Sets(c, conn'[c]), OwnLocks(c)
    PROVE  /\ conn'[d] = conn[d] /\ (InTransaction(d)' <=> InTransaction(d))
           /\ (Writing(d)' <=> Writing(d)) /\ (writeLock' = d <=> writeLock = d)
BY DEF Sets, OwnLocks, InTransaction, Writing

\* A reader of the log reads no frame beyond the shared header.
LEMMA ReadersEnd ==
    ASSUME LogInv, NEW c \in Conns, InTransaction(c), conn[c].readLock > 0
    PROVE  /\ writeLock # c => /\ conn[c].pc = "read" /\ Pinned(c)
                               /\ conn[c].hdr.mxFrame \in 0..mx
           /\ conn[c].minFrame \in Nat \ {0} /\ mx \in Nat
<1>1. mx \in Nat /\ conn[c].hdr.mxFrame \in Nat /\ conn[c].minFrame \in Nat
  BY Fields, ConnFields DEF LogInv, mx
<1>2. 1 <= conn[c].minFrame
  BY DEF LogInv, PosInv, ReaderInv
<1>3. writeLock # c => conn[c].pc = "read" /\ Pinned(c)
  BY DEF InTransaction, Pinned
<1>4. writeLock # c => conn[c].hdr.mxFrame <= mx
  BY <1>3 DEF LogInv, PosInv, ReaderInv
<1> QED
  BY <1>1, <1>2, <1>3, <1>4

LEMMA SameView ==
    ASSUME LogInv, LogInv', NEW c \in Conns, NEW d \in Conns \ {c}, Sets(c, conn'[c]), OwnLocks(c),
           db' = db, \A i \in 1..mx : wal'.frames[i] = wal.frames[i],
           (wal' = wal /\ shm'.hdr = shm.hdr) \/ writeLock \in {c, None}
    PROVE  View(d)' = View(d)
<1>1. /\ conn'[d] = conn[d] /\ (InTransaction(d)' <=> InTransaction(d))
      /\ (writeLock' = d <=> writeLock = d)
  BY SameTransactions
<1>2. TypeInv /\ TypeInv' /\ d # None
  BY WalConstants DEF LogInv
<1>3. \A first \in Nat \ {0}, last \in 0..mx :
         ImageOf(first, last)' = ImageOf(first, last)
  BY SamePrefix, FindFrameIsLast, FindFrameIsLastNext
<1>4. CASE ~InTransaction(d)
  BY <1>1, <1>2, <1>4, ViewIs, ViewIsNext
<1>5. CASE InTransaction(d) /\ conn[d].readLock = 0
  BY <1>1, <1>2, <1>5, ViewIs, ViewIsNext
<1>6. CASE InTransaction(d) /\ writeLock = d
  <2>1. wal' = wal /\ shm'.hdr = shm.hdr
    BY <1>2, <1>6
  <2> QED
    BY <1>1, <1>6, <2>1 DEF View, ImageOf, FindFrame, mx
<1>7. CASE InTransaction(d) /\ writeLock # d /\ conn[d].readLock > 0
  <2>1. conn[d].hdr.mxFrame \in 0..mx /\ conn[d].minFrame \in Nat \ {0}
    BY <1>7, ReadersEnd
  <2>2. View(d) = ImageOf(conn[d].minFrame, conn[d].hdr.mxFrame)
    BY <1>2, <1>7, ViewIs
  <2>3. View(d)' = ImageOf(conn[d].minFrame, conn[d].hdr.mxFrame)'
    BY <1>1, <1>2, <1>7, ViewIsNext
  <2>4. View(d)' = Img(wal'.frames, db', conn[d].minFrame, conn[d].hdr.mxFrame)
    BY <1>1, <2>3, FindFrameIsLastNext DEF ImageOf, FindFrame, Img, LastFrame
  <2>5. View(d) = Img(wal.frames, db, conn[d].minFrame, conn[d].hdr.mxFrame)
    BY <2>2, FindFrameIsLast
  <2> QED
    BY <2>1, <2>4, <2>5, SamePrefix
<1>8. CASE InTransaction(d) /\ writeLock # d /\ conn[d].readLock = -1
  <2>1. conn[d].pc = "read"
    BY <1>8 DEF InTransaction
  <2>2. conn[d].readLock >= 0
    BY <2>1 DEF LogInv, LockInv, LockInvOf
  <2> QED
    BY <1>8, <2>2
<1> QED
  BY <1>2, <1>4, <1>5, <1>6, <1>7, <1>8, ViewIs

LEMMA OthersCache ==
    ASSUME LogInv', NEW c \in Conns, NEW d \in Conns \ {c}, Sets(c, conn'[c]), OwnLocks(c),
           cache'[d] = cache[d], CacheInvOf(d), Backfilled(nb, mx)',
           InTransaction(d) => View(d)' = View(d),
           conn[d].hdr.isInit /\ conn[d].hdr.aSalt = shm'.hdr.aSalt /\ conn[d].hdr.mxFrame = mx' =>
              shm'.hdr.aSalt = shm.hdr.aSalt /\ mx' = mx /\ Store' = Store
    PROVE  CacheInvOf(d)'
<1>1. /\ conn'[d] = conn[d] /\ (InTransaction(d)' <=> InTransaction(d))
      /\ (Writing(d)' <=> Writing(d))
  BY SameTransactions
<1>2. Writing(d)' => View(d)' = Store'
  BY WritersViewNext
<1>3. InTransaction(d)' => cache'[d] = View(d)'
  BY <1>1 DEF CacheInvOf
<1>4. ~InTransaction(d)' /\ conn'[d].hdr.isInit /\ (conn'[d].pc \in CkptPcs => ~conn'[d].isChanged)
         /\ conn'[d].hdr.aSalt = shm'.hdr.aSalt /\ conn'[d].hdr.mxFrame = mx'
      => cache'[d] \in {None, Store'}
  BY <1>1 DEF CacheInvOf
<1> QED
  BY <1>2, <1>3, <1>4 DEF CacheInvOf


\* A header that says as much as the shared one is not one that c makes now.
NoTwin(c) ==
    \A d \in Conns \ {c} :
       /\ conn[d].hdr.isInit /\ conn[d].hdr.aSalt = shm'.hdr.aSalt
       /\ conn[d].hdr.mxFrame = shm'.hdr.mxFrame
       => shm'.hdr.aSalt = shm.hdr.aSalt /\ shm'.hdr.mxFrame = shm.hdr.mxFrame

LEMMA SameStore ==
    ASSUME LogInv, Live, Live', db' = db, mx' = mx, \A i \in 1..mx : wal'.frames[i] = wal.frames[i]
    PROVE  Store' = Store
<1>1. mx \in Nat
  BY Fields DEF LogInv, mx
<1>2. 1 \in Nat \ {0} /\ mx \in 0..mx
  BY <1>1
<1>3. Img(wal'.frames, db', 1, mx) = Img(wal.frames, db, 1, mx)
  BY <1>2, SamePrefix
<1>4. Store = Img(wal.frames, db, 1, mx)
  BY LiveStore, FindFrameIsLast
<1>5. Store' = Img(wal'.frames, db', 1, mx')
  BY DEF Live, Store, ImageOf, FindFrame, Img, LastFrame, mx
<1> QED
  BY <1>3, <1>4, <1>5

LEMMA DataStep ==
    ASSUME LogInv, LogInv', DataInv, NEW c \in Conns, Sets(c, conn'[c]), OwnLocks(c), Live, Live',
           \A d \in Conns \ {c} : cache'[d] = cache[d],
           db' = db, \A i \in 1..mx : wal'.frames[i] = wal.frames[i],
           nb' = nb \/ mx = 0 \/ ckptLock = c,
           (wal' = wal /\ shm'.hdr = shm.hdr) \/ writeLock \in {c, None}, NoTwin(c),
           FileInv', WriterFileInv(c)', CkptFileInv(c)', CacheInvOf(c)'
    PROVE  DataInv'
<1> SUFFICES ASSUME NEW d \in Conns \ {c}
             PROVE  WriterFileInv(d)' /\ CkptFileInv(d)' /\ CacheInvOf(d)'
  BY DEF DataInv
<1>1. WriterFileInv(d) /\ CkptFileInv(d) /\ CacheInvOf(d)
  BY DEF DataInv
<1>2. WriterFileInv(d)'
  BY <1>1, OthersWriterFile
<1>3. CkptFileInv(d)'
  BY <1>1, OthersCkptFile
<1>4. View(d)' = View(d)
  BY SameView
<1>5. Backfilled(nb, mx)'
  BY DEF FileInv
<1>6. conn[d].hdr.isInit /\ conn[d].hdr.aSalt = shm'.hdr.aSalt /\ conn[d].hdr.mxFrame = mx' =>
              shm'.hdr.aSalt = shm.hdr.aSalt /\ mx' = mx /\ Store' = Store
  BY SameStore DEF NoTwin, mx
<1>7. CacheInvOf(d)'
  BY <1>1, <1>4, <1>5, <1>6, OthersCache
<1> QED
  BY <1>2, <1>3, <1>7


\* FileInv, when the wal-index is recovered.
LiveFile(salt, frames, d, n, hdr, committing) ==
    /\ \A i \in 1..Len(frames) : frames[i].aSalt <= salt
    /\ BackfilledBy(frames, d, n, hdr.mxFrame)
    /\ hdr.mxFrame > 0 => /\ salt = hdr.aSalt
                          /\ hdr.aFrameCksum = ChainOf(salt, frames, hdr.mxFrame)
    /\ salt < hdr.aSalt => \E k \in 0..Len(frames) : /\ EndsAt(salt, frames, k)
                                                     /\ d = Img(frames, d, 1, k)
    /\ ~(salt < hdr.aSalt) /\ ~committing => EndsAt(salt, frames, hdr.mxFrame)

LEMMA FileInvIs ==
    /\ Live => (FileInv <=> LiveFile(wal.hdr, wal.frames, db, nb, shm.hdr, Committing # {}))
    /\ Live' => (FileInv' <=> LiveFile(wal'.hdr, wal'.frames, db', nb', shm'.hdr, Committing' # {}))
<1>1. ASSUME Live
      PROVE  FileInv <=> LiveFile(wal.hdr, wal.frames, db, nb, shm.hdr, Committing # {})
  BY <1>1, OfFiles, FindFrameIsLast DEF FileInv, LiveFile, Outdated, mx, nb
<1>2. ASSUME Live'
      PROVE  FileInv' <=> LiveFile(wal'.hdr, wal'.frames, db', nb', shm'.hdr, Committing' # {})
  <2>1. FileInv' <=>
    /\ \A n \in 1..Len(wal'.frames) : wal'.frames[n].aSalt <= wal'.hdr
    /\ Backfilled(nb, mx)'
    /\ shm'.hdr.mxFrame > 0 => wal'.hdr = shm'.hdr.aSalt /\ shm'.hdr.aFrameCksum = Chain(mx)'
    /\ Outdated' => \E m \in 0..Len(wal'.frames) : LogEnds(m)' /\ db' = ImageOf(1, m)'
    /\ ~Outdated' /\ Committing' = {} => LogEnds(mx)'
    BY <1>2 DEF FileInv, mx
  <2>2. Backfilled(nb, mx)' <=> BackfilledBy(wal'.frames, db', nb', shm'.hdr.mxFrame)
    BY DEF Backfilled, BackfilledBy, FindFrame, LastFrame, mx
  <2>3. Chain(mx)' = ChainOf(wal'.hdr, wal'.frames, shm'.hdr.mxFrame)
    BY DEF Chain, ChainOf, mx
  <2>4. LogEnds(mx)' <=> EndsAt(wal'.hdr, wal'.frames, shm'.hdr.mxFrame)
    BY DEF LogEnds, EndsAt, walDecodeFrame, Decodes, ChainOf, mx
  <2> QED
    BY <2>1, <2>2, <2>3, <2>4, OfFilesNext, FindFrameIsLastNext DEF LiveFile, Outdated
<1> QED
  BY <1>1, <1>2

\* Only the step of a commit makes or ends one.
LEMMA SameCommitting ==
    ASSUME NEW c \in Conns, Sets(c, conn'[c]), ~(conn[c].pc = "publish" /\ conn[c].isCommit),
           ~(conn'[c].pc = "publish" /\ conn'[c].isCommit)
    PROVE  Committing' = Committing
BY DEF Sets, Committing

LEMMA QuietData ==
    ASSUME LogInv, LogInv', DataInv, NEW c \in Conns, Sets(c, conn'[c]), OwnLocks(c), Live,
           UNCHANGED <<wal, db>>, shm'.hdr = shm.hdr, shm'.open = shm.open, nb' = nb,
           \A d \in Conns \ {c} : cache'[d] = cache[d], Committing' = Committing,
           WriterFileInv(c)', CkptFileInv(c)', CacheInvOf(c)'
    PROVE  DataInv'
<1>1. Live' /\ NoTwin(c)
  BY DEF Live, NoTwin
<1>2. FileInv'
  BY <1>1, FileInvIs DEF DataInv, nb
<1> QED
  BY <1>1, <1>2, DataStep

\* A step outside of transactions and checkpoints, or one that begins or ends a
\* read transaction.
LEMMA QuietReaderData ==
    ASSUME LogInv, LogInv', DataInv, NEW c \in Conns, Sets(c, conn'[c]), Live,
           UNCHANGED <<wal, db, nTx, ckptLock>>, shm'.hdr = shm.hdr, shm'.open = shm.open, nb' = nb,
           \A d \in Conns \ {c} : cache'[d] = cache[d], writeLock' = writeLock,
           conn[c].pc \in {"idle", "try", "lockMark", "check", "read"}, writeLock # c,
           conn'[c].pc \in {"idle", "try", "lockMark", "check", "read"}, CacheInvOf(c)'
    PROVE  DataInv'
<1>1. Committing' = Committing
  BY SameCommitting
<1>2. WriterFileInv(c)'
  BY DEF WriterFileInv, Writing
<1>3. CkptFileInv(c)'
  BY DEF CkptFileInv
<1>4. OwnLocks(c)
  BY OwnLocksIntro DEF LogInv
<1> QED
  BY <1>1, <1>2, <1>3, <1>4, QuietData


-----------------------------------------------------------------------------
(* The page caches of readers *)

\* What the wal-index, the WAL and the database file give stays what it was.
LEMMA QuietViews ==
    ASSUME LogInv, Live, UNCHANGED <<wal, db>>, shm'.hdr = shm.hdr, shm'.open = shm.open
    PROVE  /\ Live' /\ mx' = mx /\ Store' = Store
           /\ \A first, last : ImageOf(first, last)' = ImageOf(first, last)
<1>1. Live' /\ mx' = mx
  BY DEF Live, mx
<1> QED
  BY <1>1, SameStore, FindFrameIsLast, FindFrameIsLastNext

\* Outside of transactions: the header and the cache stay.
LEMMA KeptCache ==
    ASSUME NEW c \in Conns, CacheInvOf(c), ~InTransaction(c), ~InTransaction(c)',
           conn[c].pc \in CkptPcs => ~conn[c].isChanged \/ conn'[c].isChanged,
           conn[c].pc \in CkptPcs /\ conn'[c].pc \notin CkptPcs => ~conn[c].isChanged,
           conn'[c].hdr.isInit = conn[c].hdr.isInit, conn'[c].hdr.aSalt = conn[c].hdr.aSalt,
           conn'[c].hdr.mxFrame = conn[c].hdr.mxFrame,
           cache'[c] = cache[c], shm'.hdr.aSalt = shm.hdr.aSalt, mx' = mx, Store' = Store
    PROVE  CacheInvOf(c)'
<1>1. ~Writing(c)'
  BY DEF InTransaction, Writing
<1> QED
  BY <1>1 DEF CacheInvOf

\* A cache that was kept is that of the last commit, one that was reset fills.
LEMMA FilledCache ==
    ASSUME LogInv, NEW c \in Conns, NEW image, CacheInvOf(c), ~InTransaction(c),
           conn[c].pc \notin CkptPcs, conn[c].hdr = shm.hdr, shm.hdr.isInit, Fill(c, image),
           image = Store, InTransaction(c)', writeLock' # c, View(c)' = image
    PROVE  CacheInvOf(c)'
<1>1. cache[c] \in {None, Store}
  BY DEF CacheInvOf, mx
<1>2. cache'[c] = image
  BY <1>1 DEF Fill, LogInv, TypeInv
<1> QED
  BY <1>2 DEF CacheInvOf, Writing

\* A reader whose header is the shared one reads the last commit.
LEMMA CurrentReader ==
    ASSUME LogInv, Backfilled(nb, mx), NEW c \in Conns, conn[c].pc = "read",
           conn[c].hdr.aSalt = shm.hdr.aSalt, conn[c].hdr.mxFrame = mx
    PROVE  View(c) = Store
<1>1. writeLock # c /\ Live /\ conn[c].readLock >= 0 /\ InTransaction(c)
  BY HeldLocks DEF LogInv, LockInv, LockInvOf, InTransaction
<1>2. CASE conn[c].readLock = 0
  <2>1. nb = mx
    BY <1>2 DEF LogInv, PosInv, ReaderInv
  <2> QED
    BY <1>1, <1>2, <2>1, ViewIs, LiveStore, BackfilledEnd DEF LogInv
<1>3. CASE conn[c].readLock > 0
  BY <1>1, <1>3, ViewIs, LiveStore, FromMinFrame DEF LogInv
<1>4. conn[c].readLock # -1
  BY <1>1
<1> QED
  BY <1>2, <1>3, <1>4, ViewIs DEF LogInv

LEMMA CurrentReaderNext ==
    ASSUME NEW c \in Conns
    PROVE  LogInv' /\ Backfilled(nb, mx)' /\ conn'[c].pc = "read"
              /\ conn'[c].hdr.aSalt = shm'.hdr.aSalt /\ conn'[c].hdr.mxFrame = mx'
           => View(c)' = Store'
<1>1. LogInv /\ Backfilled(nb, mx) /\ conn[c].pc = "read"
         /\ conn[c].hdr.aSalt = shm.hdr.aSalt /\ conn[c].hdr.mxFrame = mx
      => View(c) = Store
  BY CurrentReader
<1>2. (LogInv /\ Backfilled(nb, mx) /\ conn[c].pc = "read"
         /\ conn[c].hdr.aSalt = shm.hdr.aSalt /\ conn[c].hdr.mxFrame = mx
       => View(c) = Store)'
  BY <1>1, PTL
<1> QED
  BY <1>2

LEMMA EndReadData ==
    ASSUME LogInv, LogInv', DataInv, NEW c \in Conns, EndRead(c)
    PROVE  DataInv'
<1>1. /\ Sets(c, conn'[c]) /\ conn[c].pc = "read" /\ Rests(c, conn[c].hdr)
      /\ UNCHANGED <<wal, db, shm, writeLock, ckptLock, cache, nTx, nSalt, nRare, kept>>
  BY EndReadEffect DEF LogInv
<1>2. writeLock # c /\ Live /\ conn[c].readLock >= 0
  BY <1>1, HeldLocks DEF LogInv, LockInv, LockInvOf
<1>3. Live' /\ mx' = mx /\ Store' = Store
  BY <1>1, <1>2, QuietViews
<1>4. cache[c] = View(c) /\ InTransaction(c) /\ ~InTransaction(c)' /\ Backfilled(nb, mx)
  BY <1>1, <1>2 DEF DataInv, CacheInvOf, InTransaction, FileInv, Rests
<1>5. ASSUME conn[c].hdr.aSalt = shm.hdr.aSalt, conn[c].hdr.mxFrame = mx
      PROVE  View(c) = Store
  BY <1>1, <1>4, <1>5, CurrentReader
<1>6. CacheInvOf(c)'
  BY <1>1, <1>2, <1>3, <1>4, <1>5 DEF CacheInvOf, Rests, Writing
<1> QED
  BY <1>1, <1>2, <1>6, QuietReaderData DEF Rests, nb

LEMMA ReadHdrData ==
    ASSUME LogInv, LogInv', DataInv, NEW c \in Conns, ReadHdr(c)
    PROVE  DataInv'
<1>1. /\ Sets(c, conn'[c]) /\ conn[c].pc = "idle" /\ shm.open /\ shm.hdr.isInit
      /\ conn'[c].pc = "try" /\ conn'[c].hdr = shm.hdr
      /\ cache' = [cache EXCEPT ![c] = IF conn[c].hdr = shm.hdr THEN @ ELSE None]
      /\ UNCHANGED <<wal, db, shm, writeLock, ckptLock, nTx, nSalt, nRare, kept>>
  BY ReadHdrEffect DEF LogInv
<1>2. writeLock # c /\ Live /\ conn[c].pc \notin CkptPcs
  BY <1>1, HeldLocks, PcParts DEF LogInv, Live
<1>3. Live' /\ mx' = mx /\ Store' = Store
  BY <1>1, <1>2, QuietViews
<1>4. ~InTransaction(c) /\ ~InTransaction(c)' /\ CacheInvOf(c)
  BY <1>1, <1>2 DEF DataInv, InTransaction
<1>5. cache'[c] \in {None, Store} /\ \A d \in Conns \ {c} : cache'[d] = cache[d]
  BY <1>1, <1>2, <1>4 DEF CacheInvOf, LogInv, TypeInv, mx
<1>6. CacheInvOf(c)'
  BY <1>1, <1>2, <1>3, <1>4, <1>5 DEF CacheInvOf, Writing
<1> QED
  BY <1>1, <1>2, <1>5, <1>6, QuietReaderData DEF nb

LEMMA LockZeroData ==
    ASSUME LogInv, LogInv', DataInv, NEW c \in Conns, LockZero(c)
    PROVE  DataInv'
<1>1. /\ Sets(c, conn'[c]) /\ conn[c].pc = "try" /\ shm.nBackfill = conn[c].hdr.mxFrame
      /\ \/ shm.hdr = conn[c].hdr /\ Reads(c, conn[c].hdr, 0) /\ Fill(c, db)
         \/ shm.hdr # conn[c].hdr /\ Rests(c, conn[c].hdr) /\ cache' = cache
      /\ UNCHANGED <<wal, db, shm, writeLock, ckptLock, nTx, nSalt, nRare, kept>>
  BY LockZeroEffect DEF LogInv
<1>2. writeLock # c /\ Live /\ conn[c].pc \notin CkptPcs
  BY <1>1, HeldLocks, PcParts DEF LogInv
<1>3. Live' /\ mx' = mx /\ Store' = Store
  BY <1>1, <1>2, QuietViews
<1>4. ~InTransaction(c) /\ CacheInvOf(c) /\ Backfilled(nb, mx)
  BY <1>1, <1>2 DEF DataInv, InTransaction, FileInv
<1>5. CacheInvOf(c)'
  <2>1. CASE shm.hdr = conn[c].hdr /\ Reads(c, conn[c].hdr, 0) /\ Fill(c, db)
    <3>1. db = Store
      BY <1>1, <1>2, <1>4, <2>1, BackfilledEnd, LiveStore DEF mx, nb
    <3>2. InTransaction(c)' /\ writeLock' # c /\ conn'[c].readLock = 0
      BY <1>1, <1>2, <2>1 DEF InTransaction, Reads
    <3>3. View(c)' = db
      BY <1>1, <3>2, ViewIsNext DEF LogInv
    <3>4. shm.hdr.isInit
      BY <1>2 DEF Live
    <3> QED
      BY <1>2, <1>4, <2>1, <3>1, <3>2, <3>3, <3>4, FilledCache
  <2>2. CASE Rests(c, conn[c].hdr) /\ cache' = cache
    <3>1. ~InTransaction(c)'
      BY <1>1, <1>2, <2>2 DEF InTransaction, Rests
    <3> QED
      BY <1>1, <1>2, <1>3, <1>4, <2>2, <3>1, KeptCache DEF Rests
  <2> QED
    BY <1>1, <2>1, <2>2
<1>6. \A d \in Conns \ {c} : cache'[d] = cache[d]
  BY <1>1 DEF Fill, LogInv, TypeInv
<1>7. conn'[c].pc \in {"read", "idle"}
  BY <1>1 DEF Reads, Rests
<1> QED
  BY <1>1, <1>2, <1>5, <1>6, <1>7, QuietReaderData DEF nb


\* Until it writes frames, a writer's log stays what it was.
LEMMA KeptWriterFile ==
    ASSUME NEW c \in Conns, WriterFileInv(c), Writing(c), wal' = wal, shm'.hdr = shm.hdr,
           conn[c].pc \notin {"frames", "recksum", "publish"},
           conn'[c].pc \notin {"write", "frames", "recksum", "publish"},
           conn'[c].hdr = conn[c].hdr, conn'[c].iReCksum = conn[c].iReCksum,
           conn'[c].pChange = conn[c].pChange
    PROVE  WriterFileInv(c)'
<1> DEFINE F(r) == WriterFile(wal.hdr, wal.frames, shm.hdr.mxFrame, shm.hdr.aSalt, r)
<1>1. F(conn[c])
  BY WriterFileIs DEF mx
<1>2. F(conn'[c])
  BY <1>1 DEF WriterFile
<1> QED
  BY <1>2, WriterFileIs DEF mx

\* A writer's cache is that of the last commit.
LEMMA WritersCache ==
    ASSUME LogInv, LogInv', NEW c \in Conns, CacheInvOf(c), Writing(c), Writing(c)',
           Backfilled(nb, mx), Backfilled(nb, mx)', cache'[c] = cache[c], Store' = Store
    PROVE  CacheInvOf(c)'
<1>1. InTransaction(c) /\ View(c) = Store
  BY WritersView
<1>2. InTransaction(c)' /\ View(c)' = Store'
  BY WritersViewNext
<1> QED
  BY <1>1, <1>2 DEF CacheInvOf

LEMMA QuietWriterData ==
    ASSUME LogInv, LogInv', DataInv, NEW c \in Conns, Sets(c, conn'[c]), Writing(c),
           UNCHANGED <<wal, db, ckptLock, writeLock, cache, nTx>>,
           shm'.hdr = shm.hdr, shm'.open = shm.open, nb' = nb,
           conn[c].pc \in WritePcs \cup {"lockMark", "check"},
           conn[c].pc \notin {"frames", "recksum", "publish"},
           conn'[c].pc \in WritePcs \cup {"lockMark", "check"},
           conn'[c].pc \notin {"write", "frames", "recksum", "publish"},
           conn'[c].hdr = conn[c].hdr, conn'[c].iReCksum = conn[c].iReCksum,
           conn'[c].pChange = conn[c].pChange
    PROVE  DataInv'
<1>1. Writing(c)' /\ Live /\ OwnLocks(c)
  BY HeldLocks, OwnLocksIntro DEF Writing, LogInv
<1>2. Live' /\ mx' = mx /\ Store' = Store
  BY <1>1, QuietViews
<1>3. WriterFileInv(c)'
  BY KeptWriterFile DEF DataInv
<1>4. CkptFileInv(c)'
  BY DEF CkptFileInv, WritePcs, FramePcs
<1>5. Backfilled(nb, mx)
  BY <1>1 DEF DataInv, FileInv
<1>6. Committing' = Committing
  BY SameCommitting
<1>7. Backfilled(nb, mx)'
  <2>1. BackfilledBy(wal.frames, db, nb, mx)
    BY <1>5, OfFiles
  <2>2. BackfilledBy(wal'.frames, db', nb', mx')
    BY <1>2, <2>1
  <2> QED
    BY <2>2 DEF Backfilled, BackfilledBy, FindFrame, LastFrame
<1>8. CacheInvOf(c)'
  BY <1>1, <1>2, <1>5, <1>7, WritersCache DEF DataInv
<1> QED
  BY <1>1, <1>3, <1>4, <1>6, <1>8, QuietData

LEMMA QuietTryData ==
    ASSUME LogInv, LogInv', DataInv, NEW c \in Conns, Sets(c, conn'[c]), writeLock # c,
           UNCHANGED <<wal, db, ckptLock, writeLock, cache, nTx>>,
           shm'.hdr = shm.hdr, shm'.open = shm.open, nb' = nb,
           conn[c].pc \in {"try", "lockMark", "check"},
           conn'[c].pc \in {"idle", "try", "lockMark", "check"}, conn'[c].hdr = conn[c].hdr
    PROVE  DataInv'
<1>1. Live /\ conn[c].pc \notin CkptPcs /\ conn'[c].pc \notin CkptPcs
  BY HeldLocks, PcParts DEF LogInv
<1>2. Live' /\ mx' = mx /\ Store' = Store
  BY <1>1, QuietViews
<1>3. ~InTransaction(c) /\ ~InTransaction(c)' /\ CacheInvOf(c)
  BY DEF InTransaction, DataInv
<1>4. CacheInvOf(c)'
  BY <1>1, <1>2, <1>3, KeptCache
<1> QED
  BY <1>1, <1>4, QuietReaderData

LEMMA RetriesData ==
    ASSUME LogInv, LogInv', DataInv, NEW c \in Conns, Sets(c, conn'[c]), Retries(c),
           UNCHANGED <<wal, db, ckptLock, writeLock, cache, nTx>>, shm' = shm,
           conn[c].pc \in {"try", "mark", "lockMark", "check"}
    PROVE  DataInv'
<1>1. writeLock = c => Writing(c) /\ conn[c].pc # "try"
  BY HeldLocks, PcParts DEF LogInv, Writing
<1>2. writeLock # c => conn[c].pc # "mark"
  BY HeldLocks, PcParts DEF LogInv
<1>3. nb' = nb
  BY DEF nb
<1>4. CASE writeLock = c
  BY <1>1, <1>3, <1>4, QuietWriterData, PcParts DEF Retries, KeepsWrite
<1>5. CASE writeLock # c
  BY <1>2, <1>3, <1>5, QuietTryData DEF Retries, Rests
<1> QED
  BY <1>4, <1>5

LEMMA ChooseMarkData ==
    ASSUME LogInv, LogInv', DataInv, NEW c \in Conns, ChooseMark(c)
    PROVE  DataInv'
<1>1. /\ Sets(c, conn'[c]) /\ conn[c].pc \in {"try", "mark"}
      /\ shm'.hdr = shm.hdr /\ shm'.open = shm.open /\ nb' = nb
      /\ (Retries(c) /\ shm' = shm) \/ \E i, m : Chooses(c, i, m)
      /\ UNCHANGED <<wal, db, writeLock, ckptLock, cache, nTx, nSalt, nRare, kept>>
  BY ChooseMarkEffect DEF LogInv, nb
<1>2. CASE Retries(c) /\ shm' = shm
  BY <1>1, <1>2, RetriesData
<1>3. CASE \E i, m : Chooses(c, i, m)
  <2>1. conn'[c].pc = "lockMark" /\ conn'[c].hdr = conn[c].hdr /\ KeepsWrite(c)
    BY <1>3 DEF Chooses
  <2>2. CASE writeLock = c
    <3>1. Writing(c)
      BY <1>1, <2>2, HeldLocks, PcParts DEF LogInv, Writing
    <3> QED
      BY <1>1, <2>1, <2>2, <3>1, QuietWriterData, HeldLocks, PcParts DEF KeepsWrite, LogInv
  <2>3. CASE writeLock # c
    <3>1. conn[c].pc = "try"
      BY <1>1, <2>3, HeldLocks, PcParts DEF LogInv
    <3> QED
      BY <1>1, <2>1, <2>3, <3>1, QuietTryData
  <2> QED
    BY <2>2, <2>3
<1> QED
  BY <1>1, <1>2, <1>3

LEMMA LockMarkData ==
    ASSUME LogInv, LogInv', DataInv, NEW c \in Conns, LockMark(c)
    PROVE  DataInv'
<1>1. /\ Sets(c, conn'[c]) /\ conn[c].pc = "lockMark"
      /\ Retries(c) \/ (conn'[c].pc = "check" /\ conn'[c].hdr = conn[c].hdr /\ KeepsWrite(c))
      /\ UNCHANGED <<wal, db, shm, writeLock, ckptLock, cache, nTx, nSalt, nRare, kept>>
  BY LockMarkEffect DEF LogInv
<1>2. CASE Retries(c)
  BY <1>1, <1>2, RetriesData
<1>3. CASE conn'[c].pc = "check" /\ conn'[c].hdr = conn[c].hdr /\ KeepsWrite(c)
  <2>1. nb' = nb
    BY <1>1 DEF nb
  <2>2. CASE writeLock = c
    <3>1. Writing(c)
      BY <1>1, <2>2, HeldLocks DEF LogInv, Writing
    <3> QED
      BY <1>1, <1>3, <2>1, <2>2, <3>1, QuietWriterData DEF KeepsWrite
  <2>3. CASE writeLock # c
    BY <1>1, <1>3, <2>1, <2>3, QuietTryData
  <2> QED
    BY <2>2, <2>3
<1> QED
  BY <1>1, <1>2, <1>3

LEMMA CheckMarkData ==
    ASSUME LogInv, LogInv', DataInv, NEW c \in Conns, CheckMark(c)
    PROVE  DataInv'
<1>1. /\ Sets(c, conn'[c]) /\ conn[c].pc = "check"
      /\ \/ Retries(c) /\ cache' = cache
         \/ /\ shm.hdr = conn[c].hdr /\ writeLock = c /\ conn'[c].pc = "header"
            /\ conn'[c].hdr = conn[c].hdr /\ KeepsWrite(c) /\ cache' = cache
         \/ /\ shm.hdr = conn[c].hdr /\ writeLock # c
            /\ Reads(c, conn[c].hdr, conn[c].readLock)
            /\ Fill(c, ImageOf(conn[c].minFrame, conn[c].hdr.mxFrame))
      /\ UNCHANGED <<wal, db, shm, writeLock, ckptLock, nTx, nSalt, nRare, kept>>
  BY CheckMarkEffect DEF LogInv
<1>2. Live /\ conn[c].pc \notin CkptPcs /\ conn[c].readLock > 0 /\ nb' = nb
  <2>1. conn[c].readLock > 0
    BY <1>1 DEF LogInv, LockInv, LockInvOf
  <2> QED
    BY <1>1, <2>1, HeldLocks, PcParts DEF LogInv, nb
<1>3. CASE Retries(c) /\ cache' = cache
  BY <1>1, <1>3, RetriesData
<1>4. CASE /\ writeLock = c /\ conn'[c].pc = "header"
           /\ conn'[c].hdr = conn[c].hdr /\ KeepsWrite(c) /\ cache' = cache
  <2>1. Writing(c) /\ "header" \in WritePcs
    BY <1>1, <1>4, HeldLocks, PcParts DEF LogInv, Writing
  <2> QED
    BY <1>1, <1>2, <1>4, <2>1, QuietWriterData DEF KeepsWrite
<1>5. CASE /\ shm.hdr = conn[c].hdr /\ writeLock # c
           /\ Reads(c, conn[c].hdr, conn[c].readLock)
           /\ Fill(c, ImageOf(conn[c].minFrame, conn[c].hdr.mxFrame))
  <2> DEFINE image == ImageOf(conn[c].minFrame, conn[c].hdr.mxFrame)
  <2>1. image = Store
    <3>1. conn[c].hdr.mxFrame = mx
      BY <1>5 DEF mx
    <3>2. Backfilled(nb, mx)
      BY <1>2 DEF DataInv, FileInv
    <3> QED
      BY <1>2, <3>1, <3>2, FromMinFrame, LiveStore
  <2>2. InTransaction(c)' /\ writeLock' # c /\ conn'[c].readLock > 0
    BY <1>1, <1>2, <1>5, SMTT(30) DEF InTransaction, Reads
  <2>3. View(c)' = image
    <3>1. View(c)' = ImageOf(conn[c].minFrame, conn[c].hdr.mxFrame)'
      BY <2>2, ViewIsNext DEF LogInv
    <3> QED
      BY <1>1, <1>5, <3>1 DEF ImageOf, FindFrame, Reads
  <2>4. shm.hdr.isInit /\ ~InTransaction(c) /\ CacheInvOf(c)
    BY <1>1, <1>2, <1>5 DEF Live, InTransaction, DataInv
  <2>5. CacheInvOf(c)'
    <3> HIDE DEF image
    <3> QED
      BY <1>2, <1>5, <2>1, <2>2, <2>3, <2>4, FilledCache DEF image
  <2>6. \A d \in Conns \ {c} : cache'[d] = cache[d]
    BY <1>5 DEF Fill, LogInv, TypeInv
  <2>7. conn'[c].pc = "read"
    BY <1>5 DEF Reads
  <2> QED
    BY <1>1, <1>2, <1>5, <2>5, <2>6, <2>7, QuietReaderData
<1> QED
  BY <1>1, <1>3, <1>4, <1>5


-----------------------------------------------------------------------------
(* Write transactions *)

LEMMA QuietBackfilled ==
    ASSUME Backfilled(nb, mx), UNCHANGED <<wal, db>>, nb' = nb, mx' = mx
    PROVE  Backfilled(nb, mx)'
<1>1. BackfilledBy(wal.frames, db, nb, mx)
  BY OfFiles
<1>2. BackfilledBy(wal'.frames, db', nb', mx')
  BY <1>1
<1> QED
  BY <1>2 DEF Backfilled, BackfilledBy, FindFrame, LastFrame

LEMMA BeginWriteData ==
    ASSUME LogInv, LogInv', DataInv, NEW c \in Conns, BeginWrite(c)
    PROVE  DataInv'
<1>1. /\ Sets(c, conn'[c]) /\ conn[c].pc = "read" /\ writeLock = None /\ conn[c].hdr = shm.hdr
      /\ conn'[c].pc = "write" /\ conn'[c].hdr = conn[c].hdr /\ KeepsWrite(c)
      /\ writeLock' = c /\ nTx' = nTx + 1
      /\ UNCHANGED <<wal, db, shm, ckptLock, cache, nSalt, nRare, kept>>
  BY BeginWriteEffect DEF LogInv
<1>2. Live /\ OwnLocks(c) /\ Writing(c)' /\ nb' = nb /\ ~conn[c].pChange
  <2>1. ckptLock # c /\ Live
    BY <1>1, HeldLocks DEF LogInv
  <2>2. OwnLocks(c)
    BY <1>1, OwnLocksIntro DEF LogInv
  <2>3. ~conn[c].pChange
    BY <1>1 DEF LogInv, PosInv, ReaderInv
  <2> QED
    BY <1>1, <2>1, <2>2, <2>3 DEF Writing, nb
<1>3. Live' /\ mx' = mx /\ Store' = Store
  BY <1>1, <1>2, QuietViews
<1>4. WriterFileInv(c)'
  <2>1. ~(mx' < conn'[c].hdr.mxFrame)
    <3>1. conn'[c].hdr.mxFrame = mx' /\ mx \in Nat
      BY <1>1, <1>3, Fields DEF LogInv, mx
    <3> QED
      BY <1>3, <3>1
  <2> QED
    BY <1>1, <1>2, <2>1, WriterFileIs DEF WriterFile, KeepsWrite
<1>5. CkptFileInv(c)'
  BY <1>1 DEF CkptFileInv
<1>6. Committing' = Committing
  BY <1>1, SameCommitting
<1>7. Backfilled(nb, mx) /\ Backfilled(nb, mx)'
  BY <1>1, <1>2, <1>3, QuietBackfilled DEF DataInv, FileInv
<1>8. cache[c] = View(c) /\ View(c) = Store
  <2>1. InTransaction(c)
    BY <1>1 DEF InTransaction
  <2>2. View(c) = Store
    BY <1>1, <1>7, CurrentReader DEF mx
  <2> QED
    BY <2>1, <2>2 DEF DataInv, CacheInvOf
<1>9. CacheInvOf(c)'
  <2>1. InTransaction(c)' /\ View(c)' = Store'
    BY <1>2, <1>7, WritersViewNext
  <2> QED
    BY <1>1, <1>3, <1>8, <2>1 DEF CacheInvOf
<1> QED
  BY <1>1, <1>2, <1>4, <1>5, <1>6, <1>9, QuietData

LEMMA WalFramesData ==
    ASSUME LogInv, LogInv', DataInv, NEW c \in Conns, NEW P \in SUBSET Pages,
           NEW commit \in BOOLEAN, WalFrames(c, P, commit)
    PROVE  DataInv'
<1>1. /\ Sets(c, conn'[c]) /\ conn[c].pc = "write"
      /\ conn'[c].pc \in {"restartLog", "header"} /\ conn'[c].hdr = conn[c].hdr
      /\ conn'[c].iReCksum = conn[c].iReCksum /\ conn'[c].pChange = conn[c].pChange
      /\ UNCHANGED <<wal, db, shm, writeLock, ckptLock, cache, nTx, nSalt, kept>>
  BY WalFramesEffect DEF LogInv
<1>2. Writing(c)
  BY <1>1, HeldLocks, PcParts DEF LogInv, Writing
<1>3. "write" \in WritePcs /\ "restartLog" \in WritePcs /\ "header" \in WritePcs
  BY PcParts
<1> QED
  BY <1>1, <1>2, <1>3, QuietWriterData DEF nb

LEMMA RollbackData ==
    ASSUME LogInv, LogInv', DataInv, NEW c \in Conns, Rollback(c)
    PROVE  DataInv'
<1>1. /\ Sets(c, conn'[c]) /\ conn[c].pc \in {"write", "header", "frames", "recksum"}
      /\ Reads(c, shm.hdr, conn[c].readLock) /\ writeLock' = None
      /\ UNCHANGED <<wal, db, shm, ckptLock, cache, nTx, nSalt, kept>>
  BY RollbackEffect DEF LogInv
<1>2. Live /\ OwnLocks(c) /\ Writing(c) /\ nb' = nb /\ c # None
  <2>1. writeLock = c /\ ckptLock # c /\ Live /\ c # None
    BY <1>1, HeldLocks, PcParts, WalConstants DEF LogInv
  <2> QED
    BY <1>1, <2>1, OwnLocksIntro DEF LogInv, Writing, nb
<1>3. Live' /\ mx' = mx /\ Store' = Store
  BY <1>1, <1>2, QuietViews
<1>4. WriterFileInv(c)' /\ ~Writing(c)'
  BY <1>1, <1>2 DEF WriterFileInv, Writing
<1>5. CkptFileInv(c)'
  BY <1>1 DEF CkptFileInv, Reads
<1>6. Committing' = Committing
  BY <1>1, SameCommitting DEF Reads
<1>7. Backfilled(nb, mx) /\ Backfilled(nb, mx)'
  BY <1>1, <1>2, <1>3, QuietBackfilled DEF DataInv, FileInv
<1>8. cache[c] = Store
  BY <1>2, <1>7, WritersView DEF DataInv, CacheInvOf
<1>9. CacheInvOf(c)'
  <2>1. LogInv' /\ Backfilled(nb, mx)' /\ conn'[c].pc = "read" /\
        conn'[c].hdr.aSalt = shm'.hdr.aSalt /\ conn'[c].hdr.mxFrame = mx' => View(c)' = Store'
    BY CurrentReaderNext
  <2>2. View(c)' = Store' /\ InTransaction(c)'
    BY <1>1, <1>3, <1>7, <2>1 DEF Reads, InTransaction, mx
  <2> QED
    BY <1>1, <1>3, <1>4, <1>8, <2>2 DEF CacheInvOf
<1> QED
  BY <1>1, <1>2, <1>4, <1>5, <1>6, <1>9, QuietData


\* The writer alone commits.
LEMMA NotCommitting ==
    ASSUME LogInv, NEW c \in Conns, writeLock = c, ~(conn[c].pc = "publish" /\ conn[c].isCommit)
    PROVE  Committing = {}
<1> SUFFICES ASSUME NEW d \in Conns, conn[d].pc = "publish", conn[d].isCommit
             PROVE  FALSE
  BY DEF Committing
<1>1. writeLock = d
  BY HeldLocks, PcParts DEF LogInv
<1> QED
  BY <1>1

LEMMA NoFrames ==
    ASSUME NEW frames, NEW d, NEW n
    PROVE  BackfilledBy(frames, d, n, 0)
<1>1. ASSUME NEW p
      PROVE  ~(1 <= LastFrame(frames, p, 1, 0))
  <2>1. LastFrame(frames, p, 1, 0) = 0 \/ LastFrame(frames, p, 1, 0) \in 1..0
    BY LastFrameProps
  <2> QED
    BY <2>1
<1> QED
  BY <1>1 DEF BackfilledBy

LEMMA EmptyLog ==
    ASSUME NEW frames, NEW d \in Image
    PROVE  Img(frames, d, 1, 0) = d
BY NoFrames, BackfilledAll

LEMMA RestartsFile ==
    ASSUME LogInv, FileInv, NEW c \in Conns, Restarts(c), Live, conn[c].hdr.isInit,
           nb = mx, Committing = {}, UNCHANGED <<wal, db>>
    PROVE  Live' /\ FileInv' /\ Outdated' /\ mx' = 0 /\ Store' = Store /\ NoTwin(c)
           /\ nb' = nb
<1> DEFINE h == RestartedHdr(conn[c].hdr)
<1>1. /\ shm'.hdr = h /\ h.mxFrame = 0 /\ h.aSalt = nSalt + 1 /\ h.isInit
      /\ shm'.open = shm.open /\ nb' = nb
  BY DEF Restarts, KeepsShm, nb
<1> HIDE DEF h
<1>2. Live' /\ mx' = 0
  BY <1>1 DEF Live, mx
<1>3. wal.hdr \in Nat /\ nSalt \in Nat /\ wal.hdr <= nSalt /\ db \in Image /\ mx \in 0..Len(wal.frames)
  <2>1. wal.hdr <= nSalt /\ mx <= Len(wal.frames)
    BY DEF LogInv, PosInv, ShapeInv
  <2> QED
    BY <2>1, Fields DEF LogInv, TypeInv, mx
<1>4. wal.hdr < h.aSalt
  BY <1>1, <1>3
<1>5. LiveFile(wal.hdr, wal.frames, db, nb, shm.hdr, FALSE)
  BY FileInvIs
<1>6. BackfilledBy(wal.frames, db, mx, mx)
  BY <1>5 DEF LiveFile, mx
<1>7. Img(wal.frames, db, 1, mx) = db
  BY <1>3, <1>6, BackfilledAll
<1>8. \E k \in 0..Len(wal.frames) : EndsAt(wal.hdr, wal.frames, k) /\ db = Img(wal.frames, db, 1, k)
  <2>1. CASE wal.hdr < shm.hdr.aSalt
    BY <1>5, <2>1 DEF LiveFile
  <2>2. CASE ~(wal.hdr < shm.hdr.aSalt)
    <3>1. EndsAt(wal.hdr, wal.frames, mx)
      BY <1>5, <2>2 DEF LiveFile, mx
    <3> QED
      BY <1>3, <1>7, <3>1
  <2> QED
    BY <2>1, <2>2
<1>9. LiveFile(wal.hdr, wal.frames, db, nb, h, Committing' # {})
  <2>1. BackfilledBy(wal.frames, db, nb, h.mxFrame) /\ ~(h.mxFrame > 0)
    BY <1>1, NoFrames
  <2> QED
    BY <1>4, <1>5, <1>8, <2>1 DEF LiveFile
<1>10. FileInv'
  BY <1>1, <1>2, <1>9, FileInvIs
<1>11. Store' = Store
  <2>1. Store = db
    BY <1>7, LiveStore, FindFrameIsLast
  <2>2. Store' = Img(wal'.frames, db', 1, 0)
    BY <1>2 DEF Live, Store, ImageOf, FindFrame, Img, LastFrame, mx
  <2> QED
    BY <1>3, <2>1, <2>2, EmptyLog
<1>12. NoTwin(c)
  <2>1. ASSUME NEW d \in Conns \ {c}
        PROVE  conn[d].hdr.aSalt # h.aSalt
    <3>1. conn[d].hdr.aSalt \in Nat /\ conn[d].hdr.aSalt <= nSalt
      BY ConnFields DEF LogInv, PosInv, ShapeInv
    <3> QED
      BY <1>1, <1>3, <3>1
  <2> QED
    BY <1>1, <2>1 DEF NoTwin
<1>13. Outdated'
  BY <1>1, <1>4 DEF Outdated
<1> QED
  BY <1>1, <1>2, <1>10, <1>11, <1>12, <1>13

LEMMA RestartLogData ==
    ASSUME LogInv, LogInv', DataInv, NEW c \in Conns, RestartLog(c)
    PROVE  DataInv'
<1>1. /\ Sets(c, conn'[c]) /\ conn[c].pc = "restartLog" /\ conn'[c].iReCksum = conn[c].iReCksum
      /\ \/ conn'[c].pc = "restartInfo" /\ Restarts(c) /\ conn'[c].pChange
         \/ /\ conn'[c].pc = "mark" /\ shm' = shm
            /\ conn'[c].hdr = conn[c].hdr /\ conn'[c].pChange = conn[c].pChange
      /\ UNCHANGED <<wal, db, writeLock, ckptLock, cache, nTx, nRare, kept>>
  BY RestartLogEffect DEF LogInv
<1>2. Writing(c) /\ writeLock = c /\ Live /\ conn[c].hdr.isInit /\ OwnLocks(c) /\ Writing(c)'
  BY <1>1, HeldLocks, PcParts, OwnLocksIntro DEF LogInv, Writing
<1>3. CASE conn'[c].pc = "restartInfo" /\ Restarts(c) /\ conn'[c].pChange
  <2>1. nb = mx
    BY <1>1, <1>2 DEF LogInv, PosInv, WriterInv, LockInv, LockInvOf
  <2>2. Committing = {}
    BY <1>1, <1>2, NotCommitting
  <2>3. Live' /\ FileInv' /\ Outdated' /\ mx' = 0 /\ Store' = Store /\ NoTwin(c) /\ nb' = nb
    BY <1>1, <1>2, <1>3, <2>1, <2>2, RestartsFile DEF DataInv
  <2>4. WriterFileInv(c)'
    <3>1. /\ conn'[c].hdr = shm'.hdr /\ conn'[c].hdr.mxFrame = 0 /\ wal'.hdr < shm'.hdr.aSalt
          /\ ~(0 < 0)
      BY <1>3, <2>3 DEF Restarts, Outdated
    <3> QED
      BY <1>3, <2>3, <3>1, WriterFileIs DEF WriterFile
  <2>5. CkptFileInv(c)'
    BY <1>3 DEF CkptFileInv
  <2>6. Backfilled(nb, mx) /\ Backfilled(nb, mx)'
    BY <1>2, <2>3 DEF DataInv, FileInv
  <2>7. CacheInvOf(c)'
    BY <1>1, <1>2, <2>3, <2>6, WritersCache DEF DataInv
  <2> QED
    BY <1>1, <1>2, <2>3, <2>4, <2>5, <2>7, DataStep
<1>4. CASE /\ conn'[c].pc = "mark" /\ shm' = shm
           /\ conn'[c].hdr = conn[c].hdr /\ conn'[c].pChange = conn[c].pChange
  BY <1>1, <1>2, <1>4, QuietWriterData, PcParts DEF nb
<1> QED
  BY <1>1, <1>3, <1>4


LEMMA InfoFile ==
    ASSUME LogInv, FileInv, Live, mx = 0, UNCHANGED <<wal, db>>, shm'.hdr = shm.hdr,
           shm'.open = shm.open, Committing' = Committing
    PROVE  Live' /\ FileInv' /\ mx' = 0 /\ Store' = Store
<1>1. Live' /\ mx' = mx /\ Store' = Store
  BY QuietViews
<1>2. BackfilledBy(wal.frames, db, nb', shm.hdr.mxFrame)
  BY NoFrames DEF mx
<1> QED
  BY <1>1, <1>2, FileInvIs DEF LiveFile

LEMMA RestartInfoData ==
    ASSUME LogInv, LogInv', DataInv, NEW c \in Conns, RestartInfo(c)
    PROVE  DataInv'
<1>1. /\ Sets(c, conn'[c]) /\ conn[c].pc = "restartInfo" /\ conn'[c].pc = "mark"
      /\ conn'[c].hdr = conn[c].hdr /\ KeepsWrite(c)
      /\ shm'.hdr = shm.hdr /\ shm'.open = shm.open
      /\ UNCHANGED <<wal, db, writeLock, ckptLock, cache, nTx, nSalt, nRare, kept>>
  BY RestartInfoEffect DEF LogInv
<1>2. Writing(c) /\ writeLock = c /\ Live /\ OwnLocks(c) /\ Writing(c)'
  BY <1>1, HeldLocks, PcParts, OwnLocksIntro DEF LogInv, Writing
<1>3. mx = 0
  BY <1>1, <1>2 DEF LogInv, PosInv, WriterInv
<1>4. Committing' = Committing
  BY <1>1, SameCommitting
<1>5. Live' /\ FileInv' /\ mx' = 0 /\ Store' = Store
  BY <1>1, <1>2, <1>3, <1>4, InfoFile DEF DataInv
<1>6. WriterFileInv(c)'
  BY <1>1, <1>2, KeptWriterFile DEF DataInv, KeepsWrite
<1>7. CkptFileInv(c)'
  BY <1>1 DEF CkptFileInv
<1>8. Backfilled(nb, mx) /\ Backfilled(nb, mx)'
  BY <1>2, <1>5 DEF DataInv, FileInv
<1>9. CacheInvOf(c)'
  BY <1>1, <1>2, <1>5, <1>8, WritersCache DEF DataInv
<1>10. NoTwin(c)
  BY <1>1 DEF NoTwin
<1> QED
  BY <1>1, <1>2, <1>3, <1>5, <1>6, <1>7, <1>9, <1>10, DataStep

LEMMA EndsNowhere ==
    ASSUME NEW salt, NEW frames, Len(frames) \in Nat,
           \A n \in 1..Len(frames) : frames[n].aSalt # salt
    PROVE  EndsAt(salt, frames, 0)
<1>1. 0 \in 0..Len(frames) /\ ~(0 > 0) /\ \A n \in 1..0 : Decodes(salt, frames, n)
  OBVIOUS
<1> QED
  BY <1>1 DEF EndsAt

\* The file gets the header of a new log.
LEMMA HeaderFile ==
    ASSUME LogInv, FileInv, Live, Live', mx = 0, NEW salt \in Nat, wal'.hdr = salt,
           wal'.frames = wal.frames, db' = db, shm'.hdr = shm.hdr, shm.hdr.aSalt <= salt,
           wal.hdr < salt
    PROVE  FileInv' /\ Store' = Store
<1>1. wal.hdr \in Nat /\ Len(wal.frames) \in Nat /\ shm.hdr.aSalt \in Nat
      /\ \A n \in 1..Len(wal.frames) : wal.frames[n].aSalt \in Nat
  BY Fields, FrameFields DEF LogInv
<1>2. \A n \in 1..Len(wal.frames) : wal.frames[n].aSalt <= wal.hdr
  BY DEF FileInv
<1>3. \A n \in 1..Len(wal.frames) : wal.frames[n].aSalt <= salt /\ wal.frames[n].aSalt # salt
  BY <1>1, <1>2
<1>4. EndsAt(salt, wal.frames, 0)
  BY <1>1, <1>3, EndsNowhere
<1>5. BackfilledBy(wal.frames, db, nb', 0)
  BY NoFrames
<1>6. LiveFile(salt, wal.frames, db, nb', shm.hdr, Committing' # {})
  <2>1. shm.hdr.mxFrame = 0 /\ ~(0 > 0) /\ ~(salt < shm.hdr.aSalt)
    BY <1>1 DEF mx
  <2> QED
    BY <1>3, <1>4, <1>5, <2>1 DEF LiveFile
<1>7. FileInv'
  BY <1>6, FileInvIs
<1>8. Store' = Store
  BY SameStore DEF mx
<1> QED
  BY <1>7, <1>8

LEMMA WriteHeaderData ==
    ASSUME LogInv, LogInv', DataInv, NEW c \in Conns, NEW salt \in 1..(nSalt + 1),
           WriteHeader(c, salt)
    PROVE  DataInv'
<1>1. /\ Sets(c, conn'[c]) /\ conn[c].pc = "header" /\ conn[c].hdr.mxFrame = 0 /\ NeedsHeader(c)
      /\ IF conn[c].pChange THEN salt = conn[c].hdr.aSalt
         ELSE salt \in {conn[c].hdr.aSalt, nSalt + 1} \ {0}
      /\ wal'.hdr = salt /\ wal'.frames = wal.frames
      /\ conn'[c].pc = "frames" /\ conn'[c].hdr.mxFrame = 0 /\ conn'[c].hdr.aSalt = salt
      /\ conn'[c].hdr.aFrameCksum = HeaderCksum(salt) /\ conn'[c].iFrame = 0
      /\ conn'[c].iReCksum = conn[c].iReCksum /\ conn'[c].pChange = conn[c].pChange
      /\ UNCHANGED <<db, shm, writeLock, ckptLock, cache, nTx, nRare, kept>>
  BY WriteHeaderEffect DEF LogInv
<1>2. Writing(c) /\ writeLock = c /\ Live /\ OwnLocks(c) /\ Writing(c)'
  BY <1>1, HeldLocks, PcParts, OwnLocksIntro DEF LogInv, Writing
<1>3. /\ wal.hdr \in Nat /\ nSalt \in Nat /\ wal.hdr <= nSalt /\ shm.hdr.aSalt \in Nat
      /\ shm.hdr.aSalt <= nSalt /\ mx \in Nat /\ salt \in Nat /\ salt > 0
      /\ conn[c].iReCksum \in Nat
  BY Fields, ConnFields DEF LogInv, TypeInv, PosInv, ShapeInv, mx
<1>4. mx = 0 /\ conn[c].hdr = shm.hdr /\ conn[c].iReCksum = 0
  <2>1. /\ mx <= 0 /\ (conn[c].hdr = shm.hdr \/ mx < 0)
        /\ (conn[c].iReCksum > 0 => mx < conn[c].iReCksum /\ conn[c].iReCksum <= 0)
    BY <1>1, <1>2 DEF LogInv, PosInv, WriterInv
  <2> QED
    BY <1>3, <2>1
<1>5. WriterFile(wal.hdr, wal.frames, mx, shm.hdr.aSalt, conn[c])
  BY <1>2, WriterFileIs DEF DataInv
<1>6. wal.hdr < salt /\ shm.hdr.aSalt <= salt
  <2>1. CASE conn[c].pChange
    BY <1>1, <1>3, <1>5, <2>1 DEF WriterFile
  <2>2. CASE ~conn[c].pChange
    BY <1>1, <1>3, <1>4, <2>2 DEF NeedsHeader
  <2> QED
    BY <2>1, <2>2
<1>7. Live' /\ mx' = mx
  BY <1>1, <1>2 DEF Live, mx
<1>8. FileInv' /\ Store' = Store
  BY <1>1, <1>2, <1>3, <1>4, <1>6, <1>7, HeaderFile DEF DataInv
<1>9. WriterFile(salt, wal'.frames, 0, shm'.hdr.aSalt, conn'[c])
  <2>1. conn'[c].pChange => salt = shm'.hdr.aSalt
    BY <1>1, <1>5, <1>4
  <2>2. conn'[c].hdr.aFrameCksum = ChainOf(salt, wal'.frames, 0)
    BY <1>1, <1>3, ChainStart
  <2>3. \A j \in 1..0 : FALSE
    OBVIOUS
  <2>4. \A j \in (0 + 1)..0 : FALSE
    OBVIOUS
  <2> QED
    BY <1>1, <1>4, <1>6, <2>1, <2>2, <2>3, <2>4 DEF WriterFile
<1>10. WriterFileInv(c)' /\ CkptFileInv(c)'
  BY <1>1, <1>4, <1>7, <1>9, WriterFileIs DEF CkptFileInv
<1>11. Backfilled(nb, mx) /\ Backfilled(nb, mx)'
  BY <1>2, <1>7, <1>8 DEF DataInv, FileInv
<1>12. CacheInvOf(c)'
  BY <1>1, <1>2, <1>8, <1>11, WritersCache DEF DataInv
<1>13. NoTwin(c) /\ nb' = nb
  BY <1>1 DEF NoTwin, nb
<1> QED
  BY <1>1, <1>2, <1>7, <1>8, <1>10, <1>12, <1>13, DataStep


LEMMA KeptHeaderIs ==
    ASSUME NEW h \in Hdrs, NEW a, NEW k, h = [h EXCEPT !.aSalt = a, !.aFrameCksum = k]
    PROVE  h.aSalt = a /\ h.aFrameCksum = k
BY DEF Hdrs

LEMMA KeepHeaderData ==
    ASSUME LogInv, LogInv', DataInv, NEW c \in Conns, KeepHeader(c), ~kept'
    PROVE  DataInv'
<1>1. /\ Sets(c, conn'[c]) /\ conn[c].pc = "header" /\ conn'[c].pc = "frames"
      /\ conn'[c].hdr = conn[c].hdr /\ conn'[c].iFrame = conn[c].hdr.mxFrame
      /\ conn'[c].iReCksum = conn[c].iReCksum /\ conn'[c].pChange = conn[c].pChange
      /\ UNCHANGED <<wal, db, shm, writeLock, ckptLock, cache, nTx, nSalt, nRare>>
      /\ conn[c].hdr.mxFrame = 0 =>
            conn[c].hdr = [conn[c].hdr EXCEPT !.aSalt = wal.hdr,
                                              !.aFrameCksum = HeaderCksum(wal.hdr)]
  BY KeepHeaderEffect DEF LogInv
<1>2. Writing(c) /\ writeLock = c /\ Live /\ OwnLocks(c) /\ Writing(c)'
  BY <1>1, HeldLocks, PcParts, OwnLocksIntro DEF LogInv, Writing
<1>3. /\ mx \in Nat /\ conn[c].hdr \in Hdrs /\ conn[c].hdr.mxFrame \in Nat
      /\ conn[c].iReCksum \in Nat /\ wal.hdr \in Nat /\ shm.hdr.aSalt \in Nat
  BY Fields, ConnFields DEF LogInv, mx
<1>4. /\ mx <= conn[c].hdr.mxFrame /\ (conn[c].hdr = shm.hdr \/ mx < conn[c].hdr.mxFrame)
      /\ conn[c].iReCksum > 0 => mx < conn[c].iReCksum /\ conn[c].iReCksum <= conn[c].hdr.mxFrame
  BY <1>1, <1>2 DEF LogInv, PosInv, WriterInv
<1>5. Live' /\ mx' = mx /\ Store' = Store
  BY <1>1, <1>2, QuietViews
<1>6. WriterFile(wal.hdr, wal.frames, mx, shm.hdr.aSalt, conn[c])
  BY <1>2, WriterFileIs DEF DataInv
<1>7. LiveFile(wal.hdr, wal.frames, db, nb, shm.hdr, FALSE)
  BY <1>1, <1>2, FileInvIs, NotCommitting DEF DataInv
<1> DEFINE m == mx
           n == conn[c].hdr.mxFrame
<1>8. WriterFile(wal.hdr, wal.frames, m, shm.hdr.aSalt, conn'[c])
  <2>1. CASE m < n
    <3>1. \A j \in (m + 1)..n : ~wal.frames[j].commit
      BY <1>1, <1>6, <2>1 DEF WriterFile
    <3> QED
      BY <1>1, <1>6, <2>1, <3>1 DEF WriterFile
  <2>2. CASE ~(m < n)
    <3>1. conn[c].hdr = shm.hdr /\ n = m /\ conn[c].iReCksum = 0
      BY <1>3, <1>4, <2>2
    <3>2. conn[c].hdr.aSalt = wal.hdr /\ conn[c].hdr.aFrameCksum = ChainOf(wal.hdr, wal.frames, n)
      <4>1. CASE n = 0
        <5> DEFINE h == conn[c].hdr
                   k == HeaderCksum(wal.hdr)
        <5>1. h \in Hdrs /\ h = [h EXCEPT !.aSalt = wal.hdr, !.aFrameCksum = k]
          BY <1>1, <1>3, <4>1
        <5>2. k = ChainOf(wal.hdr, wal.frames, 0)
          BY <1>3, ChainStart
        <5> HIDE DEF h, k
        <5>3. h.aSalt = wal.hdr /\ h.aFrameCksum = k
          BY <5>1, KeptHeaderIs
        <5> QED
          BY <4>1, <5>2, <5>3 DEF h
      <4>2. CASE n > 0
        BY <1>7, <3>1, <4>2 DEF LiveFile
      <4> QED
        BY <1>3, <4>1, <4>2
    <3>3. \A j \in 1..n : Decodes(wal.hdr, wal.frames, j)
      BY <1>3, <1>7, <3>1, <3>2 DEF LiveFile, EndsAt
    <3>4. \A j \in (m + 1)..n : FALSE
      BY <1>3, <3>1
    <3>5. shm.hdr.aSalt <= wal.hdr
      BY <1>3, <3>1, <3>2
    <3>6. conn[c].pChange => conn[c].hdr.aSalt = shm.hdr.aSalt /\ m = 0
      BY <1>6 DEF WriterFile
    <3> HIDE DEF m, n
    <3> QED
      BY <1>1, <3>1, <3>2, <3>3, <3>4, <3>5, <3>6 DEF WriterFile, n
  <2> QED
    BY <2>1, <2>2
<1>9. WriterFileInv(c)' /\ CkptFileInv(c)'
  BY <1>1, <1>5, <1>8, WriterFileIs DEF CkptFileInv
<1>10. Backfilled(nb, mx) /\ Backfilled(nb, mx)' /\ nb' = nb
  BY <1>1, <1>2, <1>5, QuietBackfilled DEF DataInv, FileInv, nb
<1>11. CacheInvOf(c)'
  BY <1>1, <1>2, <1>5, <1>10, WritersCache DEF DataInv
<1>12. Committing' = Committing
  BY <1>1, SameCommitting
<1> QED
  BY <1>1, <1>2, <1>9, <1>10, <1>11, <1>12, QuietData

LEMMA AgreeDecodes ==
    ASSUME NEW frames, NEW new, NEW k \in Nat, Agree(frames, new, 1, k)
    PROVE  \A salt : /\ \A i \in 0..k : ChainOf(salt, new, i) = ChainOf(salt, frames, i)
                     /\ \A i \in 1..k : Decodes(salt, new, i) <=> Decodes(salt, frames, i)
<1>1. \A i \in 1..k : new[i] = frames[i] /\ Digest(new[i]) = Digest(frames[i])
  BY DEF Agree
<1>2. \A salt : \A i \in 0..k : ChainOf(salt, new, i) = ChainOf(salt, frames, i)
  BY <1>1, ChainSame
<1>3. \A i \in 1..k : i \in 0..k
  OBVIOUS
<1> QED
  BY <1>1, <1>2, <1>3 DEF Decodes

\* Backfilled is as the frames that are looked at say.
LEMMA SameBackfilled ==
    ASSUME NEW frames, NEW new, NEW d, NEW n, NEW m \in Nat, Agree(frames, new, 1, m),
           BackfilledBy(frames, d, n, m)
    PROVE  BackfilledBy(new, d, n, m)
<1>1. \A p : LastFrame(new, p, 1, m) = LastFrame(frames, p, 1, m)
  BY SameFrames
<1>2. \A p : LastFrame(frames, p, 1, m) = 0 \/ LastFrame(frames, p, 1, m) \in 1..m
  BY LastFrameProps
<1>3. ASSUME NEW p \in Pages, 1 <= LastFrame(frames, p, 1, m), LastFrame(frames, p, 1, m) <= n
      PROVE  d[p] = new[LastFrame(frames, p, 1, m)].val
  <2>1. LastFrame(frames, p, 1, m) \in 1..m
    BY <1>2, <1>3
  <2> QED
    BY <1>3, <2>1 DEF BackfilledBy, Agree
<1> QED
  BY <1>1, <1>3 DEF BackfilledBy

\* A writer puts a frame beyond the shared header.
LEMMA PutFile ==
    ASSUME LogInv, LogInv', FileInv, Live, NEW n, NEW f \in Frames, mx < n,
           n \in 1..(Len(wal.frames) + 1), PutsFrame(n, f), f.aSalt <= wal.hdr,
           UNCHANGED <<db, shm>>, Committing = {}, shm.hdr.aSalt <= wal.hdr,
           Committing' = {} => ~(f.commit /\ f.aSalt = wal.hdr)
    PROVE  /\ Live' /\ FileInv' /\ mx' = mx /\ nb' = nb /\ Store' = Store
           /\ \A i \in 1..mx : wal'.frames[i] = wal.frames[i]
           /\ EndsAt(wal.hdr, wal.frames, mx)
<1> DEFINE frames == wal.frames
           new == wal'.frames
           m == mx
           salt == wal.hdr
<1>1. /\ m \in Nat /\ Len(frames) \in Nat /\ salt \in Nat /\ m <= Len(frames) /\ n \in Nat
      /\ shm.hdr.aSalt \in Nat
  BY Fields DEF LogInv, PosInv, ShapeInv, mx
<1>2. /\ Live' /\ mx' = mx /\ nb' = nb /\ wal'.hdr = salt /\ new[n] = f /\ shm'.hdr = shm.hdr
      /\ Len(new) = IF n > Len(frames) THEN n ELSE Len(frames)
      /\ \A j \in 1..Len(frames) : j # n => new[j] = frames[j]
  BY DEF Live, mx, nb, PutsFrame
<1>3. LiveFile(salt, frames, db, nb, shm.hdr, FALSE)
  BY FileInvIs
<1>4. \A i \in 1..m : new[i] = frames[i] /\ i \in 1..Len(frames)
  BY <1>1, <1>2
<1>5. ~(salt < shm.hdr.aSalt)
  BY <1>1
<1>6. EndsAt(salt, frames, m)
  BY <1>3, <1>5 DEF LiveFile, mx
<1>7. \A i \in 1..Len(new) : new[i].aSalt <= salt
  BY <1>1, <1>2, <1>3 DEF LiveFile
<1>8. Agree(frames, new, 1, m)
  BY <1>4 DEF Agree
<1>9. BackfilledBy(new, db, nb, m)
  <2>1. BackfilledBy(frames, db, nb, m)
    BY <1>3 DEF LiveFile, mx
  <2> HIDE DEF frames, new, m
  <2> QED
    BY <1>1, <1>8, <2>1, SameBackfilled
<1>10. ChainOf(salt, new, m) = ChainOf(salt, frames, m)
       /\ \A i \in 1..m : Decodes(salt, new, i) <=> Decodes(salt, frames, i)
  <2> HIDE DEF frames, new, m
  <2>1. m \in 0..m
    BY <1>1
  <2> QED
    BY <1>1, <1>8, <2>1, AgreeDecodes
<1>11. Committing' = {} => EndsAt(salt, new, m)
  <2> SUFFICES ASSUME Committing' = {}
               PROVE  EndsAt(salt, new, m)
    OBVIOUS
  <2> HIDE DEF salt, frames, new, m
  <2>1. m \in 0..Len(new)
    BY <1>1, <1>2
  <2>2. \A i \in 1..m : Decodes(salt, new, i)
    BY <1>6, <1>10 DEF EndsAt
  <2>3. m > 0 => new[m].commit
    BY <1>1, <1>4, <1>6 DEF EndsAt, m, new, frames
  <2>4. ASSUME NEW i \in (m + 1)..Len(new)
        PROVE  ~(new[i].commit /\ new[i].aSalt = salt)
    <3>1. CASE i = n
      BY <1>2, <3>1 DEF salt, new
    <3>2. CASE i # n
      <4>1. i \in (m + 1)..Len(frames) /\ i \in 1..Len(frames)
        BY <1>1, <1>2, <2>4, <3>2 DEF new, frames
      <4> QED
        BY <1>2, <1>6, <3>2, <4>1 DEF EndsAt, new, frames
    <3> QED
      BY <3>1, <3>2
  <2> QED
    BY <2>1, <2>2, <2>3, <2>4 DEF EndsAt
<1>12. LiveFile(salt, new, db, nb, shm.hdr, Committing' # {})
  <2>1. m > 0 => salt = shm.hdr.aSalt /\ shm.hdr.aFrameCksum = ChainOf(salt, new, m)
    BY <1>3, <1>10 DEF LiveFile, mx
  <2> HIDE DEF salt, new
  <2> QED
    BY <1>5, <1>7, <1>9, <1>11, <2>1 DEF LiveFile, salt, mx
<1>13. FileInv'
  BY <1>2, <1>12, FileInvIs
<1>14. Store' = Store
  BY <1>2, <1>4, SameStore
<1> QED
  BY <1>2, <1>4, <1>6, <1>13, <1>14


\* A writer that writes frames: where it stands, and that no frame of its own commits.
LEMMA WritesFrames ==
    ASSUME LogInv, DataInv, NEW c \in Conns, conn[c].pc = "frames"
    PROVE  /\ Live /\ Writing(c) /\ writeLock = c /\ Committing = {} /\ FileInv
           /\ mx \in Nat /\ conn[c].iFrame \in Nat /\ conn[c].iReCksum \in Nat
           /\ Len(wal.frames) \in Nat /\ wal.hdr \in Nat /\ wal.hdr # 0
           /\ conn[c].hdr.mxFrame \in Nat /\ conn[c].iFirst \in Nat
           /\ mx <= conn[c].hdr.mxFrame /\ conn[c].hdr.mxFrame <= conn[c].iFrame
           /\ conn[c].iFrame <= Len(wal.frames) /\ conn[c].iReCksum <= conn[c].iFrame
           /\ conn[c].iReCksum > 0 => mx < conn[c].iReCksum
           /\ conn[c].iFirst = IF mx < conn[c].hdr.mxFrame THEN mx + 1 ELSE 0
           /\ wal.hdr = conn[c].hdr.aSalt /\ shm.hdr.aSalt <= wal.hdr
           /\ conn[c].iReCksum = 0 =>
                 conn[c].hdr.aFrameCksum = ChainOf(wal.hdr, wal.frames, conn[c].iFrame)
           /\ \A j \in 1..(IF conn[c].iReCksum = 0 THEN conn[c].iFrame ELSE conn[c].iReCksum - 1) :
                 Decodes(wal.hdr, wal.frames, j)
           /\ \A j \in (mx + 1)..conn[c].iFrame : ~wal.frames[j].commit
           /\ conn[c].pChange => conn[c].hdr.aSalt = shm.hdr.aSalt /\ mx = 0
<1>1. Writing(c) /\ writeLock = c /\ Live
  BY HeldLocks, PcParts DEF LogInv, Writing
<1>2. Committing = {}
  BY <1>1, NotCommitting
<1>3. /\ mx \in Nat /\ conn[c].iFrame \in Nat /\ conn[c].iReCksum \in Nat
      /\ Len(wal.frames) \in Nat /\ wal.hdr \in Nat
      /\ conn[c].hdr.mxFrame \in Nat /\ conn[c].iFirst \in Nat
  BY Fields, ConnFields DEF LogInv, mx
<1>4. WriterInv(c)
  BY DEF LogInv, PosInv
<1>5. /\ wal.hdr # 0 /\ mx <= conn[c].hdr.mxFrame /\ conn[c].hdr.mxFrame <= conn[c].iFrame
      /\ conn[c].iFrame <= Len(wal.frames)
      /\ conn[c].iFirst = IF mx < conn[c].hdr.mxFrame THEN mx + 1 ELSE 0
      /\ conn[c].iReCksum > 0 => mx < conn[c].iReCksum /\ conn[c].iReCksum <= conn[c].iFrame
  BY <1>1, <1>4 DEF WriterInv
<1>6. WriterFile(wal.hdr, wal.frames, mx, shm.hdr.aSalt, conn[c])
  BY <1>1, WriterFileIs DEF DataInv
<1>7. conn[c].iReCksum <= conn[c].iFrame
  BY <1>3, <1>5
<1>8. \A j \in (mx + 1)..conn[c].iFrame : ~wal.frames[j].commit
  BY <1>6 DEF WriterFile
<1> QED
  BY <1>1, <1>2, <1>3, <1>5, <1>6, <1>7, <1>8 DEF WriterFile, DataInv

\* The frame a writer appends, as the frame before it and the private header say.
LEMMA NewFrameIs ==
    ASSUME NEW c \in Conns, NEW p
    PROVE  /\ NewFrame(c, p).commit = CommitsNow(c, p)
           /\ NewFrame(c, p).aSalt = IF conn[c].iReCksum = 0 THEN conn[c].hdr.aSalt ELSE 0
           /\ conn[c].iReCksum = 0 => NewFrame(c, p).aFrameCksum = NewCksum(c, p)
           /\ Digest(NewFrame(c, p)) = NewDigest(c, p)
           /\ NewCksum(c, p) = Append(conn[c].hdr.aFrameCksum, NewDigest(c, p))
BY DEF NewFrame, NewDigest, NewCksum, Digest

LEMMA AppendFile ==
    ASSUME LogInv, LogInv', DataInv, NEW c \in Conns, Sets(c, conn'[c]), conn[c].pc = "frames",
           KeepsLoop(c), UNCHANGED <<db, shm>>, NEW p \in conn[c].todo,
           NEW n, n = conn[c].iFrame + 1, AppendsAt(c, p, n)
    PROVE  /\ Live' /\ FileInv' /\ mx' = mx /\ nb' = nb /\ Store' = Store
           /\ \A i \in 1..mx : wal'.frames[i] = wal.frames[i]
           /\ WriterFile(wal'.hdr, wal'.frames, mx', shm'.hdr.aSalt, conn'[c])
<1> DEFINE frames == wal.frames
           new == wal'.frames
           m == mx
           k == conn[c].iFrame
           salt == wal.hdr
           r == conn[c]
           s == conn'[c]
           f == NewFrame(c, p)
           now == CommitsNow(c, p)
<1>1. /\ Live /\ Committing = {} /\ FileInv /\ m \in Nat /\ k \in Nat /\ r.iReCksum \in Nat
      /\ Len(frames) \in Nat /\ salt \in Nat /\ salt # 0 /\ m <= k /\ k <= Len(frames)
      /\ r.iReCksum <= k /\ salt = r.hdr.aSalt /\ shm.hdr.aSalt <= salt
      /\ r.iReCksum = 0 => r.hdr.aFrameCksum = ChainOf(salt, frames, k)
      /\ \A j \in 1..(IF r.iReCksum = 0 THEN k ELSE r.iReCksum - 1) : Decodes(salt, frames, j)
      /\ \A j \in (m + 1)..k : ~frames[j].commit
      /\ r.pChange => r.hdr.aSalt = shm.hdr.aSalt /\ m = 0
  BY WritesFrames
<1>2. /\ n = k + 1 /\ n \in 1..(Len(frames) + 1) /\ f \in Frames /\ PutsFrame(n, f)
      /\ s.pc = (IF now /\ r.iReCksum > 0 THEN "recksum"
                 ELSE IF r.todo \ {p} # {} THEN "frames" ELSE "publish")
      /\ s.iFrame = n /\ s.iReCksum = r.iReCksum /\ s.pChange = r.pChange
      /\ s.isCommit = r.isCommit /\ s.hdr.aSalt = r.hdr.aSalt /\ s.hdr.mxFrame = r.hdr.mxFrame
      /\ s.hdr.aFrameCksum = IF r.iReCksum = 0 THEN NewCksum(c, p) ELSE r.hdr.aFrameCksum
  BY DEF AppendsAt, KeepsLoop, NextPc
<1>3. /\ f.commit = now /\ f.aSalt = (IF r.iReCksum = 0 THEN salt ELSE 0)
      /\ r.iReCksum = 0 => f.aFrameCksum = NewCksum(c, p)
      /\ Digest(f) = NewDigest(c, p)
      /\ NewCksum(c, p) = Append(r.hdr.aFrameCksum, NewDigest(c, p))
  BY <1>1, NewFrameIs
<1>4. now <=> r.isCommit /\ r.todo \ {p} = {}
  BY DEF CommitsNow
<1>5. Committing' = {} => ~(f.commit /\ f.aSalt = salt)
  <2> SUFFICES ASSUME f.commit, f.aSalt = salt
               PROVE  c \in Committing'
    OBVIOUS
  <2>1. r.iReCksum = 0
    BY <1>1, <1>3
  <2>2. s.pc = "publish" /\ s.isCommit
    BY <1>2, <1>3, <1>4, <2>1
  <2> QED
    BY <2>2 DEF Committing
<1>6. f.aSalt <= salt
  BY <1>1, <1>3
<1>7. /\ Live' /\ FileInv' /\ mx' = m /\ nb' = nb /\ Store' = Store
      /\ \A i \in 1..m : new[i] = frames[i]
      /\ EndsAt(salt, frames, m)
  <2> HIDE DEF f
  <2>1. m < n
    BY <1>1, <1>2
  <2> QED
    BY <1>1, <1>2, <1>5, <1>6, <2>1, PutFile
<1>8. /\ wal'.hdr = salt /\ shm'.hdr = shm.hdr /\ new[n] = f
      /\ Len(new) = IF n > Len(frames) THEN n ELSE Len(frames)
      /\ \A j \in 1..Len(frames) : j # n => new[j] = frames[j]
  BY <1>2 DEF PutsFrame
<1>9. Agree(frames, new, 1, k)
  BY <1>1, <1>2, <1>8 DEF Agree
<1>10. /\ \A i \in 0..k : ChainOf(salt, new, i) = ChainOf(salt, frames, i)
       /\ \A i \in 1..k : Decodes(salt, new, i) <=> Decodes(salt, frames, i)
  <2> HIDE DEF frames, new, k, salt
  <2> QED
    BY <1>1, <1>9, AgreeDecodes
<1>11. r.iReCksum = 0 => /\ NewCksum(c, p) = ChainOf(salt, new, n)
                         /\ \A j \in 1..n : Decodes(salt, new, j)
  <2> SUFFICES ASSUME r.iReCksum = 0
               PROVE  /\ NewCksum(c, p) = ChainOf(salt, new, n)
                      /\ \A j \in 1..n : Decodes(salt, new, j)
    OBVIOUS
  <2>1. new \in Seq(Frames) /\ \A i \in 1..Len(new) : new[i] \in Frames
    BY FieldsNext DEF LogInv
  <2>2. \A i \in 1..(k + 1) : new[i] \in Frames
    BY <1>1, <1>2, <1>8, <2>1
  <2>3. ChainOf(salt, new, k + 1) = Append(ChainOf(salt, new, k), Digest(new[k + 1]))
    <3> HIDE DEF salt, new, k
    <3> QED
      BY <1>1, <2>2, ChainNext
  <2>4. k \in 0..k
    BY <1>1
  <2>5. NewCksum(c, p) = ChainOf(salt, new, n)
    <3> HIDE DEF salt, frames, new, k, r, f
    <3> QED
      BY <1>1, <1>2, <1>3, <1>8, <1>10, <2>3, <2>4
  <2>6. Decodes(salt, new, n)
    <3> HIDE DEF salt, frames, new, k, r, f
    <3> QED
      BY <1>3, <1>8, <2>5 DEF Decodes
  <2>7. \A j \in 1..k : Decodes(salt, new, j)
    BY <1>1, <1>10
  <2>8. \A j \in 1..n : j = n \/ j \in 1..k
    BY <1>1, <1>2
  <2> HIDE DEF salt, new
  <2> QED
    BY <2>5, <2>6, <2>7, <2>8
<1>12. \A j \in (m + 1)..n : new[j].commit => j = n /\ now
  <2>1. \A j \in (m + 1)..n : j = n \/ (j \in (m + 1)..k /\ j \in 1..Len(frames))
    BY <1>1, <1>2
  <2> QED
    BY <1>1, <1>3, <1>8, <2>1
<1>13. r.iReCksum # 0 => \A j \in 1..(r.iReCksum - 1) : Decodes(salt, new, j)
  <2> SUFFICES ASSUME r.iReCksum # 0, NEW j \in 1..(r.iReCksum - 1)
               PROVE  Decodes(salt, new, j)
    OBVIOUS
  <2>1. j \in 1..k
    BY <1>1
  <2>2. Decodes(salt, frames, j)
    BY <1>1
  <2> QED
    BY <1>10, <2>1, <2>2
<1>14. s.pc = "publish" /\ s.isCommit => r.iReCksum = 0 /\ now
  BY <1>1, <1>2, <1>4
<1>15. ASSUME s.pc = "publish", s.isCommit
       PROVE  EndsAt(salt, new, n)
  <2> HIDE DEF salt, frames, new, f
  <2>1. n \in 0..Len(new)
    BY <1>1, <1>2, <1>8
  <2>2. \A j \in 1..n : Decodes(salt, new, j)
    BY <1>11, <1>14, <1>15
  <2>3. new[n].commit
    BY <1>3, <1>8, <1>14, <1>15
  <2>4. ASSUME NEW i \in (n + 1)..Len(new)
        PROVE  ~(new[i].commit /\ new[i].aSalt = salt)
    <3>1. i \in (m + 1)..Len(frames) /\ i \in 1..Len(frames) /\ i # n
      BY <1>1, <1>2, <1>8, <2>4
    <3>2. new[i] = frames[i]
      BY <1>8, <3>1
    <3> QED
      BY <1>7, <3>1, <3>2 DEF EndsAt
  <2> QED
    BY <2>1, <2>2, <2>3, <2>4 DEF EndsAt
<1>16. s.pc = "recksum" => now
  BY <1>2
<1>17. s.pc \in {"frames", "recksum", "publish"}
  BY <1>2
<1>18. s.pc = "publish" /\ now => s.isCommit
  BY <1>2, <1>4
<1>19. s.pc = "recksum" => r.iReCksum > 0
  BY <1>2
<1>20. now => s.pc \in {"recksum", "publish"} /\ s.isCommit
  BY <1>2, <1>4
<1>21. r.iReCksum = 0 => s.hdr.aFrameCksum = ChainOf(salt, new, n)
  BY <1>2, <1>11
<1>22. \A j \in 1..(IF s.iReCksum = 0 THEN n ELSE s.iReCksum - 1) : Decodes(salt, new, j)
  BY <1>2, <1>11, <1>13
<1>23. s.pc = "recksum" => new[n].aSalt = 0
  BY <1>3, <1>8, <1>19
<1>24. now => new[n].commit
  BY <1>3, <1>8
<1> HIDE DEF frames, new, m, k, salt, r, s, f, now
<1>25. WriterFile(salt, new, m, shm.hdr.aSalt, s)
  BY <1>1, <1>2, <1>12, <1>14, <1>15, <1>16, <1>17, <1>20, <1>21, <1>22, <1>23, <1>24
     DEF WriterFile
<1> QED
  BY <1>7, <1>8, <1>25 DEF frames, new, m, s

\* A page rewritten in place keeps the rest of its frame.
LEMMA OverwrittenFrame ==
    ASSUME NEW f \in Frames, NEW v, v \in 1..(2 * MaxTx)
    PROVE  /\ [f EXCEPT !.val = v] \in Frames /\ [f EXCEPT !.val = v].commit = f.commit
           /\ [f EXCEPT !.val = v].aSalt = f.aSalt
BY DEF Frames

LEMMA OverwriteFile ==
    ASSUME LogInv, LogInv', DataInv, NEW c \in Conns, Sets(c, conn'[c]), conn[c].pc = "frames",
           KeepsLoop(c), UNCHANGED <<db, shm>>, NEW p \in conn[c].todo,
           NEW i \in Nat, OverwritesAt(c, p, i)
    PROVE  /\ Live' /\ FileInv' /\ mx' = mx /\ nb' = nb /\ Store' = Store
           /\ \A j \in 1..mx : wal'.frames[j] = wal.frames[j]
           /\ WriterFile(wal'.hdr, wal'.frames, mx', shm'.hdr.aSalt, conn'[c])
<1> DEFINE frames == wal.frames
           new == wal'.frames
           m == mx
           k == conn[c].iFrame
           salt == wal.hdr
           r == conn[c]
           s == conn'[c]
           f == [frames[i] EXCEPT !.val = Content(r)]
           now == CommitsNow(c, p)
<1>1. /\ Live /\ Committing = {} /\ FileInv /\ m \in Nat /\ k \in Nat /\ r.iReCksum \in Nat
      /\ Len(frames) \in Nat /\ salt \in Nat /\ salt # 0 /\ m <= k /\ k <= Len(frames)
      /\ r.hdr.mxFrame \in Nat /\ r.hdr.mxFrame <= k /\ r.iFirst \in Nat
      /\ r.iFirst = IF m < r.hdr.mxFrame THEN m + 1 ELSE 0
      /\ r.iReCksum <= k /\ salt = r.hdr.aSalt /\ shm.hdr.aSalt <= salt
      /\ \A j \in 1..(IF r.iReCksum = 0 THEN k ELSE r.iReCksum - 1) : Decodes(salt, frames, j)
      /\ \A j \in (m + 1)..k : ~frames[j].commit
      /\ r.pChange => r.hdr.aSalt = shm.hdr.aSalt /\ m = 0
  BY WritesFrames
<1>2. /\ r.iFirst > 0 /\ ~now /\ r.iFirst <= i /\ i <= r.hdr.mxFrame
      /\ i \in 1..Len(frames) /\ PutsFrame(i, f)
      /\ s.pc = (IF r.todo \ {p} # {} THEN "frames" ELSE "publish")
      /\ s.iReCksum = (IF r.iReCksum = 0 \/ i < r.iReCksum THEN i ELSE r.iReCksum)
      /\ s.iFrame = k /\ s.hdr = r.hdr
      /\ s.isCommit = r.isCommit /\ s.pChange = r.pChange
  BY DEF OverwritesAt, KeepsLoop, NextPc
<1>3. i = i /\ m < i /\ i <= k /\ i \in (m + 1)..k
  BY <1>1, <1>2
<1>4. f \in Frames /\ f.commit = frames[i].commit /\ f.aSalt = frames[i].aSalt
  <2>1. frames[i] \in Frames
    BY <1>2, Fields DEF LogInv
  <2>2. Content(r) \in 1..(2 * MaxTx)
    BY NewFrameType DEF LogInv
  <2> QED
    BY <2>1, <2>2, OverwrittenFrame
<1>5. ~f.commit
  BY <1>1, <1>3, <1>4
<1>6. f.aSalt <= salt
  BY <1>1, <1>2, <1>4 DEF FileInv
<1>7. /\ Live' /\ FileInv' /\ mx' = m /\ nb' = nb /\ Store' = Store
      /\ \A j \in 1..m : new[j] = frames[j]
  <2> HIDE DEF f
  <2>1. i \in 1..(Len(frames) + 1)
    BY <1>1, <1>2
  <2> QED
    BY <1>1, <1>2, <1>3, <1>4, <1>5, <1>6, <2>1, PutFile
<1>8. /\ wal'.hdr = salt /\ shm'.hdr = shm.hdr /\ new[i] = f
      /\ \A j \in 1..Len(frames) : j # i => new[j] = frames[j]
  BY <1>2 DEF PutsFrame
<1>9. i - 1 \in Nat /\ Agree(frames, new, 1, i - 1)
  BY <1>1, <1>2, <1>8, SMTT(30) DEF Agree
<1>10. \A j \in 1..(i - 1) : Decodes(salt, new, j) <=> Decodes(salt, frames, j)
  <2> DEFINE h == i - 1
  <2>1. h \in Nat /\ Agree(frames, new, 1, h)
    BY <1>9
  <2> HIDE DEF frames, new, h, salt
  <2>2. \A j \in 1..h : Decodes(salt, new, j) <=> Decodes(salt, frames, j)
    BY <2>1, AgreeDecodes
  <2> QED
    BY <2>2 DEF h
<1>11. s.iReCksum > 0 /\ s.iReCksum \in Nat /\ s.iReCksum <= i
       /\ (r.iReCksum > 0 => s.iReCksum <= r.iReCksum)
  BY <1>1, <1>2
<1>12. \A j \in 1..(s.iReCksum - 1) : Decodes(salt, new, j)
  <2> SUFFICES ASSUME NEW j \in 1..(s.iReCksum - 1)
               PROVE  Decodes(salt, new, j)
    OBVIOUS
  <2>1. /\ j \in 1..(i - 1)
        /\ j \in 1..(IF r.iReCksum = 0 THEN k ELSE r.iReCksum - 1)
    BY <1>1, <1>3, <1>11
  <2>2. Decodes(salt, frames, j)
    BY <1>1, <2>1
  <2> QED
    BY <1>10, <2>1, <2>2
<1>13. \A j \in (m + 1)..k : ~new[j].commit
  <2> SUFFICES ASSUME NEW j \in (m + 1)..k
               PROVE  ~new[j].commit
    OBVIOUS
  <2>1. j \in 1..Len(frames)
    BY <1>1
  <2> QED
    BY <1>1, <1>5, <1>8, <2>1
<1>14. ~(s.pc = "publish" /\ s.isCommit) /\ s.pc # "recksum"
       /\ s.pc \in {"frames", "recksum", "publish"}
  BY <1>2 DEF CommitsNow
<1>15. s.iReCksum # 0
  BY <1>11
<1> HIDE DEF frames, new, m, k, salt, r, s, f, now
<1>16. WriterFile(salt, new, m, shm.hdr.aSalt, s)
  BY <1>1, <1>2, <1>12, <1>13, <1>14, <1>15 DEF WriterFile
<1> QED
  BY <1>7, <1>8, <1>16 DEF frames, new, m, s

LEMMA WriteFrameData ==
    ASSUME LogInv, LogInv', DataInv, NEW c \in Conns, WriteFrame(c)
    PROVE  DataInv'
<1>1. /\ Sets(c, conn'[c]) /\ conn[c].pc = "frames" /\ KeepsLoop(c)
      /\ \E p \in conn[c].todo :
            AppendsAt(c, p, conn[c].iFrame + 1) \/ \E i \in Nat : OverwritesAt(c, p, i)
      /\ UNCHANGED <<db, shm, writeLock, ckptLock, cache, nTx>>
  BY WriteFrameEffect DEF LogInv
<1>2. /\ Live' /\ FileInv' /\ mx' = mx /\ nb' = nb /\ Store' = Store
      /\ \A i \in 1..mx : wal'.frames[i] = wal.frames[i]
      /\ WriterFile(wal'.hdr, wal'.frames, mx', shm'.hdr.aSalt, conn'[c])
  BY <1>1, AppendFile, OverwriteFile
<1>3. Writing(c) /\ Writing(c)' /\ writeLock = c /\ Live /\ OwnLocks(c)
  <2>1. Writing(c) /\ writeLock = c /\ Live
    BY <1>1, WritesFrames
  <2> QED
    BY <1>1, <2>1, OwnLocksIntro DEF LogInv, Writing
<1>4. conn'[c].pc \in {"frames", "recksum", "publish"}
  BY <1>1 DEF AppendsAt, OverwritesAt, NextPc
<1>5. WriterFileInv(c)' /\ CkptFileInv(c)'
  BY <1>2, <1>4, WriterFileIs DEF CkptFileInv
<1>6. Backfilled(nb, mx) /\ Backfilled(nb, mx)'
  BY <1>2, <1>3 DEF DataInv, FileInv
<1>7. CacheInvOf(c)'
  BY <1>1, <1>2, <1>3, <1>6, WritersCache DEF DataInv
<1>8. NoTwin(c)
  BY <1>1 DEF NoTwin
<1> QED
  BY <1>1, <1>2, <1>3, <1>5, <1>7, <1>8, DataStep


\* The next frame whose checksum is rewritten continues the chain.
LEMMA RightCksumIs ==
    ASSUME LogInv, NEW c \in Conns, NEW i, i = conn[c].iReCksum, i \in 1..Len(wal.frames),
           \A j \in 1..(i - 1) : Decodes(wal.hdr, wal.frames, j)
    PROVE  RightCksum(c) = ChainOf(wal.hdr, wal.frames, i)
<1> DEFINE frames == wal.frames
           salt == wal.hdr
           h == i - 1
<1>1. /\ h \in Nat /\ salt \in Nat /\ i = h + 1 /\ Len(frames) \in Nat
      /\ \A j \in 1..(h + 1) : frames[j] \in Frames
  BY Fields DEF LogInv
<1>2. ChainOf(salt, frames, h + 1) = Append(ChainOf(salt, frames, h), Digest(frames[h + 1]))
  <2> HIDE DEF frames, salt, h
  <2> QED
    BY <1>1, ChainNext
<1>3. ChainOf(salt, frames, h) = IF i = 1 THEN HeaderCksum(salt) ELSE frames[i - 1].aFrameCksum
  <2>1. CASE i = 1
    <3>1. ChainOf(salt, frames, 0) = HeaderCksum(salt)
      BY <1>1, ChainStart
    <3>2. h = 0
      BY <2>1
    <3> HIDE DEF h
    <3> QED
      BY <2>1, <3>1, <3>2
  <2>2. CASE i # 1
    <3>1. h \in 1..(i - 1)
      BY <1>1, <2>2
    <3> QED
      BY <2>2, <3>1 DEF Decodes
  <2> QED
    BY <2>1, <2>2
<1>4. RightCksum(c) = Append(IF i = 1 THEN HeaderCksum(salt) ELSE frames[i - 1].aFrameCksum,
                             Digest(frames[i]))
  BY DEF RightCksum
<1> HIDE DEF frames, salt, h
<1> QED
  BY <1>1, <1>2, <1>3, <1>4 DEF frames, salt

LEMMA RightFrameIs ==
    ASSUME LogInv, NEW c \in Conns, NEW i, i = conn[c].iReCksum, i \in 1..Len(wal.frames)
    PROVE  LET f == RightFrame(c) IN
           /\ f.commit = wal.frames[i].commit /\ Digest(f) = Digest(wal.frames[i])
           /\ f.aSalt = conn[c].hdr.aSalt /\ f.aFrameCksum = RightCksum(c)
<1> DEFINE k == RightCksum(c)
           s == conn[c].hdr.aSalt
           g == wal.frames[i]
<1>1. g \in Frames /\ RightFrame(c) = [g EXCEPT !.aSalt = s, !.aFrameCksum = k]
  BY Fields DEF LogInv, RightFrame
<1> HIDE DEF k, s, g
<1>2. LET f == [g EXCEPT !.aSalt = s, !.aFrameCksum = k] IN
      /\ f.commit = g.commit /\ Digest(f) = Digest(g) /\ f.aSalt = s /\ f.aFrameCksum = k
  BY <1>1 DEF Frames, Digest
<1> QED
  BY <1>1, <1>2 DEF k, s, g

LEMMA RewriteFile ==
    ASSUME LogInv, LogInv', DataInv, NEW c \in Conns, RewriteChecksum(c)
    PROVE  /\ Live' /\ FileInv' /\ mx' = mx /\ nb' = nb /\ Store' = Store
           /\ \A j \in 1..mx : wal'.frames[j] = wal.frames[j]
           /\ WriterFile(wal'.hdr, wal'.frames, mx', shm'.hdr.aSalt, conn'[c])
           /\ Writing(c) /\ writeLock = c /\ Live
<1> DEFINE frames == wal.frames
           new == wal'.frames
           m == mx
           k == conn[c].iFrame
           salt == wal.hdr
           r == conn[c]
           s == conn'[c]
           i == conn[c].iReCksum
           f == RightFrame(c)
<1>1. /\ Sets(c, s) /\ r.pc = "recksum"
      /\ i \in 1..Len(frames) /\ f \in Frames /\ PutsFrame(i, f)
      /\ s.iFrame = k /\ s.hdr.aFrameCksum = RightCksum(c)
      /\ \/ i = k /\ s.iReCksum = 0 /\ s.pc = "publish"
         \/ i # k /\ s.iReCksum = i + 1 /\ s.pc = "recksum"
      /\ UNCHANGED <<db, shm, writeLock, ckptLock, cache, nTx>>
      /\ s.isCommit = r.isCommit /\ s.pChange = r.pChange
      /\ s.hdr.mxFrame = r.hdr.mxFrame /\ s.hdr.aSalt = r.hdr.aSalt
  BY RewriteChecksumEffect DEF LogInv, KeepsLoop
<1>2. Writing(c) /\ writeLock = c /\ Live /\ FileInv
  BY <1>1, HeldLocks, PcParts DEF LogInv, Writing, DataInv
<1>3. Committing = {}
  BY <1>1, <1>2, NotCommitting
<1>4. /\ m \in Nat /\ k \in Nat /\ i \in Nat /\ Len(frames) \in Nat /\ salt \in Nat
      /\ 0 < i /\ i <= k /\ m < i /\ k <= Len(frames) /\ salt # 0
  <2>1. WriterInv(c)
    BY DEF LogInv, PosInv
  <2>2. m \in Nat /\ k \in Nat /\ i \in Nat /\ Len(frames) \in Nat /\ salt \in Nat
    BY Fields, ConnFields DEF LogInv, mx
  <2> QED
    BY <1>1, <1>2, <2>1, <2>2 DEF WriterInv
<1>5. WriterFile(salt, frames, m, shm.hdr.aSalt, r)
  BY <1>2, WriterFileIs DEF DataInv
<1>6. /\ salt = r.hdr.aSalt /\ shm.hdr.aSalt <= salt
      /\ \A j \in 1..(i - 1) : Decodes(salt, frames, j)
      /\ \A j \in (m + 1)..k : frames[j].commit => j = k /\ frames[j].aSalt = 0
      /\ r.isCommit /\ frames[k].commit
      /\ r.pChange => r.hdr.aSalt = shm.hdr.aSalt /\ m = 0
  BY <1>1, <1>4, <1>5 DEF WriterFile
<1>7. /\ f.commit = frames[i].commit /\ Digest(f) = Digest(frames[i])
      /\ f.aSalt = salt /\ f.aFrameCksum = RightCksum(c)
      /\ RightCksum(c) = ChainOf(salt, frames, i)
  BY <1>1, <1>6, RightFrameIs, RightCksumIs
<1>8. Committing' = {} => ~(f.commit /\ f.aSalt = salt)
  <2> SUFFICES ASSUME f.commit
               PROVE  c \in Committing'
    OBVIOUS
  <2>1. i \in (m + 1)..k
    BY <1>4
  <2>2. i = k
    BY <1>6, <1>7, <2>1
  <2>3. s.pc = "publish" /\ s.isCommit
    BY <1>1, <1>6, <2>2
  <2> QED
    BY <2>3 DEF Committing
<1>9. /\ Live' /\ FileInv' /\ mx' = m /\ nb' = nb /\ Store' = Store
      /\ \A j \in 1..m : new[j] = frames[j]
      /\ EndsAt(salt, frames, m)
  <2> HIDE DEF f, i
  <2>1. i \in 1..(Len(frames) + 1) /\ f.aSalt <= salt
    BY <1>1, <1>4, <1>7
  <2> QED
    BY <1>1, <1>2, <1>3, <1>4, <1>6, <1>7, <1>8, <2>1, PutFile
<1>10. /\ wal'.hdr = salt /\ shm'.hdr = shm.hdr /\ new[i] = f /\ Len(new) = Len(frames)
       /\ \A j \in 1..Len(frames) : j # i => new[j] = frames[j]
  BY <1>1, <1>4 DEF PutsFrame
<1> HIDE DEF frames, new, m, k, salt, r, s, i, f
<1>11. \A j \in 1..k : Digest(new[j]) = Digest(frames[j]) /\ new[j].commit = frames[j].commit
  <2> SUFFICES ASSUME NEW j \in 1..k
               PROVE  Digest(new[j]) = Digest(frames[j]) /\ new[j].commit = frames[j].commit
    OBVIOUS
  <2>1. j \in 1..Len(frames)
    BY <1>4
  <2> QED
    BY <1>7, <1>10, <2>1
<1>12. \A j \in 0..k : ChainOf(salt, new, j) = ChainOf(salt, frames, j)
  <2>1. k \in Nat /\ \A j \in 1..k : Digest(new[j]) = Digest(frames[j])
    BY <1>4, <1>11
  <2>2. \A t : \A j \in 0..k : ChainOf(t, new, j) = ChainOf(t, frames, j)
    BY <2>1, ChainSame, ZenonT(40)
  <2> QED
    BY <2>2
<1>13. \A j \in 1..i : Decodes(salt, new, j)
  <2> SUFFICES ASSUME NEW j \in 1..i
               PROVE  Decodes(salt, new, j)
    OBVIOUS
  <2>1. j \in 0..k /\ j \in 1..Len(frames) /\ i \in 0..k
    BY <1>4
  <2>2. ChainOf(salt, new, j) = ChainOf(salt, frames, j)
    BY <1>12, <2>1
  <2>3. CASE j = i
    BY <1>7, <1>10, <2>2, <2>3 DEF Decodes
  <2>4. CASE j # i
    <3>1. j \in 1..(i - 1) /\ new[j] = frames[j]
      BY <1>4, <1>10, <2>1, <2>4
    <3>2. Decodes(salt, frames, j)
      BY <1>6, <3>1
    <3> QED
      BY <2>2, <3>1, <3>2 DEF Decodes
  <2> QED
    BY <2>3, <2>4
<1>14. \A j \in (m + 1)..k : new[j].commit => j = k
  <2> SUFFICES ASSUME NEW j \in (m + 1)..k, new[j].commit
               PROVE  j = k
    OBVIOUS
  <2>1. j \in 1..k
    BY <1>4
  <2> QED
    BY <1>6, <1>11, <2>1
<1>15. new[k].commit
  <2>1. k \in 1..k
    BY <1>4
  <2> QED
    BY <1>6, <1>11, <2>1
<1>16. k # i => new[k].aSalt = 0
  <2>1. k \in (m + 1)..k /\ k \in 1..Len(frames)
    BY <1>4
  <2> QED
    BY <1>6, <1>10, <2>1
<1>17. i = k => EndsAt(salt, new, k)
  <2> SUFFICES ASSUME i = k
               PROVE  EndsAt(salt, new, k)
    OBVIOUS
  <2>1. k \in 0..Len(new) /\ \A j \in 1..k : Decodes(salt, new, j)
    BY <1>4, <1>10, <1>13
  <2>2. ASSUME NEW j \in (k + 1)..Len(new)
        PROVE  ~(new[j].commit /\ new[j].aSalt = salt)
    <3>1. j \in (m + 1)..Len(frames) /\ j \in 1..Len(frames) /\ j # i
      BY <1>4, <1>10
    <3> QED
      BY <1>9, <1>10, <3>1 DEF EndsAt
  <2> QED
    BY <1>15, <2>1, <2>2 DEF EndsAt
<1>18. WriterFile(salt, new, m, shm.hdr.aSalt, s)
  <2>1. CASE i = k
    <3>1. s.iReCksum = 0 /\ s.pc = "publish" /\ s.isCommit /\ s.iFrame = k /\ k \in 0..k
      BY <1>1, <1>4, <1>6, <2>1
    <3>2. s.hdr.aFrameCksum = ChainOf(salt, new, k)
      BY <1>1, <1>7, <1>12, <2>1, <3>1
    <3> QED
      BY <1>1, <1>6, <1>13, <1>14, <1>15, <1>17, <2>1, <3>1, <3>2 DEF WriterFile
  <2>2. CASE i # k
    <3>1. s.iReCksum = i + 1 /\ s.iReCksum # 0 /\ s.pc = "recksum" /\ s.isCommit /\ s.iFrame = k
      BY <1>1, <1>4, <1>6, <2>2
    <3>2. \A j \in 1..(s.iReCksum - 1) : Decodes(salt, new, j)
      BY <1>4, <1>13, <3>1
    <3> QED
      BY <1>1, <1>6, <1>14, <1>15, <1>16, <2>2, <3>1, <3>2 DEF WriterFile
  <2> QED
    BY <2>1, <2>2
<1> QED
  BY <1>2, <1>9, <1>10, <1>18 DEF frames, new, m, s

LEMMA RewriteChecksumData ==
    ASSUME LogInv, LogInv', DataInv, NEW c \in Conns, RewriteChecksum(c)
    PROVE  DataInv'
<1>1. /\ Sets(c, conn'[c]) /\ conn'[c].pc \in {"publish", "recksum"}
      /\ UNCHANGED <<db, shm, writeLock, ckptLock, cache, nTx>>
  BY RewriteChecksumEffect DEF LogInv
<1>2. /\ Live' /\ FileInv' /\ mx' = mx /\ nb' = nb /\ Store' = Store
      /\ \A i \in 1..mx : wal'.frames[i] = wal.frames[i]
      /\ WriterFile(wal'.hdr, wal'.frames, mx', shm'.hdr.aSalt, conn'[c])
      /\ Writing(c) /\ writeLock = c /\ Live
  BY RewriteFile
<1>3. Writing(c)' /\ OwnLocks(c)
  BY <1>1, <1>2, OwnLocksIntro DEF LogInv, Writing
<1>4. WriterFileInv(c)' /\ CkptFileInv(c)'
  BY <1>1, <1>2, WriterFileIs DEF CkptFileInv
<1>5. Backfilled(nb, mx) /\ Backfilled(nb, mx)'
  BY <1>2 DEF DataInv, FileInv
<1>6. CacheInvOf(c)'
  BY <1>1, <1>2, <1>3, <1>5, WritersCache DEF DataInv
<1>7. NoTwin(c)
  BY <1>1 DEF NoTwin
<1> QED
  BY <1>1, <1>2, <1>3, <1>4, <1>6, <1>7, DataStep


\* A writer whose frames are written.
LEMMA Publishes ==
    ASSUME LogInv, DataInv, NEW c \in Conns, conn[c].pc = "publish"
    PROVE  /\ Live /\ Writing(c) /\ writeLock = c /\ conn[c].readLock > 0
           /\ mx \in Nat /\ conn[c].iFrame \in Nat /\ mx < conn[c].iFrame
           /\ wal.hdr \in Nat /\ shm.hdr.aSalt \in Nat /\ WriterInv(c)
           /\ conn[c].isCommit => conn[c].iReCksum = 0
           /\ WriterFile(wal.hdr, wal.frames, mx, shm.hdr.aSalt, conn[c])
           /\ LiveFile(wal.hdr, wal.frames, db, nb, shm.hdr, Committing # {})
<1>1. Writing(c) /\ writeLock = c /\ Live
  BY HeldLocks, PcParts DEF LogInv, Writing
<1>2. conn[c].readLock > 0
  BY PcParts DEF LogInv, LockInv, LockInvOf
<1>3. /\ mx \in Nat /\ conn[c].iFrame \in Nat
      /\ wal.hdr \in Nat /\ shm.hdr.aSalt \in Nat
  BY Fields, ConnFields DEF LogInv, mx
<1>4. WriterInv(c)
  BY DEF LogInv, PosInv
<1>5. mx < conn[c].iFrame /\ (conn[c].isCommit => conn[c].iReCksum = 0)
  BY <1>1, <1>4 DEF WriterInv
<1> QED
  BY <1>1, <1>2, <1>3, <1>4, <1>5, WriterFileIs, FileInvIs DEF DataInv

LEMMA SpillData ==
    ASSUME LogInv, LogInv', DataInv, NEW c \in Conns, Publish(c), ~conn[c].isCommit
    PROVE  DataInv'
<1>1. /\ Sets(c, conn'[c]) /\ conn[c].pc = "publish" /\ conn'[c].pc = "write"
      /\ conn'[c].hdr.mxFrame = conn[c].iFrame /\ conn'[c].hdr.aSalt = conn[c].hdr.aSalt
      /\ conn'[c].hdr.aFrameCksum = conn[c].hdr.aFrameCksum
      /\ conn'[c].pChange = FALSE /\ conn'[c].iReCksum = conn[c].iReCksum
      /\ UNCHANGED <<wal, db, shm, cache, writeLock, ckptLock, nTx>>
  BY PublishEffect DEF LogInv
<1>2. /\ Live /\ Writing(c) /\ writeLock = c
      /\ mx \in Nat /\ conn[c].iFrame \in Nat /\ mx < conn[c].iFrame
      /\ WriterFile(wal.hdr, wal.frames, mx, shm.hdr.aSalt, conn[c])
  BY <1>1, Publishes
<1>3. OwnLocks(c) /\ Writing(c)'
  BY <1>1, <1>2, OwnLocksIntro DEF LogInv, Writing
<1>4. Live' /\ mx' = mx /\ Store' = Store
  BY <1>1, <1>2, QuietViews
<1>5. \A j \in (mx + 1)..conn[c].iFrame : ~wal.frames[j].commit
  BY <1>1, <1>2 DEF WriterFile
<1>6. WriterFile(wal.hdr, wal.frames, mx, shm.hdr.aSalt, conn'[c])
  BY <1>1, <1>2, <1>5 DEF WriterFile
<1>7. WriterFileInv(c)' /\ CkptFileInv(c)'
  BY <1>1, <1>4, <1>6, WriterFileIs DEF CkptFileInv
<1>8. Backfilled(nb, mx) /\ Backfilled(nb, mx)' /\ nb' = nb
  BY <1>1, <1>2, <1>4, QuietBackfilled DEF DataInv, FileInv, nb
<1>9. CacheInvOf(c)'
  BY <1>1, <1>2, <1>3, <1>4, <1>8, WritersCache DEF DataInv
<1>10. Committing' = Committing
  BY <1>1, SameCommitting
<1> QED
  BY <1>1, <1>2, <1>3, <1>7, <1>8, <1>9, <1>10, QuietData

\* Only the committing writer has the header that it publishes.
LEMMA CommitsAlone ==
    ASSUME LogInv, DataInv, NEW c \in Conns, conn[c].pc = "publish",
           shm'.hdr.aSalt = conn[c].hdr.aSalt, shm'.hdr.mxFrame = conn[c].iFrame
    PROVE  NoTwin(c)
<1> SUFFICES ASSUME NEW d \in Conns \ {c}, conn[d].hdr.aSalt = conn[c].hdr.aSalt,
                    conn[d].hdr.mxFrame = conn[c].iFrame
             PROVE  FALSE
  BY DEF NoTwin
<1>1. /\ Writing(c) /\ WriterInv(c) /\ mx \in Nat /\ conn[c].iFrame \in Nat
      /\ mx < conn[c].iFrame /\ writeLock = c
  BY Publishes
<1>2. conn[c].hdr.aSalt = shm.hdr.aSalt
  BY <1>1 DEF WriterInv
<1>3. ~Writing(d) /\ ReaderInv(d)
  BY <1>1 DEF Writing, LogInv, PosInv
<1>4. conn[d].hdr.mxFrame <= mx
  BY <1>2, <1>3 DEF ReaderInv
<1> QED
  BY <1>1, <1>4

LEMMA CommitData ==
    ASSUME LogInv, LogInv', DataInv, NEW c \in Conns, Publish(c), conn[c].isCommit
    PROVE  DataInv'
<1> DEFINE frames == wal.frames
           salt == wal.hdr
           k == conn[c].iFrame
           h == PublishedHdr(conn[c])
<1>1. /\ Sets(c, conn'[c]) /\ conn[c].pc = "publish" /\ conn'[c].pc = "read"
      /\ h.mxFrame = k /\ h.aSalt = conn[c].hdr.aSalt /\ h.isInit = conn[c].hdr.isInit
      /\ h.aFrameCksum = conn[c].hdr.aFrameCksum
      /\ conn'[c].hdr = h /\ conn'[c].readLock = conn[c].readLock
      /\ conn'[c].minFrame = conn[c].minFrame
      /\ shm'.hdr = h /\ KeepsShm /\ writeLock' = None
      /\ cache' = [cache EXCEPT ![c] = ImageOf(conn[c].minFrame, k)]
      /\ UNCHANGED <<wal, db, ckptLock, nTx>>
  BY PublishEffect DEF LogInv, Reads
<1>2. /\ Live /\ Writing(c) /\ writeLock = c /\ conn[c].readLock > 0
      /\ mx \in Nat /\ k \in Nat /\ mx < k /\ salt \in Nat /\ shm.hdr.aSalt \in Nat
      /\ conn[c].iReCksum = 0
      /\ WriterFile(salt, frames, mx, shm.hdr.aSalt, conn[c])
      /\ LiveFile(salt, frames, db, nb, shm.hdr, Committing # {})
  BY <1>1, Publishes
<1>3. nb <= mx /\ nb \in Nat /\ nb' = nb /\ mx' = k /\ Live'
  <2>1. nb \in Nat /\ conn[c].hdr.isInit
    BY <1>1, Fields, HeldLocks DEF LogInv, nb
  <2> QED
    BY <1>1, <1>2, <2>1, HeldBackfill DEF KeepsShm, nb, mx, Live
<1>4. /\ salt = h.aSalt /\ h.aFrameCksum = ChainOf(salt, frames, k) /\ EndsAt(salt, frames, k)
  BY <1>1, <1>2 DEF WriterFile
<1>5. BackfilledBy(frames, db, nb, k)
  <2>1. BackfilledBy(frames, db, nb, mx)
    BY <1>2 DEF LiveFile, mx
  <2> HIDE DEF frames, k
  <2> QED
    BY <1>2, <1>3, <2>1, BackfilledLess
<1>6. FileInv'
  <2>1. LiveFile(salt, frames, db, nb, h, FALSE)
    BY <1>1, <1>2, <1>4, <1>5 DEF LiveFile
  <2>2. LiveFile(salt, frames, db, nb, h, Committing' # {})
    BY <2>1 DEF LiveFile
  <2> QED
    BY <1>1, <1>3, <2>2, FileInvIs
<1>7. OwnLocks(c)
  BY <1>1, <1>2, OwnLocksIntro DEF LogInv
<1>8. c # None
  BY WalConstants
<1>9. ~Writing(c)' /\ InTransaction(c)' /\ writeLock' # c
  BY <1>1, <1>8 DEF Writing, InTransaction
<1>10. WriterFileInv(c)' /\ CkptFileInv(c)'
  BY <1>1, <1>9, WriterFileIs DEF CkptFileInv
<1>11. CacheInvOf(c)'
  <2>1. View(c)' = ImageOf(conn[c].minFrame, conn[c].hdr.mxFrame)'
    BY <1>1, <1>2, <1>9, ViewIsNext DEF LogInv
  <2>2. ImageOf(conn[c].minFrame, conn[c].hdr.mxFrame)' = ImageOf(conn[c].minFrame, k)
    <3> HIDE DEF h, k
    <3>1. ImageOf(conn[c].minFrame, conn[c].hdr.mxFrame)'
             = Img(wal'.frames, db', conn'[c].minFrame, conn'[c].hdr.mxFrame)
      BY FindFrameIsLastNext
    <3>2. ImageOf(conn[c].minFrame, k) = Img(wal.frames, db, conn[c].minFrame, k)
      BY FindFrameIsLast
    <3> QED
      BY <1>1, <3>1, <3>2
  <2>3. cache'[c] = ImageOf(conn[c].minFrame, k)
    BY <1>1 DEF LogInv, TypeInv
  <2> QED
    BY <1>9, <2>1, <2>2, <2>3 DEF CacheInvOf
<1>12. NoTwin(c)
  BY <1>1, CommitsAlone
<1>13. \A d \in Conns \ {c} : cache'[d] = cache[d]
  BY <1>1 DEF LogInv, TypeInv
<1>14. \A i \in 1..mx : wal'.frames[i] = wal.frames[i]
  BY <1>1
<1> QED
  BY <1>1, <1>2, <1>3, <1>6, <1>7, <1>10, <1>11, <1>12, <1>13, <1>14, DataStep

LEMMA PublishData ==
    ASSUME LogInv, LogInv', DataInv, NEW c \in Conns, Publish(c)
    PROVE  DataInv'
BY SpillData, CommitData


-----------------------------------------------------------------------------
(* Checkpoints *)

\* A step of a checkpoint that leaves files, header and backfill alone.
LEMMA QuietCkptData ==
    ASSUME LogInv, LogInv', DataInv, NEW c \in Conns, Sets(c, conn'[c]), OwnLocks(c), Live,
           UNCHANGED <<wal, db, cache>>, shm'.hdr = shm.hdr, shm'.open = shm.open, nb' = nb,
           conn[c].pc \notin WritePcs, conn'[c].pc \notin WritePcs, ~Writing(c)',
           CkptFileInv(c)', CacheInvOf(c)'
    PROVE  DataInv'
<1>1. WriterFileInv(c)'
  BY WriterFileIs
<1>2. Committing' = Committing
  BY SameCommitting, PcParts
<1> QED
  BY <1>1, <1>2, QuietData

\* A checkpoint is no transaction.
LEMMA CkptHolds ==
    ASSUME LogInv, NEW c \in Conns, conn[c].pc \in CkptPcs
    PROVE  /\ ckptLock = c /\ Live /\ ~Writing(c) /\ ~InTransaction(c)
           /\ conn[c].pc \notin WritePcs /\ conn[c].readLock = -1
<1>1. ckptLock = c /\ conn[c].pc \notin WritePcs /\ conn[c].pc # "idle" /\ conn[c].pc # "read"
      /\ conn[c].readLock = -1
  BY HeldLocks, PcParts DEF LogInv
<1>2. Live
  BY <1>1, HeldLocks DEF LogInv
<1> QED
  BY <1>1, <1>2 DEF Writing, InTransaction

LEMMA CkptHoldsNext ==
    ASSUME NEW c \in Conns
    PROVE  LogInv' /\ conn'[c].pc \in CkptPcs =>
              /\ ckptLock' = c /\ Live' /\ ~Writing(c)' /\ ~InTransaction(c)'
              /\ conn'[c].pc \notin WritePcs /\ conn'[c].readLock = -1
<1> DEFINE A == LogInv /\ conn[c].pc \in CkptPcs
           B == /\ ckptLock = c /\ Live /\ ~Writing(c) /\ ~InTransaction(c)
                /\ conn[c].pc \notin WritePcs /\ conn[c].readLock = -1
<1>1. A => B
  BY CkptHolds
<1>2. (A => B)'
  BY <1>1, PTL
<1> QED
  BY <1>2

\* ... of which the connection's header and cache are as they were.
LEMMA QuietCkptStep ==
    ASSUME LogInv, LogInv', DataInv, NEW c \in Conns, Sets(c, conn'[c]),
           UNCHANGED <<wal, db, cache, writeLock, ckptLock, nTx>>,
           shm'.hdr = shm.hdr, shm'.open = shm.open, nb' = nb,
           conn[c].pc \in CkptPcs, conn'[c].pc \in CkptPcs,
           conn'[c].hdr = conn[c].hdr, conn'[c].isChanged = conn[c].isChanged,
           CkptFileInv(c)'
    PROVE  DataInv'
<1>1. /\ Live /\ ~InTransaction(c) /\ conn[c].pc \notin WritePcs
      /\ ~Writing(c)' /\ ~InTransaction(c)' /\ conn'[c].pc \notin WritePcs
  BY CkptHolds, CkptHoldsNext
<1>2. mx' = mx /\ Store' = Store
  BY <1>1, QuietViews
<1>3. CacheInvOf(c)'
  BY <1>1, <1>2, KeptCache DEF DataInv
<1>4. OwnLocks(c)
  BY OwnLocksIntro DEF LogInv
<1> QED
  BY <1>1, <1>3, <1>4, QuietCkptData

LEMMA CkptBeginData ==
    ASSUME LogInv, LogInv', DataInv, NEW c \in Conns, NEW mode \in {"PASSIVE", "TRUNCATE"},
           CkptBegin(c, mode)
    PROVE  DataInv'
<1>1. /\ Sets(c, conn'[c]) /\ conn[c].pc = "idle" /\ Live /\ ckptLock = None
      /\ conn'[c].pc \in {"ckMarks", "ckDone"} /\ conn'[c].hdr = shm.hdr
      /\ conn'[c].isChanged = (conn[c].hdr # shm.hdr)
      /\ writeLock' = writeLock \/ (writeLock = None /\ writeLock' = c)
      /\ ckptLock' = c
      /\ UNCHANGED <<wal, db, shm, cache, nTx>>
  BY CkptBeginEffect DEF LogInv, Live
<1>2. conn[c].pc \notin WritePcs /\ conn[c].pc \notin CkptPcs /\ conn'[c].pc \in CkptPcs
  <2>1. conn[c].pc \notin WritePcs \cup CkptPcs
    BY <1>1, PcParts
  <2> QED
    BY <1>1, <2>1, PcParts
<1>3. ~InTransaction(c) /\ writeLock # c
  BY <1>1, HeldLocks DEF LogInv, InTransaction
<1>4. ~Writing(c)' /\ ~InTransaction(c)' /\ conn'[c].pc \notin WritePcs
  BY <1>2, CkptHoldsNext
<1>5. OwnLocks(c)
  BY <1>1, OwnLocksIntro DEF LogInv
<1>6. mx' = mx /\ Store' = Store
  BY <1>1, QuietViews
<1>7. CkptFileInv(c)'
  BY <1>1 DEF CkptFileInv
<1>8. CacheInvOf(c)'
  <2> SUFFICES ASSUME ~conn'[c].isChanged
               PROVE  cache'[c] \in {None, Store'}
    BY <1>2, <1>4 DEF CacheInvOf
  <2>1. conn[c].hdr = shm.hdr
    BY <1>1
  <2>2. cache[c] \in {None, Store}
    BY <1>1, <1>2, <1>3, <2>1 DEF DataInv, CacheInvOf, Live, mx
  <2> QED
    BY <1>1, <1>6, <2>2
<1>9. nb' = nb
  BY <1>1 DEF nb
<1> QED
  BY <1>1, <1>2, <1>4, <1>5, <1>7, <1>8, <1>9, QuietCkptData

LEMMA CkptMarkData ==
    ASSUME LogInv, LogInv', DataInv, NEW c \in Conns, CkptMark(c)
    PROVE  DataInv'
<1>1. /\ Sets(c, conn'[c]) /\ conn[c].pc = "ckMarks"
      /\ shm'.hdr = shm.hdr /\ shm'.open = shm.open /\ shm'.nBackfill = shm.nBackfill
      /\ conn'[c].pc \in {"ckMarks", "ckLock0", "ckDone"}
      /\ conn'[c].hdr = conn[c].hdr /\ conn'[c].isChanged = conn[c].isChanged
      /\ UNCHANGED <<wal, db, writeLock, ckptLock, cache, nTx>>
  BY CkptMarkEffect DEF LogInv
<1>2. conn[c].pc \in CkptPcs /\ conn'[c].pc \in CkptPcs
  BY <1>1, PcParts
<1>3. CkptFileInv(c)'
  BY <1>1 DEF CkptFileInv
<1> QED
  BY <1>1, <1>2, <1>3, QuietCkptStep DEF nb

LEMMA CkptLock0Data ==
    ASSUME LogInv, LogInv', DataInv, NEW c \in Conns, CkptLock0(c)
    PROVE  DataInv'
<1>1. /\ Sets(c, conn'[c]) /\ conn[c].pc = "ckLock0"
      /\ shm'.hdr = shm.hdr /\ shm'.open = shm.open /\ shm'.nBackfill = shm.nBackfill
      /\ \/ conn'[c].pc = "ckCopy" /\ conn'[c].todo = ToCopy(conn[c])
         \/ conn'[c].pc = "ckDone"
      /\ conn'[c].hdr = conn[c].hdr /\ conn'[c].isChanged = conn[c].isChanged
      /\ conn'[c].mxSafeFrame = conn[c].mxSafeFrame
      /\ UNCHANGED <<wal, db, writeLock, ckptLock, cache, nTx>>
  BY CkptLock0Effect DEF LogInv, KeepsCkpt
<1>2. conn[c].pc \in CkptPcs /\ conn'[c].pc \in CkptPcs
  BY <1>1, PcParts
<1>3. CkptFileInv(c)'
  <2>1. ToCopy(conn[c])' = ToCopy(conn[c])
    BY <1>1 DEF ToCopy, FindFrame
  <2> QED
    BY <1>1, <2>1 DEF CkptFileInv
<1> QED
  BY <1>1, <1>2, <1>3, QuietCkptStep DEF nb

LEMMA CkptFailData ==
    ASSUME LogInv, LogInv', DataInv, NEW c \in Conns, CkptFail(c)
    PROVE  DataInv'
<1>1. /\ Sets(c, conn'[c]) /\ conn[c].pc \in {"ckCopy", "ckHeader", "ckTruncate"}
      /\ conn'[c].pc = "ckEnd" /\ conn'[c].hdr = conn[c].hdr
      /\ conn'[c].isChanged = conn[c].isChanged
      /\ UNCHANGED <<wal, db, shm, writeLock, ckptLock, cache, nTx>>
  BY CkptFailEffect DEF LogInv, KeepsCkpt
<1>2. conn[c].pc \in CkptPcs /\ conn'[c].pc \in CkptPcs
  BY <1>1, PcParts
<1>3. CkptFileInv(c)'
  BY <1>1 DEF CkptFileInv
<1> QED
  BY <1>1, <1>2, <1>3, QuietCkptStep DEF nb

LEMMA CkptEndData ==
    ASSUME LogInv, LogInv', DataInv, NEW c \in Conns, CkptEnd(c)
    PROVE  DataInv'
<1>1. /\ Sets(c, conn'[c]) /\ conn[c].pc = "ckEnd" /\ conn'[c].pc = "idle"
      /\ \/ conn[c].isChanged /\ conn'[c].hdr = ZeroHdr
         \/ ~conn[c].isChanged /\ conn'[c].hdr = conn[c].hdr
      /\ writeLock' = (IF writeLock = c THEN None ELSE writeLock) /\ ckptLock' = None
      /\ UNCHANGED <<wal, db, shm, cache, nTx>>
  BY CkptEndEffect DEF LogInv, Rests
<1>2. conn[c].pc \in CkptPcs
  BY <1>1, PcParts
<1>3. ckptLock = c /\ Live /\ ~InTransaction(c) /\ conn[c].pc \notin WritePcs
  BY <1>2, CkptHolds
<1>4. conn'[c].pc \notin WritePcs /\ conn'[c].pc \notin CkptPcs
  <2>1. conn'[c].pc \notin WritePcs \cup CkptPcs
    BY <1>1, PcParts
  <2> QED
    BY <2>1
<1>5. ~Writing(c)' /\ ~InTransaction(c)'
  <2>1. c # None
    BY WalConstants
  <2> QED
    BY <1>1, <2>1 DEF Writing, InTransaction
<1>6. OwnLocks(c)
  BY <1>1, <1>3, OwnLocksIntro DEF LogInv
<1>7. mx' = mx /\ Store' = Store
  BY <1>1, <1>3, QuietViews
<1>8. CkptFileInv(c)'
  BY <1>1 DEF CkptFileInv
<1>9. CacheInvOf(c)'
  <2>1. CASE conn[c].isChanged
    BY <1>1, <1>5, <2>1 DEF CacheInvOf, ZeroHdr
  <2>2. CASE ~conn[c].isChanged
    BY <1>1, <1>3, <1>4, <1>5, <1>7, <2>2, KeptCache DEF DataInv
  <2> QED
    BY <2>1, <2>2
<1> QED
  BY <1>1, <1>3, <1>4, <1>5, <1>6, <1>8, <1>9, QuietCkptData DEF nb


\* The last frame of a page in the whole log is the last one of any part that has it.
LEMMA LastFrameIn ==
    ASSUME NEW frames, NEW p, NEW m \in Nat, NEW first \in Nat \ {0}, NEW last \in Nat, last <= m,
           LastFrame(frames, p, 1, m) \in first..last
    PROVE  LastFrame(frames, p, first, last) = LastFrame(frames, p, 1, m)
<1> DEFINE i == LastFrame(frames, p, 1, m)
<1>1. /\ i \in Nat /\ \A j \in 1..m : frames[j].page = p => j <= i
      /\ i = 0 \/ frames[i].page = p
  BY LastFrameProps
<1>2. i \in first..last /\ frames[i].page = p
  BY <1>1
<1>3. \A j \in first..last : frames[j].page = p => j <= i
  <2>1. \A j \in first..last : j \in 1..m
    OBVIOUS
  <2> QED
    BY <1>1, <2>1
<1> HIDE DEF i
<1>4. LastFrame(frames, p, first, last) = i
  BY <1>2, <1>3, LastFrameIs
<1> QED
  BY <1>4 DEF i

\* A checkpoint that copies: where it stands.
LEMMA Copies ==
    ASSUME LogInv, DataInv, NEW c \in Conns, conn[c].pc = "ckCopy"
    PROVE  /\ Live /\ ckptLock = c /\ conn[c].pc \in CkptPcs
           /\ mx \in Nat /\ nb \in Nat /\ conn[c].hdr.mxFrame \in Nat /\ conn[c].mxSafeFrame \in Nat
           /\ nb < conn[c].mxSafeFrame /\ conn[c].mxSafeFrame <= conn[c].hdr.mxFrame
           /\ conn[c].hdr.mxFrame <= mx /\ mx <= Len(wal.frames)
           /\ \A p \in ToCopy(conn[c]) \ conn[c].todo :
                 db[p] = wal.frames[FindFrame(p, nb + 1, conn[c].hdr.mxFrame)].val
           /\ BackfilledBy(wal.frames, db, nb, mx)
           /\ \A d \in Conns : Pinned(d) => conn[c].mxSafeFrame <= conn[d].hdr.mxFrame
           /\ \A d \in Conns : conn[d].readLock # 0
<1>1. conn[c].pc \in CkptPcs /\ conn[c].pc \in BackfillPcs
  BY PcParts
<1>2. ckptLock = c /\ Live
  BY <1>1, CkptHolds
<1>3. mx \in Nat /\ nb \in Nat /\ conn[c].hdr.mxFrame \in Nat /\ conn[c].mxSafeFrame \in Nat
  BY Fields, ConnFields DEF LogInv, mx, nb
<1>4. CkptInv(c)
  BY DEF LogInv, PosInv
<1>5. BackfilledBy(wal.frames, db, nb, mx)
  BY <1>2, FileInvIs DEF DataInv, LiveFile, mx
<1>6. \A d \in Conns : conn[d].readLock # 0
  BY DEF LogInv, LockInv, Locked0
<1> QED
  BY <1>1, <1>2, <1>3, <1>4, <1>5, <1>6 DEF CkptInv, DataInv, CkptFileInv, LogInv, PosInv,
     ShapeInv

\* With all pages copied, the log is backfilled up to mxSafeFrame.
LEMMA CopiedIsBackfilled ==
    ASSUME LogInv, DataInv, NEW c \in Conns, conn[c].pc = "ckCopy", conn[c].todo = {}
    PROVE  BackfilledBy(wal.frames, db, conn[c].mxSafeFrame, mx)
<1> DEFINE frames == wal.frames
           m == mx
           n == nb
           s == conn[c].mxSafeFrame
           l == conn[c].hdr.mxFrame
<1>1. /\ m \in Nat /\ n \in Nat /\ l \in Nat /\ s \in Nat /\ n < s /\ s <= l /\ l <= m
      /\ \A p \in ToCopy(conn[c]) : db[p] = frames[FindFrame(p, n + 1, l)].val
      /\ BackfilledBy(frames, db, n, m)
  BY Copies
<1>2. \A p \in Pages : LET i == LastFrame(frames, p, n + 1, l)
                       IN  i > 0 /\ i <= s => p \in ToCopy(conn[c]) /\ FindFrame(p, n + 1, l) = i
  BY FindFrameIsLast DEF ToCopy, nb
<1> HIDE DEF frames, m, n, s, l
<1>3. ASSUME NEW p \in Pages, 1 <= LastFrame(frames, p, 1, m), LastFrame(frames, p, 1, m) <= s
      PROVE  db[p] = frames[LastFrame(frames, p, 1, m)].val
  <2> DEFINE i == LastFrame(frames, p, 1, m)
  <2>1. i \in Nat /\ 1 <= i /\ i <= s
    BY <1>1, <1>3, LastFrameProps
  <2>2. CASE i <= n
    BY <1>1, <2>1, <2>2 DEF BackfilledBy
  <2>3. CASE n < i
    <3>1. i \in (n + 1)..l
      BY <1>1, <2>1, <2>3
    <3>2. LastFrame(frames, p, n + 1, l) = i
      <4> DEFINE first == n + 1
      <4>1. first \in Nat \ {0} /\ LastFrame(frames, p, 1, m) \in first..l
        BY <1>1, <3>1
      <4> HIDE DEF first
      <4>2. LastFrame(frames, p, first, l) = LastFrame(frames, p, 1, m)
        BY <1>1, <4>1, LastFrameIn
      <4> QED
        BY <4>2 DEF first
    <3>3. p \in ToCopy(conn[c]) /\ FindFrame(p, n + 1, l) = i
      BY <1>2, <2>1, <3>2
    <3> QED
      BY <1>1, <3>3
  <2> QED
    BY <1>1, <2>1, <2>2, <2>3
<1>4. BackfilledBy(frames, db, s, m)
  BY <1>3 DEF BackfilledBy
<1> QED
  BY <1>4 DEF frames, s, m

LEMMA CkptBackfillData ==
    ASSUME LogInv, LogInv', DataInv, NEW c \in Conns, CkptBackfill(c)
    PROVE  DataInv'
<1>1. /\ Sets(c, conn'[c]) /\ conn[c].pc = "ckCopy" /\ conn[c].todo = {} /\ conn'[c].pc = "ckDone"
      /\ conn'[c].hdr = conn[c].hdr /\ conn'[c].isChanged = conn[c].isChanged
      /\ shm'.hdr = shm.hdr /\ shm'.open = shm.open /\ nb' = conn[c].mxSafeFrame
      /\ UNCHANGED <<wal, db, writeLock, ckptLock, cache, nTx>>
  BY CkptBackfillEffect DEF LogInv, KeepsCkpt, nb
<1>2. conn[c].pc \in CkptPcs /\ conn'[c].pc \in CkptPcs
  BY <1>1, PcParts
<1>3. /\ ckptLock = c /\ Live /\ ~InTransaction(c) /\ conn[c].pc \notin WritePcs
      /\ ~Writing(c)' /\ ~InTransaction(c)' /\ conn'[c].pc \notin WritePcs
  BY <1>2, CkptHolds, CkptHoldsNext
<1>4. Live' /\ mx' = mx /\ Store' = Store
  BY <1>1, <1>3, QuietViews
<1>5. BackfilledBy(wal.frames, db, nb', mx)
  BY <1>1, CopiedIsBackfilled
<1>6. Committing' = Committing
  BY <1>3, SameCommitting, <1>1, PcParts
<1>7. FileInv'
  <2> DEFINE n == nb'
  <2>1. LiveFile(wal.hdr, wal.frames, db, nb, shm.hdr, Committing # {})
    BY <1>3, FileInvIs DEF DataInv
  <2>2. LiveFile(wal.hdr, wal.frames, db, n, shm.hdr, Committing # {})
    BY <1>5, <2>1 DEF LiveFile, mx
  <2> QED
    BY <1>1, <1>4, <1>6, <2>2, FileInvIs
<1>8. WriterFileInv(c)' /\ CkptFileInv(c)'
  BY <1>1, <1>3, WriterFileIs DEF CkptFileInv
<1>9. CacheInvOf(c)'
  BY <1>1, <1>2, <1>3, <1>4, KeptCache DEF DataInv
<1>10. OwnLocks(c) /\ NoTwin(c)
  BY <1>1, OwnLocksIntro DEF LogInv, NoTwin
<1>11. \A i \in 1..mx : wal'.frames[i] = wal.frames[i]
  BY <1>1
<1> QED
  BY <1>1, <1>3, <1>4, <1>7, <1>8, <1>9, <1>10, <1>11, DataStep


\* A checkpoint that restarts the log has the shared header, and nobody writes.
LEMMA CkptCurrent ==
    ASSUME LogInv, NEW c \in Conns, conn[c].pc = "ckDone", CkptCanRestart(c)
    PROVE  /\ conn[c].hdr = shm.hdr /\ nb = mx /\ writeLock \in {c, None} /\ Committing = {}
<1>1. /\ conn[c].eMode \in {"PASSIVE", "TRUNCATE"}
      /\ conn[c].eMode = "TRUNCATE" => writeLock = c
  BY PcParts DEF LogInv, LockInv, LockInvOf
<1>2. writeLock = c => conn[c].hdr = shm.hdr
  BY DEF LogInv, PosInv, CkptInv
<1>3. conn[c].hdr = shm.hdr /\ nb = mx /\ writeLock \in {c, None}
  BY <1>1, <1>2 DEF CkptCanRestart, nb, mx
<1>4. ASSUME NEW d \in Committing
      PROVE  FALSE
  <2>1. d \in Conns /\ writeLock = d /\ d # c
    BY <1>4, HeldLocks, PcParts DEF Committing, LogInv
  <2> QED
    BY <1>3, <2>1, WalConstants
<1> QED
  BY <1>3, <1>4

LEMMA CkptRestartData ==
    ASSUME LogInv, LogInv', DataInv, NEW c \in Conns, CkptRestart(c)
    PROVE  DataInv'
<1>1. /\ Sets(c, conn'[c]) /\ conn[c].pc = "ckDone"
      /\ writeLock' = writeLock \/ (writeLock = None /\ writeLock' = c)
      /\ \/ /\ conn'[c].pc = "ckEnd" /\ conn'[c].hdr = conn[c].hdr
            /\ conn'[c].isChanged \in {conn[c].isChanged, TRUE} /\ shm' = shm
         \/ /\ CkptCanRestart(c) /\ Restarts(c) /\ conn'[c].pc = "ckInfo"
            /\ conn'[c].isChanged = conn[c].isChanged
      /\ UNCHANGED <<wal, db, ckptLock, cache, nTx>>
  BY CkptRestartEffect DEF LogInv
<1>2. conn[c].pc \in CkptPcs /\ conn'[c].pc \in CkptPcs
  BY <1>1, PcParts
<1>3. /\ ckptLock = c /\ Live /\ ~InTransaction(c) /\ conn[c].pc \notin WritePcs
      /\ ~Writing(c)' /\ ~InTransaction(c)' /\ conn'[c].pc \notin WritePcs
  BY <1>2, CkptHolds, CkptHoldsNext
<1>4. OwnLocks(c)
  BY <1>1, OwnLocksIntro DEF LogInv
<1>5. CASE conn'[c].pc = "ckEnd"
  <2>1. /\ conn'[c].hdr = conn[c].hdr /\ conn'[c].isChanged \in {conn[c].isChanged, TRUE}
        /\ shm' = shm
    BY <1>1, <1>5
  <2>2. mx' = mx /\ Store' = Store
    BY <1>1, <1>3, <2>1, QuietViews
  <2>3. CkptFileInv(c)'
    BY <1>5 DEF CkptFileInv
  <2>4. ~conn[c].isChanged \/ conn'[c].isChanged
    BY <2>1
  <2>5. CacheInvOf(c)'
    BY <1>1, <1>2, <1>3, <2>1, <2>2, <2>4, KeptCache DEF DataInv
  <2> QED
    BY <1>1, <1>3, <1>4, <2>1, <2>3, <2>5, QuietCkptData DEF nb
<1>6. CASE conn'[c].pc = "ckInfo"
  <2>1. CkptCanRestart(c) /\ Restarts(c) /\ conn'[c].isChanged = conn[c].isChanged
    BY <1>1, <1>6
  <2>2. conn[c].hdr = shm.hdr /\ nb = mx /\ writeLock \in {c, None} /\ Committing = {}
    BY <1>1, <2>1, CkptCurrent
  <2>3. Live' /\ FileInv' /\ Outdated' /\ mx' = 0 /\ Store' = Store /\ NoTwin(c) /\ nb' = nb
    BY <1>1, <1>3, <2>1, <2>2, RestartsFile DEF DataInv, Live
  <2>4. WriterFileInv(c)' /\ CkptFileInv(c)'
    BY <1>3, <1>6, <2>3, WriterFileIs DEF CkptFileInv
  <2>5. CacheInvOf(c)'
    <3> SUFFICES ASSUME ~conn'[c].isChanged
                 PROVE  cache'[c] \in {None, Store'}
      BY <1>2, <1>3 DEF CacheInvOf
    <3>1. cache[c] \in {None, Store}
      BY <1>3, <2>1, <2>2 DEF DataInv, CacheInvOf, Live, mx
    <3> QED
      BY <1>1, <2>3, <3>1
  <2>6. \A i \in 1..mx : wal'.frames[i] = wal.frames[i]
    BY <1>1
  <2> QED
    BY <1>1, <1>3, <1>4, <2>2, <2>3, <2>4, <2>5, <2>6, DataStep
<1> QED
  BY <1>1, <1>5, <1>6

\* A checkpoint that restarts the log holds the write lock, and the log is empty.
LEMMA Restarting ==
    ASSUME LogInv, NEW c \in Conns, conn[c].pc \in RestartPcs
    PROVE  /\ writeLock = c /\ ckptLock = c /\ Live /\ conn[c].pc \in CkptPcs
           /\ mx = 0 /\ conn[c].hdr.mxFrame = 0 /\ Committing = {}
           /\ 0 < shm.hdr.aSalt /\ conn[c].hdr.aSalt = shm.hdr.aSalt /\ conn[c].hdr.isInit
<1>1. conn[c].pc \in CkptPcs /\ conn[c].pc \notin FramePcs /\ conn[c].pc # "idle"
  BY PcParts
<1>2. writeLock = c /\ ckptLock = c /\ Live /\ conn[c].hdr.isInit
  BY <1>1, HeldLocks DEF LogInv
<1>3. Committing = {}
  BY <1>1, <1>2, NotCommitting, PcParts
<1> QED
  BY <1>1, <1>2, <1>3 DEF LogInv, PosInv, CkptInv

\* Its steps keep the store, and what it says about its own cache.
LEMMA RestartingData ==
    ASSUME LogInv, LogInv', DataInv, NEW c \in Conns, Sets(c, conn'[c]),
           conn[c].pc \in RestartPcs, conn'[c].pc \in CkptPcs,
           UNCHANGED <<db, cache, writeLock, ckptLock, nTx>>,
           conn'[c].hdr.isInit = conn[c].hdr.isInit, conn'[c].hdr.aSalt = conn[c].hdr.aSalt,
           conn'[c].hdr.mxFrame = conn[c].hdr.mxFrame, conn'[c].isChanged = conn[c].isChanged,
           shm'.hdr.aSalt = shm.hdr.aSalt, mx' = mx,
           FileInv', Store' = Store, CkptFileInv(c)'
    PROVE  DataInv'
<1>1. writeLock = c /\ ckptLock = c /\ Live /\ conn[c].pc \in CkptPcs /\ mx = 0
  BY Restarting
<1>2. /\ ~InTransaction(c) /\ ~InTransaction(c)' /\ ~Writing(c)' /\ Live'
  BY <1>1, CkptHolds, CkptHoldsNext
<1>3. WriterFileInv(c)'
  BY <1>2, WriterFileIs
<1>4. CacheInvOf(c)'
  BY <1>1, <1>2, KeptCache DEF DataInv
<1>5. OwnLocks(c) /\ NoTwin(c)
  BY OwnLocksIntro DEF LogInv, NoTwin, mx
<1>6. \A i \in 1..mx : wal'.frames[i] = wal.frames[i]
  BY <1>1
<1> QED
  BY <1>1, <1>2, <1>3, <1>4, <1>5, <1>6, DataStep

LEMMA CkptInfoData ==
    ASSUME LogInv, LogInv', DataInv, NEW c \in Conns, CkptInfo(c)
    PROVE  DataInv'
<1>1. /\ Sets(c, conn'[c]) /\ conn[c].pc = "ckInfo"
      /\ conn'[c].pc \in {"ckTruncate", "ckHeader"}
      /\ conn'[c].hdr = conn[c].hdr /\ conn'[c].isChanged = conn[c].isChanged
      /\ shm'.hdr = shm.hdr /\ shm'.open = shm.open
      /\ UNCHANGED <<wal, db, writeLock, ckptLock, cache, nTx>>
  BY CkptInfoEffect DEF LogInv, KeepsCkpt
<1>2. conn[c].pc \in RestartPcs /\ conn'[c].pc \in CkptPcs
  BY <1>1, PcParts
<1>3. mx = 0 /\ Live /\ conn[c].pc \in CkptPcs
  BY <1>2, Restarting
<1>4. conn[c].pc \notin WritePcs /\ conn'[c].pc \notin WritePcs
  BY <1>2, <1>3, CkptHolds, CkptHoldsNext
<1>5. Committing' = Committing
  BY <1>1, <1>4, SameCommitting, PcParts
<1>6. Live' /\ FileInv' /\ mx' = 0 /\ Store' = Store
  BY <1>1, <1>3, <1>5, InfoFile DEF DataInv
<1>7. CkptFileInv(c)'
  BY <1>1 DEF CkptFileInv, DataInv, Outdated
<1> QED
  BY <1>1, <1>2, <1>3, <1>6, <1>7, RestartingData

LEMMA CkptHeaderData ==
    ASSUME LogInv, LogInv', DataInv, NEW c \in Conns, CkptHeader(c)
    PROVE  DataInv'
<1>1. /\ Sets(c, conn'[c]) /\ conn[c].pc = "ckHeader" /\ conn'[c].pc = "ckPublish"
      /\ conn'[c].hdr.mxFrame = conn[c].hdr.mxFrame /\ conn'[c].hdr.aSalt = conn[c].hdr.aSalt
      /\ conn'[c].hdr.isInit = conn[c].hdr.isInit /\ conn'[c].isChanged = conn[c].isChanged
      /\ wal'.hdr = conn[c].hdr.aSalt /\ wal'.frames = wal.frames
      /\ UNCHANGED <<db, shm, writeLock, ckptLock, cache, nTx>>
  BY CkptHeaderEffect DEF LogInv, KeepsCkpt
<1>2. conn[c].pc \in RestartPcs /\ conn'[c].pc \in CkptPcs
  BY <1>1, PcParts
<1>3. mx = 0 /\ Live /\ 0 < shm.hdr.aSalt /\ conn[c].hdr.aSalt = shm.hdr.aSalt
  BY <1>2, Restarting
<1>4. wal.hdr < shm.hdr.aSalt
  BY <1>1 DEF DataInv, CkptFileInv, Outdated
<1>5. shm.hdr.aSalt \in Nat /\ Live' /\ mx' = mx /\ shm.hdr.aSalt <= shm.hdr.aSalt
  BY <1>1, <1>3, Fields DEF LogInv, Live, mx
<1>6. FileInv' /\ Store' = Store
  <2> DEFINE salt == shm.hdr.aSalt
  <2>1. salt \in Nat /\ wal'.hdr = salt /\ shm.hdr.aSalt <= salt /\ wal.hdr < salt
        /\ wal'.frames = wal.frames /\ db' = db /\ shm'.hdr = shm.hdr
    BY <1>1, <1>3, <1>4, <1>5
  <2> HIDE DEF salt
  <2> QED
    BY <1>3, <1>5, <2>1, HeaderFile DEF DataInv
<1>7. CkptFileInv(c)'
  BY <1>1, <1>3 DEF CkptFileInv
<1> QED
  BY <1>1, <1>2, <1>5, <1>6, <1>7, RestartingData

LEMMA CkptPublishData ==
    ASSUME LogInv, LogInv', DataInv, NEW c \in Conns, CkptPublish(c)
    PROVE  DataInv'
<1>1. /\ Sets(c, conn'[c]) /\ conn[c].pc = "ckPublish" /\ conn'[c].pc = "ckEnd"
      /\ conn'[c].hdr = conn[c].hdr /\ conn'[c].isChanged = conn[c].isChanged
      /\ shm'.hdr = conn[c].hdr /\ nb' = nb /\ shm'.open = shm.open
      /\ UNCHANGED <<wal, db, writeLock, ckptLock, cache, nTx>>
  BY CkptPublishEffect DEF LogInv, KeepsCkpt, KeepsShm, nb
<1>2. conn[c].pc \in RestartPcs /\ conn'[c].pc \in CkptPcs
  BY <1>1, PcParts
<1>3. /\ mx = 0 /\ Live /\ conn[c].hdr.aSalt = shm.hdr.aSalt /\ conn[c].hdr.mxFrame = 0
      /\ conn[c].hdr.isInit /\ conn[c].pc \in CkptPcs
  BY <1>2, Restarting
<1>4. mx' = mx /\ Live' /\ shm'.hdr.aSalt = shm.hdr.aSalt
  BY <1>1, <1>3 DEF Live, mx
<1>5. conn[c].pc \notin WritePcs /\ conn'[c].pc \notin WritePcs
  BY <1>2, <1>3, CkptHolds, CkptHoldsNext
<1>6. Committing' = Committing
  BY <1>1, <1>5, SameCommitting, PcParts
<1>7. FileInv'
  <2>1. LiveFile(wal.hdr, wal.frames, db, nb, shm.hdr, Committing # {})
    BY <1>3, FileInvIs DEF DataInv
  <2>2. LiveFile(wal.hdr, wal.frames, db, nb, conn[c].hdr, Committing # {})
    BY <1>3, <2>1 DEF LiveFile, mx
  <2> QED
    BY <1>1, <1>4, <1>6, <2>2, FileInvIs
<1>8. Store' = Store
  BY <1>1, <1>3, <1>4, SameStore
<1>9. CkptFileInv(c)'
  BY <1>1 DEF CkptFileInv
<1> QED
  BY <1>1, <1>2, <1>4, <1>7, <1>8, <1>9, RestartingData

LEMMA CkptTruncateData ==
    ASSUME LogInv, LogInv', DataInv, NEW c \in Conns, CkptTruncate(c)
    PROVE  DataInv'
<1>1. /\ Sets(c, conn'[c]) /\ conn[c].pc = "ckTruncate" /\ conn'[c].pc = "ckEnd"
      /\ conn'[c].hdr = conn[c].hdr /\ conn'[c].isChanged = conn[c].isChanged
      /\ wal'.hdr = 0 /\ wal'.frames = <<>>
      /\ UNCHANGED <<db, shm, writeLock, ckptLock, cache, nTx>>
  BY CkptTruncateEffect DEF LogInv, KeepsCkpt
<1>2. conn[c].pc \in RestartPcs /\ conn'[c].pc \in CkptPcs
  BY <1>1, PcParts
<1>3. mx = 0 /\ Live /\ 0 < shm.hdr.aSalt
  BY <1>2, Restarting
<1>4. mx' = mx /\ Live' /\ nb' = nb /\ db \in Image
  BY <1>1, <1>3, Fields DEF LogInv, Live, mx, nb
<1>5. Store' = Store
  BY <1>1, <1>3, <1>4, SameStore
<1>6. FileInv'
  <2> DEFINE none == <<>>
  <2>1. Len(none) = 0
    OBVIOUS
  <2>2. EndsAt(0, none, 0)
    BY <2>1 DEF EndsAt
  <2> HIDE DEF none
  <2>3. BackfilledBy(none, db, nb, 0) /\ Img(none, db, 1, 0) = db
    BY <1>4, NoFrames, EmptyLog
  <2>4. 0 \in 0..Len(none)
    BY <2>1
  <2>5. LiveFile(0, none, db, nb, shm.hdr, Committing' # {})
    BY <1>3, <2>1, <2>2, <2>3, <2>4 DEF LiveFile, mx
  <2> QED
    BY <1>1, <1>4, <2>5, FileInvIs DEF none
<1>7. CkptFileInv(c)'
  BY <1>1 DEF CkptFileInv
<1> QED
  BY <1>1, <1>2, <1>4, <1>5, <1>6, <1>7, RestartingData


\* A reader of a frame of page p does not look at p in the database file.
LEMMA CoveredImage ==
    ASSUME NEW frames, NEW d \in Image, NEW e \in Image, NEW p \in Pages,
           \A q \in Pages \ {p} : e[q] = d[q],
           NEW first \in Nat \ {0}, NEW last \in Nat, NEW i \in first..last, frames[i].page = p
    PROVE  Img(frames, e, first, last) = Img(frames, d, first, last)
<1>1. LastFrame(frames, p, first, last) # 0
  BY LastFrameProps
<1> QED
  BY <1>1 DEF Img

\* One page copied to the database file, under a frame that everybody sees.
LEMMA CopyFile ==
    ASSUME LogInv, LogInv', DataInv, NEW c \in Conns, CkptCopy(c)
    PROVE  /\ Live' /\ FileInv' /\ mx' = mx /\ nb' = nb /\ Store' = Store
           /\ CkptFileInv(c)'
           /\ \A d \in Conns \ {c} : InTransaction(d) => View(d)' = View(d)
<1> DEFINE frames == wal.frames
           n == nb
           m == mx
           l == conn[c].hdr.mxFrame
           safe == conn[c].mxSafeFrame
<1>1. PICK p \in conn[c].todo :
         LET i == FindFrame(p, n + 1, l) IN
         /\ i \in (n + 1)..l /\ i <= safe /\ i \in 1..Len(frames) /\ frames[i].page = p
         /\ db' = [db EXCEPT ![p] = frames[i].val]
         /\ conn'[c].todo = conn[c].todo \ {p}
  BY CkptCopyEffect DEF LogInv
<1> DEFINE i == FindFrame(p, n + 1, l)
<1>2. /\ Sets(c, conn'[c]) /\ conn[c].pc = "ckCopy" /\ conn'[c].pc = "ckCopy"
      /\ conn'[c].hdr = conn[c].hdr /\ conn'[c].mxSafeFrame = safe
      /\ UNCHANGED <<wal, shm, writeLock, ckptLock, cache, nTx>>
  BY CkptCopyEffect DEF LogInv, KeepsCkpt
<1>3. /\ Live /\ ckptLock = c /\ m \in Nat /\ n \in Nat /\ l \in Nat /\ safe \in Nat
      /\ n < safe /\ safe <= l /\ l <= m
      /\ \A q \in ToCopy(conn[c]) \ conn[c].todo :
            db[q] = frames[FindFrame(q, n + 1, l)].val
      /\ BackfilledBy(frames, db, n, m)
      /\ \A d \in Conns : Pinned(d) => safe <= conn[d].hdr.mxFrame
      /\ \A d \in Conns : conn[d].readLock # 0
  BY <1>2, Copies
<1>4. p \in Pages /\ db \in Image /\ db' \in Image
  BY ConnFields, Fields, FieldsNext DEF LogInv
<1>5. /\ db'[p] = frames[i].val /\ \A q \in Pages \ {p} : db'[q] = db[q]
      /\ i \in (n + 1)..l /\ i <= safe /\ frames[i].page = p
      /\ conn'[c].todo = conn[c].todo \ {p}
  BY <1>1, <1>4 DEF Image
<1>6. Live' /\ mx' = m /\ nb' = n
  BY <1>2, <1>3 DEF Live, mx, nb
<1>7. ASSUME NEW first \in Nat \ {0}, first <= n + 1, NEW last \in Nat, safe <= last
      PROVE  Img(frames, db', first, last) = Img(frames, db, first, last)
  <2> DEFINE e == db'
  <2>1. i \in first..last /\ e \in Image /\ \A q \in Pages \ {p} : e[q] = db[q]
    BY <1>3, <1>4, <1>5, <1>7
  <2> HIDE DEF e, i, frames
  <2> QED
    BY <1>4, <1>5, <2>1, CoveredImage DEF e
<1>8. BackfilledBy(frames, db', n, m)
  <2> HIDE DEF frames, n, m, l, safe
  <2>1. i \in 1..m
    BY <1>3, <1>5
  <2>2. i <= LastFrame(frames, p, 1, m) /\ LastFrame(frames, p, 1, m) \in Nat
    BY <1>3, <1>5, <2>1, LastFrameProps
  <2>3. ~(LastFrame(frames, p, 1, m) <= n)
    BY <1>3, <1>5, <2>1, <2>2
  <2> QED
    BY <1>3, <1>5, <2>3 DEF BackfilledBy
<1>9. Committing' = Committing
  BY <1>2, SameCommitting
<1>10. FileInv'
  <2> DEFINE e == db'
  <2>1. LiveFile(wal.hdr, frames, db, nb, shm.hdr, Committing # {})
    BY <1>3, FileInvIs DEF DataInv
  <2>2. shm.hdr.mxFrame > 0 /\ shm.hdr.aSalt \in Nat
    BY <1>3, Fields DEF mx, LogInv
  <2>3. ~(wal.hdr < shm.hdr.aSalt)
    BY <2>1, <2>2 DEF LiveFile
  <2>4. LiveFile(wal.hdr, frames, e, nb, shm.hdr, Committing # {})
    BY <1>8, <2>1, <2>3 DEF LiveFile, mx
  <2> QED
    BY <1>2, <1>6, <1>9, <2>4, FileInvIs
<1>11. \A first, last : /\ ImageOf(first, last) = Img(frames, db, first, last)
                        /\ ImageOf(first, last)' = Img(frames, db', first, last)
  BY <1>2, FindFrameIsLast, FindFrameIsLastNext
<1>12. ImageOf(1, mx)' = ImageOf(1, mx)
  <2>1. ImageOf(1, mx)' = Img(wal'.frames, db', 1, mx')
    BY FindFrameIsLastNext
  <2>2. Img(frames, db', 1, m) = Img(frames, db, 1, m)
    BY <1>3, <1>7
  <2> QED
    BY <1>2, <1>6, <1>11, <2>1, <2>2
<1>13. Store' = Store
  BY <1>3, <1>6, <1>12 DEF Store, Live, mx
<1>14. CkptFileInv(c)'
  <2>1. ToCopy(conn[c])' = ToCopy(conn[c])
    BY <1>2 DEF ToCopy, FindFrame
  <2>2. \A q : FindFrame(q, nb + 1, conn[c].hdr.mxFrame)' = FindFrame(q, n + 1, l)
    BY <1>2, <1>6 DEF FindFrame
  <2>3. ASSUME NEW q \in ToCopy(conn[c]) \ conn'[c].todo
        PROVE  db'[q] = frames[FindFrame(q, n + 1, l)].val
    <3>1. q \in Pages
      BY <2>3 DEF ToCopy
    <3>2. CASE q = p
      BY <1>5, <3>2
    <3>3. CASE q # p
      BY <1>3, <1>5, <2>3, <3>1, <3>3
    <3> QED
      BY <3>2, <3>3
  <2> QED
    BY <1>2, <2>1, <2>2, <2>3 DEF CkptFileInv
<1>15. ASSUME NEW d \in Conns \ {c}, InTransaction(d)
       PROVE  View(d)' = View(d)
  <2>1. conn'[d] = conn[d] /\ InTransaction(d)' /\ (writeLock' = d <=> writeLock = d)
    BY <1>2, <1>15 DEF Sets, InTransaction
  <2>2. CASE conn[d].readLock = -1
    <3>1. View(d) = ImageOf(1, mx)
      BY <1>15, <2>2, ViewIs DEF LogInv
    <3>2. View(d)' = ImageOf(1, mx)'
      BY <2>1, <2>2, ViewIsNext DEF LogInv
    <3> QED
      BY <1>12, <3>1, <3>2
  <2>3. CASE conn[d].readLock > 0
    <3> DEFINE first == conn[d].minFrame
               last == IF writeLock = d THEN m ELSE conn[d].hdr.mxFrame
    <3>1. View(d) = Img(frames, db, first, last)
      BY <1>11, <1>15, <2>3, ViewIs DEF LogInv
    <3>2. View(d)' = Img(frames, db', first, last)
      <4>1. View(d)' = IF writeLock' = d THEN ImageOf(conn[d].minFrame, mx)'
                       ELSE ImageOf(conn[d].minFrame, conn[d].hdr.mxFrame)'
        BY <2>1, <2>3, ViewIsNext DEF LogInv
      <4>2. /\ ImageOf(conn[d].minFrame, mx)' = Img(wal'.frames, db', conn'[d].minFrame, mx')
            /\ ImageOf(conn[d].minFrame, conn[d].hdr.mxFrame)'
                  = Img(wal'.frames, db', conn'[d].minFrame, conn'[d].hdr.mxFrame)
        BY FindFrameIsLastNext
      <4> QED
        BY <1>2, <1>6, <2>1, <4>1, <4>2
    <3>3. first \in Nat \ {0} /\ first <= n + 1
      BY <1>3, <2>3, HeldBackfill, ConnFields DEF LogInv
    <3>4. last \in Nat /\ safe <= last
      BY <1>3, <1>15, <2>3, ReadersEnd, ConnFields DEF LogInv
    <3> HIDE DEF first, last
    <3> QED
      BY <1>7, <3>1, <3>2, <3>3, <3>4
  <2> QED
    BY <1>3, <2>2, <2>3, ViewIs DEF LogInv
<1> QED
  BY <1>6, <1>10, <1>13, <1>14, <1>15

LEMMA CkptCopyData ==
    ASSUME LogInv, LogInv', DataInv, NEW c \in Conns, CkptCopy(c)
    PROVE  DataInv'
<1>1. /\ Sets(c, conn'[c]) /\ conn[c].pc = "ckCopy" /\ conn'[c].pc = "ckCopy"
      /\ conn'[c].hdr = conn[c].hdr /\ conn'[c].isChanged = conn[c].isChanged
      /\ UNCHANGED <<wal, shm, writeLock, ckptLock, cache, nTx>>
  BY CkptCopyEffect DEF LogInv, KeepsCkpt
<1>2. /\ Live' /\ FileInv' /\ mx' = mx /\ nb' = nb /\ Store' = Store
      /\ CkptFileInv(c)'
      /\ \A d \in Conns \ {c} : InTransaction(d) => View(d)' = View(d)
  BY CopyFile
<1>3. conn[c].pc \in CkptPcs /\ conn'[c].pc \in CkptPcs
  BY <1>1, PcParts
<1>4. ckptLock = c /\ ~InTransaction(c) /\ ~InTransaction(c)' /\ ~Writing(c)'
  BY <1>3, CkptHolds, CkptHoldsNext
<1>5. CacheInvOf(c)'
  BY <1>1, <1>2, <1>3, <1>4, KeptCache DEF DataInv
<1>6. WriterFileInv(c)'
  BY <1>4, WriterFileIs
<1>7. OwnLocks(c)
  BY <1>1, OwnLocksIntro DEF LogInv
<1>8. \A i \in 1..mx : wal'.frames[i] = wal.frames[i]
  BY <1>1
<1>9. Backfilled(nb, mx)'
  BY <1>2 DEF FileInv
<1>10. ASSUME NEW d \in Conns \ {c}
       PROVE  WriterFileInv(d)' /\ CkptFileInv(d)' /\ CacheInvOf(d)'
  <2>1. WriterFileInv(d)'
    BY <1>1, <1>7, OthersWriterFile DEF DataInv
  <2>2. CkptFileInv(d)'
    BY <1>1, <1>4, <1>7, <1>8, OthersCkptFile DEF DataInv
  <2>3. CacheInvOf(d)'
    <3>1. CacheInvOf(d) /\ (InTransaction(d) => View(d)' = View(d)) /\ cache'[d] = cache[d]
      BY <1>1, <1>2 DEF DataInv
    <3>2. shm'.hdr.aSalt = shm.hdr.aSalt
      BY <1>1
    <3> QED
      BY <1>1, <1>2, <1>7, <1>9, <3>1, <3>2, OthersCache
  <2> QED
    BY <2>1, <2>2, <2>3
<1> QED
  BY <1>2, <1>5, <1>6, <1>10 DEF DataInv


-----------------------------------------------------------------------------
(* The death of the process, and recovery *)

\* With no transaction and no checkpoint, and no cache that would be kept, the
\* files are all there is.
LEMMA RestingData ==
    FileInv /\ writeLock = None
    /\ (\A d \in Conns : /\ conn[d].pc \in {"idle", "try"}
                         /\ ~conn[d].hdr.isInit \/ cache[d] = None)
    => DataInv
<1> SUFFICES ASSUME FileInv, writeLock = None, NEW d \in Conns, conn[d].pc \in {"idle", "try"},
                    ~conn[d].hdr.isInit \/ cache[d] = None
             PROVE  WriterFileInv(d) /\ CkptFileInv(d) /\ CacheInvOf(d)
  BY DEF DataInv
<1>1. writeLock # d
  BY WalConstants
<1>2. ~Writing(d) /\ ~InTransaction(d)
  BY <1>1 DEF Writing, InTransaction
<1> QED
  BY <1>2 DEF WriterFileInv, CkptFileInv, CacheInvOf

LEMMA RestingDataNext ==
    FileInv' /\ writeLock' = None
    /\ (\A d \in Conns : /\ conn'[d].pc \in {"idle", "try"}
                         /\ ~conn'[d].hdr.isInit \/ cache'[d] = None)
    => DataInv'
<1> DEFINE A == FileInv /\ writeLock = None
                /\ (\A d \in Conns : /\ conn[d].pc \in {"idle", "try"}
                                     /\ ~conn[d].hdr.isInit \/ cache[d] = None)
<1>1. A => DataInv
  BY RestingData
<1>2. (A => DataInv)'
  BY <1>1, PTL
<1> QED
  BY <1>2

\* The files of a process that has died: where recovery ends, and from which
\* backfills it may start.
DeadFile(salt, frames, d, hints) ==
    /\ \A i \in 1..Len(frames) : frames[i].aSalt <= salt
    /\ \E m \in 0..Len(frames) : /\ EndsAt(salt, frames, m)
                                 /\ \A n \in hints : BackfilledBy(frames, d, n, m)

LEMMA DeadFileIs ==
    /\ ~Live => (FileInv <=> DeadFile(wal.hdr, wal.frames, db, Hints))
    /\ ~Live' => (FileInv' <=> DeadFile(wal'.hdr, wal'.frames, db', Hints'))
<1>1. ASSUME ~Live
      PROVE  FileInv <=> DeadFile(wal.hdr, wal.frames, db, Hints)
  BY <1>1, OfFiles DEF FileInv, DeadFile
<1>2. ASSUME ~Live'
      PROVE  FileInv' <=> DeadFile(wal'.hdr, wal'.frames, db', Hints')
  <2>1. FileInv' <=> /\ \A n \in 1..Len(wal'.frames) : wal'.frames[n].aSalt <= wal'.hdr
                     /\ \E m \in 0..Len(wal'.frames) :
                           LogEnds(m)' /\ \A n \in Hints' : Backfilled(n, m)'
    BY <1>2 DEF FileInv
  <2> QED
    BY <2>1, OfFilesNext DEF DeadFile
<1> QED
  BY <1>1, <1>2

\* The backfill that is taken over is that of this log, or none.
LEMMA TakenOver ==
    /\ tryRecoverBackfill = 0 \/ tryRecoverBackfill = nb
    /\ tryRecoverBackfill # 0 => shm.hdr.isInit /\ wal.hdr = shm.hdr.aSalt
BY DEF tryRecoverBackfill, nb

\* The frame that ends the log if the process dies now.
LEMMA EndOfLog ==
    ASSUME LogInv, DataInv
    PROVE  DeadFile(wal.hdr, wal.frames, db, {0, tryRecoverBackfill} \cup (IF Live THEN {} ELSE Hints))
<1> DEFINE frames == wal.frames
           salt == wal.hdr
           t == tryRecoverBackfill
<1>1. /\ mx \in Nat /\ nb \in Nat /\ salt \in Nat /\ shm.hdr.aSalt \in Nat /\ Len(frames) \in Nat
      /\ mx \in 0..Len(frames)
  BY Fields DEF LogInv, PosInv, ShapeInv, mx, nb
<1>2. \A i \in 1..Len(frames) : frames[i].aSalt <= salt
  BY DEF DataInv, FileInv
<1>3. CASE ~Live
  <2>1. DeadFile(salt, frames, db, Hints)
    BY <1>3, DeadFileIs DEF DataInv
  <2>2. PICK m \in 0..Len(frames) : /\ EndsAt(salt, frames, m)
                                    /\ \A n \in Hints : BackfilledBy(frames, db, n, m)
    BY <2>1 DEF DeadFile
  <2>3. m \in Nat
    BY <1>1
  <2>4. BackfilledBy(frames, db, 0, m)
    BY <2>3, NoneBackfilled
  <2>5. t = 0 \/ t \in Hints
    BY <1>3, TakenOver DEF Hints, Live
  <2> HIDE DEF t, frames, salt
  <2> QED
    BY <1>2, <1>3, <2>2, <2>4, <2>5 DEF DeadFile, frames, salt, t
<1>4. CASE Live
  <2>1. LiveFile(salt, frames, db, nb, shm.hdr, Committing # {})
    BY <1>4, FileInvIs DEF DataInv
  <2>2. SUFFICES \E m \in 0..Len(frames) : /\ EndsAt(salt, frames, m)
                                           /\ t = 0 \/ BackfilledBy(frames, db, t, m)
    <3>1. PICK m \in 0..Len(frames) : /\ EndsAt(salt, frames, m)
                                      /\ t = 0 \/ BackfilledBy(frames, db, t, m)
      BY <2>2
    <3>2. BackfilledBy(frames, db, 0, m)
      BY <1>1, NoneBackfilled
    <3> QED
      BY <1>2, <1>4, <3>1, <3>2 DEF DeadFile
  <2>3. CASE salt < shm.hdr.aSalt
    <3>1. t = 0
      BY <1>1, <2>3, TakenOver
    <3> QED
      BY <2>1, <2>3, <3>1 DEF LiveFile
  <2>4. CASE ~(salt < shm.hdr.aSalt) /\ Committing = {}
    <3>1. EndsAt(salt, frames, mx) /\ BackfilledBy(frames, db, nb, mx)
      BY <2>1, <2>4 DEF LiveFile, mx
    <3> QED
      BY <1>1, <3>1, TakenOver
  <2>5. CASE Committing # {}
    <3>1. PICK c \in Conns : conn[c].pc = "publish" /\ conn[c].isCommit
      BY <2>5 DEF Committing
    <3> DEFINE k == conn[c].iFrame
    <3>2. /\ mx < k /\ k \in Nat /\ conn[c].readLock > 0
          /\ WriterFile(salt, frames, mx, shm.hdr.aSalt, conn[c])
      BY <3>1, Publishes
    <3>3. EndsAt(salt, frames, k)
      BY <3>1, <3>2 DEF WriterFile
    <3>4. k \in 0..Len(frames)
      BY <3>3 DEF EndsAt
    <3>5. nb <= mx
      BY <1>4, <3>2, HeldBackfill
    <3>6. BackfilledBy(frames, db, nb, k)
      <4>1. BackfilledBy(frames, db, nb, mx)
        BY <2>1 DEF LiveFile, mx
      <4> HIDE DEF frames, k
      <4> QED
        BY <1>1, <3>2, <3>5, <4>1, BackfilledLess
    <3> QED
      BY <3>3, <3>4, <3>6, TakenOver
  <2> QED
    BY <2>3, <2>4, <2>5
<1> QED
  BY <1>3, <1>4

LEMMA FewerHints ==
    ASSUME NEW salt, NEW frames, NEW d, NEW hints, NEW less \in SUBSET hints,
           DeadFile(salt, frames, d, hints)
    PROVE  DeadFile(salt, frames, d, less)
BY DEF DeadFile

LEMMA KillData ==
    ASSUME LogInv, LogInv', DataInv, Kill
    PROVE  DataInv'
<1>1. /\ ~shm'.open /\ shm.open /\ shm'.hdr = shm.hdr /\ shm'.nBackfill = shm.nBackfill
      /\ shm'.nBackfillAttempted = shm.nBackfillAttempted
      /\ writeLock' = None /\ wal' = wal /\ db' = db
      /\ \A d \in Conns : conn'[d].pc = "idle" /\ cache'[d] = None
  BY KillTypes DEF Kill, LogInv, NewConn, files
<1>2. tryRecoverBackfill' = tryRecoverBackfill
  BY <1>1 DEF tryRecoverBackfill
<1>3. ~Live' /\ Hints' = {tryRecoverBackfill}
  BY <1>1, <1>2 DEF Live, Hints
<1>4. FileInv'
  <2> DEFINE hints == {0, tryRecoverBackfill} \cup (IF Live THEN {} ELSE Hints)
  <2>1. DeadFile(wal.hdr, wal.frames, db, hints)
    BY EndOfLog
  <2>2. {tryRecoverBackfill} \in SUBSET hints
    OBVIOUS
  <2> HIDE DEF hints
  <2>3. DeadFile(wal.hdr, wal.frames, db, {tryRecoverBackfill})
    BY <2>1, <2>2, FewerHints
  <2> QED
    BY <1>1, <1>3, <2>3, DeadFileIs
<1> QED
  BY <1>1, <1>4, RestingDataNext

LEMMA OpenShmData ==
    ASSUME LogInv, LogInv', DataInv, NEW c \in Conns, OpenShm(c)
    PROVE  DataInv'
<1>1. /\ Sets(c, conn'[c]) /\ ~shm.open
      /\ conn'[c].pc = conn[c].pc /\ conn'[c].hdr = conn[c].hdr
      /\ conn'[c].nBackFill = tryRecoverBackfill
      /\ shm'.open /\ shm'.hdr = ZeroHdr
      /\ UNCHANGED <<wal, db, writeLock, cache>>
  BY OpenShmEffect DEF LogInv
<1>2. ~Live /\ ~Live'
  BY <1>1 DEF Live, ZeroHdr
<1>3. /\ writeLock = None
      /\ \A d \in Conns : conn[d].pc = "idle" /\ ~conn[d].hdr.isInit /\ conn[d].nBackFill = 0
  BY <1>1, <1>2 DEF LogInv, LockInv, ZeroHdr
<1>4. \A d \in Conns : conn'[d].pc = "idle" /\ ~conn'[d].hdr.isInit
                       /\ conn'[d].nBackFill \in {0, tryRecoverBackfill}
  BY <1>1, <1>3 DEF Sets
<1>5. Hints' \subseteq {0, tryRecoverBackfill}
  BY <1>1, <1>4, WalConstants DEF Hints, ZeroHdr
<1>6. FileInv'
  <2> DEFINE hints == {0, tryRecoverBackfill} \cup (IF Live THEN {} ELSE Hints)
  <2>1. DeadFile(wal.hdr, wal.frames, db, hints)
    BY EndOfLog
  <2>2. Hints' \in SUBSET hints
    BY <1>5
  <2> HIDE DEF hints
  <2>3. DeadFile(wal.hdr, wal.frames, db, Hints')
    BY <2>1, <2>2, FewerHints
  <2> QED
    BY <1>1, <1>2, <2>3, DeadFileIs
<1> QED
  BY <1>1, <1>3, <1>4, <1>6, RestingDataNext

\* Recovery finds the end of the log.
LEMMA RecoverFile ==
    ASSUME LogInv, LogInv', DataInv, NEW c \in Readers, Recover(c)
    PROVE  Live' /\ FileInv'
<1> DEFINE frames == wal.frames
           salt == wal.hdr
           n == conn[c].nBackFill
<1>1. /\ shm.open /\ ~shm.hdr.isInit /\ shm'.open /\ shm'.hdr = RecoveredHdr
      /\ shm'.nBackfill = (IF n <= RecoveredFrame THEN n ELSE 0)
      /\ wal' = wal /\ db' = db
  BY RecoverEffect, WalConstants DEF LogInv
<1>2. /\ RecoveredFrame \in 0..Len(frames) /\ RecoveredHdr.isInit
      /\ RecoveredHdr.mxFrame = RecoveredFrame
      /\ RecoveredHdr.aSalt = IF frames = <<>> THEN 0 ELSE salt
  BY RecoveredType DEF LogInv
<1>3. Live' /\ ~Live
  BY <1>1, <1>2 DEF Live
<1>4. Len(frames) \in Nat /\ salt \in Nat
  BY Fields DEF LogInv
<1>5. n \in Hints
  BY <1>1 DEF Hints
<1>6. DeadFile(salt, frames, db, Hints)
  BY <1>3, DeadFileIs DEF DataInv
<1>7. PICK m \in 0..Len(frames) : EndsAt(salt, frames, m) /\ BackfilledBy(frames, db, n, m)
  BY <1>5, <1>6 DEF DeadFile
<1>8. RecoveredFrame = m
  <2>1. RecoveredFrame = RecoveredBy(salt, frames)
    BY OfFiles
  <2> HIDE DEF frames, salt
  <2> QED
    BY <1>4, <1>7, <2>1, RecoversEnd
<1>9. m > 0 => /\ frames # <<>>
               /\ RecoveredHdr.aFrameCksum = frames[m].aFrameCksum
  <2> SUFFICES ASSUME m > 0
               PROVE  /\ frames # <<>>
                      /\ RecoveredHdr.aFrameCksum = frames[m].aFrameCksum
    OBVIOUS
  <2>1. Len(frames) # 0
    BY <1>4
  <2>2. frames # <<>>
    BY <2>1
  <2> QED
    BY <1>8, <2>2 DEF RecoveredHdr
<1>10. m > 0 => RecoveredHdr.aFrameCksum = ChainOf(salt, frames, m)
  <2> SUFFICES ASSUME m > 0
               PROVE  RecoveredHdr.aFrameCksum = ChainOf(salt, frames, m)
    OBVIOUS
  <2>1. m \in 1..m
    BY <1>4
  <2> QED
    BY <1>7, <1>9, <2>1 DEF EndsAt, Decodes
<1>11. BackfilledBy(frames, db, shm'.nBackfill, m)
  <2>1. BackfilledBy(frames, db, 0, m)
    BY <1>4, NoneBackfilled
  <2> QED
    BY <1>1, <1>7, <2>1
<1>12. \A i \in 1..Len(frames) : frames[i].aSalt <= salt
  BY DEF DataInv, FileInv
<1>13. LiveFile(salt, frames, db, shm'.nBackfill, shm'.hdr, Committing' # {})
  <2> DEFINE k == shm'.nBackfill
             h == shm'.hdr
  <2>1. h.mxFrame = m /\ (m > 0 => h.aSalt = salt /\ h.aFrameCksum = ChainOf(salt, frames, m))
    BY <1>1, <1>2, <1>8, <1>9, <1>10
  <2>2. ~(salt < h.aSalt)
    BY <1>1, <1>2, <1>4
  <2>3. EndsAt(salt, frames, m) /\ BackfilledBy(frames, db, k, m)
    BY <1>7, <1>11
  <2> HIDE DEF k, h, salt, frames
  <2>4. LiveFile(salt, frames, db, k, h, Committing' # {})
    BY <1>12, <2>1, <2>2, <2>3 DEF LiveFile
  <2> QED
    BY <2>4 DEF k, h
<1> QED
  BY <1>1, <1>3, <1>13, FileInvIs DEF nb

LEMMA RecoverData ==
    ASSUME LogInv, LogInv', DataInv, NEW c \in Readers, Recover(c)
    PROVE  DataInv'
<1>1. /\ Sets(c, conn'[c]) /\ ~shm.hdr.isInit /\ writeLock = None /\ conn'[c].pc = "try"
      /\ cache' = [cache EXCEPT ![c] = None] /\ writeLock' = writeLock /\ c \in Conns
  BY RecoverEffect, WalConstants DEF LogInv
<1>2. \A d \in Conns : conn[d].pc = "idle" /\ conn[d].hdr = ZeroHdr
  BY <1>1 DEF LogInv, LockInv, Live
<1>3. cache'[c] = None
  BY <1>1 DEF LogInv, TypeInv
<1>4. \A d \in Conns \ {c} : conn'[d].pc = "idle" /\ ~conn'[d].hdr.isInit
  BY <1>1, <1>2 DEF Sets, ZeroHdr
<1>5. FileInv'
  BY RecoverFile
<1> QED
  BY <1>1, <1>3, <1>4, <1>5, RestingDataNext

-----------------------------------------------------------------------------
(* The invariant *)

LEMMA InitData == Init => DataInv
<1> SUFFICES ASSUME Init
             PROVE  DataInv
  OBVIOUS
<1>1. /\ wal.hdr = 0 /\ wal.frames = <<>> /\ ~shm.open /\ ~shm.hdr.isInit /\ writeLock = None
      /\ \A d \in Conns : conn[d].pc = "idle" /\ cache[d] = None
  BY DEF Init, ZeroShm, ZeroHdr, NewConn
<1>2. ~Live /\ Hints = {0}
  BY <1>1 DEF Live, Hints, tryRecoverBackfill
<1>3. DeadFile(wal.hdr, wal.frames, db, Hints)
  <2> DEFINE frames == <<>>
  <2>1. Len(frames) = 0
    OBVIOUS
  <2>2. EndsAt(0, frames, 0)
    BY <2>1 DEF EndsAt
  <2> HIDE DEF frames
  <2>3. BackfilledBy(frames, db, 0, 0)
    BY NoFrames
  <2>4. DeadFile(0, frames, db, {0})
    BY <2>1, <2>2, <2>3 DEF DeadFile
  <2> QED
    BY <1>1, <1>2, <2>4 DEF frames
<1>4. FileInv
  BY <1>2, <1>3, DeadFileIs
<1> QED
  BY <1>1, <1>4, RestingData


\* A foreign header, once kept, stays.
LEMMA KeptStays == kept /\ [Next]_vars => kept'
<1> SUFFICES ASSUME kept, [Next]_vars
             PROVE  kept'
  OBVIOUS
<1>1. CASE \E c \in Readers : \/ OpenShm(c) \/ Recover(c) \/ ReadHdr(c) \/ LockZero(c)
                              \/ ChooseMark(c) \/ LockMark(c) \/ CheckMark(c) \/ EndRead(c)
  BY <1>1 DEF OpenShm, Recover, ReadHdr, LockZero, ChooseMark, LockMark, CheckMark, EndRead
<1>2. ASSUME NEW c \in Writers,
             \/ BeginWrite(c) \/ RestartLog(c) \/ RestartInfo(c) \/ KeepHeader(c)
             \/ \E P \in (SUBSET Pages) \ {{}}, commit \in BOOLEAN : WalFrames(c, P, commit)
             \/ \E salt \in 1..(nSalt + 1) : WriteHeader(c, salt)
             \/ WriteFrame(c) \/ RewriteChecksum(c) \/ Publish(c) \/ Rollback(c)
      PROVE  kept'
  <2>1. BeginWrite(c) \/ RestartLog(c) \/ RestartInfo(c) \/ KeepHeader(c) => kept'
    BY DEF BeginWrite, RestartLog, RestartInfo, KeepHeader, bounds
  <2>2. ASSUME NEW P, NEW commit, WalFrames(c, P, commit)
        PROVE  kept'
    BY <2>2 DEF WalFrames
  <2>3. ASSUME NEW salt, WriteHeader(c, salt)
        PROVE  kept'
    BY <2>3 DEF WriteHeader
  <2>4. WriteFrame(c) => kept'
    BY ZenonT(40) DEF WriteFrame
  <2>5. RewriteChecksum(c) => kept'
    BY DEF RewriteChecksum
  <2>6. Publish(c) => kept'
    BY DEF Publish
  <2>7. Rollback(c) => kept'
    BY SMTT(30) DEF Rollback
  <2> QED
    BY <1>2, <2>1, <2>2, <2>3, <2>4, <2>5, <2>6, <2>7
<1>3. CASE \E c \in Ckpters :
              \/ \E mode \in {"PASSIVE", "TRUNCATE"} : CkptBegin(c, mode)
              \/ CkptMark(c) \/ CkptLock0(c) \/ CkptCopy(c) \/ CkptBackfill(c)
              \/ CkptRestart(c) \/ CkptInfo(c) \/ CkptHeader(c) \/ CkptPublish(c)
              \/ CkptTruncate(c) \/ CkptFail(c) \/ CkptEnd(c)
  BY <1>3, ZenonT(40) DEF CkptBegin, CkptMark, CkptLock0, CkptCopy, CkptBackfill, CkptRestart,
     CkptInfo,
              CkptHeader, CkptPublish, CkptTruncate, CkptFail, CkptEnd
<1>4. CASE Kill
  BY <1>4 DEF Kill
<1>5. CASE UNCHANGED vars
  BY <1>5 DEF vars
<1> QED
  BY <1>1, <1>2, <1>3, <1>4, <1>5 DEF Next

LEMMA StutterData ==
    ASSUME LogInv, LogInv', DataInv, UNCHANGED vars
    PROVE  DataInv'
<1>1. FileInv'
  <2>1. Committing' = Committing /\ Hints' = Hints /\ (Live' <=> Live) /\ nb' = nb
    BY DEF vars, Committing, Hints, Live, tryRecoverBackfill, nb
  <2>2. CASE Live
    <3>1. LiveFile(wal.hdr, wal.frames, db, nb, shm.hdr, Committing # {})
      BY <2>2, FileInvIs DEF DataInv
    <3> QED
      BY <2>1, <2>2, <3>1, FileInvIs DEF vars
  <2>3. CASE ~Live
    <3>1. DeadFile(wal.hdr, wal.frames, db, Hints)
      BY <2>3, DeadFileIs DEF DataInv
    <3> QED
      BY <2>1, <2>3, <3>1, DeadFileIs DEF vars
  <2> QED
    BY <2>2, <2>3
<1>2. ASSUME NEW c \in Conns
      PROVE  WriterFileInv(c)' /\ CkptFileInv(c)' /\ CacheInvOf(c)'
  <2>1. WriterFileInv(c) /\ CkptFileInv(c) /\ CacheInvOf(c)
    BY DEF DataInv
  <2>2. WriterFileInv(c)'
    BY <2>1, WriterFileIs DEF vars, Writing, mx
  <2>3. CkptFileInv(c)'
    <3>1. ToCopy(conn[c])' = ToCopy(conn[c])
      BY DEF vars, ToCopy, FindFrame
    <3>2. \A p : FindFrame(p, nb + 1, conn[c].hdr.mxFrame)' = FindFrame(p, nb + 1, conn[c].hdr.mxFrame)
      BY DEF vars, FindFrame, nb
    <3>3. (Outdated' <=> Outdated) /\ nb' = nb
      BY DEF vars, Outdated, nb
    <3>4. conn' = conn /\ wal' = wal /\ db' = db /\ shm' = shm
      BY DEF vars
    <3> QED
      BY <2>1, <3>1, <3>2, <3>3, <3>4 DEF CkptFileInv
  <2>4. View(c)' = View(c) /\ (InTransaction(c)' <=> InTransaction(c))
    BY DEF vars, View, InTransaction, ImageOf, FindFrame
  <2>5. Store' = Store
    BY DEF vars, Store, ImageOf, FindFrame, RecoveredFrame, walDecodeFrame
  <2>6. CacheInvOf(c)'
    BY <2>1, <2>4, <2>5 DEF vars, CacheInvOf, Writing, mx
  <2> QED
    BY <2>2, <2>3, <2>6
<1> QED
  BY <1>1, <1>2 DEF DataInv

LEMMA NextData == LogInv /\ LogInv' /\ DataInv /\ [Next]_vars => kept' \/ DataInv'
<1> SUFFICES ASSUME LogInv, LogInv', DataInv, [Next]_vars, ~kept'
             PROVE  DataInv'
  OBVIOUS
<1>1. Readers \subseteq Conns /\ Writers \subseteq Conns /\ Ckpters \subseteq Conns
  BY WalConstants
<1>2. ASSUME NEW c \in Readers,
             \/ OpenShm(c) \/ Recover(c) \/ ReadHdr(c) \/ LockZero(c)
             \/ ChooseMark(c) \/ LockMark(c) \/ CheckMark(c) \/ EndRead(c)
      PROVE  DataInv'
  BY <1>1, <1>2, OpenShmData, RecoverData, ReadHdrData, LockZeroData, ChooseMarkData,
     LockMarkData, CheckMarkData, EndReadData
<1>3. ASSUME NEW c \in Writers,
             \/ BeginWrite(c) \/ RestartLog(c) \/ RestartInfo(c) \/ KeepHeader(c)
             \/ \E P \in (SUBSET Pages) \ {{}}, commit \in BOOLEAN : WalFrames(c, P, commit)
             \/ \E salt \in 1..(nSalt + 1) : WriteHeader(c, salt)
             \/ WriteFrame(c) \/ RewriteChecksum(c) \/ Publish(c) \/ Rollback(c)
      PROVE  DataInv'
  <2> c \in Conns
    BY <1>1
  <2>1. CASE BeginWrite(c) \/ RestartLog(c) \/ RestartInfo(c) \/ KeepHeader(c)
    BY <2>1, BeginWriteData, RestartLogData, RestartInfoData, KeepHeaderData
  <2>2. CASE \E P \in (SUBSET Pages) \ {{}}, commit \in BOOLEAN : WalFrames(c, P, commit)
    BY <2>2, WalFramesData
  <2>3. CASE \E salt \in 1..(nSalt + 1) : WriteHeader(c, salt)
    BY <2>3, WriteHeaderData
  <2>4. CASE WriteFrame(c) \/ RewriteChecksum(c) \/ Publish(c) \/ Rollback(c)
    BY <2>4, WriteFrameData, RewriteChecksumData, PublishData, RollbackData
  <2> QED
    BY <1>3, <2>1, <2>2, <2>3, <2>4
<1>4. ASSUME NEW c \in Ckpters,
             \/ \E mode \in {"PASSIVE", "TRUNCATE"} : CkptBegin(c, mode)
             \/ CkptMark(c) \/ CkptLock0(c) \/ CkptCopy(c) \/ CkptBackfill(c)
             \/ CkptRestart(c) \/ CkptInfo(c) \/ CkptHeader(c) \/ CkptPublish(c)
             \/ CkptTruncate(c) \/ CkptFail(c) \/ CkptEnd(c)
      PROVE  DataInv'
  BY <1>1, <1>4, CkptBeginData, CkptMarkData, CkptLock0Data, CkptCopyData, CkptBackfillData,
     CkptRestartData, CkptInfoData, CkptHeaderData, CkptPublishData, CkptTruncateData,
     CkptFailData, CkptEndData
<1>5. CASE Kill
  BY <1>5, KillData
<1>6. CASE UNCHANGED vars
  BY <1>6, StutterData
<1> QED
  BY <1>2, <1>3, <1>4, <1>5, <1>6 DEF Next

\* WalInv.IndInv: the log's types, locks and positions, and, as long as no writer kept a
\* foreign header, what its files and caches hold, in every state of every run.
THEOREM IndTheorem == Spec => []IndInv
<1>1. Init => IndInv
  BY InitLog, InitData DEF IndInv, LogInv
<1>2. IndInv /\ [Next]_vars => IndInv'
  BY NextLog, NextData, KeptStays DEF IndInv, LogInv
<1> QED
  BY <1>1, <1>2, PTL DEF Spec

\* Wal.CacheCoherent: the page cache that pagerBeginReadTransaction did not reset is that
\* of the snapshot the transaction reads, through checkpoints that read a newer header.
THEOREM CacheTheorem == Spec => []CacheCoherent
<1>1. IndInv => CacheCoherent
  BY DEF IndInv, DataInv, CacheInvOf, CacheCoherent
<1> QED
  BY <1>1, IndTheorem, PTL

\* If the process dies now, recovery finds the last commit, or the one whose commit frame
\* has just been written.
LEMMA EndIsCommitted ==
    ASSUME LogInv, DataInv
    PROVE  \E m \in 0..Len(wal.frames) :
              /\ EndsAt(wal.hdr, wal.frames, m)
              /\ \A n \in Hints : n \in Nat /\ BackfilledBy(wal.frames, db, n, m)
              /\ Img(wal.frames, db, 1, m) \in {Store, Pending}
<1> DEFINE frames == wal.frames
           salt == wal.hdr
           Ends(m) == /\ EndsAt(salt, frames, m)
                      /\ \A n \in Hints : BackfilledBy(frames, db, n, m)
                      /\ Img(frames, db, 1, m) \in {Store, Pending}
<1>1. /\ mx \in Nat /\ nb \in Nat /\ salt \in Nat /\ shm.hdr.aSalt \in Nat /\ Len(frames) \in Nat
      /\ mx \in 0..Len(frames) /\ db \in Image
  BY Fields DEF LogInv, PosInv, ShapeInv, mx, nb
<1>2. \A n \in Hints : n \in Nat
  BY ConnFields, RecoveredType, WalConstants DEF Hints, LogInv
<1>3. \A first, last : ImageOf(first, last) = Img(frames, db, first, last)
  BY FindFrameIsLast
<1>4. CASE ~Live
  <2>1. DeadFile(salt, frames, db, Hints)
    BY <1>4, DeadFileIs DEF DataInv
  <2>2. PICK m \in 0..Len(frames) : /\ EndsAt(salt, frames, m)
                                    /\ \A n \in Hints : BackfilledBy(frames, db, n, m)
    BY <2>1 DEF DeadFile
  <2>3. RecoveredFrame = m
    <3>1. RecoveredFrame = RecoveredBy(salt, frames)
      BY OfFiles
    <3> HIDE DEF frames, salt
    <3> QED
      BY <1>1, <2>2, <3>1, RecoversEnd
  <2>4. Store = Img(frames, db, 1, m)
    BY <1>3, <1>4, <2>3 DEF Store, Live
  <2> QED
    BY <1>2, <2>2, <2>4
<1>5. CASE Live /\ Committing = {}
  <2>1. LiveFile(salt, frames, db, nb, shm.hdr, FALSE)
    BY <1>5, FileInvIs DEF DataInv
  <2>2. Store = Img(frames, db, 1, mx)
    BY <1>3, <1>5, LiveStore
  <2>3. Hints = {tryRecoverBackfill}
    BY <1>5 DEF Hints, Live
  <2>4. CASE salt < shm.hdr.aSalt
    <3>1. PICK k \in 0..Len(frames) : EndsAt(salt, frames, k) /\ db = Img(frames, db, 1, k)
      BY <2>1, <2>4 DEF LiveFile
    <3>2. mx = 0
      BY <1>1, <2>1, <2>4 DEF LiveFile, mx
    <3>3. Store = Img(frames, db, 1, k)
      BY <1>1, <2>2, <3>1, <3>2, EmptyLog
    <3>4. tryRecoverBackfill = 0
      BY <1>1, <2>4, TakenOver
    <3>5. BackfilledBy(frames, db, 0, k)
      BY <1>1, NoneBackfilled
    <3> QED
      BY <1>2, <2>3, <3>1, <3>3, <3>4, <3>5
  <2>5. CASE ~(salt < shm.hdr.aSalt)
    <3>1. EndsAt(salt, frames, mx) /\ BackfilledBy(frames, db, nb, mx)
      BY <2>1, <2>5 DEF LiveFile, mx
    <3>2. BackfilledBy(frames, db, 0, mx)
      BY <1>1, NoneBackfilled
    <3> QED
      BY <1>1, <1>2, <2>2, <2>3, <3>1, <3>2, TakenOver
  <2> QED
    BY <2>4, <2>5
<1>6. CASE Live /\ Committing # {}
  <2> DEFINE c == CHOOSE c \in Committing : TRUE
             k == conn[c].iFrame
  <2>1. c \in Committing
    BY <1>6
  <2>2. c \in Conns /\ conn[c].pc = "publish" /\ conn[c].isCommit
    BY <2>1 DEF Committing
  <2>3. Pending = Img(frames, db, 1, k)
    BY <1>3, <1>6 DEF Pending
  <2> HIDE DEF c
  <2>4. /\ mx < k /\ k \in Nat /\ conn[c].readLock > 0
        /\ WriterFile(salt, frames, mx, shm.hdr.aSalt, conn[c])
        /\ LiveFile(salt, frames, db, nb, shm.hdr, Committing # {})
    BY <2>2, Publishes
  <2>5. EndsAt(salt, frames, k)
    BY <2>2, <2>4 DEF WriterFile
  <2>6. k \in 0..Len(frames)
    BY <2>5 DEF EndsAt
  <2>7. nb <= mx
    BY <1>6, <2>2, <2>4, HeldBackfill
  <2>8. BackfilledBy(frames, db, nb, k) /\ BackfilledBy(frames, db, 0, k)
    <3>1. BackfilledBy(frames, db, nb, mx)
      BY <2>4 DEF LiveFile, mx
    <3> HIDE DEF frames, k
    <3> QED
      BY <1>1, <2>4, <2>7, <3>1, BackfilledLess, NoneBackfilled
  <2>9. Hints = {tryRecoverBackfill}
    BY <1>6 DEF Hints, Live
  <2> QED
    BY <1>2, <2>3, <2>5, <2>6, <2>8, <2>9, TakenOver
<1> QED
  BY <1>4, <1>5, <1>6

\* Wal.Recoverable: wherever the process is killed, the WAL file, the database file and the
\* shm file it leaves give the next process the last commit, or the one whose commit frame
\* had just been written, unless a writer kept a foreign header.
THEOREM RecoverableTheorem == Spec => []Recoverable
<1>1. LogInv /\ DataInv => Recovered \subseteq {Store, Pending}
  <2> SUFFICES ASSUME LogInv, DataInv, NEW n \in Hints
               PROVE  ImageOf(IF n <= RecoveredFrame THEN n + 1 ELSE 1, RecoveredFrame)
                         \in {Store, Pending}
    BY DEF Recovered
  <2> DEFINE frames == wal.frames
             salt == wal.hdr
  <2>1. PICK m \in 0..Len(frames) :
           /\ EndsAt(salt, frames, m)
           /\ \A k \in Hints : k \in Nat /\ BackfilledBy(frames, db, k, m)
           /\ Img(frames, db, 1, m) \in {Store, Pending}
    BY EndIsCommitted
  <2>2. Len(frames) \in Nat /\ n \in Nat /\ m \in Nat /\ BackfilledBy(frames, db, n, m)
    BY <2>1, Fields DEF LogInv
  <2>3. RecoveredFrame = m
    <3>1. RecoveredFrame = RecoveredBy(salt, frames)
      BY OfFiles
    <3> HIDE DEF frames, salt
    <3> QED
      BY <2>1, <2>2, <3>1, RecoversEnd
  <2>4. \A first, last : ImageOf(first, last) = Img(frames, db, first, last)
    BY FindFrameIsLast
  <2>5. n <= m => Img(frames, db, n + 1, m) = Img(frames, db, 1, m)
    <3> SUFFICES ASSUME n <= m
                 PROVE  Img(frames, db, n + 1, m) = Img(frames, db, 1, m)
      OBVIOUS
    <3> HIDE DEF frames
    <3>1. \A k \in 1..(n + 1) : Img(frames, db, k, m) = Img(frames, db, 1, m)
      BY <2>2, BackfilledImage
    <3>2. n + 1 \in 1..(n + 1)
      BY <2>2
    <3> QED
      BY <3>1, <3>2
  <2> HIDE DEF frames
  <2> QED
    BY <2>1, <2>3, <2>4, <2>5
<1>2. IndInv => Recoverable
  BY <1>1 DEF IndInv, LogInv, Recoverable
<1> QED
  BY <1>2, IndTheorem, PTL


-----------------------------------------------------------------------------
(* The store that the log implements *)

\* What the store sees of a step of c: nothing, or the commit frame of c.
Unseen == Store' = Store /\ Pending' = Pending /\ \A d \in Conns : View(d)' = View(d)
Prepares(c) == /\ Pending = None /\ View(c) = Store /\ Pending' \in Image
               /\ Store' = Store /\ \A d \in Conns : View(d)' = View(d)

\* A transaction reads what its page cache holds.
LEMMA CachedView ==
    ASSUME DataInv, DataInv', NEW d \in Conns, cache'[d] = cache[d],
           InTransaction(d)' <=> InTransaction(d)
    PROVE  View(d)' = View(d)
<1>1. (InTransaction(d) => cache[d] = View(d)) /\ (InTransaction(d)' => cache'[d] = View(d)')
  BY DEF DataInv, CacheInvOf
<1>2. (~InTransaction(d) => View(d) = None) /\ (~InTransaction(d)' => View(d)' = None)
  BY DEF View
<1> QED
  BY <1>1, <1>2

LEMMA OthersView ==
    ASSUME DataInv, DataInv', NEW c \in Conns, Sets(c, conn'[c]), OwnLocks(c),
           \A d \in Conns \ {c} : cache'[d] = cache[d]
    PROVE  \A d \in Conns \ {c} : View(d)' = View(d)
BY SameTransactions, CachedView

LEMMA Uncommitted ==
    ASSUME LogInv, NEW c \in Conns, writeLock \in {c, None},
           ~(conn[c].pc = "publish" /\ conn[c].isCommit)
    PROVE  Committing = {} /\ Pending = None
<1>1. ASSUME NEW d \in Committing
      PROVE  FALSE
  <2>1. d \in Conns /\ conn[d].pc = "publish" /\ conn[d].isCommit
    BY DEF Committing
  <2>2. writeLock = d /\ d # None
    BY <2>1, HeldLocks, PcParts, WalConstants DEF LogInv
  <2> QED
    BY <2>1, <2>2
<1> QED
  BY <1>1 DEF Pending

LEMMA UncommittedNext ==
    ASSUME NEW c \in Conns
    PROVE  LogInv' /\ writeLock' \in {c, None} /\ ~(conn'[c].pc = "publish" /\ conn'[c].isCommit)
           => Pending' = None
<1> DEFINE A == /\ LogInv /\ writeLock \in {c, None}
                /\ ~(conn[c].pc = "publish" /\ conn[c].isCommit)
<1>1. A => Pending = None
  BY Uncommitted
<1>2. (A => Pending = None)'
  BY <1>1, PTL
<1> QED
  BY <1>2

\* At most one connection commits.
LEMMA PendingIs ==
    ASSUME LogInv, NEW c \in Conns, conn[c].pc = "publish", conn[c].isCommit
    PROVE  Committing = {c} /\ Pending = ImageOf(1, conn[c].iFrame)
<1>1. c \in Committing
  BY DEF Committing
<1>2. ASSUME NEW d \in Committing
      PROVE  d = c
  BY <1>1, <1>2, HeldLocks, PcParts DEF Committing, LogInv
<1>3. Committing = {c}
  BY <1>1, <1>2
<1> QED
  BY <1>3 DEF Pending

LEMMA PendingIsNext ==
    ASSUME NEW c \in Conns
    PROVE  LogInv' /\ conn'[c].pc = "publish" /\ conn'[c].isCommit
           => Pending' = Img(wal'.frames, db', 1, conn'[c].iFrame)
<1> DEFINE A == LogInv /\ conn[c].pc = "publish" /\ conn[c].isCommit
<1>1. A => Pending = Img(wal.frames, db, 1, conn[c].iFrame)
  BY PendingIs, FindFrameIsLast
<1>2. (A => Pending = Img(wal.frames, db, 1, conn[c].iFrame))'
  BY <1>1, PTL
<1> QED
  BY <1>2

\* A commit in progress leads where it led, if the files are what they were.
LEMMA SamePending ==
    ASSUME LogInv, LogInv', NEW c \in Conns, Sets(c, conn'[c]), wal' = wal,
           ~(conn[c].pc = "publish" /\ conn[c].isCommit),
           ~(conn'[c].pc = "publish" /\ conn'[c].isCommit),
           \A d \in Conns \ {c} : conn[d].pc = "publish" /\ conn[d].isCommit =>
              Img(wal.frames, db', 1, conn[d].iFrame) = Img(wal.frames, db, 1, conn[d].iFrame)
    PROVE  Pending' = Pending
<1>1. Committing' = Committing
  BY SameCommitting
<1>2. CASE Committing = {}
  BY <1>1, <1>2 DEF Pending
<1>3. CASE Committing # {}
  <2>1. PICK d \in Conns : conn[d].pc = "publish" /\ conn[d].isCommit
    BY <1>3 DEF Committing
  <2>2. d # c /\ conn'[d] = conn[d]
    BY <2>1 DEF Sets
  <2>3. Pending = Img(wal.frames, db, 1, conn[d].iFrame)
    BY <2>1, PendingIs, FindFrameIsLast
  <2>4. Pending' = Img(wal'.frames, db', 1, conn'[d].iFrame)
    BY <2>1, <2>2, PendingIsNext
  <2> QED
    BY <2>1, <2>2, <2>3, <2>4
<1> QED
  BY <1>2, <1>3

\* A step outside of transactions, that leaves the files alone, or one of a transaction
\* that keeps its cache.
LEMMA QuietUnseen ==
    ASSUME LogInv, LogInv', DataInv, DataInv', NEW c \in Conns, Sets(c, conn'[c]), OwnLocks(c),
           UNCHANGED <<wal, db>>, \A d \in Conns \ {c} : cache'[d] = cache[d],
           conn[c].pc # "publish", conn'[c].pc # "publish",
           Store' = Store, View(c)' = View(c)
    PROVE  Unseen
<1>1. Pending' = Pending
  BY SamePending
<1> QED
  BY <1>1, OthersView DEF Unseen

\* A step of the writer, or of a checkpoint that keeps writers out.
LEMMA WriterUnseen ==
    ASSUME LogInv, LogInv', DataInv, DataInv', NEW c \in Conns, Sets(c, conn'[c]), OwnLocks(c),
           cache' = cache, writeLock \in {c, None}, writeLock' \in {c, None},
           InTransaction(c)' <=> InTransaction(c), Store' = Store,
           ~(conn[c].pc = "publish" /\ conn[c].isCommit),
           ~(conn'[c].pc = "publish" /\ conn'[c].isCommit)
    PROVE  Unseen
<1>1. Pending = None /\ Pending' = None
  BY Uncommitted, UncommittedNext
<1>2. View(c)' = View(c)
  BY CachedView
<1>3. \A d \in Conns \ {c} : View(d)' = View(d)
  BY OthersView
<1> QED
  BY <1>1, <1>2, <1>3 DEF Unseen

\* Frames are written: the last one, if it commits, makes the commit pending.
LEMMA FramesSeen ==
    ASSUME LogInv, LogInv', DataInv, DataInv', NEW c \in Conns, Sets(c, conn'[c]),
           UNCHANGED <<cache, writeLock, ckptLock, nTx>>, Writing(c),
           ~(conn[c].pc = "publish" /\ conn[c].isCommit)
    PROVE  Unseen \/ Prepares(c)
<1>1. OwnLocks(c) /\ writeLock = c /\ Writing(c)'
  BY OwnLocksIntro DEF LogInv, Writing
<1>2. InTransaction(c) /\ InTransaction(c)'
  BY <1>1 DEF Writing, InTransaction
<1>3. View(c) = Store /\ View(c)' = Store' /\ View(c)' = View(c)
  BY <1>1, <1>2, CachedView DEF DataInv, CacheInvOf
<1>4. \A d \in Conns \ {c} : View(d)' = View(d)
  BY <1>1, OthersView
<1>5. CASE ~(conn'[c].pc = "publish" /\ conn'[c].isCommit)
  BY <1>1, <1>2, <1>3, <1>5, WriterUnseen
<1>6. CASE conn'[c].pc = "publish" /\ conn'[c].isCommit
  <2>1. Pending = None
    BY <1>1, Uncommitted
  <2>2. Pending' = Img(wal'.frames, db', 1, conn'[c].iFrame)
    BY <1>6, PendingIsNext
  <2>3. conn'[c].iFrame \in 0..Len(wal'.frames) /\ wal'.frames \in Seq(Frames) /\ db' \in Image
    <3>1. WriterInv(c)'
      BY DEF LogInv, PosInv
    <3>2. conn'[c].iFrame <= Len(wal'.frames)
      BY <1>1, <1>6, <3>1 DEF WriterInv
    <3>3. conn'[c].iFrame \in Nat /\ Len(wal'.frames) \in Nat
      BY FieldsNext, ConnFieldsNext DEF LogInv
    <3> QED
      BY <3>2, <3>3, FieldsNext DEF LogInv
  <2>4. Pending' \in Image
    BY <2>2, <2>3, ImgType
  <2> QED
    BY <1>3, <1>4, <2>1, <2>4 DEF Prepares
<1> QED
  BY <1>5, <1>6

\* Steps outside of transactions and checkpoints.
LEMMA TryUnseen ==
    ASSUME LogInv, LogInv', DataInv, DataInv', NEW c \in Conns, Sets(c, conn'[c]), writeLock # c,
           UNCHANGED <<wal, db, writeLock, ckptLock, nTx>>,
           shm'.hdr = shm.hdr, shm'.open = shm.open, \A d \in Conns \ {c} : cache'[d] = cache[d], Live,
           conn[c].pc \in {"idle", "try", "lockMark", "check"},
           conn'[c].pc \in {"idle", "try", "lockMark", "check"}
    PROVE  Unseen
<1>1. OwnLocks(c)
  BY OwnLocksIntro DEF LogInv
<1>2. Store' = Store
  BY QuietViews
<1>3. View(c) = None /\ View(c)' = None
  BY DEF View, InTransaction
<1> QED
  BY <1>1, <1>2, <1>3, QuietUnseen

\* ... and of a write transaction that takes the log's mark again.
LEMMA MarkUnseen ==
    ASSUME LogInv, LogInv', DataInv, DataInv', NEW c \in Conns, Sets(c, conn'[c]),
           UNCHANGED <<wal, db, writeLock, ckptLock, cache, nTx>>,
           shm'.hdr = shm.hdr, shm'.open = shm.open,
           conn[c].pc \in {"try", "mark", "lockMark", "check"},
           conn'[c].pc # "publish",
           writeLock # c => conn'[c].pc \in {"idle", "try", "lockMark", "check"}
    PROVE  Unseen
<1>1. Live
  BY HeldLocks DEF LogInv
<1>2. CASE writeLock # c
  <2>1. conn[c].pc \in {"try", "lockMark", "check"}
    BY <1>2, HeldLocks, PcParts DEF LogInv
  <2> QED
    BY <1>1, <1>2, <2>1, TryUnseen
<1>3. CASE writeLock = c
  <2>1. ckptLock # c
    BY HeldLocks, PcParts DEF LogInv
  <2>2. InTransaction(c) /\ InTransaction(c)'
    BY <1>3, <2>1 DEF InTransaction
  <2>3. Store' = Store
    BY <1>1, QuietViews
  <2>4. OwnLocks(c)
    BY OwnLocksIntro DEF LogInv
  <2> QED
    BY <1>3, <2>2, <2>3, <2>4, WriterUnseen
<1> QED
  BY <1>2, <1>3

LEMMA ReadHdrStep ==
    ASSUME LogInv, LogInv', DataInv, DataInv', NEW c \in Conns, ReadHdr(c)
    PROVE  Unseen
<1>1. /\ Sets(c, conn'[c]) /\ conn[c].pc = "idle" /\ shm.open /\ shm.hdr.isInit
      /\ conn'[c].pc = "try"
      /\ cache' = [cache EXCEPT ![c] = IF conn[c].hdr = shm.hdr THEN @ ELSE None]
      /\ UNCHANGED <<wal, db, shm, writeLock, ckptLock, nTx>>
  BY ReadHdrEffect DEF LogInv
<1>2. writeLock # c /\ Live /\ \A d \in Conns \ {c} : cache'[d] = cache[d]
  BY <1>1, HeldLocks DEF LogInv, Live, TypeInv
<1> QED
  BY <1>1, <1>2, TryUnseen

LEMMA ChooseMarkStep ==
    ASSUME LogInv, LogInv', DataInv, DataInv', NEW c \in Conns, ChooseMark(c)
    PROVE  Unseen
<1>1. /\ Sets(c, conn'[c]) /\ conn[c].pc \in {"try", "mark"}
      /\ shm'.hdr = shm.hdr /\ shm'.open = shm.open
      /\ Retries(c) \/ \E i, m : Chooses(c, i, m)
      /\ UNCHANGED <<wal, db, writeLock, ckptLock, cache, nTx>>
  BY ChooseMarkEffect DEF LogInv
<1>2. conn'[c].pc # "publish" /\ (writeLock # c => conn'[c].pc \in {"idle", "lockMark"})
  BY <1>1 DEF Retries, Rests, Chooses
<1> QED
  BY <1>1, <1>2, MarkUnseen

LEMMA LockMarkStep ==
    ASSUME LogInv, LogInv', DataInv, DataInv', NEW c \in Conns, LockMark(c)
    PROVE  Unseen
<1>1. /\ Sets(c, conn'[c]) /\ conn[c].pc = "lockMark"
      /\ Retries(c) \/ conn'[c].pc = "check"
      /\ UNCHANGED <<wal, db, shm, writeLock, ckptLock, cache, nTx>>
  BY LockMarkEffect DEF LogInv
<1>2. conn'[c].pc # "publish" /\ (writeLock # c => conn'[c].pc \in {"idle", "check"})
  BY <1>1 DEF Retries, Rests
<1> QED
  BY <1>1, <1>2, MarkUnseen

\* A read transaction begins: it reads the last commit.
Begins(c) == /\ View(c) = None /\ View(c)' = Store /\ Store' = Store /\ Pending' = Pending
             /\ \A d \in Conns \ {c} : View(d)' = View(d)

LEMMA BeginSeen ==
    ASSUME LogInv, LogInv', DataInv, DataInv', NEW c \in Conns, Sets(c, conn'[c]),
           UNCHANGED <<wal, db, shm, writeLock, ckptLock, nTx>>,
           conn[c].pc \in {"try", "check"}, writeLock # c, conn[c].hdr = shm.hdr,
           conn'[c].pc = "read", conn'[c].hdr = conn[c].hdr,
           \A d \in Conns \ {c} : cache'[d] = cache[d]
    PROVE  Begins(c)
<1>1. Live /\ OwnLocks(c)
  BY HeldLocks, OwnLocksIntro DEF LogInv
<1>2. Live' /\ Store' = Store /\ mx' = mx
  BY <1>1, QuietViews
<1>3. View(c) = None
  BY DEF View, InTransaction
<1>4. Backfilled(nb, mx)'
  BY <1>2 DEF DataInv, FileInv
<1>5. conn'[c].hdr.aSalt = shm'.hdr.aSalt /\ conn'[c].hdr.mxFrame = mx'
  BY DEF mx
<1>6. View(c)' = Store'
  BY <1>4, <1>5, CurrentReaderNext
<1>7. Pending' = Pending
  BY SamePending
<1>8. \A d \in Conns \ {c} : View(d)' = View(d)
  BY <1>1, OthersView
<1> QED
  BY <1>2, <1>3, <1>6, <1>7, <1>8 DEF Begins

LEMMA LockZeroStep ==
    ASSUME LogInv, LogInv', DataInv, DataInv', NEW c \in Conns, LockZero(c)
    PROVE  Unseen \/ Begins(c)
<1>1. /\ Sets(c, conn'[c]) /\ conn[c].pc = "try"
      /\ \/ shm.hdr = conn[c].hdr /\ Reads(c, conn[c].hdr, 0) /\ Fill(c, db)
         \/ Rests(c, conn[c].hdr) /\ cache' = cache
      /\ UNCHANGED <<wal, db, shm, writeLock, ckptLock, nTx>>
  BY LockZeroEffect DEF LogInv
<1>2. writeLock # c /\ Live
  BY <1>1, HeldLocks DEF LogInv
<1>3. \A d \in Conns \ {c} : cache'[d] = cache[d]
  BY <1>1 DEF Fill, LogInv, TypeInv
<1>4. CASE shm.hdr = conn[c].hdr /\ Reads(c, conn[c].hdr, 0)
  BY <1>1, <1>2, <1>3, <1>4, BeginSeen DEF Reads
<1>5. CASE Rests(c, conn[c].hdr)
  BY <1>1, <1>2, <1>3, <1>5, TryUnseen DEF Rests
<1> QED
  BY <1>1, <1>4, <1>5

LEMMA CheckMarkStep ==
    ASSUME LogInv, LogInv', DataInv, DataInv', NEW c \in Conns, CheckMark(c)
    PROVE  Unseen \/ Begins(c)
<1>1. /\ Sets(c, conn'[c]) /\ conn[c].pc = "check"
      /\ \/ Retries(c) /\ cache' = cache
         \/ writeLock = c /\ conn'[c].pc = "header" /\ cache' = cache
         \/ /\ shm.hdr = conn[c].hdr /\ writeLock # c /\ Reads(c, conn[c].hdr, conn[c].readLock)
            /\ Fill(c, ImageOf(conn[c].minFrame, conn[c].hdr.mxFrame))
      /\ UNCHANGED <<wal, db, shm, writeLock, ckptLock, nTx>>
  BY CheckMarkEffect DEF LogInv
<1>2. CASE Retries(c) /\ cache' = cache
  <2>1. conn'[c].pc # "publish" /\ (writeLock # c => conn'[c].pc \in {"idle"})
    BY <1>2 DEF Retries, Rests
  <2> QED
    BY <1>1, <1>2, <2>1, MarkUnseen
<1>3. CASE writeLock = c /\ conn'[c].pc = "header" /\ cache' = cache
  BY <1>1, <1>3, MarkUnseen
<1>4. CASE /\ shm.hdr = conn[c].hdr /\ writeLock # c /\ Reads(c, conn[c].hdr, conn[c].readLock)
           /\ Fill(c, ImageOf(conn[c].minFrame, conn[c].hdr.mxFrame))
  <2>1. \A d \in Conns \ {c} : cache'[d] = cache[d]
    BY <1>4 DEF Fill, LogInv, TypeInv
  <2> QED
    BY <1>1, <1>4, <2>1, BeginSeen DEF Reads
<1> QED
  BY <1>1, <1>2, <1>3, <1>4

\* A read transaction ends.
Ends(c) == /\ View(c) # None /\ View(c)' = None /\ Store' = Store /\ Pending' = Pending
           /\ \A d \in Conns \ {c} : View(d)' = View(d)

LEMMA EndReadStep ==
    ASSUME LogInv, LogInv', DataInv, DataInv', NEW c \in Conns, EndRead(c)
    PROVE  Ends(c)
<1>1. /\ Sets(c, conn'[c]) /\ conn[c].pc = "read" /\ conn'[c].pc = "idle"
      /\ UNCHANGED <<wal, db, shm, writeLock, ckptLock, cache, nTx>>
  BY EndReadEffect DEF LogInv, Rests
<1>2. Live /\ OwnLocks(c) /\ writeLock # c /\ conn[c].readLock >= 0
  BY <1>1, HeldLocks, OwnLocksIntro DEF LogInv, LockInv, LockInvOf
<1>3. Store' = Store
  BY <1>1, <1>2, QuietViews
<1>4. InTransaction(c) /\ ~InTransaction(c)'
  BY <1>1, <1>2 DEF InTransaction
<1>5. View(c)' = None
  BY <1>4 DEF View
<1>6. View(c) \in Image
  <2>1. CASE conn[c].readLock = 0
    BY <1>4, <2>1, ViewIs, Fields DEF LogInv
  <2>2. CASE conn[c].readLock > 0
    <3>1. conn[c].hdr.mxFrame \in 0..mx /\ conn[c].minFrame \in Nat \ {0} /\ mx \in Nat
      BY <1>2, <1>4, <2>2, ReadersEnd
    <3>2. mx <= Len(wal.frames) /\ Len(wal.frames) \in Nat
      BY Fields DEF LogInv, PosInv, ShapeInv
    <3>3. conn[c].hdr.mxFrame \in 0..Len(wal.frames)
      BY <3>1, <3>2
    <3> QED
      BY <1>2, <1>4, <2>2, <3>1, <3>3, ViewIs, ImageType DEF LogInv
  <2>3. conn[c].readLock # -1
    BY <1>2
  <2> QED
    BY <2>1, <2>2, <2>3, ViewIs DEF LogInv
<1>7. View(c) # None
  BY <1>6, WalConstants DEF Image
<1>8. Pending' = Pending
  BY <1>1, SamePending
<1>9. \A d \in Conns \ {c} : View(d)' = View(d)
  BY <1>1, <1>2, OthersView
<1> QED
  BY <1>3, <1>5, <1>7, <1>8, <1>9 DEF Ends

LEMMA BeginWriteStep ==
    ASSUME LogInv, LogInv', DataInv, DataInv', NEW c \in Conns, BeginWrite(c)
    PROVE  Unseen
<1>1. /\ Sets(c, conn'[c]) /\ conn[c].pc = "read" /\ writeLock = None /\ conn'[c].pc = "write"
      /\ writeLock' = c /\ nTx' = nTx + 1
      /\ UNCHANGED <<wal, db, shm, ckptLock, cache>>
  BY BeginWriteEffect DEF LogInv
<1>2. ckptLock # c /\ Live /\ OwnLocks(c)
  BY <1>1, HeldLocks, OwnLocksIntro DEF LogInv
<1>3. InTransaction(c) /\ InTransaction(c)'
  BY <1>1, <1>2 DEF InTransaction
<1>4. Store' = Store
  BY <1>1, <1>2, QuietViews
<1> QED
  BY <1>1, <1>2, <1>3, <1>4, WriterUnseen

LEMMA RollbackStep ==
    ASSUME LogInv, LogInv', DataInv, DataInv', NEW c \in Conns, Rollback(c)
    PROVE  Unseen
<1>1. /\ Sets(c, conn'[c]) /\ conn[c].pc \in {"write", "header", "frames", "recksum"}
      /\ conn'[c].pc = "read" /\ writeLock' = None
      /\ UNCHANGED <<wal, db, shm, ckptLock, cache, nTx>>
  BY RollbackEffect DEF LogInv, Reads
<1>2. writeLock = c /\ ckptLock # c /\ Live
  BY <1>1, HeldLocks, PcParts DEF LogInv
<1>3. OwnLocks(c)
  BY <1>1, <1>2, OwnLocksIntro DEF LogInv
<1>4. InTransaction(c) /\ InTransaction(c)'
  BY <1>1, <1>2 DEF InTransaction
<1>5. Store' = Store
  BY <1>1, <1>2, QuietViews
<1> QED
  BY <1>1, <1>2, <1>3, <1>4, <1>5, WriterUnseen

\* The other steps of a writer up to the commit frame.
LEMMA WriterSteps ==
    ASSUME LogInv, LogInv', DataInv, DataInv', NEW c \in Conns,
           \/ RestartLog(c) \/ RestartInfo(c) \/ KeepHeader(c)
           \/ \E P \in SUBSET Pages, commit \in BOOLEAN : WalFrames(c, P, commit)
           \/ \E salt \in 1..(nSalt + 1) : WriteHeader(c, salt)
           \/ WriteFrame(c) \/ RewriteChecksum(c) \/ (Publish(c) /\ ~conn[c].isCommit)
    PROVE  Unseen \/ Prepares(c)
<1>1. RestartLog(c) =>
         /\ Sets(c, conn'[c]) /\ conn[c].pc = "restartLog"
         /\ UNCHANGED <<cache, writeLock, ckptLock, nTx>>
  BY RestartLogEffect DEF LogInv
<1>2. RestartInfo(c) =>
         /\ Sets(c, conn'[c]) /\ conn[c].pc = "restartInfo"
         /\ UNCHANGED <<cache, writeLock, ckptLock, nTx>>
  BY RestartInfoEffect DEF LogInv
<1>3. KeepHeader(c) =>
         /\ Sets(c, conn'[c]) /\ conn[c].pc = "header"
         /\ UNCHANGED <<cache, writeLock, ckptLock, nTx>>
  BY KeepHeaderEffect DEF LogInv
<1>4. \A P \in SUBSET Pages, commit \in BOOLEAN : WalFrames(c, P, commit) =>
         /\ Sets(c, conn'[c]) /\ conn[c].pc = "write"
         /\ UNCHANGED <<cache, writeLock, ckptLock, nTx>>
  BY WalFramesEffect DEF LogInv
<1>5. \A salt \in 1..(nSalt + 1) : WriteHeader(c, salt) =>
         /\ Sets(c, conn'[c]) /\ conn[c].pc = "header"
         /\ UNCHANGED <<cache, writeLock, ckptLock, nTx>>
  BY WriteHeaderEffect DEF LogInv
<1>6. WriteFrame(c) =>
         /\ Sets(c, conn'[c]) /\ conn[c].pc = "frames"
         /\ UNCHANGED <<cache, writeLock, ckptLock, nTx>>
  BY WriteFrameEffect DEF LogInv
<1>7. RewriteChecksum(c) =>
         /\ Sets(c, conn'[c]) /\ conn[c].pc = "recksum"
         /\ UNCHANGED <<cache, writeLock, ckptLock, nTx>>
  BY RewriteChecksumEffect DEF LogInv
<1>8. Publish(c) /\ ~conn[c].isCommit =>
         /\ Sets(c, conn'[c]) /\ conn[c].pc = "publish" /\ ~conn[c].isCommit
         /\ UNCHANGED <<cache, writeLock, ckptLock, nTx>>
  BY PublishEffect DEF LogInv
<1>9. /\ Sets(c, conn'[c]) /\ UNCHANGED <<cache, writeLock, ckptLock, nTx>>
      /\ conn[c].pc \in {"write", "restartLog", "restartInfo", "header", "frames", "recksum",
                         "publish"}
      /\ ~(conn[c].pc = "publish" /\ conn[c].isCommit)
  BY <1>1, <1>2, <1>3, <1>4, <1>5, <1>6, <1>7, <1>8
<1>10. Writing(c)
  BY <1>9, HeldLocks, PcParts DEF LogInv, Writing
<1> QED
  BY <1>9, <1>10, FramesSeen

\* The header is shared: the commit is the last one.
Commits(c) == /\ Pending # None /\ View(c) = Store /\ Store' = Pending /\ Pending' = None
              /\ View(c)' = Pending /\ \A d \in Conns \ {c} : View(d)' = View(d)

LEMMA CommitStep ==
    ASSUME LogInv, LogInv', DataInv, DataInv', NEW c \in Conns, Publish(c), conn[c].isCommit
    PROVE  Commits(c)
<1> DEFINE k == conn[c].iFrame
           h == PublishedHdr(conn[c])
<1>1. /\ Sets(c, conn'[c]) /\ conn[c].pc = "publish" /\ conn'[c].pc = "read"
      /\ h.mxFrame = k /\ h.isInit = conn[c].hdr.isInit
      /\ conn'[c].hdr = h /\ shm'.hdr = h /\ shm'.open = shm.open /\ writeLock' = None
      /\ cache' = [cache EXCEPT ![c] = ImageOf(conn[c].minFrame, k)]
      /\ UNCHANGED <<wal, db, ckptLock, nTx>>
  BY PublishEffect DEF LogInv, Reads, KeepsShm
<1> HIDE DEF k, h
<1>2. Live /\ Writing(c) /\ writeLock = c /\ k \in Nat /\ conn[c].hdr.isInit
  BY <1>1, Publishes, HeldLocks DEF LogInv, k
<1>3. Live' /\ mx' = k
  BY <1>1, <1>2 DEF Live, mx
<1>4. Pending = Img(wal.frames, db, 1, k)
  BY <1>1, PendingIs, FindFrameIsLast DEF k
<1>5. Store' = Pending
  <2>1. Store' = Img(wal'.frames, db', 1, mx')
    BY <1>3 DEF Live, Store, ImageOf, FindFrame, Img, LastFrame, mx
  <2> QED
    BY <1>1, <1>3, <1>4, <2>1
<1>6. Pending \in Image /\ Pending # None
  <2>1. WriterInv(c)
    BY DEF LogInv, PosInv
  <2>2. k \in 0..Len(wal.frames)
    BY <1>1, <1>2, <2>1, Fields DEF LogInv, WriterInv, k
  <2>3. Pending \in Image
    BY <1>4, <2>2, ImgType, Fields DEF LogInv
  <2> QED
    BY <2>3, WalConstants DEF Image
<1>7. View(c) = Store
  BY <1>2 DEF DataInv, CacheInvOf
<1>8. Pending' = None
  BY <1>1, UncommittedNext
<1>9. View(c)' = Store'
  <2>1. Backfilled(nb, mx)'
    BY <1>3 DEF DataInv, FileInv
  <2>2. conn'[c].hdr.aSalt = shm'.hdr.aSalt /\ conn'[c].hdr.mxFrame = mx'
    BY <1>1 DEF mx
  <2> QED
    BY <1>1, <2>1, <2>2, CurrentReaderNext
<1>10. \A d \in Conns \ {c} : View(d)' = View(d)
  <2>1. OwnLocks(c)
    BY <1>1, <1>2, OwnLocksIntro DEF LogInv
  <2>2. \A d \in Conns \ {c} : cache'[d] = cache[d]
    BY <1>1 DEF LogInv, TypeInv
  <2> QED
    BY <1>1, <2>1, <2>2, OthersView
<1> QED
  BY <1>5, <1>6, <1>7, <1>8, <1>9, <1>10 DEF Commits

\* A connection in a checkpoint, or in no call, is in no transaction.
LEMMA NoTransaction ==
    ASSUME LogInv, NEW c \in Conns, conn[c].pc \in CkptPcs \cup {"idle"}
    PROVE  ~InTransaction(c) /\ conn[c].pc # "publish"
BY HeldLocks, PcParts DEF LogInv, InTransaction

LEMMA NoTransactionNext ==
    ASSUME NEW c \in Conns
    PROVE  LogInv' /\ conn'[c].pc \in CkptPcs \cup {"idle"}
           => ~InTransaction(c)' /\ conn'[c].pc # "publish"
<1>1. LogInv /\ conn[c].pc \in CkptPcs \cup {"idle"} => ~InTransaction(c) /\ conn[c].pc # "publish"
  BY NoTransaction
<1>2. (LogInv /\ conn[c].pc \in CkptPcs \cup {"idle"}
       => ~InTransaction(c) /\ conn[c].pc # "publish")'
  BY <1>1, PTL
<1> QED
  BY <1>2

LEMMA CkptUnseen ==
    ASSUME LogInv, LogInv', DataInv, DataInv', NEW c \in Conns, Sets(c, conn'[c]), OwnLocks(c),
           UNCHANGED <<wal, db, cache>>, Store' = Store,
           conn[c].pc \in CkptPcs \cup {"idle"}, conn'[c].pc \in CkptPcs \cup {"idle"}
    PROVE  Unseen
<1>1. ~InTransaction(c) /\ ~InTransaction(c)' /\ conn[c].pc # "publish" /\ conn'[c].pc # "publish"
  BY NoTransaction, NoTransactionNext
<1>2. View(c)' = View(c)
  BY <1>1 DEF View
<1> QED
  BY <1>1, <1>2, QuietUnseen

\* Steps of a checkpoint that leave the files and the header alone.
LEMMA QuietCkptSteps ==
    ASSUME LogInv, LogInv', DataInv, DataInv', NEW c \in Conns,
           \/ \E mode \in {"PASSIVE", "TRUNCATE"} : CkptBegin(c, mode)
           \/ CkptMark(c) \/ CkptLock0(c) \/ CkptBackfill(c) \/ CkptInfo(c)
           \/ CkptFail(c) \/ CkptEnd(c) \/ (CkptRestart(c) /\ shm' = shm)
    PROVE  Unseen
<1> DEFINE Quiet == /\ Sets(c, conn'[c]) /\ UNCHANGED <<wal, db, cache, nTx>>
                    /\ shm'.hdr = shm.hdr /\ shm'.open = shm.open
           Kept == writeLock' = writeLock /\ ckptLock' = ckptLock
           Own == /\ writeLock' = writeLock \/ {writeLock, writeLock'} \subseteq {None, c}
                  /\ ckptLock' = ckptLock \/ {ckptLock, ckptLock'} \subseteq {None, c}
           In == conn[c].pc \in CkptPcs /\ conn'[c].pc \in CkptPcs
<1>1. \A mode \in {"PASSIVE", "TRUNCATE"} : CkptBegin(c, mode) =>
         /\ Quiet /\ Own /\ Live /\ conn[c].pc = "idle" /\ conn'[c].pc \in {"ckMarks", "ckDone"}
  BY CkptBeginEffect DEF LogInv, Live
<1>2. CkptMark(c) => Quiet /\ Kept /\ In
  BY CkptMarkEffect, PcParts DEF LogInv
<1>3. CkptLock0(c) => Quiet /\ Kept /\ In
  BY CkptLock0Effect, PcParts DEF LogInv
<1>4. CkptBackfill(c) => Quiet /\ Kept /\ In
  BY CkptBackfillEffect, PcParts DEF LogInv
<1>5. CkptInfo(c) => Quiet /\ Kept /\ In
  BY CkptInfoEffect, PcParts DEF LogInv
<1>6. CkptFail(c) => Quiet /\ Kept /\ In
  BY CkptFailEffect, PcParts DEF LogInv
<1>7. CkptEnd(c) => Quiet /\ Own /\ conn[c].pc = "ckEnd" /\ conn'[c].pc = "idle"
  <2> SUFFICES ASSUME CkptEnd(c)
               PROVE  Quiet /\ Own /\ conn[c].pc = "ckEnd" /\ conn'[c].pc = "idle"
    OBVIOUS
  <2>1. /\ Quiet /\ conn[c].pc = "ckEnd" /\ conn'[c].pc = "idle" /\ ckptLock' = None
        /\ writeLock' = IF writeLock = c THEN None ELSE writeLock
    BY CkptEndEffect DEF LogInv, Rests, CkptEnd
  <2>2. ckptLock = c
    BY <2>1, HeldLocks, PcParts DEF LogInv
  <2> QED
    BY <2>1, <2>2
<1>8. CkptRestart(c) /\ shm' = shm => Quiet /\ Own /\ In
  BY CkptRestartEffect, PcParts DEF LogInv
<1>9. /\ Quiet /\ Own
      /\ conn[c].pc \in CkptPcs \cup {"idle"} /\ conn'[c].pc \in CkptPcs \cup {"idle"}
      /\ conn[c].pc \in CkptPcs \/ Live
  BY <1>1, <1>2, <1>3, <1>4, <1>5, <1>6, <1>7, <1>8, PcParts
<1>10. Live
  BY <1>9, HeldLocks, PcParts DEF LogInv
<1>11. OwnLocks(c)
  BY <1>9, OwnLocksIntro DEF LogInv
<1>12. Store' = Store
  BY <1>9, <1>10, QuietViews
<1> QED
  BY <1>9, <1>11, <1>12, CkptUnseen

LEMMA CkptRestartStep ==
    ASSUME LogInv, LogInv', DataInv, DataInv', NEW c \in Conns, CkptRestart(c)
    PROVE  Unseen
<1>1. /\ Sets(c, conn'[c]) /\ conn[c].pc = "ckDone"
      /\ writeLock' = writeLock \/ (writeLock = None /\ writeLock' = c)
      /\ \/ shm' = shm
         \/ CkptCanRestart(c) /\ Restarts(c) /\ conn'[c].pc = "ckInfo"
      /\ UNCHANGED <<wal, db, ckptLock, cache, nTx>>
  BY CkptRestartEffect DEF LogInv
<1>2. CASE shm' = shm
  BY <1>2, QuietCkptSteps
<1>3. CASE CkptCanRestart(c) /\ Restarts(c) /\ conn'[c].pc = "ckInfo"
  <2>1. /\ conn[c].pc \in CkptPcs /\ conn'[c].pc \in CkptPcs /\ OwnLocks(c)
    BY <1>1, <1>3, PcParts, OwnLocksIntro DEF LogInv
  <2>2. Live /\ conn[c].hdr.isInit
    BY <1>1, HeldLocks DEF LogInv
  <2>3. nb = mx /\ Committing = {}
    BY <1>1, <1>3, CkptCurrent
  <2>4. Store' = Store
    BY <1>1, <1>3, <2>2, <2>3, RestartsFile DEF DataInv
  <2> QED
    BY <1>1, <2>1, <2>4, CkptUnseen
<1> QED
  BY <1>1, <1>2, <1>3

\* Steps that write the new, empty log.
LEMMA RestartingSteps ==
    ASSUME LogInv, LogInv', DataInv, DataInv', NEW c \in Conns,
           CkptHeader(c) \/ CkptPublish(c) \/ CkptTruncate(c)
    PROVE  Unseen
<1> DEFINE Same == /\ Sets(c, conn'[c]) /\ UNCHANGED <<db, cache, writeLock, ckptLock, nTx>>
                   /\ conn[c].pc \in RestartPcs /\ conn'[c].pc \in CkptPcs
           Header == shm' = shm \/ (shm'.hdr = conn[c].hdr /\ shm'.open = shm.open)
<1>1. CkptHeader(c) => Same /\ Header
  BY CkptHeaderEffect, PcParts DEF LogInv
<1>2. CkptPublish(c) => Same /\ Header
  BY CkptPublishEffect, PcParts DEF LogInv, KeepsShm
<1>3. CkptTruncate(c) => Same /\ Header
  BY CkptTruncateEffect, PcParts DEF LogInv
<1>4. Same /\ Header
  BY <1>1, <1>2, <1>3
<1>5. /\ mx = 0 /\ Live /\ writeLock = c /\ conn[c].hdr.mxFrame = 0 /\ conn[c].hdr.isInit
      /\ conn[c].pc \in CkptPcs
  BY <1>4, Restarting
<1>6. Live' /\ mx' = mx /\ OwnLocks(c)
  BY <1>4, <1>5, OwnLocksIntro DEF LogInv, Live, mx
<1>7. Store' = Store
  BY <1>4, <1>5, <1>6, SameStore
<1>8. ~InTransaction(c) /\ ~InTransaction(c)' /\ conn[c].pc # "publish" /\ conn'[c].pc # "publish"
  BY <1>4, <1>5, NoTransaction, NoTransactionNext
<1> QED
  BY <1>4, <1>5, <1>6, <1>7, <1>8, WriterUnseen

\* A page copied to the database file stands in the log that a commit leads to.
LEMMA CkptCopyStep ==
    ASSUME LogInv, LogInv', DataInv, DataInv', NEW c \in Conns, CkptCopy(c)
    PROVE  Unseen
<1>1. PICK p \in conn[c].todo :
         LET i == FindFrame(p, nb + 1, conn[c].hdr.mxFrame) IN
         /\ i \in (nb + 1)..conn[c].hdr.mxFrame
         /\ i \in 1..Len(wal.frames) /\ wal.frames[i].page = p
         /\ db' = [db EXCEPT ![p] = wal.frames[i].val]
  BY CkptCopyEffect DEF LogInv
<1> DEFINE i == FindFrame(p, nb + 1, conn[c].hdr.mxFrame)
<1>2. /\ Sets(c, conn'[c]) /\ conn[c].pc = "ckCopy" /\ conn'[c].pc = "ckCopy"
      /\ UNCHANGED <<wal, shm, writeLock, ckptLock, cache, nTx>>
  BY CkptCopyEffect DEF LogInv
<1>3. /\ mx \in Nat /\ nb \in Nat /\ conn[c].hdr.mxFrame \in Nat /\ conn[c].hdr.mxFrame <= mx
      /\ conn[c].pc \in CkptPcs /\ conn'[c].pc \in CkptPcs
  BY <1>2, Copies, PcParts
<1>4. Store' = Store
  BY CopyFile
<1>5. OwnLocks(c)
  BY <1>2, OwnLocksIntro DEF LogInv
<1>6. ~InTransaction(c) /\ ~InTransaction(c)' /\ conn[c].pc # "publish" /\ conn'[c].pc # "publish"
  BY <1>3, NoTransaction, NoTransactionNext
<1>7. p \in Pages /\ db \in Image /\ db' \in Image /\ \A q \in Pages \ {p} : db'[q] = db[q]
  BY <1>1, Fields, FieldsNext, ConnFields DEF LogInv, Image
<1>8. i \in Nat /\ 1 <= i /\ i <= mx /\ wal.frames[i].page = p
  <2>1. i \in (nb + 1)..conn[c].hdr.mxFrame /\ wal.frames[i].page = p
    BY <1>1
  <2> HIDE DEF i
  <2> QED
    BY <1>3, <2>1
<1>9. ASSUME NEW d \in Conns \ {c}, conn[d].pc = "publish", conn[d].isCommit
      PROVE  Img(wal.frames, db', 1, conn[d].iFrame) = Img(wal.frames, db, 1, conn[d].iFrame)
  <2> DEFINE k == conn[d].iFrame
             frames == wal.frames
             new == db'
  <2>1. k \in Nat /\ mx < k
    BY <1>9, Publishes
  <2>2. i \in 1..k /\ frames[i].page = p
    <3> HIDE DEF i, k
    <3> QED
      BY <1>3, <1>8, <2>1
  <2>3. new \in Image /\ \A q \in Pages \ {p} : new[q] = db[q]
    BY <1>7
  <2> HIDE DEF i, k, frames, new
  <2>4. Img(frames, new, 1, k) = Img(frames, db, 1, k)
    BY <1>7, <2>1, <2>2, <2>3, CoveredImage
  <2> QED
    BY <2>4 DEF k, frames, new
<1>10. Pending' = Pending
  BY <1>2, <1>6, <1>9, SamePending
<1>11. View(c)' = View(c)
  BY <1>6 DEF View
<1>12. \A d \in Conns \ {c} : View(d)' = View(d)
  BY <1>2, <1>5, OthersView
<1> QED
  BY <1>4, <1>10, <1>11, <1>12 DEF Unseen

LEMMA OpenShmStep ==
    ASSUME LogInv, LogInv', DataInv, DataInv', NEW c \in Conns, OpenShm(c)
    PROVE  Unseen
<1>1. /\ Sets(c, conn'[c]) /\ ~shm.open /\ conn[c].pc = "idle" /\ conn'[c].pc = "idle"
      /\ shm'.hdr = ZeroHdr
      /\ UNCHANGED <<wal, db, writeLock, ckptLock, cache, nTx>>
  BY OpenShmEffect DEF LogInv
<1>2. ~Live /\ ~Live'
  BY <1>1 DEF Live, ZeroHdr
<1>3. writeLock = None
  BY <1>2 DEF LogInv, LockInv
<1>4. Store' = Store
  <2>1. Store = Img(wal.frames, db, 1, RecoveredFrame)
    BY <1>2, FindFrameIsLast DEF Store, Live
  <2>2. Store' = Img(wal'.frames, db', 1, RecoveredFrame')
    BY <1>2 DEF Store, Live, ImageOf, FindFrame, Img, LastFrame
  <2>3. RecoveredFrame' = RecoveredFrame
    BY <1>1, OfFiles, OfFilesNext
  <2> QED
    BY <1>1, <2>1, <2>2, <2>3
<1>5. ~InTransaction(c) /\ ~InTransaction(c)'
  BY <1>1, NoTransaction, NoTransactionNext
<1>6. OwnLocks(c)
  BY <1>1, OwnLocksIntro DEF LogInv
<1> QED
  BY <1>1, <1>3, <1>4, <1>5, <1>6, WriterUnseen

LEMMA RecoverStep ==
    ASSUME LogInv, LogInv', DataInv, DataInv', NEW c \in Conns, Recover(c)
    PROVE  Unseen
<1>1. /\ Sets(c, conn'[c]) /\ conn[c].pc = "idle" /\ conn'[c].pc = "try"
      /\ ~shm.hdr.isInit /\ writeLock = None /\ shm'.open /\ shm'.hdr = RecoveredHdr
      /\ cache' = [cache EXCEPT ![c] = None]
      /\ UNCHANGED <<wal, db, writeLock, ckptLock, nTx>>
  BY RecoverEffect DEF LogInv
<1>2. RecoveredHdr.isInit /\ RecoveredHdr.mxFrame = RecoveredFrame
  BY RecoveredType DEF LogInv
<1>3. ~Live /\ Live' /\ mx' = RecoveredFrame
  BY <1>1, <1>2 DEF Live, mx
<1>4. Store' = Store
  <2>1. Store = Img(wal.frames, db, 1, RecoveredFrame)
    BY <1>3, FindFrameIsLast DEF Store, Live
  <2>2. Store' = Img(wal'.frames, db', 1, mx')
    BY <1>3 DEF Live, Store, ImageOf, FindFrame, Img, LastFrame, mx
  <2> QED
    BY <1>1, <1>3, <2>1, <2>2
<1>5. OwnLocks(c) /\ c # None
  BY <1>1, OwnLocksIntro, WalConstants DEF LogInv
<1>6. View(c) = None /\ View(c)' = None
  BY <1>1, <1>5 DEF View, InTransaction
<1>7. \A d \in Conns \ {c} : cache'[d] = cache[d]
  BY <1>1 DEF LogInv, TypeInv
<1> QED
  BY <1>1, <1>4, <1>5, <1>6, <1>7, QuietUnseen

\* The process dies: a commit in progress happened or it did not.
LEMMA KillStep ==
    ASSUME LogInv, LogInv', DataInv, DataInv', Kill
    PROVE  /\ Store' \in {Store, Pending} \ {None} /\ Pending' = None
           /\ \A d \in Conns : View(d)' = None
<1>1. /\ ~shm'.open /\ writeLock' = None /\ wal' = wal /\ db' = db
      /\ \A d \in Conns : conn'[d].pc = "idle"
  BY KillTypes DEF Kill, LogInv, NewConn, files
<1>2. Store' = Img(wal.frames, db, 1, RecoveredFrame)
  <2>1. Store' = Img(wal'.frames, db', 1, RecoveredFrame')
    BY <1>1 DEF Store, ImageOf, FindFrame, Img, LastFrame
  <2>2. RecoveredFrame' = RecoveredFrame
    BY <1>1, OfFiles, OfFilesNext
  <2> QED
    BY <1>1, <2>1, <2>2
<1>3. Store' \in {Store, Pending}
  <2> DEFINE frames == wal.frames
             salt == wal.hdr
  <2>1. PICK m \in 0..Len(frames) :
           /\ EndsAt(salt, frames, m) /\ Img(frames, db, 1, m) \in {Store, Pending}
    BY EndIsCommitted
  <2>2. Len(frames) \in Nat
    BY Fields DEF LogInv
  <2>3. RecoveredFrame = m
    <3>1. RecoveredFrame = RecoveredBy(salt, frames)
      BY OfFiles
    <3> HIDE DEF frames, salt
    <3> QED
      BY <2>1, <2>2, <3>1, RecoversEnd
  <2> QED
    BY <1>2, <2>1, <2>3
<1>4. Store' # None
  <2>1. Img(wal.frames, db, 1, RecoveredFrame) \in Image
    BY ImgType, RecoveredType, Fields DEF LogInv
  <2> QED
    BY <1>2, <2>1, WalConstants DEF Image
<1>5. Pending' = None
  BY <1>1 DEF Pending, Committing
<1>6. \A d \in Conns : View(d)' = None
  BY <1>1, WalConstants DEF View, InTransaction
<1> QED
  BY <1>3, <1>4, <1>5, <1>6

\* The process dies: the commit in progress happened or it did not.
Crashes == /\ Store' \in {Store, Pending} \ {None} /\ Pending' = None
           /\ \A d \in Conns : View(d)' = None

LEMMA StutterUnseen ==
    ASSUME UNCHANGED vars
    PROVE  Unseen
<1>1. Committing' = Committing
  BY DEF vars, Committing
<1>2. \A first, last : ImageOf(first, last)' = ImageOf(first, last)
  BY DEF vars, ImageOf, FindFrame
<1>3. RecoveredFrame' = RecoveredFrame
  BY DEF vars, RecoveredFrame, walDecodeFrame
<1>4. Store' = Store
  BY <1>3 DEF Store, vars, ImageOf, FindFrame
<1>5. Pending' = Pending
  BY <1>1 DEF Pending, vars, ImageOf, FindFrame
<1>6. \A d \in Conns : View(d)' = View(d)
  BY DEF View, InTransaction, vars, ImageOf, FindFrame
<1> QED
  BY <1>4, <1>5, <1>6 DEF Unseen

\* What the store sees of each step.
LEMMA StoreSteps ==
    ASSUME LogInv, LogInv', DataInv, DataInv', [Next]_vars
    PROVE  \/ Unseen
           \/ \E c \in Readers : Begins(c) \/ Ends(c) \/ Prepares(c) \/ Commits(c)
           \/ Crashes
<1>1. Readers \subseteq Conns /\ Writers \subseteq Readers /\ Ckpters \subseteq Conns
  BY WalConstants
<1>2. ASSUME NEW c \in Readers,
             \/ OpenShm(c) \/ Recover(c) \/ ReadHdr(c) \/ LockZero(c)
             \/ ChooseMark(c) \/ LockMark(c) \/ CheckMark(c) \/ EndRead(c)
      PROVE  Unseen \/ Begins(c) \/ Ends(c)
  BY <1>1, <1>2, OpenShmStep, RecoverStep, ReadHdrStep, LockZeroStep, ChooseMarkStep,
     LockMarkStep, CheckMarkStep, EndReadStep
<1>3. ASSUME NEW c \in Writers,
             \/ BeginWrite(c) \/ RestartLog(c) \/ RestartInfo(c) \/ KeepHeader(c)
             \/ \E P \in (SUBSET Pages) \ {{}}, commit \in BOOLEAN : WalFrames(c, P, commit)
             \/ \E salt \in 1..(nSalt + 1) : WriteHeader(c, salt)
             \/ WriteFrame(c) \/ RewriteChecksum(c) \/ Publish(c) \/ Rollback(c)
      PROVE  Unseen \/ Prepares(c) \/ Commits(c)
  <2> c \in Conns
    BY <1>1
  <2>1. CASE BeginWrite(c) \/ Rollback(c)
    BY <2>1, BeginWriteStep, RollbackStep
  <2>2. CASE Publish(c) /\ conn[c].isCommit
    BY <2>2, CommitStep
  <2>3. CASE \/ RestartLog(c) \/ RestartInfo(c) \/ KeepHeader(c)
             \/ \E P \in SUBSET Pages, commit \in BOOLEAN : WalFrames(c, P, commit)
             \/ \E salt \in 1..(nSalt + 1) : WriteHeader(c, salt)
             \/ WriteFrame(c) \/ RewriteChecksum(c) \/ (Publish(c) /\ ~conn[c].isCommit)
    BY <2>3, WriterSteps
  <2> QED
    BY <1>3, <2>1, <2>2, <2>3, Zenon
<1>4. ASSUME NEW c \in Ckpters,
             \/ \E mode \in {"PASSIVE", "TRUNCATE"} : CkptBegin(c, mode)
             \/ CkptMark(c) \/ CkptLock0(c) \/ CkptCopy(c) \/ CkptBackfill(c)
             \/ CkptRestart(c) \/ CkptInfo(c) \/ CkptHeader(c) \/ CkptPublish(c)
             \/ CkptTruncate(c) \/ CkptFail(c) \/ CkptEnd(c)
      PROVE  Unseen
  <2> c \in Conns
    BY <1>1
  <2>1. CASE \/ \E mode \in {"PASSIVE", "TRUNCATE"} : CkptBegin(c, mode)
             \/ CkptMark(c) \/ CkptLock0(c) \/ CkptBackfill(c) \/ CkptInfo(c)
             \/ CkptFail(c) \/ CkptEnd(c)
    BY <2>1, QuietCkptSteps
  <2>2. CASE CkptCopy(c) \/ CkptRestart(c) \/ CkptHeader(c) \/ CkptPublish(c) \/ CkptTruncate(c)
    BY <2>2, CkptCopyStep, CkptRestartStep, RestartingSteps
  <2> QED
    BY <1>4, <2>1, <2>2, Zenon
<1>5. Kill => Crashes
  BY KillStep DEF Crashes
<1> QED
  BY <1>1, <1>2, <1>3, <1>4, <1>5, StutterUnseen, Zenon DEF Next

LEMMA StoreMaps ==
    ASSUME ~kept, ~kept',
           \/ Unseen
           \/ \E c \in Readers : Begins(c) \/ Ends(c) \/ Prepares(c) \/ Commits(c)
           \/ Crashes
    PROVE  Abstract!Next
<1> DEFINE views == [c \in Readers |-> View(c)]
<1>1. Readers \subseteq Conns
  BY WalConstants
<1>2. ASSUME NEW c \in Readers, \A d \in Conns \ {c} : View(d)' = View(d)
      PROVE  views' = [views EXCEPT ![c] = View(c)']
  BY <1>1, <1>2
<1>3. ASSUME \A d \in Conns : View(d)' = View(d)
      PROVE  views' = views
  BY <1>1, <1>3
<1>4. (~kept)' = ~kept
  OBVIOUS
<1>5. CASE Unseen
  <2>1. Store' = Store /\ Pending' = Pending /\ views' = views
    BY <1>3, <1>5 DEF Unseen
  <2> QED
    BY <1>4, <2>1 DEF Abstract!Next, Abstract!vars
<1>6. ASSUME NEW c \in Readers, Begins(c) \/ Ends(c) \/ Prepares(c) \/ Commits(c)
      PROVE  Abstract!Begin(c) \/ Abstract!End(c) \/ Abstract!Prepare(c) \/ Abstract!Commit(c)
  <2>1. views[c] = View(c)
    OBVIOUS
  <2>2. CASE Begins(c)
    <3>1. views' = [views EXCEPT ![c] = Store]
      BY <1>2, <2>2 DEF Begins
    <3> QED
      BY <2>1, <2>2, <3>1 DEF Begins, Abstract!Begin
  <2>3. CASE Ends(c)
    <3>1. views' = [views EXCEPT ![c] = None]
      BY <1>2, <2>3 DEF Ends
    <3> QED
      BY <2>1, <2>3, <3>1 DEF Ends, Abstract!End
  <2>4. CASE Prepares(c)
    <3>1. views' = views
      BY <1>3, <2>4 DEF Prepares
    <3> QED
      BY <2>1, <2>4, <3>1 DEF Prepares, Abstract!Prepare
  <2>5. CASE Commits(c)
    <3>1. views' = [views EXCEPT ![c] = Pending]
      BY <1>2, <2>5 DEF Commits
    <3> QED
      BY <2>1, <2>5, <3>1 DEF Commits, Abstract!Commit
  <2> QED
    BY <1>6, <2>2, <2>3, <2>4, <2>5
<1>7. CASE Crashes
  <2>1. views' = [c \in Readers |-> None]
    BY <1>1, <1>7 DEF Crashes
  <2>2. Abstract!Crash
    BY <1>7, <2>1 DEF Crashes, Abstract!Crash
  <2> QED
    BY <1>4, <2>2 DEF Abstract!Next, Abstract!Step
<1>8. CASE \E c \in Readers : Begins(c) \/ Ends(c) \/ Prepares(c) \/ Commits(c)
  BY <1>4, <1>6, <1>8 DEF Abstract!Next, Abstract!Step
<1> QED
  BY <1>5, <1>7, <1>8

\* Wal.ImplementsWalStore: every step of the log is a step of the store that moves from
\* commit to commit.  Readers read one committed state to their end, histories do not
\* fork, and no commit is lost, until a writer keeps a foreign header.
THEOREM StoreTheorem == Spec => ImplementsWalStore
<1>1. Init => Abstract!Init
  <2> SUFFICES ASSUME Init
               PROVE  Abstract!Init
    OBVIOUS
  <2>1. LogInv
    BY InitLog
  <2>2. ~shm.open /\ ~kept /\ writeLock = None /\ \A c \in Conns : conn[c].pc = "idle"
    BY DEF Init, ZeroShm, NewConn
  <2>3. Store = ImageOf(1, RecoveredFrame) /\ Store \in Image
    BY <2>1, <2>2, ImageType, RecoveredType DEF Store, LogInv
  <2>4. Pending = None
    BY <2>2 DEF Pending, Committing
  <2>5. \A c \in Readers : View(c) = None
    BY <2>2, WalConstants DEF View, InTransaction
  <2> QED
    BY <2>2, <2>3, <2>4, <2>5 DEF Abstract!Init
<1>2. IndInv /\ IndInv' /\ [Next]_vars => [Abstract!Next]_Abstract!vars
  <2> SUFFICES ASSUME IndInv, IndInv', [Next]_vars
               PROVE  Abstract!Next
    OBVIOUS
  <2>1. CASE kept'
    BY <2>1 DEF Abstract!Next
  <2>2. CASE ~kept'
    <3>1. ~kept
      BY <2>2, KeptStays
    <3>2. LogInv /\ LogInv' /\ DataInv /\ DataInv'
      BY <2>2, <3>1 DEF IndInv, LogInv
    <3> QED
      BY <2>2, <3>1, <3>2, StoreSteps, StoreMaps
  <2> QED
    BY <2>1, <2>2
<1> QED
  BY <1>1, <1>2, IndTheorem, PTL DEF Spec, ImplementsWalStore, Abstract!Spec

=============================================================================
