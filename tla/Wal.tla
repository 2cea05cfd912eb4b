-------------------------------- MODULE Wal --------------------------------
(***************************************************************************)
(* The write-ahead log of the SQLite that WCDB builds                      *)
(* (Pods/WCDBOptimizedSQLCipher/src/wal.c), with the changes that          *)
(* SQLITE_WCDB_IMPROVED_CHECKPOINT compiles in: a PASSIVE checkpoint that  *)
(* backfilled everything restarts the log itself, a writer that finds a    *)
(* WAL header on file keeps it, and recovery takes nBackfill over from the *)
(* shm file a dead process left.                                           *)
(*                                                                         *)
(* One process, a connection per WCDB handle.  A step is a write to a      *)
(* file or to shared memory, or the taking of a lock together with the     *)
(* reads it protects.  Kill ends the process between any two steps; the    *)
(* files and the shm file stay.                                            *)
(*                                                                         *)
(* Left out: the number of pages (a database has a fixed set of pages),    *)
(* the hash tables (the index is the frames' page numbers), the two copies *)
(* of the wal-index header, savepoints, and loss of power (a write, once   *)
(* made, is on file).  A checksum is ideal: the sequence it was computed   *)
(* from.  iChange, szPage and nPage are left out of the header, so that    *)
(* two headers compare equal at least as often as in the code.             *)
(***************************************************************************)
EXTENDS Integers, Sequences, FiniteSetsExt

CONSTANTS
    Conns,      \* connections (WCDB handles) of the process
    Readers,    \* those that open read transactions
    Writers,    \* those of them that also write
    Ckpters,    \* those that run checkpoints
    Pages,      \* page numbers
    NReader,    \* WAL_NREADER
    MaxTx,      \* bound: write transactions begun
    MaxRare,    \* bound: spills, rollbacks, failed and TRUNCATE checkpoints, deaths of the process
    None        \* no connection, no image

ASSUME WalConstants ==
    /\ Readers \subseteq Conns /\ Writers \subseteq Readers /\ Ckpters \subseteq Conns
    /\ Pages \subseteq Nat \ {0} /\ Pages # {}
    /\ NReader \in Nat /\ NReader > 1
    /\ MaxTx \in Nat /\ MaxRare \in Nat
    /\ None \notin Conns \cup [Pages -> 0..(2 * MaxTx)]

VARIABLES
    wal,        \* WAL file: salt of its header (0: shorter than 32 bytes), frames
    db,         \* database file: page -> content
    shm,        \* wal-index: is it open, header, WalCkptInfo
    writeLock,  \* holder of WAL_WRITE_LOCK
    ckptLock,   \* holder of WAL_CKPT_LOCK
    conn,       \* the Wal object and the call in progress of each connection
    cache,      \* page cache of each connection, None when it was reset
    nTx, nSalt, nRare,
    kept        \* a writer kept a WAL header its frames do not continue

vars == <<wal, db, shm, writeLock, ckptLock, conn, cache, nTx, nSalt, nRare, kept>>
files == <<wal, db>>
bounds == <<nTx, nSalt, nRare>>

-----------------------------------------------------------------------------
(* Data *)

\* 0xffffffff in the code: larger than any frame number.
READMARK_NOT_USED == 65535
Slots == 1..(NReader - 1)
Image == [Pages -> 0..(2 * MaxTx)]
ZeroHdr == [isInit |-> FALSE, mxFrame |-> 0, aSalt |-> 0, aFrameCksum |-> <<>>]
ZeroShm == [open |-> FALSE, hdr |-> ZeroHdr, nBackfill |-> 0, nBackfillAttempted |-> 0,
            aReadMark |-> [i \in Slots |-> 0]]
NewConn == [pc |-> "idle", hdr |-> ZeroHdr, nBackFill |-> 0,
            readLock |-> -1, minFrame |-> 0, mxI |-> 0, mxReadMark |-> 0,
            isCommit |-> FALSE, todo |-> {}, iFirst |-> 0, iFrame |-> 0,
            iReCksum |-> 0, pChange |-> FALSE,
            eMode |-> None, i |-> 0, mxSafeFrame |-> 0, isChanged |-> FALSE]

\* A connection between two calls keeps its cached header and nothing else.
Idle(hdr) == [NewConn EXCEPT !.hdr = hdr]
\* ... and in a read transaction its lock and its minFrame too.
Reading(r) == [Idle(r.hdr) EXCEPT !.pc = "read", !.readLock = r.readLock,
                                  !.minFrame = r.minFrame]

Init ==
    /\ wal = [hdr |-> 0, frames |-> <<>>]
    /\ db = [p \in Pages |-> 0]
    /\ shm = ZeroShm
    /\ writeLock = None /\ ckptLock = None
    /\ conn = [c \in Conns |-> NewConn]
    /\ cache = [c \in Conns |-> None]
    /\ nTx = 0 /\ nSalt = 0 /\ nRare = 0
    /\ kept = FALSE

\* What a frame adds to the checksum: 8 bytes of its header and the page.
Digest(f) == <<f.page, f.val, f.commit>>

\* The checksum of a WAL header; there is no page 0.
HeaderCksum(salt) == <<<<0, salt, FALSE>>>>

\* Frame i is valid: the salt of the WAL header, and the checksum of the header
\* and of all frames up to this one.
walDecodeFrame(i) ==
    /\ wal.frames[i].aSalt = wal.hdr
    /\ wal.frames[i].aFrameCksum =
          HeaderCksum(wal.hdr) \o [j \in 1..i |-> Digest(wal.frames[j])]

\* Mutant: recovery takes the last valid frame, commit or not.
RecoveredFrame_Any ==
    Max({0} \cup {n \in 1..Len(wal.frames) : \A i \in 1..n : walDecodeFrame(i)})

\* The last commit of the valid prefix of the WAL file.
RecoveredFrame ==
    Max({0} \cup {n \in 1..Len(wal.frames) :
                     wal.frames[n].commit /\ \A i \in 1..n : walDecodeFrame(i)})

\* The header that walIndexRecover builds; a file of just a header counts as empty.
RecoveredHdr ==
    IF wal.frames = <<>> THEN [ZeroHdr EXCEPT !.isInit = TRUE]
    ELSE [isInit |-> TRUE, mxFrame |-> RecoveredFrame, aSalt |-> wal.hdr,
          aFrameCksum |-> IF RecoveredFrame = 0 THEN HeaderCksum(wal.hdr)
                          ELSE wal.frames[RecoveredFrame].aFrameCksum]

\* nBackfill of the shm file left behind, if that file belongs to this WAL.
tryRecoverBackfill ==
    IF /\ wal.hdr # 0
       /\ shm.hdr.isInit
       /\ shm.hdr.aSalt = wal.hdr
       /\ shm.nBackfillAttempted <= shm.hdr.mxFrame
       /\ shm.nBackfill <= shm.nBackfillAttempted
    THEN shm.nBackfill ELSE 0

\* sqlite3WalFindFrame: last frame of page p in first..last, 0 when there is none.
FindFrame(p, first, last) ==
    Max({0} \cup {i \in first..last : wal.frames[i].page = p})

\* The database as a reader of frames first..last sees it.
ImageOf(first, last) ==
    [p \in Pages |-> LET i == FindFrame(p, first, last)
                     IN  IF i = 0 THEN db[p] ELSE wal.frames[i].val]

Shared(i) == {c \in Conns : conn[c].readLock = i}
\* Exclusive read locks that are held from one step to the next.
Locked0 == \E c \in Conns : conn[c].pc = "ckCopy"
LockedAll == \E c \in Conns : conn[c].pc \in {"restartInfo", "ckInfo", "ckHeader",
                                              "ckPublish", "ckTruncate"}
NoWalReader == ~LockedAll /\ \A i \in Slots : Shared(i) = {}

Go(c, pc) == conn' = [conn EXCEPT ![c].pc = pc]

-----------------------------------------------------------------------------
(* Opening the wal-index; the start of a read transaction *)

\* walIndexReadHdr with no shm open yet: note the backfill, then map a zeroed shm.
OpenShm(c) ==
    /\ conn[c].pc = "idle" /\ ~shm.open
    /\ conn' = [conn EXCEPT ![c].nBackFill = tryRecoverBackfill]
    /\ shm' = [ZeroShm EXCEPT !.open = TRUE]
    /\ UNCHANGED <<files, writeLock, ckptLock, cache, bounds, kept>>

\* walIndexRecover, under the write lock and every other lock.
Recover(c) ==
    /\ conn[c].pc = "idle" /\ shm.open /\ ~shm.hdr.isInit
    /\ writeLock = None
    /\ LET n == conn[c].nBackFill
           hdr == RecoveredHdr
           mx == hdr.mxFrame
       IN  /\ shm' = [shm EXCEPT !.hdr = hdr,
                        !.nBackfill = IF n <= mx THEN n ELSE 0,
                        !.nBackfillAttempted = mx,
                        !.aReadMark = [i \in Slots |-> IF i = 1 /\ mx > 0 THEN mx
                                                       ELSE READMARK_NOT_USED]]
           /\ conn' = [conn EXCEPT ![c] = [Idle(hdr) EXCEPT !.pc = "try"]]
    /\ cache' = [cache EXCEPT ![c] = None]
    /\ UNCHANGED <<files, writeLock, ckptLock, bounds, kept>>

\* walTryBeginRead: read the header; a changed one resets the page cache.
ReadHdr(c) ==
    /\ conn[c].pc = "idle" /\ shm.open /\ shm.hdr.isInit
    /\ conn' = [conn EXCEPT ![c] = [Idle(shm.hdr) EXCEPT !.pc = "try"]]
    /\ cache' = [cache EXCEPT ![c] = IF conn[c].hdr = shm.hdr THEN @ ELSE None]
    /\ UNCHANGED <<files, shm, writeLock, ckptLock, bounds, kept>>

\* The read transaction is open: a cache that was reset fills with what it reads.
Fill(c, image) == cache' = [cache EXCEPT ![c] = IF @ = None THEN image ELSE @]

\* A completely backfilled WAL can be ignored, under WAL_READ_LOCK(0), if the
\* header is still the one read.
IgnoreWal(c) == shm.nBackfill = conn[c].hdr.mxFrame /\ ~Locked0

LockZero(c) ==
    /\ conn[c].pc = "try" /\ IgnoreWal(c)
    /\ IF shm.hdr = conn[c].hdr
       THEN /\ conn' = [conn EXCEPT ![c] = Reading([@ EXCEPT !.readLock = 0])]
            /\ Fill(c, db)
       ELSE conn' = [conn EXCEPT ![c] = Idle(@.hdr)] /\ UNCHANGED cache
    /\ UNCHANGED <<files, shm, writeLock, ckptLock, bounds, kept>>

\* WAL_RETRY: start again at the header or, inside a write (useWal), at the marks.
Retry(c) ==
    conn' = [conn EXCEPT ![c] = IF writeLock = c
                                THEN [@ EXCEPT !.pc = "mark", !.readLock = -1]
                                ELSE Idle(@.hdr)]

\* Choose the largest usable read mark, or move a free one up to mxFrame.
ChooseMark(c) ==
    /\ \/ conn[c].pc = "try" /\ ~IgnoreWal(c)
       \/ conn[c].pc = "mark"           \* useWal, from walRestartLog
    /\ LET mxFrame == conn[c].hdr.mxFrame
           Usable == {i \in Slots : shm.aReadMark[i] <= mxFrame}
           mx == Max({0} \cup {shm.aReadMark[i] : i \in Usable})
           mxI == Max({0} \cup {i \in Usable : shm.aReadMark[i] = mx})
           Free == {i \in Slots : ~LockedAll /\ Shared(i) = {}}
           Take(i, m) == conn' = [conn EXCEPT ![c].pc = "lockMark",
                                              ![c].mxI = i, ![c].mxReadMark = m]
       IN  CASE (mx < mxFrame \/ mxI = 0) /\ Free # {} ->
                    /\ Take(Min(Free), mxFrame)
                    /\ shm' = [shm EXCEPT !.aReadMark[Min(Free)] = mxFrame]
             [] mxI = 0 /\ Free = {} -> Retry(c) /\ UNCHANGED shm
             [] OTHER -> Take(mxI, mx) /\ UNCHANGED shm
    /\ UNCHANGED <<files, writeLock, ckptLock, cache, bounds, kept>>

\* Lock the mark, and only then note how much is backfilled.
LockMark(c) ==
    /\ conn[c].pc = "lockMark"
    /\ IF LockedAll THEN Retry(c)
       ELSE conn' = [conn EXCEPT ![c].pc = "check", ![c].readLock = conn[c].mxI,
                                 ![c].minFrame = shm.nBackfill + 1]
    /\ UNCHANGED <<files, shm, writeLock, ckptLock, cache, bounds, kept>>

\* Mark and header must be what they were; else unlock and retry.
CheckMark(c) ==
    /\ conn[c].pc = "check"
    /\ LET r == conn[c] IN
       CASE \/ shm.aReadMark[r.mxI] # r.mxReadMark
            \/ shm.hdr # r.hdr          -> Retry(c) /\ UNCHANGED cache
         [] OTHER ->
            IF writeLock = c            \* back in sqlite3WalFrames
            THEN Go(c, "header") /\ UNCHANGED cache
            ELSE /\ conn' = [conn EXCEPT ![c] = Reading(r)]
                 /\ Fill(c, ImageOf(r.minFrame, r.hdr.mxFrame))
    /\ UNCHANGED <<files, shm, writeLock, ckptLock, bounds, kept>>

\* sqlite3WalEndReadTransaction.
EndRead(c) ==
    /\ conn[c].pc = "read"
    /\ conn' = [conn EXCEPT ![c] = Idle(@.hdr)]
    /\ UNCHANGED <<files, shm, writeLock, ckptLock, cache, bounds, kept>>

-----------------------------------------------------------------------------
(* Write transactions *)

\* sqlite3WalBeginWriteTransaction; SQLITE_BUSY_SNAPSHOT for an outdated reader.
BeginWrite(c) ==
    /\ conn[c].pc = "read" /\ nTx < MaxTx
    /\ writeLock = None
    /\ conn[c].hdr = shm.hdr
    /\ writeLock' = c /\ nTx' = nTx + 1
    /\ Go(c, "write")
    /\ UNCHANGED <<files, shm, ckptLock, cache, nSalt, nRare, kept>>

\* sqlite3WalFrames is called with the dirty pages P: one page when the cache
\* spills, all of them at the commit.  At most one spill per transaction.
WalFrames(c, P, commit) ==
    /\ conn[c].pc = "write"
    /\ commit \/ (Cardinality(P) = 1 /\ conn[c].hdr = shm.hdr)
    /\ nRare' = nRare + IF commit THEN 0 ELSE 1
    /\ nRare' <= MaxRare
    /\ conn' = [conn EXCEPT
           ![c].pc = IF conn[c].readLock = 0 THEN "restartLog" ELSE "header",
           ![c].isCommit = commit, ![c].todo = P,
           ![c].iFirst = IF conn[c].hdr = shm.hdr THEN 0 ELSE shm.hdr.mxFrame + 1]
    /\ UNCHANGED <<files, shm, writeLock, ckptLock, cache, nTx, nSalt, kept>>

\* walRestartHdr up to walIndexWriteHdr: an empty log with new salts.
RestartedHdr(hdr) == [hdr EXCEPT !.mxFrame = 0, !.aSalt = nSalt + 1]
\* Mutant: what was backfilled of the old log counts for the new one.
RestartedInfo_Backfilled(s) ==
    [s EXCEPT !.aReadMark = [i \in Slots |-> IF i = 1 THEN 0 ELSE READMARK_NOT_USED]]

\* The rest of walRestartHdr.
RestartedInfo(s) ==
    [s EXCEPT !.nBackfill = 0, !.nBackfillAttempted = 0,
              !.aReadMark = [i \in Slots |-> IF i = 1 THEN 0 ELSE READMARK_NOT_USED]]

\* walRestartLog: nobody reads the WAL, so begin it anew; else use it as it is.
RestartLog(c) ==
    /\ conn[c].pc = "restartLog"
    /\ IF shm.nBackfill > 0 /\ NoWalReader
       THEN LET hdr == RestartedHdr(conn[c].hdr) IN
            /\ conn' = [conn EXCEPT ![c].pc = "restartInfo", ![c].hdr = hdr,
                                    ![c].pChange = TRUE]
            /\ shm' = [shm EXCEPT !.hdr = hdr]
            /\ nSalt' = nSalt + 1
       ELSE /\ conn' = [conn EXCEPT ![c].pc = "mark", ![c].readLock = -1]
            /\ UNCHANGED <<shm, nSalt>>
    /\ UNCHANGED <<files, writeLock, ckptLock, cache, nTx, nRare, kept>>

RestartInfo(c) ==
    /\ conn[c].pc = "restartInfo"
    /\ shm' = RestartedInfo(shm)
    /\ conn' = [conn EXCEPT ![c].pc = "mark", ![c].readLock = -1]
    /\ UNCHANGED <<files, writeLock, ckptLock, cache, bounds, kept>>

\* Does an empty log get a new header?  Only if this call restarted it, or the
\* file is too short to hold one.
NeedsHeader(c) == conn[c].pChange \/ wal.hdr = 0

\* walWriteHeader: random salts when nCkpt = 0, else those of the wal-index header.
WriteHeader(c, salt) ==
    /\ conn[c].pc = "header" /\ conn[c].hdr.mxFrame = 0 /\ NeedsHeader(c)
    /\ salt \in IF conn[c].pChange THEN {conn[c].hdr.aSalt}
                ELSE {conn[c].hdr.aSalt, nSalt + 1} \ {0}
    /\ nSalt' = Max({nSalt, salt})
    /\ wal' = [wal EXCEPT !.hdr = salt]
    /\ conn' = [conn EXCEPT ![c].pc = "frames", ![c].hdr.aSalt = salt,
                            ![c].hdr.aFrameCksum = HeaderCksum(salt), ![c].iFrame = 0]
    /\ UNCHANGED <<db, shm, writeLock, ckptLock, cache, nTx, nRare, kept>>

\* No header is written: the log has frames already, or the header is kept.
KeepHeader(c) ==
    /\ conn[c].pc = "header"
    /\ conn[c].hdr.mxFrame = 0 => ~NeedsHeader(c)
    /\ conn' = [conn EXCEPT ![c].pc = "frames", ![c].iFrame = conn[c].hdr.mxFrame]
    /\ kept' = (kept \/ (conn[c].hdr.mxFrame = 0 /\
                         conn[c].hdr # [conn[c].hdr EXCEPT !.aSalt = wal.hdr,
                                                           !.aFrameCksum = HeaderCksum(wal.hdr)]))
    /\ UNCHANGED <<files, shm, writeLock, ckptLock, cache, bounds>>

\* Contents are numbered: 2*nTx-1 for a page that is spilled, 2*nTx at the commit.
Content(r) == IF r.isCommit THEN 2 * nTx ELSE 2 * nTx - 1

\* walWriteOneFrame at position i; what lies beyond it stays on file.
PutFrame(frames, i, f) == IF i > Len(frames) THEN Append(frames, f)
                          ELSE [frames EXCEPT ![i] = f]

\* One turn of the loop over the dirty pages, in page order: a page that the
\* transaction spilled is overwritten in place, any other is appended.
WriteFrame(c) ==
    /\ conn[c].pc = "frames"
    /\ LET r == conn[c]
           p == Min(r.todo)
           rest == r.todo \ {p}
           iWrite == FindFrame(p, r.minFrame, r.hdr.mxFrame)
           commit == r.isCommit /\ rest = {}
           ck == Append(r.hdr.aFrameCksum, <<p, Content(r), commit>>)
           next == IF rest # {} THEN "frames" ELSE "publish"
       IN  IF r.iFirst > 0 /\ ~commit /\ iWrite >= r.iFirst
           THEN /\ wal' = [wal EXCEPT !.frames[iWrite].val = Content(r)]
                /\ conn' = [conn EXCEPT ![c].todo = rest, ![c].pc = next,
                              ![c].iReCksum = IF @ = 0 THEN iWrite ELSE Min({@, iWrite})]
           ELSE /\ wal' = [wal EXCEPT !.frames = PutFrame(@, r.iFrame + 1,
                              [page |-> p, val |-> Content(r), commit |-> commit,
                               aSalt |-> IF r.iReCksum = 0 THEN r.hdr.aSalt ELSE 0,
                               aFrameCksum |-> IF r.iReCksum = 0 THEN ck ELSE <<>>])]
                /\ conn' = [conn EXCEPT ![c].todo = rest, ![c].iFrame = @ + 1,
                              ![c].hdr.aFrameCksum = IF r.iReCksum = 0 THEN ck ELSE @,
                              ![c].pc = IF commit /\ r.iReCksum > 0 THEN "recksum" ELSE next]
    /\ UNCHANGED <<db, shm, writeLock, ckptLock, cache, bounds, kept>>

\* walRewriteChecksums, a frame at a time from iReCksum on.
RewriteChecksum(c) ==
    /\ conn[c].pc = "recksum"
    /\ LET i == conn[c].iReCksum
           before == IF i = 1 THEN HeaderCksum(wal.hdr) ELSE wal.frames[i - 1].aFrameCksum
           ck == Append(before, Digest(wal.frames[i]))
           last == i = conn[c].iFrame
       IN  /\ wal' = [wal EXCEPT !.frames[i].aSalt = conn[c].hdr.aSalt,
                                 !.frames[i].aFrameCksum = ck]
           /\ conn' = [conn EXCEPT ![c].hdr.aFrameCksum = ck,
                                   ![c].iReCksum = IF last THEN 0 ELSE i + 1,
                                   ![c].pc = IF last THEN "publish" ELSE "recksum"]
    /\ UNCHANGED <<db, shm, writeLock, ckptLock, cache, bounds, kept>>

\* Mutant: the header counts a frame that was not written.
PublishedHdr_Extra(r) == [r.hdr EXCEPT !.mxFrame = r.iFrame + 1]

\* The private header after the frames of a call.
PublishedHdr(r) == [r.hdr EXCEPT !.mxFrame = r.iFrame]

\* The frames are written: advance the private header and, at a commit, the
\* shared one; the commit ends the write transaction.
Publish(c) ==
    /\ conn[c].pc = "publish"
    /\ LET r == conn[c]
           hdr == PublishedHdr(r)
       IN  IF r.isCommit
           THEN /\ shm' = [shm EXCEPT !.hdr = hdr]
                /\ conn' = [conn EXCEPT ![c] = Reading([r EXCEPT !.hdr = hdr])]
                /\ cache' = [cache EXCEPT ![c] = ImageOf(r.minFrame, r.iFrame)]
                /\ writeLock' = None
           ELSE /\ conn' = [conn EXCEPT ![c] = [Reading([r EXCEPT !.hdr = hdr]) EXCEPT
                                                  !.pc = "write", !.iReCksum = r.iReCksum]]
                /\ UNCHANGED <<shm, cache, writeLock>>
    /\ UNCHANGED <<files, ckptLock, bounds, kept>>

\* sqlite3WalUndo and the end of the write transaction: a rollback that was asked
\* for, or one that follows an I/O error before the commit frame is on file.
Rollback(c) ==
    /\ conn[c].pc \in {"write", "header", "frames", "recksum"} /\ nRare < MaxRare
    /\ conn' = [conn EXCEPT ![c] = Reading([@ EXCEPT !.hdr = shm.hdr])]
    /\ writeLock' = None /\ nRare' = nRare + 1
    /\ UNCHANGED <<files, shm, ckptLock, cache, nTx, nSalt, kept>>

-----------------------------------------------------------------------------
(* Checkpoints *)

\* sqlite3WalCheckpoint: the locks, the header, the first test of walCheckpoint.
\* A TRUNCATE that does not get the write lock goes on as PASSIVE.
CkptBegin(c, mode) ==
    /\ conn[c].pc = "idle" /\ shm.open /\ shm.hdr.isInit
    /\ ckptLock = None
    /\ nRare' = nRare + IF mode = "TRUNCATE" THEN 1 ELSE 0
    /\ nRare' <= MaxRare
    /\ ckptLock' = c
    /\ LET full == mode = "TRUNCATE" /\ writeLock = None
           mx == shm.hdr.mxFrame
       IN  /\ writeLock' = IF full THEN c ELSE writeLock
           /\ conn' = [conn EXCEPT ![c] = [Idle(shm.hdr) EXCEPT
                          !.pc = IF shm.nBackfill < mx THEN "ckMarks" ELSE "ckDone",
                          !.eMode = IF full THEN "TRUNCATE" ELSE "PASSIVE",
                          !.i = 1, !.mxSafeFrame = mx,
                          !.isChanged = (conn[c].hdr # shm.hdr)]]
    /\ UNCHANGED <<files, shm, cache, nTx, nSalt, kept>>

\* One turn of the loop over the read marks: raise the mark, or stop short of it.
CkptMark(c) ==
    /\ conn[c].pc = "ckMarks"
    /\ LET r == conn[c]
           y == shm.aReadMark[r.i]
           free == ~LockedAll /\ Shared(r.i) = {}
           safe == IF r.mxSafeFrame > y /\ ~free THEN y ELSE r.mxSafeFrame
       IN  /\ shm' = IF r.mxSafeFrame > y /\ free
                     THEN [shm EXCEPT !.aReadMark[r.i] =
                              IF r.i = 1 THEN r.mxSafeFrame ELSE READMARK_NOT_USED]
                     ELSE shm
           /\ conn' = [conn EXCEPT ![c].mxSafeFrame = safe, ![c].i = @ + 1,
                          ![c].pc = CASE r.i < NReader - 1 -> "ckMarks"
                                      [] r.i = NReader - 1 /\ shm.nBackfill < safe -> "ckLock0"
                                      [] OTHER -> "ckDone"]
    /\ UNCHANGED <<files, writeLock, ckptLock, cache, bounds, kept>>

\* Mutant: frames beyond mxSafeFrame are copied too.
ToCopy_Unsafe(r) ==
    {p \in Pages : FindFrame(p, shm.nBackfill + 1, r.hdr.mxFrame) > 0}

\* The pages to copy: the iterator yields the last frame of each page up to the
\* checkpointer's own mxFrame, and the loop skips one beyond mxSafeFrame.
ToCopy(r) ==
    {p \in Pages : LET i == FindFrame(p, shm.nBackfill + 1, r.hdr.mxFrame)
                   IN  i > 0 /\ i <= r.mxSafeFrame}

\* WAL_READ_LOCK(0), exclusively; a reader of the database file stops the backfill.
CkptLock0(c) ==
    /\ conn[c].pc = "ckLock0"
    /\ IF Shared(0) = {}
       THEN /\ shm' = [shm EXCEPT !.nBackfillAttempted = conn[c].mxSafeFrame]
            /\ conn' = [conn EXCEPT ![c].pc = "ckCopy", ![c].todo = ToCopy(conn[c])]
       ELSE Go(c, "ckDone") /\ UNCHANGED shm
    /\ UNCHANGED <<files, writeLock, ckptLock, cache, bounds, kept>>

\* One page from the WAL to the database file.
CkptCopy(c) ==
    /\ conn[c].pc = "ckCopy" /\ conn[c].todo # {}
    /\ LET p == Min(conn[c].todo) IN
       /\ db' = [db EXCEPT ![p] =
                    wal.frames[FindFrame(p, shm.nBackfill + 1, conn[c].hdr.mxFrame)].val]
       /\ conn' = [conn EXCEPT ![c].todo = @ \ {p}]
    /\ UNCHANGED <<wal, shm, writeLock, ckptLock, cache, bounds, kept>>

\* All pages copied (and synced): record it, release WAL_READ_LOCK(0).
CkptBackfill(c) ==
    /\ conn[c].pc = "ckCopy" /\ conn[c].todo = {}
    /\ shm' = [shm EXCEPT !.nBackfill = conn[c].mxSafeFrame]
    /\ Go(c, "ckDone")
    /\ UNCHANGED <<files, writeLock, ckptLock, cache, bounds, kept>>

\* Restart the log if all of it is backfilled, nobody has written since and
\* nobody reads it.  PASSIVE takes the write lock for this, TRUNCATE has it.
CkptRestart(c) ==
    /\ conn[c].pc = "ckDone"
    /\ LET r == conn[c]
           passive == r.eMode = "PASSIVE"
           done == shm.nBackfill = r.hdr.mxFrame /\ (passive => shm.nBackfill > 0)
           locked == passive /\ done /\ writeLock = None
           hdr == RestartedHdr(r.hdr)
       IN  /\ writeLock' = IF locked THEN c ELSE writeLock
           /\ CASE locked /\ shm.hdr # r.hdr ->
                      /\ conn' = [conn EXCEPT ![c].pc = "ckEnd", ![c].isChanged = TRUE]
                      /\ UNCHANGED <<shm, nSalt>>
                [] (passive => locked /\ shm.hdr = r.hdr) /\ done /\ NoWalReader ->
                      /\ shm' = [shm EXCEPT !.hdr = hdr]
                      /\ conn' = [conn EXCEPT ![c].pc = "ckInfo", ![c].hdr = hdr]
                      /\ nSalt' = nSalt + 1
                [] OTHER -> Go(c, "ckEnd") /\ UNCHANGED <<shm, nSalt>>
    /\ UNCHANGED <<files, ckptLock, cache, nTx, nRare, kept>>

CkptInfo(c) ==
    /\ conn[c].pc = "ckInfo"
    /\ shm' = RestartedInfo(shm)
    /\ Go(c, IF conn[c].eMode = "TRUNCATE" THEN "ckTruncate" ELSE "ckHeader")
    /\ UNCHANGED <<files, writeLock, ckptLock, cache, bounds, kept>>

\* PASSIVE: write the header of the new log ...
CkptHeader(c) ==
    /\ conn[c].pc = "ckHeader"
    /\ wal' = [wal EXCEPT !.hdr = conn[c].hdr.aSalt]
    /\ conn' = [conn EXCEPT ![c].pc = "ckPublish",
                            ![c].hdr.aFrameCksum = HeaderCksum(conn[c].hdr.aSalt)]
    /\ UNCHANGED <<db, shm, writeLock, ckptLock, cache, bounds, kept>>

\* ... and share the checksum that its first frame continues.
CkptPublish(c) ==
    /\ conn[c].pc = "ckPublish"
    /\ shm' = [shm EXCEPT !.hdr = conn[c].hdr]
    /\ Go(c, "ckEnd")
    /\ UNCHANGED <<files, writeLock, ckptLock, cache, bounds, kept>>

\* TRUNCATE: cut the WAL file to nothing.
CkptTruncate(c) ==
    /\ conn[c].pc = "ckTruncate"
    /\ wal' = [hdr |-> 0, frames |-> <<>>]
    /\ Go(c, "ckEnd")
    /\ UNCHANGED <<db, shm, writeLock, ckptLock, cache, bounds, kept>>

\* An interrupt between two pages, or a write that fails.
CkptFail(c) ==
    /\ conn[c].pc \in {"ckCopy", "ckHeader", "ckTruncate"} /\ nRare < MaxRare
    /\ Go(c, "ckEnd")
    /\ nRare' = nRare + 1
    /\ UNCHANGED <<files, shm, writeLock, ckptLock, cache, nTx, nSalt, kept>>

\* Mutant: the header that the checkpoint read stays in the connection.
CkptEnd_Keep(c) ==
    /\ conn[c].pc = "ckEnd"
    /\ conn' = [conn EXCEPT ![c] = Idle(@.hdr)]
    /\ writeLock' = IF writeLock = c THEN None ELSE writeLock
    /\ ckptLock' = None
    /\ UNCHANGED <<files, shm, cache, bounds, kept>>

\* A header read on the way is forgotten, so that the next reader resets its cache.
CkptEnd(c) ==
    /\ conn[c].pc = "ckEnd"
    /\ conn' = [conn EXCEPT ![c] = Idle(IF @.isChanged THEN ZeroHdr ELSE @.hdr)]
    /\ writeLock' = IF writeLock = c THEN None ELSE writeLock
    /\ ckptLock' = None
    /\ UNCHANGED <<files, shm, cache, bounds, kept>>

-----------------------------------------------------------------------------
\* The process dies: locks, connections and caches are gone, files stay.
Kill ==
    /\ nRare < MaxRare /\ shm.open
    /\ nRare' = nRare + 1
    /\ shm' = [shm EXCEPT !.open = FALSE]
    /\ writeLock' = None /\ ckptLock' = None
    /\ conn' = [c \in Conns |-> NewConn]
    /\ cache' = [c \in Conns |-> None]
    /\ UNCHANGED <<files, nTx, nSalt, kept>>

Next ==
    \/ \E c \in Readers :
          \/ OpenShm(c) \/ Recover(c) \/ ReadHdr(c) \/ LockZero(c)
          \/ ChooseMark(c) \/ LockMark(c) \/ CheckMark(c) \/ EndRead(c)
    \/ \E c \in Writers :
          \/ BeginWrite(c) \/ RestartLog(c) \/ RestartInfo(c) \/ KeepHeader(c)
          \/ \E P \in (SUBSET Pages) \ {{}}, commit \in BOOLEAN : WalFrames(c, P, commit)
          \/ \E salt \in 1..(nSalt + 1) : WriteHeader(c, salt)
          \/ WriteFrame(c) \/ RewriteChecksum(c) \/ Publish(c) \/ Rollback(c)
    \/ \E c \in Ckpters :
          \/ \E mode \in {"PASSIVE", "TRUNCATE"} : CkptBegin(c, mode)
          \/ CkptMark(c) \/ CkptLock0(c) \/ CkptCopy(c) \/ CkptBackfill(c)
          \/ CkptRestart(c) \/ CkptInfo(c) \/ CkptHeader(c) \/ CkptPublish(c)
          \/ CkptTruncate(c) \/ CkptFail(c) \/ CkptEnd(c)
    \/ Kill

Spec == Init /\ [][Next]_vars

-----------------------------------------------------------------------------
(* Properties *)

Salts == 0..nSalt
IsHdr(h) == h.isInit \in BOOLEAN /\ h.mxFrame \in 0..Len(wal.frames) /\ h.aSalt \in Salts

\* Type correctness of the files, the wal-index and the connections: no header,
\* shared or cached by a reader of the WAL, names a frame beyond the WAL file.
TypeOK ==
    /\ wal.hdr \in Salts /\ db \in Image
    /\ \A i \in 1..Len(wal.frames) :
          /\ wal.frames[i].page \in Pages /\ wal.frames[i].val \in 1..(2 * MaxTx)
          /\ wal.frames[i].commit \in BOOLEAN /\ wal.frames[i].aSalt \in Salts
    /\ IsHdr(shm.hdr)
    /\ shm.nBackfill \in 0..Len(wal.frames)
    /\ {writeLock, ckptLock} \subseteq Conns \cup {None}
    /\ \A c \in Conns : /\ conn[c].readLock \in -1..(NReader - 1)
                        /\ conn[c].pc = "read" /\ conn[c].readLock > 0 => IsHdr(conn[c].hdr)
                        /\ cache[c] \in Image \cup {None}

\* The last commit: the shared header says it, or recovery would.
Store == IF shm.open /\ shm.hdr.isInit THEN ImageOf(1, shm.hdr.mxFrame)
         ELSE ImageOf(1, RecoveredFrame)

\* The backfill that a recovery could start from: that of the shm file if the
\* process died now, or what a connection has noted already.
Hints == IF shm.open /\ ~shm.hdr.isInit THEN {conn[c].nBackFill : c \in Readers}
         ELSE {tryRecoverBackfill}
\* The databases that readers could find after recovery.
Recovered == {ImageOf(IF n <= RecoveredFrame THEN n + 1 ELSE 1, RecoveredFrame) : n \in Hints}

Committing == {c \in Conns : conn[c].pc = "publish" /\ conn[c].isCommit}
Pending == IF Committing = {} THEN None
           ELSE ImageOf(1, conn[CHOOSE c \in Committing : TRUE].iFrame)

InTransaction(c) == conn[c].pc = "read" \/ (writeLock = c /\ ckptLock # c)
\* What connection c reads: its snapshot, for a writer without its own changes.
View(c) ==
    IF ~InTransaction(c) THEN None
    ELSE CASE conn[c].readLock = 0 -> db
           [] conn[c].readLock = -1 -> ImageOf(1, shm.hdr.mxFrame)
           [] OTHER -> ImageOf(conn[c].minFrame, IF writeLock = c THEN shm.hdr.mxFrame
                                                 ELSE conn[c].hdr.mxFrame)

\* Crash safety: wherever the process is killed, the WAL file, the database file
\* and the shm file it leaves give the next process the last commit, or the one
\* whose commit frame had just been written.  (A backfill half done, a log being
\* restarted, leftover frames, rewritten checksums and the nBackfill taken from
\* the shm file are all in the way.)  Provided no writer kept a foreign header.
Recoverable == kept \/ Recovered \subseteq {Store, Pending}

\* The same without the proviso, as the comments of wal.c have it: transactions
\* commit when a frame is written that contains a commit marker.
CommitsSurvive == Recovered \subseteq {Store, Pending}

\* The page cache that pagerBeginReadTransaction did not reset is that of the
\* snapshot the transaction reads, through checkpoints that read a newer header.
CacheCoherent ==
    \A c \in Conns : InTransaction(c) => kept \/ cache[c] = View(c)

\* The log implements the store: snapshots, no fork, no commit lost.
Abstract == INSTANCE WalStore WITH
    Conns <- Readers, Images <- Image, store <- Store, pending <- Pending,
    view <- [c \in Readers |-> View(c)], intact <- ~kept

\* Every step of the log is a step of the store: a transaction reads one committed
\* state to its end although others commit, backfill, restart and truncate the log.
ImplementsWalStore == Abstract!Spec

\* State constraint: nothing is promised after a foreign header was kept.
Intact == ~kept
=============================================================================
