------------------------------- MODULE WalInv -------------------------------
(***************************************************************************)
(* Why the write-ahead log of Wal works: the inductive invariant from      *)
(* which WalProofs and WalDataProofs derive its properties.  In four       *)
(* parts: the types; who holds which lock at which point of its call;      *)
(* where in the log headers, read marks and backfill stand; and, as long   *)
(* as no writer kept a foreign header, what the files and the page caches  *)
(* hold.                                                                   *)
(***************************************************************************)
EXTENDS Wal

(* Types *)

Items == Nat \X Nat \X BOOLEAN
Hdrs == [isInit : BOOLEAN, mxFrame : Nat, aSalt : Nat, aFrameCksum : Seq(Items)]
Frames == [page : Pages, val : 1..(2 * MaxTx), commit : BOOLEAN,
           aSalt : Nat, aFrameCksum : Seq(Items)]

\* Points of a call: inside a write transaction only, with the log's mark locked
\* again, in a checkpoint, in the part of one that restarts the log.
FramePcs == {"header", "frames", "recksum", "publish"}
WritePcs == {"write", "restartLog", "restartInfo", "mark"} \cup FramePcs
BackfillPcs == {"ckMarks", "ckLock0", "ckCopy"}
RestartPcs == {"ckInfo", "ckHeader", "ckPublish", "ckTruncate"}
CkptPcs == {"ckDone", "ckEnd"} \cup BackfillPcs \cup RestartPcs
Pcs == {"idle", "try", "lockMark", "check", "read"} \cup WritePcs \cup CkptPcs

Wals ==
    [pc : Pcs, hdr : Hdrs, nBackFill : Nat,
     readLock : -1..(NReader - 1), minFrame : Nat, mxI : 0..(NReader - 1),
     mxReadMark : Nat, isCommit : BOOLEAN, todo : SUBSET Pages,
     iFirst : Nat, iFrame : Nat, iReCksum : Nat, pChange : BOOLEAN,
     eMode : {None, "PASSIVE", "TRUNCATE"}, i : Nat, mxSafeFrame : Nat,
     isChanged : BOOLEAN]

WalFiles == [hdr : Nat, frames : Seq(Frames)]
Shms == [open : BOOLEAN, hdr : Hdrs, nBackfill : Nat, nBackfillAttempted : Nat,
         aReadMark : [Slots -> Nat]]

TypeInv ==
    /\ wal \in WalFiles /\ db \in Image /\ shm \in Shms
    /\ writeLock \in Conns \cup {None} /\ ckptLock \in Conns \cup {None}
    /\ conn \in [Conns -> Wals]
    /\ cache \in [Conns -> Image \cup {None}]
    /\ nTx \in 0..MaxTx /\ nSalt \in Nat /\ nRare \in Nat
    /\ kept \in BOOLEAN

-----------------------------------------------------------------------------
(* Locks *)

Live == shm.open /\ shm.hdr.isInit
mx == shm.hdr.mxFrame
nb == shm.nBackfill

\* c is in a write transaction.
Writing(c) == writeLock = c /\ ckptLock # c

LockInvOf(c) ==
    LET r == conn[c] IN
    /\ r.pc \in WritePcs => writeLock = c
    /\ r.pc \in {"idle", "try", "read"} => writeLock # c
    /\ r.pc \in CkptPcs <=> ckptLock = c
    /\ r.pc \in RestartPcs => writeLock = c
    /\ r.pc \in CkptPcs => r.eMode \in {"PASSIVE", "TRUNCATE"}
    /\ r.pc \in {"ckDone"} \cup BackfillPcs => (r.eMode = "TRUNCATE" <=> writeLock = c)
    /\ r.pc \in {"idle", "try", "mark", "lockMark"} \cup CkptPcs => r.readLock = -1
    /\ r.pc \in {"restartLog", "restartInfo"} => r.readLock = 0
    /\ r.pc \in {"read", "write"} => r.readLock >= 0
    /\ r.pc \in {"check"} \cup FramePcs => r.readLock > 0
    /\ r.pc = "check" => r.readLock = r.mxI
    /\ r.pc = "lockMark" => r.mxI > 0
    /\ Writing(c) /\ r.pc \notin {"write", "recksum", "publish"} => r.todo # {}
    /\ r.pc # "idle" => r.hdr.isInit
    /\ Writing(c) => nTx > 0

\* Locks, and what the exclusive read locks exclude; before the wal-index is
\* recovered, no connection is in a call.
LockInv ==
    /\ \A c \in Conns : LockInvOf(c)
    /\ LockedAll => \A c \in Conns : conn[c].readLock <= 0
    /\ Locked0 => \A c \in Conns : conn[c].readLock # 0
    /\ ~Live => /\ writeLock = None /\ ckptLock = None
                /\ \A c \in Conns : conn[c].pc = "idle" /\ conn[c].hdr = ZeroHdr
    /\ ~shm.open => \A c \in Conns : conn[c].nBackFill = 0

-----------------------------------------------------------------------------
(* Positions in the log *)

\* A reader of the log whose mark has been checked, or a writer that was one.
Pinned(c) == conn[c].pc \in {"read", "write"} \cup FramePcs /\ conn[c].readLock > 0

ShapeInv ==
    /\ wal.hdr = 0 => wal.frames = <<>>
    /\ mx <= Len(wal.frames) /\ nb <= Len(wal.frames)
    /\ nb <= mx \/ ~Live \/ \E c \in Conns : conn[c].pc \in {"restartInfo", "ckInfo"}
    /\ wal.hdr <= nSalt /\ shm.hdr.aSalt <= nSalt
    /\ \A n \in 1..Len(wal.frames) : wal.frames[n].aSalt <= nSalt
    /\ \A c \in Conns : conn[c].hdr.aSalt <= nSalt

\* Readers: marks stand at or before the header, minFrame is not beyond the
\* backfill, and no header of this log is ahead of the shared one.
ReaderInv(c) ==
    LET r == conn[c] IN
    /\ r.pc \in {"lockMark", "check"} => r.mxReadMark <= r.hdr.mxFrame
    /\ r.readLock > 0 => 1 <= r.minFrame /\ r.minFrame <= nb + 1
    /\ Pinned(c) => /\ shm.aReadMark[r.readLock] <= r.hdr.mxFrame
                    /\ shm.aReadMark[r.readLock] <= mx
    /\ Pinned(c) /\ r.pc = "read" => r.hdr.mxFrame <= mx
    /\ ~Writing(c) /\ r.hdr.aSalt = shm.hdr.aSalt => r.hdr.mxFrame <= mx
    /\ r.pc = "read" /\ r.readLock = 0 /\ r.hdr.aSalt = shm.hdr.aSalt /\ r.hdr.mxFrame = mx
          => nb = mx
    /\ r.pc = "read" => r.iReCksum = 0 /\ ~r.pChange

\* Writers: the private header is the shared one, or ahead of it by frames of
\* this transaction; checksums are missing only among those.
WriterInv(c) ==
    LET r == conn[c] IN
    Writing(c) =>
        /\ mx <= r.hdr.mxFrame /\ r.hdr.mxFrame <= Len(wal.frames)
        /\ r.pc \in {"restartLog", "restartInfo", "mark", "lockMark", "check"} => r.hdr = shm.hdr
        /\ r.pc \in {"write", "header"} => r.hdr = shm.hdr \/ mx < r.hdr.mxFrame
        /\ r.readLock = 0 => r.hdr = shm.hdr
        /\ r.pc \in {"write", "restartLog"} /\ r.readLock = 0 => nb = mx
        /\ r.pc = "restartInfo" => mx = 0
        /\ r.pc # "write" => r.iFirst = IF mx < r.hdr.mxFrame THEN mx + 1 ELSE 0
        /\ r.pc \in {"frames", "recksum", "publish"} =>
              wal.hdr # 0 /\ r.hdr.mxFrame <= r.iFrame /\ r.iFrame <= Len(wal.frames)
        /\ r.pc \in {"recksum", "publish"} => mx < r.iFrame
        /\ r.pc = "recksum" => 0 < r.iReCksum /\ r.iReCksum <= r.iFrame
        /\ r.pc = "publish" /\ r.isCommit => r.iReCksum = 0
        /\ r.iReCksum > 0 => /\ mx < r.iReCksum
                             /\ r.iReCksum <= IF r.pc \in {"frames", "recksum", "publish"}
                                              THEN r.iFrame ELSE r.hdr.mxFrame
        /\ r.hdr.aSalt # shm.hdr.aSalt =>
              /\ mx = 0 /\ 0 < r.hdr.aSalt
              /\ \A d \in Conns \ {c} : conn[d].hdr.aSalt # r.hdr.aSalt

\* Checkpoints: what is copied is committed, not yet backfilled, and not beyond
\* the header of any reader whose mark the checkpoint has passed.
CkptInv(c) ==
    LET r == conn[c] IN
    /\ r.pc \in BackfillPcs => /\ r.hdr.aSalt = shm.hdr.aSalt
                               /\ nb < r.hdr.mxFrame /\ r.hdr.mxFrame <= mx
                               /\ r.mxSafeFrame <= r.hdr.mxFrame
    /\ r.pc = "ckMarks" => r.i \in Slots
    /\ r.pc \in {"ckLock0", "ckCopy"} => nb < r.mxSafeFrame
    /\ r.pc \in BackfillPcs =>
          \A d \in Conns : Pinned(d) /\ (r.pc = "ckMarks" => conn[d].readLock < r.i)
                             => r.mxSafeFrame <= conn[d].hdr.mxFrame
    /\ r.pc \in {"ckDone"} \cup BackfillPcs /\ writeLock = c => r.hdr = shm.hdr
    /\ r.pc \in RestartPcs => /\ mx = 0 /\ r.hdr.mxFrame = 0
                              /\ 0 < r.hdr.aSalt /\ r.hdr.aSalt = shm.hdr.aSalt
    /\ r.pc = "ckCopy" => r.todo \subseteq ToCopy(r)

PosInv ==
    /\ ShapeInv
    /\ \A c \in Conns : ReaderInv(c) /\ WriterInv(c) /\ CkptInv(c)

-----------------------------------------------------------------------------
(* The files *)

\* The database file holds what the frames up to n, that the log up to m has no
\* later frame for, say.
Backfilled(n, m) ==
    \A p \in Pages : LET i == FindFrame(p, 1, m)
                     IN  1 <= i /\ i <= n => db[p] = wal.frames[i].val

\* m is where recovery ends, and no commit of this log stands beyond it.
LogEnds(m) ==
    /\ m \in 0..Len(wal.frames)
    /\ \A n \in 1..m : walDecodeFrame(n)
    /\ m > 0 => wal.frames[m].commit
    /\ \A n \in (m + 1)..Len(wal.frames) :
          ~(wal.frames[n].commit /\ wal.frames[n].aSalt = wal.hdr)

Chain(n) == HeaderCksum(wal.hdr) \o [j \in 1..n |-> Digest(wal.frames[j])]

\* The log has been restarted and the file not yet.
Outdated == wal.hdr < shm.hdr.aSalt

FileInv ==
    /\ \A n \in 1..Len(wal.frames) : wal.frames[n].aSalt <= wal.hdr
    /\ Live => Backfilled(nb, mx)
    /\ Live /\ mx > 0 => wal.hdr = shm.hdr.aSalt /\ shm.hdr.aFrameCksum = Chain(mx)
    /\ Live /\ Outdated => \E m \in 0..Len(wal.frames) : LogEnds(m) /\ db = ImageOf(1, m)
    /\ Live /\ ~Outdated /\ Committing = {} => LogEnds(mx)
    /\ ~Live => \E m \in 0..Len(wal.frames) : LogEnds(m) /\ \A n \in Hints : Backfilled(n, m)

\* The frames of a write transaction, of which none but the last commits it.
WriterFileInv(c) ==
    LET r == conn[c]
        n == IF r.pc \in {"frames", "recksum", "publish"} THEN r.iFrame ELSE r.hdr.mxFrame
    IN  Writing(c) =>
        /\ r.pChange => r.hdr.aSalt = shm.hdr.aSalt /\ mx = 0
        /\ r.pChange /\ r.pc \notin {"frames", "recksum", "publish"} => Outdated
        /\ r.pc = "write" => ~r.pChange
        /\ r.pc \in {"frames", "recksum", "publish"} \/ mx < r.hdr.mxFrame =>
              /\ wal.hdr = r.hdr.aSalt /\ shm.hdr.aSalt <= wal.hdr
              /\ r.iReCksum = 0 => r.hdr.aFrameCksum = Chain(n)
              /\ \A j \in 1..(IF r.iReCksum = 0 THEN n ELSE r.iReCksum - 1) : walDecodeFrame(j)
              /\ \A j \in (mx + 1)..n : wal.frames[j].commit =>
                    /\ j = r.iFrame
                    /\ r.pc = "publish" => r.isCommit
                    /\ r.pc \in {"recksum", "publish"}
                    /\ r.pc = "recksum" => wal.frames[j].aSalt = 0
              /\ r.pc = "recksum" \/ (r.pc = "publish" /\ r.isCommit) =>
                    r.isCommit /\ wal.frames[n].commit
              /\ r.pc = "publish" /\ r.isCommit => LogEnds(n)

CkptFileInv(c) ==
    LET r == conn[c] IN
    /\ r.pc = "ckCopy" =>
          \A p \in ToCopy(r) \ r.todo :
             db[p] = wal.frames[FindFrame(p, nb + 1, r.hdr.mxFrame)].val
    /\ r.pc \in {"ckInfo", "ckHeader", "ckTruncate"} => Outdated
    /\ r.pc = "ckPublish" => wal.hdr = shm.hdr.aSalt

-----------------------------------------------------------------------------
(* The page caches *)

\* A cache that ReadHdr would keep is that of the last commit.
CacheInvOf(c) ==
    LET r == conn[c] IN
    /\ InTransaction(c) => cache[c] = View(c)
    /\ Writing(c) => View(c) = Store
    /\ ~InTransaction(c) /\ r.hdr.isInit /\ (r.pc \in CkptPcs => ~r.isChanged)
       /\ r.hdr.aSalt = shm.hdr.aSalt /\ r.hdr.mxFrame = mx => cache[c] \in {None, Store}

DataInv ==
    /\ FileInv
    /\ \A c \in Conns : WriterFileInv(c) /\ CkptFileInv(c) /\ CacheInvOf(c)

\* The inductive invariant: what every step of a reader, a writer, a checkpoint, a
\* recovery, or the death of the process, keeps of the agreements about locks, frame
\* numbers, salts, files and caches on which wal.c rests.
IndInv == TypeInv /\ LockInv /\ PosInv /\ (kept \/ DataInv)
=============================================================================
