----------------------------- MODULE SharedLock -----------------------------
(***************************************************************************)
(* The reader-writer lock of WCDB (Pods/WCDB.swift/src/common/base/        *)
(* Lock.cpp): recursive on both sides, the writer may also read, pending   *)
(* writers queue up and are served in order, before readers.               *)
(*                                                                         *)
(* A step is one critical section of m_lock.  A thread in a call is asleep *)
(* in m_conditionalReaders or m_conditionalWriters, or it was woken and is *)
(* about to test its condition again.  A thread may also wake without a    *)
(* signal, as a condition variable allows.                                 *)
(*                                                                         *)
(* m_readers is the sum of m_threadedReaders and is only compared with 0:  *)
(* Readers stands for it.  m_pendingReaders is a set in place of a count.  *)
(***************************************************************************)
EXTENDS Conditional

CONSTANTS
    MaxDepth,   \* bound: how often a thread takes the lock again
    NoThread    \* m_locking when nobody has the write lock

ASSUME SharedLockAssumption == NoThread \notin Threads /\ MaxDepth \in Nat \ {0}

VARIABLES
    m_threadedReaders,  \* thread -> how often it has the shared lock
    m_writers,          \* how often the owner has the write lock
    m_locking,          \* the owner of the write lock
    m_pendingReaders,   \* threads inside lockShared's wait
    m_pendingWriters,   \* queue of threads inside lock
    asleep              \* those of the pending threads that sleep

lockVars == <<m_threadedReaders, m_writers, m_locking, m_pendingReaders,
              m_pendingWriters, asleep>>

LockInit ==
    /\ m_threadedReaders = [t \in Threads |-> 0]
    /\ m_writers = 0 /\ m_locking = NoThread
    /\ m_pendingReaders = {} /\ m_pendingWriters = <<>>
    /\ asleep = {}

Readers == {t \in Threads : m_threadedReaders[t] > 0}
\* t is between two calls of the lock.
Running(t) == t \notin m_pendingReaders /\ t \notin InQueue(m_pendingWriters)

GetShared(t) == m_threadedReaders' = [m_threadedReaders EXCEPT ![t] = @ + 1]

\* The condition at the head of lockShared.
MustWait(t) ==
    IF m_writers > 0 THEN m_locking # t
    ELSE m_pendingWriters # <<>> /\ m_threadedReaders[t] = 0

lockShared(t) ==
    /\ Running(t) /\ m_threadedReaders[t] < MaxDepth
    /\ IF MustWait(t)
       THEN /\ m_pendingReaders' = m_pendingReaders \cup {t}
            /\ asleep' = asleep \cup {t}
            /\ UNCHANGED m_threadedReaders
       ELSE GetShared(t) /\ UNCHANGED <<m_pendingReaders, asleep>>
    /\ UNCHANGED <<m_writers, m_locking, m_pendingWriters>>

\* The loop of lockShared: it sleeps again unless there is no writer at all.
ReaderWoken(t) ==
    /\ t \in m_pendingReaders /\ t \notin asleep
    /\ IF m_writers > 0 \/ m_pendingWriters # <<>>
       THEN asleep' = asleep \cup {t} /\ UNCHANGED <<m_pendingReaders, m_threadedReaders>>
       ELSE /\ m_pendingReaders' = m_pendingReaders \ {t}
            /\ GetShared(t)
            /\ UNCHANGED asleep
    /\ UNCHANGED <<m_writers, m_locking, m_pendingWriters>>

NotifyWriter == asleep' = notifyFront(asleep, m_pendingWriters)

\* Mutant: the last reader notifies only if nobody waits for the shared lock.
unlockShared_Greedy(t) ==
    /\ Running(t) /\ m_threadedReaders[t] > 0
    /\ m_threadedReaders' = [m_threadedReaders EXCEPT ![t] = @ - 1]
    /\ IF Readers = {t} /\ m_threadedReaders[t] = 1 /\ m_writers = 0
          /\ m_pendingWriters # <<>> /\ m_pendingReaders = {}
       THEN NotifyWriter ELSE UNCHANGED asleep
    /\ UNCHANGED <<m_writers, m_locking, m_pendingReaders, m_pendingWriters>>

\* The last reader to leave notifies the next writer.
unlockShared(t) ==
    /\ Running(t) /\ m_threadedReaders[t] > 0
    /\ m_threadedReaders' = [m_threadedReaders EXCEPT ![t] = @ - 1]
    /\ IF Readers = {t} /\ m_threadedReaders[t] = 1 /\ m_writers = 0
          /\ m_pendingWriters # <<>>
       THEN NotifyWriter ELSE UNCHANGED asleep
    /\ UNCHANGED <<m_writers, m_locking, m_pendingReaders, m_pendingWriters>>

\* The write lock is free for the thread at the front of the queue.
CanLock(t, queue) == Readers = {} /\ m_writers = 0 /\ Head(queue) = t

\* lock refuses a thread that has the shared lock ("Upgrade lock is not supported").
lock(t) ==
    /\ Running(t) /\ m_threadedReaders[t] = 0 /\ m_writers < MaxDepth
    /\ IF m_locking = t
       THEN m_writers' = m_writers + 1 /\ UNCHANGED <<m_locking, m_pendingWriters, asleep>>
       ELSE LET queue == Append(m_pendingWriters, t)
            IN  IF CanLock(t, queue)
                THEN /\ m_writers' = 1 /\ m_locking' = t
                     /\ UNCHANGED <<m_pendingWriters, asleep>>
                ELSE /\ m_pendingWriters' = queue /\ asleep' = asleep \cup {t}
                     /\ UNCHANGED <<m_writers, m_locking>>
    /\ UNCHANGED <<m_threadedReaders, m_pendingReaders>>

\* The loop of lock, and the lock taken when it ends.
WriterWoken(t) ==
    /\ t \in InQueue(m_pendingWriters) /\ t \notin asleep
    /\ IF CanLock(t, m_pendingWriters)
       THEN /\ m_pendingWriters' = Tail(m_pendingWriters)
            /\ m_writers' = 1 /\ m_locking' = t
            /\ UNCHANGED asleep
       ELSE asleep' = asleep \cup {t} /\ UNCHANGED <<m_writers, m_locking, m_pendingWriters>>
    /\ UNCHANGED <<m_threadedReaders, m_pendingReaders>>

\* unlock refuses a thread that still has the shared lock ("Downgrade lock is not
\* supported").  Writers go first; readers are notified when there are none.
unlock(t) ==
    /\ Running(t) /\ m_threadedReaders[t] = 0 /\ m_locking = t
    /\ m_writers' = m_writers - 1
    /\ IF m_writers = 1
       THEN /\ m_locking' = NoThread
            /\ IF m_pendingWriters # <<>> THEN NotifyWriter
               ELSE asleep' = asleep \ m_pendingReaders
       ELSE UNCHANGED <<m_locking, asleep>>
    /\ UNCHANGED <<m_threadedReaders, m_pendingReaders, m_pendingWriters>>

\* A thread wakes without a signal.
SpuriousWakeup(t) ==
    /\ t \in asleep
    /\ asleep' = asleep \ {t}
    /\ UNCHANGED <<m_threadedReaders, m_writers, m_locking, m_pendingReaders, m_pendingWriters>>

LockWakes(t) == ReaderWoken(t) \/ WriterWoken(t)

LockNext == \E t \in Threads :
    lockShared(t) \/ unlockShared(t) \/ lock(t) \/ unlock(t) \/ LockWakes(t) \/ SpuriousWakeup(t)

LockSpec == LockInit /\ [][LockNext]_lockVars

-----------------------------------------------------------------------------
(* Properties *)

LockTypeOK ==
    /\ m_threadedReaders \in [Threads -> 0..MaxDepth]
    /\ m_writers \in 0..MaxDepth
    /\ m_locking \in Threads \cup {NoThread}
    /\ m_pendingReaders \subseteq Threads
    /\ m_pendingWriters \in Seq(Threads)
    /\ asleep \subseteq Threads

\* The write lock has one owner, and nobody else reads while it is held: through
\* recursion, wakeups without a signal and threads that barge in.
Exclusion ==
    /\ m_writers > 0 <=> m_locking # NoThread
    /\ m_locking # NoThread => Readers \subseteq {m_locking}

\* A pending thread has neither lock (so nobody waits for itself), is pending once,
\* and only pending threads sleep.
PendingInv ==
    /\ \A t \in m_pendingReaders \cup InQueue(m_pendingWriters) : t \notin Readers /\ t # m_locking
    /\ m_pendingReaders \cap InQueue(m_pendingWriters) = {}
    /\ Distinct(m_pendingWriters)
    /\ asleep \subseteq m_pendingReaders \cup InQueue(m_pendingWriters)

\* No wakeup is lost: the writer whose turn it is sleeps only while the lock is
\* held, and readers sleep only while a writer has the lock or waits for it.
NoLostWakeup ==
    /\ m_pendingWriters # <<>> /\ Head(m_pendingWriters) \in asleep
          => Readers # {} \/ m_writers > 0
    /\ m_pendingReaders \cap asleep # {} => m_writers > 0 \/ m_pendingWriters # <<>>

\* The inductive invariant.
LockInv == Exclusion /\ PendingInv /\ NoLostWakeup
=============================================================================
