---------------------- MODULE LockAndCounterProofs ----------------------
(* The invariants of SharedLock and HandleCounter, for any finite set of   *)
(* threads and any limits.                                                 *)
EXTENDS SharedLock, HandleCounter, FiniteSetTheorems, TLAPS

-----------------------------------------------------------------------------
(* The queues of waiting threads, which both have.                         *)

\* A queue is empty exactly when no thread is in it, and its front is in it.
LEMMA FrontOfQueue ==
    ASSUME NEW q \in Seq(Threads)
    PROVE  /\ q = <<>> <=> InQueue(q) = {}
           /\ q # <<>> => Head(q) \in InQueue(q)
           /\ InQueue(q) \subseteq Threads
<1>1. q = <<>> => InQueue(q) = {}
  BY DEF InQueue
<1>2. q # <<>> => Len(q) \in Nat /\ Len(q) >= 1 /\ Head(q) = q[1]
  OBVIOUS
<1>3. q # <<>> => Head(q) \in InQueue(q)
  BY <1>2 DEF InQueue
<1>4. \A i \in 1..Len(q) : q[i] \in Threads
  OBVIOUS
<1> QED BY <1>1, <1>3, <1>4 DEF InQueue

\* emplace: the queue has one thread more, its front stays if it had one.
LEMMA Emplace ==
    ASSUME NEW q \in Seq(Threads), NEW t \in Threads, t \notin InQueue(q), Distinct(q)
    PROVE  /\ Append(q, t) \in Seq(Threads) /\ Append(q, t) # <<>>
           /\ InQueue(Append(q, t)) = InQueue(q) \cup {t}
           /\ Distinct(Append(q, t))
           /\ Head(Append(q, t)) = IF q = <<>> THEN t ELSE Head(q)
<1> DEFINE r == Append(q, t)
<1>1. /\ r \in Seq(Threads) /\ Len(r) = Len(q) + 1 /\ Len(q) \in Nat
      /\ \A i \in 1..Len(q) : r[i] = q[i]
      /\ r[Len(q) + 1] = t
  OBVIOUS
<1>2. InQueue(r) \subseteq InQueue(q) \cup {t}
  <2> SUFFICES ASSUME NEW i \in 1..Len(r) PROVE r[i] \in InQueue(q) \cup {t}
    BY DEF InQueue
  <2>1. i \in 1..Len(q) \/ i = Len(q) + 1
    BY <1>1
  <2> QED BY <1>1, <2>1 DEF InQueue
<1>3. InQueue(q) \cup {t} \subseteq InQueue(r)
  <2>1. \A i \in 1..Len(q) : i \in 1..Len(r)
    BY <1>1
  <2>2. Len(q) + 1 \in 1..Len(r)
    BY <1>1
  <2>3. \A x \in InQueue(q) : x \in InQueue(r)
    BY <1>1, <2>1 DEF InQueue
  <2>4. t \in InQueue(r)
    BY <1>1, <2>2 DEF InQueue
  <2> QED BY <2>3, <2>4
<1>4. Distinct(r)
  <2> SUFFICES ASSUME NEW i \in 1..Len(r), NEW j \in 1..Len(r), r[i] = r[j]
               PROVE  i = j
    BY DEF Distinct
  <2>1. /\ i \in 1..Len(q) \/ i = Len(q) + 1
        /\ j \in 1..Len(q) \/ j = Len(q) + 1
    BY <1>1
  <2>2. \A k \in 1..Len(q) : r[k] # t
    BY <1>1 DEF InQueue
  <2>3. CASE i \in 1..Len(q) /\ j \in 1..Len(q)
    BY <1>1, <2>3 DEF Distinct
  <2> QED BY <1>1, <2>1, <2>2, <2>3
<1>5. Head(r) = r[1] /\ r # <<>>
  BY <1>1
<1>6. CASE q = <<>>
  BY <1>1, <1>2, <1>3, <1>4, <1>5, <1>6
<1>7. CASE q # <<>>
  <2>1. 1 \in 1..Len(q) /\ Head(q) = q[1]
    BY <1>7
  <2> QED BY <1>1, <1>2, <1>3, <1>4, <1>5, <1>7, <2>1
<1> QED BY <1>6, <1>7

\* pop: the front leaves and the others stay.
LEMMA Pop ==
    ASSUME NEW q \in Seq(Threads), q # <<>>, Distinct(q)
    PROVE  /\ Tail(q) \in Seq(Threads)
           /\ InQueue(Tail(q)) = InQueue(q) \ {Head(q)}
           /\ Distinct(Tail(q))
<1> DEFINE r == Tail(q)
<1>1. /\ r \in Seq(Threads) /\ Len(q) \in Nat /\ Len(q) >= 1 /\ Len(r) = Len(q) - 1
      /\ \A i \in 1..Len(r) : r[i] = q[i + 1]
      /\ Head(q) = q[1]
  OBVIOUS
<1>2. \A i \in 1..Len(r) : i + 1 \in 1..Len(q) /\ i + 1 # 1
  BY <1>1
<1>3. InQueue(r) \subseteq InQueue(q) \ {Head(q)}
  <2> SUFFICES ASSUME NEW i \in 1..Len(r) PROVE r[i] \in InQueue(q) \ {Head(q)}
    BY DEF InQueue
  <2>1. r[i] = q[i + 1] /\ i + 1 \in 1..Len(q) /\ i + 1 # 1 /\ 1 \in 1..Len(q)
    BY <1>1, <1>2
  <2> QED BY <1>1, <2>1 DEF InQueue, Distinct
<1>4. InQueue(q) \ {Head(q)} \subseteq InQueue(r)
  <2> SUFFICES ASSUME NEW i \in 1..Len(q), q[i] # Head(q) PROVE q[i] \in InQueue(r)
    BY DEF InQueue
  <2>1. i # 1
    BY <1>1
  <2>2. i - 1 \in 1..Len(r) /\ (i - 1) + 1 = i
    BY <1>1, <2>1
  <2>3. r[i - 1] = q[i]
    BY <1>1, <2>2
  <2> QED BY <2>2, <2>3 DEF InQueue
<1>5. Distinct(r)
  <2> SUFFICES ASSUME NEW i \in 1..Len(r), NEW j \in 1..Len(r), r[i] = r[j]
               PROVE  i = j
    BY DEF Distinct
  <2>1. i + 1 = j + 1
    BY <1>1, <1>2 DEF Distinct
  <2> QED BY <2>1, <1>1
<1> QED BY <1>1, <1>3, <1>4, <1>5

-----------------------------------------------------------------------------
(* The lock.                                                               *)

IInv == LockTypeOK /\ LockInv

LEMMA InitialLock == LockInit => IInv
<1> SUFFICES ASSUME LockInit PROVE IInv
  OBVIOUS
<1>1. LockTypeOK
  BY SharedLockAssumption DEF LockInit, LockTypeOK
<1>2. InQueue(m_pendingWriters) = {}
  BY DEF LockInit, InQueue
<1>3. Distinct(m_pendingWriters)
  BY DEF LockInit, Distinct
<1>4. Readers = {}
  BY DEF LockInit, Readers
<1> QED BY <1>1, <1>2, <1>3, <1>4 DEF IInv, LockInv, LockInit, Exclusion, PendingInv, NoLostWakeup

\* What the invariant says of the queue of writers.
LEMMA WriterQueue ==
    ASSUME IInv
    PROVE  /\ m_pendingWriters \in Seq(Threads) /\ Distinct(m_pendingWriters)
           /\ m_pendingWriters = <<>> <=> InQueue(m_pendingWriters) = {}
           /\ m_pendingWriters # <<>> => Head(m_pendingWriters) \in InQueue(m_pendingWriters)
           /\ InQueue(m_pendingWriters) \subseteq Threads
           /\ \A t \in Threads : t \notin Readers => m_threadedReaders[t] = 0
BY FrontOfQueue DEF IInv, LockInv, PendingInv, LockTypeOK, Readers

\* Readers after a thread takes the shared lock once more.
LEMMA MoreReaders ==
    ASSUME IInv, NEW t \in Threads, GetShared(t)
    PROVE  Readers' = Readers \cup {t}
BY DEF IInv, LockTypeOK, GetShared, Readers

LEMMA LockSharedStep ==
    ASSUME IInv, NEW t \in Threads, lockShared(t)
    PROVE  IInv'
<1> USE SharedLockAssumption
<1>q. /\ m_pendingWriters' = m_pendingWriters
      /\ InQueue(m_pendingWriters)' = InQueue(m_pendingWriters)
      /\ Distinct(m_pendingWriters)'
  BY WriterQueue DEF lockShared
<1>1. CASE MustWait(t)
  <2>1. /\ m_pendingReaders' = m_pendingReaders \cup {t}
        /\ asleep' = asleep \cup {t}
        /\ UNCHANGED <<m_threadedReaders, m_writers, m_locking>>
        /\ t \notin InQueue(m_pendingWriters) /\ t \notin m_pendingReaders
    BY <1>1 DEF lockShared, Running
  <2>2. LockTypeOK'
    BY <1>q, <2>1 DEF IInv, LockTypeOK
  <2>3. Readers' = Readers
    BY <2>1 DEF Readers
  <2>4. Exclusion'
    BY <2>1, <2>3 DEF IInv, LockInv, Exclusion
  <2>5. (m_writers > 0 \/ m_pendingWriters # <<>>) /\ t # m_locking /\ t \notin Readers
    BY <1>1, WriterQueue DEF MustWait, IInv, LockInv, Exclusion, LockTypeOK, Readers
  <2>6. PendingInv'
    BY <1>q, <2>1, <2>3, <2>5 DEF IInv, LockInv, PendingInv
  <2>7. NoLostWakeup'
    BY <1>q, <2>1, <2>3, <2>5, WriterQueue DEF IInv, LockInv, NoLostWakeup
  <2> QED BY <2>2, <2>4, <2>6, <2>7 DEF IInv, LockInv
<1>2. CASE ~MustWait(t)
  <2>1. /\ GetShared(t) /\ Readers' = Readers \cup {t}
        /\ UNCHANGED <<m_pendingReaders, asleep, m_writers, m_locking>>
        /\ t \notin InQueue(m_pendingWriters) /\ t \notin m_pendingReaders
    BY <1>2, MoreReaders DEF lockShared, Running
  <2>2. LockTypeOK'
    BY <1>q, <2>1 DEF IInv, LockTypeOK, GetShared, lockShared
  <2>3. Exclusion'
    BY <1>2, <2>1 DEF IInv, LockInv, Exclusion, MustWait, LockTypeOK
  <2>4. PendingInv'
    BY <1>q, <2>1 DEF IInv, LockInv, PendingInv
  <2>5. NoLostWakeup'
    BY <1>q, <2>1 DEF IInv, LockInv, NoLostWakeup
  <2> QED BY <2>2, <2>3, <2>4, <2>5 DEF IInv, LockInv
<1> QED BY <1>1, <1>2

LEMMA ReaderWokenStep ==
    ASSUME IInv, NEW t \in Threads, ReaderWoken(t)
    PROVE  IInv'
<1> USE SharedLockAssumption
<1>q. /\ m_pendingWriters' = m_pendingWriters
      /\ InQueue(m_pendingWriters)' = InQueue(m_pendingWriters)
      /\ Distinct(m_pendingWriters)'
      /\ UNCHANGED <<m_writers, m_locking>>
      /\ t \in m_pendingReaders /\ t \notin asleep
      /\ t \notin Readers /\ t # m_locking /\ t \notin InQueue(m_pendingWriters)
  BY WriterQueue DEF ReaderWoken, IInv, LockInv, PendingInv
<1>1. CASE m_writers > 0 \/ m_pendingWriters # <<>>
  <2>1. asleep' = asleep \cup {t} /\ UNCHANGED <<m_pendingReaders, m_threadedReaders>>
    BY <1>1 DEF ReaderWoken
  <2>2. Readers' = Readers
    BY <2>1 DEF Readers
  <2>3. LockTypeOK'
    BY <1>q, <2>1 DEF IInv, LockTypeOK
  <2>4. Exclusion' /\ PendingInv'
    BY <1>q, <2>1, <2>2 DEF IInv, LockInv, Exclusion, PendingInv
  <2>5. NoLostWakeup'
    BY <1>1, <1>q, <2>1, <2>2, WriterQueue DEF IInv, LockInv, NoLostWakeup
  <2> QED BY <2>3, <2>4, <2>5 DEF IInv, LockInv
<1>2. CASE ~(m_writers > 0 \/ m_pendingWriters # <<>>)
  <2>1. /\ m_pendingReaders' = m_pendingReaders \ {t}
        /\ GetShared(t) /\ Readers' = Readers \cup {t}
        /\ UNCHANGED asleep
    BY <1>2, MoreReaders DEF ReaderWoken
  <2>2. m_threadedReaders[t] = 0
    BY <1>q, WriterQueue
  <2>3. LockTypeOK'
    BY <1>q, <2>1, <2>2 DEF IInv, LockTypeOK, GetShared
  <2>4. Exclusion'
    BY <1>2, <1>q, <2>1 DEF IInv, LockInv, Exclusion, LockTypeOK
  <2>5. PendingInv'
    BY <1>q, <2>1 DEF IInv, LockInv, PendingInv
  <2>6. NoLostWakeup'
    BY <1>q, <2>1 DEF IInv, LockInv, NoLostWakeup
  <2> QED BY <2>3, <2>4, <2>5, <2>6 DEF IInv, LockInv
<1> QED BY <1>1, <1>2

LEMMA UnlockSharedStep ==
    ASSUME IInv, NEW t \in Threads, unlockShared(t)
    PROVE  IInv'
<1> USE SharedLockAssumption
<1>q. /\ m_pendingWriters' = m_pendingWriters
      /\ InQueue(m_pendingWriters)' = InQueue(m_pendingWriters)
      /\ Distinct(m_pendingWriters)'
      /\ UNCHANGED <<m_writers, m_locking, m_pendingReaders>>
      /\ m_threadedReaders' = [m_threadedReaders EXCEPT ![t] = @ - 1]
      /\ t \in Readers
  BY WriterQueue DEF unlockShared, Readers
<1>1. asleep' \subseteq asleep
  BY DEF unlockShared, NotifyWriter, notifyFront
<1>2. Readers' = IF m_threadedReaders[t] = 1 THEN Readers \ {t} ELSE Readers
  BY <1>q DEF IInv, LockTypeOK, Readers
<1>3. LockTypeOK'
  BY <1>q, <1>1 DEF IInv, LockTypeOK, Readers
<1>4. Readers' \subseteq Readers
  BY <1>2
<1>5. Exclusion' /\ PendingInv'
  BY <1>q, <1>1, <1>4 DEF IInv, LockInv, Exclusion, PendingInv
<1>6. ASSUME m_pendingWriters # <<>>, Head(m_pendingWriters) \in asleep', Readers' = {}, m_writers = 0
      PROVE  FALSE
  <2>1. Readers = {t} /\ m_threadedReaders[t] = 1
    BY <1>2, <1>6, <1>q
  <2>2. asleep' = asleep \ {Head(m_pendingWriters)}
    BY <2>1, <1>6 DEF unlockShared, NotifyWriter, notifyFront
  <2> QED BY <2>2, <1>6
<1>7. NoLostWakeup'
  BY <1>q, <1>1, <1>6 DEF IInv, LockInv, NoLostWakeup, LockTypeOK
<1> QED BY <1>3, <1>5, <1>7 DEF IInv, LockInv

LEMMA LockStep ==
    ASSUME IInv, NEW t \in Threads, lock(t)
    PROVE  IInv'
<1> USE SharedLockAssumption
<1>q. /\ UNCHANGED <<m_threadedReaders, m_pendingReaders>>
      /\ Readers' = Readers /\ t \notin Readers
      /\ t \notin m_pendingReaders /\ t \notin InQueue(m_pendingWriters)
  BY DEF lock, Running, Readers
<1>1. CASE m_locking = t
  <2>1. /\ m_writers' = m_writers + 1
        /\ UNCHANGED <<m_locking, m_pendingWriters, asleep>>
        /\ InQueue(m_pendingWriters)' = InQueue(m_pendingWriters)
        /\ Distinct(m_pendingWriters)'
    BY <1>1, WriterQueue DEF lock
  <2>2. LockTypeOK' /\ m_writers' > 0
    BY <1>q, <2>1 DEF IInv, LockTypeOK, lock
  <2>3. Exclusion' /\ PendingInv' /\ NoLostWakeup'
    BY <1>1, <1>q, <2>1, <2>2 DEF IInv, LockInv, Exclusion, PendingInv, NoLostWakeup
  <2> QED BY <2>2, <2>3 DEF IInv, LockInv
<1>2. CASE m_locking # t /\ CanLock(t, Append(m_pendingWriters, t))
  <2>1. /\ m_writers' = 1 /\ m_locking' = t
        /\ UNCHANGED <<m_pendingWriters, asleep>>
        /\ InQueue(m_pendingWriters)' = InQueue(m_pendingWriters)
        /\ Distinct(m_pendingWriters)'
    BY <1>2, WriterQueue DEF lock
  <2>2. Readers = {}
    BY <1>2 DEF CanLock
  <2>3. LockTypeOK'
    BY <1>q, <2>1 DEF IInv, LockTypeOK
  <2>4. Exclusion' /\ PendingInv' /\ NoLostWakeup'
    BY <1>q, <2>1, <2>2 DEF IInv, LockInv, Exclusion, PendingInv, NoLostWakeup
  <2> QED BY <2>3, <2>4 DEF IInv, LockInv
<1>3. CASE m_locking # t /\ ~CanLock(t, Append(m_pendingWriters, t))
  <2>1. /\ m_pendingWriters' = Append(m_pendingWriters, t) /\ asleep' = asleep \cup {t}
        /\ UNCHANGED <<m_writers, m_locking>>
    BY <1>3 DEF lock
  <2>2. /\ m_pendingWriters' \in Seq(Threads) /\ m_pendingWriters' # <<>>
        /\ InQueue(m_pendingWriters)' = InQueue(m_pendingWriters) \cup {t}
        /\ Distinct(m_pendingWriters)'
        /\ Head(m_pendingWriters') = IF m_pendingWriters = <<>> THEN t
                                     ELSE Head(m_pendingWriters)
    BY <1>q, <2>1, WriterQueue, Emplace
  <2>3. LockTypeOK'
    BY <1>q, <2>1, <2>2 DEF IInv, LockTypeOK
  <2>4. Exclusion' /\ PendingInv'
    BY <1>3, <1>q, <2>1, <2>2 DEF IInv, LockInv, Exclusion, PendingInv
  <2>5. m_pendingWriters = <<>> => Readers # {} \/ m_writers > 0
    BY <1>3, <2>1, <2>2 DEF CanLock, IInv, LockTypeOK
  <2>6. m_pendingWriters # <<>> => t # Head(m_pendingWriters)
    BY <1>q, WriterQueue
  <2>7. NoLostWakeup'
    BY <1>q, <2>1, <2>2, <2>5, <2>6 DEF IInv, LockInv, NoLostWakeup
  <2> QED BY <2>3, <2>4, <2>7 DEF IInv, LockInv
<1> QED BY <1>1, <1>2, <1>3

LEMMA WriterWokenStep ==
    ASSUME IInv, NEW t \in Threads, WriterWoken(t)
    PROVE  IInv'
<1> USE SharedLockAssumption
<1>q. /\ UNCHANGED <<m_threadedReaders, m_pendingReaders>>
      /\ Readers' = Readers /\ t \notin Readers /\ t # m_locking
      /\ t \in InQueue(m_pendingWriters) /\ t \notin asleep /\ t \notin m_pendingReaders
      /\ m_pendingWriters # <<>>
  BY WriterQueue DEF WriterWoken, Readers, IInv, LockInv, PendingInv
<1>1. CASE CanLock(t, m_pendingWriters)
  <2>1. /\ m_pendingWriters' = Tail(m_pendingWriters)
        /\ m_writers' = 1 /\ m_locking' = t
        /\ UNCHANGED asleep
        /\ Readers = {} /\ Head(m_pendingWriters) = t
    BY <1>1 DEF WriterWoken, CanLock
  <2>2. /\ m_pendingWriters' \in Seq(Threads)
        /\ InQueue(m_pendingWriters)' = InQueue(m_pendingWriters) \ {t}
        /\ Distinct(m_pendingWriters)'
    BY <1>q, <2>1, WriterQueue, Pop
  <2>3. LockTypeOK'
    BY <1>q, <2>1, <2>2 DEF IInv, LockTypeOK
  <2>4. Exclusion' /\ PendingInv' /\ NoLostWakeup'
    BY <1>q, <2>1, <2>2 DEF IInv, LockInv, Exclusion, PendingInv, NoLostWakeup
  <2> QED BY <2>3, <2>4 DEF IInv, LockInv
<1>2. CASE ~CanLock(t, m_pendingWriters)
  <2>1. /\ asleep' = asleep \cup {t}
        /\ UNCHANGED <<m_writers, m_locking, m_pendingWriters>>
        /\ InQueue(m_pendingWriters)' = InQueue(m_pendingWriters)
        /\ Distinct(m_pendingWriters)'
    BY <1>2, WriterQueue DEF WriterWoken
  <2>2. LockTypeOK'
    BY <1>q, <2>1 DEF IInv, LockTypeOK
  <2>3. Exclusion' /\ PendingInv'
    BY <1>q, <2>1 DEF IInv, LockInv, Exclusion, PendingInv
  <2>4. Head(m_pendingWriters) = t => Readers # {} \/ m_writers > 0
    BY <1>2 DEF CanLock, IInv, LockTypeOK
  <2>5. NoLostWakeup'
    BY <1>q, <2>1, <2>4 DEF IInv, LockInv, NoLostWakeup
  <2> QED BY <2>2, <2>3, <2>5 DEF IInv, LockInv
<1> QED BY <1>1, <1>2

LEMMA UnlockStep ==
    ASSUME IInv, NEW t \in Threads, unlock(t)
    PROVE  IInv'
<1> USE SharedLockAssumption
<1>q. /\ UNCHANGED <<m_threadedReaders, m_pendingReaders, m_pendingWriters>>
      /\ InQueue(m_pendingWriters)' = InQueue(m_pendingWriters)
      /\ Distinct(m_pendingWriters)'
      /\ Readers' = Readers /\ t \notin Readers
      /\ m_locking = t /\ m_writers' = m_writers - 1 /\ m_writers > 0
      /\ t # NoThread
  BY WriterQueue DEF unlock, Readers, IInv, LockInv, Exclusion
<1>1. asleep' \subseteq asleep
  BY DEF unlock, NotifyWriter, notifyFront
<1>2. LockTypeOK'
  BY <1>q, <1>1 DEF IInv, LockTypeOK, unlock
<1>3. m_writers = 1 => m_writers' = 0 /\ m_locking' = NoThread
  BY <1>q DEF unlock
<1>4. m_writers # 1 => m_writers' > 0 /\ m_locking' = t
  BY <1>q DEF unlock, IInv, LockTypeOK
<1>5. Exclusion'
  BY <1>q, <1>3, <1>4 DEF IInv, LockInv, Exclusion
<1>6. PendingInv'
  BY <1>q, <1>1, <1>3, <1>4, WriterQueue DEF IInv, LockInv, PendingInv, LockTypeOK
<1>7. m_writers = 1 => asleep' = IF m_pendingWriters # <<>> THEN asleep \ {Head(m_pendingWriters)}
                                 ELSE asleep \ m_pendingReaders
  BY DEF unlock, NotifyWriter, notifyFront
<1>8. NoLostWakeup'
  <2>1. CASE m_writers = 1
    BY <1>q, <1>7, <2>1 DEF NoLostWakeup
  <2>2. CASE m_writers # 1
    BY <1>4, <2>2 DEF NoLostWakeup
  <2> QED BY <2>1, <2>2
<1> QED BY <1>2, <1>5, <1>6, <1>8 DEF IInv, LockInv

LEMMA SpuriousStep ==
    ASSUME IInv, NEW t \in Threads, SpuriousWakeup(t)
    PROVE  IInv'
<1>1. /\ asleep' \subseteq asleep /\ Readers' = Readers
      /\ UNCHANGED <<m_threadedReaders, m_writers, m_locking, m_pendingReaders, m_pendingWriters>>
      /\ InQueue(m_pendingWriters)' = InQueue(m_pendingWriters)
      /\ Distinct(m_pendingWriters)'
  BY WriterQueue DEF SpuriousWakeup, Readers
<1>2. LockTypeOK'
  BY <1>1 DEF IInv, LockTypeOK
<1>3. Exclusion' /\ PendingInv' /\ NoLostWakeup'
  BY <1>1 DEF IInv, LockInv, Exclusion, PendingInv, NoLostWakeup
<1> QED BY <1>2, <1>3 DEF IInv, LockInv

LEMMA LockNextStep == IInv /\ [LockNext]_lockVars => IInv'
<1> SUFFICES ASSUME IInv, [LockNext]_lockVars PROVE IInv'
  OBVIOUS
<1>1. CASE UNCHANGED lockVars
  <2>1. /\ UNCHANGED <<m_threadedReaders, m_writers, m_locking, m_pendingReaders,
                       m_pendingWriters, asleep>>
        /\ Readers' = Readers
        /\ InQueue(m_pendingWriters)' = InQueue(m_pendingWriters)
        /\ Distinct(m_pendingWriters)'
    BY <1>1, WriterQueue DEF lockVars, Readers
  <2> QED BY <2>1 DEF IInv, LockTypeOK, LockInv, Exclusion, PendingInv, NoLostWakeup
<1>2. ASSUME NEW t \in Threads,
             \/ lockShared(t) \/ unlockShared(t) \/ lock(t) \/ unlock(t)
             \/ LockWakes(t) \/ SpuriousWakeup(t)
      PROVE  IInv'
  BY <1>2, LockSharedStep, UnlockSharedStep, LockStep, UnlockStep, ReaderWokenStep,
     WriterWokenStep, SpuriousStep DEF LockWakes
<1> QED BY <1>1, <1>2 DEF LockNext

\* SharedLock (Lock.cpp) keeps its type invariant.
THEOREM LockTypeCorrect == LockSpec => []LockTypeOK
<1>1. IInv => LockTypeOK
  BY DEF IInv
<1> QED BY <1>1, InitialLock, LockNextStep, PTL DEF LockSpec

\* Exclusion, and no wakeup lost, for any threads and any depth of recursion: a
\* pending thread sleeps only while somebody is there who will wake it.
THEOREM LockInvariant == LockSpec => []LockInv
<1>1. IInv => LockInv
  BY DEF IInv
<1> QED BY <1>1, InitialLock, LockNextStep, PTL DEF LockSpec

-----------------------------------------------------------------------------
(* The counter.                                                            *)

CounterInv == LimitInv /\ CountInv /\ QueueInv /\ NobodyStranded
CInv == CounterTypeOK /\ CounterInv

Hinted == {t \in Counted : writeHint[t]}

LEMMA CountedFinite ==
    ASSUME CounterTypeOK
    PROVE  /\ Counted \subseteq Threads /\ IsFiniteSet(Counted)
           /\ Hinted \subseteq Threads /\ IsFiniteSet(Hinted)
<1>1. Counted \subseteq Threads /\ Hinted \subseteq Threads
  BY DEF Counted, Hinted
<1> QED BY <1>1, FS_Subset, HandleCounterAssumption

\* A full counter has somebody in it, and a full writer count a writer.
LEMMA FullIsSomebody ==
    ASSUME CInv
    PROVE  /\ Full => Counted # {}
           /\ \A hint : NoWriter(hint) => Hinted # {}
<1>1. m_totalCount = Cardinality(Counted) /\ m_writerCount = Cardinality(Hinted)
  BY DEF CInv, CounterInv, CountInv, Hinted
<1>2. Cardinality({}) = 0
  BY FS_EmptySet
<1>3. Counted = {} => m_totalCount = 0
  BY <1>1, <1>2
<1>4. Hinted = {} => m_writerCount = 0
  BY <1>1, <1>2
<1> QED BY <1>3, <1>4, HandleCounterAssumption DEF Full, NoWriter

LEMMA InitialCounter == CounterInit => CInv
<1> SUFFICES ASSUME CounterInit PROVE CInv
  OBVIOUS
<1>1. CounterTypeOK
  BY DEF CounterInit, CounterTypeOK
<1>2. Counted = {} /\ {t \in Counted : writeHint[t]} = {} /\ Cardinality({}) = 0
  BY FS_EmptySet DEF CounterInit, Counted
<1>3. /\ InQueue(m_pendingNormals) = {} /\ InQueue(m_pendingHints) = {}
      /\ Distinct(m_pendingNormals) /\ Distinct(m_pendingHints)
  BY DEF CounterInit, InQueue, Distinct
<1>4. LimitInv /\ CountInv
  BY <1>2, HandleCounterAssumption DEF CounterInit, LimitInv, CountInv
<1>5. QueueInv
  BY <1>3 DEF CounterInit, QueueInv
<1>6. NobodyStranded
  BY DEF CounterInit, NobodyStranded
<1> QED BY <1>1, <1>4, <1>5, <1>6 DEF CInv, CounterInv

\* A queue without t: the threads that wait there, all asleep but perhaps its front.
Others(q, where, t) ==
    /\ q \in Seq(Threads) /\ Distinct(q)
    /\ InQueue(q) = {u \in Threads \ {t} : place[u] = where}
    /\ \A u \in InQueue(q) : u \in blocked \/ u = Head(q)

\* t goes to the back of its queue, or stays out of it.
LEMMA JoinQueue ==
    ASSUME CounterTypeOK, NEW t \in Threads, NEW q, NEW where, NEW to, NEW r,
           Others(q, where, t), r = IF to = where THEN Append(q, t) ELSE q,
           place' = [place EXCEPT ![t] = to],
           blocked \subseteq blocked', to = where => t \in blocked'
    PROVE  /\ r \in Seq(Threads) /\ Distinct(r)
           /\ InQueue(r) = {u \in Threads : place'[u] = where}
           /\ \A u \in InQueue(r) : u \in blocked' \/ u = Head(r)
           /\ q # <<>> => r # <<>> /\ Head(r) = Head(q)
<1>0. place'[t] = to /\ \A u \in Threads \ {t} : place'[u] = place[u]
  BY DEF CounterTypeOK
<1>1. CASE to = where
  <2>1. t \notin InQueue(q)
    BY DEF Others
  <2>2. /\ Append(q, t) \in Seq(Threads) /\ Append(q, t) # <<>>
        /\ InQueue(Append(q, t)) = InQueue(q) \cup {t}
        /\ Distinct(Append(q, t))
        /\ Head(Append(q, t)) = IF q = <<>> THEN t ELSE Head(q)
    BY <2>1, Emplace DEF Others
  <2>3. InQueue(Append(q, t)) = {u \in Threads : place'[u] = where}
    BY <1>0, <1>1, <2>2 DEF Others
  <2>4. \A u \in InQueue(q) : q # <<>>
    BY FrontOfQueue DEF Others
  <2>5. \A u \in InQueue(Append(q, t)) : u \in blocked' \/ u = Head(Append(q, t))
    BY <1>1, <2>2, <2>4 DEF Others
  <2> QED BY <1>1, <2>2, <2>3, <2>5
<1>2. CASE to # where
  <2>1. InQueue(q) = {u \in Threads : place'[u] = where}
    BY <1>0, <1>2 DEF Others
  <2> QED BY <1>2, <2>1 DEF Others
<1> QED BY <1>1, <1>2

\* Both queues after GoTo.
LEMMA GoToQueues ==
    ASSUME CounterTypeOK, NEW t \in Threads, NEW to, NEW hint, NEW normals, NEW writers,
           GoTo(t, to, hint, normals, writers), to \in {"normals", "writers", "counted"},
           Others(normals, "normals", t), Others(writers, "writers", t)
    PROVE  /\ m_pendingNormals' \in Seq(Threads) /\ Distinct(m_pendingNormals)'
           /\ InQueue(m_pendingNormals)' = {u \in Threads : place'[u] = "normals"}
           /\ \A u \in InQueue(m_pendingNormals)' : u \in blocked' \/ u = Head(m_pendingNormals)'
           /\ m_pendingHints' \in Seq(Threads) /\ Distinct(m_pendingHints)'
           /\ InQueue(m_pendingHints)' = {u \in Threads : place'[u] = "writers"}
           /\ \A u \in InQueue(m_pendingHints)' : u \in blocked' \/ u = Head(m_pendingHints)'
           /\ writers # <<>> => m_pendingHints' # <<>> /\ Head(m_pendingHints)' = Head(writers)
<1>0. /\ place' = [place EXCEPT ![t] = to]
      /\ blocked' = IF to = "counted" THEN blocked ELSE blocked \cup {t}
  BY DEF GoTo
<1>2. /\ m_pendingNormals' \in Seq(Threads) /\ Distinct(m_pendingNormals)'
      /\ InQueue(m_pendingNormals)' = {u \in Threads : place'[u] = "normals"}
      /\ \A u \in InQueue(m_pendingNormals)' : u \in blocked' \/ u = Head(m_pendingNormals)'
  <2> DEFINE r == IF to = "normals" THEN Append(normals, t) ELSE normals
  <2>0. r = (IF to = "normals" THEN Append(normals, t) ELSE normals) /\ m_pendingNormals' = r
    BY DEF GoTo
  <2> HIDE DEF r
  <2>1. blocked \subseteq blocked' /\ (to = "normals" => t \in blocked')
    BY <1>0
  <2>2. /\ r \in Seq(Threads) /\ Distinct(r)
        /\ InQueue(r) = {u \in Threads : place'[u] = "normals"}
        /\ \A u \in InQueue(r) : u \in blocked' \/ u = Head(r)
        /\ normals # <<>> => r # <<>> /\ Head(r) = Head(normals)
    BY <1>0, <2>0, <2>1, JoinQueue
  <2> QED BY <2>0, <2>2
<1>3. /\ m_pendingHints' \in Seq(Threads) /\ Distinct(m_pendingHints)'
      /\ InQueue(m_pendingHints)' = {u \in Threads : place'[u] = "writers"}
      /\ \A u \in InQueue(m_pendingHints)' : u \in blocked' \/ u = Head(m_pendingHints)'
      /\ writers # <<>> => m_pendingHints' # <<>> /\ Head(m_pendingHints)' = Head(writers)
  <2> DEFINE r == IF to = "writers" THEN Append(writers, t) ELSE writers
  <2>0. r = (IF to = "writers" THEN Append(writers, t) ELSE writers) /\ m_pendingHints' = r
    BY DEF GoTo
  <2> HIDE DEF r
  <2>1. blocked \subseteq blocked' /\ (to = "writers" => t \in blocked')
    BY <1>0
  <2>2. /\ r \in Seq(Threads) /\ Distinct(r)
        /\ InQueue(r) = {u \in Threads : place'[u] = "writers"}
        /\ \A u \in InQueue(r) : u \in blocked' \/ u = Head(r)
        /\ writers # <<>> => r # <<>> /\ Head(r) = Head(writers)
    BY <1>0, <2>0, <2>1, JoinQueue
  <2> QED BY <2>0, <2>2
<1> QED BY <1>2, <1>3

\* Wherever the loops of tryIncreaseHandleCount take a thread, the invariants hold.
LEMMA GoToStep ==
    ASSUME CounterTypeOK, LimitInv, CountInv, NEW t \in Threads, NEW to, NEW hint \in BOOLEAN,
           NEW normals, NEW writers,
           GoTo(t, to, hint, normals, writers),
           Others(normals, "normals", t), Others(writers, "writers", t),
           place[t] # "counted", t \notin blocked,
           \A u \in blocked : place[u] \in {"normals", "writers"},
           \A u \in Threads \ {t} : place[u] = "writers" => writeHint[u],
           \/ to = "normals" /\ Full /\ Counted # {}
           \/ to = "writers" /\ NoWriter(hint) /\ Hinted # {}
           \/ to = "counted" /\ ~Full /\ ~NoWriter(hint),
           \/ writers = <<>> \/ hint \/ Head(writers) \notin blocked
           \/ \E u \in Threads \ {t} : writeHint[u] /\ place[u] \in {"counted", "normals"}
    PROVE  CInv'
<1>0. /\ place' = [place EXCEPT ![t] = to] /\ writeHint' = [writeHint EXCEPT ![t] = hint]
      /\ blocked' = IF to = "counted" THEN blocked ELSE blocked \cup {t}
      /\ to \in {"normals", "writers", "counted"}
  BY DEF GoTo
<1>1. /\ place'[t] = to /\ writeHint'[t] = hint
      /\ \A u \in Threads \ {t} : place'[u] = place[u] /\ writeHint'[u] = writeHint[u]
  BY <1>0 DEF CounterTypeOK
<1>2. /\ m_pendingNormals' \in Seq(Threads) /\ Distinct(m_pendingNormals)'
      /\ InQueue(m_pendingNormals)' = {u \in Threads : place'[u] = "normals"}
      /\ \A u \in InQueue(m_pendingNormals)' : u \in blocked' \/ u = Head(m_pendingNormals)'
  BY <1>0, GoToQueues
<1>3. /\ m_pendingHints' \in Seq(Threads) /\ Distinct(m_pendingHints)'
      /\ InQueue(m_pendingHints)' = {u \in Threads : place'[u] = "writers"}
      /\ \A u \in InQueue(m_pendingHints)' : u \in blocked' \/ u = Head(m_pendingHints)'
      /\ writers # <<>> => m_pendingHints' # <<>> /\ Head(m_pendingHints)' = Head(writers)
  BY <1>0, GoToQueues
<1>4. CounterTypeOK'
  <2>1. place' \in [Threads -> {"out", "normals", "writers", "counted"}] /\ writeHint' \in [Threads -> BOOLEAN]
    BY <1>0 DEF CounterTypeOK
  <2>2. m_totalCount' \in Nat /\ m_writerCount' \in Nat
    BY DEF CounterTypeOK, GoTo
  <2> QED BY <1>0, <1>2, <1>3, <2>1, <2>2 DEF CounterTypeOK
<1>5. LimitInv'
  BY HandleCounterAssumption DEF GoTo, LimitInv, Full, NoWriter, CounterTypeOK
<1>6. /\ Counted' = Counted \cup (IF to = "counted" THEN {t} ELSE {})
      /\ Hinted' = Hinted \cup (IF to = "counted" /\ hint THEN {t} ELSE {})
      /\ t \notin Counted /\ t \notin Hinted
  BY <1>1 DEF Counted, Hinted
<1>7. CountInv'
  <2> DEFINE C == Counted
             H == Hinted
             D == Counted'
             I == Hinted'
  <2>a. /\ Cardinality(C) \in Nat /\ Cardinality(C \cup {t}) = Cardinality(C) + 1
        /\ Cardinality(H) \in Nat /\ Cardinality(H \cup {t}) = Cardinality(H) + 1
    BY <1>6, CountedFinite, FS_AddElement, FS_CardinalityType
  <2>b. /\ D = IF to = "counted" THEN C \cup {t} ELSE C
        /\ I = IF to = "counted" /\ hint THEN H \cup {t} ELSE H
    BY <1>6
  <2> HIDE DEF C, H, D, I
  <2>c. Cardinality(D) = Cardinality(C) + IF to = "counted" THEN 1 ELSE 0
    BY <2>a, <2>b
  <2>d. Cardinality(I) = Cardinality(H) + IF to = "counted" /\ hint THEN 1 ELSE 0
    BY <2>a, <2>b
  <2>1. Cardinality(Counted)' = Cardinality(Counted) + IF to = "counted" THEN 1 ELSE 0
    BY <2>c DEF C, D
  <2>2. Cardinality(Hinted)' = Cardinality(Hinted) + IF to = "counted" /\ hint THEN 1 ELSE 0
    BY <2>d DEF H, I
  <2> QED BY <2>1, <2>2 DEF CountInv, GoTo, Hinted
<1>8. QueueInv'
  <2>1. \A u \in blocked' : place'[u] \in {"normals", "writers"}
    BY <1>0, <1>1 DEF CounterTypeOK
  <2>2. \A u \in Threads : place'[u] = "writers" => writeHint'[u]
    BY <1>1 DEF NoWriter
  <2> QED BY <1>2, <1>3, <2>1, <2>2 DEF QueueInv
<1>9. NobodyStranded'
  <2>1. Counted' # {}
    BY <1>6 DEF Hinted
  <2>2. \/ \E u \in Threads : writeHint'[u] /\ place'[u] \in {"counted", "normals"}
        \/ m_pendingHints' = <<>>
        \/ Head(m_pendingHints)' \notin blocked'
    <3>1. CASE hint /\ to # "writers"
      BY <1>0, <1>1, <3>1
    <3>2. CASE to = "writers"
      <4>1. PICK u \in Hinted : TRUE
        BY <3>2
      <4>2. u \in Threads /\ u # t /\ writeHint[u] /\ place[u] = "counted"
        BY <4>1, <1>6 DEF Hinted, Counted
      <4> QED BY <1>1, <4>2
    <3>3. CASE ~hint /\ to # "writers" /\ writers = <<>>
      BY <3>3 DEF GoTo
    <3>4. CASE ~hint /\ to # "writers" /\ writers # <<>> /\ Head(writers) \notin blocked
      <4>1. Head(writers) # t
        BY <3>4, FrontOfQueue DEF Others
      <4> QED BY <1>0, <1>3, <3>4, <4>1
    <3>5. CASE \E u \in Threads \ {t} : writeHint[u] /\ place[u] \in {"counted", "normals"}
      BY <1>1, <3>5
    <3> QED BY <3>1, <3>2, <3>3, <3>4, <3>5
  <2> QED BY <2>1, <2>2 DEF NobodyStranded
<1> QED BY <1>4, <1>5, <1>7, <1>8, <1>9 DEF CInv, CounterInv

\* The queues of the invariant, seen by a thread that is in neither.
LEMMA QueuesOfOthers ==
    ASSUME CInv, NEW t \in Threads
    PROVE  /\ place[t] # "normals" => Others(m_pendingNormals, "normals", t)
           /\ place[t] # "writers" => Others(m_pendingHints, "writers", t)
BY DEF CInv, CounterInv, CounterTypeOK, QueueInv, Others

LEMMA IncreaseStep ==
    ASSUME CInv, NEW t \in Threads, NEW hint \in BOOLEAN, Increase(t, hint)
    PROVE  CInv'
<1>1. place[t] = "out" /\ t \notin blocked
  BY DEF Increase, CInv, CounterInv, QueueInv
<1>2. Others(m_pendingNormals, "normals", t) /\ Others(m_pendingHints, "writers", t)
  BY <1>1, QueuesOfOthers
<1>3. LET to == FromNormals(hint) IN
      \/ to = "normals" /\ Full /\ Counted # {}
      \/ to = "writers" /\ NoWriter(hint) /\ Hinted # {}
      \/ to = "counted" /\ ~Full /\ ~NoWriter(hint)
  BY FullIsSomebody DEF FromNormals
<1>4. \/ m_pendingHints = <<>> \/ hint \/ Head(m_pendingHints) \notin blocked
      \/ \E u \in Threads \ {t} : writeHint[u] /\ place[u] \in {"counted", "normals"}
  BY <1>1 DEF CInv, CounterInv, NobodyStranded
<1> QED BY <1>1, <1>2, <1>3, <1>4, GoToStep DEF Increase, CInv, CounterInv, QueueInv

\* A thread that is awake in a queue is its front.
LEMMA AwakeIsFront ==
    ASSUME CInv, NEW t \in Threads, t \notin blocked
    PROVE  /\ place[t] = "normals" => m_pendingNormals # <<>> /\ Head(m_pendingNormals) = t
           /\ place[t] = "writers" => m_pendingHints # <<>> /\ Head(m_pendingHints) = t
BY FrontOfQueue DEF CInv, CounterInv, QueueInv, CounterTypeOK

LEMMA NormalWokenStep ==
    ASSUME CInv, NEW t \in Threads, NormalWoken(t)
    PROVE  CInv'
<1> DEFINE q == m_pendingNormals
           hint == writeHint[t]
<1>1. place[t] = "normals" /\ t \notin blocked /\ hint \in BOOLEAN
  BY DEF NormalWoken, CInv, CounterTypeOK
<1>2. q \in Seq(Threads) /\ q # <<>> /\ Distinct(q) /\ Head(q) = t
  BY <1>1, AwakeIsFront DEF CInv, CounterInv, QueueInv, CounterTypeOK
<1>3. Tail(q) \in Seq(Threads) /\ Distinct(Tail(q)) /\ InQueue(Tail(q)) = InQueue(q) \ {t}
  BY <1>2, Pop
<1>4. Others(Tail(q), "normals", t) /\ Others(m_pendingHints, "writers", t)
  BY <1>1, <1>2, <1>3, QueuesOfOthers DEF Others, CInv, CounterInv, QueueInv
<1>5. LET to == FromNormals(hint) IN
      \/ to = "normals" /\ Full /\ Counted # {}
      \/ to = "writers" /\ NoWriter(hint) /\ Hinted # {}
      \/ to = "counted" /\ ~Full /\ ~NoWriter(hint)
  BY FullIsSomebody DEF FromNormals
<1>6. \/ m_pendingHints = <<>> \/ hint \/ Head(m_pendingHints) \notin blocked
      \/ \E u \in Threads \ {t} : writeHint[u] /\ place[u] \in {"counted", "normals"}
  BY DEF CInv, CounterInv, NobodyStranded
<1> QED BY <1>1, <1>4, <1>5, <1>6, GoToStep DEF NormalWoken, CInv, CounterInv, QueueInv

LEMMA WriterHintWokenStep ==
    ASSUME CInv, NEW t \in Threads, WriterHintWoken(t)
    PROVE  CInv'
<1> DEFINE q == m_pendingHints
           hint == writeHint[t]
<1>1. place[t] = "writers" /\ t \notin blocked /\ hint = TRUE
  BY DEF WriterHintWoken, CInv, CounterTypeOK, CounterInv, QueueInv
<1>2. q \in Seq(Threads) /\ q # <<>> /\ Distinct(q) /\ Head(q) = t
  BY <1>1, AwakeIsFront DEF CInv, CounterInv, QueueInv, CounterTypeOK
<1>3. Tail(q) \in Seq(Threads) /\ Distinct(Tail(q)) /\ InQueue(Tail(q)) = InQueue(q) \ {t}
  BY <1>2, Pop
<1>4. Others(m_pendingNormals, "normals", t) /\ Others(Tail(q), "writers", t)
  BY <1>1, <1>2, <1>3, QueuesOfOthers DEF Others, CInv, CounterInv, QueueInv
<1>5. LET to == FromWriters(hint) IN
      \/ to = "normals" /\ Full /\ Counted # {}
      \/ to = "writers" /\ NoWriter(hint) /\ Hinted # {}
      \/ to = "counted" /\ ~Full /\ ~NoWriter(hint)
  BY FullIsSomebody DEF FromWriters
<1> QED BY <1>1, <1>4, <1>5, GoToStep DEF WriterHintWoken, CInv, CounterInv, QueueInv

LEMMA DecreaseStep ==
    ASSUME CInv, NEW t \in Threads, Decrease(t)
    PROVE  CInv'
<1> DEFINE normals == m_pendingNormals
           writers == m_pendingHints
           hint == writeHint[t]
<1>0. /\ normals \in Seq(Threads) /\ writers \in Seq(Threads)
      /\ UNCHANGED <<m_pendingNormals, m_pendingHints>>
      /\ InQueue(normals)' = InQueue(normals) /\ InQueue(writers)' = InQueue(writers)
      /\ Distinct(normals)' /\ Distinct(writers)'
      /\ place[t] = "counted" /\ hint \in BOOLEAN
  BY DEF Decrease, CInv, CounterInv, CounterTypeOK, QueueInv
<1>1. /\ place'[t] = "out" /\ writeHint'[t] = FALSE
      /\ \A u \in Threads \ {t} : place'[u] = place[u] /\ writeHint'[u] = writeHint[u]
  BY DEF Decrease, CInv, CounterTypeOK
<1>2. /\ Counted' = Counted \ {t} /\ t \in Counted
      /\ Hinted' = Hinted \ {t} /\ (t \in Hinted <=> hint)
  BY <1>0, <1>1 DEF Counted, Hinted
<1>3. /\ m_totalCount = Cardinality(Counted) /\ m_writerCount = Cardinality(Hinted)
      /\ Cardinality(Counted) \in Nat /\ Cardinality(Hinted) \in Nat
      /\ IsFiniteSet(Counted) /\ IsFiniteSet(Hinted)
  BY CountedFinite, FS_CardinalityType DEF CInv, CounterInv, CountInv, Hinted
<1>4. /\ Cardinality(Counted)' = m_totalCount - 1
      /\ Cardinality(Hinted)' = m_writerCount - IF hint THEN 1 ELSE 0
      /\ Cardinality(Counted)' \in Nat /\ Cardinality(Hinted)' \in Nat
  <2>1. Cardinality(Counted \ {t}) = Cardinality(Counted) - 1
    BY <1>2, <1>3, FS_RemoveElement
  <2>2. Cardinality(Hinted \ {t}) = IF t \in Hinted THEN Cardinality(Hinted) - 1 ELSE Cardinality(Hinted)
    BY <1>3, FS_RemoveElement
  <2>3. IsFiniteSet(Counted \ {t}) /\ IsFiniteSet(Hinted \ {t})
    BY <1>3, FS_RemoveElement
  <2>4. Cardinality(Counted \ {t}) \in Nat /\ Cardinality(Hinted \ {t}) \in Nat
    BY <2>3, FS_CardinalityType
  <2> DEFINE D == Counted'
             I == Hinted'
  <2>5. D = Counted \ {t} /\ I = Hinted \ {t}
    BY <1>2
  <2> HIDE DEF D, I
  <2>6. /\ Cardinality(D) = m_totalCount - 1 /\ Cardinality(D) \in Nat
        /\ Cardinality(I) = m_writerCount - IF hint THEN 1 ELSE 0
        /\ Cardinality(I) \in Nat
    BY <1>0, <1>2, <1>3, <2>1, <2>2, <2>4, <2>5
  <2> QED BY <2>6 DEF D, I
<1>5. m_totalCount' = m_totalCount - 1 /\ m_writerCount' = m_writerCount - IF hint THEN 1 ELSE 0
  BY DEF Decrease
<1>6. blocked' = CASE hint /\ writers # <<>> -> blocked \ {Head(writers)}
                   [] ~(hint /\ writers # <<>>) /\ normals # <<>> -> blocked \ {Head(normals)}
                   [] OTHER -> blocked
  BY DEF Decrease, Notified, notifyFront
<1>7. blocked' \subseteq blocked
  BY <1>6
<1>8. CounterTypeOK'
  <2>1. /\ place' \in [Threads -> {"out", "normals", "writers", "counted"}]
        /\ writeHint' \in [Threads -> BOOLEAN]
    BY DEF Decrease, CInv, CounterTypeOK
  <2> QED BY <1>0, <1>4, <1>5, <1>7, <2>1 DEF CInv, CounterTypeOK
<1>9. LimitInv' /\ CountInv'
  BY <1>3, <1>4, <1>5, HandleCounterAssumption DEF CInv, CounterInv, LimitInv, CountInv, Hinted
<1>10. /\ normals # <<>> => Head(normals) \in InQueue(normals)
       /\ writers # <<>> => Head(writers) \in InQueue(writers)
  BY <1>0, FrontOfQueue
<1>11. /\ InQueue(normals) = {u \in Threads : place[u] = "normals"}
       /\ InQueue(writers) = {u \in Threads : place[u] = "writers"}
       /\ \A u \in InQueue(normals) : u \in blocked \/ u = Head(normals)
       /\ \A u \in InQueue(writers) : u \in blocked \/ u = Head(writers)
  BY DEF CInv, CounterInv, QueueInv
<1>12. QueueInv'
  <2>1. /\ \A u \in InQueue(normals) : u \in blocked' \/ u = Head(normals)
        /\ \A u \in InQueue(writers) : u \in blocked' \/ u = Head(writers)
    BY <1>6, <1>10, <1>11
  <2>2. /\ InQueue(normals) = {u \in Threads : place'[u] = "normals"}
        /\ InQueue(writers) = {u \in Threads : place'[u] = "writers"}
    BY <1>0, <1>1, <1>11
  <2>3. \A u \in blocked' : place'[u] \in {"normals", "writers"}
    BY <1>0, <1>1, <1>7 DEF CInv, CounterInv, QueueInv, CounterTypeOK
  <2>4. \A u \in Threads : place'[u] = "writers" => writeHint'[u]
    BY <1>1 DEF CInv, CounterInv, QueueInv
  <2> QED BY <1>0, <2>1, <2>2, <2>3, <2>4 DEF QueueInv
<1>13. normals # <<>> => \E u \in Threads : place'[u] \in {"normals", "writers"} /\ u \notin blocked'
  <2>1. CASE hint /\ writers # <<>>
    <3>1. Head(writers) \in Threads /\ place[Head(writers)] = "writers" /\ Head(writers) \notin blocked'
      BY <1>6, <1>10, <1>11, <2>1
    <3> QED BY <1>0, <1>1, <3>1
  <2>2. CASE ~(hint /\ writers # <<>>) /\ normals # <<>>
    <3>1. Head(normals) \in Threads /\ place[Head(normals)] = "normals" /\ Head(normals) \notin blocked'
      BY <1>6, <1>10, <1>11, <2>2
    <3> QED BY <1>0, <1>1, <3>1
  <2> QED BY <2>1, <2>2
<1>14. writers # <<>> => \/ \E u \in Threads : writeHint'[u] /\ place'[u] \in {"counted", "normals"}
                         \/ Head(writers) \notin blocked'
  <2>1. CASE hint
    BY <1>6, <2>1
  <2>2. CASE ~hint
    BY <1>1, <1>7, <2>2 DEF CInv, CounterInv, NobodyStranded
  <2> QED BY <2>1, <2>2
<1>15. NobodyStranded'
  BY <1>0, <1>13, <1>14 DEF NobodyStranded
<1> QED BY <1>8, <1>9, <1>12, <1>15 DEF CInv, CounterInv

LEMMA CounterStutter ==
    ASSUME CInv, UNCHANGED counterVars
    PROVE  CInv'
<1>1. /\ UNCHANGED <<m_totalCount, m_writerCount, m_pendingNormals, m_pendingHints,
                     place, writeHint, blocked>>
      /\ Counted' = Counted
      /\ {t \in Counted : writeHint[t]}' = {t \in Counted : writeHint[t]}
      /\ InQueue(m_pendingNormals)' = InQueue(m_pendingNormals)
      /\ InQueue(m_pendingHints)' = InQueue(m_pendingHints)
      /\ Distinct(m_pendingNormals)' /\ Distinct(m_pendingHints)'
  BY DEF counterVars, Counted, CInv, CounterInv, QueueInv
<1>2. CounterTypeOK' /\ LimitInv' /\ CountInv'
  BY <1>1 DEF CInv, CounterInv, CounterTypeOK, LimitInv, CountInv
<1>3. QueueInv' /\ NobodyStranded'
  BY <1>1 DEF CInv, CounterInv, QueueInv, NobodyStranded
<1> QED BY <1>2, <1>3 DEF CInv, CounterInv

LEMMA CounterNextStep == CInv /\ [CounterNext]_counterVars => CInv'
<1> SUFFICES ASSUME CInv, [CounterNext]_counterVars PROVE CInv'
  OBVIOUS
<1>1. ASSUME NEW t \in Threads, NEW hint \in BOOLEAN, Increase(t, hint) \/ Refused(t, hint)
      PROVE  CInv'
  BY <1>1, IncreaseStep, CounterStutter DEF Refused
<1>2. ASSUME NEW t \in Threads, CounterWakes(t) \/ Decrease(t)
      PROVE  CInv'
  BY <1>2, NormalWokenStep, WriterHintWokenStep, DecreaseStep DEF CounterWakes
<1> QED BY <1>1, <1>2, CounterStutter DEF CounterNext

\* HandleCounter (HandleCounter.cpp) keeps its type invariant.
THEOREM CounterTypeCorrect == CounterSpec => []CounterTypeOK
<1>1. CInv => CounterTypeOK
  BY DEF CInv
<1> QED BY <1>1, InitialCounter, CounterNextStep, PTL DEF CounterSpec

\* The limits hold, the counts agree with the threads, a thread that pops a queue pops
\* itself, and nobody sleeps with no one left to wake the queue.
THEOREM CounterInvariant == CounterSpec => []CounterInv
<1>1. CInv => CounterInv
  BY DEF CInv
<1> QED BY <1>1, InitialCounter, CounterNextStep, PTL DEF CounterSpec

=============================================================================
