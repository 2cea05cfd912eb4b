-------------------------- MODULE HandlePoolProofs --------------------------
(* The safety of HandlePool for any threads, limits, types of handles and  *)
(* number of calls, from the invariants of its lock and its counter.       *)
EXTENDS HandlePool, LockAndCounterProofs

Step(t) == GoOn(t) \/ Calls(t) \/ Spurious(t)

HandleInv == HandleIsOwn /\ NoLeak /\ Cardinality(Alive) <= MaxHandles

\* No more references than calls.
CallsOf(t) ==
    /\ m_threadedHandles[t].reference <= nCalls
    /\ pc[t] # "idle" => nCalls > 0
CallsInv == \A t \in Threads : CallsOf(t)

\* The inductive invariant.
PInv == IInv /\ CInv /\ PoolTypeOK /\ CallsInv /\ FollowInv /\ HandleInv

-----------------------------------------------------------------------------
(* A step of the pool is one of the lock and one of the counter.           *)

\* The steps by what they do with the lock.
LEMMA LockSteps ==
    ASSUME NEW t \in Threads, Step(t)
    PROVE  \/ lockShared(t) \/ unlockShared(t) \/ lock(t) \/ unlock(t)
           \/ LockWakes(t) \/ SpuriousWakeup(t) \/ UNCHANGED lockVars
<1>1. CASE Calls(t)
  BY <1>1 DEF Calls, GetHandle, GetSame, Purge, Close, Blockade
<1>2. CASE Spurious(t)
  BY <1>2 DEF Spurious
<1>3. CASE GoOn(t)
  BY <1>3 DEF GoOn, Initialized, NotInitialized, LockToInitialize, InitializeNow,
              InitializeAgain, FlowOut, Exceed, TakeFree, TakeNone, Reuse, Generate,
              SetupFails, LeaveFailed, Release, FlowBack, Unshare, Uncount, Suspend,
              LockToDrain, Drain, Drained, Blockaded, Unblockade, PurgeNow, Woken
<1> QED BY <1>1, <1>2, <1>3 DEF Step

\* The steps by what they do with the counter.
LEMMA CounterSteps ==
    ASSUME NEW t \in Threads, PoolTypeOK, Step(t)
    PROVE  \/ \E hint \in BOOLEAN : Increase(t, hint) \/ Refused(t, hint)
           \/ CounterWakes(t) \/ Decrease(t) \/ UNCHANGED counterVars
<1>0. Hint(t) \in BOOLEAN
  BY DEF PoolTypeOK, Hint
<1>1. CASE Calls(t)
  BY <1>1 DEF Calls, GetHandle, GetSame, Purge, Close, Blockade
<1>2. CASE Spurious(t)
  BY <1>2 DEF Spurious
<1>3. CASE GoOn(t)
  BY <1>0, <1>3 DEF GoOn, Initialized, NotInitialized, LockToInitialize, InitializeNow,
              InitializeAgain, FlowOut, Exceed, TakeFree, TakeNone, Reuse, Generate,
              SetupFails, LeaveFailed, Release, FlowBack, Unshare, Uncount, Suspend,
              LockToDrain, Drain, Drained, Blockaded, Unblockade, PurgeNow, Woken
<1> QED BY <1>1, <1>2, <1>3 DEF Step

LEMMA PartsStep ==
    ASSUME IInv, CInv, PoolTypeOK, NEW t \in Threads, Step(t)
    PROVE  IInv' /\ CInv'
<1>1. [LockNext]_lockVars
  BY LockSteps DEF LockNext
<1>2. [CounterNext]_counterVars
  BY CounterSteps DEF CounterNext
<1> QED BY <1>1, <1>2, LockNextStep, CounterNextStep

-----------------------------------------------------------------------------
(* A step of one thread leaves what belongs to the others.                 *)

\* The lock, as seen from another thread.
LEMMA LockOfOthers ==
    ASSUME IInv, NEW t \in Threads, Step(t), NEW u \in Threads, u # t
    PROVE  /\ m_threadedReaders'[u] = m_threadedReaders[u]
           /\ (u \in m_pendingReaders)' <=> u \in m_pendingReaders
           /\ (u \in InQueue(m_pendingWriters))' <=> u \in InQueue(m_pendingWriters)
           /\ m_locking' = u <=> m_locking = u
           /\ m_locking = u => m_writers' = m_writers
<1> USE SharedLockAssumption DEF IInv, LockTypeOK
<1>1. CASE lockShared(t)
  BY <1>1 DEF lockShared, GetShared
<1>2. CASE unlockShared(t)
  BY <1>2 DEF unlockShared
<1>3. CASE lock(t)
  <2>1. m_locking # NoThread => m_writers > 0
    BY DEF LockInv, Exclusion
  <2>2. t \notin InQueue(m_pendingWriters) => InQueue(Append(m_pendingWriters, t)) = InQueue(m_pendingWriters) \cup {t}
    BY Emplace DEF LockInv, PendingInv
  <2>3. \/ UNCHANGED <<m_locking, m_pendingWriters>> /\ (m_locking = u => m_writers' = m_writers)
        \/ m_writers = 0 /\ m_locking' = t /\ UNCHANGED m_pendingWriters
        \/ /\ m_pendingWriters' = Append(m_pendingWriters, t)
           /\ UNCHANGED <<m_locking, m_writers>> /\ t \notin InQueue(m_pendingWriters)
    BY <1>3 DEF lock, Running, CanLock
  <2>4. UNCHANGED <<m_threadedReaders, m_pendingReaders>>
    BY <1>3 DEF lock
  <2>5. u # NoThread
    OBVIOUS
  <2> HIDE DEF IInv, LockTypeOK
  <2>6. InQueue(m_pendingWriters)' \in {InQueue(m_pendingWriters), InQueue(m_pendingWriters) \cup {t}}
    BY <2>2, <2>3
  <2>7. m_locking' \in {m_locking, t} /\ (m_locking = u => m_locking' = u /\ m_writers' = m_writers)
    BY <2>1, <2>3, <2>5
  <2> QED BY <2>4, <2>6, <2>7
<1>4. CASE unlock(t)
  BY <1>4 DEF unlock
<1>5. CASE ReaderWoken(t)
  BY <1>5 DEF ReaderWoken, GetShared
<1>6. CASE WriterWoken(t)
  <2>1. m_locking # NoThread => m_writers > 0
    BY DEF LockInv, Exclusion
  <2>2. m_pendingWriters # <<>> => InQueue(Tail(m_pendingWriters)) = InQueue(m_pendingWriters) \ {Head(m_pendingWriters)}
    BY Pop DEF LockInv, PendingInv
  <2>3. m_pendingWriters # <<>>
    BY <1>6, FrontOfQueue DEF WriterWoken
  <2>4. \/ UNCHANGED <<m_locking, m_writers, m_pendingWriters>>
        \/ /\ m_writers = 0 /\ m_locking' = t /\ Head(m_pendingWriters) = t
           /\ m_pendingWriters' = Tail(m_pendingWriters)
    BY <1>6 DEF WriterWoken, CanLock
  <2>5. UNCHANGED <<m_threadedReaders, m_pendingReaders>>
    BY <1>6 DEF WriterWoken
  <2>6. u # NoThread
    OBVIOUS
  <2> HIDE DEF IInv, LockTypeOK
  <2>7. InQueue(m_pendingWriters)' \in {InQueue(m_pendingWriters), InQueue(m_pendingWriters) \ {t}}
    BY <2>2, <2>3, <2>4
  <2>8. m_locking' \in {m_locking, t} /\ (m_locking = u => m_locking' = u /\ m_writers' = m_writers)
    BY <2>1, <2>4, <2>6
  <2> QED BY <2>5, <2>7, <2>8
<1>7. CASE SpuriousWakeup(t)
  BY <1>7 DEF SpuriousWakeup
<1>8. CASE UNCHANGED lockVars
  BY <1>8 DEF lockVars
<1> QED BY <1>1, <1>2, <1>3, <1>4, <1>5, <1>6, <1>7, <1>8, LockSteps DEF LockWakes

\* Its place in the counter.
LEMMA PlaceOfOthers ==
    ASSUME CInv, PoolTypeOK, NEW t \in Threads, Step(t), NEW u \in Threads, u # t
    PROVE  place'[u] = place[u]
BY CounterSteps DEF CInv, CounterTypeOK, Increase, Refused, CounterWakes, NormalWoken,
                    WriterHintWoken, GoTo, Decrease, counterVars

\* Where it is, its handle and what it owns.
LEMMA PoolOfOthers ==
    ASSUME PoolTypeOK, NEW t \in Threads, Step(t), NEW u \in Threads, u # t
    PROVE  /\ pc'[u] = pc[u] /\ owner'[u] = owner[u]
           /\ m_threadedHandles'[u] = m_threadedHandles[u]
<1> USE DEF PoolTypeOK
<1>1. CASE Calls(t)
  BY <1>1 DEF Calls, GetHandle, GetSame, Purge, Close, Blockade, Goto
<1>2. CASE Spurious(t)
  BY <1>2 DEF Spurious
<1>3. CASE GoOn(t)
  BY <1>3 DEF GoOn, Initialized, NotInitialized, LockToInitialize, InitializeNow,
              InitializeAgain, FlowOut, Exceed, TakeFree, TakeNone, Reuse, Generate,
              SetupFails, LeaveFailed, Release, FlowBack, Unshare, Uncount, Suspend,
              LockToDrain, Drain, Drained, Blockaded, Unblockade, PurgeNow, Woken,
              Goto, GiveUp, poolVars
<1> QED BY <1>1, <1>2, <1>3 DEF Step

-----------------------------------------------------------------------------
(* The types of the pool.                                                  *)

References == [handle : Handles \cup {NoHandle}, type : Types, hint : BOOLEAN,
               reference : 0..MaxCalls]

LEMMA ReferenceType ==
    ASSUME NEW type \in Types, NEW hint \in BOOLEAN
    PROVE  Reference(type, hint) \in References /\ NoReference \in References
<1>1. (CHOOSE x \in Types : TRUE) \in Types
  BY HandlePoolAssumption
<1> QED BY <1>1, HandlePoolAssumption DEF References, Reference, NoReference, NoHandle

LEMMA NumberOfCalls ==
    ASSUME NEW t \in Threads, Step(t)
    PROVE  UNCHANGED nCalls \/ Call
BY DEF Step, Calls, GetHandle, GetSame, Purge, Close, Blockade, Spurious,
       GoOn, Initialized, NotInitialized, LockToInitialize, InitializeNow,
       InitializeAgain, FlowOut, Exceed, TakeFree, TakeNone, Reuse, Generate,
       SetupFails, LeaveFailed, Release, FlowBack, Unshare, Uncount, Suspend,
       LockToDrain, Drain, Drained, Blockaded, Unblockade, PurgeNow, Woken, poolVars

LEMMA TypeStep ==
    ASSUME PoolTypeOK, CallsInv, FollowInv, NEW t \in Threads, Step(t)
    PROVE  PoolTypeOK'
<1> USE HandlePoolAssumption, HandleCounterAssumption DEF PoolTypeOK
<1> DEFINE ref == m_threadedHandles[t]
<1>r. /\ ref \in References
      /\ m_threadedHandles \in [Threads -> References]
      /\ ref.reference <= nCalls /\ (pc[t] # "idle" => nCalls > 0)
  BY DEF References, CallsInv, CallsOf
<1>u. Holds(t) => ref.handle # NoHandle
  BY DEF FollowInv, UseOf, Users
<1>n. NoReference \in References
  BY ReferenceType
<1>c. Call => nCalls' \in 0..MaxCalls /\ ref.reference < MaxCalls
  BY <1>r DEF Call
<1>1. nCalls' \in 0..MaxCalls
  BY <1>c, NumberOfCalls
<1>2. pc' \in [Threads -> Places] /\ owner' \in [Threads -> {"none", "drain", "blockade"}]
      /\ m_initialized' \in BOOLEAN
  BY DEF Step, Calls, GetHandle, GetSame, Purge, Close, Blockade, Spurious,
         GoOn, Initialized, NotInitialized, LockToInitialize, InitializeNow,
         InitializeAgain, FlowOut, Exceed, TakeFree, TakeNone, Reuse, Generate,
         SetupFails, LeaveFailed, Release, FlowBack, Unshare, Uncount, Suspend,
         LockToDrain, Drain, Drained, Blockaded, Unblockade, PurgeNow, Woken, poolVars,
         Goto, GiveUp, Places
<1>3. m_handles' \in [Types -> SUBSET Handles] /\ m_frees' \in [Types -> SUBSET Handles]
  <2>s. SlotOf(t) \in Types /\ ref.handle \in Handles \cup {NoHandle}
    BY <1>r DEF SlotOf, References
  <2>1. CASE Generate(t)
    <3>1. PICK h \in Handles, handles \in [Types -> SUBSET Handles] :
             \/ m_handles' = handles /\ UNCHANGED m_frees
             \/ m_handles' = Purged(handles) /\ m_frees' = NoHandles
      <4> DEFINE h == CHOOSE x \in Handles : x \notin Alive
      <4>1. [m_handles EXCEPT ![SlotOf(t)] = @ \cup {h}] \in [Types -> SUBSET Handles]
        BY <2>1 DEF Generate
      <4>2. h \in Handles
        BY <2>1 DEF Generate
      <4> HIDE DEF h
      <4> QED BY <2>1, <4>1, <4>2 DEF Generate, h
    <3> QED BY <3>1 DEF Purged, NoHandles
  <2>2. CASE FlowBack(t)
    <3>1. ref.handle \in Handles
      BY <2>2, <1>u DEF FlowBack, Holds
    <3> QED BY <2>2, <2>s, <3>1 DEF FlowBack
  <2>3. CASE SetupFails(t)
    BY <2>3, <2>s DEF SetupFails
  <2>4. ASSUME NEW h \in Handles, TakeFree(t, h)
        PROVE  m_handles' \in [Types -> SUBSET Handles] /\ m_frees' \in [Types -> SUBSET Handles]
    BY <2>4, <2>s DEF TakeFree
  <2> QED
    BY <2>1, <2>2, <2>3, <2>4
       DEF Step, Calls, GetHandle, GetSame, Purge, Close, Blockade, Spurious,
         GoOn, Initialized, NotInitialized, LockToInitialize, InitializeNow,
         InitializeAgain, FlowOut, Exceed, TakeNone, Reuse, LeaveFailed, Release, Unshare,
         Uncount, Suspend, LockToDrain, Drain, Drained, Blockaded, Unblockade, PurgeNow,
         Woken, poolVars, NoHandles, Purged
<1>4. m_threadedHandles' \in [Threads -> References]
  <2>1. CASE Calls(t)
    <3>1. CASE GetSame(t)
      BY <3>1, <1>r, <1>c DEF GetSame, References
    <3>2. ASSUME NEW type \in Types, NEW hint \in BOOLEAN, GetHandle(t, type, hint)
          PROVE  m_threadedHandles' \in [Threads -> References]
      BY <3>2, <1>r, ReferenceType DEF GetHandle
    <3> QED BY <2>1, <3>1, <3>2, <1>r DEF Calls, Purge, Close, Blockade
  <2>2. CASE Spurious(t)
    BY <2>2, <1>r DEF Spurious
  <2>3. CASE GoOn(t)
    <3>1. CASE Reuse(t)
      BY <3>1, <1>r DEF Reuse, At, References
    <3>2. CASE Generate(t)
      <4> DEFINE h == CHOOSE x \in Handles : x \notin Alive
      <4>1. h \in Handles /\ nCalls > 0
        BY <3>2, <1>r DEF Generate, At
      <4>2. m_threadedHandles' = [m_threadedHandles EXCEPT ![t] = [ref EXCEPT !.handle = h, !.reference = 1]]
        BY <3>2 DEF Generate
      <4> HIDE DEF h
      <4>3. 1 \in 0..MaxCalls
        BY <4>1
      <4>4. [ref EXCEPT !.handle = h] \in References
        BY <4>1, <1>r DEF References
      <4>5. [[ref EXCEPT !.handle = h] EXCEPT !.reference = 1] \in References
        BY <4>3, <4>4 DEF References
      <4>6. [ref EXCEPT !.handle = h, !.reference = 1] = [[ref EXCEPT !.handle = h] EXCEPT !.reference = 1]
        OBVIOUS
      <4> QED BY <4>2, <4>5, <4>6, <1>r
    <3>3. CASE Release(t)
      BY <3>3, <1>r DEF Release, References
    <3>4. CASE SetupFails(t)
      BY <3>4, <1>r DEF SetupFails, References
    <3>5. ASSUME NEW h \in Handles, TakeFree(t, h)
          PROVE  m_threadedHandles' \in [Threads -> References]
      BY <3>5, <1>r DEF TakeFree, References
    <3> QED BY <2>3, <3>1, <3>2, <3>3, <3>4, <3>5, <1>r, <1>n
            DEF GoOn, Initialized, NotInitialized, LockToInitialize, InitializeNow,
                InitializeAgain, FlowOut, Exceed, TakeNone, LeaveFailed, FlowBack, Unshare,
                Uncount, Suspend, LockToDrain, Drain, Drained, Blockaded, Unblockade, PurgeNow,
                Woken, GiveUp, poolVars
  <2> QED BY <2>1, <2>2, <2>3 DEF Step
<1> QED BY <1>1, <1>2, <1>3, <1>4 DEF References

-----------------------------------------------------------------------------
(* The locks follow.                                                       *)

LEMMA AfterLockShared ==
    ASSUME IInv, PoolTypeOK, NEW t \in Threads, LocksOf(t), lockShared(t),
           pc[t] \in {"idle", "again"}, ~Holds(t),
           pc'[t] \in Sharing, ~Holds(t)', owner'[t] = owner[t],
           pc'[t] = "suspend" => owner[t] = "none"
    PROVE  LocksOf(t)'
<1>1. Running(t) /\ ~Shares(t) /\ m_threadedReaders[t] = 0
  BY DEF lockShared, LocksOf, Shares, Shared, Sharing
<1>2. UNCHANGED <<m_writers, m_locking, m_pendingWriters>>
  BY DEF lockShared
<1>3. WriteDepth(t)' = WriteDepth(t)
  BY DEF WriteDepth, At, Locking, Sharing
<1>4. CASE MustWait(t)
  <2>1. t \in m_pendingReaders' /\ UNCHANGED m_threadedReaders
    BY <1>4 DEF lockShared
  <2>2. ~Shares(t)'
    BY <2>1 DEF Shares, Running, Shared, Sharing
  <2> QED BY <1>1, <1>2, <1>3, <2>1, <2>2 DEF LocksOf, Running, Sharing
<1>5. CASE ~MustWait(t)
  <2>1. UNCHANGED m_pendingReaders /\ m_threadedReaders'[t] = 1
    BY <1>1, <1>5 DEF lockShared, GetShared, IInv, LockTypeOK
  <2>2. Shares(t)'
    BY <1>1, <1>2, <2>1 DEF Shares, Running
  <2> QED BY <1>1, <1>2, <1>3, <2>1, <2>2 DEF LocksOf, Running, Sharing
<1> QED BY <1>4, <1>5

LEMMA AfterUnlockShared ==
    ASSUME IInv, PoolTypeOK, NEW t \in Threads, LocksOf(t), unlockShared(t),
           pc[t] \in Shared \cup Sharing,
           pc'[t] \in {"blockedInit", "idle", "uncount", "close"}, ~Holds(t)',
           owner'[t] = owner[t], pc'[t] = "close" => owner[t] = "none"
    PROVE  LocksOf(t)'
<1>1. Running(t) /\ m_threadedReaders[t] = 1 /\ m_threadedReaders'[t] = 0
  BY DEF unlockShared, LocksOf, IInv, LockTypeOK
<1>2. UNCHANGED <<m_writers, m_locking, m_pendingWriters, m_pendingReaders>>
  BY DEF unlockShared
<1>3. WriteDepth(t)' = WriteDepth(t)
  BY DEF WriteDepth, At, Locking, Sharing, Shared
<1>4. ~Shares(t)'
  BY DEF Shares, Shared, Sharing
<1> QED BY <1>1, <1>2, <1>3, <1>4 DEF LocksOf, Running

LEMMA AfterLock ==
    ASSUME IInv, PoolTypeOK, NEW t \in Threads, LocksOf(t), lock(t),
           pc[t] \in {"blockedInit", "close", "idle"}, ~Holds(t),
           pc'[t] \in Locking, ~Holds(t)', owner'[t] = owner[t],
           pc'[t] \in {"drain", "blockade"} => owner[t] = "none"
    PROVE  LocksOf(t)'
<1>1. /\ Running(t) /\ m_threadedReaders[t] = 0 /\ UNCHANGED <<m_threadedReaders, m_pendingReaders>>
      /\ t # NoThread /\ m_writers \in Nat
  BY SharedLockAssumption DEF lock, IInv, LockTypeOK
<1>2. ~Shares(t)'
  BY DEF Shares, Shared, Sharing, Locking
<1>3. WriteDepth(t) = IF owner[t] = "none" THEN 0 ELSE 1
  BY DEF WriteDepth, At, Locking
<1>4. WriteDepth(t)' = (IF owner[t] = "none" THEN 0 ELSE 1) + IF Running(t)' THEN 1 ELSE 0
  BY DEF WriteDepth, At
<1>5. CASE m_locking = t
  <2>1. UNCHANGED <<m_locking, m_pendingWriters>> /\ m_writers' = m_writers + 1
    BY <1>5 DEF lock
  <2>2. Running(t)'
    BY <1>1, <2>1 DEF Running
  <2>3. WriteDepth(t)' = WriteDepth(t) + 1
    BY <1>3, <1>4, <2>2
  <2> QED BY <1>1, <1>2, <1>5, <2>1, <2>2, <2>3 DEF LocksOf, Running, Locking
<1>6. CASE m_locking # t /\ CanLock(t, Append(m_pendingWriters, t))
  <2>1. UNCHANGED m_pendingWriters /\ m_locking' = t /\ m_writers' = 1
    BY <1>6 DEF lock
  <2>2. Running(t)'
    BY <1>1, <2>1 DEF Running
  <2>3. WriteDepth(t)' = 1
    BY <1>3, <1>4, <1>6, <2>2 DEF LocksOf
  <2> QED BY <1>1, <1>2, <2>1, <2>2, <2>3 DEF LocksOf, Running, Locking
<1>7. CASE m_locking # t /\ ~CanLock(t, Append(m_pendingWriters, t))
  <2>1. UNCHANGED <<m_locking, m_writers>> /\ m_pendingWriters' = Append(m_pendingWriters, t)
    BY <1>7 DEF lock
  <2>2. t \in InQueue(m_pendingWriters)'
    BY <1>1, <2>1, Emplace DEF Running, IInv, LockTypeOK, LockInv, PendingInv
  <2>3. WriteDepth(t)' = 0
    BY <1>3, <1>4, <1>7, <2>2 DEF LocksOf, Running
  <2> QED BY <1>1, <1>2, <1>7, <2>1, <2>2, <2>3 DEF LocksOf, Running, Locking
<1> QED BY <1>5, <1>6, <1>7

LEMMA AfterUnlock ==
    ASSUME IInv, PoolTypeOK, NEW t \in Threads, LocksOf(t), unlock(t),
           \/ pc[t] = "initializing" /\ owner'[t] = owner[t]
           \/ pc[t] = "idle" /\ owner[t] # "none" /\ owner'[t] = "none",
           pc'[t] \in {"again", "idle"}, ~Holds(t)'
    PROVE  LocksOf(t)'
<1>1. /\ Running(t) /\ m_threadedReaders[t] = 0 /\ m_locking = t /\ t # NoThread
      /\ UNCHANGED <<m_threadedReaders, m_pendingReaders, m_pendingWriters>>
      /\ m_writers' = m_writers - 1 /\ m_writers \in Nat /\ m_writers = WriteDepth(t)
      /\ m_locking' = IF m_writers = 1 THEN NoThread ELSE t
  BY SharedLockAssumption DEF unlock, IInv, LockTypeOK, LocksOf
<1>2. Running(t)' /\ ~Shares(t)'
  BY <1>1 DEF Running, Shares, Shared, Sharing
<1>3. WriteDepth(t)' = WriteDepth(t) - 1
  BY <1>1 DEF WriteDepth, At, Locking
<1> QED BY <1>1, <1>2, <1>3 DEF LocksOf, Running

LEMMA AfterNoLock ==
    ASSUME IInv, PoolTypeOK, NEW t \in Threads, LocksOf(t), UNCHANGED lockVars, Running(t),
           Shares(t)' <=> Shares(t), WriteDepth(t)' = WriteDepth(t),
           pc'[t] \notin {"suspend", "close", "drain", "blockade"}
    PROVE  LocksOf(t)'
BY DEF LocksOf, Running, lockVars

LEMMA AfterWakeup ==
    ASSUME IInv, PoolTypeOK, NEW t \in Threads, LocksOf(t),
           LockWakes(t) \/ SpuriousWakeup(t),
           pc'[t] = pc[t], owner'[t] = owner[t], m_threadedHandles'[t] = m_threadedHandles[t],
           Holds(t) => pc[t] = "idle"
    PROVE  LocksOf(t)'
<1>h. Holds(t)' <=> Holds(t)
  BY DEF Holds
<1>w. m_pendingWriters \in Seq(Threads) /\ Distinct(m_pendingWriters)
      /\ m_pendingReaders \cap InQueue(m_pendingWriters) = {}
  BY DEF IInv, LockTypeOK, LockInv, PendingInv
<1>1. CASE UNCHANGED <<m_threadedReaders, m_writers, m_locking, m_pendingReaders, m_pendingWriters>>
  <2>1. (Running(t)' <=> Running(t)) /\ InQueue(m_pendingWriters)' = InQueue(m_pendingWriters)
    BY <1>1 DEF Running
  <2>2. WriteDepth(t)' = WriteDepth(t) /\ (Shares(t)' <=> Shares(t))
    BY <1>h, <2>1 DEF WriteDepth, At, Shares
  <2> QED BY <1>1, <2>1, <2>2 DEF LocksOf
<1>2. CASE ReaderWoken(t) /\ m_pendingReaders' # m_pendingReaders
  <2>1. /\ t \in m_pendingReaders /\ m_pendingReaders' = m_pendingReaders \ {t}
        /\ m_threadedReaders'[t] = m_threadedReaders[t] + 1
        /\ UNCHANGED <<m_writers, m_locking, m_pendingWriters>>
    BY <1>2 DEF ReaderWoken, GetShared, IInv, LockTypeOK
  <2>2. pc[t] \in Sharing /\ Running(t)' /\ ~Running(t) /\ t \notin InQueue(m_pendingWriters)
    BY <1>w, <2>1 DEF LocksOf, Running
  <2>3. Shares(t)' /\ ~Shares(t)
    BY <2>2 DEF Shares, Shared, Sharing
  <2>4. WriteDepth(t)' = WriteDepth(t)
    BY <2>2 DEF WriteDepth, Sharing, Locking
  <2> QED BY <2>1, <2>2, <2>3, <2>4 DEF LocksOf
<1>3. CASE WriterWoken(t) /\ CanLock(t, m_pendingWriters)
  <2>1. /\ t \in InQueue(m_pendingWriters) /\ m_pendingWriters' = Tail(m_pendingWriters)
        /\ m_writers = 0 /\ m_writers' = 1 /\ m_locking' = t /\ Head(m_pendingWriters) = t
        /\ UNCHANGED <<m_threadedReaders, m_pendingReaders>>
    BY <1>3 DEF WriterWoken, CanLock
  <2>2. t \notin InQueue(m_pendingWriters)' /\ t \notin m_pendingReaders
    BY <1>w, <2>1, Pop, FrontOfQueue
  <2>3. Running(t)' /\ ~Running(t) /\ pc[t] \in Locking
    BY <2>1, <2>2 DEF Running, LocksOf
  <2>4. (Shares(t)' <=> Shares(t))
    BY <1>h, <2>3 DEF Shares, Sharing, Locking
  <2>5. m_locking # t
    BY <2>1, SharedLockAssumption DEF IInv, LockInv, Exclusion
  <2>6. WriteDepth(t) = 0 /\ WriteDepth(t)' = 1
    BY <2>3, <2>5 DEF LocksOf, WriteDepth, At
  <2> QED BY <2>1, <2>2, <2>3, <2>4, <2>6 DEF LocksOf
<1> QED BY <1>1, <1>2, <1>3 DEF LockWakes, ReaderWoken, WriterWoken, SpuriousWakeup

-----------------------------------------------------------------------------
(* Everything of a thread follows.                                         *)

Follows(t) == LocksOf(t) /\ CountOf(t) /\ UseOf(t) /\ CallsOf(t)

\* The other threads.
LEMMA OthersFollow ==
    ASSUME PInv, NEW t \in Threads, Step(t), NEW u \in Threads, u # t
    PROVE  Follows(u)'
<1>1. /\ m_threadedReaders'[u] = m_threadedReaders[u]
      /\ (u \in m_pendingReaders)' <=> u \in m_pendingReaders
      /\ (u \in InQueue(m_pendingWriters))' <=> u \in InQueue(m_pendingWriters)
      /\ m_locking' = u <=> m_locking = u
      /\ m_locking = u => m_writers' = m_writers
  BY LockOfOthers DEF PInv
<1>2. place'[u] = place[u]
  BY PlaceOfOthers DEF PInv
<1>3. /\ pc'[u] = pc[u] /\ owner'[u] = owner[u]
      /\ m_threadedHandles'[u] = m_threadedHandles[u]
  BY PoolOfOthers DEF PInv
<1>4. (Holds(u)' <=> Holds(u)) /\ (Running(u)' <=> Running(u)) /\ (u \in Users' <=> u \in Users)
  BY <1>1, <1>3 DEF Holds, Running, Users
<1>5. WriteDepth(u)' = WriteDepth(u) /\ (Shares(u)' <=> Shares(u))
  BY <1>3, <1>4 DEF WriteDepth, At, Shares
<1>6. LocksOf(u) /\ CountOf(u) /\ UseOf(u) /\ CallsOf(u)
  BY DEF PInv, FollowInv, CallsInv
<1>7. LocksOf(u)'
  BY <1>1, <1>3, <1>5, <1>6 DEF LocksOf
<1>8. CountOf(u)' /\ UseOf(u)'
  BY <1>2, <1>3, <1>4, <1>6 DEF CountOf, UseOf
<1>9. nCalls' >= nCalls /\ nCalls \in Nat /\ nCalls' \in Nat /\ m_threadedHandles[u].reference \in Nat
  <2>1. nCalls \in 0..MaxCalls /\ m_threadedHandles[u].reference \in 0..MaxCalls
    BY DEF PInv, PoolTypeOK
  <2>2. UNCHANGED nCalls \/ Call
    BY NumberOfCalls
  <2> QED BY <2>1, <2>2 DEF Call
<1>10. CallsOf(u)'
  BY <1>3, <1>6, <1>9 DEF CallsOf
<1> QED BY <1>7, <1>8, <1>10 DEF Follows

\* The thread itself: its locks.
LEMMA LocksFollow ==
    ASSUME PInv, NEW t \in Threads, Step(t)
    PROVE  LocksOf(t)'
<1> DEFINE ref == m_threadedHandles[t]
<1>0. IInv /\ CInv /\ PoolTypeOK /\ LocksOf(t) /\ UseOf(t)
  BY DEF PInv, FollowInv
<1>t. /\ pc \in [Threads -> Places] /\ owner \in [Threads -> {"none", "drain", "blockade"}]
      /\ m_threadedHandles \in [Threads -> References] /\ ref \in References
  BY <1>0 DEF PoolTypeOK, References
<1>h. Holds(t) <=> ref.reference > 0
  BY DEF Holds
<1>n. NoReference.reference = 0 /\ \A type, hint : Reference(type, hint).reference = 0
  BY DEF NoReference, Reference
<1>1. CASE \E type \in Types, hint \in BOOLEAN : GetHandle(t, type, hint)
  <2>1. lockShared(t) /\ pc[t] = "idle" /\ ~Holds(t) /\ pc'[t] = "initialize"
        /\ UNCHANGED owner /\ ~Holds(t)'
    BY <1>1, <1>t, <1>n DEF GetHandle, At, Goto, Holds
  <2> QED BY <2>1, <1>0, AfterLockShared DEF Sharing
<1>2. CASE InitializeAgain(t)
  <2>1. lockShared(t) /\ pc[t] = "again" /\ pc'[t] = "initialize"
        /\ UNCHANGED <<owner, m_threadedHandles>>
    BY <1>2, <1>t DEF InitializeAgain, At, Goto
  <2>2. ~Holds(t) /\ ~Holds(t)'
    BY <2>1, <1>0 DEF UseOf, Holds
  <2> QED BY <2>1, <2>2, <1>0, AfterLockShared DEF Sharing
<1>3. CASE Close(t) \/ Purge(t)
  <2>1. lockShared(t) /\ pc[t] = "idle" /\ ~Holds(t) /\ pc'[t] \in {"suspend", "purge"}
        /\ UNCHANGED <<owner, m_threadedHandles>> /\ (pc'[t] = "suspend" => owner[t] = "none")
    BY <1>3, <1>t DEF Close, Purge, At, Goto
  <2>2. ~Holds(t)'
    BY <2>1 DEF Holds
  <2> QED BY <2>1, <2>2, <1>0, AfterLockShared DEF Sharing
<1>4. CASE NotInitialized(t) \/ Unshare(t) \/ Suspend(t) \/ PurgeNow(t)
  <2>1. /\ unlockShared(t) /\ UNCHANGED <<owner, m_threadedHandles>>
        /\ pc[t] \in {"initialize", "unshare", "suspend", "purge"}
        /\ pc'[t] \in {"blockedInit", "uncount", "close", "idle"}
        /\ pc'[t] = "close" => pc[t] = "suspend"
    BY <1>4, <1>t DEF NotInitialized, Unshare, Suspend, PurgeNow, At, Goto
  <2>2. ~Holds(t)'
    BY <2>1, <1>0 DEF UseOf, Holds
  <2>3. pc'[t] = "close" => owner[t] = "none"
    BY <2>1, <1>0 DEF LocksOf
  <2> QED BY <2>1, <2>2, <2>3, <1>0, AfterUnlockShared DEF Sharing, Shared
<1>5. CASE Exceed(t) \/ LeaveFailed(t)
  <2>1. /\ unlockShared(t) /\ UNCHANGED owner /\ pc[t] \in {"flowOut", "failed"}
        /\ pc'[t] = "idle" /\ ~Holds(t)'
    BY <1>5, <1>t, <1>n DEF Exceed, LeaveFailed, GiveUp, At, Goto, Holds
  <2> QED BY <2>1, <1>0, AfterUnlockShared DEF Sharing, Shared
<1>6. CASE LockToInitialize(t) \/ LockToDrain(t) \/ Blockade(t)
  <2>1. /\ lock(t) /\ UNCHANGED <<owner, m_threadedHandles>>
        /\ pc[t] \in {"blockedInit", "close", "idle"} /\ (pc[t] = "idle" => ~Holds(t))
        /\ pc'[t] \in {"initializing", "drain", "blockade"}
        /\ (pc'[t] = "drain" => pc[t] = "close") /\ (pc'[t] = "blockade" => owner[t] = "none")
    BY <1>6, <1>t DEF LockToInitialize, LockToDrain, Blockade, At, Goto
  <2>2. ~Holds(t) /\ ~Holds(t)'
    BY <2>1, <1>0 DEF UseOf, Holds
  <2>3. pc'[t] \in {"drain", "blockade"} => owner[t] = "none"
    BY <2>1, <1>0 DEF LocksOf
  <2> QED BY <2>1, <2>2, <2>3, <1>0, AfterLock DEF Locking
<1>7. CASE InitializeNow(t)
  <2>1. /\ unlock(t) /\ UNCHANGED owner /\ pc[t] = "initializing"
        /\ pc'[t] \in {"again", "idle"}
        /\ m_threadedHandles' = m_threadedHandles \/ m_threadedHandles'[t] = NoReference
    BY <1>7, <1>t DEF InitializeNow, GiveUp, At, Goto
  <2>2. ~Holds(t)'
    BY <2>1, <1>0, <1>n DEF UseOf, Holds
  <2> QED BY <2>1, <2>2, <1>0, AfterUnlock
<1>8. CASE Drained(t) \/ Unblockade(t)
  <2>1. /\ unlock(t) /\ owner'[t] = "none" /\ owner[t] # "none" /\ pc[t] = "idle"
        /\ pc'[t] = "idle" /\ UNCHANGED m_threadedHandles /\ ~Holds(t)
    BY <1>8, <1>t DEF Drained, Unblockade, At
  <2>2. ~Holds(t)'
    BY <2>1 DEF Holds
  <2> QED BY <2>1, <2>2, <1>0, AfterUnlock
<1>9. CASE Initialized(t) \/ FlowOut(t) \/ TakeNone(t) \/ (\E h \in Handles : TakeFree(t, h))
           \/ Reuse(t) \/ Generate(t) \/ SetupFails(t)
  <2>1. /\ UNCHANGED <<lockVars, owner>> /\ Running(t)
        /\ pc[t] \in {"initialize", "flowOut", "take", "reuse", "generate"}
        /\ pc'[t] \in Shared \/ (pc'[t] = "idle" /\ (Reuse(t) \/ Generate(t)))
    BY <1>9, <1>t DEF Initialized, FlowOut, TakeNone, TakeFree, Reuse, Generate, SetupFails,
                      At, Goto, Shared
  <2>2. Reuse(t) \/ Generate(t) => m_threadedHandles'[t].reference = 1
    <3>1. CASE Reuse(t)
      BY <3>1, <1>t DEF Reuse, References
    <3>2. CASE Generate(t)
      <4> DEFINE h == CHOOSE x \in Handles : x \notin Alive
      <4>1. m_threadedHandles' = [m_threadedHandles EXCEPT ![t] = [ref EXCEPT !.handle = h, !.reference = 1]]
        BY <3>2 DEF Generate
      <4> HIDE DEF h
      <4> QED BY <4>1, <1>t DEF References
    <3> QED BY <3>1, <3>2
  <2>3. Shares(t) /\ Shares(t)'
    BY <2>1, <2>2 DEF Shares, Shared, Sharing, Holds
  <2>4. WriteDepth(t)' = WriteDepth(t) /\ pc'[t] \notin {"suspend", "close", "drain", "blockade"}
    BY <2>1 DEF WriteDepth, At, Locking, Shared
  <2> QED BY <2>1, <2>3, <2>4, <1>0, AfterNoLock DEF lockVars
<1>10. CASE Release(t) \/ GetSame(t) \/ FlowBack(t)
  <2>1. /\ UNCHANGED <<lockVars, owner>> /\ Running(t) /\ pc[t] = "idle" /\ ref.reference > 0
        /\ pc'[t] = "unshare" \/ (pc'[t] = "idle" /\ m_threadedHandles'[t].reference > 0)
    BY <1>10, <1>t, <1>h DEF Release, GetSame, FlowBack, At, Goto, References
  <2>2. Shares(t) /\ Shares(t)'
    BY <2>1 DEF Shares, Shared, Holds
  <2>3. WriteDepth(t)' = WriteDepth(t) /\ pc'[t] \notin {"suspend", "close", "drain", "blockade"}
    BY <2>1 DEF WriteDepth, At, Locking
  <2> QED BY <2>1, <2>2, <2>3, <1>0, AfterNoLock DEF lockVars
<1>11. CASE Uncount(t)
  <2>1. UNCHANGED <<lockVars, owner, m_threadedHandles>> /\ Running(t) /\ pc[t] = "uncount" /\ pc'[t] = "idle"
    BY <1>11, <1>t DEF Uncount, At, Goto
  <2>2. ~Shares(t) /\ ~Shares(t)'
    BY <2>1, <1>0 DEF Shares, Shared, Sharing, Holds, UseOf
  <2>3. WriteDepth(t)' = WriteDepth(t)
    BY <2>1 DEF WriteDepth, At, Locking
  <2> QED BY <2>1, <2>2, <2>3, <1>0, AfterNoLock DEF lockVars
<1>12. CASE Drain(t) \/ Blockaded(t)
  <2>1. /\ UNCHANGED <<lockVars, m_threadedHandles>> /\ Running(t) /\ pc[t] \in {"drain", "blockade"}
        /\ pc'[t] = "idle" /\ owner'[t] \in {"drain", "blockade"}
    BY <1>12, <1>t DEF Drain, Blockaded, At, Goto
  <2>2. ~Shares(t) /\ ~Shares(t)'
    BY <2>1, <1>0 DEF Shares, Shared, Sharing, Holds, UseOf
  <2>3. WriteDepth(t)' = WriteDepth(t)
    BY <2>1, <1>0 DEF WriteDepth, At, Locking, LocksOf
  <2> QED BY <2>1, <2>2, <2>3, <1>0, AfterNoLock DEF lockVars
<1>13. CASE Woken(t) \/ Spurious(t)
  <2>1. UNCHANGED <<pc, owner, m_threadedHandles>>
        /\ (LockWakes(t) \/ SpuriousWakeup(t) \/ UNCHANGED lockVars)
    BY <1>13 DEF Woken, Spurious, poolVars
  <2>2. CASE UNCHANGED lockVars
    BY <2>1, <2>2, <1>0 DEF LocksOf, lockVars, Shares, WriteDepth, At, Running, Holds
  <2>3. Holds(t) => pc[t] = "idle"
    BY <1>0 DEF UseOf
  <2> QED BY <2>1, <2>2, <2>3, <1>0, AfterWakeup
<1> QED BY <1>1, <1>2, <1>3, <1>4, <1>5, <1>6, <1>7, <1>8, <1>9, <1>10, <1>11, <1>12, <1>13
        DEF Step, GoOn, Calls

\* The thread itself: its handle.  After the step it has one if it has just taken or
\* opened one, or had one and has not given it back.
LEMMA HandleFollows ==
    ASSUME PInv, NEW t \in Threads, Step(t)
    PROVE  UseOf(t)' /\ CallsOf(t)'
<1> DEFINE ref == m_threadedHandles[t]
           new == m_threadedHandles'[t]
<1>0. PoolTypeOK /\ UseOf(t) /\ CallsOf(t)
  BY DEF PInv, FollowInv, CallsInv
<1>t. /\ pc \in [Threads -> Places]
      /\ m_threadedHandles \in [Threads -> References] /\ ref \in References
      /\ nCalls \in 0..MaxCalls /\ MaxCalls \in Nat
  BY <1>0, HandlePoolAssumption DEF PoolTypeOK, References
<1>r. ref.reference \in Nat /\ ref.handle \in Handles \cup {NoHandle}
  BY <1>t DEF References
<1>p. PoolTypeOK'
  BY TypeStep DEF PInv
<1>m. m_threadedHandles' \in [Threads -> References] /\ new \in References
  BY <1>p DEF PoolTypeOK, References
<1>n. /\ NoReference.reference = 0 /\ NoReference.handle = NoHandle
      /\ \A type, hint : Reference(type, hint).reference = 0 /\ Reference(type, hint).handle = NoHandle
  BY DEF NoReference, Reference
<1>g. NoHandle \notin Handles
  BY DEF NoHandle, Handles
<1>c. UNCHANGED nCalls \/ (nCalls' = nCalls + 1)
  BY NumberOfCalls DEF Call
<1>u. (t \in Users <=> ref.handle # NoHandle) /\ (t \in Users' <=> new.handle # NoHandle)
  BY DEF Users
<1>h. (Holds(t) <=> ref.reference > 0) /\ (Holds(t)' <=> new.reference > 0)
  BY DEF Holds
<1>i. /\ ref.handle # NoHandle <=> pc[t] = "reuse" \/ ref.reference > 0
      /\ ref.reference > 0 => pc[t] = "idle"
      /\ ref.reference <= nCalls /\ (pc[t] # "idle" => nCalls > 0)
  BY <1>0, <1>u, <1>h DEF UseOf, CallsOf
<1> SUFFICES /\ new.handle # NoHandle <=> pc'[t] = "reuse" \/ new.reference > 0
             /\ new.reference > 0 => pc'[t] = "idle"
             /\ new.reference <= nCalls' /\ (pc'[t] # "idle" => nCalls' > 0)
  BY <1>u, <1>h DEF UseOf, CallsOf
<1>1. CASE Calls(t)
  <2>1. CASE GetSame(t)
    <3>1. new.handle = ref.handle /\ new.reference = ref.reference + 1 /\ nCalls' = nCalls + 1
          /\ pc'[t] = pc[t] /\ pc[t] = "idle" /\ ref.reference > 0
      BY <2>1, <1>t, <1>h DEF GetSame, Call, At, References
    <3> QED BY <3>1, <1>i, <1>r, <1>t
  <2>2. CASE ~GetSame(t)
    <3>1. new = ref \/ (new.handle = NoHandle /\ new.reference = 0)
      BY <1>1, <2>2, <1>t, <1>n DEF Calls, GetHandle, Purge, Close, Blockade
    <3>2. nCalls' = nCalls + 1 /\ pc'[t] \in {"initialize", "purge", "suspend", "blockade"}
          /\ pc[t] = "idle" /\ ~Holds(t)
      BY <1>1, <2>2, <1>t DEF Calls, GetHandle, Purge, Close, Blockade, Call, At, Goto
    <3> QED BY <3>1, <3>2, <1>i, <1>r, <1>t, <1>h
  <2> QED BY <2>1, <2>2
<1>2. CASE Spurious(t) \/ Woken(t)
  BY <1>2, <1>i, <1>c, <1>r, <1>t DEF Spurious, Woken, poolVars
<1>3. CASE /\ UNCHANGED <<m_threadedHandles, nCalls>>
           /\ pc[t] # "reuse" /\ pc'[t] # "reuse"
           /\ pc[t] # "idle" \/ (~Holds(t) /\ pc'[t] = "idle")
  BY <1>3, <1>i, <1>h, <1>r
<1>4. CASE /\ m_threadedHandles' = [m_threadedHandles EXCEPT ![t] = NoReference]
           /\ UNCHANGED nCalls /\ pc'[t] # "reuse" /\ pc[t] # "idle"
  BY <1>4, <1>i, <1>n, <1>t
<1>5. CASE Initialized(t) \/ NotInitialized(t) \/ LockToInitialize(t) \/ InitializeAgain(t)
           \/ FlowOut(t) \/ TakeNone(t) \/ Unshare(t) \/ Uncount(t) \/ Suspend(t)
           \/ LockToDrain(t) \/ Drain(t) \/ Blockaded(t) \/ PurgeNow(t)
           \/ Drained(t) \/ Unblockade(t)
  BY <1>3, <1>5, <1>t
     DEF Initialized, NotInitialized, LockToInitialize, InitializeAgain, FlowOut, TakeNone,
         Unshare, Uncount, Suspend, LockToDrain, Drain, Blockaded, PurgeNow, Drained,
         Unblockade, At, Goto
<1>6. CASE InitializeNow(t) \/ Exceed(t) \/ LeaveFailed(t)
  BY <1>3, <1>4, <1>6, <1>t DEF InitializeNow, Exceed, LeaveFailed, GiveUp, At, Goto
<1>7. ASSUME NEW h \in Handles, TakeFree(t, h)
      PROVE  /\ new.handle # NoHandle <=> pc'[t] = "reuse" \/ new.reference > 0
             /\ new.reference > 0 => pc'[t] = "idle"
             /\ new.reference <= nCalls' /\ (pc'[t] # "idle" => nCalls' > 0)
  <2>1. new.handle = h /\ new.reference = ref.reference /\ pc[t] = "take" /\ pc'[t] = "reuse"
        /\ UNCHANGED nCalls
    BY <1>7, <1>t DEF TakeFree, At, Goto, References
  <2> QED BY <2>1, <1>g, <1>i, <1>r, <1>t
<1>8. CASE Reuse(t)
  <2>1. new.handle = ref.handle /\ new.reference = 1 /\ pc[t] = "reuse" /\ pc'[t] = "idle"
        /\ UNCHANGED nCalls
    BY <1>8, <1>t DEF Reuse, At, Goto, References
  <2> QED BY <2>1, <1>i, <1>r, <1>t
<1>9. CASE Generate(t)
  <2> DEFINE h == CHOOSE x \in Handles : x \notin Alive
  <2>1. h \in Handles /\ pc[t] = "generate" /\ pc'[t] = "idle" /\ UNCHANGED nCalls
    BY <1>9, <1>t DEF Generate, At, Goto
  <2>2. m_threadedHandles' = [m_threadedHandles EXCEPT ![t] = [ref EXCEPT !.handle = h, !.reference = 1]]
    BY <1>9 DEF Generate
  <2> HIDE DEF h
  <2>3. new.handle = h /\ new.reference = 1
    BY <2>2, <1>t DEF References
  <2> QED BY <2>1, <2>3, <1>g, <1>i, <1>r, <1>t
<1>10. CASE SetupFails(t)
  <2>1. new.handle = NoHandle /\ new.reference = ref.reference /\ pc[t] \in {"reuse", "generate"}
        /\ pc'[t] = "failed" /\ UNCHANGED nCalls
    BY <1>10, <1>t DEF SetupFails, At, Goto, References
  <2> QED BY <2>1, <1>i, <1>r, <1>t
<1>11. CASE Release(t)
  <2>1. new.handle = ref.handle /\ new.reference = ref.reference - 1 /\ ref.reference > 1
        /\ pc[t] = "idle" /\ pc'[t] = "idle" /\ UNCHANGED nCalls
    BY <1>11, <1>t DEF Release, At, References
  <2> QED BY <2>1, <1>i, <1>r, <1>t
<1>12. CASE FlowBack(t)
  <2>1. new = NoReference /\ ref.reference = 1 /\ pc'[t] = "unshare" /\ UNCHANGED nCalls
    BY <1>12, <1>t DEF FlowBack, At, Goto
  <2> QED BY <2>1, <1>i, <1>n, <1>r, <1>t
<1> QED BY <1>1, <1>2, <1>5, <1>6, <1>7, <1>8, <1>9, <1>10, <1>11, <1>12 DEF Step, GoOn

\* The thread itself: its place in the counter.
LEMMA CountFollows ==
    ASSUME PInv, NEW t \in Threads, Step(t)
    PROVE  CountOf(t)'
<1>0. CountOf(t) /\ UseOf(t) /\ UseOf(t)' /\ PoolTypeOK
  BY HandleFollows DEF PInv, FollowInv
<1>t. pc \in [Threads -> Places] /\ place \in [Threads -> {"out", "normals", "writers", "counted"}]
  BY DEF PInv, PoolTypeOK, CInv, CounterTypeOK
<1>i. place[t] \in IF pc[t] \in {"reuse", "generate", "unshare", "uncount"} \/ Holds(t) THEN {"counted"}
                   ELSE IF pc[t] = "take" THEN {"normals", "writers", "counted"} ELSE {"out"}
  BY <1>0 DEF CountOf
<1>h. Holds(t) => pc[t] = "idle"
  BY <1>0 DEF UseOf
<1>k. Holds(t)' => pc'[t] = "idle"
  BY <1>0 DEF UseOf
<1> DEFINE Goal == place'[t] \in
        IF pc'[t] \in {"reuse", "generate", "unshare", "uncount"} \/ Holds(t)' THEN {"counted"}
        ELSE IF pc'[t] = "take" THEN {"normals", "writers", "counted"} ELSE {"out"}
<1> SUFFICES Goal
  BY DEF CountOf
<1>1. CASE FlowOut(t)
  <2>1. pc'[t] = "take" /\ place'[t] = FromNormals(Hint(t))
    BY <1>1, <1>t DEF FlowOut, At, Goto, Increase, GoTo
  <2> QED BY <2>1, <1>k DEF FromNormals
<1>2. CASE SetupFails(t) \/ Uncount(t)
  <2>1. place'[t] = "out" /\ pc'[t] \in {"failed", "idle"}
    BY <1>2, <1>t DEF SetupFails, Uncount, Goto, Decrease
  <2>2. ~Holds(t)'
    <3>1. CASE SetupFails(t)
      BY <3>1, <1>t, <1>k DEF SetupFails, Goto
    <3>2. CASE Uncount(t)
      BY <3>2, <1>h DEF Uncount, At, Holds
    <3> QED BY <1>2, <3>1, <3>2
  <2> QED BY <2>1, <2>2
<1>3. CASE Woken(t)
  <2>1. (Holds(t)' <=> Holds(t)) /\ pc' = pc
    BY <1>3 DEF Woken, poolVars, Holds
  <2>2. CASE UNCHANGED place
    BY <2>1, <2>2, <1>i
  <2>3. CASE CounterWakes(t)
    <3>1. place[t] \in {"normals", "writers"}
      BY <2>3 DEF CounterWakes, NormalWoken, WriterHintWoken
    <3>2. place'[t] \in {"normals", "writers", "counted"}
      BY <2>3, <1>t DEF CounterWakes, NormalWoken, WriterHintWoken, GoTo, FromNormals, FromWriters
    <3> QED BY <3>1, <3>2, <2>1, <1>i
  <2> QED BY <1>3, <2>2, <2>3 DEF Woken, counterVars
<1>4. CASE UNCHANGED place /\ (Holds(t)' <=> Holds(t))
           /\ pc[t] \notin {"take", "reuse", "generate", "unshare", "uncount"}
           /\ pc'[t] \notin {"take", "reuse", "generate", "unshare", "uncount"}
  BY <1>4, <1>i
<1>5. CASE UNCHANGED place /\ pc[t] \in {"reuse", "generate", "unshare", "uncount"}
           /\ (pc'[t] \in {"reuse", "generate", "unshare", "uncount"} \/ Holds(t)')
  BY <1>5, <1>i
<1>6. CASE Reuse(t) \/ Generate(t)
  <2>1. UNCHANGED place /\ pc[t] \in {"reuse", "generate"} /\ pc'[t] = "idle"
    BY <1>6, <1>t DEF Reuse, Generate, At, Goto, counterVars
  <2>2. Holds(t)'
    <3> DEFINE ref == m_threadedHandles[t]
    <3>t. m_threadedHandles \in [Threads -> References]
      BY <1>0 DEF PoolTypeOK, References
    <3>1. CASE Reuse(t)
      BY <3>1, <3>t DEF Reuse, References, Holds
    <3>2. CASE Generate(t)
      <4> DEFINE h == CHOOSE x \in Handles : x \notin Alive
      <4>1. m_threadedHandles' = [m_threadedHandles EXCEPT ![t] = [ref EXCEPT !.handle = h, !.reference = 1]]
        BY <3>2 DEF Generate
      <4> HIDE DEF h
      <4> QED BY <4>1, <3>t DEF References, Holds
    <3> QED BY <1>6, <3>1, <3>2
  <2> QED BY <2>1, <2>2, <1>5
<1>7. CASE TakeNone(t) \/ \E h \in Handles : TakeFree(t, h)
  BY <1>7, <1>t DEF TakeNone, TakeFree, At, Goto, counterVars
<1>8. CASE GetSame(t) \/ Release(t) \/ FlowBack(t)
  <2>t. m_threadedHandles \in [Threads -> References]
    BY <1>0 DEF PoolTypeOK, References
  <2>1. UNCHANGED place /\ Holds(t)
        /\ (pc'[t] = "unshare" \/ m_threadedHandles'[t].reference > 0)
    BY <1>8, <1>t, <2>t DEF GetSame, Release, FlowBack, At, Goto, counterVars, Holds, References
  <2> QED BY <2>1, <1>i DEF Holds
<1>9. CASE Unshare(t)
  BY <1>9, <1>5, <1>t DEF Unshare, At, Goto, counterVars
<1>10. CASE InitializeNow(t) \/ Exceed(t) \/ LeaveFailed(t) \/ \E type \in Types, hint \in BOOLEAN : GetHandle(t, type, hint)
  <2>1. UNCHANGED place /\ pc[t] \in {"initializing", "flowOut", "failed", "idle"} /\ ~Holds(t)
        /\ pc'[t] \in {"again", "idle", "initialize"}
    BY <1>10, <1>t, <1>h
       DEF InitializeNow, Exceed, LeaveFailed, GetHandle, GiveUp, At, Goto, counterVars, Refused
  <2>2. ~Holds(t)'
    <3>t. m_threadedHandles \in [Threads -> References]
      BY <1>0 DEF PoolTypeOK, References
    <3>1. UNCHANGED m_threadedHandles \/ m_threadedHandles'[t].reference = 0
      BY <1>10, <3>t DEF InitializeNow, Exceed, LeaveFailed, GetHandle, GiveUp, NoReference, Reference
    <3> QED BY <3>1, <2>1 DEF Holds
  <2> QED BY <2>1, <2>2, <1>4
<1>11. CASE \/ Initialized(t) \/ NotInitialized(t) \/ LockToInitialize(t) \/ InitializeAgain(t)
            \/ Suspend(t) \/ LockToDrain(t) \/ Drain(t) \/ Drained(t) \/ Blockaded(t)
            \/ Unblockade(t) \/ PurgeNow(t) \/ Purge(t) \/ Close(t) \/ Blockade(t)
  <2>1. UNCHANGED <<place, m_threadedHandles>>
    BY <1>11 DEF Initialized, NotInitialized, LockToInitialize, InitializeAgain, Suspend,
         LockToDrain, Drain, Drained, Blockaded, Unblockade, PurgeNow, Purge, Close, Blockade,
         counterVars
  <2>2. Holds(t)' <=> Holds(t)
    BY <2>1 DEF Holds
  <2>3. /\ pc[t] \notin {"take", "reuse", "generate", "unshare", "uncount"}
        /\ pc'[t] \notin {"take", "reuse", "generate", "unshare", "uncount"}
    BY <1>11, <1>t DEF Initialized, NotInitialized, LockToInitialize, InitializeAgain, Suspend,
         LockToDrain, Drain, Drained, Blockaded, Unblockade, PurgeNow, Purge, Close, Blockade,
         At, Goto
  <2> QED BY <2>1, <2>2, <2>3, <1>4
<1>12. CASE Spurious(t)
  BY <1>12, <1>i DEF Spurious, counterVars, Holds
<1> QED BY <1>1, <1>2, <1>3, <1>6, <1>7, <1>8, <1>9, <1>10, <1>11, <1>12 DEF Step, GoOn, Calls

-----------------------------------------------------------------------------
(* The handles.                                                            *)

\* While a thread has the write lock, no other one has the shared lock.
LEMMA OwnerExcludes ==
    ASSUME PInv, NEW t \in Threads, m_locking = t, NEW u \in Threads, u # t
    PROVE  ~Shares(u) /\ u \notin Users /\ WriteDepth(u) = 0
<1>1. u \notin Readers
  BY SharedLockAssumption DEF PInv, IInv, LockInv, Exclusion
<1>2. m_threadedReaders[u] = 0
  BY <1>1 DEF Readers, PInv, IInv, LockTypeOK
<1>3. LocksOf(u) /\ UseOf(u)
  BY DEF PInv, FollowInv
<1> QED BY <1>2, <1>3 DEF LocksOf, UseOf, Shares, Shared

\* A thread inside drain, or the owner of the database, has the write lock.
LEMMA OwnerLocks ==
    ASSUME PInv, NEW t \in Threads, owner[t] # "none" \/ (pc[t] \in Locking /\ Running(t))
    PROVE  m_locking = t
<1>1. LocksOf(t)
  BY DEF PInv, FollowInv
<1>2. WriteDepth(t) # 0
  BY DEF WriteDepth, At
<1> QED BY <1>1, <1>2 DEF LocksOf

\* No more of something than threads that each have one of it.
LEMMA OnePerThread ==
    ASSUME NEW C, IsFiniteSet(C), NEW n \in Nat, Cardinality(C) <= n,
           NEW U \in SUBSET C, NEW f, NEW S, \A x \in S : \E u \in U : f[u] = x
    PROVE  Cardinality(S) <= n
<1> DEFINE g == [u \in U |-> f[u]]
           T == {f[u] : u \in U}
<1>1. IsFiniteSet(U) /\ Cardinality(U) <= Cardinality(C)
  BY FS_Subset
<1>2. g \in Surjection(U, T)
  BY DEF Surjection
<1>3. IsFiniteSet(T) /\ Cardinality(T) <= Cardinality(U)
  BY <1>1, <1>2, FS_Surjection
<1>4. S \in SUBSET T
  OBVIOUS
<1>5. IsFiniteSet(S) /\ Cardinality(S) <= Cardinality(T)
  BY <1>3, <1>4, FS_Subset
<1>6. /\ Cardinality(S) \in Nat /\ Cardinality(T) \in Nat /\ Cardinality(U) \in Nat
      /\ Cardinality(C) \in Nat
  BY <1>1, <1>3, <1>5, FS_CardinalityType
<1> HIDE DEF T
<1> QED BY <1>1, <1>3, <1>5, <1>6

\* A set of open handles is finite, and a part of it is no larger.
LEMMA FewerHandles ==
    ASSUME NEW A \in SUBSET Handles, NEW B \in SUBSET A, Cardinality(A) <= MaxHandles
    PROVE  Cardinality(B) <= MaxHandles
<1>1. IsFiniteSet(Handles)
  BY FS_Interval, HandleCounterAssumption DEF Handles
<1>2. IsFiniteSet(A)
  BY <1>1, FS_Subset
<1>3. IsFiniteSet(B) /\ Cardinality(B) <= Cardinality(A)
  BY <1>2, FS_Subset
<1>4. Cardinality(A) \in Nat /\ Cardinality(B) \in Nat
  BY <1>2, <1>3, FS_CardinalityType
<1> QED BY <1>3, <1>4, HandleCounterAssumption

\* What the invariant says of the handles, spelled out.
LEMMA HandleFacts ==
    ASSUME PInv
    PROVE  /\ \A u \in Users : /\ m_threadedHandles[u].handle \in m_handles[SlotOf(u)]
                               /\ \A s \in Types : m_threadedHandles[u].handle \notin m_frees[s]
                               /\ SlotOf(u) \in Types
           /\ \A u, v \in Users :
                 m_threadedHandles[u].handle = m_threadedHandles[v].handle => u = v
           /\ \A s \in Types : m_frees[s] \subseteq m_handles[s]
           /\ \A s, r \in Types : s # r => m_handles[s] \cap m_handles[r] = {}
           /\ \A s \in Types : \A h \in m_handles[s] \ m_frees[s] :
                 \E u \in Users : m_threadedHandles[u].handle = h /\ SlotOf(u) = s
           /\ Alive \subseteq Handles /\ Cardinality(Alive) <= MaxHandles
           /\ \A s \in Types : m_handles[s] \subseteq Alive
<1>1. \A u \in Threads : SlotOf(u) \in Types
  BY DEF PInv, PoolTypeOK, SlotOf
<1>2. Alive \subseteq Handles /\ \A s \in Types : m_handles[s] \subseteq Alive
  BY DEF PInv, PoolTypeOK, Alive
<1>3. HandleIsOwn /\ NoLeak /\ Cardinality(Alive) <= MaxHandles
  BY DEF PInv, HandleInv
<1> QED BY <1>1, <1>2, <1>3 DEF HandleIsOwn, NoLeak, Users

\* A step that moves no handle.
LEMMA HandlesStay ==
    ASSUME PInv, UNCHANGED <<m_handles, m_frees>>,
           \A u \in Threads : u \in Users' <=> u \in Users,
           \A u \in Users : /\ m_threadedHandles'[u].handle = m_threadedHandles[u].handle
                            /\ m_threadedHandles'[u].type = m_threadedHandles[u].type
    PROVE  HandleInv'
<1>1. Users' = Users
  BY DEF Users
<1>2. \A u \in Users : SlotOf(u)' = SlotOf(u)
  BY DEF SlotOf
<1>3. Alive' = Alive
  BY DEF Alive
<1> QED BY <1>1, <1>2, <1>3, HandleFacts DEF HandleInv, HandleIsOwn, NoLeak

LEMMA TakeFreeStep ==
    ASSUME PInv, NEW t \in Threads, NEW h \in Handles, TakeFree(t, h)
    PROVE  HandleInv'
<1> DEFINE slot == SlotOf(t)
<1>t. /\ m_threadedHandles \in [Threads -> References] /\ slot \in Types
      /\ m_frees \in [Types -> SUBSET Handles]
  BY DEF PInv, PoolTypeOK, References, SlotOf
<1>1. /\ m_handles' = m_handles /\ h \in m_frees[slot]
      /\ m_frees' = [m_frees EXCEPT ![slot] = @ \ {h}]
      /\ m_threadedHandles'[t].handle = h /\ m_threadedHandles'[t].type = slot
      /\ \A u \in Threads \ {t} : m_threadedHandles'[u] = m_threadedHandles[u]
  BY <1>t DEF TakeFree, SlotOf, References
<1>2. t \notin Users
  BY DEF PInv, FollowInv, UseOf, TakeFree, At
<1>3. Users' = Users \cup {t}
  BY <1>1 DEF Users, Handles, NoHandle
<1>4. SlotOf(t)' = slot /\ \A u \in Users : SlotOf(u)' = SlotOf(u)
  BY <1>1, <1>2 DEF SlotOf, Users
<1>5. \A u \in Users : m_threadedHandles'[u].handle = m_threadedHandles[u].handle
  BY <1>1, <1>2 DEF Users
<1>6. \A s \in Types : m_frees'[s] = IF s = slot THEN m_frees[s] \ {h} ELSE m_frees[s]
  BY <1>1, <1>t
<1> HIDE DEF slot
<1>f. h \in m_handles[slot] /\ h \in m_frees[slot] /\ \A s \in Types : s # slot => h \notin m_handles[s]
  BY <1>1, <1>t, HandleFacts
<1>7. HandleIsOwn'
  <2>1. \A s \in Types : m_frees'[s] \subseteq m_handles'[s] /\ m_frees'[s] \subseteq m_frees[s]
    BY <1>1, <1>6, HandleFacts
  <2>2. h \in m_handles'[slot] /\ \A s \in Types : h \notin m_frees'[s]
    BY <1>1, <1>6, <1>f, HandleFacts
  <2>3. \A u \in Users : m_threadedHandles[u].handle # h
    BY <1>f, <1>t, HandleFacts
  <2> QED BY <1>1, <1>3, <1>4, <1>5, <2>1, <2>2, <2>3, HandleFacts DEF HandleIsOwn
<1>8. NoLeak'
  <2>1. ASSUME NEW s \in Types, NEW x \in m_handles'[s] \ m_frees'[s]
        PROVE  \E u \in Users' : m_threadedHandles'[u].handle = x /\ SlotOf(u)' = s
    <3>1. CASE x \in m_frees[s]
      BY <3>1, <1>1, <1>3, <1>4, <1>6, <2>1
    <3>2. CASE x \notin m_frees[s]
      BY <3>2, <2>1, <1>1, <1>3, <1>4, <1>5, HandleFacts
    <3> QED BY <3>1, <3>2
  <2> QED BY <2>1, <1>1, HandleFacts DEF NoLeak
<1>9. Alive' = Alive
  BY <1>1 DEF Alive
<1> QED BY <1>7, <1>8, <1>9, HandleFacts DEF HandleInv

LEMMA SetupFailsStep ==
    ASSUME PInv, NEW t \in Threads, SetupFails(t)
    PROVE  HandleInv'
<1> DEFINE slot == SlotOf(t)
           h == m_threadedHandles[t].handle
<1>t. /\ m_threadedHandles \in [Threads -> References] /\ slot \in Types
      /\ m_handles \in [Types -> SUBSET Handles]
  BY DEF PInv, PoolTypeOK, References, SlotOf
<1>1. /\ m_frees' = m_frees /\ m_handles' = [m_handles EXCEPT ![slot] = @ \ {h}]
      /\ m_threadedHandles'[t].handle = NoHandle
      /\ \A u \in Threads \ {t} : m_threadedHandles'[u] = m_threadedHandles[u]
  BY <1>t DEF SetupFails, References
<1>2. Users' = Users \ {t}
  BY <1>1 DEF Users
<1>3. \A u \in Users' : /\ u \in Users /\ u # t /\ SlotOf(u)' = SlotOf(u)
                        /\ m_threadedHandles'[u].handle = m_threadedHandles[u].handle
  BY <1>1, <1>2 DEF SlotOf, Users
<1>4. \A s \in Types : m_handles'[s] = IF s = slot THEN m_handles[s] \ {h} ELSE m_handles[s]
  BY <1>1, <1>t
<1>5. t \in Users \/ h = NoHandle
  BY DEF Users
<1>6. NoHandle \notin Handles /\ \A s \in Types : m_handles[s] \subseteq Handles
  BY <1>t DEF NoHandle, Handles
<1>u. t \in Users => slot \in Types /\ \A s \in Types : h \notin m_frees[s]
  BY HandleFacts
<1>v. \A u \in Users' : t \in Users => m_threadedHandles[u].handle # h
  BY <1>3, HandleFacts
<1> HIDE DEF slot, h
<1>7. HandleIsOwn'
  <2>1. \A s \in Types : m_frees'[s] \subseteq m_handles'[s]
    BY <1>1, <1>4, <1>5, <1>6, <1>u, HandleFacts
  <2>2. \A u \in Users' : m_threadedHandles'[u].handle \in m_handles'[SlotOf(u)']
    <3> SUFFICES ASSUME NEW u \in Users'
                 PROVE  m_threadedHandles'[u].handle \in m_handles'[SlotOf(u)']
      OBVIOUS
    <3>1. /\ u \in Users /\ SlotOf(u)' = SlotOf(u)
          /\ m_threadedHandles'[u].handle = m_threadedHandles[u].handle
      BY <1>3
    <3>2. SlotOf(u) \in Types /\ m_threadedHandles[u].handle \in m_handles[SlotOf(u)]
      BY <3>1, HandleFacts
    <3>3. m_threadedHandles[u].handle # h
      BY <3>2, <1>5, <1>6, <1>v
    <3> QED BY <3>1, <3>2, <3>3, <1>4
  <2> QED BY <1>1, <1>3, <2>1, <2>2, HandleFacts DEF HandleIsOwn
<1>8. NoLeak'
  <2>1. ASSUME NEW s \in Types, NEW x \in m_handles'[s] \ m_frees'[s]
        PROVE  \E u \in Users' : m_threadedHandles'[u].handle = x /\ SlotOf(u)' = s
    <3>1. x \in m_handles[s] \ m_frees[s] /\ (s = slot => x # h)
      BY <2>1, <1>1, <1>4
    <3>2. PICK u \in Users : m_threadedHandles[u].handle = x /\ SlotOf(u) = s
      BY <3>1, HandleFacts
    <3>3. u # t
      BY <3>1, <3>2 DEF slot, h
    <3> QED BY <3>2, <3>3, <1>2, <1>3
  <2> QED BY <2>1, <1>4, HandleFacts DEF NoLeak
<1>9. Alive' \subseteq Alive
  BY <1>4 DEF Alive
<1> QED BY <1>7, <1>8, <1>9, HandleFacts, FewerHandles DEF HandleInv

LEMMA FlowBackStep ==
    ASSUME PInv, NEW t \in Threads, FlowBack(t)
    PROVE  HandleInv'
<1> DEFINE slot == SlotOf(t)
           h == m_threadedHandles[t].handle
<1>t. /\ m_threadedHandles \in [Threads -> References] /\ slot \in Types
      /\ m_frees \in [Types -> SUBSET Handles]
  BY DEF PInv, PoolTypeOK, References, SlotOf
<1>1. /\ m_handles' = m_handles /\ m_frees' = [m_frees EXCEPT ![slot] = @ \cup {h}]
      /\ m_threadedHandles'[t].handle = NoHandle
      /\ \A u \in Threads \ {t} : m_threadedHandles'[u] = m_threadedHandles[u]
  BY <1>t DEF FlowBack, NoReference, Reference
<1>2. Users' = Users \ {t} /\ t \in Users
  <2>1. Holds(t)
    BY DEF FlowBack, Holds
  <2> QED BY <1>1, <2>1 DEF Users, PInv, FollowInv, UseOf
<1>3. \A u \in Users' : /\ u \in Users /\ u # t /\ SlotOf(u)' = SlotOf(u)
                        /\ m_threadedHandles'[u].handle = m_threadedHandles[u].handle
  BY <1>1, <1>2 DEF SlotOf, Users
<1>4. \A s \in Types : m_frees'[s] = IF s = slot THEN m_frees[s] \cup {h} ELSE m_frees[s]
  BY <1>1, <1>t
<1>u. h \in m_handles[slot]
  BY <1>2, HandleFacts
<1>v. \A u \in Users' : m_threadedHandles[u].handle # h
  BY <1>2, <1>3, HandleFacts
<1> HIDE DEF slot, h
<1>7. HandleIsOwn'
  <2>1. \A s \in Types : m_frees'[s] \subseteq m_handles'[s]
    BY <1>1, <1>4, <1>u, HandleFacts
  <2>2. \A u \in Users' : \A s \in Types : m_threadedHandles'[u].handle \notin m_frees'[s]
    <3> SUFFICES ASSUME NEW u \in Users', NEW s \in Types
                 PROVE  m_threadedHandles'[u].handle \notin m_frees'[s]
      OBVIOUS
    <3>1. u \in Users /\ m_threadedHandles'[u].handle = m_threadedHandles[u].handle
      BY <1>3
    <3>2. m_threadedHandles[u].handle \notin m_frees[s] /\ m_threadedHandles[u].handle # h
      BY <3>1, <1>v, HandleFacts
    <3> QED BY <3>1, <3>2, <1>4
  <2> QED BY <1>1, <1>3, <2>1, <2>2, HandleFacts DEF HandleIsOwn
<1>8. NoLeak'
  <2>1. ASSUME NEW s \in Types, NEW x \in m_handles'[s] \ m_frees'[s]
        PROVE  \E u \in Users' : m_threadedHandles'[u].handle = x /\ SlotOf(u)' = s
    <3>1. x \in m_handles[s] \ m_frees[s] /\ (s = slot => x # h)
      BY <2>1, <1>1, <1>4
    <3>2. PICK u \in Users : m_threadedHandles[u].handle = x /\ SlotOf(u) = s
      BY <3>1, HandleFacts
    <3>3. u # t
      BY <3>1, <3>2 DEF slot, h
    <3> QED BY <3>2, <3>3, <1>2, <1>3
  <2> QED BY <2>1, <1>1, HandleFacts DEF NoLeak
<1>9. Alive' = Alive
  BY <1>1 DEF Alive
<1> QED BY <1>7, <1>8, <1>9, HandleFacts DEF HandleInv

LEMMA DrainStep ==
    ASSUME PInv, NEW t \in Threads, Drain(t) \/ Drained(t)
    PROVE  HandleInv'
<1>1. m_locking = t
  BY OwnerLocks DEF Drain, Drained, At, Locking
<1>2. UseOf(t)
  BY DEF PInv, FollowInv
<1>3. t \notin Users
  BY <1>2 DEF UseOf, Drain, Drained, At
<1>4. Users = {}
  BY <1>1, <1>3, OwnerExcludes DEF Users
<1>5. Users' = {} /\ m_handles' = NoHandles /\ m_frees' = NoHandles
  BY <1>4 DEF Drain, Drained, Users
<1>6. Alive' = {}
  BY <1>5 DEF Alive, NoHandles
<1>7. Cardinality(Alive') <= MaxHandles
  BY <1>6, FS_EmptySet, HandleCounterAssumption
<1> QED BY <1>5, <1>7 DEF HandleInv, HandleIsOwn, NoLeak, NoHandles

LEMMA PurgeStep ==
    ASSUME PInv, NEW t \in Threads, PurgeNow(t)
    PROVE  HandleInv'
<1>1. /\ m_frees' = NoHandles /\ m_threadedHandles' = m_threadedHandles
      /\ \A s \in Types : m_handles'[s] = m_handles[s] \ m_frees[s] /\ m_frees'[s] = {}
  BY DEF PurgeNow, Purged, NoHandles
<1>2. Users' = Users /\ \A u \in Users : SlotOf(u)' = SlotOf(u)
  BY <1>1 DEF Users, SlotOf
<1>3. HandleIsOwn'
  BY <1>1, <1>2, HandleFacts DEF HandleIsOwn
<1>4. NoLeak'
  BY <1>1, <1>2, HandleFacts DEF NoLeak
<1>5. Alive' \subseteq Alive
  BY <1>1 DEF Alive
<1> QED BY <1>3, <1>4, <1>5, HandleFacts, FewerHandles DEF HandleInv

\* A new handle: beyond the limit only those in use are left, and each of their
\* threads is counted.
LEMMA GenerateStep ==
    ASSUME PInv, NEW t \in Threads, Generate(t), CInv',
           \A u \in Threads : CountOf(u)' /\ UseOf(u)'
    PROVE  HandleInv'
<1> DEFINE slot == SlotOf(t)
           h == CHOOSE x \in Handles : x \notin Alive
           ref == m_threadedHandles[t]
           handles == [m_handles EXCEPT ![slot] = @ \cup {h}]
<1>t. /\ m_threadedHandles \in [Threads -> References] /\ slot \in Types
      /\ m_handles \in [Types -> SUBSET Handles]
  BY DEF PInv, PoolTypeOK, References, SlotOf
<1>1. /\ h \in Handles /\ h \notin Alive
      /\ m_threadedHandles' = [m_threadedHandles EXCEPT ![t] = [ref EXCEPT !.handle = h, !.reference = 1]]
      /\ \/ isNumberOfHandlesAllowed(handles) /\ m_handles' = handles /\ UNCHANGED m_frees
         \/ m_handles' = Purged(handles) /\ m_frees' = NoHandles
  BY DEF Generate
<1>2. t \notin Users
  BY DEF PInv, FollowInv, UseOf, Generate, At
<1> HIDE DEF h
<1>3. /\ m_threadedHandles'[t].handle = h /\ m_threadedHandles'[t].type = slot
      /\ \A u \in Threads \ {t} : m_threadedHandles'[u] = m_threadedHandles[u]
  BY <1>1, <1>t DEF References, SlotOf
<1>4. Users' = Users \cup {t}
  BY <1>1, <1>3 DEF Users, Handles, NoHandle
<1>5. SlotOf(t)' = slot /\ \A u \in Users : /\ SlotOf(u)' = SlotOf(u)
                                            /\ m_threadedHandles'[u].handle = m_threadedHandles[u].handle
  BY <1>2, <1>3 DEF SlotOf, Users
<1>6. \A s \in Types : handles[s] = IF s = slot THEN m_handles[s] \cup {h} ELSE m_handles[s]
  BY <1>t
<1>7. \/ /\ isNumberOfHandlesAllowed(handles)
         /\ \A s \in Types : m_handles'[s] = handles[s] /\ m_frees'[s] = m_frees[s]
      \/ \A s \in Types : m_handles'[s] = handles[s] \ m_frees[s] /\ m_frees'[s] = {}
  BY <1>1 DEF Purged, NoHandles
<1>8. \A s \in Types : h \notin m_handles[s] /\ h \notin m_frees[s]
  BY <1>1, HandleFacts
<1> HIDE DEF slot, handles
<1>9. \A s \in Types : /\ m_frees'[s] \subseteq m_frees[s]
                       /\ m_handles[s] \ m_frees[s] \subseteq m_handles'[s]
                       /\ m_handles'[s] \subseteq m_handles[s] \cup (IF s = slot THEN {h} ELSE {})
                       /\ m_frees'[s] \subseteq m_handles'[s]
                       /\ m_handles'[s] \ m_frees'[s]
                             \subseteq (m_handles[s] \ m_frees[s]) \cup (IF s = slot THEN {h} ELSE {})
  <2> SUFFICES ASSUME NEW s \in Types
               PROVE  /\ m_frees'[s] \subseteq m_frees[s]
                      /\ m_handles[s] \ m_frees[s] \subseteq m_handles'[s]
                      /\ m_handles'[s] \subseteq m_handles[s] \cup (IF s = slot THEN {h} ELSE {})
                      /\ m_frees'[s] \subseteq m_handles'[s]
                      /\ m_handles'[s] \ m_frees'[s]
                            \subseteq (m_handles[s] \ m_frees[s]) \cup (IF s = slot THEN {h} ELSE {})
    OBVIOUS
  <2>1. m_frees[s] \subseteq m_handles[s]
    BY HandleFacts
  <2>2. handles[s] = m_handles[s] \cup (IF s = slot THEN {h} ELSE {})
    BY <1>6
  <2>3. \/ m_handles'[s] = handles[s] /\ m_frees'[s] = m_frees[s]
        \/ m_handles'[s] = handles[s] \ m_frees[s] /\ m_frees'[s] = {}
    BY <1>7
  <2> QED BY <2>1, <2>2, <2>3
<1>10. h \in m_handles'[slot]
  BY <1>6, <1>7, <1>8, <1>t
<1>11. HandleIsOwn'
  <2>1. \A u \in Users : /\ m_threadedHandles[u].handle \in m_handles'[SlotOf(u)]
                         /\ \A s \in Types : m_threadedHandles[u].handle \notin m_frees'[s]
                         /\ m_threadedHandles[u].handle # h
    <3> SUFFICES ASSUME NEW u \in Users
                 PROVE  /\ m_threadedHandles[u].handle \in m_handles'[SlotOf(u)]
                        /\ \A s \in Types : m_threadedHandles[u].handle \notin m_frees'[s]
                        /\ m_threadedHandles[u].handle # h
      OBVIOUS
    <3>1. /\ SlotOf(u) \in Types /\ m_threadedHandles[u].handle \in m_handles[SlotOf(u)]
          /\ \A s \in Types : m_threadedHandles[u].handle \notin m_frees[s]
      BY HandleFacts
    <3> QED BY <3>1, <1>8, <1>9
  <2>2. \A s \in Types : h \notin m_frees'[s]
    BY <1>8, <1>9
  <2>3. \A u \in Users' : /\ m_threadedHandles'[u].handle \in m_handles'[SlotOf(u)']
                          /\ \A s \in Types : m_threadedHandles'[u].handle \notin m_frees'[s]
    BY <1>3, <1>4, <1>5, <1>10, <2>1, <2>2
  <2>4. \A u, v \in Users' : m_threadedHandles'[u].handle = m_threadedHandles'[v].handle => u = v
    BY <1>3, <1>4, <1>5, <2>1, HandleFacts
  <2> QED BY <1>9, <2>3, <2>4 DEF HandleIsOwn
<1>12. ASSUME NEW s \in Types, NEW x \in m_handles'[s] \ m_frees'[s]
       PROVE  \E u \in Users' : m_threadedHandles'[u].handle = x /\ SlotOf(u)' = s
  <2>1. CASE x \in m_handles[s] \ m_frees[s]
    <3>1. PICK u \in Users : m_threadedHandles[u].handle = x /\ SlotOf(u) = s
      BY <2>1, HandleFacts
    <3> QED BY <3>1, <1>4, <1>5
  <2>2. CASE s = slot /\ x = h
    BY <2>2, <1>3, <1>4, <1>5
  <2> QED BY <2>1, <2>2, <1>9, <1>12
<1>13. NoLeak'
  <2>1. \A s, r \in Types : s # r => m_handles'[s] \cap m_handles'[r] = {}
    BY <1>8, <1>9, HandleFacts
  <2> QED BY <2>1, <1>12 DEF NoLeak
<1>14. Cardinality(Alive') <= MaxHandles
  <2>1. CASE isNumberOfHandlesAllowed(handles) /\ \A s \in Types : m_handles'[s] = handles[s]
    <3>1. Alive' = UNION {handles[s] : s \in Types}
      BY <2>1 DEF Alive
    <3> QED BY <2>1, <3>1 DEF isNumberOfHandlesAllowed
  <2>2. CASE \A s \in Types : m_frees'[s] = {}
    <3> DEFINE f == [u \in Users' |-> m_threadedHandles'[u].handle]
    <3>1. \A x \in Alive' : \E u \in Users' : f[u] = x
      <4> SUFFICES ASSUME NEW x \in Alive' PROVE \E u \in Users' : f[u] = x
        OBVIOUS
      <4>1. PICK s \in Types : x \in m_handles'[s]
        BY DEF Alive
      <4>2. x \in m_handles'[s] \ m_frees'[s]
        BY <4>1, <2>2
      <4> QED BY <4>2, <1>12
    <3>2. Users' \subseteq Counted'
      <4> SUFFICES ASSUME NEW u \in Users' PROVE u \in Counted'
        OBVIOUS
      <4>1. u \in Threads
        BY DEF Users
      <4>2. CountOf(u)' /\ UseOf(u)'
        BY <4>1
      <4> QED BY <4>1, <4>2 DEF CountOf, UseOf, Counted
    <3>3. IsFiniteSet(Counted') /\ Cardinality(Counted') <= MaxHandles
      <4>1. Counted' \subseteq Threads
        BY DEF Counted
      <4>2. IsFiniteSet(Counted')
        BY <4>1, FS_Subset, HandleCounterAssumption
      <4>3. Cardinality(Counted') = m_totalCount' /\ m_totalCount' <= MaxHandles
        BY DEF CInv, CounterInv, CountInv, LimitInv
      <4> QED BY <4>2, <4>3
    <3> HIDE DEF f
    <3> QED BY <3>1, <3>2, <3>3, OnePerThread, HandleCounterAssumption
  <2> QED BY <1>7, <2>1, <2>2
<1> QED BY <1>11, <1>13, <1>14 DEF HandleInv

LEMMA HandlesStep ==
    ASSUME PInv, NEW t \in Threads, Step(t), CInv',
           \A u \in Threads : CountOf(u)' /\ UseOf(u)'
    PROVE  HandleInv'
<1>1. CASE \E h \in Handles : TakeFree(t, h)
  BY <1>1, TakeFreeStep
<1>2. CASE Generate(t)
  BY <1>2, GenerateStep
<1>3. CASE SetupFails(t)
  BY <1>3, SetupFailsStep
<1>4. CASE FlowBack(t)
  BY <1>4, FlowBackStep
<1>5. CASE Drain(t) \/ Drained(t)
  BY <1>5, DrainStep
<1>6. CASE PurgeNow(t)
  BY <1>6, PurgeStep
<1>t. m_threadedHandles \in [Threads -> References] /\ pc \in [Threads -> Places] /\ UseOf(t)
  BY DEF PInv, PoolTypeOK, References, FollowInv
<1>7. CASE UNCHANGED <<m_handles, m_frees, m_threadedHandles>>
  BY <1>7, HandlesStay DEF Users
<1>8. CASE GetSame(t) \/ Release(t) \/ Reuse(t)
  <2>1. /\ UNCHANGED <<m_handles, m_frees>>
        /\ m_threadedHandles'[t].handle = m_threadedHandles[t].handle
        /\ m_threadedHandles'[t].type = m_threadedHandles[t].type
        /\ \A u \in Threads \ {t} : m_threadedHandles'[u] = m_threadedHandles[u]
    BY <1>8, <1>t DEF GetSame, Release, Reuse, References
  <2> QED BY <2>1, HandlesStay DEF Users
<1>9. CASE /\ UNCHANGED <<m_handles, m_frees>> /\ pc[t] # "reuse" /\ ~Holds(t)
           /\ \E r : r.handle = NoHandle /\ m_threadedHandles' = [m_threadedHandles EXCEPT ![t] = r]
  <2>1. t \notin Users
    BY <1>9, <1>t DEF UseOf
  <2>2. m_threadedHandles'[t].handle = NoHandle
        /\ \A u \in Threads \ {t} : m_threadedHandles'[u] = m_threadedHandles[u]
    BY <1>9, <1>t
  <2> QED BY <1>9, <2>1, <2>2, HandlesStay DEF Users
<1>10. CASE (\E type \in Types, hint \in BOOLEAN : GetHandle(t, type, hint))
            \/ InitializeNow(t) \/ Exceed(t) \/ LeaveFailed(t)
  <2>1. NoReference.handle = NoHandle /\ \A type, hint : Reference(type, hint).handle = NoHandle
    BY DEF NoReference, Reference
  <2>2. UNCHANGED <<m_handles, m_frees>> /\ pc[t] \in {"idle", "initializing", "flowOut", "failed"}
        /\ (pc[t] = "idle" => ~Holds(t))
    BY <1>10 DEF GetHandle, InitializeNow, Exceed, LeaveFailed, At
  <2>3. pc[t] # "reuse" /\ ~Holds(t)
    BY <2>2, <1>t DEF UseOf
  <2>4. \/ UNCHANGED m_threadedHandles
        \/ m_threadedHandles' = [m_threadedHandles EXCEPT ![t] = NoReference]
        \/ \E type \in Types, hint \in BOOLEAN :
              m_threadedHandles' = [m_threadedHandles EXCEPT ![t] = Reference(type, hint)]
    BY <1>10 DEF GetHandle, InitializeNow, Exceed, LeaveFailed, GiveUp
  <2> QED BY <1>7, <1>9, <2>1, <2>2, <2>3, <2>4
<1> QED
  BY <1>1, <1>2, <1>3, <1>4, <1>5, <1>6, <1>7, <1>8, <1>10
     DEF Step, Calls, Purge, Close, Blockade, Spurious,
         GoOn, Initialized, NotInitialized, LockToInitialize, InitializeAgain, FlowOut, TakeNone,
         Unshare, Uncount, Suspend, LockToDrain, Blockaded, Unblockade, Woken, poolVars

-----------------------------------------------------------------------------
(* The inductive invariant.                                                *)

LEMMA InitialPool == Init => PInv
<1> SUFFICES ASSUME Init PROVE PInv
  OBVIOUS
<1> USE HandlePoolAssumption, HandleCounterAssumption
<1>1. IInv /\ CInv
  BY InitialLock, InitialCounter DEF Init
<1>n. NoReference \in References /\ NoReference.handle = NoHandle /\ NoReference.reference = 0
  BY ReferenceType DEF NoReference, Reference
<1>i. /\ m_handles = NoHandles /\ m_frees = NoHandles /\ m_initialized = FALSE
      /\ m_threadedHandles = [t \in Threads |-> NoReference]
      /\ pc = [t \in Threads |-> "idle"] /\ owner = [t \in Threads |-> "none"] /\ nCalls = 0
  BY DEF Init
<1>2. PoolTypeOK
  <2>1. m_threadedHandles \in [Threads -> References]
    BY <1>i, <1>n
  <2>2. pc \in [Threads -> Places] /\ owner \in [Threads -> {"none", "drain", "blockade"}]
    BY <1>i DEF Places
  <2>3. m_handles \in [Types -> SUBSET Handles] /\ m_frees \in [Types -> SUBSET Handles]
    BY <1>i DEF NoHandles
  <2>4. nCalls \in 0..MaxCalls
    BY <1>i
  <2> QED BY <1>i, <2>1, <2>2, <2>3, <2>4 DEF PoolTypeOK, References
<1>m. \A t \in Threads : m_threadedHandles[t].handle = NoHandle /\ m_threadedHandles[t].reference = 0
  BY <1>i, <1>n
<1>u. \A t \in Threads : ~Holds(t) /\ t \notin Users /\ pc[t] = "idle" /\ owner[t] = "none"
  <2>1. \A t \in Threads : pc[t] = "idle" /\ owner[t] = "none"
    BY <1>i
  <2>2. ASSUME NEW t \in Threads PROVE ~Holds(t)
    <3>1. m_threadedHandles[t].reference = 0
      BY <1>m
    <3> QED BY <3>1, 0 \in Nat, ~(0 > 0) DEF Holds
  <2>3. ASSUME NEW t \in Threads PROVE t \notin Users
    BY <1>m, Zenon DEF Users
  <2> QED BY <2>1, <2>2, <2>3
<1>3. CallsInv
  <2>1. nCalls = 0
    BY <1>i
  <2>2. ASSUME NEW t \in Threads PROVE m_threadedHandles[t].reference <= nCalls
    <3>1. m_threadedHandles[t].reference = 0
      BY <1>m
    <3> QED BY <2>1, <3>1, 0 <= 0
  <2> QED BY <1>u, <2>2, Zenon DEF CallsInv, CallsOf
<1>4. FollowInv
  <2> SUFFICES ASSUME NEW t \in Threads PROVE LocksOf(t) /\ CountOf(t) /\ UseOf(t)
    BY DEF FollowInv
  <2>1. /\ m_threadedReaders[t] = 0 /\ m_locking = NoThread /\ m_pendingReaders = {}
        /\ InQueue(m_pendingWriters) = {} /\ place[t] = "out"
    BY DEF Init, LockInit, CounterInit, InQueue
  <2>2. ~Shares(t) /\ WriteDepth(t) = 0
    BY <1>u DEF Shares, Shared, Sharing, WriteDepth, Locking
  <2>3. LocksOf(t)
    BY <1>u, <2>1, <2>2, SharedLockAssumption DEF LocksOf
  <2> QED BY <1>u, <2>1, <2>3 DEF CountOf, UseOf
<1>5. HandleInv
  <2>1. Users = {} /\ Alive = {}
    BY <1>u, <1>i DEF Users, Alive, NoHandles
  <2>2. Cardinality(Alive) <= MaxHandles
    BY <2>1, FS_EmptySet
  <2> QED BY <1>i, <2>1, <2>2 DEF HandleInv, HandleIsOwn, NoLeak, NoHandles
<1> QED BY <1>1, <1>2, <1>3, <1>4, <1>5 DEF PInv

LEMMA PoolStep ==
    ASSUME PInv, NEW t \in Threads, Step(t)
    PROVE  PInv'
<1>1. IInv' /\ CInv'
  BY PartsStep DEF PInv
<1>2. PoolTypeOK'
  BY TypeStep DEF PInv
<1>3. \A u \in Threads : Follows(u)'
  BY OthersFollow, LocksFollow, HandleFollows, CountFollows DEF Follows
<1>4. CallsInv' /\ FollowInv'
  BY <1>3 DEF CallsInv, FollowInv, Follows
<1>5. \A u \in Threads : CountOf(u)' /\ UseOf(u)'
  BY <1>3 DEF Follows
<1>6. HandleInv'
  BY <1>1, <1>5, HandlesStep
<1> QED BY <1>1, <1>2, <1>4, <1>6 DEF PInv

LEMMA PoolStutter == PInv /\ UNCHANGED vars => PInv'
<1> SUFFICES ASSUME PInv, UNCHANGED vars PROVE PInv'
  OBVIOUS
<1>1. IInv' /\ CInv'
  BY LockNextStep, CounterNextStep DEF PInv, vars
<1>2. /\ UNCHANGED <<m_threadedReaders, m_writers, m_locking, m_pendingReaders, m_pendingWriters>>
      /\ UNCHANGED <<m_handles, m_frees, m_initialized, m_threadedHandles, pc, owner, nCalls, place>>
  BY DEF vars, lockVars, counterVars, poolVars
<1>3. PoolTypeOK' /\ CallsInv'
  BY <1>2 DEF PInv, PoolTypeOK, CallsInv, CallsOf
<1>4. FollowInv'
  BY <1>2 DEF PInv, FollowInv, LocksOf, CountOf, UseOf, Users, Holds, Shares, WriteDepth, At, Running
<1>5. HandleInv'
  BY <1>2, HandlesStay DEF PInv, Users
<1> QED BY <1>1, <1>3, <1>4, <1>5 DEF PInv

LEMMA PoolInvariant == Spec => []PInv
<1>1. PInv /\ [Next]_vars => PInv'
  BY PoolStep, PoolStutter DEF Next, Step
<1> QED BY <1>1, InitialPool, PTL DEF Spec

-----------------------------------------------------------------------------

\* The variables of the pool, of its lock and of its counter keep their types: no
\* count goes below zero, and no thread gets to a place the code does not have.
THEOREM PoolTypeCorrect == Spec => []TypeOK
<1>1. PInv => TypeOK
  BY DEF PInv, PoolTypeOK, TypeOK, IInv, CInv
<1> QED BY <1>1, PoolInvariant, PTL

\* The lock and the counter keep their invariants as HandlePool and InnerDatabase
\* use them: exclusion, no lost wakeup, counts that agree, nobody stranded.
THEOREM PartsCorrect == Spec => []PartsInv
<1>1. PInv => PartsInv
  BY DEF PInv, PartsInv, IInv, CInv, CounterInv
<1> QED BY <1>1, PoolInvariant, PTL

\* On every path of getHandle, flowBack, close, blockade and purge a thread has the
\* locks, the count and the handle that belong to where it is.
THEOREM CallsKeepOrder == Spec => []FollowInv
<1>1. PInv => FollowInv
  BY DEF PInv
<1> QED BY <1>1, PoolInvariant, PTL

\* A handle that flowOut gave to a thread is open and that thread's alone.
THEOREM HandlesOwned == Spec => []HandleIsOwn
<1>1. PInv => HandleIsOwn
  BY DEF PInv, HandleInv
<1> QED BY <1>1, PoolInvariant, PTL

\* Every open handle is free or in use: none is lost.
THEOREM HandlesKept == Spec => []NoLeak
<1>1. PInv => NoLeak
  BY DEF PInv, HandleInv
<1> QED BY <1>1, PoolInvariant, PTL

\* The assertion of flowOut: never more open handles than allowed, nor more counted.
THEOREM HandlesLimited == Spec => []HandlesBounded
<1>1. PInv => HandlesBounded
  BY DEF PInv, HandleInv, HandlesBounded, CInv, CounterInv
<1> QED BY <1>1, PoolInvariant, PTL

\* A thread inside close or a blockade is the only one with a handle.
THEOREM OwnerAlone == Spec => []OwnerIsAlone
<1>1. PInv => OwnerIsAlone
  <2> SUFFICES ASSUME PInv, NEW t \in Threads, owner[t] # "none", NEW u \in Threads \ {t}
               PROVE  /\ u \notin Users
                      /\ pc[u] \notin {"flowOut", "take", "reuse", "generate", "purge",
                                        "suspend", "initializing"} \/ ~Running(u)
    BY DEF OwnerIsAlone
  <2>1. m_locking = t
    BY OwnerLocks
  <2>2. ~Shares(u) /\ u \notin Users /\ WriteDepth(u) = 0
    BY <2>1, OwnerExcludes
  <2>3. owner[u] \in {"none", "drain", "blockade"}
    BY DEF PInv, PoolTypeOK
  <2> QED BY <2>2, <2>3 DEF Shares, Shared, Sharing, WriteDepth, At, Locking
<1> QED BY <1>1, PoolInvariant, PTL

=============================================================================
