----------------------------- MODULE HandlePool -----------------------------
(***************************************************************************)
(* The handles of a WCDB database: HandlePool.cpp, and what InnerDatabase  *)
(* .cpp does around it (Pods/WCDB.swift/src/common/core).  Threads take a  *)
(* handle (getHandle), give it back, close or blockade the database and    *)
(* purge free handles, at the same time.  Composed of SharedLock (that is  *)
(* m_concurrency), and HandleCounter (m_counter).                          *)
(*                                                                         *)
(* m_memory guards short sections that wait for nothing else: each is one  *)
(* step.  A thread that has the shared lock takes it again without waiting *)
(* (SharedLock): the guards that nest inside the first one are left out.   *)
(***************************************************************************)
EXTENDS SharedLock, HandleCounter

CONSTANTS
    Types,      \* types of handles, each with its slot and its category
    Waiting,    \* those of them that wait when there is none: Normal
    MaxCalls    \* bound: calls that threads make, and wakeups without a signal

ASSUME HandlePoolAssumption ==
    Waiting \subseteq Types /\ Types # {} /\ MaxCalls \in Nat /\ MaxDepth >= 2

VARIABLES
    m_handles,          \* slot -> open handles
    m_frees,            \* slot -> those that nobody uses
    m_initialized,
    m_threadedHandles,  \* thread -> its handle, type, hint and reference count
    pc,                 \* thread -> where in a call it is
    owner,              \* thread -> "none", or it has the lock to "drain" or "blockade"
    nCalls

poolVars == <<m_handles, m_frees, m_initialized, m_threadedHandles, pc, owner, nCalls>>
vars == <<lockVars, counterVars, poolVars>>

NoHandle == 0
\* Enough handles for the limit and one more.
Handles == 1..(MaxHandles + 1)
NoHandles == [s \in Types |-> {}]
Alive == UNION {m_handles[s] : s \in Types}

Reference(type, hint) ==
    [handle |-> NoHandle, type |-> type, hint |-> hint, reference |-> 0]
NoReference == Reference(CHOOSE type \in Types : TRUE, FALSE)

Init ==
    /\ LockInit /\ CounterInit
    /\ m_handles = NoHandles /\ m_frees = NoHandles
    /\ m_initialized = FALSE
    /\ m_threadedHandles = [t \in Threads |-> NoReference]
    /\ pc = [t \in Threads |-> "idle"]
    /\ owner = [t \in Threads |-> "none"]
    /\ nCalls = 0

Goto(t, to) == pc' = [pc EXCEPT ![t] = to]
\* Thread t is there, and not waiting for m_concurrency.
At(t, where) == pc[t] = where /\ Running(t)
Holds(t) == m_threadedHandles[t].reference > 0
\* The call returns, without a handle.
GiveUp(t) ==
    /\ Goto(t, "idle")
    /\ m_threadedHandles' = [m_threadedHandles EXCEPT ![t] = NoReference]
Call == nCalls < MaxCalls /\ nCalls' = nCalls + 1

SlotOf(t) == m_threadedHandles[t].type
Hint(t) == m_threadedHandles[t].hint

-----------------------------------------------------------------------------
(* getHandle: initialize, then flowOut *)

\* A call from a thread without a handle: the shared lock, to look at m_initialized.
\* Only the callers of getHandle itself, type Normal, give a write hint.
GetHandle(t, type, hint) ==
    /\ hint => type \in Waiting
    /\ At(t, "idle") /\ ~Holds(t) /\ Call
    /\ lockShared(t)
    /\ m_threadedHandles' = [m_threadedHandles EXCEPT ![t] = Reference(type, hint)]
    /\ Goto(t, "initialize")
    /\ UNCHANGED <<counterVars, m_handles, m_frees, m_initialized, owner>>

\* A call from a thread that has a handle of the type gets the same one.
GetSame(t) ==
    /\ At(t, "idle") /\ Holds(t) /\ Call
    /\ m_threadedHandles' = [m_threadedHandles EXCEPT ![t].reference = @ + 1]
    /\ UNCHANGED <<lockVars, counterVars, m_handles, m_frees, m_initialized, pc, owner>>

\* Mutant: initialize returns without the shared lock.
Initialized_Unguarded(t) ==
    /\ At(t, "initialize") /\ m_initialized
    /\ unlockShared(t) /\ Goto(t, "flowOut")
    /\ UNCHANGED <<counterVars, m_handles, m_frees, m_initialized, m_threadedHandles,
                   owner, nCalls>>

\* initialize keeps the shared lock if that was done ...
Initialized(t) ==
    /\ At(t, "initialize") /\ m_initialized
    /\ Goto(t, "flowOut")
    /\ UNCHANGED <<lockVars, counterVars, m_handles, m_frees, m_initialized,
                   m_threadedHandles, owner, nCalls>>

\* Mutant: the shared lock is to be upgraded.
NotInitialized_Upgrade(t) ==
    /\ At(t, "initialize") /\ ~m_initialized
    /\ Goto(t, "blockedInit")
    /\ UNCHANGED <<lockVars, counterVars, m_handles, m_frees, m_initialized,
                   m_threadedHandles, owner, nCalls>>

\* ... else it changes to the write lock, in two steps,
NotInitialized(t) ==
    /\ At(t, "initialize") /\ ~m_initialized
    /\ unlockShared(t) /\ Goto(t, "blockedInit")
    /\ UNCHANGED <<counterVars, m_handles, m_frees, m_initialized, m_threadedHandles,
                   owner, nCalls>>

LockToInitialize(t) ==
    /\ At(t, "blockedInit")
    /\ lock(t) /\ Goto(t, "initializing")
    /\ UNCHANGED <<counterVars, m_handles, m_frees, m_initialized, m_threadedHandles,
                   owner, nCalls>>

\* and does it, unless another thread has or it fails; the loop starts over.
InitializeNow(t) ==
    /\ At(t, "initializing")
    /\ unlock(t)
    /\ \/ m_initialized' = TRUE /\ Goto(t, "again") /\ UNCHANGED m_threadedHandles
       \/ ~m_initialized /\ UNCHANGED m_initialized /\ GiveUp(t)
    /\ UNCHANGED <<counterVars, m_handles, m_frees, owner, nCalls>>

InitializeAgain(t) ==
    /\ At(t, "again")
    /\ lockShared(t) /\ Goto(t, "initialize")
    /\ UNCHANGED <<counterVars, m_handles, m_frees, m_initialized, m_threadedHandles,
                   owner, nCalls>>

\* flowOut: be counted, or wait for that; the shared lock stays.
FlowOut(t) ==
    /\ At(t, "flowOut")
    /\ Increase(t, Hint(t))
    /\ SlotOf(t) \in Waiting \/ FromNormals(Hint(t)) = "counted"
    /\ Goto(t, "take")
    /\ UNCHANGED <<lockVars, m_handles, m_frees, m_initialized, m_threadedHandles, owner, nCalls>>

\* The types that do not wait get none.
Exceed(t) ==
    /\ At(t, "flowOut") /\ SlotOf(t) \notin Waiting
    /\ Refused(t, Hint(t))
    /\ unlockShared(t) /\ GiveUp(t)
    /\ UNCHANGED <<m_handles, m_frees, m_initialized, owner, nCalls>>

\* Mutant: the free handle is not popped.
TakeFree_Kept(t, h) ==
    /\ At(t, "take") /\ place[t] = "counted"
    /\ h \in m_frees[SlotOf(t)]
    /\ m_threadedHandles' = [m_threadedHandles EXCEPT ![t].handle = h]
    /\ Goto(t, "reuse")
    /\ UNCHANGED <<lockVars, counterVars, m_handles, m_frees, m_initialized, owner, nCalls>>

\* A free handle of the slot, to be set up again ...
TakeFree(t, h) ==
    /\ At(t, "take") /\ place[t] = "counted"
    /\ h \in m_frees[SlotOf(t)]
    /\ m_frees' = [m_frees EXCEPT ![SlotOf(t)] = @ \ {h}]
    /\ m_threadedHandles' = [m_threadedHandles EXCEPT ![t].handle = h]
    /\ Goto(t, "reuse")
    /\ UNCHANGED <<lockVars, counterVars, m_handles, m_initialized, owner, nCalls>>

\* ... or a new one, opened without m_memory.
TakeNone(t) ==
    /\ At(t, "take") /\ place[t] = "counted"
    /\ m_frees[SlotOf(t)] = {}
    /\ Goto(t, "generate")
    /\ UNCHANGED <<lockVars, counterVars, m_handles, m_frees, m_initialized,
                   m_threadedHandles, owner, nCalls>>

\* The handle belongs to the thread, with the shared lock.
Reuse(t) ==
    /\ At(t, "reuse")
    /\ m_threadedHandles' = [m_threadedHandles EXCEPT ![t].reference = 1]
    /\ Goto(t, "idle")
    /\ UNCHANGED <<lockVars, counterVars, m_handles, m_frees, m_initialized, owner, nCalls>>

\* purge: the free handles of all slots are closed.
Purged(handles) == [s \in Types |-> handles[s] \ m_frees[s]]

isNumberOfHandlesAllowed(handles) ==
    Cardinality(UNION {handles[s] : s \in Types}) <= MaxHandles

\* Add a new handle; free ones make room for it beyond the limit.
Generate(t) ==
    /\ At(t, "generate")
    /\ LET h == CHOOSE x \in Handles : x \notin Alive
           handles == [m_handles EXCEPT ![SlotOf(t)] = @ \cup {h}]
       IN  /\ h \in Handles \ Alive
           /\ IF isNumberOfHandlesAllowed(handles)
              THEN m_handles' = handles /\ UNCHANGED m_frees
              ELSE m_handles' = Purged(handles) /\ m_frees' = NoHandles
           /\ m_threadedHandles' = [m_threadedHandles EXCEPT ![t].handle = h,
                                                             ![t].reference = 1]
    /\ Goto(t, "idle")
    /\ UNCHANGED <<lockVars, counterVars, m_initialized, owner, nCalls>>

\* Mutant: a handle that could not be set up again is not erased.
SetupFails_Kept(t) ==
    /\ At(t, "reuse") \/ At(t, "generate")
    /\ m_threadedHandles' = [m_threadedHandles EXCEPT ![t].handle = NoHandle]
    /\ Decrease(t)
    /\ Goto(t, "failed")
    /\ UNCHANGED <<lockVars, m_handles, m_frees, m_initialized, owner, nCalls>>

\* The handle cannot be opened or set up; one that exists is closed and erased.
SetupFails(t) ==
    /\ At(t, "reuse") \/ At(t, "generate")
    /\ m_handles' = [m_handles EXCEPT ![SlotOf(t)] = @ \ {m_threadedHandles[t].handle}]
    /\ m_threadedHandles' = [m_threadedHandles EXCEPT ![t].handle = NoHandle]
    /\ Decrease(t)
    /\ Goto(t, "failed")
    /\ UNCHANGED <<lockVars, m_frees, m_initialized, owner, nCalls>>

\* Mutant: the shared lock is kept when flowOut fails.
LeaveFailed_Locked(t) ==
    /\ At(t, "failed") /\ GiveUp(t)
    /\ UNCHANGED <<lockVars, counterVars, m_handles, m_frees, m_initialized, owner, nCalls>>

LeaveFailed(t) ==
    /\ At(t, "failed")
    /\ unlockShared(t) /\ GiveUp(t)
    /\ UNCHANGED <<counterVars, m_handles, m_frees, m_initialized, owner, nCalls>>

-----------------------------------------------------------------------------
(* flowBack *)

Release(t) ==
    /\ At(t, "idle") /\ m_threadedHandles[t].reference > 1
    /\ m_threadedHandles' = [m_threadedHandles EXCEPT ![t].reference = @ - 1]
    /\ UNCHANGED <<lockVars, counterVars, m_handles, m_frees, m_initialized, pc, owner, nCalls>>

\* The last reference: the handle is free ...
FlowBack(t) ==
    /\ At(t, "idle") /\ m_threadedHandles[t].reference = 1
    /\ m_frees' = [m_frees EXCEPT ![SlotOf(t)] = @ \cup {m_threadedHandles[t].handle}]
    /\ m_threadedHandles' = [m_threadedHandles EXCEPT ![t] = NoReference]
    /\ Goto(t, "unshare")
    /\ UNCHANGED <<lockVars, counterVars, m_handles, m_initialized, owner, nCalls>>

\* ... then the shared lock is released ...
Unshare(t) ==
    /\ At(t, "unshare")
    /\ unlockShared(t) /\ Goto(t, "uncount")
    /\ UNCHANGED <<counterVars, m_handles, m_frees, m_initialized, m_threadedHandles,
                   owner, nCalls>>

\* ... and only then the count goes down.
Uncount(t) ==
    /\ At(t, "uncount")
    /\ Decrease(t) /\ Goto(t, "idle")
    /\ UNCHANGED <<lockVars, m_handles, m_frees, m_initialized, m_threadedHandles,
                   owner, nCalls>>

-----------------------------------------------------------------------------
(* close, blockade, purge *)

\* close first suspends the handles of its tasks, under the shared lock ...
Close(t) ==
    /\ At(t, "idle") /\ ~Holds(t) /\ owner[t] = "none" /\ Call
    /\ lockShared(t) /\ Goto(t, "suspend")
    /\ UNCHANGED <<counterVars, m_handles, m_frees, m_initialized, m_threadedHandles, owner>>

Suspend(t) ==
    /\ At(t, "suspend")
    /\ unlockShared(t) /\ Goto(t, "close")
    /\ UNCHANGED <<counterVars, m_handles, m_frees, m_initialized, m_threadedHandles,
                   owner, nCalls>>

\* ... then drain waits for all handles to come back.
LockToDrain(t) ==
    /\ At(t, "close")
    /\ lock(t) /\ Goto(t, "drain")
    /\ UNCHANGED <<counterVars, m_handles, m_frees, m_initialized, m_threadedHandles,
                   owner, nCalls>>

\* drain: close all handles, then run the callback, which may use the database.
Drain(t) ==
    /\ At(t, "drain")
    /\ m_handles' = NoHandles /\ m_frees' = NoHandles
    /\ m_initialized' = FALSE
    /\ owner' = [owner EXCEPT ![t] = "drain"] /\ Goto(t, "idle")
    /\ UNCHANGED <<lockVars, counterVars, m_threadedHandles, nCalls>>

\* After the callback: once more, and unlock.
Drained(t) ==
    /\ At(t, "idle") /\ ~Holds(t) /\ owner[t] = "drain"
    /\ m_handles' = NoHandles /\ m_frees' = NoHandles
    /\ m_initialized' = FALSE
    /\ unlock(t)
    /\ owner' = [owner EXCEPT ![t] = "none"]
    /\ UNCHANGED <<counterVars, m_threadedHandles, pc, nCalls>>

\* blockade waits for them too.
Blockade(t) ==
    /\ At(t, "idle") /\ ~Holds(t) /\ owner[t] = "none" /\ Call
    /\ lock(t) /\ Goto(t, "blockade")
    /\ UNCHANGED <<counterVars, m_handles, m_frees, m_initialized, m_threadedHandles, owner>>

\* It has returned: the thread may use the database alone ...
Blockaded(t) ==
    /\ At(t, "blockade")
    /\ owner' = [owner EXCEPT ![t] = "blockade"] /\ Goto(t, "idle")
    /\ UNCHANGED <<lockVars, counterVars, m_handles, m_frees, m_initialized,
                   m_threadedHandles, nCalls>>

\* ... until it calls unblockade.
Unblockade(t) ==
    /\ At(t, "idle") /\ ~Holds(t) /\ owner[t] = "blockade"
    /\ unlock(t)
    /\ owner' = [owner EXCEPT ![t] = "none"]
    /\ UNCHANGED <<counterVars, m_handles, m_frees, m_initialized, m_threadedHandles, pc, nCalls>>

Purge(t) ==
    /\ At(t, "idle") /\ ~Holds(t) /\ Call
    /\ lockShared(t) /\ Goto(t, "purge")
    /\ UNCHANGED <<counterVars, m_handles, m_frees, m_initialized, m_threadedHandles, owner>>

PurgeNow(t) ==
    /\ At(t, "purge")
    /\ m_handles' = Purged(m_handles) /\ m_frees' = NoHandles
    /\ unlockShared(t) /\ Goto(t, "idle")
    /\ UNCHANGED <<counterVars, m_initialized, m_threadedHandles, owner, nCalls>>

-----------------------------------------------------------------------------
\* A thread that was woken, in the lock or in the counter.
Woken(t) ==
    \/ LockWakes(t) /\ UNCHANGED <<counterVars, poolVars>>
    \/ CounterWakes(t) /\ UNCHANGED <<lockVars, poolVars>>

Spurious(t) ==
    /\ SpuriousWakeup(t) /\ Call
    /\ UNCHANGED <<counterVars, m_handles, m_frees, m_initialized, m_threadedHandles, pc, owner>>

\* What a thread goes on to do by itself, a callback and the use of a handle included.
GoOn(t) ==
    \/ Initialized(t) \/ NotInitialized(t) \/ LockToInitialize(t)
    \/ InitializeNow(t) \/ InitializeAgain(t)
    \/ FlowOut(t) \/ Exceed(t) \/ (\E h \in Handles : TakeFree(t, h)) \/ TakeNone(t)
    \/ Reuse(t) \/ Generate(t) \/ SetupFails(t) \/ LeaveFailed(t)
    \/ Release(t) \/ FlowBack(t) \/ Unshare(t) \/ Uncount(t)
    \/ Suspend(t) \/ LockToDrain(t) \/ Drain(t) \/ Drained(t)
    \/ Blockaded(t) \/ Unblockade(t) \/ PurgeNow(t)
    \/ Woken(t)

Calls(t) ==
    \/ \E type \in Types, hint \in BOOLEAN : GetHandle(t, type, hint)
    \/ GetSame(t) \/ Purge(t)
    \/ Close(t) \/ Blockade(t)

Next == \E t \in Threads : GoOn(t) \/ Calls(t) \/ Spurious(t)

Spec == Init /\ [][Next]_vars /\ \A t \in Threads : WF_vars(GoOn(t))

-----------------------------------------------------------------------------
(* Properties *)

Places ==
    {"idle", "initialize", "blockedInit", "initializing", "again", "flowOut", "take",
     "reuse", "generate", "failed", "unshare", "uncount", "suspend", "close", "drain",
     "blockade", "purge"}

PoolTypeOK ==
    /\ m_handles \in [Types -> SUBSET Handles] /\ m_frees \in [Types -> SUBSET Handles]
    /\ m_initialized \in BOOLEAN
    /\ m_threadedHandles \in
          [Threads -> [handle : Handles \cup {NoHandle}, type : Types, hint : BOOLEAN,
                       reference : 0..MaxCalls]]
    /\ pc \in [Threads -> Places]
    /\ owner \in [Threads -> {"none", "drain", "blockade"}]
    /\ nCalls \in 0..MaxCalls
TypeOK == LockTypeOK /\ CounterTypeOK /\ PoolTypeOK

\* The threads that a handle was taken for, out of its slot's free ones.
Users == {t \in Threads : m_threadedHandles[t].handle # NoHandle}

\* A handle that a thread has is open, is nobody else's, and is not on a free list:
\* no close, purge, failed setup or reuse by another thread comes in between.
HandleIsOwn ==
    /\ \A t \in Users : LET h == m_threadedHandles[t].handle IN
          h \in m_handles[SlotOf(t)] /\ \A s \in Types : h \notin m_frees[s]
    /\ \A t, u \in Users :
          m_threadedHandles[t].handle = m_threadedHandles[u].handle => t = u
    /\ \A s \in Types : m_frees[s] \subseteq m_handles[s]

\* HandlePool.cpp asserts it after the purge of flowOut: never more open handles
\* than allowed, although a handle is on the free list before it is uncounted and
\* is opened after it was counted; nor more in use, or for writing.
HandlesBounded == Cardinality(Alive) <= MaxHandles /\ LimitInv

\* While a thread has the database to itself, to close it or in a blockade, nobody
\* else has a handle or is about to get one.
OwnerIsAlone ==
    \A t \in Threads : owner[t] # "none" =>
        \A u \in Threads \ {t} :
            /\ u \notin Users
            /\ pc[u] \notin {"flowOut", "take", "reuse", "generate", "purge",
                              "suspend", "initializing"}
                  \/ ~Running(u)

\* The lock and the counter keep their invariants as the pool uses them: exclusion,
\* no lost wakeup, counts that agree, nobody asleep for good.
PartsInv == LockInv /\ CountInv /\ QueueInv /\ NobodyStranded

\* Where a thread waits for the shared lock or has just got it, where it has had it
\* since before, and where it waits for the write lock or has just got it.
Sharing == {"initialize", "purge", "suspend"}
Shared == {"flowOut", "take", "reuse", "generate", "failed", "unshare"}
Locking == {"initializing", "drain", "blockade"}

Shares(t) == pc[t] \in Shared \/ Holds(t) \/ (pc[t] \in Sharing /\ Running(t))
WriteDepth(t) ==
    (IF owner[t] = "none" THEN 0 ELSE 1) + (IF pc[t] \in Locking /\ Running(t) THEN 1 ELSE 0)

\* The locks of a thread.
LocksOf(t) ==
    /\ t \in m_pendingReaders => pc[t] \in Sharing
    /\ t \in InQueue(m_pendingWriters) => pc[t] \in Locking
    /\ m_threadedReaders[t] = IF Shares(t) THEN 1 ELSE 0
    /\ IF m_locking = t THEN m_writers = WriteDepth(t) ELSE WriteDepth(t) = 0
    /\ pc[t] \in {"suspend", "close", "drain", "blockade"} => owner[t] = "none"

\* It is counted exactly while a handle is its, or on the way to it or back.
CountOf(t) ==
    place[t] \in
        IF pc[t] \in {"reuse", "generate", "unshare", "uncount"} \/ Holds(t) THEN {"counted"}
        ELSE IF pc[t] = "take" THEN {"normals", "writers", "counted"}
        ELSE {"out"}

\* It has a handle from the time it took it to the last release.
UseOf(t) ==
    /\ t \in Users <=> pc[t] = "reuse" \/ Holds(t)
    /\ Holds(t) => pc[t] = "idle"

\* A thread has the locks, the count and the handle that the place it has come to
\* calls for and no other: on no path of getHandle, flowBack, close, blockade or
\* purge is one kept, given back twice or used after it was given back.
FollowInv == \A t \in Threads : LocksOf(t) /\ CountOf(t) /\ UseOf(t)

\* No handle leaks: an open handle is in one slot, and is free or some thread's.
NoLeak ==
    /\ \A s, r \in Types : s # r => m_handles[s] \cap m_handles[r] = {}
    /\ \A s \in Types : \A h \in m_handles[s] \ m_frees[s] :
          \E t \in Users : m_threadedHandles[t].handle = h /\ SlotOf(t) = s

\* Everything comes back: when the calls end (MaxCalls bounds them), every thread has
\* been answered, and no handle, count or lock is left out.  No wakeup is lost, and
\* no cycle of threads waits for the lock and for handles.
Quiet == /\ \A t \in Threads : pc[t] = "idle" /\ ~Holds(t)
         /\ m_totalCount = 0 /\ m_writerCount = 0
         /\ Readers = {} /\ m_writers = 0
CallsEnd == <>[]Quiet
=============================================================================
