---------------------------- MODULE HandleCounter ----------------------------
(***************************************************************************)
(* The limit on the handles of a WCDB database                             *)
(* (Pods/WCDB.swift/src/common/core/HandleCounter.cpp): so many at a time, *)
(* and so many of them for writing.  A thread beyond the limit waits, in   *)
(* one of two queues, until it is notified.                                *)
(*                                                                         *)
(* A step is one critical section of m_lock.  Threads wake only by a signal: *)
(* one that woke by itself would pop another thread off the queue, since   *)
(* the waits of this code do not test for it.                              *)
(***************************************************************************)
EXTENDS Conditional, FiniteSets

CONSTANTS
    MaxHandles,     \* HandlePoolMaxAllowedNumberOfHandles
    MaxWriters      \* HandlePoolMaxAllowedNumberOfWriters

ASSUME HandleCounterAssumption ==
    /\ MaxHandles \in Nat \ {0} /\ MaxWriters \in Nat \ {0}
    /\ IsFiniteSet(Threads)

VARIABLES
    m_totalCount, m_writerCount,
    m_pendingNormals,   \* queue of threads that wait for a handle
    m_pendingHints,     \* queue of threads that wait to write (m_pendingWriters)
    place,              \* of a thread: "out", "normals", "writers" or "counted"
    writeHint,          \* of a thread
    blocked             \* threads that sleep in one of the condition variables

counterVars == <<m_totalCount, m_writerCount, m_pendingNormals, m_pendingHints,
                 place, writeHint, blocked>>

CounterInit ==
    /\ m_totalCount = 0 /\ m_writerCount = 0
    /\ m_pendingNormals = <<>> /\ m_pendingHints = <<>>
    /\ place = [t \in Threads |-> "out"]
    /\ writeHint = [t \in Threads |-> FALSE]
    /\ blocked = {}

\* Mutant: one handle too many.
Full_OffByOne == m_totalCount > MaxHandles

Full == m_totalCount >= MaxHandles
NoWriter(hint) == hint /\ m_writerCount >= MaxWriters

\* Where the loops lead: entered at the outer one or woken in the first inner
\* one, and woken in the second inner one, which first tests its own condition.
FromNormals(hint) == IF Full THEN "normals" ELSE IF NoWriter(hint) THEN "writers" ELSE "counted"
FromWriters(hint) == IF NoWriter(hint) THEN "writers" ELSE IF Full THEN "normals" ELSE "counted"

\* Thread t goes on to where: to the back of a queue and asleep, or out of the
\* loops and counted.  The queues are those after the pop.
GoTo(t, where, hint, normals, writers) ==
    /\ place' = [place EXCEPT ![t] = where]
    /\ writeHint' = [writeHint EXCEPT ![t] = hint]
    /\ m_pendingNormals' = IF where = "normals" THEN Append(normals, t) ELSE normals
    /\ m_pendingHints' = IF where = "writers" THEN Append(writers, t) ELSE writers
    /\ blocked' = IF where = "counted" THEN blocked ELSE blocked \cup {t}
    /\ m_totalCount' = m_totalCount + IF where = "counted" THEN 1 ELSE 0
    /\ m_writerCount' = m_writerCount + IF where = "counted" /\ hint THEN 1 ELSE 0

\* tryIncreaseHandleCount, by a type of handle that waits when there is none.
Increase(t, hint) ==
    /\ place[t] = "out"
    /\ GoTo(t, FromNormals(hint), hint, m_pendingNormals, m_pendingHints)

\* ... and the same by one that does not wait, when it is refused.
Refused(t, hint) ==
    /\ place[t] = "out" /\ FromNormals(hint) # "counted"
    /\ UNCHANGED counterVars

\* After a wait the queue is popped: its front leaves, whoever that is.
NormalWoken(t) ==
    /\ place[t] = "normals" /\ t \notin blocked
    /\ GoTo(t, FromNormals(writeHint[t]), writeHint[t], Tail(m_pendingNormals), m_pendingHints)

WriterHintWoken(t) ==
    /\ place[t] = "writers" /\ t \notin blocked
    /\ GoTo(t, FromWriters(writeHint[t]), writeHint[t], m_pendingNormals, Tail(m_pendingHints))

\* decreaseHandleCount notifies one thread, a waiting writer first.
Notified(hint) ==
    CASE hint /\ m_pendingHints # <<>> -> notifyFront(blocked, m_pendingHints)
      [] ~(hint /\ m_pendingHints # <<>>) /\ m_pendingNormals # <<>> ->
            notifyFront(blocked, m_pendingNormals)
      [] OTHER -> blocked

\* Mutant: the hint is not looked at.
Decrease_AnyHint(t) ==
    /\ place[t] = "counted"
    /\ place' = [place EXCEPT ![t] = "out"]
    /\ m_writerCount' = m_writerCount - 1
    /\ m_totalCount' = m_totalCount - 1
    /\ blocked' = Notified(writeHint[t])
    /\ writeHint' = [writeHint EXCEPT ![t] = FALSE]
    /\ UNCHANGED <<m_pendingNormals, m_pendingHints>>

\* decreaseHandleCount, with the hint of the handle.
Decrease(t) ==
    /\ place[t] = "counted"
    /\ place' = [place EXCEPT ![t] = "out"]
    /\ m_writerCount' = m_writerCount - IF writeHint[t] THEN 1 ELSE 0
    /\ m_totalCount' = m_totalCount - 1
    /\ blocked' = Notified(writeHint[t])
    /\ writeHint' = [writeHint EXCEPT ![t] = FALSE]
    /\ UNCHANGED <<m_pendingNormals, m_pendingHints>>

CounterWakes(t) == NormalWoken(t) \/ WriterHintWoken(t)

CounterNext == \E t \in Threads :
    (\E hint \in BOOLEAN : Increase(t, hint) \/ Refused(t, hint)) \/ CounterWakes(t) \/ Decrease(t)

\* A thread that was woken runs, and a handle is given back.
CounterSpec ==
    /\ CounterInit /\ [][CounterNext]_counterVars
    /\ \A t \in Threads : WF_counterVars(CounterWakes(t)) /\ WF_counterVars(Decrease(t))

-----------------------------------------------------------------------------
(* Properties *)

Counted == {t \in Threads : place[t] = "counted"}

CounterTypeOK ==
    /\ m_totalCount \in Nat /\ m_writerCount \in Nat
    /\ m_pendingNormals \in Seq(Threads) /\ m_pendingHints \in Seq(Threads)
    /\ place \in [Threads -> {"out", "normals", "writers", "counted"}]
    /\ writeHint \in [Threads -> BOOLEAN]
    /\ blocked \subseteq Threads

\* The limits of HandleCounter.hpp: so many handles, so many of them for writing.
LimitInv == m_totalCount <= MaxHandles /\ m_writerCount <= MaxWriters

\* The counts are the threads counted: nothing is counted twice or given back twice.
CountInv ==
    /\ m_totalCount = Cardinality(Counted)
    /\ m_writerCount = Cardinality({t \in Counted : writeHint[t]})

\* Each waiting thread is in its queue once, and only the front of a queue is ever
\* awake: so a thread that pops the queue pops itself.
QueueInv ==
    /\ InQueue(m_pendingNormals) = {t \in Threads : place[t] = "normals"}
    /\ InQueue(m_pendingHints) = {t \in Threads : place[t] = "writers"}
    /\ Distinct(m_pendingNormals) /\ Distinct(m_pendingHints)
    /\ \A q \in {m_pendingNormals, m_pendingHints} : \A t \in InQueue(q) :
          t \in blocked \/ t = Head(q)
    /\ \A t \in blocked : place[t] \in {"normals", "writers"}
    /\ \A t \in Threads : place[t] = "writers" => writeHint[t]

\* Nobody sleeps for good: whenever a thread sleeps for a handle, there is a thread
\* whose handle, when given back, wakes the front of its queue, or one awake.
\* (A free handle may still go unnoticed for a while: see WaitsForHandles.)
NobodyStranded ==
    /\ m_pendingNormals # <<>> =>
          \/ Counted # {}
          \/ \E t \in Threads : place[t] \in {"normals", "writers"} /\ t \notin blocked
    /\ m_pendingHints # <<>> =>
          \/ \E t \in Threads : writeHint[t] /\ place[t] \in {"counted", "normals"}
          \/ Head(m_pendingHints) \notin blocked

\* HandleCounter.hpp: a thread waits "until other handles are recycled".  Nobody
\* sleeps for a handle for ever while there are always handles to be had.
WaitsForHandles ==
    \A t \in Threads :
        []<>~(place[t] = "normals" /\ t \in blocked /\ ~Full)
=============================================================================
