---------------------------- MODULE Conditional ----------------------------
(***************************************************************************)
(* Condition variables as WCDB uses them (class Conditional of             *)
(* Pods/WCDB.swift/src/common/base/Lock.cpp).  The threads that sleep in   *)
(* one are a set.  On Apple's systems notify wakes the thread it names and *)
(* nobody else, and is lost when that thread does not sleep.               *)
(***************************************************************************)
EXTENDS Sequences, Integers

CONSTANT Threads

\* The sleeping threads after notify(queue.front()).
notifyFront(sleeping, queue) == sleeping \ {Head(queue)}

\* The threads in a queue.
InQueue(queue) == {queue[i] : i \in 1..Len(queue)}

\* No thread is in the queue twice.
Distinct(queue) == \A i, j \in 1..Len(queue) : queue[i] = queue[j] => i = j
=============================================================================
