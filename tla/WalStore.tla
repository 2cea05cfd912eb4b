------------------------------ MODULE WalStore ------------------------------
(***************************************************************************)
(* What a write-ahead log promises its connections: one database that      *)
(* moves from commit to commit, readers that each see one committed state  *)
(* of it, and commits that outlive the process.                            *)
(***************************************************************************)
CONSTANTS Conns, Images, None

VARIABLES
    store,      \* the database as of the last commit
    pending,    \* what the commit now being made durable leads to, or None
    view,       \* the database that each open transaction reads, or None
    intact      \* the log has kept its promise so far

Init ==
    /\ store \in Images
    /\ pending = None
    /\ view = [c \in Conns |-> None]
    /\ intact = TRUE

\* A reader sees the last commit.
Begin(c) ==
    /\ view[c] = None
    /\ view' = [view EXCEPT ![c] = store]
    /\ UNCHANGED <<store, pending>>

End(c) ==
    /\ view[c] # None
    /\ view' = [view EXCEPT ![c] = None]
    /\ UNCHANGED <<store, pending>>

\* Only a transaction that reads the last commit may commit: histories do not fork.
Prepare(c) ==
    /\ pending = None /\ view[c] = store
    /\ pending' \in Images
    /\ UNCHANGED <<store, view>>

Commit(c) ==
    /\ pending # None /\ view[c] = store
    /\ store' = pending /\ pending' = None
    /\ view' = [view EXCEPT ![c] = pending]

\* Transactions end; the commit in progress happened or it did not.
Crash ==
    /\ store' \in {store, pending} \ {None}
    /\ pending' = None
    /\ view' = [c \in Conns |-> None]

Step ==
    \/ \E c \in Conns : Begin(c) \/ End(c) \/ Prepare(c) \/ Commit(c)
    \/ Crash

vars == <<store, pending, view, intact>>

\* Most steps of a log are none of the store's.
Next == UNCHANGED vars \/ (Step /\ UNCHANGED intact) \/ ~intact'

Spec == Init /\ [][Next]_vars
=============================================================================
