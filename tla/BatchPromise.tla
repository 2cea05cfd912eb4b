----------------------------- MODULE BatchPromise -----------------------------
(***************************************************************************)
(* What a batch upload of AliyunOSSTool promises its caller, image by       *)
(* image: each image is finished once, and the step that finishes the last  *)
(* one answers the batch.  No batch is answered early, twice, or by the     *)
(* images of another.                                                       *)
(***************************************************************************)
EXTENDS Naturals, FiniteSets

CONSTANTS
  Batches,  \* the batch calls
  Size      \* Size[b]: the number of images of batch b

VARIABLES
  finished,  \* finished[b]: the images of b that are finished
  answered   \* answered[b]: how often b was answered

promiseVars == <<finished, answered>>

PromiseInit ==
  /\ finished = [b \in Batches |-> {}]
  /\ answered = [b \in Batches |-> 0]

Finish(b, i) ==
  /\ i \notin finished[b]
  /\ finished' = [finished EXCEPT ![b] = @ \cup {i}]
  /\ answered' = IF finished'[b] = 1 .. Size[b]
                 THEN [answered EXCEPT ![b] = @ + 1]
                 ELSE answered

PromiseNext == \E b \in Batches : \E i \in 1 .. Size[b] : Finish(b, i)

PromiseSpec == PromiseInit /\ [][PromiseNext]_promiseVars

===============================================================================
