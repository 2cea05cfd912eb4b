----------------------------- MODULE MCOSSUpload -----------------------------
(***************************************************************************)
(* Instances of OSSUpload for TLC.                                          *)
(***************************************************************************)
EXTENDS OSSUpload, TLC

CONSTANTS b1, b2, b3, s1

\* A batch of two images, one of one image and an empty one, none overlapping.
SerialSize == (b1 :> 2) @@ (b2 :> 1) @@ (b3 :> 0)

\* Two batches of two images that may overlap: the shared array never shrinks
\* under a block.
EqualSize == (b1 :> 2) @@ (b2 :> 2)

==============================================================================
