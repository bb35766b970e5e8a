---------------------------- MODULE MCToolReplay ----------------------------
(***************************************************************************)
(* Instances of ToolReplay for TLC.                                         *)
(***************************************************************************)
EXTENDS ToolReplay, TLC

CONSTANTS i1, i2, A, B, f2

\* Ids are interchangeable.
IdSymmetry == Permutations(Ids)

\* A text that holds one block twice and another between.
MixedText == f2 :> <<A, B, A>>

\* Room for one id, for both if they share a block, and for everything.
SmallAndLarge == {[entries |-> 1, bytes |-> 99], [entries |-> 9, bytes |-> 5], [entries |-> 9, bytes |-> 99]}
=============================================================================
