------------------------------ MODULE MCSlotDrv ------------------------------
(* Instances of SlotDrv for TLC. *)
EXTENDS SlotDrv, TLC

\* MIO and PDM are two card types of the same kind
TypeSymmetry == Permutations(Type)
=============================================================================
