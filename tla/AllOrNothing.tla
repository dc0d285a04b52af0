--------------------------- MODULE AllOrNothing ---------------------------
(***************************************************************************)
(* What every pair of a start and a stop promises its caller: a start that *)
(* succeeds has made all its things, one that fails has made none, and a   *)
(* stop gives all of them back.  A failed start is a stuttering step.      *)
(***************************************************************************)
CONSTANT Things
VARIABLE kept

Init == kept = {}

Start == kept = {} /\ kept' = Things

Stop == kept = Things /\ kept' = {}

Next == Start \/ Stop

Spec == Init /\ [][Next]_kept
===========================================================================
