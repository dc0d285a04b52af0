------------------------------ MODULE MCPrcMng ------------------------------
(* Instances of PrcMng for TLC. *)
EXTENDS PrcMng

CONSTANTS s1, s2, d1, r1, r2, r3

\* one static unit and one slot
Static1  == <<s1>>
Dynamic1 == <<d1>>
Pool2    == <<r1, r2>>

\* two static units and one slot
Static2  == <<s1, s2>>
Pool3    == <<r1, r2, r3>>
NoUnit   == << >>
Pool1    == <<r1>>
============================================================================
