------------------------------ MODULE MCRouting ------------------------------
(* Ids and keys are small numbers with the xor of their bits as distance.   *)
EXTENDS Routing, Bitwise

XorDist(x, y) == x ^^ y
=============================================================================
