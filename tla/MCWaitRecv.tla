----------------------------- MODULE MCWaitRecv -----------------------------
(* Three requests, two of one class: the class map can be overwritten.     *)
EXTENDS WaitRecv, TLC

CONSTANTS r1, r2, r3

MCRequests == {r1, r2, r3}
MCClassOf == r1 :> "getBlockHead" @@ r2 :> "getBlockHead" @@ r3 :> "getTransaction"
=============================================================================
