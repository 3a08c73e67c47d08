------------------------------ MODULE MCClient ------------------------------
EXTENDS ClientProperties

InRange  == {0}
(* The last register and the first number beyond it. *)
AtTheEnd == {1, 2}
Beyond   == {65536}
NoNumber == {}
=============================================================================
