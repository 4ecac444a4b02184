------------------------------ MODULE MCChannel ------------------------------
(* A buffer of four bytes that up to seven bytes go through. *)
EXTENDS Channel
MCByte == {0, 1}
=============================================================================
