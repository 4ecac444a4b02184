---------------------------- MODULE MCSignalBits ----------------------------
(* Characters of three bits, 0 to 7; 7 is EOF. *)
EXTENDS SignalBits
=============================================================================
