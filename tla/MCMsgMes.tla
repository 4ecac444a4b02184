------------------------------ MODULE MCMsgMes ------------------------------
(* As many children as the configuration says. *)
EXTENDS MsgMes
=============================================================================
