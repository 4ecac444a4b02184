------------------------------- MODULE MCProxy -------------------------------
(* A small file through a chain of children; as in main.c:153 the buffers of *)
(* the first channels are the larger ones.                                   *)
EXTENDS Proxy
SizeSmall == [i \in Children |-> IF i = 0 THEN 2 ELSE 1]
=============================================================================
