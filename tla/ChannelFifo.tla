---------------------------- MODULE ChannelFifo ----------------------------
(***************************************************************************)
(* What a channel of Projects/Proxy promises: the bytes read from its      *)
(* source are written to its sink in the order they came, none lost, none  *)
(* twice, and at most Size of them are held back.                          *)
(***************************************************************************)
EXTENDS Integers, Sequences

CONSTANTS Size,  \* how many bytes the channel can hold
          Byte   \* the values of a byte

VARIABLES given,  \* everything read from the source
          taken   \* everything written to the sink

fifoVars == <<given, taken>>

FifoInit == given = <<>> /\ taken = <<>>

(* More bytes, not more than fit in, are read. *)
Give ==
  /\ \E k \in 1 .. Size - (Len(given) - Len(taken)) :
       /\ Len(given') = Len(given) + k
       /\ given' \in Seq(Byte)
       /\ \A i \in 1 .. Len(given) : given'[i] = given[i]
  /\ UNCHANGED taken

(* The next bytes in line are written. *)
Take ==
  /\ \E k \in 1 .. Len(given) - Len(taken) :
       /\ Len(taken') = Len(taken) + k
       /\ taken' \in Seq(Byte)
       /\ \A i \in 1 .. Len(taken') : taken'[i] = given[i]
  /\ UNCHANGED given

FifoSpec == FifoInit /\ [][Give \/ Take]_fifoVars
=============================================================================
