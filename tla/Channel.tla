------------------------------- MODULE Channel -------------------------------
(***************************************************************************)
(* One struct Channel of Projects/Proxy: the ring buffer between the read  *)
(* end of a pipe and the write end of the next one, with PutInBuffer() and *)
(* GetFromBuffer().  The two pointers into the buffer are offsets from its *)
(* start.  A read() or write() on a non-blocking descriptor moves any      *)
(* number of bytes from 1 to what it was asked for.                        *)
(***************************************************************************)
EXTENDS Integers, Sequences

CONSTANTS Size,     \* the size of the buffer
          Byte,     \* the values of a byte
          Zero,     \* the byte calloc() fills the buffer with
          MaxBytes  \* bound: the bytes that come from the source

ASSUME SizeAssumption == Size \in Nat \ {0}
ASSUME ZeroAssumption == Zero \in Byte

VARIABLES
  buffer,            \* the bytes of the buffer
  offset_for_write,  \* where the next byte that is read goes
  offset_for_read,   \* where the next byte to be written is
  empty, full,       \* the accounts of free and of used bytes
  running,           \* the process has not ended because of an error
  given, taken       \* history: all that was read from fd_from, and written to fd_to

vars == <<buffer, offset_for_write, offset_for_read, empty, full, running, given, taken>>

Slots == 0 .. Size - 1

Init ==
  /\ buffer = [j \in Slots |-> Zero]
  /\ offset_for_write = 0 /\ offset_for_read = 0
  /\ empty = Size /\ full = 0
  /\ running = TRUE
  /\ given = <<>> /\ taken = <<>>

Wrapped(offset) == IF offset = Size THEN 0 ELSE offset

(* How much read() is asked for, and write(): as much as lies in one piece. *)
(* Mistake: the piece is taken to be all of the free (used) bytes. *)
ReadRequest_All == empty
WriteRequest_All == full

ReadRequest ==
  IF offset_for_write <= Size - empty THEN empty ELSE Size - offset_for_write
WriteRequest ==
  IF offset_for_read <= Size - full THEN full ELSE Size - offset_for_read

(* Mistakes: not going back to the start; taking the request for the result. *)
PutInBuffer_NoWrap(chunk) ==
  LET n == Len(chunk) IN
  /\ buffer' = [j \in Slots |-> IF j \in offset_for_write .. offset_for_write + n - 1
                                THEN chunk[j - offset_for_write + 1] ELSE buffer[j]]
  /\ given' = given \o chunk
  /\ empty' = empty - n /\ full' = full + n
  /\ offset_for_write' = offset_for_write + n
  /\ UNCHANGED <<offset_for_read, running, taken>>

PutInBuffer(chunk) ==
  LET n == Len(chunk) IN
  /\ buffer' = [j \in Slots |-> IF j \in offset_for_write .. offset_for_write + n - 1
                                THEN chunk[j - offset_for_write + 1] ELSE buffer[j]]
  /\ given' = given \o chunk
  /\ empty' = empty - n /\ full' = full + n
  /\ offset_for_write' = Wrapped(offset_for_write + n)
  /\ UNCHANGED <<offset_for_read, running, taken>>

GetFromBuffer_Request(n) ==
  /\ taken' = taken \o [i \in 1 .. n |-> buffer[offset_for_read + i - 1]]
  /\ full' = full - WriteRequest /\ empty' = empty + WriteRequest
  /\ offset_for_read' = Wrapped(offset_for_read + WriteRequest)
  /\ UNCHANGED <<buffer, offset_for_write, running, given>>

GetFromBuffer(n) ==
  /\ taken' = taken \o [i \in 1 .. n |-> buffer[offset_for_read + i - 1]]
  /\ full' = full - n /\ empty' = empty + n
  /\ offset_for_read' = Wrapped(offset_for_read + n)
  /\ UNCHANGED <<buffer, offset_for_write, running, given>>

(* The caller's guards: select() is asked about a descriptor only while there is   *)
(* room (bytes).  A read() of 0 bytes at the end of the source, and one that fails *)
(* with EAGAIN, change nothing here.                                               *)
Put == /\ running /\ empty # 0
       /\ \E n \in 1 .. ReadRequest :
            /\ Len(given) + n <= MaxBytes
            /\ \E chunk \in [1 .. n -> Byte] : PutInBuffer(chunk)

Get == /\ running /\ full # 0
       /\ \E n \in 1 .. WriteRequest : GetFromBuffer(n)

(* Any other error of read() or write() ends the process. *)
IOError ==
  /\ running /\ (empty # 0 \/ full # 0)
  /\ running' = FALSE
  /\ UNCHANGED <<buffer, offset_for_write, offset_for_read, empty, full, given, taken>>

Next == Put \/ Get \/ IOError

Spec == Init /\ [][Next]_vars
-----------------------------------------------------------------------------
(* The offset of the byte i places after the one at offset o. *)
Slot(o, i) == IF o + i < Size THEN o + i ELSE o + i - Size

(* The slots that hold bytes. *)
Used == {Slot(offset_for_read, i) : i \in 0 .. full - 1}

(* Every variable has its type; the offsets are within the buffer (src.c:41, 77). *)
TypeOK ==
  /\ buffer \in [Slots -> Byte]
  /\ offset_for_write \in Slots /\ offset_for_read \in Slots
  /\ empty \in 0 .. Size /\ full \in 0 .. Size
  /\ running \in BOOLEAN
  /\ given \in Seq(Byte) /\ taken \in Seq(Byte)

(* read() is given a piece of the buffer that lies within it, holds no byte that *)
(* has still to be written, and is not empty: a read() of 0 bytes would be taken *)
(* for the end of the source (main.c:233).  src.c:52-58.                         *)
RoomIsFree ==
  empty # 0 =>
    /\ ReadRequest >= 1
    /\ offset_for_write .. offset_for_write + ReadRequest - 1 \subseteq Slots \ Used

(* write() is given a piece of the buffer that holds bytes to be written, at     *)
(* least one.  src.c:16-21.                                                      *)
DataIsUsed ==
  full # 0 =>
    /\ WriteRequest >= 1
    /\ offset_for_read .. offset_for_read + WriteRequest - 1 \subseteq Used

(* The channel is a queue of bytes: src.c:12-83 against ChannelFifo. *)
Fifo == INSTANCE ChannelFifo
IsFifo == Fifo!FifoSpec
=============================================================================
