---------------------------- MODULE ChannelProofs ----------------------------
(***************************************************************************)
(* The ring buffer of Channel is a queue of bytes, for any size of the     *)
(* buffer and any stream.                                                  *)
(***************************************************************************)
EXTENDS Channel, TLAPS

(* The two accounts and the two offsets agree. *)
Accounts ==
  /\ empty = Size - full
  /\ offset_for_write = Slot(offset_for_read, full)
  /\ Len(given) = Len(taken) + full

(* What has been taken is what was given first; the buffer holds the rest of it. *)
Contents ==
  /\ \A i \in 1 .. Len(taken) : taken[i] = given[i]
  /\ \A i \in 0 .. full - 1 : buffer[Slot(offset_for_read, i)] = given[Len(taken) + i + 1]

IInv == TypeOK /\ Accounts /\ Contents

(* A request of read() is what is free in one piece. *)
LEMMA RequestToRead ==
  ASSUME TypeOK, Accounts, empty # 0
  PROVE  /\ ReadRequest \in 1 .. empty
         /\ offset_for_write + ReadRequest <= Size
         /\ \A i \in 0 .. full - 1, j \in 0 .. ReadRequest - 1 :
              Slot(offset_for_read, i) # offset_for_write + j
BY SizeAssumption DEF TypeOK, Accounts, Slot, Slots, ReadRequest

(* A request of write() is what is used in one piece. *)
LEMMA RequestToWrite ==
  ASSUME TypeOK, Accounts, full # 0
  PROVE  /\ WriteRequest \in 1 .. full
         /\ offset_for_read + WriteRequest <= Size
         /\ \A j \in 0 .. WriteRequest - 1 : Slot(offset_for_read, j) = offset_for_read + j
BY SizeAssumption DEF TypeOK, Accounts, Slot, Slots, WriteRequest

(* The slots that a piece of n bytes read at offset w fills follow the used ones. *)
LEMMA SlotsOfPiece ==
  ASSUME NEW r \in Slots, NEW f \in 0 .. Size, NEW n \in 1 .. Size - f,
         Slot(r, f) + n <= Size
  PROVE  /\ Slot(r, f + n) = Wrapped(Slot(r, f) + n)
         /\ \A j \in 0 .. n - 1 : Slot(r, f + j) = Slot(r, f) + j
BY SizeAssumption DEF Slot, Slots, Wrapped

(* What PutInBuffer() does to the invariant. *)
LEMMA PutKeeps ==
  ASSUME IInv, running, empty # 0, NEW n \in 1 .. ReadRequest,
         NEW chunk \in [1 .. n -> Byte], PutInBuffer(chunk)
  PROVE  /\ IInv'
         /\ given' \in Seq(Byte) /\ Len(given') = Len(given) + n
         /\ \A i \in 1 .. Len(given) : given'[i] = given[i]
         /\ n <= Size - full /\ UNCHANGED taken
<1>1. TypeOK /\ Accounts /\ Contents  BY DEF IInv
<1>2. /\ ReadRequest \in 1 .. empty
      /\ offset_for_write + ReadRequest <= Size
      /\ \A i \in 0 .. full - 1, j \in 0 .. ReadRequest - 1 :
           Slot(offset_for_read, i) # offset_for_write + j
      BY <1>1, RequestToRead
<1>3. chunk \in Seq(Byte) /\ Len(chunk) = n  BY <1>1, <1>2 DEF TypeOK
<1>4. n \in 1 .. Size - full /\ offset_for_write + n <= Size
      BY <1>1, <1>2, SizeAssumption DEF TypeOK, Accounts, Slots
<1>5. /\ Slot(offset_for_read, full + n) = Wrapped(offset_for_write + n)
      /\ \A j \in 0 .. n - 1 : Slot(offset_for_read, full + j) = offset_for_write + j
      BY <1>1, <1>4, SlotsOfPiece DEF TypeOK, Accounts
<1>6. /\ given' = given \o chunk /\ UNCHANGED <<offset_for_read, running, taken>>
      /\ empty' = empty - n /\ full' = full + n
      /\ offset_for_write' = Wrapped(offset_for_write + n)
      BY <1>3 DEF PutInBuffer
<1>7. \A j \in Slots : buffer'[j] = IF j \in offset_for_write .. offset_for_write + n - 1
                                    THEN chunk[j - offset_for_write + 1] ELSE buffer[j]
      BY <1>3 DEF PutInBuffer
<1>8. /\ given' \in Seq(Byte) /\ Len(given') = Len(given) + n
      /\ \A i \in 1 .. Len(given) : given'[i] = given[i]
      /\ \A i \in 1 .. n : given'[Len(given) + i] = chunk[i]
  <2>1. given \in Seq(Byte)  BY <1>1 DEF TypeOK
  <2>2. given \o chunk \in Seq(Byte) /\ Len(given \o chunk) = Len(given) + n
        BY <1>3, <2>1
  <2>3. \A i \in 1 .. Len(given) : (given \o chunk)[i] = given[i]
        BY <1>3, <2>1
  <2>4. \A i \in 1 .. n : (given \o chunk)[Len(given) + i] = chunk[i]
        BY <1>3, <2>1
  <2> QED  BY <1>6, <2>2, <2>3, <2>4
<1>9. TypeOK'
  <2>1. buffer' \in [Slots -> Byte]
    <3>1. buffer' = [j \in Slots |-> IF j \in offset_for_write .. offset_for_write + n - 1
                                     THEN chunk[j - offset_for_write + 1] ELSE buffer[j]]
          BY <1>3 DEF PutInBuffer
    <3>2. ASSUME NEW j \in Slots, j \in offset_for_write .. offset_for_write + n - 1
          PROVE  chunk[j - offset_for_write + 1] \in Byte
          BY <1>1, <1>4, <3>2 DEF TypeOK, Slots
    <3> QED  BY <1>1, <3>1, <3>2 DEF TypeOK
  <2>2. offset_for_write' \in Slots
        BY <1>1, <1>4, <1>6, SizeAssumption DEF TypeOK, Slots, Wrapped
  <2>3. empty' \in 0 .. Size /\ full' \in 0 .. Size
        BY <1>1, <1>4, <1>6, SizeAssumption DEF TypeOK, Accounts
  <2> QED  BY <1>1, <1>6, <1>8, <2>1, <2>2, <2>3 DEF TypeOK
<1>10. Accounts'
  <2>1. empty' = Size - full'  BY <1>1, <1>4, <1>6, SizeAssumption DEF TypeOK, Accounts
  <2>2. offset_for_write' = Slot(offset_for_read', full')  BY <1>5, <1>6
  <2>3. Len(given') = Len(taken') + full'  BY <1>1, <1>6, <1>8 DEF TypeOK, Accounts
  <2> QED  BY <2>1, <2>2, <2>3 DEF Accounts
<1>11. Contents'
  <2>1. \A i \in 1 .. Len(taken') : taken'[i] = given'[i]
        BY <1>1, <1>6, <1>8 DEF TypeOK, Accounts, Contents
  <2>2. ASSUME NEW i \in 0 .. full - 1
        PROVE  buffer'[Slot(offset_for_read, i)] = given'[Len(taken) + i + 1]
    <3>1. Slot(offset_for_read, i) \in Slots
          BY <1>1, SizeAssumption DEF TypeOK, Slot, Slots
    <3>2. \A j \in 0 .. n - 1 : Slot(offset_for_read, i) # offset_for_write + j
          BY <1>1, <1>2 DEF TypeOK
    <3>3. Slot(offset_for_read, i) \notin offset_for_write .. offset_for_write + n - 1
      <4>0. offset_for_write \in Int  BY <1>1 DEF TypeOK, Slots
      <4> SUFFICES ASSUME NEW x \in offset_for_write .. offset_for_write + n - 1
                   PROVE  Slot(offset_for_read, i) # x
          OBVIOUS
      <4>1. x - offset_for_write \in 0 .. n - 1 /\ x = offset_for_write + (x - offset_for_write)
            BY <1>4, <4>0
      <4>2. x - offset_for_write \in 0 .. ReadRequest - 1
            BY <1>1, <1>2, <4>1 DEF TypeOK
      <4> QED  BY <3>2, <4>1, <4>2
    <3>4. buffer'[Slot(offset_for_read, i)] = buffer[Slot(offset_for_read, i)]
          BY <1>7, <3>1, <3>3
    <3>5. Len(taken) + i + 1 \in 1 .. Len(given)  BY <1>1 DEF TypeOK, Accounts
    <3> QED  BY <1>1, <1>8, <3>4, <3>5 DEF Contents
  <2>3. ASSUME NEW j \in 0 .. n - 1
        PROVE  buffer'[Slot(offset_for_read, full + j)] = given'[Len(taken) + (full + j) + 1]
    <3>1. /\ offset_for_write + j \in Slots
          /\ offset_for_write + j \in offset_for_write .. offset_for_write + n - 1
          BY <1>1, <1>4, SizeAssumption DEF TypeOK, Slots
    <3>2. buffer'[offset_for_write + j] = chunk[(offset_for_write + j) - offset_for_write + 1]
          BY <1>7, <3>1
    <3>3. (offset_for_write + j) - offset_for_write + 1 = j + 1  BY <1>1 DEF TypeOK, Slots
    <3>4. Len(taken) + (full + j) + 1 = Len(given) + (j + 1) /\ j + 1 \in 1 .. n
          BY <1>1, <1>4 DEF TypeOK, Accounts
    <3> QED  BY <1>5, <1>8, <3>2, <3>3, <3>4
  <2>4. ASSUME NEW i \in 0 .. full' - 1
        PROVE  buffer'[Slot(offset_for_read', i)] = given'[Len(taken') + i + 1]
    <3>1. CASE i \in 0 .. full - 1  BY <1>6, <2>2, <3>1
    <3>2. CASE i \notin 0 .. full - 1
      <4>1. i - full \in 0 .. n - 1 /\ i = full + (i - full)
            BY <1>1, <1>4, <1>6, <3>2 DEF TypeOK
      <4>2. buffer'[Slot(offset_for_read, full + (i - full))]
              = given'[Len(taken) + (full + (i - full)) + 1]
            BY <2>3, <4>1
      <4> QED  BY <1>6, <4>1, <4>2
    <3> QED  BY <3>1, <3>2
  <2> QED  BY <2>1, <2>4 DEF Contents
<1> QED  BY <1>4, <1>6, <1>8, <1>9, <1>10, <1>11 DEF IInv

(* What GetFromBuffer() does to the invariant. *)
LEMMA GetKeeps ==
  ASSUME IInv, running, full # 0, NEW n \in 1 .. WriteRequest, GetFromBuffer(n)
  PROVE  /\ IInv'
         /\ taken' \in Seq(Byte) /\ Len(taken') = Len(taken) + n
         /\ \A i \in 1 .. Len(taken') : taken'[i] = given[i]
         /\ n <= full /\ UNCHANGED given
<1> DEFINE piece == [i \in 1 .. n |-> buffer[offset_for_read + i - 1]]
<1>1. TypeOK /\ Accounts /\ Contents  BY DEF IInv
<1>2. /\ WriteRequest \in 1 .. full
      /\ offset_for_read + WriteRequest <= Size
      /\ \A j \in 0 .. WriteRequest - 1 : Slot(offset_for_read, j) = offset_for_read + j
      BY <1>1, RequestToWrite
<1>3. n \in 1 .. full /\ offset_for_read + n <= Size
      BY <1>1, <1>2, SizeAssumption DEF TypeOK, Slots
<1>4. /\ taken' = taken \o piece /\ UNCHANGED <<buffer, offset_for_write, running, given>>
      /\ full' = full - n /\ empty' = empty + n
      /\ offset_for_read' = Wrapped(offset_for_read + n)
      BY DEF GetFromBuffer
<1>5. ASSUME NEW i \in 1 .. n
      PROVE  buffer[offset_for_read + i - 1] \in Byte
                /\ buffer[offset_for_read + i - 1] = given[Len(taken) + i]
  <2>1. offset_for_read + i - 1 \in Slots  BY <1>1, <1>3, SizeAssumption DEF TypeOK, Slots
  <2>2. i - 1 \in 0 .. full - 1 /\ i - 1 \in 0 .. WriteRequest - 1
        BY <1>1, <1>2, <1>3 DEF TypeOK
  <2>3. Slot(offset_for_read, i - 1) = offset_for_read + (i - 1)  BY <1>2, <2>2
  <2>4. offset_for_read + (i - 1) = offset_for_read + i - 1 /\ Len(taken) + (i - 1) + 1 = Len(taken) + i
        BY <1>1 DEF TypeOK, Slots
  <2>5. buffer[Slot(offset_for_read, i - 1)] = given[Len(taken) + (i - 1) + 1]
        BY <1>1, <2>2 DEF Contents
  <2> QED  BY <1>1, <2>1, <2>3, <2>4, <2>5 DEF TypeOK
<1>6. piece \in Seq(Byte) /\ Len(piece) = n /\ \A i \in 1 .. n : piece[i] = given[Len(taken) + i]
  <2>1. piece \in [1 .. n -> Byte]  BY <1>5
  <2> QED  BY <1>1, <1>3, <1>5, <2>1 DEF TypeOK
<1> HIDE DEF piece
<1>7. taken' \in Seq(Byte) /\ Len(taken') = Len(taken) + n
  <2>1. taken \in Seq(Byte)  BY <1>1 DEF TypeOK
  <2>2. n \in Nat /\ Len(taken) \in Nat  BY <1>3, <2>1
  <2>3. taken \o piece \in Seq(Byte)  BY <1>6, <2>1
  <2>4. Len(taken \o piece) = Len(taken) + n  BY <1>6, <2>1
  <2> QED  BY <1>4, <2>3, <2>4
<1>8. ASSUME NEW i \in 1 .. Len(taken')
      PROVE  taken'[i] = given[i]
  <2>1. taken \in Seq(Byte) /\ n \in Nat  BY <1>1, <1>3 DEF TypeOK
  <2>2. CASE i \in 1 .. Len(taken)
    <3>1. (taken \o piece)[i] = taken[i]  BY <1>6, <2>1, <2>2
    <3> QED  BY <1>1, <1>4, <2>2, <3>1 DEF Contents
  <2>3. CASE i \notin 1 .. Len(taken)
    <3>1. i - Len(taken) \in 1 .. n /\ Len(taken) + (i - Len(taken)) = i
          BY <1>7, <2>1, <2>3
    <3>2. (taken \o piece)[i] = piece[i - Len(taken)]  BY <1>6, <2>1, <3>1
    <3> QED  BY <1>4, <1>6, <3>1, <3>2
  <2> QED  BY <2>2, <2>3
<1>9. /\ offset_for_read' \in Slots
      /\ offset_for_write = Slot(offset_for_read', full')
      /\ \A i \in 0 .. full' - 1 :
           Slot(offset_for_read', i) = Slot(offset_for_read, n + i)
      BY <1>1, <1>3, <1>4, SizeAssumption DEF TypeOK, Accounts, Slots, Slot, Wrapped
<1>10. TypeOK'
  <2>1. empty' \in 0 .. Size /\ full' \in 0 .. Size
        BY <1>1, <1>3, <1>4, SizeAssumption DEF TypeOK, Accounts
  <2> QED  BY <1>1, <1>4, <1>7, <1>9, <2>1 DEF TypeOK
<1>11. Accounts'
  <2>1. empty' = Size - full'  BY <1>1, <1>3, <1>4, SizeAssumption DEF TypeOK, Accounts
  <2>2. Len(given') = Len(taken') + full'
    <3>1. taken \in Seq(Byte) /\ n \in Int /\ full \in Int  BY <1>1, <1>3 DEF TypeOK
    <3>2. Len(given) = Len(taken) + full  BY <1>1 DEF Accounts
    <3> QED  BY <1>4, <1>7, <3>1, <3>2
  <2> QED  BY <1>4, <1>9, <2>1, <2>2 DEF Accounts
<1>12. Contents'
  <2>1. ASSUME NEW i \in 0 .. full' - 1
        PROVE  buffer'[Slot(offset_for_read', i)] = given'[Len(taken') + i + 1]
    <3>1. n + i \in 0 .. full - 1  BY <1>1, <1>3, <1>4 DEF TypeOK
    <3>2. buffer[Slot(offset_for_read, n + i)] = given[Len(taken) + (n + i) + 1]
          BY <1>1, <3>1 DEF Contents
    <3>3. Len(taken) + (n + i) + 1 = Len(taken') + i + 1
          BY <1>1, <1>3, <1>7 DEF TypeOK
    <3> QED  BY <1>4, <1>9, <3>2, <3>3
  <2> QED  BY <1>4, <1>8, <2>1 DEF Contents
<1> QED  BY <1>1, <1>3, <1>4, <1>7, <1>8, <1>10, <1>11, <1>12 DEF IInv, TypeOK

(* calloc() and main.c:153-165 set the channel up. *)
LEMMA InitInv == Init => IInv
<1> SUFFICES ASSUME Init  PROVE IInv
    OBVIOUS
<1>1. TypeOK
      BY SizeAssumption, ZeroAssumption DEF Init, TypeOK, Slots
<1>2. Accounts /\ Contents
      BY SizeAssumption DEF Init, Accounts, Contents, Slot, Slots
<1> QED  BY <1>1, <1>2 DEF IInv

(* Every step keeps the invariant and is a step of the queue. *)
LEMMA StepInv ==
  ASSUME IInv, [Next]_vars
  PROVE  IInv' /\ [Fifo!Give \/ Fifo!Take]_(Fifo!fifoVars)
<1>1. CASE Put
  <2>1. PICK n \in 1 .. ReadRequest : \E chunk \in [1 .. n -> Byte] : PutInBuffer(chunk)
        BY <1>1 DEF Put
  <2>2. PICK chunk \in [1 .. n -> Byte] : PutInBuffer(chunk)  BY <2>1
  <2>3. /\ IInv'
        /\ given' \in Seq(Byte) /\ Len(given') = Len(given) + n
        /\ \A i \in 1 .. Len(given) : given'[i] = given[i]
        /\ n <= Size - full /\ UNCHANGED taken
        BY <1>1, <2>2, PutKeeps DEF Put
  <2>4. n \in 1 .. Size - (Len(given) - Len(taken))
        BY <2>3, SizeAssumption DEF IInv, TypeOK, Accounts
  <2> QED  BY <2>3, <2>4 DEF Fifo!Give
<1>2. CASE Get
  <2>1. PICK n \in 1 .. WriteRequest : GetFromBuffer(n)  BY <1>2 DEF Get
  <2>2. /\ IInv'
        /\ taken' \in Seq(Byte) /\ Len(taken') = Len(taken) + n
        /\ \A i \in 1 .. Len(taken') : taken'[i] = given[i]
        /\ n <= full /\ UNCHANGED given
        BY <1>2, <2>1, GetKeeps DEF Get
  <2>3. n \in 1 .. Len(given) - Len(taken)
        BY <2>2 DEF IInv, TypeOK, Accounts
  <2> QED  BY <2>2, <2>3 DEF Fifo!Take
<1>3. CASE IOError \/ UNCHANGED vars
  <2> USE <1>3 DEF IOError, vars
  <2>1. TypeOK'  BY DEF IInv, TypeOK
  <2>2. Accounts'  BY DEF IInv, Accounts
  <2>3. Contents'  BY DEF IInv, Contents
  <2> QED  BY <2>1, <2>2, <2>3 DEF IInv, Fifo!fifoVars
<1> QED  BY <1>1, <1>2, <1>3 DEF Next

(* The invariant holds in every reachable state of a channel. *)
THEOREM Invariance == Spec => []IInv
<1>1. IInv /\ [Next]_vars => IInv'  BY StepInv
<1> QED  BY <1>1, InitInv, PTL DEF Spec

(* Offsets and accounts stay within the buffer, for every size of it. *)
THEOREM TypeCorrect == Spec => []TypeOK
<1>1. IInv => TypeOK  BY DEF IInv
<1> QED  BY <1>1, Invariance, PTL

(* PutInBuffer() reads into free room within the buffer, and asks for at least a byte. *)
THEOREM ReadsIntoRoom == Spec => []RoomIsFree
<1>1. ASSUME IInv, empty # 0
      PROVE  /\ ReadRequest >= 1
             /\ offset_for_write .. offset_for_write + ReadRequest - 1 \subseteq Slots \ Used
  <2>1. TypeOK /\ Accounts  BY <1>1 DEF IInv
  <2>2. /\ ReadRequest \in 1 .. empty
        /\ offset_for_write + ReadRequest <= Size
        /\ \A i \in 0 .. full - 1, j \in 0 .. ReadRequest - 1 :
             Slot(offset_for_read, i) # offset_for_write + j
        BY <1>1, <2>1, RequestToRead
  <2>3. offset_for_write \in Nat /\ ReadRequest \in Nat  BY <2>1, <2>2 DEF TypeOK, Slots
  <2>4. ASSUME NEW x \in offset_for_write .. offset_for_write + ReadRequest - 1
        PROVE  x \in Slots /\ x \notin Used
    <3>1. x - offset_for_write \in 0 .. ReadRequest - 1 /\ x = offset_for_write + (x - offset_for_write)
          BY <2>3
    <3>2. x \in Slots  BY <2>2, <2>3, SizeAssumption DEF Slots
    <3>3. x \notin Used  BY <2>2, <3>1 DEF Used
    <3> QED  BY <3>2, <3>3
  <2> QED  BY <2>2, <2>3, <2>4
<1>2. IInv => RoomIsFree  BY <1>1 DEF RoomIsFree
<1> QED  BY <1>2, Invariance, PTL

(* GetFromBuffer() writes bytes that wait in the buffer, at least one. *)
THEOREM WritesFromData == Spec => []DataIsUsed
<1>1. ASSUME IInv, full # 0
      PROVE  /\ WriteRequest >= 1
             /\ offset_for_read .. offset_for_read + WriteRequest - 1 \subseteq Used
  <2>1. TypeOK /\ Accounts  BY <1>1 DEF IInv
  <2>2. /\ WriteRequest \in 1 .. full
        /\ \A j \in 0 .. WriteRequest - 1 : Slot(offset_for_read, j) = offset_for_read + j
        BY <1>1, <2>1, RequestToWrite
  <2>3. offset_for_read \in Nat /\ WriteRequest \in Nat /\ full \in Nat
        BY <2>1, <2>2 DEF TypeOK, Slots
  <2>4. ASSUME NEW x \in offset_for_read .. offset_for_read + WriteRequest - 1
        PROVE  x \in Used
    <3>1. x - offset_for_read \in 0 .. WriteRequest - 1 /\ x = offset_for_read + (x - offset_for_read)
          BY <2>3
    <3>2. x - offset_for_read \in 0 .. full - 1  BY <2>2, <2>3, <3>1
    <3> QED  BY <2>2, <3>1, <3>2 DEF Used
  <2> QED  BY <2>2, <2>3, <2>4
<1>2. IInv => DataIsUsed  BY <1>1 DEF DataIsUsed
<1> QED  BY <1>2, Invariance, PTL

(* A channel implements a queue of bytes that holds up to Size of them. *)
THEOREM Implements == Spec => IsFifo
<1>1. Init => Fifo!FifoInit  BY DEF Init, Fifo!FifoInit
<1>2. IInv /\ [Next]_vars => [Fifo!Give \/ Fifo!Take]_(Fifo!fifoVars)  BY StepInv
<1> QED  BY <1>1, <1>2, Invariance, PTL DEF Spec, IsFifo, Fifo!FifoSpec
=============================================================================
