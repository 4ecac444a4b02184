----------------------------- MODULE ProxyProofs -----------------------------
(***************************************************************************)
(* The safety of Proxy, for any number of children, any file and pipes and *)
(* buffers of any size.                                                    *)
(***************************************************************************)
EXTENDS Proxy, TLAPS

Types ==
  /\ TypeOK
  /\ inPipe \in [Children -> Seq(Nat)] /\ outPipe \in [Children -> Seq(Nat)]
  /\ queue \in [Children -> Seq(Nat)] /\ stdout \in Seq(Nat)
  /\ stopped \in BOOLEAN

NoFailure == \A i \in Children : exited[i] # "failure"

(* What is done with, in the order in which ends are passed on: a child that ends *)
(* well has had all of its input, a pipe that has ended is empty, and channels    *)
(* are closed from the first to the last.                                         *)
Ends ==
  /\ \A i \in Children : exited[i] = "none" <=> ~Gone(i)
  /\ \A i \in Children : ~is_can_read[i] => Gone(i) /\ outPipe[i] = <<>>
  /\ \A i \in Children : ~is_can_write[i] <=> i < child_deaths
  /\ \A i \in Children : i < child_deaths => Drained(i)
  /\ exited[0] = "success" => offset = FileLen
  /\ \A i \in Children \ {0} : exited[i] = "success" => inPipe[i] = <<>> /\ ~is_can_write[i - 1]

(* What select() has returned still holds of the channels that are yet to be served. *)
Serving ==
  /\ \A i \in rfds : i > at \/ (i = at /\ parent = "read") =>
                       is_can_read[i] /\ (outPipe[i] # <<>> \/ Gone(i))
  /\ \A i \in wfds : i > at \/ (i = at /\ parent \in {"read", "write"}) => is_can_write[i]
  /\ parent \in {"read", "write", "check"} => child_deaths <= at
  /\ parent = "select" => rfds = {} /\ wfds = {}
  /\ parent = "success" => child_deaths = N

Zombie(i) == child[i] = "zombie"

(* A signal that is pending stands for a child that is not waited for. *)
Zombies ==
  ~stopped =>
    /\ pending \/ handling => \E i \in Children : Zombie(i)
    /\ pending /\ handling => \E i, j \in Children : i # j /\ Zombie(i) /\ Zombie(j)

(* The bytes in s are those after the first b of the file. *)
Piece(s, b) == \A k \in 1 .. Len(s) : s[k] = b + k

(* D[i] bytes have left channel i; then so many have come into it, and so many *)
(* has child i sent.                                                           *)
Came(D, i) == D[i] + Len(queue[i])
Sent(D, i) == Came(D, i) + Len(outPipe[i])

Flow(D) ==
  /\ \A i \in Children : /\ Piece(queue[i], D[i]) /\ Piece(outPipe[i], Came(D, i))
                         /\ Sent(D, i) <= FileLen
  /\ \A i \in Children \ {0} : /\ Piece(inPipe[i], Sent(D, i))
                               /\ D[i - 1] = Sent(D, i) + Len(inPipe[i])
  /\ Sent(D, 0) = offset
  /\ Len(stdout) = D[N - 1] /\ Piece(stdout, 0)
  /\ NoFailure => \A i \in Children : i < child_deaths => D[i] = FileLen

Flowing == \E D \in [Children -> Nat] : Flow(D)

IInv == Types /\ Ends /\ Serving /\ FailureHasACause /\ Zombies /\ Flowing

-----------------------------------------------------------------------------
(* Pieces of the file *)

LEMMA PieceJoined ==
  ASSUME NEW s \in Seq(Nat), NEW t \in Seq(Nat), NEW b \in Nat,
         Piece(s, b), Piece(t, b + Len(s))
  PROVE  s \o t \in Seq(Nat) /\ Len(s \o t) = Len(s) + Len(t) /\ Piece(s \o t, b)
<1>1. s \o t \in Seq(Nat) /\ Len(s \o t) = Len(s) + Len(t)  OBVIOUS
<1>2. ASSUME NEW k \in 1 .. Len(s \o t) PROVE (s \o t)[k] = b + k
  <2>1. CASE k <= Len(s)
    <3>1. k \in 1 .. Len(s) /\ (s \o t)[k] = s[k]  BY <1>1, <2>1
    <3> QED  BY <3>1 DEF Piece
  <2>2. CASE k > Len(s)
    <3>1. k - Len(s) \in 1 .. Len(t) /\ (s \o t)[k] = t[k - Len(s)]  BY <1>1, <2>2
    <3>2. t[k - Len(s)] = (b + Len(s)) + (k - Len(s))  BY <3>1 DEF Piece
    <3>3. Len(s) \in Nat  OBVIOUS
    <3> QED  BY <3>1, <3>2, <3>3
  <2> QED  BY <1>1, <2>1, <2>2
<1> QED  BY <1>1, <1>2 DEF Piece

LEMMA PieceSplit ==
  ASSUME NEW s \in Seq(Nat), NEW b \in Nat, NEW k \in 1 .. Len(s), Piece(s, b)
  PROVE  /\ FirstOf(s, k) \in Seq(Nat) /\ Len(FirstOf(s, k)) = k /\ Piece(FirstOf(s, k), b)
         /\ Rest(s, k) \in Seq(Nat) /\ Len(Rest(s, k)) = Len(s) - k /\ Piece(Rest(s, k), b + k)
<1>1. /\ FirstOf(s, k) \in Seq(Nat) /\ Len(FirstOf(s, k)) = k
      /\ \A j \in 1 .. k : FirstOf(s, k)[j] = s[j]
      BY DEF FirstOf
<1>2. /\ Rest(s, k) \in Seq(Nat) /\ Len(Rest(s, k)) = Len(s) - k
      /\ \A j \in 1 .. Len(s) - k : Rest(s, k)[j] = s[k + j]
      BY DEF Rest
<1>3. ASSUME NEW j \in 1 .. Len(FirstOf(s, k)) PROVE FirstOf(s, k)[j] = b + j
  <2>1. j \in 1 .. Len(s) /\ FirstOf(s, k)[j] = s[j]  BY <1>1
  <2> QED  BY <2>1 DEF Piece
<1>4. ASSUME NEW j \in 1 .. Len(Rest(s, k)) PROVE Rest(s, k)[j] = (b + k) + j
  <2>1. k + j \in 1 .. Len(s) /\ Rest(s, k)[j] = s[k + j]  BY <1>2
  <2> QED  BY <2>1 DEF Piece
<1> QED  BY <1>1, <1>2, <1>3, <1>4 DEF Piece

LEMMA Counts ==
  ASSUME Types, NEW D \in [Children -> Nat], NEW i \in Children
  PROVE  /\ D[i] \in Nat /\ queue[i] \in Seq(Nat) /\ outPipe[i] \in Seq(Nat)
         /\ inPipe[i] \in Seq(Nat)
         /\ Len(queue[i]) \in Nat /\ Len(outPipe[i]) \in Nat /\ Len(inPipe[i]) \in Nat
         /\ Came(D, i) \in Nat /\ Came(D, i) = D[i] + Len(queue[i])
         /\ Sent(D, i) \in Nat /\ Sent(D, i) = Came(D, i) + Len(outPipe[i])
         /\ D[i] <= Came(D, i) /\ Came(D, i) <= Sent(D, i)
<1>1. /\ D[i] \in Nat /\ queue[i] \in Seq(Nat) /\ outPipe[i] \in Seq(Nat) /\ inPipe[i] \in Seq(Nat)
      BY DEF Types
<1>2. Len(queue[i]) \in Nat /\ Len(outPipe[i]) \in Nat /\ Len(inPipe[i]) \in Nat  BY <1>1
<1>3. Came(D, i) \in Nat /\ Came(D, i) = D[i] + Len(queue[i]) /\ D[i] <= Came(D, i)
      BY <1>1, <1>2 DEF Came
<1>4. /\ Sent(D, i) \in Nat /\ Sent(D, i) = Came(D, i) + Len(outPipe[i])
      /\ Came(D, i) <= Sent(D, i)
      BY <1>2, <1>3 DEF Sent
<1> QED  BY <1>1, <1>2, <1>3, <1>4

LEMMA Concat ==
  ASSUME NEW s \in Seq(Nat), NEW t \in Seq(Nat)
  PROVE  s \o t \in Seq(Nat) /\ Len(s \o t) = Len(s) + Len(t)
OBVIOUS

(* Nothing is moved and no channel is done with. *)
LEMMA FlowKept ==
  ASSUME Flowing, UNCHANGED <<inPipe, outPipe, queue, offset, stdout, child_deaths>>,
         NoFailure' => NoFailure
  PROVE  Flowing'
<1> PICK D \in [Children -> Nat] : Flow(D)  BY DEF Flowing
<1>1. Flow(D)'  BY DEF Flow, Piece, Came, Sent
<1> QED  BY <1>1 DEF Flowing

LEMMA InitIInv == Init => IInv
<1> SUFFICES ASSUME Init PROVE IInv  OBVIOUS
<1> USE NAssumption, SizesAssumption
<1>0. N \in Nat /\ N > 0 /\ 0 \in Children  BY DEF Children
<1>1. Types
  <2>1. <<>> \in Seq(Nat) /\ Len(<<>>) = 0  OBVIOUS
  <2>2. TypeOK  BY <1>0, <2>1, SMTT(30) DEF Init, TypeOK, ChildSteps, ParentSteps
  <2> QED  BY <2>1, <2>2 DEF Init, Types
<1>2. Ends
  <2>1. \A i \in Children : exited[i] = "none" /\ child[i] = "start" /\ is_can_read[i]
                            /\ is_can_write[i] /\ ~(i < child_deaths)
        BY DEF Init, Children
  <2>2. \A i \in Children : ~Gone(i)  BY <2>1 DEF Gone
  <2> QED  BY <1>0, <2>1, <2>2 DEF Ends
<1>3. Serving  BY DEF Init, Serving
<1>4. FailureHasACause  BY DEF Init, FailureHasACause
<1>5. Zombies  BY DEF Init, Zombies
<1>6. Flowing
  <2> DEFINE D == [i \in Children |-> 0]
  <2>1. D \in [Children -> Nat]  OBVIOUS
  <2>2. N - 1 \in Children  BY <1>0 DEF Children
  <2>3. \A i \in Children : /\ queue[i] = <<>> /\ outPipe[i] = <<>> /\ inPipe[i] = <<>>
                            /\ D[i] = 0 /\ ~(i < child_deaths)
        BY DEF Init, Children
  <2>4. Len(<<>>) = 0 /\ stdout = <<>> /\ offset = 0  BY DEF Init
  <2>5. ASSUME NEW i \in Children PROVE Came(D, i) = 0 /\ Sent(D, i) = 0
    <3>1. D[i] = 0 /\ Len(queue[i]) = 0 /\ Len(outPipe[i]) = 0  BY <2>3, <2>4
    <3> HIDE DEF D
    <3>2. Came(D, i) = 0  BY <3>1 DEF Came
    <3> QED  BY <3>1, <3>2 DEF Sent
  <2>6. \A b : Piece(<<>>, b)  BY <2>4 DEF Piece
  <2>7. \A i \in Children \ {0} : i - 1 \in Children  BY DEF Children
  <2> HIDE DEF D
  <2>8. Flow(D)  BY <1>0, <2>2, <2>3, <2>4, <2>5, <2>6, <2>7 DEF Flow
  <2> QED  BY <2>1, <2>8 DEF Flowing
<1> QED  BY <1>1, <1>2, <1>3, <1>4, <1>5, <1>6 DEF IInv

-----------------------------------------------------------------------------
(* The children *)

LEMMA StartKeeps ==
  ASSUME IInv, NEW c \in Children, Start(c)
  PROVE  IInv'
<1>t. Types /\ Ends /\ Serving /\ FailureHasACause /\ Zombies /\ Flowing  BY DEF IInv
<1>0. /\ child' = [child EXCEPT ![c] = "splice"] /\ child[c] = "start"
      /\ UNCHANGED <<exited, offset, inPipe, outPipe, queue, flags, loopVars, signals, stdout>>
      BY DEF Start
<1>1. Types'  BY <1>t, <1>0 DEF Types, TypeOK, ChildSteps, flags, loopVars, signals
<1>2. \A i \in Children : Gone(i)' = Gone(i) /\ Zombie(i)' = Zombie(i)
      BY <1>t, <1>0 DEF Types, TypeOK, Gone, Zombie
<1>3. Ends'  BY <1>t, <1>0, <1>2 DEF Ends, Drained, flags
<1>4. Serving'  BY <1>t, <1>0, <1>2 DEF Serving, Types, TypeOK, flags, loopVars
<1>5. FailureHasACause'  BY <1>t, <1>0 DEF FailureHasACause, signals, loopVars
<1>6. Zombies'  BY <1>t, <1>0, <1>2 DEF Zombies, signals
<1>7. Flowing'  BY <1>t, <1>0, FlowKept DEF NoFailure, flags
<1> QED  BY <1>1, <1>3, <1>4, <1>5, <1>6, <1>7 DEF IInv

(* What a splice() into outPipe[c] leaves as it was. *)
LEMMA SpliceKeeps ==
  ASSUME IInv, NEW c \in Children, ~Gone(c),
         NEW s \in Seq(Nat), outPipe' = [outPipe EXCEPT ![c] = @ \o s], Len(s) > 0,
         UNCHANGED <<child, exited, queue, flags, loopVars, signals, stdout>>
  PROVE  Serving' /\ FailureHasACause' /\ Zombies'
<1>t. Types /\ Ends /\ Serving /\ FailureHasACause /\ Zombies  BY DEF IInv
<1>1. \A i \in Children : Gone(i)' = Gone(i) /\ Zombie(i)' = Zombie(i)
      BY DEF Gone, Zombie
<1>2. \A i \in Children : outPipe[i] # <<>> => outPipe'[i] # <<>>
  <2>1. outPipe[c] \in Seq(Nat) /\ outPipe'[c] = outPipe[c] \o s  BY <1>t DEF Types
  <2>2. Len(outPipe'[c]) = Len(outPipe[c]) + Len(s) /\ Len(outPipe[c]) \in Nat /\ Len(s) \in Nat
        BY <2>1
  <2>3. outPipe'[c] # <<>>
    <3>1. Len(<<>>) = 0  OBVIOUS
    <3> QED  BY <2>2, <3>1
  <2> QED  BY <1>t, <2>3 DEF Types
<1>3. Serving'  BY <1>t, <1>1, <1>2 DEF Serving, Types, TypeOK, flags, loopVars
<1>4. FailureHasACause'  BY <1>t DEF FailureHasACause, signals, loopVars
<1>5. Zombies'  BY <1>t, <1>1 DEF Zombies, signals
<1> QED  BY <1>3, <1>4, <1>5

LEMMA SpliceFileKeeps ==
  ASSUME IInv, SpliceFile
  PROVE  IInv'
<1> USE NAssumption, SizesAssumption
<1>t. Types /\ Ends /\ Serving /\ FailureHasACause /\ Zombies /\ Flowing  BY DEF IInv
<1>c. 0 \in Children  BY DEF Children
<1>p. PICK k \in 1 .. FileLen - offset :
      /\ Len(outPipe[0]) + k <= PipeCap
      /\ outPipe' = [outPipe EXCEPT ![0] = @ \o [j \in 1 .. k |-> offset + j]]
      /\ offset' = offset + k
    BY DEF SpliceFile
<1> DEFINE s == [j \in 1 .. k |-> offset + j]
<1>0. /\ child[0] = "splice" /\ UNCHANGED <<child, exited, inPipe, queue, flags, loopVars, signals, stdout>>
      /\ offset \in Nat /\ k \in Nat /\ k > 0 /\ offset + k <= FileLen /\ FileLen \in Nat
      BY <1>t, <1>p DEF SpliceFile, Types, TypeOK
<1>1. s \in Seq(Nat) /\ Len(s) = k /\ Piece(s, offset)
  <2>1. s \in [1 .. k -> Nat]  BY <1>0
  <2>2. s \in Seq(Nat) /\ Len(s) = k  BY <1>0, <2>1
  <2> QED  BY <2>2 DEF Piece
<1>2. outPipe[0] \in Seq(Nat) /\ outPipe'[0] = outPipe[0] \o s
      /\ \A i \in Children \ {0} : outPipe'[i] = outPipe[i]
      BY <1>t, <1>c, <1>p DEF Types
<1>3. outPipe'[0] \in Seq(Nat) /\ Len(outPipe'[0]) = Len(outPipe[0]) + k
      BY <1>1, <1>2, Concat
<1>g. ~Gone(0)  BY <1>0 DEF Gone
<1>4. Types'
  <2>1. outPipe' \in [Children -> Seq(Nat)]  BY <1>t, <1>3, <1>p DEF Types
  <2>2. \A i \in Children : Len(outPipe'[i]) <= PipeCap
        BY <1>p, <1>t, <1>2, <1>3 DEF Types, TypeOK
  <2>3. offset' \in 0 .. FileLen  BY <1>0, <1>p
  <2> QED  BY <1>t, <1>0, <2>1, <2>2, <2>3 DEF Types, TypeOK, flags, loopVars, signals
<1>5. Ends'
  <2>1. \A i \in Children : Gone(i)' = Gone(i)  BY <1>0 DEF Gone
  <2>2. exited[0] = "none"  BY <1>t, <1>c, <1>g DEF Ends
  <2>3. \A i \in Children : Gone(i) => outPipe'[i] = outPipe[i]  BY <1>2, <1>g
  <2> QED  BY <1>t, <1>0, <2>1, <2>2, <2>3 DEF Ends, Drained, flags
<1>6. Serving' /\ FailureHasACause' /\ Zombies'
  <2>1. outPipe' = [outPipe EXCEPT ![0] = @ \o s]  BY <1>p
  <2> HIDE DEF s
  <2> QED  BY <1>0, <1>1, <1>c, <1>g, <2>1, SpliceKeeps
<1>7. Flowing'
  <2> PICK D \in [Children -> Nat] : Flow(D)  BY <1>t DEF Flowing
  <2> HIDE DEF s
  <2>2. /\ Came(D, 0) \in Nat /\ Sent(D, 0) = Came(D, 0) + Len(outPipe[0])
        /\ Len(outPipe[0]) \in Nat /\ Sent(D, 0) = offset
        BY <1>c, <1>t, Counts DEF Flow
  <2>3. Piece(outPipe'[0], Came(D, 0))
    <3>1. Piece(outPipe[0], Came(D, 0))  BY <1>c DEF Flow
    <3>2. offset = Came(D, 0) + Len(outPipe[0])  BY <2>2
    <3>3. /\ outPipe[0] \in Seq(Nat) /\ outPipe'[0] \in Seq(Nat) /\ outPipe'[0] = outPipe[0] \o s
          /\ s \in Seq(Nat) /\ Piece(s, offset) /\ Came(D, 0) \in Nat
          BY <1>1, <1>2, <1>3, <2>2
    <3>4. Piece(s, Came(D, 0) + Len(outPipe[0]))  BY <3>2, <3>3
    <3>5. Piece(outPipe[0] \o s, Came(D, 0))  BY <3>1, <3>3, <3>4, PieceJoined
    <3> QED  BY <3>3, <3>5
  <2>4. \A i \in Children : Came(D, i)' = Came(D, i)  BY <1>0 DEF Came
  <2>5. \A i \in Children \ {0} : Sent(D, i)' = Sent(D, i)  BY <1>0, <1>2 DEF Sent, Came
  <2>6. Sent(D, 0)' = offset'
    <3>1. Sent(D, 0)' = Came(D, 0)' + Len(outPipe'[0])  BY DEF Sent
    <3>2. Sent(D, 0)' = Came(D, 0) + (Len(outPipe[0]) + k)  BY <1>3, <1>c, <2>4, <3>1
    <3>3. offset' = offset + k /\ offset = Came(D, 0) + Len(outPipe[0])  BY <1>p, <2>2
    <3> QED  BY <1>0, <2>2, <3>2, <3>3
  <2>7. ASSUME NEW i \in Children
        PROVE  /\ Piece(queue'[i], D[i]) /\ Piece(outPipe'[i], Came(D, i)')
               /\ Sent(D, i)' <= FileLen
    <3>1. CASE i = 0  BY <1>0, <1>p, <1>c, <2>3, <2>4, <2>6, <3>1 DEF Flow
    <3>2. CASE i # 0  BY <1>0, <1>2, <2>4, <2>5, <3>2 DEF Flow
    <3> QED  BY <3>1, <3>2
  <2>8. ASSUME NEW i \in Children \ {0}
        PROVE  Piece(inPipe'[i], Sent(D, i)') /\ D[i - 1] = Sent(D, i)' + Len(inPipe'[i])
        BY <1>0, <2>5 DEF Flow
  <2>9. Len(stdout') = D[N - 1] /\ Piece(stdout', 0)  BY <1>0 DEF Flow
  <2>10. NoFailure' => \A i \in Children : i < child_deaths' => D[i] = FileLen
         BY <1>0 DEF Flow, NoFailure, flags
  <2>11. Flow(D)'  BY <2>6, <2>7, <2>8, <2>9, <2>10 DEF Flow
  <2> QED  BY <2>11 DEF Flowing
<1> QED  BY <1>4, <1>5, <1>6, <1>7 DEF IInv

LEMMA SplicePipeKeeps ==
  ASSUME IInv, NEW c \in Children, SplicePipe(c)
  PROVE  IInv'
<1> USE NAssumption, SizesAssumption
<1>t. Types /\ Ends /\ Serving /\ FailureHasACause /\ Zombies /\ Flowing  BY DEF IInv
<1>p. PICK k \in 1 .. Len(inPipe[c]) :
      /\ Len(outPipe[c]) + k <= PipeCap
      /\ outPipe' = [outPipe EXCEPT ![c] = @ \o FirstOf(inPipe[c], k)]
      /\ inPipe' = [inPipe EXCEPT ![c] = Rest(@, k)]
    BY DEF SplicePipe
<1>d. PICK D \in [Children -> Nat] : Flow(D)  BY <1>t DEF Flowing
<1> DEFINE s == FirstOf(inPipe[c], k)
<1>0. /\ child[c] = "splice" /\ c # 0
      /\ UNCHANGED <<childVars, queue, flags, loopVars, signals, stdout>>
      /\ c \in Children \ {0} /\ c - 1 \in Children /\ c \in Nat /\ N \in Nat /\ 0 \in Children
      BY <1>t DEF SplicePipe, Children
<1>1. \A i \in Children : /\ D[i] \in Nat /\ Len(outPipe[i]) \in Nat
                          /\ Came(D, i) \in Nat /\ Sent(D, i) \in Nat
                          /\ Sent(D, i) = Came(D, i) + Len(outPipe[i]) /\ D[i] <= Sent(D, i)
  <2> SUFFICES ASSUME NEW i \in Children
               PROVE  /\ D[i] \in Nat /\ Len(outPipe[i]) \in Nat
                      /\ Came(D, i) \in Nat /\ Sent(D, i) \in Nat
                      /\ Sent(D, i) = Came(D, i) + Len(outPipe[i]) /\ D[i] <= Sent(D, i)
      OBVIOUS
  <2>1. /\ D[i] \in Nat /\ Len(outPipe[i]) \in Nat
        /\ Came(D, i) \in Nat /\ Sent(D, i) \in Nat
        /\ Sent(D, i) = Came(D, i) + Len(outPipe[i])
        /\ D[i] <= Came(D, i) /\ Came(D, i) <= Sent(D, i)
        BY <1>t, Counts
  <2> QED  BY <2>1
<1>2. /\ inPipe[c] \in Seq(Nat) /\ Piece(inPipe[c], Sent(D, c)) /\ k \in Nat /\ k > 0
      /\ Len(inPipe[c]) \in Nat
      BY <1>d, <1>t, <1>0 DEF Types, Flow
<1>3. /\ s \in Seq(Nat) /\ Len(s) = k /\ Piece(s, Sent(D, c))
      /\ Rest(inPipe[c], k) \in Seq(Nat) /\ Len(Rest(inPipe[c], k)) = Len(inPipe[c]) - k
      /\ Piece(Rest(inPipe[c], k), Sent(D, c) + k)
      BY <1>1, <1>2, PieceSplit
<1> HIDE DEF s
<1>4. outPipe[c] \in Seq(Nat) /\ outPipe'[c] = outPipe[c] \o s
      /\ \A i \in Children \ {c} : outPipe'[i] = outPipe[i]
      BY <1>t, <1>p DEF Types, s
<1>5. outPipe'[c] \in Seq(Nat) /\ Len(outPipe'[c]) = Len(outPipe[c]) + k
  BY <1>3, <1>4, Concat
<1>6. /\ inPipe'[c] = Rest(inPipe[c], k) /\ inPipe' \in [Children -> Seq(Nat)]
      /\ \A i \in Children \ {c} : inPipe'[i] = inPipe[i]
      BY <1>p, <1>t, <1>3 DEF Types
<1>g. ~Gone(c)  BY <1>0 DEF Gone
<1>7. Types'
  <2>1. outPipe' \in [Children -> Seq(Nat)]  BY <1>p, <1>t, <1>5 DEF Types
  <2>2. \A i \in Children : Len(outPipe'[i]) <= PipeCap
        BY <1>p, <1>t, <1>4, <1>5 DEF Types, TypeOK
  <2>3. \A i \in Children : Len(inPipe'[i]) <= PipeCap
    <3>1. Len(inPipe'[c]) <= PipeCap  BY <1>t, <1>2, <1>3, <1>6 DEF Types, TypeOK
    <3> QED  BY <1>t, <1>6, <3>1 DEF Types, TypeOK
  <2> QED  BY <1>t, <1>0, <1>6, <2>1, <2>2, <2>3
           DEF Types, TypeOK, childVars, flags, loopVars, signals
<1>8. Ends'
  <2>1. \A i \in Children : Gone(i)' = Gone(i)  BY <1>0 DEF Gone, childVars
  <2>2. exited[c] = "none"  BY <1>t, <1>g DEF Ends
  <2>3. \A i \in Children : Gone(i) => outPipe'[i] = outPipe[i]  BY <1>4, <1>g
  <2>4. \A i \in Children \ {0} : exited'[i] = "success" => inPipe'[i] = <<>> /\ ~is_can_write'[i - 1]
        BY <1>t, <1>0, <1>6, <2>2 DEF Ends, childVars, flags
  <2> QED  BY <1>t, <1>0, <2>1, <2>3, <2>4 DEF Ends, Drained, childVars, flags
<1>9. Serving' /\ FailureHasACause' /\ Zombies'
  <2>1. outPipe' = [outPipe EXCEPT ![c] = @ \o s]  BY <1>p DEF s
  <2>2. UNCHANGED <<child, exited, queue, flags, loopVars, signals, stdout>>
        BY <1>0 DEF childVars
  <2> QED  BY <1>2, <1>3, <1>g, <2>1, <2>2, SpliceKeeps
<1>10. Flow(D)'
  <2>1. Piece(outPipe'[c], Came(D, c))
    <3>1. Piece(outPipe[c], Came(D, c)) /\ Sent(D, c) = Came(D, c) + Len(outPipe[c])
          BY <1>d, <1>1 DEF Flow
    <3>2. /\ outPipe[c] \in Seq(Nat) /\ outPipe'[c] \in Seq(Nat) /\ outPipe'[c] = outPipe[c] \o s
          /\ s \in Seq(Nat) /\ Piece(s, Sent(D, c)) /\ Came(D, c) \in Nat
          BY <1>1, <1>3, <1>4, <1>5
    <3>3. Piece(s, Came(D, c) + Len(outPipe[c]))  BY <3>1, <3>2
    <3>4. Piece(outPipe[c] \o s, Came(D, c))  BY <3>1, <3>2, <3>3, PieceJoined
    <3> QED  BY <3>2, <3>4
  <2>2. \A i \in Children : Came(D, i)' = Came(D, i)  BY <1>0 DEF Came
  <2>3. \A i \in Children \ {c} : Sent(D, i)' = Sent(D, i)  BY <1>0, <1>4, <2>2 DEF Sent
  <2>4. Sent(D, c)' = Sent(D, c) + k
        BY <1>1, <1>2, <1>5, <2>2 DEF Sent
  <2>5. D[c - 1] = Sent(D, c)' + Len(inPipe'[c]) /\ Piece(inPipe'[c], Sent(D, c)')
    <3>1. D[c - 1] = Sent(D, c) + Len(inPipe[c])  BY <1>d, <1>0 DEF Flow
    <3>2. Sent(D, c) \in Nat /\ Len(inPipe'[c]) = Len(inPipe[c]) - k  BY <1>1, <1>3, <1>6
    <3>3. D[c - 1] = (Sent(D, c) + k) + Len(inPipe'[c])  BY <1>2, <3>1, <3>2
    <3>4. Piece(inPipe'[c], Sent(D, c) + k)  BY <1>3, <1>6
    <3> QED  BY <2>4, <3>3, <3>4
  <2>6. Sent(D, c)' <= FileLen
    <3>1. D[c - 1] <= FileLen
      <4>1. Sent(D, c - 1) <= FileLen  BY <1>d, <1>0 DEF Flow
      <4>2. D[c - 1] <= Sent(D, c - 1) /\ D[c - 1] \in Nat /\ Sent(D, c - 1) \in Nat
            BY <1>0, <1>1
      <4> QED  BY <4>1, <4>2
    <3>2. inPipe'[c] \in Seq(Nat)  BY <1>6
    <3>3. Len(inPipe'[c]) \in Nat  BY <3>2
    <3>4. Sent(D, c)' \in Nat  BY <1>1, <1>2, <2>4
    <3> QED  BY <2>5, <3>1, <3>3, <3>4
  <2>7. ASSUME NEW i \in Children
        PROVE  /\ Piece(queue'[i], D[i]) /\ Piece(outPipe'[i], Came(D, i)')
               /\ Sent(D, i)' <= FileLen
    <3>1. CASE i = c  BY <1>d, <1>0, <2>1, <2>2, <2>6, <3>1 DEF Flow
    <3>2. CASE i # c  BY <1>d, <1>0, <1>4, <2>2, <2>3, <3>2 DEF Flow
    <3> QED  BY <3>1, <3>2
  <2>8. ASSUME NEW i \in Children \ {0}
        PROVE  Piece(inPipe'[i], Sent(D, i)') /\ D[i - 1] = Sent(D, i)' + Len(inPipe'[i])
    <3>1. CASE i = c  BY <2>5, <3>1
    <3>2. CASE i # c  BY <1>d, <1>6, <2>3, <3>2 DEF Flow
    <3> QED  BY <3>1, <3>2
  <2>9. Len(stdout') = D[N - 1] /\ Piece(stdout', 0)  BY <1>d, <1>0 DEF Flow
  <2>10. NoFailure' => \A i \in Children : i < child_deaths' => D[i] = FileLen
         BY <1>d, <1>0 DEF Flow, NoFailure, childVars, flags
  <2>11. Sent(D, 0)' = offset'  BY <1>d, <1>0, <2>3 DEF Flow, childVars
  <2> QED  BY <2>7, <2>8, <2>9, <2>10, <2>11 DEF Flow
<1>11. Flowing'  BY <1>10 DEF Flowing
<1> QED  BY <1>7, <1>8, <1>9, <1>11 DEF IInv

(* A child ends: nothing moves. *)
LEMMA SpliceEndKeeps ==
  ASSUME IInv, NEW c \in Children, SpliceEnd(c)
  PROVE  IInv'
<1>t. Types /\ Ends /\ Serving /\ FailureHasACause /\ Zombies /\ Flowing  BY DEF IInv
<1>0. /\ child[c] = "splice" /\ child' = [child EXCEPT ![c] = "closed"]
      /\ exited' = [exited EXCEPT ![c] = "success"]
      /\ IF c = 0 THEN offset = FileLen ELSE inPipe[c] = <<>> /\ ~is_can_write[c - 1]
      /\ UNCHANGED <<offset, inPipe, outPipe, queue, flags, loopVars, signals, stdout>>
      BY DEF SpliceEnd, InPipeEnded
<1>1. Types'  BY <1>t, <1>0 DEF Types, TypeOK, ChildSteps, flags, loopVars, signals
<1>2. /\ \A i \in Children : Gone(i)' = (Gone(i) \/ i = c) /\ Zombie(i)' = Zombie(i)
      /\ ~Gone(c) /\ Gone(c)' /\ exited[c] = "none"
  <2>1. /\ \A i \in Children : Gone(i)' = (Gone(i) \/ i = c) /\ Zombie(i)' = Zombie(i)
        /\ ~Gone(c) /\ Gone(c)'
        BY <1>t, <1>0 DEF Types, TypeOK, Gone, Zombie
  <2> QED  BY <1>t, <2>1 DEF Ends
<1>3. Ends'
  <2>1. \A i \in Children : exited'[i] = IF i = c THEN "success" ELSE exited[i]
        BY <1>t, <1>0 DEF Types, TypeOK
  <2>2. \A i \in Children : exited'[i] = "none" <=> ~Gone(i)'  BY <1>t, <1>2, <2>1 DEF Ends
  <2>3. \A i \in Children : ~is_can_read'[i] => Gone(i)' /\ outPipe'[i] = <<>>
        BY <1>t, <1>0, <1>2 DEF Ends, flags
  <2>4. \A i \in Children : (~is_can_write'[i] <=> i < child_deaths') /\ (i < child_deaths' => Drained(i)')
        BY <1>t, <1>0 DEF Ends, Drained, flags
  <2>5. 0 \in Children  BY NAssumption DEF Children
  <2>6. exited'[0] = "success" => offset' = FileLen  BY <1>t, <1>0, <2>1, <2>5 DEF Ends
  <2>7. \A i \in Children \ {0} : exited'[i] = "success" => inPipe'[i] = <<>> /\ ~is_can_write'[i - 1]
        BY <1>t, <1>0, <2>1 DEF Ends, flags
  <2> QED  BY <2>2, <2>3, <2>4, <2>6, <2>7 DEF Ends
<1>4. Serving'  BY <1>t, <1>0, <1>2 DEF Serving, Types, TypeOK, flags, loopVars
<1>5. \A i \in Children : exited[i] = "failure" => exited'[i] = "failure"
      BY <1>t, <1>0, <1>2 DEF Types, TypeOK
<1>6. FailureHasACause'  BY <1>t, <1>0, <1>5 DEF FailureHasACause, signals, loopVars
<1>7. Zombies'  BY <1>t, <1>0, <1>2 DEF Zombies, signals
<1>8. Flowing'  BY <1>t, <1>0, <1>5, FlowKept DEF NoFailure, flags
<1> QED  BY <1>1, <1>3, <1>4, <1>6, <1>7, <1>8 DEF IInv

LEMMA ChildExitKeeps ==
  ASSUME IInv, NEW c \in Children, ChildExit(c)
  PROVE  IInv'
<1>t. Types /\ Ends /\ Serving /\ FailureHasACause /\ Zombies /\ Flowing  BY DEF IInv
<1>0. /\ child[c] = "closed" /\ child' = [child EXCEPT ![c] = "zombie"] /\ pending' = TRUE
      /\ UNCHANGED <<exited, offset, inPipe, outPipe, queue, flags, loopVars, handling, stdout, stopped, broken>>
      BY DEF ChildExit
<1>1. Types'  BY <1>t, <1>0 DEF Types, TypeOK, ChildSteps, flags, loopVars
<1>2. /\ \A i \in Children : Gone(i)' = Gone(i) /\ Zombie(i)' = (Zombie(i) \/ i = c)
      /\ ~Zombie(c) /\ Zombie(c)'
      BY <1>t, <1>0 DEF Types, TypeOK, Gone, Zombie
<1>3. Ends'  BY <1>t, <1>0, <1>2 DEF Ends, Drained, flags
<1>4. Serving'  BY <1>t, <1>0, <1>2 DEF Serving, Types, TypeOK, flags, loopVars
<1>5. FailureHasACause'  BY <1>t, <1>0 DEF FailureHasACause, signals, loopVars
<1>6. Zombies'
  <2> SUFFICES ASSUME ~stopped'
               PROVE  /\ \E i \in Children : Zombie(i)'
                      /\ handling' => \E i, j \in Children : i # j /\ Zombie(i)' /\ Zombie(j)'
      BY DEF Zombies
  <2>1. ASSUME handling' PROVE \E i, j \in Children : i # j /\ Zombie(i)' /\ Zombie(j)'
    <3>1. PICK j \in Children : Zombie(j)  BY <1>t, <1>0, <2>1 DEF Zombies
    <3>2. j # c /\ Zombie(j)' /\ Zombie(c)'  BY <1>2, <3>1
    <3> QED  BY <3>2
  <2> QED  BY <1>2, <2>1
<1>7. Flowing'  BY <1>t, <1>0, FlowKept DEF NoFailure, flags
<1> QED  BY <1>1, <1>3, <1>4, <1>5, <1>6, <1>7 DEF IInv

LEMMA ChildStoppedKeeps ==
  ASSUME IInv, NEW c \in Children, ChildStopped(c)
  PROVE  IInv'
<1>t. Types /\ Ends /\ Serving /\ FailureHasACause /\ Zombies /\ Flowing  BY DEF IInv
<1>0. /\ pending' = TRUE /\ stopped' = TRUE /\ broken' = broken
      /\ UNCHANGED <<childVars, inPipe, outPipe, queue, flags, loopVars, handling, stdout>>
      BY DEF ChildStopped
<1>1. Types'  BY <1>t, <1>0 DEF Types, TypeOK, childVars, flags, loopVars
<1>2. \A i \in Children : Gone(i)' = Gone(i)  BY <1>0 DEF Gone, childVars
<1>3. Ends'  BY <1>t, <1>0, <1>2 DEF Ends, Drained, childVars, flags
<1>4. Serving'  BY <1>t, <1>0, <1>2 DEF Serving, Types, TypeOK, flags, loopVars
<1>5. FailureHasACause'  BY <1>t, <1>0 DEF FailureHasACause, signals, childVars, loopVars
<1>6. Zombies'  BY <1>0 DEF Zombies
<1>7. Flowing'  BY <1>t, <1>0, FlowKept DEF NoFailure, childVars, flags
<1> QED  BY <1>1, <1>3, <1>4, <1>5, <1>6, <1>7 DEF IInv

LEMMA ChildFailsKeeps ==
  ASSUME IInv, NEW c \in Children, ChildFails(c)
  PROVE  IInv'
<1>t. Types /\ Ends /\ Serving /\ FailureHasACause /\ Zombies /\ Flowing  BY DEF IInv
<1>0. /\ child[c] \in {"start", "splice", "closed"} /\ child' = [child EXCEPT ![c] = "closed"]
      /\ exited' = [exited EXCEPT ![c] = "failure"]
      /\ UNCHANGED <<offset, inPipe, outPipe, queue, flags, loopVars, signals, stdout>>
      BY DEF ChildFails
<1>1. Types'  BY <1>t, <1>0 DEF Types, TypeOK, ChildSteps, flags, loopVars, signals
<1>2. \A i \in Children : Gone(i)' = (Gone(i) \/ i = c) /\ Zombie(i)' = Zombie(i)
      BY <1>t, <1>0 DEF Types, TypeOK, Gone, Zombie
<1>3. \A i \in Children : exited'[i] = IF i = c THEN "failure" ELSE exited[i]
      BY <1>t, <1>0 DEF Types, TypeOK
<1>4. Ends'
  <2>1. \A i \in Children : exited'[i] = "none" <=> ~Gone(i)'  BY <1>t, <1>2, <1>3 DEF Ends
  <2>2. \A i \in Children : ~is_can_read'[i] => Gone(i)' /\ outPipe'[i] = <<>>
        BY <1>t, <1>0, <1>2 DEF Ends, flags
  <2>3. \A i \in Children : (~is_can_write'[i] <=> i < child_deaths') /\ (i < child_deaths' => Drained(i)')
        BY <1>t, <1>0 DEF Ends, Drained, flags
  <2>4. 0 \in Children  BY NAssumption DEF Children
  <2>5. exited'[0] = "success" => offset' = FileLen  BY <1>t, <1>0, <1>3, <2>4 DEF Ends
  <2>6. \A i \in Children \ {0} : exited'[i] = "success" => inPipe'[i] = <<>> /\ ~is_can_write'[i - 1]
        BY <1>t, <1>0, <1>3 DEF Ends, flags
  <2> QED  BY <2>1, <2>2, <2>3, <2>5, <2>6 DEF Ends
<1>5. Serving'  BY <1>t, <1>0, <1>2 DEF Serving, Types, TypeOK, flags, loopVars
<1>6. FailureHasACause'  BY <1>3 DEF FailureHasACause, signals
<1>7. Zombies'  BY <1>t, <1>0, <1>2 DEF Zombies, signals
<1>8. NoFailure' => NoFailure  BY <1>3 DEF NoFailure
<1>9. Flowing'  BY <1>t, <1>0, <1>8, FlowKept DEF flags
<1> QED  BY <1>1, <1>4, <1>5, <1>6, <1>7, <1>9 DEF IInv

-----------------------------------------------------------------------------
(* The handler *)

LEMMA HandlerKeeps ==
  ASSUME IInv, Handler
  PROVE  IInv'
<1>t. Types /\ Ends /\ Serving /\ FailureHasACause /\ Zombies /\ Flowing  BY DEF IInv
<1>1. CASE HandlerBegin
  <2>0. /\ pending /\ pending' = FALSE /\ handling' = TRUE
        /\ UNCHANGED <<childVars, inPipe, outPipe, queue, flags, loopVars, stdout, stopped, broken>>
        BY <1>1 DEF HandlerBegin
  <2>1. Types'  BY <1>t, <2>0 DEF Types, TypeOK, childVars, flags, loopVars
  <2>2. \A i \in Children : Gone(i)' = Gone(i) /\ Zombie(i)' = Zombie(i)
        BY <2>0 DEF Gone, Zombie, childVars
  <2>3. Ends'  BY <1>t, <2>0, <2>2 DEF Ends, Drained, childVars, flags
  <2>4. Serving'  BY <1>t, <2>0, <2>2 DEF Serving, Types, TypeOK, flags, loopVars
  <2>5. FailureHasACause'  BY <1>t, <2>0 DEF FailureHasACause, signals, childVars, loopVars
  <2>6. Zombies'  BY <1>t, <2>0, <2>2 DEF Zombies
  <2>7. Flowing'  BY <1>t, <2>0, FlowKept DEF NoFailure, childVars, flags
  <2> QED  BY <2>1, <2>3, <2>4, <2>5, <2>6, <2>7 DEF IInv
<1>2. CASE HandlerWait
  <2>0. /\ handling /\ handling' = FALSE
        /\ UNCHANGED <<exited, offset, inPipe, outPipe, queue, flags, at, rfds, wfds, pending, stdout,
                       stopped, broken>>
        BY <1>2 DEF HandlerWait
    <2>a. ASSUME NEW c \in Children, child[c] = "zombie",
               child' = [child EXCEPT ![c] = "reaped"],
               parent' = IF exited[c] = "success" THEN parent ELSE "failure"
        PROVE  IInv'
    <3>1. Types'
      <4>1. parent' \in ParentSteps  BY <1>t, <2>a DEF Types, TypeOK, ParentSteps
      <4>2. child' \in [Children -> ChildSteps]  BY <1>t, <2>a DEF Types, TypeOK, ChildSteps
      <4> QED  BY <1>t, <2>a, <2>0, <4>1, <4>2 DEF Types, TypeOK, flags
    <3>2. \A i \in Children : Gone(i)' = Gone(i) /\ Zombie(i)' = (Zombie(i) /\ i # c)
          BY <1>t, <2>a DEF Types, TypeOK, Gone, Zombie
    <3>3. Ends'  BY <1>t, <2>a, <2>0, <3>2 DEF Ends, Drained, flags
    <3>4. Serving'  BY <1>t, <2>a, <2>0, <3>2 DEF Serving, Types, TypeOK, flags
    <3>5. FailureHasACause'
      <4>1. CASE exited[c] = "success"  BY <1>t, <2>a, <2>0, <4>1 DEF FailureHasACause, signals
      <4>2. CASE exited[c] # "success"
        <5>1. Gone(c)  BY <2>a DEF Gone
        <5>2. exited[c] = "failure"  BY <1>t, <2>a, <4>2, <5>1 DEF Ends, Types, TypeOK
        <5> QED  BY <2>a, <2>0, <5>2 DEF FailureHasACause, signals
      <4> QED  BY <4>1, <4>2
    <3>6. Zombies'
      <4> SUFFICES ASSUME ~stopped', pending' PROVE \E i \in Children : Zombie(i)'
          BY <2>a, <2>0 DEF Zombies
      <4>1. PICK i \in Children, j \in Children : i # j /\ Zombie(i) /\ Zombie(j)
            BY <1>t, <2>a, <2>0 DEF Zombies
      <4> QED  BY <3>2, <4>1
    <3>7. Flowing'  BY <1>t, <2>a, <2>0, FlowKept DEF NoFailure, flags
    <3> QED  BY <3>1, <3>3, <3>4, <3>5, <3>6, <3>7 DEF IInv
  <2>b. CASE (\A i \in Children : child[i] = "reaped") /\ UNCHANGED <<child, parent>>
    <3>1. Types'  BY <1>t, <2>0, <2>b DEF Types, TypeOK, flags
    <3>2. \A i \in Children : Gone(i)' = Gone(i) /\ Zombie(i)' = Zombie(i)
          BY <2>0, <2>b DEF Gone, Zombie
    <3>3. Ends'  BY <1>t, <2>0, <2>b, <3>2 DEF Ends, Drained, flags
    <3>4. Serving'  BY <1>t, <2>0, <2>b, <3>2 DEF Serving, Types, TypeOK, flags
    <3>5. FailureHasACause'  BY <1>t, <2>0, <2>b DEF FailureHasACause
    <3>6. Zombies'
      <4> SUFFICES ASSUME ~stopped', pending' PROVE \E i \in Children : Zombie(i)'
          BY <2>0 DEF Zombies
      <4>1. PICK i \in Children : Zombie(i)  BY <1>t, <2>0 DEF Zombies
      <4> QED  BY <3>2, <4>1
    <3>7. Flowing'  BY <1>t, <2>0, <2>b, FlowKept DEF NoFailure, flags
    <3> QED  BY <3>1, <3>3, <3>4, <3>5, <3>6, <3>7 DEF IInv
  <2> QED  BY <1>2, <2>a, <2>b DEF HandlerWait
<1> QED  BY <1>1, <1>2 DEF Handler

-----------------------------------------------------------------------------
(* The loop *)

LEMMA ContinueServes ==
  ASSUME Types, Serving, parent \in {"write", "check"}, Continue,
         child_deaths' \in 0 .. N, child_deaths' <= at + 1,
         UNCHANGED <<is_can_read, outPipe, child>>,
         \A i \in Children : i > at => is_can_write'[i] = is_can_write[i]
  PROVE  /\ Serving' /\ at' \in Children /\ parent' \in {"read", "select"}
         /\ rfds' \subseteq Children /\ wfds' \subseteq Children
<1> USE NAssumption
<1>0. at \in Children /\ at \in Nat /\ N \in Nat /\ rfds \subseteq Children /\ wfds \subseteq Children
      /\ child_deaths' \in Nat
      BY DEF Types, TypeOK, Children
<1>1. CASE at + 1 < N
  <2>1. at' = at + 1 /\ parent' = "read" /\ rfds' = rfds /\ wfds' = wfds
        BY <1>1 DEF Continue
  <2>2. at' \in Children  BY <1>0, <1>1, <2>1 DEF Children
  <2>3. \A i \in Children : Gone(i)' = Gone(i)  BY DEF Gone
  <2>4. \A i \in Children : i > at' \/ i = at' => i > at
        BY <1>0, <2>1 DEF Children
  <2>5. Serving'  BY <1>0, <2>1, <2>3, <2>4 DEF Serving
  <2> QED  BY <1>0, <2>1, <2>2, <2>5
<1>2. CASE ~(at + 1 < N)
  <2>1. at' = 0 /\ parent' = "select" /\ rfds' = {} /\ wfds' = {}
        BY <1>2 DEF Continue
  <2>2. at' \in Children  BY <1>0, <2>1 DEF Children
  <2> QED  BY <1>0, <2>1, <2>2 DEF Serving
<1> QED  BY <1>1, <1>2

LEMMA SelectKeeps ==
  ASSUME IInv, Select
  PROVE  IInv'
<1>t. Types /\ Ends /\ Serving /\ FailureHasACause /\ Zombies /\ Flowing  BY DEF IInv
<1>0. /\ child_deaths < N /\ rfds' = Readable /\ wfds' = Writable
      /\ at' = child_deaths /\ parent' = "read"
      /\ UNCHANGED <<childVars, inPipe, outPipe, queue, flags, signals, stdout>>
      BY DEF Select
<1>1. child_deaths \in Children /\ Readable \subseteq Children /\ Writable \subseteq Children
      BY <1>t, <1>0, NAssumption DEF Types, TypeOK, Children, Readable, Writable
<1>2. Types'  BY <1>t, <1>0, <1>1 DEF Types, TypeOK, ParentSteps, childVars, flags, signals
<1>3. \A i \in Children : Gone(i)' = Gone(i) /\ Zombie(i)' = Zombie(i)
      BY <1>0 DEF Gone, Zombie, childVars
<1>4. Ends'  BY <1>t, <1>0, <1>3 DEF Ends, Drained, childVars, flags
<1>5. Serving'
  <2>1. \A i \in Readable : is_can_read[i] /\ (outPipe[i] # <<>> \/ Gone(i))  BY DEF Readable
  <2>2. \A i \in Writable : is_can_write[i]  BY DEF Writable
  <2>3. child_deaths' <= at'  BY <1>0, <1>1, NAssumption DEF flags, Children
  <2> QED  BY <1>0, <1>1, <1>3, <2>1, <2>2, <2>3 DEF Serving, flags
<1>6. FailureHasACause'  BY <1>0 DEF FailureHasACause, signals
<1>7. Zombies'  BY <1>t, <1>0, <1>3 DEF Zombies, signals
<1>8. Flowing'  BY <1>t, <1>0, FlowKept DEF NoFailure, childVars, flags
<1> QED  BY <1>2, <1>4, <1>5, <1>6, <1>7, <1>8 DEF IInv

LEMMA ReturnKeeps ==
  ASSUME IInv, Return
  PROVE  IInv'
<1>t. Types /\ Ends /\ Serving /\ FailureHasACause /\ Zombies /\ Flowing  BY DEF IInv
<1>0. /\ parent = "select" /\ child_deaths = N /\ parent' = "success"
      /\ UNCHANGED <<childVars, inPipe, outPipe, queue, flags, at, rfds, wfds, signals, stdout>>
      BY DEF Return, ParentRuns
<1>1. Types'  BY <1>t, <1>0 DEF Types, TypeOK, ParentSteps, childVars, flags, signals
<1>2. \A i \in Children : Gone(i)' = Gone(i) /\ Zombie(i)' = Zombie(i)
      BY <1>0 DEF Gone, Zombie, childVars
<1>3. Ends'  BY <1>t, <1>0, <1>2 DEF Ends, Drained, childVars, flags
<1>4. Serving'  BY <1>t, <1>0 DEF Serving, flags
<1>5. FailureHasACause'  BY <1>0 DEF FailureHasACause, signals
<1>6. Zombies'  BY <1>t, <1>0, <1>2 DEF Zombies, signals
<1>7. Flowing'  BY <1>t, <1>0, FlowKept DEF NoFailure, childVars, flags
<1> QED  BY <1>1, <1>3, <1>4, <1>5, <1>6, <1>7 DEF IInv

LEMMA CallFailsKeeps ==
  ASSUME IInv, CallFails
  PROVE  IInv'
<1>t. Types /\ Ends /\ Serving /\ FailureHasACause /\ Zombies /\ Flowing  BY DEF IInv
<1>0. /\ parent' = "failure" /\ broken' = TRUE
      /\ UNCHANGED <<childVars, inPipe, outPipe, queue, flags, at, rfds, wfds, pending, handling,
                     stopped, stdout>>
      BY DEF CallFails
<1>1. Types'  BY <1>t, <1>0 DEF Types, TypeOK, ParentSteps, childVars, flags
<1>2. \A i \in Children : Gone(i)' = Gone(i) /\ Zombie(i)' = Zombie(i)
      BY <1>0 DEF Gone, Zombie, childVars
<1>3. Ends'  BY <1>t, <1>0, <1>2 DEF Ends, Drained, childVars, flags
<1>4. Serving'
  <2>1. \A i \in rfds \cup wfds : i \in Children  BY <1>t DEF Types, TypeOK
  <2> QED  BY <1>t, <1>0, <1>2, <2>1 DEF Serving, childVars, flags
<1>5. FailureHasACause'  BY <1>0 DEF FailureHasACause
<1>6. Zombies'  BY <1>t, <1>0, <1>2 DEF Zombies
<1>7. Flowing'  BY <1>t, <1>0, FlowKept DEF NoFailure, childVars, flags
<1> QED  BY <1>1, <1>3, <1>4, <1>5, <1>6, <1>7 DEF IInv

LEMMA WriteAgainKeeps ==
  ASSUME IInv, WriteAgain
  PROVE  IInv'
<1>t. Types /\ Ends /\ Serving /\ FailureHasACause /\ Zombies /\ Flowing  BY DEF IInv
<1>0. /\ parent = "write" /\ Continue
      /\ UNCHANGED <<childVars, inPipe, outPipe, queue, flags, signals, stdout>>
      BY DEF WriteAgain, ParentRuns
<1>1. /\ Serving' /\ at' \in Children /\ parent' \in {"read", "select"}
      /\ rfds' \subseteq Children /\ wfds' \subseteq Children
  <2>1. child_deaths' \in 0 .. N /\ child_deaths' <= at + 1
        BY <1>t, <1>0, NAssumption DEF Types, TypeOK, Serving, Children, flags
  <2>2. UNCHANGED <<is_can_read, outPipe, child>> /\ is_can_write' = is_can_write
        BY <1>0 DEF flags, childVars
  <2> QED  BY <1>t, <1>0, <2>1, <2>2, ContinueServes
<1>2. Types'  BY <1>t, <1>0, <1>1 DEF Types, TypeOK, ParentSteps, childVars, flags, signals
<1>3. \A i \in Children : Gone(i)' = Gone(i) /\ Zombie(i)' = Zombie(i)
      BY <1>0 DEF Gone, Zombie, childVars
<1>4. Ends'  BY <1>t, <1>0, <1>3 DEF Ends, Drained, childVars, flags
<1>5. FailureHasACause'  BY <1>1 DEF FailureHasACause, signals
<1>6. Zombies'  BY <1>t, <1>0, <1>3 DEF Zombies, signals
<1>7. Flowing'  BY <1>t, <1>0, FlowKept DEF NoFailure, childVars, flags
<1> QED  BY <1>1, <1>2, <1>4, <1>5, <1>6, <1>7 DEF IInv

(* A channel that is done with before its turn: the child that fills it has failed. *)
LEMMA TooEarly ==
  ASSUME IInv, parent = "check", Drained(at), at # child_deaths
  PROVE  \E i \in Children : exited[i] = "failure"
<1> USE NAssumption
<1>t. Types /\ Ends /\ Serving  BY DEF IInv
<1>1. /\ at \in Children /\ at \in Nat /\ child_deaths \in Nat /\ child_deaths < at
      /\ at \in Children \ {0} /\ at - 1 \in Children
      BY <1>t DEF Types, TypeOK, Serving, Children
<1>2. Gone(at) /\ exited[at] # "none"  BY <1>t, <1>1 DEF Ends, Drained
<1>3. exited[at] # "success"
  <2> SUFFICES ASSUME exited[at] = "success" PROVE FALSE  OBVIOUS
  <2>1. ~is_can_write[at - 1]  BY <1>t, <1>1 DEF Ends
  <2>2. at - 1 < child_deaths  BY <1>t, <1>1, <2>1 DEF Ends
  <2> QED  BY <1>1, <2>2
<1> QED  BY <1>t, <1>1, <1>2, <1>3 DEF Types, TypeOK

(* When the channel at the head is done with and nobody has failed, the whole file *)
(* has gone through it.                                                            *)
LEMMA WholeFile ==
  ASSUME IInv, NEW D \in [Children -> Nat], Flow(D), Drained(at), at = child_deaths, NoFailure
  PROVE  D[at] = FileLen
<1> USE NAssumption, SizesAssumption
<1>t. Types /\ Ends  BY DEF IInv
<1>1. at \in Children /\ at \in Nat  BY <1>t DEF Types, TypeOK, Children
<1>2. Gone(at) /\ outPipe[at] = <<>> /\ queue[at] = <<>>  BY <1>t, <1>1 DEF Ends, Drained
<1>3. exited[at] = "success"  BY <1>t, <1>1, <1>2 DEF Ends, NoFailure, Types, TypeOK
<1>4. Sent(D, at) = D[at] /\ D[at] \in Nat
  <2>1. Len(<<>>) = 0  OBVIOUS
  <2>2. Sent(D, at) = Came(D, at) + Len(outPipe[at]) /\ Came(D, at) = D[at] + Len(queue[at])
        /\ D[at] \in Nat
        BY <1>t, <1>1, Counts
  <2> QED  BY <1>2, <2>1, <2>2
<1>5. CASE at = 0  BY <1>t, <1>3, <1>4, <1>5 DEF Ends, Flow
<1>6. CASE at # 0
  <2>1. at \in Children \ {0} /\ at - 1 \in Children /\ at - 1 < child_deaths
        BY <1>1, <1>6 DEF Children
  <2>2. inPipe[at] = <<>>  BY <1>t, <1>3, <2>1 DEF Ends
  <2>3. D[at - 1] = Sent(D, at) + Len(inPipe[at])  BY <2>1 DEF Flow
  <2>4. D[at - 1] = FileLen  BY <2>1 DEF Flow
  <2>5. Len(<<>>) = 0  OBVIOUS
  <2> QED  BY <1>4, <2>2, <2>3, <2>4, <2>5
<1> QED  BY <1>5, <1>6

LEMMA CheckKeeps ==
  ASSUME IInv, Check
  PROVE  IInv'
<1> USE NAssumption
<1>t. Types /\ Ends /\ Serving /\ FailureHasACause /\ Zombies /\ Flowing  BY DEF IInv
<1>0. /\ parent = "check"
      /\ UNCHANGED <<childVars, inPipe, outPipe, queue, is_can_read, signals, stdout>>
      BY DEF Check, ParentRuns
<1>1. \A i \in Children : /\ Gone(i)' = Gone(i) /\ Zombie(i)' = Zombie(i)
                          /\ Drained(i)' = Drained(i)
      BY <1>0 DEF Gone, Zombie, Drained, childVars
<1>2. Zombies'  BY <1>t, <1>0, <1>1 DEF Zombies, signals
<1>3. /\ at \in Children /\ at \in Nat /\ child_deaths \in Nat /\ child_deaths <= at
      /\ N \in Nat /\ at < N
      BY <1>t, <1>0 DEF Types, TypeOK, Serving, Children
<1>4. CASE /\ Drained(at) /\ at # child_deaths
           /\ parent' = "failure"
           /\ UNCHANGED <<at, rfds, wfds, is_can_write, child_deaths>>
  <2>1. Types'  BY <1>t, <1>0, <1>4 DEF Types, TypeOK, ParentSteps, childVars, signals
  <2>2. Ends'  BY <1>t, <1>0, <1>1, <1>4 DEF Ends, childVars
  <2>3. Serving'  BY <1>t, <1>0, <1>1, <1>4 DEF Serving, Types, TypeOK
  <2>4. FailureHasACause'  BY <1>0, <1>4, TooEarly DEF FailureHasACause, signals, childVars
  <2>5. Flowing'  BY <1>t, <1>0, <1>4, FlowKept DEF NoFailure, childVars
  <2> QED  BY <1>2, <2>1, <2>2, <2>3, <2>4, <2>5 DEF IInv
<1>5. CASE /\ Drained(at) /\ at = child_deaths
           /\ is_can_write' = [is_can_write EXCEPT ![at] = FALSE]
           /\ child_deaths' = child_deaths + 1
           /\ Continue
  <2>1. /\ Serving' /\ at' \in Children /\ parent' \in {"read", "select"}
        /\ rfds' \subseteq Children /\ wfds' \subseteq Children
    <3>1. child_deaths' \in 0 .. N /\ child_deaths' <= at + 1  BY <1>3, <1>5
    <3>2. \A i \in Children : i > at => is_can_write'[i] = is_can_write[i]
      <4>1. \A i \in Children : i # at => is_can_write'[i] = is_can_write[i]
            BY <1>t, <1>5 DEF Types, TypeOK
      <4>2. \A i \in Children : i > at => i # at  BY <1>3 DEF Children
      <4> QED  BY <4>1, <4>2
    <3> QED  BY <1>t, <1>0, <1>5, <3>1, <3>2, ContinueServes DEF childVars
  <2>2. Types'
    <3>1. child_deaths' \in 0 .. N  BY <1>3, <1>5
    <3>2. is_can_write' \in [Children -> BOOLEAN]  BY <1>t, <1>5 DEF Types, TypeOK
    <3> QED  BY <1>t, <1>0, <2>1, <3>1, <3>2 DEF Types, TypeOK, ParentSteps, childVars, signals
  <2>3. Ends'
    <3>1. \A i \in Children : is_can_write'[i] = (is_can_write[i] /\ i # at)
          BY <1>t, <1>5 DEF Types, TypeOK
    <3>2. \A i \in Children : i < child_deaths' <=> i < child_deaths \/ i = at
          BY <1>3, <1>5 DEF Children
    <3>3. \A i \in Children : /\ ~is_can_write'[i] <=> i < child_deaths'
                              /\ i < child_deaths' => Drained(i)'
          BY <1>t, <1>1, <1>5, <3>1, <3>2 DEF Ends
    <3>4. \A i \in Children \ {0} : i - 1 \in Children  BY DEF Children
    <3>5. \A i \in Children \ {0} : exited'[i] = "success" => inPipe'[i] = <<>> /\ ~is_can_write'[i - 1]
          BY <1>t, <1>0, <3>1, <3>4 DEF Ends, childVars
    <3> QED  BY <1>t, <1>0, <1>1, <3>3, <3>5 DEF Ends, childVars
  <2>4. FailureHasACause'  BY <2>1 DEF FailureHasACause, signals
  <2>5. Flowing'
    <3> PICK D \in [Children -> Nat] : Flow(D)  BY <1>t DEF Flowing
    <3>1. NoFailure' = NoFailure  BY <1>0 DEF NoFailure, childVars
    <3>2. NoFailure => D[at] = FileLen  BY <1>5, WholeFile
    <3>3. \A i \in Children : i < child_deaths' => i < child_deaths \/ i = at
          BY <1>3, <1>5 DEF Children
    <3>4. NoFailure' => \A i \in Children : i < child_deaths' => D[i] = FileLen
          BY <3>1, <3>2, <3>3 DEF Flow
    <3>5. \A i \in Children : Came(D, i)' = Came(D, i) /\ Sent(D, i)' = Sent(D, i)
          BY <1>0 DEF Came, Sent
    <3>6. \A i \in Children : /\ Piece(queue'[i], D[i]) /\ Piece(outPipe'[i], Came(D, i)')
                              /\ Sent(D, i)' <= FileLen
          BY <1>0, <3>5 DEF Flow
    <3>7. \A i \in Children \ {0} : /\ Piece(inPipe'[i], Sent(D, i)')
                                    /\ D[i - 1] = Sent(D, i)' + Len(inPipe'[i])
          BY <1>0, <3>5 DEF Flow
    <3>8. Sent(D, 0)' = offset'
      <4>1. 0 \in Children  BY <1>3 DEF Children
      <4> QED  BY <1>0, <3>5, <4>1 DEF Flow, childVars
    <3>9. Len(stdout') = D[N - 1] /\ Piece(stdout', 0)  BY <1>0 DEF Flow
    <3>10. Flow(D)'  BY <3>4, <3>6, <3>7, <3>8, <3>9 DEF Flow
    <3> QED  BY <3>10 DEF Flowing
  <2> QED  BY <1>2, <2>1, <2>2, <2>3, <2>4, <2>5 DEF IInv
<1>6. CASE Continue /\ UNCHANGED <<is_can_write, child_deaths>>
  <2>1. /\ Serving' /\ at' \in Children /\ parent' \in {"read", "select"}
        /\ rfds' \subseteq Children /\ wfds' \subseteq Children
    <3>1. child_deaths' \in 0 .. N /\ child_deaths' <= at + 1  BY <1>3, <1>6
    <3> QED  BY <1>t, <1>0, <1>6, <3>1, ContinueServes DEF childVars
  <2>2. Types'  BY <1>t, <1>0, <1>6, <2>1 DEF Types, TypeOK, ParentSteps, childVars, signals
  <2>3. Ends'  BY <1>t, <1>0, <1>1, <1>6 DEF Ends, childVars
  <2>4. FailureHasACause'  BY <2>1 DEF FailureHasACause, signals
  <2>5. Flowing'  BY <1>t, <1>0, <1>6, FlowKept DEF NoFailure, childVars
  <2> QED  BY <1>2, <2>1, <2>2, <2>3, <2>4, <2>5 DEF IInv
<1> QED  BY <1>4, <1>5, <1>6 DEF Check

(* What a read() of the parent does, one step for each of its outcomes. *)
LEMMA ReadKeeps ==
  ASSUME IInv, Read
  PROVE  IInv'
<1> USE NAssumption, SizesAssumption
<1>t. Types /\ Ends /\ Serving /\ FailureHasACause /\ Zombies /\ Flowing  BY DEF IInv
<1>0. /\ parent = "read" /\ parent' = "write"
      /\ UNCHANGED <<childVars, inPipe, is_can_write, child_deaths, at, rfds, wfds, signals, stdout>>
      BY DEF Read, ParentRuns
<1>1. /\ at \in Children /\ at \in Nat /\ child_deaths \in Nat /\ child_deaths <= at
      /\ N \in Nat /\ 0 \in Children
      BY <1>t, <1>0 DEF Types, TypeOK, Serving, Children
<1>2. \A i \in Children : Gone(i)' = Gone(i) /\ Zombie(i)' = Zombie(i)
      BY <1>0 DEF Gone, Zombie, childVars
<1>3. FailureHasACause'  BY <1>0 DEF FailureHasACause, signals
<1>4. Zombies'  BY <1>t, <1>0, <1>2 DEF Zombies, signals
<1>5. \A i \in Children : i > at => i # at  BY <1>1 DEF Children
<1>6. \A i \in Children : i < child_deaths => i # at  BY <1>1 DEF Children
<1>7. CASE at \in rfds /\ outPipe[at] # <<>> /\ UNCHANGED is_can_read
           /\ \E k \in 1 .. Len(outPipe[at]) :
                /\ Len(queue[at]) + k <= Size[at]
                /\ queue' = [queue EXCEPT ![at] = @ \o FirstOf(outPipe[at], k)]
                /\ outPipe' = [outPipe EXCEPT ![at] = Rest(@, k)]
  <2>p. PICK k \in 1 .. Len(outPipe[at]) :
          /\ Len(queue[at]) + k <= Size[at]
          /\ queue' = [queue EXCEPT ![at] = @ \o FirstOf(outPipe[at], k)]
          /\ outPipe' = [outPipe EXCEPT ![at] = Rest(@, k)]
        BY <1>7
  <2>d. PICK D \in [Children -> Nat] : Flow(D)  BY <1>t DEF Flowing
  <2> DEFINE s == FirstOf(outPipe[at], k)
             r == Rest(outPipe[at], k)
  <2>1. /\ D[at] \in Nat /\ queue[at] \in Seq(Nat) /\ outPipe[at] \in Seq(Nat)
        /\ Len(queue[at]) \in Nat /\ Len(outPipe[at]) \in Nat /\ k \in Nat /\ k <= Len(outPipe[at])
        /\ Came(D, at) \in Nat /\ Came(D, at) = D[at] + Len(queue[at])
        /\ Sent(D, at) = Came(D, at) + Len(outPipe[at])
    <3>1. /\ D[at] \in Nat /\ queue[at] \in Seq(Nat) /\ outPipe[at] \in Seq(Nat)
          /\ Len(queue[at]) \in Nat /\ Len(outPipe[at]) \in Nat
          /\ Came(D, at) \in Nat /\ Came(D, at) = D[at] + Len(queue[at])
          /\ Sent(D, at) = Came(D, at) + Len(outPipe[at])
          BY <1>t, <1>1, Counts
    <3>2. k \in Nat /\ k <= Len(outPipe[at])  BY <3>1
    <3> QED  BY <3>1, <3>2
  <2>2. Piece(queue[at], D[at]) /\ Piece(outPipe[at], Came(D, at))  BY <2>d, <1>1 DEF Flow
  <2>3. /\ s \in Seq(Nat) /\ Len(s) = k /\ Piece(s, Came(D, at))
        /\ r \in Seq(Nat) /\ Len(r) = Len(outPipe[at]) - k /\ Piece(r, Came(D, at) + k)
        BY <2>1, <2>2, PieceSplit
  <2> HIDE DEF s, r
  <2>4. /\ queue'[at] = queue[at] \o s /\ outPipe'[at] = r
        /\ \A i \in Children : i # at => queue'[i] = queue[i] /\ outPipe'[i] = outPipe[i]
        BY <1>t, <1>1, <2>p DEF Types, s, r
  <2>5. queue'[at] \in Seq(Nat) /\ Len(queue'[at]) = Len(queue[at]) + k /\ Piece(queue'[at], D[at])
    <3>1. Piece(s, D[at] + Len(queue[at]))  BY <2>1, <2>3
    <3>2. /\ queue[at] \o s \in Seq(Nat) /\ Len(queue[at] \o s) = Len(queue[at]) + Len(s)
          /\ Piece(queue[at] \o s, D[at])
          BY <2>1, <2>2, <2>3, <3>1, PieceJoined
    <3> QED  BY <2>3, <2>4, <3>2
  <2>6. Types'
    <3>1. queue' \in [Children -> Seq(Nat)]  BY <1>t, <2>p, <2>5 DEF Types
    <3>2. outPipe' \in [Children -> Seq(Nat)]
      <4>1. outPipe'[at] \in Seq(Nat)  BY <2>3, <2>4
      <4> QED  BY <1>t, <2>p, <4>1 DEF Types
    <3>3. \A i \in Children : Len(queue'[i]) <= Size[i]
      <4>1. Len(queue'[at]) <= Size[at]  BY <2>p, <2>5
      <4> QED  BY <1>t, <2>4, <4>1 DEF Types, TypeOK
    <3>4. \A i \in Children : Len(outPipe'[i]) <= PipeCap
      <4>1. Len(outPipe[at]) <= PipeCap  BY <1>t, <1>1 DEF Types, TypeOK
      <4>2. Len(outPipe'[at]) <= PipeCap  BY <2>1, <2>3, <2>4, <4>1
      <4> QED  BY <1>t, <2>4, <4>2 DEF Types, TypeOK
    <3> QED  BY <1>t, <1>0, <1>7, <3>1, <3>2, <3>3, <3>4
             DEF Types, TypeOK, ParentSteps, childVars, signals
  <2>7. is_can_read[at]  BY <1>t, <1>0, <1>7 DEF Serving
  <2>8. Ends'
    <3>1. \A i \in Children : ~is_can_read'[i] => Gone(i)' /\ outPipe'[i] = <<>>
          BY <1>t, <1>2, <1>7, <2>4, <2>7 DEF Ends
    <3>2. \A i \in Children : i < child_deaths' => Drained(i)'
          BY <1>t, <1>0, <1>6, <1>7, <2>4 DEF Ends, Drained
    <3> QED  BY <1>t, <1>0, <1>2, <3>1, <3>2 DEF Ends, childVars
  <2>9. Serving'
    <3>1. \A i \in rfds : i > at => is_can_read[i] /\ (outPipe'[i] # <<>> \/ Gone(i)')
      <4>1. \A i \in rfds : i \in Children  BY <1>t DEF Types, TypeOK
      <4> QED  BY <1>t, <1>2, <1>5, <2>4, <4>1 DEF Serving
    <3> QED  BY <1>t, <1>0, <1>7, <3>1 DEF Serving
  <2>10. \A i \in Children : i # at => Came(D, i)' = Came(D, i)  BY <2>4 DEF Came
  <2>11. Came(D, at)' = Came(D, at) + k
    <3>1. Came(D, at)' = D[at] + Len(queue'[at])  BY <1>0 DEF Came
    <3> QED  BY <2>1, <2>5, <3>1
  <2>12. \A i \in Children : Sent(D, i)' = Sent(D, i)
    <3>1. \A i \in Children : i # at => Sent(D, i)' = Sent(D, i)  BY <2>4, <2>10 DEF Sent
    <3>2. Sent(D, at)' = Came(D, at)' + Len(outPipe'[at])  BY <1>0 DEF Sent
    <3>3. Sent(D, at)' = Sent(D, at)  BY <2>1, <2>3, <2>4, <2>11, <3>2
    <3> QED  BY <1>0, <3>1, <3>3
  <2>13. ASSUME NEW i \in Children
         PROVE  /\ Piece(queue'[i], D[i]) /\ Piece(outPipe'[i], Came(D, i)')
                /\ Sent(D, i)' <= FileLen
    <3>1. CASE i = at
      <4>1. Piece(outPipe'[at], Came(D, at)')  BY <2>3, <2>4, <2>11
      <4>2. Sent(D, i)' <= FileLen  BY <2>d, <2>12 DEF Flow
      <4> QED  BY <1>0, <2>5, <3>1, <4>1, <4>2
    <3>2. CASE i # at  BY <2>d, <2>4, <2>10, <2>12, <3>2 DEF Flow
    <3> QED  BY <3>1, <3>2
  <2>14. \A i \in Children \ {0} : /\ Piece(inPipe'[i], Sent(D, i)')
                                   /\ D[i - 1] = Sent(D, i)' + Len(inPipe'[i])
         BY <2>d, <1>0, <2>12 DEF Flow
  <2>15. Sent(D, 0)' = offset'  BY <2>d, <1>0, <1>1, <2>12 DEF Flow, childVars
  <2>16. Len(stdout') = D[N - 1] /\ Piece(stdout', 0)  BY <2>d, <1>0 DEF Flow
  <2>17. NoFailure' => \A i \in Children : i < child_deaths' => D[i] = FileLen
         BY <2>d, <1>0 DEF Flow, NoFailure, childVars
  <2>18. Flow(D)'  BY <2>13, <2>14, <2>15, <2>16, <2>17 DEF Flow
  <2>19. Flowing'  BY <2>18 DEF Flowing
  <2> QED  BY <1>3, <1>4, <2>6, <2>8, <2>9, <2>19 DEF IInv
<1>8. CASE /\ at \in rfds /\ outPipe[at] = <<>>
           /\ is_can_read' = [is_can_read EXCEPT ![at] = FALSE]
           /\ UNCHANGED <<queue, outPipe>>
  <2>1. Gone(at)  BY <1>t, <1>0, <1>8 DEF Serving
  <2>2. /\ \A i \in Children : i # at => is_can_read'[i] = is_can_read[i]
        /\ is_can_read' \in [Children -> BOOLEAN] /\ ~is_can_read'[at]
        BY <1>t, <1>1, <1>8 DEF Types, TypeOK
  <2>3. Types'  BY <1>t, <1>0, <1>8, <2>2 DEF Types, TypeOK, ParentSteps, childVars, signals
  <2>4. Ends'
    <3>1. \A i \in Children : ~is_can_read'[i] => Gone(i)' /\ outPipe'[i] = <<>>
          BY <1>t, <1>2, <1>8, <2>1, <2>2 DEF Ends
    <3>2. \A i \in Children : i < child_deaths' => Drained(i)'
          BY <1>t, <1>0, <1>6, <1>8, <2>2 DEF Ends, Drained
    <3> QED  BY <1>t, <1>0, <1>2, <3>1, <3>2 DEF Ends, childVars
  <2>5. Serving'
    <3>1. \A i \in rfds : i > at => is_can_read'[i] /\ (outPipe'[i] # <<>> \/ Gone(i)')
      <4>1. \A i \in rfds : i \in Children  BY <1>t DEF Types, TypeOK
      <4> QED  BY <1>t, <1>2, <1>5, <1>8, <2>2, <4>1 DEF Serving
    <3> QED  BY <1>t, <1>0, <3>1 DEF Serving
  <2>6. Flowing'  BY <1>t, <1>0, <1>8, FlowKept DEF NoFailure, childVars
  <2> QED  BY <1>3, <1>4, <2>3, <2>4, <2>5, <2>6 DEF IInv
<1>9. CASE UNCHANGED <<queue, outPipe, is_can_read>> /\ at \notin rfds
  <2>1. Types'  BY <1>t, <1>0, <1>9 DEF Types, TypeOK, ParentSteps, childVars, signals
  <2>2. Ends'  BY <1>t, <1>0, <1>2, <1>9 DEF Ends, Drained, childVars
  <2>3. Serving'
    <3>1. \A i \in rfds : i \in Children  BY <1>t DEF Types, TypeOK
    <3> QED  BY <1>t, <1>0, <1>2, <1>9, <3>1 DEF Serving
  <2>4. Flowing'  BY <1>t, <1>0, <1>9, FlowKept DEF NoFailure, childVars
  <2> QED  BY <1>3, <1>4, <2>1, <2>2, <2>3, <2>4 DEF IInv
<1> QED  BY <1>7, <1>8, <1>9 DEF Read

(* Bytes leave channel `at': nothing else of the channels and pipes behind it changes. *)
LEMMA Leaves ==
  ASSUME Types, at \in Children, NEW D \in [Children -> Nat], Flow(D),
         NEW k \in 1 .. Len(queue[at]), queue' = [queue EXCEPT ![at] = Rest(@, k)],
         UNCHANGED <<outPipe, at>>,
         NEW E, E = [D EXCEPT ![at] = @ + k]
  PROVE  /\ E \in [Children -> Nat] /\ E[at] = D[at] + k
         /\ \A i \in Children : i # at => E[i] = D[i] /\ queue'[i] = queue[i]
         /\ queue' \in [Children -> Seq(Nat)] /\ \A i \in Children : Len(queue'[i]) <= Size[i]
         /\ \A i \in Children : /\ Piece(queue'[i], E[i]) /\ Piece(outPipe'[i], Came(E, i)')
                                /\ Sent(E, i)' = Sent(D, i) /\ Sent(E, i)' <= FileLen
         /\ /\ FirstOf(queue[at], k) \in Seq(Nat) /\ Len(FirstOf(queue[at], k)) = k
            /\ Piece(FirstOf(queue[at], k), D[at])
<1> USE NAssumption, SizesAssumption
<1>1. /\ D[at] \in Nat /\ queue[at] \in Seq(Nat) /\ Len(queue[at]) \in Nat
      /\ Came(D, at) = D[at] + Len(queue[at])
      BY Counts
<1>2. k \in Nat /\ k <= Len(queue[at])  BY <1>1
<1>3. Piece(queue[at], D[at])  BY DEF Flow
<1>4. /\ FirstOf(queue[at], k) \in Seq(Nat) /\ Len(FirstOf(queue[at], k)) = k
      /\ Piece(FirstOf(queue[at], k), D[at])
      /\ Rest(queue[at], k) \in Seq(Nat) /\ Len(Rest(queue[at], k)) = Len(queue[at]) - k
      /\ Piece(Rest(queue[at], k), D[at] + k)
      BY <1>1, <1>3, PieceSplit
<1>5. /\ E[at] = D[at] + k /\ queue'[at] = Rest(queue[at], k)
      /\ \A i \in Children : i # at => E[i] = D[i] /\ queue'[i] = queue[i]
      BY DEF Types
<1>6. E \in [Children -> Nat]
  <2>1. D[at] + k \in Nat  BY <1>1, <1>2
  <2> QED  BY <2>1
<1>7. queue' \in [Children -> Seq(Nat)]  BY <1>4 DEF Types
<1>8. \A i \in Children : Len(queue'[i]) <= Size[i]
  <2>1. Len(queue[at]) <= Size[at] /\ Size[at] \in Nat  BY DEF Types, TypeOK
  <2>2. Len(queue'[at]) <= Size[at]  BY <1>1, <1>2, <1>4, <1>5, <2>1
  <2> QED  BY <1>5, <2>2 DEF Types, TypeOK
<1>9. \A i \in Children : Came(E, i)' = Came(D, i)
  <2>1. Came(E, at)' = E[at] + Len(queue'[at])  BY DEF Came
  <2>2. Came(E, at)' = Came(D, at)  BY <1>1, <1>2, <1>4, <1>5, <2>1
  <2>3. \A i \in Children : i # at => Came(E, i)' = Came(D, i)  BY <1>5 DEF Came
  <2> QED  BY <2>2, <2>3
<1>10. ASSUME NEW i \in Children
       PROVE  /\ Piece(queue'[i], E[i]) /\ Piece(outPipe'[i], Came(E, i)')
              /\ Sent(E, i)' = Sent(D, i) /\ Sent(E, i)' <= FileLen
  <2>1. Piece(queue'[i], E[i])
    <3>1. CASE i = at  BY <1>4, <1>5, <3>1
    <3>2. CASE i # at  BY <1>5, <3>2 DEF Flow
    <3> QED  BY <3>1, <3>2
  <2>2. Piece(outPipe'[i], Came(E, i)')  BY <1>9 DEF Flow
  <2>3. Sent(E, i)' = Sent(D, i)  BY <1>9 DEF Sent
  <2> QED  BY <2>1, <2>2, <2>3 DEF Flow
<1> QED  BY <1>4, <1>5, <1>6, <1>7, <1>8, <1>10

LEMMA WriteKeeps ==
  ASSUME IInv, Write
  PROVE  IInv'
<1> USE NAssumption, SizesAssumption
<1>t. Types /\ Ends /\ Serving /\ FailureHasACause /\ Zombies /\ Flowing  BY DEF IInv
<1>0. /\ parent = "write"
      /\ UNCHANGED <<childVars, outPipe, flags, at, rfds, wfds, signals>>
      BY DEF Write, ParentRuns
<1>1. /\ at \in Children /\ at \in Nat /\ child_deaths \in Nat /\ child_deaths <= at
      /\ N \in Nat /\ 0 \in Children /\ N - 1 \in Children
      BY <1>t, <1>0 DEF Types, TypeOK, Serving, Children
<1>2. \A i \in Children : Gone(i)' = Gone(i) /\ Zombie(i)' = Zombie(i)
      BY <1>0 DEF Gone, Zombie, childVars
<1>3. Zombies'  BY <1>t, <1>0, <1>2 DEF Zombies, signals
<1>4. at \in wfds => is_can_write[at]  BY <1>t, <1>0 DEF Serving
<1>5. \A i \in Children : i < child_deaths => i # at  BY <1>1 DEF Children
<1>6. ASSUME parent' \in {"check", "failure"} PROVE Serving'
  <2>1. \A i \in rfds : i > at => is_can_read[i] /\ (outPipe[i] # <<>> \/ Gone(i)')
    <3>1. \A i \in rfds : i \in Children  BY <1>t DEF Types, TypeOK
    <3> QED  BY <1>t, <1>2, <3>1 DEF Serving
  <2>2. \A i \in wfds : i > at => is_can_write[i]  BY <1>t DEF Serving
  <2>3. ~(parent' \in {"read", "write"}) /\ parent' # "select" /\ parent' # "success"  BY <1>6
  <2> QED  BY <1>0, <1>1, <2>1, <2>2, <2>3 DEF Serving, flags
<1>7. CASE /\ at \in wfds /\ at < N - 1 /\ Gone(at + 1) /\ parent' = "failure"
           /\ UNCHANGED <<queue, inPipe, stdout>>
  <2>1. Types'  BY <1>t, <1>0, <1>7 DEF Types, TypeOK, ParentSteps, childVars, flags, signals
  <2>2. Ends'  BY <1>t, <1>0, <1>2, <1>7 DEF Ends, Drained, childVars, flags
  <2>3. FailureHasACause'
    <3>1. at + 1 \in Children \ {0}  BY <1>1, <1>7 DEF Children
    <3>2. exited[at + 1] # "none"  BY <1>t, <1>7, <3>1 DEF Ends
    <3>3. exited[at + 1] # "success"
      <4>1. (at + 1) - 1 = at  BY <1>1
      <4> QED  BY <1>t, <1>4, <1>7, <3>1, <4>1 DEF Ends
    <3>4. exited[at + 1] = "failure"  BY <1>t, <3>1, <3>2, <3>3 DEF Types, TypeOK
    <3> QED  BY <1>0, <3>1, <3>4 DEF FailureHasACause, signals, childVars
  <2>4. Flowing'  BY <1>t, <1>0, <1>7, FlowKept DEF NoFailure, childVars, flags
  <2> QED  BY <1>3, <1>6, <1>7, <2>1, <2>2, <2>3, <2>4 DEF IInv
<1>8. CASE /\ at \in wfds /\ at < N - 1 /\ ~Gone(at + 1) /\ parent' = "check" /\ UNCHANGED stdout
           /\ \E k \in 1 .. Len(queue[at]) :
                /\ Len(inPipe[at + 1]) + k <= PipeCap
                /\ inPipe' = [inPipe EXCEPT ![at + 1] = @ \o FirstOf(queue[at], k)]
                /\ queue' = [queue EXCEPT ![at] = Rest(@, k)]
  <2>p. PICK k \in 1 .. Len(queue[at]) :
          /\ Len(inPipe[at + 1]) + k <= PipeCap
          /\ inPipe' = [inPipe EXCEPT ![at + 1] = @ \o FirstOf(queue[at], k)]
          /\ queue' = [queue EXCEPT ![at] = Rest(@, k)]
        BY <1>8
  <2>d. PICK D \in [Children -> Nat] : Flow(D)  BY <1>t DEF Flowing
  <2>e. PICK E : E = [D EXCEPT ![at] = @ + k]  OBVIOUS
  <2> DEFINE s == FirstOf(queue[at], k)
  <2>1. /\ E \in [Children -> Nat] /\ E[at] = D[at] + k
        /\ \A i \in Children : i # at => E[i] = D[i] /\ queue'[i] = queue[i]
        /\ queue' \in [Children -> Seq(Nat)] /\ \A i \in Children : Len(queue'[i]) <= Size[i]
        /\ \A i \in Children : /\ Piece(queue'[i], E[i]) /\ Piece(outPipe'[i], Came(E, i)')
                               /\ Sent(E, i)' = Sent(D, i) /\ Sent(E, i)' <= FileLen
        /\ s \in Seq(Nat) /\ Len(s) = k /\ Piece(s, D[at])
        BY <1>t, <1>0, <1>1, <2>p, <2>d, <2>e, Leaves
  <2> HIDE DEF s
  <2>2. at + 1 \in Children \ {0} /\ (at + 1) - 1 = at /\ N - 1 # at  BY <1>1, <1>8 DEF Children
  <2>3. /\ inPipe'[at + 1] = inPipe[at + 1] \o s
        /\ \A i \in Children : i # at + 1 => inPipe'[i] = inPipe[i]
        /\ inPipe[at + 1] \in Seq(Nat)
        BY <1>t, <2>p, <2>2 DEF Types, s
  <2>4. Sent(D, at + 1) \in Nat /\ Len(inPipe[at + 1]) \in Nat /\ D[at] \in Nat /\ k \in Nat
    <3>1. Sent(D, at + 1) \in Nat /\ Len(inPipe[at + 1]) \in Nat  BY <1>t, <2>2, Counts
    <3>2. D[at] \in Nat /\ Len(queue[at]) \in Nat  BY <1>t, <1>1, Counts
    <3> QED  BY <3>1, <3>2
  <2>5. /\ Piece(inPipe[at + 1], Sent(D, at + 1))
        /\ D[at] = Sent(D, at + 1) + Len(inPipe[at + 1])
        BY <2>d, <2>2 DEF Flow
  <2>6. /\ inPipe'[at + 1] \in Seq(Nat) /\ Len(inPipe'[at + 1]) = Len(inPipe[at + 1]) + k
        /\ Piece(inPipe'[at + 1], Sent(D, at + 1))
    <3>1. Piece(s, Sent(D, at + 1) + Len(inPipe[at + 1]))  BY <2>1, <2>5
    <3>2. /\ inPipe[at + 1] \o s \in Seq(Nat)
          /\ Len(inPipe[at + 1] \o s) = Len(inPipe[at + 1]) + Len(s)
          /\ Piece(inPipe[at + 1] \o s, Sent(D, at + 1))
          BY <2>1, <2>3, <2>4, <2>5, <3>1, PieceJoined
    <3> QED  BY <2>1, <2>3, <3>2
  <2>7. Types'
    <3>1. inPipe' \in [Children -> Seq(Nat)]  BY <1>t, <2>p, <2>6 DEF Types
    <3>2. \A i \in Children : Len(inPipe'[i]) <= PipeCap
      <4>1. Len(inPipe'[at + 1]) <= PipeCap  BY <2>p, <2>6
      <4> QED  BY <1>t, <2>3, <4>1 DEF Types, TypeOK
    <3>3. parent' \in ParentSteps  BY <1>8 DEF ParentSteps
    <3> QED  BY <1>t, <1>0, <1>8, <2>1, <3>1, <3>2, <3>3
             DEF Types, TypeOK, childVars, flags, signals
  <2>8. Ends'
    <3>1. exited[at + 1] = "none"  BY <1>t, <1>8, <2>2 DEF Ends
    <3>2. \A i \in Children \ {0} : exited'[i] = "success" => inPipe'[i] = <<>> /\ ~is_can_write'[i - 1]
          BY <1>t, <1>0, <2>3, <3>1 DEF Ends, childVars, flags
    <3>3. \A i \in Children : i < child_deaths' => Drained(i)'
          BY <1>t, <1>0, <1>5, <2>1 DEF Ends, Drained, flags
    <3> QED  BY <1>t, <1>0, <1>2, <3>2, <3>3 DEF Ends, childVars, flags
  <2>9. FailureHasACause'  BY <1>8 DEF FailureHasACause, signals
  <2>10. ASSUME NEW i \in Children \ {0}
         PROVE  Piece(inPipe'[i], Sent(E, i)') /\ E[i - 1] = Sent(E, i)' + Len(inPipe'[i])
    <3>1. CASE i = at + 1
      <4>1. Sent(E, i)' = Sent(D, at + 1)  BY <2>1, <3>1
      <4>2. E[i - 1] = D[at] + k  BY <2>1, <2>2, <3>1
      <4>3. Len(inPipe'[i]) = Len(inPipe[at + 1]) + k /\ Piece(inPipe'[i], Sent(D, at + 1))
            BY <2>6, <3>1
      <4> QED  BY <2>4, <2>5, <4>1, <4>2, <4>3
    <3>2. CASE i # at + 1
      <4>1. i - 1 \in Children /\ i - 1 # at  BY <1>1, <3>2 DEF Children
      <4>2. E[i - 1] = D[i - 1] /\ Sent(E, i)' = Sent(D, i) /\ inPipe'[i] = inPipe[i]
            BY <2>1, <2>3, <3>2, <4>1
      <4> QED  BY <2>d, <4>2 DEF Flow
    <3> QED  BY <3>1, <3>2
  <2>11. Sent(E, 0)' = offset'  BY <2>d, <1>0, <1>1, <2>1 DEF Flow, childVars
  <2>12. Len(stdout') = E[N - 1] /\ Piece(stdout', 0)  BY <2>d, <1>1, <1>8, <2>1, <2>2 DEF Flow
  <2>13. NoFailure' => \A i \in Children : i < child_deaths' => E[i] = FileLen
         BY <2>d, <1>0, <1>5, <2>1 DEF Flow, NoFailure, childVars, flags
  <2>14. Flow(E)'  BY <2>1, <2>10, <2>11, <2>12, <2>13 DEF Flow
  <2>15. Flowing'  BY <2>1, <2>14 DEF Flowing
  <2> QED  BY <1>3, <1>6, <1>8, <2>7, <2>8, <2>9, <2>15 DEF IInv
<1>9. CASE /\ at \in wfds /\ at = N - 1 /\ parent' = "check" /\ UNCHANGED inPipe
           /\ \E k \in 1 .. Len(queue[at]) :
                /\ stdout' = stdout \o FirstOf(queue[at], k)
                /\ queue' = [queue EXCEPT ![at] = Rest(@, k)]
  <2>p. PICK k \in 1 .. Len(queue[at]) :
          /\ stdout' = stdout \o FirstOf(queue[at], k)
          /\ queue' = [queue EXCEPT ![at] = Rest(@, k)]
        BY <1>9
  <2>d. PICK D \in [Children -> Nat] : Flow(D)  BY <1>t DEF Flowing
  <2>e. PICK E : E = [D EXCEPT ![at] = @ + k]  OBVIOUS
  <2> DEFINE s == FirstOf(queue[at], k)
  <2>1. /\ E \in [Children -> Nat] /\ E[at] = D[at] + k
        /\ \A i \in Children : i # at => E[i] = D[i] /\ queue'[i] = queue[i]
        /\ queue' \in [Children -> Seq(Nat)] /\ \A i \in Children : Len(queue'[i]) <= Size[i]
        /\ \A i \in Children : /\ Piece(queue'[i], E[i]) /\ Piece(outPipe'[i], Came(E, i)')
                               /\ Sent(E, i)' = Sent(D, i) /\ Sent(E, i)' <= FileLen
        /\ s \in Seq(Nat) /\ Len(s) = k /\ Piece(s, D[at])
        BY <1>t, <1>0, <1>1, <2>p, <2>d, <2>e, Leaves
  <2>2. stdout' = stdout \o s  BY <2>p
  <2> HIDE DEF s
  <2>3. stdout \in Seq(Nat) /\ Len(stdout) = D[at] /\ Piece(stdout, 0) /\ D[at] \in Nat
        BY <1>t, <1>1, <1>9, <2>d DEF Types, Flow
  <2>4. stdout' \in Seq(Nat) /\ Len(stdout') = D[at] + k /\ Piece(stdout', 0)
    <3>1. 0 + Len(stdout) = D[at]  BY <2>3
    <3>2. Piece(s, 0 + Len(stdout))  BY <2>1, <3>1
    <3>3. /\ stdout \o s \in Seq(Nat) /\ Len(stdout \o s) = Len(stdout) + Len(s)
          /\ Piece(stdout \o s, 0)
          BY <2>1, <2>3, <3>2, PieceJoined
    <3> QED  BY <2>1, <2>2, <2>3, <3>3
  <2>5. Types'
    <3>1. parent' \in ParentSteps  BY <1>9 DEF ParentSteps
    <3> QED  BY <1>t, <1>0, <1>9, <2>1, <2>4, <3>1 DEF Types, TypeOK, childVars, flags, signals
  <2>6. Ends'
    <3>1. \A i \in Children : i < child_deaths' => Drained(i)'
          BY <1>t, <1>0, <1>5, <2>1 DEF Ends, Drained, flags
    <3> QED  BY <1>t, <1>0, <1>2, <1>9, <3>1 DEF Ends, childVars, flags
  <2>7. FailureHasACause'  BY <1>9 DEF FailureHasACause, signals
  <2>8. ASSUME NEW i \in Children \ {0}
        PROVE  Piece(inPipe'[i], Sent(E, i)') /\ E[i - 1] = Sent(E, i)' + Len(inPipe'[i])
    <3>1. i - 1 \in Children /\ i - 1 # at  BY <1>1, <1>9 DEF Children
    <3>2. E[i - 1] = D[i - 1] /\ Sent(E, i)' = Sent(D, i) /\ inPipe'[i] = inPipe[i]
          BY <1>9, <2>1, <3>1
    <3> QED  BY <2>d, <3>2 DEF Flow
  <2>9. Sent(E, 0)' = offset'  BY <2>d, <1>0, <1>1, <2>1 DEF Flow, childVars
  <2>10. Len(stdout') = E[N - 1] /\ Piece(stdout', 0)  BY <1>9, <2>1, <2>4
  <2>11. NoFailure' => \A i \in Children : i < child_deaths' => E[i] = FileLen
         BY <2>d, <1>0, <1>5, <2>1 DEF Flow, NoFailure, childVars, flags
  <2>12. Flow(E)'  BY <2>1, <2>8, <2>9, <2>10, <2>11 DEF Flow
  <2>13. Flowing'  BY <2>1, <2>12 DEF Flowing
  <2> QED  BY <1>3, <1>6, <1>9, <2>5, <2>6, <2>7, <2>13 DEF IInv
<1>10. CASE parent' = "check" /\ UNCHANGED <<queue, inPipe, stdout>>
  <2>1. Types'  BY <1>t, <1>0, <1>10 DEF Types, TypeOK, ParentSteps, childVars, flags, signals
  <2>2. Ends'  BY <1>t, <1>0, <1>2, <1>10 DEF Ends, Drained, childVars, flags
  <2>3. FailureHasACause'  BY <1>10 DEF FailureHasACause, signals
  <2>4. Flowing'  BY <1>t, <1>0, <1>10, FlowKept DEF NoFailure, childVars, flags
  <2> QED  BY <1>3, <1>6, <1>10, <2>1, <2>2, <2>3, <2>4 DEF IInv
<1> QED  BY <1>7, <1>8, <1>9, <1>10 DEF Write

-----------------------------------------------------------------------------
(* All steps together *)

LEMMA NextIInv == IInv /\ [Next]_vars => IInv'
<1> SUFFICES ASSUME IInv, [Next]_vars PROVE IInv'  OBVIOUS
<1>1. ASSUME NEW i \in Children, ChildStep(i) PROVE IInv'
      BY <1>1, StartKeeps, SplicePipeKeeps, SpliceFileKeeps, SpliceEndKeeps, ChildExitKeeps
      DEF ChildStep
<1>2. ASSUME NEW i \in Children, ChildFails(i) \/ ChildStopped(i) PROVE IInv'
      BY <1>2, ChildFailsKeeps, ChildStoppedKeeps
<1>3. CASE Handler  BY <1>3, HandlerKeeps
<1>4. CASE Loop  BY <1>4, SelectKeeps, ReadKeeps, WriteKeeps, CheckKeeps, ReturnKeeps DEF Loop
<1>5. CASE WriteAgain  BY <1>5, WriteAgainKeeps
<1>7. CASE CallFails  BY <1>7, CallFailsKeeps
<1>6. CASE UNCHANGED vars
  <2>t. Types /\ Ends /\ Serving /\ FailureHasACause /\ Zombies /\ Flowing  BY DEF IInv
  <2>1. \A i \in Children : Gone(i)' = Gone(i) /\ Zombie(i)' = Zombie(i)
        BY <1>6 DEF vars, Gone, Zombie
  <2>2. Types'  BY <2>t, <1>6 DEF Types, TypeOK, vars
  <2>3. Ends'  BY <2>t, <1>6, <2>1 DEF Ends, Drained, vars
  <2>4. Serving'
    <3>1. \A i \in rfds : i \in Children  BY <2>t DEF Types, TypeOK
    <3> QED  BY <2>t, <1>6, <2>1, <3>1 DEF Serving, vars
  <2>5. FailureHasACause'  BY <2>t, <1>6 DEF FailureHasACause, signals, vars
  <2>6. Zombies'  BY <2>t, <1>6, <2>1 DEF Zombies, vars
  <2>7. Flowing'  BY <2>t, <1>6, FlowKept DEF NoFailure, vars
  <2> QED  BY <2>2, <2>3, <2>4, <2>5, <2>6, <2>7 DEF IInv
<1> QED  BY <1>1, <1>2, <1>3, <1>4, <1>5, <1>6, <1>7 DEF Next, Orderly

LEMMA Inductive == Spec => []IInv
BY InitIInv, NextIInv, PTL DEF Spec

(* With bytes out as many as have left the last channel, they are the file's first. *)
LEMMA OutputImplied == IInv => OutputIsPrefix
<1> SUFFICES ASSUME IInv PROVE OutputIsPrefix  OBVIOUS
<1> USE NAssumption, SizesAssumption
<1>t. Types /\ Flowing  BY DEF IInv
<1>d. PICK D \in [Children -> Nat] : Flow(D)  BY <1>t DEF Flowing
<1>1. N - 1 \in Children  BY DEF Children
<1>2. /\ D[N - 1] \in Nat /\ Sent(D, N - 1) \in Nat /\ Came(D, N - 1) \in Nat
      /\ D[N - 1] <= Came(D, N - 1) /\ Came(D, N - 1) <= Sent(D, N - 1)
      BY <1>t, <1>1, Counts
<1>3. Sent(D, N - 1) <= FileLen /\ Len(stdout) = D[N - 1] /\ Piece(stdout, 0)
      BY <1>d, <1>1 DEF Flow
<1>4. Len(stdout) <= FileLen  BY <1>2, <1>3
<1>5. \A k \in 1 .. Len(stdout) : stdout[k] = k
  <2>1. \A k \in 1 .. Len(stdout) : stdout[k] = 0 + k  BY <1>3 DEF Piece
  <2> QED  BY <2>1
<1> QED  BY <1>4, <1>5 DEF OutputIsPrefix

LEMMA CompleteImplied == IInv => SuccessIsComplete
<1> SUFFICES ASSUME IInv, parent = "success", NoFailure PROVE stdout = File
    BY DEF SuccessIsComplete, NoFailure
<1> USE NAssumption, SizesAssumption
<1>t. Types /\ Serving /\ Flowing  BY DEF IInv
<1>d. PICK D \in [Children -> Nat] : Flow(D)  BY <1>t DEF Flowing
<1>1. N - 1 \in Children /\ N - 1 < child_deaths
      BY <1>t DEF Children, Serving
<1>2. Len(stdout) = FileLen /\ stdout \in Seq(Nat)  BY <1>t, <1>d, <1>1 DEF Flow, Types
<1>3. \A k \in 1 .. Len(stdout) : stdout[k] = k  BY OutputImplied DEF OutputIsPrefix
<1>4. /\ stdout = [k \in 1 .. Len(stdout) |-> stdout[k]]  BY <1>2
<1> QED  BY <1>2, <1>3, <1>4 DEF File

(* The variables keep their types; pipes and buffers hold no more than they can. *)
(* main.c, all steps, for any number of children.                                *)
THEOREM TypeCorrect == Spec => []TypeOK
<1>1. IInv => TypeOK  BY DEF IInv, Types
<1> QED  BY <1>1, Inductive, PTL

(* Whichever children die or are stopped, what is printed is an initial part of *)
(* the file: the bytes are relayed in order, none lost, none twice.             *)
THEOREM InOrder == Spec => []OutputIsPrefix
BY OutputImplied, Inductive, PTL

(* Exit status 0 without a failed child means that the whole file is out.  *)
(* main.c:190-271.                                                          *)
THEOREM Complete == Spec => []SuccessIsComplete
BY CompleteImplied, Inductive, PTL

(* The parent fails only when a child has or a system call of its own loop: *)
(* "died too early", "was killed" and a SIGPIPE from a child's pipe never   *)
(* come of the order in which members of the chain end.  main.c:257, 286.   *)
THEOREM Justified == Spec => []FailureHasACause
<1>1. IInv => FailureHasACause  BY DEF IInv
<1> QED  BY <1>1, Inductive, PTL

(* One SIGCHLD may stand for several children; the handler's wait() still finds *)
(* one each time, unless a child has been stopped.  main.c:278.                 *)
THEOREM NeverBlocks == Spec => []WaitNeverBlocks
<1>1. IInv => WaitNeverBlocks  BY DEF IInv, Zombies, Zombie, WaitNeverBlocks
<1> QED  BY <1>1, Inductive, PTL
=============================================================================
