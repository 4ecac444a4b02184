---------------------------- MODULE MsgMesProofs ----------------------------
(***************************************************************************)
(* The turns of MsgMes, for any number of children.                        *)
(***************************************************************************)
EXTENDS MsgMes, TLAPS

(* It is the turn of child i: its message is in the queue, or with it. *)
Called(i) == queue[i] = 1
Busy(i) == child[i] \in {"print", "send"}

(* There is at most one turn at a time, that of the child the parent waits for. *)
OneTurn ==
  /\ parent = "receive" => at \in Children
  /\ \A i \in Children : Called(i) \/ Busy(i) => /\ at = i /\ parent \in {"receive", "ended"}
                                                 /\ ~(Called(i) /\ Busy(i))

(* Those that have printed are past it and were called before the others. *)
InOrder ==
  /\ parent = "fork" => printed = <<>>
  /\ \A k \in 1 .. Len(printed) : /\ printed[k] \in Children /\ printed[k] <= at
                                  /\ child[printed[k]] \in {"send", "ended"}
  /\ \A k \in 1 .. Len(printed) - 1 : printed[k] < printed[k + 1]

IInv == TypeOK /\ OneTurn /\ InOrder

-----------------------------------------------------------------------------
LEMMA InitIInv == Init => IInv
<1> SUFFICES ASSUME Init PROVE IInv  OBVIOUS
<1>1. TypeOK
  <2>1. printed \in Seq(Children)  BY DEF Init
  <2>2. queue \in [Children -> {0, 1}]  BY DEF Init
  <2>3. child \in [Children -> {"none", "receive", "print", "send", "ended"}]  BY DEF Init
  <2>4. parent \in {"fork", "send", "receive", "ended"} /\ at \in 1 .. Num + 1
        BY NumAssumption DEF Init
  <2>5. removed \in BOOLEAN /\ killed \subseteq {"parent", "waiting", "stuck"}  BY DEF Init
  <2> QED  BY <2>1, <2>2, <2>3, <2>4, <2>5 DEF TypeOK
<1>2. OneTurn  BY DEF Init, OneTurn, Called, Busy
<1>3. InOrder  BY DEF Init, InOrder
<1> QED  BY <1>1, <1>2, <1>3 DEF IInv

(* What a step does to the list of numbers, for all steps but PrintNumber(). *)
LEMMA OrderKept ==
  ASSUME IInv, UNCHANGED printed, parent' = "fork" => parent = "fork",
         printed = <<>> \/ at' >= at,
         \A i \in Children : child[i] \in {"send", "ended"} =>
                               printed = <<>> \/ child'[i] \in {"send", "ended"},
         at \in Nat, at' \in Nat
  PROVE  InOrder'
<1>1. ASSUME NEW k \in 1 .. Len(printed)
      PROVE  /\ printed[k] \in Children /\ printed[k] <= at'
             /\ child'[printed[k]] \in {"send", "ended"}
  <2>1. /\ printed[k] \in Children /\ printed[k] <= at
        /\ child[printed[k]] \in {"send", "ended"}
        BY DEF IInv, InOrder
  <2>2. printed # <<>>  OBVIOUS
  <2>3. printed[k] \in Int  BY <2>1 DEF Children
  <2> QED  BY <2>1, <2>2, <2>3
<1> QED  BY <1>1 DEF IInv, InOrder

(* Every step keeps the invariant. *)
LEMMA NextIInv == IInv /\ [Next]_vars => IInv'
<1> SUFFICES ASSUME IInv, [Next]_vars PROVE IInv'  OBVIOUS
<1> USE NumAssumption
<1>t. TypeOK /\ OneTurn /\ InOrder  BY DEF IInv
<1>n. at \in Nat  BY <1>t DEF TypeOK
<1>1. CASE Fork
  <2>0. printed = <<>>  BY <1>t, <1>1 DEF Fork, InOrder
  <2>1. TypeOK'  BY <1>t, <1>1 DEF TypeOK, Fork, Children
  <2>2. OneTurn'  BY <1>t, <1>1 DEF TypeOK, OneTurn, Called, Busy, Fork
  <2>3. InOrder'  BY <1>1, <2>0 DEF Fork, InOrder
  <2> QED  BY <2>1, <2>2, <2>3 DEF IInv
<1>2. CASE AllForked
  <2>0. printed = <<>>  BY <1>t, <1>2 DEF AllForked, InOrder
  <2>1. TypeOK'  BY <1>t, <1>2 DEF TypeOK, AllForked, Children
  <2>2. OneTurn'  BY <1>t, <1>2 DEF TypeOK, OneTurn, Called, Busy, AllForked
  <2>3. InOrder'  BY <1>2, <2>0 DEF AllForked, InOrder
  <2> QED  BY <2>1, <2>2, <2>3 DEF IInv
<1>3. CASE ParentSend
  <2>0. queue[at] = 0 /\ at \in Children
        BY <1>t, <1>3 DEF TypeOK, OneTurn, Called, ParentSend, Children
  <2>1. TypeOK'  BY <1>t, <1>3, <2>0 DEF TypeOK, ParentSend, Send
  <2>2. OneTurn'  BY <1>t, <1>3, <2>0 DEF TypeOK, OneTurn, Called, Busy, ParentSend, Send
  <2>3. InOrder'  BY <1>n, <1>3, OrderKept DEF ParentSend
  <2> QED  BY <2>1, <2>2, <2>3 DEF IInv
<1>4. CASE ParentReceive
  <2>0. queue[at] = 1 /\ at \in Children
        BY <1>t, <1>4 DEF TypeOK, ParentReceive, Receive, OneTurn, Called
  <2>1. TypeOK'  BY <1>t, <1>4, <2>0 DEF TypeOK, ParentReceive, Receive, Children
  <2>2. OneTurn'  BY <1>t, <1>4, <2>0 DEF TypeOK, OneTurn, Called, Busy, ParentReceive, Receive
  <2>3. InOrder'  BY <1>n, <1>4, OrderKept DEF ParentReceive
  <2> QED  BY <2>1, <2>2, <2>3 DEF IInv
<1>5. CASE AllServed \/ ForkFails \/ ParentKilled
  <2>0. parent' = "ended" /\ UNCHANGED <<at, child, queue, printed>>
        BY <1>5 DEF AllServed, ForkFails, ParentKilled, DeleteAndExit
  <2>1. TypeOK'
        BY <1>t, <1>5 DEF TypeOK, AllServed, ForkFails, ParentKilled, DeleteAndExit
  <2>2. OneTurn'  BY <1>t, <2>0 DEF OneTurn, Called, Busy
  <2>3. InOrder'  BY <1>t, <2>0 DEF InOrder
  <2> QED  BY <2>1, <2>2, <2>3 DEF IInv
<1>6. ASSUME NEW i \in Children, ChildReceive(i) PROVE IInv'
  <2>0. queue[i] = 1 /\ Called(i)  BY <1>t, <1>6 DEF TypeOK, ChildReceive, Receive, Called
  <2>1. TypeOK'  BY <1>t, <1>6, <2>0 DEF TypeOK, ChildReceive, Receive
  <2>2. OneTurn'
        BY <1>t, <1>6, <2>0 DEF TypeOK, OneTurn, Called, Busy, ChildReceive, Receive
  <2>3. \A j \in Children : child[j] \in {"send", "ended"} => child'[j] = child[j]
        BY <1>t, <1>6 DEF TypeOK, ChildReceive
  <2>4. InOrder'  BY <1>n, <1>6, <2>3, OrderKept DEF ChildReceive
  <2> QED  BY <2>1, <2>2, <2>4 DEF IInv
<1>7. ASSUME NEW i \in Children, PrintNumber(i) PROVE IInv'
  <2>0. Busy(i) /\ at = i /\ parent \in {"receive", "ended"} /\ i \in Nat
        BY <1>t, <1>7 DEF PrintNumber, OneTurn, Busy, Children
  <2>1. /\ printed' \in Seq(Children) /\ Len(printed') = Len(printed) + 1
        /\ \A k \in 1 .. Len(printed) : printed'[k] = printed[k]
        /\ printed'[Len(printed) + 1] = i
        /\ Len(printed) \in Nat
        BY <1>t, <1>7 DEF TypeOK, PrintNumber
  <2>2. TypeOK'  BY <1>t, <1>7, <2>1 DEF TypeOK, PrintNumber
  <2>3. OneTurn'  BY <1>t, <1>7, <2>0 DEF TypeOK, OneTurn, Called, Busy, PrintNumber
  <2>4. \A k \in 1 .. Len(printed) : /\ printed[k] \in Children /\ printed[k] < i
                                     /\ child'[printed[k]] \in {"send", "ended"}
    <3> SUFFICES ASSUME NEW k \in 1 .. Len(printed)
                 PROVE  /\ printed[k] \in Children /\ printed[k] < i
                        /\ child'[printed[k]] \in {"send", "ended"}
        OBVIOUS
    <3>1. /\ printed[k] \in Children /\ printed[k] <= at
          /\ child[printed[k]] \in {"send", "ended"}
          BY <1>t DEF InOrder
    <3>2. printed[k] # i  BY <1>7, <3>1 DEF PrintNumber
    <3>3. child'[printed[k]] = child[printed[k]]
          BY <1>t, <1>7, <3>1, <3>2 DEF TypeOK, PrintNumber
    <3>4. printed[k] < i  BY <2>0, <3>1, <3>2 DEF Children
    <3> QED  BY <3>1, <3>3, <3>4
  <2>5. child'[i] = "send"  BY <1>t, <1>7 DEF TypeOK, PrintNumber
  <2>6. ASSUME NEW k \in 1 .. Len(printed')
        PROVE  /\ printed'[k] \in Children /\ printed'[k] <= at'
               /\ child'[printed'[k]] \in {"send", "ended"}
    <3>1. CASE k \in 1 .. Len(printed)
      <4>1. printed'[k] = printed[k] /\ at' = i  BY <1>7, <2>0, <2>1, <3>1 DEF PrintNumber
      <4>2. printed[k] \in Int  BY <2>4, <3>1 DEF Children
      <4> QED  BY <2>0, <2>4, <3>1, <4>1, <4>2
    <3>2. CASE k = Len(printed) + 1
          BY <1>7, <2>0, <2>1, <2>5, <3>2 DEF PrintNumber
    <3> QED  BY <2>1, <3>1, <3>2
  <2>7. ASSUME NEW k \in 1 .. Len(printed') - 1 PROVE printed'[k] < printed'[k + 1]
    <3>1. k \in 1 .. Len(printed)  BY <2>1
    <3>2. CASE k = Len(printed)  BY <2>1, <2>4, <3>1, <3>2
    <3>3. CASE k # Len(printed)
      <4>1. k \in 1 .. Len(printed) - 1 /\ k + 1 \in 1 .. Len(printed)  BY <2>1, <3>1, <3>3
      <4> QED  BY <1>t, <2>1, <3>1, <4>1 DEF InOrder
    <3> QED  BY <3>2, <3>3
  <2>8. InOrder'
    <3>1. parent' # "fork"  BY <1>7, <2>0 DEF PrintNumber
    <3> QED  BY <2>6, <2>7, <3>1 DEF InOrder
  <2> QED  BY <2>2, <2>3, <2>8 DEF IInv
<1>8. ASSUME NEW i \in Children, ChildSend(i) PROVE IInv'
  <2>0. Busy(i) /\ queue[i] = 0
        BY <1>t, <1>8 DEF TypeOK, ChildSend, OneTurn, Busy, Called
  <2>1. TypeOK'  BY <1>t, <1>8, <2>0 DEF TypeOK, ChildSend, Send
  <2>2. OneTurn'
        BY <1>t, <1>8, <2>0 DEF TypeOK, OneTurn, Called, Busy, ChildSend, Send
  <2>3. \A j \in Children : child[j] \in {"send", "ended"} => child'[j] \in {"send", "ended"}
        BY <1>t, <1>8 DEF TypeOK, ChildSend
  <2>4. InOrder'  BY <1>n, <1>8, <2>3, OrderKept DEF ChildSend
  <2> QED  BY <2>1, <2>2, <2>4 DEF IInv
<1>9. ASSUME NEW i \in Children, ChildFails(i) \/ ChildKilled(i) PROVE IInv'
  <2>0. /\ child' = [child EXCEPT ![i] = "ended"]
        /\ UNCHANGED <<parent, at, queue, printed>>
        BY <1>9 DEF ChildFails, ChildKilled
  <2>1. TypeOK'  BY <1>t, <1>9 DEF TypeOK, ChildFails, ChildKilled
  <2>2. OneTurn'  BY <1>t, <2>0 DEF TypeOK, OneTurn, Called, Busy
  <2>3. \A j \in Children : child[j] \in {"send", "ended"} => child'[j] \in {"send", "ended"}
        BY <1>t, <2>0 DEF TypeOK
  <2>4. InOrder'  BY <1>n, <2>0, <2>3, OrderKept
  <2> QED  BY <2>1, <2>2, <2>4 DEF IInv
<1>10. CASE UNCHANGED vars
       BY <1>t, <1>10 DEF vars, IInv, TypeOK, OneTurn, InOrder, Called, Busy
<1> QED  BY <1>1, <1>2, <1>3, <1>4, <1>5, <1>6, <1>7, <1>8, <1>9, <1>10 DEF Next, Parent, Child

(* The invariant is what the properties need. *)
LEMMA Implied == IInv => TurnsInOrder
<1> SUFFICES ASSUME IInv PROVE TurnsInOrder  OBVIOUS
<1>1. ASSUME NEW i \in Children, NEW j \in Children, i # j, child[i] \in {"print", "send"}
      PROVE  child[j] \notin {"print", "send"} /\ queue[j] = 0
      BY <1>1 DEF IInv, TypeOK, OneTurn, Called, Busy
<1> QED  BY <1>1 DEF IInv, InOrder, TurnsInOrder

LEMMA Inductive == Spec => []IInv
BY InitIInv, NextIInv, PTL DEF Spec

(* Every variable keeps its type; no child is called twice at once. *)
THEOREM TypeCorrect == Spec => []TypeOK
<1>1. IInv => TypeOK  BY DEF IInv
<1> QED  BY <1>1, Inductive, PTL

(* However many children there are, and although the parent may take back its own *)
(* message, they take their turns one after the other and in order.               *)
THEOREM InTurn == Spec => []TurnsInOrder
BY Implied, Inductive, PTL
=============================================================================
