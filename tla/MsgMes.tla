------------------------------- MODULE MsgMes -------------------------------
(***************************************************************************)
(* Projects/MsgMes: the parent makes num children, then gives each its     *)
(* turn in one message queue: it sends a message of type i, child i        *)
(* receives it, prints i and sends one of type i back.  Both are the same  *)
(* message, so that the parent may also receive what it has just sent      *)
(* itself: child i then never gets its turn, and finds the queue removed.  *)
(*                                                                         *)
(* One action is one system call.  Children are numbered from 1 here, as   *)
(* their messages are.                                                     *)
(***************************************************************************)
EXTENDS Integers, Sequences

CONSTANT Num   \* the number of children

ASSUME NumAssumption == Num \in Nat

Children == 1 .. Num

VARIABLES
  parent,   \* the parent's next step
  at,       \* the child it is at
  child,    \* child[i]: the next step of child i
  queue,    \* queue[i]: the messages of type i in the queue
  removed,  \* the queue is removed
  printed,  \* what the children have printed
  killed    \* the processes that were killed; "stuck" of a child that owed an answer

vars == <<parent, at, child, queue, removed, printed, killed>>

Init ==
  /\ parent = "fork" /\ at = 1
  /\ child = [i \in Children |-> "none"]
  /\ queue = [i \in Children |-> 0] /\ removed = FALSE
  /\ printed = <<>>
  /\ killed = {}

(* Send() and Receive(): both fail when the queue is removed. *)
Send(i) == ~removed /\ queue' = [queue EXCEPT ![i] = @ + 1]
(* Mistake: the message is read but stays (MSG_COPY). *)
Receive_Copy(i) == ~removed /\ queue[i] > 0 /\ UNCHANGED queue
Receive(i) == ~removed /\ queue[i] > 0 /\ queue' = [queue EXCEPT ![i] = @ - 1]

-----------------------------------------------------------------------------
(* The parent *)

Fork ==
  /\ parent = "fork" /\ at <= Num
  /\ child' = [child EXCEPT ![at] = "receive"]
  /\ at' = at + 1
  /\ UNCHANGED <<parent, queue, removed, printed, killed>>

(* DeleteMSQ() *)
(* Mistake: the queue is left behind. *)
DeleteAndExit_Not == parent' = "ended" /\ UNCHANGED removed
DeleteAndExit == parent' = "ended" /\ removed' = TRUE

ForkFails ==
  /\ parent = "fork" /\ at <= Num
  /\ DeleteAndExit
  /\ UNCHANGED <<at, child, queue, printed, killed>>

AllForked ==
  /\ parent = "fork" /\ at > Num
  /\ parent' = "send" /\ at' = 1
  /\ UNCHANGED <<child, queue, removed, printed, killed>>

(* Mistake: nobody's answer is waited for. *)
ParentSend_Next ==
  /\ parent = "send" /\ at <= Num
  /\ Send(at)
  /\ at' = at + 1
  /\ UNCHANGED <<parent, child, removed, printed, killed>>

ParentSend ==
  /\ parent = "send" /\ at <= Num
  /\ Send(at)
  /\ parent' = "receive"
  /\ UNCHANGED <<at, child, removed, printed, killed>>

ParentReceive ==
  /\ parent = "receive"
  /\ Receive(at)
  /\ parent' = "send" /\ at' = at + 1
  /\ UNCHANGED <<child, removed, printed, killed>>

AllServed ==
  /\ parent = "send" /\ at > Num
  /\ DeleteAndExit
  /\ UNCHANGED <<at, child, queue, printed, killed>>

Parent == Fork \/ AllForked \/ ParentSend \/ ParentReceive \/ AllServed

-----------------------------------------------------------------------------
(* A child *)

ChildReceive(i) ==
  /\ child[i] = "receive"
  /\ Receive(i)
  /\ child' = [child EXCEPT ![i] = "print"]
  /\ UNCHANGED <<parent, at, removed, printed, killed>>

PrintNumber(i) ==
  /\ child[i] = "print"
  /\ printed' = Append(printed, i)
  /\ child' = [child EXCEPT ![i] = "send"]
  /\ UNCHANGED <<parent, at, queue, removed, killed>>

ChildSend(i) ==
  /\ child[i] = "send"
  /\ Send(i)
  /\ child' = [child EXCEPT ![i] = "ended"]
  /\ UNCHANGED <<parent, at, removed, printed, killed>>

(* Its Receive() or Send() has failed. *)
ChildFails(i) ==
  /\ child[i] \in {"receive", "send"} /\ removed
  /\ child' = [child EXCEPT ![i] = "ended"]
  /\ UNCHANGED <<parent, at, queue, removed, printed, killed>>

Child(i) == ChildReceive(i) \/ PrintNumber(i) \/ ChildSend(i) \/ ChildFails(i)

-----------------------------------------------------------------------------
(* From outside *)

ChildKilled(i) ==
  /\ child[i] \in {"receive", "print", "send"}
  /\ child' = [child EXCEPT ![i] = "ended"]
  /\ killed' = killed \cup {IF child[i] = "receive" THEN "waiting" ELSE "stuck"}
  /\ UNCHANGED <<parent, at, queue, removed, printed>>

ParentKilled ==
  /\ parent # "ended"
  /\ parent' = "ended"
  /\ killed' = killed \cup {"parent"}
  /\ UNCHANGED <<at, child, queue, removed, printed>>

Next ==
  \/ Parent \/ ForkFails \/ ParentKilled
  \/ \E i \in Children : Child(i) \/ ChildKilled(i)

Spec == Init /\ [][Next]_vars

(* Every process runs. *)
Fairness == WF_vars(Parent) /\ \A i \in Children : WF_vars(Child(i))
FairSpec == Spec /\ Fairness

-----------------------------------------------------------------------------
(* Every variable has its type; there is never more than one message. *)
TypeOK ==
  /\ parent \in {"fork", "send", "receive", "ended"}
  /\ at \in 1 .. Num + 1
  /\ child \in [Children -> {"none", "receive", "print", "send", "ended"}]
  /\ queue \in [Children -> {0, 1}]
  /\ removed \in BOOLEAN
  /\ printed \in Seq(Children)
  /\ killed \subseteq {"parent", "waiting", "stuck"}

(* Children take their turns one after the other: although the parent may     *)
(* receive its own message, it never goes on while one that has its turn is   *)
(* not done, so that the numbers are printed in order, none twice.            *)
TurnsInOrder ==
  /\ \A i, j \in Children : i # j /\ child[i] \in {"print", "send"} =>
                              child[j] \notin {"print", "send"} /\ queue[j] = 0
  /\ \A k \in 1 .. Len(printed) - 1 : printed[k] < printed[k + 1]

(* All processes end, those that never had their turn included, although one  *)
(* that waits for its turn may be killed.  (A child that is killed in its     *)
(* turn leaves the parent waiting, and a parent that is killed leaves the     *)
(* children and the queue.)                                                   *)
AllEnd ==
  \/ <>(killed \cap {"parent", "stuck"} # {})
  \/ <>(parent = "ended" /\ \A i \in Children : child[i] \in {"none", "ended"})
=============================================================================
