----------------------------- MODULE SignalBits -----------------------------
(***************************************************************************)
(* Projects/Signals: a child sends a file to its parent bit by bit, SIGUSR1*)
(* for 0 and SIGUSR2 for 1, and the parent acknowledges each with SIGUSR1. *)
(* Both block these signals and SIGCHLD but while they are in sigsuspend().*)
(* A pending signal is one bit: sent again it is still one.                *)
(*                                                                         *)
(* One action is one system call, with what its process does up to the     *)
(* next one that matters.  Characters are the numbers of Width bits; what  *)
(* the parent's handlers and actions are set to before its first           *)
(* sigsuspend() (main.c:111-143) makes no difference to the child.         *)
(***************************************************************************)
EXTENDS Integers, Sequences

CONSTANTS Width,   \* 8 * sizeof(char)
          MaxLen   \* a bound of the length of the file

ASSUME WidthAssumption == Width \in Nat \ {0}
ASSUME MaxLenAssumption == MaxLen \in Nat

Positions == 0 .. Width - 1
Power[i \in 0 .. Width] == IF i = 0 THEN 1 ELSE 2 * Power[i - 1]   \* 1 << i
Chars == 0 .. Power[Width] - 1
EOF == Power[Width] - 1       \* (char) -1

ToBits(c) == [i \in Positions |-> (c \div Power[i]) % 2]
ToChar(bits) ==
  LET value[i \in 0 .. Width] == IF i = 0 THEN 0 ELSE value[i - 1] + bits[i - 1] * Power[i - 1]
  IN  value[Width]

VARIABLES
  file,           \* the characters of the file
  read,           \* how many of them the child has read
  r,              \* the bit it is at
  child,          \* its next step
  acked,          \* SIGUSR1 is pending for the child
  pending,        \* the signals that are pending for the parent
  parent,         \* its next step
  count,          \* the bits of a character it has
  bit_char,       \* and these bits
  is_child_dead,
  out,            \* the characters it has printed
  accidents       \* what has befallen the processes from outside

childVars == <<read, r, child>>
parentVars == <<parent, count, bit_char, is_child_dead, out>>
vars == <<file, childVars, acked, pending, parentVars, accidents>>

Empty == [i \in Positions |-> 0]

Init ==
  /\ file \in UNION {[1 .. n -> Chars] : n \in 0 .. MaxLen}
  /\ read = 0 /\ r = 0 /\ child = "new" /\ acked = FALSE
  /\ pending = {}
  /\ parent = "suspend" /\ count = 0 /\ bit_char = Empty /\ is_child_dead = FALSE
  /\ out = <<>>
  /\ accidents = {}

-----------------------------------------------------------------------------
(* The child *)

(* SetParentDeath().  If the parent has ended by now, the child goes on without one. *)
AskForDeath ==
  /\ child = "new"
  /\ child' = "read"
  /\ UNCHANGED <<file, read, r, acked, pending, parentVars, accidents>>

(* A signal to the parent: nobody else takes it. *)
Signals(s) == pending' = IF parent = "ended" THEN pending ELSE pending \cup {s}

(* ch is a char: a character of the file may be taken for EOF. *)
More == read < Len(file) /\ file[read + 1] # EOF

ReadChar ==
  /\ child = "read" /\ More
  /\ read' = read + 1 /\ r' = 0 /\ child' = "send"
  /\ UNCHANGED <<file, acked, pending, parentVars, accidents>>

Exit ==
  /\ child = "read" /\ ~More
  /\ child' = "dead"
  /\ Signals("CHLD")
  /\ UNCHANGED <<file, read, r, acked, parentVars, accidents>>

SendBit ==
  /\ child = "send"
  /\ Signals(IF ToBits(file[read])[r] = 0 THEN "USR1" ELSE "USR2")
  /\ child' = "suspend"
  /\ UNCHANGED <<file, read, r, acked, parentVars, accidents>>

(* Mistake: the child does not wait for the answer. *)
ChildSuspend_Not ==
  /\ child = "suspend"
  /\ acked' = FALSE
  /\ r' = r + 1
  /\ child' = IF r + 1 < Width THEN "send" ELSE "read"
  /\ UNCHANGED <<file, read, pending, parentVars, accidents>>

(* sigsuspend() returns when child_handler() has run. *)
ChildSuspend ==
  /\ child = "suspend" /\ acked
  /\ acked' = FALSE
  /\ r' = r + 1
  /\ child' = IF r + 1 < Width THEN "send" ELSE "read"
  /\ UNCHANGED <<file, read, pending, parentVars, accidents>>

Child == AskForDeath \/ ReadChar \/ Exit \/ SendBit \/ ChildSuspend

-----------------------------------------------------------------------------
(* The parent *)

(* The bits that parent_handler() takes, in this order: a handler that another   *)
(* signal interrupts before it has begun comes second.                           *)
Taken(S) == (IF "USR2" \in S THEN <<1>> ELSE <<>>) \o (IF "USR1" \in S THEN <<0>> ELSE <<>>)

TakesLowest(S) == /\ "USR1" \in pending => "USR1" \in S
                  /\ "USR2" \in pending /\ "USR1" \notin S => "USR2" \in S

(* sigsuspend() takes the pending signal of the lowest number, and others unless *)
(* sa_mask, which main() leaves uninitialized, blocks them meanwhile.            *)
ParentSuspend ==
  /\ parent = "suspend"
  /\ \E S \in SUBSET pending :
       /\ S # {} /\ TakesLowest(S)
       /\ pending' = pending \ S
       /\ bit_char' = [i \in Positions |-> IF i \in count .. count + Len(Taken(S)) - 1
                                           THEN Taken(S)[i - count + 1] ELSE bit_char[i]]
       /\ count' = count + Len(Taken(S))
       /\ is_child_dead' = (is_child_dead \/ "CHLD" \in S)
  /\ parent' = "check"
  /\ UNCHANGED <<file, childVars, acked, out, accidents>>

(* The end of the parent kills the child (PR_SET_PDEATHSIG), unless it has not asked for it yet. *)
(* Mistake: the child never asks for it. *)
ParentEnds_Alone(why) ==
  parent' = "ended" /\ accidents' = accidents \cup why /\ UNCHANGED child

ParentEnds(why) ==
  /\ parent' = "ended"
  /\ IF child = "new"
     THEN accidents' = accidents \cup why \cup {"orphan"} /\ UNCHANGED child
     ELSE accidents' = accidents \cup why /\ child' = "dead"

(* Mistake: the character is printed but not begun anew. *)
PrintChar_NoReset ==
  /\ parent = "check" /\ ~is_child_dead /\ count = Width
  /\ out' = Append(out, ToChar(bit_char))
  /\ parent' = "answer"
  /\ UNCHANGED <<file, childVars, acked, pending, count, bit_char, is_child_dead, accidents>>

PrintChar ==
  /\ parent = "check" /\ ~is_child_dead /\ count = Width
  /\ out' = Append(out, ToChar(bit_char))
  /\ bit_char' = Empty /\ count' = 0
  /\ parent' = "answer"
  /\ UNCHANGED <<file, childVars, acked, pending, is_child_dead, accidents>>

NoPrint ==
  /\ parent = "check" /\ ~is_child_dead /\ count # Width
  /\ parent' = "answer"
  /\ UNCHANGED <<file, childVars, acked, pending, count, bit_char, is_child_dead, out, accidents>>

(* "Child died" *)
ChildDied ==
  /\ parent = "check" /\ is_child_dead
  /\ ParentEnds({})
  /\ UNCHANGED <<file, read, r, acked, pending, count, bit_char, is_child_dead, out>>

Answer ==
  /\ parent = "answer"
  /\ acked' = TRUE
  /\ parent' = "suspend"
  /\ UNCHANGED <<file, childVars, pending, count, bit_char, is_child_dead, out, accidents>>

Parent == ParentSuspend \/ PrintChar \/ NoPrint \/ ChildDied \/ Answer

-----------------------------------------------------------------------------
(* From outside *)

(* It is killed, or has no file to open and fgetc() fails. *)
ChildKilled ==
  /\ child # "dead"
  /\ child' = "dead"
  /\ Signals("CHLD")
  /\ accidents' = accidents \cup {"child"}
  /\ UNCHANGED <<file, read, r, acked, parentVars>>

(* SIGCHLD tells of a child that is stopped, too: SA_NOCLDSTOP is not set. *)
ChildStopped ==
  /\ child # "dead" /\ "child" \notin accidents
  /\ Signals("CHLD")
  /\ accidents' = accidents \cup {"child"}
  /\ UNCHANGED <<file, childVars, acked, parentVars>>

ParentKilled ==
  /\ parent # "ended"
  /\ ParentEnds({"parent"})
  /\ UNCHANGED <<file, read, r, acked, pending, count, bit_char, is_child_dead, out>>

Accident == ChildKilled \/ ChildStopped \/ ParentKilled

Next == Child \/ Parent \/ Accident

Spec == Init /\ [][Next]_vars

(* Both processes run. *)
Fairness == WF_vars(Child) /\ WF_vars(Parent)
FairSpec == Spec /\ Fairness

-----------------------------------------------------------------------------
(* Every variable has its type; in particular no more bits than a character has *)
(* are counted, so that main.c:147 never ends the loop and main.c:179 stays in  *)
(* the array.                                                                   *)
TypeOK ==
  /\ file \in Seq(Chars)
  /\ read \in 0 .. Len(file) /\ r \in 0 .. Width
  /\ child \in {"new", "read", "send", "suspend", "dead"}
  /\ acked \in BOOLEAN
  /\ pending \subseteq {"USR1", "USR2", "CHLD"}
  /\ parent \in {"suspend", "check", "answer", "ended"}
  /\ count \in 0 .. Width
  /\ bit_char \in [Positions -> {0, 1}]
  /\ is_child_dead \in BOOLEAN
  /\ out \in Seq(Chars)
  /\ accidents \subseteq {"child", "parent", "orphan"}

(* What is printed is the beginning of the file, whoever is killed and when: no *)
(* two bits are ever merged into one signal, lost, doubled or out of order.     *)
(* Without accidents it is the file up to its first EOF (main.c:92).            *)
OutputIsFile ==
  /\ Len(out) <= Len(file)
  /\ \A k \in 1 .. Len(out) : out[k] = file[k] /\ file[k] # EOF
  /\ parent = "ended" /\ accidents = {} =>
       Len(out) = Len(file) \/ file[Len(out) + 1] = EOF

(* Neither waits for the other for ever, be the other killed or stopped; only a *)
(* child whose parent ends before main.c:62 may.                                *)
BothEnd ==
  <>(parent = "ended" /\ (child = "dead" \/ "orphan" \in accidents))
=============================================================================
