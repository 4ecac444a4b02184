------------------------------ MODULE SemShmInv ------------------------------
(***************************************************************************)
(* The inductive invariant of SemShm.  The parts that speak of semaphore   *)
(* values hold while the set exists; the others must survive its removal,  *)
(* after which the processes still run to the next semop().                *)
(***************************************************************************)
EXTENDS SemShm

Early == {"start", "pairwait", "setval", "announce", "meet"}
Prepared == {"setval", "announce"}
Once == {"pairwait", "setval", "announce"}
Twice == {"meet"} \cup PairSteps

(* What p has added to WEXIST (REXIST) and not taken back. *)
Held(p) == IF pc[p] \in Once THEN 1 ELSE IF pc[p] \in Twice THEN 2 ELSE 0
Present(p) == pc[p] \in Once \cup Twice

(* The process has the right to use the segment, taken from MEMORY (PRINT). *)
TokenSteps == {"read", "copy", "copying", "post", "finish", "rcopy", "rwrite", "rpost"}
HasToken(p) == pc[p] \in TokenSteps
Token(p) == IF HasToken(p) THEN 1 ELSE 0

(* The writer has raised FINISH and not yet exited. *)
Finished(w) == semadj[w]["FINISH"] = -1
Finishers == {w \in Writers : Finished(w)}

(* At most one writer, and at most one reader, is past its first semop(). *)
OneOfEach ==
  /\ \A wa, wb \in Writers : Present(wa) /\ Present(wb) => wa = wb
  /\ \A ra, rb \in Readers : Present(ra) /\ Present(rb) => ra = rb

(* At most one of writer and reader has the right to use the segment. *)
OneToken == \A w \in Writers, r \in Readers : ~(HasToken(w) /\ HasToken(r))

(* The adjustments are those of the operations that p has done so far. *)
AdjInv ==
  /\ \A w \in Writers :
       /\ semadj[w]["WEXIST"] = -Held(w)
       /\ semadj[w]["PAIR"] = IF InPair(w) THEN -1 ELSE 0
       /\ semadj[w]["PRINT"] \in {0, 1}
       /\ semadj[w]["PRINT"] = 1 => pc[w] \in Twice \cup {"exit"}
       /\ semadj[w]["REXIST"] = 0 /\ semadj[w]["MEMORY"] = 0
  /\ \A r \in Readers :
       /\ semadj[r]["REXIST"] = -Held(r)
       /\ semadj[r]["PAIR"] = IF InPair(r) THEN -1 ELSE 0
       /\ semadj[r]["MEMORY"] \in {0, 1}
       /\ semadj[r]["MEMORY"] = 1 => pc[r] \in Twice \cup {"exit"}
       /\ semadj[r]["WEXIST"] = 0 /\ semadj[r]["PRINT"] = 0 /\ semadj[r]["FINISH"] = 0

(* WEXIST and REXIST hold exactly what the one writer and the one reader put there. *)
ExistInv ==
  /\ \A w \in Writers : Present(w) => sem["WEXIST"] = Held(w)
  /\ (\A w \in Writers : ~Present(w)) => sem["WEXIST"] = 0
  /\ \A r \in Readers : Present(r) => sem["REXIST"] = Held(r)
  /\ (\A r \in Readers : ~Present(r)) => sem["REXIST"] = 0

(* PAIR counts the sides of the session. *)
PairInv ==
  sem["PAIR"] = (IF \E w \in Writers : InPair(w) THEN 1 ELSE 0)
              + (IF \E r \in Readers : InPair(r) THEN 1 ELSE 0)

(* FINISH counts the writers that raised it and have not exited. *)
FinishAdj ==
  \A w \in Writers : /\ semadj[w]["FINISH"] \in {0, -1}
                     /\ Finished(w) => pc[w] \in {"leave", "exit"}
FinishInv == sem["FINISH"] = Cardinality(Finishers)

(* No adjustment of an earlier writer (reader) can come back into the semaphore *)
(* that the present one has set: SETVAL cleared it.                             *)
SetValInv ==
  /\ \A w \in Writers : pc[w] \in {"announce"} \cup Twice =>
       \A v \in Writers : v # w => semadj[v]["PRINT"] = 0
  /\ \A r \in Readers : pc[r] \in {"announce"} \cup Twice =>
       \A v \in Readers : v # r => semadj[v]["MEMORY"] = 0

(* PRINT and MEMORY before the session. *)
SetInv ==
  /\ \A w \in Writers : pc[w] = "announce" => sem["PRINT"] = 1
  /\ \A w \in Writers : pc[w] = "meet" => sem["PRINT"] = 0
  /\ \A r \in Readers : pc[r] = "announce" => sem["MEMORY"] = 2
  /\ \A r \in Readers : pc[r] = "meet" => sem["MEMORY"] = 1

(* One side may be in the session, even have given it up, before the other is; *)
(* it has not touched the segment then.                                        *)
Meet(w, r) ==
  /\ InPair(w) => pc[r] \notin Prepared
  /\ InPair(r) => pc[w] \notin Prepared
  /\ InPair(w) /\ pc[r] = "meet" =>
       pc[w] \in {"loop", "leave"} /\ sem["PRINT"] = 0 /\ pos[w] = 0 /\ ~Finished(w)
  /\ InPair(r) /\ pc[w] = "meet" =>
       pc[r] \in {"loop", "leave"} /\ sem["MEMORY"] = 1 /\ out[r] = <<>>
MeetInv == \A w \in Writers, r \in Readers : Meet(w, r)

(* Within a session the right to the segment is in one place. *)
OneRight(w, r) ==
  InPair(w) /\ InPair(r) => sem["MEMORY"] + sem["PRINT"] + Token(w) + Token(r) = 1
TokenSum == \A w \in Writers, r \in Readers : OneRight(w, r)

(* A buffer posted in PRINT that nobody has taken means a writer in its loop; *)
(* PRINT raised for the end of the file means FINISH is raised.               *)
Posted(w, r) ==
  InPair(w) /\ InPair(r) /\ sem["PRINT"] >= 1 => Finished(w) \/ pc[w] = "loop"
PostInv == \A w \in Writers, r \in Readers : Posted(w, r)

(* A buffer that waits in the segment is the last one the writer has read. *)
Ready(w, r) ==
  InPair(w) /\ InPair(r) /\ ~Finished(w) /\ sem["PRINT"] >= 1 =>
    pos[w] >= 1 /\ shm = <<w, pos[w]>>
ReadyInv == \A w \in Writers, r \in Readers : Ready(w, r)

(* The reader of a session has printed all that the writer has read, except for *)
(* the buffer that is on its way.                                               *)
OnItsWay(w, r) ==
  \/ pc[w] \in {"copy", "copying", "post"}
  \/ sem["PRINT"] >= 1
  \/ pc[r] \in {"rcopy", "rwrite"}
Given(w, r) == IF OnItsWay(w, r) THEN pos[w] - 1 ELSE pos[w]
Progress(w, r) ==
  InPair(w) /\ InPair(r) /\ ~Finished(w) => Printed(r, w, Given(w, r))
SessionData == \A w \in Writers, r \in Readers : Progress(w, r)

(* Reader r holds, in c, the buffer of some file that follows what it has printed: *)
(* the last one its partner, if it is still there, has read.                       *)
NextIs(r, c) ==
  \E w \in Writers, k \in 0 .. MaxLen :
    /\ k < len[w] /\ Printed(r, w, k) /\ c = <<w, k + 1>>
    /\ \A v \in Writers : InPair(v) => v = w /\ pos[w] = k + 1

Took(r) == /\ pc[r] = "rcopy" => NextIs(r, shm)
           /\ pc[r] = "rwrite" => NextIs(r, buf[r])
ReaderData == \A r \in Readers : Took(r)

(* What a writer has read of its file. *)
Kept(w) ==
  /\ pos[w] <= len[w]
  /\ pc[w] \in Early => pos[w] = 0
  /\ pc[w] \in {"copy", "copying", "post"} => pos[w] >= 1
  /\ pc[w] = "post" => shm = <<w, pos[w]>>
  /\ pc[w] = "finish" => pos[w] = len[w]
WriterData == \A w \in Writers : Kept(w)

(* Some reader has printed the first k buffers of w, and is not about to print more. *)
HeardBy(r, w, k) == Printed(r, w, k) /\ pc[r] \notin {"rcopy", "rwrite"}
Heard(w) ==
  /\ pc[w] \in {"read", "finish"} => \E r \in Readers : HeardBy(r, w, pos[w])
  /\ Finished(w) => \E r \in Readers : HeardBy(r, w, len[w])
HeardInv == \A w \in Writers : Heard(w)

EarlyData == \A r \in Readers : pc[r] \in Early => out[r] = <<>>

SetParts == /\ AdjInv /\ ExistInv /\ PairInv /\ FinishInv /\ SetValInv /\ SetInv
            /\ MeetInv /\ TokenSum /\ PostInv /\ ReadyInv /\ SessionData

(* Everything that is true of the processes and of the data, set or no set. *)
Lasting == /\ OneOfEach /\ OneToken /\ FinishAdj
           /\ ReaderData /\ WriterData /\ HeardInv /\ EarlyData /\ OutputIsPrefix

IInv == TypeOK /\ Lasting /\ (~removed => SetParts)
=============================================================================
