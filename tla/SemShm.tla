------------------------------- MODULE SemShm -------------------------------
(***************************************************************************)
(* Projects/TransFileSemShm: a writer process hands a file to a reader     *)
(* process, a buffer at a time, through one System V shared memory segment *)
(* guarded by a set of six semaphores.  Any number of writers and readers  *)
(* may be started on the same set; the semaphores are to pair them off.    *)
(*                                                                         *)
(* One action is one semop() call (an array of operations the kernel       *)
(* performs all at once or not at all), one semctl(), one read() or        *)
(* write(), or half of the writer's memcpy() into the segment.  A blocked  *)
(* semop() is an action that is not enabled; the kernel tries it again     *)
(* whenever the set changes.  A file is the sequence of its buffers, and   *)
(* the k-th buffer of the file of writer w is <<w, k>>.                    *)
(***************************************************************************)
EXTENDS Integers, Sequences, FiniteSets

CONSTANTS Writers,   \* the invocations of writer
          Readers,   \* the invocations of reader
          MaxLen,    \* bound: the longest file, in buffers
          Leftover,  \* the values earlier sessions may have left in PRINT and MEMORY
          NoChunk,   \* the content of a buffer that nothing was copied to
          Torn       \* the content of the segment in the middle of a memcpy()

Procs == Writers \cup Readers
Chunks == Writers \X (1 .. MaxLen)

ASSUME ProcsAssumption == /\ Writers \cap Readers = {}
                          /\ IsFiniteSet(Writers)
ASSUME MaxLenAssumption == MaxLen \in Nat
ASSUME LeftoverAssumption == Leftover \subseteq Nat
ASSUME ChunkAssumption == NoChunk \notin Chunks /\ Torn \notin Chunks /\ NoChunk # Torn

VARIABLES
  sem,      \* the semaphore set
  semadj,   \* semadj[p]: what the kernel adds to the set when p exits (SEM_UNDO)
  removed,  \* the set was removed by IPC_RMID
  pc,       \* pc[p]: the next call of process p
  len,      \* len[w]: the number of buffers in the file of writer w
  pos,      \* pos[w]: the number of buffers w has read from it
  shm,      \* the content of the segment
  buf,      \* buf[r]: the local buffer of reader r
  out       \* out[r]: everything reader r has written to its standard output

vars == <<sem, semadj, removed, pc, len, pos, shm, buf, out>>
data == <<len, pos, shm, buf, out>>

Sems == {"WEXIST", "REXIST", "PRINT", "MEMORY", "PAIR", "FINISH"}
NoAdj == [s \in Sems |-> 0]

WriterSteps == {"start", "pairwait", "setval", "announce", "meet", "loop", "read",
                "copy", "copying", "post", "finish", "leave", "exit", "dead"}
ReaderSteps == {"start", "pairwait", "setval", "announce", "meet", "loop",
                "rcopy", "rwrite", "rpost", "leave", "exit", "dead"}

Init ==
  /\ sem \in {[[s \in Sems |-> 0] EXCEPT !["PRINT"] = a, !["MEMORY"] = b] :
                a \in Leftover, b \in Leftover}
  /\ semadj = [p \in Procs |-> NoAdj]
  /\ removed = FALSE
  /\ pc = [p \in Procs |-> "start"]
  /\ len \in [Writers -> 0 .. MaxLen]
  /\ pos = [w \in Writers |-> 0]
  /\ shm = NoChunk
  /\ buf = [r \in Readers |-> NoChunk]
  /\ out = [r \in Readers |-> <<>>]

Goto(p, from, to) == pc[p] = from /\ pc' = [pc EXCEPT ![p] = to]

(* semctl(SETVAL): sets the semaphore and clears every process's adjustment of it. *)
SetVal(s, v) ==
  /\ sem' = [sem EXCEPT ![s] = v]
  /\ semadj' = [p \in Procs |-> [semadj[p] EXCEPT ![s] = 0]]

(***************************************************************************)
(* The prologue, where writer and reader find each other.  A process first *)
(* takes the place of the only writer (reader), waits for the last pair to *)
(* be over, sets its semaphore of the two that alternate, announces itself *)
(* and waits for a partner that has announced itself.                      *)
(***************************************************************************)
WEnter(w) ==
  /\ ~removed /\ sem["WEXIST"] = 0
  /\ Goto(w, "start", "pairwait")
  /\ sem' = [sem EXCEPT !["WEXIST"] = @ + 1]
  /\ semadj' = [semadj EXCEPT ![w]["WEXIST"] = @ - 1]
  /\ UNCHANGED <<removed, data>>

REnter(r) ==
  /\ ~removed /\ sem["REXIST"] = 0
  /\ Goto(r, "start", "pairwait")
  /\ sem' = [sem EXCEPT !["REXIST"] = @ + 1]
  /\ semadj' = [semadj EXCEPT ![r]["REXIST"] = @ - 1]
  /\ UNCHANGED <<removed, data>>

(* Mistake: not waiting for the last pair to be over. *)
WPairWait_Hasty(w) ==
  /\ ~removed
  /\ Goto(w, "pairwait", "setval")
  /\ UNCHANGED <<sem, semadj, removed, data>>

WPairWait(w) ==
  /\ ~removed /\ sem["PAIR"] = 0
  /\ Goto(w, "pairwait", "setval")
  /\ UNCHANGED <<sem, semadj, removed, data>>

RPairWait(r) ==
  /\ ~removed /\ sem["PAIR"] = 0
  /\ Goto(r, "pairwait", "setval")
  /\ UNCHANGED <<sem, semadj, removed, data>>

(* The result of semctl() is not looked at: on a removed set it changes nothing. *)
WSetPrint(w) ==
  /\ Goto(w, "setval", "announce")
  /\ IF removed THEN UNCHANGED <<sem, semadj>> ELSE SetVal("PRINT", 1)
  /\ UNCHANGED <<removed, data>>

(* Mistake: the semaphore of the segment starts one too high. *)
RSetMemory_Three(r) ==
  /\ Goto(r, "setval", "announce")
  /\ IF removed THEN UNCHANGED <<sem, semadj>> ELSE SetVal("MEMORY", 3)
  /\ UNCHANGED <<removed, data>>

RSetMemory(r) ==
  /\ Goto(r, "setval", "announce")
  /\ IF removed THEN UNCHANGED <<sem, semadj>> ELSE SetVal("MEMORY", 2)
  /\ UNCHANGED <<removed, data>>

WAnnounce(w) ==
  /\ ~removed /\ sem["PRINT"] >= 1
  /\ Goto(w, "announce", "meet")
  /\ sem' = [sem EXCEPT !["WEXIST"] = @ + 1, !["PRINT"] = @ - 1]
  /\ semadj' = [semadj EXCEPT ![w]["WEXIST"] = @ - 1, ![w]["PRINT"] = @ + 1]
  /\ UNCHANGED <<removed, data>>

RAnnounce(r) ==
  /\ ~removed /\ sem["MEMORY"] >= 1
  /\ Goto(r, "announce", "meet")
  /\ sem' = [sem EXCEPT !["REXIST"] = @ + 1, !["MEMORY"] = @ - 1]
  /\ semadj' = [semadj EXCEPT ![r]["REXIST"] = @ - 1, ![r]["MEMORY"] = @ + 1]
  /\ UNCHANGED <<removed, data>>

(* The -2, +2 pair of operations only tests that the partner's semaphore is at least 2. *)
(* Mistake: SEM_UNDO forgotten. *)
WMeet_NoUndo(w) ==
  /\ ~removed /\ sem["REXIST"] >= 2
  /\ Goto(w, "meet", "loop")
  /\ sem' = [sem EXCEPT !["PAIR"] = @ + 1]
  /\ UNCHANGED <<semadj, removed, data>>

WMeet(w) ==
  /\ ~removed /\ sem["REXIST"] >= 2
  /\ Goto(w, "meet", "loop")
  /\ sem' = [sem EXCEPT !["PAIR"] = @ + 1]
  /\ semadj' = [semadj EXCEPT ![w]["PAIR"] = @ - 1]
  /\ UNCHANGED <<removed, data>>

RMeet(r) ==
  /\ ~removed /\ sem["WEXIST"] >= 2
  /\ Goto(r, "meet", "loop")
  /\ sem' = [sem EXCEPT !["PAIR"] = @ + 1]
  /\ semadj' = [semadj EXCEPT ![r]["PAIR"] = @ - 1]
  /\ UNCHANGED <<removed, data>>

(***************************************************************************)
(* The writer's loop.                                                      *)
(***************************************************************************)
(* Mistake: taking the segment without looking for the partner. *)
WTakeMemory_Alone(w) ==
  /\ ~removed /\ sem["MEMORY"] >= 1
  /\ Goto(w, "loop", "read")
  /\ sem' = [sem EXCEPT !["MEMORY"] = @ - 1]
  /\ UNCHANGED <<semadj, removed, data>>

WTakeMemory(w) ==
  /\ ~removed /\ sem["PAIR"] >= 2 /\ sem["MEMORY"] >= 1
  /\ Goto(w, "loop", "read")
  /\ sem' = [sem EXCEPT !["MEMORY"] = @ - 1]
  /\ UNCHANGED <<semadj, removed, data>>

(* IPC_NOWAIT on PAIR - 2 makes the call fail: "Writer: reader died". *)
(* Mistake: IPC_NOWAIT forgotten, only a removed set makes the call fail. *)
WAlone_Blocks(w) ==
  /\ removed
  /\ Goto(w, "loop", "leave")
  /\ UNCHANGED <<sem, semadj, removed, data>>

WAlone(w) ==
  /\ ~removed /\ sem["PAIR"] < 2
  /\ Goto(w, "loop", "leave")
  /\ UNCHANGED <<sem, semadj, removed, data>>

(* Mistake: one read() too many. *)
WRead_PastEnd(w) ==
  /\ pos[w] <= len[w]
  /\ Goto(w, "read", "copy")
  /\ pos' = [pos EXCEPT ![w] = @ + 1]
  /\ UNCHANGED <<sem, semadj, removed, len, shm, buf, out>>

WRead(w) ==
  /\ pos[w] < len[w]
  /\ Goto(w, "read", "copy")
  /\ pos' = [pos EXCEPT ![w] = @ + 1]
  /\ UNCHANGED <<sem, semadj, removed, len, shm, buf, out>>

WReadEOF(w) ==
  /\ pos[w] = len[w]
  /\ Goto(w, "read", "finish")
  /\ UNCHANGED <<sem, semadj, removed, data>>

WReadError(w) ==
  /\ Goto(w, "read", "exit")
  /\ removed' = TRUE
  /\ UNCHANGED <<sem, semadj, data>>

WCopyBegin(w) ==
  /\ Goto(w, "copy", "copying")
  /\ shm' = Torn
  /\ UNCHANGED <<sem, semadj, removed, len, pos, buf, out>>

WCopyEnd(w) ==
  /\ Goto(w, "copying", "post")
  /\ shm' = <<w, pos[w]>>
  /\ UNCHANGED <<sem, semadj, removed, len, pos, buf, out>>

WPostPrint(w) ==
  /\ ~removed
  /\ Goto(w, "post", "loop")
  /\ sem' = [sem EXCEPT !["PRINT"] = @ + 1]
  /\ UNCHANGED <<semadj, removed, data>>

WFinish(w) ==
  /\ ~removed
  /\ Goto(w, "finish", "leave")
  /\ sem' = [sem EXCEPT !["PRINT"] = @ + 1, !["FINISH"] = @ + 1]
  /\ semadj' = [semadj EXCEPT ![w]["FINISH"] = @ - 1]
  /\ UNCHANGED <<removed, data>>

(***************************************************************************)
(* The reader's loop.  The operations of one semop() are tried in order:   *)
(* the test of PAIR fails at once, then PRINT blocks, then FINISH fails.   *)
(***************************************************************************)
RTakePrint(r) ==
  /\ ~removed /\ sem["PAIR"] >= 2 /\ sem["PRINT"] >= 1 /\ sem["FINISH"] = 0
  /\ Goto(r, "loop", "rcopy")
  /\ sem' = [sem EXCEPT !["PRINT"] = @ - 1]
  /\ UNCHANGED <<semadj, removed, data>>

RStop(r) ==
  /\ ~removed
  /\ \/ sem["PAIR"] < 2
     \/ sem["PRINT"] >= 1 /\ sem["FINISH"] # 0
  /\ Goto(r, "loop", "leave")
  /\ UNCHANGED <<sem, semadj, removed, data>>

RCopy(r) ==
  /\ Goto(r, "rcopy", "rwrite")
  /\ buf' = [buf EXCEPT ![r] = shm]
  /\ UNCHANGED <<sem, semadj, removed, len, pos, shm, out>>

RWrite(r) ==
  /\ Goto(r, "rwrite", "rpost")
  /\ out' = [out EXCEPT ![r] = Append(@, buf[r])]
  /\ UNCHANGED <<sem, semadj, removed, len, pos, shm, buf>>

RWriteError(r) ==
  /\ Goto(r, "rwrite", "exit")
  /\ removed' = TRUE
  /\ UNCHANGED <<sem, semadj, data>>

(* Mistake: the segment is not given back. *)
RPostMemory_Keeps(r) ==
  /\ ~removed
  /\ Goto(r, "rpost", "loop")
  /\ UNCHANGED <<sem, semadj, removed, data>>

RPostMemory(r) ==
  /\ ~removed
  /\ Goto(r, "rpost", "loop")
  /\ sem' = [sem EXCEPT !["MEMORY"] = @ + 1]
  /\ UNCHANGED <<semadj, removed, data>>

(***************************************************************************)
(* The end.  The last semop() takes back what the process holds of PAIR    *)
(* and of WEXIST (REXIST); only exit() gives back the adjustments of       *)
(* PRINT, MEMORY and FINISH.                                               *)
(***************************************************************************)
(* Mistake: SEM_UNDO forgotten, so exit() takes the same values back again. *)
WLeave_NoUndo(w) ==
  /\ ~removed /\ sem["PAIR"] >= 1 /\ sem["WEXIST"] >= 2
  /\ Goto(w, "leave", "exit")
  /\ sem' = [sem EXCEPT !["PAIR"] = @ - 1, !["WEXIST"] = @ - 2]
  /\ UNCHANGED <<semadj, removed, data>>

WLeave(w) ==
  /\ ~removed /\ sem["PAIR"] >= 1 /\ sem["WEXIST"] >= 2
  /\ Goto(w, "leave", "exit")
  /\ sem' = [sem EXCEPT !["PAIR"] = @ - 1, !["WEXIST"] = @ - 2]
  /\ semadj' = [semadj EXCEPT ![w]["PAIR"] = @ + 1, ![w]["WEXIST"] = @ + 2]
  /\ UNCHANGED <<removed, data>>

RLeave(r) ==
  /\ ~removed /\ sem["PAIR"] >= 1 /\ sem["REXIST"] >= 2
  /\ Goto(r, "leave", "exit")
  /\ sem' = [sem EXCEPT !["PAIR"] = @ - 1, !["REXIST"] = @ - 2]
  /\ semadj' = [semadj EXCEPT ![r]["PAIR"] = @ + 1, ![r]["REXIST"] = @ + 2]
  /\ UNCHANGED <<removed, data>>

(* A semop() on a removed set fails: the loops are left, every other caller exits. *)
SemopFails(p) ==
  /\ removed
  /\ \/ Goto(p, "loop", "leave")
     \/ /\ pc[p] \in {"start", "pairwait", "announce", "meet", "post", "finish", "rpost", "leave"}
        /\ pc' = [pc EXCEPT ![p] = "exit"]
  /\ UNCHANGED <<sem, semadj, removed, data>>

(* exit_sem() of the kernel: all the adjustments of p at once, and no value below 0. *)
Undo(p) ==
  /\ sem' = IF removed THEN sem
            ELSE [s \in Sems |-> IF sem[s] + semadj[p][s] < 0 THEN 0 ELSE sem[s] + semadj[p][s]]
  /\ semadj' = [semadj EXCEPT ![p] = NoAdj]

Exit(p) ==
  /\ Goto(p, "exit", "dead")
  /\ Undo(p)
  /\ UNCHANGED <<removed, data>>

(* A signal kills p between two of its calls, or inside memcpy(). *)
Crash(p) ==
  /\ pc[p] \notin {"exit", "dead"}
  /\ pc' = [pc EXCEPT ![p] = "dead"]
  /\ Undo(p)
  /\ UNCHANGED <<removed, data>>

(* The program RemoveAll. *)
RemoveAll ==
  /\ ~removed
  /\ removed' = TRUE
  /\ UNCHANGED <<sem, semadj, pc, data>>

WriterStep(w) ==
  \/ WEnter(w) \/ WPairWait(w) \/ WSetPrint(w) \/ WAnnounce(w) \/ WMeet(w)
  \/ WTakeMemory(w) \/ WAlone(w) \/ WRead(w) \/ WReadEOF(w) \/ WCopyBegin(w) \/ WCopyEnd(w)
  \/ WPostPrint(w) \/ WFinish(w) \/ WLeave(w)

ReaderStep(r) ==
  \/ REnter(r) \/ RPairWait(r) \/ RSetMemory(r) \/ RAnnounce(r) \/ RMeet(r)
  \/ RTakePrint(r) \/ RStop(r) \/ RCopy(r) \/ RWrite(r) \/ RPostMemory(r) \/ RLeave(r)

(* The steps of undisturbed processes, and with them the failures. *)
Orderly ==
  \/ \E w \in Writers : WriterStep(w)
  \/ \E r \in Readers : ReaderStep(r)
  \/ \E p \in Procs : Exit(p)

Failure ==
  \/ \E w \in Writers : WReadError(w)
  \/ \E r \in Readers : RWriteError(r)
  \/ \E p \in Procs : SemopFails(p) \/ Crash(p)
  \/ RemoveAll

Next == Orderly \/ Failure

Spec == Init /\ [][Next]_vars

(* Every process that can go on goes on.  Nobody promises that a process that *)
(* waits for a place gets it, hence no strong fairness.                       *)
Fairness ==
  /\ \A w \in Writers : WF_vars(WriterStep(w) \/ Exit(w))
  /\ \A r \in Readers : WF_vars(ReaderStep(r) \/ Exit(r))

OrderlySpec == Init /\ [][Orderly]_vars /\ Fairness
-----------------------------------------------------------------------------
(* The process has been counted in PAIR and has not taken itself off it again. *)
PairSteps == {"loop", "read", "copy", "copying", "post", "finish", "rcopy", "rwrite", "rpost", "leave"}
InPair(p) == pc[p] \in PairSteps

(* Reader r has printed the first k buffers of the file of w, in order, and nothing else. *)
Printed(r, w, k) == /\ Len(out[r]) = k
                    /\ \A i \in 1 .. k : out[r][i] = <<w, i>>

StepType ==
  /\ pc \in [Procs -> WriterSteps \cup ReaderSteps]
  /\ \A w \in Writers : pc[w] \in WriterSteps
  /\ \A r \in Readers : pc[r] \in ReaderSteps

DataType ==
  /\ len \in [Writers -> 0 .. MaxLen]
  /\ pos \in [Writers -> 0 .. MaxLen]
  /\ shm \in Chunks \cup {NoChunk, Torn}
  /\ buf \in [Readers -> Chunks \cup {NoChunk, Torn}]
  /\ out \in [Readers -> Seq(Chunks \cup {NoChunk, Torn})]

(* Every variable has its type; every semaphore value is a natural number.   *)
(* writer.c and reader.c, all steps.                                         *)
TypeOK ==
  /\ sem \in [Sems -> Nat]
  /\ semadj \in [Procs -> [Sems -> Int]]
  /\ removed \in BOOLEAN
  /\ StepType
  /\ DataType

(* Nobody touches the segment while a writer is filling it, whoever has      *)
(* crashed, left or arrived before.  writer.c:159 against reader.c:117.      *)
ShmExclusive ==
  \A w \in Writers : pc[w] \in {"copy", "copying"} =>
    \A p \in Procs \ {w} : pc[p] \notin {"copy", "copying", "rcopy"}

(* What a reader prints is at every moment an initial part of one file: no   *)
(* buffer lost, doubled, torn or of another writer.  reader.c:117-118.       *)
OutputIsPrefix ==
  \A r \in Readers : out[r] # <<>> =>
    \E w \in Writers, k \in 1 .. MaxLen : k <= len[w] /\ Printed(r, w, k)

(* A writer that tells its reader the file is over (FINISH) has had all of   *)
(* it printed by one reader.  writer.c:128-149.                              *)
FinishedIsPrinted ==
  \A w \in Writers : pc[w] = "finish" \/ semadj[w]["FINISH"] # 0 =>
    \E r \in Readers : Printed(r, w, len[w])

(* When the last process is gone, however it went, the set is as the next    *)
(* ones expect it: only PRINT and MEMORY, which they set themselves, may     *)
(* differ from 0.  SEM_UNDO throughout writer.c and reader.c.                *)
CleanSlate ==
  ~removed /\ (\A p \in Procs : pc[p] \in {"start", "dead"}) =>
    \A s \in {"WEXIST", "REXIST", "PAIR", "FINISH"} : sem[s] = 0

(* Whenever a process dies the kernel can undo all of its operations: no     *)
(* semaphore would fall below 0, where the kernel would silently clip it.    *)
UndoIsExact ==
  ~removed => \A p \in Procs, s \in Sems : sem[s] + semadj[p][s] >= 0

(* Without failures a session ends for both sides, even when the partner     *)
(* left first or a late exit of an earlier writer still holds FINISH up, and *)
(* a newcomer that waits for the last pair gets its turn.  writer.c:38-49,   *)
(* reader.c:26-37.                                                           *)
SessionEnds ==
  \A p \in Procs : /\ InPair(p) ~> pc[p] = "dead"
                   /\ pc[p] = "pairwait" ~> pc[p] # "pairwait"

(* Without failures, once a writer is reading its file, its reader has come  *)
(* to its loop too and no earlier writer holds FINISH up, all of the file    *)
(* gets printed.  (Without the second condition the reader may have given up *)
(* before the writer had counted itself in PAIR.)  writer.c:101-174.         *)
FileArrives ==
  \A w \in Writers :
    pc[w] = "read" /\ sem["FINISH"] = 0 /\ (\E r \in Readers : pc[r] = "loop")
      ~> \E r \in Readers : Printed(r, w, len[w])

(* What the message of writer.c:120 says: a writer on an intact set gives up *)
(* in its loop only when a reader has died.                                  *)
ReaderDied ==
  [][\A w \in Writers : pc[w] = "loop" /\ pc'[w] = "leave" /\ ~removed
       => \E r \in Readers : pc[r] = "dead"]_vars
=============================================================================
