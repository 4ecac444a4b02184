---------------------------- MODULE SemShmProofs ----------------------------
(***************************************************************************)
(* IInv of SemShmInv is an inductive invariant of SemShm, for any set of   *)
(* readers, any finite set of writers and files of any length; the safety  *)
(* properties follow from it.                                              *)
(*                                                                         *)
(* There is one lemma per part of IInv.  Its hypotheses are the parts it   *)
(* needs before the step, its cases the actions; actions that the same     *)
(* facts settle share a case.  Parts that relate one writer v and one      *)
(* reader u are proved for a fixed v and u.  StepInv puts the lemmas       *)
(* together; the theorems are at the end of the module.                    *)
(***************************************************************************)
EXTENDS SemShmInv, FiniteSetTheorems, TLAPS

(* Every process stays at a step of its own program.                         *)
LEMMA StepTypeStep ==
  ASSUME StepType, [Next]_vars
  PROVE  StepType'
<1> USE ProcsAssumption DEF Procs, WriterSteps, ReaderSteps, StepType, Goto, data
<1>1. ASSUME NEW w \in Writers, WriterStep(w) \/ WReadError(w)
      PROVE  StepType'
  <2>1. CASE \/ WEnter(w) \/ WPairWait(w) \/ WAnnounce(w) \/ WMeet(w)
             \/ WTakeMemory(w)
        BY <2>1 DEF WEnter, WPairWait, WAnnounce, WMeet, WTakeMemory
  <2>2. CASE WSetPrint(w)  BY <2>2 DEF WSetPrint, SetVal
  <2>3. CASE \/ WAlone(w) \/ WRead(w) \/ WReadEOF(w) \/ WCopyBegin(w) \/ WCopyEnd(w)
        BY <2>3 DEF WAlone, WRead, WReadEOF, WCopyBegin, WCopyEnd
  <2>4. CASE \/ WPostPrint(w) \/ WFinish(w) \/ WLeave(w) \/ WReadError(w)
        BY <2>4 DEF WPostPrint, WFinish, WLeave, WReadError
  <2> QED  BY <1>1, <2>1, <2>2, <2>3, <2>4 DEF WriterStep
<1>2. ASSUME NEW r \in Readers, ReaderStep(r) \/ RWriteError(r)
      PROVE  StepType'
  <2>1. CASE \/ REnter(r) \/ RPairWait(r) \/ RAnnounce(r) \/ RMeet(r) \/ RTakePrint(r)
        BY <2>1 DEF REnter, RPairWait, RAnnounce, RMeet, RTakePrint
  <2>2. CASE RSetMemory(r)  BY <2>2 DEF RSetMemory, SetVal
  <2>3. CASE \/ RStop(r) \/ RCopy(r) \/ RPostMemory(r) \/ RLeave(r) \/ RWriteError(r)
        BY <2>3 DEF RStop, RCopy, RPostMemory, RLeave, RWriteError
  <2>4. CASE RWrite(r)  BY <2>4 DEF RWrite
  <2> QED  BY <1>2, <2>1, <2>2, <2>3, <2>4 DEF ReaderStep
<1>3. ASSUME NEW p \in Procs, Exit(p) \/ Crash(p) \/ SemopFails(p)
      PROVE  StepType'
  <2>1. CASE Exit(p)  BY <2>1 DEF Exit, Undo, NoAdj
  <2>2. CASE Crash(p)  BY <2>2 DEF Crash, Undo, NoAdj
  <2>3. CASE SemopFails(p)  BY <2>3 DEF SemopFails
  <2> QED  BY <1>3, <2>1, <2>2, <2>3
<1>4. CASE RemoveAll  BY <1>4 DEF RemoveAll
<1>5. CASE UNCHANGED vars  BY <1>5 DEF vars
<1> QED  BY <1>1, <1>2, <1>3, <1>4, <1>5 DEF Next, Orderly, Failure

(* Semaphore values stay natural numbers, adjustments integers.              *)
LEMMA SemTypeStep ==
  ASSUME TypeOK, [Next]_vars
  PROVE  sem' \in [Sems -> Nat] /\ semadj' \in [Procs -> [Sems -> Int]]
<1> USE ProcsAssumption DEF Procs, Sems, Goto, data, TypeOK
<1>1. ASSUME NEW w \in Writers, WriterStep(w) \/ WReadError(w)
      PROVE  sem' \in [Sems -> Nat] /\ semadj' \in [Procs -> [Sems -> Int]]
  <2>1. CASE \/ WEnter(w) \/ WPairWait(w) \/ WAnnounce(w) \/ WMeet(w)
             \/ WTakeMemory(w)
        BY <2>1 DEF WEnter, WPairWait, WAnnounce, WMeet, WTakeMemory
  <2>2. CASE WSetPrint(w)  BY <2>2 DEF WSetPrint, SetVal
  <2>3. CASE \/ WAlone(w) \/ WRead(w) \/ WReadEOF(w) \/ WCopyBegin(w) \/ WCopyEnd(w)
        BY <2>3 DEF WAlone, WRead, WReadEOF, WCopyBegin, WCopyEnd
  <2>4. CASE \/ WPostPrint(w) \/ WFinish(w) \/ WLeave(w) \/ WReadError(w)
        BY <2>4 DEF WPostPrint, WFinish, WLeave, WReadError
  <2> QED  BY <1>1, <2>1, <2>2, <2>3, <2>4 DEF WriterStep
<1>2. ASSUME NEW r \in Readers, ReaderStep(r) \/ RWriteError(r)
      PROVE  sem' \in [Sems -> Nat] /\ semadj' \in [Procs -> [Sems -> Int]]
  <2>1. CASE \/ REnter(r) \/ RPairWait(r) \/ RAnnounce(r) \/ RMeet(r) \/ RTakePrint(r)
        BY <2>1 DEF REnter, RPairWait, RAnnounce, RMeet, RTakePrint
  <2>2. CASE RSetMemory(r)  BY <2>2 DEF RSetMemory, SetVal
  <2>3. CASE \/ RStop(r) \/ RCopy(r) \/ RPostMemory(r) \/ RLeave(r) \/ RWriteError(r)
        BY <2>3 DEF RStop, RCopy, RPostMemory, RLeave, RWriteError
  <2>4. CASE RWrite(r)  BY <2>4 DEF RWrite
  <2> QED  BY <1>2, <2>1, <2>2, <2>3, <2>4 DEF ReaderStep
<1>3. ASSUME NEW p \in Procs, Exit(p) \/ Crash(p) \/ SemopFails(p)
      PROVE  sem' \in [Sems -> Nat] /\ semadj' \in [Procs -> [Sems -> Int]]
  <2>1. CASE Exit(p)  BY <2>1 DEF Exit, Undo, NoAdj
  <2>2. CASE Crash(p)  BY <2>2 DEF Crash, Undo, NoAdj
  <2>3. CASE SemopFails(p)  BY <2>3 DEF SemopFails
  <2> QED  BY <1>3, <2>1, <2>2, <2>3
<1>4. CASE RemoveAll  BY <1>4 DEF RemoveAll
<1>5. CASE UNCHANGED vars  BY <1>5 DEF vars
<1> QED  BY <1>1, <1>2, <1>3, <1>4, <1>5 DEF Next, Orderly, Failure

(* The data keep their types: a writer that copies a buffer has read one.    *)
LEMMA DataTypeStep ==
  ASSUME StepType, DataType, WriterData, [Next]_vars
  PROVE  DataType'
<1> USE ProcsAssumption, MaxLenAssumption DEF Procs, WriterSteps, ReaderSteps,
      StepType, Goto, data, DataType, Chunks
<1>1. ASSUME NEW w \in Writers, WriterStep(w) \/ WReadError(w)
      PROVE  DataType'
  <2>1. CASE \/ WEnter(w) \/ WPairWait(w) \/ WAnnounce(w) \/ WMeet(w)
             \/ WTakeMemory(w)
        BY <2>1 DEF WEnter, WPairWait, WAnnounce, WMeet, WTakeMemory
  <2>2. CASE WSetPrint(w)  BY <2>2 DEF WSetPrint, SetVal
  <2>3. CASE \/ WAlone(w) \/ WRead(w) \/ WReadEOF(w) \/ WCopyBegin(w) \/ WPostPrint(w)
        BY <2>3 DEF WAlone, WRead, WReadEOF, WCopyBegin, WPostPrint
  <2>4. CASE WCopyEnd(w)  BY <2>4 DEF WCopyEnd, WriterData, Kept
  <2>5. CASE \/ WFinish(w) \/ WLeave(w) \/ WReadError(w)
        BY <2>5 DEF WFinish, WLeave, WReadError
  <2> QED  BY <1>1, <2>1, <2>2, <2>3, <2>4, <2>5 DEF WriterStep
<1>2. ASSUME NEW r \in Readers, ReaderStep(r) \/ RWriteError(r)
      PROVE  DataType'
  <2>1. CASE \/ REnter(r) \/ RPairWait(r) \/ RAnnounce(r) \/ RMeet(r) \/ RTakePrint(r)
        BY <2>1 DEF REnter, RPairWait, RAnnounce, RMeet, RTakePrint
  <2>2. CASE RSetMemory(r)  BY <2>2 DEF RSetMemory, SetVal
  <2>3. CASE \/ RStop(r) \/ RCopy(r) \/ RPostMemory(r) \/ RLeave(r) \/ RWriteError(r)
        BY <2>3 DEF RStop, RCopy, RPostMemory, RLeave, RWriteError
  <2>4. CASE RWrite(r)  BY <2>4 DEF RWrite
  <2> QED  BY <1>2, <2>1, <2>2, <2>3, <2>4 DEF ReaderStep
<1>3. ASSUME NEW p \in Procs, Exit(p) \/ Crash(p) \/ SemopFails(p)
      PROVE  DataType'
  <2>1. CASE Exit(p)  BY <2>1 DEF Exit, Undo, NoAdj
  <2>2. CASE Crash(p)  BY <2>2 DEF Crash, Undo, NoAdj
  <2>3. CASE SemopFails(p)  BY <2>3 DEF SemopFails
  <2> QED  BY <1>3, <2>1, <2>2, <2>3
<1>4. CASE RemoveAll  BY <1>4 DEF RemoveAll
<1>5. CASE UNCHANGED vars  BY <1>5 DEF vars
<1> QED  BY <1>1, <1>2, <1>3, <1>4, <1>5 DEF Next, Orderly, Failure

(* A second writer (reader) cannot pass its first semop().                   *)
LEMMA OneOfEachStep ==
  ASSUME StepType, OneOfEach, (~removed => ExistInv), [Next]_vars
  PROVE  OneOfEach'
<1> USE ProcsAssumption DEF Procs, WriterSteps, ReaderSteps, StepType, Goto, data,
      OneOfEach, ExistInv, Present, Held, Once, Twice, PairSteps
<1>1. ASSUME NEW w \in Writers, WriterStep(w) \/ WReadError(w)
      PROVE  OneOfEach'
  <2>1. CASE \/ WEnter(w) \/ WPairWait(w) \/ WAnnounce(w) \/ WMeet(w)
             \/ WTakeMemory(w)
        BY <2>1 DEF WEnter, WPairWait, WAnnounce, WMeet, WTakeMemory
  <2>2. CASE WSetPrint(w)  BY <2>2 DEF WSetPrint, SetVal
  <2>3. CASE \/ WAlone(w) \/ WRead(w) \/ WReadEOF(w) \/ WCopyBegin(w) \/ WCopyEnd(w)
        BY <2>3 DEF WAlone, WRead, WReadEOF, WCopyBegin, WCopyEnd
  <2>4. CASE \/ WPostPrint(w) \/ WFinish(w) \/ WLeave(w) \/ WReadError(w)
        BY <2>4 DEF WPostPrint, WFinish, WLeave, WReadError
  <2> QED  BY <1>1, <2>1, <2>2, <2>3, <2>4 DEF WriterStep
<1>2. ASSUME NEW r \in Readers, ReaderStep(r) \/ RWriteError(r)
      PROVE  OneOfEach'
  <2>1. CASE \/ REnter(r) \/ RPairWait(r) \/ RAnnounce(r) \/ RMeet(r) \/ RTakePrint(r)
        BY <2>1 DEF REnter, RPairWait, RAnnounce, RMeet, RTakePrint
  <2>2. CASE RSetMemory(r)  BY <2>2 DEF RSetMemory, SetVal
  <2>3. CASE \/ RStop(r) \/ RCopy(r) \/ RPostMemory(r) \/ RLeave(r) \/ RWriteError(r)
        BY <2>3 DEF RStop, RCopy, RPostMemory, RLeave, RWriteError
  <2>4. CASE RWrite(r)  BY <2>4 DEF RWrite
  <2> QED  BY <1>2, <2>1, <2>2, <2>3, <2>4 DEF ReaderStep
<1>3. ASSUME NEW p \in Procs, Exit(p) \/ Crash(p) \/ SemopFails(p)
      PROVE  OneOfEach'
  <2>1. CASE Exit(p)  BY <2>1 DEF Exit, Undo, NoAdj
  <2>2. CASE Crash(p)  BY <2>2 DEF Crash, Undo, NoAdj
  <2>3. CASE SemopFails(p)  BY <2>3 DEF SemopFails
  <2> QED  BY <1>3, <2>1, <2>2, <2>3
<1>4. CASE RemoveAll  BY <1>4 DEF RemoveAll
<1>5. CASE UNCHANGED vars  BY <1>5 DEF vars
<1> QED  BY <1>1, <1>2, <1>3, <1>4, <1>5 DEF Next, Orderly, Failure

(* The right to the segment is taken only when the other side does not have  *)
(* it.                                                                       *)
LEMMA OneTokenStep ==
  ASSUME TypeOK, OneToken, OneOfEach, (~removed => PairInv), (~removed => TokenSum),
         [Next]_vars
  PROVE  OneToken'
<1> USE ProcsAssumption DEF Procs, WriterSteps, ReaderSteps, StepType, Goto, data,
      TypeOK, OneToken, OneOfEach, PairInv, Sems, TokenSum, OneRight, Token, HasToken,
      TokenSteps, InPair, Present, Held, Once, Twice, PairSteps
<1>1. ASSUME NEW w \in Writers, WriterStep(w) \/ WReadError(w)
      PROVE  OneToken'
  <2>1. CASE \/ WEnter(w) \/ WPairWait(w) \/ WAnnounce(w) \/ WMeet(w)
             \/ WTakeMemory(w)
        BY <2>1 DEF WEnter, WPairWait, WAnnounce, WMeet, WTakeMemory
  <2>2. CASE WSetPrint(w)  BY <2>2 DEF WSetPrint, SetVal
  <2>3. CASE \/ WAlone(w) \/ WRead(w) \/ WReadEOF(w) \/ WCopyBegin(w) \/ WCopyEnd(w)
        BY <2>3 DEF WAlone, WRead, WReadEOF, WCopyBegin, WCopyEnd
  <2>4. CASE \/ WPostPrint(w) \/ WFinish(w) \/ WLeave(w) \/ WReadError(w)
        BY <2>4 DEF WPostPrint, WFinish, WLeave, WReadError
  <2> QED  BY <1>1, <2>1, <2>2, <2>3, <2>4 DEF WriterStep
<1>2. ASSUME NEW r \in Readers, ReaderStep(r) \/ RWriteError(r)
      PROVE  OneToken'
  <2>1. CASE \/ REnter(r) \/ RPairWait(r) \/ RAnnounce(r) \/ RMeet(r) \/ RTakePrint(r)
        BY <2>1 DEF REnter, RPairWait, RAnnounce, RMeet, RTakePrint
  <2>2. CASE RSetMemory(r)  BY <2>2 DEF RSetMemory, SetVal
  <2>3. CASE \/ RStop(r) \/ RCopy(r) \/ RPostMemory(r) \/ RLeave(r) \/ RWriteError(r)
        BY <2>3 DEF RStop, RCopy, RPostMemory, RLeave, RWriteError
  <2>4. CASE RWrite(r)  BY <2>4 DEF RWrite
  <2> QED  BY <1>2, <2>1, <2>2, <2>3, <2>4 DEF ReaderStep
<1>3. ASSUME NEW p \in Procs, Exit(p) \/ Crash(p) \/ SemopFails(p)
      PROVE  OneToken'
  <2>1. CASE Exit(p)  BY <2>1 DEF Exit, Undo, NoAdj
  <2>2. CASE Crash(p)  BY <2>2 DEF Crash, Undo, NoAdj
  <2>3. CASE SemopFails(p)  BY <2>3 DEF SemopFails
  <2> QED  BY <1>3, <2>1, <2>2, <2>3
<1>4. CASE RemoveAll  BY <1>4 DEF RemoveAll
<1>5. CASE UNCHANGED vars  BY <1>5 DEF vars
<1> QED  BY <1>1, <1>2, <1>3, <1>4, <1>5 DEF Next, Orderly, Failure

(* Only a writer at its end holds FINISH up.                                 *)
LEMMA FinishAdjStep ==
  ASSUME TypeOK, FinishAdj, [Next]_vars
  PROVE  FinishAdj'
<1> USE ProcsAssumption DEF Procs, WriterSteps, ReaderSteps, StepType, Goto, data,
      TypeOK, FinishAdj, Finished, Sems
<1>1. ASSUME NEW w \in Writers, WriterStep(w) \/ WReadError(w)
      PROVE  FinishAdj'
  <2>1. CASE \/ WEnter(w) \/ WPairWait(w) \/ WAnnounce(w) \/ WMeet(w)
             \/ WTakeMemory(w)
        BY <2>1 DEF WEnter, WPairWait, WAnnounce, WMeet, WTakeMemory
  <2>2. CASE WSetPrint(w)  BY <2>2 DEF WSetPrint, SetVal
  <2>3. CASE \/ WAlone(w) \/ WRead(w) \/ WReadEOF(w) \/ WCopyBegin(w) \/ WCopyEnd(w)
        BY <2>3 DEF WAlone, WRead, WReadEOF, WCopyBegin, WCopyEnd
  <2>4. CASE \/ WPostPrint(w) \/ WFinish(w) \/ WLeave(w) \/ WReadError(w)
        BY <2>4 DEF WPostPrint, WFinish, WLeave, WReadError
  <2> QED  BY <1>1, <2>1, <2>2, <2>3, <2>4 DEF WriterStep
<1>2. ASSUME NEW r \in Readers, ReaderStep(r) \/ RWriteError(r)
      PROVE  FinishAdj'
  <2>1. CASE \/ REnter(r) \/ RPairWait(r) \/ RAnnounce(r) \/ RMeet(r) \/ RTakePrint(r)
        BY <2>1 DEF REnter, RPairWait, RAnnounce, RMeet, RTakePrint
  <2>2. CASE RSetMemory(r)  BY <2>2 DEF RSetMemory, SetVal
  <2>3. CASE \/ RStop(r) \/ RCopy(r) \/ RPostMemory(r) \/ RLeave(r) \/ RWriteError(r)
        BY <2>3 DEF RStop, RCopy, RPostMemory, RLeave, RWriteError
  <2>4. CASE RWrite(r)  BY <2>4 DEF RWrite
  <2> QED  BY <1>2, <2>1, <2>2, <2>3, <2>4 DEF ReaderStep
<1>3. ASSUME NEW p \in Procs, Exit(p) \/ Crash(p) \/ SemopFails(p)
      PROVE  FinishAdj'
  <2>1. CASE Exit(p)  BY <2>1 DEF Exit, Undo, NoAdj
  <2>2. CASE Crash(p)  BY <2>2 DEF Crash, Undo, NoAdj
  <2>3. CASE SemopFails(p)  BY <2>3 DEF SemopFails
  <2> QED  BY <1>3, <2>1, <2>2, <2>3
<1>4. CASE RemoveAll  BY <1>4 DEF RemoveAll
<1>5. CASE UNCHANGED vars  BY <1>5 DEF vars
<1> QED  BY <1>1, <1>2, <1>3, <1>4, <1>5 DEF Next, Orderly, Failure

(* The adjustments follow the operations.                                    *)
LEMMA AdjInvStep ==
  ASSUME TypeOK, AdjInv, FinishAdj, ~removed', [Next]_vars
  PROVE  AdjInv'
<1> USE ProcsAssumption DEF Procs, WriterSteps, ReaderSteps, StepType, Goto, data,
      TypeOK, AdjInv, Sems, Held, Once, Twice, PairSteps, InPair
<1>1. ASSUME NEW w \in Writers, WriterStep(w) \/ WReadError(w)
      PROVE  AdjInv'
  <2>1. CASE \/ WEnter(w) \/ WPairWait(w) \/ WAnnounce(w) \/ WMeet(w)
             \/ WTakeMemory(w)
        BY <2>1 DEF WEnter, WPairWait, WAnnounce, WMeet, WTakeMemory
  <2>2. CASE WSetPrint(w)  BY <2>2 DEF WSetPrint, SetVal
  <2>3. CASE \/ WAlone(w) \/ WRead(w) \/ WReadEOF(w) \/ WCopyBegin(w) \/ WCopyEnd(w)
        BY <2>3 DEF WAlone, WRead, WReadEOF, WCopyBegin, WCopyEnd
  <2>4. CASE \/ WPostPrint(w) \/ WFinish(w) \/ WLeave(w) \/ WReadError(w)
        BY <2>4 DEF WPostPrint, WFinish, WLeave, WReadError
  <2> QED  BY <1>1, <2>1, <2>2, <2>3, <2>4 DEF WriterStep
<1>2. ASSUME NEW r \in Readers, ReaderStep(r) \/ RWriteError(r)
      PROVE  AdjInv'
  <2>1. CASE \/ REnter(r) \/ RPairWait(r) \/ RAnnounce(r) \/ RMeet(r) \/ RTakePrint(r)
        BY <2>1 DEF REnter, RPairWait, RAnnounce, RMeet, RTakePrint
  <2>2. CASE RSetMemory(r)  BY <2>2 DEF RSetMemory, SetVal
  <2>3. CASE \/ RStop(r) \/ RCopy(r) \/ RPostMemory(r) \/ RLeave(r) \/ RWriteError(r)
        BY <2>3 DEF RStop, RCopy, RPostMemory, RLeave, RWriteError
  <2>4. CASE RWrite(r)  BY <2>4 DEF RWrite
  <2> QED  BY <1>2, <2>1, <2>2, <2>3, <2>4 DEF ReaderStep
<1>3. ASSUME NEW p \in Procs, Exit(p) \/ Crash(p) \/ SemopFails(p)
      PROVE  AdjInv'
  <2>1. CASE Exit(p)  BY <2>1 DEF Exit, Undo, NoAdj
  <2>2. CASE Crash(p)  BY <2>2 DEF Crash, Undo, NoAdj
  <2>3. CASE SemopFails(p)  BY <2>3 DEF SemopFails
  <2> QED  BY <1>3, <2>1, <2>2, <2>3
<1>4. CASE RemoveAll  BY <1>4 DEF RemoveAll
<1>5. CASE UNCHANGED vars  BY <1>5 DEF vars
<1> QED  BY <1>1, <1>2, <1>3, <1>4, <1>5 DEF Next, Orderly, Failure

(* WEXIST and REXIST follow the one writer and the one reader.               *)
LEMMA ExistInvStep ==
  ASSUME TypeOK, OneOfEach, ExistInv, AdjInv, ~removed', [Next]_vars
  PROVE  ExistInv'
<1> USE ProcsAssumption DEF Procs, WriterSteps, ReaderSteps, StepType, Goto, data,
      TypeOK, OneOfEach, AdjInv, ExistInv, Sems, InPair, Present, Held, Once, Twice,
      PairSteps
<1>1. ASSUME NEW w \in Writers, WriterStep(w) \/ WReadError(w)
      PROVE  ExistInv'
  <2>1. CASE \/ WEnter(w) \/ WPairWait(w) \/ WAnnounce(w) \/ WMeet(w)
             \/ WTakeMemory(w)
        BY <2>1 DEF WEnter, WPairWait, WAnnounce, WMeet, WTakeMemory
  <2>2. CASE WSetPrint(w)  BY <2>2 DEF WSetPrint, SetVal
  <2>3. CASE \/ WAlone(w) \/ WRead(w) \/ WReadEOF(w) \/ WCopyBegin(w) \/ WCopyEnd(w)
        BY <2>3 DEF WAlone, WRead, WReadEOF, WCopyBegin, WCopyEnd
  <2>4. CASE \/ WPostPrint(w) \/ WFinish(w) \/ WLeave(w) \/ WReadError(w)
        BY <2>4 DEF WPostPrint, WFinish, WLeave, WReadError
  <2> QED  BY <1>1, <2>1, <2>2, <2>3, <2>4 DEF WriterStep
<1>2. ASSUME NEW r \in Readers, ReaderStep(r) \/ RWriteError(r)
      PROVE  ExistInv'
  <2>1. CASE \/ REnter(r) \/ RPairWait(r) \/ RAnnounce(r) \/ RMeet(r) \/ RTakePrint(r)
        BY <2>1 DEF REnter, RPairWait, RAnnounce, RMeet, RTakePrint
  <2>2. CASE RSetMemory(r)  BY <2>2 DEF RSetMemory, SetVal
  <2>3. CASE \/ RStop(r) \/ RCopy(r) \/ RPostMemory(r) \/ RLeave(r) \/ RWriteError(r)
        BY <2>3 DEF RStop, RCopy, RPostMemory, RLeave, RWriteError
  <2>4. CASE RWrite(r)  BY <2>4 DEF RWrite
  <2> QED  BY <1>2, <2>1, <2>2, <2>3, <2>4 DEF ReaderStep
<1>3. ASSUME NEW p \in Procs, Exit(p) \/ Crash(p) \/ SemopFails(p)
      PROVE  ExistInv'
  <2>1. CASE Exit(p)  BY <2>1 DEF Exit, Undo, NoAdj
  <2>2. CASE Crash(p)  BY <2>2 DEF Crash, Undo, NoAdj
  <2>3. CASE SemopFails(p)  BY <2>3 DEF SemopFails
  <2> QED  BY <1>3, <2>1, <2>2, <2>3
<1>4. CASE RemoveAll  BY <1>4 DEF RemoveAll
<1>5. CASE UNCHANGED vars  BY <1>5 DEF vars
<1> QED  BY <1>1, <1>2, <1>3, <1>4, <1>5 DEF Next, Orderly, Failure

(* PAIR follows the sides of the session.                                    *)
LEMMA PairInvStep ==
  ASSUME TypeOK, OneOfEach, PairInv, AdjInv, ~removed', [Next]_vars
  PROVE  PairInv'
<1> USE ProcsAssumption DEF Procs, WriterSteps, ReaderSteps, StepType, Goto, data,
      TypeOK, OneOfEach, AdjInv, PairInv, Sems, InPair, Present, Held, Once, Twice,
      PairSteps
<1>1. ASSUME NEW w \in Writers, WriterStep(w) \/ WReadError(w)
      PROVE  PairInv'
  <2>1. CASE \/ WEnter(w) \/ WPairWait(w) \/ WAnnounce(w) \/ WMeet(w)
             \/ WTakeMemory(w)
        BY <2>1 DEF WEnter, WPairWait, WAnnounce, WMeet, WTakeMemory
  <2>2. CASE WSetPrint(w)  BY <2>2 DEF WSetPrint, SetVal
  <2>3. CASE \/ WAlone(w) \/ WRead(w) \/ WReadEOF(w) \/ WCopyBegin(w) \/ WCopyEnd(w)
        BY <2>3 DEF WAlone, WRead, WReadEOF, WCopyBegin, WCopyEnd
  <2>4. CASE \/ WPostPrint(w) \/ WFinish(w) \/ WLeave(w) \/ WReadError(w)
        BY <2>4 DEF WPostPrint, WFinish, WLeave, WReadError
  <2> QED  BY <1>1, <2>1, <2>2, <2>3, <2>4 DEF WriterStep
<1>2. ASSUME NEW r \in Readers, ReaderStep(r) \/ RWriteError(r)
      PROVE  PairInv'
  <2>1. CASE \/ REnter(r) \/ RPairWait(r) \/ RAnnounce(r) \/ RMeet(r) \/ RTakePrint(r)
        BY <2>1 DEF REnter, RPairWait, RAnnounce, RMeet, RTakePrint
  <2>2. CASE RSetMemory(r)  BY <2>2 DEF RSetMemory, SetVal
  <2>3. CASE \/ RStop(r) \/ RCopy(r) \/ RPostMemory(r) \/ RLeave(r) \/ RWriteError(r)
        BY <2>3 DEF RStop, RCopy, RPostMemory, RLeave, RWriteError
  <2>4. CASE RWrite(r)  BY <2>4 DEF RWrite
  <2> QED  BY <1>2, <2>1, <2>2, <2>3, <2>4 DEF ReaderStep
<1>3. ASSUME NEW p \in Procs, Exit(p) \/ Crash(p) \/ SemopFails(p)
      PROVE  PairInv'
  <2>1. CASE Exit(p)  BY <2>1 DEF Exit, Undo, NoAdj
  <2>2. CASE Crash(p)  BY <2>2 DEF Crash, Undo, NoAdj
  <2>3. CASE SemopFails(p)  BY <2>3 DEF SemopFails
  <2> QED  BY <1>3, <2>1, <2>2, <2>3
<1>4. CASE RemoveAll  BY <1>4 DEF RemoveAll
<1>5. CASE UNCHANGED vars  BY <1>5 DEF vars
<1> QED  BY <1>1, <1>2, <1>3, <1>4, <1>5 DEF Next, Orderly, Failure

(* No earlier process can add to PRINT or MEMORY once they are set.          *)
LEMMA SetValInvStep ==
  ASSUME TypeOK, OneOfEach, SetValInv, AdjInv, ~removed', [Next]_vars
  PROVE  SetValInv'
<1> USE ProcsAssumption DEF Procs, WriterSteps, ReaderSteps, StepType, Goto, data,
      TypeOK, OneOfEach, AdjInv, SetValInv, Sems, Present, Once, Twice, PairSteps
<1>1. ASSUME NEW w \in Writers, WriterStep(w) \/ WReadError(w)
      PROVE  SetValInv'
  <2>1. CASE \/ WEnter(w) \/ WPairWait(w) \/ WAnnounce(w) \/ WMeet(w)
             \/ WTakeMemory(w)
        BY <2>1 DEF WEnter, WPairWait, WAnnounce, WMeet, WTakeMemory
  <2>2. CASE WSetPrint(w)  BY <2>2 DEF WSetPrint, SetVal
  <2>3. CASE \/ WAlone(w) \/ WRead(w) \/ WReadEOF(w) \/ WCopyBegin(w) \/ WCopyEnd(w)
        BY <2>3 DEF WAlone, WRead, WReadEOF, WCopyBegin, WCopyEnd
  <2>4. CASE \/ WPostPrint(w) \/ WFinish(w) \/ WLeave(w) \/ WReadError(w)
        BY <2>4 DEF WPostPrint, WFinish, WLeave, WReadError
  <2> QED  BY <1>1, <2>1, <2>2, <2>3, <2>4 DEF WriterStep
<1>2. ASSUME NEW r \in Readers, ReaderStep(r) \/ RWriteError(r)
      PROVE  SetValInv'
  <2>1. CASE \/ REnter(r) \/ RPairWait(r) \/ RAnnounce(r) \/ RMeet(r) \/ RTakePrint(r)
        BY <2>1 DEF REnter, RPairWait, RAnnounce, RMeet, RTakePrint
  <2>2. CASE RSetMemory(r)  BY <2>2 DEF RSetMemory, SetVal
  <2>3. CASE \/ RStop(r) \/ RCopy(r) \/ RPostMemory(r) \/ RLeave(r) \/ RWriteError(r)
        BY <2>3 DEF RStop, RCopy, RPostMemory, RLeave, RWriteError
  <2>4. CASE RWrite(r)
    <3>1. pc[r] = "rwrite" /\ pc' = [pc EXCEPT ![r] = "rpost"] /\ semadj' = semadj /\ sem' = sem
          BY <2>4 DEF RWrite
    <3> QED  BY <3>1
  <2> QED  BY <1>2, <2>1, <2>2, <2>3, <2>4 DEF ReaderStep
<1>3. ASSUME NEW p \in Procs, Exit(p) \/ Crash(p) \/ SemopFails(p)
      PROVE  SetValInv'
  <2>1. CASE Exit(p)  BY <2>1 DEF Exit, Undo, NoAdj
  <2>2. CASE Crash(p)  BY <2>2 DEF Crash, Undo, NoAdj
  <2>3. CASE SemopFails(p)  BY <2>3 DEF SemopFails
  <2> QED  BY <1>3, <2>1, <2>2, <2>3
<1>4. CASE RemoveAll  BY <1>4 DEF RemoveAll
<1>5. CASE UNCHANGED vars  BY <1>5 DEF vars
<1> QED  BY <1>1, <1>2, <1>3, <1>4, <1>5 DEF Next, Orderly, Failure

(* PRINT and MEMORY keep the values they were set to until both sides have   *)
(* met.                                                                      *)
LEMMA SetInvStep ==
  ASSUME TypeOK, OneOfEach, SetInv, SetValInv, MeetInv, PairInv, AdjInv, ~removed',
         [Next]_vars
  PROVE  SetInv'
<1> USE ProcsAssumption DEF Procs, WriterSteps, ReaderSteps, StepType, Goto, data,
      Sems, TypeOK, SetInv, OneOfEach, Present, Once, Twice, PairSteps
<1>1. ASSUME NEW w \in Writers, WriterStep(w) \/ WReadError(w)
      PROVE  SetInv'
  <2>1. CASE \/ WEnter(w) \/ WPairWait(w) \/ WAnnounce(w) \/ WMeet(w) \/ WAlone(w)
        BY <2>1 DEF WEnter, WPairWait, WAnnounce, WMeet, WAlone
  <2>2. CASE WSetPrint(w)  BY <2>2 DEF WSetPrint, SetVal
  <2>3. CASE WTakeMemory(w)  BY <2>3 DEF WTakeMemory, PairInv, InPair
  <2>4. CASE \/ WRead(w) \/ WReadEOF(w) \/ WCopyBegin(w) \/ WCopyEnd(w)
             \/ WPostPrint(w)
        BY <2>4 DEF WRead, WReadEOF, WCopyBegin, WCopyEnd, WPostPrint
  <2>5. CASE \/ WFinish(w) \/ WLeave(w) \/ WReadError(w)
        BY <2>5 DEF WFinish, WLeave, WReadError
  <2> QED  BY <1>1, <2>1, <2>2, <2>3, <2>4, <2>5 DEF WriterStep
<1>2. ASSUME NEW r \in Readers, ReaderStep(r) \/ RWriteError(r)
      PROVE  SetInv'
  <2>1. CASE \/ REnter(r) \/ RPairWait(r) \/ RAnnounce(r) \/ RMeet(r) \/ RStop(r)
        BY <2>1 DEF REnter, RPairWait, RAnnounce, RMeet, RStop
  <2>2. CASE RSetMemory(r)  BY <2>2 DEF RSetMemory, SetVal
  <2>3. CASE RTakePrint(r)  BY <2>3 DEF RTakePrint, PairInv, InPair
  <2>4. CASE \/ RCopy(r) \/ RPostMemory(r) \/ RLeave(r) \/ RWriteError(r)
        BY <2>4 DEF RCopy, RPostMemory, RLeave, RWriteError
  <2>5. CASE RWrite(r)
    <3>1. pc[r] = "rwrite" /\ pc' = [pc EXCEPT ![r] = "rpost"] /\ semadj' = semadj /\ sem' = sem
          BY <2>5 DEF RWrite
    <3> QED  BY <3>1
  <2> QED  BY <1>2, <2>1, <2>2, <2>3, <2>4, <2>5 DEF ReaderStep
<1>3. ASSUME NEW p \in Procs, Exit(p) \/ Crash(p) \/ SemopFails(p)
      PROVE  SetInv'
  <2>1. CASE Exit(p)  BY <2>1 DEF Exit, Undo, NoAdj, AdjInv, SetValInv
  <2>2. CASE Crash(p)  BY <2>2 DEF Crash, Undo, NoAdj, AdjInv, SetValInv
  <2>3. CASE SemopFails(p)  BY <2>3 DEF SemopFails
  <2> QED  BY <1>3, <2>1, <2>2, <2>3
<1>4. CASE RemoveAll  BY <1>4 DEF RemoveAll
<1>5. CASE UNCHANGED vars  BY <1>5 DEF vars
<1> QED  BY <1>1, <1>2, <1>3, <1>4, <1>5 DEF Next, Orderly, Failure

(* What PAIR tells of the two sides. *)
LEMMA PairCount ==
  ASSUME PairInv
  PROVE  /\ sem["PAIR"] = 0 => /\ \A w \in Writers : ~InPair(w)
                              /\ \A r \in Readers : ~InPair(r)
         /\ sem["PAIR"] >= 2 => /\ \E w \in Writers : InPair(w)
                               /\ \E r \in Readers : InPair(r)
BY DEF PairInv

(* A process that sees 2 in WEXIST (REXIST) sees a partner that has announced itself. *)
LEMMA Announced ==
  ASSUME ExistInv
  PROVE  /\ sem["WEXIST"] >= 2 => \A w \in Writers : pc[w] \notin Prepared
         /\ sem["REXIST"] >= 2 => \A r \in Readers : pc[r] \notin Prepared
BY DEF ExistInv, Prepared, Present, Held, Once

(* When PAIR is below 2, the partner of a process counted in PAIR is not. *)
LEMMA PairBoth ==
  ASSUME PairInv, NEW w \in Writers, NEW r \in Readers, InPair(w), sem["PAIR"] < 2
  PROVE  ~InPair(r)
BY DEF PairInv

(* When p dies, PRINT and MEMORY stay what the others have made them. *)
LEMMA UndoKeeps ==
  ASSUME NEW p \in Procs, TypeOK, AdjInv, SetValInv, Undo(p), ~removed
  PROVE  /\ \A v \in Writers : v # p /\ pc[v] \in Twice => sem'["PRINT"] = sem["PRINT"]
         /\ \A u \in Readers : u # p /\ pc[u] \in Twice => sem'["MEMORY"] = sem["MEMORY"]
         /\ \A q \in Procs : q # p => semadj'[q] = semadj[q]
<1>1. ASSUME NEW v \in Writers, v # p, pc[v] \in Twice  PROVE semadj[p]["PRINT"] = 0
      BY <1>1 DEF Procs, AdjInv, SetValInv
<1>2. ASSUME NEW u \in Readers, u # p, pc[u] \in Twice  PROVE semadj[p]["MEMORY"] = 0
      BY <1>2 DEF Procs, AdjInv, SetValInv
<1> QED  BY <1>1, <1>2 DEF TypeOK, Undo, Sems

(* One side is in the session before the other: what it can have done until  *)
(* the other comes.                                                          *)
LEMMA MeetStep ==
  ASSUME NEW v \in Writers, NEW u \in Readers, TypeOK, DataType, OneOfEach, ExistInv,
         PairInv, AdjInv, SetInv, SetValInv, WriterData, EarlyData, FinishAdj, Meet(v,
         u), ~removed', [Next]_vars
  PROVE  Meet(v, u)'
<1> USE ProcsAssumption DEF Procs, WriterSteps, ReaderSteps, StepType, Goto, data,
      Sems, TypeOK, Meet, Prepared, Finished, Early, Present, Once, Twice, PairSteps,
      InPair
<1>1. ASSUME NEW w \in Writers, WriterStep(w) \/ WReadError(w)
      PROVE  Meet(v, u)'
  <2>1. CASE \/ WEnter(w) \/ WAlone(w)
        BY <2>1 DEF WEnter, WAlone
  <2>2. CASE WPairWait(w)
    <3>1. ~InPair(u)  BY <2>2, PairCount DEF WPairWait
    <3> QED  BY <2>2, <3>1 DEF WPairWait
  <2>3. CASE WSetPrint(w)  BY <2>3 DEF WSetPrint, SetVal, OneOfEach
  <2>4. CASE \/ WAnnounce(w) \/ WRead(w)
        BY <2>4 DEF WAnnounce, WRead, OneOfEach
  <2>5. CASE WMeet(w)
    <3>1. CASE w = v
      <4>1. sem["PRINT"] = 0 /\ pos[v] = 0 /\ ~Finished(v)
            BY <2>5, <3>1 DEF WMeet, SetInv, WriterData, Kept, FinishAdj
      <4>3. sem["REXIST"] >= 2  BY <2>5 DEF WMeet
      <4>2. pc[u] \notin Prepared  BY <4>3, Announced
      <4> QED  BY <2>5, <3>1, <4>1, <4>2 DEF WMeet
    <3>2. CASE w # v
      <4>1. ~Present(v)  BY <2>5, <3>2 DEF WMeet, OneOfEach
      <4> QED  BY <2>5, <3>2, <4>1 DEF WMeet
    <3> QED  BY <3>1, <3>2
  <2>6. CASE WTakeMemory(w)
    <3>1. PICK x \in Readers : InPair(x)  BY <2>6, PairCount DEF WTakeMemory
    <3>2. pc[u] # "meet"  BY <3>1 DEF OneOfEach
    <3> QED  BY <2>6, <3>2 DEF WTakeMemory, OneOfEach
  <2>7. CASE \/ WReadEOF(w) \/ WCopyBegin(w)
        BY <2>7 DEF WReadEOF, WCopyBegin
  <2>8. CASE \/ WCopyEnd(w) \/ WReadError(w)
        BY <2>8 DEF WCopyEnd, WReadError
  <2>9. CASE \/ WPostPrint(w) \/ WFinish(w)
        BY <2>9 DEF WPostPrint, WFinish, OneOfEach
  <2>10. CASE WLeave(w)  BY <2>10 DEF WLeave, OneOfEach
  <2> QED  BY <1>1, <2>1, <2>2, <2>3, <2>4, <2>5, <2>6, <2>7, <2>8, <2>9, <2>10 DEF WriterStep
<1>2. ASSUME NEW r \in Readers, ReaderStep(r) \/ RWriteError(r)
      PROVE  Meet(v, u)'
  <2>1. CASE REnter(r)  BY <2>1 DEF REnter
  <2>2. CASE RPairWait(r)
    <3>1. ~InPair(v)  BY <2>2, PairCount DEF RPairWait
    <3> QED  BY <2>2, <3>1 DEF RPairWait
  <2>3. CASE RSetMemory(r)  BY <2>3 DEF RSetMemory, SetVal, OneOfEach
  <2>4. CASE RAnnounce(r)  BY <2>4 DEF RAnnounce, OneOfEach
  <2>5. CASE RMeet(r)
    <3>1. CASE r = u
      <4>1. sem["MEMORY"] = 1 /\ out[u] = <<>>
            BY <2>5, <3>1 DEF RMeet, SetInv, EarlyData
      <4>3. sem["WEXIST"] >= 2  BY <2>5 DEF RMeet
      <4>2. pc[v] \notin Prepared  BY <4>3, Announced
      <4> QED  BY <2>5, <3>1, <4>1, <4>2 DEF RMeet
    <3>2. CASE r # u
      <4>1. ~Present(u)  BY <2>5, <3>2 DEF RMeet, OneOfEach
      <4> QED  BY <2>5, <3>2, <4>1 DEF RMeet
    <3> QED  BY <3>1, <3>2
  <2>6. CASE RTakePrint(r)
    <3>1. PICK x \in Writers : InPair(x)  BY <2>6, PairCount DEF RTakePrint
    <3>2. pc[v] # "meet"  BY <3>1 DEF OneOfEach
    <3> QED  BY <2>6, <3>2 DEF RTakePrint, OneOfEach
  <2>7. CASE RStop(r)  BY <2>7 DEF RStop
  <2>8. CASE RCopy(r)  BY <2>8 DEF RCopy
  <2>9. CASE RWrite(r)  BY <2>9 DEF RWrite, OneOfEach
  <2>10. CASE RPostMemory(r)  BY <2>10 DEF RPostMemory, OneOfEach
  <2>11. CASE RLeave(r)  BY <2>11 DEF RLeave, OneOfEach
  <2>12. CASE RWriteError(r)  BY <2>12 DEF RWriteError
  <2> QED  BY <1>2, <2>1, <2>2, <2>3, <2>4, <2>5, <2>6, <2>7, <2>8, <2>9, <2>10,
            <2>11, <2>12 DEF ReaderStep
<1>3. ASSUME NEW p \in Procs, Exit(p) \/ Crash(p) \/ SemopFails(p)
      PROVE  Meet(v, u)'
  <2>1. CASE Exit(p)
    <3>1. /\ p # v /\ pc[v] \in Twice => sem'["PRINT"] = sem["PRINT"]
          /\ p # u /\ pc[u] \in Twice => sem'["MEMORY"] = sem["MEMORY"]
          /\ p # v => semadj'[v] = semadj[v]
          BY <2>1, UndoKeeps DEF Exit
    <3> QED  BY <2>1, <3>1 DEF Exit
  <2>2. CASE Crash(p)
    <3>1. /\ p # v /\ pc[v] \in Twice => sem'["PRINT"] = sem["PRINT"]
          /\ p # u /\ pc[u] \in Twice => sem'["MEMORY"] = sem["MEMORY"]
          /\ p # v => semadj'[v] = semadj[v]
          BY <2>2, UndoKeeps DEF Crash
    <3> QED  BY <2>2, <3>1 DEF Crash
  <2>3. CASE SemopFails(p)  BY <2>3 DEF SemopFails
  <2> QED  BY <1>3, <2>1, <2>2, <2>3
<1>4. CASE RemoveAll  BY <1>4 DEF RemoveAll
<1>5. CASE UNCHANGED vars  BY <1>5 DEF vars
<1> QED  BY <1>1, <1>2, <1>3, <1>4, <1>5 DEF Next, Orderly, Failure

(* Within a session the right to the segment moves and is never doubled.     *)
LEMMA OneRightStep ==
  ASSUME NEW v \in Writers, NEW u \in Readers, TypeOK, OneOfEach, AdjInv, SetInv,
         SetValInv, Meet(v, u), OneRight(v, u), ~removed', [Next]_vars
  PROVE  OneRight(v, u)'
<1> USE ProcsAssumption DEF Procs, WriterSteps, ReaderSteps, StepType, Goto, data,
      Sems, TypeOK, OneRight, Token, HasToken, TokenSteps, Present, Once, Twice,
      PairSteps, InPair
<1>1. ASSUME NEW w \in Writers, WriterStep(w) \/ WReadError(w)
      PROVE  OneRight(v, u)'
  <2>1. CASE \/ WEnter(w) \/ WPairWait(w) \/ WAlone(w)
        BY <2>1 DEF WEnter, WPairWait, WAlone
  <2>2. CASE WSetPrint(w)
    <3>1. CASE w = v  BY <2>2, <3>1 DEF WSetPrint, SetVal
    <3>2. CASE w # v
      <4>1. ~InPair(v)  BY <2>2, <3>2 DEF WSetPrint, SetVal, OneOfEach, Present, Once, Twice
      <4> QED  BY <2>2, <3>2, <4>1 DEF WSetPrint, SetVal
    <3> QED  BY <3>1, <3>2
  <2>3. CASE \/ WAnnounce(w) \/ WTakeMemory(w) \/ WRead(w)
    <3>1. CASE w = v  BY <2>3, <3>1 DEF WAnnounce, WTakeMemory, WRead
    <3>2. CASE w # v
      <4>1. ~InPair(v)  BY <2>3, <3>2 DEF WAnnounce, WTakeMemory, WRead, OneOfEach,
            Present, Once, Twice
      <4> QED  BY <2>3, <3>2, <4>1 DEF WAnnounce, WTakeMemory, WRead
    <3> QED  BY <3>1, <3>2
  <2>4. CASE WMeet(w)
    <3>1. CASE w = v /\ InPair(u)
      <4>1. sem["MEMORY"] = 1 /\ sem["PRINT"] = 0 /\ pc[u] \in {"loop", "leave"}
            BY <2>4, <3>1 DEF WMeet, Meet, SetInv
      <4>2. Token(v) = 0 /\ Token(u) = 0 /\ Token(v)' = 0 /\ Token(u)' = 0
            BY <2>4, <3>1, <4>1 DEF WMeet
      <4>3. sem'["MEMORY"] = 1 /\ sem'["PRINT"] = 0  BY <2>4, <4>1 DEF WMeet
      <4> QED  BY <4>2, <4>3
    <3>2. CASE w = v /\ ~InPair(u)  BY <2>4, <3>2 DEF WMeet
    <3>3. CASE w # v
      <4>1. ~InPair(v)  BY <2>4, <3>3 DEF WMeet, OneOfEach, Present, Once, Twice
      <4> QED  BY <2>4, <3>3, <4>1 DEF WMeet
    <3> QED  BY <3>1, <3>2, <3>3
  <2>5. CASE \/ WReadEOF(w) \/ WCopyBegin(w) \/ WCopyEnd(w)
    <3>1. CASE w = v  BY <2>5, <3>1 DEF WReadEOF, WCopyBegin, WCopyEnd
    <3>2. CASE w # v
      <4>1. ~InPair(v)  BY <2>5, <3>2 DEF WReadEOF, WCopyBegin, WCopyEnd, OneOfEach,
            Present, Once, Twice
      <4> QED  BY <2>5, <3>2, <4>1 DEF WReadEOF, WCopyBegin, WCopyEnd
    <3> QED  BY <3>1, <3>2
  <2>6. CASE \/ WPostPrint(w) \/ WFinish(w)
    <3>1. CASE w = v  BY <2>6, <3>1 DEF WPostPrint, WFinish
    <3>2. CASE w # v
      <4>1. ~InPair(v)  BY <2>6, <3>2 DEF WPostPrint, WFinish, OneOfEach, Present, Once, Twice
      <4> QED  BY <2>6, <3>2, <4>1 DEF WPostPrint, WFinish
    <3> QED  BY <3>1, <3>2
  <2>7. CASE \/ WLeave(w) \/ WReadError(w)
        BY <2>7 DEF WLeave, WReadError
  <2> QED  BY <1>1, <2>1, <2>2, <2>3, <2>4, <2>5, <2>6, <2>7 DEF WriterStep
<1>2. ASSUME NEW r \in Readers, ReaderStep(r) \/ RWriteError(r)
      PROVE  OneRight(v, u)'
  <2>1. CASE \/ REnter(r) \/ RPairWait(r) \/ RStop(r) \/ RLeave(r) \/ RWriteError(r)
        BY <2>1 DEF REnter, RPairWait, RStop, RLeave, RWriteError
  <2>2. CASE RSetMemory(r)
    <3>1. CASE r = u  BY <2>2, <3>1 DEF RSetMemory, SetVal
    <3>2. CASE r # u
      <4>1. ~InPair(u)  BY <2>2, <3>2 DEF RSetMemory, SetVal, OneOfEach, Present, Once, Twice
      <4> QED  BY <2>2, <3>2, <4>1 DEF RSetMemory, SetVal
    <3> QED  BY <3>1, <3>2
  <2>3. CASE \/ RAnnounce(r) \/ RTakePrint(r) \/ RCopy(r) \/ RPostMemory(r)
    <3>1. CASE r = u  BY <2>3, <3>1 DEF RAnnounce, RTakePrint, RCopy, RPostMemory
    <3>2. CASE r # u
      <4>1. ~InPair(u)  BY <2>3, <3>2 DEF RAnnounce, RTakePrint, RCopy, RPostMemory,
            OneOfEach, Present, Once, Twice
      <4> QED  BY <2>3, <3>2, <4>1 DEF RAnnounce, RTakePrint, RCopy, RPostMemory
    <3> QED  BY <3>1, <3>2
  <2>4. CASE RMeet(r)
    <3>1. CASE r = u /\ InPair(v)
      <4>1. sem["MEMORY"] = 1 /\ sem["PRINT"] = 0 /\ pc[v] \in {"loop", "leave"}
            BY <2>4, <3>1 DEF RMeet, Meet, SetInv
      <4>2. Token(v) = 0 /\ Token(u) = 0 /\ Token(v)' = 0 /\ Token(u)' = 0
            BY <2>4, <3>1, <4>1 DEF RMeet
      <4>3. sem'["MEMORY"] = 1 /\ sem'["PRINT"] = 0  BY <2>4, <4>1 DEF RMeet
      <4> QED  BY <4>2, <4>3
    <3>2. CASE r = u /\ ~InPair(v)  BY <2>4, <3>2 DEF RMeet
    <3>3. CASE r # u
      <4>1. ~InPair(u)  BY <2>4, <3>3 DEF RMeet, OneOfEach, Present, Once, Twice
      <4> QED  BY <2>4, <3>3, <4>1 DEF RMeet
    <3> QED  BY <3>1, <3>2, <3>3
  <2>5. CASE RWrite(r)
    <3>1. CASE r = u  BY <2>5, <3>1 DEF RWrite
    <3>2. CASE r # u
      <4>1. ~InPair(u)  BY <2>5, <3>2 DEF RWrite, OneOfEach, Present, Once, Twice
      <4> QED  BY <2>5, <3>2, <4>1 DEF RWrite
    <3> QED  BY <3>1, <3>2
  <2> QED  BY <1>2, <2>1, <2>2, <2>3, <2>4, <2>5 DEF ReaderStep
<1>3. ASSUME NEW p \in Procs, Exit(p) \/ Crash(p) \/ SemopFails(p)
      PROVE  OneRight(v, u)'
  <2>1. CASE Exit(p)
    <3>1. /\ p # v /\ pc[v] \in Twice => sem'["PRINT"] = sem["PRINT"]
          /\ p # u /\ pc[u] \in Twice => sem'["MEMORY"] = sem["MEMORY"]
          /\ p # v => semadj'[v] = semadj[v]
          BY <2>1, UndoKeeps DEF Exit
    <3> QED  BY <2>1, <3>1 DEF Exit
  <2>2. CASE Crash(p)
    <3>1. /\ p # v /\ pc[v] \in Twice => sem'["PRINT"] = sem["PRINT"]
          /\ p # u /\ pc[u] \in Twice => sem'["MEMORY"] = sem["MEMORY"]
          /\ p # v => semadj'[v] = semadj[v]
          BY <2>2, UndoKeeps DEF Crash
    <3> QED  BY <2>2, <3>1 DEF Crash
  <2>3. CASE SemopFails(p)  BY <2>3 DEF SemopFails
  <2> QED  BY <1>3, <2>1, <2>2, <2>3
<1>4. CASE RemoveAll  BY <1>4 DEF RemoveAll
<1>5. CASE UNCHANGED vars  BY <1>5 DEF vars
<1> QED  BY <1>1, <1>2, <1>3, <1>4, <1>5 DEF Next, Orderly, Failure

(* While the writer has the right to the segment, or can take it, nothing is posted. *)
LEMMA WriterHasRight ==
  ASSUME NEW v \in Writers, NEW u \in Readers, TypeOK, OneRight(v, u), InPair(v), InPair(u),
         \/ pc[v] \in {"read", "copy", "copying", "post", "finish"}
         \/ sem["MEMORY"] >= 1
  PROVE  sem["PRINT"] = 0 /\ pc[u] \notin {"rcopy", "rwrite", "rpost"}
<1>1. sem["PRINT"] \in Nat /\ sem["MEMORY"] \in Nat  BY DEF TypeOK, Sems
<1>2. sem["MEMORY"] + sem["PRINT"] + Token(v) + Token(u) = 1  BY DEF OneRight
<1>3. Token(v) \in {0, 1} /\ Token(u) \in {0, 1}  BY DEF Token
<1>4. pc[v] \in {"read", "copy", "copying", "post", "finish"} => Token(v) = 1
      BY DEF Token, HasToken, TokenSteps
<1>5. pc[u] \in {"rcopy", "rwrite", "rpost"} => Token(u) = 1
      BY DEF Token, HasToken, TokenSteps
<1> QED  BY <1>1, <1>2, <1>3, <1>4, <1>5

(* While the reader has the right to the segment, or can take it, the writer has not. *)
LEMMA ReaderHasRight ==
  ASSUME NEW v \in Writers, NEW u \in Readers, TypeOK, OneRight(v, u), InPair(v), InPair(u),
         \/ pc[u] \in {"rcopy", "rwrite", "rpost"}
         \/ sem["PRINT"] >= 1
  PROVE  /\ sem["MEMORY"] = 0 /\ pc[v] \notin {"read", "copy", "copying", "post", "finish"}
         /\ pc[u] \in {"rcopy", "rwrite", "rpost"} => sem["PRINT"] = 0
         /\ pc[u] \notin {"rcopy", "rwrite", "rpost"} => sem["PRINT"] = 1
<1>1. sem["PRINT"] \in Nat /\ sem["MEMORY"] \in Nat  BY DEF TypeOK, Sems
<1>2. sem["MEMORY"] + sem["PRINT"] + Token(v) + Token(u) = 1  BY DEF OneRight
<1>3. Token(v) \in {0, 1} /\ Token(u) \in {0, 1}  BY DEF Token
<1>4. pc[v] \in {"read", "copy", "copying", "post", "finish"} => Token(v) = 1
      BY DEF Token, HasToken, TokenSteps
<1>5. pc[u] \in {"rcopy", "rwrite", "rpost"} => Token(u) = 1
      BY DEF Token, HasToken, TokenSteps
<1> QED  BY <1>1, <1>2, <1>3, <1>4, <1>5

(* PRINT is raised by a writer in its loop, or together with FINISH.         *)
LEMMA PostedStep ==
  ASSUME NEW v \in Writers, NEW u \in Readers, TypeOK, OneOfEach, AdjInv, SetInv,
         SetValInv, PairInv, FinishAdj, Meet(v, u), OneRight(v, u), Posted(v, u),
         ~removed', [Next]_vars
  PROVE  Posted(v, u)'
<1> USE ProcsAssumption DEF Procs, WriterSteps, ReaderSteps, StepType, Goto, data,
      Sems, TypeOK, Posted, Finished, PairSteps, InPair
<1>1. ASSUME NEW w \in Writers, WriterStep(w) \/ WReadError(w)
      PROVE  Posted(v, u)'
  <2>1. CASE \/ WEnter(w) \/ WPairWait(w) \/ WAnnounce(w) \/ WReadEOF(w)
             \/ WCopyBegin(w)
        BY <2>1 DEF WEnter, WPairWait, WAnnounce, WReadEOF, WCopyBegin
  <2>2. CASE WSetPrint(w)
    <3>1. CASE w = v
      <4> QED  BY <2>2, <3>1 DEF WSetPrint, SetVal
    <3>2. CASE w # v
      <4>1. ~InPair(v)  BY <2>2, <3>2 DEF WSetPrint, SetVal, OneOfEach, Present, Once, Twice
      <4> QED  BY <2>2, <3>2, <4>1 DEF WSetPrint, SetVal
    <3> QED  BY <3>1, <3>2
  <2>3. CASE WMeet(w)
    <3>1. CASE w = v
      <4>1. sem["PRINT"] = 0  BY <2>3, <3>1 DEF WMeet, SetInv
      <4> QED  BY <2>3, <3>1, <4>1 DEF WMeet
    <3>2. CASE w # v
      <4>1. ~InPair(v)  BY <2>3, <3>2 DEF WMeet, OneOfEach, Present, Once, Twice
      <4> QED  BY <2>3, <3>2, <4>1 DEF WMeet
    <3> QED  BY <3>1, <3>2
  <2>4. CASE \/ WTakeMemory(w) \/ WRead(w)
    <3>1. CASE w = v
      <4>1. InPair(u) => sem["PRINT"] = 0
            BY <2>4, <3>1 DEF WTakeMemory, WRead, OneRight, Token, HasToken, TokenSteps
      <4> QED  BY <2>4, <3>1, <4>1 DEF WTakeMemory, WRead
    <3>2. CASE w # v
      <4>1. ~InPair(v)  BY <2>4, <3>2 DEF WTakeMemory, WRead, OneOfEach, Present, Once, Twice
      <4> QED  BY <2>4, <3>2, <4>1 DEF WTakeMemory, WRead
    <3> QED  BY <3>1, <3>2
  <2>5. CASE WAlone(w)
    <3>1. CASE w = v
      <4>1. ~InPair(u)  BY <2>5, <3>1, PairBoth DEF WAlone
      <4> QED  BY <2>5, <3>1, <4>1 DEF WAlone
    <3>2. CASE w # v
      <4>1. ~InPair(v)  BY <2>5, <3>2 DEF WAlone, OneOfEach, Present, Once, Twice
      <4> QED  BY <2>5, <3>2, <4>1 DEF WAlone
    <3> QED  BY <3>1, <3>2
  <2>6. CASE \/ WCopyEnd(w) \/ WLeave(w) \/ WReadError(w)
        BY <2>6 DEF WCopyEnd, WLeave, WReadError
  <2>7. CASE WPostPrint(w)
    <3>1. CASE w = v
      <4> QED  BY <2>7, <3>1 DEF WPostPrint
    <3>2. CASE w # v
      <4>1. ~InPair(v)  BY <2>7, <3>2 DEF WPostPrint, OneOfEach, Present, Once, Twice
      <4> QED  BY <2>7, <3>2, <4>1 DEF WPostPrint
    <3> QED  BY <3>1, <3>2
  <2>8. CASE WFinish(w)
    <3>1. CASE w = v
      <4>1. semadj[v]["FINISH"] = 0  BY <2>8, <3>1 DEF WFinish, FinishAdj
      <4> QED  BY <2>8, <3>1, <4>1 DEF WFinish
    <3>2. CASE w # v
      <4>1. ~InPair(v)  BY <2>8, <3>2 DEF WFinish, OneOfEach, Present, Once, Twice
      <4> QED  BY <2>8, <3>2, <4>1 DEF WFinish
    <3> QED  BY <3>1, <3>2
  <2> QED  BY <1>1, <2>1, <2>2, <2>3, <2>4, <2>5, <2>6, <2>7, <2>8 DEF WriterStep
<1>2. ASSUME NEW r \in Readers, ReaderStep(r) \/ RWriteError(r)
      PROVE  Posted(v, u)'
  <2>1. CASE \/ REnter(r) \/ RPairWait(r) \/ RAnnounce(r) \/ RTakePrint(r) \/ RStop(r)
        BY <2>1 DEF REnter, RPairWait, RAnnounce, RTakePrint, RStop
  <2>2. CASE RSetMemory(r)  BY <2>2 DEF RSetMemory, SetVal
  <2>3. CASE RMeet(r)
    <3>1. CASE r = u
      <4>1. InPair(v) => sem["PRINT"] = 0  BY <2>3, <3>1 DEF RMeet, Meet
      <4> QED  BY <2>3, <3>1, <4>1 DEF RMeet
    <3>2. CASE r # u
      <4>1. ~InPair(u)  BY <2>3, <3>2 DEF RMeet, OneOfEach, Present, Once, Twice
      <4> QED  BY <2>3, <3>2, <4>1 DEF RMeet
    <3> QED  BY <3>1, <3>2
  <2>4. CASE \/ RCopy(r) \/ RPostMemory(r) \/ RLeave(r) \/ RWriteError(r)
        BY <2>4 DEF RCopy, RPostMemory, RLeave, RWriteError
  <2>5. CASE RWrite(r)  BY <2>5 DEF RWrite
  <2> QED  BY <1>2, <2>1, <2>2, <2>3, <2>4, <2>5 DEF ReaderStep
<1>3. ASSUME NEW p \in Procs, Exit(p) \/ Crash(p) \/ SemopFails(p)
      PROVE  Posted(v, u)'
  <2>1. CASE Exit(p)
    <3>1. CASE p = v \/ p = u  BY <2>1, <3>1 DEF Exit
    <3>2. CASE p # v /\ p # u /\ InPair(v)
      <4>1. sem'["PRINT"] = sem["PRINT"] /\ semadj'[v] = semadj[v]
            BY <2>1, <3>2, UndoKeeps DEF Exit, Twice
      <4> QED  BY <2>1, <3>2, <4>1 DEF Exit
    <3>3. CASE p # v /\ p # u /\ ~InPair(v)  BY <2>1, <3>3 DEF Exit
    <3> QED  BY <3>1, <3>2, <3>3
  <2>2. CASE Crash(p)
    <3>1. CASE p = v \/ p = u  BY <2>2, <3>1 DEF Crash
    <3>2. CASE p # v /\ p # u /\ InPair(v)
      <4>1. sem'["PRINT"] = sem["PRINT"] /\ semadj'[v] = semadj[v]
            BY <2>2, <3>2, UndoKeeps DEF Crash, Twice
      <4> QED  BY <2>2, <3>2, <4>1 DEF Crash
    <3>3. CASE p # v /\ p # u /\ ~InPair(v)  BY <2>2, <3>3 DEF Crash
    <3> QED  BY <3>1, <3>2, <3>3
  <2>3. CASE SemopFails(p)  BY <2>3 DEF SemopFails
  <2> QED  BY <1>3, <2>1, <2>2, <2>3
<1>4. CASE RemoveAll  BY <1>4 DEF RemoveAll
<1>5. CASE UNCHANGED vars  BY <1>5 DEF vars
<1> QED  BY <1>1, <1>2, <1>3, <1>4, <1>5 DEF Next, Orderly, Failure

(* A posted buffer stays what the writer has put there.                      *)
LEMMA ReadyStep ==
  ASSUME NEW v \in Writers, NEW u \in Readers, TypeOK, DataType, OneOfEach, AdjInv,
         SetInv, SetValInv, PairInv, FinishAdj, WriterData, EarlyData, ReaderData,
         Meet(v, u), OneRight(v, u), Posted(v, u), Ready(v, u), ~removed', [Next]_vars
  PROVE  Ready(v, u)'
<1> USE ProcsAssumption DEF Procs, WriterSteps, ReaderSteps, StepType, Goto, data,
      Sems, TypeOK, Ready, Finished, PairSteps, InPair
<1>1. ASSUME NEW w \in Writers, WriterStep(w) \/ WReadError(w)
      PROVE  Ready(v, u)'
  <2>1. CASE \/ WEnter(w) \/ WPairWait(w) \/ WAnnounce(w) \/ WAlone(w) \/ WLeave(w)
        BY <2>1 DEF WEnter, WPairWait, WAnnounce, WAlone, WLeave
  <2>2. CASE WSetPrint(w)
    <3>1. CASE w = v
      <4> QED  BY <2>2, <3>1 DEF WSetPrint, SetVal
    <3>2. CASE w # v
      <4>1. ~InPair(v)  BY <2>2, <3>2 DEF WSetPrint, SetVal, OneOfEach, Present, Once, Twice
      <4> QED  BY <2>2, <3>2, <4>1 DEF WSetPrint, SetVal
    <3> QED  BY <3>1, <3>2
  <2>3. CASE WMeet(w)
    <3>1. CASE w = v
      <4>1. sem["PRINT"] = 0  BY <2>3, <3>1 DEF WMeet, SetInv
      <4> QED  BY <2>3, <3>1, <4>1 DEF WMeet
    <3>2. CASE w # v
      <4>1. ~InPair(v)  BY <2>3, <3>2 DEF WMeet, OneOfEach, Present, Once, Twice
      <4> QED  BY <2>3, <3>2, <4>1 DEF WMeet
    <3> QED  BY <3>1, <3>2
  <2>4. CASE \/ WTakeMemory(w) \/ WRead(w) \/ WReadEOF(w) \/ WCopyBegin(w)
             \/ WCopyEnd(w)
    <3>1. CASE w = v
      <4>1. InPair(u) => sem["PRINT"] = 0  BY <2>4, <3>1, WriterHasRight DEF
            WTakeMemory, WRead, WReadEOF, WCopyBegin, WCopyEnd, Goto
      <4> QED  BY <2>4, <3>1, <4>1 DEF WTakeMemory, WRead, WReadEOF, WCopyBegin, WCopyEnd
    <3>2. CASE w # v
      <4>1. ~InPair(v)  BY <2>4, <3>2 DEF WTakeMemory, WRead, WReadEOF, WCopyBegin,
            WCopyEnd, OneOfEach, Present, Once, Twice
      <4> QED  BY <2>4, <3>2, <4>1 DEF WTakeMemory, WRead, WReadEOF, WCopyBegin, WCopyEnd
    <3> QED  BY <3>1, <3>2
  <2>5. CASE WPostPrint(w)
    <3>1. CASE w = v
      <4>1. shm = <<v, pos[v]>> /\ pos[v] >= 1  BY <2>5, <3>1 DEF WPostPrint, WriterData, Kept
      <4> QED  BY <2>5, <3>1, <4>1 DEF WPostPrint
    <3>2. CASE w # v
      <4>1. ~InPair(v)  BY <2>5, <3>2 DEF WPostPrint, OneOfEach, Present, Once, Twice
      <4> QED  BY <2>5, <3>2, <4>1 DEF WPostPrint
    <3> QED  BY <3>1, <3>2
  <2>6. CASE WFinish(w)
    <3>1. CASE w = v
      <4>1. semadj[v]["FINISH"] = 0  BY <2>6, <3>1 DEF WFinish, FinishAdj
      <4> QED  BY <2>6, <3>1, <4>1 DEF WFinish
    <3>2. CASE w # v
      <4>1. ~InPair(v)  BY <2>6, <3>2 DEF WFinish, OneOfEach, Present, Once, Twice
      <4> QED  BY <2>6, <3>2, <4>1 DEF WFinish
    <3> QED  BY <3>1, <3>2
  <2>7. CASE WReadError(w)  BY <2>7 DEF WReadError
  <2> QED  BY <1>1, <2>1, <2>2, <2>3, <2>4, <2>5, <2>6, <2>7 DEF WriterStep
<1>2. ASSUME NEW r \in Readers, ReaderStep(r) \/ RWriteError(r)
      PROVE  Ready(v, u)'
  <2>1. CASE \/ REnter(r) \/ RPairWait(r) \/ RAnnounce(r) \/ RTakePrint(r) \/ RStop(r)
        BY <2>1 DEF REnter, RPairWait, RAnnounce, RTakePrint, RStop
  <2>2. CASE RSetMemory(r)  BY <2>2 DEF RSetMemory, SetVal
  <2>3. CASE RMeet(r)
    <3>1. CASE r = u
      <4>1. InPair(v) => sem["PRINT"] = 0  BY <2>3, <3>1 DEF RMeet, Meet
      <4> QED  BY <2>3, <3>1, <4>1 DEF RMeet
    <3>2. CASE r # u
      <4>1. ~InPair(u)  BY <2>3, <3>2 DEF RMeet, OneOfEach, Present, Once, Twice
      <4> QED  BY <2>3, <3>2, <4>1 DEF RMeet
    <3> QED  BY <3>1, <3>2
  <2>4. CASE \/ RCopy(r) \/ RPostMemory(r) \/ RLeave(r) \/ RWriteError(r)
        BY <2>4 DEF RCopy, RPostMemory, RLeave, RWriteError
  <2>5. CASE RWrite(r)  BY <2>5 DEF RWrite
  <2> QED  BY <1>2, <2>1, <2>2, <2>3, <2>4, <2>5 DEF ReaderStep
<1>3. ASSUME NEW p \in Procs, Exit(p) \/ Crash(p) \/ SemopFails(p)
      PROVE  Ready(v, u)'
  <2>1. CASE Exit(p)
    <3>1. CASE p = v \/ p = u  BY <2>1, <3>1 DEF Exit
    <3>2. CASE p # v /\ p # u /\ InPair(v)
      <4>1. sem'["PRINT"] = sem["PRINT"] /\ semadj'[v] = semadj[v]
            BY <2>1, <3>2, UndoKeeps DEF Exit, Twice
      <4> QED  BY <2>1, <3>2, <4>1 DEF Exit
    <3>3. CASE p # v /\ p # u /\ ~InPair(v)  BY <2>1, <3>3 DEF Exit
    <3> QED  BY <3>1, <3>2, <3>3
  <2>2. CASE Crash(p)
    <3>1. CASE p = v \/ p = u  BY <2>2, <3>1 DEF Crash
    <3>2. CASE p # v /\ p # u /\ InPair(v)
      <4>1. sem'["PRINT"] = sem["PRINT"] /\ semadj'[v] = semadj[v]
            BY <2>2, <3>2, UndoKeeps DEF Crash, Twice
      <4> QED  BY <2>2, <3>2, <4>1 DEF Crash
    <3>3. CASE p # v /\ p # u /\ ~InPair(v)  BY <2>2, <3>3 DEF Crash
    <3> QED  BY <3>1, <3>2, <3>3
  <2>3. CASE SemopFails(p)  BY <2>3 DEF SemopFails
  <2> QED  BY <1>3, <2>1, <2>2, <2>3
<1>4. CASE RemoveAll  BY <1>4 DEF RemoveAll
<1>5. CASE UNCHANGED vars  BY <1>5 DEF vars
<1> QED  BY <1>1, <1>2, <1>3, <1>4, <1>5 DEF Next, Orderly, Failure

(* As long as the reader prints nothing and no buffer starts or ends its way, the *)
(* account of what was given stays right.                                         *)
LEMMA GivenSame ==
  ASSUME NEW v \in Writers, NEW u \in Readers, Progress(v, u),
         InPair(v), InPair(u), ~Finished(v),
         out'[u] = out[u], Given(v, u)' = Given(v, u)
  PROVE  Progress(v, u)'
BY DEF Progress, Printed

(* A reader that prints the next buffer has printed one more. *)
LEMMA PrintedNext ==
  ASSUME NEW u \in Readers, NEW v \in Writers, NEW k \in 0 .. MaxLen, DataType, Printed(u, v, k),
         out' = [out EXCEPT ![u] = Append(@, <<v, k + 1>>)]
  PROVE  Printed(u, v, k + 1)'
<1>1. out[u] \in Seq(Chunks \cup {NoChunk, Torn})  BY DEF DataType
<1>2. out'[u] = Append(out[u], <<v, k + 1>>)  BY DEF DataType
<1>3. Len(out[u]) = k /\ \A i \in 1 .. k : out[u][i] = <<v, i>>  BY DEF Printed
<1>4. Len(out'[u]) = k + 1  BY <1>1, <1>2, <1>3
<1>5. ASSUME NEW i \in 1 .. (k + 1)  PROVE out'[u][i] = <<v, i>>
  <2>0. k \in Nat  BY MaxLenAssumption
  <2>1. CASE i \in 1 .. k  BY <1>1, <1>2, <1>3, <2>1
  <2>2. CASE i = k + 1  BY <1>1, <1>2, <1>3, <2>2
  <2>3. i \in 1 .. k \/ i = k + 1  BY <2>0
  <2> QED  BY <2>1, <2>2, <2>3
<1> QED  BY <1>4, <1>5 DEF Printed

(* What the reader has printed keeps pace with what the writer has read.     *)
LEMMA ProgressStep ==
  ASSUME NEW v \in Writers, NEW u \in Readers, TypeOK, DataType, OneOfEach, AdjInv,
         SetInv, SetValInv, PairInv, FinishAdj, WriterData, EarlyData, ReaderData,
         Meet(v, u), OneRight(v, u), Posted(v, u), ReaderData, Progress(v, u),
         ~removed', [Next]_vars
  PROVE  Progress(v, u)'
<1> USE ProcsAssumption DEF Procs, WriterSteps, ReaderSteps, StepType, Goto, data,
      Sems, TypeOK
<1>1. ASSUME NEW w \in Writers, WriterStep(w) \/ WReadError(w)
      PROVE  Progress(v, u)'
  <2>1. CASE WEnter(w)
    <3>1. CASE InPair(v) /\ InPair(u) /\ ~Finished(v)
      <4>1. out'[u] = out[u] /\ Given(v, u)' = Given(v, u)
            BY <2>1, <3>1 DEF WEnter, Given, OnItsWay
      <4> QED  BY <3>1, <4>1, GivenSame
    <3>2. CASE ~(InPair(v) /\ InPair(u) /\ ~Finished(v))  BY <2>1, <3>2 DEF WEnter,
          Progress, InPair, PairSteps, Finished
    <3> QED  BY <3>1, <3>2
  <2>2. CASE \/ WPairWait(w) \/ WAnnounce(w) \/ WAlone(w) \/ WLeave(w)
    <3>1. CASE w = v /\ InPair(v) /\ InPair(u) /\ ~Finished(v)
      <4>9. out'[u] = out[u] /\ Given(v, u)' = Given(v, u)
            BY <2>2, <3>1 DEF WPairWait, WAnnounce, WAlone, WLeave, Given, OnItsWay
      <4> QED  BY <3>1, <4>9, GivenSame
    <3>2. CASE w = v /\ ~(InPair(v) /\ InPair(u) /\ ~Finished(v))  BY <2>2, <3>2 DEF
          WPairWait, WAnnounce, WAlone, WLeave, Progress, InPair, PairSteps, Finished
    <3>3. CASE w # v
      <4>1. ~InPair(v)  BY <2>2, <3>3 DEF WPairWait, WAnnounce, WAlone, WLeave,
            OneOfEach, Present, Once, Twice, InPair, PairSteps
      <4> QED  BY <2>2, <3>3, <4>1 DEF WPairWait, WAnnounce, WAlone, WLeave, Progress, InPair
    <3> QED  BY <3>1, <3>2, <3>3
  <2>3. CASE WSetPrint(w)
    <3>1. CASE w = v
      <4> QED  BY <2>3, <3>1 DEF WSetPrint, SetVal, Progress, InPair, PairSteps
    <3>2. CASE w # v
      <4>1. ~InPair(v)  BY <2>3, <3>2 DEF WSetPrint, SetVal, OneOfEach, Present, Once,
            Twice, InPair, PairSteps
      <4> QED  BY <2>3, <3>2, <4>1 DEF WSetPrint, SetVal, Progress, InPair
    <3> QED  BY <3>1, <3>2
  <2>4. CASE WMeet(w)
    <3>1. CASE w = v /\ InPair(v)' /\ InPair(u)' /\ ~Finished(v)'
      <4>1. /\ sem["PRINT"] = 0 /\ pos[v] = 0 /\ out[u] = <<>>
            /\ pc[u] \in {"loop", "leave"}
            BY <2>4, <3>1 DEF WMeet, SetInv, WriterData, Kept, Early, Meet, InPair, PairSteps
      <4>4. /\ pos'[v] = 0 /\ sem'["PRINT"] = 0
            /\ pc'[v] \in {"loop", "leave"} /\ pc'[u] \in {"loop", "leave"}
            BY <2>4, <3>1, <4>1 DEF WMeet
      <4>2. Given(v, u)' = 0  BY <4>4 DEF Given, OnItsWay
      <4>3. out'[u] = <<>>  BY <2>4, <4>1 DEF WMeet
      <4> QED  BY <4>2, <4>3 DEF Progress, Printed
    <3>2. CASE w = v /\ ~(InPair(v)' /\ InPair(u)' /\ ~Finished(v)')  BY <3>2 DEF Progress
    <3>3. CASE w # v
      <4>1. ~InPair(v)  BY <2>4, <3>3 DEF WMeet, OneOfEach, Present, Once, Twice,
            InPair, PairSteps
      <4> QED  BY <2>4, <3>3, <4>1 DEF WMeet, Progress, InPair
    <3> QED  BY <3>1, <3>2, <3>3
  <2>5. CASE \/ WTakeMemory(w) \/ WReadEOF(w) \/ WCopyBegin(w) \/ WCopyEnd(w)
             \/ WPostPrint(w)
    <3>1. CASE w = v /\ InPair(v) /\ InPair(u) /\ ~Finished(v)
      <4>1. sem["PRINT"] = 0 /\ pc[u] \notin {"rcopy", "rwrite", "rpost"}
            BY <2>5, <3>1, WriterHasRight DEF WTakeMemory, WReadEOF, WCopyBegin,
                  WCopyEnd, WPostPrint, Goto
      <4>9. out'[u] = out[u] /\ Given(v, u)' = Given(v, u)
            BY <2>5, <3>1, <4>1 DEF WTakeMemory, WReadEOF, WCopyBegin, WCopyEnd,
                  WPostPrint, Given, OnItsWay
      <4> QED  BY <3>1, <4>9, GivenSame
    <3>2. CASE w = v /\ ~(InPair(v) /\ InPair(u) /\ ~Finished(v))  BY <2>5, <3>2 DEF
          WTakeMemory, WReadEOF, WCopyBegin, WCopyEnd, WPostPrint, Progress, InPair,
          PairSteps, Finished
    <3>3. CASE w # v
      <4>1. ~InPair(v)  BY <2>5, <3>3 DEF WTakeMemory, WReadEOF, WCopyBegin, WCopyEnd,
            WPostPrint, OneOfEach, Present, Once, Twice, InPair, PairSteps
      <4> QED  BY <2>5, <3>3, <4>1 DEF WTakeMemory, WReadEOF, WCopyBegin, WCopyEnd,
            WPostPrint, Progress, InPair
    <3> QED  BY <3>1, <3>2, <3>3
  <2>6. CASE WRead(w)
    <3>1. CASE w = v /\ InPair(v) /\ InPair(u) /\ ~Finished(v)
      <4>1. sem["PRINT"] = 0 /\ pc[u] \notin {"rcopy", "rwrite", "rpost"}
            BY <2>6, <3>1, WriterHasRight DEF WRead, Goto
      <4>2. pos[v] \in Nat /\ pos'[v] = pos[v] + 1 /\ pc'[v] = "copy"
            BY <2>6, <3>1 DEF WRead, Goto, DataType
      <4>3. pc[v] = "read" /\ pc'[u] = pc[u] /\ sem' = sem
            BY <2>6, <3>1 DEF WRead, Goto, Procs
      <4>9. out'[u] = out[u] /\ Given(v, u)' = Given(v, u)
            BY <2>6, <4>1, <4>2, <4>3 DEF WRead, Given, OnItsWay
      <4> QED  BY <3>1, <4>9, GivenSame
    <3>2. CASE w = v /\ ~(InPair(v) /\ InPair(u) /\ ~Finished(v))  BY <2>6, <3>2 DEF
          WRead, Progress, InPair, PairSteps, Finished
    <3>3. CASE w # v
      <4>1. ~InPair(v)  BY <2>6, <3>3 DEF WRead, OneOfEach, Present, Once, Twice,
            InPair, PairSteps
      <4> QED  BY <2>6, <3>3, <4>1 DEF WRead, Progress, InPair
    <3> QED  BY <3>1, <3>2, <3>3
  <2>7. CASE WFinish(w)
    <3>1. CASE w = v
      <4>1. semadj[v]["FINISH"] = 0  BY <2>7, <3>1 DEF WFinish, FinishAdj, Finished
      <4>2. Finished(v)'  BY <2>7, <3>1, <4>1 DEF WFinish, TypeOK, Sems, Finished, Procs
      <4> QED  BY <2>7, <3>1, <4>2 DEF WFinish, Progress
    <3>2. CASE w # v
      <4>1. ~InPair(v)  BY <2>7, <3>2 DEF WFinish, OneOfEach, Present, Once, Twice,
            InPair, PairSteps
      <4> QED  BY <2>7, <3>2, <4>1 DEF WFinish, Progress, InPair
    <3> QED  BY <3>1, <3>2
  <2>8. CASE WReadError(w)
    <3>1. CASE w = v /\ InPair(v) /\ InPair(u) /\ ~Finished(v)
      <4>1. sem["PRINT"] = 0 /\ pc[u] \notin {"rcopy", "rwrite", "rpost"}
            BY <2>8, <3>1, WriterHasRight DEF WReadError, Goto
      <4>9. out'[u] = out[u] /\ Given(v, u)' = Given(v, u)
            BY <2>8, <3>1, <4>1 DEF WReadError, Given, OnItsWay
      <4> QED  BY <3>1, <4>9, GivenSame
    <3>2. CASE w = v /\ ~(InPair(v) /\ InPair(u) /\ ~Finished(v))  BY <2>8, <3>2 DEF
          WReadError, Progress, InPair, PairSteps, Finished
    <3>3. CASE w # v
      <4>1. ~InPair(v)  BY <2>8, <3>3 DEF WReadError, OneOfEach, Present, Once, Twice,
            InPair, PairSteps
      <4> QED  BY <2>8, <3>3, <4>1 DEF WReadError, Progress, InPair
    <3> QED  BY <3>1, <3>2, <3>3
  <2> QED  BY <1>1, <2>1, <2>2, <2>3, <2>4, <2>5, <2>6, <2>7, <2>8 DEF WriterStep
<1>2. ASSUME NEW r \in Readers, ReaderStep(r) \/ RWriteError(r)
      PROVE  Progress(v, u)'
  <2>1. CASE REnter(r)
    <3>1. CASE InPair(v) /\ InPair(u) /\ ~Finished(v)
      <4>1. out'[u] = out[u] /\ Given(v, u)' = Given(v, u)
            BY <2>1, <3>1 DEF REnter, Given, OnItsWay
      <4> QED  BY <3>1, <4>1, GivenSame
    <3>2. CASE ~(InPair(v) /\ InPair(u) /\ ~Finished(v))  BY <2>1, <3>2 DEF REnter,
          Progress, InPair, PairSteps, Finished
    <3> QED  BY <3>1, <3>2
  <2>2. CASE \/ RPairWait(r) \/ RAnnounce(r) \/ RStop(r) \/ RCopy(r) \/ RPostMemory(r)
    <3>1. CASE r = u /\ InPair(v) /\ InPair(u) /\ ~Finished(v)
      <4>9. out'[u] = out[u] /\ Given(v, u)' = Given(v, u)
            BY <2>2, <3>1 DEF RPairWait, RAnnounce, RStop, RCopy, RPostMemory, Given, OnItsWay
      <4> QED  BY <3>1, <4>9, GivenSame
    <3>2. CASE r = u /\ ~(InPair(v) /\ InPair(u) /\ ~Finished(v))  BY <2>2, <3>2 DEF
          RPairWait, RAnnounce, RStop, RCopy, RPostMemory, Progress, InPair, PairSteps,
          Finished
    <3>3. CASE r # u
      <4>1. ~InPair(u)  BY <2>2, <3>3 DEF RPairWait, RAnnounce, RStop, RCopy,
            RPostMemory, OneOfEach, Present, Once, Twice, InPair, PairSteps
      <4> QED  BY <2>2, <3>3, <4>1 DEF RPairWait, RAnnounce, RStop, RCopy,
            RPostMemory, Progress, InPair
    <3> QED  BY <3>1, <3>2, <3>3
  <2>3. CASE RSetMemory(r)
    <3>1. CASE r = u /\ InPair(v) /\ InPair(u) /\ ~Finished(v)
      <4>9. out'[u] = out[u] /\ Given(v, u)' = Given(v, u)
            BY <2>3, <3>1 DEF RSetMemory, SetVal, Given, OnItsWay
      <4> QED  BY <3>1, <4>9, GivenSame
    <3>2. CASE r = u /\ ~(InPair(v) /\ InPair(u) /\ ~Finished(v))  BY <2>3, <3>2 DEF
          RSetMemory, SetVal, Progress, InPair, PairSteps, Finished
    <3>3. CASE r # u
      <4>1. ~InPair(u)  BY <2>3, <3>3 DEF RSetMemory, SetVal, OneOfEach, Present,
            Once, Twice, InPair, PairSteps
      <4> QED  BY <2>3, <3>3, <4>1 DEF RSetMemory, SetVal, Progress, InPair
    <3> QED  BY <3>1, <3>2, <3>3
  <2>4. CASE RMeet(r)
    <3>1. CASE r = u /\ InPair(v)' /\ InPair(u)' /\ ~Finished(v)'
      <4>1. /\ sem["PRINT"] = 0 /\ pos[v] = 0 /\ out[u] = <<>>
            /\ pc[v] \in {"loop", "leave"}
            BY <2>4, <3>1 DEF RMeet, EarlyData, Early, Meet, InPair, PairSteps
      <4>4. /\ pos'[v] = 0 /\ sem'["PRINT"] = 0
            /\ pc'[v] \in {"loop", "leave"} /\ pc'[u] \in {"loop", "leave"}
            BY <2>4, <3>1, <4>1 DEF RMeet
      <4>2. Given(v, u)' = 0  BY <4>4 DEF Given, OnItsWay
      <4>3. out'[u] = <<>>  BY <2>4, <4>1 DEF RMeet
      <4> QED  BY <4>2, <4>3 DEF Progress, Printed
    <3>2. CASE r = u /\ ~(InPair(v)' /\ InPair(u)' /\ ~Finished(v)')  BY <3>2 DEF Progress
    <3>3. CASE r # u
      <4>1. ~InPair(u)  BY <2>4, <3>3 DEF RMeet, OneOfEach, Present, Once, Twice,
            InPair, PairSteps
      <4> QED  BY <2>4, <3>3, <4>1 DEF RMeet, Progress, InPair
    <3> QED  BY <3>1, <3>2, <3>3
  <2>5. CASE RTakePrint(r)
    <3>1. CASE r = u /\ InPair(v) /\ InPair(u) /\ ~Finished(v)
      <4>1. sem["PRINT"] = 1  BY <2>5, <3>1, ReaderHasRight DEF RTakePrint, Goto
      <4>9. out'[u] = out[u] /\ Given(v, u)' = Given(v, u)
            BY <2>5, <3>1, <4>1 DEF RTakePrint, Given, OnItsWay
      <4> QED  BY <3>1, <4>9, GivenSame
    <3>2. CASE r = u /\ ~(InPair(v) /\ InPair(u) /\ ~Finished(v))  BY <2>5, <3>2 DEF
          RTakePrint, Progress, InPair, PairSteps, Finished
    <3>3. CASE r # u
      <4>1. ~InPair(u)  BY <2>5, <3>3 DEF RTakePrint, OneOfEach, Present, Once, Twice,
            InPair, PairSteps
      <4> QED  BY <2>5, <3>3, <4>1 DEF RTakePrint, Progress, InPair
    <3> QED  BY <3>1, <3>2, <3>3
  <2>6. CASE RWrite(r)
    <3>1. CASE r = u /\ InPair(v) /\ InPair(u) /\ ~Finished(v)
      <4>1. PICK x \in Writers, k \in 0 .. MaxLen :
              /\ Printed(u, x, k) /\ buf[u] = <<x, k + 1>>
              /\ \A y \in Writers : InPair(y) => y = x /\ pos[x] = k + 1
        <5>1. pc[u] = "rwrite"  BY <2>6, <3>1 DEF RWrite
        <5>2. NextIs(u, buf[u])  BY <5>1 DEF ReaderData, Took
        <5> QED  BY <5>2 DEF NextIs
      <4>2. x = v /\ pos[v] = k + 1  BY <3>1, <4>1
      <4>3. Printed(u, v, k + 1)'
        <5>1. out' = [out EXCEPT ![u] = Append(@, <<v, k + 1>>)]
              BY <2>6, <3>1, <4>1, <4>2 DEF RWrite
        <5> QED  BY <4>1, <4>2, <5>1, PrintedNext
      <4>4. sem["PRINT"] = 0 /\ pc[v] \notin {"copy", "copying", "post"}
            BY <2>6, <3>1, ReaderHasRight DEF RWrite, Goto
      <4>5. Given(v, u)' = k + 1  BY <2>6, <3>1, <4>2, <4>4 DEF RWrite, Given, OnItsWay
      <4> QED  BY <4>3, <4>5 DEF Progress
    <3>2. CASE r = u /\ ~(InPair(v) /\ InPair(u) /\ ~Finished(v))  BY <2>6, <3>2 DEF
          RWrite, Progress, InPair, PairSteps, Finished
    <3>3. CASE r # u
      <4>1. ~InPair(u)  BY <2>6, <3>3 DEF RWrite, OneOfEach, Present, Once, Twice,
            InPair, PairSteps
      <4> QED  BY <2>6, <3>3, <4>1 DEF RWrite, Progress, InPair
    <3> QED  BY <3>1, <3>2, <3>3
  <2>7. CASE \/ RLeave(r) \/ RWriteError(r)
    <3>1. CASE r = u /\ InPair(v) /\ InPair(u) /\ ~Finished(v)
      <4>9. out'[u] = out[u] /\ Given(v, u)' = Given(v, u)
            BY <2>7, <3>1 DEF RLeave, RWriteError, Given, OnItsWay
      <4> QED  BY <3>1, <4>9, GivenSame
    <3>2. CASE r = u /\ ~(InPair(v) /\ InPair(u) /\ ~Finished(v))  BY <2>7, <3>2 DEF
          RLeave, RWriteError, Progress, InPair, PairSteps, Finished
    <3>3. CASE r # u
      <4>1. ~InPair(u)  BY <2>7, <3>3 DEF RLeave, RWriteError, OneOfEach, Present,
            Once, Twice, InPair, PairSteps
      <4> QED  BY <2>7, <3>3, <4>1 DEF RLeave, RWriteError, Progress, InPair
    <3> QED  BY <3>1, <3>2, <3>3
  <2> QED  BY <1>2, <2>1, <2>2, <2>3, <2>4, <2>5, <2>6, <2>7 DEF ReaderStep
<1>3. ASSUME NEW p \in Procs, Exit(p) \/ Crash(p) \/ SemopFails(p)
      PROVE  Progress(v, u)'
  <2>1. CASE Exit(p)
    <3>1. CASE p = v \/ p = u  BY <2>1, <3>1 DEF Exit, Progress, InPair, PairSteps
    <3>2. CASE p # v /\ p # u /\ InPair(v) /\ InPair(u) /\ ~Finished(v)
      <4>1. sem'["PRINT"] = sem["PRINT"]
            BY <2>1, <3>2, UndoKeeps DEF Exit, Twice, InPair
      <4>2. out'[u] = out[u] /\ Given(v, u)' = Given(v, u)
            BY <2>1, <3>2, <4>1 DEF Exit, Given, OnItsWay
      <4> QED  BY <3>2, <4>2, GivenSame
    <3>3. CASE p # v /\ p # u /\ ~(InPair(v) /\ InPair(u) /\ ~Finished(v))  BY <2>1,
          <3>3 DEF Exit, Undo, NoAdj, Progress, InPair, Finished
    <3> QED  BY <3>1, <3>2, <3>3
  <2>2. CASE Crash(p)
    <3>1. CASE p = v \/ p = u  BY <2>2, <3>1 DEF Crash, Progress, InPair, PairSteps
    <3>2. CASE p # v /\ p # u /\ InPair(v) /\ InPair(u) /\ ~Finished(v)
      <4>1. sem'["PRINT"] = sem["PRINT"]
            BY <2>2, <3>2, UndoKeeps DEF Crash, Twice, InPair
      <4>2. out'[u] = out[u] /\ Given(v, u)' = Given(v, u)
            BY <2>2, <3>2, <4>1 DEF Crash, Given, OnItsWay
      <4> QED  BY <3>2, <4>2, GivenSame
    <3>3. CASE p # v /\ p # u /\ ~(InPair(v) /\ InPair(u) /\ ~Finished(v))  BY <2>2,
          <3>3 DEF Crash, Undo, NoAdj, Progress, InPair, Finished
    <3> QED  BY <3>1, <3>2, <3>3
  <2>3. CASE SemopFails(p)  BY <2>3 DEF SemopFails
  <2> QED  BY <1>3, <2>1, <2>2, <2>3
<1>4. CASE RemoveAll  BY <1>4 DEF RemoveAll
<1>5. CASE UNCHANGED vars  BY <1>5 DEF vars, Progress, Printed, Given, OnItsWay, InPair, Finished
<1> QED  BY <1>1, <1>2, <1>3, <1>4, <1>5 DEF Next, Orderly, Failure

(* A reader prints nothing before its loop.                                  *)
LEMMA EarlyDataStep ==
  ASSUME StepType, DataType, EarlyData, [Next]_vars
  PROVE  EarlyData'
<1> USE ProcsAssumption DEF Procs, WriterSteps, ReaderSteps, StepType, Goto, data,
      EarlyData, Early
<1>1. ASSUME NEW w \in Writers, WriterStep(w) \/ WReadError(w)
      PROVE  EarlyData'
  <2>1. CASE \/ WEnter(w) \/ WPairWait(w) \/ WAnnounce(w) \/ WMeet(w)
             \/ WTakeMemory(w)
        BY <2>1 DEF WEnter, WPairWait, WAnnounce, WMeet, WTakeMemory
  <2>2. CASE WSetPrint(w)  BY <2>2 DEF WSetPrint, SetVal
  <2>3. CASE \/ WAlone(w) \/ WRead(w) \/ WReadEOF(w) \/ WCopyBegin(w) \/ WCopyEnd(w)
        BY <2>3 DEF WAlone, WRead, WReadEOF, WCopyBegin, WCopyEnd
  <2>4. CASE \/ WPostPrint(w) \/ WFinish(w) \/ WLeave(w) \/ WReadError(w)
        BY <2>4 DEF WPostPrint, WFinish, WLeave, WReadError
  <2> QED  BY <1>1, <2>1, <2>2, <2>3, <2>4 DEF WriterStep
<1>2. ASSUME NEW r \in Readers, ReaderStep(r) \/ RWriteError(r)
      PROVE  EarlyData'
  <2>1. CASE \/ REnter(r) \/ RPairWait(r) \/ RAnnounce(r) \/ RMeet(r) \/ RTakePrint(r)
        BY <2>1 DEF REnter, RPairWait, RAnnounce, RMeet, RTakePrint
  <2>2. CASE RSetMemory(r)  BY <2>2 DEF RSetMemory, SetVal
  <2>3. CASE \/ RStop(r) \/ RCopy(r) \/ RPostMemory(r) \/ RLeave(r) \/ RWriteError(r)
        BY <2>3 DEF RStop, RCopy, RPostMemory, RLeave, RWriteError
  <2>4. CASE RWrite(r)
    <3>1. ASSUME NEW u \in Readers, pc'[u] \in Early  PROVE out'[u] = <<>>
      <4>1. u # r /\ pc[u] \in Early  BY <2>4, <3>1 DEF RWrite
      <4> QED  BY <2>4, <4>1 DEF RWrite, DataType
    <3> QED  BY <3>1
  <2> QED  BY <1>2, <2>1, <2>2, <2>3, <2>4 DEF ReaderStep
<1>3. ASSUME NEW p \in Procs, Exit(p) \/ Crash(p) \/ SemopFails(p)
      PROVE  EarlyData'
  <2>1. CASE Exit(p)  BY <2>1 DEF Exit, Undo, NoAdj
  <2>2. CASE Crash(p)  BY <2>2 DEF Crash, Undo, NoAdj
  <2>3. CASE SemopFails(p)  BY <2>3 DEF SemopFails
  <2> QED  BY <1>3, <2>1, <2>2, <2>3
<1>4. CASE RemoveAll  BY <1>4 DEF RemoveAll
<1>5. CASE UNCHANGED vars  BY <1>5 DEF vars
<1> QED  BY <1>1, <1>2, <1>3, <1>4, <1>5 DEF Next, Orderly, Failure

(* A writer posts the buffer it has read, and none before or after its file. *)
LEMMA KeptStep ==
  ASSUME NEW v \in Writers, StepType, DataType, OneOfEach, Kept(v), [Next]_vars
  PROVE  Kept(v)'
<1> USE ProcsAssumption DEF Procs, WriterSteps, ReaderSteps, StepType, Goto, data,
      DataType, Kept, Early, OneOfEach, Present, Once, Twice, PairSteps
<1>1. ASSUME NEW w \in Writers, WriterStep(w) \/ WReadError(w)
      PROVE  Kept(v)'
  <2>1. CASE \/ WEnter(w) \/ WPairWait(w) \/ WAnnounce(w) \/ WMeet(w)
             \/ WTakeMemory(w)
        BY <2>1 DEF WEnter, WPairWait, WAnnounce, WMeet, WTakeMemory
  <2>2. CASE WSetPrint(w)  BY <2>2 DEF WSetPrint, SetVal
  <2>3. CASE \/ WAlone(w) \/ WRead(w) \/ WReadEOF(w) \/ WCopyBegin(w) \/ WCopyEnd(w)
        BY <2>3 DEF WAlone, WRead, WReadEOF, WCopyBegin, WCopyEnd
  <2>4. CASE \/ WPostPrint(w) \/ WFinish(w) \/ WLeave(w) \/ WReadError(w)
        BY <2>4 DEF WPostPrint, WFinish, WLeave, WReadError
  <2> QED  BY <1>1, <2>1, <2>2, <2>3, <2>4 DEF WriterStep
<1>2. ASSUME NEW r \in Readers, ReaderStep(r) \/ RWriteError(r)
      PROVE  Kept(v)'
  <2>1. CASE \/ REnter(r) \/ RPairWait(r) \/ RAnnounce(r) \/ RMeet(r) \/ RTakePrint(r)
        BY <2>1 DEF REnter, RPairWait, RAnnounce, RMeet, RTakePrint
  <2>2. CASE RSetMemory(r)  BY <2>2 DEF RSetMemory, SetVal
  <2>3. CASE \/ RStop(r) \/ RCopy(r) \/ RPostMemory(r) \/ RLeave(r) \/ RWriteError(r)
        BY <2>3 DEF RStop, RCopy, RPostMemory, RLeave, RWriteError
  <2>4. CASE RWrite(r)  BY <2>4 DEF RWrite
  <2> QED  BY <1>2, <2>1, <2>2, <2>3, <2>4 DEF ReaderStep
<1>3. ASSUME NEW p \in Procs, Exit(p) \/ Crash(p) \/ SemopFails(p)
      PROVE  Kept(v)'
  <2>1. CASE Exit(p)  BY <2>1 DEF Exit, Undo, NoAdj
  <2>2. CASE Crash(p)  BY <2>2 DEF Crash, Undo, NoAdj
  <2>3. CASE SemopFails(p)  BY <2>3 DEF SemopFails
  <2> QED  BY <1>3, <2>1, <2>2, <2>3
<1>4. CASE RemoveAll  BY <1>4 DEF RemoveAll
<1>5. CASE UNCHANGED vars  BY <1>5 DEF vars
<1> QED  BY <1>1, <1>2, <1>3, <1>4, <1>5 DEF Next, Orderly, Failure

(* What reader u has taken stays taken while it prints nothing, nobody joins the *)
(* session and its writer reads nothing.                                          *)
LEMMA TookNext ==
  ASSUME NEW u \in Readers, out'[u] = out[u], len' = len,
         \A v \in Writers : InPair(v)' => InPair(v) /\ pos'[v] = pos[v]
  PROVE  /\ NextIs(u, shm) /\ shm' = shm => NextIs(u, shm)'
         /\ NextIs(u, buf[u]) /\ buf'[u] = buf[u] => NextIs(u, buf[u])'
         /\ NextIs(u, shm) /\ buf'[u] = shm => NextIs(u, buf[u])'
<1>1. ASSUME NEW w \in Writers, NEW k \in 0 .. MaxLen, Printed(u, w, k)
      PROVE  Printed(u, w, k)'
      BY <1>1 DEF Printed
<1>2. ASSUME NextIs(u, shm), shm' = shm  PROVE NextIs(u, shm)'
      BY <1>1, <1>2 DEF NextIs
<1>3. ASSUME NextIs(u, buf[u]), buf'[u] = buf[u]  PROVE NextIs(u, buf[u])'
      BY <1>1, <1>3 DEF NextIs
<1>4. ASSUME NextIs(u, shm), buf'[u] = shm  PROVE NextIs(u, buf[u])'
      BY <1>1, <1>4 DEF NextIs
<1> QED  BY <1>2, <1>3, <1>4

(* While FINISH is 0 nobody holds it up. *)
LEMMA NoFinish ==
  ASSUME FinishInv, sem["FINISH"] = 0, NEW w \in Writers
  PROVE  ~Finished(w)
<1>1. IsFiniteSet(Finishers)  BY ProcsAssumption, FS_Subset DEF Finishers
<1>2. Finishers = {}  BY <1>1, FS_EmptySet DEF FinishInv
<1> QED  BY <1>2 DEF Finishers

(* The buffer a reader has taken is the next one of the file it prints.      *)
LEMMA TookStep ==
  ASSUME NEW u \in Readers, TypeOK, DataType, OneOfEach, OneToken, WriterData,
         (~removed => PairInv), (~removed => FinishInv), (~removed => MeetInv),
         (~removed => ReadyInv), (~removed => SessionData), Took(u), [Next]_vars
  PROVE  Took(u)'
<1> USE ProcsAssumption DEF Procs, WriterSteps, ReaderSteps, StepType, Goto, data,
      TypeOK
<1>1. ASSUME NEW w \in Writers, WriterStep(w) \/ WReadError(w)
      PROVE  Took(u)'
  <2>1. CASE \/ WEnter(w) \/ WPairWait(w) \/ WAnnounce(w) \/ WTakeMemory(w)
             \/ WAlone(w)
    <3>1. /\ out'[u] = out[u] /\ len' = len /\ shm' = shm /\ buf'[u] = buf[u]
          /\ \A v \in Writers : InPair(v)' => InPair(v) /\ pos'[v] = pos[v]
          BY <2>1 DEF WEnter, WPairWait, WAnnounce, WTakeMemory, WAlone, InPair, PairSteps
    <3>2. (pc'[u] = "rcopy" => pc[u] = "rcopy") /\ (pc'[u] = "rwrite" => pc[u] = "rwrite")
          BY <2>1 DEF WEnter, WPairWait, WAnnounce, WTakeMemory, WAlone
    <3> QED  BY <3>1, <3>2, TookNext DEF Took
  <2>2. CASE WSetPrint(w)
    <3>1. /\ out'[u] = out[u] /\ len' = len /\ shm' = shm /\ buf'[u] = buf[u]
          /\ \A v \in Writers : InPair(v)' => InPair(v) /\ pos'[v] = pos[v]
          BY <2>2 DEF WSetPrint, SetVal, InPair, PairSteps
    <3>2. (pc'[u] = "rcopy" => pc[u] = "rcopy") /\ (pc'[u] = "rwrite" => pc[u] = "rwrite")
          BY <2>2 DEF WSetPrint, SetVal
    <3> QED  BY <3>1, <3>2, TookNext DEF Took
  <2>3. CASE WMeet(w)
    <3>1. pc'[u] \notin {"rcopy", "rwrite"}
      <4>1. InPair(u) => pc[u] \in {"loop", "leave"}  BY <2>3 DEF WMeet, Goto, MeetInv, Meet
      <4> QED  BY <2>3, <4>1 DEF WMeet, InPair, PairSteps
    <3> QED  BY <3>1 DEF Took
  <2>4. CASE \/ WRead(w) \/ WCopyBegin(w) \/ WCopyEnd(w)
    <3>1. pc'[u] \notin {"rcopy", "rwrite"}  BY <2>4 DEF WRead, WCopyBegin, WCopyEnd,
          OneToken, HasToken, TokenSteps
    <3> QED  BY <3>1 DEF Took
  <2>5. CASE \/ WReadEOF(w) \/ WPostPrint(w) \/ WFinish(w) \/ WLeave(w)
             \/ WReadError(w)
    <3>1. /\ out'[u] = out[u] /\ len' = len /\ shm' = shm /\ buf'[u] = buf[u]
          /\ \A v \in Writers : InPair(v)' => InPair(v) /\ pos'[v] = pos[v]
          BY <2>5 DEF WReadEOF, WPostPrint, WFinish, WLeave, WReadError, InPair, PairSteps
    <3>2. (pc'[u] = "rcopy" => pc[u] = "rcopy") /\ (pc'[u] = "rwrite" => pc[u] = "rwrite")
          BY <2>5 DEF WReadEOF, WPostPrint, WFinish, WLeave, WReadError
    <3> QED  BY <3>1, <3>2, TookNext DEF Took
  <2> QED  BY <1>1, <2>1, <2>2, <2>3, <2>4, <2>5 DEF WriterStep
<1>2. ASSUME NEW r \in Readers, ReaderStep(r) \/ RWriteError(r)
      PROVE  Took(u)'
  <2>1. CASE \/ REnter(r) \/ RPairWait(r) \/ RAnnounce(r) \/ RMeet(r) \/ RStop(r)
    <3>1. /\ out'[u] = out[u] /\ len' = len /\ shm' = shm /\ buf'[u] = buf[u]
          /\ \A v \in Writers : InPair(v)' => InPair(v) /\ pos'[v] = pos[v]
          BY <2>1 DEF REnter, RPairWait, RAnnounce, RMeet, RStop, InPair, PairSteps
    <3>2. (pc'[u] = "rcopy" => pc[u] = "rcopy") /\ (pc'[u] = "rwrite" => pc[u] = "rwrite")
          BY <2>1 DEF REnter, RPairWait, RAnnounce, RMeet, RStop
    <3> QED  BY <3>1, <3>2, TookNext DEF Took
  <2>2. CASE RSetMemory(r)
    <3>1. /\ out'[u] = out[u] /\ len' = len /\ shm' = shm /\ buf'[u] = buf[u]
          /\ \A v \in Writers : InPair(v)' => InPair(v) /\ pos'[v] = pos[v]
          BY <2>2 DEF RSetMemory, SetVal, InPair, PairSteps
    <3>2. (pc'[u] = "rcopy" => pc[u] = "rcopy") /\ (pc'[u] = "rwrite" => pc[u] = "rwrite")
          BY <2>2 DEF RSetMemory, SetVal
    <3> QED  BY <3>1, <3>2, TookNext DEF Took
  <2>3. CASE RTakePrint(r)
    <3>1. CASE r = u
      <4>1. ~removed /\ InPair(u) /\ pc[u] = "loop" /\ sem["PRINT"] >= 1
            BY <2>3, <3>1 DEF RTakePrint, InPair, PairSteps
      <4>2. PICK v \in Writers : InPair(v)  BY <2>3, <4>1, PairCount DEF RTakePrint
      <4>3. \A y \in Writers : InPair(y) => y = v  BY <4>2 DEF OneOfEach, Present, Twice, InPair
      <4>4. ~Finished(v)  BY <2>3, NoFinish DEF RTakePrint
      <4>5. pos[v] >= 1 /\ shm = <<v, pos[v]>>  BY <4>1, <4>2, <4>4 DEF ReadyInv, Ready
      <4>6. Printed(u, v, pos[v] - 1)
            BY <4>1, <4>2, <4>4 DEF SessionData, Progress, Given, OnItsWay
      <4>7. pos[v] <= len[v] /\ pos[v] - 1 \in 0 .. MaxLen  BY <4>5, MaxLenAssumption
            DEF WriterData, Kept, DataType
      <4>8. NextIs(u, shm)
        <5> DEFINE k == pos[v] - 1
        <5>1. k \in 0 .. MaxLen /\ k < len[v] /\ pos[v] = k + 1  BY <4>7 DEF DataType
        <5>2. Printed(u, v, k) /\ shm = <<v, k + 1>>  BY <4>5, <4>6, <5>1
        <5> HIDE DEF k
        <5> QED  BY <4>3, <5>1, <5>2 DEF NextIs
      <4>9. /\ out'[u] = out[u] /\ len' = len /\ shm = shm' /\ pc'[u] = "rcopy"
            /\ \A y \in Writers : InPair(y)' => InPair(y) /\ pos'[y] = pos[y]
            BY <2>3, <3>1 DEF RTakePrint, InPair, PairSteps
      <4> QED  BY <4>8, <4>9, TookNext DEF Took
    <3>2. CASE r # u
      <4>1. /\ out'[u] = out[u] /\ len' = len /\ shm' = shm /\ buf'[u] = buf[u]
            /\ \A v \in Writers : InPair(v)' => InPair(v) /\ pos'[v] = pos[v]
            BY <2>3, <3>2 DEF RTakePrint, InPair, PairSteps
      <4>2. (pc'[u] = "rcopy" => pc[u] = "rcopy") /\ (pc'[u] = "rwrite" => pc[u] = "rwrite")
            BY <2>3, <3>2 DEF RTakePrint
      <4> QED  BY <4>1, <4>2, TookNext DEF Took
    <3> QED  BY <3>1, <3>2
  <2>4. CASE RCopy(r)
    <3>1. CASE r = u
      <4>1. NextIs(u, shm)  BY <2>4, <3>1 DEF RCopy, Took
      <4>2. /\ out'[u] = out[u] /\ len' = len /\ shm = buf'[u] /\ pc'[u] = "rwrite"
            /\ \A v \in Writers : InPair(v)' => InPair(v) /\ pos'[v] = pos[v]
            BY <2>4, <3>1 DEF RCopy, DataType, InPair, PairSteps
      <4> QED  BY <4>1, <4>2, TookNext DEF Took
    <3>2. CASE r # u
      <4>1. /\ out'[u] = out[u] /\ len' = len /\ shm' = shm /\ buf'[u] = buf[u]
            /\ \A v \in Writers : InPair(v)' => InPair(v) /\ pos'[v] = pos[v]
            BY <2>4, <3>2 DEF RCopy, InPair, PairSteps
      <4>2. (pc'[u] = "rcopy" => pc[u] = "rcopy") /\ (pc'[u] = "rwrite" => pc[u] = "rwrite")
            BY <2>4, <3>2 DEF RCopy
      <4> QED  BY <4>1, <4>2, TookNext DEF Took
    <3> QED  BY <3>1, <3>2
  <2>5. CASE RWrite(r)
    <3>1. CASE r = u  BY <2>5, <3>1 DEF RWrite, Took
    <3>2. CASE r # u
      <4>1. /\ out'[u] = out[u] /\ len' = len /\ shm' = shm /\ buf'[u] = buf[u]
            /\ \A v \in Writers : InPair(v)' => InPair(v) /\ pos'[v] = pos[v]
            BY <2>5, <3>2 DEF RWrite, InPair, PairSteps
      <4>2. (pc'[u] = "rcopy" => pc[u] = "rcopy") /\ (pc'[u] = "rwrite" => pc[u] = "rwrite")
            BY <2>5, <3>2 DEF RWrite
      <4> QED  BY <4>1, <4>2, TookNext DEF Took
    <3> QED  BY <3>1, <3>2
  <2>6. CASE \/ RPostMemory(r) \/ RLeave(r) \/ RWriteError(r)
    <3>1. /\ out'[u] = out[u] /\ len' = len /\ shm' = shm /\ buf'[u] = buf[u]
          /\ \A v \in Writers : InPair(v)' => InPair(v) /\ pos'[v] = pos[v]
          BY <2>6 DEF RPostMemory, RLeave, RWriteError, InPair, PairSteps
    <3>2. (pc'[u] = "rcopy" => pc[u] = "rcopy") /\ (pc'[u] = "rwrite" => pc[u] = "rwrite")
          BY <2>6 DEF RPostMemory, RLeave, RWriteError
    <3> QED  BY <3>1, <3>2, TookNext DEF Took
  <2> QED  BY <1>2, <2>1, <2>2, <2>3, <2>4, <2>5, <2>6 DEF ReaderStep
<1>3. ASSUME NEW p \in Procs, Exit(p) \/ Crash(p) \/ SemopFails(p)
      PROVE  Took(u)'
  <2>1. CASE Exit(p)
    <3>1. /\ out'[u] = out[u] /\ len' = len /\ shm' = shm /\ buf'[u] = buf[u]
          /\ \A v \in Writers : InPair(v)' => InPair(v) /\ pos'[v] = pos[v]
          BY <2>1 DEF Exit, Undo, NoAdj, InPair, PairSteps
    <3>2. (pc'[u] = "rcopy" => pc[u] = "rcopy") /\ (pc'[u] = "rwrite" => pc[u] = "rwrite")
          BY <2>1 DEF Exit, Undo, NoAdj
    <3> QED  BY <3>1, <3>2, TookNext DEF Took
  <2>2. CASE Crash(p)
    <3>1. /\ out'[u] = out[u] /\ len' = len /\ shm' = shm /\ buf'[u] = buf[u]
          /\ \A v \in Writers : InPair(v)' => InPair(v) /\ pos'[v] = pos[v]
          BY <2>2 DEF Crash, Undo, NoAdj, InPair, PairSteps
    <3>2. (pc'[u] = "rcopy" => pc[u] = "rcopy") /\ (pc'[u] = "rwrite" => pc[u] = "rwrite")
          BY <2>2 DEF Crash, Undo, NoAdj
    <3> QED  BY <3>1, <3>2, TookNext DEF Took
  <2>3. CASE SemopFails(p)
    <3>1. /\ out'[u] = out[u] /\ len' = len /\ shm' = shm /\ buf'[u] = buf[u]
          /\ \A v \in Writers : InPair(v)' => InPair(v) /\ pos'[v] = pos[v]
          BY <2>3 DEF SemopFails, InPair, PairSteps
    <3>2. (pc'[u] = "rcopy" => pc[u] = "rcopy") /\ (pc'[u] = "rwrite" => pc[u] = "rwrite")
          BY <2>3 DEF SemopFails
    <3> QED  BY <3>1, <3>2, TookNext DEF Took
  <2> QED  BY <1>3, <2>1, <2>2, <2>3
<1>4. CASE RemoveAll
  <2>1. /\ out'[u] = out[u] /\ len' = len /\ shm' = shm /\ buf'[u] = buf[u]
        /\ \A v \in Writers : InPair(v)' => InPair(v) /\ pos'[v] = pos[v]
        BY <1>4 DEF RemoveAll, InPair, PairSteps
  <2>2. (pc'[u] = "rcopy" => pc[u] = "rcopy") /\ (pc'[u] = "rwrite" => pc[u] = "rwrite")
        BY <1>4 DEF RemoveAll
  <2> QED  BY <2>1, <2>2, TookNext DEF Took
<1>5. CASE UNCHANGED vars
  <2>1. /\ out'[u] = out[u] /\ len' = len /\ shm' = shm /\ buf'[u] = buf[u]
        /\ \A v \in Writers : InPair(v)' => InPair(v) /\ pos'[v] = pos[v]
        BY <1>5 DEF vars, InPair, PairSteps
  <2>2. (pc'[u] = "rcopy" => pc[u] = "rcopy") /\ (pc'[u] = "rwrite" => pc[u] = "rwrite")
        BY <1>5 DEF vars
  <2> QED  BY <2>1, <2>2, TookNext DEF Took
<1> QED  BY <1>1, <1>2, <1>3, <1>4, <1>5 DEF Next, Orderly, Failure

(* Nothing changes about what was heard of writer v while no reader that heard it prints. *)
LEMMA HeardSame ==
  ASSUME NEW v \in Writers, Heard(v), len' = len,
         \A r \in Readers : pc[r] \notin {"rcopy", "rwrite"} =>
           out'[r] = out[r] /\ pc'[r] \notin {"rcopy", "rwrite"},
         pc'[v] \in {"read", "finish"} => pc[v] \in {"read", "finish"} /\ pos'[v] = pos[v],
         Finished(v)' => Finished(v)
  PROVE  Heard(v)'
<1>1. ASSUME NEW r \in Readers, NEW k, HeardBy(r, v, k)
      PROVE  /\ Len(out'[r]) = k /\ \A i \in 1 .. k : out'[r][i] = <<v, i>>
             /\ pc'[r] \notin {"rcopy", "rwrite"}
      BY <1>1 DEF HeardBy, Printed
<1>2. ASSUME pc'[v] \in {"read", "finish"}
      PROVE  \E r \in Readers : HeardBy(r, v, pos[v])'
  <2>1. PICK r \in Readers : HeardBy(r, v, pos[v])  BY <1>2 DEF Heard
  <2>2. pos'[v] = pos[v]  BY <1>2
  <2> QED  BY <1>1, <2>1, <2>2 DEF HeardBy, Printed
<1>3. ASSUME Finished(v)'
      PROVE  \E r \in Readers : HeardBy(r, v, len[v])'
  <2>1. PICK r \in Readers : HeardBy(r, v, len[v])  BY <1>3 DEF Heard
  <2> QED  BY <1>1, <2>1 DEF HeardBy, Printed
<1> QED  BY <1>2, <1>3 DEF Heard

(* A writer reaches the end of its file, and says so, after all of it was    *)
(* printed.                                                                  *)
LEMMA HeardStep ==
  ASSUME NEW v \in Writers, TypeOK, DataType, OneOfEach, FinishAdj, WriterData,
         HeardInv, Heard(v), (~removed => PairInv), (~removed => FinishInv), (~removed
         => TokenSum), (~removed => SessionData), [Next]_vars
  PROVE  Heard(v)'
<1> USE ProcsAssumption DEF Procs, WriterSteps, ReaderSteps, StepType, Goto, data,
      Sems, TypeOK
<1>1. ASSUME NEW w \in Writers, WriterStep(w) \/ WReadError(w)
      PROVE  Heard(v)'
  <2>1. CASE \/ WEnter(w) \/ WPairWait(w) \/ WAnnounce(w) \/ WMeet(w) \/ WAlone(w)
    <3>1. /\ len' = len
          /\ \A r1 \in Readers : pc[r1] \notin {"rcopy", "rwrite"} =>
               out'[r1] = out[r1] /\ pc'[r1] \notin {"rcopy", "rwrite"}
          /\ pc'[v] \in {"read", "finish"} =>
               pc[v] \in {"read", "finish"} /\ pos'[v] = pos[v]
          /\ Finished(v)' => Finished(v)
          BY <2>1 DEF WEnter, WPairWait, WAnnounce, WMeet, WAlone, Finished
    <3> QED  BY <3>1, HeardSame
  <2>2. CASE WSetPrint(w)
    <3>1. /\ len' = len
          /\ \A r1 \in Readers : pc[r1] \notin {"rcopy", "rwrite"} =>
               out'[r1] = out[r1] /\ pc'[r1] \notin {"rcopy", "rwrite"}
          /\ pc'[v] \in {"read", "finish"} =>
               pc[v] \in {"read", "finish"} /\ pos'[v] = pos[v]
          /\ Finished(v)' => Finished(v)
          BY <2>2 DEF WSetPrint, SetVal, Finished
    <3> QED  BY <3>1, HeardSame
  <2>3. CASE WTakeMemory(w)
    <3>1. CASE w = v
      <4>1. ~removed /\ InPair(v) /\ sem["MEMORY"] >= 1 /\ pc[v] = "loop"
            BY <2>3, <3>1 DEF WTakeMemory, InPair, PairSteps
      <4>2. PICK u \in Readers : InPair(u)  BY <2>3, <4>1, PairCount DEF WTakeMemory
      <4>3. sem["PRINT"] = 0 /\ pc[u] \notin {"rcopy", "rwrite"}
            BY <4>1, <4>2, WriterHasRight DEF TokenSum
      <4>4. ~Finished(v)  BY <4>1 DEF FinishAdj
      <4>5. Given(v, u) = pos[v]  BY <4>1, <4>3 DEF Given, OnItsWay
      <4>6. Printed(u, v, pos[v])  BY <4>1, <4>2, <4>4, <4>5 DEF SessionData, Progress
      <4>7. /\ out' = out /\ pos' = pos /\ pc'[u] = pc[u] /\ ~Finished(v)'
            BY <2>3, <3>1, <4>1, <4>2, <4>4 DEF WTakeMemory, Finished, InPair, PairSteps
      <4>8. HeardBy(u, v, pos[v])'  BY <4>3, <4>6, <4>7 DEF HeardBy, Printed
      <4> QED  BY <4>7, <4>8 DEF Heard
    <3>2. CASE w # v
      <4>1. /\ len' = len
            /\ \A r1 \in Readers : pc[r1] \notin {"rcopy", "rwrite"} =>
                 out'[r1] = out[r1] /\ pc'[r1] \notin {"rcopy", "rwrite"}
            /\ pc'[v] \in {"read", "finish"} =>
                 pc[v] \in {"read", "finish"} /\ pos'[v] = pos[v]
            /\ Finished(v)' => Finished(v)
            BY <2>3, <3>2 DEF WTakeMemory, Finished
      <4> QED  BY <4>1, HeardSame
    <3> QED  BY <3>1, <3>2
  <2>4. CASE WRead(w)
    <3>1. /\ len' = len
          /\ \A r1 \in Readers : pc[r1] \notin {"rcopy", "rwrite"} =>
               out'[r1] = out[r1] /\ pc'[r1] \notin {"rcopy", "rwrite"}
          /\ pc'[v] \in {"read", "finish"} =>
               pc[v] \in {"read", "finish"} /\ pos'[v] = pos[v]
          /\ Finished(v)' => Finished(v)
          BY <2>4 DEF WRead, Finished, DataType
    <3> QED  BY <3>1, HeardSame
  <2>5. CASE \/ WReadEOF(w) \/ WCopyBegin(w) \/ WCopyEnd(w) \/ WPostPrint(w)
             \/ WLeave(w)
    <3>1. /\ len' = len
          /\ \A r1 \in Readers : pc[r1] \notin {"rcopy", "rwrite"} =>
               out'[r1] = out[r1] /\ pc'[r1] \notin {"rcopy", "rwrite"}
          /\ pc'[v] \in {"read", "finish"} =>
               pc[v] \in {"read", "finish"} /\ pos'[v] = pos[v]
          /\ Finished(v)' => Finished(v)
          BY <2>5 DEF WReadEOF, WCopyBegin, WCopyEnd, WPostPrint, WLeave, Finished
    <3> QED  BY <3>1, HeardSame
  <2>6. CASE WFinish(w)
    <3>1. CASE w = v
      <4>1. PICK u \in Readers : HeardBy(u, v, pos[v])  BY <2>6, <3>1 DEF WFinish,
            HeardInv, Heard
      <4>2. pos[v] = len[v]  BY <2>6, <3>1 DEF WFinish, WriterData, Kept
      <4>3. /\ out' = out /\ len' = len /\ pc'[u] = pc[u]
            BY <2>6, <3>1 DEF WFinish
      <4>4. HeardBy(u, v, len[v])'  BY <4>1, <4>2, <4>3 DEF HeardBy, Printed
      <4>5. pc'[v] = "leave"  BY <2>6, <3>1 DEF WFinish
      <4> QED  BY <4>4, <4>5 DEF Heard
    <3>2. CASE w # v
      <4>1. /\ len' = len
            /\ \A r1 \in Readers : pc[r1] \notin {"rcopy", "rwrite"} =>
                 out'[r1] = out[r1] /\ pc'[r1] \notin {"rcopy", "rwrite"}
            /\ pc'[v] \in {"read", "finish"} =>
                 pc[v] \in {"read", "finish"} /\ pos'[v] = pos[v]
            /\ Finished(v)' => Finished(v)
            BY <2>6, <3>2 DEF WFinish, Finished
      <4> QED  BY <4>1, HeardSame
    <3> QED  BY <3>1, <3>2
  <2>7. CASE WReadError(w)
    <3>1. /\ len' = len
          /\ \A r1 \in Readers : pc[r1] \notin {"rcopy", "rwrite"} =>
               out'[r1] = out[r1] /\ pc'[r1] \notin {"rcopy", "rwrite"}
          /\ pc'[v] \in {"read", "finish"} =>
               pc[v] \in {"read", "finish"} /\ pos'[v] = pos[v]
          /\ Finished(v)' => Finished(v)
          BY <2>7 DEF WReadError, Finished
    <3> QED  BY <3>1, HeardSame
  <2> QED  BY <1>1, <2>1, <2>2, <2>3, <2>4, <2>5, <2>6, <2>7 DEF WriterStep
<1>2. ASSUME NEW r \in Readers, ReaderStep(r) \/ RWriteError(r)
      PROVE  Heard(v)'
  <2>1. CASE \/ REnter(r) \/ RPairWait(r) \/ RAnnounce(r) \/ RMeet(r) \/ RStop(r)
    <3>1. /\ len' = len
          /\ \A r1 \in Readers : pc[r1] \notin {"rcopy", "rwrite"} =>
               out'[r1] = out[r1] /\ pc'[r1] \notin {"rcopy", "rwrite"}
          /\ pc'[v] \in {"read", "finish"} =>
               pc[v] \in {"read", "finish"} /\ pos'[v] = pos[v]
          /\ Finished(v)' => Finished(v)
          BY <2>1 DEF REnter, RPairWait, RAnnounce, RMeet, RStop, Finished
    <3> QED  BY <3>1, HeardSame
  <2>2. CASE RSetMemory(r)
    <3>1. /\ len' = len
          /\ \A r1 \in Readers : pc[r1] \notin {"rcopy", "rwrite"} =>
               out'[r1] = out[r1] /\ pc'[r1] \notin {"rcopy", "rwrite"}
          /\ pc'[v] \in {"read", "finish"} =>
               pc[v] \in {"read", "finish"} /\ pos'[v] = pos[v]
          /\ Finished(v)' => Finished(v)
          BY <2>2 DEF RSetMemory, SetVal, Finished
    <3> QED  BY <3>1, HeardSame
  <2>3. CASE RTakePrint(r)
    <3>1. ~removed /\ InPair(r) /\ sem["PRINT"] >= 1  BY <2>3 DEF RTakePrint, InPair, PairSteps
    <3>2. ~Finished(v)'
      <4>1. ~Finished(v)  BY <2>3, <3>1, NoFinish DEF RTakePrint
      <4> QED  BY <2>3, <4>1 DEF RTakePrint, Finished
    <3>3. pc'[v] \notin {"read", "finish"}
      <4>1. SUFFICES ASSUME pc[v] \in {"read", "finish"}  PROVE FALSE  BY <2>3 DEF RTakePrint
      <4>2. InPair(v)  BY <4>1 DEF InPair, PairSteps
      <4> QED  BY <3>1, <4>1, <4>2, ReaderHasRight DEF TokenSum
    <3> QED  BY <3>2, <3>3 DEF Heard
  <2>4. CASE \/ RCopy(r) \/ RPostMemory(r) \/ RLeave(r) \/ RWriteError(r)
    <3>1. /\ len' = len
          /\ \A r1 \in Readers : pc[r1] \notin {"rcopy", "rwrite"} =>
               out'[r1] = out[r1] /\ pc'[r1] \notin {"rcopy", "rwrite"}
          /\ pc'[v] \in {"read", "finish"} =>
               pc[v] \in {"read", "finish"} /\ pos'[v] = pos[v]
          /\ Finished(v)' => Finished(v)
          BY <2>4 DEF RCopy, RPostMemory, RLeave, RWriteError, Finished
    <3> QED  BY <3>1, HeardSame
  <2>5. CASE RWrite(r)
    <3>1. /\ len' = len
          /\ \A r1 \in Readers : pc[r1] \notin {"rcopy", "rwrite"} =>
               out'[r1] = out[r1] /\ pc'[r1] \notin {"rcopy", "rwrite"}
          /\ pc'[v] \in {"read", "finish"} =>
               pc[v] \in {"read", "finish"} /\ pos'[v] = pos[v]
          /\ Finished(v)' => Finished(v)
          BY <2>5 DEF RWrite, Finished, DataType
    <3> QED  BY <3>1, HeardSame
  <2> QED  BY <1>2, <2>1, <2>2, <2>3, <2>4, <2>5 DEF ReaderStep
<1>3. ASSUME NEW p \in Procs, Exit(p) \/ Crash(p) \/ SemopFails(p)
      PROVE  Heard(v)'
  <2>1. CASE Exit(p)
    <3>1. /\ len' = len
          /\ \A r1 \in Readers : pc[r1] \notin {"rcopy", "rwrite"} =>
               out'[r1] = out[r1] /\ pc'[r1] \notin {"rcopy", "rwrite"}
          /\ pc'[v] \in {"read", "finish"} =>
               pc[v] \in {"read", "finish"} /\ pos'[v] = pos[v]
          /\ Finished(v)' => Finished(v)
          BY <2>1 DEF Exit, Undo, NoAdj, Finished
    <3> QED  BY <3>1, HeardSame
  <2>2. CASE Crash(p)
    <3>1. /\ len' = len
          /\ \A r1 \in Readers : pc[r1] \notin {"rcopy", "rwrite"} =>
               out'[r1] = out[r1] /\ pc'[r1] \notin {"rcopy", "rwrite"}
          /\ pc'[v] \in {"read", "finish"} =>
               pc[v] \in {"read", "finish"} /\ pos'[v] = pos[v]
          /\ Finished(v)' => Finished(v)
          BY <2>2 DEF Crash, Undo, NoAdj, Finished
    <3> QED  BY <3>1, HeardSame
  <2>3. CASE SemopFails(p)
    <3>1. /\ len' = len
          /\ \A r1 \in Readers : pc[r1] \notin {"rcopy", "rwrite"} =>
               out'[r1] = out[r1] /\ pc'[r1] \notin {"rcopy", "rwrite"}
          /\ pc'[v] \in {"read", "finish"} =>
               pc[v] \in {"read", "finish"} /\ pos'[v] = pos[v]
          /\ Finished(v)' => Finished(v)
          BY <2>3 DEF SemopFails, Finished
    <3> QED  BY <3>1, HeardSame
  <2> QED  BY <1>3, <2>1, <2>2, <2>3
<1>4. CASE RemoveAll
  <2>1. /\ len' = len
        /\ \A r1 \in Readers : pc[r1] \notin {"rcopy", "rwrite"} =>
             out'[r1] = out[r1] /\ pc'[r1] \notin {"rcopy", "rwrite"}
        /\ pc'[v] \in {"read", "finish"} =>
             pc[v] \in {"read", "finish"} /\ pos'[v] = pos[v]
        /\ Finished(v)' => Finished(v)
        BY <1>4 DEF RemoveAll, Finished
  <2> QED  BY <2>1, HeardSame
<1>5. CASE UNCHANGED vars
  <2>1. /\ len' = len
        /\ \A r1 \in Readers : pc[r1] \notin {"rcopy", "rwrite"} =>
             out'[r1] = out[r1] /\ pc'[r1] \notin {"rcopy", "rwrite"}
        /\ pc'[v] \in {"read", "finish"} =>
             pc[v] \in {"read", "finish"} /\ pos'[v] = pos[v]
        /\ Finished(v)' => Finished(v)
        BY <1>5 DEF vars, Finished
  <2> QED  BY <2>1, HeardSame
<1> QED  BY <1>1, <1>2, <1>3, <1>4, <1>5 DEF Next, Orderly, Failure

(* Nothing but the next buffer of the same file is added to what a reader    *)
(* prints.                                                                   *)
LEMMA OutputStep ==
  ASSUME StepType, DataType, ReaderData, OutputIsPrefix, [Next]_vars
  PROVE  OutputIsPrefix'
<1> USE ProcsAssumption DEF Procs, WriterSteps, ReaderSteps, StepType, Goto, data
<1>1. ASSUME NEW w \in Writers, WriterStep(w) \/ WReadError(w)
      PROVE  OutputIsPrefix'
  <2>1. CASE \/ WEnter(w) \/ WPairWait(w) \/ WAnnounce(w) \/ WMeet(w)
             \/ WTakeMemory(w)
    <3>1. out' = out /\ len' = len  BY <2>1 DEF WEnter, WPairWait, WAnnounce, WMeet, WTakeMemory
    <3> QED  BY <3>1 DEF OutputIsPrefix, Printed
  <2>2. CASE WSetPrint(w)
    <3>1. out' = out /\ len' = len  BY <2>2 DEF WSetPrint, SetVal
    <3> QED  BY <3>1 DEF OutputIsPrefix, Printed
  <2>3. CASE \/ WAlone(w) \/ WRead(w) \/ WReadEOF(w) \/ WCopyBegin(w) \/ WCopyEnd(w)
    <3>1. out' = out /\ len' = len  BY <2>3 DEF WAlone, WRead, WReadEOF, WCopyBegin, WCopyEnd
    <3> QED  BY <3>1 DEF OutputIsPrefix, Printed
  <2>4. CASE \/ WPostPrint(w) \/ WFinish(w) \/ WLeave(w) \/ WReadError(w)
    <3>1. out' = out /\ len' = len  BY <2>4 DEF WPostPrint, WFinish, WLeave, WReadError
    <3> QED  BY <3>1 DEF OutputIsPrefix, Printed
  <2> QED  BY <1>1, <2>1, <2>2, <2>3, <2>4 DEF WriterStep
<1>2. ASSUME NEW r \in Readers, ReaderStep(r) \/ RWriteError(r)
      PROVE  OutputIsPrefix'
  <2>1. CASE \/ REnter(r) \/ RPairWait(r) \/ RAnnounce(r) \/ RMeet(r) \/ RTakePrint(r)
    <3>1. out' = out /\ len' = len  BY <2>1 DEF REnter, RPairWait, RAnnounce, RMeet, RTakePrint
    <3> QED  BY <3>1 DEF OutputIsPrefix, Printed
  <2>2. CASE RSetMemory(r)
    <3>1. out' = out /\ len' = len  BY <2>2 DEF RSetMemory, SetVal
    <3> QED  BY <3>1 DEF OutputIsPrefix, Printed
  <2>3. CASE \/ RStop(r) \/ RCopy(r) \/ RPostMemory(r) \/ RLeave(r) \/ RWriteError(r)
    <3>1. out' = out /\ len' = len  BY <2>3 DEF RStop, RCopy, RPostMemory, RLeave, RWriteError
    <3> QED  BY <3>1 DEF OutputIsPrefix, Printed
  <2>4. CASE RWrite(r)
    <3>1. PICK x \in Writers, k \in 0 .. MaxLen :
             k < len[x] /\ Printed(r, x, k) /\ buf[r] = <<x, k + 1>>
      <4>1. NextIs(r, buf[r])  BY <2>4 DEF RWrite, ReaderData, Took
      <4> QED  BY <4>1 DEF NextIs
    <3>2. /\ out' = [out EXCEPT ![r] = Append(@, <<x, k + 1>>)] /\ len' = len  BY <2>4,
          <3>1 DEF RWrite
    <3>3. Printed(r, x, k + 1)'  BY <3>1, <3>2, PrintedNext
    <3>4. k + 1 \in 1 .. MaxLen /\ k + 1 <= len'[x]  BY <3>1, <3>2, MaxLenAssumption DEF
          DataType
    <3>5. ASSUME NEW u \in Readers, u # r  PROVE out'[u] = out[u]  BY <3>2, <3>5 DEF DataType
    <3>6. ASSUME NEW u \in Readers, out'[u] # <<>>
          PROVE  \E y \in Writers, n \in 1 .. MaxLen : n <= len'[y] /\ Printed(u, y, n)'
      <4>1. CASE u = r  BY <3>3, <3>4, <4>1
      <4>2. CASE u # r  BY <3>2, <3>5, <3>6, <4>2 DEF OutputIsPrefix, Printed
      <4> QED  BY <4>1, <4>2
    <3> QED  BY <3>6 DEF OutputIsPrefix
  <2> QED  BY <1>2, <2>1, <2>2, <2>3, <2>4 DEF ReaderStep
<1>3. ASSUME NEW p \in Procs, Exit(p) \/ Crash(p) \/ SemopFails(p)
      PROVE  OutputIsPrefix'
  <2>1. CASE Exit(p)
    <3>1. out' = out /\ len' = len  BY <2>1 DEF Exit, Undo, NoAdj
    <3> QED  BY <3>1 DEF OutputIsPrefix, Printed
  <2>2. CASE Crash(p)
    <3>1. out' = out /\ len' = len  BY <2>2 DEF Crash, Undo, NoAdj
    <3> QED  BY <3>1 DEF OutputIsPrefix, Printed
  <2>3. CASE SemopFails(p)
    <3>1. out' = out /\ len' = len  BY <2>3 DEF SemopFails
    <3> QED  BY <3>1 DEF OutputIsPrefix, Printed
  <2> QED  BY <1>3, <2>1, <2>2, <2>3
<1>4. CASE RemoveAll
  <2>1. out' = out /\ len' = len  BY <1>4 DEF RemoveAll
  <2> QED  BY <2>1 DEF OutputIsPrefix, Printed
<1>5. CASE UNCHANGED vars
  <2>1. out' = out /\ len' = len  BY <1>5 DEF vars
  <2> QED  BY <2>1 DEF OutputIsPrefix, Printed
<1> QED  BY <1>1, <1>2, <1>3, <1>4, <1>5 DEF Next, Orderly, Failure

(* Who holds FINISH up is a matter of the adjustments only. *)
LEMMA FinishersSame ==
  ASSUME FinishInv, sem'["FINISH"] = sem["FINISH"],
         \A v \in Writers : Finished(v)' <=> Finished(v)
  PROVE  FinishInv'
<1>1. Finishers' = Finishers  BY DEF Finishers
<1> QED  BY <1>1 DEF FinishInv

(* The exit of p takes back what p holds of FINISH. *)
LEMMA FinishUndo ==
  ASSUME NEW p \in Procs, TypeOK, FinishInv, FinishAdj, AdjInv, Undo(p), ~removed
  PROVE  FinishInv'
<1>0. /\ \A v \in Writers : v # p => semadj'[v] = semadj[v]
      /\ semadj'[p]["FINISH"] = 0
      BY DEF Undo, TypeOK, NoAdj, Sems, Procs
<1>1. CASE p \in Writers /\ Finished(p)
  <2>1. IsFiniteSet(Finishers)  BY ProcsAssumption, FS_Subset DEF Finishers
  <2>2. p \in Finishers  BY <1>1 DEF Finishers
  <2>3. /\ Cardinality(Finishers \ {p}) = Cardinality(Finishers) - 1
        /\ Cardinality(Finishers) \in Nat /\ Cardinality(Finishers \ {p}) \in Nat
        BY <2>1, <2>2, FS_RemoveElement, FS_CardinalityType
  <2>4. Finishers' = Finishers \ {p}  BY <1>0 DEF Finishers, Finished
  <2>5. sem'["FINISH"] = sem["FINISH"] - 1
        BY <1>1, <2>3 DEF Undo, Sems, Finished, FinishInv
  <2> QED  BY <2>3, <2>4, <2>5 DEF FinishInv
<1>2. CASE ~(p \in Writers /\ Finished(p))
  <2>1. semadj[p]["FINISH"] = 0  BY <1>2 DEF FinishAdj, AdjInv, Finished, Procs
  <2>2. sem'["FINISH"] = sem["FINISH"]  BY <2>1 DEF Undo, TypeOK, Sems
  <2>3. \A v \in Writers : Finished(v)' <=> Finished(v)
        BY <1>0, <1>2 DEF Finished
  <2> QED  BY <2>2, <2>3, FinishersSame
<1> QED  BY <1>1, <1>2

(* FINISH counts the writers that hold it up.                                *)
LEMMA FinishInvStep ==
  ASSUME TypeOK, FinishInv, FinishAdj, AdjInv, ~removed', [Next]_vars
  PROVE  FinishInv'
<1> USE ProcsAssumption DEF Procs, WriterSteps, ReaderSteps, StepType, Goto, data,
      Sems, TypeOK
<1>1. ASSUME NEW w \in Writers, WriterStep(w) \/ WReadError(w)
      PROVE  FinishInv'
  <2>1. CASE \/ WEnter(w) \/ WPairWait(w) \/ WAnnounce(w) \/ WMeet(w)
             \/ WTakeMemory(w)
    <3>1. sem'["FINISH"] = sem["FINISH"] /\ \A v \in Writers : Finished(v)' <=> Finished(v)
          BY <2>1 DEF WEnter, WPairWait, WAnnounce, WMeet, WTakeMemory, Finished
    <3> QED  BY <3>1, FinishersSame
  <2>2. CASE WSetPrint(w)
    <3>1. sem'["FINISH"] = sem["FINISH"] /\ \A v \in Writers : Finished(v)' <=> Finished(v)
          BY <2>2 DEF WSetPrint, SetVal, Finished
    <3> QED  BY <3>1, FinishersSame
  <2>3. CASE \/ WAlone(w) \/ WRead(w) \/ WReadEOF(w) \/ WCopyBegin(w) \/ WCopyEnd(w)
    <3>1. sem'["FINISH"] = sem["FINISH"] /\ \A v \in Writers : Finished(v)' <=> Finished(v)
          BY <2>3 DEF WAlone, WRead, WReadEOF, WCopyBegin, WCopyEnd, Finished
    <3> QED  BY <3>1, FinishersSame
  <2>4. CASE \/ WPostPrint(w) \/ WLeave(w) \/ WReadError(w)
    <3>1. sem'["FINISH"] = sem["FINISH"] /\ \A v \in Writers : Finished(v)' <=> Finished(v)
          BY <2>4 DEF WPostPrint, WLeave, WReadError, Finished
    <3> QED  BY <3>1, FinishersSame
  <2>5. CASE WFinish(w)
    <3>1. semadj[w]["FINISH"] = 0  BY <2>5 DEF WFinish, FinishAdj, Finished
    <3>2. IsFiniteSet(Finishers)  BY ProcsAssumption, FS_Subset DEF Finishers
    <3>3. w \notin Finishers  BY <3>1 DEF Finishers, Finished
    <3>4. Finishers' = Finishers \cup {w}
      <4>1. /\ semadj'[w]["FINISH"] = -1
            /\ \A v \in Writers : v # w => semadj'[v] = semadj[v]
            BY <2>5, <3>1 DEF WFinish
      <4> QED  BY <4>1 DEF Finishers, Finished
    <3>5. Cardinality(Finishers \cup {w}) = Cardinality(Finishers) + 1
          BY <3>2, <3>3, FS_AddElement
    <3>6. sem'["FINISH"] = sem["FINISH"] + 1  BY <2>5 DEF WFinish
    <3> QED  BY <3>4, <3>5, <3>6 DEF FinishInv
  <2> QED  BY <1>1, <2>1, <2>2, <2>3, <2>4, <2>5 DEF WriterStep
<1>2. ASSUME NEW r \in Readers, ReaderStep(r) \/ RWriteError(r)
      PROVE  FinishInv'
  <2>1. CASE \/ REnter(r) \/ RPairWait(r) \/ RAnnounce(r) \/ RMeet(r) \/ RTakePrint(r)
    <3>1. sem'["FINISH"] = sem["FINISH"] /\ \A v \in Writers : Finished(v)' <=> Finished(v)
          BY <2>1 DEF REnter, RPairWait, RAnnounce, RMeet, RTakePrint, Finished
    <3> QED  BY <3>1, FinishersSame
  <2>2. CASE RSetMemory(r)
    <3>1. sem'["FINISH"] = sem["FINISH"] /\ \A v \in Writers : Finished(v)' <=> Finished(v)
          BY <2>2 DEF RSetMemory, SetVal, Finished
    <3> QED  BY <3>1, FinishersSame
  <2>3. CASE \/ RStop(r) \/ RCopy(r) \/ RPostMemory(r) \/ RLeave(r) \/ RWriteError(r)
    <3>1. sem'["FINISH"] = sem["FINISH"] /\ \A v \in Writers : Finished(v)' <=> Finished(v)
          BY <2>3 DEF RStop, RCopy, RPostMemory, RLeave, RWriteError, Finished
    <3> QED  BY <3>1, FinishersSame
  <2>4. CASE RWrite(r)
    <3>1. sem'["FINISH"] = sem["FINISH"] /\ \A v \in Writers : Finished(v)' <=> Finished(v)
          BY <2>4 DEF RWrite, Finished
    <3> QED  BY <3>1, FinishersSame
  <2> QED  BY <1>2, <2>1, <2>2, <2>3, <2>4 DEF ReaderStep
<1>3. ASSUME NEW p \in Procs, Exit(p) \/ Crash(p) \/ SemopFails(p)
      PROVE  FinishInv'
  <2>1. CASE Exit(p)
    <3>1. Undo(p) /\ ~removed  BY <2>1 DEF Exit
    <3> QED  BY <3>1, FinishUndo
  <2>2. CASE Crash(p)
    <3>1. Undo(p) /\ ~removed  BY <2>2 DEF Crash
    <3> QED  BY <3>1, FinishUndo
  <2>3. CASE SemopFails(p)
    <3>1. sem'["FINISH"] = sem["FINISH"] /\ \A v \in Writers : Finished(v)' <=> Finished(v)
          BY <2>3 DEF SemopFails, Finished
    <3> QED  BY <3>1, FinishersSame
  <2> QED  BY <1>3, <2>1, <2>2, <2>3
<1>4. CASE RemoveAll
  <2>1. sem'["FINISH"] = sem["FINISH"] /\ \A v \in Writers : Finished(v)' <=> Finished(v)
        BY <1>4 DEF RemoveAll, Finished
  <2> QED  BY <2>1, FinishersSame
<1>5. CASE UNCHANGED vars
  <2>1. sem'["FINISH"] = sem["FINISH"] /\ \A v \in Writers : Finished(v)' <=> Finished(v)
        BY <1>5 DEF vars, Finished
  <2> QED  BY <2>1, FinishersSame
<1> QED  BY <1>1, <1>2, <1>3, <1>4, <1>5 DEF Next, Orderly, Failure

(* A removed set does not come back. *)
LEMMA RemovedStays == ASSUME [Next]_vars, ~removed'  PROVE ~removed
BY DEF Next, Orderly, Failure, WriterStep, ReaderStep, WEnter, WPairWait, WSetPrint,
       WAnnounce, WMeet, WTakeMemory, WAlone, WRead, WReadEOF, WReadError, WCopyBegin,
       WCopyEnd, WPostPrint, WFinish, WLeave, REnter, RPairWait, RSetMemory, RAnnounce,
       RMeet, RTakePrint, RStop, RCopy, RWrite, RWriteError, RPostMemory, RLeave,
       SemopFails, Exit, Crash, RemoveAll, vars

(* The set as semget() and earlier sessions leave it satisfies the invariant. *)
LEMMA InitInv == Init => IInv
<1> SUFFICES ASSUME Init  PROVE IInv  OBVIOUS
<1> USE ProcsAssumption DEF Procs
<1>1. \A p \in Procs : pc[p] = "start" /\ semadj[p] = NoAdj  BY DEF Init
<1>2. \A p \in Procs : /\ ~Present(p) /\ ~InPair(p) /\ ~HasToken(p) /\ Held(p) = 0
      BY <1>1 DEF Present, InPair, HasToken, TokenSteps, PairSteps, Once, Twice, Held
<1>3. \A w \in Writers : ~Finished(w)  BY <1>1 DEF Finished, NoAdj, Sems
<1>4. TypeOK
  <2>1. sem \in [Sems -> Nat]
    <3>1. PICK a \in Leftover, b \in Leftover :
            sem = [[s \in Sems |-> 0] EXCEPT !["PRINT"] = a, !["MEMORY"] = b]
          BY DEF Init
    <3>2. a \in Nat /\ b \in Nat  BY LeftoverAssumption
    <3> QED  BY <3>1, <3>2 DEF Sems
  <2>2. semadj \in [Procs -> [Sems -> Int]]  BY DEF Init, NoAdj
  <2>3. StepType  BY DEF Init, StepType, WriterSteps, ReaderSteps
  <2>4. DataType  BY MaxLenAssumption DEF Init, DataType
  <2> QED  BY <2>1, <2>2, <2>3, <2>4 DEF TypeOK, Init
<1>5. /\ sem["WEXIST"] = 0 /\ sem["REXIST"] = 0 /\ sem["PAIR"] = 0 /\ sem["FINISH"] = 0
      BY DEF Init, Sems
<1>6. OneOfEach /\ OneToken  BY <1>2 DEF OneOfEach, OneToken
<1>7. FinishAdj  BY <1>1, <1>3 DEF FinishAdj, NoAdj, Sems
<1>8. ReaderData /\ OutputIsPrefix /\ EarlyData
      BY <1>1 DEF Init, ReaderData, Took, OutputIsPrefix, EarlyData
<1>9. WriterData /\ HeardInv
  <2>1. \A w \in Writers : pos[w] = 0 /\ len[w] \in 0 .. MaxLen  BY DEF Init
  <2> QED  BY <1>1, <1>3, <2>1, MaxLenAssumption DEF WriterData, Kept, HeardInv, Heard
<1>10. AdjInv  BY <1>1, <1>2 DEF AdjInv, NoAdj, Sems
<1>11. ExistInv /\ PairInv  BY <1>2, <1>5 DEF ExistInv, PairInv
<1>12. FinishInv
  <2>1. Finishers = {}  BY <1>3 DEF Finishers
  <2> QED  BY <1>5, <2>1, FS_EmptySet DEF FinishInv
<1>13. SetValInv /\ SetInv  BY <1>1 DEF SetValInv, SetInv, Twice, PairSteps
<1>14. MeetInv  BY <1>1, <1>2 DEF MeetInv, Meet
<1>15. TokenSum /\ PostInv /\ ReadyInv /\ SessionData
      BY <1>2 DEF TokenSum, OneRight, PostInv, Posted, ReadyInv, Ready, SessionData, Progress
<1> QED  BY <1>4, <1>6, <1>7, <1>8, <1>9, <1>10, <1>11, <1>12, <1>13, <1>14, <1>15
         DEF IInv, Lasting, SetParts

(* The invariant is kept by every step of every process, in any order, with any failure. *)
LEMMA StepInv == IInv /\ [Next]_vars => IInv'
<1> SUFFICES ASSUME IInv, [Next]_vars  PROVE IInv'  OBVIOUS
<1>1. /\ TypeOK /\ StepType /\ DataType
      /\ OneOfEach /\ OneToken /\ FinishAdj /\ ReaderData /\ WriterData /\ HeardInv
      /\ EarlyData /\ OutputIsPrefix
      BY DEF IInv, Lasting, TypeOK
<1>2. ~removed => /\ AdjInv /\ ExistInv /\ PairInv /\ FinishInv /\ SetValInv /\ SetInv
                  /\ MeetInv /\ TokenSum /\ PostInv /\ ReadyInv /\ SessionData
      BY DEF IInv, SetParts
<1>3. TypeOK'
  <2>1. StepType'  BY <1>1, StepTypeStep
  <2>2. DataType'  BY <1>1, DataTypeStep
  <2>3. sem' \in [Sems -> Nat] /\ semadj' \in [Procs -> [Sems -> Int]]
        BY <1>1, SemTypeStep
  <2>4. removed' \in BOOLEAN
        BY <1>1 DEF TypeOK, Next, Orderly, Failure, WriterStep, ReaderStep, WEnter, WPairWait,
           WSetPrint, WAnnounce, WMeet, WTakeMemory, WAlone, WRead, WReadEOF, WReadError,
           WCopyBegin, WCopyEnd, WPostPrint, WFinish, WLeave, REnter, RPairWait, RSetMemory,
           RAnnounce, RMeet, RTakePrint, RStop, RCopy, RWrite, RWriteError, RPostMemory,
           RLeave, SemopFails, Exit, Crash, RemoveAll, vars
  <2> QED  BY <2>1, <2>2, <2>3, <2>4 DEF TypeOK
<1>4. Lasting'
  <2>1. OneOfEach'  BY <1>1, <1>2, OneOfEachStep
  <2>2. OneToken'  BY <1>1, <1>2, OneTokenStep
  <2>3. FinishAdj'  BY <1>1, FinishAdjStep
  <2>4. ASSUME NEW u \in Readers  PROVE Took(u)'
        BY <1>1, <1>2, TookStep DEF ReaderData
  <2>5. ASSUME NEW v \in Writers  PROVE Kept(v)' /\ Heard(v)'
        BY <1>1, <1>2, KeptStep, HeardStep DEF WriterData, HeardInv
  <2>6. EarlyData'  BY <1>1, EarlyDataStep
  <2>7. OutputIsPrefix'  BY <1>1, OutputStep
  <2> QED  BY <2>1, <2>2, <2>3, <2>4, <2>5, <2>6, <2>7
           DEF Lasting, ReaderData, WriterData, HeardInv
<1>5. ASSUME ~removed'  PROVE SetParts'
  <2>1. ~removed  BY <1>5, RemovedStays
  <2>2. AdjInv' /\ ExistInv' /\ PairInv'
        BY <1>1, <1>2, <1>5, <2>1, AdjInvStep, ExistInvStep, PairInvStep
  <2>3. FinishInv' /\ SetValInv' /\ SetInv'
        BY <1>1, <1>2, <1>5, <2>1, FinishInvStep, SetValInvStep, SetInvStep
  <2>4. ASSUME NEW v \in Writers, NEW u \in Readers
        PROVE  Meet(v, u)' /\ OneRight(v, u)'
        BY <1>1, <1>2, <1>5, <2>1, MeetStep, OneRightStep DEF MeetInv, TokenSum
  <2>5. ASSUME NEW v \in Writers, NEW u \in Readers
        PROVE  Posted(v, u)' /\ Ready(v, u)' /\ Progress(v, u)'
    <3>1. Meet(v, u) /\ OneRight(v, u) /\ Posted(v, u) /\ Ready(v, u) /\ Progress(v, u)
          BY <1>2, <2>1 DEF MeetInv, TokenSum, PostInv, ReadyInv, SessionData
    <3> QED  BY <1>1, <1>2, <1>5, <2>1, <3>1, PostedStep, ReadyStep, ProgressStep
  <2> QED  BY <2>2, <2>3, <2>4, <2>5
           DEF SetParts, MeetInv, TokenSum, PostInv, ReadyInv, SessionData
<1> QED  BY <1>3, <1>4, <1>5 DEF IInv

(* The inductive invariant holds in every reachable state of writer.c and reader.c. *)
THEOREM Invariance == Spec => []IInv
BY InitInv, StepInv, PTL DEF Spec

(* All variables keep their types. *)
THEOREM TypeCorrect == Spec => []TypeOK
<1>1. IInv => TypeOK  BY DEF IInv
<1> QED  BY <1>1, Invariance, PTL

(* For any number of writers and readers, however they are killed: while one fills the *)
(* segment (writer.c:159) no other process is at its copy of it.                       *)
THEOREM Exclusive == Spec => []ShmExclusive
<1>1. ASSUME IInv  PROVE ShmExclusive
  <2>1. OneOfEach /\ OneToken  BY <1>1 DEF IInv, Lasting
  <2>2. ASSUME NEW w \in Writers, pc[w] \in {"copy", "copying"}, NEW p \in Procs \ {w}
        PROVE  pc[p] \notin {"copy", "copying", "rcopy"}
    <3>1. Present(w) /\ HasToken(w)
          BY <2>2 DEF Present, HasToken, TokenSteps, Twice, PairSteps
    <3>2. CASE p \in Writers
      <4>1. ~Present(p)  BY <2>1, <2>2, <3>1, <3>2 DEF OneOfEach
      <4> QED  BY <4>1 DEF Present, Twice, PairSteps
    <3>3. CASE p \in Readers
      <4>1. ~HasToken(p)  BY <2>1, <3>1, <3>3 DEF OneToken
      <4> QED  BY <4>1 DEF HasToken, TokenSteps
    <3> QED  BY <3>2, <3>3 DEF Procs
  <2> QED  BY <2>2 DEF ShmExclusive
<1> QED  BY <1>1, Invariance, PTL

(* For files of any length: the output of a reader is always an initial part of one file. *)
THEOREM Prefixes == Spec => []OutputIsPrefix
<1>1. IInv => OutputIsPrefix  BY DEF IInv, Lasting
<1> QED  BY <1>1, Invariance, PTL

(* A writer that announces the end of its file (writer.c:128-149) has had all of it printed. *)
THEOREM Finish == Spec => []FinishedIsPrinted
<1>1. ASSUME IInv  PROVE FinishedIsPrinted
  <2>1. FinishAdj /\ WriterData /\ HeardInv  BY <1>1 DEF IInv, Lasting
  <2>2. ASSUME NEW w \in Writers, pc[w] = "finish"
        PROVE  \E r \in Readers : Printed(r, w, len[w])
        BY <2>1, <2>2 DEF WriterData, Kept, HeardInv, Heard, HeardBy
  <2>3. ASSUME NEW w \in Writers, semadj[w]["FINISH"] # 0
        PROVE  \E r \in Readers : Printed(r, w, len[w])
        BY <2>1, <2>3 DEF FinishAdj, Finished, HeardInv, Heard, HeardBy
  <2> QED  BY <2>2, <2>3 DEF FinishedIsPrinted
<1> QED  BY <1>1, Invariance, PTL

(* Whoever died where, the next writer and reader find the set as new. *)
THEOREM Clean == Spec => []CleanSlate
<1>1. ASSUME IInv, ~removed, \A p \in Procs : pc[p] \in {"start", "dead"}
      PROVE  \A s \in {"WEXIST", "REXIST", "PAIR", "FINISH"} : sem[s] = 0
  <2>1. ExistInv /\ PairInv /\ FinishInv /\ FinishAdj  BY <1>1 DEF IInv, Lasting, SetParts
  <2>2. \A p \in Procs : ~Present(p) /\ ~InPair(p)
        BY <1>1 DEF Present, InPair, Once, Twice, PairSteps
  <2>3. sem["WEXIST"] = 0 /\ sem["REXIST"] = 0  BY <2>1, <2>2 DEF ExistInv, Procs
  <2>4. sem["PAIR"] = 0  BY <2>1, <2>2 DEF PairInv, Procs
  <2>5. Finishers = {}  BY <1>1, <2>1 DEF Finishers, FinishAdj, Procs
  <2>6. sem["FINISH"] = 0  BY <2>1, <2>5, FS_EmptySet DEF FinishInv
  <2> QED  BY <2>3, <2>4, <2>6
<1>2. IInv => CleanSlate  BY <1>1 DEF CleanSlate
<1> QED  BY <1>2, Invariance, PTL

(* The kernel never has to clip a semaphore at 0 when it undoes the operations of a process. *)
THEOREM Exact == Spec => []UndoIsExact
<1>1. ASSUME IInv, ~removed, NEW p \in Procs, NEW s \in Sems
      PROVE  sem[s] + semadj[p][s] >= 0
  <2>1. TypeOK /\ AdjInv /\ ExistInv /\ PairInv /\ FinishInv /\ FinishAdj
        BY <1>1 DEF IInv, Lasting, SetParts
  <2>2. sem[s] \in Nat /\ semadj[p][s] \in Int  BY <2>1 DEF TypeOK
  <2>3. CASE p \in Writers
    <3>1. sem["WEXIST"] + semadj[p]["WEXIST"] >= 0
      <4>1. CASE Present(p)  BY <2>1, <2>3, <4>1 DEF AdjInv, ExistInv, Held
      <4>2. CASE ~Present(p)
        <5>1. Held(p) = 0  BY <4>2 DEF Present, Held
        <5> QED  BY <2>1, <2>3, <5>1 DEF AdjInv, TypeOK, Sems
      <4> QED  BY <4>1, <4>2
    <3>2. sem["PAIR"] + semadj[p]["PAIR"] >= 0
          BY <2>1, <2>3 DEF AdjInv, PairInv
    <3>3. sem["FINISH"] + semadj[p]["FINISH"] >= 0
      <4>1. CASE Finished(p)
        <5>1. IsFiniteSet(Finishers)  BY ProcsAssumption, FS_Subset DEF Finishers
        <5>2. p \in Finishers  BY <2>3, <4>1 DEF Finishers
        <5>3. Cardinality(Finishers) \in Nat /\ Cardinality(Finishers) # 0
              BY <5>1, <5>2, FS_CardinalityType, FS_EmptySet
        <5> QED  BY <2>1, <4>1, <5>3 DEF FinishInv, Finished
      <4>2. CASE ~Finished(p)  BY <2>1, <2>3, <4>2 DEF FinishAdj, Finished, TypeOK, Sems
      <4> QED  BY <4>1, <4>2
    <3>4. \A x \in {"REXIST", "MEMORY", "PRINT"} : sem[x] + semadj[p][x] >= 0
          BY <2>1, <2>3 DEF AdjInv, TypeOK, Sems
    <3> QED  BY <3>1, <3>2, <3>3, <3>4 DEF Sems
  <2>4. CASE p \in Readers
    <3>1. sem["REXIST"] + semadj[p]["REXIST"] >= 0
      <4>1. CASE Present(p)  BY <2>1, <2>4, <4>1 DEF AdjInv, ExistInv, Held
      <4>2. CASE ~Present(p)
        <5>1. Held(p) = 0  BY <4>2 DEF Present, Held
        <5> QED  BY <2>1, <2>4, <5>1 DEF AdjInv, TypeOK, Sems
      <4> QED  BY <4>1, <4>2
    <3>2. sem["PAIR"] + semadj[p]["PAIR"] >= 0
          BY <2>1, <2>4 DEF AdjInv, PairInv
    <3>3. \A x \in {"WEXIST", "MEMORY", "PRINT", "FINISH"} : sem[x] + semadj[p][x] >= 0
          BY <2>1, <2>4 DEF AdjInv, TypeOK, Sems
    <3> QED  BY <3>1, <3>2, <3>3 DEF Sems
  <2> QED  BY <2>3, <2>4 DEF Procs
<1>2. IInv => UndoIsExact  BY <1>1 DEF UndoIsExact
<1> QED  BY <1>2, Invariance, PTL
=============================================================================
