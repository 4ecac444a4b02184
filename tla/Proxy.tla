-------------------------------- MODULE Proxy --------------------------------
(***************************************************************************)
(* Projects/Proxy: a file goes through N child processes and their parent. *)
(* Child 0 splices the file into a pipe, child i > 0 splices one pipe into *)
(* the next, and the parent carries the bytes from the pipe out of child i *)
(* through channel i to the pipe into child i + 1, the last one's to its   *)
(* standard output.  The parent serves all channels in one select() loop;  *)
(* its SIGCHLD handler reaps the children.                                 *)
(*                                                                         *)
(* One action is one system call of a process or one pass through code     *)
(* that makes none.  The bytes of the file are 1 .. FileLen; pipes and     *)
(* channels are queues (for a channel, module Channel shows it).           *)
(***************************************************************************)
EXTENDS Integers, Sequences, FiniteSets

CONSTANTS N,        \* the number of children
          FileLen,  \* the length of the file
          PipeCap,  \* the capacity of a pipe
          Size      \* Size[i]: the size of the buffer of channel i

Children == 0 .. N - 1

ASSUME NAssumption == N \in Nat \ {0}
ASSUME SizesAssumption == /\ FileLen \in Nat /\ PipeCap \in Nat \ {0}
                          /\ Size \in [Children -> Nat \ {0}]

VARIABLES
  child,         \* child[i]: where child i is
  exited,        \* exited[i]: the status of child i, once its descriptors are closed
  offset,        \* how much of the file child 0 has read
  inPipe,        \* inPipe[i]: the pipe from the parent to child i
  outPipe,       \* outPipe[i]: the pipe from child i to the parent
  queue,         \* queue[i]: the bytes in the buffer of channel i
  is_can_read,   \* is_can_read[i]: the parent's end of outPipe[i] is open
  is_can_write,  \* is_can_write[i]: the parent's end of inPipe[i + 1] is open
  child_deaths,  \* the channels that are done with
  parent,        \* the parent's next step
  at,            \* the channel it is serving
  rfds, wfds,    \* what select() has returned
  pending,       \* SIGCHLD is pending
  handling,      \* the parent is in child_handler()
  stdout,        \* everything written to the standard output
  stopped,       \* a child has been stopped
  broken         \* a system call of the parent's loop has failed

vars == <<child, exited, offset, inPipe, outPipe, queue, is_can_read, is_can_write,
          child_deaths, parent, at, rfds, wfds, pending, handling, stdout, stopped, broken>>

childVars == <<child, exited, offset>>
flags == <<is_can_read, is_can_write, child_deaths>>
loopVars == <<parent, at, rfds, wfds>>
signals == <<pending, handling, stopped, broken>>

ChildSteps == {"start", "splice", "closed", "zombie", "reaped"}
ParentSteps == {"select", "read", "write", "check", "success", "failure"}

(* After main.c:33-184.  What children do before the parent is in its loop is  *)
(* the same as if they did it right after.                                     *)
Init ==
  /\ child = [i \in Children |-> "start"]
  /\ exited = [i \in Children |-> "none"]
  /\ offset = 0
  /\ inPipe = [i \in Children |-> <<>>] /\ outPipe = [i \in Children |-> <<>>]
  /\ queue = [i \in Children |-> <<>>]
  /\ is_can_read = [i \in Children |-> TRUE] /\ is_can_write = [i \in Children |-> TRUE]
  /\ child_deaths = 0
  /\ parent = "select" /\ at = 0 /\ rfds = {} /\ wfds = {}
  /\ pending = FALSE /\ handling = FALSE
  /\ stdout = <<>> /\ stopped = FALSE /\ broken = FALSE

(* The parent has not ended; its end kills the children (PR_SET_PDEATHSIG). *)
Running == parent \notin {"success", "failure"}
FirstOf(s, k) == SubSeq(s, 1, k)

(* Mistake: a partial write counts as none. *)
Rest_All(s, k) == IF k = Len(s) THEN <<>> ELSE s
Rest(s, k) == SubSeq(s, k + 1, Len(s))

Gone(i) == child[i] \in {"closed", "zombie", "reaped"}

(* The write end of inPipe[i] is closed everywhere: by the parent, and by the later *)
(* children, who inherit it and close it when they start.                           *)
(* Mistake: a child keeps what it inherits. *)
InPipeEnded_Kept(i) == /\ ~is_can_write[i - 1]
                       /\ \A j \in i + 1 .. N - 1 : Gone(j)

InPipeEnded(i) == /\ ~is_can_write[i - 1]
                  /\ \A j \in i + 1 .. N - 1 : child[j] # "start"

(***************************************************************************)
(* A child.                                                                *)
(***************************************************************************)
(* It closes the descriptors of the children before it. *)
Start(i) ==
  /\ Running /\ child[i] = "start"
  /\ child' = [child EXCEPT ![i] = "splice"]
  /\ UNCHANGED <<exited, offset, inPipe, outPipe, queue, flags, loopVars, signals, stdout>>

SpliceFile ==
  /\ Running /\ child[0] = "splice"
  /\ \E k \in 1 .. FileLen - offset :
       /\ Len(outPipe[0]) + k <= PipeCap
       /\ outPipe' = [outPipe EXCEPT ![0] = @ \o [j \in 1 .. k |-> offset + j]]
       /\ offset' = offset + k
  /\ UNCHANGED <<child, exited, inPipe, queue, flags, loopVars, signals, stdout>>

SplicePipe(i) ==
  /\ Running /\ child[i] = "splice" /\ i > 0
  /\ \E k \in 1 .. Len(inPipe[i]) :
       /\ Len(outPipe[i]) + k <= PipeCap
       /\ outPipe' = [outPipe EXCEPT ![i] = @ \o FirstOf(inPipe[i], k)]
       /\ inPipe' = [inPipe EXCEPT ![i] = Rest(@, k)]
  /\ UNCHANGED <<childVars, queue, flags, loopVars, signals, stdout>>

(* splice() returns 0: both descriptors are closed and the child exits. *)
SpliceEnd(i) ==
  /\ Running /\ child[i] = "splice"
  /\ IF i = 0 THEN offset = FileLen ELSE inPipe[i] = <<>> /\ InPipeEnded(i)
  /\ child' = [child EXCEPT ![i] = "closed"]
  /\ exited' = [exited EXCEPT ![i] = "success"]
  /\ UNCHANGED <<offset, inPipe, outPipe, queue, flags, loopVars, signals, stdout>>

(* The exit of a child comes after its descriptors are closed; SIGCHLD is not queued. *)
ChildExit(i) ==
  /\ Running /\ child[i] = "closed"
  /\ child' = [child EXCEPT ![i] = "zombie"]
  /\ pending' = TRUE
  /\ UNCHANGED <<exited, offset, inPipe, outPipe, queue, flags, loopVars, handling, stdout, stopped, broken>>

(* SIGCHLD tells of a child that is stopped, too: SA_NOCLDSTOP is not set. *)
ChildStopped(i) ==
  /\ Running /\ child[i] \in {"start", "splice"}
  /\ pending' = TRUE /\ stopped' = TRUE
  /\ UNCHANGED <<childVars, inPipe, outPipe, queue, flags, loopVars, handling, stdout, broken>>

(* open(), splice() or prctl() fails, or the child is killed. *)
ChildFails(i) ==
  /\ Running /\ child[i] \in {"start", "splice", "closed"}
  /\ child' = [child EXCEPT ![i] = "closed"]
  /\ exited' = [exited EXCEPT ![i] = "failure"]
  /\ UNCHANGED <<offset, inPipe, outPipe, queue, flags, loopVars, signals, stdout>>

(***************************************************************************)
(* The signal handler.  It interrupts the parent between any two of its    *)
(* steps; a select() that it interrupts is called again.                   *)
(***************************************************************************)
HandlerBegin ==
  /\ Running /\ pending /\ ~handling
  /\ pending' = FALSE /\ handling' = TRUE
  /\ UNCHANGED <<childVars, inPipe, outPipe, queue, flags, loopVars, stdout, stopped, broken>>

(* wait() blocks while there is no zombie; of several it takes any. *)
(* Mistake: waiting for every child that may have died. *)
HandlerWait_Again ==
  /\ Running /\ handling
  /\ \E i \in Children :
       /\ child[i] = "zombie"
       /\ child' = [child EXCEPT ![i] = "reaped"]
       /\ parent' = IF exited[i] = "success" THEN parent ELSE "failure"
  /\ UNCHANGED <<exited, offset, inPipe, outPipe, queue, flags, at, rfds, wfds, signals, stdout>>

(* When all children are reaped wait() fails, state stays 0, and the handler returns. *)
HandlerWait ==
  /\ Running /\ handling
  /\ \/ \E i \in Children :
          /\ child[i] = "zombie"
          /\ child' = [child EXCEPT ![i] = "reaped"]
          /\ parent' = IF exited[i] = "success" THEN parent ELSE "failure"
     \/ /\ \A i \in Children : child[i] = "reaped"
        /\ UNCHANGED <<child, parent>>
  /\ handling' = FALSE
  /\ UNCHANGED <<exited, offset, inPipe, outPipe, queue, flags, at, rfds, wfds, pending, stdout,
                 stopped, broken>>

(***************************************************************************)
(* The parent's loop.                                                      *)
(***************************************************************************)
ParentRuns(step) == parent = step /\ ~handling

(* A pipe whose other end is closed is ready too. *)
Readable == {i \in Children : /\ is_can_read[i] /\ Len(queue[i]) < Size[i]
                              /\ outPipe[i] # <<>> \/ Gone(i)}
Writable == {i \in Children : /\ is_can_write[i] /\ queue[i] # <<>>
                              /\ \/ i = N - 1
                                 \/ i < N - 1 /\ (Len(inPipe[i + 1]) < PipeCap \/ Gone(i + 1))}

Select ==
  /\ ParentRuns("select") /\ child_deaths < N
  /\ Readable \cup Writable # {}
  /\ rfds' = Readable /\ wfds' = Writable
  /\ at' = child_deaths /\ parent' = "read"
  /\ UNCHANGED <<childVars, inPipe, outPipe, queue, flags, signals, stdout>>

(* PutInBuffer() and, at the end of the pipe, close(). *)
Read ==
  /\ ParentRuns("read")
  /\ parent' = "write"
  /\ \/ /\ at \in rfds /\ outPipe[at] # <<>>
        /\ \E k \in 1 .. Len(outPipe[at]) :
             /\ Len(queue[at]) + k <= Size[at]
             /\ queue' = [queue EXCEPT ![at] = @ \o FirstOf(outPipe[at], k)]
             /\ outPipe' = [outPipe EXCEPT ![at] = Rest(@, k)]
        /\ UNCHANGED is_can_read
     \/ /\ at \in rfds /\ outPipe[at] = <<>>
        /\ is_can_read' = [is_can_read EXCEPT ![at] = FALSE]
        /\ UNCHANGED <<queue, outPipe>>
     \/ at \notin rfds /\ UNCHANGED <<queue, outPipe, is_can_read>>
  /\ UNCHANGED <<childVars, inPipe, is_can_write, child_deaths, at, rfds, wfds, signals, stdout>>

(* GetFromBuffer().  A write() to a pipe that nobody reads kills the parent (SIGPIPE). *)
Write ==
  /\ ParentRuns("write")
  /\ \/ /\ at \in wfds /\ at < N - 1 /\ Gone(at + 1)
        /\ parent' = "failure"
        /\ UNCHANGED <<queue, inPipe, stdout>>
     \/ /\ at \in wfds /\ at < N - 1 /\ ~Gone(at + 1)
        /\ \E k \in 1 .. Len(queue[at]) :
             /\ Len(inPipe[at + 1]) + k <= PipeCap
             /\ inPipe' = [inPipe EXCEPT ![at + 1] = @ \o FirstOf(queue[at], k)]
             /\ queue' = [queue EXCEPT ![at] = Rest(@, k)]
        /\ parent' = "check" /\ UNCHANGED stdout
     \/ /\ at \in wfds /\ at = N - 1
        /\ \E k \in 1 .. Len(queue[at]) :
             /\ stdout' = stdout \o FirstOf(queue[at], k)
             /\ queue' = [queue EXCEPT ![at] = Rest(@, k)]
        /\ parent' = "check" /\ UNCHANGED inPipe
     \/ /\ at \notin wfds
        /\ parent' = "check" /\ UNCHANGED <<queue, inPipe, stdout>>
  /\ UNCHANGED <<childVars, outPipe, flags, at, rfds, wfds, signals>>

(* The next channel, or round the loop. *)
(* Mistake: one channel too many. *)
Continue_OneMore ==
  IF at < N
  THEN at' = at + 1 /\ parent' = "read" /\ UNCHANGED <<rfds, wfds>>
  ELSE at' = 0 /\ parent' = "select" /\ rfds' = {} /\ wfds' = {}

Continue ==
  IF at + 1 < N
  THEN at' = at + 1 /\ parent' = "read" /\ UNCHANGED <<rfds, wfds>>
  ELSE at' = 0 /\ parent' = "select" /\ rfds' = {} /\ wfds' = {}

(* The standard output, shared with others, is full again: EAGAIN. *)
WriteAgain ==
  /\ ParentRuns("write") /\ at \in wfds /\ at = N - 1
  /\ Continue
  /\ UNCHANGED <<childVars, inPipe, outPipe, queue, flags, signals, stdout>>

(* select(), read() or write() fails, and not with EAGAIN or EINTR; or SIGPIPE kills *)
(* the parent, as nobody reads its standard output any more.                         *)
CallFails ==
  /\ \/ ParentRuns("select") /\ child_deaths < N
     \/ ParentRuns("read") /\ at \in rfds
     \/ ParentRuns("write") /\ at \in wfds
  /\ parent' = "failure" /\ broken' = TRUE
  /\ UNCHANGED <<childVars, inPipe, outPipe, queue, flags, at, rfds, wfds, pending, handling,
                 stopped, stdout>>

(* Mistakes: a channel counts as done with while it holds bytes, or while more may come. *)
Drained_Ended(i) == ~is_can_read[i]
Drained_Empty(i) == queue[i] = <<>>

Drained(i) == ~is_can_read[i] /\ queue[i] = <<>>

(* The channel at the head of the line is done with; any other one must not be. *)
Check ==
  /\ ParentRuns("check")
  /\ \/ /\ Drained(at) /\ at # child_deaths
        /\ parent' = "failure"
        /\ UNCHANGED <<at, rfds, wfds, is_can_write, child_deaths>>
     \/ /\ Drained(at) /\ at = child_deaths
        /\ is_can_write' = [is_can_write EXCEPT ![at] = FALSE]
        /\ child_deaths' = child_deaths + 1
        /\ Continue
     \/ /\ ~Drained(at)
        /\ Continue
        /\ UNCHANGED <<is_can_write, child_deaths>>
  /\ UNCHANGED <<childVars, inPipe, outPipe, queue, is_can_read, signals, stdout>>

(* The loop ends when all channels are done with. *)
Return ==
  /\ ParentRuns("select") /\ child_deaths = N
  /\ parent' = "success"
  /\ UNCHANGED <<childVars, inPipe, outPipe, queue, flags, at, rfds, wfds, signals, stdout>>

ChildStep(i) == Start(i) \/ SplicePipe(i) \/ (i = 0 /\ SpliceFile) \/ SpliceEnd(i) \/ ChildExit(i)
Handler == HandlerBegin \/ HandlerWait
Loop == Select \/ Read \/ Write \/ Check \/ Return

Orderly == (\E i \in Children : ChildStep(i)) \/ Handler \/ Loop
Next == Orderly \/ (\E i \in Children : ChildFails(i) \/ ChildStopped(i))
        \/ WriteAgain \/ CallFails

Spec == Init /\ [][Next]_vars

(* Processes that can run do run, and a pending signal is handled.  A standard *)
(* output that is asked for again and again takes bytes some time.             *)
WriteOut == at = N - 1 /\ at \in wfds /\ Write
Fairness == /\ \A i \in Children : WF_vars(ChildStep(i))
            /\ WF_vars(Handler) /\ WF_vars(Loop)
            /\ SF_vars(WriteOut)

FairSpec == Spec /\ Fairness
-----------------------------------------------------------------------------
File == [k \in 1 .. FileLen |-> k]

(* Every variable has its type; no pipe and no channel holds more than it can. *)
(* main.c, all steps.                                                          *)
TypeOK ==
  /\ child \in [Children -> ChildSteps]
  /\ exited \in [Children -> {"none", "success", "failure"}]
  /\ offset \in 0 .. FileLen
  /\ \A i \in Children : /\ Len(inPipe[i]) <= PipeCap /\ Len(outPipe[i]) <= PipeCap
                         /\ Len(queue[i]) <= Size[i]
  /\ is_can_read \in [Children -> BOOLEAN] /\ is_can_write \in [Children -> BOOLEAN]
  /\ child_deaths \in 0 .. N
  /\ parent \in ParentSteps /\ at \in Children
  /\ rfds \subseteq Children /\ wfds \subseteq Children
  /\ pending \in BOOLEAN /\ handling \in BOOLEAN /\ broken \in BOOLEAN

(* Whichever children die, and when, the standard output is an initial part of *)
(* the file: nothing is lost on the way, doubled or overtaken.                 *)
OutputIsPrefix ==
  Len(stdout) <= FileLen /\ \A k \in 1 .. Len(stdout) : stdout[k] = k

(* Without a failing child, exit status 0 means that all of the file is out.   *)
(* main.c:190-271.                                                             *)
SuccessIsComplete ==
  parent = "success" /\ (\A i \in Children : exited[i] # "failure") => stdout = File

(* "some child died too early" (main.c:257), SIGPIPE from a pipe to a child and *)
(* "One of the children was killed" (main.c:286) befall the parent only when a  *)
(* child has failed; else it fails only when a call of its own has: the chain   *)
(* never breaks of itself, in whatever order its members end.                   *)
FailureHasACause ==
  parent = "failure" => broken \/ \E i \in Children : exited[i] = "failure"

(* Although signals that come together are one, the wait() of the handler      *)
(* never makes the parent, and with it the whole chain, wait, unless a child   *)
(* has been stopped.  main.c:278.                                              *)
WaitNeverBlocks ==
  Running /\ handling /\ ~stopped => \E i \in Children : child[i] = "zombie"

(* Whichever children die, and when, the parent does not hang; by the properties *)
(* above it ends with the whole file written unless a child fails.  Only a child  *)
(* that has been stopped may leave it in the handler's wait(), and then for ever. *)
AlwaysEnds == <>(stopped \/ ~Running)

(* What main.c:286-287 is for: when a child failed or was killed, the parent   *)
(* does not end with status 0.                                                 *)
KilledIsReported ==
  parent = "success" => \A i \in Children : exited[i] # "failure"
=============================================================================
