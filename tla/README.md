# Specifications of the 3_sem_Lunev programs

The repository holds seven independent C programs about processes, threads and
their communication on Linux, and a set of class exercises.  This directory
holds TLA+ models of the programs, TLC runs that check them on small instances,
and TLAPS proofs of what matters most for every value of the parameters.

    tlc -workers 2 -config Proxy.cfg MCProxy           # one of the runs below
    tlapm SemShmProofs.tla                             # one of the proof modules

`PROJECT.json` lists the runs, the code each definition is taken from ("map"),
the hazards the properties are aimed at, the mistakes ("mutants") that each
property has been shown to detect, the findings and the theorems.

## 1. The system: inventory

All paths are under `src/Projects/`.

### TransFileSemShm: a file through shared memory

* *Parts.*  `writer.c`, `reader.c`, `RemoveAll.c`, three programs that any number
  of users may start at any time; they share one set of six semaphores (WEXIST,
  REXIST, PRINT, MEMORY, PAIR, FINISH, `header.h:16`) and one segment.
* *State.*  The semaphore values; the kernel's undo value of each process for
  each semaphore (SEM_UNDO); the segment; each process's position in its program,
  in its file, and its local buffer.
* *Operations.*  Enter (be the only writer / reader), wait for the last pair to
  be over, SETVAL one's own semaphore, announce oneself, meet the partner; then
  in turns read + copy into the segment + post PRINT, and take PRINT + copy out +
  write + post MEMORY; FINISH at the end of the file; leave; exit (undo).
* *Hard.*  Each phase is a separate `semop()`, so processes of different sessions
  interleave between any two of them; any of them may be killed at any point and
  leaves its share to the kernel's undo; SETVAL clears undo values; `RemoveAll`
  or a failing side removes the set under the others.
* *Correct when.*  Nobody touches the segment while it is being filled; what a
  reader prints is an initial part of one file; a file that is announced as
  finished has been printed; whatever died, the set is clean for the next ones;
  sessions end, and newcomers get their turn.

### Proxy: a file through a chain of processes

* *Parts.*  N children, each a `splice()` loop (child 0 from the file, child i from
  a pipe), and the parent, which carries the bytes out of child i through a ring
  buffer ("channel") into child i + 1, in one `select()` loop; a SIGCHLD handler
  in the parent; PR_SET_PDEATHSIG in the children.
* *State.*  Pipes; per channel a ring buffer with two offsets and two counts;
  open/closed flags; `child_deaths`, the number of channels that are done with.
* *Operations.*  `PutInBuffer`, `GetFromBuffer` (one `read()` / `write()` of what
  lies in one piece), closing of descriptors, `wait()` in the handler.
* *Hard.*  Partial reads and writes, the wrap, end of file against a read of zero
  bytes, bytes still held when a pipe ends, inherited pipe ends, signals that
  merge, the order of end of file and SIGCHLD, children that die in any order.
* *Correct when.*  The output is an initial part of the file, and all of it if the
  parent reports success and no child failed; the parent fails only if a child
  or one of its own system calls did; the handler never blocks; everything comes
  to an end.

### Container: a map in a red-black tree

* *State.*  A map with the root of a tree of heap nodes with parent pointers.
* *Operations.*  `createMap` (from an array), `addItem`, `setValue`, `deleteItem`,
  `clearMap`, `deleteMap`, `findItem`; inside, `insert` with five cases, `deleteNode`,
  `deleteTheOnlyChild` and six cases of `delete_case`, rotations, `findTop`.
* *Hard.*  Sequential, but a pointer that is not set is followed many calls later;
  the cases take the existence of brothers and nephews for granted; the imbalance
  climbs; memory is freed while pointers into it are still held.
* *Correct when.*  It is a dictionary, a red-black search tree after every call,
  follows no null pointer and no pointer to freed memory, and returns.  A call
  changes the map at its own key only, and tells the caller what it has done.

### NetworkIntegration: an integral over a cluster

* *Parts.*  A server (`common.c`, `Network/worker_manager.c`) with a main thread, a
  thread that broadcasts hellos, a thread that accepts connections, and a handler
  thread per worker; workers (`Network/worker.c`) on other machines, each of which
  calls `Integrate` for its part.
* *State.*  The tasks (interval, threads, socket); the connections and what is on
  its way in them; each thread's position; the sum.
* *Operations.*  `divide_work`, `get_tcp_connections`, `send_hellos`, `get_result`,
  `work_handler`; `get_hello_message`, `connect_to_server`, `do_computation`.
* *Hard.*  Everything can fail or die in the middle; `accept()` times out while a
  worker is coming; `run_server` goes on after `get_tcp_connections` has failed;
  handlers are cancelled, joined ones too; the worker's last byte races with the
  server's `close()`; hellos start before the server listens.
* *Correct when.*  A printed result is the integral over the whole interval; a
  computation fails only for a cause outside the program, or because a worker was
  refused by a server that did not listen yet; no answer is thrown away; server and
  workers end.

### Integral: an integral over the threads of one machine

* *Parts.*  `Integrate` (`calc.c`, `pthread_manager.c`), which the program `Integral`
  and the workers of NetworkIntegration share: a main thread, and as many threads
  as there are processors, or `n_threads` if that is more, each bound to a processor.
* *State.*  The processors grouped by core; what has been allocated; an interval and a
  result per thread; the sum.
* *Operations.*  `get_mycpu_info`, `fill_thread_info`, `set_attrs`, `pthread_create`,
  `CalcIntegral`, `pthread_join` of the first `n_threads`, and the four labels that free.
* *Hard.*  Only `n_threads` threads are joined, yet all of them write to memory that is
  freed when those are; each call may fail and has its own way out; two remainders
  bind threads to cores and processors; the processors of a core are stored at one
  place and looked up at another.
* *Correct when.*  The sum is the integral; no thread uses freed memory; every way out
  frees what was allocated (all but for named exceptions, section 5); the threads are
  spread evenly.

### Signals: a file bit by bit

* *Parts.*  A child that reads the file, a parent that prints it.
* *State.*  The signals pending for each; the child's character and bit; the
  parent's bits so far; `is_child_dead`.
* *Operations.*  The child sends SIGUSR1 / SIGUSR2 for a bit and waits in `sigsuspend()`;
  the parent takes it in `sigsuspend()`, prints a character when it has one, and
  answers with SIGUSR1.  SIGCHLD tells it of the end of the child.
* *Hard.*  Signals are blocked outside `sigsuspend()` and do not queue; the death of the
  child may be taken together with its last bit, or be only a stop; either process
  may be killed at any moment.
* *Correct when.*  Every bit arrives once and in order, and both processes end.

### MsgMes: taking turns

* *Parts.*  A parent and N children, one message queue (`msg_without_arr.c`, `messages.c`).
* *Operations.*  The parent sends a message of type i + 1 and waits for one of the same
  type; child i waits for it, prints its number and sends it back; the parent
  removes the queue when it ends.
* *Hard.*  The parent may receive the message it has just sent; processes may be killed.
* *Correct when.*  Turns never overlap, numbers come out in order, all processes end.

### The rest

`TransFileSemShm/src.c`, `main.c`, `Proxy/train.c`, `MsgMes/main.c`: earlier experiments that
the programs do not use.  `Container/Test`: unit tests.  `Seminars/**`, `tmp`: exercises.

Nothing interacts across programs, except that a worker of NetworkIntegration
calls `Integrate`: `Cluster` takes that for one step that may fail.

## 2. Modules

| module | what it is |
|---|---|
| `SemShm` | writers, readers, RemoveAll over the semaphore set and the segment |
| `SemShmInv`, `SemShmProofs` | its inductive invariant, and the proofs |
| `Channel`, `ChannelFifo` | the ring buffer of one channel; the bounded queue it implements |
| `ChannelProofs` | the invariant of the ring buffer and the refinement, proved |
| `Proxy` | children, parent and handler; pipes and channels as queues |
| `ProxyProofs` | its invariant, with where each byte of the file is, proved |
| `RBTree`, `Dictionary` | the map as the C code has it; the dictionary it implements |
| `RBTreeInv`, `RBTreeProofs` | its inductive invariant; the proofs and the refinement |
| `Cluster`, `ClusterProofs` | server threads and workers over their connections; proofs |
| `Integrate`, `IntegrateProofs` | the threads of `Integrate()` and what they share; proofs |
| `SignalBits`, `SignalBitsProofs` | child and parent over pending signals; proofs |
| `MsgMes`, `MsgMesProofs` | parent and children over the message queue; proofs |
| `MCSemShm`, `MCChannel`, `MCProxy`, `MCRBTree`, `MCCluster`, `MCIntegrate`, `MCSignalBits`, `MCMsgMes` | instances for TLC |

`Proxy` uses a queue for each channel; `Channel` refines `ChannelFifo`, which is that
queue, and this is how the two levels of the proxy fit together.

### SemShm

One action is one `semop()` (all operations of its array at once, as the kernel
does it), one `semctl()`, one `read()` or `write()`, or half of the writer's `memcpy()`
(`WCopyBegin`, `WCopyEnd`), so that a torn buffer is a state.  A blocked `semop()` is
an action that is not enabled; IPC_NOWAIT operations have an action for their
failure (`WAlone`, `RStop`).  `semadj` is the kernel's undo table: every operation with
SEM_UNDO changes it the other way, `SetVal` clears it, `Undo` adds it when a process
exits or is killed (`Crash`, at any step).  `removed` is the removal of the set, after
which every `semop()` fails (`SemopFails`).  A file is a sequence of buffers, and a
buffer is the pair of its writer and its number.  Left out: a second generation of
the set after its removal, short writes, the sizes of buffers.

### Channel, ChannelFifo

`offset_for_write` and `offset_for_read` are the two pointers less the buffer's start;
`ReadRequest` and `WriteRequest` are what the code asks `read()` and `write()` for, and any
number of bytes from one to that is moved.  `given` and `taken` are history.

### Proxy

`child[i]` is `start`, `splice`, `closed` (descriptors closed by `exit()`), `zombie` (SIGCHLD
sent) or `reaped`: the kernel closes first and signals then, and the model keeps the
time between.  `pending` is one bit, as SIGCHLD is.  The parent's loop goes through
`select`, and per channel `read`, `write`, `check`; the handler may come between any two
of its steps.  `InPipeEnded` is the condition for an end of file in the presence of
inherited copies.  A write to a pipe nobody reads ends the parent (SIGPIPE).
`WriteAgain` is EAGAIN on a standard output that is shared.  `CallFails` is any other
error of `select()`, `read()` or `write()` in the loop, or SIGPIPE from a standard output
that nobody reads: the parent ends with a failure, and `broken` remembers it.  When the
handler finds no child left, `wait()` fails and it returns (second disjunct of
`HandlerWait`).  `ChildStopped` is a SIGCHLD
for a child that has been stopped (SA_NOCLDSTOP is not set): the handler then waits
for some child to end, which may be never.  How long the stop lasts is left open: the
safety properties hold for behaviours in which the child never goes on, and
`AlwaysEnds` promises nothing once `stopped`.  Left out: failures of the set-up
(main.c:26-184).

### RBTree, Dictionary

`heap` maps addresses to nodes, `live` is what is allocated; `Free` blanks a node, and
an address may be handed out again.  One action is one C function up to its tail call (`pc`
is the function that runs next); rotations (`Rotate`, `Hang`) assign pointers in the
order of the code, where the order matters.  The searches are recursive functions of the
node, defined with `CHOOSE` and so open to proof.
`call` is the call of the interface that is under way, with its arguments, or the
result of the last one; `Begin` is the program calling, with any arguments.
`createMap` adds its items one by one (`todo`); `calloc()` may fail for the map
(`CreateFails`) and for every node (`AddFails`, `CreateFails`).
`Dictionary` has the same calls and results, and one step for what each does: `Add`
puts an item under the key of the call and nowhere else, `Remove` takes that key away,
and so on (`createMap` takes one step for the map and one for each item).  The
refinement says in the middle of which function that step happens.  The content is
that of the live nodes (`Content`), so an item is added when its node is allocated,
and is gone when no node has its key, either in `deleteNode`, which writes another
item over it, or when the node is freed.  From there to the return of the C
function the call counts as done (`Effective`, `Outcome`), and no further step may
change the content.  Left out: functions that only read and print; a NULL map as
argument, for which every function returns INVALID_ARG at once.

### Cluster

One action is one system call of a thread, or what nothing can come between.
`main`, `getter`, `handler[i]`, `worker[w]` are program counters.  `conn[w]` is the server's
end of a connection: `queued` (established, nobody has accepted it), `accepted`,
`closed`.  `given[w]` and `reply[w]` are what is on its way; TCP keeps order and loses
nothing while both ends live, and a worker that dies may take its answer with it.
A `send()` to a connection whose other end has closed may succeed (`WAnswer`, `WPing`),
as the first one does.  Sockets are named by the worker at the other end; `None` is
the 0 that `calloc()` left.  The close of an uninitialized descriptor
(worker_manager.c:250 after a failed create_server_socket) and the cancelling of
joined threads (worker_manager.c:326) have no defined meaning; the model lets them
do what the build can: hit the hello thread's socket or nothing; crash or nothing.
Interval ends count units of `interval_per_thread`; the value of an integral is its
interval.  `fault` remembers that something outside the program failed.  `AcceptFails` is the
timeout of `accept()`, or another error of it.  A timeout is a fault only where fewer
workers than are needed had heard a hello and tried to connect (`Tried`); when enough
have, it is the program's own doing, and `FailureHasACause` asks for its cause: a
worker that connected before `listen()` and was refused (`TurnedAway`).  Left out: rounding, the queue's limit of ten, the inside of
`Integrate()`, which succeeds or fails in one step.

### Integrate

One action is one call of the main thread that can fail, or one access of another
thread to its `thread_info`.  `allocated` is what is on the heap: the array of cores ("cpus") and the arrays of
processors in it, the pipe of `popen()`, and the three arrays of `Integrate()`.  `Free` of
anything else crashes, and a thread that uses `infosp` when it is freed goes on with anything or
crashes (`UsesFreed`).  `CpuInfo` is `get_mycpu_info` as it is: a new core goes to the next
place, a known one is looked up at the place of its id.  A processor may so be put at
a place where none is sought, or that a new core overwrites (`Astray`): its array is
not freed (`Found`, calc.c:162-165).  `GetCpuInfo` has all its ways out: `popen()` fails and
`fread()` gets NULL, no memory for the cores (the pipe stays open), no memory when an
array of processors grows (`Full`: whenever its length is a power of two; the old
array of that core is lost).  A machine is the "core id" lines, the number of
processors and the size of a cache line, by which `AllocateInfos` divides.  Lengths are counted in steps
of the integration, values in half steps, so that the sum is exact; `Foo` is the
integrand.  `CpuInfo` and `Sum` are recursive functions.  Left out: rounding, the parsing of `/proc/cpuinfo`, ids of cores beyond
the number of processors (which write outside the array), `pthread_join()` failing,
the process that `fclose()` of a `popen()` stream does not wait for.

### SignalBits

`pending` is the set of signals pending for the parent, `acked` the one for the child.
`ParentSuspend` takes one signal or several: `sa_mask` is not initialized, so other
handlers may or may not be blocked meanwhile, and their order is that in which the
kernel stacks them (`Taken`).  `ParentEnds` kills the child (PR_SET_PDEATHSIG), unless it
has not yet asked for it.  A character is a number of `Width` bits, and the greatest
is EOF, because `ch` is a `char` (main.c:90).

### MsgMes

`queue[i]` counts the messages of type i.  `Send` and `Receive` fail once the queue is
removed, and do not block otherwise but for want of a message.  The parent has the
same right to its own message as the child it is for.  `killed` remembers kills: one
of the parent or of a child that owes an answer may leave others waiting.

## 3. Runs

| run | instance | shows |
|---|---|---|
| `semshm_safety` | 2 writers, 2 readers, files of at most 2 buffers, values 0 and 2 left in PRINT and MEMORY, all failures; symmetric | `ShmExclusive`, `OutputIsPrefix`, `FinishedIsPrinted`, `CleanSlate`, `UndoIsExact` |
| `semshm_live` | the same without failures, fair | `SessionEnds`, `FileArrives` |
| `semshm_reader_died` | as `semshm_live` | violation of `ReaderDied`: the message of writer.c:120 is wrong |
| `channel` | buffer of 4, 7 bytes of 2 values | `RoomIsFree`, `DataIsUsed`, `IsFifo` |
| `proxy` | 3 children that may fail or be stopped, any call of the parent failing, 2 bytes, pipes of 1, buffers 2, 1, 1, fair | `OutputIsPrefix`, `SuccessIsComplete`, `FailureHasACause`, `WaitNeverBlocks`, `AlwaysEnds` |
| `proxy_killed` | 2 children, 1 byte | violation of `KilledIsReported`: main.c:286 may not be reached |
| `container` | 5 keys, 2 values, any calls with any arguments, `createMap` from 0 or 2 items (two of one key or of two), every `calloc()` failing | `NoNullAccess`, `WellFormed`, `IsDictionary` |
| `container_deep` | trees of 10 items built in rising and falling order, deletions in any order | `WellFormed`, `CallsReturn` |
| `cluster` | 3 workers, up to 2 machines, up to 3 threads asked for, all failures, fair | `ResultIsComplete`, `FailureHasACause`, `NobodysWorkIsLost`, `AllEnd` |
| `integrate` | -1 to 3 threads, 13 machines of 1 to 4 processors, intervals in both directions and empty, every allocation, `popen()` and all calls of pthreads but `pthread_join()` failing | `ResultIsIntegral`, `CrashHasACause`, `NothingLeaks`, `Spread` |
| `signalbits` | files of up to 2 characters of 3 bits, either process killed or stopped, fair | `OutputIsFile`, `BothEnd` |
| `msgmes` | 4 children, `fork()` failing, any process killed, fair | `TurnsInOrder`, `AllEnd` |

Each passing run also checks its module's `TypeOK`, or leaves that to the other run of
the module.

*Bounds, and why they are enough.*  Two writers and two readers: the hazards are
between a session and the one after it, or between a pair and one newcomer of each
kind; the proofs remove the bound.  Two buffers: one may wait while the other is
overwritten.  A ring buffer of four goes round almost twice with seven bytes, and
pieces of every length meet every offset; the proof removes the bound.  Three
children: a first, a middle and a last one, which the code treats differently; two
bytes through pipes of one and buffers of two and one, so that pipes and buffers are
full, empty and (the first buffer) partly full; the proof removes the bounds.
Five keys reach all insertion cases and both
sides of each, and calls with keys that are and are not in the map; deletions that hand an imbalance up more than one level need ten.
Two tasks and three workers: a worker too few, enough, and one too many; three
threads for two machines do not divide evenly, and there may be fewer threads than
machines.  Values 0 for both arguments are included; the proof removes the bounds.
In `integrate` there are fewer threads than processors, as many, and more, and cores
numbered in order, out of order and with gaps (so that processors are lost in both of
the two ways), one without "core id" lines and one whose cache line is unknown.  Three bits make a first, a middle
and a last one, and two characters one that follows another.  Four children have a
turn before, at and after that of one who is killed.

*Deadlock* is not checked where programs stop: when all processes have ended, in
`Cluster` also when workers that never hear a hello wait for ever, as `recvfrom()` in
worker.c:68 does, in `Proxy` when the handler waits for a stopped child, and in `MsgMes`
when somebody who owes a message has been killed.  It is checked in `integrate`,
where only `Terminated` stutters: every other step goes forward, so that the program
gets to its end in every behaviour.

*Fairness.*  Weak fairness only, of each process or thread: what can run does run.
In `SemShm` nobody is promised a place over others who want it, so there is none for
the single semaphore.  In `Proxy` a standard output that `select()` reports as ready
again and again must take bytes some time (strong fairness of `WriteOut`); children
need not fail and the handler runs when a signal is pending.  In `Cluster` no hello
need arrive, `accept()` has its ten seconds, and a worker that computes comes to an
end or dies (keepalive tells the server).  In `container_deep` a call that has begun goes
on (weak fairness of the steps inside the map); nobody need call.  In `SignalBits` and `MsgMes` the child and the
parent, or each of the processes, run; failures need not happen.

## 4. Proofs

*SemShm* (`SemShmProofs`), for any finite set of writers, any set of readers and files
of any length: `TypeCorrect`, `Exclusive`, `Prefixes`, `Finish`, `Clean`, `Exact`, that is
all the safety properties of `semshm_safety`, crashes and removal included.  None of
them is inductive.  The invariant `IInv` of `SemShmInv` has two halves.  `Lasting` holds
with or without the set: at most one process of each kind is past its first
`semop()`, at most one has the right to use the segment, and each process's data is
what its step says.  `SetParts` holds while the set exists and says what each value is
made of: undo values are those of the operations done (`AdjInv`), WEXIST, REXIST, PAIR
and FINISH count who put them there, no undo of an earlier process can come back
into a semaphore that SETVAL has set (`SetValInv`), and the heart of it, MEMORY + PRINT +
(who has the right) = 1 in a session (`TokenSum`) with the data that goes with it
(`ReadyInv`, `SessionData`).  It is needed in halves because a process on a removed set
still runs to its next `semop()`.  Each part has its lemma with a step per action.
Assumptions: writers and readers are different processes, writers are finitely
many (FINISH counts them), what earlier sessions left are natural numbers.

*Channel* (`ChannelProofs`), for any buffer size and any bytes: `TypeCorrect`,
`ReadsIntoRoom`, `WritesFromData`, and `Implements`: Spec => IsFifo, the refinement of the
queue.  The invariant relates the two offsets to the counts modulo the size, and the
bytes between them to what was read and not yet written.  The only assumption is
a size of at least one.

*Proxy* (`ProxyProofs`), for any number of children, any length of the file, pipes and
buffers of any size: `TypeCorrect`, `InOrder`, `Complete`, `Justified`, `NeverBlocks`, all the
safety properties of the run.  `OutputIsPrefix` needs to know where each byte is:
`Flow` says that there is a number D[i] of bytes that have left channel i such that
each pipe and buffer holds the next piece of the file after those in front of it.
`Ends` is the order in which ends of file are passed on; `Serving` that what `select()`
has returned still holds when a channel is served, although children go on
meanwhile; `Zombies` that a signal, pending or being handled, stands for a child that
is not waited for, and two of them for two.  `Justified` needs no assumption about the
standard output: the loop goes wrong only where a child has failed, and `CallFails` is
the one step that adds another cause.

*Cluster* (`ClusterProofs`), for any workers, any bounds of the arguments: `TypeCorrect`,
`Complete`, `Justified`, `NoneLost`.  `Divided`: the tasks are those of `divide_work()`;
`Sockets`: no worker is accepted twice; `Passed`: what is on its way to or from a worker
is its task, or the integral over it; `Added`: what has been added is the parts in
order; `Smooth`: where nothing has failed and `accept()` has not timed out (`Disturbed`), each
accepted worker is where its handler expects it (`Serves`).  `Blamed` is for the timeout:
a worker that has tried to connect is refused, queued or accepted; with at least as
many that have tried as there are tasks, not all tasks served and nobody queued, one
of them is refused (by counting).  `Parts` and `OnePart` are the arithmetic of the division: every
unit is in exactly one part.  Assumptions: bounds are natural numbers, and `None` is no
worker, no task and no answer.

*RBTree* (`RBTreeProofs`), for any keys, values, arrays given to `createMap` and numbers of
nodes: `TypeCorrect`, `NoNullAccessHolds`, `WellFormedHolds`, and `ImplementsDictionary`:
Spec => IsDictionary, the refinement.  `WellFormed` speaks of the tree between two
calls, by recursion from the root.  The invariant `IInv` of `RBTreeInv` has to speak of it
in the middle of one, where it is no red-black tree, and without recursion: it says
that there are a top, the set U[n] of nodes under each n and its black height bh[n], such
that each is made of those of the children (`Shape`, `Sorted`, `Balanced`, `Colored`).
`Tree` allows for one fault of each kind, and `IsTree` says which one each function is
called with: the key of M, which `deleteNode` has copied to another node, is not in order
until M is freed (X); a black node is missing on the ways through
`node` while the imbalance climbs (`Short`); M, still linked, does not count (`Leaving`);
`node` and its parent are both red while an insertion climbs (`Violator`).  `AtInsert`,
`AtCase`, `AtDelete` and `AtRest` say what each function takes for granted of its
arguments: that a violator below the top has a grandparent, that the brother is
black from case 3 on, that a nephew is red in case 5 and the outer one in case 6.  They
and the black heights give `NoNullAccess`: where a black node is missing on one side
there is one on the other.  The proof goes by lemmas about trees (what a rotation, a
new leaf, a splice, a change of colour or of a key does to each of the four parts,
whatever the variables are) and then by a lemma per action.  For the properties the
ghosts are eliminated: `FindTop`, `FindItem`, `FindParent`, `Outermost`, `Under` and
`BlackHeights` of a tree are shown to be what U and bh say.  For the refinement
three more parts are needed.  `AtCall` is about the call alone: its arguments are real
ones, items are waiting only in `createMap`, and where a call has returned no function is
running.  `KeysReal` says that keys of live nodes are keys of the caller.  `AtItem` ties
the call to the tree: `deleteNode` is given the node of the key to be deleted; after it,
either that key is M's alone, or no node has it and the key of M is that of another
node (which two nodes have only while M is being taken out, by `IInv`); so that freeing
M takes away the key of the call, or nothing.  `findItem` finds a key if and only if a
node holds it, and each action is one step of `Dictionary` for this call and these
arguments, or leaves content and `Outcome` alone.  Assumptions: keys are integers,
arrays are sequences of items, addresses are numbers other than null.

*Integrate* (`IntegrateProofs`), for any number of threads, machines and integrands: all
the safety properties of the run.  `AllFreed` and `CrashExplained` rest on `IInv`: `Owned`
says what is allocated at each step, `Waited` that without one of the named causes
no thread is at work when memory is freed.  That processors are left behind only where
cores are not numbered in order (`NoneAstray`) follows from `CpuInfoGrouped`, below.  `TypeCorrect` and `PrintsIntegral` take a second
invariant, `RInv`: each thread has the interval of its number, a finished one has
left the integral over it, and what the main thread has added is the integral up to
the end of the last thread joined.  `CalcIntegral` lags one step behind the trapezoids;
for a function that is monotone the two differ by no more than the function changes
over the interval (`CalcIntegralClose`), and these differences add up over intervals in
a row (`CloseAdds`).  Hence the hypothesis `Monotone` of `PrintsIntegral`: the integrand
rises or falls all the way where it is integrated, as `foo` of the programs, x * x, does
on one side of 0 (Integral's `main.c` integrates it from 0 to 200).
`CpuInfoGrouped`: after `get_mycpu_info` every processor is listed once, with its core,
where cores come in the order of their numbers (`InOrder`); by induction over the
processors.  From it and the third invariant `Bound` (the affinities are what the two remainders
make of the list) follows `ThreadsSpread`: no core, and no processor of a core, has more
than one thread more than another.  Assumptions: a machine has at least one
processor, a "core id" line for each or none, and ids less than the number of lines (a
greater one would be written outside the array); ends and widths of intervals are
integers; the integrand has an integer value where it is looked at.

*SignalBits* (`SignalBitsProofs`), for files of any length and characters of any width:
`TypeCorrect`, `Faithful`, and `BitsGiveChar`, that the parent's sum of powers of two gives
back the character the child took apart, by induction over the bits.
`Received` and `OnTheWay` relate the parent's bits and the pending signal to the file,
`Turns` says whose turn it is and how far both are, `Orderly` what is known where nobody
is killed or stopped.

*MsgMes* (`MsgMesProofs`), for any number of children: `TypeCorrect`, `InTurn`, from the
fact that at most one message or turn exists, that of the child the parent is at.

*Recursion.*  What a recursive definition computes is proved for every input in three
modules, without an induction theorem that takes an operator.  A property of numbers
is stated as a set of numbers; `Induction` (`SignalBitsProofs`, `IntegrateProofs`,
`RBTreeProofs`) says that a set with 0 in it that is closed under successor holds all
of them, and follows from the library's theorems about finite sets.  That a recursive
function exists (the `CHOOSE` behind its definition has a value) is proved by building
its restrictions to ever longer domains, and for trees to ever larger subtrees.  No
module with a theorem uses a RECURSIVE operator.

*Only model-checked.*  The liveness properties (`SessionEnds`, `FileArrives`, `AlwaysEnds`,
`CallsReturn`, `BothEnd`, `AllEnd`): fairness is out of the prover's reach.  The two
violations are counterexamples.  Every safety property and every refinement that a
passing run checks is proved.

## 5. Findings

* The writer prints "reader died" and gives up while its reader is alive
  (`semshm_reader_died`); nothing is lost, but nothing is sent either.  It is why
  `FileArrives` speaks of a session that both have begun.
* The parent of the proxy may return 0 with a truncated output when a child is
  killed (`proxy_killed`).

Observations, met while modelling; the properties are stated so that they hold
of the code as it is, and name them as exceptions:

* `Integrate` (lines of NetworkIntegration's copy): with fewer threads than
  processors it frees memory that running threads still write to (calc.c:154); a
  negative number of threads is not refused (Integral/calc.c:48); a `/proc/cpuinfo`
  without "core id" lines makes it divide by zero (pthread_manager.c:123), and so does a
  cache line of unknown size (:141); a `popen()` that fails is read from (:45-51).  Memory is
  left behind by a failing `pthread_attr_init()` (calc.c:104), by a failing `realloc()`
  (:32, the array of that core), and by success where cores are numbered with gaps:
  calc.c:162-165 frees the processors of the first `n_cpu` places only; without memory
  for the cores the pipe stays open (:64-65).  Where the ids of cores have gaps or come
  out of order, processors are put with the wrong core, an array may be overwritten
  (:25), and some processors get no thread.
* `Signals`: the byte 0xFF ends the file (main.c:90-92); a child that is stopped makes
  the parent end with what it has, and with status 0.
* `MsgMes`: the parent may take its own message, and then that child's number is
  never printed; a parent that is killed leaves the queue and the children.
* `Proxy`: a child that is stopped makes the parent wait in the handler.
* `NetworkIntegration`: hellos may be broadcast before the server listens
  (common.c:118-126 start the two threads in no order); a worker that is refused gives
  up for good, and the computation can fail although enough workers have come.  It is
  the one way to fail that `FailureHasACause` allows inside the program.
* `TransFileSemShm`: a `write()` of the reader that takes only a part of the buffer
  (reader.c:118) drops the rest.

## 6. Plan

Done: `SemShm` first (the program with the most interleaving), `Channel` and `Proxy`,
`RBTree`, `Cluster`, then `Integrate`, `SignalBits` and `MsgMes`; proofs of all
the safety properties of all of them.

What could follow:

1. The parent's set-up in `Proxy` (main.c:26-184): a `pipe()` or `fork()` that fails with some
   of the children running.
2. A second generation of the semaphore set in `SemShm`: processes that start
   between the two removals of `RemoveAll.c` and attach the old segment.
3. `Proxy` with the buffers of `Channel` in the place of its queues, and the refinement
   between the two proved.
4. An abstract one-place channel that `SignalBits` implements.

## 7. Not modelled

* `TransFileSemShm/src.c`, `main.c`, `Proxy/train.c`, `MsgMes/main.c`: not part of the programs.
* `Container/Test/**`: tests.  `Seminars/**`, `tmp`: exercises with no component to speak of.
* In the modelled programs: the set-up of `Proxy`; short writes of the reader
  (reader.c:118) and generations of the set in TransFileSemShm; a pointer that a
  caller of the map keeps across a deletion (helper.c:363); rounding of
  floating-point numbers; the parsing of arguments and of `/proc/cpuinfo`.
