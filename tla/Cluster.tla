------------------------------- MODULE Cluster -------------------------------
(***************************************************************************)
(* Projects/NetworkIntegration: a server divides an integral among worker  *)
(* machines.  The server broadcasts hellos from one thread and accepts     *)
(* connections in another; when it has a worker for each task, a handler   *)
(* thread per task sends the task and waits for the answer, and the main   *)
(* thread adds the answers up.  A worker waits for a hello, connects,      *)
(* receives its task, integrates, and sends the answer and a "ping".       *)
(*                                                                         *)
(* One action is one system call of a thread, or the calls of one function *)
(* that nothing else can come between.  The ends of intervals are counted  *)
(* in units of interval_per_thread from begin (worker_manager.c:75); the   *)
(* value of an integral is the interval it was taken over.  Of a failure   *)
(* of the environment (memory, threads, sockets, a process that is killed, *)
(* too few workers that hear a hello and try to connect in time) the model *)
(* remembers that there was one.                                           *)
(***************************************************************************)
EXTENDS Integers, Sequences, FiniteSets

CONSTANTS Workers,      \* the machines that run the worker part
          MaxMachines,  \* bounds of the command line's n_machines
          MaxThreads,   \* and n_threads
          None          \* no worker, no task, no answer

Infos == [threads : 0 .. MaxThreads, begin : 0 .. MaxThreads, end : 0 .. MaxThreads]
Intervals == [begin : 0 .. MaxThreads, end : 0 .. MaxThreads]

ASSUME BoundsAssumption == MaxMachines \in Nat /\ MaxThreads \in Nat
ASSUME NoneAssumption == None \notin Workers \cup Infos \cup Intervals

VARIABLES
  n_machines, n_threads,  \* the server's arguments
  main,      \* the next step of the server's main thread
  outcome,   \* what run_server() has come to
  result,    \* the integrals that the main thread has added up
  joined,    \* how many handlers it has joined
  task,      \* tasks->task: what each worker is to do, and the socket to it
  getter,    \* the next step of the thread th_getter
  listening, \* the server socket is open
  hellos,    \* the thread th_sender is running
  handler,   \* handler[i]: the next step of the i-th thread of get_result()
  part,      \* part[i]: what that thread returns
  conn,      \* conn[w]: the server's end of the connection to w
  given,     \* given[w]: the task sent to w
  reply,     \* reply[w]: the answer of w, on its way
  worker,    \* worker[w]: the next step of w
  fault      \* something outside the program has failed

mainVars == <<main, outcome, result, joined>>
setup == <<n_machines, n_threads, task>>
getterVars == <<getter, listening, hellos>>
handlerVars == <<handler, part>>
data == <<given, reply>>
vars == <<n_machines, n_threads, main, outcome, result, joined, task, getter, listening,
          hellos, handler, part, conn, given, reply, worker, fault>>

Init ==
  /\ n_machines \in 0 .. MaxMachines /\ n_threads \in 0 .. MaxThreads
  /\ main = "divide" /\ outcome = "none" /\ result = <<>> /\ joined = 0
  /\ task = <<>>
  /\ getter = "off" /\ listening = FALSE /\ hellos = FALSE
  /\ handler = <<>> /\ part = <<>>
  /\ conn = [w \in Workers |-> "none"]
  /\ given = [w \in Workers |-> None] /\ reply = [w \in Workers |-> None]
  /\ worker = [w \in Workers |-> "wait"]
  /\ fault = FALSE

-----------------------------------------------------------------------------
(* divide_work() *)

(* Mistake: n_workers is the number of machines (as before worker_manager.c:80). *)
NWorkers_Machines == n_machines
NWorkers == IF n_machines < n_threads THEN n_machines ELSE n_threads
Share == n_threads \div NWorkers

Division ==
  [i \in 1 .. NWorkers |->
     [w_info |-> [threads |-> IF i < NWorkers THEN Share ELSE n_threads - (NWorkers - 1) * Share,
                  begin |-> (i - 1) * Share,
                  end |-> IF i < NWorkers THEN i * Share ELSE n_threads],
      socket |-> None]]

-----------------------------------------------------------------------------
(* The server's process *)

(* How many workers have been accepted: they are put into the tasks in order. *)
Accepted == {i \in DOMAIN task : task[i].socket # None}

(* The server's process is gone: its threads, and its ends of the connections.  *)
ProcessEnds ==
  /\ main' = "exited"
  /\ getter' = "off" /\ listening' = FALSE /\ hellos' = FALSE
  /\ handler' = [i \in DOMAIN handler |-> "off"]
  /\ conn' = [w \in Workers |-> IF conn[w] = "none" THEN "none" ELSE "closed"]

(* run_server() gives up at this point. *)
Fails(next) == main' = next /\ outcome' = "failed" /\ UNCHANGED <<result, joined>>

Divide ==
  /\ main = "divide"
  /\ IF n_machines = 0 \/ n_threads = 0
     THEN Fails("return") /\ UNCHANGED <<task, fault>>
     ELSE \/ /\ task' = Division /\ main' = "getter"
             /\ UNCHANGED <<outcome, result, joined, fault>>
          \/ Fails("return") /\ fault' = TRUE /\ UNCHANGED task
  /\ UNCHANGED <<n_machines, n_threads, getterVars, handlerVars, conn, data, worker>>

CreateGetter ==
  /\ main = "getter"
  /\ \/ /\ main' = "sender" /\ getter' = "listen"
        /\ UNCHANGED <<outcome, result, joined, fault>>
     \/ Fails("return") /\ fault' = TRUE /\ UNCHANGED getter
  /\ UNCHANGED <<setup, listening, hellos, handlerVars, conn, data, worker>>

CreateSender ==
  /\ main = "sender"
  /\ \/ /\ main' = "join" /\ hellos' = TRUE
        /\ UNCHANGED <<outcome, result, joined, fault>>
     \/ Fails("return") /\ fault' = TRUE /\ UNCHANGED hellos
  /\ UNCHANGED <<setup, getter, listening, handlerVars, conn, data, worker>>

(* pthread_join (th_getter) and pthread_cancel (th_sender).  Whatever came of  *)
(* get_tcp_connections(), the program goes on.  A hello the sender is just     *)
(* sending is one that a worker has received and not acted upon.               *)
JoinGetter ==
  /\ main = "join" /\ getter = "done"
  /\ main' = "create" /\ hellos' = FALSE
  /\ UNCHANGED <<outcome, result, joined, setup, getter, listening, handlerVars, conn, data,
                 worker, fault>>

-----------------------------------------------------------------------------
(* get_result() *)

CreateHandler ==
  /\ main = "create" /\ Len(handler) < Len(task)
  /\ handler' = Append(handler, "send") /\ part' = Append(part, None)
  /\ UNCHANGED <<mainVars, setup, getterVars, conn, data, worker, fault>>

AllCreated ==
  /\ main = "create" /\ Len(handler) = Len(task)
  /\ main' = "add"
  /\ UNCHANGED <<outcome, result, joined, setup, getterVars, handlerVars, conn, data, worker,
                 fault>>

(* pthread_cancel() of the threads created.  Each step of a handler is a        *)
(* cancellation point, so that one that has not returned takes no other.        *)
CancelHandlers ==
  handler' = [i \in DOMAIN handler |-> IF handler[i] = "returned" THEN "returned" ELSE "off"]

(* No memory for the array of threads, or no more threads. *)
CreateFails ==
  /\ main = "create" /\ Len(handler) < Len(task)
  /\ Fails("close") /\ CancelHandlers /\ fault' = TRUE
  /\ UNCHANGED <<setup, getterVars, part, conn, data, worker>>

Returned == handler[joined + 1] = "returned"

(* Mistake: a handler that returns NULL is passed over. *)
AddPart_NullToo ==
  /\ main = "add" /\ joined < Len(task) /\ Returned
  /\ joined' = joined + 1
  /\ result' = IF part[joined + 1] = None THEN result ELSE Append(result, part[joined + 1])
  /\ UNCHANGED <<main, outcome, setup, getterVars, handlerVars, conn, data, worker, fault>>

AddPart ==
  /\ main = "add" /\ joined < Len(task) /\ Returned
  /\ part[joined + 1] # None
  /\ joined' = joined + 1 /\ result' = Append(result, part[joined + 1])
  /\ UNCHANGED <<main, outcome, setup, getterVars, handlerVars, conn, data, worker, fault>>

(* The handler has returned NULL: all are cancelled, those that have been joined *)
(* (this one at least) too, which has no defined meaning: the thread is not      *)
(* found, or the process crashes.                                                *)
NoPart ==
  /\ main = "add" /\ joined < Len(task) /\ Returned
  /\ part[joined + 1] = None
  /\ \/ Fails("close") /\ CancelHandlers /\ UNCHANGED <<getterVars, conn>>
     \/ ProcessEnds /\ UNCHANGED <<outcome, result, joined>>
  /\ UNCHANGED <<setup, part, data, worker, fault>>

AllAdded ==
  /\ main = "add" /\ joined = Len(task)
  /\ main' = "close" /\ outcome' = "result"
  /\ UNCHANGED <<result, joined, setup, getterVars, handlerVars, conn, data, worker, fault>>

(* The end of run_server().  A descriptor that is closed already, or 0 where no *)
(* worker was accepted, is closed once more.                                    *)
CloseSockets ==
  /\ main = "close"
  /\ main' = "return"
  /\ conn' = [w \in Workers |-> IF \E i \in DOMAIN task : task[i].socket = w
                                THEN "closed" ELSE conn[w]]
  /\ UNCHANGED <<outcome, result, joined, setup, getterVars, handlerVars, data, worker, fault>>

Return ==
  /\ main = "return"
  /\ ProcessEnds
  /\ UNCHANGED <<outcome, result, joined, setup, part, data, worker, fault>>

(* The server's process is killed. *)
Killed ==
  /\ main # "exited"
  /\ ProcessEnds /\ fault' = TRUE
  /\ UNCHANGED <<outcome, result, joined, setup, part, data, worker>>

Main == \/ Divide \/ CreateGetter \/ CreateSender \/ JoinGetter
        \/ CreateHandler \/ AllCreated \/ CreateFails \/ AddPart \/ NoPart \/ AllAdded
        \/ CloseSockets \/ Return

-----------------------------------------------------------------------------
(* get_tcp_connections() and send_hellos() *)

Listen ==
  /\ getter = "listen"
  /\ getter' = "accept" /\ listening' = TRUE
  /\ UNCHANGED <<hellos, mainVars, setup, handlerVars, conn, data, worker, fault>>

(* create_server_socket() or listen() fails.  The close() at the end may be of *)
(* an uninitialized serv_sock: it can hit the socket of send_hellos(), which   *)
(* then ends.                                                                  *)
ListenFails ==
  /\ getter = "listen"
  /\ getter' = "done" /\ hellos' \in {hellos, FALSE} /\ fault' = TRUE
  /\ UNCHANGED <<listening, mainVars, setup, handlerVars, conn, data, worker>>

Accept ==
  /\ getter = "accept"
  /\ \E i \in DOMAIN task, w \in Workers :
       /\ i \notin Accepted /\ 1 .. i - 1 \subseteq Accepted
       /\ conn[w] = "queued"
       /\ task' = [task EXCEPT ![i].socket = w]
       /\ conn' = [conn EXCEPT ![w] = "accepted"]
  /\ UNCHANGED <<getterVars, mainVars, n_machines, n_threads, handlerVars, data, worker, fault>>

(* The workers that have heard a hello and have tried to connect since. *)
Tried == {w \in Workers : worker[w] \notin {"wait", "connect"}}

(* Nobody has come for ten seconds, or accept() fails otherwise; the workers accepted *)
(* so far are let go.  It is not the environment's fault that nobody comes when as    *)
(* many as are needed have tried.                                                     *)
AcceptFails ==
  /\ getter = "accept" /\ Accepted # DOMAIN task
  /\ \/ /\ \A w \in Workers : conn[w] # "queued"
        /\ fault' = (fault \/ Cardinality(Tried) < Len(task))
     \/ fault' = TRUE
  /\ getter' = "closing"
  /\ conn' = [w \in Workers |-> IF conn[w] = "accepted" THEN "closed" ELSE conn[w]]
  /\ UNCHANGED <<listening, hellos, mainVars, setup, handlerVars, data, worker>>

(* Mistake: success falls through to exit_close_sockets. *)
AllAccepted_Closes ==
  /\ getter = "accept" /\ Accepted = DOMAIN task
  /\ getter' = "closing"
  /\ conn' = [w \in Workers |-> IF conn[w] = "accepted" THEN "closed" ELSE conn[w]]
  /\ UNCHANGED <<listening, hellos, mainVars, setup, handlerVars, data, worker, fault>>

AllAccepted ==
  /\ getter = "accept" /\ Accepted = DOMAIN task
  /\ getter' = "closing"
  /\ UNCHANGED <<listening, hellos, mainVars, setup, handlerVars, conn, data, worker, fault>>

(* close (serv_sock): connections nobody has accepted are reset. *)
CloseListener ==
  /\ getter = "closing"
  /\ getter' = "done" /\ listening' = FALSE
  /\ conn' = [w \in Workers |-> IF conn[w] = "queued" THEN "closed" ELSE conn[w]]
  /\ UNCHANGED <<hellos, mainVars, setup, handlerVars, data, worker, fault>>

(* A hello cannot be sent: the thread ends. *)
SenderFails ==
  /\ hellos
  /\ hellos' = FALSE /\ fault' = TRUE
  /\ UNCHANGED <<getter, listening, mainVars, setup, handlerVars, conn, data, worker>>

Getter == \/ Listen \/ ListenFails \/ Accept \/ AcceptFails \/ AllAccepted
          \/ CloseListener

-----------------------------------------------------------------------------
(* work_handler() *)

Open(w) == w # None /\ conn[w] = "accepted"

Step(i, next, value) ==
  /\ handler' = [handler EXCEPT ![i] = next]
  /\ part' = [part EXCEPT ![i] = value]

(* What is sent to a worker that is gone is accepted all the same. *)
HSend(i) ==
  /\ handler[i] = "send" /\ Open(task[i].socket)
  /\ Step(i, "select", None)
  /\ given' = [given EXCEPT ![task[i].socket] = task[i].w_info]
  /\ UNCHANGED <<reply, mainVars, setup, getterVars, conn, worker, fault>>

(* The worker has closed its end, or keepalive has found it dead. *)
Left(w) == worker[w] \in {"done", "error", "dead"}

(* The descriptor is closed already, or is 0 and no socket; or the worker has  *)
(* been found to be gone.                                                      *)
HSendFails(i) ==
  /\ handler[i] = "send"
  /\ Open(task[i].socket) => Left(task[i].socket)
  /\ Step(i, "returned", None)
  /\ UNCHANGED <<mainVars, setup, getterVars, conn, data, worker, fault>>

HNoMemory(i) ==
  /\ handler[i] = "send"
  /\ Step(i, "returned", None) /\ fault' = TRUE
  /\ UNCHANGED <<mainVars, setup, getterVars, conn, data, worker>>

HReceive(i) ==
  /\ handler[i] = "select" /\ Open(task[i].socket)
  /\ LET w == task[i].socket
     IN /\ reply[w] # None
        /\ Step(i, "returned", reply[w])
        /\ reply' = [reply EXCEPT ![w] = None]
  /\ UNCHANGED <<given, mainVars, setup, getterVars, conn, worker, fault>>

HReceiveFails(i) ==
  /\ handler[i] = "select"
  /\ LET w == task[i].socket IN Open(w) => Left(w) /\ reply[w] = None
  /\ Step(i, "returned", None)
  /\ UNCHANGED <<mainVars, setup, getterVars, conn, data, worker, fault>>

Handler(i) == \/ HSend(i) \/ HSendFails(i) \/ HNoMemory(i) \/ HReceive(i) \/ HReceiveFails(i)

-----------------------------------------------------------------------------
(* run_worker() *)

Goes(w, next) == worker' = [worker EXCEPT ![w] = next]

(* get_hello_message(): a hello comes, from a server that may not listen yet; it *)
(* may also be lost, or come before the worker is there.                         *)
WHello(w) ==
  /\ worker[w] = "wait" /\ hellos
  /\ Goes(w, "connect")
  /\ UNCHANGED <<mainVars, setup, getterVars, handlerVars, conn, data, fault>>

WConnect(w) ==
  /\ worker[w] = "connect"
  /\ IF listening
     THEN Goes(w, "recv") /\ conn' = [conn EXCEPT ![w] = "queued"]
     ELSE Goes(w, "error") /\ UNCHANGED conn
  /\ UNCHANGED <<mainVars, setup, getterVars, handlerVars, data, fault>>

WReceive(w) ==
  /\ worker[w] = "recv" /\ given[w] # None
  /\ Goes(w, "integrate")
  /\ UNCHANGED <<mainVars, setup, getterVars, handlerVars, conn, data, fault>>

(* Mistake: the worker has no keepalive, and no end of the connection is seen. *)
WReceiveFails_Never(w) == FALSE /\ UNCHANGED vars

WReceiveFails(w) ==
  /\ worker[w] = "recv" /\ conn[w] = "closed"
  /\ Goes(w, "error")
  /\ UNCHANGED <<mainVars, setup, getterVars, handlerVars, conn, data, fault>>

(* Integrate() refuses a task of no threads. *)
WIntegrate(w) ==
  /\ worker[w] = "integrate"
  /\ Goes(w, IF given[w].threads = 0 THEN "error" ELSE "answer")
  /\ UNCHANGED <<mainVars, setup, getterVars, handlerVars, conn, data, fault>>

(* A socket fails, or Integrate() does, for want of memory or threads. *)
WorkerFails(w) ==
  /\ worker[w] \in {"wait", "connect", "integrate", "answer"}
  /\ Goes(w, "error") /\ fault' = TRUE
  /\ UNCHANGED <<mainVars, setup, getterVars, handlerVars, conn, data>>

(* The first send() to a server that has closed may succeed, to no effect. *)
WAnswer(w) ==
  /\ worker[w] = "answer"
  /\ IF conn[w] = "accepted"
     THEN /\ Goes(w, "ping")
          /\ reply' = [reply EXCEPT ![w] = [begin |-> given[w].begin, end |-> given[w].end]]
     ELSE (Goes(w, "ping") \/ Goes(w, "error")) /\ UNCHANGED reply
  /\ UNCHANGED <<given, mainVars, setup, getterVars, handlerVars, conn, fault>>

(* The byte that nobody reads.  The server may have had what it wanted and have *)
(* closed: then the worker may report an error.                                 *)
WPing(w) ==
  /\ worker[w] = "ping"
  /\ \/ Goes(w, "done")
     \/ conn[w] = "closed" /\ Goes(w, "error")
  /\ UNCHANGED <<mainVars, setup, getterVars, handlerVars, conn, data, fault>>

(* The worker or its machine dies; an answer on its way may be lost with it. *)
WorkerDies(w) ==
  /\ worker[w] \notin {"wait", "done", "error", "dead"}
  /\ Goes(w, "dead") /\ fault' = TRUE
  /\ reply' \in {reply, [reply EXCEPT ![w] = None]}
  /\ UNCHANGED <<given, mainVars, setup, getterVars, handlerVars, conn>>

Worker(w) == \/ WConnect(w) \/ WReceive(w) \/ WReceiveFails(w) \/ WIntegrate(w)
             \/ WAnswer(w) \/ WPing(w)

-----------------------------------------------------------------------------
Environment == \/ Killed \/ SenderFails
               \/ \E w \in Workers : WHello(w) \/ WorkerFails(w) \/ WorkerDies(w)

Next == \/ Main \/ Getter \/ Environment
        \/ \E i \in DOMAIN handler : Handler(i)
        \/ \E w \in Workers : Worker(w)

(* All threads and processes go on: no call waits for ever but those modelled as *)
(* guards.  accept() has its timeout.  Hellos may all be lost.                   *)
Fairness ==
  /\ WF_vars(Main) /\ WF_vars(Getter)
  /\ \A i \in 1 .. MaxThreads : WF_vars(i \in DOMAIN handler /\ Handler(i))
  /\ \A w \in Workers : WF_vars(Worker(w))

Spec == Init /\ [][Next]_vars
FairSpec == Spec /\ Fairness

-----------------------------------------------------------------------------
MainSteps == {"divide", "getter", "sender", "join", "create", "add", "close", "return", "exited"}
WorkerSteps == {"wait", "connect", "recv", "integrate", "answer", "ping", "done", "error", "dead"}

(* Types.  A task is for at least one thread (worker_manager.c:80, 99, 107), and *)
(* no more handlers are created than there are tasks.                            *)
TypeOK ==
  /\ n_machines \in 0 .. MaxMachines /\ n_threads \in 0 .. MaxThreads
  /\ main \in MainSteps /\ outcome \in {"none", "result", "failed"}
  /\ joined \in 0 .. Len(task)
  /\ result \in Seq(Intervals) /\ Len(result) = joined
  /\ DOMAIN task \subseteq 1 .. MaxThreads
  /\ task \in Seq([w_info : [threads : 1 .. MaxThreads, begin : 0 .. MaxThreads,
                             end : 0 .. MaxThreads],
                    socket : Workers \cup {None}])
  /\ getter \in {"off", "listen", "accept", "closing", "done"}
  /\ listening \in BOOLEAN /\ hellos \in BOOLEAN /\ fault \in BOOLEAN
  /\ Len(handler) <= Len(task)
  /\ handler \in Seq({"send", "select", "returned", "off"})
  /\ part \in Seq(Intervals \cup {None}) /\ Len(part) = Len(handler)
  /\ conn \in [Workers -> {"none", "queued", "accepted", "closed"}]
  /\ given \in [Workers -> Infos \cup {None}]
  /\ reply \in [Workers -> Intervals \cup {None}]
  /\ worker \in [Workers -> WorkerSteps]

(* The result printed (common.c:145) is the integral over the whole interval:    *)
(* every unit of it is in exactly one of the parts added up, whatever workers    *)
(* come, die, or are turned away, and although run_server() goes on after        *)
(* get_tcp_connections() has failed.                                             *)
ResultIsComplete ==
  outcome = "result" =>
    \A u \in 0 .. n_threads - 1 :
      \E k \in DOMAIN result :
        /\ result[k].begin <= u /\ u < result[k].end
        /\ \A j \in DOMAIN result : j # k => ~(result[j].begin <= u /\ u < result[j].end)

(* A worker that has given up without having had a connection. *)
TurnedAway(w) == worker[w] = "error" /\ conn[w] = "none"

(* "Computation failed!" (common.c:90, 111, 141), and an end without a result,    *)
(* have a cause: bad arguments, a failure outside the program, or the one race    *)
(* the program can lose: a hello reaches a worker before listen(), the worker is  *)
(* refused and gives up, and accept() waits for it in vain (common.c:118, 123).   *)
FailureHasACause ==
  outcome = "failed" \/ (main = "exited" /\ outcome = "none") =>
    \/ fault \/ n_machines = 0 \/ n_threads = 0
    \/ Accepted # DOMAIN task /\ \E w \in Workers : TurnedAway(w)

(* Where nothing outside has failed and all tasks have their workers, a worker    *)
(* that was accepted and yet reports an error (worker.c:180-183) has had its      *)
(* answer added to the result: it is only the ping, which races with the server's *)
(* close(), that was refused.                                                     *)
NobodysWorkIsLost ==
  ~fault /\ Accepted = DOMAIN task =>
    \A i \in DOMAIN task :
      worker[task[i].socket] = "error" => i <= joined /\ part[i] # None

(* The server's process ends, whoever comes or dies (the timeout of accept() and *)
(* the keepalive of the connections see to it), and a worker that has heard a    *)
(* hello does not wait for ever for a task, however the server ends, and whether *)
(* or not there is a task for it.                                                *)
AllEnd ==
  /\ <>(main = "exited")
  /\ \A w \in Workers : worker[w] # "wait" ~> Left(w)
=============================================================================
