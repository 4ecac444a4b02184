---------------------------- MODULE ClusterProofs ----------------------------
(***************************************************************************)
(* The safety of Cluster, for any number of workers, machines and threads. *)
(***************************************************************************)
EXTENDS Cluster, FiniteSetTheorems, TLAPS

Socket(i) == task[i].socket
Interval(info) == [begin |-> info.begin, end |-> info.end]
Tasked == n_machines > 0 /\ n_threads > 0

(* The tasks are those of divide_work(), and there are some. *)
HasTasks ==
  /\ Tasked /\ Len(task) = NWorkers
  /\ \A i \in DOMAIN task : task[i].w_info = Division[i].w_info

Divided ==
  /\ task = <<>> \/ HasTasks
  /\ main \notin {"divide", "return", "exited"} \/ outcome = "result" => HasTasks
  /\ main = "divide" => task = <<>>

(* A worker is accepted at most once, after it has connected. *)
Sockets ==
  /\ \A i, j \in DOMAIN task : i # j /\ Socket(i) # None => Socket(i) # Socket(j)
  /\ \A i \in DOMAIN task : Socket(i) # None => conn[Socket(i)] \in {"accepted", "closed"}
  /\ \A w \in Workers : worker[w] \in {"wait", "connect"} => conn[w] = "none"

(* What is passed on is one task, or the integral over its interval. *)
Passed ==
  /\ \A w \in Workers : given[w] # None =>
       \E i \in DOMAIN task : Socket(i) = w /\ given[w] = task[i].w_info
  /\ \A w \in Workers : worker[w] \in {"integrate", "answer"} => given[w] # None
  /\ \A w \in Workers : reply[w] # None => given[w] # None /\ reply[w] = Interval(given[w])
  /\ \A i \in DOMAIN part : part[i] # None => part[i] = Interval(task[i].w_info)

Added ==
  /\ main = "add" => Len(handler) = Len(task)
  /\ joined <= Len(part)
  /\ \A k \in 1 .. joined : /\ handler[k] \in {"returned", "off"}
                            /\ part[k] # None /\ result[k] = part[k]
  /\ outcome = "result" => joined = Len(task)

(* The server has gone on with fewer workers than tasks. *)
TimedOut == (getter \in {"closing", "done"} \/ main = "exited") /\ Accepted # DOMAIN task
Disturbed == fault \/ TimedOut

(* Where nothing has gone wrong: the worker of task i is where its handler expects it. *)
Serves(i) ==
  LET w == Socket(i)
  IN  /\ conn[w] = "accepted"
      /\ i \notin DOMAIN handler \/ handler[i] = "send" =>
           worker[w] = "recv" /\ given[w] = None /\ reply[w] = None
      /\ i \in DOMAIN handler => handler[i] # "off"
      /\ i \in DOMAIN handler /\ handler[i] = "select" =>
           /\ given[w] # None
           /\ \/ worker[w] \in {"recv", "integrate", "answer"} /\ reply[w] = None
              \/ worker[w] \in {"ping", "done"} /\ reply[w] # None
      /\ i \in DOMAIN handler /\ handler[i] = "returned" =>
           worker[w] \in {"ping", "done"} /\ part[i] # None

Early == main \in {"divide", "getter", "sender", "join"}
Late == main \in {"close", "return", "exited"}

Smooth ==
  ~Disturbed /\ Tasked =>
    /\ outcome # "failed"
    /\ Late => outcome = "result"
    /\ Early => handler = <<>>
    /\ main \in {"divide", "getter"} => getter = "off"
    /\ main \in {"create", "add", "close", "return"} => getter = "done"
    /\ ~Late => \A i \in Accepted : Serves(i)
    /\ \A w \in Workers : conn[w] = "queued" => worker[w] = "recv"

IInv == TypeOK /\ Divided /\ Sockets /\ Passed /\ Added /\ Smooth

(* The getter runs after it has been created and before the process ends. *)
GetterOff == main \in {"divide", "getter", "exited"} => getter = "off"

Refused(w) == worker[w] \notin {"wait", "connect"} /\ conn[w] = "none"

(* Where nothing outside fails and yet the server has timed out, a worker has been *)
(* refused: those that have tried are refused, waiting to be accepted, or accepted. *)
Blamed ==
  ~fault /\ Tasked =>
    /\ main \in {"create", "add", "close", "return"} => getter = "done"
    /\ getter \in {"off", "listen", "accept"} /\ main # "exited" =>
         \A w \in Workers : conn[w] # "closed"
    /\ \A w \in Workers : conn[w] = "accepted" => \E i \in DOMAIN task : Socket(i) = w
    /\ \A w \in Workers : Refused(w) => worker[w] = "error"
    /\ TimedOut => \E w \in Workers : TurnedAway(w)

-----------------------------------------------------------------------------
(* Sequences and divisions *)

LEMMA Changed ==
  ASSUME NEW S, NEW s \in Seq(S), NEW i \in DOMAIN s, NEW v \in S
  PROVE  /\ [s EXCEPT ![i] = v] \in Seq(S) /\ Len([s EXCEPT ![i] = v]) = Len(s)
         /\ DOMAIN [s EXCEPT ![i] = v] = DOMAIN s
OBVIOUS

LEMMA Appended ==
  ASSUME NEW S, NEW s \in Seq(S), NEW v \in S
  PROVE  /\ Append(s, v) \in Seq(S) /\ Len(Append(s, v)) = Len(s) + 1
         /\ DOMAIN Append(s, v) = 1 .. Len(s) + 1
         /\ \A i \in DOMAIN s : Append(s, v)[i] = s[i]
         /\ Append(s, v)[Len(s) + 1] = v
OBVIOUS

LEMMA Replaced ==
  ASSUME NEW S, NEW s \in Seq(S), NEW f \in [DOMAIN s -> S]
  PROVE  f \in Seq(S) /\ Len(f) = Len(s) /\ DOMAIN f = DOMAIN s
<1>1. DOMAIN s = 1 .. Len(s) /\ Len(s) \in Nat  OBVIOUS
<1> QED  BY <1>1

LEMMA Quotient ==
  ASSUME NEW n \in Nat, NEW m \in Nat, m > 0
  PROVE  n \div m \in Nat /\ m * (n \div m) <= n
OBVIOUS

LEMMA AtLeastOne ==
  ASSUME NEW n \in Nat, NEW m \in Nat, m > 0, m <= n
  PROVE  n \div m >= 1
OBVIOUS

LEMMA Product ==
  ASSUME NEW a \in Nat, NEW b \in Nat, NEW s \in Nat, a <= b
  PROVE  a * s \in Nat /\ b * s \in Nat /\ a * s <= b * s
OBVIOUS

(* The ends of the parts that divide_work() makes. *)
LEMMA Parts ==
  ASSUME n_machines \in Nat, n_threads \in Nat, Tasked
  PROVE  /\ NWorkers \in Nat /\ NWorkers >= 1 /\ NWorkers <= n_threads
         /\ Share \in Nat /\ Share >= 1 /\ NWorkers * Share <= n_threads
         /\ (NWorkers - 1) * Share = NWorkers * Share - Share
         /\ \A i \in 1 .. NWorkers : /\ (i - 1) * Share \in Nat /\ i * Share \in Nat
                                     /\ i * Share = (i - 1) * Share + Share
                                     /\ i * Share <= n_threads
<1>1. NWorkers \in Nat /\ NWorkers >= 1 /\ NWorkers <= n_threads  BY DEF NWorkers, Tasked
<1>2. Share \in Nat /\ Share >= 1 /\ NWorkers * Share <= n_threads
  <2> DEFINE m == NWorkers
  <2>1. m \in Nat /\ m > 0 /\ m <= n_threads  BY <1>1
  <2> HIDE DEF m
  <2>2. n_threads \div m \in Nat /\ m * (n_threads \div m) <= n_threads /\ n_threads \div m >= 1
        BY <2>1, Quotient, AtLeastOne
  <2> QED  BY <2>2 DEF Share, m
<1>3. \A i \in 1 .. NWorkers : /\ (i - 1) * Share \in Nat /\ i * Share \in Nat
                               /\ i * Share = (i - 1) * Share + Share
                               /\ i * Share <= n_threads
  <2> SUFFICES ASSUME NEW i \in 1 .. NWorkers
               PROVE  /\ (i - 1) * Share \in Nat /\ i * Share \in Nat
                      /\ i * Share = (i - 1) * Share + Share
                      /\ i * Share <= n_threads
      OBVIOUS
  <2>1. i \in Nat /\ i - 1 \in Nat /\ i <= NWorkers  BY <1>1
  <2>2. i * Share <= NWorkers * Share /\ i * Share \in Nat /\ NWorkers * Share \in Nat
        BY <1>1, <1>2, <2>1, Product
  <2>3. (i - 1) * Share \in Nat  BY <1>2, <2>1, Product
  <2>4. i * Share = (i - 1) * Share + Share  BY <1>2, <2>1
  <2> QED  BY <1>2, <2>2, <2>3, <2>4
<1>4. (NWorkers - 1) * Share = NWorkers * Share - Share  BY <1>1, <1>2
<1> QED  BY <1>1, <1>2, <1>3, <1>4

LEMMA DivisionTypes ==
  ASSUME TypeOK, Tasked
  PROVE  /\ Division \in Seq([w_info : [threads : 1 .. MaxThreads, begin : 0 .. MaxThreads,
                                        end : 0 .. MaxThreads],
                              socket : Workers \cup {None}])
         /\ Len(Division) = NWorkers /\ DOMAIN Division = 1 .. NWorkers
         /\ NWorkers \in Nat /\ NWorkers >= 1 /\ NWorkers <= MaxThreads
         /\ \A i \in 1 .. NWorkers : Division[i].socket = None
<1>1. n_machines \in Nat /\ n_threads \in Nat /\ n_threads <= MaxThreads /\ MaxThreads \in Nat
      BY BoundsAssumption DEF TypeOK
<1>2. /\ NWorkers \in Nat /\ NWorkers >= 1 /\ NWorkers <= n_threads
      /\ Share \in Nat /\ Share >= 1 /\ NWorkers * Share <= n_threads
      /\ (NWorkers - 1) * Share = NWorkers * Share - Share
      /\ NWorkers * Share \in Nat
  <2>1. /\ NWorkers \in Nat /\ NWorkers >= 1 /\ NWorkers <= n_threads
        /\ Share \in Nat /\ Share >= 1 /\ NWorkers * Share <= n_threads
        /\ (NWorkers - 1) * Share = NWorkers * Share - Share
        BY <1>1, Parts
  <2>2. NWorkers * Share \in Nat  BY <2>1, Product
  <2> QED  BY <2>1, <2>2
<1>3. ASSUME NEW i \in 1 .. NWorkers
      PROVE  /\ Division[i].w_info.threads \in 1 .. MaxThreads
             /\ Division[i].w_info.begin \in 0 .. MaxThreads
             /\ Division[i].w_info.end \in 0 .. MaxThreads
  <2>1. /\ (i - 1) * Share \in Nat /\ i * Share \in Nat
        /\ i * Share = (i - 1) * Share + Share /\ i * Share <= n_threads
        BY <1>1, Parts
  <2>2. /\ Division[i].w_info.threads = IF i < NWorkers THEN Share
                                        ELSE n_threads - (NWorkers - 1) * Share
        /\ Division[i].w_info.begin = (i - 1) * Share
        /\ Division[i].w_info.end = IF i < NWorkers THEN i * Share ELSE n_threads
        BY DEF Division
  <2>3. (i - 1) * Share <= MaxThreads /\ i * Share <= MaxThreads /\ Share <= MaxThreads
        BY <1>1, <1>2, <2>1
  <2>4. n_threads - (NWorkers - 1) * Share \in 1 .. MaxThreads  BY <1>1, <1>2
  <2>5. Share \in 1 .. MaxThreads  BY <1>2, <2>3
  <2> QED  BY <1>1, <2>1, <2>2, <2>3, <2>4, <2>5
<1> DEFINE T == [w_info : [threads : 1 .. MaxThreads, begin : 0 .. MaxThreads, end : 0 .. MaxThreads],
                 socket : Workers \cup {None}]
<1>4. \A i \in 1 .. NWorkers : Division[i] \in T /\ Division[i].socket = None
      BY <1>3 DEF Division
<1>5. Division \in [1 .. NWorkers -> T]  BY <1>4 DEF Division
<1> HIDE DEF T
<1>6. Division \in Seq(T) /\ Len(Division) = NWorkers /\ DOMAIN Division = 1 .. NWorkers
      BY <1>2, <1>5
<1> QED  BY <1>1, <1>2, <1>4, <1>6 DEF T

LEMMA TaskTypes ==
  ASSUME TypeOK, NEW i \in DOMAIN task
  PROVE  /\ i \in Nat /\ i >= 1 /\ i <= Len(task) /\ Len(task) \in Nat
         /\ task[i].w_info \in Infos /\ task[i].w_info.threads # 0 /\ task[i].w_info # None
         /\ task[i].socket \in Workers \cup {None}
         /\ Interval(task[i].w_info) \in Intervals /\ Interval(task[i].w_info) # None
<1> DEFINE T == [w_info : [threads : 1 .. MaxThreads, begin : 0 .. MaxThreads, end : 0 .. MaxThreads],
                 socket : Workers \cup {None}]
<1>1. task \in Seq(T)  BY DEF TypeOK
<1> HIDE DEF T
<1>2. i \in Nat /\ i >= 1 /\ i <= Len(task) /\ Len(task) \in Nat /\ task[i] \in T  BY <1>1
<1>3. /\ task[i].w_info \in [threads : 1 .. MaxThreads, begin : 0 .. MaxThreads, end : 0 .. MaxThreads]
      /\ task[i].socket \in Workers \cup {None}
      BY <1>2 DEF T
<1> QED  BY <1>2, <1>3, NoneAssumption, BoundsAssumption DEF Infos, Intervals, Interval

LEMMA Lengths ==
  ASSUME TypeOK
  PROVE  /\ Len(task) \in Nat /\ DOMAIN task = 1 .. Len(task)
         /\ Len(handler) \in Nat /\ DOMAIN handler = 1 .. Len(handler)
         /\ Len(part) = Len(handler) /\ DOMAIN part = DOMAIN handler
         /\ DOMAIN handler \subseteq DOMAIN task /\ joined \in Nat /\ joined <= Len(task)
<1>1. Len(task) \in Nat /\ DOMAIN task = 1 .. Len(task)  BY DEF TypeOK
<1>2. Len(handler) \in Nat /\ DOMAIN handler = 1 .. Len(handler)  BY DEF TypeOK
<1>3. Len(part) = Len(handler) /\ DOMAIN part = 1 .. Len(part)  BY DEF TypeOK
<1> QED  BY <1>1, <1>2, <1>3 DEF TypeOK

LEMMA InitIInv == Init => IInv
<1> SUFFICES ASSUME Init PROVE IInv  OBVIOUS
<1> USE BoundsAssumption, NoneAssumption
<1>1. Len(<<>>) = 0 /\ DOMAIN <<>> = {} /\ \A S : <<>> \in Seq(S)  OBVIOUS
<1>2. TypeOK
  <2>1. /\ task = <<>> /\ handler = <<>> /\ part = <<>> /\ result = <<>> /\ joined = 0
        BY DEF Init
  <2>2. /\ Len(result) = joined /\ joined \in 0 .. Len(task) /\ Len(handler) <= Len(task)
        /\ Len(part) = Len(handler) /\ DOMAIN task \subseteq 1 .. MaxThreads
        BY <1>1, <2>1
  <2>3. \A S : task \in Seq(S) /\ handler \in Seq(S) /\ part \in Seq(S) /\ result \in Seq(S)
        BY <1>1, <2>1
  <2>4. /\ n_machines \in 0 .. MaxMachines /\ n_threads \in 0 .. MaxThreads
        /\ main \in MainSteps /\ outcome \in {"none", "result", "failed"}
        /\ getter \in {"off", "listen", "accept", "closing", "done"}
        /\ listening \in BOOLEAN /\ hellos \in BOOLEAN /\ fault \in BOOLEAN
        /\ conn \in [Workers -> {"none", "queued", "accepted", "closed"}]
        /\ given \in [Workers -> Infos \cup {None}]
        /\ reply \in [Workers -> Intervals \cup {None}]
        /\ worker \in [Workers -> WorkerSteps]
        BY DEF Init, MainSteps, WorkerSteps
  <2> QED  BY <2>2, <2>3, <2>4 DEF TypeOK
<1>3. Divided  BY DEF Init, Divided
<1>4. Sockets  BY <1>1 DEF Init, Sockets
<1>5. Passed  BY <1>1 DEF Init, Passed
<1>6. Added  BY <1>1 DEF Init, Added
<1>7. Smooth  BY <1>1 DEF Init, Smooth, Late, Accepted
<1> QED  BY <1>2, <1>3, <1>4, <1>5, <1>6, <1>7 DEF IInv

-----------------------------------------------------------------------------
(* What a step leaves alone *)

LEMMA TasksKept ==
  ASSUME UNCHANGED setup
  PROVE  Tasked' = Tasked /\ Division' = Division /\ HasTasks' = HasTasks
<1>1. n_machines' = n_machines /\ n_threads' = n_threads /\ task' = task  BY DEF setup
<1>2. NWorkers' = NWorkers /\ Tasked' = Tasked  BY <1>1 DEF NWorkers, Tasked
<1>3. Share' = Share  BY <1>1, <1>2 DEF Share
<1>4. Division' = Division  BY <1>1, <1>2, <1>3 DEF Division
<1>5. HasTasks' = HasTasks  BY <1>1, <1>2, <1>4 DEF HasTasks
<1> QED  BY <1>2, <1>4, <1>5

LEMMA DividedKept ==
  ASSUME Divided, UNCHANGED setup, UNCHANGED <<main, outcome>>
  PROVE  Divided' /\ Tasked' = Tasked
<1>1. Tasked' = Tasked /\ HasTasks' = HasTasks /\ task' = task  BY TasksKept DEF setup
<1> QED  BY <1>1 DEF Divided

LEMMA AddedKept ==
  ASSUME Added, UNCHANGED <<mainVars, task, handlerVars>>
  PROVE  Added'
BY DEF Added, mainVars, handlerVars

(* The worker of another task does not matter. *)
LEMMA ServesKept ==
  ASSUME NEW i \in DOMAIN task, Serves(i), UNCHANGED <<task, handler, part>>,
         conn'[Socket(i)] = conn[Socket(i)], worker'[Socket(i)] = worker[Socket(i)],
         given'[Socket(i)] = given[Socket(i)], reply'[Socket(i)] = reply[Socket(i)]
  PROVE  Serves(i)'
BY DEF Serves, Socket

(* What has gone wrong stays so. *)
LEMMA DisturbedKept ==
  ASSUME UNCHANGED <<main, getter, task>>, fault => fault', ~Disturbed'
  PROVE  ~Disturbed /\ ~fault /\ ~fault'
BY DEF Disturbed, TimedOut, Accepted

-----------------------------------------------------------------------------
(* The workers *)

LEMMA WorkerKeeps ==
  ASSUME IInv, NEW w \in Workers,
         WHello(w) \/ Worker(w) \/ WorkerFails(w) \/ WorkerDies(w)
  PROVE  IInv'
<1> USE NoneAssumption
<1>t. TypeOK /\ Divided /\ Sockets /\ Passed /\ Added /\ Smooth  BY DEF IInv
<1>0. /\ UNCHANGED <<mainVars, setup, getterVars, handlerVars, given>>
      /\ worker[w] \notin {"done", "error", "dead"}
      /\ fault' \in BOOLEAN /\ (fault => fault')
      BY <1>t DEF WHello, Worker, WConnect, WReceive, WReceiveFails, WIntegrate, WAnswer, WPing,
                  WorkerFails, WorkerDies, data, TypeOK
<1>1. /\ worker' \in [Workers -> WorkerSteps] /\ worker'[w] # "wait"
      /\ \A v \in Workers : v # w => worker'[v] = worker[v]
      /\ \/ reply' = reply \/ reply' = [reply EXCEPT ![w] = None]
         \/ given[w] # None /\ reply' = [reply EXCEPT ![w] = Interval(given[w])]
      /\ \/ conn' = conn
         \/ worker[w] = "connect" /\ conn' = [conn EXCEPT ![w] = "queued"]
  <2>g. ASSUME NEW s \in WorkerSteps, s # "wait", Goes(w, s)
        PROVE  /\ worker' \in [Workers -> WorkerSteps] /\ worker'[w] # "wait"
               /\ \A v \in Workers : v # w => worker'[v] = worker[v]
    <3>1. worker \in [Workers -> WorkerSteps]  BY <1>t DEF TypeOK
    <3> QED  BY <2>g, <3>1 DEF Goes
  <2>s. {"connect", "recv", "error", "integrate", "answer", "ping", "done", "dead"}
          \subseteq WorkerSteps \ {"wait"}
        BY DEF WorkerSteps
  <2>1. CASE WHello(w)  BY <2>1, <2>g, <2>s DEF WHello, data
  <2>2. CASE WConnect(w)  BY <2>2, <2>g, <2>s DEF WConnect, data
  <2>3. CASE WReceive(w)  BY <2>3, <2>g, <2>s DEF WReceive, data
  <2>4. CASE WReceiveFails(w)  BY <2>4, <2>g, <2>s DEF WReceiveFails, data
  <2>5. CASE WIntegrate(w)
    <3>1. Goes(w, "error") \/ Goes(w, "answer")  BY <2>5 DEF WIntegrate
    <3> QED  BY <2>5, <2>g, <2>s, <3>1 DEF WIntegrate, data
  <2>6. CASE WAnswer(w)
    <3>1. given[w] # None  BY <1>t, <2>6 DEF WAnswer, Passed
    <3> QED  BY <2>6, <2>g, <2>s, <3>1 DEF WAnswer, Interval
  <2>7. CASE WPing(w)  BY <2>7, <2>g, <2>s DEF WPing, data
  <2>8. CASE WorkerFails(w)  BY <2>8, <2>g, <2>s DEF WorkerFails, data
  <2>9. CASE WorkerDies(w)  BY <2>9, <2>g, <2>s DEF WorkerDies
  <2> QED  BY <2>1, <2>2, <2>3, <2>4, <2>5, <2>6, <2>7, <2>8, <2>9 DEF Worker
<1>2. given[w] # None => Interval(given[w]) \in Intervals
  <2>1. given[w] \in Infos \cup {None}  BY <1>t DEF TypeOK
  <2> QED  BY <2>1, BoundsAssumption DEF Infos, Intervals, Interval
<1>3. TypeOK'
  <2>1. worker' \in [Workers -> WorkerSteps]  BY <1>t, <1>1 DEF TypeOK
  <2>2. reply' \in [Workers -> Intervals \cup {None}]  BY <1>t, <1>1, <1>2 DEF TypeOK
  <2>3. conn' \in [Workers -> {"none", "queued", "accepted", "closed"}]
        BY <1>t, <1>1 DEF TypeOK
  <2> QED  BY <1>t, <1>0, <2>1, <2>2, <2>3 DEF TypeOK, mainVars, setup, getterVars, handlerVars
<1>4. /\ \A v \in Workers : v # w => /\ worker'[v] = worker[v] /\ reply'[v] = reply[v]
                                     /\ conn'[v] = conn[v]
      /\ worker'[w] # "wait"
      BY <1>t, <1>1 DEF TypeOK
<1>5. Divided' /\ Tasked' = Tasked  BY <1>t, <1>0, DividedKept DEF mainVars
<1>6. Added'  BY <1>t, <1>0, AddedKept DEF setup
<1>7. \A i \in DOMAIN task : Socket(i) # None =>
        Socket(i) \in Workers /\ conn'[Socket(i)] = conn[Socket(i)]
  <2> SUFFICES ASSUME NEW i \in DOMAIN task, Socket(i) # None
               PROVE  Socket(i) \in Workers /\ conn'[Socket(i)] = conn[Socket(i)]
      OBVIOUS
  <2>1. Socket(i) \in Workers  BY <1>t, TaskTypes DEF Socket
  <2>2. conn[Socket(i)] # "none"  BY <1>t DEF Sockets
  <2>3. worker[w] = "connect" => Socket(i) # w  BY <1>t, <2>2 DEF Sockets
  <2> QED  BY <1>1, <1>4, <2>1, <2>3
<1>8. \A i : Socket(i)' = Socket(i)  BY <1>0 DEF Socket, setup
<1>9. Sockets'
  <2>1. \A v \in Workers : worker'[v] \in {"wait", "connect"} => conn'[v] = "none"
    <3> SUFFICES ASSUME worker'[w] = "connect" PROVE conn'[w] = "none"
        BY <1>t, <1>4 DEF Sockets
    <3>1. WHello(w)
          BY <1>t DEF WHello, Worker, WConnect, WReceive, WReceiveFails, WIntegrate, WAnswer,
                      WPing, WorkerFails, WorkerDies, Goes, TypeOK
    <3> QED  BY <1>t, <3>1 DEF WHello, Sockets
  <2> QED  BY <1>t, <1>0, <1>7, <1>8, <2>1 DEF Sockets, setup
<1>10. Passed'
  <2>1. \A v \in Workers : given'[v] # None =>
          \E i \in DOMAIN task' : Socket(i)' = v /\ given'[v] = task'[i].w_info
        BY <1>t, <1>0, <1>8 DEF Passed, setup
  <2>2. worker'[w] \in {"integrate", "answer"} => given'[w] # None
    <3>1. worker'[w] \in {"integrate", "answer"} => WReceive(w) \/ WIntegrate(w)
          BY <1>t DEF WHello, Worker, WConnect, WReceive, WReceiveFails, WIntegrate, WAnswer,
                      WPing, WorkerFails, WorkerDies, Goes, TypeOK
    <3> QED  BY <1>t, <1>0, <3>1 DEF WReceive, WIntegrate, Passed
  <2>3. \A v \in Workers : reply'[v] # None =>
          given'[v] # None /\ reply'[v] = Interval(given'[v])
    <3>1. \/ reply'[w] = reply[w] \/ reply'[w] = None
          \/ given[w] # None /\ reply'[w] = Interval(given[w])
          BY <1>t, <1>1 DEF TypeOK
    <3> QED  BY <1>t, <1>0, <1>4, <3>1 DEF Passed
  <2>4. \A i \in DOMAIN part' : part'[i] # None => part'[i] = Interval(task'[i].w_info)
        BY <1>t, <1>0 DEF Passed, handlerVars, setup
  <2>5. \A v \in Workers : worker'[v] \in {"integrate", "answer"} => given'[v] # None
        BY <1>t, <1>0, <1>4, <2>2 DEF Passed
  <2> QED  BY <2>1, <2>3, <2>4, <2>5 DEF Passed
<1>11. Smooth'
  <2> SUFFICES ASSUME ~Disturbed', Tasked PROVE Smooth'  BY <1>5 DEF Smooth
  <2>0. ~Disturbed /\ ~fault'  BY <1>0, DisturbedKept DEF mainVars, setup, getterVars
  <2>1. ~Disturbed /\ (WHello(w) \/ Worker(w))  BY <2>0 DEF WorkerFails, WorkerDies
  <2>2. Accepted' = Accepted  BY <1>0 DEF Accepted, setup
  <2>3. Late' = Late /\ Early' = Early  BY <1>0 DEF Late, Early, mainVars
  <2>4. ASSUME ~Late, NEW i \in Accepted PROVE Serves(i)'
    <3>0. i \in DOMAIN task /\ Socket(i) # None /\ Socket(i) \in Workers
          BY <1>7, <2>4 DEF Accepted, Socket
    <3>1. Serves(i)  BY <1>t, <2>1, <2>4 DEF Smooth
    <3>2. UNCHANGED <<task, handler, part, given>> /\ conn'[Socket(i)] = conn[Socket(i)]
          BY <1>0, <1>7, <3>0 DEF setup, handlerVars
    <3>3. CASE Socket(i) # w  BY <1>4, <3>0, <3>1, <3>2, <3>3, ServesKept
    <3>4. CASE Socket(i) = w
      <4>0. conn[w] = "accepted" /\ worker[w] \in {"recv", "integrate", "answer", "ping", "done"}
            BY <3>0, <3>1, <3>4, <1>t, Lengths DEF Serves, TypeOK
      <4>1. CASE WReceive(w)
        <5>1. worker' = [worker EXCEPT ![w] = "integrate"] /\ reply' = reply /\ given[w] # None
              /\ worker[w] = "recv"
              BY <4>1 DEF WReceive, Goes, data
        <5>2. worker'[w] = "integrate"  BY <1>t, <5>1 DEF TypeOK
        <5> QED  BY <1>8, <3>1, <3>2, <3>4, <5>1, <5>2 DEF Serves
      <4>2. CASE WIntegrate(w)
        <5>1. worker[w] = "integrate" /\ reply' = reply /\ given[w] # None
              BY <1>t, <4>2 DEF WIntegrate, data, Passed
        <5>2. PICK j \in DOMAIN task : Socket(j) = w /\ given[w] = task[j].w_info
              BY <1>t, <5>1 DEF Passed
        <5>3. given[w].threads # 0  BY <1>t, <5>2, TaskTypes
        <5>4. worker'[w] = "answer"  BY <1>t, <4>2, <5>3 DEF WIntegrate, Goes, TypeOK
        <5> QED  BY <1>8, <3>1, <3>2, <3>4, <5>1, <5>4 DEF Serves
      <4>3. CASE WAnswer(w)
        <5>1. worker[w] = "answer" /\ given[w] # None  BY <1>t, <4>3 DEF WAnswer, Passed
        <5>2. worker'[w] = "ping" /\ reply'[w] = Interval(given[w])
              BY <1>t, <4>0, <4>3 DEF WAnswer, Goes, TypeOK, Interval
        <5>3. reply'[w] # None  BY <1>2, <5>1, <5>2
        <5> QED  BY <1>8, <3>1, <3>2, <3>4, <5>1, <5>2, <5>3 DEF Serves
      <4>4. CASE WPing(w)
        <5>1. worker[w] = "ping" /\ reply' = reply /\ worker' = [worker EXCEPT ![w] = "done"]
              BY <4>0, <4>4 DEF WPing, Goes, data
        <5>2. worker'[w] = "done"  BY <1>t, <5>1 DEF TypeOK
        <5> QED  BY <1>8, <3>1, <3>2, <3>4, <5>1, <5>2 DEF Serves
      <4>5. ~WHello(w) /\ ~WConnect(w) /\ ~WReceiveFails(w)
            BY <4>0 DEF WHello, WConnect, WReceiveFails
      <4> QED  BY <2>1, <4>1, <4>2, <4>3, <4>4, <4>5 DEF Worker
    <3> QED  BY <3>3, <3>4
  <2>5. \A v \in Workers : conn'[v] = "queued" => worker'[v] = "recv"
    <3> SUFFICES ASSUME conn'[w] = "queued" PROVE worker'[w] = "recv"
        BY <1>t, <1>4, <2>1 DEF Smooth
    <3>1. CASE WConnect(w)
      <4>1. conn[w] # "queued"  BY <1>t, <3>1 DEF WConnect, Sockets
      <4> QED  BY <1>t, <3>1, <4>1 DEF WConnect, Goes, TypeOK
    <3>2. CASE ~WConnect(w)
      <4>1. conn[w] = "queued"
            BY <2>1, <3>2 DEF WHello, Worker, WReceive, WReceiveFails, WIntegrate, WAnswer, WPing
      <4>2. worker[w] = "recv"  BY <1>t, <2>1, <4>1 DEF Smooth
      <4>3. given[w] = None
        <5> SUFFICES ASSUME given[w] # None PROVE FALSE  OBVIOUS
        <5>1. PICK j \in DOMAIN task : Socket(j) = w  BY <1>t DEF Passed
        <5> QED  BY <1>t, <4>1, <5>1 DEF Sockets
      <4> QED  BY <2>1, <3>2, <4>1, <4>2, <4>3
               DEF WHello, Worker, WReceive, WReceiveFails, WIntegrate, WAnswer, WPing
    <3> QED  BY <3>1, <3>2
  <2> QED  BY <1>t, <1>0, <2>1, <2>2, <2>3, <2>4, <2>5
           DEF Smooth, mainVars, getterVars, handlerVars, setup
<1> QED  BY <1>3, <1>5, <1>6, <1>9, <1>10, <1>11 DEF IInv

-----------------------------------------------------------------------------
(* The handlers *)

(* The task of a handler has an info and a worker. *)
LEMMA HandlerFacts ==
  ASSUME IInv, NEW i \in DOMAIN handler
  PROVE  /\ i \in DOMAIN task /\ i \in DOMAIN part /\ i \in Nat
         /\ Socket(i) = task[i].socket /\ Socket(i) \in Workers \cup {None}
         /\ task[i].w_info \in Infos /\ task[i].w_info # None
         /\ Interval(task[i].w_info) \in Intervals
<1>t. TypeOK  BY DEF IInv
<1>1. i \in DOMAIN task /\ i \in DOMAIN part  BY <1>t, Lengths
<1> QED  BY <1>t, <1>1, TaskTypes DEF Socket

(* Handler i takes a step that leaves its answer and the worker's alone or as they *)
(* should be.                                                                      *)
LEMMA HandlerKeeps ==
  ASSUME IInv, NEW i \in DOMAIN handler, Handler(i)
  PROVE  IInv'
<1> USE NoneAssumption
<1>t. TypeOK /\ Divided /\ Sockets /\ Passed /\ Added /\ Smooth  BY DEF IInv
<1> DEFINE w == task[i].socket
<1>f. /\ i \in DOMAIN task /\ i \in DOMAIN part /\ i \in Nat
      /\ Socket(i) = w /\ w \in Workers \cup {None}
      /\ task[i].w_info \in Infos /\ task[i].w_info # None
      /\ Interval(task[i].w_info) \in Intervals
      BY HandlerFacts
<1>l. /\ Len(task) \in Nat /\ DOMAIN task = 1 .. Len(task)
      /\ Len(handler) \in Nat /\ DOMAIN handler = 1 .. Len(handler)
      /\ Len(part) = Len(handler) /\ DOMAIN part = DOMAIN handler
      /\ joined \in Nat /\ joined <= Len(task)
      BY <1>t, Lengths
<1> HIDE DEF w
<1>0. /\ UNCHANGED <<mainVars, setup, getterVars, conn, worker>>
      /\ fault' \in BOOLEAN /\ (fault => fault')
      /\ handler[i] \in {"send", "select"}
  BY <1>t DEF Handler, HSend, HSendFails, HNoMemory, HReceive, HReceiveFails, data, TypeOK
(* The answer that comes is the one to this task. *)
<1>r. reply[w] # None /\ w # None => reply[w] = Interval(task[i].w_info) /\ given[w] = task[i].w_info
  <2> SUFFICES ASSUME reply[w] # None, w # None
               PROVE  reply[w] = Interval(task[i].w_info) /\ given[w] = task[i].w_info
      OBVIOUS
  <2>1. w \in Workers  BY <1>f
  <2>2. given[w] # None /\ reply[w] = Interval(given[w])  BY <1>t, <2>1 DEF Passed
  <2>3. PICK j \in DOMAIN task : Socket(j) = w /\ given[w] = task[j].w_info
        BY <1>t, <2>1, <2>2 DEF Passed
  <2>4. j = i  BY <1>t, <1>f, <2>3 DEF Sockets
  <2> QED  BY <2>2, <2>3, <2>4
<1>1. \E next \in {"select", "returned"}, value \in {None, Interval(task[i].w_info)} :
        /\ handler' = [handler EXCEPT ![i] = next] /\ part' = [part EXCEPT ![i] = value]
        /\ \/ data' = data
           \/ /\ w \in Workers /\ conn[w] = "accepted" /\ reply' = reply
              /\ given' = [given EXCEPT ![w] = task[i].w_info]
           \/ /\ w \in Workers /\ given' = given
              /\ reply' = [reply EXCEPT ![w] = None]
  <2>1. CASE HSend(i)
    <3>1. w \in Workers /\ conn[w] = "accepted"  BY <1>f, <2>1 DEF HSend, Open, w
    <3>2. /\ handler' = [handler EXCEPT ![i] = "select"] /\ part' = [part EXCEPT ![i] = None]
          /\ given' = [given EXCEPT ![w] = task[i].w_info] /\ reply' = reply
          BY <2>1 DEF HSend, Step, w
    <3> QED  BY <3>1, <3>2
  <2>2. CASE HSendFails(i)
    <3>1. /\ handler' = [handler EXCEPT ![i] = "returned"] /\ part' = [part EXCEPT ![i] = None]
          /\ data' = data
          BY <2>2 DEF HSendFails, Step
    <3> QED  BY <3>1
  <2>3. CASE HNoMemory(i)
    <3>1. /\ handler' = [handler EXCEPT ![i] = "returned"] /\ part' = [part EXCEPT ![i] = None]
          /\ data' = data
          BY <2>3 DEF HNoMemory, Step
    <3> QED  BY <3>1
  <2>4. CASE HReceive(i)
    <3>1. /\ w # None /\ reply[w] # None
          /\ handler' = [handler EXCEPT ![i] = "returned"]
          /\ part' = [part EXCEPT ![i] = reply[w]]
          /\ reply' = [reply EXCEPT ![w] = None] /\ given' = given
          BY <2>4 DEF HReceive, Open, Step, w
    <3>2. reply[w] = Interval(task[i].w_info) /\ w \in Workers  BY <1>f, <1>r, <3>1
    <3>3. part' = [part EXCEPT ![i] = Interval(task[i].w_info)]  BY <3>1, <3>2
    <3> QED  BY <3>1, <3>2, <3>3
  <2>5. CASE HReceiveFails(i)
    <3>1. /\ handler' = [handler EXCEPT ![i] = "returned"] /\ part' = [part EXCEPT ![i] = None]
          /\ data' = data
          BY <2>5 DEF HReceiveFails, Step
    <3> QED  BY <3>1
  <2> QED  BY <2>1, <2>2, <2>3, <2>4, <2>5 DEF Handler
<1>2. PICK next \in {"select", "returned"}, value \in {None, Interval(task[i].w_info)} :
        /\ handler' = [handler EXCEPT ![i] = next] /\ part' = [part EXCEPT ![i] = value]
        /\ \/ data' = data
           \/ /\ w \in Workers /\ conn[w] = "accepted" /\ reply' = reply
              /\ given' = [given EXCEPT ![w] = task[i].w_info]
           \/ /\ w \in Workers /\ given' = given
              /\ reply' = [reply EXCEPT ![w] = None]
      BY <1>1
<1>3. /\ handler' \in Seq({"send", "select", "returned", "off"})
      /\ Len(handler') = Len(handler) /\ DOMAIN handler' = DOMAIN handler
      /\ part' \in Seq(Intervals \cup {None})
      /\ Len(part') = Len(part) /\ DOMAIN part' = DOMAIN part
      /\ handler'[i] = next /\ part'[i] = value
      /\ \A j \in DOMAIN handler : j # i => handler'[j] = handler[j] /\ part'[j] = part[j]
  <2>1. handler \in Seq({"send", "select", "returned", "off"}) /\ part \in Seq(Intervals \cup {None})
        BY <1>t DEF TypeOK
  <2>2. value \in Intervals \cup {None} /\ next \in {"send", "select", "returned", "off"}
        BY <1>f, <1>2
  <2>3. /\ handler' \in Seq({"send", "select", "returned", "off"})
        /\ Len(handler') = Len(handler) /\ DOMAIN handler' = DOMAIN handler
        BY <1>2, <2>1, <2>2, Changed
  <2>4. /\ part' \in Seq(Intervals \cup {None})
        /\ Len(part') = Len(part) /\ DOMAIN part' = DOMAIN part
        BY <1>f, <1>2, <2>1, <2>2, Changed
  <2> QED  BY <1>f, <1>l, <1>2, <2>3, <2>4
<1>4. /\ given' \in [Workers -> Infos \cup {None}] /\ reply' \in [Workers -> Intervals \cup {None}]
      /\ \A v \in Workers : v # w => given'[v] = given[v] /\ reply'[v] = reply[v]
      /\ w \in Workers =>
           /\ given'[w] = given[w] \/ (given'[w] = task[i].w_info /\ conn[w] = "accepted")
           /\ reply'[w] = reply[w] \/ reply'[w] = None
  BY <1>t, <1>f, <1>2 DEF TypeOK, data
<1>5. TypeOK'  BY <1>t, <1>0, <1>3, <1>4 DEF TypeOK, mainVars, setup, getterVars
<1>6. Divided' /\ Tasked' = Tasked  BY <1>t, <1>0, DividedKept DEF mainVars
<1>7. \A j : Socket(j)' = Socket(j)  BY <1>0 DEF Socket, setup
<1>8. Sockets'  BY <1>t, <1>0, <1>7 DEF Sockets, setup
<1>9. Passed'
  <2>1. \A v \in Workers : given'[v] # None =>
          \E j \in DOMAIN task' : Socket(j)' = v /\ given'[v] = task'[j].w_info
    <3> SUFFICES ASSUME NEW v \in Workers, given'[v] # None
                 PROVE  \E j \in DOMAIN task : Socket(j) = v /\ given'[v] = task[j].w_info
        BY <1>0, <1>7 DEF setup
    <3>1. CASE given'[v] = given[v]  BY <1>t, <3>1 DEF Passed
    <3>2. CASE given'[v] # given[v]  BY <1>f, <1>4, <3>2
    <3> QED  BY <3>1, <3>2
  <2>2. \A v \in Workers : given[v] # None => given'[v] # None  BY <1>f, <1>4
  <2>3. \A v \in Workers : worker'[v] \in {"integrate", "answer"} => given'[v] # None
        BY <1>t, <1>0, <2>2 DEF Passed
  <2>4. \A v \in Workers : reply'[v] # None => given'[v] # None /\ reply'[v] = Interval(given'[v])
    <3> SUFFICES ASSUME NEW v \in Workers, reply'[v] # None
                 PROVE  given'[v] # None /\ reply'[v] = Interval(given'[v])
        OBVIOUS
    <3>1. reply'[v] = reply[v]  BY <1>4
    <3>2. given[v] # None /\ reply[v] = Interval(given[v])  BY <1>t, <3>1 DEF Passed
    <3>3. given'[v] = given[v]
      <4>1. v = w => given[v] = task[i].w_info  BY <1>r, <3>1
      <4> QED  BY <1>4, <4>1
    <3> QED  BY <3>1, <3>2, <3>3
  <2>5. \A j \in DOMAIN part' : part'[j] # None => part'[j] = Interval(task'[j].w_info)
        BY <1>t, <1>0, <1>2, <1>3, <1>l DEF Passed, setup
  <2> QED  BY <2>1, <2>3, <2>4, <2>5 DEF Passed
<1>10. Added'
  <2>1. joined < i  
    <3>1. \A k \in 1 .. joined : handler[k] \in {"returned", "off"}  BY <1>t DEF Added
    <3>2. i \notin 1 .. joined  BY <1>0, <3>1
    <3> QED  BY <1>l, <3>2
  <2>2. \A k \in 1 .. joined : k \in DOMAIN handler /\ k # i
    <3>1. joined <= Len(handler)  BY <1>t, <1>l DEF Added
    <3> QED  BY <1>l, <2>1, <3>1
  <2> QED  BY <1>t, <1>0, <1>3, <2>2 DEF Added, mainVars, setup
<1>11. Smooth'
  <2> SUFFICES ASSUME ~Disturbed', Tasked PROVE Smooth'  BY <1>6 DEF Smooth
  <2>0. ~Disturbed /\ ~fault'  BY <1>0, DisturbedKept DEF mainVars, setup, getterVars
  <2>1. ~Disturbed /\ Handler(i) /\ ~HNoMemory(i)  BY <2>0 DEF HNoMemory
  <2>2. Accepted' = Accepted /\ DOMAIN task' = DOMAIN task  BY <1>0 DEF Accepted, setup
  <2>3. Late' = Late /\ Early' = Early  BY <1>0 DEF Late, Early, mainVars
  <2>e. ~Early  BY <1>t, <2>1, <1>l DEF Smooth
  <2>4. ASSUME ~Late, NEW j \in Accepted PROVE Serves(j)'
    <3>0. /\ j \in DOMAIN task /\ Socket(j) # None /\ Socket(j) \in Workers
          BY <1>t, TaskTypes DEF Accepted, Socket
    <3>1. Serves(j)  BY <1>t, <2>1, <2>4 DEF Smooth
    <3>2. CASE j # i
      <4>1. Socket(j) # w  BY <1>t, <1>f, <3>0, <3>2 DEF Sockets
      <4>2. given'[Socket(j)] = given[Socket(j)] /\ reply'[Socket(j)] = reply[Socket(j)]
            BY <1>4, <3>0, <4>1
      <4>3. j \in DOMAIN handler => handler'[j] = handler[j] /\ part'[j] = part[j]  BY <1>3, <3>2
      <4> QED  BY <1>0, <1>3, <1>7, <3>1, <4>2, <4>3 DEF Serves
    <3>3. CASE j = i
      <4>0. w \in Workers /\ conn[w] = "accepted" /\ w # None /\ Open(w)
            BY <1>f, <3>0, <3>1, <3>3 DEF Serves, Open
      <4>1. CASE HSend(i)
        <5>1. /\ handler[i] = "send" /\ handler' = [handler EXCEPT ![i] = "select"]
              /\ given' = [given EXCEPT ![w] = task[i].w_info] /\ reply' = reply
              BY <4>1 DEF HSend, Step, w
        <5>2. handler'[i] = "select"  BY <5>1
        <5>3. given'[w] # None  BY <1>t, <1>f, <4>0, <5>1 DEF TypeOK
        <5>4. worker[w] = "recv" /\ reply[w] = None  BY <1>f, <3>1, <3>3, <5>1 DEF Serves
        <5> QED  BY <1>0, <1>f, <1>3, <1>7, <3>3, <4>0, <5>1, <5>2, <5>3, <5>4 DEF Serves
      <4>2. CASE HSendFails(i)
        <5>1. handler[i] = "send" /\ Left(w)  BY <4>0, <4>2 DEF HSendFails, w
        <5>2. worker[w] = "recv"  BY <1>f, <3>1, <3>3, <5>1 DEF Serves
        <5> QED  BY <5>1, <5>2 DEF Left
      <4>3. CASE HReceive(i)
        <5>1. /\ handler[i] = "select" /\ reply[w] # None
              /\ handler' = [handler EXCEPT ![i] = "returned"]
              /\ part' = [part EXCEPT ![i] = reply[w]]
              BY <4>3 DEF HReceive, Step, w
        <5>2. worker[w] \in {"ping", "done"}  BY <1>f, <3>1, <3>3, <5>1 DEF Serves
        <5>3. handler'[i] = "returned" /\ part'[i] # None  BY <1>f, <5>1
        <5> QED  BY <1>0, <1>f, <1>3, <1>7, <3>3, <4>0, <5>2, <5>3 DEF Serves
      <4>4. CASE HReceiveFails(i)
        <5>1. handler[i] = "select" /\ Left(w) /\ reply[w] = None
              BY <4>0, <4>4 DEF HReceiveFails, w
        <5>2. worker[w] \in {"recv", "integrate", "answer"}  BY <1>f, <3>1, <3>3, <5>1 DEF Serves
        <5> QED  BY <5>1, <5>2 DEF Left
      <4> QED  BY <2>1, <4>1, <4>2, <4>3, <4>4 DEF Handler
    <3> QED  BY <3>2, <3>3
  <2> QED  BY <1>t, <1>0, <2>1, <2>2, <2>3, <2>e, <2>4
           DEF Smooth, mainVars, getterVars, setup
<1> QED  BY <1>5, <1>6, <1>8, <1>9, <1>10, <1>11 DEF IInv

-----------------------------------------------------------------------------
(* The getter and the sender *)

(* All of their steps but accept(). *)
LEMMA ListenerKeeps ==
  ASSUME IInv, Listen \/ ListenFails \/ AcceptFails \/ AllAccepted \/ CloseListener \/ SenderFails
  PROVE  IInv'
<1>t. TypeOK /\ Divided /\ Sockets /\ Passed /\ Added /\ Smooth  BY DEF IInv
<1>0. /\ UNCHANGED <<mainVars, setup, handlerVars, data, worker>>
      /\ fault' \in BOOLEAN /\ (fault => fault')
      /\ getter' \in {"off", "listen", "accept", "closing", "done"}
      /\ listening' \in BOOLEAN /\ hellos' \in BOOLEAN
  <2>1. /\ getter \in {"off", "listen", "accept", "closing", "done"}
        /\ listening \in BOOLEAN /\ hellos \in BOOLEAN /\ fault \in BOOLEAN
        BY <1>t DEF TypeOK
  <2> QED  BY <2>1 DEF Listen, ListenFails, AcceptFails, AllAccepted, CloseListener,
                       SenderFails, getterVars
<1>1. /\ conn' \in [Workers -> {"none", "queued", "accepted", "closed"}]
      /\ \A v \in Workers : \/ conn'[v] = conn[v]
                            \/ /\ conn[v] \in {"queued", "accepted"} /\ conn'[v] = "closed"
                               /\ conn[v] = "accepted" => Disturbed'
  <2>1. conn \in [Workers -> {"none", "queued", "accepted", "closed"}]  BY <1>t DEF TypeOK
  <2>2. AcceptFails => Disturbed'
        BY <1>0 DEF AcceptFails, Disturbed, TimedOut, Accepted, setup
  <2> QED  BY <2>1, <2>2 DEF Listen, ListenFails, AcceptFails, AllAccepted, CloseListener, SenderFails
<1>2. TypeOK'
      BY <1>t, <1>0, <1>1 DEF TypeOK, mainVars, setup, handlerVars, data
<1>3. Divided' /\ Tasked' = Tasked  BY <1>t, <1>0, DividedKept DEF mainVars
<1>4. Added'  BY <1>t, <1>0, AddedKept DEF setup
<1>5. \A i : Socket(i)' = Socket(i)  BY <1>0 DEF Socket, setup
<1>6. \A i \in DOMAIN task : Socket(i) # None => Socket(i) \in Workers
      BY <1>t, TaskTypes DEF Socket
<1>7. Sockets'  BY <1>t, <1>0, <1>1, <1>5, <1>6 DEF Sockets, setup
<1>8. Passed'  BY <1>t, <1>0, <1>5 DEF Passed, setup, handlerVars, data
<1>9. Smooth'
  <2> SUFFICES ASSUME ~Disturbed', Tasked PROVE Smooth'  BY <1>3 DEF Smooth
  <2>1. ~Disturbed /\ (Listen \/ AllAccepted \/ CloseListener)
    <3>1. ~fault' /\ ~fault  BY <1>0 DEF Disturbed
    <3>2. ~AcceptFails  BY <1>0 DEF AcceptFails, Disturbed, TimedOut, Accepted, setup
    <3>3. Listen \/ AllAccepted \/ CloseListener  BY <3>1, <3>2 DEF ListenFails, SenderFails
    <3>4. ~TimedOut
          BY <1>0, <3>3 DEF Listen, AllAccepted, CloseListener, Disturbed, TimedOut, Accepted,
                            mainVars, setup
    <3> QED  BY <3>1, <3>3, <3>4 DEF Disturbed
  <2>2. Accepted' = Accepted /\ DOMAIN task' = DOMAIN task  BY <1>0 DEF Accepted, setup
  <2>3. Late' = Late /\ Early' = Early  BY <1>0 DEF Late, Early, mainVars
  <2>4. getter \notin {"done", "off"}  BY <2>1 DEF Listen, AllAccepted, CloseListener
  <2>6. ASSUME ~Late, NEW i \in Accepted PROVE Serves(i)'
    <3>1. i \in DOMAIN task /\ Socket(i) \in Workers /\ Serves(i)
          BY <1>t, <1>6, <2>1, <2>6 DEF Accepted, Socket, Smooth
    <3>2. conn[Socket(i)] = "accepted"  BY <3>1 DEF Serves
    <3>3. conn'[Socket(i)] = conn[Socket(i)]  BY <1>1, <3>1, <3>2
    <3> QED  BY <1>0, <3>1, <3>3, ServesKept DEF setup, handlerVars, data
  <2>7. \A v \in Workers : conn'[v] = "queued" => worker'[v] = "recv"
        BY <1>t, <1>0, <1>1, <2>1 DEF Smooth
  <2> QED  BY <1>t, <1>0, <2>1, <2>2, <2>3, <2>4, <2>6, <2>7
           DEF Smooth, mainVars, handlerVars, setup
<1> QED  BY <1>2, <1>3, <1>4, <1>7, <1>8, <1>9 DEF IInv

LEMMA AcceptKeeps ==
  ASSUME IInv, GetterOff, Accept
  PROVE  IInv'
<1> USE NoneAssumption
<1>t. TypeOK /\ Divided /\ Sockets /\ Passed /\ Added /\ Smooth  BY DEF IInv
<1>p. PICK i \in DOMAIN task, w \in Workers :
        /\ i \notin Accepted /\ conn[w] = "queued"
        /\ task' = [task EXCEPT ![i].socket = w]
        /\ conn' = [conn EXCEPT ![w] = "accepted"]
      BY DEF Accept
<1>0. /\ getter = "accept"
      /\ UNCHANGED <<getterVars, mainVars, n_machines, n_threads, handlerVars, data, worker, fault>>
      BY DEF Accept
<1> DEFINE T == [w_info : [threads : 1 .. MaxThreads, begin : 0 .. MaxThreads, end : 0 .. MaxThreads],
                 socket : Workers \cup {None}]
<1>1. task \in Seq(T) /\ task[i] \in T  
  <2>1. task \in Seq(T)  BY <1>t DEF TypeOK
  <2> HIDE DEF T
  <2> QED  BY <2>1
<1>2. [task[i] EXCEPT !.socket = w] \in T /\ [task[i] EXCEPT !.socket = w].socket = w
      /\ [task[i] EXCEPT !.socket = w].w_info = task[i].w_info
      BY <1>1
<1>3. task' \in Seq(T) /\ Len(task') = Len(task) /\ DOMAIN task' = DOMAIN task
      /\ task'[i] = [task[i] EXCEPT !.socket = w]
      /\ \A j \in DOMAIN task : j # i => task'[j] = task[j]
  <2>1. task' = [task EXCEPT ![i] = [task[i] EXCEPT !.socket = w]]  BY <1>p
  <2> HIDE DEF T
  <2>2. task' \in Seq(T) /\ Len(task') = Len(task) /\ DOMAIN task' = DOMAIN task
        BY <1>1, <1>2, <2>1, Changed
  <2> QED  BY <2>1, <2>2
<1>4. TypeOK'
  <2>1. conn' \in [Workers -> {"none", "queued", "accepted", "closed"}]
        BY <1>t, <1>p DEF TypeOK
  <2>2. task' \in Seq([w_info : [threads : 1 .. MaxThreads, begin : 0 .. MaxThreads,
                                 end : 0 .. MaxThreads],
                       socket : Workers \cup {None}])
        BY <1>3
  <2> HIDE DEF T
  <2> QED  BY <1>t, <1>0, <1>3, <2>1, <2>2 DEF TypeOK, getterVars, mainVars, handlerVars, data
<1> HIDE DEF T
<1>5. /\ \A j \in DOMAIN task : task'[j].w_info = task[j].w_info
      /\ \A j \in DOMAIN task : j # i => Socket(j)' = Socket(j)
      /\ Socket(i)' = w /\ Socket(i) = None
      BY <1>p, <1>2, <1>3 DEF Socket, Accepted
<1>6. /\ \A v \in Workers : v # w => conn'[v] = conn[v]
      /\ conn'[w] = "accepted"
      BY <1>t, <1>p DEF TypeOK
<1>7. Tasked' = Tasked /\ NWorkers' = NWorkers /\ Division' = Division
  <2>1. Tasked' = Tasked /\ NWorkers' = NWorkers  BY <1>0 DEF Tasked, NWorkers
  <2>2. Share' = Share  BY <1>0, <2>1 DEF Share
  <2> QED  BY <1>0, <2>1, <2>2 DEF Division
<1>8. Divided'
  <2>1. HasTasks' = HasTasks  BY <1>3, <1>5, <1>7 DEF HasTasks
  <2>2. task # <<>>  BY <1>p
  <2> QED  BY <1>t, <1>0, <2>1, <2>2 DEF Divided, mainVars
<1>9. \A j \in DOMAIN task : Socket(j) # None =>
        Socket(j) \in Workers /\ Socket(j) # w /\ Socket(j)' = Socket(j)
  <2> SUFFICES ASSUME NEW j \in DOMAIN task, Socket(j) # None
               PROVE  Socket(j) \in Workers /\ Socket(j) # w /\ Socket(j)' = Socket(j)
      OBVIOUS
  <2>1. Socket(j) \in Workers  BY <1>t, TaskTypes DEF Socket
  <2>2. Socket(j) # w  BY <1>t, <1>p DEF Sockets
  <2> QED  BY <1>5, <2>1, <2>2
<1>10. Sockets'
  <2>1. \A j, k \in DOMAIN task : j # k /\ Socket(j)' # None => Socket(j)' # Socket(k)'
    <3> SUFFICES ASSUME NEW j \in DOMAIN task, NEW k \in DOMAIN task, j # k, Socket(j)' # None,
                        Socket(j)' = Socket(k)'
                 PROVE  FALSE
        OBVIOUS
    <3>1. CASE j = i  BY <1>5, <1>9, <3>1
    <3>2. CASE k = i  BY <1>5, <1>9, <3>2
    <3>3. CASE j # i /\ k # i  BY <1>t, <1>5, <3>3 DEF Sockets
    <3> QED  BY <3>1, <3>2, <3>3
  <2>2. \A j \in DOMAIN task : Socket(j)' # None => conn'[Socket(j)'] \in {"accepted", "closed"}
    <3> SUFFICES ASSUME NEW j \in DOMAIN task, Socket(j)' # None
                 PROVE  conn'[Socket(j)'] \in {"accepted", "closed"}
        OBVIOUS
    <3>1. CASE j = i  BY <1>5, <1>6, <3>1
    <3>2. CASE j # i
      <4>1. Socket(j)' = Socket(j) /\ Socket(j) # w /\ Socket(j) \in Workers
            BY <1>5, <1>9, <3>2
      <4> QED  BY <1>t, <1>6, <4>1 DEF Sockets
    <3> QED  BY <3>1, <3>2
  <2>3. \A v \in Workers : worker'[v] \in {"wait", "connect"} => conn'[v] = "none"
        BY <1>t, <1>0, <1>p, <1>6 DEF Sockets
  <2> QED  BY <1>3, <2>1, <2>2, <2>3 DEF Sockets
<1>11. Passed'
  <2>1. \A v \in Workers : given'[v] # None =>
          \E j \in DOMAIN task' : Socket(j)' = v /\ given'[v] = task'[j].w_info
    <3> SUFFICES ASSUME NEW v \in Workers, given[v] # None
                 PROVE  \E j \in DOMAIN task : Socket(j)' = v /\ given[v] = task'[j].w_info
        BY <1>0, <1>3 DEF data
    <3>1. PICK j \in DOMAIN task : Socket(j) = v /\ given[v] = task[j].w_info
          BY <1>t DEF Passed
    <3>2. Socket(j)' = v  BY <1>9, <3>1
    <3> QED  BY <1>5, <3>1, <3>2
  <2>2. \A j \in DOMAIN part' : part'[j] # None => part'[j] = Interval(task'[j].w_info)
    <3>1. DOMAIN part \subseteq DOMAIN task /\ part' = part
          BY <1>t, <1>0, Lengths DEF handlerVars
    <3> QED  BY <1>t, <1>5, <3>1 DEF Passed
  <2> QED  BY <1>t, <1>0, <2>1, <2>2 DEF Passed, data
<1>12. Added'
  BY <1>t, <1>0, <1>3 DEF Added, mainVars, handlerVars
<1>13. Smooth'
  <2> SUFFICES ASSUME ~Disturbed', Tasked PROVE Smooth'  BY <1>7 DEF Smooth
  <2>0. ~Disturbed  BY <1>0 DEF GetterOff, Disturbed, TimedOut
  <2>1. Late' = Late /\ Early' = Early  BY <1>0 DEF Late, Early, mainVars
  <2>2. main \notin {"create", "add", "close", "return"}  BY <1>t, <1>0, <2>0 DEF Smooth
  <2>3. Accepted' = Accepted \cup {i}
    <3>1. \A j \in DOMAIN task : task'[j].socket # None <=> task[j].socket # None \/ j = i
          BY <1>5, <1>p DEF Socket
    <3> QED  BY <1>3, <3>1 DEF Accepted
  <2>4. ASSUME ~Late, NEW j \in Accepted PROVE Serves(j)'
    <3>1. /\ j \in DOMAIN task /\ j # i /\ Serves(j) /\ Socket(j) \in Workers
          /\ Socket(j) # w /\ Socket(j)' = Socket(j)
          BY <1>t, <1>p, <1>9, <2>0, <2>4 DEF Accepted, Socket, Smooth
    <3> QED  BY <1>0, <1>6, <3>1 DEF Serves, data, handlerVars
  <2>5. ASSUME ~Late PROVE Serves(i)'
    <3>1. handler = <<>>
      <4>1. Early  BY <1>t, <2>2, <2>5 DEF Early, Late, TypeOK, MainSteps
      <4> QED  BY <1>t, <2>0, <4>1 DEF Smooth
    <3>2. worker[w] = "recv"  BY <1>t, <1>p, <2>0 DEF Smooth
    <3>3. given[w] = None
      <4> SUFFICES ASSUME given[w] # None PROVE FALSE  OBVIOUS
      <4>1. PICK j \in DOMAIN task : Socket(j) = w  BY <1>t DEF Passed
      <4> QED  BY <1>9, <4>1
    <3>4. reply[w] = None  BY <1>t, <3>3 DEF Passed
    <3>5. handler' = <<>> /\ DOMAIN handler' = {}  BY <1>0, <3>1 DEF handlerVars
    <3> QED  BY <1>0, <1>5, <1>6, <3>2, <3>3, <3>4, <3>5 DEF Serves, data
  <2>6. \A v \in Workers : conn'[v] = "queued" => worker'[v] = "recv"
        BY <1>t, <1>0, <1>6, <2>0 DEF Smooth
  <2> QED  BY <1>t, <1>0, <2>0, <2>1, <2>2, <2>3, <2>4, <2>5, <2>6
           DEF Smooth, mainVars, getterVars, handlerVars
<1> QED  BY <1>4, <1>8, <1>10, <1>11, <1>12, <1>13 DEF IInv

-----------------------------------------------------------------------------
(* The main thread *)

(* The process is gone. *)
LEMMA EndKeeps ==
  ASSUME IInv, ProcessEnds, UNCHANGED <<outcome, result, joined, setup, part, data, worker>>,
         fault' \in BOOLEAN, ~Disturbed' /\ Tasked => outcome = "result"
  PROVE  IInv'
<1>t. TypeOK /\ Divided /\ Sockets /\ Passed /\ Added /\ Smooth  BY DEF IInv
<1>0. /\ main' = "exited" /\ getter' = "off" /\ listening' = FALSE /\ hellos' = FALSE
      /\ handler' = [i \in DOMAIN handler |-> "off"]
      /\ conn' = [w \in Workers |-> IF conn[w] = "none" THEN "none" ELSE "closed"]
      BY DEF ProcessEnds
<1>1. /\ handler' \in Seq({"send", "select", "returned", "off"}) /\ Len(handler') = Len(handler)
      /\ DOMAIN handler' = DOMAIN handler
  <2>1. handler \in Seq({"send", "select", "returned", "off"})  BY <1>t DEF TypeOK
  <2>2. handler' \in [DOMAIN handler -> {"send", "select", "returned", "off"}]  BY <1>0
  <2> QED  BY <2>1, <2>2, Replaced
<1>2. /\ conn' \in [Workers -> {"none", "queued", "accepted", "closed"}]
      /\ \A v \in Workers : /\ conn[v] = "none" => conn'[v] = "none"
                            /\ conn[v] # "none" => conn'[v] = "closed"
      BY <1>0
<1>3. TypeOK'  BY <1>t, <1>0, <1>1, <1>2 DEF TypeOK, setup, data, MainSteps
<1>4. Divided' /\ Tasked' = Tasked
  <2>1. Tasked' = Tasked /\ HasTasks' = HasTasks /\ task' = task  BY TasksKept DEF setup
  <2> QED  BY <1>t, <1>0, <2>1 DEF Divided
<1>5. \A i : Socket(i)' = Socket(i)  BY DEF Socket, setup
<1>6. \A i \in DOMAIN task : Socket(i) # None => Socket(i) \in Workers
      BY <1>t, TaskTypes DEF Socket
<1>7. Sockets'
  <2>1. \A i \in DOMAIN task : Socket(i) # None => conn'[Socket(i)] = "closed"
        BY <1>t, <1>2, <1>6 DEF Sockets
  <2> QED  BY <1>t, <1>2, <1>5, <2>1 DEF Sockets, setup
<1>8. Passed'  BY <1>t, <1>5 DEF Passed, setup, data
<1>9. Added'
  <2>1. \A k \in 1 .. joined : k \in DOMAIN handler
    <3>1. joined <= Len(handler) /\ joined \in Nat /\ DOMAIN handler = 1 .. Len(handler)
          /\ Len(handler) \in Nat
          BY <1>t, Lengths DEF Added
    <3> QED  BY <3>1
  <2> QED  BY <1>t, <1>0, <2>1 DEF Added, setup
<1>10. Smooth'  BY <1>0, <1>2, <1>4 DEF Smooth, Late, Early
<1> QED  BY <1>3, <1>4, <1>7, <1>8, <1>9, <1>10 DEF IInv

LEMMA DivideKeeps ==
  ASSUME IInv, Divide
  PROVE  IInv'
<1> USE NoneAssumption
<1>t. TypeOK /\ Divided /\ Sockets /\ Passed /\ Added /\ Smooth  BY DEF IInv
<1>0. /\ main = "divide" /\ task = <<>> /\ outcome # "result"
      /\ UNCHANGED <<n_machines, n_threads, getterVars, handlerVars, conn, data, worker, result, joined>>
  <2>1. main = "divide" /\ task = <<>>  BY <1>t DEF Divide, Divided
  <2>2. outcome # "result"
    <3>1. ~HasTasks
      <4>1. Len(<<>>) = 0  OBVIOUS
      <4>2. HasTasks => NWorkers = 0  BY <2>1, <4>1 DEF HasTasks
      <4>3. Tasked => NWorkers >= 1  BY <1>t, DivisionTypes
      <4> QED  BY <4>2, <4>3 DEF HasTasks
    <3> QED  BY <1>t, <3>1 DEF Divided
  <2> QED  BY <2>1, <2>2 DEF Divide, Fails
<1>1. DOMAIN task = {} /\ Len(task) = 0  BY <1>0
<1>2. handler = <<>> /\ DOMAIN part = {} /\ DOMAIN handler = {} /\ joined = 0 /\ result = <<>>
  <2>1. /\ Len(handler) = 0 /\ Len(part) = 0 /\ joined = 0 /\ Len(result) = 0
        /\ DOMAIN part = DOMAIN handler /\ DOMAIN handler \subseteq {}
        BY <1>t, <1>1, Lengths DEF TypeOK
  <2>2. handler = <<>> /\ result = <<>>  BY <1>t, <2>1 DEF TypeOK
  <2> QED  BY <2>1, <2>2
<1>3. \A v \in Workers : given[v] = None  BY <1>t, <1>1 DEF Passed
<1>4. Tasked' = Tasked /\ NWorkers' = NWorkers /\ Division' = Division
  <2>1. Tasked' = Tasked /\ NWorkers' = NWorkers  BY <1>0 DEF Tasked, NWorkers
  <2>2. Share' = Share  BY <1>0, <2>1 DEF Share
  <2> QED  BY <1>0, <2>1, <2>2 DEF Division
<1>5. CASE /\ Tasked /\ task' = Division /\ main' = "getter" /\ UNCHANGED <<outcome, fault>>
  <2>1. /\ Division \in Seq([w_info : [threads : 1 .. MaxThreads, begin : 0 .. MaxThreads,
                                       end : 0 .. MaxThreads],
                             socket : Workers \cup {None}])
        /\ Len(Division) = NWorkers /\ DOMAIN Division = 1 .. NWorkers
        /\ NWorkers \in Nat /\ NWorkers >= 1 /\ NWorkers <= MaxThreads
        /\ \A i \in 1 .. NWorkers : Division[i].socket = None
        BY <1>t, <1>5, DivisionTypes
  <2>2. TypeOK'
    <3>1. DOMAIN task' \subseteq 1 .. MaxThreads /\ joined' \in 0 .. Len(task')
          /\ Len(handler') <= Len(task')
      <4>1. MaxThreads \in Nat /\ Len(handler') = 0  BY <1>0, <1>2, BoundsAssumption DEF handlerVars
      <4> QED  BY <1>0, <1>2, <1>5, <2>1, <4>1
    <3> QED  BY <1>t, <1>0, <1>5, <2>1, <3>1
             DEF TypeOK, getterVars, handlerVars, data, MainSteps
  <2>3. Divided'
    <3>1. HasTasks'  BY <1>4, <1>5, <2>1 DEF HasTasks
    <3> QED  BY <1>5, <3>1 DEF Divided
  <2>4. \A i \in DOMAIN task' : Socket(i)' = None  BY <1>5, <2>1 DEF Socket
  <2>5. Sockets'  BY <1>t, <1>0, <2>4 DEF Sockets
  <2>6. Passed'  BY <1>t, <1>0, <1>2, <1>3 DEF Passed, handlerVars, data
  <2>7. Added'
    <3>1. joined' = 0 /\ outcome' # "result" /\ main' # "add" /\ Len(part') \in Nat
          BY <1>t, <1>0, <1>2, <1>5, Lengths DEF handlerVars
    <3> QED  BY <3>1 DEF Added
  <2>8. Smooth'
    <3>1. Accepted' = {}  BY <2>4 DEF Accepted, Socket
    <3>2. ~Disturbed' /\ Tasked =>
            /\ outcome # "failed" /\ handler = <<>> /\ getter = "off"
            /\ \A v \in Workers : conn[v] = "queued" => worker[v] = "recv"
      <4>1. fault' = fault /\ Accepted = DOMAIN task  BY <1>1, <1>5 DEF Accepted
      <4>2. ~Disturbed' => ~Disturbed  BY <4>1 DEF Disturbed, TimedOut
      <4> QED  BY <1>t, <1>0, <1>2, <4>2 DEF Smooth
    <3> QED  BY <1>0, <1>4, <1>5, <3>1, <3>2
             DEF Smooth, Late, Early, getterVars, handlerVars
  <2> QED  BY <2>2, <2>3, <2>5, <2>6, <2>7, <2>8 DEF IInv
<1>6. CASE /\ UNCHANGED task /\ main' = "return" /\ outcome' = "failed"
           /\ fault' \in BOOLEAN /\ (~fault' => ~Tasked)
  <2>1. TypeOK'
        BY <1>t, <1>0, <1>6 DEF TypeOK, getterVars, handlerVars, data, MainSteps
  <2>2. Divided'  BY <1>0, <1>6 DEF Divided
  <2>3. \A i : Socket(i)' = Socket(i)  BY <1>6 DEF Socket
  <2>4. Sockets'  BY <1>t, <1>0, <1>6, <2>3 DEF Sockets
  <2>5. Passed'  BY <1>t, <1>0, <1>6, <2>3 DEF Passed, handlerVars, data
  <2>6. Added'  BY <1>t, <1>0, <1>6 DEF Added, handlerVars
  <2>7. Smooth'  BY <1>4, <1>6 DEF Smooth, Disturbed
  <2> QED  BY <2>1, <2>2, <2>4, <2>5, <2>6, <2>7 DEF IInv
<1>7. n_machines \in Nat /\ n_threads \in Nat /\ fault \in BOOLEAN
      BY <1>t, BoundsAssumption DEF TypeOK
<1>8. CASE n_machines = 0 \/ n_threads = 0
  <2>1. ~Tasked /\ UNCHANGED <<task, fault>> /\ main' = "return" /\ outcome' = "failed"
        BY <1>7, <1>8 DEF Divide, Fails, Tasked
  <2> QED  BY <1>6, <1>7, <2>1
<1>9. CASE ~(n_machines = 0 \/ n_threads = 0)
  <2>1. Tasked  BY <1>7, <1>9 DEF Tasked
  <2>2. \/ task' = Division /\ main' = "getter" /\ UNCHANGED <<outcome, fault>>
        \/ main' = "return" /\ outcome' = "failed" /\ fault' = TRUE /\ UNCHANGED task
        BY <1>9 DEF Divide, Fails
  <2> QED  BY <1>5, <1>6, <2>1, <2>2
<1> QED  BY <1>8, <1>9

(* The main thread goes on, or gives up for a reason, and no task is touched. *)
LEMMA SetupKeeps ==
  ASSUME IInv, GetterOff, CreateGetter \/ CreateSender \/ JoinGetter
  PROVE  IInv'
<1>t. TypeOK /\ Divided /\ Sockets /\ Passed /\ Added /\ Smooth  BY DEF IInv
<1>0. /\ UNCHANGED <<setup, listening, handlerVars, conn, data, worker, result, joined>>
      /\ \/ main' \in {"sender", "join", "create"} /\ outcome' = outcome /\ fault' = fault
         \/ main' = "return" /\ outcome' = "failed" /\ fault' = TRUE
      /\ main \in {"getter", "sender", "join"}
      /\ main' # "return" \/ getter' = getter
      /\ getter' \in {"off", "listen", "accept", "closing", "done"} /\ hellos' \in BOOLEAN
      BY <1>t DEF CreateGetter, CreateSender, JoinGetter, Fails, TypeOK
<1>1. TypeOK'
  <2>1. main' \in MainSteps /\ outcome' \in {"none", "result", "failed"} /\ fault' \in BOOLEAN
        BY <1>t, <1>0 DEF TypeOK, MainSteps
  <2> QED  BY <1>t, <1>0, <2>1 DEF TypeOK, setup, handlerVars, data
<1>2. Divided' /\ Tasked' = Tasked
  <2>1. Tasked' = Tasked /\ HasTasks' = HasTasks /\ task' = task  BY <1>0, TasksKept DEF setup
  <2>2. HasTasks  BY <1>t, <1>0 DEF Divided
  <2> QED  BY <1>0, <2>1, <2>2 DEF Divided
<1>3. \A i : Socket(i)' = Socket(i)  BY <1>0 DEF Socket, setup
<1>4. Sockets'  BY <1>t, <1>0, <1>3 DEF Sockets, setup
<1>5. Passed'  BY <1>t, <1>0, <1>3 DEF Passed, setup, handlerVars, data
<1>6. Added'  BY <1>t, <1>0 DEF Added, setup, handlerVars
<1>7. Smooth'
  <2> SUFFICES ASSUME ~Disturbed', Tasked PROVE Smooth'  BY <1>2 DEF Smooth
  <2>2. Accepted' = Accepted /\ DOMAIN task' = DOMAIN task  BY <1>0 DEF Accepted, setup
  <2>1. ~Disturbed /\ outcome' = outcome /\ main' \in {"sender", "join", "create"}
    <3>1. ~fault' /\ main' \in {"sender", "join", "create"} /\ outcome' = outcome /\ fault' = fault
          BY <1>0 DEF Disturbed
    <3>2. getter \in {"closing", "done"} => getter' = getter
          BY <1>1, <1>0, <3>1 DEF CreateGetter, CreateSender, JoinGetter, GetterOff
    <3> QED  BY <1>0, <2>2, <3>1, <3>2 DEF Disturbed, TimedOut
  <2>3. handler = <<>> /\ outcome # "failed" /\ ~Late  BY <1>t, <1>0, <2>1 DEF Smooth, Early, Late
  <2>4. \A i \in Accepted : Serves(i)'
        BY <1>t, <1>0, <2>1, <2>3, ServesKept DEF Smooth, setup, handlerVars, data, Accepted
  <2>5. main' = "create" => getter' = "done"
    <3>1. main' = "create" => JoinGetter  BY <2>1 DEF CreateGetter, CreateSender, Fails
    <3> QED  BY <3>1 DEF JoinGetter
  <2>7. \A w \in Workers : conn[w] = "queued" => worker[w] = "recv"  BY <1>t, <2>1 DEF Smooth
  <2> QED  BY <1>0, <2>1, <2>2, <2>3, <2>4, <2>5, <2>7 DEF Smooth, Late, Early, handlerVars
<1> QED  BY <1>1, <1>2, <1>4, <1>5, <1>6, <1>7 DEF IInv

(* Where nothing has gone wrong, a handler that has returned has a part. *)
LEMMA ReturnedPart ==
  ASSUME IInv, main = "add", ~Disturbed, NEW i \in DOMAIN task, handler[i] = "returned"
  PROVE  part[i] # None
<1>t. TypeOK /\ Divided /\ Added /\ Smooth  BY DEF IInv
<1>1. Tasked /\ i \in DOMAIN handler  BY <1>t, Lengths DEF Divided, HasTasks, Added
<1>2. ~Late /\ i \in Accepted  BY <1>t, <1>1 DEF Smooth, Late, Disturbed, TimedOut
<1>3. Serves(i)  BY <1>t, <1>1, <1>2 DEF Smooth
<1> QED  BY <1>1, <1>3 DEF Serves

LEMMA CreateKeeps ==
  ASSUME IInv, CreateHandler
  PROVE  IInv'
<1> USE NoneAssumption
<1>t. TypeOK /\ Divided /\ Sockets /\ Passed /\ Added /\ Smooth  BY DEF IInv
<1>0. /\ main = "create" /\ Len(handler) < Len(task)
      /\ handler' = Append(handler, "send") /\ part' = Append(part, None)
      /\ UNCHANGED <<mainVars, setup, getterVars, conn, data, worker, fault>>
      BY DEF CreateHandler
<1> DEFINE n == Len(handler)
<1>1. /\ n \in Nat /\ DOMAIN handler = 1 .. n /\ DOMAIN part = 1 .. n /\ Len(part) = n
      /\ Len(task) \in Nat /\ joined \in Nat /\ joined <= n /\ DOMAIN task = 1 .. Len(task)
      BY <1>t, Lengths DEF Added
<1>2. /\ handler' \in Seq({"send", "select", "returned", "off"}) /\ Len(handler') = n + 1
      /\ DOMAIN handler' = 1 .. n + 1 /\ handler'[n + 1] = "send"
      /\ \A i \in 1 .. n : handler'[i] = handler[i]
      BY <1>t, <1>0, <1>1, Appended DEF TypeOK
<1>3. /\ part' \in Seq(Intervals \cup {None}) /\ Len(part') = n + 1
      /\ DOMAIN part' = 1 .. n + 1 /\ part'[n + 1] = None
      /\ \A i \in 1 .. n : part'[i] = part[i]
  <2> DEFINE P == Intervals \cup {None}
  <2>1. part \in Seq(P) /\ None \in P  BY <1>t DEF TypeOK
  <2> HIDE DEF P
  <2>2. /\ Append(part, None) \in Seq(P) /\ Len(Append(part, None)) = Len(part) + 1
        /\ DOMAIN Append(part, None) = 1 .. Len(part) + 1
        /\ \A i \in DOMAIN part : Append(part, None)[i] = part[i]
        /\ Append(part, None)[Len(part) + 1] = None
        BY <2>1, Appended
  <2> QED  BY <1>0, <1>1, <2>2 DEF P
<1>4. TypeOK'
  <2>1. Len(handler') <= Len(task)  BY <1>0, <1>1, <1>2
  <2> QED  BY <1>t, <1>0, <1>2, <1>3, <2>1 DEF TypeOK, mainVars, setup, getterVars, data
<1>5. Divided' /\ Tasked' = Tasked  BY <1>t, <1>0, DividedKept DEF mainVars
<1>6. \A i : Socket(i)' = Socket(i)  BY <1>0 DEF Socket, setup
<1>7. Sockets'  BY <1>t, <1>0, <1>6 DEF Sockets, setup
<1>8. Passed'
  <2>1. \A i \in DOMAIN part' : part'[i] # None => part'[i] = Interval(task'[i].w_info)
    <3> SUFFICES ASSUME NEW i \in 1 .. n + 1, part'[i] # None
                 PROVE  part'[i] = Interval(task[i].w_info)
        BY <1>0, <1>3 DEF setup
    <3>1. i \in 1 .. n  BY <1>1, <1>3
    <3> QED  BY <1>t, <1>1, <1>3, <3>1 DEF Passed
  <2> QED  BY <1>t, <1>0, <1>6, <2>1 DEF Passed, setup, data
<1>9. Added'
  <2>1. \A k \in 1 .. joined : k \in 1 .. n  BY <1>1
  <2>2. joined <= Len(part')  BY <1>1, <1>3
  <2> QED  BY <1>t, <1>0, <1>2, <1>3, <2>1, <2>2 DEF Added, mainVars, setup
<1>10. Smooth'
  <2> SUFFICES ASSUME ~Disturbed', Tasked PROVE Smooth'  BY <1>5 DEF Smooth
  <2>0. ~Disturbed
        BY <1>0, DisturbedKept DEF mainVars, setup, getterVars
  <2>1. Accepted' = Accepted /\ DOMAIN task' = DOMAIN task  BY <1>0 DEF Accepted, setup
  <2>2. ~Late /\ ~Late' /\ ~Early'  BY <1>0 DEF Late, Early, mainVars
  <2>3. ASSUME NEW i \in Accepted PROVE Serves(i)'
    <3>1. Serves(i) /\ i \in Nat /\ i >= 1  BY <1>t, <1>1, <2>0, <2>2 DEF Smooth, Accepted
    <3>2. CASE i \in 1 .. n  BY <1>0, <1>1, <1>2, <1>3, <1>6, <3>1, <3>2 DEF Serves, data
    <3>3. CASE i \notin 1 .. n
      <4>1. i \notin 1 .. n + 1 \/ handler'[i] = "send"  BY <1>1, <1>2, <3>1, <3>3
      <4>2. i \notin DOMAIN handler  BY <1>1, <3>3
      <4>3. i \in DOMAIN handler' => handler'[i] = "send"  BY <1>2, <4>1
      <4> HIDE DEF n
      <4> QED  BY <1>0, <1>6, <3>1, <4>2, <4>3 DEF Serves, data
    <3> QED  BY <3>2, <3>3
  <2> QED  BY <1>t, <1>0, <2>0, <2>1, <2>2, <2>3 DEF Smooth, mainVars, getterVars
<1> QED  BY <1>4, <1>5, <1>7, <1>8, <1>9, <1>10 DEF IInv

(* All handlers are cancelled, and there will be no result. *)
LEMMA GiveUpKeeps ==
  ASSUME IInv, Fails("close"), CancelHandlers, main \in {"create", "add"},
         UNCHANGED <<setup, getterVars, part, conn, data, worker>>,
         fault' \in BOOLEAN, Disturbed'
  PROVE  IInv'
<1>t. TypeOK /\ Divided /\ Sockets /\ Passed /\ Added /\ Smooth  BY DEF IInv
<1>0. /\ main' = "close" /\ outcome' = "failed" /\ UNCHANGED <<result, joined>>
      /\ handler' = [i \in DOMAIN handler |->
                       IF handler[i] = "returned" THEN "returned" ELSE "off"]
      BY DEF Fails, CancelHandlers
<1>1. /\ handler' \in Seq({"send", "select", "returned", "off"}) /\ Len(handler') = Len(handler)
      /\ DOMAIN handler' = DOMAIN handler
  <2>1. handler \in Seq({"send", "select", "returned", "off"})  BY <1>t DEF TypeOK
  <2>2. handler' \in [DOMAIN handler -> {"send", "select", "returned", "off"}]  BY <1>0
  <2> QED  BY <2>1, <2>2, Replaced
<1>2. TypeOK'  BY <1>t, <1>0, <1>1 DEF TypeOK, setup, getterVars, data, MainSteps
<1>3. Divided'
  <2>1. HasTasks' = HasTasks /\ task' = task  BY TasksKept DEF setup
  <2>2. HasTasks  BY <1>t DEF Divided
  <2> QED  BY <1>0, <2>1, <2>2 DEF Divided
<1>4. \A i : Socket(i)' = Socket(i)  BY DEF Socket, setup
<1>5. Sockets'  BY <1>t, <1>4 DEF Sockets, setup
<1>6. Passed'  BY <1>t, <1>4 DEF Passed, setup, data
<1>7. Added'
  <2>1. \A k \in 1 .. joined : k \in DOMAIN handler
    <3>1. joined <= Len(handler) /\ joined \in Nat /\ DOMAIN handler = 1 .. Len(handler)
          /\ Len(handler) \in Nat
          BY <1>t, Lengths DEF Added
    <3> QED  BY <3>1
  <2> QED  BY <1>t, <1>0, <2>1 DEF Added, setup
<1>8. Smooth'  BY DEF Smooth
<1> QED  BY <1>2, <1>3, <1>5, <1>6, <1>7, <1>8 DEF IInv

(* A part is added. *)
LEMMA AddKeeps ==
  ASSUME IInv, AddPart
  PROVE  IInv'
<1>t. TypeOK /\ Divided /\ Sockets /\ Passed /\ Added /\ Smooth  BY DEF IInv
<1>0. /\ main = "add" /\ joined < Len(task) /\ handler[joined + 1] = "returned"
      /\ part[joined + 1] # None /\ joined' = joined + 1
      /\ result' = Append(result, part[joined + 1])
      /\ UNCHANGED <<main, outcome, setup, getterVars, handlerVars, conn, data, worker, fault>>
      BY DEF AddPart, Returned
<1>1. /\ joined \in Nat /\ Len(task) \in Nat /\ Len(part) = Len(task) /\ Len(result) = joined
      /\ joined + 1 \in DOMAIN part /\ DOMAIN result = 1 .. joined
  <2>1. Len(handler) = Len(task)  BY <1>t, <1>0 DEF Added
  <2>2. Len(result) = joined /\ DOMAIN result = 1 .. Len(result)  BY <1>t DEF TypeOK
  <2> QED  BY <1>t, <1>0, <2>1, <2>2, Lengths
<1>2. part[joined + 1] \in Intervals
  <2> DEFINE P == Intervals \cup {None}
  <2>1. part \in Seq(P)  BY <1>t DEF TypeOK
  <2> HIDE DEF P
  <2>2. part[joined + 1] \in P  BY <1>1, <2>1
  <2> QED  BY <1>0, <2>2 DEF P
<1>3. /\ result' \in Seq(Intervals) /\ Len(result') = joined + 1
      /\ \A k \in 1 .. joined : result'[k] = result[k]
      /\ result'[joined + 1] = part[joined + 1]
  <2> DEFINE v == part[joined + 1]
  <2>1. result \in Seq(Intervals) /\ v \in Intervals  BY <1>t, <1>2 DEF TypeOK
  <2> HIDE DEF v
  <2>2. /\ Append(result, v) \in Seq(Intervals) /\ Len(Append(result, v)) = Len(result) + 1
        /\ \A i \in DOMAIN result : Append(result, v)[i] = result[i]
        /\ Append(result, v)[Len(result) + 1] = v
        BY <2>1, Appended
  <2> QED  BY <1>0, <1>1, <2>2 DEF v
<1>4. TypeOK'
  <2>1. joined' \in 0 .. Len(task)  BY <1>0, <1>1
  <2> QED  BY <1>t, <1>0, <1>3, <2>1 DEF TypeOK, setup, getterVars, handlerVars, data
<1>5. Divided' /\ Tasked' = Tasked  BY <1>t, <1>0, DividedKept
<1>6. \A i : Socket(i)' = Socket(i)  BY <1>0 DEF Socket, setup
<1>7. Sockets'  BY <1>t, <1>0, <1>6 DEF Sockets, setup
<1>8. Passed'  BY <1>t, <1>0, <1>6 DEF Passed, setup, handlerVars, data
<1>9. Added'
  <2>1. joined + 1 <= Len(part)  BY <1>0, <1>1
  <2>2. outcome # "result"  BY <1>t, <1>0, <1>1 DEF Added
  <2>3. ASSUME NEW k \in 1 .. joined + 1
        PROVE  handler[k] \in {"returned", "off"} /\ part[k] # None /\ result'[k] = part[k]
    <3>1. k \in 1 .. joined \/ k = joined + 1  BY <1>1
    <3> QED  BY <1>t, <1>0, <1>3, <3>1 DEF Added
  <2> QED  BY <1>t, <1>0, <2>1, <2>2, <2>3 DEF Added, setup, handlerVars
<1>10. Smooth'
  <2> SUFFICES ASSUME ~Disturbed', Tasked PROVE Smooth'  BY <1>5 DEF Smooth
  <2>0. ~Disturbed
        BY <1>0, DisturbedKept DEF mainVars, setup, getterVars
  <2>1. Accepted' = Accepted /\ DOMAIN task' = DOMAIN task  BY <1>0 DEF Accepted, setup
  <2>2. ~Late /\ ~Late' /\ ~Early'  BY <1>0 DEF Late, Early
  <2>3. ASSUME NEW i \in Accepted PROVE Serves(i)'
    <3>1. Serves(i)  BY <1>t, <2>0, <2>2, <2>3 DEF Smooth
    <3> QED  BY <1>0, <1>6, <3>1 DEF Serves, data, handlerVars
  <2> QED  BY <1>t, <1>0, <2>0, <2>1, <2>2, <2>3 DEF Smooth, getterVars
<1> QED  BY <1>4, <1>5, <1>7, <1>8, <1>9, <1>10 DEF IInv

(* The handlers are all there, or all joined, or the sockets are closed. *)
LEMMA MoveKeeps ==
  ASSUME IInv, AllCreated \/ AllAdded \/ CloseSockets
  PROVE  IInv'
<1>t. TypeOK /\ Divided /\ Sockets /\ Passed /\ Added /\ Smooth  BY DEF IInv
<1>0. /\ UNCHANGED <<result, joined, setup, getterVars, handlerVars, data, worker, fault>>
      /\ \/ main = "create" /\ Len(handler) = Len(task) /\ main' = "add"
            /\ UNCHANGED <<outcome, conn>>
         \/ main = "add" /\ joined = Len(task) /\ main' = "close" /\ outcome' = "result"
            /\ UNCHANGED conn
         \/ main = "close" /\ main' = "return" /\ outcome' = outcome
            /\ conn' = [w \in Workers |-> IF \E i \in DOMAIN task : task[i].socket = w
                                          THEN "closed" ELSE conn[w]]
      BY DEF AllCreated, AllAdded, CloseSockets
<1>1. HasTasks  BY <1>t, <1>0 DEF Divided
<1>2. /\ conn' \in [Workers -> {"none", "queued", "accepted", "closed"}]
      /\ \A v \in Workers : conn'[v] = conn[v] \/ conn'[v] = "closed"
      /\ \A v \in Workers : conn[v] = "none" => conn'[v] = "none"
  <2>1. conn \in [Workers -> {"none", "queued", "accepted", "closed"}]  BY <1>t DEF TypeOK
  <2>2. \A i \in DOMAIN task : task[i].socket \in Workers => conn[task[i].socket] # "none"
        BY <1>t, NoneAssumption DEF Sockets, Socket
  <2> QED  BY <1>0, <2>1, <2>2
<1>3. TypeOK'
  <2>1. main' \in MainSteps /\ outcome' \in {"none", "result", "failed"}
        BY <1>t, <1>0 DEF TypeOK, MainSteps
  <2> QED  BY <1>t, <1>0, <1>2, <2>1 DEF TypeOK, setup, getterVars, handlerVars, data
<1>4. Divided' /\ Tasked' = Tasked
  <2>1. Tasked' = Tasked /\ HasTasks' = HasTasks /\ task' = task  BY <1>0, TasksKept DEF setup
  <2> QED  BY <1>0, <1>1, <2>1 DEF Divided
<1>5. \A i : Socket(i)' = Socket(i)  BY <1>0 DEF Socket, setup
<1>6. \A i \in DOMAIN task : Socket(i) # None => Socket(i) \in Workers
      BY <1>t, TaskTypes DEF Socket
<1>7. Sockets'
  <2>1. \A i \in DOMAIN task : Socket(i) # None => conn'[Socket(i)] \in {"accepted", "closed"}
        BY <1>t, <1>2, <1>6 DEF Sockets
  <2> QED  BY <1>t, <1>0, <1>2, <1>5, <2>1 DEF Sockets, setup
<1>8. Passed'  BY <1>t, <1>0, <1>5 DEF Passed, setup, handlerVars, data
<1>9. Added'  BY <1>t, <1>0 DEF Added, setup, handlerVars
<1>10. Smooth'
  <2> SUFFICES ASSUME ~Disturbed', Tasked PROVE Smooth'  BY <1>4 DEF Smooth
  <2>1. Accepted' = Accepted /\ DOMAIN task' = DOMAIN task  BY <1>0 DEF Accepted, setup
  <2>0. ~Disturbed  BY <1>0, <2>1 DEF Disturbed, TimedOut, getterVars
  <2>2. /\ getter = "done" /\ getter' = getter /\ outcome' # "failed"
        /\ Late' => outcome' = "result"
        BY <1>t, <1>0, <2>0 DEF Smooth, Late, getterVars
  <2>3. ~Early' /\ main' \notin {"divide", "getter"}  BY <1>0 DEF Early
  <2>4. ASSUME ~Late', NEW i \in Accepted PROVE Serves(i)'
    <3>1. Serves(i) /\ conn' = conn  BY <1>t, <1>0, <2>0, <2>4 DEF Smooth, Late
    <3> QED  BY <1>0, <1>5, <3>1 DEF Serves, data, handlerVars
  <2>5. \A v \in Workers : conn'[v] = "queued" => worker'[v] = "recv"
        BY <1>t, <1>0, <1>2, <2>0 DEF Smooth
  <2> QED  BY <1>t, <2>0, <2>1, <2>2, <2>3, <2>4, <2>5 DEF Smooth
<1> QED  BY <1>3, <1>4, <1>7, <1>8, <1>9, <1>10 DEF IInv

LEMMA MainKeeps ==
  ASSUME IInv, GetterOff, Main \/ Killed
  PROVE  IInv'
<1>t. TypeOK /\ Divided /\ Added /\ Smooth  BY DEF IInv
<1>f. fault \in BOOLEAN  BY <1>t DEF TypeOK
<1>1. CASE Divide  BY <1>1, DivideKeeps
<1>2. CASE CreateGetter \/ CreateSender \/ JoinGetter  BY <1>2, SetupKeeps
<1>3. CASE CreateHandler  BY <1>3, CreateKeeps
<1>4. CASE CreateFails  BY <1>4, GiveUpKeeps DEF CreateFails, Disturbed
<1>5. CASE AddPart  BY <1>5, AddKeeps
<1>6. CASE NoPart
  <2>0. UNCHANGED <<setup, part, data, worker, fault>>  BY <1>6 DEF NoPart
  <2>1. Disturbed
    <3>1. joined + 1 \in DOMAIN task  BY <1>t, <1>6, Lengths DEF NoPart
    <3>2. main = "add" /\ handler[joined + 1] = "returned" /\ part[joined + 1] = None
          BY <1>6 DEF NoPart, Returned
    <3> QED  BY <3>1, <3>2, ReturnedPart
  <2>a. Accepted' = Accepted /\ task' = task  BY <2>0 DEF Accepted, setup
  <2>2. CASE Fails("close") /\ CancelHandlers /\ UNCHANGED <<getterVars, conn>>
    <3>1. getter' = getter /\ main = "add"  BY <1>6, <2>2 DEF NoPart, getterVars
    <3>2. Disturbed'  BY <2>0, <2>1, <2>a, <3>1 DEF Disturbed, TimedOut
    <3> QED  BY <1>f, <2>0, <2>2, <3>1, <3>2, GiveUpKeeps
  <2>3. CASE ProcessEnds /\ UNCHANGED <<outcome, result, joined>>
    <3>1. main' = "exited"  BY <2>3 DEF ProcessEnds
    <3>2. Disturbed'  BY <2>0, <2>1, <2>a, <3>1 DEF Disturbed, TimedOut
    <3> QED  BY <1>f, <2>0, <2>3, <3>2, EndKeeps
  <2> QED  BY <1>6, <2>2, <2>3 DEF NoPart
<1>7. CASE AllCreated \/ AllAdded \/ CloseSockets  BY <1>7, MoveKeeps
<1>8. CASE Return
  <2>1. /\ ProcessEnds /\ fault' \in BOOLEAN
        /\ UNCHANGED <<outcome, result, joined, setup, part, data, worker>>
        BY <1>8, <1>f DEF Return
  <2>2. ~Disturbed' /\ Tasked => outcome = "result"
    <3>1. Accepted' = Accepted /\ task' = task /\ fault' = fault /\ main' = "exited"
          BY <1>8 DEF Return, ProcessEnds, Accepted, setup
    <3>2. ~Disturbed' => ~Disturbed  BY <3>1 DEF Disturbed, TimedOut
    <3> QED  BY <1>t, <1>8, <3>2 DEF Return, Smooth, Late
  <2> QED  BY <2>1, <2>2, EndKeeps
<1>9. CASE Killed
  <2>1. ProcessEnds /\ fault' = TRUE
        /\ UNCHANGED <<outcome, result, joined, setup, part, data, worker>>
        BY <1>9 DEF Killed
  <2> QED  BY <2>1, EndKeeps DEF Disturbed
<1> QED  BY <1>1, <1>2, <1>3, <1>4, <1>5, <1>6, <1>7, <1>8, <1>9 DEF Main

LEMMA NextIInv == IInv /\ GetterOff /\ [Next]_vars => IInv'
<1> SUFFICES ASSUME IInv, GetterOff, [Next]_vars PROVE IInv'  OBVIOUS
<1>1. CASE Main \/ Killed  BY <1>1, MainKeeps
<1>2. CASE Getter \/ SenderFails  BY <1>2, ListenerKeeps, AcceptKeeps DEF Getter
<1>3. ASSUME NEW w \in Workers, WHello(w) \/ Worker(w) \/ WorkerFails(w) \/ WorkerDies(w)
      PROVE  IInv'
      BY <1>3, WorkerKeeps
<1>4. ASSUME NEW i \in DOMAIN handler, Handler(i) PROVE IInv'  BY <1>4, HandlerKeeps
<1>5. CASE UNCHANGED vars
  <2>t. TypeOK /\ Divided /\ Sockets /\ Passed /\ Added /\ Smooth  BY DEF IInv
  <2>1. TypeOK'  BY <2>t, <1>5 DEF vars, TypeOK
  <2>2. UNCHANGED setup /\ UNCHANGED <<main, outcome>>  BY <1>5 DEF vars, setup
  <2>3. Divided' /\ Tasked' = Tasked  BY <2>t, <2>2, DividedKept
  <2>4. \A i : Socket(i)' = Socket(i)  BY <1>5 DEF vars, Socket
  <2>5. Sockets'  BY <2>t, <2>4, <1>5 DEF Sockets, vars
  <2>6. Passed'  BY <2>t, <2>4, <1>5 DEF Passed, vars
  <2>7. Added'  BY <2>t, <1>5 DEF Added, vars
  <2>8. \A i : Serves(i)' = Serves(i)  BY <2>4, <1>5 DEF Serves, vars
  <2>9. Smooth'
    <3>1. Late' = Late /\ Early' = Early /\ Accepted' = Accepted
          BY <1>5 DEF vars, Late, Early, Accepted
    <3> QED  BY <2>t, <2>3, <2>8, <3>1, <1>5 DEF Smooth, Disturbed, TimedOut, vars
  <2> QED  BY <2>1, <2>3, <2>5, <2>6, <2>7, <2>9 DEF IInv
<1> QED  BY <1>1, <1>2, <1>3, <1>4, <1>5 DEF Next, Environment

-----------------------------------------------------------------------------
(* Who is to blame for a timeout *)

(* As many workers as there are tasks have tried, and fewer have been accepted: *)
(* one of them has been refused.                                                *)
LEMMA TimeoutBlames ==
  ASSUME IInv, GetterOff, Blamed, AcceptFails, ~fault, ~fault', Tasked
  PROVE  \E w \in Workers : TurnedAway(w)
<1>t. TypeOK /\ Sockets  BY DEF IInv
<1> SUFFICES ASSUME \A w \in Workers : ~TurnedAway(w) PROVE FALSE  OBVIOUS
<1>0. /\ getter = "accept" /\ main # "exited" /\ Accepted # DOMAIN task
      /\ \A w \in Workers : conn[w] # "queued"
      /\ ~(Cardinality(Tried) < Len(task))
      BY DEF AcceptFails, GetterOff
<1> DEFINE S == {Socket(i) : i \in Accepted}
<1>1. Tried \subseteq S
  <2> SUFFICES ASSUME NEW w \in Tried PROVE \E i \in Accepted : Socket(i) = w  OBVIOUS
  <2>0. w \in Workers /\ w # None /\ conn[w] \in {"none", "queued", "accepted", "closed"}
        BY <1>t, NoneAssumption DEF Tried, TypeOK
  <2>1. conn[w] # "none"  BY <2>0 DEF Blamed, Refused, Tried, TurnedAway
  <2>2. conn[w] # "closed"  BY <1>0, <2>0 DEF Blamed
  <2>3. conn[w] = "accepted"  BY <1>0, <2>0, <2>1, <2>2
  <2> QED  BY <2>0, <2>3 DEF Blamed, Accepted, Socket
<1>2. Len(task) \in Nat /\ DOMAIN task = 1 .. Len(task)  BY <1>t, Lengths
<1>3. IsFiniteSet(1 .. Len(task)) /\ Cardinality(1 .. Len(task)) = Len(task)
  <2> DEFINE n == Len(task)
  <2>1. n \in Nat /\ 1 \in Int /\ n \in Int  BY <1>2
  <2> HIDE DEF n
  <2>2. IsFiniteSet(1 .. n) /\ Cardinality(1 .. n) = IF 1 > n THEN 0 ELSE n - 1 + 1
        BY <2>1, FS_Interval
  <2>3. Cardinality(1 .. n) = n  BY <2>1, <2>2
  <2> QED  BY <2>2, <2>3 DEF n
<1>4. IsFiniteSet(Accepted) /\ Cardinality(Accepted) \in Nat /\ Cardinality(Accepted) < Len(task)
  <2>1. Accepted \subseteq 1 .. Len(task) /\ Accepted # 1 .. Len(task)
        BY <1>0, <1>2 DEF Accepted
  <2>2. /\ IsFiniteSet(Accepted) /\ Cardinality(Accepted) <= Len(task)
        /\ Cardinality(Accepted) = Len(task) => Accepted = 1 .. Len(task)
        BY <1>3, <2>1, FS_Subset
  <2>3. Cardinality(Accepted) \in Nat  BY <2>2, FS_CardinalityType
  <2> QED  BY <1>2, <2>1, <2>2, <2>3
<1>5. IsFiniteSet(S) /\ Cardinality(S) <= Cardinality(Accepted)
  <2> DEFINE f == [i \in Accepted |-> Socket(i)]
  <2>1. \A s \in S : \E i \in Accepted : f[i] = s  OBVIOUS
  <2>2. f \in Surjection(Accepted, S)  BY <2>1 DEF Surjection
  <2> HIDE DEF f, S
  <2> QED  BY <1>4, <2>2, FS_Surjection
<1> HIDE DEF S
<1>6. Cardinality(Tried) <= Cardinality(S) /\ IsFiniteSet(Tried)  BY <1>1, <1>5, FS_Subset
<1>7. Cardinality(Tried) \in Nat /\ Cardinality(S) \in Nat  BY <1>5, <1>6, FS_CardinalityType
<1> QED  BY <1>0, <1>2, <1>4, <1>5, <1>6, <1>7

LEMMA WorkerBlames ==
  ASSUME IInv, Blamed, NEW w \in Workers, WHello(w) \/ Worker(w), ~fault', Tasked
  PROVE  Blamed'
<1>t. TypeOK /\ Sockets  BY DEF IInv
<1>0. UNCHANGED <<main, getter, task, n_machines, n_threads>> /\ ~fault
      BY DEF WHello, Worker, WConnect, WReceive, WReceiveFails, WIntegrate, WAnswer, WPing,
             mainVars, setup, getterVars
<1>1. Accepted' = Accepted /\ TimedOut' = TimedOut /\ \A i : Socket(i)' = Socket(i)
      BY <1>0 DEF Accepted, TimedOut, Socket
<1>2. /\ \A v \in Workers : v # w => worker'[v] = worker[v] /\ conn'[v] = conn[v]
      /\ worker[w] # "error"
      /\ conn'[w] = conn[w] \/ conn'[w] = "queued"
      /\ worker'[w] = "connect" \/ worker'[w] = "error" \/ conn'[w] # "none" \/ Refused(w)
      BY <1>t DEF WHello, Worker, WConnect, WReceive, WReceiveFails, WIntegrate, WAnswer, WPing,
                  Goes, TypeOK, Refused
<1>3. \A v \in Workers : Refused(v)' => worker'[v] = "error"
      BY <1>0, <1>2 DEF Blamed, Refused
<1>4. \A v \in Workers : TurnedAway(v) => TurnedAway(v)'
      BY <1>2 DEF TurnedAway
<1> QED  BY <1>0, <1>1, <1>2, <1>3, <1>4 DEF Blamed

LEMMA GetterBlames ==
  ASSUME IInv, GetterOff, Blamed, Getter, ~fault', Tasked
  PROVE  Blamed'
<1>t. TypeOK /\ Sockets  BY DEF IInv
<1>0. /\ UNCHANGED <<main, worker, n_machines, n_threads>> /\ getter # "off" /\ main # "exited"
      /\ ~fault
      BY <1>t DEF Getter, Listen, ListenFails, Accept, AcceptFails, AllAccepted, CloseListener,
                  mainVars, setup, GetterOff, TypeOK
<1>1. CASE Listen \/ AllAccepted \/ CloseListener
  <2>1. UNCHANGED task /\ Accepted' = Accepted /\ \A i : Socket(i)' = Socket(i)
        BY <1>1 DEF Listen, AllAccepted, CloseListener, setup, Accepted, Socket
  <2>2. TimedOut' => TimedOut
        BY <1>0, <1>1, <2>1 DEF Listen, AllAccepted, CloseListener, TimedOut
  <2>3. \A v \in Workers : (conn[v] = "none" <=> conn'[v] = "none")
                            /\ (conn'[v] = "accepted" => conn[v] = "accepted")
        BY <1>1 DEF Listen, AllAccepted, CloseListener
  <2>4. getter' \in {"off", "listen", "accept"} => conn' = conn /\ getter = "listen"
        BY <1>1 DEF Listen, AllAccepted, CloseListener
  <2>5. main \notin {"create", "add", "close", "return"}
        BY <1>0, <1>1 DEF Blamed, Listen, AllAccepted, CloseListener
  <2> QED  BY <1>0, <2>1, <2>2, <2>3, <2>4, <2>5 DEF Blamed, Refused, TurnedAway
<1>2. CASE Accept
  <2>1. PICK i \in DOMAIN task, w \in Workers :
          /\ i \notin Accepted /\ conn[w] = "queued"
          /\ task' = [task EXCEPT ![i].socket = w]
          /\ conn' = [conn EXCEPT ![w] = "accepted"]
        BY <1>2 DEF Accept
  <2>2. getter = "accept" /\ getter' = "accept"  BY <1>2 DEF Accept, getterVars
  <2>3. /\ \A v \in Workers : v # w => conn'[v] = conn[v]
        /\ conn'[w] = "accepted"
        BY <1>t, <2>1 DEF TypeOK
  <2>4. DOMAIN task' = DOMAIN task /\ Socket(i)' = w
        /\ \A j \in DOMAIN task : j # i => Socket(j)' = Socket(j)
    <3> DEFINE T == [w_info : [threads : 1 .. MaxThreads, begin : 0 .. MaxThreads,
                               end : 0 .. MaxThreads],
                     socket : Workers \cup {None}]
    <3>1. task \in Seq(T)  BY <1>t DEF TypeOK
    <3>2. task[i] \in T
      <4> HIDE DEF T
      <4> QED  BY <3>1
    <3>3. [task[i] EXCEPT !.socket = w].socket = w  BY <3>2
    <3>4. task' = [task EXCEPT ![i] = [task[i] EXCEPT !.socket = w]]  BY <2>1
    <3> HIDE DEF T
    <3>5. /\ DOMAIN task' = DOMAIN task /\ task'[i] = [task[i] EXCEPT !.socket = w]
          /\ \A j \in DOMAIN task : j # i => task'[j] = task[j]
          BY <3>1, <3>4
    <3> QED  BY <3>3, <3>5 DEF Socket
  <2>5. \A v \in Workers : conn'[v] = "accepted" => \E j \in DOMAIN task : Socket(j)' = v
    <3> SUFFICES ASSUME NEW v \in Workers, conn'[v] = "accepted", v # w
                 PROVE  \E j \in DOMAIN task : Socket(j)' = v
        BY <2>4
    <3>1. PICK j \in DOMAIN task : Socket(j) = v  BY <1>0, <2>3 DEF Blamed
    <3>2. j # i  BY <2>1, <3>1, NoneAssumption DEF Accepted, Socket
    <3> QED  BY <2>4, <3>1, <3>2
  <2>6. ~TimedOut'  BY <1>0, <2>2 DEF TimedOut
  <2> QED  BY <1>0, <2>2, <2>3, <2>4, <2>5, <2>6 DEF Blamed, Refused
<1>3. CASE AcceptFails
  <2>1. UNCHANGED <<task, worker>> /\ getter = "accept" /\ getter' = "closing"
        BY <1>3 DEF AcceptFails, setup
  <2>2. \A v \in Workers : (conn[v] = "none" <=> conn'[v] = "none")
                            /\ (conn'[v] = "accepted" => conn[v] = "accepted")
        BY <1>3 DEF AcceptFails
  <2>3. PICK w \in Workers : TurnedAway(w)  BY <1>0, <1>3, TimeoutBlames
  <2>4. TurnedAway(w)'  BY <2>1, <2>2, <2>3 DEF TurnedAway
  <2>5. main \notin {"create", "add", "close", "return"}  BY <1>0, <2>1 DEF Blamed
  <2> QED  BY <1>0, <2>1, <2>2, <2>4, <2>5 DEF Blamed, Refused, Socket
<1>4. ~ListenFails  BY DEF ListenFails
<1> QED  BY <1>1, <1>2, <1>3, <1>4 DEF Getter

(* The main thread goes on; it closes sockets only when the getter is done. *)
LEMMA MainBlames ==
  ASSUME IInv, GetterOff, Blamed, Main, ~fault', Tasked
  PROVE  Blamed'
<1>t. TypeOK /\ Sockets  BY DEF IInv
<1>0. UNCHANGED <<n_machines, n_threads, worker>> /\ ~fault
      BY DEF Main, Divide, CreateGetter, CreateSender, JoinGetter, CreateHandler, AllCreated,
             CreateFails, AddPart, NoPart, AllAdded, CloseSockets, Return, setup, Fails
<1>1. CASE Divide
  <2>1. /\ main' = "getter" /\ task' = Division /\ getter' = getter /\ conn' = conn
        /\ getter = "off" /\ main = "divide" /\ task = <<>>
        BY <1>1 DEF Divide, Fails, Tasked, getterVars, GetterOff, IInv, Divided
  <2>2. \A v \in Workers : conn[v] # "accepted"
        BY <1>0, <2>1 DEF Blamed
  <2> QED  BY <1>0, <2>1, <2>2 DEF Blamed, Refused, TimedOut
<1>2. CASE CreateGetter \/ CreateSender \/ JoinGetter
  <2>1. /\ UNCHANGED <<task, conn>> /\ main \in {"getter", "sender", "join"}
        /\ \/ getter' = getter /\ main' \in {"join", "create"}
           \/ getter = "off" /\ getter' = "listen" /\ main' = "sender"
        /\ main' = "create" => getter = "done"
        BY <1>2, <1>t DEF CreateGetter, CreateSender, JoinGetter, GetterOff, setup, Fails
  <2>2. TimedOut' => TimedOut  BY <2>1 DEF TimedOut, Accepted
  <2> QED  BY <1>0, <2>1, <2>2 DEF Blamed, Refused, Socket, TurnedAway
<1>3. CASE CreateHandler \/ AllCreated \/ AddPart \/ AllAdded
  <2>1. /\ UNCHANGED <<task, conn, getter>> /\ main \in {"create", "add"}
        /\ main' \in {"create", "add", "close"}
        BY <1>3 DEF CreateHandler, AllCreated, AddPart, AllAdded, mainVars, setup, getterVars
  <2>2. TimedOut' = TimedOut  BY <2>1 DEF TimedOut, Accepted
  <2> QED  BY <1>0, <2>1, <2>2 DEF Blamed, Refused, Socket, TurnedAway
<1>4. CASE NoPart \/ Return \/ CloseSockets
  <2>1. /\ task' = task /\ main \in {"add", "close", "return"}
        /\ \/ main' = "exited"
           \/ main' \in {"close", "return"} /\ getter' = getter
        BY <1>4 DEF NoPart, Return, CloseSockets, ProcessEnds, Fails, setup, getterVars
  <2>2. getter = "done"  BY <1>0, <2>1 DEF Blamed
  <2>3. \A v \in Workers : (conn[v] = "none" <=> conn'[v] = "none")
                            /\ (conn'[v] = "accepted" => conn[v] = "accepted")
    <3>1. \A i \in DOMAIN task : task[i].socket \in Workers => conn[task[i].socket] # "none"
          BY <1>t, NoneAssumption DEF Sockets, Socket
    <3> QED  BY <1>4, <3>1 DEF NoPart, Return, CloseSockets, ProcessEnds
  <2>4. TimedOut' => TimedOut  BY <2>1, <2>2 DEF TimedOut, Accepted
  <2> QED  BY <1>0, <2>1, <2>2, <2>3, <2>4 DEF Blamed, Refused, Socket, TurnedAway
<1>5. ~CreateFails  BY DEF CreateFails
<1> QED  BY <1>1, <1>2, <1>3, <1>4, <1>5 DEF Main

LEMMA NextBlamed == IInv /\ GetterOff /\ Blamed /\ [Next]_vars => Blamed'
<1> SUFFICES ASSUME IInv, GetterOff, Blamed, [Next]_vars, ~fault', Tasked' PROVE Blamed'
    BY DEF Blamed
<1>1. Tasked
  <2>1. UNCHANGED <<n_machines, n_threads>>
        BY DEF Next, Main, Getter, Environment, Handler, Worker, Divide, CreateGetter, CreateSender,
               JoinGetter, CreateHandler, AllCreated, CreateFails, AddPart, NoPart, AllAdded,
               CloseSockets, Return, Killed, SenderFails, Listen, ListenFails, Accept, AcceptFails,
               AllAccepted, CloseListener, HSend, HSendFails, HNoMemory, HReceive, HReceiveFails,
               WHello, WConnect, WReceive, WReceiveFails, WIntegrate, WAnswer, WPing, WorkerFails,
               WorkerDies, setup, vars
  <2> QED  BY <2>1 DEF Tasked
<1>2. CASE Main  BY <1>1, <1>2, MainBlames
<1>3. CASE Getter  BY <1>1, <1>3, GetterBlames
<1>4. ASSUME NEW w \in Workers, WHello(w) \/ Worker(w) PROVE Blamed'
      BY <1>1, <1>4, WorkerBlames
<1>5. ASSUME NEW w \in Workers, WorkerFails(w) \/ WorkerDies(w) PROVE Blamed'
      BY <1>5 DEF WorkerFails, WorkerDies
<1>6. CASE Killed \/ SenderFails  BY <1>6 DEF Killed, SenderFails
<1>7. ASSUME NEW i \in DOMAIN handler, Handler(i) PROVE Blamed'
  <2>1. UNCHANGED <<main, getter, task, conn, worker, n_machines, n_threads>>
        BY <1>7 DEF Handler, HSend, HSendFails, HNoMemory, HReceive, HReceiveFails, mainVars,
                    setup, getterVars
  <2>2. ~fault  BY <1>7 DEF Handler, HSend, HSendFails, HNoMemory, HReceive, HReceiveFails
  <2> QED  BY <2>1, <2>2 DEF Blamed, Refused, Socket, TurnedAway, TimedOut, Accepted, Tasked
<1>8. CASE UNCHANGED vars
      BY <1>8 DEF vars, Blamed, Refused, Socket, TurnedAway, TimedOut, Accepted, Tasked
<1> QED  BY <1>2, <1>3, <1>4, <1>5, <1>6, <1>7, <1>8 DEF Next, Environment

LEMMA InitOff == Init => GetterOff /\ Blamed
<1> SUFFICES ASSUME Init PROVE GetterOff /\ Blamed  OBVIOUS
<1>1. GetterOff /\ ~TimedOut  BY DEF Init, GetterOff, TimedOut
<1> QED  BY <1>1 DEF Init, Blamed, Refused

LEMMA NextOff == GetterOff /\ [Next]_vars => GetterOff'
<1> SUFFICES ASSUME GetterOff, [Next]_vars PROVE GetterOff'  OBVIOUS
<1>1. CASE Main \/ Killed
      BY <1>1 DEF Main, Killed, ProcessEnds, Divide, CreateGetter, CreateSender, JoinGetter,
                  CreateHandler, AllCreated, CreateFails, AddPart, NoPart, AllAdded, CloseSockets,
                  Return, Fails, mainVars, getterVars, GetterOff
<1>2. CASE Getter \/ SenderFails
      BY <1>2 DEF Getter, SenderFails, Listen, ListenFails, Accept, AcceptFails, AllAccepted,
                  CloseListener, mainVars, getterVars, GetterOff
<1>3. ASSUME NEW w \in Workers, WHello(w) \/ Worker(w) \/ WorkerFails(w) \/ WorkerDies(w)
      PROVE  GetterOff'
      BY <1>3 DEF WHello, Worker, WConnect, WReceive, WReceiveFails, WIntegrate, WAnswer, WPing,
                  WorkerFails, WorkerDies, mainVars, getterVars, GetterOff
<1>4. ASSUME NEW i \in DOMAIN handler, Handler(i) PROVE GetterOff'
      BY <1>4 DEF Handler, HSend, HSendFails, HNoMemory, HReceive, HReceiveFails, mainVars,
                  getterVars, GetterOff
<1>5. CASE UNCHANGED vars  BY <1>5 DEF vars, GetterOff
<1> QED  BY <1>1, <1>2, <1>3, <1>4, <1>5 DEF Next, Environment

LEMMA Inductive == Spec => [](IInv /\ GetterOff /\ Blamed)
BY InitIInv, InitOff, NextIInv, NextOff, NextBlamed, PTL DEF Spec

-----------------------------------------------------------------------------
(* What follows *)

(* The ends of n parts of s units, the last of which ends at t. *)
PartEnds(n, s, t) == [i \in 1 .. n |-> IF i < n THEN i * s ELSE t]

InOnePart(u, n, s, t) ==
  LET ends == PartEnds(n, s, t)
  IN  \E k \in 1 .. n :
        /\ (k - 1) * s <= u /\ u < ends[k]
        /\ \A j \in 1 .. n : j # k => ~((j - 1) * s <= u /\ u < ends[j])

(* A unit is in exactly one of them. *)
LEMMA OnePart ==
  ASSUME NEW n \in Nat, n >= 1, NEW s \in Nat, s >= 1, NEW t \in Nat, NEW u \in 0 .. t - 1
  PROVE  InOnePart(u, n, s, t)
<1> DEFINE ends == PartEnds(n, s, t)
<1>0. \A i \in 1 .. n : ends[i] = IF i < n THEN i * s ELSE t  BY DEF PartEnds
<1> HIDE DEF ends
<1> DEFINE q == u \div s
<1>1. q \in Nat /\ q * s <= u /\ u < (q + 1) * s  OBVIOUS
<1> HIDE DEF q
<1> DEFINE k == IF q + 1 < n THEN q + 1 ELSE n
<1>2. k \in 1 .. n /\ k - 1 \in Nat /\ k - 1 <= q  BY <1>1
<1>3. (k - 1) * s <= q * s /\ (k - 1) * s \in Nat /\ q * s \in Nat  BY <1>1, <1>2, Product
<1>4. (k - 1) * s <= u  BY <1>1, <1>3
<1>5. k < n => u < k * s  BY <1>1
<1>6. u < ends[k]  BY <1>0, <1>2, <1>5
<1> HIDE DEF k
<1>7. ASSUME NEW j \in 1 .. n, j # k PROVE ~((j - 1) * s <= u /\ u < ends[j])
  <2>1. CASE j < k
    <3>1. j * s <= (k - 1) * s /\ j * s \in Nat  BY <1>2, <2>1, Product
    <3>2. ends[j] = j * s  BY <1>0, <1>2, <2>1
    <3> QED  BY <1>3, <1>4, <3>1, <3>2
  <2>2. CASE k < j
    <3>1. k * s <= (j - 1) * s /\ k * s \in Nat /\ (j - 1) * s \in Nat
          BY <1>2, <2>2, Product
    <3>2. u < k * s  BY <1>2, <1>5, <2>2
    <3> QED  BY <3>1, <3>2
  <2> QED  BY <1>2, <1>7, <2>1, <2>2
<1> QED  BY <1>2, <1>4, <1>6, <1>7 DEF InOnePart, ends

(* The types of the server's and the workers' state, which say that no task is *)
(* for fewer threads than one and that there are no more handlers than tasks.  *)
THEOREM TypeCorrect == Spec => []TypeOK
<1>1. IInv => TypeOK  BY DEF IInv
<1> QED  BY <1>1, Inductive, PTL

(* A result that run_server() reports is the integral over the whole interval,   *)
(* each unit of which has been added once, for any number of machines, threads   *)
(* and workers, whichever of them fail.                                          *)
THEOREM Complete == Spec => []ResultIsComplete
<1>1. IInv => ResultIsComplete
  <2> SUFFICES ASSUME IInv, outcome = "result", NEW u \in 0 .. n_threads - 1
               PROVE  \E k \in DOMAIN result :
                        /\ result[k].begin <= u /\ u < result[k].end
                        /\ \A j \in DOMAIN result :
                             j # k => ~(result[j].begin <= u /\ u < result[j].end)
      BY DEF ResultIsComplete
  <2>t. TypeOK /\ Divided /\ Passed /\ Added  BY DEF IInv
  <2>1. n_machines \in Nat /\ n_threads \in Nat  BY <2>t, BoundsAssumption DEF TypeOK
  <2>2. HasTasks /\ joined = Len(task) /\ Len(task) = NWorkers
        BY <2>t DEF Divided, Added, HasTasks
  <2>3. NWorkers \in Nat /\ NWorkers >= 1 /\ Share \in Nat /\ Share >= 1
        BY <2>1, <2>2, Parts DEF HasTasks
  <2>4. DOMAIN result = 1 .. NWorkers /\ DOMAIN task = 1 .. NWorkers
        /\ 1 .. NWorkers \subseteq DOMAIN part
    <3>1. Len(result) = NWorkers /\ DOMAIN result = 1 .. Len(result)
          BY <2>t, <2>2 DEF TypeOK
    <3>2. NWorkers <= Len(part) /\ DOMAIN part = 1 .. Len(part) /\ Len(part) \in Nat
          BY <2>t, <2>2, Lengths DEF Added
    <3>3. DOMAIN task = 1 .. Len(task)  BY <2>t, Lengths
    <3>4. 1 .. NWorkers \subseteq 1 .. Len(part)  BY <2>3, <3>2
    <3> QED  BY <2>2, <3>1, <3>2, <3>3, <3>4
  <2> DEFINE ends == PartEnds(NWorkers, Share, n_threads)
  <2>5. ASSUME NEW i \in 1 .. NWorkers
        PROVE  result[i].begin = (i - 1) * Share /\ result[i].end = ends[i]
    <3>1. result[i] = part[i] /\ part[i] # None  BY <2>t, <2>2 DEF Added
    <3>2. result[i] = Interval(task[i].w_info)  BY <2>t, <2>4, <3>1 DEF Passed
    <3>3. task[i].w_info = Division[i].w_info  BY <2>2, <2>4 DEF HasTasks
    <3> QED  BY <3>2, <3>3 DEF Interval, Division, PartEnds
  <2>6. InOnePart(u, NWorkers, Share, n_threads)
    <3> DEFINE n == NWorkers  s == Share
    <3>1. n \in Nat /\ n >= 1 /\ s \in Nat /\ s >= 1  BY <2>3
    <3> HIDE DEF n, s
    <3>2. InOnePart(u, n, s, n_threads)  BY <2>1, <3>1, OnePart
    <3> QED  BY <3>2 DEF n, s
  <2> HIDE DEF ends
  <2> QED  BY <2>4, <2>5, <2>6 DEF InOnePart, ends
<1> QED  BY <1>1, Inductive, PTL

(* run_server() fails, or the server ends without a result, for a cause: bad     *)
(* arguments, a failure outside the program, or a worker that heard a hello       *)
(* before the server listened, was refused, and was missed when accept() timed    *)
(* out.  No other order in which its threads and the workers take their steps     *)
(* makes it fail.                                                                 *)
THEOREM Justified == Spec => []FailureHasACause
<1>1. IInv /\ Blamed => FailureHasACause
  <2> SUFFICES ASSUME IInv, Blamed, outcome = "failed" \/ (main = "exited" /\ outcome = "none"),
                      ~fault, n_machines # 0, n_threads # 0
               PROVE  Accepted # DOMAIN task /\ \E w \in Workers : TurnedAway(w)
      BY DEF FailureHasACause
  <2>1. Tasked
    <3>1. n_machines \in Nat /\ n_threads \in Nat  BY BoundsAssumption DEF IInv, TypeOK
    <3> QED  BY <3>1 DEF Tasked
  <2>2. TimedOut  BY <2>1 DEF IInv, Smooth, Late, Disturbed
  <2> QED  BY <2>1, <2>2 DEF Blamed, TimedOut
<1> QED  BY <1>1, Inductive, PTL

(* Where nothing outside fails and every task has its worker, the work of one that *)
(* ends with an error, its ping refused, is in the result.                         *)
THEOREM NoneLost == Spec => []NobodysWorkIsLost
<1>1. IInv => NobodysWorkIsLost
  <2> SUFFICES ASSUME IInv, ~fault, Accepted = DOMAIN task, NEW i \in DOMAIN task,
                      worker[task[i].socket] = "error"
               PROVE  i <= joined /\ part[i] # None
      BY DEF NobodysWorkIsLost
  <2>t. TypeOK /\ Divided /\ Added /\ Smooth  BY DEF IInv
  <2>0. ~Disturbed  BY DEF Disturbed, TimedOut
  <2>1. HasTasks /\ i \in 1 .. Len(task) /\ i \in Accepted
        BY <2>t, Lengths DEF Divided
  <2>2. Late
    <3> SUFFICES ASSUME ~Late PROVE FALSE  OBVIOUS
    <3>1. Serves(i)  BY <2>t, <2>0, <2>1 DEF Smooth, HasTasks
    <3>2. i \in DOMAIN handler => handler[i] \in {"send", "select", "returned", "off"}
          BY <2>t DEF TypeOK
    <3> QED  BY <3>1, <3>2 DEF Serves, Socket
  <2>3. joined = Len(task)  BY <2>t, <2>0, <2>1, <2>2 DEF Smooth, Added, HasTasks
  <2>4. i \in 1 .. joined  BY <2>1, <2>3
  <2>5. i <= joined  BY <2>4
  <2> QED  BY <2>t, <2>4, <2>5 DEF Added
<1> QED  BY <1>1, Inductive, PTL
=============================================================================
