------------------------------ MODULE Service ------------------------------
(***************************************************************************)
(* The life of the server in core/se_service.c: SE_start creates the       *)
(* shared object and the listener thread, the listener creates the workers *)
(* and feeds accepted connections through a ring buffer under one mutex    *)
(* and one condition variable, the workers serve them, and SE_stop winds   *)
(* everything down.                                                        *)
(*                                                                         *)
(* Every critical section is one action: all that is read or written       *)
(* between lock and unlock is only ever touched under that mutex (isrun,   *)
(* written without it when soap_bind fails, is a single store).            *)
(* pthread_cond_wait is split in two, because it gives the mutex up.       *)
(***************************************************************************)
EXTENDS Naturals, Sequences, FiniteSets

CONSTANTS Conns,      \* client connections
          Wake,       \* the connection SE_stop makes to its own port
          None,       \* SOAP_INVALID_SOCKET
          Pool,       \* conf->pool
          QueueMax,   \* conf->queue_max
          Failures    \* may allocations, pthread_create, bind, accept fail?

ASSUME ServiceAssumption ==
    /\ Pool \in Nat \ {0}
    /\ QueueMax \in Nat \ {0, 1}
    /\ Wake \notin Conns
    /\ None \notin Conns \cup {Wake}
    /\ Failures \in BOOLEAN

VARIABLES isrun,      \* shared->isrun
          shared,     \* the heap object SE_SHARED: "none", "live" or "freed"
          global,     \* is global_shared set?
          head, tail, queues,   \* SE_QUEUE
          cpc,        \* the main thread, inside SE_start or SE_stop
          attempt,    \* SE_stop's count
          lpc,        \* the listener thread SE_isten
          lsock,      \* master->socket: what soap_accept returned last
          lrun,       \* the listener's own copy of isrun
          made,       \* workers created by SE_workthred_make
          joined,     \* workers passed by the join loop of SE_workthred_free
          wpc,        \* each worker, inside process_queue
          wsock,      \* each worker's tsoap->socket while it serves
          fresh,      \* connections no one has attempted yet
          backlog,    \* connections completed by the kernel, not accepted yet
          bound,      \* is the listening socket open?
          served,     \* connections a worker has served and closed
          alive       \* FALSE once undefined behaviour may have ended the process

queueVars == <<head, tail, queues>>
mainVars  == <<shared, global, cpc, attempt>>
listVars  == <<lpc, lsock, lrun, made, joined>>
workVars  == <<wpc, wsock, served>>
netVars   == <<fresh, backlog, bound>>
vars == <<isrun, queueVars, mainVars, listVars, workVars, netVars, alive>>

Sockets == Conns \cup {Wake}
Workers == 0 .. Pool - 1
Slots   == 0 .. QueueMax - 1
Retries == 3

\* Listener states in which the master socket is served by the accept loop.
Listening == {"accept", "check", "enqueue"}

\* The shapes of the data, and the flags apart from them.
DataOK ==
    /\ shared \in {"none", "live", "freed"}
    /\ head \in Slots /\ tail \in Slots
    /\ queues \in [Slots -> Sockets \cup {None}]
    /\ cpc \in {"start", "publish", "running", "wake", "early", "bcast", "join", "stopped"}
    /\ attempt \in 0 .. Retries
    /\ lpc \in {"none", "entry", "config", "spawn", "bind", "bcast", "join", "exited"}
               \cup Listening
    /\ lsock \in Sockets \cup {None}
    /\ made \in 0 .. Pool /\ joined \in 0 .. Pool
    /\ wpc \in [Workers -> {"none", "void", "idle", "waiting", "woken", "serving", "exited"}]
    /\ wsock \in [Workers -> Sockets \cup {None}]
    /\ fresh \in SUBSET Sockets /\ backlog \in SUBSET Sockets
    /\ served \in SUBSET Sockets

FlagsOK == /\ isrun \in BOOLEAN /\ global \in BOOLEAN /\ lrun \in BOOLEAN
           /\ bound \in BOOLEAN /\ alive \in BOOLEAN

\* Every variable of the server keeps its shape; the ring's indices stay inside
\* the ring and SE_stop's count inside its three attempts.
TypeOK == DataOK /\ FlagsOK

Init ==
    /\ isrun = FALSE /\ shared = "none" /\ global = FALSE
    /\ head = 0 /\ tail = 0 /\ queues = [i \in Slots |-> None]
    /\ cpc = "start" /\ attempt = 0
    /\ lpc = "none" /\ lsock = None /\ lrun = TRUE /\ made = 0 /\ joined = 0
    /\ wpc = [w \in Workers |-> "none"] /\ wsock = [w \in Workers |-> None]
    /\ fresh = Sockets /\ backlog = {} /\ bound = FALSE
    /\ served = {} /\ alive = TRUE

-----------------------------------------------------------------------------
(* The ring and the condition variable. *)

SuccNoWrap(i) == i + 1              \* mutant: the index is never wrapped
Succ(i) == IF i + 1 >= QueueMax THEN 0 ELSE i + 1
Empty   == head = tail
FullNoWrap == tail + 1 = head       \* mutant: the wrap is forgotten in the test
Full    == Succ(tail) = head

\* The slots from head up to, but not including, tail.
Occupied == {i \in Slots : IF head <= tail THEN head <= i /\ i < tail
                                           ELSE head <= i \/ i < tail}
Queued   == {queues[i] : i \in Occupied}
Count    == IF head <= tail THEN tail - head ELSE tail - head + QueueMax

\* The ring read from head to tail, as the sequence it stands for.
Contents == [k \in 1 .. Count |->
               queues[IF head + k - 1 < QueueMax THEN head + k - 1
                                                 ELSE head + k - 1 - QueueMax]]

Waiting == {w \in Workers : wpc[w] = "waiting"}

SignalForgotten == UNCHANGED wpc    \* mutant: enqueue does not signal

\* pthread_cond_signal: one waiting worker, if there is any, becomes runnable.
Signal == \/ Waiting = {} /\ UNCHANGED wpc
          \/ \E w \in Waiting : wpc' = [wpc EXCEPT ![w] = "woken"]

\* pthread_cond_broadcast.
Broadcast == wpc' = [w \in Workers |-> IF w \in Waiting THEN "woken" ELSE wpc[w]]

-----------------------------------------------------------------------------
(* The main thread: SE_start, then, on SIGINT or when SE_start failed,     *)
(* SE_stop.                                                                *)

\* An allocation, the mutex, the condition variable, the database connections
\* or pthread_create failed: SE_start frees what it made and returns false; the
\* SE_stop that follows finds global_shared NULL and returns.
StartFails ==
    /\ Failures /\ cpc = "start"
    /\ shared' = "freed" /\ cpc' = "stopped"
    /\ UNCHANGED <<isrun, global, attempt, queueVars, listVars, workVars, netVars, alive>>

StartListener ==
    /\ cpc = "start"
    /\ shared' = "live" /\ isrun' = TRUE
    /\ lpc' = "entry" /\ cpc' = "publish"
    /\ UNCHANGED <<global, attempt, queueVars, lsock, lrun, made, joined, workVars, netVars, alive>>

\* global_shared is set after the listener thread has been created.
Publish ==
    /\ cpc = "publish"
    /\ global' = TRUE /\ cpc' = "running"
    /\ UNCHANGED <<isrun, shared, attempt, queueVars, listVars, workVars, netVars, alive>>

StopBegins ==
    /\ cpc = "running"
    /\ isrun' = FALSE /\ cpc' = "wake"
    /\ UNCHANGED <<shared, global, attempt, queueVars, listVars, workVars, netVars, alive>>

AfterAttempts == IF attempt' = Retries THEN "early" ELSE "bcast"

\* mutant: no connection is made, the listener stays in accept
WakeCallForgotten ==
    /\ cpc = "wake"
    /\ attempt' = attempt + 1 /\ cpc' = AfterAttempts
    /\ UNCHANGED <<isrun, shared, global, queueVars, listVars, workVars, netVars, alive>>

\* soap_new1 succeeded: json_call connects to the server's own port, which is
\* refused unless the listening socket is open, and the loop ends.
WakeCall ==
    /\ cpc = "wake"
    /\ attempt' = attempt + 1
    /\ backlog' = IF bound THEN backlog \cup {Wake} ELSE backlog
    /\ fresh' = fresh \ {Wake}
    /\ cpc' = AfterAttempts
    /\ UNCHANGED <<isrun, shared, global, queueVars, listVars, workVars, bound, alive>>

WakeNoMemory ==
    /\ Failures /\ cpc = "wake"
    /\ attempt' = attempt + 1
    /\ cpc' = IF attempt' < Retries THEN "wake" ELSE AfterAttempts
    /\ UNCHANGED <<isrun, shared, global, queueVars, listVars, workVars, netVars, alive>>

\* 3 == count: SE_shared_free without waiting for any thread.
StopEarly ==
    /\ cpc = "early"
    /\ shared' = "freed" /\ global' = FALSE /\ cpc' = "stopped"
    /\ UNCHANGED <<isrun, attempt, queueVars, listVars, workVars, netVars, alive>>

StopBroadcast ==
    /\ cpc = "bcast"
    /\ Broadcast /\ cpc' = "join"
    /\ UNCHANGED <<isrun, shared, global, attempt, queueVars, listVars, wsock, served, netVars, alive>>

StopJoin ==
    /\ cpc = "join" /\ lpc = "exited"
    /\ shared' = "freed" /\ global' = FALSE /\ cpc' = "stopped"
    /\ UNCHANGED <<isrun, attempt, queueVars, listVars, workVars, netVars, alive>>

Main == \/ StartFails \/ StartListener \/ Publish \/ StopBegins \/ WakeCall
        \/ WakeNoMemory \/ StopEarly \/ StopBroadcast \/ StopJoin

-----------------------------------------------------------------------------
(* The listener thread: SE_isten. *)

\* The thread reads global_shared and gives up when it is still NULL.
ListenEntry ==
    /\ lpc = "entry"
    /\ lpc' = IF global THEN "config" ELSE "exited"
    /\ UNCHANGED <<isrun, queueVars, mainVars, lsock, lrun, made, joined, workVars, netVars, alive>>

\* The configuration is copied under the mutex, then the soap objects are made.
ListenConfig ==
    /\ lpc = "config" /\ shared = "live"
    /\ lrun' = isrun
    /\ \/ lpc' = "spawn"
       \/ Failures /\ lpc' = "exited"
    /\ UNCHANGED <<isrun, queueVars, mainVars, lsock, made, joined, workVars, netVars, alive>>

SpawnWorker ==
    /\ lpc = "spawn" /\ made < Pool
    /\ wpc' = [wpc EXCEPT ![made] = "idle"]
    /\ made' = made + 1
    /\ lpc' = IF made' = Pool THEN "bind" ELSE "spawn"
    /\ UNCHANGED <<isrun, queueVars, mainVars, lsock, lrun, joined, wsock, served, netVars, alive>>

\* Either the slot could not be allocated ("none") or it was, zeroed, and
\* pthread_create failed ("void"); SE_workthred_free follows.
SpawnFails ==
    /\ Failures /\ lpc = "spawn" /\ made < Pool
    /\ \E slot \in {"none", "void"} : wpc' = [wpc EXCEPT ![made] = slot]
    /\ lpc' = "bcast"
    /\ UNCHANGED <<isrun, queueVars, mainVars, lsock, lrun, made, joined, wsock, served, netVars, alive>>

Bind ==
    /\ lpc = "bind" /\ shared = "live"
    /\ bound' = TRUE
    /\ lpc' = IF lrun THEN "accept" ELSE "bcast"
    /\ UNCHANGED <<isrun, queueVars, mainVars, lsock, lrun, made, joined, workVars, fresh, backlog, alive>>

\* The port is taken: isrun is cleared without the mutex.
BindFails ==
    /\ Failures /\ lpc = "bind" /\ shared = "live"
    /\ isrun' = FALSE /\ lpc' = "bcast"
    /\ UNCHANGED <<queueVars, mainVars, lsock, lrun, made, joined, workVars, netVars, alive>>

Accept ==
    /\ lpc = "accept"
    /\ \E s \in backlog : lsock' = s /\ backlog' = backlog \ {s}
    /\ lpc' = "check"
    /\ UNCHANGED <<isrun, queueVars, mainVars, lrun, made, joined, workVars, fresh, bound, alive>>

AcceptFails ==
    /\ Failures /\ lpc = "accept"
    /\ lsock' = None /\ lpc' = "check"
    /\ UNCHANGED <<isrun, queueVars, mainVars, lrun, made, joined, workVars, netVars, alive>>

\* With no accept_timeout, soap_accept fails only with errnum set: the loop retries.
CheckRun ==
    /\ lpc = "check" /\ shared = "live"
    /\ lrun' = isrun
    /\ \/ ~isrun /\ lpc' = "bcast"
       \/ isrun /\ lsock = None /\ lpc' = "accept"
       \/ isrun /\ lsock # None /\ lpc' = "enqueue"
    /\ UNCHANGED <<isrun, queueVars, mainVars, lsock, made, joined, workVars, netVars, alive>>

\* enqueue returned SOAP_OK.
Enqueue ==
    /\ lpc = "enqueue" /\ shared = "live" /\ ~Full
    /\ queues' = [queues EXCEPT ![tail] = lsock]
    /\ tail' = Succ(tail)
    /\ Signal
    /\ lrun' = isrun
    /\ lpc' = IF isrun THEN "accept" ELSE "bcast"
    /\ UNCHANGED <<isrun, head, mainVars, lsock, made, joined, wsock, served, netVars, alive>>

\* mutant: a connection that finds the ring full is not tried again
EnqueueDrops ==
    /\ lpc = "enqueue" /\ shared = "live" /\ Full
    /\ lrun' = isrun /\ lpc' = IF isrun THEN "accept" ELSE "bcast"
    /\ UNCHANGED <<isrun, queueVars, mainVars, lsock, made, joined, workVars, netVars, alive>>

\* enqueue returned SOAP_EOM and the service is stopping. (While it is running
\* the listener sleeps a millisecond and tries again, which changes nothing.)
EnqueueGivesUp ==
    /\ lpc = "enqueue" /\ shared = "live" /\ Full /\ ~isrun
    /\ lrun' = isrun /\ lpc' = "bcast"
    /\ UNCHANGED <<isrun, queueVars, mainVars, lsock, made, joined, workVars, netVars, alive>>

\* SE_workthred_free: wake the workers, then join them one after the other.
ListenBroadcast ==
    /\ lpc = "bcast" /\ shared = "live"
    /\ Broadcast /\ lpc' = "join"
    /\ UNCHANGED <<isrun, queueVars, mainVars, lsock, lrun, made, joined, wsock, served, netVars, alive>>

\* mutant: the workers are detached instead of joined
DetachWorker ==
    /\ lpc = "join" /\ joined < Pool
    /\ joined' = joined + 1
    /\ UNCHANGED <<isrun, queueVars, mainVars, lpc, lsock, lrun, made, workVars, netVars, alive>>

JoinWorker ==
    /\ lpc = "join" /\ joined < Pool
    /\ wpc[joined] \in {"none", "void", "exited"}
    /\ joined' = joined + 1
    /\ UNCHANGED <<isrun, queueVars, mainVars, lpc, lsock, lrun, made, workVars, netVars, alive>>

\* Joining a pthread_t that pthread_create never filled in is undefined: it can
\* return, as above, or end the process: nothing is sure to happen any more.
JoinVoid ==
    /\ alive /\ lpc = "join" /\ joined < Pool /\ wpc[joined] = "void"
    /\ alive' = FALSE
    /\ UNCHANGED <<isrun, queueVars, mainVars, listVars, workVars, netVars>>

\* SE_soap_free(master) closes the listening socket; the kernel resets what
\* was still in its backlog.
ListenExit ==
    /\ lpc = "join" /\ joined = Pool
    /\ lpc' = "exited" /\ bound' = FALSE /\ backlog' = {}
    /\ UNCHANGED <<isrun, queueVars, mainVars, lsock, lrun, made, joined, workVars, fresh, alive>>

ListenerRuns == \/ ListenEntry \/ ListenConfig \/ SpawnWorker \/ Bind \/ Accept \/ CheckRun
                \/ Enqueue \/ EnqueueGivesUp \/ ListenBroadcast \/ JoinWorker \/ ListenExit
ListenerFails == SpawnFails \/ BindFails \/ AcceptFails \/ JoinVoid
Listener == ListenerRuns \/ ListenerFails

-----------------------------------------------------------------------------
(* The worker threads: process_queue and dequeue. *)

\* mutant: the head is read but not advanced
PeekHead(w) ==
    /\ ~Empty
    /\ wsock' = [wsock EXCEPT ![w] = queues[head]]
    /\ head' = head
    /\ wpc' = [wpc EXCEPT ![w] = "serving"]

\* The part of dequeue after its loop.
TakeHead(w) ==
    /\ ~Empty
    /\ wsock' = [wsock EXCEPT ![w] = queues[head]]
    /\ head' = Succ(head)
    /\ wpc' = [wpc EXCEPT ![w] = "serving"]

\* dequeue is entered with something in the queue: isrun is not looked at.
Dequeue(w) ==
    /\ wpc[w] = "idle" /\ shared = "live"
    /\ TakeHead(w)
    /\ UNCHANGED <<isrun, tail, queues, mainVars, listVars, served, netVars, alive>>

\* dequeue is entered with nothing in the queue, whatever isrun says.
DequeueWaits(w) ==
    /\ wpc[w] = "idle" /\ shared = "live" /\ Empty
    /\ wpc' = [wpc EXCEPT ![w] = "waiting"]
    /\ UNCHANGED <<isrun, queueVars, mainVars, listVars, wsock, served, netVars, alive>>

\* pthread_cond_wait may also return without a signal.
SpuriousWakeup(w) ==
    /\ wpc[w] = "waiting"
    /\ wpc' = [wpc EXCEPT ![w] = "woken"]
    /\ UNCHANGED <<isrun, queueVars, mainVars, listVars, wsock, served, netVars, alive>>

\* Back from pthread_cond_wait with the mutex: isrun first, then the queue.
WokenExits(w) ==
    /\ wpc[w] = "woken" /\ shared = "live" /\ ~isrun
    /\ wpc' = [wpc EXCEPT ![w] = "exited"]
    /\ UNCHANGED <<isrun, queueVars, mainVars, listVars, wsock, served, netVars, alive>>

\* mutant: the wait loop does not test the queue again
WokenWaitsBlindly(w) ==
    /\ wpc[w] = "woken" /\ shared = "live" /\ isrun
    /\ wpc' = [wpc EXCEPT ![w] = "waiting"]
    /\ UNCHANGED <<isrun, queueVars, mainVars, listVars, wsock, served, netVars, alive>>

WokenWaits(w) ==
    /\ wpc[w] = "woken" /\ shared = "live" /\ isrun /\ Empty
    /\ wpc' = [wpc EXCEPT ![w] = "waiting"]
    /\ UNCHANGED <<isrun, queueVars, mainVars, listVars, wsock, served, netVars, alive>>

WokenTakes(w) ==
    /\ wpc[w] = "woken" /\ shared = "live" /\ isrun
    /\ TakeHead(w)
    /\ UNCHANGED <<isrun, tail, queues, mainVars, listVars, served, netVars, alive>>

\* SE_soap_serve, then SE_soap_clear, which closes the connection.
Serve(w) ==
    /\ wpc[w] = "serving"
    /\ served' = served \cup {wsock[w]}
    /\ wsock' = [wsock EXCEPT ![w] = None]
    /\ wpc' = [wpc EXCEPT ![w] = "idle"]
    /\ UNCHANGED <<isrun, queueVars, mainVars, listVars, netVars, alive>>

WorkerStep(w) == \/ Dequeue(w) \/ DequeueWaits(w) \/ WokenExits(w) \/ WokenWaits(w)
                 \/ WokenTakes(w) \/ Serve(w)

-----------------------------------------------------------------------------
(* The surroundings. *)

Connect(s) ==
    /\ bound /\ s \in fresh
    /\ fresh' = fresh \ {s} /\ backlog' = backlog \cup {s}
    /\ UNCHANGED <<isrun, queueVars, mainVars, listVars, workVars, bound, alive>>

\* A thread that goes on after SE_shared_free works on freed memory and a
\* destroyed mutex; a worker calls dequeue(NULL).
UsesShared == \/ lpc \in Listening \cup {"config", "bind", "bcast"}
              \/ \E w \in Workers : wpc[w] \in {"idle", "waiting", "woken"}

UseAfterFree ==
    /\ alive /\ shared = "freed" /\ UsesShared
    /\ alive' = FALSE
    /\ UNCHANGED <<isrun, queueVars, mainVars, listVars, workVars, netVars>>

Next == \/ Main \/ Listener
        \/ \E w \in Workers : WorkerStep(w) \/ SpuriousWakeup(w)
        \/ \E s \in Conns : Connect(s)
        \/ UseAfterFree

Spec == Init /\ [][Next]_vars

\* Every thread keeps running as long as the process does: pthreads are
\* scheduled fairly and the mutex is always given back. No fairness is asked of
\* clients, of the operator who stops the service (StopBegins), of failures (an
\* accept that has no connection waits for ever) or of spurious wakeups.
Fairness ==
    /\ WF_vars(alive /\ (StartListener \/ Publish \/ WakeCall \/ StopEarly
                         \/ StopBroadcast \/ StopJoin))
    /\ WF_vars(alive /\ ListenerRuns)
    /\ \A w \in Workers : WF_vars(alive /\ WorkerStep(w))

FairSpec == Spec /\ Fairness

-----------------------------------------------------------------------------
(* Properties. *)

Accepted == Sockets \ (fresh \cup backlog)
Held     == {wsock[w] : w \in Workers} \ {None}
InHand   == IF lpc \in {"check", "enqueue"} THEN {lsock} \ {None} ELSE {}

\* A connection is in one place at a time: no two slots of the ring, no two
\* workers, no worker and the ring ever hold the same connection, and one that
\* was served is nowhere (enqueue and dequeue never duplicate a socket).
SoleOwner ==
    /\ \A i, j \in Occupied : queues[i] = queues[j] => i = j
    /\ \A v, w \in Workers : wsock[v] = wsock[w] /\ wsock[v] # None => v = w
    /\ Queued \cap (Held \cup served \cup InHand \cup {None}) = {}
    /\ Held \cap (served \cup InHand) = {} /\ served \cap InHand = {}
    /\ (fresh \cup backlog) \cap (Queued \cup Held \cup served \cup InHand) = {}

\* While the service runs, an accepted connection is never forgotten: it is in
\* the listener's hand, in the ring, with a worker, or served, however full the
\* ring has been.
NoneLost ==
    isrun => Accepted \subseteq InHand \cup Queued \cup Held \cup served

\* No missed signal: while the service runs, a connection waiting in the ring
\* has a worker that is not asleep on the condition variable.
NoMissedSignal ==
    isrun /\ ~Empty => \E w \in Workers : wpc[w] \in {"idle", "woken", "serving"}

\* SE_stop's last SE_shared_free, the one after pthread_join, frees the shared
\* object only when the listener and every worker have ended.
FreedAfterJoin ==
    shared = "freed" /\ attempt # Retries =>
        /\ lpc \in {"none", "exited"}
        /\ \A w \in Workers : wpc[w] \in {"none", "void", "exited"}

\* The ring implements the abstract bounded line of connections.
Queue == INSTANCE RequestQueue WITH
    Capacity <- QueueMax - 1, waiting <- Contents, held <- wsock

QueueSpec == Queue!QSpec

\* A client's connection in the ring is eventually served, unless the service stops.
\* (The wake-up connection comes when it stops.)
QueuedServed ==
    \A s \in Conns : s \in Queued ~> (s \in served \/ ~isrun)

\* A service that is listening and whose workers are all inside
\* pthread_cond_wait when SE_stop starts comes to an end: one broadcast is
\* enough for them, and the wake-up connection for the listener.
QuietStop ==
    (/\ cpc = "wake" /\ bound
     /\ \A w \in Workers : wpc[w] \in {"waiting", "woken"}) ~> cpc = "stopped"

\* SE_stop returns once it has been called on a service that is listening:
\* doc/test.md, line 114, "Ctrl+c or Ctrl+\ stops the service".
StopCompletes == (cpc = "wake" /\ lpc = "accept") ~> cpc = "stopped"
-----------------------------------------------------------------------------
(* The inductive invariant that carries the safety properties: what the    *)
(* program counters of the threads say about the rest of the state.        *)

Finished == {"none", "void", "exited"}

\* The main thread: how far SE_start and SE_stop have come.
MainInv ==
    /\ cpc = "start" => lpc = "none" /\ Empty /\ fresh = Sockets
    /\ cpc \in {"start", "publish", "running", "wake"} => Wake \in fresh
    /\ cpc \notin {"publish", "running"} => ~isrun
    /\ cpc \in {"start", "publish", "running"} => attempt = 0
    /\ cpc = "wake" => attempt < Retries
    /\ cpc = "early" => attempt = Retries
    /\ shared = "freed" => cpc = "stopped"

\* The workers are created from 0 up, and joined from 0 up.
PoolInv ==
    /\ lpc \in {"none", "entry", "config"} => made = 0
    /\ lpc \in Listening \cup {"bind"} => made = Pool
    /\ lpc \notin {"join", "exited"} => joined = 0
    /\ \A w \in Workers :
         /\ w < made => wpc[w] \notin {"none", "void"}
         /\ w = made => wpc[w] \in {"none", "void"}
         /\ w > made \/ (w = made /\ lpc \in {"none", "entry", "config", "spawn"})
              => wpc[w] = "none"
         /\ wpc[w] = "serving" <=> wsock[w] # None
         /\ wpc[w] = "exited" => ~isrun /\ cpc # "start"
         /\ w < joined \/ lpc = "exited" => wpc[w] \in Finished

\* The listening socket, its backlog and the listener's copy of isrun.
NetInv ==
    /\ fresh \cap backlog = {}
    /\ bound => lpc \in Listening \cup {"bcast", "join"}
    /\ ~bound => backlog = {}
    /\ bound /\ lpc \in {"bcast", "join"} => ~isrun
    /\ ~lrun => ~isrun /\ cpc # "start"
    /\ lpc = "enqueue" => lsock # None

IInv == TypeOK /\ MainInv /\ PoolInv /\ NetInv /\ SoleOwner
=============================================================================
