--------------------------- MODULE ServiceProofs ---------------------------
(***************************************************************************)
(* Proofs about Service, for every pool size, queue length and set of      *)
(* connections.                                                            *)
(***************************************************************************)
EXTENDS Service, SequenceTheorems, TLAPS

-----------------------------------------------------------------------------
(* The ring. *)

\* What enqueue does to the ring when it is not full: one slot joins the
\* occupied ones, and the slots that were occupied keep their connection.
LEMMA RingEnqueue ==
    ASSUME TypeOK, ~Full, NEW s \in Sockets \cup {None},
           queues' = [queues EXCEPT ![tail] = s], tail' = Succ(tail), head' = head
    PROVE  /\ Occupied' = Occupied \cup {tail} /\ tail \notin Occupied
           /\ queues'[tail] = s /\ \A i \in Occupied : queues'[i] = queues[i]
           /\ Queued' = Queued \cup {s}
           /\ tail' \in Slots /\ ~Empty'
<1> USE ServiceAssumption DEF TypeOK, DataOK, Slots, Full, Succ
<1>1. Occupied' = Occupied \cup {tail} /\ tail \notin Occupied
  BY DEF Occupied
<1>2. queues'[tail] = s /\ \A i \in Occupied : queues'[i] = queues[i]
  BY <1>1 DEF Occupied
<1>3. Queued' = Queued \cup {s}
  BY <1>1, <1>2 DEF Queued
<1>4. tail' \in Slots /\ ~Empty'
  BY DEF Empty
<1>5. QED BY <1>1, <1>2, <1>3, <1>4

\* What dequeue does to the ring when it is not empty: the slot at head leaves
\* the occupied ones.
LEMMA RingDequeue ==
    ASSUME TypeOK, ~Empty, UNCHANGED <<tail, queues>>, head' = Succ(head)
    PROVE  /\ head \in Occupied /\ Occupied' = Occupied \ {head}
           /\ head' \in Slots
<1> USE ServiceAssumption DEF TypeOK, DataOK, Slots, Empty, Succ
<1>1. head \in Occupied /\ Occupied' = Occupied \ {head}
  BY DEF Occupied
<1>2. head' \in Slots
  OBVIOUS
<1>3. QED BY <1>1, <1>2
-----------------------------------------------------------------------------
(* The initial state. *)

LEMMA InitIInv == Init => IInv
<1> USE ServiceAssumption DEF Init, Sockets, Workers, Slots, Retries
<1>1. Init => DataOK
  BY DEF DataOK
<1>2. Init => FlagsOK
  BY Zenon DEF FlagsOK
<1>3. Init => MainInv
  BY DEF MainInv, Empty
<1>4. Init => PoolInv
  BY DEF PoolInv, Listening, Finished
<1>5. Init => NetInv
  BY DEF NetInv
<1>6. Init => SoleOwner
  BY DEF SoleOwner, Occupied, Queued, Held, InHand
<1>7. QED BY <1>1, <1>2, <1>3, <1>4, <1>5, <1>6 DEF IInv, TypeOK

-----------------------------------------------------------------------------
(* Type correctness. MainInv bounds SE_stop's count; PoolInv says that a   *)
(* worker that serves has a connection, so that served stays a set of them. *)

LEMMA FlagsStep == FlagsOK /\ [Next]_vars => FlagsOK'
<1> SUFFICES ASSUME FlagsOK, [Next]_vars PROVE FlagsOK'
  OBVIOUS
<1> USE DEF FlagsOK, mainVars, listVars, netVars
<1>1. CASE Main
  BY <1>1, Zenon DEF Main, StartFails, StartListener, Publish, StopBegins, WakeCall,
     WakeNoMemory, StopEarly, StopBroadcast, StopJoin
<1>2. CASE Listener
  BY <1>2, Zenon DEF
       Listener, ListenerRuns, ListenerFails, ListenEntry, ListenConfig, SpawnWorker, SpawnFails,
     Bind, BindFails, Accept, AcceptFails, CheckRun, Enqueue, EnqueueGivesUp,
     ListenBroadcast, JoinWorker, JoinVoid, ListenExit
<1>3. ASSUME NEW w \in Workers, WorkerStep(w) \/ SpuriousWakeup(w) PROVE FlagsOK'
  BY <1>3, Zenon DEF WorkerStep, SpuriousWakeup, Dequeue, DequeueWaits, WokenExits,
     WokenWaits, WokenTakes, Serve
<1>4. ASSUME NEW s \in Conns, Connect(s) PROVE FlagsOK'
  BY <1>4, Zenon DEF Connect
<1>5. CASE UseAfterFree
  BY <1>5, Zenon DEF UseAfterFree
<1>6. CASE UNCHANGED vars
  BY <1>6, Zenon DEF vars
<1>7. QED BY <1>1, <1>2, <1>3, <1>4, <1>5, <1>6, Zenon DEF Next

LEMMA DataStep == DataOK /\ MainInv /\ PoolInv /\ [Next]_vars => DataOK'
<1> SUFFICES ASSUME DataOK, MainInv, PoolInv, [Next]_vars PROVE DataOK'
  OBVIOUS
<1> USE ServiceAssumption
    DEF DataOK, queueVars, mainVars, listVars, workVars, netVars
<1>1. CASE Main
  <2>1. CASE StartFails \/ StartListener \/ Publish \/ StopBegins \/ StopEarly \/ StopJoin
    BY <2>1 DEF StartFails, StartListener, Publish, StopBegins, StopEarly, StopJoin
  <2>2. CASE WakeCall \/ WakeNoMemory
    BY <2>2 DEF WakeCall, WakeNoMemory, AfterAttempts, Retries, MainInv, Sockets
  <2>3. CASE StopBroadcast
    BY <2>3 DEF StopBroadcast, Broadcast, Waiting
  <2>4. QED BY <1>1, <2>1, <2>2, <2>3 DEF Main
<1>2. CASE Listener
  <2>1. CASE SpawnWorker \/ SpawnFails
    BY <2>1 DEF SpawnWorker, SpawnFails, Workers
  <2>2. CASE Enqueue
    BY <2>2 DEF Enqueue, Signal, Waiting, Listening, Succ, Slots
  <2>3. CASE ListenBroadcast
    BY <2>3 DEF ListenBroadcast, Broadcast, Waiting
  <2>4. CASE \/ ListenEntry \/ ListenConfig \/ Bind \/ BindFails \/ Accept
             \/ AcceptFails \/ CheckRun \/ EnqueueGivesUp
    BY <2>4 DEF ListenEntry, ListenConfig, Bind, BindFails, Accept, AcceptFails,
       CheckRun, EnqueueGivesUp, Listening
  <2>5. CASE JoinWorker \/ JoinVoid \/ ListenExit
    BY <2>5 DEF JoinWorker, JoinVoid, ListenExit
  <2>6. QED BY <1>2, <2>1, <2>2, <2>3, <2>4, <2>5 DEF Listener, ListenerRuns, ListenerFails
<1>3. ASSUME NEW w \in Workers, WorkerStep(w) \/ SpuriousWakeup(w) PROVE DataOK'
  <2>1. CASE Dequeue(w) \/ WokenTakes(w)
    <3>1. head' \in Slots
      BY <2>1 DEF Dequeue, WokenTakes, TakeHead, Succ, Slots
    <3>2. queues[head] \in Sockets \cup {None}
      OBVIOUS
    <3>3. QED BY <2>1, <3>1, <3>2 DEF Dequeue, WokenTakes, TakeHead
  <2>2. CASE Serve(w)
    BY <2>2 DEF Serve, PoolInv
  <2>3. CASE DequeueWaits(w) \/ WokenExits(w) \/ WokenWaits(w) \/ SpuriousWakeup(w)
    BY <2>3 DEF DequeueWaits, WokenExits, WokenWaits, SpuriousWakeup
  <2>4. QED BY <1>3, <2>1, <2>2, <2>3 DEF WorkerStep
<1>4. ASSUME NEW s \in Conns, Connect(s) PROVE DataOK'
  BY <1>4 DEF Connect, Sockets
<1>5. CASE UseAfterFree
  BY <1>5 DEF UseAfterFree
<1>6. CASE UNCHANGED vars
  BY <1>6 DEF vars
<1>7. QED BY <1>1, <1>2, <1>3, <1>4, <1>5, <1>6 DEF Next

-----------------------------------------------------------------------------
(* What the program counters say. *)

LEMMA MainStep == IInv /\ [Next]_vars => MainInv'
<1> SUFFICES ASSUME IInv, [Next]_vars PROVE MainInv'
  OBVIOUS
<1> USE ServiceAssumption
    DEF IInv, MainInv, queueVars, mainVars, listVars, workVars, netVars
<1>1. CASE Main
  <2>1. CASE StartFails \/ StopEarly \/ StopBroadcast \/ StopJoin
    BY <2>1 DEF StartFails, StopEarly, StopBroadcast, StopJoin
  <2>2. CASE StartListener \/ Publish \/ StopBegins
    BY <2>2 DEF StartListener, Publish, StopBegins, Retries
  <2>3. CASE WakeCall \/ WakeNoMemory
    <3>1. attempt \in Nat /\ attempt < 3
      BY <2>3 DEF WakeCall, WakeNoMemory, TypeOK, DataOK, Retries
    <3>2. QED BY <2>3, <3>1 DEF WakeCall, WakeNoMemory, AfterAttempts, Retries
  <2>4. QED BY <1>1, <2>1, <2>2, <2>3 DEF Main
<1>2. CASE Listener
  <2>1. UNCHANGED <<mainVars, fresh>> /\ lpc # "none" /\ (~isrun => ~isrun')
    BY <1>2 DEF
         Listener, ListenerRuns, ListenerFails, ListenEntry, ListenConfig, SpawnWorker, SpawnFails, Bind,
       BindFails, Accept, AcceptFails, CheckRun, Enqueue, EnqueueGivesUp,
       ListenBroadcast, JoinWorker, JoinVoid, ListenExit
  <2>2. QED BY <2>1
<1>3. ASSUME NEW w \in Workers, WorkerStep(w) \/ SpuriousWakeup(w) PROVE MainInv'
  BY <1>3 DEF WorkerStep, SpuriousWakeup, Dequeue, DequeueWaits, WokenExits,
     WokenWaits, WokenTakes, Serve, TakeHead, Empty, PoolInv
<1>4. ASSUME NEW s \in Conns, Connect(s) PROVE MainInv'
  BY <1>4 DEF Connect, Empty, NetInv, Listening
<1>5. CASE UseAfterFree
  BY <1>5 DEF UseAfterFree, Empty
<1>6. CASE UNCHANGED vars
  BY <1>6 DEF vars, Empty
<1>7. QED BY <1>1, <1>2, <1>3, <1>4, <1>5, <1>6 DEF Next

LEMMA NetStep == IInv /\ [Next]_vars => NetInv'
<1> SUFFICES ASSUME IInv, [Next]_vars PROVE NetInv'
  OBVIOUS
<1> USE ServiceAssumption
    DEF IInv, NetInv, queueVars, mainVars, listVars, workVars, netVars, Listening
<1>1. CASE Main
  BY <1>1 DEF Main, StartFails, StartListener, Publish, StopBegins, WakeCall,
     WakeNoMemory, StopEarly, StopBroadcast, StopJoin, AfterAttempts, MainInv
<1>2. CASE Listener
  BY <1>2 DEF
       Listener, ListenerRuns, ListenerFails, ListenEntry, ListenConfig, SpawnWorker, SpawnFails, Bind,
     BindFails, Accept, AcceptFails, CheckRun, Enqueue, EnqueueGivesUp,
     ListenBroadcast, JoinWorker, JoinVoid, ListenExit, MainInv, TypeOK, DataOK
<1>3. ASSUME NEW w \in Workers, WorkerStep(w) \/ SpuriousWakeup(w) PROVE NetInv'
  BY <1>3 DEF WorkerStep, SpuriousWakeup, Dequeue, DequeueWaits, WokenExits,
     WokenWaits, WokenTakes, Serve
<1>4. ASSUME NEW s \in Conns, Connect(s) PROVE NetInv'
  BY <1>4 DEF Connect
<1>5. CASE UseAfterFree
  BY <1>5 DEF UseAfterFree
<1>6. CASE UNCHANGED vars
  BY <1>6 DEF vars
<1>7. QED BY <1>1, <1>2, <1>3, <1>4, <1>5, <1>6 DEF Next

\* Which steps touch the workers' program counters and the counters of the
\* listener's two loops over them.
LEMMA PoolStep == IInv /\ [Next]_vars => PoolInv'
<1> SUFFICES ASSUME IInv, [Next]_vars PROVE PoolInv'
  OBVIOUS
<1> USE ServiceAssumption
    DEF IInv, TypeOK, DataOK, PoolInv, queueVars, mainVars, listVars, workVars,
        netVars, Listening, Finished, Workers
<1>1. CASE Main
  <2>1. CASE \/ StartFails \/ Publish \/ StopBegins \/ StopEarly \/ StopJoin
             \/ WakeCall \/ WakeNoMemory
    BY <2>1 DEF StartFails, Publish, StopBegins, StopEarly, StopJoin, WakeCall,
       WakeNoMemory, AfterAttempts
  <2>2. CASE StartListener
    BY <2>2 DEF StartListener, MainInv
  <2>3. CASE StopBroadcast
    BY <2>3 DEF StopBroadcast, Broadcast, Waiting
  <2>4. QED BY <1>1, <2>1, <2>2, <2>3 DEF Main
<1>2. CASE Listener
  <2>1. CASE SpawnWorker
    BY <2>1 DEF SpawnWorker
  <2>2. CASE SpawnFails
    BY <2>2 DEF SpawnFails
  <2>3. CASE Enqueue
    BY <2>3 DEF Enqueue, Signal, Waiting
  <2>4. CASE ListenBroadcast
    BY <2>4 DEF ListenBroadcast, Broadcast, Waiting
  <2>5. CASE \/ ListenEntry \/ ListenConfig \/ Bind \/ BindFails \/ Accept
             \/ AcceptFails \/ CheckRun \/ EnqueueGivesUp
    BY <2>5 DEF ListenEntry, ListenConfig, Bind, BindFails, Accept, AcceptFails,
       CheckRun, EnqueueGivesUp
  <2>6. CASE JoinWorker \/ JoinVoid \/ ListenExit
    BY <2>6 DEF JoinWorker, JoinVoid, ListenExit
  <2>7. QED BY <1>2, <2>1, <2>2, <2>3, <2>4, <2>5, <2>6 DEF Listener, ListenerRuns, ListenerFails
<1>3. ASSUME NEW w \in Workers, WorkerStep(w) \/ SpuriousWakeup(w) PROVE PoolInv'
  <2>1. CASE Dequeue(w) \/ WokenTakes(w)
    <3>1. queues[head] # None
      <4>1. head \in Occupied
        BY <2>1 DEF Dequeue, WokenTakes, TakeHead, Occupied, Empty, Slots
      <4>2. QED BY <4>1 DEF SoleOwner, Queued
    <3>2. QED BY <2>1, <3>1 DEF Dequeue, WokenTakes, TakeHead
  <2>2. CASE Serve(w)
    BY <2>2 DEF Serve
  <2>3. CASE DequeueWaits(w) \/ WokenExits(w) \/ WokenWaits(w) \/ SpuriousWakeup(w)
    BY <2>3 DEF DequeueWaits, WokenExits, WokenWaits, SpuriousWakeup, MainInv
  <2>4. QED BY <1>3, <2>1, <2>2, <2>3 DEF WorkerStep
<1>4. ASSUME NEW s \in Conns, Connect(s) PROVE PoolInv'
  BY <1>4 DEF Connect
<1>5. CASE UseAfterFree
  BY <1>5 DEF UseAfterFree
<1>6. CASE UNCHANGED vars
  BY <1>6 DEF vars
<1>7. QED BY <1>1, <1>2, <1>3, <1>4, <1>5, <1>6 DEF Next
-----------------------------------------------------------------------------
(* Connections are in one place at a time, and none is forgotten.          *)

\* A step that moves no connection: the ring, the workers' sockets and served
\* stay; the listener's hand and the network lose nothing while the service runs
\* and gain nothing ever.
Still ==
    /\ UNCHANGED <<head, tail, queues, wsock, served>>
    /\ InHand' \subseteq InHand
    /\ (fresh \cup backlog)' \subseteq fresh \cup backlog
    /\ isrun' => /\ isrun
                 /\ InHand \subseteq InHand'
                 /\ fresh \cup backlog \subseteq (fresh \cup backlog)'

\* Only these steps move a connection.
LEMMA Moves ==
    ASSUME IInv, [Next]_vars
    PROVE  \/ StartListener \/ Accept \/ Enqueue \/ Still
           \/ \E w \in Workers : Dequeue(w) \/ WokenTakes(w) \/ Serve(w)
<1> USE ServiceAssumption
    DEF IInv, queueVars, mainVars, listVars, workVars, netVars, Still, InHand
<1>1. CASE Main
  BY <1>1 DEF Main, StartFails, Publish, StopBegins, WakeCall, WakeNoMemory,
     StopEarly, StopBroadcast, StopJoin, MainInv
<1>2. CASE Listener
  BY <1>2 DEF
       Listener, ListenerRuns, ListenerFails, ListenEntry, ListenConfig, SpawnWorker, SpawnFails, Bind,
     BindFails, AcceptFails, CheckRun, EnqueueGivesUp, ListenBroadcast, JoinWorker,
     JoinVoid, ListenExit, NetInv
<1>3. ASSUME NEW w \in Workers, WorkerStep(w) \/ SpuriousWakeup(w)
      PROVE  Still \/ Dequeue(w) \/ WokenTakes(w) \/ Serve(w)
  BY <1>3 DEF WorkerStep, DequeueWaits, WokenExits, WokenWaits, SpuriousWakeup
<1>4. ASSUME NEW s \in Conns, Connect(s) PROVE Still
  BY <1>4 DEF Connect
<1>5. CASE UseAfterFree \/ UNCHANGED vars
  BY <1>5 DEF UseAfterFree, vars
<1>6. QED BY <1>1, <1>2, <1>3, <1>4, <1>5 DEF Next

LEMMA StillPlaces ==
    ASSUME UNCHANGED <<head, tail, queues, wsock>>
    PROVE  Occupied' = Occupied /\ Queued' = Queued /\ Held' = Held
BY DEF Occupied, Queued, Held

\* Accept: from the backlog to the listener's hand.
LEMMA AcceptMoves ==
    ASSUME IInv, Accept
    PROVE  /\ UNCHANGED <<head, tail, queues, wsock, served, fresh, isrun>>
           /\ lpc = "accept" /\ InHand = {}
           /\ \E s \in backlog : InHand' = {s} /\ backlog' = backlog \ {s}
BY ServiceAssumption DEF Accept, InHand, queueVars, mainVars, workVars, IInv, TypeOK,
   DataOK, Sockets

\* Enqueue: from the listener's hand to the ring.
LEMMA EnqueueMoves ==
    ASSUME IInv, Enqueue
    PROVE  /\ InHand = {lsock} /\ InHand' = {} /\ lsock # None
           /\ UNCHANGED <<wsock, served, fresh, backlog, isrun>> /\ Held' = Held
           /\ Occupied' = Occupied \cup {tail} /\ tail \notin Occupied
           /\ queues'[tail] = lsock /\ \A i \in Occupied : queues'[i] = queues[i]
           /\ Queued' = Queued \cup {lsock}
<1>1. /\ ~Full /\ lsock \in Sockets /\ lsock # None
      /\ InHand = {lsock} /\ InHand' = {}
      /\ UNCHANGED <<head, wsock, served, fresh, backlog, isrun>>
      /\ queues' = [queues EXCEPT ![tail] = lsock] /\ tail' = Succ(tail)
  BY DEF IInv, Enqueue, NetInv, TypeOK, DataOK, InHand, mainVars, netVars
<1>2. /\ Occupied' = Occupied \cup {tail} /\ tail \notin Occupied
      /\ queues'[tail] = lsock /\ \A i \in Occupied : queues'[i] = queues[i]
      /\ Queued' = Queued \cup {lsock}
  BY <1>1, RingEnqueue DEF IInv
<1>3. Held' = Held
  BY <1>1 DEF Held
<1>4. QED BY <1>1, <1>2, <1>3

\* Dequeue: from the ring to a worker that held nothing.
LEMMA DequeueMoves ==
    ASSUME IInv, NEW w \in Workers, Dequeue(w) \/ WokenTakes(w)
    PROVE  /\ UNCHANGED <<queues, served, fresh, backlog, isrun>> /\ InHand' = InHand
           /\ queues[head] \in Queued /\ queues[head] # None
           /\ Occupied' \subseteq Occupied
           /\ Queued' = Queued \ {queues[head]}
           /\ wsock[w] = None /\ wsock' = [wsock EXCEPT ![w] = queues[head]]
           /\ Held' = Held \cup {queues[head]}
<1> USE DEF IInv, mainVars, listVars, netVars
<1>1. /\ ~Empty /\ wsock[w] = None /\ head' = Succ(head)
      /\ wsock' = [wsock EXCEPT ![w] = queues[head]]
      /\ UNCHANGED <<tail, queues, served, fresh, backlog, lpc, lsock, isrun>>
  BY DEF Dequeue, WokenTakes, TakeHead, PoolInv
<1>2. head \in Occupied /\ Occupied' = Occupied \ {head}
  BY <1>1, RingDequeue
<1>3. Queued' = Queued \ {queues[head]} /\ queues[head] \in Queued
  BY <1>1, <1>2 DEF Queued, SoleOwner
<1>4. queues[head] # None
  BY <1>3 DEF SoleOwner
<1>5. Held' = Held \cup {queues[head]}
  BY <1>1, <1>4 DEF Held, TypeOK, DataOK
<1>6. InHand' = InHand
  BY <1>1 DEF InHand
<1>7. QED BY <1>1, <1>2, <1>3, <1>4, <1>5, <1>6

\* Serve: from a worker to served.
LEMMA ServeMoves ==
    ASSUME IInv, NEW w \in Workers, Serve(w)
    PROVE  /\ UNCHANGED <<queues, fresh, backlog, isrun>> /\ InHand' = InHand
           /\ Occupied' = Occupied /\ Queued' = Queued
           /\ wsock[w] \in Held /\ wsock' = [wsock EXCEPT ![w] = None]
           /\ Held' = Held \ {wsock[w]} /\ served' = served \cup {wsock[w]}
<1> USE DEF IInv, queueVars, mainVars, listVars, netVars
<1>1. /\ wsock[w] # None /\ served' = served \cup {wsock[w]}
      /\ wsock' = [wsock EXCEPT ![w] = None]
      /\ UNCHANGED <<head, tail, queues, fresh, backlog, lpc, lsock, isrun>>
  BY DEF Serve, PoolInv
<1>2. Occupied' = Occupied /\ Queued' = Queued /\ InHand' = InHand
  BY <1>1 DEF Occupied, Queued, InHand
<1>3. Held' = Held \ {wsock[w]} /\ wsock[w] \in Held
  BY <1>1 DEF Held, SoleOwner, TypeOK, DataOK
<1>4. QED BY <1>1, <1>2, <1>3

LEMMA OwnerStep == IInv /\ [Next]_vars => SoleOwner'
<1> SUFFICES ASSUME IInv, [Next]_vars PROVE SoleOwner'
  OBVIOUS
<1> SoleOwner /\ fresh \cap backlog = {} /\ wsock \in [Workers -> Sockets \cup {None}]
  BY DEF IInv, NetInv, TypeOK, DataOK
<1>1. CASE StartListener \/ Still
  <2>1. /\ UNCHANGED <<head, tail, queues, wsock, served>> /\ InHand' \subseteq InHand
        /\ (fresh \cup backlog)' \subseteq fresh \cup backlog
    BY <1>1 DEF StartListener, Still, InHand, queueVars, workVars, netVars
  <2>2. QED BY <2>1, StillPlaces DEF SoleOwner
<1>2. CASE Accept
  BY <1>2, AcceptMoves, StillPlaces DEF SoleOwner
<1>3. CASE Enqueue
  <2>1. lsock \in InHand
    BY <1>3, EnqueueMoves
  <2>2. lsock \notin Queued \cup Held \cup served \cup fresh \cup backlog
    BY <2>1 DEF SoleOwner
  <2>3. \A i \in Occupied : queues[i] # lsock
    BY <2>2 DEF Queued
  <2>4. \A i, j \in Occupied' : queues'[i] = queues'[j] => i = j
    BY <1>3, <2>3, EnqueueMoves DEF SoleOwner
  <2>5. QED BY <1>3, <2>2, <2>4, EnqueueMoves DEF SoleOwner
<1>4. ASSUME NEW w \in Workers, Dequeue(w) \/ WokenTakes(w) PROVE SoleOwner'
  <2>1. queues[head] \notin Held \cup served \cup InHand \cup fresh \cup backlog
    BY <1>4, DequeueMoves DEF SoleOwner
  <2>2. \A v \in Workers : wsock[v] # queues[head]
    BY <1>4, <2>1, DequeueMoves DEF Held
  <2>3. \A u, v \in Workers : wsock'[u] = wsock'[v] /\ wsock'[u] # None => u = v
    BY <1>4, <2>2, DequeueMoves DEF SoleOwner
  <2>4. \A i, j \in Occupied' : queues'[i] = queues'[j] => i = j
    BY <1>4, DequeueMoves DEF SoleOwner
  <2>5. QED BY <1>4, <2>1, <2>3, <2>4, DequeueMoves DEF SoleOwner
<1>5. ASSUME NEW w \in Workers, Serve(w) PROVE SoleOwner'
  <2>1. \A u, v \in Workers : wsock'[u] = wsock'[v] /\ wsock'[u] # None => u = v
    BY <1>5, ServeMoves DEF SoleOwner
  <2>2. QED BY <1>5, <2>1, ServeMoves DEF SoleOwner
<1>6. QED BY <1>1, <1>2, <1>3, <1>4, <1>5, Moves

LEMMA LostStep == IInv /\ NoneLost /\ [Next]_vars => NoneLost'
<1> SUFFICES ASSUME IInv, NoneLost, [Next]_vars, isrun'
             PROVE  Accepted' \subseteq (InHand \cup Queued \cup Held \cup served)'
  BY DEF NoneLost
<1>1. CASE StartListener
  BY <1>1 DEF StartListener, netVars, IInv, MainInv, Accepted
<1>2. CASE Still
  BY <1>2, StillPlaces DEF Still, NoneLost, Accepted
<1>3. CASE Accept
  BY <1>3, AcceptMoves, StillPlaces DEF NoneLost, Accepted
<1>4. CASE Enqueue
  BY <1>4, EnqueueMoves DEF NoneLost, Accepted
<1>5. ASSUME NEW w \in Workers, Dequeue(w) \/ WokenTakes(w)
      PROVE  Accepted' \subseteq (InHand \cup Queued \cup Held \cup served)'
  BY <1>5, DequeueMoves DEF NoneLost, Accepted
<1>6. ASSUME NEW w \in Workers, Serve(w)
      PROVE  Accepted' \subseteq (InHand \cup Queued \cup Held \cup served)'
  BY <1>6, ServeMoves DEF NoneLost, Accepted
<1>7. QED BY <1>1, <1>2, <1>3, <1>4, <1>5, <1>6, Moves

-----------------------------------------------------------------------------
(* Signals and the final SE_shared_free.                                   *)

LEMMA SignalStep == IInv /\ NoMissedSignal /\ [Next]_vars => NoMissedSignal'
<1> SUFFICES ASSUME IInv, NoMissedSignal, [Next]_vars, isrun', ~Empty'
             PROVE  \E w \in Workers : wpc'[w] \in {"idle", "woken", "serving"}
  BY DEF NoMissedSignal
<1> USE ServiceAssumption
    DEF IInv, TypeOK, DataOK, queueVars, mainVars, listVars, workVars, netVars
<1>1. CASE Enqueue
  <2>1. CASE \E w \in Waiting : wpc' = [wpc EXCEPT ![w] = "woken"]
    BY <2>1 DEF Waiting
  <2>2. CASE Waiting = {} /\ wpc' = wpc
    <3>1. made = Pool /\ isrun /\ 0 \in Workers
      BY <1>1 DEF Enqueue, PoolInv, Listening, Workers
    <3>2. wpc[0] \notin {"none", "void", "exited", "waiting"}
      BY <2>2, <3>1 DEF PoolInv, Waiting
    <3>3. QED BY <2>2, <3>1, <3>2
  <2>3. QED BY <1>1, <2>1, <2>2 DEF Enqueue, Signal
<1>2. CASE \E w \in Workers : WorkerStep(w)
  BY <1>2 DEF WorkerStep, Dequeue, DequeueWaits, WokenExits, WokenWaits, WokenTakes,
     Serve, TakeHead, Empty
<1>3. CASE ~Enqueue /\ ~\E w \in Workers : WorkerStep(w)
  <2>1. \E w \in Workers : wpc[w] \in {"idle", "woken", "serving"}
    <3>1. isrun /\ ~Empty
      BY <1>3 DEF Next, vars, Main, StartFails, StartListener, Publish, StopBegins,
         WakeCall, WakeNoMemory, StopEarly, StopBroadcast, StopJoin,
         Listener, ListenerRuns, ListenerFails,
         ListenEntry, ListenConfig, SpawnWorker, SpawnFails, Bind, BindFails, Accept,
         AcceptFails, CheckRun, EnqueueGivesUp, ListenBroadcast, JoinWorker, JoinVoid,
         ListenExit, SpuriousWakeup, Connect, UseAfterFree, Empty, MainInv
    <3>2. QED BY <3>1 DEF NoMissedSignal
  <2>2. PICK w \in Workers : wpc[w] \in {"idle", "woken", "serving"}
    BY <2>1
  <2>3. wpc'[w] = wpc[w]
    <3>1. CASE SpawnWorker \/ SpawnFails
      BY <2>2, <3>1 DEF SpawnWorker, SpawnFails, PoolInv, Workers
    <3>2. CASE StopBroadcast \/ ListenBroadcast
      BY <2>2, <3>2 DEF StopBroadcast, ListenBroadcast, Broadcast, Waiting
    <3>3. ASSUME NEW v \in Workers, SpuriousWakeup(v) PROVE wpc'[w] = wpc[w]
      BY <2>2, <3>3 DEF SpuriousWakeup
    <3>4. QED BY <1>3, <3>1, <3>2, <3>3 DEF Next, vars, Main, StartFails, StartListener,
         Publish, StopBegins, WakeCall, WakeNoMemory, StopEarly, StopJoin,
         Listener, ListenerRuns, ListenerFails,
         ListenEntry, ListenConfig, Bind, BindFails, Accept, AcceptFails, CheckRun,
         EnqueueGivesUp, JoinWorker, JoinVoid, ListenExit, Connect, UseAfterFree
  <2>4. QED BY <2>2, <2>3
<1>4. QED BY <1>1, <1>2, <1>3

LEMMA FreedStep == IInv /\ FreedAfterJoin /\ [Next]_vars => FreedAfterJoin'
<1> SUFFICES ASSUME IInv, FreedAfterJoin, [Next]_vars, shared' = "freed", attempt' # Retries
             PROVE  /\ lpc' \in {"none", "exited"}
                    /\ \A w \in Workers : wpc'[w] \in Finished
  BY DEF FreedAfterJoin, Finished
<1> USE ServiceAssumption
    DEF IInv, TypeOK, DataOK, queueVars, mainVars, listVars, workVars, netVars, Finished
<1>1. CASE shared = "freed"
  <2>1. attempt' = attempt
    BY <1>1 DEF MainInv, Next, vars, Main, StartFails, StartListener, Publish, StopBegins,
       WakeCall, WakeNoMemory, StopEarly, StopBroadcast, StopJoin,
       Listener, ListenerRuns, ListenerFails,
       ListenEntry, ListenConfig, SpawnWorker, SpawnFails, Bind, BindFails, Accept,
       AcceptFails, CheckRun, Enqueue, EnqueueGivesUp, ListenBroadcast, JoinWorker,
       JoinVoid, ListenExit, WorkerStep, Dequeue, DequeueWaits, WokenExits, WokenWaits,
       WokenTakes, Serve, SpuriousWakeup, Connect, UseAfterFree
  <2>2. /\ lpc \in {"none", "exited"} /\ cpc = "stopped"
        /\ \A w \in Workers : wpc[w] \in {"none", "void", "exited"}
    BY <1>1, <2>1 DEF FreedAfterJoin, MainInv
  <2>3. UNCHANGED <<lpc, wpc>>
    BY <2>2 DEF Next, vars, Main, StartFails, StartListener, Publish, StopBegins,
       WakeCall, WakeNoMemory, StopEarly, StopBroadcast, StopJoin,
       Listener, ListenerRuns, ListenerFails,
       ListenEntry, ListenConfig, SpawnWorker, SpawnFails, Bind, BindFails, Accept,
       AcceptFails, CheckRun, Enqueue, EnqueueGivesUp, ListenBroadcast, JoinWorker,
       JoinVoid, ListenExit, WorkerStep, Dequeue, DequeueWaits, WokenExits, WokenWaits,
       WokenTakes, Serve, SpuriousWakeup, Connect, UseAfterFree
  <2>4. QED BY <2>2, <2>3
<1>2. CASE shared # "freed"
  <2>1. StartFails \/ StopEarly \/ StopJoin
    BY <1>2 DEF Next, vars, Main, StartListener, Publish, StopBegins, WakeCall,
       WakeNoMemory, StopBroadcast,
       Listener, ListenerRuns, ListenerFails, ListenEntry, ListenConfig, SpawnWorker,
       SpawnFails, Bind, BindFails, Accept, AcceptFails, CheckRun, Enqueue,
       EnqueueGivesUp, ListenBroadcast, JoinWorker, JoinVoid, ListenExit, WorkerStep,
       Dequeue, DequeueWaits, WokenExits, WokenWaits, WokenTakes, Serve,
       SpuriousWakeup, Connect, UseAfterFree
  <2>2. CASE StartFails
    BY <2>2 DEF StartFails, MainInv, PoolInv, Workers
  <2>3. CASE StopEarly
    BY <2>3 DEF StopEarly, MainInv
  <2>4. CASE StopJoin
    BY <2>4 DEF StopJoin, PoolInv
  <2>5. QED BY <2>1, <2>2, <2>3, <2>4
<1>3. QED BY <1>1, <1>2

-----------------------------------------------------------------------------
(* Refinement: the ring under the mutex is a bounded first-in first-out    *)
(* line. These lemmas are about any ring, so that they can be used of the  *)
(* state before a step and of the state after it.                          *)

Items          == Sockets \cup {None}
Size(h, t)     == IF h <= t THEN t - h ELSE t - h + QueueMax
Place(h, k)    == IF h + k - 1 < QueueMax THEN h + k - 1 ELSE h + k - 1 - QueueMax
Read(h, t, q)  == [k \in 1 .. Size(h, t) |-> q[Place(h, k)]]
Filled(h, t)   == {i \in Slots : IF h <= t THEN h <= i /\ i < t ELSE h <= i \/ i < t}

LEMMA ReadSeq ==
    ASSUME NEW h \in Slots, NEW t \in Slots, NEW q \in [Slots -> Items]
    PROVE  /\ Size(h, t) \in Nat /\ Size(h, t) < QueueMax
           /\ \A k \in 1 .. Size(h, t) : Place(h, k) \in Slots
           /\ Read(h, t, q) \in Seq(Items) /\ Len(Read(h, t, q)) = Size(h, t)
<1> USE ServiceAssumption
<1>1. Size(h, t) \in Nat /\ Size(h, t) < QueueMax
  BY DEF Slots, Size
<1>2. \A k \in 1 .. Size(h, t) : Place(h, k) \in Slots
  BY DEF Slots, Size, Place
<1>3. Read(h, t, q) \in [1 .. Size(h, t) -> Items]
  BY <1>2 DEF Read
<1>4. QED BY <1>1, <1>2, <1>3 DEF Read

\* The line holds the connections of the occupied slots.
LEMMA ReadFilled ==
    ASSUME NEW h \in Slots, NEW t \in Slots, NEW q \in [Slots -> Items]
    PROVE  {Read(h, t, q)[k] : k \in 1 .. Size(h, t)} = {q[i] : i \in Filled(h, t)}
<1> USE ServiceAssumption
<1>1. \A k \in 1 .. Size(h, t) : Place(h, k) \in Filled(h, t)
  BY DEF Place, Filled, Size, Slots
<1>2. \A i \in Filled(h, t) : \E k \in 1 .. Size(h, t) : Place(h, k) = i
  <2> SUFFICES ASSUME NEW i \in Filled(h, t)
               PROVE  \E k \in 1 .. Size(h, t) : Place(h, k) = i
    OBVIOUS
  <2>1. CASE h <= i
    <3>1. i - h + 1 \in 1 .. Size(h, t) /\ Place(h, i - h + 1) = i
      BY <2>1 DEF Place, Size, Filled, Slots
    <3>2. QED BY <3>1
  <2>2. CASE ~(h <= i)
    <3>1. /\ i - h + QueueMax + 1 \in 1 .. Size(h, t)
          /\ Place(h, i - h + QueueMax + 1) = i
      BY <2>2 DEF Place, Size, Filled, Slots
    <3>2. QED BY <3>1
  <2>3. QED BY <2>1, <2>2
<1>3. \A k \in 1 .. Size(h, t) : Read(h, t, q)[k] = q[Place(h, k)]
  BY DEF Read
<1>4. QED BY <1>1, <1>2, <1>3

LEMMA ReadAppend ==
    ASSUME NEW h \in Slots, NEW t \in Slots, NEW q \in [Slots -> Items], NEW s \in Items,
           Succ(t) # h
    PROVE  /\ Size(h, t) < QueueMax - 1
           /\ Read(h, Succ(t), [q EXCEPT ![t] = s]) = Append(Read(h, t, q), s)
<1> USE ServiceAssumption
<1> DEFINE n == Size(h, t)
           r == [q EXCEPT ![t] = s]
<1>1. Succ(t) \in Slots /\ Size(h, Succ(t)) = n + 1 /\ n < QueueMax - 1 /\ n \in Nat
  BY DEF Slots, Size, Succ
<1>2. \A k \in 1 .. n : Place(h, k) \in Slots /\ Place(h, k) # t
  BY DEF Slots, Size, Place
<1>3. Place(h, n + 1) = t
  BY DEF Slots, Size, Place
<1>4. r \in [Slots -> Items] /\ r[t] = s /\ \A i \in Slots : i # t => r[i] = q[i]
  OBVIOUS
<1>5. Read(h, t, q) \in Seq(Items) /\ Len(Read(h, t, q)) = n
  BY ReadSeq
<1>6. Read(h, Succ(t), r) = [k \in 1 .. n + 1 |-> r[Place(h, k)]]
  BY <1>1 DEF Read
<1>7. \A k \in 1 .. n : Read(h, t, q)[k] = q[Place(h, k)]
  BY DEF Read
<1>8. /\ Append(Read(h, t, q), s) \in Seq(Items)
      /\ Len(Append(Read(h, t, q), s)) = n + 1
      /\ \A k \in 1 .. n : Append(Read(h, t, q), s)[k] = Read(h, t, q)[k]
      /\ Append(Read(h, t, q), s)[n + 1] = s
  BY <1>5, AppendProperties
<1>9. Read(h, Succ(t), r) \in Seq(Items) /\ Len(Read(h, Succ(t), r)) = n + 1
  BY <1>1, <1>4, ReadSeq
<1>10. \A k \in 1 .. n + 1 : Read(h, Succ(t), r)[k] = Append(Read(h, t, q), s)[k]
  BY <1>1, <1>2, <1>3, <1>4, <1>6, <1>7, <1>8
<1>11. Read(h, Succ(t), r) = Append(Read(h, t, q), s)
  BY <1>8, <1>9, <1>10, SeqEqual
<1>12. QED BY <1>1, <1>11

LEMMA ReadTail ==
    ASSUME NEW h \in Slots, NEW t \in Slots, NEW q \in [Slots -> Items], h # t
    PROVE  /\ Read(h, t, q) # <<>> /\ Head(Read(h, t, q)) = q[h]
           /\ Read(Succ(h), t, q) = Tail(Read(h, t, q))
<1> USE ServiceAssumption
<1> DEFINE n == Size(h, t)
<1>1. Succ(h) \in Slots /\ Size(Succ(h), t) = n - 1 /\ n \in Nat /\ n > 0
  BY DEF Slots, Size, Succ
<1>2. \A k \in 1 .. n - 1 : Place(Succ(h), k) = Place(h, k + 1)
  BY <1>1 DEF Slots, Size, Place, Succ
<1>3. Place(h, 1) = h
  BY DEF Slots, Place
<1>4. Read(h, t, q) \in Seq(Items) /\ Len(Read(h, t, q)) = n
  BY ReadSeq
<1>5. \A k \in 1 .. n : Read(h, t, q)[k] = q[Place(h, k)]
  BY DEF Read
<1>6. Read(h, t, q) # <<>> /\ Head(Read(h, t, q)) = q[h]
  BY <1>1, <1>3, <1>4, <1>5
<1>7. Read(Succ(h), t, q) = [k \in 1 .. n - 1 |-> q[Place(Succ(h), k)]]
  BY <1>1 DEF Read
<1>8. /\ Tail(Read(h, t, q)) \in Seq(Items) /\ Len(Tail(Read(h, t, q))) = n - 1
      /\ \A k \in 1 .. n - 1 : Tail(Read(h, t, q))[k] = Read(h, t, q)[k + 1]
  BY <1>4, <1>6, HeadTailProperties
<1>9. Read(Succ(h), t, q) \in Seq(Items) /\ Len(Read(Succ(h), t, q)) = n - 1
  BY <1>1, ReadSeq
<1>10. \A k \in 1 .. n - 1 : Read(Succ(h), t, q)[k] = Tail(Read(h, t, q))[k]
  BY <1>1, <1>2, <1>5, <1>7, <1>8
<1>11. Read(Succ(h), t, q) = Tail(Read(h, t, q))
  BY <1>8, <1>9, <1>10, SeqEqual
<1>12. QED BY <1>6, <1>11

\* What the refinement mapping gives to the abstract line.
LEMMA Mapping ==
    ASSUME TypeOK
    PROVE  /\ Contents = Read(head, tail, queues)
           /\ Queue!Line = Queued /\ Queue!InWork = Held
           /\ Len(Contents) = Size(head, tail)
<1> USE ServiceAssumption DEF TypeOK, DataOK
<1>1. Contents = Read(head, tail, queues)
  BY DEF Contents, Read, Count, Size, Place
<1>2. Len(Contents) = Size(head, tail)
  <2>1. head \in Slots /\ tail \in Slots /\ queues \in [Slots -> Items]
    BY DEF Items
  <2>2. QED BY <1>1, <2>1, ReadSeq
<1>3. Queued = {queues[i] : i \in Filled(head, tail)}
  BY DEF Queued, Occupied, Filled
<1>4. Queue!Line = Queued
  <2>1. {Read(head, tail, queues)[k] : k \in 1 .. Size(head, tail)}
          = {queues[i] : i \in Filled(head, tail)}
    <3>1. head \in Slots /\ tail \in Slots /\ queues \in [Slots -> Items]
      BY DEF Items
    <3>2. QED BY <3>1, ReadFilled
  <2>2. Queue!Line = {Contents[k] : k \in 1 .. Size(head, tail)}
    BY <1>2 DEF Queue!Line
  <2>3. QED BY <1>1, <1>3, <2>1, <2>2
<1>5. Queue!InWork = Held
  BY DEF Queue!InWork, Held
<1>6. QED BY <1>1, <1>2, <1>4, <1>5

LEMMA QueueStill ==
    ASSUME UNCHANGED <<head, tail, queues, wsock, served>>
    PROVE  UNCHANGED Queue!qvars
BY DEF Queue!qvars, Contents, Count

LEMMA EnqueueOffers == ASSUME IInv, Enqueue PROVE Queue!Offer(lsock)
<1> USE ServiceAssumption DEF IInv
<1>1. /\ ~Full /\ UNCHANGED <<head, wsock, served>>
      /\ queues' = [queues EXCEPT ![tail] = lsock] /\ tail' = Succ(tail)
  BY DEF Enqueue
<1>2. Contents = Read(head, tail, queues)
  BY Mapping
<1>3. Contents' = Read(head, tail', queues')
  BY <1>1 DEF Contents, Read, Count, Size, Place
<1>4. Len(Contents) < QueueMax - 1 /\ Contents' = Append(Contents, lsock)
  <2>1. /\ head \in Slots /\ tail \in Slots /\ Succ(tail) # head
        /\ queues \in [Slots -> Items] /\ lsock \in Items
    BY <1>1 DEF Items, Full, TypeOK, DataOK
  <2>2. /\ Size(head, tail) < QueueMax - 1
        /\ Read(head, Succ(tail), [queues EXCEPT ![tail] = lsock])
             = Append(Read(head, tail, queues), lsock)
    BY <2>1, ReadAppend, ZenonT(40)
  <2>3. Len(Contents) = Size(head, tail)
    BY Mapping
  <2>4. QED BY <1>1, <1>2, <1>3, <2>2, <2>3
<1>5. lsock \notin Queued \cup Held \cup served
  <2>1. lsock \in InHand
    BY EnqueueMoves
  <2>2. QED BY <2>1 DEF SoleOwner
<1>6. lsock \notin Queue!Line \cup Queue!InWork \cup served
  BY <1>5, Mapping
<1>7. QED BY <1>1, <1>4, <1>6 DEF Queue!Offer

LEMMA DequeueTakes ==
    ASSUME IInv, NEW w \in Workers, Dequeue(w) \/ WokenTakes(w)
    PROVE  Queue!Take(w)
<1> USE ServiceAssumption DEF IInv
<1>1. /\ ~Empty /\ wsock[w] = None /\ head' = Succ(head)
      /\ wsock' = [wsock EXCEPT ![w] = queues[head]]
      /\ UNCHANGED <<tail, queues, served>>
  BY DEF Dequeue, WokenTakes, TakeHead, PoolInv
<1>2. Contents = Read(head, tail, queues)
  BY Mapping
<1>3. Contents' = Read(head', tail, queues)
  BY <1>1 DEF Contents, Read, Count, Size, Place
<1>4. /\ Contents # <<>> /\ Head(Contents) = queues[head]
      /\ Contents' = Tail(Contents)
  <2>1. /\ head \in Slots /\ tail \in Slots /\ head # tail
        /\ queues \in [Slots -> Items]
    BY <1>1 DEF Items, Empty, TypeOK, DataOK
  <2>2. /\ Read(head, tail, queues) # <<>>
        /\ Head(Read(head, tail, queues)) = queues[head]
        /\ Read(Succ(head), tail, queues) = Tail(Read(head, tail, queues))
    BY <2>1, ReadTail
  <2>3. QED BY <1>1, <1>2, <1>3, <2>2
<1>5. QED BY <1>1, <1>4 DEF Queue!Take

LEMMA ServeFinishes ==
    ASSUME IInv, NEW w \in Workers, Serve(w)
    PROVE  Queue!Finish(w)
<1>1. /\ wsock[w] # None /\ served' = served \cup {wsock[w]}
      /\ wsock' = [wsock EXCEPT ![w] = None] /\ UNCHANGED <<head, tail, queues>>
  BY DEF IInv, PoolInv, Serve, queueVars
<1>2. Contents' = Contents
  BY <1>1 DEF Contents, Count
<1>3. QED BY <1>1, <1>2 DEF Queue!Finish

LEMMA QueueInit == Init => Queue!QInit
<1> SUFFICES ASSUME Init PROVE Queue!QInit
  OBVIOUS
<1>1. TypeOK /\ head = tail /\ head \in Nat
  BY InitIInv DEF Init, IInv
<1>2. Contents \in Seq(Items) /\ Len(Contents) = 0
  <2>1. head \in Slots /\ tail \in Slots /\ queues \in [Slots -> Items]
    BY <1>1 DEF Items, TypeOK, DataOK
  <2>2. Read(head, tail, queues) \in Seq(Items) /\ Len(Read(head, tail, queues)) = Size(head, tail)
    BY <2>1, ReadSeq
  <2>3. QED BY <1>1, <2>2, Mapping DEF Size
<1>3. Contents = <<>>
  BY <1>2
<1>4. QED BY <1>3 DEF Queue!QInit, Init

LEMMA QueueStep == IInv /\ [Next]_vars => [Queue!QNext]_Queue!qvars
<1> SUFFICES ASSUME IInv, [Next]_vars PROVE [Queue!QNext]_Queue!qvars
  OBVIOUS
<1>1. CASE StartListener \/ Still \/ Accept
  <2>1. UNCHANGED <<head, tail, queues, wsock, served>>
    BY <1>1 DEF StartListener, Still, Accept, queueVars, workVars
  <2>2. QED BY <2>1, QueueStill
<1>2. CASE Enqueue
  <2>1. lsock \in Sockets
    BY <1>2 DEF IInv, NetInv, TypeOK, DataOK, Enqueue
  <2>2. QED BY <1>2, <2>1, EnqueueOffers DEF Queue!QNext
<1>3. ASSUME NEW w \in Workers, Dequeue(w) \/ WokenTakes(w) PROVE Queue!QNext
  BY <1>3, DequeueTakes DEF Queue!QNext
<1>4. ASSUME NEW w \in Workers, Serve(w) PROVE Queue!QNext
  BY <1>4, ServeFinishes DEF Queue!QNext
<1>5. QED BY <1>1, <1>2, <1>3, <1>4, Moves

-----------------------------------------------------------------------------
(* The theorems. *)

THEOREM Inductive == Spec => []IInv
<1>1. IInv /\ [Next]_vars => IInv'
  BY FlagsStep, DataStep, MainStep, PoolStep, NetStep, OwnerStep DEF IInv, TypeOK
<1>2. QED BY InitIInv, <1>1, PTL DEF Spec

\* Every variable keeps its shape: the ring's indices never leave the ring.
THEOREM TypeCorrect == Spec => []TypeOK
BY Inductive, PTL DEF IInv

\* Two workers never serve the same connection and no connection is queued
\* twice or queued after it was served, whatever the pool and the queue length.
THEOREM OneOwner == Spec => []SoleOwner
BY Inductive, PTL DEF IInv

\* While the service runs, every connection the listener accepted is in its
\* hand, in the ring, with a worker or served.
THEOREM NothingLost == Spec => []NoneLost
<1>1. Init => NoneLost
  BY DEF Init, NoneLost, Accepted
<1>2. QED BY Inductive, <1>1, LostStep, PTL DEF Spec

\* While the service runs, a connection waiting in the ring has a worker that is
\* not asleep: no signal of enqueue is missed.
THEOREM SignalsReach == Spec => []NoMissedSignal
<1>1. Init => NoMissedSignal
  BY DEF Init, NoMissedSignal
<1>2. QED BY Inductive, <1>1, SignalStep, PTL DEF Spec

\* SE_stop, when it gets as far as pthread_join, frees the shared object only
\* after the listener and every worker have ended.
THEOREM FreedLast == Spec => []FreedAfterJoin
<1>1. Init => FreedAfterJoin
  BY DEF Init, FreedAfterJoin
<1>2. QED BY Inductive, <1>1, FreedStep, PTL DEF Spec

\* The ring, the mutex and the condition variable together implement the abstract
\* bounded first-in first-out line: connections are taken in the order in which
\* they were queued, each by one worker, and at most queue_max - 1 wait.
THEOREM RingRefinesLine == Spec => QueueSpec
BY Inductive, QueueInit, QueueStep, PTL DEF Spec, QueueSpec, Queue!QSpec
=============================================================================
