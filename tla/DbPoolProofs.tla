---------------------------- MODULE DbPoolProofs ----------------------------
(***************************************************************************)
(* Proofs about DbPool for any number of workers and connections, any      *)
(* weights and any database_max_use_count: a connection is never given to  *)
(* two workers, and never left inside a transaction.                       *)
(***************************************************************************)
EXTENDS DbPool, SharedFacts

LEMMA ClusterFacts ==
    ASSUME NEW write
    PROVE  /\ \A c \in Cluster(write) : c \in Nat
           /\ IsFiniteSet(Cluster(write)) /\ Cluster(write) # {} /\ Cluster(write) \subseteq Conns
           /\ Total(Weight, Cluster(write)) \in Int
<1>1. /\ \A c \in Cluster(write) : c \in Nat
      /\ IsFiniteSet(Cluster(write)) /\ Cluster(write) # {} /\ Cluster(write) \subseteq Conns
  BY DbPoolAssumption DEF Cluster, Conns
<1>2. \A c \in Cluster(write) : Weight[c] \in Int
  BY <1>1, DbPoolAssumption
<1> QED BY <1>1, <1>2, SumType DEF Total

\* Every pick falls on a connection of the pool, and the credits stay integers.
LEMMA ChoiceFacts ==
    ASSUME TypeOK, NEW t \in Threads
    PROVE  /\ Choice(t) \in Conns
           /\ Pay(current, Weight, Cluster(iswrite[t]), Choice(t)) \in [Conns -> Int]
<1> DEFINE own == Cluster(iswrite[t])
           earned == Earn(current, Weight, own)
<1>1. earned \in [Conns -> Int]
  BY DbPoolAssumption DEF TypeOK, Earn
<1>2. own \subseteq Conns /\ Total(Weight, own) \in Int
  BY ClusterFacts
<1>3. Choice(t) \in own
  <2>1. (\A c \in own : c \in Nat) /\ IsFiniteSet(own) /\ own # {}
    BY ClusterFacts
  <2>2. \A c \in own : earned[c] \in Int
    BY <1>1, <1>2
  <2> HIDE DEF own, earned
  <2>3. Richest(earned, own) \in own
    BY <2>1, <2>2, RichestExists
  <2>4. QED BY <2>3 DEF Choice, Pick, own, earned
<1>4. QED BY <1>1, <1>2, <1>3 DEF Pay

-----------------------------------------------------------------------------
(* The invariant, one step per group of actions. *)

LEMMA InitPoolInv == Init => PoolInv
BY DbPoolAssumption
   DEF Init, PoolInv, TypeOK, Places, Sessions, LeasedOnce, FreeIsClean, LeaseInv,
       SessionInv, Leasing, Conns

\* The shapes of the data. (useCount grows by one up to
\* MaxUse, or starts again.)
LEMMA TypeStep == PoolInv /\ [Next]_vars => TypeOK'
<1> SUFFICES ASSUME PoolInv, [Next]_vars PROVE TypeOK'
  OBVIOUS
<1> USE DEF TypeOK, Places, Sessions
<1>1. TypeOK
  BY DEF PoolInv
<1>2. \A t \in Threads : pc[t] \in Leasing => pg[t] \in Conns
  BY <1>1 DEF PoolInv, LeaseInv
<1>3. CASE UNCHANGED vars
  BY <1>1, <1>3 DEF vars, itemVars, dbVars
<1>4. ASSUME NEW t \in Threads, GetDbserver(t) PROVE TypeOK'
  <2>1. CASE Ask(t)
    BY <1>1, <2>1 DEF Ask, itemVars, dbVars
  <2>2. CASE Lock(t)
    BY <1>1, <2>2 DEF Lock, itemVars, dbVars
  <2>3. CASE LookAgain(t)
    BY <1>1, <2>3, ChoiceFacts DEF LookAgain, dbVars
  <2>4. CASE Take(t)
    BY <1>1, <2>4, ChoiceFacts DEF Take, dbVars
  <2>5. CASE Count(t)
    <3>1. useCount' \in [Conns -> 0 .. MaxUse]
      <4>1. pg[t] \in Conns /\ useCount[pg[t]] \in 0 .. MaxUse
        BY <1>1, <1>2, <2>5 DEF Count, Leasing
      <4>2. CASE MaxUse = 0
        BY <1>1, <2>5, <4>1, <4>2 DEF Count
      <4>3. CASE MaxUse # 0
        BY <1>1, <2>5, <4>1, <4>3, DbPoolAssumption DEF Count
      <4>4. QED BY <4>2, <4>3
    <3>2. pc' \in [Threads -> Places]
      BY <1>1, <2>5 DEF Count
    <3>3. QED BY <1>1, <2>5, <3>1, <3>2 DEF Count, dbVars
  <2>6. CASE Recycle(t)
    BY <1>1, <1>2, <2>6, DbPoolAssumption DEF Recycle, Leasing
  <2>7. QED BY <1>4, <2>1, <2>2, <2>3, <2>4, <2>5, <2>6 DEF GetDbserver
<1>5. ASSUME NEW t \in Threads, Handler(t) PROVE TypeOK'
  <2>1. CASE Plain(t) \/ Begin(t) \/ BeginFails(t)
    BY <1>1, <2>1 DEF Plain, Begin, BeginFails, Breaks, itemVars, dbVars
  <2>2. CASE Statements(t) \/ Rollback(t)
    BY <1>1, <2>2 DEF Statements, Commit, WorkFails, CommitFails, Rollback, Breaks, itemVars
  <2>3. CASE Release(t)
    BY <1>1, <2>3 DEF Release, dbVars
  <2>4. QED BY <1>5, <2>1, <2>2, <2>3 DEF Handler
<1>6. QED BY <1>3, <1>4, <1>5 DEF Next

\* Who has which connection.
LEMMA LeaseStep == PoolInv /\ [Next]_vars => LeasedOnce' /\ LeaseInv'
<1> SUFFICES ASSUME PoolInv, [Next]_vars PROVE LeasedOnce' /\ LeaseInv'
  OBVIOUS
<1> USE DEF LeasedOnce, LeaseInv
<1>1. /\ pc \in [Threads -> Places] /\ pg \in [Threads -> Conns \cup {NoConn}]
      /\ isuse \in [Conns -> BOOLEAN] /\ LeasedOnce /\ LeaseInv /\ NoConn \notin Conns
  BY DbPoolAssumption DEF PoolInv, TypeOK
<1>2. CASE UNCHANGED vars
  BY <1>1, <1>2 DEF vars, itemVars
<1>3. ASSUME NEW t \in Threads,
             Ask(t) \/ Lock(t) \/ LookAgain(t) \/ Count(t) \/ Recycle(t) \/ Plain(t)
             \/ Begin(t) \/ BeginFails(t) \/ Statements(t) \/ Rollback(t)
      PROVE  LeasedOnce' /\ LeaseInv'
  <2>1. UNCHANGED <<pg, isuse>>
    BY <1>3 DEF Ask, Lock, LookAgain, Count, Recycle, Plain, Begin, BeginFails,
                Statements, Commit, WorkFails, CommitFails, Rollback, itemVars
  <2>2. \E p \in Places : /\ pc' = [pc EXCEPT ![t] = p]
                          /\ p \in Leasing <=> pc[t] \in Leasing
    <3>1. CASE Ask(t) \/ Lock(t)
      BY <3>1 DEF Ask, Lock, Places, Leasing
    <3>2. CASE LookAgain(t)
      BY <1>1, <3>2 DEF LookAgain
    <3>3. CASE Count(t) \/ Recycle(t) \/ Plain(t) \/ Begin(t) \/ BeginFails(t)
      BY <3>3 DEF Count, Recycle, Plain, Begin, BeginFails, Places, Leasing
    <3>4. CASE Statements(t) \/ Rollback(t)
      BY <3>4 DEF Statements, Commit, WorkFails, CommitFails, Rollback, Places, Leasing
    <3>5. QED BY <1>3, <3>1, <3>2, <3>3, <3>4
  <2>3. QED BY <1>1, <2>1, <2>2
<1>4. ASSUME NEW t \in Threads, Take(t) PROVE LeasedOnce' /\ LeaseInv'
  <2>1. /\ Choice(t) \in Conns /\ ~isuse[Choice(t)]
        /\ isuse' = [isuse EXCEPT ![Choice(t)] = TRUE]
        /\ pg' = [pg EXCEPT ![t] = Choice(t)]
        /\ pc' = [pc EXCEPT ![t] = "counting"] /\ pg[t] = NoConn
    BY <1>1, <1>4, ChoiceFacts DEF Take, PoolInv, Leasing
  <2> HIDE DEF LeasedOnce, LeaseInv
  <2>2. LeasedOnce'
    BY <1>1, <2>1 DEF LeasedOnce
  <2>3. LeaseInv'
    BY <1>1, <2>1 DEF LeaseInv, Leasing
  <2>4. QED BY <2>2, <2>3
<1>5. ASSUME NEW t \in Threads, Release(t) PROVE LeasedOnce' /\ LeaseInv'
  <2>1. /\ pg[t] \in Conns
        /\ isuse' = [isuse EXCEPT ![pg[t]] = FALSE]
        /\ pg' = [pg EXCEPT ![t] = NoConn] /\ pc' = [pc EXCEPT ![t] = "idle"]
    BY <1>1, <1>5 DEF Release, Leasing
  <2> HIDE DEF LeasedOnce, LeaseInv
  <2>2. LeasedOnce'
    BY <1>1, <2>1 DEF LeasedOnce
  <2>3. LeaseInv'
    BY <1>1, <2>1 DEF LeaseInv, Leasing
  <2>4. QED BY <2>2, <2>3
<1>6. QED BY <1>2, <1>3, <1>4, <1>5 DEF Next, GetDbserver, Handler

\* What the sessions are in.
LEMMA SessionStep == PoolInv /\ [Next]_vars => FreeIsClean' /\ SessionInv'
<1> SUFFICES ASSUME PoolInv, [Next]_vars PROVE FreeIsClean' /\ SessionInv'
  OBVIOUS
<1> USE DEF FreeIsClean, SessionInv
<1>1. /\ pc \in [Threads -> Places] /\ pg \in [Threads -> Conns \cup {NoConn}]
      /\ isuse \in [Conns -> BOOLEAN] /\ session \in [Conns -> Sessions]
      /\ LeasedOnce /\ LeaseInv /\ FreeIsClean /\ SessionInv /\ NoConn \notin Conns
  BY DbPoolAssumption DEF PoolInv, TypeOK
<1>2. CASE UNCHANGED vars
  BY <1>1, <1>2 DEF vars, itemVars, dbVars
<1>3. ASSUME NEW t \in Threads, Ask(t) \/ Lock(t) \/ LookAgain(t) \/ Count(t) \/ Plain(t)
      PROVE  FreeIsClean' /\ SessionInv'
  BY <1>1, <1>3 DEF Ask, Lock, LookAgain, Count, Plain, itemVars, dbVars
<1>4. ASSUME NEW t \in Threads, Take(t) PROVE FreeIsClean' /\ SessionInv'
  <2>1. /\ Choice(t) \in Conns /\ ~isuse[Choice(t)] /\ session' = session
        /\ isuse' = [isuse EXCEPT ![Choice(t)] = TRUE]
        /\ pg' = [pg EXCEPT ![t] = Choice(t)]
        /\ pc' = [pc EXCEPT ![t] = "counting"]
    BY <1>4, ChoiceFacts DEF Take, PoolInv, dbVars
  <2>2. QED BY <1>1, <2>1
\* A worker that changes the state of a session is the only one that has it.
<1>5. ASSUME NEW t \in Threads,
             Recycle(t) \/ Begin(t) \/ BeginFails(t) \/ Statements(t) \/ Rollback(t)
      PROVE  FreeIsClean' /\ SessionInv'
  <2>1. /\ UNCHANGED <<pg, isuse>> /\ pg[t] \in Conns /\ isuse[pg[t]]
        /\ \A u \in Threads : pg[u] = pg[t] => u = t
    <3>1. pg[t] \in Conns /\ UNCHANGED <<pg, isuse>>
      BY <1>1, <1>5 DEF Recycle, Begin, BeginFails, Statements, Commit, WorkFails,
                        CommitFails, Rollback, LeaseInv, Leasing, itemVars
    <3>2. QED BY <1>1, <3>1 DEF LeasedOnce
  <2>2. \E p \in Places : \E s \in Sessions :
          /\ pc' = [pc EXCEPT ![t] = p] /\ session' = [session EXCEPT ![pg[t]] = s]
          /\ p \in {"counting", "handler", "done"} => s # "open"
    <3>1. CASE Recycle(t)
      BY <3>1 DEF Recycle, Places, Sessions
    <3>2. CASE Begin(t) \/ BeginFails(t)
      BY <3>2 DEF Begin, BeginFails, Breaks, Places, Sessions
    <3>3. CASE Commit(t) \/ CommitFails(t)
      BY <3>3 DEF Commit, CommitFails, Places, Sessions
    <3>4. CASE WorkFails(t)
      <4>1. session = [session EXCEPT ![pg[t]] = session[pg[t]]] /\ session[pg[t]] \in Sessions
        BY <1>1, <2>1
      <4>2. QED BY <3>4, <4>1 DEF WorkFails, Breaks, Places, Sessions
    <3>5. CASE Rollback(t)
      BY <1>1, <2>1, <3>5 DEF Rollback, Breaks, Places, Sessions
    <3>6. QED BY <1>5, <3>1, <3>2, <3>3, <3>4, <3>5 DEF Statements
  <2>3. FreeIsClean'
    BY <1>1, <2>1, <2>2
  <2>4. SessionInv'
    <3>1. SUFFICES ASSUME NEW u \in Threads, pc'[u] \in {"counting", "handler", "done"}
                   PROVE  session'[pg[u]] # "open"
      BY <2>1
    <3>2. CASE u = t
      BY <1>1, <2>1, <2>2, <3>1, <3>2
    <3>3. CASE u # t
      BY <1>1, <2>1, <2>2, <3>1, <3>3 DEF LeaseInv, Leasing
    <3>4. QED BY <3>2, <3>3
  <2>5. QED BY <2>3, <2>4
<1>6. ASSUME NEW t \in Threads, Release(t) PROVE FreeIsClean' /\ SessionInv'
  <2>1. /\ pc[t] = "done" /\ session' = session /\ pg[t] \in Conns
        /\ isuse' = [isuse EXCEPT ![pg[t]] = FALSE]
        /\ pg' = [pg EXCEPT ![t] = NoConn] /\ pc' = [pc EXCEPT ![t] = "idle"]
    BY <1>1, <1>6 DEF Release, LeaseInv, Leasing, dbVars
  <2>2. QED BY <1>1, <2>1
<1>7. QED BY <1>2, <1>3, <1>4, <1>5, <1>6 DEF Next, GetDbserver, Handler

-----------------------------------------------------------------------------
(* The theorems. *)

THEOREM PoolInductive == Spec => []PoolInv
<1>1. PoolInv /\ [Next]_vars => PoolInv'
  BY TypeStep, LeaseStep, SessionStep DEF PoolInv
<1>2. QED BY InitPoolInv, <1>1, PTL DEF Spec

\* Every variable keeps its shape; in particular no pick of the weighted
\* round-robin leaves the pool.
THEOREM PoolTypeCorrect == Spec => []TypeOK
BY PoolInductive, PTL DEF PoolInv

\* No connection is ever with two workers, and isuse tells exactly which are
\* taken, although SE_soap_serve clears it without the mutex.
THEOREM PoolLeasedOnce == Spec => []LeasedOnce
BY PoolInductive, PTL DEF PoolInv

\* No handler leaves a transaction behind for the next one.
THEOREM PoolFreeIsClean == Spec => []FreeIsClean
BY PoolInductive, PTL DEF PoolInv
-----------------------------------------------------------------------------
(* The refinement: every step of the pool lends, uses or gives back one    *)
(* connection, or changes nothing a user of a connection can see.          *)

\* A step that moves no connection and changes at most the session of the
\* connection its worker has is Use, or a stutter.
LEMMA UseMaps ==
    ASSUME PoolInv, NEW t \in Threads, NEW s \in Sessions, pg[t] \in Conns,
           UNCHANGED pg, session' = [session EXCEPT ![pg[t]] = s]
    PROVE  Lending!Next
<1>1. HoldersOf[pg[t]] = {t} /\ HoldersOf' = HoldersOf
  BY DbPoolAssumption DEF PoolInv, LeasedOnce, HoldersOf
<1>2. s \in Lending!Sessions
  BY DEF Sessions, Lending!Sessions
<1>3. Lending!Use(t, pg[t])
  BY <1>1, <1>2 DEF Lending!Use
<1>4. QED BY <1>3 DEF Lending!Next

\* Take lends: the connection is free and clean, and the worker has no other.
LEMMA TakeMaps ==
    ASSUME PoolInv, NEW t \in Threads, Take(t)
    PROVE  Lending!Next
<1> DEFINE c == Choice(t)
<1>1. /\ c \in Conns /\ ~isuse[c] /\ pg[t] = NoConn /\ session' = session
      /\ pg' = [pg EXCEPT ![t] = c] /\ pg \in [Threads -> Conns \cup {NoConn}]
  BY ChoiceFacts DEF Take, PoolInv, TypeOK, LeaseInv, Leasing, dbVars
<1> HIDE DEF c
<1>2. HoldersOf[c] = {} /\ session[c] # "open"
  BY <1>1 DEF PoolInv, LeasedOnce, FreeIsClean, HoldersOf
<1>3. \A d \in Conns : t \notin HoldersOf[d]
  BY <1>1, DbPoolAssumption DEF HoldersOf
<1>4. HoldersOf' = [HoldersOf EXCEPT ![c] = {t}]
  <2>1. \A d \in Conns : {u \in Threads : pg'[u] = d}
                          = IF d = c THEN {t} ELSE {u \in Threads : pg[u] = d}
    BY <1>1, <1>2, <1>3, DbPoolAssumption DEF HoldersOf
  <2>2. QED BY <2>1 DEF HoldersOf
<1>5. Lending!Lend(t, c)
  BY <1>1, <1>2, <1>3, <1>4 DEF Lending!Lend
<1>6. QED BY <1>1, <1>5 DEF Lending!Next

\* Release gives back.
LEMMA ReleaseMaps ==
    ASSUME PoolInv, NEW t \in Threads, Release(t)
    PROVE  Lending!Next
<1>1. /\ pg[t] \in Conns /\ session[pg[t]] # "open" /\ session' = session
      /\ pg' = [pg EXCEPT ![t] = NoConn] /\ pg \in [Threads -> Conns \cup {NoConn}]
  BY DEF Release, PoolInv, TypeOK, LeaseInv, SessionInv, Leasing, dbVars
<1>2. HoldersOf[pg[t]] = {t}
  BY <1>1, DbPoolAssumption DEF PoolInv, LeasedOnce, HoldersOf
<1>3. HoldersOf' = [HoldersOf EXCEPT ![pg[t]] = {}]
  <2>1. \A d \in Conns : {u \in Threads : pg'[u] = d}
                          = IF d = pg[t] THEN {} ELSE {u \in Threads : pg[u] = d}
    <3>1. \A u \in Threads : pg[u] = pg[t] => u = t
      BY <1>1, <1>2 DEF HoldersOf
    <3>2. NoConn \notin Conns /\ \A u \in Threads : pg'[u] = IF u = t THEN NoConn ELSE pg[u]
      BY <1>1, DbPoolAssumption
    <3>3. QED BY <3>1, <3>2, <1>1
  <2>2. QED BY <2>1 DEF HoldersOf
<1>4. Lending!GiveBack(t, pg[t])
  BY <1>1, <1>2, <1>3 DEF Lending!GiveBack
<1>5. QED BY <1>1, <1>4 DEF Lending!Next

\* The steps that end or begin something in the session of the worker's connection.
LEMMA SessionMaps ==
    ASSUME PoolInv, NEW t \in Threads,
           Recycle(t) \/ Begin(t) \/ BeginFails(t) \/ Statements(t) \/ Rollback(t)
    PROVE  Lending!Next
<1>1. /\ pg[t] \in Conns /\ UNCHANGED pg
      /\ session \in [Conns -> Sessions]
  BY DEF PoolInv, TypeOK, LeaseInv, Leasing, Recycle, Begin, BeginFails, Statements,
         Commit, WorkFails, CommitFails, Rollback
<1>2. session = [session EXCEPT ![pg[t]] = session[pg[t]]] /\ session[pg[t]] \in Sessions
  BY <1>1
<1>3. \E s \in Sessions : session' = [session EXCEPT ![pg[t]] = s]
  <2>1. CASE Recycle(t) \/ Begin(t) \/ BeginFails(t)
    BY <2>1 DEF Recycle, Begin, BeginFails, Breaks, Sessions
  <2>2. CASE Commit(t) \/ CommitFails(t)
    BY <2>2 DEF Commit, CommitFails, Sessions
  <2>3. CASE WorkFails(t)
    BY <1>2, <2>3 DEF WorkFails, Breaks, Sessions
  <2>4. CASE Rollback(t)
    BY <1>1, <1>2, <2>4 DEF Rollback, Breaks, Sessions
  <2>5. QED BY <2>1, <2>2, <2>3, <2>4 DEF Statements
<1>4. QED BY <1>1, <1>3, UseMaps

LEMMA StepMaps == PoolInv /\ [Next]_vars => [Lending!Next]_<<HoldersOf, session>>
<1> SUFFICES ASSUME PoolInv, [Next]_vars PROVE [Lending!Next]_<<HoldersOf, session>>
  OBVIOUS
<1>1. CASE UNCHANGED vars
  BY <1>1 DEF vars, dbVars, HoldersOf
<1>2. ASSUME NEW t \in Threads,
             Ask(t) \/ Lock(t) \/ LookAgain(t) \/ Count(t) \/ Plain(t)
      PROVE  UNCHANGED <<HoldersOf, session>>
  BY <1>2 DEF Ask, Lock, LookAgain, Count, Plain, dbVars, HoldersOf
<1>3. QED BY <1>1, <1>2, TakeMaps, ReleaseMaps, SessionMaps DEF Next, GetDbserver, Handler

\* The pool of get_dbserver and SE_soap_serve, with its mutex, its weights and its
\* release without the mutex, implements the plain promise of ConnectionPool.
THEOREM PoolImplementsLending == Spec => LendingSpec
<1>1. Init => Lending!Init
  BY DbPoolAssumption DEF Init, Lending!Init, HoldersOf, Conns
<1>2. QED BY <1>1, StepMaps, PoolInductive, PTL DEF Spec, LendingSpec, Lending!Spec
=============================================================================
