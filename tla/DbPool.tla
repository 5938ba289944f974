------------------------------- MODULE DbPool -------------------------------
(***************************************************************************)
(* The database connections of core/se_service.c while the service runs:   *)
(* how a worker gets one from get_dbserver under the mutex of the shared   *)
(* object, what its handler does with it (the transactions of              *)
(* core/se_utils.c, in the order the handlers of se_handler.c and          *)
(* se_users.c use them), and how SE_soap_serve gives it back without the   *)
(* mutex.                                                                  *)
(***************************************************************************)
EXTENDS WeightedDraw, FiniteSets

CONSTANTS Threads,    \* the worker threads
          NoThread,   \* nobody has the mutex
          NoConn,     \* arg->pg is NULL
          Writers,    \* connections of wcluster, numbered
          Readers,    \* connections of rcluster, {} when it is NULL
          Weight,     \* items[i]->weight
          MaxUse      \* conf->database_max_use_count

Conns == Writers \cup Readers

ASSUME DbPoolAssumption ==
    /\ NoThread \notin Threads
    /\ Writers \subseteq Nat /\ Readers \subseteq Nat
    /\ IsFiniteSet(Writers) /\ IsFiniteSet(Readers)
    /\ Writers # {} /\ Writers \cap Readers = {}
    /\ NoConn \notin Conns
    /\ Weight \in [Conns -> Nat \ {0}]
    /\ MaxUse \in Nat

VARIABLES mutex,      \* who has shared->locks->mutex
          pc,         \* where each worker is
          iswrite,    \* what each worker asked get_dbserver for
          pg,         \* the connection each worker has
          current,    \* items[i]->current_weight
          isuse,      \* items[i]->isuse
          useCount,   \* items[i]->use_count
          session,    \* the PostgreSQL session behind items[i]->conn
          timeout     \* does that session have its statement_timeout?

itemVars == <<current, isuse, useCount>>
dbVars   == <<session, timeout>>
vars == <<mutex, pc, iswrite, pg, itemVars, dbVars>>

\* A worker outside a database handler; in get_dbserver, waiting for the mutex,
\* looking for a connection, or counting its use; then in the handler.
Places == {"idle", "asking", "looking", "counting", "handler", "working", "failing", "done"}

\* A worker in one of these places has a connection.
Leasing == {"counting", "handler", "working", "failing", "done"}

\* A session is between transactions, inside one, or its connection is broken.
Sessions == {"clean", "open", "broken"}

\* Every variable keeps its shape. (useCount is not the number of uses of a session:
\* the use for which a session is opened again is not counted, so that every session
\* but the first is used MaxUse + 1 times, unless MaxUse = 0.)
TypeOK ==
    /\ mutex \in Threads \cup {NoThread}
    /\ pc \in [Threads -> Places]
    /\ iswrite \in [Threads -> BOOLEAN]
    /\ pg \in [Threads -> Conns \cup {NoConn}]
    /\ current \in [Conns -> Int]
    /\ isuse \in [Conns -> BOOLEAN]
    /\ useCount \in [Conns -> 0 .. MaxUse]
    /\ session \in [Conns -> Sessions]
    /\ timeout \in [Conns -> BOOLEAN]

Init ==
    /\ mutex = NoThread
    /\ pc = [t \in Threads |-> "idle"]
    /\ iswrite = [t \in Threads |-> FALSE]
    /\ pg = [t \in Threads |-> NoConn]
    /\ current = Weight
    /\ isuse = [c \in Conns |-> FALSE]
    /\ useCount = [c \in Conns |-> 0]
    /\ session = [c \in Conns |-> "clean"]
    /\ timeout = [c \in Conns |-> TRUE]

-----------------------------------------------------------------------------
(* get_dbserver *)

\* A reader is looked for among the writers when there is no reader cluster.
Cluster(write) == IF write \/ Readers = {} THEN Writers ELSE Readers

Ask(t) ==
    /\ pc[t] = "idle"
    /\ pc' = [pc EXCEPT ![t] = "asking"]
    /\ \E write \in BOOLEAN : iswrite' = [iswrite EXCEPT ![t] = write]
    /\ UNCHANGED <<mutex, pg, itemVars, dbVars>>

Lock(t) ==
    /\ pc[t] = "asking" /\ mutex = NoThread
    /\ mutex' = t
    /\ pc' = [pc EXCEPT ![t] = "looking"]
    /\ UNCHANGED <<iswrite, pg, itemVars, dbVars>>

Choice(t) == Pick(current, Weight, Cluster(iswrite[t]))

\* The connection picked is in use: two milliseconds of sleep, with the mutex,
\* and another pick. The pick that failed has been paid for all the same.
LookAgain(t) ==
    /\ pc[t] = "looking" /\ isuse[Choice(t)]
    /\ current' = Pay(current, Weight, Cluster(iswrite[t]), Choice(t))
    /\ UNCHANGED <<mutex, pc, iswrite, pg, isuse, useCount, dbVars>>

\* mutant: isuse is not looked at
TakeAny(t) ==
    /\ pc[t] = "looking"
    /\ current' = Pay(current, Weight, Cluster(iswrite[t]), Choice(t))
    /\ isuse' = [isuse EXCEPT ![Choice(t)] = TRUE]
    /\ pg' = [pg EXCEPT ![t] = Choice(t)]
    /\ mutex' = NoThread
    /\ pc' = [pc EXCEPT ![t] = "counting"]
    /\ UNCHANGED <<iswrite, useCount, dbVars>>

Take(t) ==
    /\ pc[t] = "looking" /\ ~isuse[Choice(t)]
    /\ current' = Pay(current, Weight, Cluster(iswrite[t]), Choice(t))
    /\ isuse' = [isuse EXCEPT ![Choice(t)] = TRUE]
    /\ pg' = [pg EXCEPT ![t] = Choice(t)]
    /\ mutex' = NoThread
    /\ pc' = [pc EXCEPT ![t] = "counting"]
    /\ UNCHANGED <<iswrite, useCount, dbVars>>

\* The use is counted, after the mutex was given back. (Without a maximum the
\* count goes up for ever and is never read: it is left out.)
Count(t) ==
    /\ pc[t] = "counting"
    /\ MaxUse = 0 \/ useCount[pg[t]] + 1 <= MaxUse
    /\ useCount' = [useCount EXCEPT ![pg[t]] = IF MaxUse = 0 THEN @ ELSE @ + 1]
    /\ pc' = [pc EXCEPT ![t] = "handler"]
    /\ UNCHANGED <<mutex, iswrite, pg, current, isuse, dbVars>>

RecycleKeepsCount(t) ==   \* mutant: the count is not reset
    /\ pc[t] = "counting"
    /\ MaxUse > 0 /\ useCount[pg[t]] + 1 > MaxUse
    /\ useCount' = [useCount EXCEPT ![pg[t]] = @ + 1]
    /\ \E s \in {"clean", "broken"} : session' = [session EXCEPT ![pg[t]] = s]
    /\ timeout' = [timeout EXCEPT ![pg[t]] = FALSE]
    /\ pc' = [pc EXCEPT ![t] = "handler"]
    /\ UNCHANGED <<mutex, iswrite, pg, current, isuse>>

\* Past the maximum: PQreset, whose result nobody looks at, opens a new session,
\* for which nobody sets statement_timeout again.
Recycle(t) ==
    /\ pc[t] = "counting"
    /\ MaxUse > 0 /\ useCount[pg[t]] + 1 > MaxUse
    /\ useCount' = [useCount EXCEPT ![pg[t]] = 0]
    /\ \E s \in {"clean", "broken"} : session' = [session EXCEPT ![pg[t]] = s]
    /\ timeout' = [timeout EXCEPT ![pg[t]] = FALSE]
    /\ pc' = [pc EXCEPT ![t] = "handler"]
    /\ UNCHANGED <<mutex, iswrite, pg, current, isuse>>

GetDbserver(t) == Ask(t) \/ Lock(t) \/ LookAgain(t) \/ Take(t) \/ Count(t) \/ Recycle(t)

-----------------------------------------------------------------------------
(* The handlers. A connection can break under any command: libpq then ends *)
(* the command with an error.                                              *)

Breaks(c) == session' = [session EXCEPT ![c] = "broken"]

\* hello_world uses the connection without a transaction.
Plain(t) ==
    /\ pc[t] = "handler"
    /\ pc' = [pc EXCEPT ![t] = "done"]
    /\ UNCHANGED <<mutex, iswrite, pg, itemVars, dbVars>>

\* SEPQ_begin
Begin(t) ==
    /\ pc[t] = "handler" /\ session[pg[t]] = "clean"
    /\ session' = [session EXCEPT ![pg[t]] = "open"]
    /\ pc' = [pc EXCEPT ![t] = "working"]
    /\ UNCHANGED <<mutex, iswrite, pg, itemVars, timeout>>

BeginFails(t) ==
    /\ pc[t] = "handler"
    /\ Breaks(pg[t])
    /\ pc' = [pc EXCEPT ![t] = "failing"]
    /\ UNCHANGED <<mutex, iswrite, pg, itemVars, timeout>>

\* The statements succeed and so does COMMIT.
Commit(t) ==
    /\ pc[t] = "working" /\ session[pg[t]] = "open"
    /\ session' = [session EXCEPT ![pg[t]] = "clean"]
    /\ pc' = [pc EXCEPT ![t] = "done"]
    /\ UNCHANGED <<mutex, iswrite, pg, itemVars, timeout>>

\* mutant: the handler returns as soon as a statement fails
WorkFailsAndReturns(t) ==
    /\ pc[t] = "working"
    /\ \/ UNCHANGED session
       \/ Breaks(pg[t])
    /\ pc' = [pc EXCEPT ![t] = "done"]
    /\ UNCHANGED <<mutex, iswrite, pg, itemVars, timeout>>

\* A statement fails (the transaction stays open, aborted), its answer cannot be
\* turned into JSON, or the connection breaks: goto SE_ERROR_CLEAR.
WorkFails(t) ==
    /\ pc[t] = "working"
    /\ \/ UNCHANGED session
       \/ Breaks(pg[t])
    /\ pc' = [pc EXCEPT ![t] = "failing"]
    /\ UNCHANGED <<mutex, iswrite, pg, itemVars, timeout>>

\* COMMIT is refused: the server has ended the transaction.
CommitFails(t) ==
    /\ pc[t] = "working" /\ session[pg[t]] = "open"
    /\ session' = [session EXCEPT ![pg[t]] = "clean"]
    /\ pc' = [pc EXCEPT ![t] = "failing"]
    /\ UNCHANGED <<mutex, iswrite, pg, itemVars, timeout>>

\* SEPQ_rollback, after any failure. On a broken connection it changes nothing.
Rollback(t) ==
    /\ pc[t] = "failing"
    /\ \/ session' = [session EXCEPT ![pg[t]] = IF @ = "broken" THEN @ ELSE "clean"]
       \/ Breaks(pg[t])
    /\ pc' = [pc EXCEPT ![t] = "done"]
    /\ UNCHANGED <<mutex, iswrite, pg, itemVars, timeout>>

ReleaseForgets(t) ==   \* mutant: isuse is not cleared
    /\ pc[t] = "done"
    /\ pg' = [pg EXCEPT ![t] = NoConn]
    /\ pc' = [pc EXCEPT ![t] = "idle"]
    /\ UNCHANGED <<mutex, iswrite, itemVars, dbVars>>

\* SE_soap_serve after the handler has returned, without the mutex.
Release(t) ==
    /\ pc[t] = "done"
    /\ isuse' = [isuse EXCEPT ![pg[t]] = FALSE]
    /\ pg' = [pg EXCEPT ![t] = NoConn]
    /\ pc' = [pc EXCEPT ![t] = "idle"]
    /\ UNCHANGED <<mutex, iswrite, current, useCount, dbVars>>

Statements(t) == Commit(t) \/ WorkFails(t) \/ CommitFails(t)
Handler(t) == \/ Plain(t) \/ Begin(t) \/ BeginFails(t) \/ Statements(t)
              \/ Rollback(t) \/ Release(t)

Next == \E t \in Threads : GetDbserver(t) \/ Handler(t)

Spec == Init /\ [][Next]_vars

\* Every worker keeps running inside get_dbserver and its handler. Statements
\* are only sure to end in a session with a statement_timeout. Getting the mutex
\* is not asked to be fair: pthread_mutex_lock does not promise it.
Fairness == \A t \in Threads :
    /\ WF_vars(LookAgain(t) \/ Take(t) \/ Count(t) \/ Recycle(t))
    /\ WF_vars(Plain(t) \/ Begin(t) \/ BeginFails(t) \/ Rollback(t) \/ Release(t))
    /\ WF_vars(Statements(t) /\ timeout[pg[t]])

FairSpec == Spec /\ Fairness

-----------------------------------------------------------------------------
(* Properties. *)

\* A connection is marked as used exactly while one worker has it, although the
\* mark is taken away without the mutex, and no two workers have the same one.
LeasedOnce ==
    /\ \A c \in Conns : isuse[c] <=> \E t \in Threads : pg[t] = c
    /\ \A t, u \in Threads : pg[t] = pg[u] /\ pg[t] # NoConn => t = u

\* A connection that nobody uses is never inside a transaction: whatever the
\* handler that had it last came across, the next one finds it clean or broken.
FreeIsClean == \A c \in Conns : ~isuse[c] => session[c] # "open"

\* The leases keep the promise every user of a connection makes (ConnectionPool): a
\* connection goes to one worker at a time, only that worker changes what its session
\* is in, and it comes back outside any transaction.
HoldersOf == [c \in Conns |-> {t \in Threads : pg[t] = c}]
Lending == INSTANCE ConnectionPool WITH holders <- HoldersOf
LendingSpec == Lending!Spec

\* A statement in a session that has lost its statement_timeout, and hangs.
Hangs(t) == pc[t] = "working" /\ ~timeout[pg[t]]

\* A worker that looks for a connection with the mutex in its hand finds one and
\* gives the mutex back, as long as no worker hangs in a statement for ever: the
\* listener and the other workers, which need the same mutex for the request queue,
\* are not kept out for good, however busy the connections and often recycled.
MutexGivenBack ==
    (\A t \in Threads : []<>~Hangs(t)) => \A t \in Threads : mutex = t ~> mutex # t

\* A statement ends, at the latest when its statement_timeout has passed
\* (doc/conf.md:53).
StatementEnds == \A t \in Threads : pc[t] = "working" ~> pc[t] # "working"
-----------------------------------------------------------------------------
(* The inductive invariant behind LeasedOnce and FreeIsClean. *)

LeaseInv == \A t \in Threads : pg[t] # NoConn <=> pc[t] \in Leasing

SessionInv ==
    \A t \in Threads :
        pc[t] \in {"counting", "handler", "done"} => session[pg[t]] # "open"

PoolInv == TypeOK /\ LeasedOnce /\ FreeIsClean /\ LeaseInv /\ SessionInv
=============================================================================
