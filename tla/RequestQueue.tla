---------------------------- MODULE RequestQueue ----------------------------
(***************************************************************************)
(* What the request queue of core/se_service.c promises to the rest of the *)
(* server, with no ring, no mutex and no condition variable in sight: a    *)
(* bounded first-in first-out line of connections, each of which joins it  *)
(* at most once and is taken by exactly one worker.                        *)
(***************************************************************************)
EXTENDS Naturals, Sequences

CONSTANTS Sockets,    \* the connections that can be queued
          Workers,    \* the worker threads
          Capacity,   \* how many connections can wait
          None        \* no connection

VARIABLES waiting,    \* the connections waiting, oldest first
          held,       \* the connection each worker is serving
          served      \* the connections that were served

qvars == <<waiting, held, served>>

QInit == /\ waiting = <<>>
         /\ held = [w \in Workers |-> None]
         /\ served = {}

Line    == {waiting[i] : i \in 1 .. Len(waiting)}
InWork  == {held[w] : w \in Workers} \ {None}

\* A connection that has never been in the line joins its end.
Offer(s) == /\ Len(waiting) < Capacity
            /\ s \notin Line \cup InWork \cup served
            /\ waiting' = Append(waiting, s)
            /\ UNCHANGED <<held, served>>

\* A free worker takes the oldest connection.
Take(w) == /\ held[w] = None
           /\ waiting # <<>>
           /\ held' = [held EXCEPT ![w] = Head(waiting)]
           /\ waiting' = Tail(waiting)
           /\ UNCHANGED served

\* A worker is done with its connection.
Finish(w) == /\ held[w] # None
             /\ served' = served \cup {held[w]}
             /\ held' = [held EXCEPT ![w] = None]
             /\ UNCHANGED waiting

QNext == \/ \E s \in Sockets : Offer(s)
         \/ \E w \in Workers : Take(w) \/ Finish(w)

QSpec == QInit /\ [][QNext]_qvars
=============================================================================
