--------------------------- MODULE ConnectionPool ---------------------------
(***************************************************************************)
(* What the users of a database connection promise each other, without     *)
(* mutex, weights or handlers: a connection is lent to one thread at a     *)
(* time, nobody else touches its session, and it is given back outside any *)
(* transaction. DbPool (the workers, concurrently) and Requests (the       *)
(* handlers of one worker, step by step) both keep this promise.           *)
(***************************************************************************)
CONSTANTS Threads, Conns

VARIABLES holders,   \* the threads that have a connection
          session    \* the session behind it

Sessions == {"clean", "open", "broken"}

Init ==
    /\ holders = [c \in Conns |-> {}]
    /\ session = [c \in Conns |-> "clean"]

\* A thread that has no connection gets a free one.
Lend(t, c) ==
    /\ holders[c] = {} /\ session[c] # "open"
    /\ \A d \in Conns : t \notin holders[d]
    /\ holders' = [holders EXCEPT ![c] = {t}]
    /\ UNCHANGED session

\* Only the thread that has a connection changes what its session is in.
Use(t, c) ==
    /\ holders[c] = {t}
    /\ \E s \in Sessions : session' = [session EXCEPT ![c] = s]
    /\ UNCHANGED holders

GiveBack(t, c) ==
    /\ holders[c] = {t} /\ session[c] # "open"
    /\ holders' = [holders EXCEPT ![c] = {}]
    /\ UNCHANGED session

Next == \E t \in Threads, c \in Conns : Lend(t, c) \/ Use(t, c) \/ GiveBack(t, c)

Spec == Init /\ [][Next]_<<holders, session>>
=============================================================================
