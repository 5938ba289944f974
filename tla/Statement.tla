------------------------------ MODULE Statement ------------------------------
(***************************************************************************)
(* A statement from end to end: the parameters that go to PostgreSQL       *)
(* (Params), and a cell of the result that comes back and is shown to the  *)
(* client (Cells). What the server does in between is not modelled: the    *)
(* cell is any one it may return.                                          *)
(***************************************************************************)
EXTENDS Params, Cells

CONSTANTS Results,    \* the cells a statement may return
          Zones       \* the time zones a session may have (pg->time_zone)

\* What PostgreSQL sends. A number has the decimals of its digits, of which the first
\* are not all zero, and a scale of 16 bits without sign; zero has no digits. The
\* time of a day does not begin before the day.
ASSUME ResultsAssumption ==
    /\ Zones \subseteq Int
    /\ \A c \in Results : c.kind = "numeric" =>
         /\ c.num.weight \in Int /\ c.num.dscale \in Nat
         /\ c.num.digits \in Seq([1 .. DecDigits -> 0 .. 9])
         /\ IF c.num.digits = <<>> THEN c.num.weight <= 0
            ELSE \E i \in 1 .. DecDigits : c.num.digits[1][i] # 0
    /\ \A c \in Results : c.kind # "numeric" => c.n \in Int
    /\ \A c \in Results : c.kind = "timetz" => c.n \in Nat /\ c.west \in Int

VARIABLES cell,       \* the cell that is read
          zone,       \* the time zone of the session
          shown       \* what the client reads

cellVars == <<cell, zone, shown>>
NoCell == [kind |-> "none"]

StatementInit == Init /\ cell = NoCell /\ zone = 0 /\ shown = <<>>

\* SE_reader, on one cell.
Reads ==
    /\ phase = "sent" /\ cell = NoCell
    /\ cell' \in Results /\ zone' \in Zones
    /\ shown' \in Shown(cell', zone')
    /\ UNCHANGED vars

\* The steps of Params; the result goes with the request.
Prepares ==
    /\ Next
    /\ IF phase' = "new" THEN cell' = NoCell /\ zone' = 0 /\ shown' = <<>>
       ELSE UNCHANGED cellVars

StatementNext == Prepares \/ Reads

StatementSpec == StatementInit /\ [][StatementNext]_<<vars, cellVars>>

-----------------------------------------------------------------------------
(* Properties. *)

\* The client reads the value the server sent, to the second and to the last
\* decimal, in whatever time zone the session is.
CellIsShown ==
    cell # NoCell /\ Representable(cell, zone) => RightlyShown(cell, zone, shown)

\* The text of a number stays in the block that was allocated for it, also while the
\* decimals are written that are cut off afterwards.
NumericInBlock ==
    cell # NoCell /\ cell.kind = "numeric" => Written(cell.num) <= Allocated(cell.num)
=============================================================================
