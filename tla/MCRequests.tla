----------------------------- MODULE MCRequests -----------------------------
(* Values of Requests for TLC. *)
EXTENDS Requests

Tuples(cols, rows) == [status |-> "tuples", cols |-> cols, rows |-> rows]

\* A command, rows without columns, one row of two scalars, two rows with a list,
\* and the results that are not plain: no rows, an empty array, text
\* that would need escapes.
MCResults ==
    {[status |-> "command", cols |-> 0, rows |-> <<>>],
     Tuples(0, <<<<>>>>),
     Tuples(2, <<<<Scalar, Scalar>>>>),
     Tuples(2, <<<<List(1), Scalar>>, <<List(2), List(1)>>>>),
     Tuples(1, <<>>),
     Tuples(2, <<<<NotList, Scalar>>>>),
     Tuples(1, <<<<Raw>>>>)}

\* Commands, rows of plain cells, and a query that finds nothing.
MCPlainResults ==
    {[status |-> "command", cols |-> 0, rows |-> <<>>],
     Tuples(2, <<<<List(1), Scalar>>, <<List(2), List(1)>>>>),
     Tuples(1, <<>>)}
=============================================================================
