------------------------------- MODULE Answer -------------------------------
(***************************************************************************)
(* The answer a worker builds in arg->sys (core/se_utils.c,                *)
(* core/se_pqbin.c): JSON written from left to right, with the commas that *)
(* turned out to be too many taken away afterwards, and started over when  *)
(* something fails. A text is a sequence of brackets, commas, keys (a name *)
(* in quotes and its colon) and values. Only quotes are escaped in a       *)
(* string: "lines" is one that holds a line end, and "raw" one that holds  *)
(* another control character or a backslash.                               *)
(***************************************************************************)
EXTENDS Sequences, SequencesExt, Naturals

Keys     == {"status", "msg", "error", "url", "recordset", "token", "elapsed",
             "pid", "serdbid", "connid"}
Statuses == {"200", "302", "500"}
Scalars  == Statuses \cup {"value"}
Signs    == Keys \cup Scalars \cup {"{", "}", "[", "]", ",", "lines", "raw"}

\* SE_soap_serve, before the handler runs and after it has returned.
Opening == <<"{", "status", "200", ",">>

Closed(text) ==
    text \o (IF Last(text) = "," THEN <<>> ELSE <<",">>) \o <<"elapsed", "value", "}">>

\* SE_soap_generate_message, _error and _redirect start over. A message of libpq
\* ends in a line end; the program's own are plain.
Message  == <<"{", "status", "200", ",", "msg", "value">>
Error(why) == <<"{", "status", "500", ",", "error", why>>
Redirect == <<"{", "status", "302", ",", "msg", "value", ",", "url", "value">>

\* What hello_world adds, member by member (the client's name as it came), and the
\* end of SE_make_token.
Pair(key, value) == <<key, value, ",">>
Hello(msg) == Pair("pid", "value") \o Pair("serdbid", "value") \o Pair("connid", "value")
                 \o Pair("msg", msg)
Token == <<",", "token", "value">>

-----------------------------------------------------------------------------
(* Record sets. A result of libpq has a status, a number of columns, and    *)
(* rows of cells. Arrays of any other dimension than one are not supported, *)
(* and PostgreSQL gives an empty array no dimension at all.                 *)

Scalar  == [kind |-> "scalar", size |-> 0]     \* or NULL
Raw     == [kind |-> "raw", size |-> 0]        \* JSONB, or text that needs escapes
List(n) == [kind |-> "list", size |-> n]       \* an array of one dimension
NotList == [kind |-> "notlist", size |-> 0]    \* of another one, or empty

Cells ==
    {cell \in [kind : {"scalar", "raw", "list", "notlist"}, size : Nat] :
        cell.kind = "list" => cell.size > 0}

\* What libpq hands over: every row has as many cells as there are columns.
IsResult(r) ==
    /\ r.status \in {"command", "tuples"} /\ r.cols \in Nat
    /\ r.rows \in Seq(Seq(Cells))
    /\ \A i \in DOMAIN r.rows : Len(r.rows[i]) = r.cols

\* A result every row of which can be written: there are rows, or none are due,
\* and no cell is an array that is not supported, or needs escapes.
Plain(r) ==
    r.status = "tuples" /\ r.cols > 0 =>
        /\ r.rows # <<>>
        /\ \A i \in DOMAIN r.rows : \A j \in DOMAIN r.rows[i] :
             r.rows[i][j].kind \in {"scalar", "list"}

\* SEPQ_parse_one_array_elem: every element has its comma, the last one loses it.
ListText(n) == Front([i \in 1 .. 2 * n |-> IF i % 2 = 1 THEN "value" ELSE ","])

\* One cell of SE_reader. For JSONB the length still counts the version byte that
\* was skipped, so a NUL follows the text. The array that is not supported starts
\* the answer over with an error (SEPQ_parse_one_array), and SE_reader goes on.
AddCell(text, cell) ==
    CASE cell.kind = "scalar" -> Append(text, "value")
      [] cell.kind = "raw"    -> Append(text, "raw")
      [] cell.kind = "list"   ->
            text \o (IF Last(text) = "]" THEN <<",", "[">> ELSE <<"[">>)
                 \o ListText(cell.size) \o <<"]">>
      [] OTHER -> Error("value")

\* Every cell of a row is followed by a comma.
NextCell(text, cell) == Append(AddCell(text, cell), ",")

RowKeepsComma(text, row) ==   \* mutant: the comma of the last cell stays
    LET cells == FoldLeft(NextCell, Append(text, "["), row)
    IN  cells \o <<"]", ",">>

\* One row: its cells each with a comma, of which the last one goes.
AddRow(text, row) ==
    LET cells == FoldLeft(NextCell, Append(text, "["), row)
    IN  Front(cells) \o <<"]", ",">>

\* SE_reader: a result without columns is one row of null; otherwise the last
\* character is taken away, whatever it is.
AddRows(text, result) ==
    IF result.cols = 0 THEN text \o <<"[", "value", "]">>
    ELSE Front(FoldLeft(AddRow, text, result.rows))

\* The bracket that closed the last record set becomes a comma.
OpenRecordset(text) ==
    IF Last(text) = "]" THEN Front(text) \o <<",", "[">>
    ELSE text \o <<"recordset", "[", "[">>

\* SE_soap_generate_recordset; a failed statement has no record set.
AddRecordset(text, result) ==
    CASE result.status = "command" -> OpenRecordset(text) \o <<"]", "]">>
      [] result.status = "tuples"  -> AddRows(OpenRecordset(text), result) \o <<"]", "]">>
      [] OTHER                     -> Error("lines")

-----------------------------------------------------------------------------
(* What a client makes of a text: the rules of JSON, read from left to     *)
(* right. open has the brackets that are still open; want is what may come *)
(* next.                                                                   *)

Ended(open) == [want |-> IF open = <<>> THEN "nothing" ELSE "comma", open |-> open]

Reads(s, sign) ==
    LET values == s.want \in {"value", "first"}
        top    == IF s.open = <<>> THEN "" ELSE Last(s.open)
    IN  CASE sign \in Scalars /\ values -> Ended(s.open)
          [] sign = "[" /\ values -> [want |-> "first", open |-> Append(s.open, "[")]
          [] sign = "{" /\ values -> [want |-> "key", open |-> Append(s.open, "{")]
          [] sign \in Keys /\ s.want = "key" -> [s EXCEPT !.want = "value"]
          [] sign = "," /\ s.want = "comma" ->
                [s EXCEPT !.want = IF top = "[" THEN "value" ELSE "key"]
          [] sign = "]" /\ top = "[" /\ s.want \in {"first", "comma"} -> Ended(Front(s.open))
          [] sign = "}" /\ top = "{" /\ s.want = "comma" -> Ended(Front(s.open))
          [] OTHER -> [s EXCEPT !.want = "error"]

IsJson(text) ==
    FoldLeft(Reads, [want |-> "value", open |-> <<>>], text).want = "nothing"

\* The text as a client reads it that lets line ends pass in strings.
LinesAside(text) == [i \in DOMAIN text |-> IF text[i] = "lines" THEN "value" ELSE text[i]]
=============================================================================
