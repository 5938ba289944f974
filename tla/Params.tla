------------------------------- MODULE Params -------------------------------
(***************************************************************************)
(* The parameters of a statement (core/se_params.c): an array of values in *)
(* the binary format of PostgreSQL, each in a block of the request's       *)
(* memory, built by the SEPQ_params_add functions, handed to libpq, and    *)
(* released. Memory is counted in cells, of which a character, a byte and  *)
(* an int32_t take one each; a cell holds a number.                        *)
(***************************************************************************)
EXTENDS Base64, FiniteSets, TLC

CONSTANTS Count,      \* params->count
          Calls,      \* the values a handler may set: [kind, data]
          UuidLen,    \* UUID_LEN
          UuidText,   \* the shortest text that is parsed as a uuid (36)
          DateMax     \* the longest text of a date or time (32)

Arrays == {"fixedlist", "textlist", "uuidlist"}
Kinds  == Arrays \cup {"null", "fixed", "bytea", "text", "date", "jsonb", "uuid"}

\* A call has data of its kind: a number has bytes, all but arrays one element, and
\* NULL none.
ASSUME ParamsAssumption ==
    /\ Count \in Nat \ {0} /\ UuidLen \in Nat \ {0}
    /\ UuidText \in Nat /\ DateMax \in Nat
    /\ \A call \in Calls :
         /\ call.kind \in Kinds /\ call.data \in Seq(Seq(Int))
         /\ call.kind \notin Arrays => Len(call.data) = IF call.kind = "null" THEN 0 ELSE 1
         /\ call.kind = "fixed" => call.data[1] # <<>>

Slots == 0 .. Count - 1

VARIABLES phase,      \* how far the handler is
          live,       \* the blocks that are allocated
          values,     \* params->values: NULL, or the cells of a block
          lengths,    \* params->lengths
          given       \* history: what the handler has set each parameter to

vars == <<phase, live, values, lengths, given>>

-----------------------------------------------------------------------------
(* Memory. A block is the sequence of its cells; one that is written beyond *)
(* its end is longer than it was made.                                      *)

Garbage == -1     \* what a cell holds that was never written

\* What is written from the start of a new block of size cells.
Block(size, written) == written \o [i \in 1 .. size - Len(written) |-> Garbage]

NULL == [size |-> 0, cells |-> <<>>]
Value(size, written) == [size |-> size, cells |-> Block(size, written)]

-----------------------------------------------------------------------------
(* What a handler sets a parameter to. data is the list of its elements, of *)
(* which only an array has any number but one: the bytes of a number (most  *)
(* significant first), or the characters of a text.                         *)

NoText == <<-2>>                  \* an element that is a NULL pointer
Brace == 20   EndBrace == 21   Dash == 22      \* all other characters are digits
NotSet == [kind |-> "none", data |-> <<>>]

\* string_to_uuid reads the bytes it can before it stops, and leaves the others as
\* they are; its result is not looked at. (A byte has one digit here, not two.)
ReadByte(s, i) ==
    LET c == s.text[s.at]
    IN  IF s.stopped \/ s.at > Len(s.text) \/ c \in {Brace, EndBrace, Dash}
        THEN [s EXCEPT !.stopped = TRUE]
        ELSE [s EXCEPT !.bytes = Append(@, c),
                       !.at = IF /\ s.at < Len(s.text) /\ s.text[s.at + 1] = Dash
                                 /\ i % 2 = 0 /\ i < UuidLen
                              THEN @ + 2 ELSE @ + 1]

Parsed(text) ==
    FoldLeft(ReadByte,
             [text |-> text, bytes |-> <<>>, stopped |-> FALSE,
              at |-> IF text # <<>> /\ text[1] = Brace THEN 2 ELSE 1],
             [i \in 1 .. UuidLen |-> i]).bytes

Uuid(text, before) ==
    LET bytes == IF Len(text) >= UuidText THEN Parsed(text) ELSE <<>>
    IN  [i \in 1 .. UuidLen |-> IF i <= Len(bytes) THEN bytes[i] ELSE before[i]]

Zeros   == [i \in 1 .. UuidLen |-> 0]
Unknown == [i \in 1 .. UuidLen |-> Garbage]

Absent(text) == text = NoText \/ text = <<>>
ArrayHeader(hasNull, size) == <<1, IF hasNull THEN 1 ELSE 0, 7, size, 1>>   \* 7: an OID
Prefixed(element) == <<Len(element)>> \o element

MeasuredUnprefixed(sizes) ==   \* mutant: the lengths are not counted
    5 + SumFunctionOnSet(sizes, DOMAIN sizes)

\* The cells of an array whose elements have these sizes, each behind its length.
Measured(sizes) == 5 + SumFunctionOnSet([i \in DOMAIN sizes |-> 1 + sizes[i]], DOMAIN sizes)

\* SEPQ_params_add_array.
FixedArray(data) ==
    Value(Measured([i \in DOMAIN data |-> Len(data[i])]),
          ArrayHeader(FALSE, Len(data)) \o FlattenSeq([i \in DOMAIN data |-> Prefixed(data[i])]))

\* SEPQ_params_add_strarray. The memory is measured with a length for every element;
\* elements that are absent are then passed over when it is written. The variable
\* uuids are parsed into is never set to zero, and keeps what it has.
SizeOf(text, isUuid) ==
    IF text = NoText THEN 0 ELSE IF isUuid THEN UuidLen ELSE Len(text)

TextArray(data, isUuid) ==
    LET hasNull == \E i \in DOMAIN data : data[i] = NoText
        uuid[i \in 0 .. Len(data)] ==
            IF i = 0 THEN Unknown
            ELSE IF Absent(data[i]) THEN uuid[i - 1] ELSE Uuid(data[i], uuid[i - 1])
        element(i) == IF Absent(data[i]) THEN <<>>
                      ELSE Prefixed(IF isUuid THEN Uuid(data[i], uuid[i - 1]) ELSE data[i])
    IN  Value(Measured([i \in DOMAIN data |-> SizeOf(data[i], isUuid)]),
              ArrayHeader(hasNull, Len(data)) \o FlattenSeq([i \in DOMAIN data |-> element(i)]))

JsonbUnversioned(text) ==   \* mutant: the version byte is not written
    Value(Len(text) + 3, text \o <<0, 0>>)

\* SEPQ_params_add_string copies a text with the NUL behind it; for JSONB a version
\* byte goes in front, and the NUL is copied and written once more.
Jsonb(text) == Value(Len(text) + 3, <<1>> \o text \o <<0, 0>>)

-----------------------------------------------------------------------------
(* The value a call makes, the length that goes with it, and the calls that *)
(* are refused before there is one.                                         *)

Made(call) ==
    LET text == call.data[1]
    IN  CASE call.kind = "null"      -> NULL
          [] call.kind = "fixed"     -> Value(Len(text), text)
          [] call.kind = "bytea"     -> Value(DecodedLen(Len(text)) + 1,
                                              Decode(text).out \o <<0>>)
          [] call.kind \in {"text", "date"} -> Value(Len(text) + 1, text \o <<0>>)
          [] call.kind = "jsonb"     -> Jsonb(text)
          [] call.kind = "uuid"      -> Value(UuidLen, Uuid(text, Zeros))
          [] call.kind = "fixedlist" -> FixedArray(call.data)
          [] call.kind = "textlist"  -> TextArray(call.data, FALSE)
          [] call.kind = "uuidlist"  -> TextArray(call.data, TRUE)

Length(call) ==
    LET text == call.data[1]
    IN  CASE call.kind = "bytea"            -> Decode(text).rc
          [] call.kind \in {"text", "date"} -> Len(text)
          [] call.kind = "jsonb"            -> Len(text) + 1
          [] OTHER                          -> Made(call).size

RefusedUndecoded(call) ==   \* mutant: the result code of pg_b64_decode is not tested
    \/ call.kind \in Arrays /\ call.data = <<>>
    \/ call.kind = "date" /\ Len(call.data[1]) > DateMax
    \/ call.kind = "bytea" /\ call.data[1] = <<>>

Refused(call) ==
    \/ call.kind \in Arrays /\ call.data = <<>>
    \/ call.kind = "date" /\ Len(call.data[1]) > DateMax
    \/ call.kind = "bytea" /\ (call.data[1] = <<>> \/ Decode(call.data[1]).rc = -1)

-----------------------------------------------------------------------------
\* The blocks SEPQ_params_create makes, in this order, and those of the values.
\* Others of the request are in use as well.
Frame == <<<<"params", 0>>, <<"types", 0>>, <<"values", 0>>, <<"lengths", 0>>, <<"formats", 0>>>>
BlocksOf(slots) == {<<"value", i>> : i \in slots}
Rest  == <<"rest", 0>>

Init ==
    /\ phase = "new" /\ live = {Rest}
    /\ values = [i \in Slots |-> NULL] /\ lengths = [i \in Slots |-> 0]
    /\ given = [i \in Slots |-> NotSet]

Create ==
    /\ phase = "new" /\ phase' = "adding"
    /\ live' = live \cup Range(Frame)
    /\ UNCHANGED <<values, lengths, given>>

\* There is no memory for the block n, and what was made is released. When the array
\* of the values is there, but was not set to zero yet, the pointers in it are
\* garbage: releasing them does nothing, unless one happens to be a block in use.
CreateFails ==
    /\ phase = "new" /\ phase' = "freed"
    /\ \E n \in DOMAIN Frame :
          \/ live' = live
          \/ n > 3 /\ live' = live \ {Rest}
    /\ UNCHANGED <<values, lengths, given>>

\* A parameter that was set to NULL can be set again.
Add(i, call) ==
    /\ phase = "adding" /\ values[i] = NULL /\ ~Refused(call)
    /\ values' = [values EXCEPT ![i] = Made(call)]
    /\ lengths' = [lengths EXCEPT ![i] = Length(call)]
    /\ live' = IF call.kind = "null" THEN live ELSE live \cup BlocksOf({i})
    /\ given' = [given EXCEPT ![i] = call]
    /\ UNCHANGED phase

\* The functions for numbers and BYTEA release the value of the parameter when
\* anything fails, also the one it was set to before, and leave the pointer.
Releases(i, call) ==
    IF values[i] # NULL /\ call.kind \in {"fixed", "bytea"} THEN BlocksOf({i}) ELSE {}

AddFailsUnseen(i, call) ==   \* mutant: the handler goes on
    /\ phase = "adding"
    /\ values[i] # NULL \/ Refused(call) \/ call.kind # "null"
    /\ live' = live \ Releases(i, call)
    /\ UNCHANGED <<phase, values, lengths, given>>

\* The parameter was set before, the value is refused, or there is no memory for it.
AddFails(i, call) ==
    /\ phase = "adding" /\ phase' = "failing"
    /\ values[i] # NULL \/ Refused(call) \/ call.kind # "null"
    /\ live' = live \ Releases(i, call)
    /\ UNCHANGED <<values, lengths, given>>

\* PQexecParams, when the handler has set every parameter.
Send ==
    /\ phase = "adding" /\ phase' = "sent"
    /\ \A i \in Slots : given[i] # NotSet
    /\ UNCHANGED <<live, values, lengths, given>>

FreeKeepsValues ==   \* mutant: the array goes, its values stay
    /\ phase \in {"sent", "failing"} /\ phase' = "freed"
    /\ live' = live \ Range(Frame)
    /\ UNCHANGED <<values, lengths, given>>

\* SEPQ_params_free. Releasing what was released before does nothing.
Free ==
    /\ phase \in {"sent", "failing"} /\ phase' = "freed"
    /\ live' = live \ (Range(Frame) \cup BlocksOf({i \in Slots : values[i] # NULL}))
    /\ UNCHANGED <<values, lengths, given>>

\* The request is over, with or without SEPQ_params_free: soap_end releases it all,
\* and the next request begins.
Finish ==
    /\ phase \in {"sent", "failing", "freed"} /\ phase' = "new"
    /\ live' = {Rest}
    /\ values' = [i \in Slots |-> NULL] /\ lengths' = [i \in Slots |-> 0]
    /\ given' = [i \in Slots |-> NotSet]

Next ==
    \/ Create \/ CreateFails \/ Send \/ Free \/ Finish
    \/ \E i \in Slots, call \in Calls : Add(i, call) \/ AddFails(i, call)

Spec == Init /\ [][Next]_vars

-----------------------------------------------------------------------------
(* What PostgreSQL makes of a value it is sent, by the format the comment in  *)
(* SEPQ_parse_one_array gives.                                              *)

NextElement(r, i) ==
    IF r.at > Len(r.sent) THEN [r EXCEPT !.at = Len(r.sent) + 2]
    ELSE [r EXCEPT !.at = @ + 1 + r.sent[r.at],
                   !.got = Append(@, SubSeq(r.sent, r.at + 1, r.at + r.sent[r.at]))]

ElementsOf(sent) ==
    LET end == FoldLeft(NextElement, [sent |-> sent, at |-> 6, got |-> <<>>],
                        [i \in 1 .. sent[4] |-> i])
    IN  IF end.at = Len(sent) + 1 THEN end.got ELSE <<NoText>>

Understood(kind, sent) ==
    CASE kind = "null"  -> <<>>
      [] kind \in Arrays -> ElementsOf(sent)
      [] kind = "bytea" -> <<Encode(sent)>>
      [] kind = "jsonb" -> IF sent[1] = 1 THEN <<Tail(sent)>> ELSE <<NoText>>
      [] OTHER          -> <<sent>>

Digits(text) ==
    FlattenSeq([i \in DOMAIN text |->
        IF text[i] \in {Brace, EndBrace, Dash} THEN <<>> ELSE <<text[i]>>])
Meant(call) ==
    IF call.kind \in {"uuid", "uuidlist"}
    THEN [i \in DOMAIN call.data |-> Digits(call.data[i])] ELSE call.data

\* A value is regular when its elements are all there, its uuids are complete and in
\* one of the two formats the comments name, with the dashes behind even numbers of
\* bytes, and the text of a BYTEA is base64.
Dashed(digits, dashes) ==
    FlattenSeq([i \in DOMAIN digits |->
        IF i \in dashes THEN <<digits[i], Dash>> ELSE <<digits[i]>>])

IsUuid(text) ==
    LET digits == Digits(text)
    IN  /\ Len(digits) = UuidLen /\ Len(text) >= UuidText
        /\ \E dashes \in SUBSET {i \in 1 .. UuidLen - 1 : i % 2 = 0} :
              text \in {Dashed(digits, dashes),
                       <<Brace>> \o Dashed(digits, dashes) \o <<EndBrace>>}

Regular(call) ==
    /\ call.kind \in Arrays => \A i \in DOMAIN call.data : ~Absent(call.data[i])
    /\ call.kind \in {"uuid", "uuidlist"} => \A i \in DOMAIN call.data : IsUuid(call.data[i])
    /\ call.kind = "bytea" => IsBase64(call.data[1])

-----------------------------------------------------------------------------
(* Properties. *)

\* Every variable keeps its shape; a length is never the code of an error.
TypeOK ==
    /\ phase \in {"new", "adding", "failing", "sent", "freed"}
    /\ live \subseteq Range(Frame) \cup BlocksOf(Slots) \cup {Rest}
    /\ \A i \in Slots : values[i].size \in Nat /\ lengths[i] \in Nat
    /\ given \in [Slots -> Calls \cup {NotSet}]

\* No value is written beyond its block (SE_memcpy is given the size of what it
\* copies, not of the block), and no byte beyond it is sent.
StaysInBlock ==
    \A i \in Slots : Len(values[i].cells) = values[i].size /\ lengths[i] <= values[i].size

\* PostgreSQL understands what the handler has set, for every type, as long as the
\* elements of an array are all there and a uuid is one.
SentIsGiven ==
    phase = "sent" => \A i \in Slots : Regular(given[i]) =>
        Understood(given[i].kind, SubSeq(values[i].cells, 1, lengths[i])) = Meant(given[i])

\* A statement is never given a value that was released when another call failed.
NothingFreedIsSent == phase = "sent" => \A i \in Slots : values[i] # NULL => <<"value", i>> \in live

\* SEPQ_params_free leaves nothing of the parameters behind, however far they were
\* built.
NothingLeft == phase = "freed" => live \subseteq {Rest}
=============================================================================
