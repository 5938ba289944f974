------------------------------ MODULE MCStatement -----------------------------
(* Values of Statement for TLC. *)
EXTENDS Statement

Calling(kind, datas) == {[kind |-> kind, data |-> d] : d \in datas}

Long   == <<1, 2, 3>>
Plain  == <<1, 2, Dash, 3, 1>>                       \* the two formats of a uuid
Braced == <<Brace, 3, 2, Dash, 1, 3, EndBrace>>
Half   == <<1, Brace, 2, Dash, 3>>
Blobs  == {<<255>>, <<1, 0>>, <<0, 128, 255>>, <<7, 0, 64, 3>>}

MCCalls ==
    UNION {Calling("null", {<<>>}),
           Calling("fixed", {<<<<1>>>>, <<<<0, 2>>>>}),
           Calling("text", {<<<<>>>>, <<<<1>>>>, <<Long>>}),
           Calling("date", {<<<<1, 2>>>>, <<Long>>}),
           Calling("jsonb", {<<<<>>>>, <<<<1, 2>>>>}),
           Calling("bytea", {<<Encode(b)>> : b \in Blobs}
                                \cup {<<<<>>>>, <<<<1, 2, 3>>>>, <<<<1, Junk, 3, 4>>>>,
                                      <<<<1, Padding, 3, 4>>>>, <<<<1, 1, Padding, Padding>>>>}),
           Calling("uuid", {<<Plain>>, <<Braced>>, <<Half>>, <<<<1, 2, 3, 1>>>>,
                           <<<<Brace, 3, 2, 1, 3, EndBrace>>>>}),
           Calling("fixedlist", {<<>>, <<<<1>>, <<2>>>>, <<<<1, 2>>, <<0, 1>>, <<2, 2>>>>}),
           Calling("textlist", {<<>>, <<Long, <<2>>>>, <<NoText, <<1>>>>, <<<<>>, <<1>>>>}),
           Calling("uuidlist", {<<>>, <<Plain, Braced>>, <<<<1>>, Plain>>, <<Plain, Half>>,
                                <<NoText, Plain>>})}

\* Numbers of up to three digits of two decimals, dates on both sides of the year
\* 2000 and of the last one whose seconds fit, times with and without a fraction, the
\* last interval whose hours fit as seconds, and one whose hours do not fit at all.
Numeric(sign, weight, dscale, digits) ==
    [kind |-> "numeric", n |-> 0, west |-> 0,
     num |-> [sign |-> sign, weight |-> weight, dscale |-> dscale, digits |-> digits]]
NoNumber == [sign |-> "pos", weight |-> 0, dscale |-> 0, digits |-> <<>>]
Dated(kind, n, west) == [kind |-> kind, n |-> n, west |-> west, num |-> NoNumber]

MCZones == {-12600, -2670, 0, 28800}

MCResults ==
    {Numeric(s, w, d, g) : s \in {"pos", "neg"}, w \in -2 .. 1, d \in 0 .. 3,
                           g \in {<<<<0, 7>>>>, <<<<1, 0>>, <<2, 0>>>>}}
    \cup {Numeric("pos", 0, d, <<>>) : d \in 0 .. 1}
    \cup {Numeric("pos", 2, 1, <<<<1, 2>>, <<0, 3>>>>), Numeric("nan", 0, 0, <<>>)}
    \cup {Dated("date", n, 0) : n \in {-4, -1, 0, 1, 3, 6000, IntMax}}
    \cup {Dated(k, n, 0) : k \in {"timestamp", "timestamptz"},
                           n \in {-6, -4, 0, 14402, Infinity, -Infinity - 1}}
    \cup {Dated(k, n, 0) : k \in {"time", "interval"}, n \in {0, 239, 14644, 345598}}
    \cup {Dated("interval", n, 0) : n \in {-14644, 532799, 532800, 1887451000}}
    \cup {Dated("timetz", n, w) : n \in {0, 345596}, w \in {-28800, 16200}}
=============================================================================
