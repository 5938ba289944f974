--------------------------- MODULE StatementProofs ---------------------------
(***************************************************************************)
(* What holds of a statement for every number of parameters, every call    *)
(* and every value that comes back: the memory of the parameters is used,  *)
(* filled and released as it should be, PostgreSQL reads in it what the    *)
(* handler set, the text of a NUMERIC stays in its block, and a cell is    *)
(* shown as the value it is.                                               *)
(***************************************************************************)
EXTENDS Statement, SharedFacts

-----------------------------------------------------------------------------
(* pg_b64_decode. *)

Decoding == [buf : Int, pos : 0 .. 3, end : 0 .. 2, out : Seq(Int), ok : BOOLEAN]
Held(s)  == 4 * Len(s.out) + 3 * s.pos
OneRead(s, t) == t \in Decoding /\ Held(t) <= Held(s) + 3

LEMMA HeldType == \A s \in Decoding : Held(s) \in Int
BY DEF Held, Decoding

LEMMA BytesHold ==
    ASSUME NEW buf \in Int, NEW end \in 0 .. 2
    PROVE  Bytes(buf, end) \in Seq(Int) /\ Len(Bytes(buf, end)) <= 3
<1> DEFINE a == buf \div 256^2
           b == (buf \div 256) % 256
           c == buf % 256
<1>1. a \in Int /\ b \in Int /\ c \in Int
  OBVIOUS
<1>2. Bytes(buf, end) = <<a>> \o (IF end = 0 \/ end > 1 THEN <<b>> ELSE <<>>)
                              \o (IF end = 0 \/ end > 2 THEN <<c>> ELSE <<>>)
  BY DEF Bytes
<1> HIDE DEF a, b, c
<1> QED BY <1>1, <1>2

LEMMA TakeHolds ==
    ASSUME NEW s \in Decoding, NEW b \in Int
    PROVE  OneRead(s, Take(s, b))
<1>0. /\ s.buf \in Int /\ s.pos \in 0 .. 3 /\ s.end \in 0 .. 2 /\ s.out \in Seq(Int)
      /\ s.ok \in BOOLEAN /\ Len(s.out) \in Nat
  BY DEF Decoding
<1>1. CASE s.pos < 3
  <2>1. Take(s, b) = [s EXCEPT !.buf = @ * 64 + b, !.pos = @ + 1]
    BY <1>1 DEF Take
  <2>2. s.buf * 64 + b \in Int /\ s.pos + 1 \in 0 .. 3
    BY <1>0, <1>1
  <2>3. Take(s, b) \in Decoding /\ Take(s, b).out = s.out /\ Take(s, b).pos = s.pos + 1
    BY <2>1, <2>2 DEF Decoding
  <2> QED BY <1>0, <2>3 DEF OneRead, Held
<1>2. CASE ~(s.pos < 3)
  <2> DEFINE more == Bytes(s.buf * 64 + b, s.end)
  <2>1. Take(s, b) = [s EXCEPT !.out = @ \o more, !.buf = 0, !.pos = 0]
    BY <1>2 DEF Take
  <2>2. more \in Seq(Int) /\ Len(more) <= 3
    <3>1. s.buf * 64 + b \in Int
      BY <1>0
    <3> QED BY <1>0, <3>1, BytesHold
  <2> HIDE DEF more
  <2>3. s.out \o more \in Seq(Int) /\ Len(s.out \o more) = Len(s.out) + Len(more)
    BY <1>0, <2>2
  <2> DEFINE out == s.out \o more
  <2> HIDE DEF out
  <2>4. Take(s, b) \in Decoding /\ Take(s, b).out = s.out \o more /\ Take(s, b).pos = 0
    <3>1. Take(s, b) = [s EXCEPT !.out = out, !.buf = 0, !.pos = 0]
      BY <2>1 DEF out
    <3>2. out \in Seq(Int)
      BY <2>3 DEF out
    <3> DEFINE t == [buf |-> 0, pos |-> 0, end |-> s.end, out |-> out, ok |-> s.ok]
    <3>3. Take(s, b) = t
      BY <3>1 DEF Decoding
    <3>4. t \in Decoding /\ t.out = out /\ t.pos = 0
      BY <1>0, <3>2 DEF Decoding
    <3> HIDE DEF t
    <3>5. Take(s, b) \in Decoding /\ Take(s, b).out = out /\ Take(s, b).pos = 0
      BY <3>3, <3>4
    <3> QED BY <3>5 DEF out
  <2>5. Len(more) \in Nat
    BY <2>2
  <2> QED BY <1>0, <1>2, <2>2, <2>3, <2>4, <2>5 DEF OneRead, Held
<1> QED BY <1>1, <1>2

LEMMA ReadHolds ==
    ASSUME NEW s \in Decoding, NEW c \in Int
    PROVE  OneRead(s, Read(s, c))
<1>0. Held(s) \in Int
  BY DEF Held, Decoding
<1>1. OneRead(s, [s EXCEPT !.ok = FALSE])
  <2>1. [s EXCEPT !.ok = FALSE] \in Decoding
    BY DEF Decoding
  <2>2. Held([s EXCEPT !.ok = FALSE]) = Held(s)
    BY DEF Held, Decoding
  <2> QED BY <1>0, <2>1, <2>2 DEF OneRead
<1>2. ASSUME s.pos \in {2, 3}
      PROVE  OneRead(s, Take([s EXCEPT !.end = s.pos - 1], 0))
  <2> DEFINE t == [s EXCEPT !.end = s.pos - 1]
  <2>1. t \in Decoding
    BY <1>2 DEF Decoding
  <2>2. Held(t) = Held(s)
    BY DEF Held, Decoding
  <2> HIDE DEF t
  <2>3. OneRead(t, Take(t, 0))
    BY <2>1, TakeHolds
  <2> QED BY <2>2, <2>3 DEF OneRead, t
<1>3. OneRead(s, Take(s, c)) /\ OneRead(s, Take(s, 0))
  BY TakeHolds
<1> QED BY <1>1, <1>2, <1>3 DEF Read

\* A text is decoded symbol by symbol.
SymbolsAlong(k, s, V, base) ==
    /\ k \in [0 .. Len(s) -> V] /\ k[0] = base /\ k[Len(s)] = FoldLeft(Read, base, s)
    /\ \A i \in 1 .. Len(s) : k[i] = Read(k[i - 1], s[i])

LEMMA SymbolsRun ==
    ASSUME NEW V, NEW base \in V, NEW X, NEW s \in Seq(X),
           \A v \in V, x \in X : Read(v, x) \in V
    PROVE  \E k : SymbolsAlong(k, s, V, base)
<1>1. Len(s) \in Nat /\ DOMAIN s = 1 .. Len(s) /\ \A i \in DOMAIN s : s[i] \in X
  OBVIOUS
<1> DEFINE n == Len(s)
           D == DOMAIN s
           step == [i \in D |-> [v \in V |-> Read(v, s[i])]]
           iter == CHOOSE g : g = [t \in SUBSET D |-> IF t = {} THEN base
                                     ELSE Read(g[t \ {Max(t)}], s[Max(t)])]
<1>2. FoldLeft(Read, base, s) = iter[D]
  BY DEF FoldLeft, MapThenFoldSet
<1>0. n \in Nat /\ D = 1 .. n /\ \A i \in D : s[i] \in X
  BY <1>1
<1> HIDE DEF n, D
<1>3. \A i \in D, v \in V : step[i][v] \in V /\ step[i][v] = Read(v, s[i])
  BY <1>0
<1>4. Positions(D, n) /\ Maps(step, D, V)
  BY <1>0, <1>3 DEF Positions, Maps
<1> HIDE DEF step
<1>5. PICK h : FoldsDown(h, D, V, base, step)
  BY <1>4, FoldOfPositions
<1>6. h = [t \in SUBSET D |-> IF t = {} THEN base ELSE Read(h[t \ {Max(t)}], s[Max(t)])]
  <2>1. ASSUME NEW t \in SUBSET D, t # {}
        PROVE  h[t] = Read(h[t \ {Max(t)}], s[Max(t)])
    <3>1. Max(t) \in D /\ h[t] = step[Max(t)][h[t \ {Max(t)}]] /\ h[t \ {Max(t)}] \in V
      BY <1>5, <2>1 DEF FoldsDown
    <3> QED BY <1>3, <3>1
  <2> QED BY <1>5, <2>1 DEF FoldsDown
<1>7. iter = [t \in SUBSET D |-> IF t = {} THEN base
                                 ELSE Read(iter[t \ {Max(t)}], s[Max(t)])]
  BY <1>6
<1> HIDE DEF iter
<1>8. Follows(iter, D, V, base, step)
  <2>1. ASSUME NEW t \in SUBSET D, t # {}, iter[t \ {Max(t)}] \in V
        PROVE  iter[t] = step[Max(t)][iter[t \ {Max(t)}]]
    <3>1. Max(t) \in D
      BY <1>5, <2>1 DEF FoldsDown
    <3>2. iter[t] = Read(iter[t \ {Max(t)}], s[Max(t)])
      BY <1>7, <2>1
    <3> QED BY <1>3, <2>1, <3>1, <3>2
  <2> QED BY <1>7, <2>1 DEF Follows
<1>9. PICK k : Runs(k, n, V, base, step, iter[D])
  BY <1>4, <1>5, <1>8, FoldFollowed
<1>10. \A i \in 1 .. n : k[i] = Read(k[i - 1], s[i])
  <2> SUFFICES ASSUME NEW i \in 1 .. n PROVE k[i] = Read(k[i - 1], s[i])
    OBVIOUS
  <2>1. k[i - 1] \in V /\ k[i] = step[i][k[i - 1]]
    BY <1>0, <1>9 DEF Runs
  <2>2. i \in D
    BY <1>0
  <2> QED BY <1>3, <2>1, <2>2
<1>11. SymbolsAlong(k, s, V, base)
  BY <1>2, <1>9, <1>10 DEF n, Runs, SymbolsAlong
<1> QED BY <1>11


\* What is decoded of a text, also of one that breaks off, takes no more than three
\* bytes for four symbols.
LEMMA DecodeFits ==
    ASSUME NEW text \in Seq(Int)
    PROVE  /\ Decode(text).out \in Seq(Int) /\ Len(Decode(text).out) <= DecodedLen(Len(text))
           /\ Decode(text).rc = -1 \/ Decode(text).rc = Len(Decode(text).out)
           /\ DecodedLen(Len(text)) \in Nat
<1> DEFINE base == [buf |-> 0, pos |-> 0, end |-> 0, out |-> <<>>, ok |-> TRUE]
           n == Len(text)
           last == FoldLeft(Read, base, text)
<1>1. base \in Decoding /\ Held(base) = 0
  BY DEF Decoding, Held
<1>2. \A v \in Decoding, x \in Int : Read(v, x) \in Decoding
  BY ReadHolds DEF OneRead
<1>3. n \in Nat
  OBVIOUS
<1> HIDE DEF base
<1>4. PICK k : SymbolsAlong(k, text, Decoding, base)
  BY <1>1, <1>2, SymbolsRun
<1>5. /\ k \in [0 .. n -> Decoding] /\ k[0] = base /\ k[n] = last
      /\ \A i \in 1 .. n : k[i] = Read(k[i - 1], text[i])
  BY <1>4 DEF SymbolsAlong
<1> HIDE DEF last
<1>6. \A i \in 1 .. n : text[i] \in Int
  OBVIOUS
<1> HIDE DEF n
<1> DEFINE S == {i \in Nat : i <= n => Held(k[i]) <= 3 * i}
<1>7. 0 \in S
  BY <1>1, <1>5
<1>8. ASSUME NEW i \in Nat, i \in S
      PROVE  i + 1 \in S
  <2> SUFFICES ASSUME i + 1 <= n PROVE Held(k[i + 1]) <= 3 * (i + 1)
    OBVIOUS
  <2>1. k[i + 1] = Read(k[i], text[i + 1]) /\ k[i] \in Decoding /\ text[i + 1] \in Int
    <3>1. i + 1 \in 1 .. n /\ (i + 1) - 1 = i /\ i \in 0 .. n
      BY <1>3
    <3> QED BY <1>5, <1>6, <3>1
  <2>2. Held(k[i + 1]) <= Held(k[i]) + 3 /\ k[i + 1] \in Decoding
    BY <2>1, ReadHolds DEF OneRead
  <2>3. Held(k[i]) \in Int /\ Held(k[i + 1]) \in Int
    BY <2>1, <2>2, HeldType
  <2>4. Held(k[i]) <= 3 * i
    BY <1>3, <1>8
  <2> QED BY <2>2, <2>3, <2>4
<1>9. Held(last) <= 3 * n
  <2> HIDE DEF S
  <2>1. n \in S
    BY <1>3, <1>7, <1>8, UpFromZero
  <2> QED BY <1>3, <1>5, <2>1 DEF S
<1>10. last \in Decoding
  BY <1>3, <1>5
<1>11. last.out \in Seq(Int) /\ 4 * Len(last.out) <= 3 * n
  <2>1. last.out \in Seq(Int) /\ last.pos \in 0 .. 3 /\ Len(last.out) \in Nat
    BY <1>10 DEF Decoding
  <2> QED BY <1>3, <1>9, <2>1 DEF Held
<1>12. /\ Decode(text).out = last.out
       /\ Decode(text).rc = -1 \/ Decode(text).rc = Len(last.out)
  BY DEF Decode, last, base
<1>13. Len(last.out) <= (n * 3) \div 4 /\ (n * 3) \div 4 \in Nat
  <2> DEFINE m == Len(last.out)
  <2>1. m \in Nat /\ 4 * m <= 3 * n
    BY <1>11
  <2> HIDE DEF m
  <2> QED BY <1>3, <2>1 DEF m
<1> QED BY <1>11, <1>12, <1>13 DEF DecodedLen, n

-----------------------------------------------------------------------------
(* The values. *)

\* A value fills its block, and no more of it is sent.
Fits(v, n) == v.size \in Nat /\ Len(v.cells) = v.size /\ n \in Nat /\ n <= v.size

LEMMA ValueFits ==
    ASSUME NEW S, NEW text \in Seq(S), NEW size \in Nat, Len(text) <= size
    PROVE  Value(size, text).size = size /\ Len(Value(size, text).cells) = size
<1> DEFINE T == S \cup {Garbage}
           m == size - Len(text)
           pad == [i \in 1 .. m |-> Garbage]
<1>1. text \in Seq(T) /\ Len(text) \in Nat /\ m \in Nat /\ size = Len(text) + m
  OBVIOUS
<1>2. pad \in Seq(T) /\ Len(pad) = m
  <2> HIDE DEF m
  <2> QED BY <1>1
<1>3. Value(size, text).cells = text \o pad /\ Value(size, text).size = size
  BY DEF Value, Block
<1> HIDE DEF pad, T, m
<1>4. Len(text \o pad) = Len(text) + Len(pad)
  BY <1>1, <1>2
<1> QED BY <1>1, <1>2, <1>3, <1>4

\* An array has room for its header and for each element with its length.
LEMMA ArrayFits ==
    ASSUME NEW S, NEW n \in Nat, NEW seqs \in [1 .. n -> Seq(S)], NEW sizes,
           DOMAIN sizes = 1 .. n,
           \A i \in 1 .. n : sizes[i] \in Nat /\ Len(seqs[i]) <= 1 + sizes[i],
           NEW header \in Seq(S), Len(header) = 5
    PROVE  LET v == Value(Measured(sizes), header \o FlattenSeq(seqs))
           IN  Fits(v, v.size) /\ v.size > 0
<1> DEFINE more == [i \in 1 .. n |-> 1 + sizes[i]]
           text == FlattenSeq(seqs)
           sum == SumFunctionOnSet(more, 1 .. n)
<1>1. \A i \in 1 .. n : more[i] \in Nat /\ more[i] \in Int /\ Len(seqs[i]) <= more[i]
  OBVIOUS
<1>2. Measured(sizes) = 5 + sum
  BY DEF Measured
<1> HIDE DEF more
<1>3. sum \in Nat
  <2>1. IsFiniteSet(1 .. n)
    BY FS_Interval
  <2> DEFINE D == 1 .. n
  <2>2. \A i \in D : more[i] \in Nat
    BY <1>1
  <2> HIDE DEF D
  <2> QED BY <2>1, <2>2, SumOfNaturals DEF D
<1>4. text \in Seq(S) /\ Len(text) <= sum
  BY <1>1, FlattenFits
<1> HIDE DEF text, sum
<1>5. /\ header \o text \in Seq(S) /\ Len(header \o text) = 5 + Len(text)
      /\ Len(text) \in Nat
  BY <1>4, Together
<1> DEFINE all == header \o text
           size == Measured(sizes)
<1>6. all \in Seq(S) /\ Len(all) <= size /\ size \in Nat /\ size > 0
  BY <1>2, <1>3, <1>4, <1>5
<1> HIDE DEF all, size
<1>7. Value(size, all).size = size /\ Len(Value(size, all).cells) = size
  BY <1>6, ValueFits
<1> QED BY <1>6, <1>7 DEF Fits, all, size, text

LEMMA UuidFits ==
    ASSUME NEW text, NEW before, NEW S, \A i \in 1 .. UuidLen : Uuid(text, before)[i] \in S
    PROVE  Uuid(text, before) \in Seq(S) /\ Len(Uuid(text, before)) = UuidLen
<1> DEFINE u == Uuid(text, before)
<1>1. UuidLen \in Nat
  BY ParamsAssumption
<1>2. DOMAIN u = 1 .. UuidLen /\ u = [i \in 1 .. UuidLen |-> u[i]]
  BY DEF Uuid
<1>3. \A i \in 1 .. UuidLen : u[i] \in S
  OBVIOUS
<1> HIDE DEF u
<1>4. u \in Seq(S) /\ Len(u) = UuidLen
  BY <1>1, <1>2, <1>3
<1> QED BY <1>4 DEF u

LEMMA CallHas ==
    ASSUME NEW call \in Calls, call.kind \notin Arrays, call.kind # "null"
    PROVE  call.data[1] \in Seq(Int) /\ Len(call.data[1]) \in Nat
<1>1. call.data \in Seq(Seq(Int)) /\ Len(call.data) = 1
  BY ParamsAssumption
<1> DEFINE d == call.data
<1>2. 1 \in 1 .. Len(d) /\ d \in Seq(Seq(Int))
  BY <1>1
<1>3. d[1] \in Seq(Int)
  <2> HIDE DEF d
  <2> QED BY <1>2
<1> QED BY <1>3

\* A call of every kind but arrays.
LEMMA OneFits ==
    ASSUME NEW call \in Calls, ~Refused(call), call.kind \notin Arrays, call.kind # "null"
    PROVE  Fits(Made(call), Length(call)) /\ Made(call).size > 0
<1> DEFINE text == call.data[1]
           n == Len(text)
<1>0. text \in Seq(Int) /\ n \in Nat /\ call.kind \in Kinds
  BY CallHas, ParamsAssumption
<1>1. CASE call.kind = "fixed"
  <2>1. Made(call) = Value(n, text) /\ Length(call) = Made(call).size
    BY <1>1 DEF Made, Length
  <2>2. text # <<>>
    BY <1>1, ParamsAssumption
  <2> HIDE DEF text
  <2>3. n > 0
    BY <1>0, <2>2
  <2> HIDE DEF n
  <2>4. Value(n, text).size = n /\ Len(Value(n, text).cells) = n
    <3>1. Len(text) <= n
      BY <1>0 DEF n
    <3> QED BY <1>0, <3>1, ValueFits
  <2> QED BY <1>0, <2>1, <2>3, <2>4 DEF Fits
<1>2. CASE call.kind \in {"text", "date"}
  <2> DEFINE all == text \o <<0>>
  <2>1. Made(call) = Value(n + 1, all) /\ Length(call) = n
    BY <1>2 DEF Made, Length
  <2> HIDE DEF text
  <2>2. all \in Seq(Int) /\ Len(all) <= n + 1
    BY <1>0
  <2> HIDE DEF all
  <2>3. Value(n + 1, all).size = n + 1 /\ Len(Value(n + 1, all).cells) = n + 1
    BY <1>0, <2>2, ValueFits
  <2> HIDE DEF n
  <2> QED BY <1>0, <2>1, <2>3 DEF Fits
<1>3. CASE call.kind = "jsonb"
  <2> DEFINE all == <<1>> \o text \o <<0, 0>>
  <2>1. Made(call) = Value(n + 3, all) /\ Length(call) = n + 1
    BY <1>3 DEF Made, Length, Jsonb
  <2> HIDE DEF text
  <2>2. all \in Seq(Int) /\ Len(all) <= n + 3
    BY <1>0
  <2> HIDE DEF all
  <2>3. Value(n + 3, all).size = n + 3 /\ Len(Value(n + 3, all).cells) = n + 3
    BY <1>0, <2>2, ValueFits
  <2> HIDE DEF n
  <2> QED BY <1>0, <2>1, <2>3 DEF Fits
<1>4. CASE call.kind = "bytea"
  <2> DEFINE out == Decode(text).out
             all == out \o <<0>>
             size == DecodedLen(n) + 1
  <2>1. Made(call) = Value(size, all) /\ Length(call) = Decode(text).rc /\ Decode(text).rc # -1
    BY <1>4 DEF Made, Length, Refused
  <2>2. /\ out \in Seq(Int) /\ Len(out) <= DecodedLen(n) /\ Decode(text).rc = Len(out)
        /\ DecodedLen(n) \in Nat
    BY <1>0, <2>1, DecodeFits
  <2> HIDE DEF out
  <2>3. all \in Seq(Int) /\ Len(all) <= size /\ size \in Nat /\ size > 0 /\ Len(out) \in Nat
    BY <2>2
  <2>4. Len(out) <= size
    BY <2>2, <2>3
  <2> HIDE DEF all, size
  <2>5. Value(size, all).size = size /\ Len(Value(size, all).cells) = size
    BY <2>3, ValueFits
  <2> QED BY <2>1, <2>2, <2>3, <2>4, <2>5 DEF Fits
<1>5. CASE call.kind = "uuid"
  <2> DEFINE u == Uuid(text, Zeros)
  <2>1. Made(call) = Value(UuidLen, u) /\ Length(call) = Made(call).size
    BY <1>5 DEF Made, Length
  <2> DEFINE S == {u[i] : i \in 1 .. UuidLen}
  <2>2. u \in Seq(S) /\ Len(u) = UuidLen
    <3>1. \A i \in 1 .. UuidLen : Uuid(text, Zeros)[i] \in S
      OBVIOUS
    <3> HIDE DEF S
    <3> QED BY <3>1, UuidFits
  <2>3. UuidLen \in Nat /\ UuidLen > 0
    BY ParamsAssumption
  <2> HIDE DEF u
  <2>4. Value(UuidLen, u).size = UuidLen /\ Len(Value(UuidLen, u).cells) = UuidLen
    BY <2>2, <2>3, ValueFits
  <2> QED BY <2>1, <2>3, <2>4 DEF Fits
<1> QED BY <1>0, <1>1, <1>2, <1>3, <1>4, <1>5 DEF Kinds, Arrays

LEMMA HeaderHolds ==
    ASSUME NEW hasNull, NEW n \in Int
    PROVE  ArrayHeader(hasNull, n) \in Seq(Int) /\ Len(ArrayHeader(hasNull, n)) = 5
<1> DEFINE z == IF hasNull THEN 1 ELSE 0
<1>1. z \in Int
  OBVIOUS
<1>2. ArrayHeader(hasNull, n) = <<1, z, 7, n, 1>>
  BY DEF ArrayHeader
<1> HIDE DEF z
<1> QED BY <1>1, <1>2

LEMMA PrefixedHolds ==
    ASSUME NEW S, \A x \in Int : x \in S, NEW e \in Seq(S)
    PROVE  Prefixed(e) \in Seq(S) /\ Len(Prefixed(e)) = 1 + Len(e)
<1> DEFINE l == <<Len(e)>>
<1>1. l \in Seq(S) /\ Len(l) = 1
  <2>1. Len(e) \in S
    OBVIOUS
  <2> QED BY <2>1
<1>2. Prefixed(e) = l \o e
  BY DEF Prefixed
<1> HIDE DEF l
<1> QED BY <1>1, <1>2, Together

LEMMA FixedFits ==
    ASSUME NEW data \in Seq(Seq(Int))
    PROVE  Fits(FixedArray(data), FixedArray(data).size) /\ FixedArray(data).size > 0
<1> DEFINE n == Len(data)
           sizes == [i \in DOMAIN data |-> Len(data[i])]
           seqs == [i \in DOMAIN data |-> Prefixed(data[i])]
           no == FALSE
           header == ArrayHeader(no, n)
<1>1. n \in Nat /\ DOMAIN data = 1 .. n /\ \A i \in 1 .. n : data[i] \in Seq(Int)
  OBVIOUS
<1>2. header \in Seq(Int) /\ Len(header) = 5
  <2> HIDE DEF n, no
  <2> QED BY <1>1, HeaderHolds
<1>3. ASSUME NEW i \in 1 .. n
      PROVE  /\ seqs[i] \in Seq(Int) /\ sizes[i] \in Nat /\ Len(seqs[i]) <= 1 + sizes[i]
  <2>1. data[i] \in Seq(Int) /\ seqs[i] = Prefixed(data[i]) /\ sizes[i] = Len(data[i])
    BY <1>1
  <2>2. Len(data[i]) \in Nat
    BY <2>1
  <2>3. Prefixed(data[i]) \in Seq(Int) /\ Len(Prefixed(data[i])) = 1 + Len(data[i])
    BY <2>1, PrefixedHolds
  <2> QED BY <2>1, <2>2, <2>3
<1>4. FixedArray(data) = Value(Measured(sizes), header \o FlattenSeq(seqs))
  BY DEF FixedArray
<1>5. DOMAIN sizes = 1 .. n /\ seqs \in [1 .. n -> Seq(Int)]
  BY <1>1, <1>3
<1> HIDE DEF sizes, seqs, header, n
<1> QED BY <1>1, <1>2, <1>3, <1>4, <1>5, ArrayFits

\* Elements that are absent take nothing of the room that was measured for them.
LEMMA TextFits ==
    ASSUME NEW data \in Seq(Seq(Int)), NEW isUuid \in BOOLEAN
    PROVE  /\ Fits(TextArray(data, isUuid), TextArray(data, isUuid).size)
           /\ TextArray(data, isUuid).size > 0
<1> DEFINE n == Len(data)
           hasNull == \E i \in DOMAIN data : data[i] = NoText
           uuid == CHOOSE g : g = [i \in 0 .. Len(data) |->
                     IF i = 0 THEN Unknown
                     ELSE IF Absent(data[i]) THEN g[i - 1] ELSE Uuid(data[i], g[i - 1])]
           U(i) == Uuid(data[i], uuid[i - 1])
           seqs == [i \in DOMAIN data |->
                     IF Absent(data[i]) THEN <<>>
                     ELSE Prefixed(IF isUuid THEN U(i) ELSE data[i])]
           sizes == [i \in DOMAIN data |-> SizeOf(data[i], isUuid)]
           header == ArrayHeader(hasNull, n)
           M(i) == {U(i)[j] : j \in 1 .. UuidLen}
           S == Int \cup UNION {M(i) : i \in 1 .. n}
<1>1. TextArray(data, isUuid) = Value(Measured(sizes), header \o FlattenSeq(seqs))
  BY DEF TextArray
<1> HIDE DEF uuid, hasNull
<1>2. n \in Nat /\ DOMAIN data = 1 .. n /\ \A i \in 1 .. n : data[i] \in Seq(Int)
  OBVIOUS
<1>3. header \in Seq(S) /\ Len(header) = 5
  <2>1. header \in Seq(Int) /\ Len(header) = 5
    BY <1>2, HeaderHolds
  <2> HIDE DEF header, S
  <2>2. Int \subseteq S
    BY DEF S
  <2> QED BY <2>1, <2>2
<1>4. UuidLen \in Nat
  BY ParamsAssumption
<1>5. ASSUME NEW i \in 1 .. n
      PROVE  /\ seqs[i] \in Seq(S) /\ sizes[i] \in Nat /\ Len(seqs[i]) <= 1 + sizes[i]
  <2>1. /\ seqs[i] = IF Absent(data[i]) THEN <<>>
                     ELSE Prefixed(IF isUuid THEN U(i) ELSE data[i])
        /\ sizes[i] = SizeOf(data[i], isUuid) /\ data[i] \in Seq(Int)
    BY <1>2
  <2>2. sizes[i] \in Nat
    BY <1>4, <2>1 DEF SizeOf
  <2>3. \A j \in 1 .. UuidLen : U(i)[j] \in S
    <3> HIDE DEF U, n
    <3>1. \A j \in 1 .. UuidLen : U(i)[j] \in M(i)
      OBVIOUS
    <3> HIDE DEF M
    <3> QED BY <3>1
  <2>4. U(i) \in Seq(S) /\ Len(U(i)) = UuidLen
    <3> HIDE DEF S
    <3> QED BY <2>3, UuidFits
  <2>5. \A x \in Int : x \in S
    OBVIOUS
  <2> DEFINE u == U(i)
             d == data[i]
  <2> HIDE DEF S, U, seqs, sizes
  <2>6. d \in Seq(S)
    BY <2>1, <2>5
  <2>7. CASE Absent(d)
    <3>1. seqs[i] = <<>>
      BY <2>1, <2>7
    <3> QED BY <2>2, <3>1
  <2>8. CASE ~Absent(d) /\ isUuid
    <3>1. seqs[i] = Prefixed(u) /\ sizes[i] = UuidLen
      BY <2>1, <2>8 DEF SizeOf, Absent
    <3> HIDE DEF u, d
    <3>2. Prefixed(u) \in Seq(S) /\ Len(Prefixed(u)) = 1 + UuidLen
      BY <2>4, <2>5, PrefixedHolds DEF u
    <3> QED BY <1>4, <3>1, <3>2
  <2>9. CASE ~Absent(d) /\ ~isUuid
    <3>1. seqs[i] = Prefixed(d) /\ sizes[i] = Len(d)
      BY <2>1, <2>9 DEF SizeOf, Absent
    <3>2. Len(d) \in Nat
      BY <2>1
    <3> HIDE DEF d
    <3>3. Prefixed(d) \in Seq(S) /\ Len(Prefixed(d)) = 1 + Len(d)
      BY <2>5, <2>6, PrefixedHolds
    <3> QED BY <3>1, <3>2, <3>3
  <2> QED BY <2>7, <2>8, <2>9
<1>6. DOMAIN sizes = 1 .. n /\ seqs \in [1 .. n -> Seq(S)]
  <2> HIDE DEF S
  <2> QED BY <1>2, <1>5
<1> HIDE DEF sizes, seqs, header, n, S
<1> QED BY <1>1, <1>2, <1>3, <1>5, <1>6, ArrayFits

\* Every value that is made fills its block, whatever the call.
LEMMA MadeFits ==
    ASSUME NEW call \in Calls, ~Refused(call)
    PROVE  /\ Fits(Made(call), Length(call))
           /\ call.kind # "null" => Made(call) # NULL
<1>1. CASE call.kind = "null"
  <2>1. Made(call) = NULL /\ Length(call) = Made(call).size
    BY <1>1 DEF Made, Length
  <2>2. NULL.size = 0 /\ NULL.cells = <<>>
    BY DEF NULL
  <2> QED BY <1>1, <2>1, <2>2 DEF Fits
<1>2. ASSUME Fits(Made(call), Length(call)), Made(call).size > 0
      PROVE  Made(call) # NULL
  BY <1>2 DEF NULL
<1>3. call.data \in Seq(Seq(Int)) /\ call.kind \in Kinds
  BY ParamsAssumption
<1>4. CASE call.kind = "fixedlist"
  <2>1. Made(call) = FixedArray(call.data) /\ Length(call) = Made(call).size
    BY <1>4 DEF Made, Length
  <2> QED BY <1>2, <1>3, <2>1, FixedFits
<1>5. CASE call.kind = "textlist"
  <2>1. Made(call) = TextArray(call.data, FALSE) /\ Length(call) = Made(call).size
    BY <1>5 DEF Made, Length
  <2> QED BY <1>2, <1>3, <2>1, TextFits
<1>6. CASE call.kind = "uuidlist"
  <2>1. Made(call) = TextArray(call.data, TRUE) /\ Length(call) = Made(call).size
    BY <1>6 DEF Made, Length
  <2> QED BY <1>2, <1>3, <2>1, TextFits
<1>7. CASE call.kind \notin Arrays /\ call.kind # "null"
  BY <1>2, <1>7, OneFits
<1> QED BY <1>1, <1>4, <1>5, <1>6, <1>7 DEF Arrays

-----------------------------------------------------------------------------
(* Which blocks are in use. *)

\* The blocks in use are those of the object, those of the values that are set, and
\* the rest of the request; while parameters are added, and when they are sent, the
\* block of every value that is set is in use.
NewInv == phase = "new" => live = {Rest} /\ values = [i \in Slots |-> NULL]
UsedInv ==
    phase \in {"new", "adding", "failing", "sent"} =>
        live \subseteq Range(Frame) \cup {Rest} \cup BlocksOf({i \in Slots : values[i] # NULL})
SetInv ==
    phase \in {"adding", "sent"} => \A i \in Slots : values[i] # NULL => <<"value", i>> \in live
ParamsInv ==
    /\ values = [i \in Slots |-> values[i]]
    /\ NewInv /\ UsedInv /\ SetInv /\ NothingLeft

LEMMA ParamsInitially == Init => ParamsInv
BY DEF Init, ParamsInv, NewInv, UsedInv, SetInv, NothingLeft

LEMMA AddKeeps ==
    ASSUME ParamsInv, NEW i \in Slots, NEW call \in Calls, Add(i, call)
    PROVE  ParamsInv'
<1>1. phase = "adding" /\ phase' = "adding" /\ values[i] = NULL /\ ~Refused(call)
  BY DEF Add
<1>2. values' = [values EXCEPT ![i] = Made(call)]
  BY DEF Add
<1>3. /\ values' = [j \in Slots |-> values'[j]]
      /\ values'[i] = Made(call)
      /\ \A j \in Slots \ {i} : values'[j] = values[j]
  BY <1>2 DEF ParamsInv
<1>4. CASE call.kind = "null"
  <2>1. Made(call) = NULL /\ live' = live
    BY <1>4 DEF Add, Made
  <2>2. \A j \in Slots : values'[j] = values[j]
    BY <1>1, <1>3, <2>1
  <2>3. {j \in Slots : values[j] # NULL}' = {j \in Slots : values[j] # NULL}
    BY <2>2 DEF Slots
  <2> QED BY <1>1, <1>3, <2>1, <2>2, <2>3
          DEF ParamsInv, NewInv, UsedInv, SetInv, NothingLeft
<1>5. CASE call.kind # "null"
  <2>1. Made(call) # NULL
    BY <1>1, <1>5, MadeFits
  <2>2. live' = live \cup {<<"value", i>>}
    BY <1>5 DEF Add, BlocksOf
  <2>3. UsedInv'
    <3>1. ASSUME NEW b \in live, b \notin Range(Frame) \cup {Rest}
          PROVE  b \in BlocksOf({j \in Slots : values'[j] # NULL})
      <4>1. PICK j \in Slots : values[j] # NULL /\ b = <<"value", j>>
        BY <1>1, <3>1 DEF ParamsInv, UsedInv, BlocksOf
      <4>2. values'[j] # NULL
        BY <1>1, <1>3, <4>1
      <4> QED BY <4>1, <4>2 DEF BlocksOf
    <3>2. <<"value", i>> \in BlocksOf({j \in Slots : values'[j] # NULL})
      BY <1>3, <2>1 DEF BlocksOf
    <3> QED BY <2>2, <3>1, <3>2 DEF UsedInv, Slots
  <2>4. SetInv'
    BY <1>1, <1>3, <2>2 DEF ParamsInv, SetInv, Slots
  <2> QED BY <1>1, <1>3, <2>3, <2>4 DEF ParamsInv, NewInv, NothingLeft
<1> QED BY <1>4, <1>5

LEMMA ParamsStep == ParamsInv /\ [Next]_vars => ParamsInv'
<1> SUFFICES ASSUME ParamsInv, [Next]_vars
             PROVE  ParamsInv'
  OBVIOUS
<1>1. CASE Create
  BY <1>1 DEF Create, ParamsInv, NewInv, UsedInv, SetInv, NothingLeft, Slots, BlocksOf
<1>2. CASE CreateFails
  BY <1>2 DEF CreateFails, ParamsInv, NewInv, UsedInv, SetInv, NothingLeft, Slots, BlocksOf
<1>3. ASSUME NEW i \in Slots, NEW call \in Calls, Add(i, call)
      PROVE  ParamsInv'
  BY <1>3, AddKeeps
<1>4. ASSUME NEW i \in Slots, NEW call \in Calls, AddFails(i, call)
      PROVE  ParamsInv'
  BY <1>4 DEF AddFails, ParamsInv, NewInv, UsedInv, SetInv, NothingLeft, Slots, BlocksOf
<1>5. CASE Send
  BY <1>5 DEF Send, ParamsInv, NewInv, UsedInv, SetInv, NothingLeft, Slots, BlocksOf
<1>6. CASE Free
  BY <1>6 DEF Free, ParamsInv, NewInv, UsedInv, SetInv, NothingLeft, Slots, BlocksOf
<1>7. CASE Finish
  BY <1>7 DEF Finish, ParamsInv, NewInv, UsedInv, SetInv, NothingLeft, Slots, BlocksOf
<1>8. CASE UNCHANGED vars
  BY <1>8 DEF vars, ParamsInv, NewInv, UsedInv, SetInv, NothingLeft, Slots, BlocksOf
<1> QED BY <1>1, <1>2, <1>3, <1>4, <1>5, <1>6, <1>7, <1>8 DEF Next

-----------------------------------------------------------------------------
(* What the values hold. *)

\* Every value fills its block, and not more than that is sent of it.
FilledInv ==
    /\ phase \in {"new", "adding", "failing", "sent", "freed"}
    /\ live \subseteq Range(Frame) \cup BlocksOf(Slots) \cup {Rest}
    /\ values = [i \in Slots |-> values[i]] /\ lengths = [i \in Slots |-> lengths[i]]
    /\ \A i \in Slots : Fits(values[i], lengths[i])
    /\ given \in [Slots -> Calls \cup {NotSet}]

LEMMA NullFits == Fits(NULL, 0)
<1>1. NULL.size = 0 /\ NULL.cells = <<>>
  BY DEF NULL
<1> QED BY <1>1 DEF Fits

LEMMA FilledInitially == Init => FilledInv
BY NullFits DEF Init, FilledInv

LEMMA FilledStep == FilledInv /\ [Next]_vars => FilledInv'
<1> SUFFICES ASSUME FilledInv, [Next]_vars
             PROVE  FilledInv'
  OBVIOUS
<1>1. CASE Create
  BY <1>1 DEF Create, FilledInv
<1>2. CASE CreateFails
  BY <1>2 DEF CreateFails, FilledInv
<1>3. ASSUME NEW i \in Slots, NEW call \in Calls, Add(i, call)
      PROVE  FilledInv'
  <2>1. /\ ~Refused(call) /\ phase' = phase
        /\ values' = [values EXCEPT ![i] = Made(call)]
        /\ lengths' = [lengths EXCEPT ![i] = Length(call)]
        /\ live' \subseteq live \cup BlocksOf({i}) /\ given' = [given EXCEPT ![i] = call]
    BY <1>3 DEF Add
  <2>2. Fits(Made(call), Length(call))
    BY <2>1, MadeFits
  <2>3. \A j \in Slots : Fits(values'[j], lengths'[j])
    <3>1. values'[i] = Made(call) /\ lengths'[i] = Length(call)
      BY <2>1 DEF FilledInv
    <3>2. \A j \in Slots \ {i} : values'[j] = values[j] /\ lengths'[j] = lengths[j]
      BY <2>1 DEF FilledInv
    <3> QED BY <2>2, <3>1, <3>2 DEF FilledInv
  <2>4. live' \subseteq Range(Frame) \cup BlocksOf(Slots) \cup {Rest}
    BY <2>1 DEF FilledInv, BlocksOf
  <2>5. /\ values' = [j \in Slots |-> values'[j]] /\ lengths' = [j \in Slots |-> lengths'[j]]
        /\ given' \in [Slots -> Calls \cup {NotSet}]
    BY <2>1 DEF FilledInv
  <2> QED BY <2>1, <2>3, <2>4, <2>5 DEF FilledInv
<1>4. ASSUME NEW i \in Slots, NEW call \in Calls, AddFails(i, call)
      PROVE  FilledInv'
  BY <1>4 DEF AddFails, FilledInv
<1>5. CASE Send
  BY <1>5 DEF Send, FilledInv
<1>6. CASE Free
  BY <1>6 DEF Free, FilledInv
<1>7. CASE Finish
  <2>1. values' = [i \in Slots |-> NULL] /\ lengths' = [i \in Slots |-> 0]
    BY <1>7 DEF Finish
  <2>2. \A i \in Slots : Fits(values'[i], lengths'[i])
    BY <2>1, NullFits
  <2> QED BY <1>7, <2>1, <2>2 DEF Finish, FilledInv
<1>8. CASE UNCHANGED vars
  BY <1>8 DEF vars, FilledInv
<1> QED BY <1>1, <1>2, <1>3, <1>4, <1>5, <1>6, <1>7, <1>8 DEF Next

-----------------------------------------------------------------------------
(* What pg_b64_decode makes of a text is encoded as the text again.        *)

\* The decoder has this in hand: the bits of the quad, how many symbols of it were
\* read, what the padding said, and the bytes of the quads before it.
Has(s, buf, pos, end, out) ==
    s \in Decoding /\ s.buf = buf /\ s.pos = pos /\ s.end = end /\ s.out = out /\ s.ok

\* Six more bits, before the quad is full and when it is.
LEMMA TakeEarly ==
    ASSUME NEW s, NEW buf \in Int, NEW pos \in 0 .. 2, NEW end \in 0 .. 2, NEW out,
           Has(s, buf, pos, end, out), NEW x \in Int
    PROVE  Has(Take(s, x), buf * 64 + x, pos + 1, end, out)
<1>1. s \in Decoding /\ s.buf = buf /\ s.pos = pos /\ s.end = end /\ s.out = out /\ s.ok
  BY DEF Has
<1> DEFINE t == Take(s, x)
           y == buf * 64 + x
<1>2. t = [s EXCEPT !.buf = y, !.pos = pos + 1] /\ y \in Int /\ pos + 1 \in 0 .. 3
  BY <1>1 DEF Take
<1> HIDE DEF t, y
<1>3. t \in Decoding /\ t.buf = y /\ t.pos = pos + 1 /\ t.end = end /\ t.out = out /\ t.ok
  BY <1>1, <1>2 DEF Decoding
<1> QED BY <1>3 DEF Has, t, y

LEMMA TakeLast ==
    ASSUME NEW s, NEW buf \in Int, NEW end \in 0 .. 2, NEW out,
           Has(s, buf, 3, end, out), NEW x \in Int
    PROVE  Has(Take(s, x), 0, 0, end, out \o Bytes(buf * 64 + x, end))
<1>1. /\ s \in Decoding /\ s.buf = buf /\ s.pos = 3 /\ s.end = end /\ s.out = out /\ s.ok
      /\ out \in Seq(Int)
  BY DEF Has, Decoding
<1> DEFINE t == Take(s, x)
           m == Bytes(buf * 64 + x, end)
           o == out \o m
<1>2. t = [s EXCEPT !.out = o, !.buf = 0, !.pos = 0]
  BY <1>1 DEF Take
<1>3. m \in Seq(Int)
  <2>1. buf * 64 + x \in Int
    OBVIOUS
  <2> QED BY <2>1, BytesHold
<1> HIDE DEF m
<1>4. o \in Seq(Int)
  BY <1>1, <1>3
<1> HIDE DEF t, o
<1>5. t = [buf |-> 0, pos |-> 0, end |-> s.end, out |-> o, ok |-> s.ok]
  BY <1>1, <1>2 DEF Decoding
<1>6. t \in Decoding /\ t.buf = 0 /\ t.pos = 0 /\ t.end = end /\ t.out = o /\ t.ok
  BY <1>1, <1>4, <1>5 DEF Decoding
<1> QED BY <1>6 DEF Has, t, o, m

\* What a symbol does, and what the padding does.
LEMMA SymbolRead ==
    ASSUME NEW s, NEW buf \in Int, NEW pos \in 0 .. 3, NEW out,
           Has(s, buf, pos, 0, out), NEW x \in 0 .. 63
    PROVE  /\ pos < 3 => Has(Read(s, x), buf * 64 + x, pos + 1, 0, out)
           /\ pos = 3 => Has(Read(s, x), 0, 0, 0, out \o Bytes(buf * 64 + x, 0))
<1>1. Read(s, x) = Take(s, x)
  <2>1. s.ok
    BY DEF Has
  <2> QED BY <2>1 DEF Read, Padding, Junk
<1>2. x \in Int
  OBVIOUS
<1>3. ASSUME pos < 3
      PROVE  Has(Take(s, x), buf * 64 + x, pos + 1, 0, out)
  <2> DEFINE none == 0
  <2>1. pos \in 0 .. 2 /\ none \in 0 .. 2 /\ Has(s, buf, pos, none, out)
    BY <1>3
  <2> HIDE DEF none
  <2>2. Has(Take(s, x), buf * 64 + x, pos + 1, none, out)
    BY <1>2, <2>1, TakeEarly
  <2> QED BY <2>2 DEF none
<1>4. ASSUME pos = 3
      PROVE  Has(Take(s, x), 0, 0, 0, out \o Bytes(buf * 64 + x, 0))
  <2> DEFINE none == 0
  <2>1. none \in 0 .. 2 /\ Has(s, buf, 3, none, out)
    BY <1>4
  <2> HIDE DEF none
  <2>2. Has(Take(s, x), 0, 0, none, out \o Bytes(buf * 64 + x, none))
    BY <1>2, <2>1, TakeLast
  <2> QED BY <2>2 DEF none
<1> QED BY <1>1, <1>3, <1>4

LEMMA PaddingRead ==
    ASSUME NEW s, NEW buf \in Int, NEW out
    PROVE  /\ Has(s, buf, 2, 0, out) => Has(Read(s, Padding), buf * 64, 3, 1, out)
           /\ Has(s, buf, 3, 0, out) =>
                 Has(Read(s, Padding), 0, 0, 2, out \o Bytes(buf * 64, 2))
           /\ Has(s, buf, 3, 1, out) =>
                 Has(Read(s, Padding), 0, 0, 1, out \o Bytes(buf * 64, 1))
<1> DEFINE none == 0
<1>0. buf * 64 + none = buf * 64 /\ none \in Int /\ 1 \in 0 .. 2 /\ 2 \in 0 .. 2
  OBVIOUS
<1> HIDE DEF none
<1>1. ASSUME NEW pos \in 2 .. 3, Has(s, buf, pos, 0, out)
      PROVE  \E t : Read(s, Padding) = Take(t, none) /\ Has(t, buf, pos, pos - 1, out)
  <2>1. s \in Decoding /\ s.buf = buf /\ s.pos = pos /\ s.end = 0 /\ s.out = out /\ s.ok
    BY <1>1 DEF Has
  <2> DEFINE t == [s EXCEPT !.end = pos - 1]
  <2>2. Read(s, Padding) = Take(t, none)
    BY <2>1 DEF Read, Padding, Junk, none
  <2>3. t = [s EXCEPT !.end = pos - 1] /\ pos - 1 \in 0 .. 2
    OBVIOUS
  <2> HIDE DEF t
  <2>4. t \in Decoding /\ t.buf = buf /\ t.pos = pos /\ t.end = pos - 1 /\ t.out = out /\ t.ok
    BY <2>1, <2>3 DEF Decoding
  <2> QED BY <2>2, <2>4 DEF Has
<1>2. ASSUME Has(s, buf, 2, 0, out)
      PROVE  Has(Read(s, Padding), buf * 64, 3, 1, out)
  <2>1. PICK t : Read(s, Padding) = Take(t, none) /\ Has(t, buf, 2, 1, out)
    BY <1>1, <1>2
  <2>2. Has(Take(t, none), buf * 64 + none, 2 + 1, 1, out)
    BY <1>0, <2>1, TakeEarly
  <2> QED BY <1>0, <2>1, <2>2
<1>3. ASSUME Has(s, buf, 3, 0, out)
      PROVE  Has(Read(s, Padding), 0, 0, 2, out \o Bytes(buf * 64, 2))
  <2>1. PICK t : Read(s, Padding) = Take(t, none) /\ Has(t, buf, 3, 2, out)
    BY <1>1, <1>3
  <2>2. Has(Take(t, none), 0, 0, 2, out \o Bytes(buf * 64 + none, 2))
    BY <1>0, <2>1, TakeLast
  <2> QED BY <1>0, <2>1, <2>2
<1>4. ASSUME Has(s, buf, 3, 1, out)
      PROVE  Has(Read(s, Padding), 0, 0, 1, out \o Bytes(buf * 64, 1))
  <2>1. Read(s, Padding) = Take(s, none)
    <3>1. s.ok /\ s.end = 1
      BY <1>4 DEF Has
    <3> QED BY <3>1 DEF Read, Padding, Junk, none
  <2>2. Has(Take(s, none), 0, 0, 1, out \o Bytes(buf * 64 + none, 1))
    BY <1>0, <1>4, TakeLast
  <2> QED BY <1>0, <2>1, <2>2
<1> QED BY <1>2, <1>3, <1>4

\* The 24 bits of a quad.
Joined(a, b, c, d) == ((a * 64 + b) * 64 + c) * 64 + d
Splits(v, a, b, c, d) ==
    v \div 64^3 = a /\ (v \div 64^2) % 64 = b /\ (v \div 64) % 64 = c /\ v % 64 = d
LastZero(v) == v % 256 = 0
MidZero(v)  == (v \div 256) % 256 = 0

\* A whole quad is read, and one that is padded.
LEMMA QuadRead ==
    ASSUME NEW s, NEW out, Has(s, 0, 0, 0, out),
           NEW a \in 0 .. 63, NEW b \in 0 .. 63, NEW c \in 0 .. 63, NEW d \in 0 .. 63
    PROVE  LET t == Read(Read(s, a), b)
           IN  /\ Has(Read(Read(t, c), d), 0, 0, 0, out \o Bytes(Joined(a, b, c, d), 0))
               /\ Has(Read(Read(t, c), Padding), 0, 0, 2, out \o Bytes(Joined(a, b, c, 0), 2))
               /\ Has(Read(Read(t, Padding), Padding), 0, 0, 1,
                      out \o Bytes(Joined(a, b, 0, 0), 1))
<1> DEFINE none == 0
           first == 0 * 64 + a
           two == first * 64 + b
           three == two * 64 + c
           t == Read(Read(s, a), b)
<1>1. none \in 0 .. 2 /\ none \in 0 .. 3 /\ none \in Int /\ Has(s, none, none, 0, out)
  OBVIOUS
<1>2. /\ first \in Int /\ two \in Int /\ three \in Int /\ two * 64 \in Int
      /\ none * 64 + a = first /\ none + 1 = 1 /\ 1 + 1 = 2 /\ 2 + 1 = 3
      /\ 1 \in 0 .. 3 /\ 2 \in 0 .. 3 /\ 3 \in 0 .. 3
  OBVIOUS
<1>3. /\ three * 64 + d = Joined(a, b, c, d) /\ three * 64 = Joined(a, b, c, 0)
      /\ (two * 64) * 64 = Joined(a, b, 0, 0)
  BY DEF Joined
<1> HIDE DEF none
<1>4. Has(Read(s, a), first, 1, 0, out)
  <2>1. Has(Read(s, a), none * 64 + a, none + 1, 0, out)
    BY <1>1, SymbolRead DEF none
  <2> QED BY <1>2, <2>1
<1> HIDE DEF first
<1>5. Has(t, two, 2, 0, out)
  <2> DEFINE u == Read(s, a)
  <2>1. Has(u, first, 1, 0, out)
    BY <1>4
  <2> HIDE DEF u
  <2>2. Has(Read(u, b), first * 64 + b, 1 + 1, 0, out)
    BY <1>2, <2>1, SymbolRead
  <2> QED BY <2>2 DEF u
<1> HIDE DEF two, t
<1>6. Has(Read(t, c), three, 3, 0, out)
  <2>1. Has(Read(t, c), two * 64 + c, 2 + 1, 0, out)
    BY <1>2, <1>5, SymbolRead
  <2> QED BY <2>1
<1> DEFINE u == Read(t, c)
           v == Read(t, Padding)
<1>7. Has(v, two * 64, 3, 1, out)
  BY <1>2, <1>5, PaddingRead
<1> HIDE DEF u, v, three
<1>8. Has(Read(u, d), 0, 0, 0, out \o Bytes(three * 64 + d, 0))
  BY <1>2, <1>6, SymbolRead DEF u
<1>9. Has(Read(u, Padding), 0, 0, 2, out \o Bytes(three * 64, 2))
  BY <1>2, <1>6, PaddingRead DEF u
<1>10. Has(Read(v, Padding), 0, 0, 1, out \o Bytes((two * 64) * 64, 1))
  <2> DEFINE x == two * 64
  <2>1. x \in Int /\ Has(v, x, 3, 1, out)
    BY <1>2, <1>7
  <2> HIDE DEF x
  <2>2. Has(Read(v, Padding), 0, 0, 1, out \o Bytes(x * 64, 1))
    BY <2>1, PaddingRead
  <2> QED BY <2>2 DEF x
<1> QED BY <1>3, <1>8, <1>9, <1>10 DEF t, u, v

\* The bytes of the number v are x, y and z.
BytesOf(v, x, y, z) ==
    /\ Bytes(v, 0) = <<x, y, z>> /\ Bytes(v, 2) = <<x, y>> /\ Bytes(v, 1) = <<x>>
    /\ (x * 256 + y) * 256 + z = v
    /\ LastZero(v) => z = 0
    /\ MidZero(v) => y = 0

LEMMA BytesAre ==
    ASSUME NEW v \in Int
    PROVE  \E x \in Int, y \in Int, z \in Int : BytesOf(v, x, y, z)
<1> DEFINE x == v \div 65536
           y == (v \div 256) % 256
           z == v % 256
<1>1. v \div 256^2 = x
  OBVIOUS
<1>2. x \in Int /\ y \in Int /\ z \in Int
  OBVIOUS
<1>3. (x * 256 + y) * 256 + z = v
  OBVIOUS
<1> HIDE DEF x, y, z
<1>4. \A e : Bytes(v, e) = (<<x>> \o (IF e = 0 \/ e > 1 THEN <<y>> ELSE <<>>))
                                  \o (IF e = 0 \/ e > 2 THEN <<z>> ELSE <<>>)
  BY <1>1 DEF Bytes, y, z
<1>5. <<x>> \o <<y>> = <<x, y>> /\ <<x, y>> \o <<z>> = <<x, y, z>> /\ <<x, y>> \o <<>> = <<x, y>>
  BY <1>2, Pieces
<1>6. Bytes(v, 0) = <<x, y, z>>
  BY <1>4, <1>5, Zenon
<1>7. Bytes(v, 1) = <<x>>
  BY <1>2, <1>4
<1>8. Bytes(v, 2) = <<x, y>>
  <2>1. (2 = 0 \/ 2 > 1) /\ ~(2 = 0 \/ 2 > 2)
    OBVIOUS
  <2> QED BY <1>4, <1>5, <2>1, Zenon
<1>9. (LastZero(v) => z = 0) /\ (MidZero(v) => y = 0)
  BY DEF y, z, LastZero, MidZero
<1>10. BytesOf(v, x, y, z)
  BY <1>3, <1>6, <1>7, <1>8, <1>9, Zenon DEF BytesOf
<1> QED BY <1>2, <1>10

\* The symbols of a quad come back from its bits.
LEMMA SymbolsBack ==
    ASSUME NEW a \in 0 .. 63, NEW b \in 0 .. 63, NEW c \in 0 .. 63, NEW d \in 0 .. 63
    PROVE  /\ Joined(a, b, c, d) \in Nat
           /\ Splits(Joined(a, b, c, d), a, b, c, d)
           /\ d = 0 /\ c % 4 = 0 => LastZero(Joined(a, b, c, d))
           /\ d = 0 /\ c = 0 /\ b % 16 = 0 =>
                LastZero(Joined(a, b, c, d)) /\ MidZero(Joined(a, b, c, d))
<1> DEFINE v == Joined(a, b, c, d)
<1>1. v = a * 262144 + b * 4096 + c * 64 + d
  BY DEF Joined
<1> HIDE DEF v
<1>2. v \in Nat
  BY <1>1
<1>3. v \div 64^3 = a
  BY <1>1
<1>4. (v \div 64^2) % 64 = b
  <2>1. v \div 64^2 = v \div 4096
    BY <1>2
  <2>2. v \div 4096 = a * 64 + b
    BY <1>1
  <2>3. (a * 64 + b) % 64 = b
    OBVIOUS
  <2> QED BY <2>1, <2>2, <2>3
<1>5. (v \div 64) % 64 = c
  <2>1. v \div 64 = (a * 64 + b) * 64 + c
    BY <1>1
  <2>2. ((a * 64 + b) * 64 + c) % 64 = c
    OBVIOUS
  <2> QED BY <2>1, <2>2
<1>6. v % 64 = d
  BY <1>1
<1>7. ASSUME d = 0, c % 4 = 0
      PROVE  v % 256 = 0
  BY <1>1, <1>7
<1>8. ASSUME d = 0, c = 0, b % 16 = 0
      PROVE  v % 256 = 0 /\ (v \div 256) % 256 = 0
  BY <1>1, <1>8
<1> QED BY <1>2, <1>3, <1>4, <1>5, <1>6, <1>7, <1>8 DEF Splits, LastZero, MidZero, v

\* The bytes of o from i on are the number v, and are encoded as these symbols.
Coded(o, i, v) == (ByteAt(o, i) * 256 + ByteAt(o, i + 1)) * 256 + ByteAt(o, i + 2) = v
IsQuad(o, i, a, b, c, d) ==
    Quad(o, i) = <<a, b, IF i + 1 < Len(o) THEN c ELSE Padding,
                         IF i + 2 < Len(o) THEN d ELSE Padding>>

LEMMA QuadIs ==
    ASSUME NEW o, NEW i,
           NEW a \in 0 .. 63, NEW b \in 0 .. 63, NEW c \in 0 .. 63, NEW d \in 0 .. 63,
           Coded(o, i, Joined(a, b, c, d))
    PROVE  IsQuad(o, i, a, b, c, d)
<1> DEFINE w == (ByteAt(o, i) * 256 + ByteAt(o, i + 1)) * 256 + ByteAt(o, i + 2)
<1>0. w = Joined(a, b, c, d)
  BY DEF Coded
<1>2. Quad(o, i) = <<w \div 64^3, (w \div 64^2) % 64,
                     IF i + 1 < Len(o) THEN (w \div 64) % 64 ELSE Padding,
                     IF i + 2 < Len(o) THEN w % 64 ELSE Padding>>
  BY DEF Quad
<1> HIDE DEF w
<1>1. w \div 64^3 = a /\ (w \div 64^2) % 64 = b /\ (w \div 64) % 64 = c /\ w % 64 = d
  <2>1. Splits(w, a, b, c, d)
    BY <1>0, SymbolsBack
  <2> QED BY <2>1 DEF Splits
<1> QED BY <1>1, <1>2, Zenon DEF IsQuad

\* Three bytes more.
Extends(all, o, x, y, z) ==
    /\ all \in Seq(Int) /\ Len(all) = Len(o) + 3
    /\ \A j \in 1 .. Len(o) : all[j] = o[j]
    /\ all[Len(o) + 1] = x /\ all[Len(o) + 2] = y /\ all[Len(o) + 3] = z

LEMMA ThreeMore ==
    ASSUME NEW o \in Seq(Int), NEW x \in Int, NEW y \in Int, NEW z \in Int
    PROVE  Extends(o \o <<x, y, z>>, o, x, y, z)
<1> DEFINE all == o \o <<x, y, z>>
<1> DEFINE t == <<x, y, z>>
<1>1. t \in Seq(Int) /\ Len(t) = 3 /\ t[1] = x /\ t[2] = y /\ t[3] = z
  OBVIOUS
<1>2. all = o \o t
  OBVIOUS
<1> HIDE DEF t, all
<1>3. Len(all) = Len(o) + Len(t) /\ all \in Seq(Int)
  BY <1>1, <1>2, Together
<1>4. (\A j \in 1 .. Len(o) : all[j] = o[j]) /\ \A j \in 1 .. Len(t) : all[Len(o) + j] = t[j]
  <2>1. t \in Seq(Int)
    BY <1>1
  <2>2. /\ \A j \in 1 .. Len(o) : (o \o t)[j] = o[j]
        /\ \A j \in 1 .. Len(t) : (o \o t)[Len(o) + j] = t[j]
    BY <2>1, TogetherAt
  <2> QED BY <1>2, <2>2
<1>5. 1 \in 1 .. Len(t) /\ 2 \in 1 .. Len(t) /\ 3 \in 1 .. Len(t)
  BY <1>1
<1>6. Extends(all, o, x, y, z)
  BY <1>1, <1>3, <1>4, <1>5 DEF Extends
<1> QED BY <1>6 DEF all

\* The bytes o are the first g quads of a text.
Spells(o, text, g) ==
    /\ o \in Seq(Int) /\ Len(o) = 3 * g
    /\ \A q \in 0 .. g - 1 :
         (o[3 * q + 1] * 256 + o[3 * q + 2]) * 256 + o[3 * q + 3]
             = Joined(text[4 * q + 1], text[4 * q + 2], text[4 * q + 3], text[4 * q + 4])

\* One quad more.
LEMMA SpellsNext ==
    ASSUME NEW text, NEW g \in Nat, NEW o, Spells(o, text, g),
           NEW x \in Int, NEW y \in Int, NEW z \in Int,
           (x * 256 + y) * 256 + z = Joined(text[4 * g + 1], text[4 * g + 2],
                                            text[4 * g + 3], text[4 * g + 4])
    PROVE  Spells(o \o <<x, y, z>>, text, g + 1)
<1> DEFINE all == o \o <<x, y, z>>
           T(q) == Joined(text[4 * q + 1], text[4 * q + 2], text[4 * q + 3], text[4 * q + 4])
<1>1. o \in Seq(Int) /\ Len(o) = 3 * g
  BY DEF Spells
<1>3. \A q \in 0 .. g - 1 : (o[3 * q + 1] * 256 + o[3 * q + 2]) * 256 + o[3 * q + 3] = T(q)
  BY DEF Spells
<1>4. (x * 256 + y) * 256 + z = T(g)
  OBVIOUS
<1> HIDE DEF T
<1> DEFINE m == 3 * g
<1>5. /\ all \in Seq(Int) /\ Len(all) = m + 3 /\ \A j \in 1 .. m : all[j] = o[j]
      /\ all[m + 1] = x /\ all[m + 2] = y /\ all[m + 3] = z
  <2>1. Len(o) = m
    BY <1>1
  <2>3. o \in Seq(Int)
    BY <1>1
  <2>4. all = o \o <<x, y, z>>
    OBVIOUS
  <2> HIDE DEF m, all
  <2>2. Extends(o \o <<x, y, z>>, o, x, y, z)
    BY <2>3, ThreeMore, Zenon
  <2>5. Extends(all, o, x, y, z)
    BY <2>2, <2>4
  <2> QED BY <2>1, <2>5 DEF Extends
<1>6. 3 * (g + 1) = m + 3
  OBVIOUS
<1> HIDE DEF all
<1>7. ASSUME NEW q \in 0 .. g
      PROVE  (all[3 * q + 1] * 256 + all[3 * q + 2]) * 256 + all[3 * q + 3] = T(q)
  <2>1. CASE q = g
    BY <1>4, <1>5, <2>1
  <2>2. CASE q # g
    <3>1. q \in 0 .. g - 1 /\ 3 * q + 1 \in 1 .. 3 * g /\ 3 * q + 2 \in 1 .. 3 * g
          /\ 3 * q + 3 \in 1 .. 3 * g
      BY <2>2
    <3>2. all[3 * q + 1] = o[3 * q + 1] /\ all[3 * q + 2] = o[3 * q + 2]
          /\ all[3 * q + 3] = o[3 * q + 3]
      BY <1>5, <3>1
    <3> QED BY <1>3, <3>1, <3>2
  <2> QED BY <2>1, <2>2
<1>8. (g + 1) - 1 = g
  OBVIOUS
<1> QED BY <1>5, <1>6, <1>7, <1>8 DEF Spells, T, all

\* Each of four characters of a text is a symbol.
Symbols(text, q) == \A j \in 1 .. 4 : text[4 * q + j] \in 0 .. 63

\* ... and are encoded as these quads again.
LEMMA SpelledQuad ==
    ASSUME NEW text, NEW g \in Nat, NEW o, Spells(o, text, g), NEW all, Begins(all, o),
           NEW q \in 0 .. g - 1,
           Symbols(text, q)
    PROVE  Quad(all, 3 * q)
               = <<text[4 * q + 1], text[4 * q + 2], text[4 * q + 3], text[4 * q + 4]>>
<1> DEFINE i == 3 * q
           a == text[4 * q + 1]
           b == text[4 * q + 2]
           c == text[4 * q + 3]
           d == text[4 * q + 4]
<1>1. o \in Seq(Int) /\ Len(o) = 3 * g /\ i \in Nat /\ i + 3 <= 3 * g
      /\ (o[i + 1] * 256 + o[i + 2]) * 256 + o[i + 3] = Joined(a, b, c, d)
  BY DEF Spells
<1>2. a \in 0 .. 63 /\ b \in 0 .. 63 /\ c \in 0 .. 63 /\ d \in 0 .. 63
  BY DEF Symbols
<1>3. all \in Seq(Int) /\ Len(all) >= Len(o)
      /\ \A j \in 1 .. Len(o) : all[j] = o[j]
  BY DEF Begins
<1> HIDE DEF i, a, b, c, d
<1>4. i + 2 < Len(all) /\ i + 1 < Len(all) /\ i < Len(all) /\ Len(all) \in Nat
  <2>1. i \in Nat /\ Len(o) \in Nat /\ i + 3 <= Len(o)
    BY <1>1
  <2> QED BY <1>3, <2>1
<1>5. ByteAt(all, i) = o[i + 1] /\ ByteAt(all, i + 1) = o[i + 2] /\ ByteAt(all, i + 2) = o[i + 3]
  <2>1. (i + 1) + 1 = i + 2 /\ (i + 2) + 1 = i + 3
    BY <1>1
  <2>2. i + 1 \in 1 .. Len(o) /\ i + 2 \in 1 .. Len(o) /\ i + 3 \in 1 .. Len(o)
    BY <1>1
  <2>3. all[i + 1] = o[i + 1] /\ all[i + 2] = o[i + 2] /\ all[i + 3] = o[i + 3]
    BY <1>3, <2>2
  <2> QED BY <1>4, <2>1, <2>3 DEF ByteAt
<1>6. Coded(all, i, Joined(a, b, c, d))
  BY <1>1, <1>5 DEF Coded
<1>7. IsQuad(all, i, a, b, c, d)
  BY <1>2, <1>6, QuadIs, Zenon
<1>8. Quad(all, i) = <<a, b, c, d>>
  BY <1>4, <1>7 DEF IsQuad
<1> QED BY <1>8 DEF i, a, b, c, d

\* These bytes, behind those of g quads, are encoded as this quad.
Tailed(o, g, bytes, a, b, c, d) ==
    /\ Quad(o \o bytes, 3 * g) = <<a, b, c, d>>
    /\ bytes \in Seq(Int) /\ Len(bytes) \in 1 .. 3

LEMMA LastQuad ==
    ASSUME NEW g \in Nat, NEW o \in Seq(Int), Len(o) = 3 * g,
           NEW a \in 0 .. 63, NEW b \in 0 .. 63, NEW c \in 0 .. 63, NEW none, none = 0
    PROVE  /\ c % 4 = 0 => Tailed(o, g, Bytes(Joined(a, b, c, none), 2), a, b, c, Padding)
           /\ b % 16 = 0 =>
                Tailed(o, g, Bytes(Joined(a, b, none, none), 1), a, b, Padding, Padding)
<1> DEFINE i == 3 * g
<1>1. o \in Seq(Int) /\ Len(o) = i /\ i \in Nat /\ none \in 0 .. 63
  OBVIOUS
<1> HIDE DEF i
<1>2. ASSUME c % 4 = 0
      PROVE  /\ Quad(o \o Bytes(Joined(a, b, c, none), 2), i) = <<a, b, c, Padding>>
             /\ Bytes(Joined(a, b, c, none), 2) \in Seq(Int)
             /\ Len(Bytes(Joined(a, b, c, none), 2)) = 2
  <2> DEFINE v == Joined(a, b, c, none)
  <2>1. v \in Nat /\ (none = 0 /\ c % 4 = 0 => LastZero(v))
    BY <1>1, SymbolsBack, Zenon
  <2> HIDE DEF v
  <2>2. v \in Int /\ LastZero(v)
    BY <1>2, <2>1
  <2>3. PICK x \in Int, y \in Int, z \in Int : BytesOf(v, x, y, z)
    BY <2>2, BytesAre, Zenon
  <2>4. Bytes(v, 2) = <<x, y>> /\ z = 0 /\ (x * 256 + y) * 256 + z = v
    BY <2>2, <2>3, Zenon DEF BytesOf
  <2> DEFINE all == o \o <<x, y>>
  <2>5. all \in Seq(Int) /\ Len(all) = i + 2 /\ all[i + 1] = x /\ all[i + 2] = y
    BY <1>1, SMTT(30)
  <2>6. <<x, y>> \in Seq(Int) /\ Len(<<x, y>>) = 2
    OBVIOUS
  <2> HIDE DEF all
  <2>7. ByteAt(all, i) = x /\ ByteAt(all, i + 1) = y /\ ByteAt(all, i + 2) = z
    BY <1>1, <2>4, <2>5 DEF ByteAt
  <2>8. Coded(all, i, Joined(a, b, c, none))
    BY <2>4, <2>7 DEF Coded, v
  <2>9. IsQuad(all, i, a, b, c, none)
    BY <1>1, <2>8, QuadIs, Zenon
  <2>10. Quad(all, i) = <<a, b, c, Padding>>
    BY <1>1, <2>5, <2>9 DEF IsQuad
  <2> QED BY <2>4, <2>6, <2>10 DEF all, v
<1>3. ASSUME b % 16 = 0
      PROVE  /\ Quad(o \o Bytes(Joined(a, b, none, none), 1), i) = <<a, b, Padding, Padding>>
             /\ Bytes(Joined(a, b, none, none), 1) \in Seq(Int)
             /\ Len(Bytes(Joined(a, b, none, none), 1)) = 1
  <2> DEFINE v == Joined(a, b, none, none)
  <2>1. v \in Nat /\ (none = 0 /\ none = 0 /\ b % 16 = 0 => LastZero(v) /\ MidZero(v))
    BY <1>1, SymbolsBack, Zenon
  <2> HIDE DEF v
  <2>2. v \in Int /\ LastZero(v) /\ MidZero(v)
    BY <1>3, <2>1
  <2>3. PICK x \in Int, y \in Int, z \in Int : BytesOf(v, x, y, z)
    BY <2>2, BytesAre, Zenon
  <2>4. Bytes(v, 1) = <<x>> /\ y = 0 /\ z = 0 /\ (x * 256 + y) * 256 + z = v
    BY <2>2, <2>3, Zenon DEF BytesOf
  <2> DEFINE all == o \o <<x>>
  <2>5. all \in Seq(Int) /\ Len(all) = i + 1 /\ all[i + 1] = x
    BY <1>1
  <2>6. <<x>> \in Seq(Int) /\ Len(<<x>>) = 1
    OBVIOUS
  <2> HIDE DEF all
  <2>7. ByteAt(all, i) = x /\ ByteAt(all, i + 1) = y /\ ByteAt(all, i + 2) = z
    BY <1>1, <2>4, <2>5 DEF ByteAt
  <2>8. Coded(all, i, Joined(a, b, none, none))
    BY <2>4, <2>7 DEF Coded, v
  <2>9. IsQuad(all, i, a, b, none, none)
    BY <1>1, <2>8, QuadIs, Zenon
  <2>10. Quad(all, i) = <<a, b, Padding, Padding>>
    BY <1>1, <2>5, <2>9 DEF IsQuad
  <2> QED BY <2>4, <2>6, <2>10 DEF all, v
<1> QED BY <1>2, <1>3 DEF i, Tailed

\* Four symbols are read on the way from k[4 g], and they are the quad g of the text.
Along(k, text, g) ==
    LET t == Read(Read(k[4 * g], text[4 * g + 1]), text[4 * g + 2])
    IN  k[4 * g + 4] = Read(Read(t, text[4 * g + 3]), text[4 * g + 4])

LEMMA FourRead ==
    ASSUME NEW k, NEW text, NEW g \in Nat,
           \A i \in 4 * g + 1 .. 4 * g + 4 : k[i] = Read(k[i - 1], text[i])
    PROVE  Along(k, text, g)
<1> DEFINE i == 4 * g
<1>1. i \in Nat
  OBVIOUS
<1>2. \A x \in i + 1 .. i + 4 : k[x] = Read(k[x - 1], text[x])
  OBVIOUS
<1> HIDE DEF i
<1>3. /\ i + 1 \in i + 1 .. i + 4 /\ i + 2 \in i + 1 .. i + 4
      /\ i + 3 \in i + 1 .. i + 4 /\ i + 4 \in i + 1 .. i + 4
      /\ (i + 1) - 1 = i /\ (i + 2) - 1 = i + 1 /\ (i + 3) - 1 = i + 2 /\ (i + 4) - 1 = i + 3
  BY <1>1
<1>4. /\ k[i + 1] = Read(k[i], text[i + 1]) /\ k[i + 2] = Read(k[i + 1], text[i + 2])
      /\ k[i + 3] = Read(k[i + 2], text[i + 3]) /\ k[i + 4] = Read(k[i + 3], text[i + 4])
  BY <1>2, <1>3
<1> QED BY <1>4 DEF Along, i

\* A whole quad.
LEMMA QuadAlong ==
    ASSUME NEW k, NEW text, NEW g \in Nat, NEW o,
           Has(k[4 * g], 0, 0, 0, o), Spells(o, text, g), Along(k, text, g),
           Symbols(text, g)
    PROVE  \E x \in Int, y \in Int, z \in Int :
               /\ Has(k[4 * g + 4], 0, 0, 0, o \o <<x, y, z>>)
               /\ Spells(o \o <<x, y, z>>, text, g + 1)
<1> DEFINE a == text[4 * g + 1]
           b == text[4 * g + 2]
           c == text[4 * g + 3]
           d == text[4 * g + 4]
           v == Joined(a, b, c, d)
           s == k[4 * g]
           e == k[4 * g + 4]
<1>1. a \in 0 .. 63 /\ b \in 0 .. 63 /\ c \in 0 .. 63 /\ d \in 0 .. 63
  BY DEF Symbols
<1>2. Has(s, 0, 0, 0, o) /\ e = Read(Read(Read(Read(s, a), b), c), d)
  BY DEF Along
<1>3. ASSUME NEW x \in Int, NEW y \in Int, NEW z \in Int, (x * 256 + y) * 256 + z = v
      PROVE  Spells(o \o <<x, y, z>>, text, g + 1)
  BY <1>3, SpellsNext
<1> HIDE DEF a, b, c, d, s, e
<1>4. Has(Read(Read(Read(Read(s, a), b), c), d), 0, 0, 0, o \o Bytes(v, 0))
  BY <1>1, <1>2, QuadRead, Zenon
<1>5. v \in Int
  <2>1. v \in Nat
    BY <1>1, SymbolsBack, Zenon
  <2> QED BY <2>1
<1> HIDE DEF v
<1>6. PICK x \in Int, y \in Int, z \in Int : BytesOf(v, x, y, z)
  BY <1>5, BytesAre, Zenon
<1>7. Bytes(v, 0) = <<x, y, z>> /\ (x * 256 + y) * 256 + z = v
  BY <1>6 DEF BytesOf
<1>8. Spells(o \o <<x, y, z>>, text, g + 1)
  BY <1>3, <1>7
<1>9. Has(e, 0, 0, 0, o \o <<x, y, z>>)
  BY <1>2, <1>4, <1>7, Zenon
<1> QED BY <1>8, <1>9 DEF e

\* The last quad of a text is read: the bytes behind those of the others, tail, are
\* encoded as this quad.
Ended(s, a, b, c, d, g, o, tail) ==
    /\ tail \in Seq(Int) /\ Len(tail) \in 1 .. 3
    /\ \E end : Has(s, 0, 0, end, o \o tail)
    /\ Quad(o \o tail, 3 * g) = <<a, b, c, d>>

LEMMA EndPadded ==
    ASSUME NEW k, NEW text, NEW g \in Nat, NEW o,
           Has(k[4 * g], 0, 0, 0, o), Spells(o, text, g), Along(k, text, g),
           NEW a \in 0 .. 63, NEW b \in 0 .. 63, a = text[4 * g + 1], b = text[4 * g + 2],
           text[4 * g + 4] = Padding,
           \/ text[4 * g + 3] = Padding /\ b % 16 = 0
           \/ text[4 * g + 3] \in 0 .. 63 /\ text[4 * g + 3] % 4 = 0
    PROVE  \E tail : Ended(k[4 * g + 4], a, b, text[4 * g + 3], Padding, g, o, tail)
<1> DEFINE c == text[4 * g + 3]
           s == k[4 * g]
           e == k[4 * g + 4]
           n == 3 * g
           none == 0
<1>1. Has(s, 0, 0, 0, o) /\ e = Read(Read(Read(Read(s, a), b), c), Padding)
  BY DEF Along
<1>2. o \in Seq(Int) /\ Len(o) = n
  BY DEF Spells
<1>3. (c = Padding /\ b % 16 = 0) \/ (c \in 0 .. 63 /\ c % 4 = 0)
  OBVIOUS
<1>4. none \in 0 .. 63 /\ none = 0
  OBVIOUS
<1>5. \A x \in 0 .. 63 :
        /\ Has(Read(Read(Read(Read(s, a), b), x), Padding), 0, 0, 2,
               o \o Bytes(Joined(a, b, x, none), 2))
        /\ Has(Read(Read(Read(Read(s, a), b), Padding), Padding), 0, 0, 1,
               o \o Bytes(Joined(a, b, none, none), 1))
  <2> HIDE DEF s
  <2>1. \A x \in 0 .. 63 :
        /\ Has(Read(Read(Read(Read(s, a), b), x), Padding), 0, 0, 2,
               o \o Bytes(Joined(a, b, x, 0), 2))
        /\ Has(Read(Read(Read(Read(s, a), b), Padding), Padding), 0, 0, 1,
               o \o Bytes(Joined(a, b, 0, 0), 1))
    BY <1>1, QuadRead, Zenon
  <2> QED BY <2>1
<1> HIDE DEF c, s, e, none, n
<1>6. \A x \in 0 .. 63 :
        /\ x % 4 = 0 => Tailed(o, g, Bytes(Joined(a, b, x, none), 2), a, b, x, Padding)
        /\ b % 16 = 0 =>
             Tailed(o, g, Bytes(Joined(a, b, none, none), 1), a, b, Padding, Padding)
  <2>1. o \in Seq(Int)
    BY <1>2
  <2>2. Len(o) = 3 * g
    BY <1>2 DEF n
  <2>3. none = 0
    BY <1>4
  <2> QED BY <2>1, <2>2, <2>3, LastQuad, Zenon
<1>7. CASE c \in 0 .. 63 /\ c % 4 = 0
  <2> DEFINE tail == Bytes(Joined(a, b, c, none), 2)
  <2>1. Tailed(o, g, tail, a, b, c, Padding)
    BY <1>6, <1>7
  <2>2. Has(e, 0, 0, 2, o \o tail)
    BY <1>1, <1>5, <1>7, Zenon
  <2> HIDE DEF tail
  <2>4. Ended(e, a, b, c, Padding, g, o, tail)
    BY <2>1, <2>2, Zenon DEF Ended, Tailed
  <2> QED BY <2>4 DEF e, c
<1>8. CASE c = Padding /\ b % 16 = 0
  <2> DEFINE tail == Bytes(Joined(a, b, none, none), 1)
  <2>1. Tailed(o, g, tail, a, b, Padding, Padding)
    BY <1>4, <1>6, <1>8
  <2>2. Has(e, 0, 0, 1, o \o tail)
    BY <1>1, <1>4, <1>5, <1>8, Zenon
  <2> HIDE DEF tail
  <2>4. Ended(e, a, b, c, Padding, g, o, tail)
    BY <1>8, <2>1, <2>2, Zenon DEF Ended, Tailed
  <2> QED BY <2>4 DEF e, c
<1> QED BY <1>3, <1>7, <1>8

LEMMA EndWhole ==
    ASSUME NEW k, NEW text, NEW g \in Nat, NEW o,
           Has(k[4 * g], 0, 0, 0, o), Spells(o, text, g), Along(k, text, g),
           Symbols(text, g)
    PROVE  \E tail : Ended(k[4 * g + 4], text[4 * g + 1], text[4 * g + 2], text[4 * g + 3],
                           text[4 * g + 4], g, o, tail)
<1>1. PICK x \in Int, y \in Int, z \in Int :
               /\ Has(k[4 * g + 4], 0, 0, 0, o \o <<x, y, z>>)
               /\ Spells(o \o <<x, y, z>>, text, g + 1)
  BY QuadAlong, Zenon
<1> DEFINE tail == <<x, y, z>>
           all == o \o tail
           q == g + 1
<1>2. tail \in Seq(Int) /\ Len(tail) \in 1 .. 3
  OBVIOUS
<1>3. Begins(all, all)
  BY <1>1 DEF Begins, Spells
<1>4. Spells(all, text, q) /\ q \in Nat /\ g \in 0 .. q - 1
  BY <1>1
<1> HIDE DEF q, all, tail
<1>5. Quad(all, 3 * g)
        = <<text[4 * g + 1], text[4 * g + 2], text[4 * g + 3], text[4 * g + 4]>>
  BY <1>3, <1>4, SpelledQuad, Zenon
<1>6. Has(k[4 * g + 4], 0, 0, 0, all)
  BY <1>1 DEF all, tail
<1> QED BY <1>2, <1>5, <1>6, Zenon DEF Ended, all

\* The quad g of a text.
QuadAt(text, g) == <<text[4 * g + 1], text[4 * g + 2], text[4 * g + 3], text[4 * g + 4]>>

\* Four characters as a sequence of their own.
IsFour(q, text, i) == q \in [1 .. 4 -> Int] /\ \A j \in 1 .. 4 : q[j] = text[i + j]

LEMMA FourOf ==
    ASSUME NEW text, NEW i \in Nat, \A x \in i + 1 .. i + 4 : text[x] \in Int
    PROVE  IsFour(<<text[i + 1], text[i + 2], text[i + 3], text[i + 4]>>, text, i)
<1> DEFINE a == text[i + 1]
           b == text[i + 2]
           c == text[i + 3]
           d == text[i + 4]
           q == <<a, b, c, d>>
<1>1. a \in Int /\ b \in Int /\ c \in Int /\ d \in Int
  OBVIOUS
<1>2. ASSUME NEW j \in 1 .. 4
      PROVE  /\ j = 1 => text[i + j] = a
             /\ j = 2 => text[i + j] = b
             /\ j = 3 => text[i + j] = c
             /\ j = 4 => text[i + j] = d
  OBVIOUS
<1> HIDE DEF a, b, c, d
<1>3. q \in [1 .. 4 -> Int] /\ q[1] = a /\ q[2] = b /\ q[3] = c /\ q[4] = d
  BY <1>1
<1> HIDE DEF q
<1>4. ASSUME NEW j \in 1 .. 4
      PROVE  q[j] = text[i + j]
  <2>1. j = 1 \/ j = 2 \/ j = 3 \/ j = 4
    OBVIOUS
  <2> QED BY <1>2, <1>3, <2>1
<1>5. IsFour(q, text, i)
  BY <1>3, <1>4 DEF IsFour
<1> QED BY <1>5 DEF q, a, b, c, d

\* Every character of a text stands in one of its quads.
LEMMA Quarters ==
    ASSUME NEW m \in Nat, NEW x \in 1 .. 4 * m
    PROVE  \E g \in 1 .. m, j \in 1 .. 4 : (g - 1) * 4 + j = x
<1> DEFINE q == (x - 1) \div 4
           r == (x - 1) % 4
<1>1. q \in Int /\ r \in 0 .. 3 /\ x - 1 = 4 * q + r
  OBVIOUS
<1> HIDE DEF q, r
<1>2. q + 1 \in 1 .. m /\ r + 1 \in 1 .. 4 /\ ((q + 1) - 1) * 4 + (r + 1) = x
  BY <1>1
<1> QED BY <1>2

\* A text whose quads are those of the bytes is what they are encoded as.
LEMMA EncodedBack ==
    ASSUME NEW text \in Seq(Int), NEW h \in Nat, Len(text) = 4 * h + 4,
           NEW bytes \in Seq(Int), Len(bytes) \in 3 * h + 1 .. 3 * h + 3,
           \A g \in 0 .. h : Quad(bytes, 3 * g) = QuadAt(text, g)
    PROVE  Encode(bytes) = text
<1> DEFINE m == h + 1
           seqs == [g \in 1 .. m |-> Quad(bytes, 3 * (g - 1))]
           all == FlattenSeq(seqs)
           n == 4 * m
<1>1. (Len(bytes) + 2) \div 3 = m /\ m \in Nat /\ n = Len(text)
  <2> DEFINE l == Len(bytes)
             u == Len(text)
  <2>1. l \in 3 * h + 1 .. 3 * h + 3 /\ h \in Nat /\ u = 4 * h + 4
    OBVIOUS
  <2> HIDE DEF l, u
  <2>2. (l + 2) \div 3 = h + 1 /\ u = 4 * (h + 1)
    BY <2>1
  <2> QED BY <2>1, <2>2 DEF l, u
<1>2. Encode(bytes) = all
  <2> HIDE DEF m
  <2> QED BY <1>1 DEF Encode
<1>3. ASSUME NEW g \in 1 .. m
      PROVE  /\ seqs[g] \in [1 .. 4 -> Int]
             /\ \A j \in 1 .. 4 : seqs[g][j] = text[(g - 1) * 4 + j]
  <2> DEFINE p == g - 1
             i == 4 * p
             l == Len(text)
  <2>1. p \in 0 .. h /\ i \in Nat /\ i + 4 <= l /\ (g - 1) * 4 = i /\ l \in Nat
    <3>1. l = 4 * h + 4
      OBVIOUS
    <3> HIDE DEF l
    <3> QED BY <3>1
  <2>2. seqs[g] = <<text[i + 1], text[i + 2], text[i + 3], text[i + 4]>>
    <3>1. seqs[g] = Quad(bytes, 3 * p)
      OBVIOUS
    <3> HIDE DEF seqs
    <3> QED BY <2>1, <3>1 DEF QuadAt
  <2>3. \A x \in i + 1 .. i + 4 : text[x] \in Int
    <3>1. \A x \in 1 .. l : text[x] \in Int
      OBVIOUS
    <3> HIDE DEF i, l
    <3> QED BY <2>1, <3>1
  <2> HIDE DEF seqs, i, l, p
  <2>4. IsFour(<<text[i + 1], text[i + 2], text[i + 3], text[i + 4]>>, text, i)
    BY <2>1, <2>3, FourOf, Zenon
  <2>5. IsFour(seqs[g], text, i)
    BY <2>2, <2>4
  <2> QED BY <2>1, <2>5 DEF IsFour
<1>4. seqs \in [1 .. m -> [1 .. 4 -> Int]]
  BY <1>3
<1>5. \A g \in 1 .. m, j \in 1 .. 4 : seqs[g][j] = text[(g - 1) * 4 + j]
  BY <1>3
<1> HIDE DEF seqs
<1>6. all \in Seq(Int) /\ Laid(all, seqs, m, 4)
  <2> DEFINE L == 4
  <2>1. L \in Nat /\ seqs \in [1 .. m -> [1 .. L -> Int]]
    BY <1>4
  <2> HIDE DEF L, m
  <2>2. all \in Seq(Int) /\ Laid(all, seqs, m, L)
    BY <1>1, <2>1, FlattenEven
  <2> QED BY <2>2 DEF L
<1> HIDE DEF all
<1>7. Len(all) = m * 4 /\ \A g \in 1 .. m, j \in 1 .. 4 : all[(g - 1) * 4 + j] = seqs[g][j]
  BY <1>6 DEF Laid
<1>8. Len(all) = Len(text)
  BY <1>1, <1>7
<1>9. ASSUME NEW x \in 1 .. Len(text)
      PROVE  all[x] = text[x]
  <2>1. x \in 1 .. 4 * m
    BY <1>1
  <2> HIDE DEF m
  <2>2. PICK g \in 1 .. m, j \in 1 .. 4 : (g - 1) * 4 + j = x
    BY <1>1, <2>1, Quarters
  <2> QED BY <1>5, <1>7, <2>2
<1>10. all = text
  BY <1>6, <1>8, <1>9
<1> QED BY <1>2, <1>10

\* What a text is decoded to is encoded as the text again, for every text that is
\* base64: quad by quad, the decoder holds the bytes of what it has read.
LEMMA DecodesBack ==
    ASSUME NEW text \in Seq(Int), IsBase64(text)
    PROVE  /\ Decode(text).out \in Seq(Int) /\ Decode(text).rc = Len(Decode(text).out)
           /\ Encode(Decode(text).out) = text
<1> DEFINE base == [buf |-> 0, pos |-> 0, end |-> 0, out |-> <<>>, ok |-> TRUE]
           n == Len(text)
           last == FoldLeft(Read, base, text)
           h == n \div 4 - 1
<1>1. h \in Nat /\ n = 4 * h + 4
  <2>1. n \in Nat /\ n > 0 /\ n % 4 = 0
    BY DEF IsBase64
  <2> HIDE DEF n
  <2> QED BY <2>1
<1>2. /\ \A i \in 1 .. n - 2 : text[i] \in 0 .. 63
      /\ \/ text[n - 1] \in 0 .. 63 /\ text[n] \in 0 .. 63
         \/ text[n - 1] \in 0 .. 63 /\ text[n - 1] % 4 = 0 /\ text[n] = Padding
         \/ text[n - 2] % 16 = 0 /\ text[n - 1] = Padding /\ text[n] = Padding
  BY DEF IsBase64
<1> HIDE DEF h
<1>3. base \in Decoding /\ Has(base, 0, 0, 0, <<>>)
  BY DEF Decoding, Has
<1>4. \A v \in Decoding, x \in Int : Read(v, x) \in Decoding
  BY ReadHolds DEF OneRead
<1> HIDE DEF base
<1>5. PICK k : SymbolsAlong(k, text, Decoding, base)
  BY <1>3, <1>4, SymbolsRun
<1>6. k[0] = base /\ k[n] = last /\ \A i \in 1 .. n : k[i] = Read(k[i - 1], text[i])
  BY <1>5 DEF SymbolsAlong
<1> HIDE DEF last, n
<1>7. ASSUME NEW g \in 0 .. h
      PROVE  Along(k, text, g)
  <2>1. g \in Nat /\ \A i \in 4 * g + 1 .. 4 * g + 4 : i \in 1 .. n
    BY <1>1
  <2>2. \A i \in 4 * g + 1 .. 4 * g + 4 : k[i] = Read(k[i - 1], text[i])
    BY <1>6, <2>1
  <2> QED BY <2>1, <2>2, FourRead
<1>8. ASSUME NEW g \in Nat, g < h
      PROVE  Symbols(text, g)
  <2>1. \A j \in 1 .. 4 : 4 * g + j \in 1 .. n - 2
    BY <1>1, <1>8
  <2> QED BY <1>2, <2>1 DEF Symbols
<1> DEFINE Ok(g, o) == Has(k[4 * g], 0, 0, 0, o) /\ Spells(o, text, g)
           G == {g \in Nat : g <= h => \E o : Ok(g, o)}
<1>9. 0 \in G
  <2>1. Spells(<<>>, text, 0)
    BY DEF Spells
  <2>2. k[4 * 0] = base
    BY <1>6
  <2>3. Ok(0, <<>>)
    BY <1>3, <2>1, <2>2
  <2> QED BY <2>3
<1>10. ASSUME NEW g \in Nat, g \in G
       PROVE  g + 1 \in G
  <2> SUFFICES ASSUME g + 1 <= h PROVE \E o : Ok(g + 1, o)
    OBVIOUS
  <2>1. PICK o : Has(k[4 * g], 0, 0, 0, o) /\ Spells(o, text, g)
    BY <1>1, <1>10
  <2>2. Along(k, text, g)
    BY <1>1, <1>7
  <2>3. Symbols(text, g)
    <3>1. g < h
      BY <1>1
    <3> QED BY <1>8, <3>1
  <2>4. PICK x \in Int, y \in Int, z \in Int :
               /\ Has(k[4 * g + 4], 0, 0, 0, o \o <<x, y, z>>)
               /\ Spells(o \o <<x, y, z>>, text, g + 1)
    BY <2>1, <2>2, <2>3, QuadAlong, Zenon
  <2>5. 4 * (g + 1) = 4 * g + 4
    OBVIOUS
  <2>6. Ok(g + 1, o \o <<x, y, z>>)
    BY <2>4, <2>5
  <2> QED BY <2>6
<1>11. PICK o : Ok(h, o)
  <2> HIDE DEF G, Ok
  <2>1. h \in G
    BY <1>1, <1>9, <1>10, UpFromZero
  <2> QED BY <1>1, <2>1 DEF G
<1> DEFINE i == 4 * h
           a == text[i + 1]
           b == text[i + 2]
           c == text[i + 3]
           d == text[i + 4]
<1>12. \E tail : Ended(k[i + 4], a, b, c, d, h, o, tail)
  <2>1. Has(k[i], 0, 0, 0, o) /\ Spells(o, text, h) /\ Along(k, text, h)
    <3>1. h \in 0 .. h
      BY <1>1
    <3> QED BY <1>7, <1>11, <3>1
  <2>2. /\ a \in 0 .. 63 /\ b \in 0 .. 63
        /\ \/ c \in 0 .. 63 /\ d \in 0 .. 63
           \/ c \in 0 .. 63 /\ c % 4 = 0 /\ d = Padding
           \/ b % 16 = 0 /\ c = Padding /\ d = Padding
    <3>1. i + 1 \in 1 .. n - 2 /\ i + 2 \in 1 .. n - 2 /\ n - 2 = i + 2 /\ n - 1 = i + 3
          /\ n = i + 4
      BY <1>1
    <3> HIDE DEF i
    <3> QED BY <1>2, <3>1
  <2>3. CASE c \in 0 .. 63 /\ d \in 0 .. 63
    <3>1. Symbols(text, h)
      <4>1. ASSUME NEW j \in 1 .. 4
            PROVE  text[i + j] \in 0 .. 63
        <5>1. j = 1 \/ j = 2 \/ j = 3 \/ j = 4
          OBVIOUS
        <5> HIDE DEF i
        <5> QED BY <2>2, <2>3, <5>1
      <4> QED BY <4>1 DEF Symbols
    <3> QED BY <1>1, <2>1, <3>1, EndWhole, Zenon
  <2>4. CASE d = Padding /\ ((c = Padding /\ b % 16 = 0) \/ (c \in 0 .. 63 /\ c % 4 = 0))
    <3>1. \E tail : Ended(k[4 * h + 4], a, b, text[4 * h + 3], Padding, h, o, tail)
      BY <1>1, <2>1, <2>2, <2>4, EndPadded
    <3> QED BY <2>4, <3>1
  <2> HIDE DEF i, a, b, c, d
  <2>5. \/ c \in 0 .. 63 /\ d \in 0 .. 63
        \/ d = Padding /\ ((c = Padding /\ b % 16 = 0) \/ (c \in 0 .. 63 /\ c % 4 = 0))
    BY <2>2
  <2> QED BY <2>3, <2>4, <2>5
<1>13. PICK tail, end : /\ tail \in Seq(Int) /\ Len(tail) \in 1 .. 3
                        /\ Has(last, 0, 0, end, o \o tail)
                        /\ Quad(o \o tail, 3 * h) = QuadAt(text, h)
  <2>1. k[i + 4] = last
    BY <1>1, <1>6
  <2> HIDE DEF i
  <2>2. QuadAt(text, h) = <<a, b, c, d>>
    BY DEF QuadAt, i
  <2> QED BY <1>12, <2>1, <2>2 DEF Ended
<1> HIDE DEF i, a, b, c, d
<1> DEFINE bytes == o \o tail
<1>14. o \in Seq(Int) /\ Len(o) = 3 * h
  BY <1>11 DEF Spells
<1>15. Begins(bytes, o) /\ Len(bytes) \in 3 * h + 1 .. 3 * h + 3
  <2>1. bytes \in Seq(Int) /\ Len(bytes) = Len(o) + Len(tail) /\ Len(tail) \in Nat
    BY <1>13, <1>14, Together
  <2>2. \A j \in 1 .. Len(o) : bytes[j] = o[j]
    BY <1>13, <1>14, TogetherAt
  <2> HIDE DEF bytes
  <2> DEFINE l == Len(bytes)
             p == Len(o)
             q == Len(tail)
  <2>3. q \in 1 .. 3
    BY <1>13
  <2>4. p = 3 * h /\ l = p + q
    BY <1>14, <2>1
  <2> HIDE DEF l, p, q
  <2>5. l >= p /\ l \in 3 * h + 1 .. 3 * h + 3
    BY <1>1, <2>3, <2>4
  <2> QED BY <2>1, <2>2, <2>5 DEF Begins, l, p
<1> HIDE DEF bytes
<1>16. ASSUME NEW g \in 0 .. h
       PROVE  Quad(bytes, 3 * g) = QuadAt(text, g)
  <2>1. CASE g = h
    BY <1>13, <2>1 DEF bytes
  <2>2. CASE g # h
    <3>1. g \in 0 .. h - 1 /\ g < h /\ g \in Nat
      BY <1>1, <2>2
    <3>2. Symbols(text, g)
      BY <1>8, <3>1
    <3>3. Spells(o, text, h)
      BY <1>11
    <3>4. h \in Nat /\ Begins(bytes, o)
      BY <1>1, <1>15
    <3>5. Quad(bytes, 3 * g)
              = <<text[4 * g + 1], text[4 * g + 2], text[4 * g + 3], text[4 * g + 4]>>
      BY <3>1, <3>2, <3>3, <3>4, SpelledQuad, Zenon
    <3> QED BY <3>5 DEF QuadAt
  <2> QED BY <2>1, <2>2
<1>17. bytes \in Seq(Int) /\ last.out = bytes /\ last.ok /\ last.pos = 0
  BY <1>13, <1>15 DEF Has, Begins, bytes
<1>18. Decode(text).out = bytes /\ Decode(text).rc = Len(bytes)
  BY <1>17 DEF Decode, last, base
<1>19. Encode(bytes) = text
  BY <1>1, <1>15, <1>16, <1>17, EncodedBack DEF n
<1> QED BY <1>17, <1>18, <1>19

-----------------------------------------------------------------------------
(* The elements of an array are read back.                                 *)

\* FoldLeft of NextElement and of ReadByte ends where their steps lead.
LEMMA ElementsRun ==
    ASSUME NEW n \in Nat, NEW V, \A v \in V, x \in 1 .. n : NextElement(v, x) \in V,
           NEW e, \A i \in 0 .. n : e[i] \in V,
           \A i \in 1 .. n : NextElement(e[i - 1], i) = e[i]
    PROVE  FoldLeft(NextElement, e[0], [i \in 1 .. n |-> i]) = e[n]
<1> DEFINE s == [i \in 1 .. n |-> i]
           D == DOMAIN s
           base == e[0]
           step == [i \in D |-> [v \in V |-> NextElement(v, s[i])]]
           iter == CHOOSE g : g = [t \in SUBSET D |-> IF t = {} THEN base
                                     ELSE NextElement(g[t \ {Max(t)}], s[Max(t)])]
<1>1. FoldLeft(NextElement, base, s) = iter[D]
  BY DEF FoldLeft, MapThenFoldSet
<1>2. n \in Nat /\ D = 1 .. n /\ (\A i \in D : s[i] = i) /\ base \in V
  OBVIOUS
<1> HIDE DEF s, D, base
<1>3. \A i \in D, v \in V : step[i][v] \in V /\ step[i][v] = NextElement(v, s[i])
  BY <1>2
<1>4. Positions(D, n) /\ Maps(step, D, V)
  BY <1>2, <1>3 DEF Positions, Maps
<1> HIDE DEF step
<1>5. PICK h : FoldsDown(h, D, V, base, step)
  BY <1>2, <1>4, FoldOfPositions
<1>6. h = [t \in SUBSET D |-> IF t = {} THEN base ELSE NextElement(h[t \ {Max(t)}], s[Max(t)])]
  <2>1. ASSUME NEW t \in SUBSET D, t # {}
        PROVE  h[t] = NextElement(h[t \ {Max(t)}], s[Max(t)])
    <3>1. Max(t) \in D /\ h[t] = step[Max(t)][h[t \ {Max(t)}]] /\ h[t \ {Max(t)}] \in V
      BY <1>5, <2>1 DEF FoldsDown
    <3> QED BY <1>3, <3>1
  <2> QED BY <1>5, <2>1 DEF FoldsDown
<1>7. iter = [t \in SUBSET D |-> IF t = {} THEN base
                                 ELSE NextElement(iter[t \ {Max(t)}], s[Max(t)])]
  BY <1>6
<1> HIDE DEF iter
<1>8. Follows(iter, D, V, base, step)
  <2>1. ASSUME NEW t \in SUBSET D, t # {}, iter[t \ {Max(t)}] \in V
        PROVE  iter[t] = step[Max(t)][iter[t \ {Max(t)}]]
    <3>1. Max(t) \in D
      BY <1>5, <2>1 DEF FoldsDown
    <3>2. iter[t] = NextElement(iter[t \ {Max(t)}], s[Max(t)])
      BY <1>7, <2>1
    <3> QED BY <1>3, <2>1, <3>1, <3>2
  <2> QED BY <1>7, <2>1 DEF Follows
<1>9. PICK k : Runs(k, n, V, base, step, iter[D])
  BY <1>4, <1>5, <1>8, FoldFollowed
<1>10. ASSUME NEW i \in 1 .. n
       PROVE  k[i] = NextElement(k[i - 1], i)
  <2>1. k[i - 1] \in V /\ k[i] = step[i][k[i - 1]]
    BY <1>2, <1>9 DEF Runs
  <2>2. i \in D /\ s[i] = i
    BY <1>2
  <2> QED BY <1>3, <2>1, <2>2
<1>11. k[0] = base /\ k[n] = iter[D]
  BY <1>9 DEF Runs
<1> DEFINE T == {i \in Nat : i <= n => k[i] = e[i]}
<1>12. 0 \in T
  BY <1>11 DEF base
<1>13. ASSUME NEW i \in Nat, i \in T
       PROVE  i + 1 \in T
  <2> SUFFICES ASSUME i + 1 <= n PROVE k[i + 1] = e[i + 1]
    OBVIOUS
  <2>1. i + 1 \in 1 .. n /\ (i + 1) - 1 = i /\ k[i] = e[i]
    BY <1>13
  <2> QED BY <1>10, <2>1
<1> HIDE DEF T
<1>14. n \in T
  BY <1>12, <1>13, UpFromZero
<1>15. iter[D] = e[n]
  BY <1>2, <1>11, <1>14 DEF T
<1> QED BY <1>1, <1>15 DEF base, s

LEMMA UuidRun ==
    ASSUME NEW n \in Nat, NEW V, \A v \in V, x \in 1 .. n : ReadByte(v, x) \in V,
           NEW e, \A i \in 0 .. n : e[i] \in V,
           \A i \in 1 .. n : ReadByte(e[i - 1], i) = e[i]
    PROVE  FoldLeft(ReadByte, e[0], [i \in 1 .. n |-> i]) = e[n]
<1> DEFINE s == [i \in 1 .. n |-> i]
           D == DOMAIN s
           base == e[0]
           step == [i \in D |-> [v \in V |-> ReadByte(v, s[i])]]
           iter == CHOOSE g : g = [t \in SUBSET D |-> IF t = {} THEN base
                                     ELSE ReadByte(g[t \ {Max(t)}], s[Max(t)])]
<1>1. FoldLeft(ReadByte, base, s) = iter[D]
  BY DEF FoldLeft, MapThenFoldSet
<1>2. n \in Nat /\ D = 1 .. n /\ (\A i \in D : s[i] = i) /\ base \in V
  OBVIOUS
<1> HIDE DEF s, D, base
<1>3. \A i \in D, v \in V : step[i][v] \in V /\ step[i][v] = ReadByte(v, s[i])
  BY <1>2
<1>4. Positions(D, n) /\ Maps(step, D, V)
  BY <1>2, <1>3 DEF Positions, Maps
<1> HIDE DEF step
<1>5. PICK h : FoldsDown(h, D, V, base, step)
  BY <1>2, <1>4, FoldOfPositions
<1>6. h = [t \in SUBSET D |-> IF t = {} THEN base ELSE ReadByte(h[t \ {Max(t)}], s[Max(t)])]
  <2>1. ASSUME NEW t \in SUBSET D, t # {}
        PROVE  h[t] = ReadByte(h[t \ {Max(t)}], s[Max(t)])
    <3>1. Max(t) \in D /\ h[t] = step[Max(t)][h[t \ {Max(t)}]] /\ h[t \ {Max(t)}] \in V
      BY <1>5, <2>1 DEF FoldsDown
    <3> QED BY <1>3, <3>1
  <2> QED BY <1>5, <2>1 DEF FoldsDown
<1>7. iter = [t \in SUBSET D |-> IF t = {} THEN base
                                 ELSE ReadByte(iter[t \ {Max(t)}], s[Max(t)])]
  BY <1>6
<1> HIDE DEF iter
<1>8. Follows(iter, D, V, base, step)
  <2>1. ASSUME NEW t \in SUBSET D, t # {}, iter[t \ {Max(t)}] \in V
        PROVE  iter[t] = step[Max(t)][iter[t \ {Max(t)}]]
    <3>1. Max(t) \in D
      BY <1>5, <2>1 DEF FoldsDown
    <3>2. iter[t] = ReadByte(iter[t \ {Max(t)}], s[Max(t)])
      BY <1>7, <2>1
    <3> QED BY <1>3, <2>1, <3>1, <3>2
  <2> QED BY <1>7, <2>1 DEF Follows
<1>9. PICK k : Runs(k, n, V, base, step, iter[D])
  BY <1>4, <1>5, <1>8, FoldFollowed
<1>10. ASSUME NEW i \in 1 .. n
       PROVE  k[i] = ReadByte(k[i - 1], i)
  <2>1. k[i - 1] \in V /\ k[i] = step[i][k[i - 1]]
    BY <1>2, <1>9 DEF Runs
  <2>2. i \in D /\ s[i] = i
    BY <1>2
  <2> QED BY <1>3, <2>1, <2>2
<1>11. k[0] = base /\ k[n] = iter[D]
  BY <1>9 DEF Runs
<1> DEFINE T == {i \in Nat : i <= n => k[i] = e[i]}
<1>12. 0 \in T
  BY <1>11 DEF base
<1>13. ASSUME NEW i \in Nat, i \in T
       PROVE  i + 1 \in T
  <2> SUFFICES ASSUME i + 1 <= n PROVE k[i + 1] = e[i + 1]
    OBVIOUS
  <2>1. i + 1 \in 1 .. n /\ (i + 1) - 1 = i /\ k[i] = e[i]
    BY <1>13
  <2> QED BY <1>10, <2>1
<1> HIDE DEF T
<1>14. n \in T
  BY <1>12, <1>13, UpFromZero
<1>15. iter[D] = e[n]
  BY <1>2, <1>11, <1>14 DEF T
<1> QED BY <1>1, <1>15 DEF base, s

\* An element behind its length.
LEMMA PrefixedIs ==
    ASSUME NEW e \in Seq(Int)
    PROVE  /\ Prefixed(e) \in Seq(Int) /\ Len(Prefixed(e)) = 1 + Len(e)
           /\ Prefixed(e)[1] = Len(e) /\ \A x \in 1 .. Len(e) : Prefixed(e)[1 + x] = e[x]
<1> DEFINE p == <<Len(e)>>
<1>1. p \in Seq(Int) /\ Len(p) = 1 /\ p[1] = Len(e) /\ Len(e) \in Nat
  OBVIOUS
<1>2. Prefixed(e) = p \o e
  BY DEF Prefixed
<1> HIDE DEF p
<1>3. Apart(p \o e, p, e)
  BY <1>1, JoinedApart, Zenon
<1>4. Apart(Prefixed(e), p, e)
  BY <1>2, <1>3, Zenon
<1> DEFINE all == Prefixed(e)
<1> HIDE DEF all
<1>5. all \in Seq(Int) /\ Len(all) = 1 + Len(e) /\ all[1] = p[1]
      /\ \A x \in 1 .. Len(e) : all[1 + x] = e[x]
  BY <1>1, <1>4 DEF Apart, all
<1> QED BY <1>1, <1>5 DEF all

\* PostgreSQL reads the elements of an array out of what was written of them.
LEMMA ElementsBack ==
    ASSUME NEW data \in Seq(Seq(Int)), NEW n \in Nat, n = Len(data),
           NEW header \in Seq(Int), Len(header) = 5, header[4] = n,
           NEW seqs \in [1 .. n -> Seq(Int)], \A i \in 1 .. n : seqs[i] = Prefixed(data[i])
    PROVE  ElementsOf(header \o FlattenSeq(seqs)) = data
<1> DEFINE all == FlattenSeq(seqs)
           sent == header \o all
           last == Len(sent)
<1>1. PICK after : all \in Seq(Int) /\ Placed(after, all, seqs, n)
  BY FlattenPlaced
<1>2. /\ after \in [0 .. n -> Nat] /\ after[0] = 0 /\ after[n] = Len(all)
      /\ \A i \in 1 .. n :
         /\ after[i] = after[i - 1] + Len(seqs[i]) /\ after[i] <= Len(all)
         /\ \A x \in 1 .. Len(seqs[i]) : all[after[i - 1] + x] = seqs[i][x]
  BY <1>1 DEF Placed
<1> HIDE DEF all
<1>3. sent \in Seq(Int) /\ last = 5 + Len(all) /\ last \in Nat /\ Len(all) \in Nat
  BY <1>1, Together
<1>4. sent[4] = n /\ \A p \in 1 .. Len(all) : sent[5 + p] = all[p]
  <2>1. Apart(header \o all, header, all)
    BY <1>1, JoinedApart, Zenon
  <2>2. Apart(sent, header, all)
    BY <2>1
  <2> HIDE DEF sent
  <2>3. 4 \in 1 .. Len(header)
    OBVIOUS
  <2> QED BY <2>2, <2>3 DEF Apart
<1> HIDE DEF sent, last
<1> DEFINE e == [i \in 0 .. n |-> [sent |-> sent, at |-> 6 + after[i], got |-> FirstOf(data, i)]]
           Over == [sent : {sent}, at : {last + 2}, got : Seq(Seq(Int))]
           V == {e[i] : i \in 0 .. n} \cup Over
<1>5. \A i \in 0 .. n : FirstOf(data, i) \in Seq(Seq(Int))
  <2>1. \A j \in 1 .. n : data[j] \in Seq(Int)
    OBVIOUS
  <2> QED BY <2>1 DEF FirstOf
<1>6. ASSUME NEW i \in 1 .. n
      PROVE  NextElement(e[i - 1], i) = e[i]
  <2> DEFINE r == e[i - 1]
             d == data[i]
             l == Len(d)
             s == seqs[i]
             p == 6 + after[i - 1]
             g == FirstOf(data, i - 1)
  <2>1. i \in 0 .. n /\ i - 1 \in 0 .. n /\ d \in Seq(Int) /\ l \in Nat
        /\ after[i - 1] \in Nat /\ after[i] \in Nat
    BY <1>2
  <2>2. r = [sent |-> sent, at |-> p, got |-> g]
    BY <2>1
  <2>3. s = Prefixed(d)
    OBVIOUS
  <2>4. /\ after[i] = after[i - 1] + Len(s) /\ after[i] <= Len(all)
        /\ \A x \in 1 .. Len(s) : all[after[i - 1] + x] = s[x]
    BY <1>2
  <2>5. FirstOf(data, i) = Append(g, d)
    <3>1. i \in 1 .. Len(data)
      OBVIOUS
    <3> QED BY <3>1, FirstNext
  <2>6. e[i] = [sent |-> sent, at |-> 6 + after[i], got |-> FirstOf(data, i)]
    BY <2>1
  <2> HIDE DEF r, d, s, g, e
  <2>7. Len(s) = 1 + l /\ s[1] = l /\ \A x \in 1 .. l : s[1 + x] = d[x]
    BY <2>1, <2>3, PrefixedIs
  <2> HIDE DEF l
  <2> DEFINE a == after[i - 1]
             b == after[i]
             w == Len(all)
             z == Len(s)
  <2>12. /\ a \in Nat /\ w \in Nat /\ b = a + z /\ b <= w /\ z = 1 + l /\ l \in Nat
         /\ last = 5 + w /\ p = 6 + a
    BY <1>3, <2>1, <2>4, <2>7
  <2>13. /\ \A x \in 1 .. z : all[a + x] = s[x]
         /\ s[1] = l /\ \A x \in 1 .. l : s[1 + x] = d[x]
         /\ \A x \in 1 .. w : sent[5 + x] = all[x]
    BY <1>4, <2>4, <2>7
  <2> HIDE DEF a, b, w, z, p
  <2>14. a + 1 \in 1 .. w /\ 1 \in 1 .. z /\ 5 + (a + 1) = p
    BY <2>12
  <2>15. \A x \in 1 .. l : a + (1 + x) \in 1 .. w /\ 1 + x \in 1 .. z /\ 5 + (a + (1 + x)) = p + x
    BY <2>12
  <2>8. sent[p] = l /\ p + l <= last /\ p <= last /\ p \in Nat /\ 6 + after[i] = p + 1 + l
    <3>1. sent[p] = l
      BY <2>13, <2>14
    <3>2. p + l <= last /\ p <= last /\ p \in Nat /\ 6 + b = p + 1 + l
      BY <2>12
    <3> QED BY <3>1, <3>2 DEF b
  <2>9. \A x \in 1 .. l : sent[p + x] = d[x]
    <3> TAKE x \in 1 .. l
    <3> DEFINE y == 1 + x
               q == a + y
               v == 5 + q
    <3>1. y \in 1 .. z /\ q \in 1 .. w /\ v = p + x /\ s[y] = d[x]
      BY <2>13, <2>15
    <3>2. q = a + y /\ v = 5 + q
      OBVIOUS
    <3> HIDE DEF y, q, v
    <3>3. sent[v] = all[q] /\ all[q] = s[y]
      BY <2>13, <3>1, <3>2
    <3> QED BY <3>1, <3>3
  <2>10. SubSeq(sent, p + 1, p + l) = d
    <3>1. p + Len(d) <= Len(sent) /\ \A x \in 1 .. Len(d) : sent[p + x] = d[x]
      BY <2>8, <2>9 DEF l, last
    <3>2. SubSeq(sent, p + 1, p + Len(d)) = d
      BY <1>3, <2>1, <2>8, <3>1, PartIs
    <3> QED BY <3>2 DEF l
  <2>11. NextElement(r, i) = [sent |-> sent, at |-> p + 1 + l, got |-> Append(g, d)]
    <3>1. r.at = p /\ r.sent = sent /\ r.got = g /\ ~(p > Len(sent))
      BY <1>3, <2>2, <2>8 DEF last
    <3>2. NextElement(r, i) = [r EXCEPT !.at = p + 1 + l, !.got = Append(g, d)]
      BY <2>8, <2>10, <3>1 DEF NextElement
    <3> QED BY <2>2, <3>2
  <2> QED BY <2>5, <2>6, <2>8, <2>11 DEF r
<1>7. \A i \in 0 .. n : e[i] \in V
  OBVIOUS
<1>8. ASSUME NEW v \in V, NEW x \in 1 .. n
      PROVE  NextElement(v, x) \in V
  <2> USE <1>8
  <2>1. CASE v \in Over
    <3>1. v.at > Len(v.sent) /\ Len(v.sent) + 2 = last + 2
      BY <1>3, <2>1 DEF last
    <3>2. NextElement(v, x) = [v EXCEPT !.at = last + 2]
      BY <3>1 DEF NextElement
    <3>3. NextElement(v, x) \in Over
      BY <2>1, <3>2
    <3> QED BY <3>3
  <2>2. CASE v = e[n]
    <3>1. v = [sent |-> sent, at |-> 6 + after[n], got |-> FirstOf(data, n)]
      BY <2>2
    <3>2. 6 + after[n] = last + 1 /\ FirstOf(data, n) \in Seq(Seq(Int))
      BY <1>2, <1>3, <1>5
    <3>3. v.at > Len(v.sent) /\ Len(v.sent) + 2 = last + 2
      BY <1>3, <3>1, <3>2 DEF last
    <3>4. NextElement(v, x) = [v EXCEPT !.at = last + 2]
      BY <3>3 DEF NextElement
    <3>5. NextElement(v, x) = [sent |-> sent, at |-> last + 2, got |-> FirstOf(data, n)]
      BY <3>1, <3>4
    <3>6. NextElement(v, x) \in Over
      BY <3>2, <3>5
    <3> QED BY <3>6
  <2>3. ASSUME NEW i \in 0 .. n - 1, v = e[i]
        PROVE  NextElement(v, x) \in V
    <3>1. i + 1 \in 1 .. n /\ (i + 1) - 1 = i /\ i + 1 \in 0 .. n
      BY <2>3
    <3> HIDE DEF e
    <3>2. NextElement(e[i], i + 1) = e[i + 1]
      BY <1>6, <3>1
    <3>3. NextElement(e[i], x) = NextElement(e[i], i + 1)
      BY DEF NextElement
    <3>4. e[i + 1] \in V
      BY <3>1
    <3> QED BY <2>3, <3>2, <3>3, <3>4
  <2>4. v \in Over \/ \E i \in 0 .. n : v = e[i]
    BY DEF V
  <2> HIDE DEF Over, e, V
  <2>5. ASSUME NEW i \in 0 .. n, v = e[i]
        PROVE  NextElement(v, x) \in V
    <3>1. i = n \/ i \in 0 .. n - 1
      OBVIOUS
    <3> QED BY <2>2, <2>3, <2>5, <3>1
  <2> QED BY <2>1, <2>4, <2>5
<1> DEFINE end == FoldLeft(NextElement, e[0], [i \in 1 .. n |-> i])
<1>9. end = e[n]
  <2> HIDE DEF e, V
  <2> QED BY <1>6, <1>7, <1>8, ElementsRun
<1>10. e[0] = [sent |-> sent, at |-> 6, got |-> <<>>]
  BY <1>2 DEF FirstOf
<1>11. e[n].at = last + 1 /\ e[n].got = data
  <2>1. e[n].at = 6 + after[n] /\ e[n].got = FirstOf(data, n)
    OBVIOUS
  <2>2. data = FirstOf(data, n)
    BY DEF FirstOf
  <2> QED BY <1>2, <1>3, <2>1, <2>2
<1> HIDE DEF e
<1>12. ElementsOf(sent) = IF end.at = Len(sent) + 1 THEN end.got ELSE <<NoText>>
  BY <1>4, <1>10 DEF ElementsOf
<1>13. ElementsOf(sent) = data
  BY <1>9, <1>11, <1>12 DEF last
<1> QED BY <1>13 DEF sent, all

\* What is sent of a block is what was written first.
LEMMA SentStart ==
    ASSUME NEW w, NEW p \in Seq(Int), Begins(w, p), NEW size \in Nat, Len(w) <= size
    PROVE  Value(size, w).size = size /\ SubSeq(Value(size, w).cells, 1, Len(p)) = p
<1> DEFINE pad == [i \in 1 .. size - Len(w) |-> Garbage]
           cells == w \o pad
<1>1. Value(size, w).size = size /\ Value(size, w).cells = cells
  BY DEF Value, Block
<1>2. w \in Seq(Int)
  BY DEF Begins
<1>3. pad \in Seq(Int)
  <2>1. size - Len(w) \in Nat /\ Garbage \in Int
    BY <1>2 DEF Garbage
  <2> QED BY <2>1
<1> HIDE DEF pad
<1>4. Begins(cells, w)
  BY <1>2, <1>3, JoinBegins
<1> HIDE DEF cells
<1>5. Begins(cells, p)
  BY <1>4, BeginsBegins
<1> QED BY <1>1, <1>5, StartIs

\* PostgreSQL reads these elements in a value.
Holds(v, data) == ElementsOf(SubSeq(v.cells, 1, v.size)) = data

\* An array that is measured and written is read as its elements.
LEMMA ArrayBack ==
    ASSUME NEW data \in Seq(Seq(Int)), NEW n \in Nat, n = Len(data), NEW hasNull,
           NEW seqs \in [1 .. n -> Seq(Int)], \A i \in 1 .. n : seqs[i] = Prefixed(data[i]),
           NEW sizes, DOMAIN sizes = 1 .. n, \A i \in 1 .. n : sizes[i] = Len(data[i])
    PROVE  Holds(Value(Measured(sizes), ArrayHeader(hasNull, n) \o FlattenSeq(seqs)), data)
<1> DEFINE header == ArrayHeader(hasNull, n)
           all == FlattenSeq(seqs)
           w == header \o all
           size == [i \in 1 .. n |-> 1 + sizes[i]]
           m == Measured(sizes)
<1>1. header \in Seq(Int) /\ Len(header) = 5 /\ header[4] = n
  <2>1. header \in Seq(Int) /\ Len(header) = 5
    BY HeaderHolds
  <2> QED BY <2>1 DEF ArrayHeader
<1>2. PICK after : all \in Seq(Int) /\ Placed(after, all, seqs, n)
  BY FlattenPlaced
<1>3. m = 5 + SumFunctionOnSet(size, 1 .. n)
  BY DEF Measured
<1>4. \A i \in 1 .. n : size[i] = Len(seqs[i])
  <2> TAKE i \in 1 .. n
  <2>1. data[i] \in Seq(Int) /\ seqs[i] = Prefixed(data[i]) /\ size[i] = 1 + Len(data[i])
    OBVIOUS
  <2> HIDE DEF size
  <2> QED BY <2>1, PrefixedIs
<1> HIDE DEF header, all, size, m
<1>5. Len(all) = SumFunctionOnSet(size, 1 .. n)
  <2>1. all \in Seq(Int)
    BY <1>2
  <2>2. Placed(after, all, seqs, n)
    BY <1>2
  <2>3. SizesAre(size, seqs, n)
    BY <1>4 DEF SizesAre
  <2>4. AsLong(all, size, n)
    BY <2>1, <2>2, <2>3, PlacedLong, Zenon
  <2> QED BY <2>4 DEF AsLong
<1>6. w \in Seq(Int) /\ Len(w) = m /\ m \in Nat
  <2>1. header \o all \in Seq(Int) /\ Len(header \o all) = Len(header) + Len(all)
    BY <1>1, <1>2, Together
  <2>2. Len(all) \in Nat
    BY <1>2
  <2> QED BY <1>1, <1>3, <1>5, <2>1, <2>2
<1>7. ElementsOf(w) = data
  BY <1>1, ElementsBack DEF all
<1> HIDE DEF w
<1>8. Begins(w, w)
  BY <1>6, JoinBegins
<1> DEFINE v == Value(m, w)
<1>9. v.size = m /\ SubSeq(v.cells, 1, Len(w)) = w
  <2>1. Len(w) <= m
    BY <1>6
  <2> QED BY <1>6, <1>8, <2>1, SentStart
<1>10. Holds(v, data)
  BY <1>6, <1>7, <1>9 DEF Holds
<1> QED BY <1>10 DEF w, header, all, m

LEMMA FixedBack ==
    ASSUME NEW data \in Seq(Seq(Int))
    PROVE  Holds(FixedArray(data), data)
<1> DEFINE n == Len(data)
           seqs == [i \in 1 .. n |-> Prefixed(data[i])]
           sizes == [i \in 1 .. n |-> Len(data[i])]
<1>1. n \in Nat /\ DOMAIN data = 1 .. n /\ \A i \in 1 .. n : data[i] \in Seq(Int)
  OBVIOUS
<1>2. FixedArray(data) = Value(Measured(sizes), ArrayHeader(FALSE, n) \o FlattenSeq(seqs))
  BY <1>1 DEF FixedArray
<1>3. n = Len(data)
  OBVIOUS
<1> HIDE DEF n
<1>4. seqs \in [1 .. n -> Seq(Int)]
  <2>1. \A i \in 1 .. n : Prefixed(data[i]) \in Seq(Int)
    BY <1>1, PrefixedIs
  <2> QED BY <2>1
<1>5. \A i \in 1 .. n : seqs[i] = Prefixed(data[i])
  OBVIOUS
<1>6. DOMAIN sizes = 1 .. n /\ \A i \in 1 .. n : sizes[i] = Len(data[i])
  OBVIOUS
<1> HIDE DEF seqs, sizes
<1>7. n \in Nat
  BY <1>1
<1>8. Holds(Value(Measured(sizes), ArrayHeader(FALSE, n) \o FlattenSeq(seqs)), data)
  BY <1>3, <1>4, <1>5, <1>6, <1>7, ArrayBack
<1> QED BY <1>2, <1>8

\* What PostgreSQL is to read of a text, and its size.
Shows(data, isUuid, told) ==
    /\ DOMAIN told = DOMAIN data
    /\ \A i \in DOMAIN data :
         /\ ~Absent(data[i]) /\ SizeOf(data[i], isUuid) = Len(told[i])
         /\ \A before : (IF isUuid THEN Uuid(data[i], before) ELSE data[i]) = told[i]

LEMMA TextBack ==
    ASSUME NEW data, NEW isUuid, NEW told \in Seq(Seq(Int)), Shows(data, isUuid, told)
    PROVE  Holds(TextArray(data, isUuid), told)
<1> DEFINE n == Len(told)
           hasNull == \E i \in DOMAIN data : data[i] = NoText
           uuid[i \in 0 .. Len(data)] ==
               IF i = 0 THEN Unknown
               ELSE IF Absent(data[i]) THEN uuid[i - 1] ELSE Uuid(data[i], uuid[i - 1])
           element(i) == IF Absent(data[i]) THEN <<>>
                         ELSE Prefixed(IF isUuid THEN Uuid(data[i], uuid[i - 1]) ELSE data[i])
           written == [i \in DOMAIN data |-> element(i)]
           sizes == [i \in DOMAIN data |-> SizeOf(data[i], isUuid)]
           seqs == [i \in 1 .. n |-> Prefixed(told[i])]
<1>1. TextArray(data, isUuid) =
          Value(Measured(sizes), ArrayHeader(hasNull, Len(data)) \o FlattenSeq(written))
  BY DEF TextArray
<1>2. n \in Nat /\ n = Len(told) /\ DOMAIN told = 1 .. n /\ \A i \in 1 .. n : told[i] \in Seq(Int)
  OBVIOUS
<1>3. DOMAIN data = 1 .. n
  BY <1>2 DEF Shows
<1> HIDE DEF n, hasNull, uuid
<1>4. \A i \in 1 .. n : element(i) = Prefixed(told[i])
  BY <1>3 DEF Shows
<1> HIDE DEF element
<1>5. written = seqs
  BY <1>3, <1>4
<1>6. seqs \in [1 .. n -> Seq(Int)]
  <2>1. \A i \in 1 .. n : Prefixed(told[i]) \in Seq(Int)
    BY <1>2, PrefixedIs
  <2> QED BY <2>1
<1>7. \A i \in 1 .. n : seqs[i] = Prefixed(told[i])
  OBVIOUS
<1>8. DOMAIN sizes = 1 .. n /\ \A i \in 1 .. n : sizes[i] = Len(told[i])
  BY <1>3 DEF Shows
<1> HIDE DEF seqs, sizes, written
<1>9. n \in Nat /\ n = Len(told)
  BY <1>2
<1>10. Len(data) = n
  BY <1>3, <1>9
<1>11. Holds(Value(Measured(sizes), ArrayHeader(hasNull, n) \o FlattenSeq(seqs)), told)
  BY <1>6, <1>7, <1>8, <1>9, ArrayBack
<1> QED BY <1>1, <1>5, <1>10, <1>11

-----------------------------------------------------------------------------
(* A uuid is read back.                                                    *)

\* What no byte of a uuid is written as, and what they are written as.
Separators == {Brace, EndBrace, Dash}
Digit == Int \ Separators

\* The reader is at[i] in the text when it has read i of the digits d, with a dash behind
\* those of D.
SpeltOut(text, at, d, D, n) ==
    /\ at \in [0 .. n -> Nat \ {0}]
    /\ \A i \in 1 .. n :
         /\ at[i - 1] <= Len(text) /\ text[at[i - 1]] = d[i]
         /\ at[i] = IF i \in D THEN at[i - 1] + 2 ELSE at[i - 1] + 1
         /\ (i \in D) <=> (at[i - 1] < Len(text) /\ text[at[i - 1] + 1] = Dash)

\* Where dashes may be.
EvenBefore(n) == {i \in 1 .. n - 1 : i % 2 = 0}

LEMMA DigitsOnly ==
    ASSUME NEW text \in Seq(Int)
    PROVE  Digits(text) \in Seq(Digit)
<1> DEFINE n == Len(text)
           seqs == [i \in DOMAIN text |-> IF text[i] \in Separators THEN <<>> ELSE <<text[i]>>]
<1>1. n \in Nat /\ DOMAIN text = 1 .. n /\ \A i \in 1 .. n : text[i] \in Int
  OBVIOUS
<1>2. seqs \in [1 .. n -> Seq(Digit)]
  <2>1. ASSUME NEW i \in 1 .. n
        PROVE  (IF text[i] \in Separators THEN <<>> ELSE <<text[i]>>) \in Seq(Digit)
    <3>1. CASE text[i] \in Separators
      BY <3>1
    <3>2. CASE text[i] \notin Separators
      <4>1. text[i] \in Digit
        BY <1>1, <3>2 DEF Digit
      <4> HIDE DEF n
      <4> QED BY <3>2, <4>1
    <3> QED BY <3>1, <3>2
  <2> QED BY <1>1, <2>1
<1>3. Digits(text) = FlattenSeq(seqs)
  BY DEF Digits, Separators
<1> HIDE DEF seqs, n
<1>4. PICK k \in [0 .. n -> Seq(Digit)] : Flattens(k, seqs, n)
  BY <1>1, <1>2, FlattenRun
<1>5. k[n] = FlattenSeq(seqs) /\ n \in 0 .. n
  BY <1>1, <1>4 DEF Flattens
<1> QED BY <1>3, <1>4, <1>5

LEMMA Moved ==
    ASSUME NEW t, NEW b, NEW s, NEW a, NEW v, NEW b2, NEW a2, NEW r,
           v = [text |-> t, bytes |-> b, stopped |-> s, at |-> a],
           r = [v EXCEPT !.bytes = b2, !.at = a2]
    PROVE  r = [text |-> t, bytes |-> b2, stopped |-> s, at |-> a2]
OBVIOUS

\* A uuid that is spelt out is parsed to its digits.
LEMMA SpelledParsed ==
    ASSUME NEW text \in Seq(Int), NEW d \in Seq(Digit), NEW n \in Nat, n = Len(d), n = UuidLen,
           NEW D \in SUBSET EvenBefore(n), NEW at, SpeltOut(text, at, d, D, n),
           at[0] = IF text # <<>> /\ text[1] = Brace THEN 2 ELSE 1
    PROVE  Parsed(text) = d
<1> DEFINE V == [text : {text}, bytes : Seq(Int), stopped : BOOLEAN, at : Nat \ {0}]
           e == [i \in 0 .. n |-> [text |-> text, bytes |-> FirstOf(d, i), stopped |-> FALSE,
                                   at |-> at[i]]]
<1>1. ASSUME NEW v \in V, NEW x \in 1 .. n
      PROVE  ReadByte(v, x) \in V
  <2> DEFINE c == v.text[v.at]
  <2>1. v.text = text /\ v.bytes \in Seq(Int) /\ v.stopped \in BOOLEAN /\ v.at \in Nat \ {0}
        /\ v = [text |-> v.text, bytes |-> v.bytes, stopped |-> v.stopped, at |-> v.at]
    OBVIOUS
  <2>2. CASE v.stopped \/ v.at > Len(v.text) \/ c \in Separators
    <3>1. ReadByte(v, x) = [v EXCEPT !.stopped = TRUE]
      BY <2>2 DEF ReadByte, Separators
    <3> QED BY <3>1
  <2>3. CASE ~(v.stopped \/ v.at > Len(v.text) \/ c \in Separators)
    <3> DEFINE to == IF /\ v.at < Len(v.text) /\ v.text[v.at + 1] = Dash
                        /\ x % 2 = 0 /\ x < UuidLen THEN v.at + 2 ELSE v.at + 1
               b == Append(v.bytes, c)
    <3>1. ReadByte(v, x) = [v EXCEPT !.bytes = b, !.at = to]
      BY <2>3 DEF ReadByte, Separators
    <3>2. c \in Int
      BY <2>1, <2>3
    <3>3. b \in Seq(Int) /\ to \in Nat \ {0}
      BY <2>1, <3>2
    <3> HIDE DEF b, to
    <3>4. ReadByte(v, x) = [text |-> v.text, bytes |-> b,
                                              stopped |-> v.stopped, at |-> to]
      <4>1. v = [text |-> v.text, bytes |-> v.bytes, stopped |-> v.stopped, at |-> v.at]
        BY <2>1
      <4> QED BY <3>1, <4>1, Moved, Zenon
    <3> HIDE DEF c
    <3> QED BY <2>1, <3>1, <3>3, <3>4
  <2> QED BY <2>2, <2>3
<1>2. d \in Seq(Int) /\ \A i \in 1 .. n : d[i] \in Int /\ d[i] \notin Separators
  <2>1. \A i \in 1 .. Len(d) : d[i] \in Digit
    BY AllOf
  <2>2. d \in Seq(Int)
    BY <2>1 DEF Digit
  <2> QED BY <2>1, <2>2 DEF Digit
<1>3. at \in [0 .. n -> Nat \ {0}]
  BY DEF SpeltOut
<1>4. ASSUME NEW i \in 0 .. n
      PROVE  e[i] \in V
  <2>1. FirstOf(d, i) \in Seq(Int)
    BY <1>2 DEF FirstOf
  <2> QED BY <1>3, <2>1
<1>5. ASSUME NEW i \in 1 .. n
      PROVE  ReadByte(e[i - 1], i) = e[i]
  <2> DEFINE v == e[i - 1]
             a == at[i - 1]
             c == v.text[v.at]
             b == FirstOf(d, i - 1)
  <2>1. i - 1 \in 0 .. n /\ i \in 0 .. n
    OBVIOUS
  <2>2. v = [text |-> text, bytes |-> b, stopped |-> FALSE, at |-> a]
        /\ v.text = text /\ v.bytes = b /\ v.stopped = FALSE /\ v.at = a
    BY <2>1
  <2>3. a <= Len(text) /\ text[a] = d[i] /\ a \in Nat \ {0}
        /\ at[i] = (IF i \in D THEN a + 2 ELSE a + 1)
        /\ ((i \in D) <=> (a < Len(text) /\ text[a + 1] = Dash))
    BY <1>3, <2>1 DEF SpeltOut
  <2>4. Append(b, d[i]) = FirstOf(d, i)
    BY <1>2, FirstNext
  <2>5. e[i] = [text |-> text, bytes |-> FirstOf(d, i), stopped |-> FALSE, at |-> at[i]]
    BY <2>1
  <2>6. i \in D => i % 2 = 0 /\ i < UuidLen
    BY DEF EvenBefore
  <2> HIDE DEF v, a, b, e
  <2>7. c = d[i] /\ ~(v.stopped \/ v.at > Len(v.text) \/ c \in Separators)
    <3>1. c = d[i]
      BY <2>2, <2>3
    <3>2. d[i] \notin Separators
      BY <1>2
    <3> HIDE DEF c
    <3>3. ~(v.at > Len(v.text))
      <4>1. Len(text) \in Nat
        OBVIOUS
      <4> QED BY <2>2, <2>3, <4>1
    <3> QED BY <2>2, <3>1, <3>2, <3>3
  <2> DEFINE to == IF /\ v.at < Len(v.text) /\ v.text[v.at + 1] = Dash
                      /\ i % 2 = 0 /\ i < UuidLen THEN v.at + 2 ELSE v.at + 1
             next == Append(v.bytes, c)
  <2>8. ReadByte(v, i) = [v EXCEPT !.bytes = next, !.at = to]
    BY <2>7 DEF ReadByte, Separators
  <2>9. to = at[i] /\ next = FirstOf(d, i)
    BY <2>2, <2>3, <2>4, <2>6, <2>7
  <2> HIDE DEF to, next
  <2>10. ReadByte(v, i) = [text |-> text, bytes |-> next, stopped |-> FALSE, at |-> to]
    <3>1. v = [text |-> text, bytes |-> b, stopped |-> FALSE, at |-> a]
      BY <2>2
    <3> QED BY <2>8, <3>1, Moved, Zenon
  <2> QED BY <2>5, <2>8, <2>9, <2>10 DEF v
<1>6. \A i \in 0 .. n : e[i] \in V
  BY <1>4
<1>7. \A i \in 1 .. n : ReadByte(e[i - 1], i) = e[i]
  BY <1>5
<1>8. e[0] = [text |-> text, bytes |-> <<>>, stopped |-> FALSE,
              at |-> IF text # <<>> /\ text[1] = Brace THEN 2 ELSE 1]
  <2>1. FirstOf(d, 0) = <<>> /\ 0 \in 0 .. n
    BY <1>2 DEF FirstOf
  <2> QED BY <2>1
<1>9. e[n].bytes = d
  <2>2. FirstOf(d, n) = d
    BY AllOf
  <2>3. n \in 0 .. n
    OBVIOUS
  <2> QED BY <2>2, <2>3
<1> HIDE DEF V, e
<1>10. FoldLeft(ReadByte, e[0], [i \in 1 .. n |-> i]) = e[n]
  BY <1>1, <1>6, <1>7, UuidRun
<1> QED BY <1>8, <1>9, <1>10 DEF Parsed

\* all stands in the text behind p characters, with no dash behind it.
Framed(text, all, p) ==
    /\ text \in Seq(Int) /\ all \in Seq(Int) /\ p \in Nat /\ p + Len(all) <= Len(text)
    /\ \A x \in 1 .. Len(all) : text[p + x] = all[x]
    /\ p + Len(all) < Len(text) => text[p + Len(all) + 1] # Dash

\* ... so that it is spelt out.
LEMMA DashedSpelt ==
    ASSUME NEW d \in Seq(Digit), NEW n \in Nat, n = Len(d), NEW D \in SUBSET EvenBefore(n),
           NEW text, NEW p, Framed(text, Dashed(d, D), p)
    PROVE  \E at : at[0] = p + 1 /\ SpeltOut(text, at, d, D, n)
<1> DEFINE all == Dashed(d, D)
           seqs == [i \in DOMAIN d |-> IF i \in D THEN <<d[i], Dash>> ELSE <<d[i]>>]
<1>1. DOMAIN d = 1 .. n
  OBVIOUS
<1>2. \A i \in 1 .. n : d[i] \in Int /\ d[i] # Dash
  <2>1. \A i \in 1 .. Len(d) : d[i] \in Digit
    BY AllOf
  <2> QED BY <2>1 DEF Digit, Separators
<1>3. all = FlattenSeq(seqs)
  BY DEF Dashed
<1>4. ASSUME NEW i \in 1 .. n
      PROVE  seqs[i] \in Seq(Int) /\ seqs[i][1] = d[i] /\ Len(seqs[i]) = (IF i \in D THEN 2 ELSE 1)
             /\ (i \in D => seqs[i][2] = Dash)
  <2>1. d[i] \in Int /\ Dash \in Int
    BY <1>2 DEF Dash
  <2>2. seqs[i] = IF i \in D THEN <<d[i], Dash>> ELSE <<d[i]>>
    BY <1>1
  <2> HIDE DEF seqs
  <2>3. CASE i \in D
    BY <2>1, <2>2, <2>3
  <2>4. CASE i \notin D
    BY <2>1, <2>2, <2>4
  <2> QED BY <2>3, <2>4
<1>5. seqs \in [1 .. n -> Seq(Int)]
  BY <1>1, <1>4
<1> HIDE DEF seqs, all
<1>6. PICK after : Placed(after, all, seqs, n)
  BY <1>3, <1>5, FlattenPlaced
<1>7. /\ text \in Seq(Int) /\ p \in Nat /\ p + Len(all) <= Len(text)
      /\ \A x \in 1 .. Len(all) : text[p + x] = all[x]
      /\ p + Len(all) < Len(text) => text[p + Len(all) + 1] # Dash
  BY DEF Framed, all
<1> DEFINE m == Len(all)
           l == Len(text)
<1>8. m \in Nat /\ l \in Nat /\ p + m <= l /\ p \in Nat
  BY <1>7 DEF Framed, all
<1>9. after \in [0 .. n -> Nat] /\ after[0] = 0 /\ after[n] = m
  BY <1>6 DEF Placed
<1>10. ASSUME NEW i \in 1 .. n
       PROVE  /\ after[i] = after[i - 1] + (IF i \in D THEN 2 ELSE 1) /\ after[i] <= m
              /\ after[i - 1] \in Nat /\ after[i] \in Nat
              /\ text[p + 1 + after[i - 1]] = d[i]
              /\ (i \in D => text[p + 1 + after[i - 1] + 1] = Dash)
  <2> DEFINE b == after[i - 1]
  <2>1. b \in Nat /\ after[i] \in Nat
    BY <1>9
  <2>2. /\ after[i] = b + Len(seqs[i]) /\ after[i] <= m
        /\ \A x \in 1 .. Len(seqs[i]) : all[b + x] = seqs[i][x]
    BY <1>6 DEF Placed
  <2>3. /\ seqs[i][1] = d[i] /\ Len(seqs[i]) = (IF i \in D THEN 2 ELSE 1)
        /\ i \in D => seqs[i][2] = Dash
    BY <1>4
  <2> HIDE DEF b
  <2>4. all[b + 1] = d[i] /\ (i \in D => all[b + 2] = Dash)
    BY <2>2, <2>3
  <2>5. b + 1 \in 1 .. m /\ (i \in D => b + 2 \in 1 .. m)
    BY <1>8, <2>1, <2>2, <2>3
  <2>6. text[p + (b + 1)] = d[i] /\ (i \in D => text[p + (b + 2)] = Dash)
    BY <1>7, <2>4, <2>5
  <2>7. p + (b + 1) = p + 1 + b /\ p + (b + 2) = p + 1 + b + 1
    BY <1>7, <2>1
  <2> QED BY <2>1, <2>2, <2>3, <2>6, <2>7 DEF b
<1> DEFINE at == [i \in 0 .. n |-> p + 1 + after[i]]
<1>11. at[0] = p + 1
  BY <1>7, <1>9
<1>12. at \in [0 .. n -> Nat \ {0}]
  BY <1>7, <1>9
<1>13. ASSUME NEW i \in 1 .. n
       PROVE  /\ at[i - 1] <= Len(text) /\ text[at[i - 1]] = d[i]
              /\ at[i] = IF i \in D THEN at[i - 1] + 2 ELSE at[i - 1] + 1
              /\ (i \in D) <=> (at[i - 1] < Len(text) /\ text[at[i - 1] + 1] = Dash)
  <2> DEFINE a == at[i - 1]
             b == after[i - 1]
             c == after[i]
  <2>1. a = p + 1 + b /\ at[i] = p + 1 + c
    OBVIOUS
  <2>2. /\ c = b + (IF i \in D THEN 2 ELSE 1) /\ c <= m /\ b \in Nat /\ c \in Nat
        /\ text[p + 1 + b] = d[i] /\ (i \in D => text[p + 1 + b + 1] = Dash)
    BY <1>10
  <2>3. i \notin D /\ p + 1 + b < l => text[p + 1 + b + 1] # Dash
    <3> SUFFICES ASSUME i \notin D, p + 1 + b < l PROVE text[p + 1 + b + 1] # Dash
      OBVIOUS
    <3>1. c = b + 1
      BY <2>2
    <3>2. CASE i = n
      <4>1. c = m
        BY <1>9, <3>2
      <4> HIDE DEF b, c, m, l
      <4>2. p + m < l /\ p + 1 + b + 1 = p + m + 1
        BY <1>8, <2>2, <3>1, <4>1
      <4> QED BY <1>7, <4>2 DEF m, l
    <3>3. CASE i # n
      <4>1. PICK j \in 1 .. n : j - 1 = i
        <5>1. i + 1 \in 1 .. n /\ (i + 1) - 1 = i
          BY <3>3
        <5> QED BY <5>1
      <4>2. text[p + 1 + after[j - 1]] = d[j]
        BY <1>10
      <4>3. d[j] # Dash
        BY <1>2
      <4> HIDE DEF b
      <4>4. p + 1 + b + 1 = p + 1 + c
        BY <1>7, <2>2, <3>1
      <4> QED BY <4>1, <4>2, <4>3, <4>4
    <3> QED BY <3>2, <3>3
  <2> HIDE DEF at, a, b, c, m, l
  <2>4. a <= l /\ (i \in D => a < l)
    BY <1>8, <2>1, <2>2
  <2>5. at[i] = IF i \in D THEN a + 2 ELSE a + 1
    BY <1>7, <2>1, <2>2
  <2>6. text[a] = d[i] /\ (i \in D => text[a + 1] = Dash)
        /\ (i \notin D /\ a < l => text[a + 1] # Dash)
    BY <2>1, <2>2, <2>3
  <2> QED BY <2>4, <2>5, <2>6 DEF a, l
<1> HIDE DEF at
<1>14. SpeltOut(text, at, d, D, n)
  BY <1>12, <1>13 DEF SpeltOut
<1> QED BY <1>11, <1>14

LEMMA DashedIn ==
    ASSUME NEW d \in Seq(Digit), NEW D
    PROVE  Dashed(d, D) \in Seq(Int)
<1> DEFINE n == Len(d)
           seqs == [i \in DOMAIN d |-> IF i \in D THEN <<d[i], Dash>> ELSE <<d[i]>>]
<1>1. n \in Nat /\ DOMAIN d = 1 .. n
  OBVIOUS
<1>2. \A i \in 1 .. n : d[i] \in Int
  <2>1. \A i \in 1 .. Len(d) : d[i] \in Digit
    BY AllOf
  <2> QED BY <2>1 DEF Digit
<1>3. Dashed(d, D) = FlattenSeq(seqs)
  BY DEF Dashed
<1>4. seqs \in [1 .. n -> Seq(Int)]
  <2>1. ASSUME NEW i \in 1 .. n
        PROVE  (IF i \in D THEN <<d[i], Dash>> ELSE <<d[i]>>) \in Seq(Int)
    <3>1. d[i] \in Int /\ Dash \in Int
      BY <1>2 DEF Dash
    <3>2. CASE i \in D
      BY <3>1, <3>2
    <3>3. CASE i \notin D
      BY <3>1, <3>3
    <3> QED BY <3>2, <3>3
  <2> QED BY <1>1, <2>1
<1> HIDE DEF n, seqs
<1> QED BY <1>1, <1>3, <1>4, FlattenPlaced

LEMMA WholeFramed ==
    ASSUME NEW all \in Seq(Int)
    PROVE  Framed(all, all, 0)
<1>1. Len(all) \in Nat /\ 0 + Len(all) = Len(all) /\ \A x \in 1 .. Len(all) : 0 + x = x
  OBVIOUS
<1> QED BY <1>1 DEF Framed

LEMMA BracedFramed ==
    ASSUME NEW all \in Seq(Int), NEW text, text = <<Brace>> \o all \o <<EndBrace>>
    PROVE  Framed(text, all, 1) /\ text[1] = Brace /\ text # <<>>
<1> DEFINE a == <<Brace>>
           b == <<EndBrace>>
           ab == a \o all
           m == Len(all)
<1>1. /\ a \in Seq(Int) /\ Len(a) = 1 /\ a[1] = Brace
      /\ b \in Seq(Int) /\ Len(b) = 1 /\ b[1] = EndBrace
  BY DEF Brace, EndBrace
<1>2. text = ab \o b
  OBVIOUS
<1> HIDE DEF a, b
<1>3. ab \in Seq(Int) /\ Len(ab) = Len(a) + Len(all) /\ m \in Nat
      /\ (\A x \in 1 .. Len(a) : ab[x] = a[x])
      /\ (\A x \in 1 .. Len(all) : ab[Len(a) + x] = all[x])
  <2>1. a \in Seq(Int)
    BY <1>1
  <2>2. Apart(a \o all, a, all)
    BY <2>1, JoinedApart, Zenon
  <2> QED BY <2>2 DEF Apart
<1> HIDE DEF ab
<1>4. ab \o b \in Seq(Int) /\ Len(ab \o b) = Len(ab) + Len(b)
      /\ (\A x \in 1 .. Len(ab) : (ab \o b)[x] = ab[x])
      /\ (\A x \in 1 .. Len(b) : (ab \o b)[Len(ab) + x] = b[x])
  <2>1. ab \in Seq(Int) /\ b \in Seq(Int)
    BY <1>1, <1>3
  <2>2. Apart(ab \o b, ab, b)
    BY <2>1, JoinedApart, Zenon
  <2> QED BY <2>2 DEF Apart
<1>5. Len(ab) = 1 + m /\ (\A x \in 1 .. m : ab[1 + x] = all[x]) /\ ab[1] = Brace
  BY <1>1, <1>3
<1>6. text \in Seq(Int) /\ Len(text) = (1 + m) + 1 /\ text[(1 + m) + 1] = EndBrace
      /\ \A x \in 1 .. 1 + m : text[x] = ab[x]
  BY <1>1, <1>2, <1>4, <1>5
<1> HIDE DEF m
<1>7. text[1] = Brace /\ \A x \in 1 .. m : text[1 + x] = all[x]
  <2>1. 1 \in 1 .. 1 + m /\ \A x \in 1 .. m : 1 + x \in 1 .. 1 + m
    BY <1>3
  <2> QED BY <1>5, <1>6, <2>1
<1>8. text # <<>>
  BY <1>3, <1>6
<1>9. 1 + m <= Len(text) /\ text[1 + m + 1] # Dash
  <2>1. EndBrace # Dash
    BY DEF EndBrace, Dash
  <2> QED BY <1>3, <1>6, <2>1
<1>10. Framed(text, all, 1)
  BY <1>6, <1>7, <1>9 DEF Framed, m
<1> QED BY <1>7, <1>8, <1>10

LEMMA DigitIs ==
    ASSUME NEW d \in Seq(Digit)
    PROVE  d \in Seq(Int) /\ \A i \in 1 .. Len(d) : d[i] # Brace
<1>1. \A i \in 1 .. Len(d) : d[i] \in Digit
  BY AllOf
<1> QED BY <1>1 DEF Digit, Separators

\* A complete uuid, in either format, is parsed to its digits.
LEMMA UuidParsed ==
    ASSUME NEW text \in Seq(Int), IsUuid(text)
    PROVE  Parsed(text) = Digits(text) /\ Digits(text) \in Seq(Int) /\ Len(Digits(text)) = UuidLen
<1> DEFINE d == Digits(text)
           n == UuidLen
<1>1. d \in Seq(Digit)
  BY DigitsOnly
<1>2. n \in Nat /\ n = UuidLen /\ 1 \in 1 .. n
  BY ParamsAssumption
<1>3. d \in Seq(Int) /\ \A i \in 1 .. Len(d) : d[i] # Brace
  BY <1>1, DigitIs
<1>4. n = Len(d)
  BY DEF IsUuid
<1>5. PICK D \in SUBSET EvenBefore(n) :
        text \in {Dashed(d, D), <<Brace>> \o Dashed(d, D) \o <<EndBrace>>}
  BY DEF IsUuid, EvenBefore
<1> DEFINE all == Dashed(d, D)
<1> HIDE DEF d, n
<1>6. all \in Seq(Int)
  BY <1>1, DashedIn
<1>7. CASE text = all
  <2>1. Framed(text, Dashed(d, D), 0)
    BY <1>6, <1>7, WholeFramed
  <2>2. PICK at : at[0] = 0 + 1 /\ SpeltOut(text, at, d, D, n)
    BY <1>1, <1>2, <1>4, <2>1, DashedSpelt
  <2>3. 1 - 1 = 0 /\ 0 + 1 = 1
    OBVIOUS
  <2>4. 1 <= Len(text) /\ text[1] = d[1]
    BY <1>2, <2>2, <2>3 DEF SpeltOut
  <2>5. text # <<>> /\ text[1] # Brace
    BY <1>2, <1>3, <1>4, <2>4
  <2>6. at[0] = IF text # <<>> /\ text[1] = Brace THEN 2 ELSE 1
    BY <2>2, <2>5
  <2>7. SpeltOut(text, at, d, D, n)
    BY <2>2
  <2>8. Parsed(text) = d
    BY <1>1, <1>2, <1>4, <2>6, <2>7, SpelledParsed
  <2> QED BY <1>2, <1>3, <1>4, <2>8 DEF d
<1>8. CASE text = <<Brace>> \o all \o <<EndBrace>>
  <2>1. Framed(text, Dashed(d, D), 1) /\ text[1] = Brace /\ text # <<>>
    BY <1>6, <1>8, BracedFramed
  <2>2. PICK at : at[0] = 1 + 1 /\ SpeltOut(text, at, d, D, n)
    BY <1>1, <1>2, <1>4, <2>1, DashedSpelt
  <2>3. at[0] = IF text # <<>> /\ text[1] = Brace THEN 2 ELSE 1
    BY <2>1, <2>2
  <2>4. SpeltOut(text, at, d, D, n)
    BY <2>2
  <2>5. Parsed(text) = d
    BY <1>1, <1>2, <1>4, <2>3, <2>4, SpelledParsed
  <2> QED BY <1>2, <1>3, <1>4, <2>5 DEF d
<1> QED BY <1>5, <1>7, <1>8

\* A complete uuid comes back, whatever the variable held before.
LEMMA UuidBack ==
    ASSUME NEW text \in Seq(Int), IsUuid(text), NEW before
    PROVE  Uuid(text, before) = Digits(text)
<1> DEFINE d == Digits(text)
<1>1. Parsed(text) = d /\ d \in Seq(Int) /\ Len(d) = UuidLen
  BY UuidParsed
<1>2. Len(text) >= UuidText
  BY DEF IsUuid
<1> HIDE DEF d
<1>3. Uuid(text, before) = [i \in 1 .. Len(d) |-> IF i <= Len(d) THEN d[i] ELSE before[i]]
  BY <1>1, <1>2 DEF Uuid
<1>4. d = [i \in 1 .. Len(d) |-> d[i]]
  <2>1. FirstOf(d, Len(d)) = d
    BY <1>1, AllOf
  <2> QED BY <2>1 DEF FirstOf
<1>5. [i \in 1 .. Len(d) |-> IF i <= Len(d) THEN d[i] ELSE before[i]] = [i \in 1 .. Len(d) |-> d[i]]
  <2>1. Len(d) \in Nat
    BY <1>1
  <2> QED BY <2>1
<1> QED BY <1>3, <1>4, <1>5 DEF d

-----------------------------------------------------------------------------
(* What PostgreSQL makes of a value.                                       *)

\* What PostgreSQL makes of the value of a call.
Received(call) == Understood(call.kind, SubSeq(Made(call).cells, 1, Length(call)))

LEMMA OneHas ==
    ASSUME NEW call \in Calls, call.kind \notin Arrays, call.kind # "null"
    PROVE  call.data = <<call.data[1]>> /\ call.data[1] \in Seq(Int)
<1> DEFINE d == call.data
<1>1. d \in Seq(Seq(Int)) /\ Len(d) = 1
  BY ParamsAssumption
<1> HIDE DEF d
<1>2. d[1] \in Seq(Int) /\ d = <<d[1]>>
  BY <1>1
<1> QED BY <1>2 DEF d

\* A value that starts with the bytes in question.
LEMMA StartSent ==
    ASSUME NEW text \in Seq(Int), NEW p \in Seq(Int), NEW w, Begins(w, p), NEW size \in Nat,
           Len(w) <= size, NEW call, Made(call) = Value(size, w), Length(call) = Len(p)
    PROVE  Received(call) = Understood(call.kind, p)
<1>1. SubSeq(Value(size, w).cells, 1, Len(p)) = p
  BY SentStart
<1> QED BY <1>1 DEF Received

\* Every kind but arrays: the value starts with what is meant, and so much of it is
\* sent.
LEMMA OneReceived ==
    ASSUME NEW call \in Calls, ~Refused(call), Regular(call),
           call.kind \notin Arrays, call.kind # "null"
    PROVE  Received(call) = Meant(call)
<1> DEFINE text == call.data[1]
           n == Len(text)
<1>0. text \in Seq(Int) /\ n \in Nat /\ call.kind \in Kinds /\ call.data = <<text>>
  <2>1. text \in Seq(Int) /\ call.data = <<text>>
    BY OneHas
  <2>2. call.kind \in Kinds
    BY ParamsAssumption
  <2> HIDE DEF text
  <2>3. n \in Nat
    BY <2>1
  <2> QED BY <2>1, <2>2, <2>3
<1>1. CASE call.kind = "fixed"
  <2>1. Made(call) = Value(n, text) /\ Length(call) = Made(call).size
    BY <1>1 DEF Made, Length
  <2>2. Understood(call.kind, text) = <<text>> /\ Meant(call) = call.data
    BY <1>1 DEF Understood, Meant, Arrays
  <2> HIDE DEF text
  <2>3. Begins(text, text) /\ Len(text) <= n
    BY <1>0, JoinBegins
  <2>4. Length(call) = Len(text)
    BY <2>1 DEF Value
  <2>5. Received(call) = Understood(call.kind, text)
    BY <1>0, <2>1, <2>3, <2>4, StartSent
  <2> QED BY <1>0, <2>2, <2>5
<1>2. CASE call.kind \in {"text", "date"}
  <2> DEFINE w == text \o <<0>>
             size == n + 1
  <2>1. Made(call) = Value(size, w) /\ Length(call) = Len(text)
    BY <1>2 DEF Made, Length
  <2>2. Understood(call.kind, text) = <<text>> /\ Meant(call) = call.data
    BY <1>2 DEF Understood, Meant, Arrays
  <2> HIDE DEF text
  <2>3. Begins(w, text)
    <3>1. <<0>> \in Seq(Int)
      OBVIOUS
    <3> QED BY <1>0, <3>1, JoinBegins
  <2>4. Len(w) <= size /\ size \in Nat
    BY <1>0
  <2> HIDE DEF w, size
  <2>5. Received(call) = Understood(call.kind, text)
    BY <1>0, <2>1, <2>3, <2>4, StartSent
  <2> QED BY <1>0, <2>2, <2>5
<1>3. CASE call.kind = "jsonb"
  <2> DEFINE p == <<1>> \o text
             z == <<0, 0>>
             w == p \o z
             size == n + 3
  <2>1. Made(call) = Value(size, w) /\ Length(call) = n + 1
    BY <1>3 DEF Made, Length, Jsonb
  <2>2. /\ Meant(call) = call.data
        /\ Understood(call.kind, p) = IF p[1] = 1 THEN <<Tail(p)>> ELSE <<NoText>>
    BY <1>3 DEF Understood, Meant, Arrays
  <2> HIDE DEF text
  <2>3. /\ p \in Seq(Int) /\ Len(p) = n + 1 /\ p[1] = 1 /\ Tail(p) = text
        /\ z \in Seq(Int) /\ Len(z) = 2
    BY <1>0
  <2> HIDE DEF p, z
  <2>4. Begins(w, p)
    BY <2>3, JoinBegins
  <2>5. Len(w) <= size /\ size \in Nat
    <3>1. Len(w) = Len(p) + Len(z)
      BY <2>3, Together
    <3> HIDE DEF w
    <3> QED BY <1>0, <2>3, <3>1
  <2> HIDE DEF w, size
  <2>6. Length(call) = Len(p)
    BY <2>1, <2>3
  <2>7. Received(call) = Understood(call.kind, p)
    BY <1>0, <2>1, <2>3, <2>4, <2>5, <2>6, StartSent
  <2> QED BY <1>0, <2>2, <2>3, <2>7
<1>4. CASE call.kind = "bytea"
  <2> DEFINE out == Decode(text).out
             w == out \o <<0>>
             size == DecodedLen(n) + 1
  <2>1. Made(call) = Value(size, w) /\ Length(call) = Decode(text).rc
    BY <1>4 DEF Made, Length
  <2>2. Understood(call.kind, out) = <<Encode(out)>> /\ Meant(call) = call.data
    BY <1>4 DEF Understood, Meant, Arrays
  <2>3. IsBase64(text)
    BY <1>4 DEF Regular
  <2> HIDE DEF text
  <2>4. out \in Seq(Int) /\ Decode(text).rc = Len(out) /\ Encode(out) = text
    BY <1>0, <2>3, DecodesBack
  <2>5. Len(out) <= DecodedLen(n) /\ DecodedLen(n) \in Nat
    BY <1>0, DecodeFits
  <2> HIDE DEF out
  <2>6. Begins(w, out)
    <3>1. <<0>> \in Seq(Int)
      OBVIOUS
    <3> QED BY <2>4, <3>1, JoinBegins
  <2>7. Len(w) <= size /\ size \in Nat
    BY <2>4, <2>5
  <2> HIDE DEF w, size
  <2>8. Length(call) = Len(out)
    BY <2>1, <2>4
  <2>9. Received(call) = Understood(call.kind, out)
    BY <1>0, <2>1, <2>4, <2>6, <2>7, <2>8, StartSent
  <2> QED BY <1>0, <2>2, <2>4, <2>9
<1>5. CASE call.kind = "uuid"
  <2> DEFINE d == Digits(text)
             l == UuidLen
  <2>1. Made(call) = Value(l, Uuid(text, Zeros)) /\ Length(call) = Made(call).size
    BY <1>5 DEF Made, Length
  <2>2. 1 \in DOMAIN call.data
    BY <1>0
  <2>3. IsUuid(text)
    BY <1>5, <2>2 DEF Regular
  <2>4. Understood(call.kind, d) = <<d>>
    BY <1>5 DEF Understood, Arrays
  <2>5. Meant(call) = [i \in DOMAIN call.data |-> Digits(call.data[i])]
    BY <1>5 DEF Meant
  <2> HIDE DEF text
  <2>6. Uuid(text, Zeros) = d /\ d \in Seq(Int) /\ Len(d) = UuidLen
    BY <1>0, <2>3, UuidBack, UuidParsed
  <2>7. Meant(call) = <<d>>
    <3>1. Meant(call) = [i \in DOMAIN <<text>> |-> Digits(<<text>>[i])]
      BY <1>0, <2>5
    <3> HIDE DEF d
    <3>2. [i \in DOMAIN <<text>> |-> Digits(<<text>>[i])] = <<Digits(text)>>
      OBVIOUS
    <3> QED BY <3>1, <3>2 DEF d
  <2> HIDE DEF d
  <2>8. l \in Nat /\ Len(d) <= l /\ Len(d) = l
    BY <2>6, ParamsAssumption
  <2> HIDE DEF l
  <2>9. Length(call) = Len(d) /\ Made(call) = Value(l, d)
    BY <2>1, <2>6, <2>8 DEF Value
  <2>10. Begins(d, d)
    BY <2>6, JoinBegins
  <2>11. Received(call) = Understood(call.kind, d)
    BY <2>6, <2>8, <2>9, <2>10, StartSent
  <2> QED BY <2>4, <2>7, <2>11
<1> QED BY <1>0, <1>1, <1>2, <1>3, <1>4, <1>5 DEF Kinds

LEMMA ArrayReceived ==
    ASSUME NEW call \in Calls, Regular(call), call.kind \in Arrays
    PROVE  Received(call) = Meant(call)
<1> DEFINE data == call.data
<1>0. data \in Seq(Seq(Int)) /\ \A i \in DOMAIN data : data[i] \in Seq(Int)
  <2>1. data \in Seq(Seq(Int))
    BY ParamsAssumption
  <2> HIDE DEF data
  <2> QED BY <2>1
<1>1. Length(call) = Made(call).size /\ \A sent : Understood(call.kind, sent) = ElementsOf(sent)
  BY DEF Length, Understood, Arrays
<1>2. ASSUME NEW told, Holds(Made(call), told), Meant(call) = told
      PROVE  Received(call) = Meant(call)
  BY <1>1, <1>2 DEF Holds, Received
<1>3. CASE call.kind = "fixedlist"
  <2>1. Made(call) = FixedArray(data) /\ Meant(call) = data
    BY <1>3 DEF Made, Meant
  <2> HIDE DEF data
  <2>2. Holds(FixedArray(data), data)
    BY <1>0, FixedBack
  <2> QED BY <1>2, <2>1, <2>2
<1>4. \A i \in DOMAIN data : ~Absent(data[i])
  BY DEF Regular
<1>5. CASE call.kind = "textlist"
  <2>1. Made(call) = TextArray(data, FALSE) /\ Meant(call) = data
    BY <1>5 DEF Made, Meant
  <2> HIDE DEF data
  <2>2. Shows(data, FALSE, data)
    <3> SUFFICES ASSUME NEW i \in DOMAIN data PROVE SizeOf(data[i], FALSE) = Len(data[i])
      BY <1>4 DEF Shows
    <3> QED BY <1>4 DEF SizeOf, Absent
  <2>3. Holds(TextArray(data, FALSE), data)
    BY <1>0, <2>2, TextBack
  <2> QED BY <1>2, <2>1, <2>3
<1>6. CASE call.kind = "uuidlist"
  <2> DEFINE told == [i \in DOMAIN data |-> Digits(data[i])]
  <2>1. Made(call) = TextArray(data, TRUE) /\ Meant(call) = told
    BY <1>6 DEF Made, Meant
  <2>2. \A i \in DOMAIN data : IsUuid(data[i])
    BY <1>6 DEF Regular
  <2> HIDE DEF data
  <2>3. ASSUME NEW i \in DOMAIN data
        PROVE  /\ \A before : Uuid(data[i], before) = Digits(data[i])
               /\ Digits(data[i]) \in Seq(Int) /\ Len(Digits(data[i])) = UuidLen
    <3>1. data[i] \in Seq(Int) /\ IsUuid(data[i])
      BY <1>0, <2>2
    <3> DEFINE t == data[i]
    <3> HIDE DEF t
    <3>2. t \in Seq(Int) /\ IsUuid(t)
      BY <3>1 DEF t
    <3>3. \A before : Uuid(t, before) = Digits(t)
      BY <3>2, UuidBack
    <3>4. Digits(t) \in Seq(Int) /\ Len(Digits(t)) = UuidLen
      BY <3>2, UuidParsed
    <3> QED BY <3>3, <3>4 DEF t
  <2>4. told \in Seq(Seq(Int))
    <3>1. DOMAIN data = 1 .. Len(data) /\ Len(data) \in Nat
      BY <1>0
    <3>2. \A i \in 1 .. Len(data) : Digits(data[i]) \in Seq(Int)
      BY <2>3, <3>1
    <3> QED BY <3>1, <3>2
  <2>5. Shows(data, TRUE, told)
    <3> SUFFICES ASSUME NEW i \in DOMAIN data
                 PROVE  SizeOf(data[i], TRUE) = Len(told[i])
                        /\ \A before : Uuid(data[i], before) = told[i]
      BY <1>4 DEF Shows
    <3>1. told[i] = Digits(data[i])
      OBVIOUS
    <3>2. SizeOf(data[i], TRUE) = UuidLen
      BY <1>4 DEF SizeOf, Absent
    <3> QED BY <2>3, <3>1, <3>2
  <2> HIDE DEF told
  <2>6. Holds(TextArray(data, TRUE), told)
    BY <2>4, <2>5, TextBack
  <2> QED BY <1>2, <2>1, <2>6
<1> QED BY <1>3, <1>5, <1>6 DEF Arrays

\* What PostgreSQL makes of the value of a call that was not refused is what was meant.
LEMMA CallReceived ==
    ASSUME NEW call \in Calls, ~Refused(call), Regular(call)
    PROVE  Received(call) = Meant(call)
<1>1. CASE call.kind = "null"
  <2>1. call.data = <<>>
    <3>1. call.data \in Seq(Seq(Int)) /\ Len(call.data) = 0
      BY <1>1, ParamsAssumption DEF Arrays
    <3> QED BY <3>1
  <2>2. Meant(call) = call.data
    BY <1>1 DEF Meant
  <2>3. \A sent : Understood(call.kind, sent) = <<>>
    BY <1>1 DEF Understood, Arrays
  <2> QED BY <2>1, <2>2, <2>3 DEF Received
<1> QED BY <1>1, ArrayReceived, OneReceived

-----------------------------------------------------------------------------
(* The values are those of the calls.                                      *)

\* The value of every parameter that was set is the one its call makes, and a statement
\* is sent when all are set.
Holding(i) ==
    /\ given[i] \in Calls /\ ~Refused(given[i])
    /\ values[i] = Made(given[i]) /\ lengths[i] = Length(given[i])
GivenInv ==
    /\ values = [i \in Slots |-> values[i]] /\ lengths = [i \in Slots |-> lengths[i]]
    /\ given = [i \in Slots |-> given[i]]
    /\ \A i \in Slots : given[i] # NotSet => Holding(i)
    /\ phase = "sent" => \A i \in Slots : given[i] # NotSet

LEMMA GivenInitially == Init => GivenInv
BY DEF Init, GivenInv

LEMMA GivenStays == GivenInv /\ UNCHANGED <<values, lengths, given>> /\ phase' # "sent" => GivenInv'
BY DEF GivenInv, Holding

LEMMA GivenStep == GivenInv /\ [Next]_vars => GivenInv'
<1> SUFFICES ASSUME GivenInv, [Next]_vars
             PROVE  GivenInv'
  OBVIOUS
<1>1. CASE Create
  BY <1>1, GivenStays DEF Create
<1>2. CASE CreateFails
  BY <1>2, GivenStays DEF CreateFails
<1>3. ASSUME NEW i \in Slots, NEW call \in Calls, Add(i, call)
      PROVE  GivenInv'
  <2>1. /\ ~Refused(call) /\ phase' = "adding"
        /\ values' = [values EXCEPT ![i] = Made(call)]
        /\ lengths' = [lengths EXCEPT ![i] = Length(call)]
        /\ given' = [given EXCEPT ![i] = call]
    BY <1>3 DEF Add
  <2>2. /\ values' = [j \in Slots |-> values'[j]] /\ lengths' = [j \in Slots |-> lengths'[j]]
        /\ given' = [j \in Slots |-> given'[j]]
    BY <2>1 DEF GivenInv
  <2>3. values'[i] = Made(call) /\ lengths'[i] = Length(call) /\ given'[i] = call
    BY <2>1 DEF GivenInv
  <2>4. \A j \in Slots \ {i} :
          values'[j] = values[j] /\ lengths'[j] = lengths[j] /\ given'[j] = given[j]
    BY <2>1 DEF GivenInv
  <2>5. \A j \in Slots : given'[j] # NotSet => Holding(j)'
    BY <2>1, <2>3, <2>4 DEF GivenInv, Holding
  <2> QED BY <2>1, <2>2, <2>5 DEF GivenInv
<1>4. ASSUME NEW i \in Slots, NEW call \in Calls, AddFails(i, call)
      PROVE  GivenInv'
  BY <1>4, GivenStays DEF AddFails
<1>5. CASE Send
  BY <1>5 DEF Send, GivenInv, Holding
<1>6. CASE Free
  BY <1>6, GivenStays DEF Free
<1>7. CASE Finish
  BY <1>7 DEF Finish, GivenInv
<1>8. CASE UNCHANGED vars
  BY <1>8 DEF vars, GivenInv, Holding
<1> QED BY <1>1, <1>2, <1>3, <1>4, <1>5, <1>6, <1>7, <1>8 DEF Next

-----------------------------------------------------------------------------
(* The statement. *)

LEMMA StatementSteps == StatementNext \/ UNCHANGED <<vars, cellVars>> => [Next]_vars
BY DEF StatementNext, Prepares, Reads

LEMMA StatementInductive == StatementSpec => []ParamsInv
<1>1. StatementInit => ParamsInv
  BY ParamsInitially DEF StatementInit
<1>2. ParamsInv /\ [StatementNext]_<<vars, cellVars>> => ParamsInv'
  BY ParamsStep, StatementSteps
<1> QED BY <1>1, <1>2, PTL DEF StatementSpec

\* A statement is never given a value that was released when another call failed.
THEOREM StatementSendsLive == StatementSpec => []NothingFreedIsSent
<1>1. ParamsInv => NothingFreedIsSent
  BY DEF ParamsInv, SetInv, NothingFreedIsSent
<1> QED BY <1>1, StatementInductive, PTL

\* SEPQ_params_free leaves nothing of the parameters behind, however far they were
\* built.
THEOREM StatementLeavesNothing == StatementSpec => []NothingLeft
<1>1. ParamsInv => NothingLeft
  BY DEF ParamsInv
<1> QED BY <1>1, StatementInductive, PTL

LEMMA StatementFilled == StatementSpec => []FilledInv
<1>1. StatementInit => FilledInv
  BY FilledInitially DEF StatementInit
<1>2. FilledInv /\ [StatementNext]_<<vars, cellVars>> => FilledInv'
  BY FilledStep, StatementSteps
<1> QED BY <1>1, <1>2, PTL DEF StatementSpec

\* Every variable keeps its shape, and the length of a value is never the code of an
\* error of pg_b64_decode.
THEOREM StatementTyped == StatementSpec => []TypeOK
<1>1. FilledInv => TypeOK
  BY DEF FilledInv, Fits, TypeOK
<1> QED BY <1>1, StatementFilled, PTL

\* No value is written beyond its block, and no byte beyond it is sent: the loops of
\* SEPQ_params_add_array and SEPQ_params_add_strarray that measure agree with those
\* that write, and a text is decoded to no more bytes than pg_b64_dec_len says.
THEOREM StatementStaysInBlock == StatementSpec => []StaysInBlock
<1>1. FilledInv => StaysInBlock
  BY DEF FilledInv, Fits, StaysInBlock
<1> QED BY <1>1, StatementFilled, PTL

LEMMA StatementGiven == StatementSpec => []GivenInv
<1>1. StatementInit => GivenInv
  BY GivenInitially DEF StatementInit
<1>2. GivenInv /\ [StatementNext]_<<vars, cellVars>> => GivenInv'
  BY GivenStep, StatementSteps
<1> QED BY <1>1, <1>2, PTL DEF StatementSpec

\* PostgreSQL understands what the handler has set, for every kind of parameter: the
\* bytes of numbers, texts, dates and JSONB, BYTEA after pg_b64_decode, uuids after
\* string_to_uuid, and arrays of any number of elements.
THEOREM StatementSendsGiven == StatementSpec => []SentIsGiven
<1>1. GivenInv => SentIsGiven
  <2> SUFFICES ASSUME GivenInv, phase = "sent", NEW i \in Slots, Regular(given[i])
               PROVE  Understood(given[i].kind, SubSeq(values[i].cells, 1, lengths[i]))
                        = Meant(given[i])
    BY DEF SentIsGiven
  <2>1. Holding(i)
    BY DEF GivenInv
  <2>2. Received(given[i]) = Meant(given[i])
    BY <2>1, CallReceived DEF Holding
  <2> QED BY <2>1, <2>2 DEF Holding, Received
<1> QED BY <1>1, StatementGiven, PTL

-----------------------------------------------------------------------------
(* NUMERIC. *)

\* What SE_reader takes from the server.
IsNumber(num) ==
    /\ num.weight \in Int /\ num.dscale \in Nat
    /\ num.digits \in Seq([1 .. DecDigits -> 0 .. 9])
    /\ IF num.digits = <<>> THEN num.weight <= 0
       ELSE \E i \in 1 .. DecDigits : num.digits[1][i] # 0

LEMMA GroupHolds ==
    ASSUME NEW num, IsNumber(num), NEW d \in Int
    PROVE  Group(num, d) \in [1 .. DecDigits -> 0 .. 9]
<1>1. num.digits \in Seq([1 .. DecDigits -> 0 .. 9]) /\ Len(num.digits) \in Nat
  BY DEF IsNumber
<1>2. CASE d \in 0 .. Len(num.digits) - 1
  <2>1. d + 1 \in 1 .. Len(num.digits)
    BY <1>1, <1>2
  <2>2. num.digits[d + 1] \in [1 .. DecDigits -> 0 .. 9]
    BY <1>1, <2>1
  <2> QED BY <1>2, <2>2 DEF Group
<1>3. CASE d \notin 0 .. Len(num.digits) - 1
  <2>1. Group(num, d) = [i \in 1 .. DecDigits |-> 0]
    BY <1>3 DEF Group
  <2> QED BY <2>1
<1> QED BY <1>2, <1>3

\* Before the first digit there are zeros, and the first one is not all zero.
LEMMA FirstGroup ==
    ASSUME NEW num, IsNumber(num)
    PROVE  /\ \A j \in 1 .. DecDigits : Group(num, -1)[j] = 0
           /\ (\A j \in 1 .. DecDigits : Group(num, 0)[j] = 0) => num.weight <= 0
<1>1. num.digits \in Seq([1 .. DecDigits -> 0 .. 9]) /\ Len(num.digits) \in Nat
  BY DEF IsNumber
<1>2. -1 \notin 0 .. Len(num.digits) - 1
  BY <1>1
<1>3. \A j \in 1 .. DecDigits : Group(num, -1)[j] = 0
  BY <1>2 DEF Group
<1>4. CASE num.digits = <<>>
  BY <1>3, <1>4 DEF IsNumber
<1>5. CASE num.digits # <<>>
  <2>1. 0 \in 0 .. Len(num.digits) - 1 /\ 0 + 1 = 1
    BY <1>1, <1>5
  <2>2. Group(num, 0) = num.digits[1]
    BY <2>1 DEF Group
  <2> QED BY <1>3, <1>5, <2>2 DEF IsNumber
<1> QED BY <1>4, <1>5

LEMMA DecimalOf ==
    ASSUME NEW num, IsNumber(num), NEW g \in Int, NEW j \in 1 .. DecDigits, NEW p \in Int,
           p = (num.weight - g + 1) * DecDigits - j
    PROVE  Decimal(num, p) = Group(num, g)[j]
<1> DEFINE D == DecDigits
           a == num.weight - g
           y == D - j
<1>1. D \in Nat \ {0} /\ num.weight \in Int /\ a \in Int /\ y \in 0 .. D - 1 /\ j \in 1 .. D
  BY CellsAssumption DEF IsNumber
<1>2. p = D * a + y
  <2>1. (a + 1) * D = D * a + D
    BY <1>1
  <2> HIDE DEF D, a
  <2> QED BY <1>1, <2>1 DEF a, D
<1> HIDE DEF y
<1>3. p \div D = a /\ p % D = y
  <2> HIDE DEF D, a
  <2> QED BY <1>1, <1>2, Division
<1>4. num.weight - a = g /\ D - y = j
  BY <1>1 DEF y
<1> QED BY <1>3, <1>4 DEF Decimal

LEMMA GroupsRead ==
    ASSUME NEW num, IsNumber(num), NEW first \in Int, NEW n \in Nat
    PROVE  /\ Groups(num, first, n) \in Seq(0 .. 9)
           /\ Len(Groups(num, first, n)) = n * DecDigits
           /\ \A x \in 1 .. n * DecDigits :
                Groups(num, first, n)[x] = Decimal(num, (num.weight - first + 1) * DecDigits - x)
<1> DEFINE seqs == [k \in 1 .. n |-> Group(num, first + k - 1)]
           text == Groups(num, first, n)
           D == DecDigits
           w == num.weight
           S == 0 .. 9
<1>1. D \in Nat /\ D > 0 /\ w \in Int
  BY CellsAssumption DEF IsNumber
<1>2. seqs \in [1 .. n -> [1 .. D -> S]]
  <2>1. ASSUME NEW k \in 1 .. n
        PROVE  Group(num, first + k - 1) \in [1 .. D -> S]
    BY GroupHolds
  <2> QED BY <2>1
<1>3. \A g \in 1 .. n : seqs[g] = Group(num, first + g - 1)
  OBVIOUS
<1>4. text = FlattenSeq(seqs)
  BY DEF Groups
<1> HIDE DEF seqs, S, D, w, text
<1>5. text \in Seq(S) /\ Len(text) = n * D
      /\ \A g \in 1 .. n, j \in 1 .. D : text[(g - 1) * D + j] = seqs[g][j]
  <2>1. FlattenSeq(seqs) \in Seq(S) /\ Laid(FlattenSeq(seqs), seqs, n, D)
    BY <1>1, <1>2, FlattenEven
  <2> QED BY <1>4, <2>1 DEF Laid
<1>6. ASSUME NEW x \in 1 .. n * D
      PROVE  text[x] = Decimal(num, (w - first + 1) * D - x)
  <2> DEFINE q == (x - 1) \div D
             y == (x - 1) % D
  <2>1. q \in Int /\ y \in 0 .. D - 1 /\ x - 1 = D * q + y /\ x \in Int /\ x >= 1
    BY <1>1
  <2>2. x <= n * D /\ n * D = D * n
    BY <1>1
  <2> HIDE DEF q, y
  <2>3. q >= 0
    <3> SUFFICES ASSUME q <= -1 PROVE FALSE
      BY <2>1
    <3>1. D * q <= -D
      BY <1>1, <2>1
    <3> QED BY <1>1, <2>1, <3>1
  <2>4. q < n
    <3> SUFFICES ASSUME q >= n PROVE FALSE
      BY <2>1
    <3>1. D * q >= D * n
      BY <1>1, <2>1
    <3> DEFINE a == D * q
               b == D * n
    <3>2. a \in Int /\ b \in Int
      BY <1>1, <2>1
    <3>3. a >= b /\ x - 1 = a + y /\ x <= b
      BY <2>1, <2>2, <3>1
    <3> HIDE DEF a, b
    <3> QED BY <1>1, <2>1, <3>2, <3>3
  <2> DEFINE g == q + 1
             j == y + 1
             k == first + q
             p == (w - first + 1) * D - x
  <2>5. g \in 1 .. n /\ j \in 1 .. D /\ k \in Int /\ k = first + g - 1
    BY <1>1, <2>1, <2>3, <2>4
  <2>6. (g - 1) * D + j = x
    <3>1. (g - 1) * D = D * q
      BY <1>1, <2>1
    <3> HIDE DEF g
    <3>2. D * q \in Int /\ (g - 1) * D \in Int
      BY <1>1, <2>1, <3>1
    <3> QED BY <2>1, <3>1, <3>2
  <2>7. p \in Int /\ p = (w - k + 1) * D - j
    <3>1. (w - first + 1) * D = (w - k + 1) * D + D * q
      BY <1>1, <2>1
    <3> DEFINE a == (w - first + 1) * D
               b == (w - k + 1) * D
               c == D * q
    <3>2. a \in Int /\ b \in Int /\ c \in Int
      BY <1>1, <2>1
    <3>3. a = b + c /\ p = a - x
      BY <3>1
    <3>4. x - 1 = c + y /\ j = y + 1
      BY <2>1
    <3> HIDE DEF a, b, c, j, p
    <3>5. p \in Int /\ p = b - j
      BY <2>1, <3>2, <3>3, <3>4
    <3> QED BY <3>5 DEF b
  <2>8. text[(g - 1) * D + j] = seqs[g][j] /\ seqs[g] = Group(num, first + g - 1)
    BY <1>3, <1>5, <2>5
  <2>9. text[x] = Group(num, k)[j]
    BY <2>5, <2>6, <2>8
  <2> HIDE DEF p, k, g, j
  <2>10. Decimal(num, p) = Group(num, k)[j]
    BY <2>5, <2>7, DecimalOf DEF w, D
  <2> QED BY <2>9, <2>10 DEF p
<1> QED BY <1>5, <1>6 DEF text, S, D, w

LEMMA TrimmedIs ==
    ASSUME NEW text \in Seq(0 .. 9), Len(text) >= DecDigits
    PROVE  \E c \in 1 .. DecDigits :
              /\ Trimmed(text) = SubSeq(text, c, Len(text))
              /\ \A x \in 1 .. c - 1 : text[x] = 0
              /\ text[c] = 0 => c = DecDigits
<1> DEFINE D == DecDigits
           zeros == {n \in 0 .. D - 1 : \A i \in 1 .. n : text[i] = 0}
           nz == {n \in 1 .. D : text[n] # 0 \/ n = D}
<1>1. D \in Nat /\ D > 0
  BY CellsAssumption
<1>2. Trimmed(text) = SubSeq(text, Cardinality(zeros), Len(text))
  BY DEF Trimmed
<1>3. PICK c \in 1 .. D : c \in nz /\ \A n \in 1 .. D : n \in nz => c <= n
  <2>1. D \in nz /\ nz \subseteq Nat
    BY <1>1
  <2> HIDE DEF nz, D
  <2>2. PICK c \in nz : \A n \in nz : c <= n
    BY <2>1, LeastNumber
  <2> QED BY <2>2 DEF nz
<1>4. (\A x \in 1 .. c - 1 : text[x] = 0) /\ (text[c] = 0 => c = D)
  <2>1. ASSUME NEW x \in 1 .. c - 1, text[x] # 0
        PROVE  FALSE
    BY <1>1, <1>3, <2>1
  <2> QED BY <1>3, <2>1
<1>5. zeros = 0 .. c - 1
  <2>1. ASSUME NEW n \in 0 .. c - 1
        PROVE  n \in zeros
    <3>1. n \in 0 .. D - 1 /\ \A i \in 1 .. n : text[i] = 0
      BY <1>1, <1>3, <1>4
    <3> QED BY <3>1
  <2>2. ASSUME NEW n \in zeros
        PROVE  n \in 0 .. c - 1
    <3>1. n \in 0 .. D - 1 /\ \A i \in 1 .. n : text[i] = 0
      OBVIOUS
    <3>2. ~(n >= c)
      <4> SUFFICES ASSUME n >= c PROVE FALSE
        OBVIOUS
      <4>1. text[c] = 0 /\ c # D
        BY <1>1, <1>3, <3>1
      <4> QED BY <1>4, <4>1
    <3> QED BY <1>1, <1>3, <3>1, <3>2
  <2> QED BY <2>1, <2>2
<1>6. Cardinality(zeros) = c
  <2>1. 0 \in Int /\ c - 1 \in Int /\ ~(0 > c - 1) /\ (c - 1) - 0 + 1 = c
    BY <1>1, <1>3
  <2> HIDE DEF zeros
  <2> QED BY <1>5, <2>1, FS_Interval
<1> HIDE DEF zeros, nz
<1> QED BY <1>2, <1>3, <1>4, <1>6

\* The text before the point, place by place.
LEMMA WholeReads ==
    ASSUME NEW num, IsNumber(num)
    PROVE  LET w == Len(Whole(num))
           IN  /\ Whole(num) \in Seq(0 .. 9) /\ w >= 1
               /\ w <= IF num.weight < 0 THEN 1 ELSE (num.weight + 1) * DecDigits
               /\ \A i \in 1 .. w : Whole(num)[i] = Decimal(num, w - i)
               /\ Whole(num)[1] = 0 => w = 1
               /\ \A p \in w .. (num.weight + 1) * DecDigits : Decimal(num, p) = 0
<1> DEFINE D == DecDigits
           n == num.weight + 1
           N == n * D
<1>1. num.weight \in Int /\ D \in Nat /\ D > 0 /\ n \in Int
  BY CellsAssumption DEF IsNumber
<1>2. ASSUME NEW g \in Int, NEW j \in 1 .. D, NEW p \in Int, p = (n - g) * D - j
      PROVE  Decimal(num, p) = Group(num, g)[j]
  <2>1. n - g = num.weight - g + 1
    BY <1>1
  <2> HIDE DEF n
  <2> QED BY <1>1, <1>2, <2>1, DecimalOf
<1>3. CASE num.weight < 0
  <2>1. Whole(num) = <<0>> /\ <<0>> \in Seq(0 .. 9) /\ Len(<<0>>) = 1
    BY <1>3 DEF Whole
  <2>2. Decimal(num, 0) = 0
    <3> DEFINE g == num.weight
    <3>1. 0 = (n - g) * D - D /\ g \in Int /\ D \in 1 .. D
      BY <1>1
    <3>2. Group(num, g) = [i \in 1 .. D |-> 0]
      <4>1. g \notin 0 .. Len(num.digits) - 1
        BY <1>1, <1>3
      <4> QED BY <4>1 DEF Group
    <3>3. Decimal(num, 0) = Group(num, g)[D]
      <4> HIDE DEF n, g, D
      <4> QED BY <1>2, <3>1
    <3> QED BY <1>1, <3>2, <3>3
  <2>3. N <= 0
    <3>1. n <= 0
      BY <1>1, <1>3
    <3> HIDE DEF n
    <3> QED BY <1>1, <3>1
  <2>4. \A i \in 1 .. 1 : <<0>>[i] = Decimal(num, 1 - i)
    <3>1. \A i \in 1 .. 1 : 1 - i = 0 /\ <<0>>[i] = 0
      OBVIOUS
    <3> QED BY <2>2, <3>1
  <2>5. \A p \in 1 .. N : Decimal(num, p) = 0
    BY <1>1, <2>3
  <2> DEFINE whole == <<0>>
  <2>6. whole[1] = 0 => 1 = 1
    OBVIOUS
  <2> HIDE DEF whole, n, D
  <2> QED BY <1>3, <2>1, <2>4, <2>5, <2>6 DEF whole, n, D
<1>4. CASE ~(num.weight < 0)
  <2> DEFINE text == Groups(num, 0, n)
  <2>1. n \in Nat /\ n >= 1
    BY <1>1, <1>4
  <2>2. Whole(num) = Trimmed(text)
    BY <1>4 DEF Whole
  <2>3. /\ text \in Seq(0 .. 9) /\ Len(text) = N
        /\ \A x \in 1 .. N : text[x] = Decimal(num, N - x)
    <3>1. num.weight - 0 + 1 = n
      BY <1>1
    <3> HIDE DEF n
    <3> QED BY <2>1, <3>1, GroupsRead
  <2>4. N >= D /\ N \in Nat /\ (N = D => n = 1) /\ (n = 1 => N = D)
    <3>1. PICK m \in Nat : n = m + 1
      BY <2>1
    <3>2. n * D = m * D + D /\ m * D \in Nat
      BY <1>1, <3>1
    <3>3. m # 0 => m * D >= D
      BY <1>1
    <3> DEFINE e == m * D
    <3>4. e \in Nat /\ N = e + D /\ (m # 0 => e >= D) /\ (m = 0 => e = 0)
      BY <1>1, <3>2, <3>3
    <3> HIDE DEF e, N, n
    <3> QED BY <1>1, <3>1, <3>4
  <2> HIDE DEF text, N
  <2>5. PICK c \in 1 .. D : /\ Trimmed(text) = SubSeq(text, c, N)
                            /\ \A x \in 1 .. c - 1 : text[x] = 0
                            /\ text[c] = 0 => c = D
    BY <2>3, <2>4, TrimmedIs
  <2> DEFINE w == N - c + 1
             whole == SubSeq(text, c, N)
  <2>6. /\ whole \in Seq(0 .. 9) /\ Len(whole) = w /\ w >= 1 /\ w <= N /\ w \in Nat
        /\ \A i \in 1 .. w : whole[i] = text[c + i - 1]
    <3>1. c \in Nat /\ c >= 1 /\ c <= N
      BY <1>1, <2>4
    <3>2. \A i \in 1 .. w : c + i - 1 \in 1 .. N
      BY <2>4, <3>1
    <3>3. whole \in Seq(0 .. 9) /\ Len(whole) = w
      <4> HIDE DEF w
      <4>1. Len(text) = N /\ w = N - c + 1
        BY <2>3 DEF w
      <4> QED BY <2>3, <2>4, <3>1, <4>1
    <3>4. \A i \in 1 .. w : whole[i] = text[c + i - 1]
      BY <2>3, <2>4, <3>1, <3>2
    <3> QED BY <2>4, <3>1, <3>3, <3>4
  <2>7. ASSUME NEW i \in 1 .. w
        PROVE  whole[i] = Decimal(num, w - i)
    <3>1. c + i - 1 \in 1 .. N /\ N - (c + i - 1) = w - i
      BY <2>4
    <3> QED BY <2>3, <2>6, <3>1
  <2>8. ASSUME NEW p \in w .. N
        PROVE  Decimal(num, p) = 0
    <3>1. CASE p = N
      <4>1. N = (n - (-1)) * D - D
        BY <1>1 DEF N
      <4>2. D \in 1 .. D /\ -1 \in Int /\ N \in Int
        BY <1>1, <2>4
      <4>3. Decimal(num, N) = Group(num, -1)[D]
        <5> HIDE DEF n, D
        <5> QED BY <1>2, <4>1, <4>2
      <4> QED BY <3>1, <4>2, <4>3, FirstGroup
    <3>2. CASE p # N
      <4>1. N - p \in 1 .. c - 1 /\ N - p \in 1 .. N /\ N - (N - p) = p
        BY <1>1, <2>4, <3>2
      <4> QED BY <2>3, <2>5, <4>1
    <3> QED BY <3>1, <3>2
  <2>9. ASSUME whole[1] = 0
        PROVE  w = 1
    <3>1. text[c] = 0
      <4>1. 1 \in 1 .. w /\ c + 1 - 1 = c
        BY <2>6
      <4> QED BY <2>6, <2>9, <4>1
    <3>2. c = D /\ \A x \in 1 .. D : text[x] = 0
      BY <1>1, <2>5, <3>1
    <3>3. ASSUME NEW j \in 1 .. D
          PROVE  Group(num, 0)[j] = 0
      <4> DEFINE p == N - j
      <4>1. p \in Int /\ p = (n - 0) * D - j /\ 0 \in Int
        <5>1. n - 0 = n
          BY <1>1
        <5> QED BY <2>4, <5>1 DEF N
      <4>2. Decimal(num, p) = Group(num, 0)[j]
        <5> HIDE DEF p, n, D
        <5> QED BY <1>2, <4>1
      <4>3. text[j] = 0 /\ j \in 1 .. N
        BY <1>1, <2>4, <3>2
      <4> QED BY <2>3, <4>2, <4>3
    <3>4. num.weight <= 0
      BY <3>3, FirstGroup
    <3>5. n = 1
      BY <1>1, <1>4, <3>4
    <3> HIDE DEF n
    <3> QED BY <1>1, <2>4, <3>2, <3>5
  <2> HIDE DEF whole, w
  <2>10. Whole(num) = whole /\ Len(Whole(num)) = w
    BY <2>2, <2>5, <2>6 DEF whole
  <2>11. w <= IF num.weight < 0 THEN 1 ELSE N
    BY <1>4, <2>6
  <2> HIDE DEF n
  <2> QED BY <2>6, <2>7, <2>8, <2>9, <2>10, <2>11 DEF N, n
<1> QED BY <1>3, <1>4

\* The decimals behind the point, place by place.
LEMMA FractionReads ==
    ASSUME NEW num, IsNumber(num)
    PROVE  /\ Fraction(num) \in Seq(0 .. 9) /\ Len(Fraction(num)) \in Nat
           /\ num.dscale <= Len(Fraction(num))
           /\ Len(Fraction(num)) <= num.dscale + DecDigits - 1
           /\ \A x \in 1 .. num.dscale : Fraction(num)[x] = Decimal(num, -x)
<1> DEFINE D == DecDigits
           s == num.dscale
           n == (s + D - 1) \div D
           y == (s + D - 1) % D
<1>0. D \in Nat /\ D > 0 /\ s \in Nat /\ num.weight \in Int /\ num.weight + 1 \in Int
  BY CellsAssumption DEF IsNumber
<1>1. n \in Nat /\ y \in 0 .. D - 1 /\ s + D - 1 = D * n + y
  <2> HIDE DEF D, s
  <2> QED BY <1>0
<1>2. Fraction(num) = Groups(num, num.weight + 1, n)
  BY DEF Fraction
<1> HIDE DEF n, y
<1>3. /\ Fraction(num) \in Seq(0 .. 9) /\ Len(Fraction(num)) = n * D
      /\ \A x \in 1 .. n * D :
           Fraction(num)[x] = Decimal(num, (num.weight - (num.weight + 1) + 1) * D - x)
  <2> DEFINE k == num.weight + 1
  <2>1. k \in Int /\ Fraction(num) = Groups(num, k, n)
    BY <1>0, <1>2
  <2> HIDE DEF k
  <2>2. /\ Groups(num, k, n) \in Seq(0 .. 9) /\ Len(Groups(num, k, n)) = n * D
        /\ \A x \in 1 .. n * D :
             Groups(num, k, n)[x] = Decimal(num, (num.weight - k + 1) * D - x)
    BY <1>1, <2>1, GroupsRead
  <2> HIDE DEF D
  <2> QED BY <2>1, <2>2 DEF k
<1> DEFINE m == n * D
<1>4. m \in Nat /\ s + D - 1 = m + y
  <2>1. m = D * n
    BY <1>0, <1>1
  <2> HIDE DEF D, s
  <2> QED BY <1>0, <1>1, <2>1
<1>5. s <= m /\ m <= s + D - 1
  <2> HIDE DEF D, s, m
  <2> QED BY <1>0, <1>1, <1>4
<1>6. ASSUME NEW x \in 1 .. s
      PROVE  Fraction(num)[x] = Decimal(num, -x)
  <2>1. num.weight - (num.weight + 1) + 1 = 0 /\ 0 * D - x = -x /\ x \in 1 .. m
    <3> HIDE DEF m
    <3> QED BY <1>0, <1>4, <1>5
  <2> HIDE DEF m, D
  <2> QED BY <1>3, <2>1 DEF m, D
<1> QED BY <1>3, <1>4, <1>5, <1>6

\* The decimals that are written and cut off afterwards have their place.
LEMMA NumberFits ==
    ASSUME NEW num, IsNumber(num)
    PROVE  Written(num) <= Allocated(num)
<1> DEFINE D == DecDigits
           s == num.dscale
           room == IF num.weight < 0 THEN 1 ELSE (num.weight + 1) * D
           sign == Sign(num)
           whole == Whole(num)
           fraction == Fraction(num)
           rest == IF s > 0 THEN <<Point>> \o SubSeq(fraction, 1, s) ELSE <<>>
           text == sign \o whole \o rest
           a == Len(sign)
           w == Len(whole)
           f == Len(fraction)
           t == Len(text)
<1>0. D \in Nat /\ D > 0 /\ s \in Nat /\ num.weight \in Int
  BY CellsAssumption DEF IsNumber
<1>1. sign \in Seq(Int) /\ a \in 0 .. 1
  BY DEF Sign, Minus
<1>2. whole \in Seq(Int) /\ w \in Nat /\ w <= room
  <2>1. whole \in Seq(0 .. 9) /\ w <= room
    BY WholeReads
  <2> HIDE DEF whole
  <2> QED BY <2>1
<1>3. fraction \in Seq(Int) /\ f \in Nat /\ s <= f /\ f <= s + D - 1
  <2>1. fraction \in Seq(0 .. 9) /\ s <= f /\ f <= s + D - 1
    BY FractionReads
  <2> HIDE DEF fraction
  <2> QED BY <2>1
<1>4. room \in Int
  BY <1>0
<1>5. Allocated(num) = room + s + D + 2
  BY DEF Allocated
<1>6. NumericText(num) = text
  BY DEF NumericText
<1>7. Written(num) = IF s > 0 /\ a + w + 1 + f > t THEN a + w + 1 + f ELSE t + 1
  BY <1>6 DEF Written
<1> HIDE DEF room, sign, whole, fraction, D, s
<1>8. rest \in Seq(Int) /\ Len(rest) <= s + 1 /\ Len(rest) \in Nat
  <2>1. CASE s > 0
    <3> DEFINE sub == SubSeq(fraction, 1, s)
    <3>1. sub \in Seq(Int) /\ Len(sub) = s
      BY <1>0, <1>3, <2>1
    <3>2. <<Point>> \in Seq(Int) /\ Len(<<Point>>) = 1
      BY DEF Point
    <3> DEFINE point == <<Point>>
    <3> HIDE DEF sub, point
    <3>3. point \o sub \in Seq(Int) /\ Len(point \o sub) = 1 + s
      BY <3>1, <3>2, Together DEF point
    <3> QED BY <1>0, <2>1, <3>3 DEF sub, point
  <2>2. CASE ~(s > 0)
    BY <1>0, <2>2
  <2> QED BY <2>1, <2>2
<1> HIDE DEF rest
<1>9. t = a + w + Len(rest)
  <2>1. sign \o whole \in Seq(Int) /\ Len(sign \o whole) = a + w
    BY <1>1, <1>2, Together
  <2> QED BY <1>8, <2>1, Together
<1> HIDE DEF a, w, f, t
<1> QED BY <1>0, <1>1, <1>2, <1>3, <1>4, <1>5, <1>7, <1>8, <1>9

\* The parts of the text and what they hold.
LEMMA TextOf ==
    ASSUME NEW num, IsNumber(num)
    PROVE  LET text == NumericText(num)
               a == IF num.sign = "neg" THEN 1 ELSE 0
               w == Len(Whole(num))
               s == num.dscale
           IN  /\ Len(text) = a + w + (IF s > 0 THEN s + 1 ELSE 0)
               /\ num.sign = "neg" => text[1] = Minus
               /\ \A i \in 1 .. w : text[a + i] = Whole(num)[i]
               /\ s > 0 => text[a + w + 1] = Point
               /\ \A x \in 1 .. s : text[a + w + 1 + x] = Fraction(num)[x]
<1> DEFINE a == IF num.sign = "neg" THEN 1 ELSE 0
           s == num.dscale
           sign == Sign(num)
           whole == Whole(num)
           w == Len(whole)
           fraction == Fraction(num)
           point == <<Point>>
           sub == SubSeq(fraction, 1, s)
           rest == IF s > 0 THEN point \o sub ELSE <<>>
           front == sign \o whole
           text == front \o rest
<1>1. s \in Nat
  BY DEF IsNumber
<1>2. sign \in Seq(Int) /\ Len(sign) = a /\ (num.sign = "neg" => sign[1] = Minus) /\ a \in 0 .. 1
  BY DEF Sign, Minus
<1>3. whole \in Seq(Int) /\ w \in Nat
  <2>1. whole \in Seq(0 .. 9)
    BY WholeReads
  <2> HIDE DEF whole
  <2> QED BY <2>1
<1>4. /\ sub \in Seq(Int) /\ Len(sub) = s
      /\ \A x \in 1 .. s : sub[x] = fraction[x]
  <2>1. fraction \in Seq(0 .. 9) /\ s <= Len(fraction)
    BY FractionReads
  <2> HIDE DEF fraction
  <2> QED BY <1>1, <2>1
<1>5. point \in Seq(Int) /\ Len(point) = 1 /\ point[1] = Point
  BY DEF Point
<1>6. NumericText(num) = text
  BY DEF NumericText
<1> HIDE DEF sign, whole, fraction, point, sub, s, a
<1>7. /\ rest \in Seq(Int) /\ Len(rest) = IF s > 0 THEN s + 1 ELSE 0
      /\ s > 0 => rest[1] = Point
      /\ \A x \in 1 .. s : rest[1 + x] = fraction[x]
  <2>1. CASE s > 0
    <3> DEFINE both == point \o sub
    <3>1. both \in Seq(Int) /\ Len(both) = 1 + s
      BY <1>4, <1>5, Together
    <3>2. both[1] = Point /\ \A x \in 1 .. s : both[1 + x] = sub[x]
      <4>1. /\ \A x \in 1 .. Len(point) : both[x] = point[x]
            /\ \A x \in 1 .. Len(sub) : both[Len(point) + x] = sub[x]
        <5> HIDE DEF both
        <5>1. \A u, v \in Seq(Int) : /\ \A x \in 1 .. Len(u) : (u \o v)[x] = u[x]
                                     /\ \A x \in 1 .. Len(v) : (u \o v)[Len(u) + x] = v[x]
          BY TogetherAt
        <5> QED BY <1>4, <1>5, <5>1, Zenon DEF both
      <4> HIDE DEF both
      <4> QED BY <1>4, <1>5, <4>1
    <3>3. rest = both
      BY <2>1
    <3> HIDE DEF both, rest
    <3> QED BY <1>1, <1>4, <2>1, <3>1, <3>2, <3>3
  <2>2. CASE ~(s > 0)
    BY <1>1, <2>2
  <2> QED BY <2>1, <2>2
<1> HIDE DEF rest
<1>8. /\ front \in Seq(Int) /\ Len(front) = a + w
      /\ num.sign = "neg" => front[1] = Minus
      /\ \A i \in 1 .. w : front[a + i] = whole[i]
  <2>1. front \in Seq(Int) /\ Len(front) = Len(sign) + Len(whole)
    BY <1>2, <1>3, Together
  <2>2. /\ \A x \in 1 .. Len(sign) : front[x] = sign[x]
        /\ \A x \in 1 .. Len(whole) : front[Len(sign) + x] = whole[x]
    BY <1>2, <1>3, TogetherAt
  <2> HIDE DEF front
  <2>3. num.sign = "neg" => 1 \in 1 .. Len(sign)
    BY <1>2 DEF a
  <2> QED BY <1>2, <2>1, <2>2, <2>3
<1> HIDE DEF front
<1>9. Len(text) = a + w + Len(rest)
  <2>1. Len(text) = Len(front) + Len(rest)
    BY <1>7, <1>8, Together
  <2> QED BY <1>8, <2>1
<1>10. /\ \A x \in 1 .. Len(front) : text[x] = front[x]
       /\ \A x \in 1 .. Len(rest) : text[Len(front) + x] = rest[x]
  BY <1>7, <1>8, TogetherAt
<1> HIDE DEF text, w
<1>11. num.sign = "neg" => text[1] = Minus
  <2>1. num.sign = "neg" => 1 \in 1 .. Len(front)
    BY <1>2, <1>3, <1>8 DEF a
  <2> QED BY <1>8, <1>10, <2>1
<1>12. \A i \in 1 .. w : text[a + i] = whole[i]
  <2>1. \A i \in 1 .. w : a + i \in 1 .. Len(front)
    BY <1>2, <1>3, <1>8
  <2> QED BY <1>8, <1>10, <2>1
<1>13. s > 0 => text[a + w + 1] = Point
  <2>1. s > 0 => 1 \in 1 .. Len(rest)
    BY <1>1, <1>7
  <2> QED BY <1>7, <1>8, <1>10, <2>1
<1>14. \A x \in 1 .. s : text[a + w + 1 + x] = fraction[x]
  <2>1. \A x \in 1 .. s : 1 + x \in 1 .. Len(rest) /\ a + w + (1 + x) = a + w + 1 + x
    BY <1>1, <1>2, <1>3, <1>7
  <2> QED BY <1>7, <1>8, <1>10, <2>1
<1>15. Len(text) = a + w + (IF s > 0 THEN s + 1 ELSE 0)
  BY <1>7, <1>9
<1> QED BY <1>6, <1>11, <1>12, <1>13, <1>14, <1>15 DEF a, s, whole, fraction, w

LEMMA NumberReads ==
    ASSUME NEW num, IsNumber(num)
    PROVE  ReadsAs(NumericText(num), num)
<1> DEFINE text == NumericText(num)
           neg == num.sign = "neg"
           a == IF neg THEN 1 ELSE 0
           w == Len(Whole(num))
           s == num.dscale
           places == (num.weight + 1) * DecDigits
           behind == IF s > 0 THEN s + 1 ELSE 0
<1>1. s \in Nat /\ a \in 0 .. 1
  BY DEF IsNumber
<1>2. /\ w \in Nat /\ w >= 1 /\ Whole(num)[1] \in 0 .. 9
      /\ \A i \in 1 .. w : Whole(num)[i] = Decimal(num, w - i)
      /\ Whole(num)[1] = 0 => w = 1
      /\ \A p \in w .. places : Decimal(num, p) = 0
  <2>1. Whole(num) \in Seq(0 .. 9) /\ w >= 1
    BY WholeReads
  <2>2. w \in Nat /\ Whole(num)[1] \in 0 .. 9
    <3> DEFINE whole == Whole(num)
    <3> HIDE DEF whole
    <3> QED BY <2>1 DEF whole
  <2> QED BY <2>1, <2>2, WholeReads
<1>3. \A x \in 1 .. s : Fraction(num)[x] = Decimal(num, -x)
  BY FractionReads
<1>4. /\ Len(text) = a + w + behind
      /\ neg => text[1] = Minus
      /\ \A i \in 1 .. w : text[a + i] = Whole(num)[i]
      /\ s > 0 => text[a + w + 1] = Point
      /\ \A x \in 1 .. s : text[a + w + 1 + x] = Fraction(num)[x]
  BY TextOf
<1> HIDE DEF text, w, s, places
<1>5. text[1] = Minus <=> neg
  <2>1. ASSUME ~neg
        PROVE  text[1] # Minus
    <3>1. a = 0 /\ 0 + 1 = 1 /\ 1 \in 1 .. w
      BY <1>2, <2>1
    <3>2. text[1] = Whole(num)[1]
      BY <1>4, <3>1
    <3> QED BY <1>2, <3>2 DEF Minus
  <2> QED BY <1>4, <2>1
<1>6. \A p \in -s .. w - 1 :
        text[IF p >= 0 THEN (a + w) - p ELSE (a + w) + (1 - p)] = Decimal(num, p)
  <2> TAKE p \in -s .. w - 1
  <2> HIDE DEF a
  <2>1. CASE p >= 0
    <3>1. w - p \in 1 .. w /\ a + (w - p) = (a + w) - p /\ w - (w - p) = p
      BY <1>1, <1>2, <2>1
    <3> QED BY <1>2, <1>4, <2>1, <3>1
  <2>2. CASE ~(p >= 0)
    <3>1. -p \in 1 .. s /\ a + w + 1 + (-p) = (a + w) + (1 - p) /\ -(-p) = p
      BY <1>1, <1>2, <2>2
    <3> QED BY <1>3, <1>4, <2>2, <3>1
  <2> QED BY <2>1, <2>2
<1>7. text[a + 1] = 0 => w = 1
  <2>1. 1 \in 1 .. w
    BY <1>2
  <2> QED BY <1>2, <1>4, <2>1
<1>8. Len(text) - a - behind = w
  <2>1. behind \in Nat
    BY <1>1
  <2> HIDE DEF a, behind
  <2> QED BY <1>1, <1>2, <1>4, <2>1
<1> DEFINE g == IF text[1] = Minus THEN 1 ELSE 0
           e == Len(text) - g - behind
           ReadWith(x, k) ==
             /\ text[1] = Minus <=> neg
             /\ s > 0 => text[x + k + 1] = Point
             /\ k > 0 /\ (text[x + 1] = 0 => k = 1)
             /\ \A p \in -s .. k - 1 :
                  text[IF p >= 0 THEN (x + k) - p ELSE (x + k) + (1 - p)] = Decimal(num, p)
             /\ \A p \in k .. places : Decimal(num, p) = 0
<1>9. ReadsAs(text, num) <=> ReadWith(g, e)
  BY DEF ReadsAs, s, places
<1>10. g = a
  BY <1>5
<1>11. e = w /\ w > 0
  <2> HIDE DEF a, g
  <2> QED BY <1>2, <1>8, <1>10
<1> HIDE DEF a, neg, g, e
<1>12. ReadWith(a, w)
  BY <1>2, <1>4, <1>5, <1>6, <1>7, <1>11, Zenon
<1> HIDE DEF ReadWith
<1> QED BY <1>9, <1>10, <1>11, <1>12 DEF text

-----------------------------------------------------------------------------
(* Dates and times.                                                        *)

\* Division towards zero is the other one where there is nothing to round.
LEMMA QuotIsDiv ==
    ASSUME NEW L \in Nat \ {0}, NEW n \in Int, n >= 0 \/ n % L = 0
    PROVE  Quot(n, L) = n \div L /\ n \div L \in Int
<1> DEFINE q == n \div L
<1>1. q \in Int
  OBVIOUS
<1>2. CASE n >= 0
  BY <1>1, <1>2 DEF Quot
<1>3. CASE ~(n >= 0)
  <2>1. n = L * q /\ -n = L * (-q) + 0
    BY <1>3
  <2> HIDE DEF q
  <2>2. (-n) \div L = -q
    <3> DEFINE x == -n
               r == -q
    <3>1. x \in Int /\ r \in Int /\ 0 \in 0 .. L - 1 /\ x = L * r + 0
      BY <1>1, <2>1
    <3> HIDE DEF x, r
    <3>2. x \div L = r
      BY <3>1, Division
    <3> QED BY <3>2 DEF x, r
  <2>3. Quot(n, L) = q
    BY <1>1, <1>3, <2>2 DEF Quot
  <2> QED BY <1>1, <2>3 DEF q
<1> QED BY <1>2, <1>3

LEMMA QuotBack ==
    ASSUME NEW L \in Nat \ {0}, NEW r \in Nat
    PROVE  Quot(-r, L) = -(r \div L)
<1> DEFINE k == -r
           q == r \div L
<1>1. CASE r > 0
  BY <1>1 DEF Quot
<1>2. CASE ~(r > 0)
  <2>1. k = 0 /\ k >= 0 /\ q = 0 /\ k \div L = -q
    BY <1>2
  <2> HIDE DEF k, q
  <2>2. Quot(k, L) = -q
    BY <2>1 DEF Quot
  <2> QED BY <2>2 DEF k, q
<1> QED BY <1>1, <1>2

\* An int32_t keeps what is in its range.
LEMMA WrapKeeps ==
    ASSUME NEW n \in -IntMax .. IntMax
    PROVE  Wrap(n) = n
<1> DEFINE M == 2 * (IntMax + 1)
           x == n + IntMax + 1
<1>1. IntMax \in Nat /\ n \in Int
  BY CellsAssumption
<1>2. M \in Nat \ {0} /\ x \in 0 .. M - 1 /\ x = M * 0 + x
  BY <1>1
<1>3. Wrap(n) = (x % M) - (IntMax + 1)
  BY DEF Wrap
<1>4. x % M = x
  <2> HIDE DEF M, x
  <2>1. 0 \in Int /\ x \in Int
    BY <1>2
  <2> QED BY <1>2, <2>1, Division
<1> HIDE DEF M
<1> QED BY <1>1, <1>3, <1>4

\* The fields of a clock that is not before midnight, and whose hours fit, are a clock,
\* and add up to it.
LEMMA FieldsAddUp ==
    ASSUME NEW t \in Int, FitsClock(t), NEW f \in Fields(t)
    PROVE  IsClock(f) /\ InDay(f) = t
<1> DEFINE h == t \div 3600
           r == t - 3600 * h
           m == r \div 60
           s == t - h * 3600 - m * 60
<1>1. t \in Nat /\ h * 3600 <= IntMax /\ IntMax \in Nat /\ IntMax >= 60
  BY CellsAssumption DEF FitsClock
<1>2. h \in Nat /\ r \in 0 .. 3599 /\ m \in 0 .. 59 /\ s \in 0 .. 59
  BY <1>1
<1>3. Quot(t, 3600) = h /\ Rem(t, 3600) = r /\ Quot(r, 60) = m
  BY <1>1, <1>2 DEF Quot, Rem
<1>4. h * 3600 + m * 60 + s = t
  BY <1>1, <1>2
<1>5. Wrap(h) = h /\ Wrap(h * 3600) = h * 3600 /\ Wrap(s) = s
  <2>1. h \in -IntMax .. IntMax /\ h * 3600 \in -IntMax .. IntMax /\ s \in -IntMax .. IntMax
    <3> HIDE DEF h, r, m, s
    <3> QED BY <1>1, <1>2
  <2> HIDE DEF h, s
  <2> QED BY <2>1, WrapKeeps
<1>6. f = [hour |-> h, minute |-> m, second |-> s]
  <2>1. PICK p \in {Wrap(Wrap(Quot(t, 3600)) * 3600), Wrap(Quot(t, 3600)) * 3600} :
          f = [hour |-> Wrap(Quot(t, 3600)), minute |-> Quot(Rem(t, 3600), 60),
               second |-> Wrap(t - p - Quot(Rem(t, 3600), 60) * 60)]
    BY DEF Fields
  <2>2. Wrap(Quot(t, 3600)) = h /\ Quot(Rem(t, 3600), 60) = m
    BY <1>3, <1>5
  <2>3. p = h * 3600
    BY <1>5, <2>1, <2>2
  <2>4. Wrap(t - p - m * 60) = s
    BY <1>5, <2>3
  <2> HIDE DEF h, m, s
  <2> QED BY <2>1, <2>2, <2>4
<1> HIDE DEF h, r, m, s
<1> QED BY <1>2, <1>4, <1>6 DEF IsClock, InDay

\* A zone of whole minutes is shown in full.
LEMMA ZoneReadBack ==
    ASSUME NEW z \in Int, z % 60 = 0
    PROVE  InZone(ZoneShown(z)) = z
<1> DEFINE a == IF z >= 0 THEN z ELSE -z
           h == a \div 3600
           r == a - 3600 * h
           m == r \div 60
<1>1. a \in Nat /\ a % 60 = 0
  OBVIOUS
<1>2. h \in Nat /\ r \in 0 .. 3599 /\ m \in 0 .. 59 /\ h * 3600 + m * 60 = a
  <2> HIDE DEF a
  <2> QED BY <1>1
<1>3. Abs(Quot(z, 3600)) = h
  BY <1>2 DEF Abs, Quot
<1>4. Abs(Quot(Rem(z, 3600), 60)) = m
  <2>1. CASE z >= 0
    <3>1. Rem(z, 3600) = r
      BY <2>1 DEF Quot, Rem
    <3> HIDE DEF r, h
    <3> QED BY <1>2, <3>1 DEF Abs, Quot
  <2>2. CASE ~(z >= 0)
    <3>1. Rem(z, 3600) = -r
      BY <2>2 DEF Quot, Rem
    <3>2. Quot(-r, 60) = -m
      <4> HIDE DEF r
      <4>1. r \in Nat /\ 60 \in Nat \ {0}
        BY <1>2
      <4>2. \A L \in Nat \ {0}, y \in Nat : Quot(-y, L) = -(y \div L)
        BY QuotBack
      <4>3. Quot(-r, 60) = -(r \div 60)
        BY <4>1, <4>2, Zenon
      <4> QED BY <4>3
    <3> HIDE DEF r, h, m
    <3> QED BY <1>2, <3>1, <3>2 DEF Abs
  <2> QED BY <2>1, <2>2
<1>5. ZoneShown(z) = [sign |-> IF z > 0 THEN 1 ELSE -1, hour |-> h, minute |-> m]
  BY <1>3, <1>4 DEF ZoneShown
<1> HIDE DEF h, r, m
<1> QED BY <1>2, <1>5 DEF InZone

\* The day is right when its seconds fit an int32_t.
LEMMA DayIsRight ==
    ASSUME NEW n \in Int, DateSeconds(n) \in -IntMax .. IntMax, NEW day \in DaysShown(n)
    PROVE  day = n + DayDiff
<1> DEFINE s == DateSeconds(n)
           d == n + DayDiff
<1>1. /\ DaySeconds \in Nat \ {0} /\ IntMax \in Nat /\ d \in Int
      /\ s = DaySeconds * d + 0 /\ s \in Int
  BY CellsAssumption DEF DateSeconds
<1>2. s \div DaySeconds = d
  <2> HIDE DEF s, d
  <2>1. 0 \in 0 .. DaySeconds - 1
    BY <1>1
  <2> QED BY <1>1, <2>1, Division
<1>3. Wrap(s) = s
  <2> HIDE DEF s
  <2> QED BY WrapKeeps DEF s
<1> HIDE DEF s, d
<1>4. day \in {t \div DaySeconds : t \in {Wrap(s), s}}
  BY DEF DaysShown, s
<1> QED BY <1>2, <1>3, <1>4 DEF d

-----------------------------------------------------------------------------
(* A cell of the result.                                                   *)

CellInv ==
    cell # NoCell =>
        cell \in Results /\ zone \in Zones /\ shown \in Shown(cell, zone)

LEMMA StatementCell == StatementSpec => []CellInv
<1>1. StatementInit => CellInv
  BY DEF StatementInit, CellInv
<1>2. CellInv /\ [StatementNext]_<<vars, cellVars>> => CellInv'
  BY DEF StatementNext, Prepares, Reads, CellInv, cellVars
<1> QED BY <1>1, <1>2, PTL DEF StatementSpec

\* The text of a NUMERIC stays in the block that get_str_from_var allocates for it,
\* also while the decimals are written that are cut off afterwards.
THEOREM StatementNumberInBlock == StatementSpec => []NumericInBlock
<1>1. CellInv => NumericInBlock
  <2> SUFFICES ASSUME CellInv, cell # NoCell, cell.kind = "numeric"
               PROVE  Written(cell.num) <= Allocated(cell.num)
    BY DEF NumericInBlock
  <2>1. IsNumber(cell.num)
    BY ResultsAssumption DEF CellInv, IsNumber
  <2> QED BY <2>1, NumberFits
<1> QED BY <1>1, StatementCell, PTL

\* Each kind of cell is shown as it is.
LEMMA CellReads ==
    ASSUME NEW c \in Results, NEW z \in Zones, NEW s \in Shown(c, z), Representable(c, z)
    PROVE  RightlyShown(c, z, s)
<1> DEFINE U == UsecsPerSec
           q == c.n \div U
<1>1. U \in Nat \ {0} /\ SecDiff \in Nat /\ z \in Int
  BY CellsAssumption, ResultsAssumption
<1>2. CASE c.kind = "numeric"
  <2>1. IsNumber(c.num)
    BY <1>2, ResultsAssumption DEF IsNumber
  <2>2. s = NumericText(c.num)
    BY <1>2 DEF Shown
  <2>3. ReadsAs(s, c.num)
    BY <2>1, <2>2, NumberReads
  <2> QED BY <1>2, <2>3 DEF RightlyShown
<1>3. c.kind # "numeric" => c.n \in Int
  BY ResultsAssumption
<1>4. CASE c.kind = "date"
  <2>1. s \in DaysShown(c.n) /\ DateSeconds(c.n) \in -IntMax .. IntMax
    BY <1>4 DEF Shown, Representable
  <2>2. s = c.n + DayDiff
    BY <1>3, <1>4, <2>1, DayIsRight
  <2> QED BY <1>4, <2>2 DEF RightlyShown
<1>5. CASE c.kind = "timestamp"
  <2>1. s = SecondShown(c.n, 0) /\ IsMoment(c.n) /\ (c.n >= 0 \/ c.n % U = 0)
    BY <1>5 DEF Shown, Representable, Exact
  <2>2. Quot(c.n, U) = q /\ q \in Int
    BY <1>1, <1>3, <1>5, <2>1, QuotIsDiv
  <2> HIDE DEF q
  <2>3. s - SecDiff = q
    BY <1>1, <2>1, <2>2 DEF SecondShown
  <2> QED BY <1>5, <2>1, <2>3 DEF RightlyShown, q
<1>6. CASE c.kind = "timestamptz"
  <2> DEFINE t == SecondShown(c.n, z)
             k == ZoneShown(z)
  <2>1. s = <<t, k>> /\ z % 60 = 0 /\ IsMoment(c.n) /\ (c.n >= 0 \/ c.n % U = 0)
    BY <1>6 DEF Shown, Representable, Exact, WholeMinutes
  <2>2. Quot(c.n, U) = q /\ q \in Int
    BY <1>1, <1>3, <1>6, <2>1, QuotIsDiv
  <2> HIDE DEF q
  <2>3. t = q + SecDiff + z
    BY <1>1, <2>1, <2>2 DEF SecondShown
  <2>4. InZone(k) = z
    BY <1>1, <2>1, ZoneReadBack
  <2> HIDE DEF t, k
  <2>5. s[1] = t /\ s[2] = k
    BY <2>1
  <2>6. t - InZone(k) - SecDiff = q
    BY <1>1, <2>2, <2>3, <2>4
  <2> QED BY <1>6, <2>1, <2>4, <2>5, <2>6 DEF RightlyShown, q
<1>7. CASE c.kind = "timetz"
  <2> DEFINE t == q + (c.west + z)
             k == ZoneShown(z)
  <2>1. c.n \in Nat /\ c.west \in Int
    BY <1>7, ResultsAssumption
  <2>2. Quot(c.n, U) = q /\ q \in Nat
    <3>1. q \in Nat
      BY <1>1, <2>1
    <3> QED BY <1>1, <2>1, <3>1, QuotIsDiv
  <2>3. z % 60 = 0 /\ FitsClock(t) /\ t \in Int
    <3>1. t = (c.n \div U) + c.west + z /\ t \in Int
      BY <1>1, <2>1, <2>2
    <3> HIDE DEF q, t
    <3> QED BY <1>7, <3>1 DEF Representable, WholeMinutes
  <2>4. s \in TimeShown(c.n, c.west + z) \X {k}
    BY <1>7 DEF Shown
  <2>5. TimeShown(c.n, c.west + z) = Fields(t)
    BY <2>2 DEF TimeShown
  <2> HIDE DEF q, t
  <2>6. PICK f \in Fields(t) : s = <<f, k>>
    BY <2>4, <2>5
  <2>7. IsClock(f) /\ InDay(f) = t /\ InZone(k) = z
    BY <1>1, <2>3, FieldsAddUp, ZoneReadBack
  <2> HIDE DEF k
  <2>8. s[1] = f /\ s[2] = k
    BY <2>6
  <2>9. t - z - c.west = q
    BY <1>1, <2>1, <2>2 DEF t
  <2> QED BY <1>7, <2>7, <2>8, <2>9 DEF RightlyShown, q
<1>8. CASE c.kind \notin {"numeric", "date", "timestamp", "timestamptz", "timetz"}
  <2> DEFINE t == q + 0
  <2>1. c.n \in Nat /\ FitsClock(q)
    BY <1>3, <1>8 DEF Representable
  <2>2. Quot(c.n, U) = q /\ q \in Nat
    <3>1. q \in Nat
      BY <1>1, <2>1
    <3> QED BY <1>1, <2>1, <3>1, QuotIsDiv
  <2>3. s \in Fields(t)
    BY <1>8, <2>2 DEF Shown, TimeShown
  <2> HIDE DEF q
  <2>4. t = q /\ t \in Int
    BY <2>2
  <2>5. FitsClock(t)
    BY <2>1, <2>4
  <2> HIDE DEF t
  <2>6. IsClock(s) /\ InDay(s) = t
    BY <2>3, <2>4, <2>5, FieldsAddUp
  <2> QED BY <1>8, <2>4, <2>6 DEF RightlyShown, q
<1> QED BY <1>2, <1>4, <1>5, <1>6, <1>7, <1>8

\* The client reads the value the server sent: every decimal of a NUMERIC at its
\* place, and the second of a date or a time, in the time zone of the session.
THEOREM StatementShowsCells == StatementSpec => []CellIsShown
<1>1. CellInv => CellIsShown
  BY CellReads DEF CellInv, CellIsShown
<1> QED BY <1>1, StatementCell, PTL
=============================================================================
