---------------------------- MODULE AnswerProofs ----------------------------
(***************************************************************************)
(* What a client makes of the texts of Answer, however many record sets,   *)
(* rows, cells and elements there are. Reading is a fold from the left, so *)
(* where the client is after a text says all about it (Reach): what it     *)
(* wants next, and which brackets are open. Each operator that adds to a   *)
(* text takes the client from one such place to another.                   *)
(***************************************************************************)
EXTENDS Answer, SharedFacts

(* The folds of Answer, step by step. There are three, over operators, and *)
(* no lemma can be about all of them: an operator is no value.             *)

\* A text is read sign by sign, ...
ReadsAlong(k, s, V, base) ==
    /\ k \in [0 .. Len(s) -> V] /\ k[0] = base /\ k[Len(s)] = FoldLeft(Reads, base, s)
    /\ \A i \in 1 .. Len(s) : k[i] = Reads(k[i - 1], s[i])

LEMMA ReadsRun ==
    ASSUME NEW V, NEW base \in V, NEW X, NEW s \in Seq(X),
           \A v \in V, x \in X : Reads(v, x) \in V
    PROVE  \E k : ReadsAlong(k, s, V, base)
<1>1. Len(s) \in Nat /\ DOMAIN s = 1 .. Len(s) /\ \A i \in DOMAIN s : s[i] \in X
  OBVIOUS
<1> DEFINE n == Len(s)
           D == DOMAIN s
           step == [i \in D |-> [v \in V |-> Reads(v, s[i])]]
           iter == CHOOSE g : g = [t \in SUBSET D |-> IF t = {} THEN base
                                     ELSE Reads(g[t \ {Max(t)}], s[Max(t)])]
<1>2. FoldLeft(Reads, base, s) = iter[D]
  BY DEF FoldLeft, MapThenFoldSet
<1>0. n \in Nat /\ D = 1 .. n /\ \A i \in D : s[i] \in X
  BY <1>1
<1> HIDE DEF n, D
<1>3. \A i \in D, v \in V : step[i][v] \in V /\ step[i][v] = Reads(v, s[i])
  BY <1>0
<1>4. Positions(D, n) /\ Maps(step, D, V)
  BY <1>0, <1>3 DEF Positions, Maps
<1> HIDE DEF step
<1>5. PICK h : FoldsDown(h, D, V, base, step)
  BY <1>4, FoldOfPositions
<1>6. h = [t \in SUBSET D |-> IF t = {} THEN base ELSE Reads(h[t \ {Max(t)}], s[Max(t)])]
  <2>1. ASSUME NEW t \in SUBSET D, t # {}
        PROVE  h[t] = Reads(h[t \ {Max(t)}], s[Max(t)])
    <3>1. Max(t) \in D /\ h[t] = step[Max(t)][h[t \ {Max(t)}]] /\ h[t \ {Max(t)}] \in V
      BY <1>5, <2>1 DEF FoldsDown
    <3> QED BY <1>3, <3>1
  <2> QED BY <1>5, <2>1 DEF FoldsDown
<1>7. iter = [t \in SUBSET D |-> IF t = {} THEN base
                                 ELSE Reads(iter[t \ {Max(t)}], s[Max(t)])]
  BY <1>6
<1> HIDE DEF iter
<1>8. Follows(iter, D, V, base, step)
  <2>1. ASSUME NEW t \in SUBSET D, t # {}, iter[t \ {Max(t)}] \in V
        PROVE  iter[t] = step[Max(t)][iter[t \ {Max(t)}]]
    <3>1. Max(t) \in D
      BY <1>5, <2>1 DEF FoldsDown
    <3>2. iter[t] = Reads(iter[t \ {Max(t)}], s[Max(t)])
      BY <1>7, <2>1
    <3> QED BY <1>3, <2>1, <3>1, <3>2
  <2> QED BY <1>7, <2>1 DEF Follows
<1>9. PICK k : Runs(k, n, V, base, step, iter[D])
  BY <1>4, <1>5, <1>8, FoldFollowed
<1>10. \A i \in 1 .. n : k[i] = Reads(k[i - 1], s[i])
  <2> SUFFICES ASSUME NEW i \in 1 .. n PROVE k[i] = Reads(k[i - 1], s[i])
    OBVIOUS
  <2>1. k[i - 1] \in V /\ k[i] = step[i][k[i - 1]]
    BY <1>0, <1>9 DEF Runs
  <2>2. i \in D
    BY <1>0
  <2> QED BY <1>3, <2>1, <2>2
<1>11. ReadsAlong(k, s, V, base)
  BY <1>2, <1>9, <1>10 DEF n, Runs, ReadsAlong
<1> QED BY <1>11

\* ... a row is written cell by cell, ...
CellsAlong(k, s, V, base) ==
    /\ k \in [0 .. Len(s) -> V] /\ k[0] = base /\ k[Len(s)] = FoldLeft(NextCell, base, s)
    /\ \A i \in 1 .. Len(s) : k[i] = NextCell(k[i - 1], s[i])

LEMMA CellsRun ==
    ASSUME NEW V, NEW base \in V, NEW X, NEW s \in Seq(X),
           \A v \in V, x \in X : NextCell(v, x) \in V
    PROVE  \E k : CellsAlong(k, s, V, base)
<1>1. Len(s) \in Nat /\ DOMAIN s = 1 .. Len(s) /\ \A i \in DOMAIN s : s[i] \in X
  OBVIOUS
<1> DEFINE n == Len(s)
           D == DOMAIN s
           step == [i \in D |-> [v \in V |-> NextCell(v, s[i])]]
           iter == CHOOSE g : g = [t \in SUBSET D |-> IF t = {} THEN base
                                     ELSE NextCell(g[t \ {Max(t)}], s[Max(t)])]
<1>2. FoldLeft(NextCell, base, s) = iter[D]
  BY DEF FoldLeft, MapThenFoldSet
<1>0. n \in Nat /\ D = 1 .. n /\ \A i \in D : s[i] \in X
  BY <1>1
<1> HIDE DEF n, D
<1>3. \A i \in D, v \in V : step[i][v] \in V /\ step[i][v] = NextCell(v, s[i])
  BY <1>0
<1>4. Positions(D, n) /\ Maps(step, D, V)
  BY <1>0, <1>3 DEF Positions, Maps
<1> HIDE DEF step
<1>5. PICK h : FoldsDown(h, D, V, base, step)
  BY <1>4, FoldOfPositions
<1>6. h = [t \in SUBSET D |-> IF t = {} THEN base ELSE NextCell(h[t \ {Max(t)}], s[Max(t)])]
  <2>1. ASSUME NEW t \in SUBSET D, t # {}
        PROVE  h[t] = NextCell(h[t \ {Max(t)}], s[Max(t)])
    <3>1. Max(t) \in D /\ h[t] = step[Max(t)][h[t \ {Max(t)}]] /\ h[t \ {Max(t)}] \in V
      BY <1>5, <2>1 DEF FoldsDown
    <3> QED BY <1>3, <3>1
  <2> QED BY <1>5, <2>1 DEF FoldsDown
<1>7. iter = [t \in SUBSET D |-> IF t = {} THEN base
                                 ELSE NextCell(iter[t \ {Max(t)}], s[Max(t)])]
  BY <1>6
<1> HIDE DEF iter
<1>8. Follows(iter, D, V, base, step)
  <2>1. ASSUME NEW t \in SUBSET D, t # {}, iter[t \ {Max(t)}] \in V
        PROVE  iter[t] = step[Max(t)][iter[t \ {Max(t)}]]
    <3>1. Max(t) \in D
      BY <1>5, <2>1 DEF FoldsDown
    <3>2. iter[t] = NextCell(iter[t \ {Max(t)}], s[Max(t)])
      BY <1>7, <2>1
    <3> QED BY <1>3, <2>1, <3>1, <3>2
  <2> QED BY <1>7, <2>1 DEF Follows
<1>9. PICK k : Runs(k, n, V, base, step, iter[D])
  BY <1>4, <1>5, <1>8, FoldFollowed
<1>10. \A i \in 1 .. n : k[i] = NextCell(k[i - 1], s[i])
  <2> SUFFICES ASSUME NEW i \in 1 .. n PROVE k[i] = NextCell(k[i - 1], s[i])
    OBVIOUS
  <2>1. k[i - 1] \in V /\ k[i] = step[i][k[i - 1]]
    BY <1>0, <1>9 DEF Runs
  <2>2. i \in D
    BY <1>0
  <2> QED BY <1>3, <2>1, <2>2
<1>11. CellsAlong(k, s, V, base)
  BY <1>2, <1>9, <1>10 DEF n, Runs, CellsAlong
<1> QED BY <1>11

\* ... and a record set row by row.
RowsAlong(k, s, V, base) ==
    /\ k \in [0 .. Len(s) -> V] /\ k[0] = base /\ k[Len(s)] = FoldLeft(AddRow, base, s)
    /\ \A i \in 1 .. Len(s) : k[i] = AddRow(k[i - 1], s[i])

LEMMA RowsRun ==
    ASSUME NEW V, NEW base \in V, NEW X, NEW s \in Seq(X),
           \A v \in V, x \in X : AddRow(v, x) \in V
    PROVE  \E k : RowsAlong(k, s, V, base)
<1>1. Len(s) \in Nat /\ DOMAIN s = 1 .. Len(s) /\ \A i \in DOMAIN s : s[i] \in X
  OBVIOUS
<1> DEFINE n == Len(s)
           D == DOMAIN s
           step == [i \in D |-> [v \in V |-> AddRow(v, s[i])]]
           iter == CHOOSE g : g = [t \in SUBSET D |-> IF t = {} THEN base
                                     ELSE AddRow(g[t \ {Max(t)}], s[Max(t)])]
<1>2. FoldLeft(AddRow, base, s) = iter[D]
  BY DEF FoldLeft, MapThenFoldSet
<1>0. n \in Nat /\ D = 1 .. n /\ \A i \in D : s[i] \in X
  BY <1>1
<1> HIDE DEF n, D
<1>3. \A i \in D, v \in V : step[i][v] \in V /\ step[i][v] = AddRow(v, s[i])
  BY <1>0
<1>4. Positions(D, n) /\ Maps(step, D, V)
  BY <1>0, <1>3 DEF Positions, Maps
<1> HIDE DEF step
<1>5. PICK h : FoldsDown(h, D, V, base, step)
  BY <1>4, FoldOfPositions
<1>6. h = [t \in SUBSET D |-> IF t = {} THEN base ELSE AddRow(h[t \ {Max(t)}], s[Max(t)])]
  <2>1. ASSUME NEW t \in SUBSET D, t # {}
        PROVE  h[t] = AddRow(h[t \ {Max(t)}], s[Max(t)])
    <3>1. Max(t) \in D /\ h[t] = step[Max(t)][h[t \ {Max(t)}]] /\ h[t \ {Max(t)}] \in V
      BY <1>5, <2>1 DEF FoldsDown
    <3> QED BY <1>3, <3>1
  <2> QED BY <1>5, <2>1 DEF FoldsDown
<1>7. iter = [t \in SUBSET D |-> IF t = {} THEN base
                                 ELSE AddRow(iter[t \ {Max(t)}], s[Max(t)])]
  BY <1>6
<1> HIDE DEF iter
<1>8. Follows(iter, D, V, base, step)
  <2>1. ASSUME NEW t \in SUBSET D, t # {}, iter[t \ {Max(t)}] \in V
        PROVE  iter[t] = step[Max(t)][iter[t \ {Max(t)}]]
    <3>1. Max(t) \in D
      BY <1>5, <2>1 DEF FoldsDown
    <3>2. iter[t] = AddRow(iter[t \ {Max(t)}], s[Max(t)])
      BY <1>7, <2>1
    <3> QED BY <1>3, <2>1, <3>1, <3>2
  <2> QED BY <1>7, <2>1 DEF Follows
<1>9. PICK k : Runs(k, n, V, base, step, iter[D])
  BY <1>4, <1>5, <1>8, FoldFollowed
<1>10. \A i \in 1 .. n : k[i] = AddRow(k[i - 1], s[i])
  <2> SUFFICES ASSUME NEW i \in 1 .. n PROVE k[i] = AddRow(k[i - 1], s[i])
    OBVIOUS
  <2>1. k[i - 1] \in V /\ k[i] = step[i][k[i - 1]]
    BY <1>0, <1>9 DEF Runs
  <2>2. i \in D
    BY <1>0
  <2> QED BY <1>3, <2>1, <2>2
<1>11. RowsAlong(k, s, V, base)
  BY <1>2, <1>9, <1>10 DEF n, Runs, RowsAlong
<1> QED BY <1>11

-----------------------------------------------------------------------------
(* Where a client is that has read a text.                                 *)

Wants  == {"value", "first", "key", "comma", "nothing", "error"}
Opens  == Seq({"[", "{"})
Reader == [want : Wants, open : Opens]
Start  == [want |-> "value", open |-> <<>>]

\* What Reads makes of a whole text; and of a sign when line ends are let pass.
Json(text) == FoldLeft(Reads, Start, LinesAside(text))
Seen(sign) == IF sign = "lines" THEN "value" ELSE sign

\* A sign takes a client from one place to another.
LEMMA ReadsType ==
    ASSUME NEW v \in Reader, NEW x \in Signs
    PROVE  Reads(v, x) \in Reader
<1>0. v.want \in Wants /\ v.open \in Opens
  BY DEF Reader
<1>9. <<>> \in Opens
  BY DEF Opens
<1>1. v.open # <<>> => Front(v.open) \in Opens
  BY <1>0, SeqFront DEF Opens
<1>2. Append(v.open, "[") \in Opens /\ Append(v.open, "{") \in Opens
  BY <1>0, SeqAppend DEF Opens
<1>3. \A w \in Wants : [v EXCEPT !.want = w] \in Reader
  BY DEF Reader
<1>4. \A o \in Opens, w \in Wants : [want |-> w, open |-> o] \in Reader
  BY DEF Reader
<1>5. Ended(v.open) \in Reader /\ (v.open # <<>> => Ended(Front(v.open)) \in Reader)
  BY <1>0, <1>1, <1>4, <1>9 DEF Ended, Wants
<1>6. [want |-> "first", open |-> Append(v.open, "[")] \in Reader
      /\ [want |-> "key", open |-> Append(v.open, "{")] \in Reader
  BY <1>2, <1>4 DEF Wants
<1> QED BY <1>3, <1>5, <1>6 DEF Reads, Wants

\* So every text has its places, one for each sign.
LEMMA ReadRun == ASSUME NEW s \in Seq(Signs) PROVE \E k : ReadsAlong(k, s, Reader, Start)
<1>1. Start \in Reader
  BY DEF Start, Reader, Wants, Opens
<1>2. \A v \in Reader, x \in Signs : Reads(v, x) \in Reader
  BY ReadsType
<1> QED BY <1>1, <1>2, ReadsRun

LEMMA ReadFirst == Json(<<>>) = Start
<1>1. LinesAside(<<>>) = <<>> /\ <<>> \in Seq(Signs)
  BY DEF LinesAside
<1>2. PICK k : ReadsAlong(k, <<>>, Reader, Start)
  BY <1>1, ReadRun
<1> QED BY <1>1, <1>2 DEF ReadsAlong, Json

\* Line ends are let pass one by one.
LEMMA AsideType ==
    ASSUME NEW text \in Seq(Signs)
    PROVE  /\ LinesAside(text) \in Seq(Signs) /\ Len(LinesAside(text)) = Len(text)
           /\ Len(text) \in Nat
           /\ \A i \in 1 .. Len(text) : LinesAside(text)[i] = Seen(text[i])
<1>1. "value" \in Signs
  BY DEF Signs, Scalars
<1>2. Len(text) \in Nat /\ DOMAIN text = 1 .. Len(text)
      /\ \A i \in 1 .. Len(text) : text[i] \in Signs
  OBVIOUS
<1> DEFINE n == Len(text)
           s == [i \in 1 .. n |-> Seen(text[i])]
<1>3. LinesAside(text) = s
  BY <1>2 DEF LinesAside, Seen
<1>4. \A i \in 1 .. n : s[i] \in Signs /\ s[i] = Seen(text[i])
  BY <1>1, <1>2 DEF Seen
<1>5. s \in Seq(Signs) /\ Len(s) = n
  <2> HIDE DEF n
  <2>1. s \in [1 .. n -> Signs]
    BY <1>4
  <2> QED BY <1>2, <2>1 DEF n
<1> QED BY <1>2, <1>3, <1>4, <1>5

\* The first n places on the way through a text.
Reading(k, s, n) == k[0] = Start /\ \A i \in 1 .. n : k[i] = Reads(k[i - 1], s[i])

\* A text is read in one way.
LEMMA RunsAgree ==
    ASSUME NEW n \in Nat, NEW s, NEW t, NEW k, NEW l, Reading(k, s, n), Reading(l, t, n),
           \A i \in 1 .. n : t[i] = s[i]
    PROVE  l[n] = k[n]
<1> DEFINE A == {i \in Nat : i <= n => l[i] = k[i]}
<1>1. 0 \in A
  BY DEF Reading
<1>2. ASSUME NEW i \in Nat, i \in A PROVE i + 1 \in A
  <2> SUFFICES ASSUME i + 1 <= n PROVE l[i + 1] = k[i + 1]
    OBVIOUS
  <2> DEFINE j == i + 1
  <2>1. j \in 1 .. n /\ j - 1 = i /\ l[i] = k[i]
    BY <1>2
  <2>2. l[j] = Reads(l[j - 1], t[j]) /\ k[j] = Reads(k[j - 1], s[j]) /\ t[j] = s[j]
    BY <2>1 DEF Reading
  <2> QED BY <2>1, <2>2
<1>3. n \in A
  <2> HIDE DEF A
  <2> QED BY <1>1, <1>2, UpFromZero
<1> QED BY <1>3

\* A sign more at the end of a text is a step more.
LEMMA ReadNext ==
    ASSUME NEW text \in Seq(Signs), NEW x \in Signs
    PROVE  /\ Json(text) \in Reader
           /\ Json(Append(text, x)) = Reads(Json(text), Seen(x))
<1> DEFINE n == Len(text)
           s == LinesAside(text)
           t == LinesAside(Append(text, x))
<1>1. /\ n \in Nat /\ s \in Seq(Signs) /\ t \in Seq(Signs) /\ Len(s) = n /\ Len(t) = n + 1
      /\ \A i \in 1 .. n : t[i] = s[i]
      /\ t[n + 1] = Seen(x)
  <2>1. /\ Append(text, x) \in Seq(Signs) /\ Len(Append(text, x)) = n + 1
        /\ Append(text, x)[n + 1] = x
        /\ \A i \in 1 .. n : Append(text, x)[i] = text[i]
    BY SeqAppend
  <2>2. s \in Seq(Signs) /\ Len(s) = n /\ n \in Nat /\ \A i \in 1 .. n : s[i] = Seen(text[i])
    BY AsideType
  <2>3. t \in Seq(Signs) /\ Len(t) = n + 1 /\ \A i \in 1 .. n + 1 : t[i] = Seen(Append(text, x)[i])
    BY <2>1, AsideType
  <2>4. \A i \in 1 .. n : t[i] = s[i]
    BY <2>1, <2>2, <2>3
  <2> QED BY <2>1, <2>2, <2>3, <2>4
<1> HIDE DEF n, s, t
<1>2. PICK k : ReadsAlong(k, s, Reader, Start)
  BY <1>1, ReadRun
<1>3. PICK l : ReadsAlong(l, t, Reader, Start)
  BY <1>1, ReadRun
<1>4. l[n] = k[n]
  <2>1. Reading(k, s, n) /\ Reading(l, t, n)
    BY <1>1, <1>2, <1>3 DEF ReadsAlong, Reading
  <2> QED BY <1>1, <2>1, RunsAgree
<1>5. l[n + 1] = Reads(l[n], t[n + 1])
  <2> DEFINE m == n + 1
  <2>1. m \in 1 .. Len(t) /\ m - 1 = n
    BY <1>1
  <2>2. l[m] = Reads(l[m - 1], t[m])
    BY <1>3, <2>1 DEF ReadsAlong
  <2> QED BY <2>1, <2>2
<1>6. k[n] = Json(text) /\ k[n] \in Reader
  BY <1>1, <1>2 DEF ReadsAlong, Json, s
<1>7. l[n + 1] = Json(Append(text, x))
  BY <1>1, <1>3 DEF ReadsAlong, Json, t
<1> QED BY <1>1, <1>4, <1>5, <1>6, <1>7

\* The place of a client, and the text that took it there.
St(want, open) == [want |-> want, open |-> open]

\* A client that has read the text knows the status, wants something, and has some
\* brackets open.
Reach(status, text, want, open) ==
    /\ text \in Seq(Signs) /\ Len(text) >= 3 /\ text[3] = status
    /\ open \in Opens /\ Json(text) = St(want, open)

\* A step of Reads is a step of Reach.
LEMMA Reached ==
    ASSUME NEW status, NEW text, NEW want, NEW open, Reach(status, text, want, open),
           NEW x \in Signs,
           NEW next, NEW then \in Opens, Reads(St(want, open), Seen(x)) = St(next, then)
    PROVE  Reach(status, Append(text, x), next, then)
<1>1. text \in Seq(Signs) /\ Json(text) = St(want, open)
  BY DEF Reach
<1> DEFINE more == Append(text, x)
<1>2. more \in Seq(Signs) /\ Json(more) = Reads(Json(text), Seen(x))
  BY <1>1, ReadNext, SeqAppend
<1>4. Len(more) >= 3 /\ more[3] = status
  <2>1. Len(text) \in Nat /\ Len(text) >= 3 /\ text[3] = status
    BY DEF Reach
  <2>2. Len(more) = Len(text) + 1 /\ \A i \in 1 .. Len(text) : more[i] = text[i]
    BY <1>1, SeqAppend
  <2> QED BY <2>1, <2>2
<1> HIDE DEF more
<1>3. Reach(status, more, next, then)
  BY <1>1, <1>2, <1>4 DEF Reach
<1> QED BY <1>3 DEF more

\* Keys, scalars and the other signs are told apart.
LEMMA SignsAre ==
    /\ \A x \in Keys \cup Scalars :
         x \in Signs /\ x \notin {"{", "}", "[", "]", ",", "lines", "raw"}
    /\ Keys \cap Scalars = {} /\ "value" \in Scalars
    /\ {"{", "}", "[", "]", ",", "lines", "raw"} \subseteq Signs
BY DEF Signs, Keys, Scalars, Statuses

\* A bracket more is the last one.
LEMMA OpensAre ==
    ASSUME NEW open \in Opens
    PROVE  /\ Append(open, "[") \in Opens /\ Append(open, "[") # <<>> /\ Append(open, "{") \in Opens
           /\ Front(Append(open, "[")) = open /\ Last(Append(open, "[")) = "["
<1> DEFINE S == {"[", "{"}
<1>1. open \in Seq(S) /\ "[" \in S /\ "{" \in S
  BY DEF Opens
<1> HIDE DEF S
<1>2. /\ Append(open, "[") \in Seq(S) /\ Append(open, "[") # <<>> /\ Append(open, "{") \in Seq(S)
      /\ Front(Append(open, "[")) = open /\ Last(Append(open, "[")) = "["
  BY <1>1, SeqAppend
<1> QED BY <1>2 DEF S, Opens

\* What each sign does to it.
LEMMA ReachValue ==
    ASSUME NEW status, NEW text, NEW want \in {"value", "first"}, NEW open,
           Reach(status, text, want, open), open # <<>>,
           NEW x \in Scalars \cup {"lines"}
    PROVE  Reach(status, Append(text, x), "comma", open)
<1>1. x \in Signs /\ Seen(x) \in Scalars
  BY SignsAre DEF Seen
<1>2. ASSUME NEW y \in Scalars PROVE Reads(St(want, open), y) = St("comma", open)
  <2>1. y \notin Keys /\ y \notin {"{", "}", "[", "]", ","}
    BY SignsAre
  <2> QED BY <2>1 DEF Reads, St, Ended
<1>3. open \in Opens
  BY DEF Reach
<1> QED BY <1>1, <1>2, <1>3, Reached

\* A bracket where a value may be: the client waits for the first in it.
LEMMA ReachOpen ==
    ASSUME NEW status, NEW text, NEW want \in {"value", "first"}, NEW open,
           Reach(status, text, want, open)
    PROVE  Reach(status, Append(text, "["), "first", Append(open, "["))
<1>1. "[" \in Signs /\ Seen("[") = "[" /\ "[" \notin Scalars
  BY SignsAre DEF Seen
<1>2. Reads(St(want, open), "[") = St("first", Append(open, "["))
  BY <1>1 DEF Reads, St
<1>3. Append(open, "[") \in Opens
  BY OpensAre DEF Reach
<1> DEFINE o == Append(open, "[")
<1> HIDE DEF o
<1>4. Reads(St(want, open), "[") = St("first", o) /\ o \in Opens
  BY <1>2, <1>3 DEF o
<1>5. Reach(status, Append(text, "["), "first", o)
  BY <1>1, <1>4, Reached
<1> QED BY <1>5 DEF o

\* A comma in brackets: another value follows.
LEMMA ReachNext ==
    ASSUME NEW status, NEW text, NEW open \in Opens, Reach(status, text, "comma", Append(open, "["))
    PROVE  Reach(status, Append(text, ","), "value", Append(open, "["))
<1>1. "," \in Signs /\ Seen(",") = "," /\ "," \notin Scalars \cup Keys
  BY SignsAre DEF Seen
<1> DEFINE o == Append(open, "[")
<1>2. o \in Opens /\ o # <<>> /\ Last(o) = "["
  BY OpensAre
<1>3. Reads(St("comma", o), ",") = St("value", o)
  <2> HIDE DEF o
  <2> QED BY <1>1, <1>2 DEF Reads, St
<1> HIDE DEF o
<1>4. Reach(status, text, "comma", o)
  BY DEF o
<1>5. Reach(status, Append(text, ","), "value", o)
  BY <1>1, <1>2, <1>3, <1>4, Reached
<1> QED BY <1>5 DEF o

\* The bracket closes: there is a value more one level down.
LEMMA ReachClose ==
    ASSUME NEW status, NEW text, NEW open \in Opens, open # <<>>,
           \/ Reach(status, text, "comma", Append(open, "["))
           \/ Reach(status, text, "first", Append(open, "["))
    PROVE  Reach(status, Append(text, "]"), "comma", open)
<1>1. "]" \in Signs /\ Seen("]") = "]" /\ "]" \notin Scalars \cup Keys
  BY SignsAre DEF Seen
<1> DEFINE o == Append(open, "[")
<1>2. o # <<>> /\ Last(o) = "[" /\ Front(o) = open
  BY OpensAre
<1>3. \A w \in {"comma", "first"} : Reads(St(w, o), "]") = St("comma", open)
  <2> HIDE DEF o
  <2> QED BY <1>1, <1>2 DEF Reads, St, Ended
<1> HIDE DEF o
<1>4. PICK w \in {"comma", "first"} : Reach(status, text, w, o)
  BY DEF o
<1> QED BY <1>1, <1>3, <1>4, Reached

\* In the object that an answer is:
O1 == <<"{">>

LEMMA OneOpen ==
    /\ O1 \in Opens /\ O1 # <<>> /\ Last(O1) = "{" /\ Front(O1) = <<>>
    /\ <<>> \in Opens /\ O1 = Append(<<>>, "{")
BY DEF O1, Opens, Last, Front

\* A key, a comma and the last brace in the object.
LEMMA ReachKey ==
    ASSUME NEW status, NEW text, Reach(status, text, "key", O1), NEW x \in Keys
    PROVE  Reach(status, Append(text, x), "value", O1)
<1>1. x \in Signs /\ Seen(x) = x /\ x \notin Scalars /\ x \notin {"{", "["}
  BY SignsAre DEF Seen
<1>2. Reads(St("key", O1), x) = St("value", O1)
  BY <1>1 DEF Reads, St
<1> QED BY <1>1, <1>2, OneOpen, Reached

LEMMA ReachMember ==
    ASSUME NEW status, NEW text, Reach(status, text, "comma", O1)
    PROVE  Reach(status, Append(text, ","), "key", O1)
<1>1. "," \in Signs /\ Seen(",") = "," /\ "," \notin Scalars \cup Keys
  BY SignsAre DEF Seen
<1>2. Reads(St("comma", O1), ",") = St("key", O1)
  BY <1>1, OneOpen DEF Reads, St
<1> QED BY <1>1, <1>2, OneOpen, Reached

LEMMA ReachEnd ==
    ASSUME NEW status, NEW text, Reach(status, text, "comma", O1)
    PROVE  Reach(status, Append(text, "}"), "nothing", <<>>)
<1>1. "}" \in Signs /\ Seen("}") = "}" /\ "}" \notin Scalars \cup Keys
  BY SignsAre DEF Seen
<1>2. Reads(St("comma", O1), "}") = St("nothing", <<>>)
  BY <1>1, OneOpen DEF Reads, St, Ended
<1> QED BY <1>1, <1>2, OneOpen, Reached

\* How every answer begins.
LEMMA ReachStatus ==
    ASSUME NEW status \in Statuses
    PROVE  Reach(status, <<"{", "status", status>>, "comma", O1)
<1>1. Start = St("value", <<>>)
  BY DEF Start, St
<1>2. /\ "{" \in Signs /\ Seen("{") = "{" /\ "{" \notin Scalars
      /\ "status" \in Keys /\ "status" \in Signs /\ Seen("status") = "status"
      /\ "status" \notin Scalars
      /\ status \in Signs /\ status \in Scalars /\ Seen(status) = status
      /\ status \notin Keys /\ status \notin {"{", "}", "[", "]", ","}
  BY DEF Seen, Signs, Scalars, Statuses, Keys
<1>3. Reads(St("value", <<>>), "{") = St("key", O1)
  BY <1>2, OneOpen DEF Reads, St
<1>4. Reads(St("key", O1), "status") = St("value", O1)
  BY <1>2 DEF Reads, St
<1>5. Reads(St("value", O1), status) = St("comma", O1)
  BY <1>2, OneOpen DEF Reads, St, Ended
<1> DEFINE a == Append(<<>>, "{")
           b == Append(a, "status")
           c == Append(b, status)
<1>6. <<>> \in Seq(Signs)
  OBVIOUS
<1>7. a \in Seq(Signs) /\ Json(a) = St("key", O1)
  BY <1>1, <1>2, <1>3, <1>6, ReadFirst, ReadNext, SeqAppend
<1>8. b \in Seq(Signs) /\ Json(b) = St("value", O1)
  <2> HIDE DEF a
  <2> QED BY <1>2, <1>4, <1>7, ReadNext, SeqAppend
<1>9. c \in Seq(Signs) /\ Json(c) = St("comma", O1)
  <2> HIDE DEF a, b
  <2> QED BY <1>2, <1>5, <1>8, ReadNext, SeqAppend
<1> DEFINE text == <<"{", "status", status>>
<1>10. text = c /\ Len(text) >= 3 /\ text[3] = status
  <2> DEFINE s1 == "{"
             s2 == "status"
  <2>1. s1 \in Signs /\ s2 \in Signs /\ status \in Signs
    BY <1>2
  <2> HIDE DEF s1, s2
  <2>2. <<s1, s2, status>> = Append(Append(Append(<<>>, s1), s2), status)
        /\ Len(<<s1, s2, status>>) >= 3 /\ <<s1, s2, status>>[3] = status
    BY <2>1, SeqOfThree
  <2> QED BY <2>2 DEF s1, s2
<1>12. text \in Seq(Signs) /\ Json(text) = St("comma", O1)
  <2> HIDE DEF c, text
  <2> QED BY <1>9, <1>10
<1> HIDE DEF text
<1>13. Reach(status, text, "comma", O1)
  <2>1. O1 \in Opens
    BY OneOpen
  <2> HIDE DEF text
  <2> QED BY <1>10, <1>12, <2>1 DEF Reach
<1> QED BY <1>13 DEF text

-----------------------------------------------------------------------------
(* Texts of an answer.                                                    *)

\* A text to which Closed makes an end.
Closable(status, text) ==
    \/ Reach(status, text, "key", O1) /\ Last(text) = ","
    \/ Reach(status, text, "comma", O1) /\ Last(text) # ","

\* What the texts written at once are, sign by sign.
LEMMA Written ==
    ASSUME NEW s \in Seq(Signs), NEW a \in Signs, NEW b \in Signs, NEW c \in Signs, NEW d \in Signs
    PROVE  /\ s \o <<a>> = Append(s, a)
           /\ s \o <<a, b>> = Append(Append(s, a), b)
           /\ s \o <<a, b, c>> = Append(Append(Append(s, a), b), c)
           /\ <<a, b, c, d>> = Append(<<a, b, c>>, d)
           /\ Append(s, a) \in Seq(Signs) /\ Last(Append(s, a)) = a /\ Front(Append(s, a)) = s
           /\ Append(s, a) # <<>>
BY SeqConcat, SeqAppend

LEMMA SignOf ==
    /\ {"{", "}", "[", "]", ",", "lines", "raw", "value", "200", "302", "500"} \subseteq Signs
    /\ Keys \subseteq Signs
BY DEF Signs, Scalars, Statuses

\* The answer as SE_soap_serve opens it expects a key.
LEMMA OpeningReached == Reach("200", Opening, "key", O1) /\ Last(Opening) = ","
<1> DEFINE a == "{"  b == "status"  c == "200"  d == ","  text == <<a, b, c>>
<1>1. Reach(c, text, "comma", O1)
  BY ReachStatus DEF Statuses
<1>2. a \in Signs /\ b \in Signs /\ c \in Signs /\ d \in Signs
  BY SignOf DEF Keys
<1>3. Opening = <<a, b, c, d>>
  BY DEF Opening
<1>4. Reach(c, Append(text, d), "key", O1)
  BY <1>1, ReachMember
<1>5. text \in Seq(Signs)
  BY <1>1 DEF Reach
<1>6. Opening = Append(text, d)
  <2> HIDE DEF a, b, c, d
  <2> QED BY <1>2, <1>3, <1>5, Written
<1>7. Last(Append(text, d)) = d
  BY <1>2, <1>5, Written
<1> QED BY <1>4, <1>6, <1>7

\* Three signs more.
Plus(t, x, y, z) == Append(Append(Append(t, x), y), z)

LEMMA SixSigns ==
    ASSUME NEW a, NEW b, NEW c, NEW d, NEW e, NEW f
    PROVE  <<a, b, c, d, e, f>> = Plus(<<a, b, c>>, d, e, f)
BY DEF Plus

LEMMA NineSigns ==
    ASSUME NEW a, NEW b, NEW c, NEW d, NEW e, NEW f, NEW g, NEW h, NEW i
    PROVE  <<a, b, c, d, e, f, g, h, i>> = Plus(<<a, b, c, d, e, f>>, g, h, i)
BY DEF Plus

\* A member is written after another, or after the comma that follows it.
LEMMA MemberReached ==
    ASSUME NEW status, NEW text, Reach(status, text, "comma", O1), NEW key \in Keys,
           NEW x \in {"value", "lines"}
    PROVE  Closable(status, Plus(text, ",", key, x))
           /\ Reach(status, Plus(text, ",", key, x), "comma", O1)
<1> DEFINE a == Append(text, ",")
           b == Append(a, key)
           c == Append(b, x)
<1>1. Reach(status, a, "key", O1)
  BY ReachMember
<1>2. Reach(status, b, "value", O1)
  <2> HIDE DEF a
  <2> QED BY <1>1, ReachKey
<1>3. Reach(status, c, "comma", O1)
  <2> HIDE DEF b
  <2>1. x \in Scalars \cup {"lines"}
    BY SignsAre
  <2> QED BY <1>2, <2>1, OneOpen, ReachValue
<1>4. Last(c) # ","
  <2>1. b \in Seq(Signs)
    BY <1>2 DEF Reach
  <2>2. x \in Signs /\ x # ","
    BY SignOf
  <2> HIDE DEF b
  <2> QED BY <2>1, <2>2, SeqAppend
<1> QED BY <1>3, <1>4 DEF Closable, Plus

\* Every message, error and redirection that starts over can be closed.
LEMMA RepliesReached ==
    /\ \A why \in {"value", "lines"} : Closable("500", Error(why))
    /\ Closable("200", Message) /\ Closable("302", Redirect)
<1>1. ASSUME NEW status \in Statuses, NEW key \in Keys, NEW x \in {"value", "lines"}
      PROVE  /\ Closable(status, <<"{", "status", status, ",", key, x>>)
             /\ Reach(status, <<"{", "status", status, ",", key, x>>, "comma", O1)
  <2> DEFINE a == "{"  b == "status"  d == ","  text == <<a, b, status>>
  <2>1. Reach(status, text, "comma", O1)
    BY ReachStatus
  <2>2. a \in Signs /\ b \in Signs /\ status \in Signs /\ d \in Signs /\ key \in Signs
        /\ x \in Signs
    BY SignOf DEF Keys, Statuses
  <2> DEFINE more == Plus(text, d, key, x)
  <2>3. Closable(status, more) /\ Reach(status, more, "comma", O1)
    BY <2>1, MemberReached
  <2>4. more = <<a, b, status, d, key, x>>
    <3> HIDE DEF a, b, d
    <3> QED BY SixSigns
  <2> HIDE DEF more
  <2> QED BY <2>3, <2>4
<1>2. \A why \in {"value", "lines"} : Closable("500", Error(why))
  BY <1>1 DEF Error, Statuses, Keys
<1>3. Closable("200", Message)
  BY <1>1 DEF Message, Statuses, Keys
<1>4. Closable("302", Redirect)
  <2> DEFINE a == "{"  b == "status"  c == "302"  d == ","  e == "msg"  f == "value"  h == "url"
             text == <<a, b, c, d, e, f>>
  <2>1. Reach(c, text, "comma", O1)
    BY <1>1 DEF Statuses, Keys
  <2> DEFINE more == Plus(text, d, h, f)
  <2>2. Closable(c, more)
    <3> HIDE DEF text, c
    <3> QED BY <2>1, MemberReached DEF Keys
  <2>3. a \in Signs /\ b \in Signs /\ c \in Signs /\ d \in Signs /\ e \in Signs /\ f \in Signs
        /\ h \in Signs
    BY SignOf DEF Keys
  <2>4. more = <<a, b, c, d, e, f, d, h, f>>
    <3> HIDE DEF a, b, c, d, e, f, h
    <3> QED BY NineSigns
  <2>5. Redirect = <<a, b, c, d, e, f, d, h, f>>
    BY DEF Redirect
  <2> HIDE DEF more
  <2> QED BY <2>2, <2>4, <2>5
<1> QED BY <1>2, <1>3, <1>4

\* Closed makes an end of it, and keeps the status.
LEMMA ClosedReached ==
    ASSUME NEW status, NEW text, Closable(status, text)
    PROVE  Reach(status, Closed(text), "nothing", <<>>)
<1>1. PICK t : /\ Reach(status, t, "key", O1)
               /\ t = text \o (IF Last(text) = "," THEN <<>> ELSE <<",">>)
  <2>1. CASE Reach(status, text, "key", O1) /\ Last(text) = ","
    <3>1. text \in Seq(Signs)
      BY <2>1 DEF Reach
    <3>2. text \o <<>> = text
      BY <3>1, ConcatEmptySeq
    <3> QED BY <2>1, <3>2
  <2>2. CASE Reach(status, text, "comma", O1) /\ Last(text) # ","
    <3>1. text \in Seq(Signs)
      BY <2>2 DEF Reach
    <3> DEFINE d == ","
    <3>2. d \in Signs
      BY SignOf
    <3>3. Reach(status, Append(text, d), "key", O1)
      BY <2>2, ReachMember
    <3>4. text \o <<d>> = Append(text, d)
      <4> HIDE DEF d
      <4> QED BY <3>1, <3>2, SeqConcat
    <3> QED BY <2>2, <3>3, <3>4
  <2> QED BY <2>1, <2>2 DEF Closable
<1> DEFINE e == "elapsed"  v == "value"  z == "}"
           a == Append(t, e)
           b == Append(a, v)
           c == Append(b, z)
<1>2. e \in Signs /\ v \in Signs /\ z \in Signs /\ t \in Seq(Signs)
  BY <1>1, SignOf DEF Keys, Reach
<1>3. Reach(status, a, "value", O1)
  BY <1>1, ReachKey DEF Keys
<1>4. Reach(status, b, "comma", O1)
  <2> HIDE DEF a
  <2> QED BY <1>3, OneOpen, ReachValue, SignsAre
<1>5. Reach(status, c, "nothing", <<>>)
  <2> HIDE DEF b
  <2> QED BY <1>4, ReachEnd
<1>6. Closed(text) = c
  <2>1. Closed(text) = t \o <<e, v, z>>
    BY <1>1 DEF Closed
  <2> HIDE DEF e, v, z
  <2> QED BY <1>2, <2>1, SeqConcat
<1> HIDE DEF c
<1> QED BY <1>5, <1>6

-----------------------------------------------------------------------------
(* Record sets.                                                            *)

\* The elements of a list, with a comma after each but the last.
Element(i)     == IF i % 2 = 1 THEN "value" ELSE ","
Alternating(m) == [i \in 1 .. m |-> Element(i)]
WantedAfter(m) == IF m = 0 THEN "first" ELSE IF m % 2 = 1 THEN "comma" ELSE "value"

LEMMA AlternatingIs ==
    ASSUME NEW m \in Nat
    PROVE  /\ Alternating(m) \in Seq(Signs) /\ Len(Alternating(m)) = m
           /\ \A i \in 1 .. m : Alternating(m)[i] = Element(i)
<1>1. \A i \in 1 .. m : Element(i) \in Signs
  BY SignOf DEF Element
<1> DEFINE s == Alternating(m)
<1>2. s \in [1 .. m -> Signs] /\ \A i \in 1 .. m : s[i] = Element(i)
  BY <1>1 DEF Alternating
<1> HIDE DEF s
<1>3. s \in Seq(Signs) /\ Len(s) = m
  BY <1>2
<1> QED BY <1>2, <1>3 DEF s

\* One sign more, and what it does to the client.
LEMMA AlternatingNext ==
    ASSUME NEW m \in Nat
    PROVE  Alternating(m + 1) = Append(Alternating(m), Element(m + 1))
<1> DEFINE x == Element(m + 1)
           s == Alternating(m)
           t == Alternating(m + 1)
           n == m + 1
<1>0. n \in Nat /\ n > 0
  OBVIOUS
<1>1. s \in Seq(Signs) /\ Len(s) = m /\ \A i \in 1 .. m : s[i] = Element(i)
  BY AlternatingIs
<1>2. t \in Seq(Signs) /\ Len(t) = n /\ \A i \in 1 .. n : t[i] = Element(i)
  BY <1>0, AlternatingIs
<1>3. x \in Signs /\ t[n] = x
  <2>1. n \in 1 .. n
    OBVIOUS
  <2>2. x \in Signs
    BY SignOf DEF Element
  <2> QED BY <1>2, <2>1, <2>2
<1> HIDE DEF x, s, t
<1>4. /\ Append(s, x) \in Seq(Signs) /\ Len(Append(s, x)) = n
      /\ \A i \in 1 .. m : Append(s, x)[i] = s[i]
      /\ Append(s, x)[n] = x
  BY <1>1, <1>3, SeqAppend
<1>5. \A i \in 1 .. n : t[i] = Append(s, x)[i]
  BY <1>1, <1>2, <1>3, <1>4
<1>6. t = Append(s, x)
  BY <1>2, <1>4, <1>5, SeqEqual
<1> QED BY <1>6 DEF s, t, x

LEMMA ElementsAlternate ==
    ASSUME NEW m \in Nat, NEW n \in Nat, n = m + 1
    PROVE  /\ Element(n) \in Signs
           /\ \/ /\ Element(n) = "value" /\ WantedAfter(m) \in {"value", "first"}
                 /\ WantedAfter(n) = "comma"
              \/ /\ Element(n) = "," /\ WantedAfter(m) = "comma"
                 /\ WantedAfter(n) = "value"
<1>1. CASE m % 2 = 0
  <2>1. n % 2 = 1 /\ n # 0 /\ m % 2 # 1
    BY <1>1
  <2>2. Element(n) = "value"
    BY <2>1 DEF Element
  <2>3. WantedAfter(n) = "comma" /\ WantedAfter(m) \in {"value", "first"}
    BY <2>1 DEF WantedAfter
  <2> QED BY <2>2, <2>3, SignOf
<1>2. CASE m % 2 = 1
  <2>1. n % 2 # 1 /\ n # 0 /\ m # 0
    BY <1>2
  <2>2. Element(n) = ","
    BY <2>1 DEF Element
  <2>3. WantedAfter(n) = "value" /\ WantedAfter(m) = "comma"
    BY <1>2, <2>1 DEF WantedAfter
  <2> QED BY <2>2, <2>3, SignOf
<1>3. m % 2 = 0 \/ m % 2 = 1
  OBVIOUS
<1> QED BY <1>1, <1>2, <1>3

\* The text of a list stops behind a value.
LEMMA ListTextIs ==
    ASSUME NEW n \in Nat \ {0}
    PROVE  \E k \in Nat : k # 0 /\ k % 2 = 1 /\ ListText(n) = Alternating(k)
<1> DEFINE k == 2 * n - 1
<1>1. k \in Nat /\ k + 1 = 2 * n /\ k # 0 /\ k % 2 = 1
  OBVIOUS
<1> HIDE DEF k
<1> DEFINE x == Element(k + 1)
           s == Alternating(k)
<1>2. s \in Seq(Signs) /\ Alternating(k + 1) = Append(s, x)
  BY <1>1, AlternatingNext, AlternatingIs
<1>3. x \in Signs
  BY SignOf DEF Element
<1>4. Front(Append(s, x)) = s
  <2> HIDE DEF x, s
  <2> QED BY <1>2, <1>3, SeqAppend
<1>5. ListText(n) = Front(Alternating(k + 1))
  BY <1>1 DEF ListText, Alternating, Element
<1> QED BY <1>1, <1>2, <1>4, <1>5

\* All elements of a list take the client to the place behind the last of them.
LEMMA ListReached ==
    ASSUME NEW status, NEW text, NEW open \in Opens,
           Reach(status, text, "first", Append(open, "[")), NEW n \in Nat \ {0}
    PROVE  Reach(status, text \o ListText(n), "comma", Append(open, "["))
<1> DEFINE o == Append(open, "[")
           A == {m \in Nat : Reach(status, text \o Alternating(m), WantedAfter(m), o)}
<1>0. o \in Opens /\ o # <<>> /\ text \in Seq(Signs)
  BY OpensAre DEF Reach
<1>1. 0 \in A
  <2>1. Alternating(0) = <<>>
    BY DEF Alternating
  <2>2. text \o <<>> = text
    BY <1>0, ConcatEmptySeq
  <2> QED BY <2>1, <2>2 DEF WantedAfter
<1>2. ASSUME NEW m \in Nat, m \in A PROVE m + 1 \in A
  <2> DEFINE l == m + 1
  <2>0. l \in Nat /\ l = m + 1
    OBVIOUS
  <2>1. Alternating(l) = Append(Alternating(m), Element(l)) /\ Alternating(m) \in Seq(Signs)
    BY AlternatingNext, AlternatingIs
  <2> HIDE DEF l
  <2> DEFINE x == Element(l)
             s == Alternating(m)
             t == text \o s
  <2>2. Reach(status, t, WantedAfter(m), o)
    BY <1>2
  <2>3. text \o Alternating(l) = Append(t, x)
    <3>1. x \in Signs
      BY <2>0, ElementsAlternate
    <3> HIDE DEF x, s
    <3>2. text \o Append(s, x) = Append(text \o s, x)
      BY <1>0, <2>1, <3>1, ConcatAppend DEF s
    <3> QED BY <2>1, <3>2 DEF x, s
  <2> HIDE DEF t
  <2>4. Reach(status, Append(t, x), WantedAfter(l), o)
    <3>1. CASE x = "value" /\ WantedAfter(m) \in {"value", "first"} /\ WantedAfter(l) = "comma"
      <4> DEFINE w == WantedAfter(m)
      <4> HIDE DEF o
      <4>1. w \in {"value", "first"} /\ Reach(status, t, w, o) /\ "value" \in Scalars
        BY <2>2, <3>1, SignsAre
      <4> HIDE DEF w
      <4>2. Reach(status, Append(t, "value"), "comma", o)
        BY <1>0, <4>1, ReachValue
      <4> QED BY <3>1, <4>2
    <3>2. CASE x = "," /\ WantedAfter(m) = "comma" /\ WantedAfter(l) = "value"
      <4>1. Reach(status, Append(t, ","), "value", o)
        BY <2>2, <3>2, ReachNext
      <4> QED BY <3>2, <4>1
    <3> QED BY <2>0, <3>1, <3>2, ElementsAlternate
  <2>5. l \in A
    BY <2>0, <2>3, <2>4
  <2> QED BY <2>0, <2>5
<1>3. PICK k \in Nat : k # 0 /\ k % 2 = 1 /\ ListText(n) = Alternating(k)
  BY ListTextIs
<1>4. k \in A
  <2> HIDE DEF A
  <2> QED BY <1>1, <1>2, <1>3, UpFromZero
<1>5. Reach(status, text \o Alternating(k), "comma", o)
  BY <1>3, <1>4 DEF WantedAfter
<1> QED BY <1>3, <1>5

\* The brackets that are open in a list of record sets, in a record set, and in a row.
O2 == Append(O1, "[")
O3 == Append(O2, "[")
O4 == Append(O3, "[")

LEMMA OpensNest ==
    O2 \in Opens /\ O3 \in Opens /\ O4 \in Opens /\ O2 # <<>> /\ O3 # <<>> /\ O4 # <<>>
BY OneOpen, OpensAre DEF O2, O3, O4

\* A row that has been begun, with a comma after each of its cells.
RowSoFar(status, text) ==
    \/ Reach(status, text, "first", O4) /\ Last(text) = "["
    \/ /\ Reach(status, text, "value", O4) /\ Last(text) = ","
       /\ Reach(status, Front(text), "comma", O4)

\* The cells of a result that is Plain.
PlainCells == {cell \in Cells : cell.kind \in {"scalar", "list"}}

LEMMA Signed ==
    ASSUME NEW status, NEW text, NEW want, NEW open, Reach(status, text, want, open)
    PROVE  /\ text \in Seq(Signs) /\ text # <<>> /\ open \in Opens
           /\ \A x \in Signs : /\ text \o <<x>> = Append(text, x)
                               /\ Front(Append(text, x)) = text /\ Last(Append(text, x)) = x
<1>1. text \in Seq(Signs) /\ open \in Opens /\ Len(text) >= 3
  BY DEF Reach
<1>2. text # <<>>
  BY <1>1
<1> QED BY <1>1, <1>2, SeqAppend, SeqConcat

\* A cell that can be written is a value.
LEMMA CellReached ==
    ASSUME NEW status, NEW text, RowSoFar(status, text), NEW cell \in PlainCells
    PROVE  Reach(status, AddCell(text, cell), "comma", O4)
<1>1. PICK w \in {"first", "value"} : Reach(status, text, w, O4)
  BY DEF RowSoFar
<1>2. CASE cell.kind = "scalar"
  <2>1. Reach(status, Append(text, "value"), "comma", O4)
    BY <1>1, OpensNest, ReachValue, SignsAre
  <2> QED BY <1>2, <2>1 DEF AddCell
<1>3. CASE cell.kind = "list"
  <2> DEFINE n == cell.size
             z == "["
             y == "]"
             a == Append(text, z)
             b == a \o ListText(n)
             c == Append(b, y)
  <2>8. n \in Nat \ {0}
    <3>1. cell.size \in Nat /\ cell.size > 0
      BY <1>3 DEF PlainCells, Cells
    <3> QED BY <3>1
  <2>0. n \in Nat \ {0} /\ z \in Signs /\ y \in Signs /\ O4 \in Opens /\ O4 # <<>>
    BY <2>8, SignOf, OpensNest
  <2>1. Reach(status, a, "first", Append(O4, "["))
    BY <1>1, ReachOpen
  <2>2. Reach(status, b, "comma", Append(O4, "["))
    <3> HIDE DEF a, n
    <3> QED BY <2>0, <2>1, ListReached
  <2>3. Reach(status, c, "comma", O4)
    <3> HIDE DEF b
    <3> QED BY <2>0, <2>2, ReachClose
  <2>4. Last(text) # y
    BY DEF RowSoFar
  <2>5. AddCell(text, cell) = text \o <<z>> \o ListText(n) \o <<y>>
    BY <1>3, <2>4 DEF AddCell
  <2>6. text \o <<z>> = a /\ b \o <<y>> = c
    <3>1. text \o <<z>> = a
      <4> HIDE DEF z
      <4> QED BY <1>1, <2>0, Signed
    <3>2. b \o <<y>> = c
      <4> HIDE DEF y, b
      <4> QED BY <2>0, <2>2, Signed
    <3> QED BY <3>1, <3>2
  <2> HIDE DEF a, b, c, z, y, n
  <2>7. AddCell(text, cell) = c
    BY <2>5, <2>6 DEF b
  <2> QED BY <2>3, <2>7
<1> QED BY <1>2, <1>3 DEF PlainCells

\* The comma behind it can be taken away again.
LEMMA NextCellReached ==
    ASSUME NEW status, NEW text, RowSoFar(status, text), NEW cell \in PlainCells
    PROVE  /\ RowSoFar(status, NextCell(text, cell))
           /\ Reach(status, Front(NextCell(text, cell)), "comma", O4)
<1> DEFINE t == AddCell(text, cell)
           d == ","
<1>1. Reach(status, t, "comma", O4)
  BY CellReached
<1>2. Reach(status, Append(t, d), "value", O4)
  BY <1>1, OpensNest, ReachNext DEF O4
<1>3. Last(Append(t, d)) = d /\ Front(Append(t, d)) = t
  <2>1. d \in Signs
    BY SignOf
  <2> HIDE DEF t, d
  <2> QED BY <1>1, <2>1, Signed
<1>4. NextCell(text, cell) = Append(t, d)
  BY DEF NextCell
<1> HIDE DEF t
<1> QED BY <1>1, <1>2, <1>3, <1>4 DEF RowSoFar

\* The rows that are written, with a comma after each of them.
RowsSoFar(status, text) ==
    \/ Reach(status, text, "first", O3)
    \/ Reach(status, text, "value", O3) /\ Reach(status, Front(text), "comma", O3)

\* A row whose cells can be written is a value, followed by a comma.
LEMMA RowReached ==
    ASSUME NEW status, NEW text, RowsSoFar(status, text), NEW row \in Seq(PlainCells), row # <<>>
    PROVE  /\ RowsSoFar(status, AddRow(text, row))
           /\ Reach(status, Front(AddRow(text, row)), "comma", O3)
<1> DEFINE z == "["  y == "]"  d == ","
           base == Append(text, z)
           V == {t \in Seq(Signs) : RowSoFar(status, t)}
           n == Len(row)
           cells == FoldLeft(NextCell, base, row)
<1>0. z \in Signs /\ y \in Signs /\ d \in Signs
  BY SignOf
<1>1. base \in V
  <2>1. PICK w \in {"first", "value"} : Reach(status, text, w, O3)
    BY DEF RowsSoFar
  <2>2. Reach(status, base, "first", O4)
    BY <2>1, ReachOpen DEF O4
  <2>3. Last(base) = z
    <3> HIDE DEF z
    <3> QED BY <1>0, <2>1, Signed
  <2> QED BY <2>2, <2>3, Signed DEF RowSoFar
<1>2. \A t \in V, cell \in PlainCells : NextCell(t, cell) \in V
  BY NextCellReached, Signed DEF RowSoFar
<1>3. PICK k : CellsAlong(k, row, V, base)
  <2> HIDE DEF V, base
  <2> QED BY <1>1, <1>2, CellsRun
<1>4. n \in Nat /\ n > 0 /\ row[n] \in PlainCells
  BY SeqFront
<1>5. k[n - 1] \in V /\ cells = NextCell(k[n - 1], row[n])
  <2> HIDE DEF V
  <2>1. k \in [0 .. n -> V] /\ k[n] = cells /\ n - 1 \in 0 .. n /\ n \in 1 .. n
    BY <1>3, <1>4 DEF CellsAlong
  <2>2. k[n] = NextCell(k[n - 1], row[n])
    BY <1>3, <2>1 DEF CellsAlong
  <2> QED BY <2>1, <2>2
<1>6. Reach(status, Front(cells), "comma", O4)
  BY <1>4, <1>5, NextCellReached
<1> HIDE DEF cells
<1> DEFINE a == Front(cells)
           b == Append(a, y)
           c == Append(b, d)
<1>7. Reach(status, b, "comma", O3)
  BY <1>6, OpensNest, ReachClose DEF O4
<1>8. Reach(status, c, "value", O3)
  <2> HIDE DEF b
  <2> QED BY <1>7, OpensNest, ReachNext DEF O3
<1>9. AddRow(text, row) = c
  <2>1. AddRow(text, row) = a \o <<y, d>>
    BY DEF AddRow, cells
  <2> HIDE DEF a, y, d
  <2>2. a \in Seq(Signs)
    BY <1>6, Signed DEF a
  <2> QED BY <1>0, <2>1, <2>2, SeqConcat
<1>10. Front(c) = b
  <2> HIDE DEF b, d
  <2> QED BY <1>0, <1>7, Signed
<1> HIDE DEF c, b
<1> QED BY <1>7, <1>8, <1>9, <1>10 DEF RowsSoFar

\* A list of record sets, the bracket of which is closed again.
RecordSets(status, text) ==
    /\ Reach(status, text, "comma", O1) /\ Last(text) = "]"
    /\ Reach(status, Front(text), "comma", O2)

\* The first record set opens three brackets, another one reopens two of them.
LEMMA FirstRecordset ==
    ASSUME NEW status, NEW text, Reach(status, text, "key", O1)
    PROVE  Reach(status, text \o <<"recordset", "[", "[">>, "first", O3)
<1> DEFINE z == "["  r == "recordset"
           a == Append(text, r)
           b == Append(a, z)
           c == Append(b, z)
<1>1. z \in Signs /\ r \in Signs /\ r \in Keys /\ text \in Seq(Signs)
  BY SignOf, Signed DEF Keys
<1>2. Reach(status, a, "value", O1)
  BY <1>1, ReachKey
<1>3. Reach(status, b, "first", O2)
  <2> HIDE DEF a
  <2> QED BY <1>2, ReachOpen DEF O2
<1>4. Reach(status, c, "first", O3)
  <2> HIDE DEF b
  <2> QED BY <1>3, ReachOpen DEF O3
<1>5. text \o <<r, z, z>> = c
  <2> HIDE DEF r, z
  <2> QED BY <1>1, SeqConcat
<1> HIDE DEF c
<1> QED BY <1>4, <1>5

LEMMA RecordsetOpened ==
    ASSUME NEW text, text = Opening \/ RecordSets("200", text)
    PROVE  Reach("200", OpenRecordset(text), "first", O3)
<1> DEFINE z == "["  d == ","
<1>0. z \in Signs /\ d \in Signs
  BY SignOf
<1>1. CASE text = Opening
  <2>1. Reach("200", text, "key", O1) /\ Last(text) = ","
    BY <1>1, OpeningReached
  <2>2. OpenRecordset(text) = text \o <<"recordset", "[", "[">>
    BY <2>1 DEF OpenRecordset
  <2> QED BY <2>1, <2>2, FirstRecordset
<1>2. CASE RecordSets("200", text)
  <2>1. Reach("200", Front(text), "comma", O2) /\ Last(text) = "]"
    BY <1>2 DEF RecordSets
  <2> DEFINE t == Front(text)
             a == Append(t, d)
             b == Append(a, z)
  <2>2. Reach("200", a, "value", O2)
    <3> HIDE DEF t
    <3> QED BY <2>1, OneOpen, ReachNext DEF O2, t
  <2>3. Reach("200", b, "first", O3)
    <3> HIDE DEF a
    <3> QED BY <2>2, ReachOpen DEF O3
  <2>4. OpenRecordset(text) = t \o <<d, z>>
    BY <2>1 DEF OpenRecordset
  <2>5. t \in Seq(Signs)
    BY <2>1, Signed
  <2>6. t \o <<d, z>> = b
    <3> HIDE DEF t, d, z
    <3> QED BY <1>0, <2>5, SeqConcat
  <2> QED BY <2>3, <2>4, <2>6
<1> QED BY <1>1, <1>2

\* The rows of a result whose every row can be written.
LEMMA RowsReached ==
    ASSUME NEW status, NEW text, Reach(status, text, "first", O3),
           NEW rows \in Seq(Seq(PlainCells)), rows # <<>>,
           \A i \in DOMAIN rows : rows[i] # <<>>
    PROVE  Reach(status, Front(FoldLeft(AddRow, text, rows)), "comma", O3)
<1> DEFINE V == {t \in Seq(Signs) : RowsSoFar(status, t)}
           X == {row \in Seq(PlainCells) : row # <<>>}
           n == Len(rows)
           all == FoldLeft(AddRow, text, rows)
<1>1. text \in V
  BY Signed DEF RowsSoFar
<1>2. \A t \in V, row \in X : /\ AddRow(t, row) \in V
                              /\ Reach(status, Front(AddRow(t, row)), "comma", O3)
  BY RowReached, Signed DEF RowsSoFar
<1>3. rows \in Seq(X)
  <2> DEFINE S == Seq(PlainCells)
  <2>1. rows \in Seq(S) /\ \A i \in DOMAIN rows : rows[i] \in X
    OBVIOUS
  <2> HIDE DEF X, S
  <2> QED BY <2>1, SeqWhere
<1>4. PICK k : RowsAlong(k, rows, V, text)
  <2> HIDE DEF V, X
  <2> QED BY <1>1, <1>2, <1>3, RowsRun
<1>5. n \in Nat /\ n > 0 /\ rows[n] \in X
  <2> HIDE DEF X
  <2>1. n \in Nat /\ n > 0
    BY <1>3, SeqFront
  <2> QED BY <1>3, <2>1
<1>6. k[n - 1] \in V /\ all = AddRow(k[n - 1], rows[n])
  <2> HIDE DEF V
  <2>1. k \in [0 .. n -> V] /\ k[n] = all /\ n - 1 \in 0 .. n /\ n \in 1 .. n
    BY <1>4, <1>5 DEF RowsAlong
  <2>2. k[n] = AddRow(k[n - 1], rows[n])
    BY <1>4, <2>1 DEF RowsAlong
  <2> QED BY <2>1, <2>2
<1> HIDE DEF all, V, X
<1> QED BY <1>2, <1>5, <1>6 DEF all

\* A result that is Plain becomes a record set, behind others or at the opening.
LEMMA RecordsetReached ==
    ASSUME NEW text, text = Opening \/ RecordSets("200", text), NEW r, IsResult(r), Plain(r)
    PROVE  RecordSets("200", AddRecordset(text, r))
<1> DEFINE y == "]"  z == "["  v == "value"
           open == OpenRecordset(text)
<1>0. z \in Signs /\ y \in Signs /\ v \in Signs /\ v \in Scalars
  BY SignOf, SignsAre
<1>1. Reach("200", open, "first", O3)
  BY RecordsetOpened
<1>2. PICK t : /\ Reach("200", t, "comma", O3) \/ Reach("200", t, "first", O3)
               /\ AddRecordset(text, r) = t \o <<y, y>>
  <2>1. CASE r.status = "command"
    BY <1>1, <2>1 DEF AddRecordset
  <2>2. CASE r.status = "tuples"
    <3>1. AddRecordset(text, r) = AddRows(open, r) \o <<y, y>>
      BY <2>2 DEF AddRecordset
    <3>2. CASE r.cols = 0
      <4> DEFINE a == Append(open, z)
                 b == Append(a, v)
                 c == Append(b, y)
      <4>1. Reach("200", a, "first", O4)
        BY <1>1, ReachOpen DEF O4
      <4>2. Reach("200", b, "comma", O4)
        <5> HIDE DEF a
        <5> QED BY <1>0, <4>1, OpensNest, ReachValue
      <4>3. Reach("200", c, "comma", O3)
        <5> HIDE DEF b
        <5> QED BY <4>2, OpensNest, ReachClose DEF O4
      <4>4. AddRows(open, r) = open \o <<z, v, y>>
        BY <3>2 DEF AddRows
      <4>5. open \in Seq(Signs)
        BY <1>1, Signed
      <4>6. open \o <<z, v, y>> = c
        <5> HIDE DEF z, v, y, open
        <5> QED BY <1>0, <4>5, SeqConcat
      <4> QED BY <3>1, <4>3, <4>4, <4>6
    <3>3. CASE r.cols # 0
      <4>1. r.cols \in Nat /\ r.cols > 0 /\ r.rows \in Seq(Seq(Cells))
            /\ \A i \in DOMAIN r.rows : Len(r.rows[i]) = r.cols
        BY <3>3 DEF IsResult
      <4>2. r.rows # <<>> /\ \A i \in DOMAIN r.rows : \A j \in DOMAIN r.rows[i] :
               r.rows[i][j].kind \in {"scalar", "list"}
        BY <2>2, <4>1 DEF Plain
      <4> DEFINE rows == r.rows
      <4>3. \A i \in DOMAIN rows : rows[i] \in Seq(PlainCells) /\ rows[i] # <<>>
        <5> TAKE i \in DOMAIN rows
        <5> DEFINE row == rows[i]
        <5>1. row \in Seq(Cells) /\ Len(row) > 0
              /\ \A j \in DOMAIN row : row[j].kind \in {"scalar", "list"}
          BY <4>1, <4>2
        <5> HIDE DEF row
        <5>2. \A j \in 1 .. Len(row) : row[j] \in PlainCells
          BY <5>1 DEF PlainCells
        <5>3. row \in Seq(PlainCells) /\ row # <<>>
          BY <5>1, <5>2
        <5> QED BY <5>3 DEF row
      <4>4. rows \in Seq(Seq(PlainCells))
        <5> DEFINE W == Seq(PlainCells)
        <5> HIDE DEF W
        <5>1. \A i \in DOMAIN rows : rows[i] \in W
          BY <4>3 DEF W
        <5> QED BY <4>1, <5>1 DEF W
      <4>5. AddRows(open, r) = Front(FoldLeft(AddRow, open, rows))
        BY <3>3 DEF AddRows
      <4> HIDE DEF rows
      <4>6. Reach("200", Front(FoldLeft(AddRow, open, rows)), "comma", O3)
        BY <1>1, <4>2, <4>3, <4>4, RowsReached DEF rows
      <4> QED BY <3>1, <4>5, <4>6
    <3> QED BY <3>2, <3>3
  <2> QED BY <2>1, <2>2 DEF IsResult
<1> DEFINE a == Append(t, y)
           b == Append(a, y)
<1>3. Reach("200", a, "comma", O2)
  BY <1>2, OpensNest, ReachClose DEF O3
<1>4. Reach("200", b, "comma", O1)
  <2> HIDE DEF a
  <2> QED BY <1>3, OneOpen, ReachClose DEF O2
<1>5. t \o <<y, y>> = b
  <2> HIDE DEF y
  <2>1. t \in Seq(Signs)
    BY <1>2, Signed
  <2> QED BY <1>0, <2>1, SeqConcat
<1>6. Front(b) = a /\ Last(b) = y
  <2> HIDE DEF a, y
  <2> QED BY <1>0, <1>3, Signed
<1> HIDE DEF a, b
<1> QED BY <1>2, <1>3, <1>4, <1>5, <1>6 DEF RecordSets

-----------------------------------------------------------------------------
(* What hello_world and SE_make_token add.                                 *)

LEMMA PairType ==
    ASSUME NEW key \in Keys, NEW x \in Signs
    PROVE  Pair(key, x) \in Seq(Signs)
<1> DEFINE d == ","
<1>1. key \in Signs /\ d \in Signs
  BY SignOf
<1>2. <<key, x, d>> \in Seq(Signs)
  <2> HIDE DEF d
  <2> QED BY <1>1, SeqOfThree
<1> QED BY <1>2 DEF Pair

\* Its pairs go behind the text one by one.
LEMMA HelloJoins ==
    ASSUME NEW s \in Seq(Signs), NEW msg \in {"value", "raw"}
    PROVE  /\ Hello(msg) \in Seq(Signs)
           /\ s \o Hello(msg) = (((s \o Pair("pid", "value")) \o Pair("serdbid", "value"))
                                   \o Pair("connid", "value")) \o Pair("msg", msg)
<1> DEFINE p == Pair("pid", "value")  q == Pair("serdbid", "value")  r == Pair("connid", "value")
           m == Pair("msg", msg)
           pq == p \o q
           pqr == pq \o r
<1>1. p \in Seq(Signs) /\ q \in Seq(Signs) /\ r \in Seq(Signs) /\ m \in Seq(Signs)
  BY SignOf, PairType DEF Keys
<1>2. Hello(msg) = pqr \o m
  BY DEF Hello
<1> HIDE DEF p, q, r, m
<1>3. pq \in Seq(Signs) /\ s \o pq = (s \o p) \o q
  BY <1>1, Joins
<1> HIDE DEF pq
<1>4. pqr \in Seq(Signs) /\ s \o pqr = (s \o pq) \o r
  <2>1. pq \in Seq(Signs) /\ r \in Seq(Signs)
    BY <1>1, <1>3
  <2> QED BY <2>1, Joins DEF pqr
<1> HIDE DEF pqr
<1>5. pqr \o m \in Seq(Signs) /\ s \o (pqr \o m) = (s \o pqr) \o m
  <2>1. pqr \in Seq(Signs) /\ m \in Seq(Signs)
    BY <1>1, <1>4
  <2> QED BY <2>1, Joins
<1> QED BY <1>2, <1>3, <1>4, <1>5 DEF p, q, r, m

\* A pair leads from one key to the next.
LEMMA PairReached ==
    ASSUME NEW status, NEW text, Reach(status, text, "key", O1), NEW key \in Keys
    PROVE  /\ Reach(status, text \o Pair(key, "value"), "key", O1)
           /\ Last(text \o Pair(key, "value")) = ","
<1> DEFINE v == "value"  d == ","
           a == Append(text, key)
           b == Append(a, v)
           c == Append(b, d)
<1>1. Reach(status, a, "value", O1)
  BY ReachKey
<1>2. Reach(status, b, "comma", O1)
  <2> HIDE DEF a
  <2> QED BY <1>1, OneOpen, ReachValue, SignsAre
<1>3. Reach(status, c, "key", O1)
  <2> HIDE DEF b
  <2> QED BY <1>2, ReachMember
<1>4. Last(c) = d
  <2>1. d \in Signs
    BY SignOf
  <2> HIDE DEF b, d
  <2> QED BY <1>2, <2>1, Signed
<1>5. text \o <<key, v, d>> = c
  <2>1. key \in Signs /\ v \in Signs /\ d \in Signs /\ text \in Seq(Signs)
    BY SignOf, Signed
  <2> HIDE DEF v, d
  <2> QED BY <2>1, SeqConcat
<1> HIDE DEF c
<1> QED BY <1>3, <1>4, <1>5 DEF Pair

\* The greeting of a plain name can be closed.
LEMMA HelloReached == Closable("200", Opening \o Hello("value"))
<1> DEFINE v == "value"
           p == Pair("pid", v)  q == Pair("serdbid", v)  r == Pair("connid", v)  m == Pair("msg", v)
           t1 == Opening \o p
           t2 == t1 \o q
           t3 == t2 \o r
           t4 == t3 \o m
<1>1. Reach("200", Opening, "key", O1)
  BY OpeningReached
<1>2. "pid" \in Keys /\ "serdbid" \in Keys /\ "connid" \in Keys /\ "msg" \in Keys
  BY DEF Keys
<1>3. Reach("200", t1, "key", O1)
  BY <1>1, <1>2, PairReached
<1>4. Reach("200", t2, "key", O1)
  <2> HIDE DEF t1
  <2> QED BY <1>2, <1>3, PairReached
<1>5. Reach("200", t3, "key", O1)
  <2> HIDE DEF t2
  <2> QED BY <1>2, <1>4, PairReached
<1>6. Reach("200", t4, "key", O1) /\ Last(t4) = ","
  <2> HIDE DEF t3
  <2> QED BY <1>2, <1>5, PairReached
<1>7. Opening \o Hello(v) = t4
  <2>1. Opening \in Seq(Signs)
    BY <1>1, Signed
  <2> QED BY <2>1, HelloJoins
<1> HIDE DEF t4
<1> QED BY <1>6, <1>7 DEF Closable

\* So can a token behind record sets.
LEMMA TokenReached ==
    ASSUME NEW status, NEW text, RecordSets(status, text)
    PROVE  Closable(status, text \o Token)
<1> DEFINE d == ","  t == "token"  v == "value"
<1>1. Reach(status, text, "comma", O1)
  BY DEF RecordSets
<1>2. Closable(status, Plus(text, d, t, v))
  BY <1>1, MemberReached DEF Keys
<1>3. text \o Token = Plus(text, d, t, v)
  <2>1. d \in Signs /\ t \in Signs /\ v \in Signs /\ text \in Seq(Signs)
    BY <1>1, SignOf, Signed DEF Keys
  <2>2. Token = <<d, t, v>>
    BY DEF Token
  <2> HIDE DEF d, t, v
  <2> QED BY <2>1, <2>2, SeqConcat DEF Plus
<1> QED BY <1>2, <1>3

\* Record sets that can be read may be followed by the end.
LEMMA RecordSetsClosable ==
    ASSUME NEW status, NEW text, RecordSets(status, text)
    PROVE  Closable(status, text)
BY DEF RecordSets, Closable

-----------------------------------------------------------------------------
(* A text is a text, whatever the rows hold.                               *)

Texts == {text \in Seq(Signs) : text # <<>>}

\* Text behind text is text.
LEMMA TextMore ==
    ASSUME NEW s \in Seq(Signs), NEW t \in Seq(Signs), s # <<>> \/ t # <<>>
    PROVE  s \o t \in Texts
<1>1. s \o t \in Seq(Signs) /\ (s \o t = <<>> => s = <<>> /\ t = <<>>)
  BY ConcatEqualIffEmpty, ConcatProperties
<1> QED BY <1>1 DEF Texts

LEMMA TextsAre ==
    /\ \A s \in Texts : Front(s) \in Seq(Signs)
    /\ \A why \in {"value", "lines"} : Error(why) \in Texts
    /\ Message \in Texts /\ Redirect \in Texts /\ Opening \in Texts
    /\ \A msg \in {"value", "raw"} : Hello(msg) \in Seq(Signs)
    /\ Token \in Seq(Signs)
<1>1. \A s \in Texts : Front(s) \in Seq(Signs)
  BY SeqFront DEF Texts
<1>2. \A why \in {"value", "lines"} : Error(why) \in Texts
  BY RepliesReached, Signed DEF Closable, Texts
<1>3. Message \in Texts /\ Redirect \in Texts /\ Opening \in Texts
  BY RepliesReached, OpeningReached, Signed DEF Closable, Texts
<1>4. \A msg \in {"value", "raw"} : Hello(msg) \in Seq(Signs)
  BY <1>3, HelloJoins DEF Texts
<1>5. Token \in Seq(Signs)
  BY DEF Token, Signs, Scalars, Statuses, Keys
<1> QED BY <1>1, <1>2, <1>3, <1>4, <1>5

LEMMA SmallTexts ==
    /\ <<"[">> \in Texts /\ <<",", "[">> \in Texts /\ <<"]">> \in Texts /\ <<"]", ",">> \in Texts
    /\ <<"[", "value", "]">> \in Texts /\ <<"recordset", "[", "[">> \in Texts
    /\ <<"]", "]">> \in Texts
    /\ <<>> \in Seq(Signs) /\ <<",">> \in Texts /\ <<"elapsed", "value", "}">> \in Texts
BY DEF Texts, Signs, Scalars, Statuses, Keys

\* Whatever the cells, the rows and the results are.
LEMMA CellKeepsText ==
    ASSUME NEW text \in Texts, NEW cell \in Cells
    PROVE  NextCell(text, cell) \in Texts
<1> DEFINE d == ","
<1>1. \A x \in Signs : Append(text, x) \in Seq(Signs)
  BY DEF Texts
<1>2. AddCell(text, cell) \in Seq(Signs)
  <2>1. CASE cell.kind \in {"scalar", "raw"}
    BY <1>1, <2>1, SignOf DEF AddCell
  <2>2. CASE cell.kind = "list"
    <3> DEFINE open == IF Last(text) = "]" THEN <<",", "[">> ELSE <<"[">>
               list == ListText(cell.size)
               shut == <<"]">>
    <3>1. AddCell(text, cell) = ((text \o open) \o list) \o shut
      BY <2>2 DEF AddCell
    <3>2. open \in Texts /\ shut \in Texts
      BY SmallTexts
    <3>3. list \in Seq(Signs)
      <4>1. cell.size \in Nat \ {0}
        BY <2>2 DEF Cells
      <4> QED BY <4>1, ListTextIs, AlternatingIs
    <3> HIDE DEF open, list, shut
    <3>4. text \o open \in Texts
      BY <3>2, TextMore DEF Texts
    <3> DEFINE a == text \o open
    <3> HIDE DEF a
    <3>5. a \o list \in Texts
      BY <3>3, <3>4, TextMore DEF Texts, a
    <3> DEFINE b == a \o list
    <3> HIDE DEF b
    <3>6. b \o shut \in Texts
      BY <3>2, <3>5, TextMore DEF Texts, b
    <3> QED BY <3>1, <3>6 DEF a, b, Texts
  <2>3. CASE cell.kind \notin {"scalar", "raw", "list"}
    <3>1. AddCell(text, cell) = Error("value")
      BY <2>3 DEF AddCell
    <3> QED BY <3>1, TextsAre DEF Texts
  <2> QED BY <2>1, <2>2, <2>3
<1> DEFINE t == AddCell(text, cell)
<1>3. d \in Signs
  BY SignOf
<1> HIDE DEF t, d
<1>4. Append(t, d) \in Seq(Signs) /\ Append(t, d) # <<>>
  BY <1>2, <1>3, SeqAppend DEF t
<1> QED BY <1>4 DEF Texts, NextCell, t, d

LEMMA RowKeepsText ==
    ASSUME NEW text \in Texts, NEW row \in Seq(Cells)
    PROVE  AddRow(text, row) \in Texts
<1> DEFINE z == "["
           base == Append(text, z)
           cells == FoldLeft(NextCell, base, row)
           end == <<"]", ",">>
<1>1. base \in Texts
  <2>1. z \in Signs
    BY SignOf
  <2> HIDE DEF z
  <2> QED BY <2>1, SeqAppend DEF Texts
<1> HIDE DEF base
<1>2. PICK k : CellsAlong(k, row, Texts, base)
  BY <1>1, CellKeepsText, CellsRun
<1>3. cells \in Texts
  <2> DEFINE n == Len(row)
  <2>1. n \in Nat
    OBVIOUS
  <2> HIDE DEF n
  <2>2. k \in [0 .. n -> Texts] /\ k[n] = cells
    BY <1>2 DEF CellsAlong, n
  <2> QED BY <2>1, <2>2
<1> HIDE DEF cells
<1>4. Front(cells) \in Seq(Signs) /\ end \in Texts
  BY <1>3, TextsAre, SmallTexts
<1>5. AddRow(text, row) = Front(cells) \o end
  BY DEF AddRow, cells, base
<1> HIDE DEF end
<1> DEFINE f == Front(cells)
<1> HIDE DEF f
<1>6. f \o end \in Texts
  BY <1>4, TextMore DEF Texts, f
<1> QED BY <1>5, <1>6 DEF f

LEMMA OpenKeepsText ==
    ASSUME NEW text \in Texts
    PROVE  OpenRecordset(text) \in Texts
<1> DEFINE f == Front(text)
           a == <<",", "[">>
           b == <<"recordset", "[", "[">>
<1>1. f \in Seq(Signs) /\ text \in Seq(Signs) /\ a \in Texts /\ b \in Texts
  BY TextsAre, SmallTexts DEF Texts
<1>2. OpenRecordset(text) \in {f \o a, text \o b}
  BY DEF OpenRecordset
<1> HIDE DEF f, a, b
<1>3. f \o a \in Texts
  BY <1>1, TextMore DEF Texts
<1>4. text \o b \in Texts
  BY <1>1, TextMore DEF Texts
<1> QED BY <1>2, <1>3, <1>4

LEMMA RowsKeepText ==
    ASSUME NEW text \in Texts, NEW r, IsResult(r)
    PROVE  AddRows(text, r) \in Seq(Signs)
<1> DEFINE rows == r.rows
           all == FoldLeft(AddRow, text, rows)
           null == <<"[", "value", "]">>
           X == Seq(Cells)
<1>1. rows \in Seq(X)
  BY DEF IsResult
<1>2. all \in Texts
  <2> HIDE DEF rows
  <2>1. \A t \in Texts, row \in X : AddRow(t, row) \in Texts
    BY RowKeepsText
  <2> HIDE DEF X
  <2>2. PICK k : RowsAlong(k, rows, Texts, text)
    BY <1>1, <2>1, RowsRun
  <2> DEFINE n == Len(rows)
  <2>3. n \in Nat
    BY <1>1
  <2> HIDE DEF n
  <2>4. k \in [0 .. n -> Texts] /\ k[n] = all
    BY <2>2 DEF RowsAlong, n
  <2> QED BY <2>3, <2>4
<1>3. null \in Texts
  BY SmallTexts
<1>4. AddRows(text, r) \in {text \o null, Front(all)}
  BY DEF AddRows
<1> HIDE DEF null, all
<1>5. text \o null \in Texts
  BY <1>3, TextMore DEF Texts
<1> QED BY <1>2, <1>4, <1>5, TextsAre DEF Texts

\* A record set more, whatever the text and the result were.
LEMMA RecordsetKeepsText ==
    ASSUME NEW text \in Texts, NEW r, IsResult(r)
    PROVE  AddRecordset(text, r) \in Texts
<1> DEFINE open == OpenRecordset(text)
           rows == AddRows(open, r)
           end == <<"]", "]">>
<1>1. open \in Texts
  BY OpenKeepsText
<1>2. rows \in Seq(Signs)
  <2> HIDE DEF open
  <2> QED BY <1>1, RowsKeepText
<1>3. end \in Texts /\ open \in Seq(Signs)
  BY <1>1, SmallTexts DEF Texts
<1>4. AddRecordset(text, r) \in {open \o end, rows \o end}
  BY DEF AddRecordset, IsResult
<1> HIDE DEF open, rows, end
<1>5. open \o end \in Texts
  BY <1>3, TextMore DEF Texts
<1>6. rows \o end \in Texts
  BY <1>2, <1>3, TextMore DEF Texts
<1> QED BY <1>4, <1>5, <1>6

\* The end of an answer.
LEMMA ClosedKeepsText ==
    ASSUME NEW text \in Texts
    PROVE  Closed(text) \in Texts
<1> DEFINE comma == IF Last(text) = "," THEN <<>> ELSE <<",">>
           end == <<"elapsed", "value", "}">>
           a == text \o comma
<1>1. comma \in Seq(Signs) /\ end \in Texts
  BY SmallTexts DEF Texts
<1>2. Closed(text) = a \o end
  BY DEF Closed
<1> HIDE DEF comma, end
<1>3. a \in Texts
  BY <1>1, TextMore DEF Texts
<1> HIDE DEF a
<1>4. a \o end \in Texts
  BY <1>1, <1>3, TextMore DEF Texts
<1> QED BY <1>2, <1>4
=============================================================================
