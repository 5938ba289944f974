------------------------ MODULE StringBuilderProofs ------------------------
(***************************************************************************)
(* Proofs about StringBuilder for any MaxAllocSize, any size of integer    *)
(* twice as large, and texts of any length up to it: nothing is written    *)
(* past the buffer and no size overflows.                                  *)
(***************************************************************************)
EXTENDS StringBuilder, TLAPS

LEMMA InitBuilderInv == Init => BuilderInv
<1> SUFFICES ASSUME Init PROVE BuilderInv
  OBVIOUS
<1>1. maxlen \in MinLen .. MaxAlloc
  <2>1. PICK mem_size \in 0 .. MaxAlloc + 1 :
          maxlen = IF mem_size < MinLen \/ mem_size > MaxAlloc THEN MinLen ELSE mem_size
    BY DEF Init
  <2>2. QED BY <2>1, StringBuilderAssumption
<1>2. /\ len = 0 /\ touched = 1 /\ call = NoCall /\ pc = "idle"
      /\ needed = 0 /\ newlen = 0 /\ nomem = FALSE
  BY DEF Init
<1>3. TypeOK /\ InBounds /\ NoOverflow
  <2>1. InBounds /\ NoOverflow
    BY <1>1, <1>2, StringBuilderAssumption DEF InBounds, NoOverflow
  <2>2. TypeOK
    BY <1>1, <1>2 DEF TypeOK, Places
  <2>3. QED BY <2>1, <2>2
<1>4. RoomInv /\ LargeInv /\ DiesOnlyWhenLarge
  BY <1>2 DEF RoomInv, LargeInv, DiesOnlyWhenLarge
<1>5. QED BY <1>3, <1>4 DEF BuilderInv

\* What a function asks for is between the length of its text and twice that.
LEMMA RoomFacts ==
    ASSUME NEW name, NEW size \in 0 .. MaxText
    PROVE  /\ Room(name, size) \in Nat /\ size <= Room(name, size)
           /\ Room(name, size) <= 2 * MaxAlloc /\ (size > 0 => Room(name, size) >= 1)
           /\ Room(name, size) <= 2 * size
BY StringBuilderAssumption DEF Room

LEMMA CallFacts == TypeOK => call.size \in 0 .. MaxText
BY StringBuilderAssumption DEF TypeOK, NoCall

\* A function is called.
LEMMA AppendKeeps ==
    ASSUME BuilderInv, NEW name \in Functions, NEW size \in 0 .. MaxText, Append(name, size)
    PROVE  BuilderInv'
<1> USE StringBuilderAssumption DEF BuilderInv, TypeOK
<1>1. /\ pc = "idle" /\ UNCHANGED <<len, maxlen, newlen, touched, nomem>>
      /\ call' = [name |-> name, size |-> size] /\ needed' = Room(name, size)
      /\ name \in {"char", "charNT"} => size = 1
      /\ \/ pc' = "write" /\ name \in {"char", "charNT"} /\ len + 1 < maxlen
         \/ pc' = "format" /\ name = "format"
         \/ pc' = "enlarge" /\ name # "format"
  BY DEF Append
<1>2. TypeOK' /\ InBounds' /\ NoOverflow'
  BY <1>1, RoomFacts DEF InBounds, NoOverflow, Places
<1>3. RoomInv'
  <2>1. name \in {"char", "charNT"} => Room(name, size) = 1
    BY <1>1 DEF Room
  <2>2. QED BY <1>1, <2>1, RoomFacts DEF RoomInv, InBounds
<1>4. LargeInv' /\ DiesOnlyWhenLarge'
  <2>1. needed' <= 2 * size /\ needed' \in Nat /\ (size > 0 => needed' >= 1)
    BY <1>1, RoomFacts
  <2>2. QED BY <1>1, <2>1 DEF LargeInv, DiesOnlyWhenLarge
<1>5. QED BY <1>2, <1>3, <1>4

\* The steps of appendStringBuilder.
LEMMA FormatKeeps ==
    ASSUME BuilderInv, Fits \/ AsksForMore \/ FormatTooLong \/ FormatFails
    PROVE  BuilderInv'
<1> USE StringBuilderAssumption DEF BuilderInv, TypeOK, InBounds, NoOverflow, RoomInv,
                                    LargeInv, DiesOnlyWhenLarge, Places, Avail
<1>1. CASE Fits
  BY <1>1 DEF Fits, Returned, NoCall, Functions
<1>2. CASE AsksForMore
  <2>1. /\ pc = "format" /\ pc' = "enlarge"
        /\ UNCHANGED <<len, maxlen, call, newlen, touched, nomem>>
        /\ call.name = "format" /\ call.size \in 0 .. MaxText
    BY <1>2, CallFacts DEF AsksForMore
  <2>2. /\ needed' \in Nat /\ needed' <= 2 * MaxAlloc
        /\ call.size > 0 =>
             /\ needed' >= 1
             /\ needed' >= MaxAlloc - len => 2 * (len + call.size + 2) >= MaxAlloc
    BY <1>2, <2>1 DEF AsksForMore, Known, Doubled
  <2>3. QED BY <2>1, <2>2
<1>3. CASE FormatTooLong
  BY <1>3, CallFacts DEF FormatTooLong, Known, askVars
<1>4. CASE FormatFails
  <2>1. CASE pc' = "dead" /\ UNCHANGED needed
    BY <1>4, <2>1 DEF FormatFails
  <2>2. CASE /\ pc' = (IF Avail >= MaxAlloc THEN "dead" ELSE "enlarge")
             /\ needed' = Doubled
    BY <1>4, <2>2 DEF FormatFails, Doubled
  <2>3. QED BY <1>4, <2>1, <2>2 DEF FormatFails
<1>5. QED BY <1>1, <1>2, <1>3, <1>4

\* The steps of enlargeStringBuilder.
LEMMA EnlargeKeeps ==
    ASSUME BuilderInv, NoRoom \/ HasRoom \/ Grow \/ Double \/ Realloc
    PROVE  BuilderInv'
<1> USE StringBuilderAssumption DEF BuilderInv, TypeOK, InBounds, NoOverflow, RoomInv,
                                    LargeInv, DiesOnlyWhenLarge, Places
<1>1. Room(call.name, call.size) \in Nat
  BY RoomFacts DEF Room, NoCall
<1>2. CASE NoRoom
  BY <1>2 DEF NoRoom, Refuses, askVars
<1>3. CASE HasRoom
  BY <1>1, <1>3 DEF HasRoom, Refuses, Size, Return
<1>4. CASE Grow
  BY <1>1, <1>4 DEF Grow, Refuses, Size
<1>5. CASE Double
  BY <1>1, <1>5 DEF Double
<1>6. CASE Realloc
  <2>1. CASE pc' = "dead"
    BY <1>6, <2>1 DEF Realloc, Return, askVars
  <2>2. CASE maxlen' = (IF newlen > MaxAlloc THEN MaxAlloc ELSE newlen) /\ pc' = Return
    <3>1. maxlen' \in Nat /\ needed <= maxlen' /\ maxlen < maxlen' /\ maxlen' <= MaxAlloc
      BY <1>6, <2>2 DEF Realloc
    <3>2. UNCHANGED <<len, call, needed, newlen, touched, nomem>> /\ pc = "double"
      BY <1>6, <2>2 DEF Realloc, askVars, Return
    <3>3. QED BY <1>1, <2>2, <3>1, <3>2 DEF Return
  <2>3. QED BY <1>6, <2>1, <2>2 DEF Realloc
<1>7. QED BY <1>2, <1>3, <1>4, <1>5, <1>6

\* The text is written into the room that was made for it.
LEMMA WriteKeeps ==
    ASSUME BuilderInv, Write
    PROVE  BuilderInv'
<1> USE StringBuilderAssumption DEF BuilderInv, TypeOK
<1>1. PICK written \in call.size .. Room(call.name, call.size) : len' = len + written
  BY DEF Write
<1>2. /\ written \in Nat /\ len + written < maxlen
  BY <1>1, RoomFacts DEF Write, RoomInv, NoCall, Room
<1>3. /\ len' = len + written /\ pc' = "idle" /\ call' = NoCall /\ UNCHANGED <<maxlen, nomem>>
      /\ needed' = 0 /\ newlen' = 0 /\ touched' \in {len', len' + 1}
  BY <1>1 DEF Write, Returned
<1>4. QED BY <1>2, <1>3 DEF InBounds, NoOverflow, RoomInv, LargeInv, DiesOnlyWhenLarge, Places

LEMMA StepKeeps == BuilderInv /\ [Next]_vars => BuilderInv'
<1> SUFFICES ASSUME BuilderInv, [Next]_vars PROVE BuilderInv'
  OBVIOUS
<1>1. CASE UNCHANGED vars
  BY <1>1 DEF vars, askVars, BuilderInv, TypeOK, InBounds, NoOverflow, RoomInv, LargeInv,
              DiesOnlyWhenLarge
<1>2. CASE Reset \/ Shorten
  BY <1>2, StringBuilderAssumption
     DEF Reset, Shorten, askVars, BuilderInv, TypeOK, InBounds, NoOverflow, RoomInv,
         LargeInv, DiesOnlyWhenLarge
<1>3. QED BY <1>1, <1>2, AppendKeeps, FormatKeeps, EnlargeKeeps, WriteKeeps DEF Next, Runs

-----------------------------------------------------------------------------
(* The theorems. *)

THEOREM BuilderInductive == Spec => []BuilderInv
BY InitBuilderInv, StepKeeps, PTL DEF Spec

\* Every variable keeps its shape, and the buffer never exceeds MaxAllocSize.
THEOREM BuilderTypeCorrect == Spec => []TypeOK
BY BuilderInductive, PTL DEF BuilderInv

\* No append, formatted or not, writes past the buffer.
THEOREM BuilderInBounds == Spec => []InBounds
BY BuilderInductive, PTL DEF BuilderInv

\* No size computed on the way overflows an int32_t.
THEOREM BuilderNoOverflow == Spec => []NoOverflow
BY BuilderInductive, PTL DEF BuilderInv

\* What the code does guarantee about its end, which is less than ExitsOnlyPastMaxAlloc:
\* the process is not ended by a text, other than the empty one, that is below about
\* half of the limit.
THEOREM BuilderDiesOnlyWhenLarge == Spec => []DiesOnlyWhenLarge
BY BuilderInductive, PTL DEF BuilderInv
=============================================================================
