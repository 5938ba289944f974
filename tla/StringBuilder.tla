--------------------------- MODULE StringBuilder ---------------------------
(***************************************************************************)
(* The growing buffer of pg/stringbuilder.c, in which all texts of a       *)
(* worker are built. A call asks for room (enlargeStringBuilder, step by   *)
(* step in int32_t arithmetic) and writes what it has to append; a         *)
(* formatted text is tried until it fits. There is no error result: when   *)
(* there is no room the process ends.                                      *)
(***************************************************************************)
EXTENDS Integers

CONSTANTS MaxAlloc,   \* MaxAllocSize, 2^30 - 1
          IntMax,     \* the largest int32_t
          MinLen,     \* the smallest buffer, 1024
          Least,      \* a formatted text is not tried in less, 16,
          More,       \* but asks for this much, 32
          MaxText     \* the longest text (a value of PostgreSQL: 2^30 - 1)

ASSUME StringBuilderAssumption ==
    /\ MaxAlloc \in Nat /\ IntMax \in Nat /\ MinLen \in Nat \ {0} /\ MaxText \in Nat
    /\ Least \in Nat \ {0} /\ More \in Nat
    /\ 2 * MaxAlloc < IntMax /\ MinLen <= MaxAlloc
    /\ Least <= More /\ 2 * More <= MaxAlloc /\ MaxText <= MaxAlloc

VARIABLES len,       \* str->len
          maxlen,    \* str->maxlen, the size of str->data
          call,      \* the function called, and the length of its text
          pc,        \* where it is
          needed,    \* what it asks for; inside enlargeStringBuilder, the size needed
          newlen,    \* newlen of enlargeStringBuilder
          touched,   \* history: bytes of data up to the last one written
          nomem      \* history: there was no memory (realloc, or vsnprintf)

askVars == <<call, needed, newlen>>
vars == <<len, maxlen, askVars, pc, touched, nomem>>

Functions == {"binary", "binaryNT", "char", "charNT", "spaces", "json", "format"}
Places    == {"idle", "enlarge", "double", "write", "format", "dead"}
NoCall    == [name |-> "none", size |-> 0]

\* A function returns: its variables are gone.
Returned == pc' = "idle" /\ call' = NoCall /\ needed' = 0 /\ newlen' = 0

-----------------------------------------------------------------------------
\* makeStringBuilder.
Init ==
    /\ len = 0 /\ touched = 1
    /\ \E mem_size \in 0 .. MaxAlloc + 1 :
          maxlen = IF mem_size < MinLen \/ mem_size > MaxAlloc THEN MinLen ELSE mem_size
    /\ call = NoCall /\ pc = "idle"
    /\ needed = 0 /\ newlen = 0 /\ nomem = FALSE

\* What the functions ask enlargeStringBuilder for: a quote becomes two characters
\* in appendBinaryStringBuilderJsonStr.
Room(name, size) == IF name = "json" THEN 2 * size ELSE size

\* A function is called. The two for one character ask only when it does not fit,
\* with its NUL. (No spaces, and no JSON text, change nothing: no such call here.)
Append(name, size) ==
    /\ pc = "idle"
    /\ name \in {"char", "charNT"} => size = 1
    /\ name \in {"spaces", "json"} => size > 0
    /\ call' = [name |-> name, size |-> size]
    /\ needed' = Room(name, size)
    /\ pc' = IF name = "format" THEN "format"
             ELSE IF name \in {"char", "charNT"} /\ len + 1 < maxlen THEN "write"
             ELSE "enlarge"
    /\ UNCHANGED <<len, maxlen, newlen, touched, nomem>>

\* resetStringBuilder
Reset ==
    /\ pc = "idle"
    /\ len' = 0 /\ touched' = 1
    /\ UNCHANGED <<maxlen, askVars, pc, nomem>>

\* SE_reader takes a last comma away, always one it has just written.
Shorten ==
    /\ pc = "idle" /\ len > 0
    /\ len' = len - 1
    /\ UNCHANGED <<maxlen, askVars, pc, touched, nomem>>

-----------------------------------------------------------------------------
(* appendStringBuilder: appendStringBuilderVA and pvsnprintf               *)

Avail == maxlen - len

\* pvsnprintf writes to the last byte it may, whatever the length of the text.
Fits ==
    /\ pc = "format" /\ Avail >= Least /\ call.size < Avail - 1
    /\ len' = len + call.size /\ touched' = maxlen
    /\ Returned
    /\ UNCHANGED <<maxlen, nomem>>

\* The length is known and can be asked for: vsnprintf tells it, except when the
\* text misses by one or two.
Known == call.size > Avail /\ call.size <= MaxAlloc - 2

\* Otherwise twice as much, up to MaxAllocSize.
Doubled == IF Avail >= MaxAlloc \div 2 THEN MaxAlloc ELSE 2 * Avail

MissingOne ==   \* mutant: the room it asks for is what it already has
    /\ pc = "format"
    /\ \/ Avail < Least /\ needed' = More
       \/ Avail >= Least /\ call.size >= Avail - 1 /\ needed' = Avail - 1
    /\ pc' = "enlarge"
    /\ UNCHANGED <<len, maxlen, call, newlen, touched, nomem>>

\* It does not fit: how much more is asked for.
AsksForMore ==
    /\ pc = "format"
    /\ \/ Avail < Least /\ needed' = More
       \/ Avail >= Least /\ Known /\ needed' = call.size + 2
       \/ /\ Avail >= Least /\ call.size >= Avail - 1 /\ ~Known /\ Avail < MaxAlloc
          /\ needed' = Doubled
    /\ pc' = "enlarge"
    /\ UNCHANGED <<len, maxlen, call, newlen, touched, nomem>>

\* The whole of MaxAllocSize was tried.
FormatTooLong ==
    /\ pc = "format" /\ Avail >= MaxAlloc /\ call.size >= Avail - 1 /\ ~Known
    /\ pc' = "dead"
    /\ UNCHANGED <<len, maxlen, askVars, touched, nomem>>

\* vsnprintf has no memory, which looks like a text whose length is not known, or
\* fails for another reason.
FormatFails ==
    /\ pc = "format" /\ Avail >= Least
    /\ nomem' = TRUE
    /\ \/ pc' = "dead" /\ UNCHANGED needed
       \/ /\ pc' = (IF Avail >= MaxAlloc THEN "dead" ELSE "enlarge")
          /\ needed' = Doubled
    /\ UNCHANGED <<len, maxlen, call, newlen, touched>>

-----------------------------------------------------------------------------
(* enlargeStringBuilder                                                    *)

Return == IF call.name = "format" THEN "format" ELSE "write"

RefusesNothingLarge(n) == n < 1   \* mutant: the limit is left to the cap of newlen

Refuses(n) == n < 1 \/ n >= MaxAlloc - len

\* An empty text is refused like one that is too long.
NoRoom ==
    /\ pc = "enlarge" /\ Refuses(needed)
    /\ pc' = "dead"
    /\ UNCHANGED <<len, maxlen, askVars, touched, nomem>>

SizeOfText == needed + len   \* mutant: the NUL is forgotten

Size == needed + len + 1

HasRoom ==
    /\ pc = "enlarge" /\ ~Refuses(needed) /\ Size <= maxlen
    /\ needed' = Size /\ pc' = Return
    /\ UNCHANGED <<len, maxlen, call, newlen, touched, nomem>>

Grow ==
    /\ pc = "enlarge" /\ ~Refuses(needed) /\ Size > maxlen
    /\ needed' = Size /\ newlen' = 2 * maxlen /\ pc' = "double"
    /\ UNCHANGED <<len, maxlen, call, touched, nomem>>

Double ==
    /\ pc = "double" /\ needed > newlen
    /\ newlen' = 2 * newlen
    /\ UNCHANGED <<len, maxlen, call, pc, needed, touched, nomem>>

ReallocUncapped ==   \* mutant: newlen is not cut down to MaxAllocSize
    /\ pc = "double" /\ needed <= newlen
    /\ \/ maxlen' = newlen /\ pc' = Return /\ UNCHANGED nomem
       \/ nomem' = TRUE /\ pc' = "dead" /\ UNCHANGED maxlen
    /\ UNCHANGED <<len, askVars, touched>>

Realloc ==
    /\ pc = "double" /\ needed <= newlen
    /\ \/ /\ maxlen' = (IF newlen > MaxAlloc THEN MaxAlloc ELSE newlen)
          /\ pc' = Return /\ UNCHANGED nomem
       \/ nomem' = TRUE /\ pc' = "dead" /\ UNCHANGED maxlen
    /\ UNCHANGED <<len, askVars, touched>>

\* The text is copied, a JSON text with a backslash for every quote, and all but
\* the NT functions and the one for JSON end it with a NUL.
Write ==
    /\ pc = "write"
    /\ \E written \in call.size .. Room(call.name, call.size) : len' = len + written
    /\ touched' = len' + (IF call.name \in {"binaryNT", "charNT", "json"} THEN 0 ELSE 1)
    /\ Returned
    /\ UNCHANGED <<maxlen, nomem>>

Runs == \/ Fits \/ AsksForMore \/ FormatTooLong \/ FormatFails
        \/ NoRoom \/ HasRoom \/ Grow \/ Double \/ Realloc \/ Write

Next == \/ Runs \/ Reset \/ Shorten
        \/ \E name \in Functions, size \in 0 .. MaxText : Append(name, size)

Spec == Init /\ [][Next]_vars

\* A call that was made goes on; nobody has to make one.
FairSpec == Spec /\ WF_vars(Runs)

-----------------------------------------------------------------------------
(* Properties. *)

\* Every variable keeps its shape; len counts bytes of data.
TypeOK ==
    /\ len \in Nat /\ maxlen \in MinLen .. MaxAlloc /\ touched \in Nat
    /\ call \in [name : Functions, size : 0 .. MaxText] \cup {NoCall}
    /\ pc \in Places /\ needed \in Nat /\ newlen \in Nat /\ nomem \in BOOLEAN

\* No function writes past the buffer, its NUL included, and there is always room
\* left for a NUL, so that the next function may write one at data[len].
InBounds == len < maxlen /\ touched <= maxlen

\* No computation of a size overflows an int32_t: neither what is asked for, nor the
\* size needed, nor any of the doublings.
NoOverflow == needed <= IntMax /\ newlen <= IntMax

\* The process ends only for lack of memory, or when the string the call would make,
\* with its NUL, is larger than MaxAllocSize (pg/stringbuilder.h:7-8).
ExitsOnlyPastMaxAlloc == pc = "dead" /\ ~nomem => len + call.size + 1 > MaxAlloc

\* Every call comes to an end: the loop of appendStringBuilder finds a size in which
\* the text fits, and the one of enlargeStringBuilder reaches the size needed.
CallEnds == pc # "idle" ~> pc \in {"idle", "dead"}
-----------------------------------------------------------------------------
(* The inductive invariant: what each place of a call knows.               *)

\* What is asked for, what is needed, and that it is there when the text is written.
RoomInv ==
    /\ pc # "idle" => call.name \in Functions
    /\ pc = "format" => call.name = "format"
    /\ pc = "enlarge" =>
         /\ needed <= 2 * MaxAlloc
         /\ call.name # "format" => needed = Room(call.name, call.size)
    /\ pc = "double" =>
         /\ needed <= MaxAlloc /\ newlen <= 2 * MaxAlloc /\ maxlen <= newlen
         /\ len < needed /\ maxlen < needed
         /\ call.name # "format" => needed = len + Room(call.name, call.size) + 1
    /\ pc = "write" => call.name # "format" /\ len + Room(call.name, call.size) < maxlen

\* What holds instead of ExitsOnlyPastMaxAlloc: for lack of room (and not of memory)
\* the process ends only when the text is empty, or would make a string of about half
\* of MaxAllocSize or more.
DiesOnlyWhenLarge ==
    pc = "dead" /\ ~nomem /\ call.size > 0 => 2 * (len + call.size + 2) >= MaxAlloc

\* Only a text that would take about half of MaxAllocSize asks for too much.
LargeInv ==
    pc = "enlarge" /\ ~nomem /\ call.size > 0 =>
        /\ needed >= 1
        /\ needed >= MaxAlloc - len => 2 * (len + call.size + 2) >= MaxAlloc

BuilderInv ==
    TypeOK /\ InBounds /\ NoOverflow /\ RoomInv /\ LargeInv /\ DiesOnlyWhenLarge
=============================================================================
