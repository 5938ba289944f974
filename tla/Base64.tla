------------------------------- MODULE Base64 -------------------------------
(***************************************************************************)
(* pg/base64.c: bytes as text, four symbols for three bytes. A symbol is   *)
(* the number it stands for; Padding is the sign "=", and Junk any         *)
(* character that is not of the alphabet.                                  *)
(***************************************************************************)
EXTENDS Integers, Sequences, SequencesExt

Padding == 64
Junk    == 65

\* pg_b64_encode: the byte i counted from zero, or nothing behind the last one.
ByteAt(bytes, i) == IF i < Len(bytes) THEN bytes[i + 1] ELSE 0

Quad(bytes, i) ==
    LET buf == (ByteAt(bytes, i) * 256 + ByteAt(bytes, i + 1)) * 256 + ByteAt(bytes, i + 2)
    IN  <<buf \div 64^3, (buf \div 64^2) % 64,
          IF i + 1 < Len(bytes) THEN (buf \div 64) % 64 ELSE Padding,
          IF i + 2 < Len(bytes) THEN buf % 64 ELSE Padding>>

Encode(bytes) ==
    FlattenSeq([g \in 1 .. (Len(bytes) + 2) \div 3 |-> Quad(bytes, 3 * (g - 1))])

\* pg_b64_decode. end tells how many symbols of the quad came before the padding
\* (0: none was seen, otherwise 1 for two of them and 2 for three).
Bytes(buf, end) ==
    <<buf \div 256^2>>
        \o (IF end = 0 \/ end > 1 THEN <<(buf \div 256) % 256>> ELSE <<>>)
        \o (IF end = 0 \/ end > 2 THEN <<buf % 256>> ELSE <<>>)

Take(s, b) ==
    IF s.pos < 3 THEN [s EXCEPT !.buf = @ * 64 + b, !.pos = @ + 1]
    ELSE [s EXCEPT !.out = @ \o Bytes(s.buf * 64 + b, s.end), !.buf = 0, !.pos = 0]

Read(s, c) ==
    IF ~s.ok \/ c = Junk THEN [s EXCEPT !.ok = FALSE]
    ELSE IF c # Padding THEN Take(s, c)
    ELSE IF s.end # 0 THEN Take(s, 0)
    ELSE IF s.pos \in {2, 3} THEN Take([s EXCEPT !.end = s.pos - 1], 0)
    ELSE [s EXCEPT !.ok = FALSE]

\* The result code is the number of bytes, or -1.
Decode(text) ==
    LET s == FoldLeft(Read, [buf |-> 0, pos |-> 0, end |-> 0, out |-> <<>>, ok |-> TRUE],
                      text)
    IN  IF s.ok /\ s.pos = 0 THEN [rc |-> Len(s.out), out |-> s.out]
        ELSE [rc |-> -1, out |-> s.out]

\* pg_b64_dec_len
DecodedLen(n) == (n * 3) \div 4

\* A text that is base64: whole quads, padding in the last one only, and nothing set
\* behind the bytes it stands for.
IsBase64(text) ==
    LET n == Len(text)
    IN  /\ n > 0 /\ n % 4 = 0
        /\ \A i \in 1 .. n - 2 : text[i] \in 0 .. 63
        /\ \/ text[n - 1] \in 0 .. 63 /\ text[n] \in 0 .. 63
           \/ text[n - 1] \in 0 .. 63 /\ text[n - 1] % 4 = 0 /\ text[n] = Padding
           \/ text[n - 2] % 16 = 0 /\ text[n - 1] = Padding /\ text[n] = Padding
=============================================================================
