------------------------------ MODULE JsonText ------------------------------
(***************************************************************************)
(* How the direct JSON writer of runtime/encoding/beans_enc_json.c turns   *)
(* strings and integers into text.  The scan for plain bytes works on a    *)
(* word at a time, the UTF-8 checks are written out case by case and the   *)
(* digits come in pairs; each is compared with a definition of what it     *)
(* should compute.  A behaviour builds one string, byte by byte.           *)
(***************************************************************************)
EXTENDS Integers, Sequences, SequencesExt, FiniteSetsExt, Functions, TLC, Bitwise

CONSTANTS Bytes,    \* the bytes strings are made of
          MaxLen,   \* bound on their length
          Word,     \* bytes of a machine word (8 in the code)
          Bits,     \* width of an integer (64 in the code)
          Numbers   \* magnitudes of the integers to write

VARIABLES src, num
vars == <<src, num>>

-----------------------------------------------------------------------------
\* The word read from src at offset `at`, little-endian, and one byte repeated.
WordAt(s, at) == FoldFunctionOnSet(+, 0, [k \in 1..Word |-> s[at + k] * 256^(k - 1)], 1..Word)
Repeat(c)     == FoldFunctionOnSet(+, 0, [k \in 1..Word |-> c * 256^(k - 1)], 1..Word)
ByteOf(w, k)  == (w \div 256^(k - 1)) % 256

\* (w - n) & ~w & 0x80..80: the lanes whose top bit the borrow sets.
Borrow(w, n) ==
    LET d == (w - n) % 256^Word
    IN  {k \in 1..Word : ByteOf(d, k) >= 128 /\ ByteOf(w, k) < 128}

\* Mutant: the bytes with the top bit set are not among the breaks, so that
\* the subtraction alone classifies them.
BreaksNoHigh(w) ==
    Borrow(w, Repeat(32)) \union Borrow(w ^^ Repeat(34), Repeat(1))
      \union Borrow(w ^^ Repeat(92), Repeat(1))
\* The lanes of a word that end a plain run.
Breaks(w) ==
    {k \in 1..Word : ByteOf(w, k) >= 128}
      \union Borrow(w, Repeat(32)) \union Borrow(w ^^ Repeat(34), Repeat(1))
      \union Borrow(w ^^ Repeat(92), Repeat(1))

Plain(c) == c >= 32 /\ c < 128 /\ c # 34 /\ c # 92

\* The byte loop, from offset `at`.
ScalarSpan(s, at) ==
    LET stops == {k \in (at + 1)..Len(s) : ~Plain(s[k])}
    IN  IF stops = {} THEN Len(s) ELSE Min(stops) - 1

RECURSIVE PlainSpan(_, _)
\* beans_json_plain_span: whole words while they last, then the byte loop.
PlainSpan(s, at) ==
    IF at + Word > Len(s) THEN ScalarSpan(s, at)
    ELSE LET found == Breaks(WordAt(s, at))
         IN  IF found = {} THEN PlainSpan(s, at + Word) ELSE at + Min(found) - 1

-----------------------------------------------------------------------------
\* The escape of an ASCII byte that may not stand for itself.
Short == (34 :> 34) @@ (92 :> 92) @@ (8 :> 98) @@ (9 :> 116) @@ (10 :> 110)
           @@ (12 :> 102) @@ (13 :> 114)
Hex(d) == IF d < 10 THEN 48 + d ELSE 55 + d
Escape(c) == IF c \in DOMAIN Short THEN <<92, Short[c]>>
             ELSE <<92, 117, 48, 48, Hex(c \div 16), Hex(c % 16)>>

Tail2(c) == c \in 128..191

\* The length of the multi-byte sequence at `at`; 0 refuses the string.
MultiByte(s, at) ==
    LET c == s[at + 1]
        need == CASE c \in 194..223 -> 2 [] c \in 224..239 -> 3 [] c \in 240..244 -> 4 [] OTHER -> 0
    IN  IF need = 0 \/ at + need > Len(s) \/ \E k \in 2..need : ~Tail2(s[at + k]) THEN 0
        ELSE IF \/ c = 224 /\ s[at + 2] < 160    \* overlong
                \/ c = 237 /\ s[at + 2] > 159    \* surrogate
                \/ c = 240 /\ s[at + 2] < 144    \* overlong
                \/ c = 244 /\ s[at + 2] > 143    \* above U+10FFFF
             THEN 0 ELSE need

RECURSIVE DirectString(_, _)
\* beans_json_direct_string after the opening quote, from offset `at`: the
\* text, or <<-1>> at its end when the bytes are not UTF-8.
DirectString(s, at) ==
    LET span == PlainSpan(s, at)
        run  == SubSeq(s, at + 1, span)
    IN  IF span >= Len(s) THEN run
        ELSE IF s[span + 1] < 128 THEN run \o Escape(s[span + 1]) \o DirectString(s, span + 1)
        ELSE LET need == MultiByte(s, span)
             IN  IF need = 0 THEN <<-1>>
                 ELSE run \o SubSeq(s, span + 1, span + need) \o DirectString(s, span + need)

Refused(t) == t # <<>> /\ Last(t) = -1

-----------------------------------------------------------------------------
RECURSIVE DirectUint(_)
\* beans_json_direct_uint: two digits at a time, from the right.
DirectUint(n) ==
    IF n >= 100 THEN DirectUint(n \div 100) \o <<(n % 100) \div 10, n % 10>>
    ELSE IF n >= 10 THEN <<n \div 10, n % 10>> ELSE <<n>>

\* ~value + 1 in the width of the word.
Magnitude(v) == ((2^Bits - 1 - (v % 2^Bits)) + 1) % 2^Bits

\* beans_json_direct_sint.
DirectSint(v) == [neg |-> v < 0, digits |-> DirectUint(IF v < 0 THEN Magnitude(v) ELSE v)]

-----------------------------------------------------------------------------
Init == /\ src = <<>>
        /\ num \in {-n : n \in Numbers} \union {n \in Numbers : n < 2^(Bits - 1)}
AddByte(b) == Len(src) < MaxLen /\ num = 0 /\ src' = Append(src, b) /\ UNCHANGED num
Next == \E b \in Bytes : AddByte(b)
Spec == Init /\ [][Next]_vars

-----------------------------------------------------------------------------
\* The word scan stops where the byte loop stops.
SpanIsScalar == PlainSpan(src, 0) = ScalarSpan(src, 0)

\* UTF-8 by its definition: the shortest encoding of a scalar value.
Scalar(s) ==
    CASE Len(s) = 1 -> s[1] < 128
      [] Len(s) = 2 -> /\ s[1] \in 192..223 /\ Tail2(s[2])
                       /\ (s[1] % 32) * 64 + (s[2] % 64) >= 128
      [] Len(s) = 3 -> /\ s[1] \in 224..239 /\ Tail2(s[2]) /\ Tail2(s[3])
                       /\ LET p == (s[1] % 16) * 4096 + (s[2] % 64) * 64 + (s[3] % 64)
                          IN  p >= 2048 /\ p \notin 55296..57343
      [] Len(s) = 4 -> /\ s[1] \in 240..247 /\ \A k \in 2..4 : Tail2(s[k])
                       /\ LET p == (s[1] % 8) * 262144 + (s[2] % 64) * 4096
                                     + (s[3] % 64) * 64 + (s[4] % 64)
                          IN  p \in 65536..1114111
RECURSIVE Utf8(_)
Utf8(s) == \/ s = <<>>
           \/ \E n \in 1..4 : n <= Len(s) /\ Scalar(SubSeq(s, 1, n)) /\ Utf8(SubSeq(s, n + 1, Len(s)))

\* The writer accepts a string exactly when its bytes are UTF-8.
WritesUtf8Only == Refused(DirectString(src, 0)) <=> ~Utf8(src)

RECURSIVE Read(_)
Unhex(d) == IF d < 58 THEN d - 48 ELSE d - 55
Read(t) ==
    IF t = <<>> THEN <<>>
    ELSE IF t[1] # 92 THEN <<t[1]>> \o Read(Tail(t))
    ELSE IF t[2] = 117 THEN <<Unhex(t[5]) * 16 + Unhex(t[6])>> \o Read(SubSeq(t, 7, Len(t)))
    ELSE <<CHOOSE c \in DOMAIN Short : Short[c] = t[2]>> \o Read(SubSeq(t, 3, Len(t)))

\* What was written reads back as the string, and nothing in it would end the
\* JSON string early.
ReadsBack ==
    LET t == DirectString(src, 0)
    IN  ~Refused(t) => Read(t) = src /\ \A k \in DOMAIN t : t[k] >= 32

\* The digits stand for the number, the least one included, without a
\* leading zero.
DigitsAreNumber ==
    LET d == DirectSint(num)
        n == FoldLeft(LAMBDA a, x : a * 10 + x, 0, d.digits)
    IN  /\ num = IF d.neg THEN -n ELSE n
        /\ Len(d.digits) > 1 => d.digits[1] # 0

\* The writer's word-wise scan and case-wise checks emit a string exactly
\* when it is UTF-8, and what it emits reads back; digits are the number
\* (the direct writer).
TextFaithful == SpanIsScalar /\ WritesUtf8Only /\ ReadsBack /\ DigitsAreNumber
=============================================================================
