------------------------------ MODULE Strings ------------------------------
(***************************************************************************)
(* The conversions of ipod_string.c, as functions.  A text of the client   *)
(* is a sequence of bytes (UTF-8, without its end mark), a text of the     *)
(* database one of units of 16 bits.                                       *)
(***************************************************************************)
EXTENDS Integers, Sequences, FiniteSetsExt, SequencesExt

Byte == 0 .. 255
Unit == 0 .. 65535

\* What C takes for the string in an array: it ends at the first zero.
c_string(s) ==
    LET zeros == {i \in DOMAIN s : s[i] = 0}
    IN  IF zeros = {} THEN s ELSE SubSeq(s, 1, Min(zeros) - 1)

-----------------------------------------------------------------------------
(* UTF-16 to UTF-8.  The two halves of a surrogate pair are converted each *)
(* for itself.                                                             *)

utf8_of(unit) ==
    IF unit < 128 THEN <<unit>>
    ELSE IF unit < 2048 THEN <<192 + unit \div 64, 128 + (unit % 64)>>
    ELSE <<224 + unit \div 4096, 128 + ((unit \div 64) % 64), 128 + (unit % 64)>>

utf16_to_utf8[units \in Seq(Unit)] == FlattenSeq([i \in DOMAIN units |-> utf8_of(units[i])])

\* The length is computed from signed chars: a low byte from 128 on borrows one
\* from the high byte.
signed_unit(unit) == IF unit % 256 < 128 THEN unit ELSE (unit - 256) % 65536

utf8_length_of(unit) ==
    LET c == signed_unit(unit)
    IN  IF c < 128 THEN 1 ELSE IF c < 2048 THEN 2 ELSE 3

utf8_from_utf16[units \in Seq(Unit)] == c_string(utf16_to_utf8[units])

-----------------------------------------------------------------------------
(* UTF-8 to UTF-16                                                         *)

\* The bytes of a character by the upper half of its first byte; 0: no first byte.
char_length(byte) ==
    IF byte < 128 THEN 1
    ELSE IF byte < 192 THEN 0
    ELSE IF byte < 224 THEN 2
    ELSE IF byte < 240 THEN 3 ELSE 4

\* A character that ends the string early takes its end mark for a byte; what it
\* takes from behind that is not modelled.
At(s, i) == IF i \in DOMAIN s THEN s[i] ELSE 0

\* The character at position i of s; one of four bytes becomes a question mark.
utf16_of(s, i) ==
    IF char_length(s[i]) = 1 THEN s[i]
    ELSE IF char_length(s[i]) = 2 THEN (s[i] % 32) * 64 + (At(s, i + 1) % 64)
    ELSE IF char_length(s[i]) = 3 THEN ((s[i] % 16) * 64 + (At(s, i + 1) % 64)) * 64 + (At(s, i + 2) % 64)
    ELSE 63

utf8_to_utf16_length[s \in Seq(Byte)] ==
    LET counted(byte) == IF byte < 247 THEN char_length(byte) ELSE 0
        count[i \in Nat] ==
            IF i > Len(s) THEN 0
            ELSE CASE counted(s[i]) = 0 -> count[i + 1]
                   [] counted(s[i]) = 4 -> 2 + count[i + 4]
                   [] OTHER -> 1 + count[i + counted(s[i])]
    IN  count[1]

\* After a character of four bytes its other bytes are skipped as invalid.
utf8_to_utf16[s \in Seq(Byte)] ==
    LET units[i \in Nat] ==
            IF i > Len(s) THEN <<>>
            ELSE CASE char_length(s[i]) = 0 -> units[i + 1]
                   [] char_length(s[i]) = 4 -> <<utf16_of(s, i)>> \o units[i + 1]
                   [] OTHER -> <<utf16_of(s, i)>> \o units[i + char_length(s[i])]
    IN  units[1]

\* The buffer has as many units as were counted, and junk where none was written.
utf16_from_utf8(s, junk) ==
    LET units == utf8_to_utf16[s]
        n == utf8_to_utf16_length[s]
    IN  IF n <= Len(units) THEN SubSeq(units, 1, n)
                           ELSE units \o [i \in 1 .. n - Len(units) |-> junk]
=============================================================================
