------------------------------- MODULE Base64 -------------------------------
(***************************************************************************)
(* src/src/internal/base64.cpp and the UTF-8 conversions of                *)
(* src/src/internal/unicode.cpp and of the JSON and XML readers.           *)
(***************************************************************************)
EXTENDS Integers, Sequences, SequencesExt

base64Chars(k) ==
    CASE k < 26 -> 65 + k
      [] k \in 26..51 -> 71 + k
      [] k \in 52..61 -> k - 4
      [] k = 62 -> 43
      [] k = 63 -> 47

base64Pad == 64
base64Ignore == 65

base64Decode(c) ==
    CASE c \in 65..90 -> c - 65
      [] c \in 97..122 -> c - 71
      [] c \in 48..57 -> c + 4
      [] c = 43 -> 62
      [] c = 47 -> 63
      [] c = 61 -> base64Pad
      [] OTHER -> base64Ignore

maxQuadLength == 16     \* quads on a line

\* Base64Encode: the Puts it makes.  A line feed follows every full line that is not the last.
Base64Encode(b) ==
    LET n == Len(b) \div 3
        rest == Len(b) % 3
        at(i) == IF i <= Len(b) THEN b[i] ELSE 0
        out(i) == <<base64Chars(at(i) \div 4),
                    base64Chars((at(i) % 4) * 16 + at(i + 1) \div 16),
                    base64Chars((at(i + 1) % 16) * 4 + at(i + 2) \div 64),
                    base64Chars(at(i + 2) % 64)>>
        quad(k) == <<<<"s", out(3 * k - 2)>>>>
                   \o (IF k % maxQuadLength = 0 /\ Len(b) > 3 * k THEN <<<<"c", 10>>>> ELSE << >>)
    IN  FlattenSeq([k \in 1..n |-> quad(k)])
        \o (IF rest = 0 THEN << >>
            ELSE <<<<"s", SubSeq(out(3 * n + 1), 1, rest + 1) \o SubSeq(<<61, 61>>, 1, 3 - rest)>>>>)

\* The bytes of the first 2, 3 or 4 decoded characters.
Decoded(data) ==
    SubSeq(<<(data[1] * 4 + data[2] \div 16) % 256>>
           \o (IF Len(data) > 2 THEN <<((data[2] % 16) * 16 + data[3] \div 4) % 256>> ELSE << >>)
           \o (IF Len(data) > 3 THEN <<((data[3] % 4) * 64 + data[4]) % 256>> ELSE << >>),
           1, Len(data) - 1)

\* Base64Decode(dest, src, srcLength): nothing when the text is not well formed.
RECURSIVE DecodeFrom(_, _, _, _)
DecodeFrom(s, i, data, out) ==
    IF i > Len(s) THEN out
    ELSE LET d == base64Decode(s[i])
             next == IF Len(data) = 2 /\ i < Len(s) THEN i + 2 ELSE i + 1
         IN  CASE d = base64Ignore -> DecodeFrom(s, i + 1, data, out)
               [] d = base64Pad /\ Len(data) < 2 -> << >>
               [] d = base64Pad /\ Len(data) >= 2 ->
                    IF \/ Len(data) = 2 /\ i < Len(s) /\ base64Decode(s[i + 1]) # base64Pad
                       \/ next <= Len(s)
                    THEN << >> ELSE out \o Decoded(data)
               [] d < 64 /\ Len(data) = 3 -> DecodeFrom(s, i + 1, << >>, out \o Decoded(Append(data, d)))
               [] OTHER -> DecodeFrom(s, i + 1, Append(data, d), out)

Base64DecodeBytes(s) == DecodeFrom(s, 1, << >>, << >>)

----------------------------------------------------------------------------
(* UTF-8. *)

Continue(cp, shift) == 128 + ((cp \div shift) % 64)

\* EncodeUtf8 of the JSON and XML readers.
EncodeUtf8(cp) ==
    CASE cp <= 127 -> <<cp>>
      [] cp \in 128..2047 -> <<192 + cp \div 64, Continue(cp, 1)>>
      [] cp \in 2048..65535 -> <<224 + cp \div 4096, Continue(cp, 64), Continue(cp, 1)>>
      [] OTHER -> <<240 + cp \div 262144, Continue(cp, 4096), Continue(cp, 64), Continue(cp, 1)>>

BadUtf8 == <<-1, 0>>

\* The code point that starts at s[i] and the number of bytes it takes.
SequenceLength(c) == CASE c < 128 -> 1 [] c \in 192..223 -> 2 [] c \in 224..239 -> 3
                       [] c \in 240..247 -> 4 [] OTHER -> 0

CodePoint(s, i) ==
    LET n == SequenceLength(s[i])
        lead == s[i] % (CASE n = 1 -> 128 [] n = 2 -> 32 [] n = 3 -> 16 [] OTHER -> 8)
    IN  IF n = 0 \/ i + n - 1 > Len(s) \/ \E k \in (i + 1)..(i + n - 1) : s[k] \notin 128..191
        THEN BadUtf8
        ELSE <<FoldLeft(LAMBDA cp, c : cp * 64 + (c % 64), lead, SubSeq(s, i + 1, i + n - 1)), n>>

\* JsonWriter::DecodeUtf8 refuses an encoding longer than it has to be.
DecodeUtf8(s, i) ==
    LET d == CodePoint(s, i)
    IN  IF d[1] < (CASE d[2] = 2 -> 128 [] d[2] = 3 -> 2048 [] d[2] = 4 -> 65536 [] OTHER -> 0)
        THEN BadUtf8 ELSE d

\* Mutant: a code point above FFFF loses its upper bits.
ConvertToUtf8Narrow(ws) == FlattenSeq([i \in DOMAIN ws |-> EncodeUtf8(ws[i] % 65536)])

\* A wide string of code points to UTF-8 (Value(const wchar_t*), SetString) and back
\* (GetWString); <<-1>> stands for the exception.
ConvertToUtf8(ws) ==
    IF \E i \in DOMAIN ws : ws[i] > 131071 THEN <<-1>>
    ELSE FlattenSeq([i \in DOMAIN ws |-> EncodeUtf8(ws[i])])

RECURSIVE FromUtf8(_, _)
FromUtf8(s, i) ==
    IF i > Len(s) THEN << >>
    ELSE LET d == CodePoint(s, i)
         IN  IF d = BadUtf8 THEN <<-1>> ELSE <<d[1]>> \o FromUtf8(s, i + d[2])

ConvertFromUtf8(s) == FromUtf8(s, 1)
=============================================================================
