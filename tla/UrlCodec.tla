------------------------------ MODULE UrlCodec ------------------------------
(***************************************************************************)
(* url_encode and url_decode, which are the same in soaagent/url_encode.c   *)
(* and soaregister/url_encode.c.  A text is a sequence of bytes, none 0.    *)
(***************************************************************************)
EXTENDS Integers, SequencesExt

Upper == 65..90
Lower == 97..122
Digits == 48..57
Space == 32
Percent == 37
Plus == 43

Plain == Upper \cup Lower \cup Digits \cup {45, 46, 95}   \* - . _

HexChar(d) == IF d < 10 THEN 48 + d ELSE 55 + d   \* hexchars

\* Mutant: a plus sign stands for itself.
EncodeByteKeepsPlus(c) ==
    IF c = Space THEN <<Plus>>
    ELSE IF c \in Plain \cup {Plus} THEN <<c>>
    ELSE <<Percent, HexChar(c \div 16), HexChar(c % 16)>>

EncodeByte(c) ==
    IF c = Space THEN <<Plus>>
    ELSE IF c \in Plain THEN <<c>>
    ELSE <<Percent, HexChar(c \div 16), HexChar(c % 16)>>

UrlEncode(t) == FlattenSeq([i \in 1..Len(t) |-> EncodeByte(t[i])])

IsHex(c) == c \in Digits \cup 65..70 \cup 97..102

\* A hexadecimal digit in either case.
HexValue(c) == IF c \in Digits THEN c - 48 ELSE IF c \in Upper THEN c - 55 ELSE c - 87

\* hextoint.
HexToInt(t, p) == HexValue(t[p]) * 16 + HexValue(t[p + 1])

\* Mutant: an escape at the end of the text is taken for incomplete.
IsEscapeNotLast(t, p) == t[p] = Percent /\ p + 2 < Len(t) /\ IsHex(t[p + 1]) /\ IsHex(t[p + 2])

\* An escape is complete when two more bytes follow.
IsEscape(t, p) == t[p] = Percent /\ p + 2 <= Len(t) /\ IsHex(t[p + 1]) /\ IsHex(t[p + 2])

\* The text from each position on, decoded.
DecodeFrom(t) ==
    LET from[p \in 1..(Len(t) + 1)] ==
          IF p > Len(t) THEN <<>>
          ELSE IF t[p] = Plus THEN <<Space>> \o from[p + 1]
          ELSE IF IsEscape(t, p) THEN <<HexToInt(t, p + 1)>> \o from[p + 3]
          ELSE <<t[p]>> \o from[p + 1]
    IN from

UrlDecode(t) == DecodeFrom(t)[1]

\* The buffer of url_encode.
EncodeFits(t) == Len(UrlEncode(t)) + 1 <= 3 * Len(t) + 1

\* The buffer of url_decode has as many bytes as the encoded text, and the terminator goes
\* behind the decoded one.
DecodeFits(t) == Len(UrlDecode(t)) + 1 <= Len(t)
=============================================================================
