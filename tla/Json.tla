-------------------------------- MODULE Json --------------------------------
(***************************************************************************)
(* cJSON as the agent and the registering extension use it (cJSON.c, the    *)
(* same in soaagent and soaregister): the parser and the two printers.      *)
(*                                                                          *)
(* A text is a sequence of bytes followed by the terminator.  A parser      *)
(* returns the position after what it has read with the item, Failure, or   *)
(* Undefined when it reads behind the terminator or writes more than it has *)
(* allocated.  Numbers are integers: fractions and exponents are left out.  *)
(***************************************************************************)
EXTENDS Integers, SequencesExt

Quote == 34
Comma == 44
Minus == 45
Colon == 58
Backslash == 92
OpenBracket == 91
CloseBracket == 93
OpenBrace == 123
CloseBrace == 125
Terminator == 0

Failure == [end |-> 0, item |-> <<>>]
Undefined == [end |-> -1, item |-> <<>>]
Ok(r) == r.end > 0

At(t, p) == IF p <= Len(t) THEN t[p] ELSE Terminator

IsDigit(c) == c \in 48..57
HexDigits == 48..57 \cup 65..70 \cup 97..102
HexDigit(c) == IF IsDigit(c) THEN c - 48 ELSE IF c < 97 THEN c - 55 ELSE c - 87

RECURSIVE Skip(_, _)
Skip(t, p) == IF At(t, p) \in 1..32 THEN Skip(t, p + 1) ELSE p

-----------------------------------------------------------------------------
(***************************************************************************)
(* parse_string.                                                            *)
(***************************************************************************)

\* parse_hex4: 0 when one of the four is no hexadecimal digit.
ParseHex4(t, p) ==
    IF \A i \in p..(p + 3) : At(t, i) \in HexDigits
    THEN HexDigit(t[p]) * 4096 + HexDigit(t[p + 1]) * 256 + HexDigit(t[p + 2]) * 16 + HexDigit(t[p + 3])
    ELSE 0

Utf8(uc) ==
    LET Low(k) == 128 + ((uc \div k) % 64)
    IN IF uc < 128 THEN <<uc>>
       ELSE IF uc < 2048 THEN <<192 + (uc \div 64), Low(1)>>
       ELSE IF uc < 65536 THEN <<224 + (uc \div 4096), Low(64), Low(1)>>
       ELSE <<240 + (uc \div 262144), Low(4096), Low(64), Low(1)>>

HighSurrogates == 55296..56319
LowSurrogates == 56320..57343

\* The escape \u whose letter is at p: what it stands for and where the text goes on.
\* Four bytes are passed over whatever they are.
Unicode(t, p) ==
    LET uc == ParseHex4(t, p + 1)
        pair == At(t, p + 5) = Backslash /\ At(t, p + 6) = 117
        uc2 == ParseHex4(t, p + 7)
    IN IF uc \in LowSurrogates \cup {0} THEN [bytes |-> <<>>, next |-> p + 5]
       ELSE IF uc \notin HighSurrogates THEN [bytes |-> Utf8(uc), next |-> p + 5]
       ELSE IF ~pair THEN [bytes |-> <<>>, next |-> p + 5]
       ELSE IF uc2 \notin LowSurrogates THEN [bytes |-> <<>>, next |-> p + 11]
       ELSE [bytes |-> Utf8(65536 + (uc % 1024) * 1024 + (uc2 % 1024)), next |-> p + 11]

\* b, f, n, r and t, with the control bytes they stand for.
Controls == {<<98, 8>>, <<102, 12>>, <<110, 10>>, <<114, 13>>, <<116, 9>>}

Escape(t, p) ==
    IF At(t, p) = 117 THEN Unicode(t, p)
    ELSE [bytes |-> IF \E c \in Controls : c[1] = At(t, p)
                    THEN <<(CHOOSE c \in Controls : c[1] = At(t, p))[2]>> ELSE <<At(t, p)>>,
          next |-> p + 1]

\* The length of the string for the allocation, -1 when the terminator is passed over.
RECURSIVE Scan(_, _)
Scan(t, p) ==
    IF p > Len(t) + 1 THEN -1
    ELSE IF At(t, p) \in {Quote, Terminator} THEN 0
    ELSE LET rest == Scan(t, IF t[p] = Backslash THEN p + 2 ELSE p + 1)
         IN IF rest = -1 THEN -1 ELSE rest + 1

RECURSIVE Unescape(_, _, _)
Unescape(t, p, out) ==
    IF p > Len(t) + 1 THEN Undefined
    ELSE IF At(t, p) = Quote THEN [end |-> p + 1, item |-> out]
    ELSE IF At(t, p) = Terminator THEN [end |-> p, item |-> out]
    ELSE IF t[p] # Backslash THEN Unescape(t, p + 1, Append(out, t[p]))
    ELSE LET e == Escape(t, p + 1) IN Unescape(t, e.next, out \o e.bytes)

\* A string that is not closed ends with the text.
ParseString(t, p) ==
    LET len == Scan(t, p + 1)
        r == Unescape(t, p + 1, <<>>)
    IN IF At(t, p) # Quote THEN Failure
       ELSE IF len = -1 \/ ~Ok(r) \/ Len(r.item) > len THEN Undefined
       ELSE [end |-> r.end, item |-> [type |-> "string", value |-> r.item]]

(***************************************************************************)
(* The other values.                                                        *)
(***************************************************************************)
RECURSIVE ReadDigits(_, _, _)
ReadDigits(t, p, n) ==
    IF IsDigit(At(t, p)) THEN ReadDigits(t, p + 1, 10 * n + t[p] - 48) ELSE <<p, n>>

\* A sign without digits is zero; after one leading zero digits are read, unless the first
\* is a zero again.
ParseNumber(t, p) ==
    LET sign == IF t[p] = Minus THEN p + 1 ELSE p
        from == IF At(t, sign) = 48 THEN sign + 1 ELSE sign
        read == IF At(t, from) = 48 THEN <<from, 0>> ELSE ReadDigits(t, from, 0)
    IN [end |-> read[1],
        item |-> [type |-> "number", value |-> IF t[p] = Minus THEN -read[2] ELSE read[2]]]

Literals == {<<"null", <<110, 117, 108, 108>>>>, <<"false", <<102, 97, 108, 115, 101>>>>,
             <<"true", <<116, 114, 117, 101>>>>}

Starts(t, p, s) == p + Len(s) <= Len(t) + 1 /\ SubSeq(t, p, p + Len(s) - 1) = s

\* The name of an entry, with the colon.
WithColon(t, name) ==
    IF Ok(name) /\ At(t, Skip(t, name.end)) # Colon THEN Failure
    ELSE IF Ok(name) THEN [end |-> Skip(t, name.end) + 1, item |-> name.item.value]
    ELSE name

Named(name, value) ==
    IF Ok(value) THEN [end |-> value.end, item |-> <<name, value.item>>] ELSE value

Before(entry, rest) ==
    IF Ok(rest) THEN [end |-> rest.end, item |-> <<entry>> \o rest.item] ELSE rest

RECURSIVE ParseValue(_, _), ParseItems(_, _, _)

NamedValue(t, name) ==
    IF Ok(name) THEN Named(name.item, ParseValue(t, Skip(t, name.end))) ELSE name

\* What comes after an entry: another one, or the end.
FromEntry(t, entry, next, named) ==
    IF ~Ok(entry) THEN entry
    ELSE IF At(t, next) = Comma THEN Before(entry.item, ParseItems(t, next + 1, named))
    ELSE IF At(t, next) = (IF named THEN CloseBrace ELSE CloseBracket)
         THEN [end |-> next + 1, item |-> <<entry.item>>]
    ELSE Failure

\* An entry of an array, or of an object with its name, and the ones after it.
ParseItems(t, p, named) ==
    LET entry == IF named THEN NamedValue(t, WithColon(t, ParseString(t, Skip(t, p))))
                 ELSE Named(<<>>, ParseValue(t, Skip(t, p)))
    IN FromEntry(t, entry, Skip(t, entry.end), named)

Collect(type, items) ==
    IF Ok(items) THEN [end |-> items.end, item |-> [type |-> type, value |-> items.item]]
    ELSE items

ParseArray(t, p) ==
    IF At(t, Skip(t, p + 1)) = CloseBracket
    THEN [end |-> Skip(t, p + 1) + 1, item |-> [type |-> "array", value |-> <<>>]]
    ELSE Collect("array", ParseItems(t, p + 1, FALSE))

ParseObject(t, p) ==
    IF At(t, Skip(t, p + 1)) = CloseBrace
    THEN [end |-> Skip(t, p + 1) + 1, item |-> [type |-> "object", value |-> <<>>]]
    ELSE Collect("object", ParseItems(t, p + 1, TRUE))

ParseValue(t, p) ==
    IF \E l \in Literals : Starts(t, p, l[2])
    THEN LET l == CHOOSE k \in Literals : Starts(t, p, k[2])
         IN [end |-> p + Len(l[2]), item |-> [type |-> l[1], value |-> <<>>]]
    ELSE CASE At(t, p) = Quote -> ParseString(t, p)
           [] At(t, p) = Minus \/ IsDigit(At(t, p)) -> ParseNumber(t, p)
           [] At(t, p) = OpenBracket -> ParseArray(t, p)
           [] At(t, p) = OpenBrace -> ParseObject(t, p)
           [] OTHER -> Failure

\* cJSON_Parse: what follows the value is not looked at.
Parse(t) == ParseValue(t, Skip(t, 1))

\* cJSON_GetObjectItem: the first entry with the name, in either case; <<>> when there is none.
ToLower(c) == IF c \in 65..90 THEN c + 32 ELSE c
SameName(a, b) == Len(a) = Len(b) /\ \A i \in 1..Len(a) : ToLower(a[i]) = ToLower(b[i])

GetObjectItem(item, name) ==
    LET found == SelectSeq(item.value, LAMBDA e : SameName(e[1], name))
    IN IF item.type # "object" \/ found = <<>> THEN <<>> ELSE Head(found)[2]

-----------------------------------------------------------------------------
(***************************************************************************)
(* cJSON_Print (fmt) and cJSON_PrintUnformatted.                            *)
(***************************************************************************)
HexText(d) == IF d < 10 THEN 48 + d ELSE 87 + d

\* Mutant: a backslash is printed as it is.
PrintByteNoBackslash(c) ==
    IF c = Quote THEN <<Backslash, c>>
    ELSE IF c > 31 THEN <<c>>
    ELSE <<Backslash, 117, 48, 48, HexText(c \div 16), HexText(c % 16)>>

PrintByte(c) ==
    IF c \in {Quote, Backslash} THEN <<Backslash, c>>
    ELSE IF c > 31 THEN <<c>>
    ELSE IF \E k \in Controls : k[2] = c
         THEN <<Backslash, (CHOOSE k \in Controls : k[2] = c)[1]>>
    ELSE <<Backslash, 117, 48, 48, HexText(c \div 16), HexText(c % 16)>>

PrintString(s) ==
    <<Quote>> \o FlattenSeq([i \in 1..Len(s) |-> PrintByte(s[i])]) \o <<Quote>>

RECURSIVE PrintNatural(_)
PrintNatural(n) == (IF n < 10 THEN <<>> ELSE PrintNatural(n \div 10)) \o <<48 + (n % 10)>>
PrintNumber(n) == IF n < 0 THEN <<Minus>> \o PrintNatural(-n) ELSE PrintNatural(n)

Tabs(k) == [i \in 1..k |-> 9]

RECURSIVE PrintValue(_, _, _)

PrintArray(items, depth, fmt) ==
    <<OpenBracket>> \o
    FlattenSeq([i \in 1..Len(items) |->
      PrintValue(items[i][2], depth + 1, fmt)
        \o IF i = Len(items) THEN <<>> ELSE IF fmt THEN <<Comma, 32>> ELSE <<Comma>>])
    \o <<CloseBracket>>

PrintObject(items, depth, fmt) ==
    LET Line(s) == IF fmt THEN s ELSE <<>>
    IN <<OpenBrace>> \o Line(<<10>>) \o
       FlattenSeq([i \in 1..Len(items) |->
         Line(Tabs(depth + 1)) \o PrintString(items[i][1]) \o <<Colon>> \o Line(<<9>>)
           \o PrintValue(items[i][2], depth + 1, fmt)
           \o (IF i = Len(items) THEN <<>> ELSE <<Comma>>) \o Line(<<10>>)])
       \o Line(Tabs(IF items = <<>> THEN depth - 1 ELSE depth)) \o <<CloseBrace>>

PrintValue(item, depth, fmt) ==
    CASE item.type = "string" -> PrintString(item.value)
      [] item.type = "number" -> PrintNumber(item.value)
      [] item.type = "array" -> PrintArray(item.value, depth, fmt)
      [] item.type = "object" -> PrintObject(item.value, depth, fmt)
      [] OTHER -> (CHOOSE l \in Literals : l[1] = item.type)[2]

Printed(item, fmt) == PrintValue(item, 0, fmt)
=============================================================================
