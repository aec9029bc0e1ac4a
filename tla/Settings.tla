------------------------------ MODULE Settings ------------------------------
(***************************************************************************)
(* The configuration of the agent: iniparser_load reads core.conf line by   *)
(* line into a dictionary, conf.c and the accessors of soaagent/iniparser.c *)
(* read it, and iniparser_set and iniparser_unset may change it.            *)
(*                                                                          *)
(* A line is blank (nothing but the newline), a last line of one character, *)
(* too long, or a text: a sequence of tokens and whether a backslash ends   *)
(* it.  A token is a name in brackets, a name with the equals sign, other   *)
(* text, a comment sign, a quote of either kind, or a backslash.  The key   *)
(* of an entry is <<section, tokens>>, with no tokens for the section.      *)
(***************************************************************************)
EXTENDS Dictionary, SequencesExt

CONSTANTS
    Lines,      \* bound: the lines of a file
    SetKeys, SetValues,   \* bound: what is set and removed after the file was loaded
    MaxLines,   \* bound: their number
    LineSize,   \* tokens that fit into ASCIILINESZ
    KeyWidth,   \* tokens that fit into the width of a dumped key, %-30s
    MaxOps      \* bound: changes after the file was loaded

ASSUME SettingsConfig ==
    /\ MaxLines \in Nat /\ MaxOps \in Nat
    /\ LineSize \in Nat /\ KeyWidth \in Nat

VARIABLES
    file,      \* the lines read
    full,      \* full_line: what the next line is appended to
    section,   \* the current section
    errs,      \* errors
    state,     \* start, loading, loaded, failed
    ops        \* changes after the file was loaded

vars == <<dictVars, file, full, section, errs, state, ops>>

Is(line, i, kind) == line[i][1] = kind
Position(line, kind) == {i \in 1..Len(line) : Is(line, i, kind)}

-----------------------------------------------------------------------------
(***************************************************************************)
(* iniparser_line.                                                          *)
(***************************************************************************)
IsSection(line) == line # <<>> /\ Is(line, 1, "section") /\ Is(line, Len(line), "section")
IsComment(line) == line # <<>> /\ Is(line, 1, "comment")
IsValue(line) ==
    line # <<>> /\ ~IsComment(line) /\ ~IsSection(line) /\ Position(line, "key") # {}
IsError(line) == line # <<>> /\ ~IsComment(line) /\ ~IsSection(line) /\ ~IsValue(line)

\* The key ends with the first equals sign.
KeyOf(line) == SubSeq(line, 1, First(Position(line, "key")))

Until(text, stops) == IF stops = {} THEN text ELSE SubSeq(text, 1, First(stops) - 1)

\* A quote with anything but the same quote after it; two of the same stand for nothing.
Quoted(text) == Len(text) > 1 /\ Is(text, 1, "quote") /\ text[2] # text[1]
EmptyQuotes(text) == Len(text) = 2 /\ Is(text, 1, "quote") /\ text[2] = text[1]

\* The value is what stands between quotes, comment signs included, and loses the quotes;
\* without them it ends before the next comment sign.
ValueOf(line) ==
    LET rest == SubSeq(line, First(Position(line, "key")) + 1, Len(line))
        bare == Until(rest, Position(rest, "comment"))
    IN IF Quoted(rest)
       THEN Until(Tail(rest), {i \in 1..Len(Tail(rest)) : Tail(rest)[i] = rest[1]})
       ELSE IF EmptyQuotes(bare) THEN <<>> ELSE bare

(***************************************************************************)
(* iniparser_load.                                                          *)
(***************************************************************************)
OpenFile ==
    /\ state = "start"
    /\ state' = "loading" /\ DictionaryNew
    /\ UNCHANGED <<file, full, section, errs, ops>>

CannotOpen ==
    /\ state = "start"
    /\ state' = "failed"
    /\ UNCHANGED <<dictVars, file, full, section, errs, ops>>

\* The full line is handled.  The result of dictionary_set replaces the number of errors.
HandleLine(line) ==
    /\ full' = <<>>
    /\ \/ /\ IsSection(line)
          /\ section' = line[1][2] /\ errs' = 0
          /\ DictionarySet(<<line[1][2], <<>>>>, Null)
       \/ /\ IsValue(line)
          /\ errs' = 0 /\ UNCHANGED section
          /\ DictionarySet(<<section, KeyOf(line)>>, ValueOf(line))
       \/ /\ IsError(line)
          /\ errs' = errs + 1 /\ UNCHANGED <<section, dictVars>>
       \/ /\ line = <<>> \/ IsComment(line)
          /\ UNCHANGED <<section, errs, dictVars>>

\* Mutant: a blank line ends a continued line.
ReadBlankEnds ==
    /\ state = "loading" /\ Len(file) < MaxLines
    /\ file' = Append(file, [kind |-> "blank"])
    /\ HandleLine(full)
    /\ UNCHANGED <<state, ops>>

\* A line of one byte is passed over, in the middle of a continued line too.
ReadBlank ==
    /\ state = "loading" /\ Len(file) < MaxLines
    /\ file' = Append(file, [kind |-> "blank"])
    /\ UNCHANGED <<dictVars, full, section, errs, state, ops>>

ReadText(l) ==
    /\ state = "loading" /\ Len(file) < MaxLines
    /\ file' = Append(file, [kind |-> "text", text |-> l.text, continued |-> l.continued])
    /\ IF l.continued THEN full' = full \o l.text /\ UNCHANGED <<dictVars, section, errs>>
       ELSE HandleLine(full \o l.text)
    /\ UNCHANGED <<state, ops>>

\* The end of the loop: an unfinished line is dropped, and after errors the dictionary too.
Finish(e) ==
    /\ IF e # 0 THEN state' = "failed" /\ DictionaryDel
       ELSE state' = "loaded" /\ UNCHANGED dictVars
    /\ errs' = e /\ full' = <<>>
    /\ UNCHANGED <<section, ops>>

EndOfFile == state = "loading" /\ Finish(errs) /\ UNCHANGED file

\* A last line without a newline, of one character, is passed over like a blank one.
ReadLastCharacter ==
    /\ state = "loading" /\ Len(file) < MaxLines
    /\ file' = Append(file, [kind |-> "character"])
    /\ Finish(errs)

ReadTooLong ==
    /\ state = "loading" /\ Len(file) < MaxLines
    /\ file' = Append(file, [kind |-> "long"])
    /\ Finish(errs + 1)

(***************************************************************************)
(* iniparser_set and iniparser_unset.                                       *)
(***************************************************************************)
Change ==
    /\ state = "loaded" /\ ops < MaxOps
    /\ ops' = ops + 1
    /\ UNCHANGED <<file, full, section, errs, state>>

IniparserSet(k, v) == Change /\ DictionarySet(k, v)
IniparserUnset(k) == Change /\ DictionaryUnset(k)

(***************************************************************************)
(* The accessors.                                                           *)
(***************************************************************************)
FindEntry(k) == Find(k) # {}

\* get_config_item: a section has no value and counts as not found.
GetConfigItem(k, def) == IF DictionaryGet(k, Null) = Null THEN def ELSE DictionaryGet(k, Null)

\* iniparser_getnsec, iniparser_getsecname and iniparser_getseckeys go by the slots: slot
\* number k of S, counted from 0, and all of S in the order of the arrays.
Nth(S, k) == CHOOSE i \in S : Cardinality({j \in S : j < i}) = k
InOrder(S) == [k \in 1..Cardinality(S) |-> Nth(S, k - 1)]

SectionSlots == {i \in Used : key[i][2] = <<>>}
GetNSec == Cardinality(SectionSlots)

\* Mutant: the count is compared too late.
GetSecNameLate(k) == CHOOSE i \in SectionSlots : Cardinality({j \in SectionSlots : j <= i}) >= k

GetSecName(k) == Nth(SectionSlots, k)

SecKeySlots(s) == {i \in Used : key[i][1] = s /\ key[i][2] # <<>>}
GetSecKeys(s) == IF FindEntry(<<s, <<>>>>) THEN InOrder(SecKeySlots(s)) ELSE <<>>

\* iniparser_dump_ini, as the lines of the file it writes and as the loader finds them: a
\* backslash at the end of a value continues its line, and a line may be too long, because a
\* value was joined from several lines and a key is filled up to a width.
Continues(tokens) == tokens # <<>> /\ Is(tokens, Len(tokens), "backslash")
TextLine(tokens) ==
    [kind |-> "text", continued |-> Continues(tokens),
     text |-> IF Continues(tokens) THEN Front(tokens) ELSE tokens]

FitsLine(width, k, v) == Max({width, Len(k)}) + Len(v) <= LineSize
DumpLine(width, k, v) ==
    IF FitsLine(width, k, v) THEN TextLine(k \o v) ELSE [kind |-> "long"]

\* A value is written as it was loaded, without its quotes.
DumpSection(s) ==
    LET slots == GetSecKeys(s)
    IN <<TextLine(<< <<"section", s>> >>)>> \o
       [i \in 1..Len(slots) |->
          DumpLine(KeyWidth, key[slots[i]][2],
                   IF val[slots[i]] = Null THEN <<>> ELSE val[slots[i]])]

\* Without a section the keys are written with the colon that follows the empty section.
DumpIni ==
    IF GetNSec < 1
    THEN LET slots == InOrder(Used)
         IN [i \in 1..Len(slots) |->
               DumpLine(0, << <<"text", ":">> >> \o key[slots[i]][2], val[slots[i]])]
    ELSE FlattenSeq([i \in 1..GetNSec |-> DumpSection(key[GetSecName(i - 1)][1])])

-----------------------------------------------------------------------------
Init ==
    /\ InitDict
    /\ file = <<>> /\ full = <<>> /\ section = "" /\ errs = 0 /\ state = "start" /\ ops = 0

Entries == DOMAIN Contents

Next ==
    \/ OpenFile \/ CannotOpen
    \/ ReadBlank \/ ReadLastCharacter \/ ReadTooLong \/ EndOfFile
    \/ \E l \in Lines : ReadText(l)
    \/ \E k \in SetKeys : (\E v \in SetValues : IniparserSet(k, v)) \/ IniparserUnset(k)

Spec == Init /\ [][Next]_vars

-----------------------------------------------------------------------------
(***************************************************************************)
(* Properties.                                                              *)
(***************************************************************************)

\* The dictionary is as TypeOKDict says whatever lines were loaded and keys changed, and every
\* other variable has its type.
TypeOK ==
    /\ TypeOKDict
    /\ Len(file) <= MaxLines /\ errs \in Nat /\ ops \in 0..MaxOps
    /\ state \in {"start", "loading", "loaded", "failed"}

\* What a file means, without the order in which it is read: a line ends where a text is not
\* continued, and is made of the texts since the last end.
Ends(f) == {i \in 1..Len(f) : f[i].kind = "text" /\ ~f[i].continued}
LastEnd(f, i) == Max({0} \cup {p \in Ends(f) : p < i})

TextOf(l) == IF l.kind = "text" THEN l.text ELSE <<>>
Joined(f, i) ==
    LET from == LastEnd(f, i)
    IN FlattenSeq([j \in 1..(i - from) |-> TextOf(f[from + j])])

\* It belongs to the last section before it.
SectionAt(f, i) ==
    LET before == {j \in Ends(f) : j < i /\ IsSection(Joined(f, j))}
    IN IF before = {} THEN "" ELSE Joined(f, Max(before))[1][2]

Assigning(f) == {i \in Ends(f) : IsSection(Joined(f, i)) \/ IsValue(Joined(f, i))}
Assignment(f, i) ==
    LET line == Joined(f, i)
    IN IF IsSection(line) THEN << <<line[1][2], <<>>>>, Null>>
       ELSE << <<SectionAt(f, i), KeyOf(line)>>, ValueOf(line)>>

\* The last of several assignments to a key counts.
LastWins(a) ==
    [k \in {a[i][1] : i \in DOMAIN a} |-> a[Max({i \in DOMAIN a : a[i][1] = k})][2]]

Meaning(f) == LastWins([i \in Assigning(f) |-> Assignment(f, i)])

\* The file is refused for a line that is too long, or for an error that no section and no
\* value follows: dictionary_set resets the count.
Refused(f) ==
    \/ \E i \in 1..Len(f) : f[i].kind = "long"
    \/ \E i \in Ends(f) : IsError(Joined(f, i)) /\ \A j \in Assigning(f) : j < i

\* However its lines are continued, repeated and distributed over the sections, a file is
\* loaded as the map it means, with the last value of a key, or refused as stated above.
LoadMatchesFile ==
    /\ (state = "loaded" /\ ops = 0) => Contents = Meaning(file) /\ ~Refused(file)
    /\ (state = "failed" /\ file # <<>>) => Refused(file)

\* What is read as it is when it stands behind an equals sign: the dump writes no quotes, so
\* it must not have a comment sign, begin with a quote or end with a backslash.
AsItIs(v) ==
    /\ Position(v, "comment") = {}
    /\ v # <<>> => ~Is(v, 1, "quote") /\ ~Is(v, Len(v), "backslash")

\* A dictionary that can be written comes back from the file that iniparser_dump_ini writes,
\* after any changes: the file is not refused, and means the sections, and the keys with
\* their values.  A dictionary can be written when every key has its section and does not
\* begin with a bracket, every value is plain, and every line fits.  A file that was loaded
\* may well give one that cannot: a value with a comment sign that was in quotes is cut, and
\* one that was joined from several lines, or whose key is filled up, may be too long.
Dumpable(k) ==
    /\ <<k[1], <<>>>> \in Entries
    /\ k[2] # <<>> => /\ ~Is(k[2], 1, "section")
                      /\ AsItIs(GetConfigItem(k, <<>>))
                      /\ FitsLine(KeyWidth, k[2], GetConfigItem(k, <<>>))

DumpReloads ==
    state = "loaded" /\ (\A k \in Entries : Dumpable(k))
    => /\ DOMAIN Meaning(DumpIni) = Entries /\ ~Refused(DumpIni)
       /\ \A k \in Entries : k[2] # <<>> =>
            Meaning(DumpIni)[k] = GetConfigItem(k, <<>>)
=============================================================================
