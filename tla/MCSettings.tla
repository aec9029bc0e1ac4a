----------------------------- MODULE MCSettings -----------------------------
(***************************************************************************)
(* Settings, NodeNames and ConfigItem for TLC.  They share no variable, and *)
(* a step of one commutes with every step of the others: it is enough that  *)
(* one of them is at work while the others are as at the start.             *)
(***************************************************************************)
EXTENDS Settings, NodeNames, ConfigItem

A == <<"section", "a">>
B == <<"section", "b">>
K == <<"key", "k">>
U == <<"text", "u">>
Rem == <<"comment", "#">>
Q == <<"quote", "double">>
Slash == <<"backslash", "s">>

Text(tokens, continued) == [text |-> tokens, continued |-> continued]

MCLines ==
    {Text(<<>>, FALSE), Text(<<A>>, FALSE), Text(<<B>>, FALSE), Text(<<A>>, TRUE),
     Text(<<K, U>>, FALSE), Text(<<K, U>>, TRUE), Text(<<K>>, FALSE), Text(<<U>>, FALSE),
     Text(<<Rem>>, TRUE), Text(<<K, U, U, Rem, K>>, FALSE),
     Text(<<K, Q, U, Q>>, FALSE), Text(<<K, Q, U, Rem, Q>>, FALSE),
     Text(<<K, Q, Slash, Q>>, FALSE)}

MCKeys == {"", "a", "b"} \X Seq({A, B, K, U, Rem, Q, Slash})
MCValues == Seq({A, B, K, U, Rem, Q, Slash})
MCSetKeys == {<<"a", <<>>>>, <<"b", <<K>>>>, <<"", <<K>>>>}
MCSetValues == {<<U>>}

\* A plain byte, a blank, the two signs of the encoding, hexadecimal digits in either case,
\* an opening brace, and bytes at the ends of the range.
MCPieces == {<<c>> : c \in {122, Space, Plus, Percent, 52, 65, 102, 123, 1, 255}}

\* A name of two bytes, and values of up to six of these and another.
MCSrc == <<36, 72>>
MCInputs == UNION {[1..i -> {36, 72, 47}] : i \in 0..6}

\* Homes shorter than the name and longer, one of which holds the name.
MCHomes == {<<>>, <<47>>, <<47, 36, 72>>, <<72, 36>>}

\* One of the calls of substitute stands for those that have not begun.
ItemIdle == InitItem /\ arguments = <<<<>>, <<>>, 1>>

InitAll == Init /\ InitText /\ InitItem

NextAny ==
    \/ InitText /\ ItemIdle /\ Next /\ UNCHANGED <<textVars, itemVars>>
    \/ Init /\ ItemIdle /\ NextText /\ UNCHANGED <<vars, itemVars>>
    \/ Init /\ InitText /\ NextItem /\ UNCHANGED <<vars, textVars>>

SpecAny == InitAll /\ [][NextAny]_<<vars, textVars, itemVars>>
\* DumpReloads without what it says of values and lines: a quoted value with a comment sign
\* or a backslash at its end and a joined line break it.
DumpReloadsAny ==
    (/\ state = "loaded"
     /\ \A k \in Entries : <<k[1], <<>>>> \in Entries /\ (k[2] # <<>> => ~Is(k[2], 1, "section")))
    => /\ DOMAIN Meaning(DumpIni) = Entries /\ ~Refused(DumpIni)
       /\ \A k \in Entries : k[2] # <<>> => Meaning(DumpIni)[k] = GetConfigItem(k, <<>>)
=============================================================================
