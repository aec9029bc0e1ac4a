----------------------------- MODULE NodeNames -----------------------------
(***************************************************************************)
(* The name of a provider's node: register_services (soaregister/           *)
(* service_mgt.c) encodes the text of the services file and cuts the path   *)
(* of the node at the length of its buffer; children_change_func_impl       *)
(* (soaagent/invoke_stub.c) decodes what is left of the name.               *)
(***************************************************************************)
EXTENDS UrlCodec

CONSTANTS
    Pieces,      \* bound: the pieces of text the operator writes
    MaxPieces    \* bound: their number

ASSUME NodeNamesConfig == MaxPieces \in Nat /\ Pieces \subseteq Seq(1..255)

VARIABLES text, pieces

textVars == <<text, pieces>>

\* The name of the node, of which room bytes fit behind the group.
NodeName(t, room) == SubSeq(UrlEncode(t), 1, room)

\* External: the operator writes the file.
Write(piece) ==
    /\ pieces < MaxPieces
    /\ text' = text \o piece /\ pieces' = pieces + 1

InitText == text = <<>> /\ pieces = 0

NextText == \E piece \in Pieces : Write(piece)

SpecText == InitText /\ [][NextText]_textVars

-----------------------------------------------------------------------------
(***************************************************************************)
(* Properties.                                                              *)
(***************************************************************************)

\* Where byte i of the text ends in its encoding.
EndOf(t, i) == Len(UrlEncode(SubSeq(t, 1, i)))

\* The number of bytes that are whole in the first room bytes of the encoding, and what a cut
\* leaves of the one after them.
Whole(t, room) == Max({i \in 0..Len(t) : EndOf(t, i) <= room})
Remains == {<<>>, <<Percent>>} \cup {<<Percent, HexChar(d)>> : d \in 0..15}

\* Wherever the name of a node is cut, an agent decodes the bytes that are whole, as they were
\* written, and behind them at most the beginning of one escape.  The encoding fits its
\* buffer, and so does the decoding of a name with a byte that was escaped, as the brace of
\* every description is.
NamesDecode ==
    /\ EncodeFits(text) /\ UrlDecode(UrlEncode(text)) = text
    /\ \A room \in 0..Len(UrlEncode(text)) :
         /\ \E rest \in Remains :
              UrlDecode(NodeName(text, room)) = SubSeq(text, 1, Whole(text, room)) \o rest
         /\ (\E i \in 1..Whole(text, room) : Len(EncodeByte(text[i])) = 3)
              => DecodeFits(NodeName(text, room))
=============================================================================
