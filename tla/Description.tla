---------------------------- MODULE Description ----------------------------
(***************************************************************************)
(* The description of a provider's services on its way from the services    *)
(* file to the agents: register_services (soaregister/service_mgt.c) parses *)
(* the file before it makes it the name of a node, and                      *)
(* children_change_func_impl (soaagent/invoke_stub.c) parses what it has    *)
(* decoded of the name.                                                     *)
(***************************************************************************)
EXTENDS NodeNames, Json

CONSTANT GroupName   \* "group"

\* What register_services does with the text: it needs the item "group".
Publishes(t) == Ok(Parse(t)) /\ GetObjectItem(Parse(t).item, GroupName) # <<>>

\* What an agent gets to know.
Learn(name) == Parse(UrlDecode(name))

-----------------------------------------------------------------------------
(***************************************************************************)
(* Properties.                                                              *)
(***************************************************************************)

\* A text in which every escape is complete: the backslash is not the last byte, and four
\* hexadecimal digits follow \u.  A backslash begins an escape unless it is the second one of
\* a pair.
BeginsEscape(t, p) ==
    LET first == CHOOSE q \in 1..p :
                   /\ \A i \in q..p : t[i] = Backslash
                   /\ q = 1 \/ t[q - 1] # Backslash
    IN t[p] = Backslash /\ (p - first) % 2 = 0

EscapesComplete(t) ==
    \A p \in 1..Len(t) : BeginsEscape(t, p) =>
      p < Len(t) /\ (t[p + 1] = 117 => \A i \in (p + 2)..(p + 5) : At(t, i) \in HexDigits)

\* The parser stays inside the text and its buffers when the escapes are complete, and what
\* it has read is the same after printing, with and without the layout, whatever the order
\* of the brackets, strings that are not closed, and bytes that need an escape.
ReadsBack ==
    \A read \in {Parse(text)} :
      /\ EscapesComplete(text) => read # Undefined
      /\ Ok(read) => \A t \in {Printed(read.item, fmt) : fmt \in BOOLEAN} :
           Parse(t) = [end |-> Len(t) + 1, item |-> read.item]

\* The cut leaves whole what comes before and the opening brace.
Braces(t) == {i \in 1..Len(t) : t[i] = OpenBrace}
AfterBrace(t) == Len(UrlEncode(SubSeq(t, 1, CHOOSE i \in Braces(t) : \A j \in Braces(t) : i <= j)))

\* However long the group is and wherever the name is cut, the decoding of a published text
\* stays in its buffer, and an agent learns what the file says or refuses the node; it never
\* learns a part.  Without a cut it learns the text itself.  The exception is a cut within
\* an escape, with which the parser leaves the text.
LearnsAllOrNothing ==
    Publishes(text) =>
      /\ UrlDecode(UrlEncode(text)) = text
      /\ \A name \in {NodeName(text, room) : room \in AfterBrace(text)..Len(UrlEncode(text))} :
           /\ DecodeFits(name)
           /\ \/ Learn(name) \in {Parse(text), Failure}
              \/ ~EscapesComplete(UrlDecode(name))
=============================================================================
