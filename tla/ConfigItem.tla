----------------------------- MODULE ConfigItem -----------------------------
(***************************************************************************)
(* get_config_item (conf.c) and substitute (util.c), which puts the agent's *)
(* home for every "${AGENT_HOME}" into a buffer of limited size, one        *)
(* replacement per step.                                                    *)
(***************************************************************************)
EXTENDS Integers, SequencesExt

CONSTANTS
    Src,        \* "${AGENT_HOME}"
    Inputs,     \* values of the configuration
    Homes,      \* values of the environment variable
    Sizes       \* sizes of the callers' buffers

\* The first character of "${AGENT_HOME}" is in it once.
ASSUME ConfigItemConfig ==
    /\ Src \in Seq(1..255) /\ Src # <<>>
    /\ \A i \in 2..Len(Src) : Src[i] # Src[1]
    /\ Inputs \subseteq Seq(1..255) /\ Homes \subseteq Seq(1..255)
    /\ Sizes \subseteq Nat \ {0}

VARIABLES
    pInput, pDst, output_len,   \* the arguments
    pi, po, nLeft,              \* the place in the input, what is written, what is left
    at                          \* "call", "find", "copied", "done" or "undefined"

arguments == <<pInput, pDst, output_len>>
itemVars == <<arguments, pi, po, nLeft, at>>

\* strstr: where pSrc is in the input from p on.
Found(t, p) == {q \in p..(Len(t) - Len(Src) + 1) : SubSeq(t, q, q + Len(Src) - 1) = Src}

\* Without the variable, and for a default value, snprintf copies as much as the buffer holds.
NoHome ==
    /\ at = "call" /\ at' = "copied"
    /\ po' = SubSeq(pInput, 1, Min({Len(pInput), output_len - 1}))
    /\ UNCHANGED <<arguments, pi, nLeft>>

HasHome ==
    /\ at = "call" /\ at' = "find"
    /\ UNCHANGED <<arguments, pi, po, nLeft>>

\* The next occurrence, what is before it, and whether its replacement fits.
Occurrence == Min(Found(pInput, pi))
nLen == Occurrence - pi
HasRoom == Found(pInput, pi) # {} /\ nLeft - nLen >= Len(pDst)

\* Mutant: the last character of the name is not skipped.
ReplaceSkipsLess ==
    /\ at = "find" /\ HasRoom
    /\ po' = po \o SubSeq(pInput, pi, Occurrence - 1) \o pDst
    /\ nLeft' = nLeft - nLen - Len(pDst)
    /\ pi' = Occurrence + Len(Src) - 1
    /\ UNCHANGED <<arguments, at>>

Replace ==
    /\ at = "find" /\ HasRoom
    /\ po' = po \o SubSeq(pInput, pi, Occurrence - 1) \o pDst
    /\ nLeft' = nLeft - nLen - Len(pDst)
    /\ pi' = Occurrence + Len(Src)
    /\ UNCHANGED <<arguments, at>>

Remaining == SubSeq(pInput, pi, Len(pInput))

\* Mutant: no byte is kept for the terminator.
CopyFillsBuffer == IF nLeft > Len(Remaining) THEN Len(Remaining) ELSE nLeft

nCopy == IF nLeft > Len(Remaining) THEN Len(Remaining) ELSE nLeft - 1

\* With nothing left, memcpy gets a length of -1.
CopyRest ==
    /\ at = "find" /\ ~HasRoom
    /\ \/ nCopy >= 0 /\ at' = "done" /\ po' = po \o SubSeq(Remaining, 1, nCopy)
       \/ nCopy < 0 /\ at' = "undefined" /\ UNCHANGED po
    /\ UNCHANGED <<arguments, pi, nLeft>>

InitItem ==
    /\ pInput \in Inputs /\ pDst \in Homes /\ output_len \in Sizes
    /\ pi = 1 /\ po = <<>> /\ nLeft = output_len
    /\ at = "call"

NextItem == NoHome \/ HasHome \/ Replace \/ CopyRest

SpecItem == InitItem /\ [][NextItem]_itemVars

-----------------------------------------------------------------------------
(***************************************************************************)
(* Properties.                                                              *)
(***************************************************************************)

\* What becomes of byte i of the text: the first of a name becomes the home, the others
\* vanish.
Becomes(t, home, i) ==
    IF i \in Found(t, 1) THEN home
    ELSE IF \E q \in Found(t, 1) : q < i /\ i < q + Len(Src) THEN <<>>
    ELSE <<t[i]>>

\* The first k bytes of a text with every name replaced.
Expanded(t, home, k) == FlattenSeq([i \in 1..k |-> Becomes(t, home, i)])
Expansion == Expanded(pInput, pDst, Len(pInput))

\* When the text with all names replaced and its terminator fit into the buffer, substitute
\* writes that text, whatever the home holds and wherever the names are, and its loop does not
\* end early.
ReplacesAll ==
    Len(Expansion) < output_len =>
      at # "undefined" /\ (at = "done" => po = Expansion)

\* The text and its terminator never leave the buffer.  What is written is the text with
\* its names replaced up to one place and the text as it is from there on.  The exception are
\* replacements that fill the buffer to its last byte.
StaysInBuffer ==
    /\ at \in {"copied", "done"} => Len(po) < output_len
    /\ at = "undefined" => Len(Expanded(pInput, pDst, pi - 1)) = output_len
    /\ \E k \in 0..Len(pInput) :
         \E m \in k..Len(pInput) : po = Expanded(pInput, pDst, k) \o SubSeq(pInput, k + 1, m)
=============================================================================
