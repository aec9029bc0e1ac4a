------------------------------ MODULE StrArray ------------------------------
(***************************************************************************)
(* soaagent/str_array.c: the keys of the nodes that provide one service,    *)
(* and the round robin of string_array_next over them.  resource_mgt.c      *)
(* calls these functions under its lock, so that each is one step.          *)
(*                                                                          *)
(* picks and wraps are not in the code: how often each string was returned, *)
(* and how often the counter started over, since the array was changed.     *)
(***************************************************************************)
EXTENDS Integers, SequencesExt

CONSTANTS
    Strings,        \* host:port
    CounterRange,   \* 2^32: counter is a uint32_t
    MaxPicks        \* bound: picks of one string between two changes

ASSUME StrArrayConfig == CounterRange \in Nat \ {0} /\ MaxPicks \in Nat

VARIABLES strs, counter, picks, wraps

arrayVars == <<strs, counter, picks, wraps>>

\* string_array_find, counted from 1; 0 when the string is not there.
StringArrayFind(value) == SelectInSeq(strs, LAMBDA s : s = value)

\* The array has changed: picks are counted anew.
Changed ==
    /\ picks' = [s \in Strings |-> 0] /\ wraps' = 0
    /\ UNCHANGED counter

\* Mutant: the string is added although it is there.
StringArrayAddAgain(value) == strs' = Append(strs, value) /\ Changed

StringArrayAdd(value) ==
    \/ StringArrayFind(value) # 0 /\ UNCHANGED arrayVars
    \/ StringArrayFind(value) = 0 /\ strs' = Append(strs, value) /\ Changed

StringArrayDelete(value) ==
    \/ StringArrayFind(value) = 0 /\ UNCHANGED arrayVars
    \/ /\ StringArrayFind(value) # 0
       /\ strs' = RemoveAt(strs, StringArrayFind(value)) /\ Changed

\* The string whose turn it is, with the index counted from 0 as in the code.
Turn == counter % Len(strs)
Picked == strs[Turn + 1]

StringArrayNext ==
    \/ strs = <<>> /\ UNCHANGED arrayVars
    \/ /\ strs # <<>> /\ picks[Picked] < MaxPicks
       /\ counter' = (counter + 1) % CounterRange
       /\ picks' = [picks EXCEPT ![Picked] = @ + 1]
       /\ wraps' = IF counter' = 0 THEN wraps + 1 ELSE wraps
       /\ UNCHANGED strs

StringArrayInit ==
    /\ strs = <<>> /\ counter = 0
    /\ picks = [s \in Strings |-> 0] /\ wraps = 0

NextArray ==
    \/ \E value \in Strings : StringArrayAdd(value) \/ StringArrayDelete(value)
    \/ StringArrayNext

SpecArray == StringArrayInit /\ [][NextArray]_arrayVars

-----------------------------------------------------------------------------
(***************************************************************************)
(* Properties.                                                              *)
(***************************************************************************)

\* When the number of strings divides the range of the counter, the turns go on where they
\* were when it starts over; otherwise some are left out.
Skips == IF CounterRange % Len(strs) = 0 THEN 0 ELSE wraps

\* Between two changes of its nodes, no node of a service is ahead of another by more than one
\* call, and by one more for each time the counter started over.  So no node is left out,
\* wherever the counter stood when the nodes changed, and none is in the array twice.
Balanced ==
    \A i, j \in 1..Len(strs) : picks[strs[i]] <= picks[strs[j]] + 1 + Skips
=============================================================================
