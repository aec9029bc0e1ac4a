------------------------------ MODULE MCTables ------------------------------
(***************************************************************************)
(* ResourceMgt and StrArray for TLC.  They share no variable, and a step of *)
(* one commutes with every step of the other: it is enough that one of them *)
(* is at work while the other is as at the start.                           *)
(***************************************************************************)
EXTENDS MCResourceMgt, StrArray

InitBoth == Init /\ StringArrayInit

NextEither ==
    \/ StringArrayInit /\ Next /\ UNCHANGED arrayVars
    \/ Init /\ NextArray /\ UNCHANGED vars

SpecEither == InitBoth /\ [][NextEither]_<<vars, arrayVars>>
=============================================================================
