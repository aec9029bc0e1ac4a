---------------------------- MODULE MCProvider ----------------------------
(***************************************************************************)
(* Provider for TLC: the PHP thread and the completion threads.             *)
(***************************************************************************)
EXTENDS Provider

MCThreads == {Main} \cup Sessions
=============================================================================
