--------------------------- MODULE MCAgentControl ---------------------------
(***************************************************************************)
(* AgentControl for TLC.                                                    *)
(***************************************************************************)
EXTENDS AgentControl, TLC

ControlSymmetry == Permutations(Pids) \cup Permutations(Scripts)
=============================================================================
