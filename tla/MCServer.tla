------------------------------ MODULE MCServer ------------------------------
(***************************************************************************)
(* Server for TLC: a client that waits for its answer and one that does     *)
(* not.                                                                     *)
(***************************************************************************)
EXTENDS Server

CONSTANTS c1, c2

MCScripts ==
    [c \in Clients |-> IF c = c1 THEN {<<"good">>}
                       ELSE {<<"good", "good">>, <<"empty", "good">>, <<"bad">>}]
\* FailsBetweenParts without its exception, which a connection breaks that a failed call has
\* put back.
AlwaysBetweenParts ==
    \A s \in Sockets : at[s] = "failed" /\ ~shut[s] =>
      written[s] - unread[s] \in {0, HeaderSize, HeaderSize + length[s]}
=============================================================================
