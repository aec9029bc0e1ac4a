---------------------------- MODULE MCDiscovery ----------------------------
(***************************************************************************)
(* Discovery for TLC: two groups; in g1 two providers, one of them offering *)
(* two services; in g2 one provider.                                        *)
(***************************************************************************)
EXTENDS Discovery, TLC

CONSTANTS g1, g2, s1, s2, s3, c1, c2, c3, e11, e12, e21, e33

MCGroups == {g1, g2}
MCServices == {s1, s2, s3}
MCChildren == {c1, c2, c3}
MCEntries == {e11, e12, e21, e33}
MCGroupOf == s1 :> g1 @@ s2 :> g1 @@ s3 :> g2
MCServiceOf == e11 :> s1 @@ e12 :> s1 @@ e21 :> s2 @@ e33 :> s3
MCUnder == c1 :> g1 @@ c2 :> g1 @@ c3 :> g2
MCOffers == c1 :> {e11, e21} @@ c2 :> {e12} @@ c3 :> {e33}

\* One provider in each group, for the liveness property.
MCTwoChildren == {c1, c3}
MCTwoUnder == c1 :> g1 @@ c3 :> g2
MCTwoOffers == c1 :> {e11, e21} @@ c3 :> {e33}

\* The service s2 is declared later than s1.
MCDeclares == <<{s1}, {s1, s2, s3}>>

\* Between two good contents the file is found half written.
MCBrokenDeclares == <<{s1}, Malformed, {s1, s2, s3}>>
=============================================================================
