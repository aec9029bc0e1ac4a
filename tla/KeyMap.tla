------------------------------- MODULE KeyMap -------------------------------
(***************************************************************************)
(* What a dictionary promises: a finite map of which one step changes one   *)
(* key at most, or which is emptied as a whole.                             *)
(***************************************************************************)

VARIABLE m   \* the map, a function on the keys that have an entry

\* Only the entry of k is added, changed or removed.
ChangesOnly(k) ==
    \A x \in (DOMAIN m \cup DOMAIN m') \ {k} :
      x \in DOMAIN m /\ x \in DOMAIN m' /\ m'[x] = m[x]

Init == m = [x \in {} |-> x]

Next ==
    \/ \E k \in DOMAIN m \cup DOMAIN m' : ChangesOnly(k)
    \/ DOMAIN m' = {}

Spec == Init /\ [][Next]_m
=============================================================================
