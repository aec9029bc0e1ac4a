----------------------------- MODULE Dictionary -----------------------------
(***************************************************************************)
(* The dictionary of the configuration (soaagent/dictionary.c): three       *)
(* arrays of size slots, of which n are in use.  Removing an entry leaves a *)
(* hole; a new entry goes into the first free slot from position n on.  The *)
(* hash only saves comparisons and is left out, and memory is sufficient.   *)
(***************************************************************************)
EXTENDS Integers, FiniteSets

CONSTANTS
    Keys, Values,
    Null,        \* NULL: no key in a slot, no value for a key
    MinSize      \* DICTMINSZ

ASSUME DictionaryConfig == Null \notin Keys /\ MinSize \in Nat \ {0}

VARIABLES size, n, key, val

dictVars == <<size, n, key, val>>

Slots == 0..(size - 1)
Used == {i \in Slots : key[i] # Null}
Find(k) == {i \in Slots : key[i] = k}
First(S) == CHOOSE i \in S : \A j \in S : i <= j

InitDict == size = 0 /\ n = 0 /\ key = [i \in {} |-> Null] /\ val = [i \in {} |-> Null]

DictionaryNew ==
    /\ size' = MinSize /\ n' = 0
    /\ key' = [i \in 0..(MinSize - 1) |-> Null] /\ val' = [i \in 0..(MinSize - 1) |-> Null]

DictionaryDel ==
    /\ size' = 0 /\ n' = 0
    /\ key' = [i \in {} |-> Null] /\ val' = [i \in {} |-> Null]

DictionaryGet(k, def) == IF Find(k) = {} THEN def ELSE val[First(Find(k))]

\* Mutant: only half of the old array is copied.
GrownHalf(a) == [i \in 0..(2 * size - 1) |-> IF i < size \div 2 THEN a[i] ELSE Null]

\* mem_double.
Grown(a) == [i \in 0..(2 * size - 1) |-> IF i < size THEN a[i] ELSE Null]

\* Mutant: slot n is taken to be free.
FreeSlotAtN(keys, sz) == n

\* The first free slot, from n on and around the end.
FreeSlot(keys, sz) ==
    LET Ahead(i) == (i + sz - n) % sz
    IN CHOOSE i \in 0..(sz - 1) :
         keys[i] = Null /\ \A j \in 0..(sz - 1) : keys[j] = Null => Ahead(i) <= Ahead(j)

DictionarySet(k, v) ==
    IF Find(k) # {}
    THEN val' = [val EXCEPT ![First(Find(k))] = v] /\ UNCHANGED <<size, n, key>>
    ELSE LET full == n = size
             sz == IF full THEN 2 * size ELSE size
             keys == IF full THEN Grown(key) ELSE key
             vals == IF full THEN Grown(val) ELSE val
             i == FreeSlot(keys, sz)
         IN /\ size' = sz /\ n' = n + 1
            /\ key' = [keys EXCEPT ![i] = k] /\ val' = [vals EXCEPT ![i] = v]

DictionaryUnset(k) ==
    IF Find(k) = {} THEN UNCHANGED dictVars
    ELSE /\ key' = [key EXCEPT ![First(Find(k))] = Null]
         /\ val' = [val EXCEPT ![First(Find(k))] = Null]
         /\ n' = n - 1 /\ UNCHANGED size

-----------------------------------------------------------------------------
(***************************************************************************)
(* Properties.                                                              *)
(***************************************************************************)

\* The entries as a map.
Contents == [k \in {key[i] : i \in Used} |-> DictionaryGet(k, Null)]

Map == INSTANCE KeyMap WITH m <- Contents

\* The dictionary implements a map: setting and unsetting a key leaves every other entry as it
\* is, also when the arrays are doubled and slots of removed keys are taken again.
RefinesMap == Map!Spec

\* n counts the slots in use, no key is in two slots, and a free slot has no value: without
\* the first the search for a free slot would not end, without the second a removed key
\* would come back.
TypeOKDict ==
    /\ size \in Nat
    /\ key \in [Slots -> Keys \cup {Null}] /\ val \in [Slots -> Values \cup {Null}]
    /\ n = Cardinality(Used)
    /\ \A i, j \in Used : key[i] = key[j] => i = j
    /\ \A i \in Slots \ Used : val[i] = Null
=============================================================================
