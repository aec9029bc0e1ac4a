--------------------------- MODULE Formats_proofs ---------------------------
(***************************************************************************)
(* Safety of the configuration, for arrays of any size, any file and any    *)
(* changes: the dictionary is a map, a file is loaded as the map it means,  *)
(* what is dumped is what would be loaded again, and a value is given out   *)
(* with the agent's home in it.  And of the names of nodes, for any text    *)
(* and any cut: what is decoded is what was encoded.                        *)
(***************************************************************************)
EXTENDS Settings, NodeNames, ConfigItem, FiniteSetTheorems, SequenceTheorems, TLAPS

\* What lines are made of: tokens, of which the ones in brackets name sections.
Vocabulary(Names, Tokens) ==
    /\ "" \in Names /\ \A t \in Tokens : t[1] = "section" => t[2] \in Names
    /\ Lines \subseteq [text : Seq(Tokens), continued : BOOLEAN]
    /\ Keys = Names \X Seq(Tokens) /\ Values = Seq(Tokens)
    /\ SetKeys \subseteq Keys /\ SetValues \subseteq Values

-----------------------------------------------------------------------------
(***************************************************************************)
(* Numbers.                                                                 *)
(***************************************************************************)

\* The first of some numbers.
LEMMA Least ==
    ASSUME NEW S \in SUBSET Nat, S # {}
    PROVE  First(S) \in S /\ \A j \in S : First(S) <= j
<1> DEFINE R == {p \in Nat \X Nat : p[1] < p[2]}
<1>1. IsWellFoundedOn(R, Nat)
  BY NatLessThanWellFounded, Zenon DEF OpToRel
<1> HIDE DEF R
<1>2. PICK x \in S : \A y \in S : ~(<<y, x>> \in R)
  BY <1>1, WFMin
<1>3. ASSUME NEW y \in S PROVE x <= y
  <2>1. x \in Nat /\ y \in Nat /\ <<y, x>> \in Nat \X Nat /\ <<y, x>> \notin R
    BY <1>2
  <2>2. ~(y < x)
    BY <2>1 DEF R
  <2> QED
    BY <2>1, <2>2
<1> QED
  BY <1>3 DEF First

\* Induction over a set of numbers.
LEMMA Induct ==
    ASSUME NEW S, 0 \in S, \A c \in Nat : c \in S => c + 1 \in S
    PROVE  Nat \subseteq S
<1> SUFFICES ASSUME Nat \ S # {} PROVE FALSE
  OBVIOUS
<1>1. PICK x \in Nat \ S : \A y \in Nat \ S : x <= y
  BY Least
<1>2. x # 0 /\ x - 1 \in Nat /\ x - 1 \in S
  BY <1>1
<1>3. (x - 1) + 1 = x
  BY <1>1
<1> QED
  BY <1>1, <1>2, <1>3

\* The last of some numbers.
LEMMA MaxIs ==
    ASSUME NEW S \in SUBSET Nat, NEW x \in S, \A y \in S : y <= x
    PROVE  Max(S) = x
<1>1. \E m \in S : \A y \in S : m >= y
  OBVIOUS
<1>2. Max(S) \in S /\ \A y \in S : Max(S) >= y
  BY <1>1, Zenon DEF Max
<1>3. Max(S) \in Nat /\ x \in Nat /\ Max(S) >= x /\ Max(S) <= x
  BY <1>2
<1> HIDE DEF Max
<1> QED
  BY <1>3

LEMMA Greatest ==
    ASSUME NEW b \in Nat, NEW S \in SUBSET (0..b), S # {}
    PROVE  Max(S) \in S /\ \A y \in S : y <= Max(S)
<1> DEFINE R == {b - y : y \in S}
<1>1. R \in SUBSET Nat /\ R # {}
  <2>1. \A y \in S : y \in 0..b
    OBVIOUS
  <2>2. \A y \in S : b - y \in Nat
    BY <2>1
  <2> QED
    BY <2>2
<1>2. PICK r \in R : \A q \in R : r <= q
  BY <1>1, Least
<1>3. PICK x \in S : r = b - x
  BY <1>2
<1>4. \A y \in S : y <= x
  <2>1. ASSUME NEW y \in S PROVE y <= x
    <3>1. x \in 0..b /\ y \in 0..b
      BY <1>3
    <3>2. b - x <= b - y
      BY <1>2, <1>3
    <3> QED
      BY <3>1, <3>2
  <2> QED
    BY <2>1
<1>5. Max(S) = x
  BY <1>4, MaxIs
<1> QED
  BY <1>4, <1>5

-----------------------------------------------------------------------------
(***************************************************************************)
(* FlattenSeq.  It is defined by a recursive function; h solves the         *)
(* equation of this function for the first c sequences of ss.               *)
(***************************************************************************)
Solves(h, ss, c) == h = [i \in 1..c |-> IF i = 1 THEN ss[i] ELSE h[i - 1] \o ss[i]]

LEMMA FlattenIs ==
    ASSUME NEW ss, Len(ss) # 0
    PROVE  FlattenSeq(ss) = (CHOOSE h : Solves(h, ss, Len(ss)))[Len(ss)]
BY Zenon DEF FlattenSeq, Solves

\* What the equation says of one element.
LEMMA SolvesAt ==
    ASSUME NEW ss, NEW c, NEW h, Solves(h, ss, c), NEW i \in 1..c
    PROVE  h[i] = IF i = 1 THEN ss[i] ELSE h[i - 1] \o ss[i]
<1> DEFINE f == [j \in 1..c |-> IF j = 1 THEN ss[j] ELSE h[j - 1] \o ss[j]]
<1>1. h = f
  BY Zenon DEF Solves
<1>2. f[i] = IF i = 1 THEN ss[i] ELSE h[i - 1] \o ss[i]
  BY Zenon
<1>3. h[i] = f[i]
  BY <1>1, Zenon
<1> HIDE DEF f
<1> QED
  BY <1>2, <1>3, Zenon

\* There is a solution for every length,
LEMMA Solvable ==
    ASSUME NEW ss, NEW c \in Nat
    PROVE  \E h : Solves(h, ss, c)
<1> DEFINE S == {m \in Nat : \E h : Solves(h, ss, m)}
<1>1. 0 \in S
  <2> DEFINE h == [i \in 1..0 |-> <<>>]
  <2>1. h = [i \in 1..0 |-> IF i = 1 THEN ss[i] ELSE h[i - 1] \o ss[i]]
    OBVIOUS
  <2> QED
    BY <2>1 DEF Solves
<1>2. ASSUME NEW m \in Nat, m \in S PROVE m + 1 \in S
  <2>1. PICK h : Solves(h, ss, m)
    BY <1>2
  <2> DEFINE g == [i \in 1..(m + 1) |->
                     IF i = 1 THEN ss[i] ELSE h[i - 1] \o ss[i]]
  <2>2. ASSUME NEW i \in 1..(m + 1), i # 1 PROVE g[i - 1] = h[i - 1]
    <3>1. i - 1 \in 1..m /\ i - 1 \in 1..(m + 1)
      BY <2>2
    <3>2. g[i - 1] = IF i - 1 = 1 THEN ss[i - 1] ELSE h[i - 1 - 1] \o ss[i - 1]
      BY <3>1
    <3>3. h[i - 1] = IF i - 1 = 1 THEN ss[i - 1] ELSE h[i - 1 - 1] \o ss[i - 1]
      BY <2>1, <3>1, SolvesAt
    <3> QED
      BY <3>2, <3>3
  <2>3. g = [i \in 1..(m + 1) |-> IF i = 1 THEN ss[i] ELSE g[i - 1] \o ss[i]]
    BY <2>2
  <2> HIDE DEF g
  <2>4. Solves(g, ss, m + 1)
    BY <2>3, Zenon DEF Solves
  <2>5. m + 1 \in Nat
    OBVIOUS
  <2> QED
    BY <2>4, <2>5
<1> HIDE DEF S
<1>3. Nat \subseteq S
  BY <1>1, <1>2, Induct
<1> QED
  BY <1>3 DEF S

\* and solutions agree as far as the sequences do.
Alike(T, k, ss, rr) == \A i \in 1..k : ss[i] \in Seq(T) /\ rr[i] = ss[i]

LEMMA SameSolution ==
    ASSUME NEW T, NEW k \in Nat,
           NEW ss, NEW rr, Alike(T, k, ss, rr),
           NEW h, NEW g, Solves(h, ss, k), Solves(g, rr, k + 1)
    PROVE  Alike(T, k, h, g)
<1> DEFINE S == {j \in Nat : j \in 1..k => h[j] \in Seq(T) /\ g[j] = h[j]}
<1>1. 0 \in S
  OBVIOUS
<1>2. ASSUME NEW j \in Nat, j \in S PROVE j + 1 \in S
  <2> SUFFICES ASSUME j + 1 \in 1..k PROVE h[j + 1] \in Seq(T) /\ g[j + 1] = h[j + 1]
    OBVIOUS
  <2>1. /\ h[j + 1] = IF j + 1 = 1 THEN ss[j + 1] ELSE h[j + 1 - 1] \o ss[j + 1]
        /\ g[j + 1] = IF j + 1 = 1 THEN rr[j + 1] ELSE g[j + 1 - 1] \o rr[j + 1]
    <3>1. j + 1 \in 1..k /\ j + 1 \in 1..(k + 1)
      OBVIOUS
    <3> QED
      BY <3>1, SolvesAt
  <2>2. ss[j + 1] \in Seq(T) /\ rr[j + 1] = ss[j + 1] /\ j + 1 - 1 = j
    BY DEF Alike
  <2>3. CASE j = 0
    BY <2>1, <2>2, <2>3
  <2>4. CASE j # 0
    <3>1. h[j] \in Seq(T) /\ g[j] = h[j]
      BY <1>2, <2>4
    <3>2. h[j + 1] = h[j] \o ss[j + 1] /\ g[j + 1] = h[j] \o ss[j + 1]
      <4>1. j + 1 # 1
        BY <2>4
      <4>2. h[j + 1] = h[j + 1 - 1] \o ss[j + 1] /\ g[j + 1] = g[j + 1 - 1] \o rr[j + 1]
        BY <2>1, <4>1, Zenon
      <4> QED
        BY <2>2, <3>1, <4>2, Zenon
    <3> QED
      BY <2>2, <3>1, <3>2, ConcatProperties
  <2> QED
    BY <2>3, <2>4
<1> HIDE DEF S
<1>3. Nat \subseteq S
  BY <1>1, <1>2, Induct
<1> QED
  BY <1>3 DEF S, Alike

\* FlattenSeq is the last element of such a solution.
LEMMA FlattenSolution ==
    ASSUME NEW ss, NEW c \in Nat \ {0}, Len(ss) = c
    PROVE  \E h : Solves(h, ss, c) /\ FlattenSeq(ss) = h[c]
<1>1. \E h : Solves(h, ss, c)
  BY Solvable
<1>2. FlattenSeq(ss) = (CHOOSE h : Solves(h, ss, c))[c]
  BY FlattenIs, Zenon
<1> QED
  BY <1>1, <1>2, Zenon

\* FlattenSeq concatenates: it is <<>> for no sequence, and one more is appended to it.
LEMMA FlattenEmpty == FlattenSeq(<<>>) = <<>>
BY DEF FlattenSeq

LEMMA FlattenAppend ==
    ASSUME NEW T, NEW ss \in Seq(Seq(T)), NEW t \in Seq(T)
    PROVE  /\ FlattenSeq(ss) \in Seq(T)
           /\ FlattenSeq(Append(ss, t)) = FlattenSeq(ss) \o t
<1>1. PICK c \in Nat : c = Len(ss)
  OBVIOUS
<1>2. PICK rr : rr = Append(ss, t)
  OBVIOUS
<1>3. /\ Len(rr) = c + 1 /\ rr[c + 1] = t /\ c + 1 \in Nat \ {0}
      /\ \A i \in 1..c : ss[i] \in Seq(T) /\ rr[i] = ss[i]
  BY <1>1, <1>2
<1>4. PICK g : Solves(g, rr, c + 1) /\ FlattenSeq(rr) = g[c + 1]
  BY <1>3, FlattenSolution
<1>5. g[c + 1] = IF c + 1 = 1 THEN t ELSE g[c] \o t
  <2>1. c + 1 \in 1..(c + 1) /\ c + 1 - 1 = c
    OBVIOUS
  <2>2. g[c + 1] = IF c + 1 = 1 THEN rr[c + 1] ELSE g[c + 1 - 1] \o rr[c + 1]
    BY <1>4, <2>1, SolvesAt
  <2> QED
    BY <1>3, <2>1, <2>2
<1>6. CASE c = 0
  <2>1. ss = <<>>
    BY <1>1, <1>6, EmptySeq
  <2>2. FlattenSeq(ss) = <<>>
    BY <2>1, FlattenEmpty
  <2>3. FlattenSeq(rr) = t
    BY <1>4, <1>5, <1>6
  <2> QED
    BY <1>2, <2>2, <2>3
<1>7. CASE c # 0
  <2>1. PICK h : Solves(h, ss, c) /\ FlattenSeq(ss) = h[c]
    BY <1>1, <1>7, FlattenSolution
  <2>2. c <= c /\ c <= c + 1 /\ c \in 1..c /\ c + 1 # 1
    BY <1>7
  <2>3. Alike(T, c, h, g)
    <3>1. Alike(T, c, ss, rr)
      BY <1>3 DEF Alike
    <3> QED
      BY <1>4, <2>1, <3>1, SameSolution, Zenon
  <2>4. h[c] \in Seq(T) /\ g[c] = h[c]
    BY <2>2, <2>3 DEF Alike
  <2> QED
    BY <1>2, <1>4, <1>5, <2>1, <2>2, <2>4
<1> QED
  BY <1>6, <1>7

-----------------------------------------------------------------------------
(***************************************************************************)
(* Searching the arrays.                                                    *)
(***************************************************************************)

\* A key is in one slot, which is the one dictionary_get finds.
LEMMA OnlySlot ==
    ASSUME TypeOKDict, NEW i \in Used
    PROVE  /\ Find(key[i]) = {i} /\ First(Find(key[i])) = i
           /\ DictionaryGet(key[i], Null) = val[i]
<1>1. Find(key[i]) = {i}
  BY DEF TypeOKDict, Find, Used
<1>2. i \in Nat
  BY DEF Used, Slots, TypeOKDict
<1>3. First({i}) = i
  BY <1>2 DEF First
<1> QED
  BY <1>1, <1>3 DEF DictionaryGet

\* When some slot is free, the search that starts at slot n and goes around the end finds
\* a free one.
LEMMA SearchEnds ==
    ASSUME n \in Nat, NEW sz \in Nat \ {0}, NEW keys, NEW f \in 0..(sz - 1), keys[f] = Null
    PROVE  FreeSlot(keys, sz) \in 0..(sz - 1) /\ keys[FreeSlot(keys, sz)] = Null
<1> DEFINE Ahead(i) == (i + sz - n) % sz
           Free == {i \in 0..(sz - 1) : keys[i] = Null}
           Ways == {Ahead(i) : i \in Free}
<1>1. \A i \in 0..(sz - 1) : Ahead(i) \in Nat
  OBVIOUS
<1> HIDE DEF Ahead
<1>2. Ways \in SUBSET Nat /\ Ways # {}
  BY <1>1
<1>3. PICK w \in Ways : \A v \in Ways : w <= v
  BY <1>2, Least
<1>4. PICK i \in Free : w = Ahead(i)
  BY <1>3
<1>5. i \in 0..(sz - 1) /\ keys[i] = Null /\ \A j \in 0..(sz - 1) : keys[j] = Null => Ahead(i) <= Ahead(j)
  BY <1>3, <1>4
<1> QED
  BY <1>5 DEF FreeSlot, Ahead

\* The slots are finitely many, and one of them is free unless n has reached the size.
LEMMA Room ==
    ASSUME TypeOKDict
    PROVE  /\ IsFiniteSet(Used) /\ n \in Nat /\ n <= size
           /\ n # size => \E i \in Slots : key[i] = Null
<1>1. size \in Nat /\ n = Cardinality(Used) /\ Used \subseteq Slots
  BY DEF TypeOKDict, Used
<1>2. IsFiniteSet(Slots) /\ Cardinality(Slots) = size
  <2>1. IsFiniteSet(0..(size - 1)) /\
        Cardinality(0..(size - 1)) = IF 0 > size - 1 THEN 0 ELSE (size - 1) - 0 + 1
    BY <1>1, FS_Interval
  <2> QED
    BY <1>1, <2>1 DEF Slots
<1>3. IsFiniteSet(Used) /\ Cardinality(Used) <= Cardinality(Slots)
  BY <1>1, <1>2, FS_Subset
<1>4. Cardinality(Used) \in Nat
  BY <1>3, FS_CardinalityType
<1>5. n # size => Used # Slots
  BY <1>1, <1>2
<1> QED
  BY <1>1, <1>2, <1>3, <1>4, <1>5 DEF Used

-----------------------------------------------------------------------------
(***************************************************************************)
(* What the operations do to the entries.                                   *)
(***************************************************************************)

\* The arrays with entry k, v in slot i and the other entries where they were.
Arrays(sz, i, k, v) ==
    /\ size' = sz
    /\ key' = [j \in 0..(sz - 1) |-> IF j = i THEN k ELSE IF j \in Used THEN key[j] ELSE Null]
    /\ val' = [j \in 0..(sz - 1) |-> IF j = i THEN v ELSE IF j \in Used THEN val[j] ELSE Null]

\* dictionary_set gives the key's own slot the new value, or takes a free slot of the arrays,
\* which are doubled first when there is none; no entry moves or is lost.
LEMMA SetEffect ==
    ASSUME TypeOKDict, size > 0, NEW k \in Keys, NEW v, DictionarySet(k, v)
    PROVE  \/ \E i \in Used : key[i] = k /\ Arrays(size, i, k, v) /\ n' = n
           \/ /\ \A i \in Used : key[i] # k
              /\ \E sz \in Nat : \E i \in 0..(sz - 1) :
                   sz >= size /\ i \notin Used /\ Arrays(sz, i, k, v) /\ n' = n + 1
<1>0. /\ size \in Nat /\ key \in [Slots -> Keys \cup {Null}] /\ DOMAIN val = Slots
      /\ val = [j \in Slots |-> val[j]]
      /\ \A j \in Slots \ Used : key[j] = Null /\ val[j] = Null
      /\ Used \subseteq Slots /\ k # Null
  BY DictionaryConfig DEF TypeOKDict, Used
<1>1. CASE Find(k) # {}
  <2>1. PICK i \in Slots : key[i] = k
    BY <1>1 DEF Find
  <2>2. i \in Used
    BY <1>0, <2>1 DEF Used
  <2>3. First(Find(k)) = i
    BY <2>1, <2>2, OnlySlot
  <2>4. val' = [val EXCEPT ![i] = v] /\ UNCHANGED <<size, n, key>>
    BY <1>1, <2>3 DEF DictionarySet
  <2>5. Arrays(size, i, k, v)
    <3>1. key' = [j \in 0..(size - 1) |-> IF j = i THEN k ELSE IF j \in Used THEN key[j] ELSE Null]
      BY <1>0, <2>1, <2>4 DEF Slots
    <3>2. val' = [j \in 0..(size - 1) |-> IF j = i THEN v ELSE IF j \in Used THEN val[j] ELSE Null]
      BY <1>0, <2>1, <2>4 DEF Slots
    <3> QED
      BY <2>4, <3>1, <3>2 DEF Arrays
  <2> QED
    BY <2>1, <2>2, <2>4, <2>5
<1>2. CASE Find(k) = {}
  <2> DEFINE sz == IF n = size THEN 2 * size ELSE size
             keys == IF n = size THEN Grown(key) ELSE key
             vals == IF n = size THEN Grown(val) ELSE val
             i == FreeSlot(keys, sz)
  <2>1. /\ size' = sz /\ n' = n + 1
        /\ key' = [keys EXCEPT ![i] = k] /\ val' = [vals EXCEPT ![i] = v]
    BY <1>2 DEF DictionarySet
  <2>2. sz \in Nat \ {0} /\ sz >= size
    BY <1>0
  <2>3. /\ keys = [j \in 0..(sz - 1) |-> IF j \in Used THEN key[j] ELSE Null]
        /\ vals = [j \in 0..(sz - 1) |-> IF j \in Used THEN val[j] ELSE Null]
    <3>1. CASE n = size
      <4>1. \A j \in 0..(2 * size - 1) : j < size <=> j \in Slots
        BY <1>0 DEF Slots
      <4> QED
        BY <1>0, <3>1, <4>1 DEF Grown
    <3>2. CASE n # size
      BY <1>0, <3>2 DEF Slots
    <3> QED
      BY <3>1, <3>2
  <2>4. \E f \in 0..(sz - 1) : keys[f] = Null
    <3>1. CASE n = size
      <4>1. size \in 0..(sz - 1) /\ size \notin Used
        BY <1>0, <3>1 DEF Slots
      <4> QED
        BY <2>3, <4>1
    <3>2. CASE n # size
      BY <3>2, Room DEF Slots
    <3> QED
      BY <3>1, <3>2
  <2> HIDE DEF sz, keys, vals
  <2>5. i \in 0..(sz - 1) /\ keys[i] = Null
    BY <2>2, <2>4, Room, SearchEnds
  <2> HIDE DEF i
  <2>6. i \notin Used
    BY <2>3, <2>5 DEF Used
  <2>7. Arrays(sz, i, k, v)
    BY <2>1, <2>3, <2>5 DEF Arrays
  <2>8. \A j \in Used : key[j] # k
    BY <1>2 DEF Find, Used
  <2> QED
    BY <2>1, <2>2, <2>5, <2>6, <2>7, <2>8
<1> QED
  BY <1>1, <1>2

\* dictionary_unset empties the key's slot.
LEMMA UnsetEffect ==
    ASSUME TypeOKDict, NEW k \in Keys, DictionaryUnset(k)
    PROVE  \/ UNCHANGED dictVars
           \/ \E i \in Used : key[i] = k /\ Arrays(size, i, Null, Null) /\ n' = n - 1
<1>0. /\ size \in Nat /\ key \in [Slots -> Keys \cup {Null}]
      /\ val = [j \in Slots |-> val[j]]
      /\ \A j \in Slots \ Used : key[j] = Null /\ val[j] = Null
      /\ Used \subseteq Slots /\ k # Null
  BY DictionaryConfig DEF TypeOKDict, Used
<1>1. CASE Find(k) = {}
  BY <1>1 DEF DictionaryUnset
<1>2. CASE Find(k) # {}
  <2>1. PICK i \in Slots : key[i] = k
    BY <1>2 DEF Find
  <2>2. i \in Used
    BY <1>0, <2>1 DEF Used
  <2>3. First(Find(k)) = i
    BY <2>1, <2>2, OnlySlot
  <2>4. /\ key' = [key EXCEPT ![i] = Null] /\ val' = [val EXCEPT ![i] = Null]
        /\ size' = size /\ n' = n - 1
    BY <1>2, <2>3 DEF DictionaryUnset
  <2>5. Arrays(size, i, Null, Null)
    BY <1>0, <2>1, <2>4 DEF Arrays, Slots
  <2> QED
    BY <2>1, <2>2, <2>4, <2>5
<1> QED
  BY <1>1, <1>2

\* An entry more, or the same entry with another value: the arrays are as they should be.
LEMMA ArraysKeep ==
    ASSUME TypeOKDict, NEW sz \in Nat, sz >= size, NEW i \in 0..(sz - 1),
           NEW k \in Keys, NEW v \in Values \cup {Null}, Arrays(sz, i, k, v),
           \A j \in Used : key[j] = k => j = i,
           n' = IF i \in Used THEN n ELSE n + 1
    PROVE  TypeOKDict' /\ Used' = Used \cup {i}
<1>0. /\ size \in Nat /\ Used \subseteq 0..(sz - 1) /\ k # Null
      /\ \A j \in Used : key[j] \in Keys /\ val[j] \in Values \cup {Null} /\ key[j] # Null
  BY DictionaryConfig DEF TypeOKDict, Used, Slots
<1>1. /\ size' = sz
      /\ key' = [j \in 0..(sz - 1) |-> IF j = i THEN k ELSE IF j \in Used THEN key[j] ELSE Null]
      /\ val' = [j \in 0..(sz - 1) |-> IF j = i THEN v ELSE IF j \in Used THEN val[j] ELSE Null]
  BY DEF Arrays
<1>2. Used' = Used \cup {i} /\ Slots' = 0..(sz - 1)
  BY <1>0, <1>1 DEF Used, Slots
<1>3. key' \in [Slots' -> Keys \cup {Null}] /\ val' \in [Slots' -> Values \cup {Null}]
  BY <1>0, <1>1, <1>2
<1>4. n' = Cardinality(Used)'
  <2>1. IsFiniteSet(Used) /\ n = Cardinality(Used)
    BY Room DEF TypeOKDict
  <2>2. CASE i \in Used
    <3>1. Used' = Used
      BY <1>2, <2>2
    <3> QED
      BY <2>1, <2>2, <3>1
  <2>3. CASE i \notin Used
    <3>1. Cardinality(Used \cup {i}) = Cardinality(Used) + 1
      BY <2>1, <2>3, FS_AddElement
    <3> QED
      BY <1>2, <2>1, <2>3, <3>1
  <2> QED
    BY <2>2, <2>3
<1>5. \A a, b \in Used' : key'[a] = key'[b] => a = b
  <2>1. \A a, b \in Used : key[a] = key[b] => a = b
    BY DEF TypeOKDict
  <2>2. \A a \in Used' : key'[a] = IF a = i THEN k ELSE key[a]
    BY <1>0, <1>1, <1>2
  <2> QED
    BY <1>2, <2>1, <2>2
<1>6. \A j \in Slots' \ Used' : val'[j] = Null
  BY <1>1, <1>2
<1> QED
  BY <1>1, <1>2, <1>3, <1>4, <1>5, <1>6 DEF TypeOKDict

\* An entry less.
LEMMA RemovalKeeps ==
    ASSUME TypeOKDict, NEW i \in Used, Arrays(size, i, Null, Null), n' = n - 1
    PROVE  TypeOKDict' /\ Used' = Used \ {i}
<1>0. /\ size \in Nat /\ Used \subseteq 0..(size - 1)
      /\ \A j \in Used : key[j] \in Keys /\ val[j] \in Values \cup {Null} /\ key[j] # Null
  BY DEF TypeOKDict, Used, Slots
<1>1. /\ size' = size
      /\ key' = [j \in 0..(size - 1) |-> IF j = i THEN Null ELSE IF j \in Used THEN key[j] ELSE Null]
      /\ val' = [j \in 0..(size - 1) |-> IF j = i THEN Null ELSE IF j \in Used THEN val[j] ELSE Null]
  BY DEF Arrays
<1>2. Used' = Used \ {i} /\ Slots' = 0..(size - 1)
  BY <1>0, <1>1 DEF Used, Slots
<1>3. key' \in [Slots' -> Keys \cup {Null}] /\ val' \in [Slots' -> Values \cup {Null}]
  BY <1>0, <1>1, <1>2
<1>4. n' = Cardinality(Used)'
  <2>1. IsFiniteSet(Used) /\ n = Cardinality(Used)
    BY Room DEF TypeOKDict
  <2>2. Cardinality(Used \ {i}) = Cardinality(Used) - 1
    BY <2>1, FS_RemoveElement
  <2> QED
    BY <1>2, <2>1, <2>2
<1>5. \A a, b \in Used' : key'[a] = key'[b] => a = b
  <2>1. \A a, b \in Used : key[a] = key[b] => a = b
    BY DEF TypeOKDict
  <2>2. \A a \in Used' : key'[a] = key[a]
    BY <1>0, <1>1, <1>2
  <2> QED
    BY <1>2, <2>1, <2>2
<1>6. \A j \in Slots' \ Used' : val'[j] = Null
  BY <1>1, <1>2
<1> QED
  BY <1>0, <1>1, <1>2, <1>3, <1>4, <1>5, <1>6 DEF TypeOKDict

\* dictionary_new and dictionary_del leave no entry.
LEMMA EmptyKeeps ==
    ASSUME DictionaryNew \/ DictionaryDel
    PROVE  TypeOKDict' /\ Used' = {} /\ (DictionaryNew => size' > 0)
<1>1. /\ size' \in Nat /\ n' = 0
      /\ key' = [i \in 0..(size' - 1) |-> Null] /\ val' = [i \in 0..(size' - 1) |-> Null]
  <2>1. CASE DictionaryNew
    BY <2>1, DictionaryConfig DEF DictionaryNew
  <2>2. CASE DictionaryDel
    <3>1. 0..(0 - 1) = {}
      OBVIOUS
    <3> QED
      BY <2>2, <3>1 DEF DictionaryDel
  <2> QED
    BY <2>1, <2>2
<1>2. Used' = {} /\ Slots' = 0..(size' - 1)
  BY <1>1 DEF Used, Slots
<1>3. Cardinality(Used)' = 0
  BY <1>2, FS_EmptySet
<1>4. DictionaryNew => size' > 0
  BY DictionaryConfig DEF DictionaryNew
<1> QED
  BY <1>1, <1>2, <1>3, <1>4 DEF TypeOKDict

-----------------------------------------------------------------------------
(***************************************************************************)
(* The map.                                                                 *)
(***************************************************************************)

\* The entries, as slots and as the map.
LEMMA ContentsAre ==
    ASSUME TypeOKDict
    PROVE  /\ DOMAIN Contents = {key[i] : i \in Used}
           /\ \A i \in Used : Contents[key[i]] = val[i]
BY OnlySlot DEF Contents

\* The same of the next state.
LEMMA ContentsNext ==
    ASSUME TypeOKDict'
    PROVE  /\ DOMAIN Contents' = {key'[i] : i \in Used'}
           /\ \A i \in Used' : Contents'[key'[i]] = val'[i]
<1>1. DOMAIN Contents' = {key'[i] : i \in Used'}
  BY DEF Contents
<1>2. ASSUME NEW i \in Used', NEW x, x = key'[i] PROVE Contents'[x] = val'[i]
  <2>1. Find(x)' = {i}
    BY <1>2 DEF TypeOKDict, Find, Used
  <2>2. i \in Nat
    BY DEF Used, Slots, TypeOKDict
  <2>3. First({i}) = i
    BY <2>2 DEF First
  <2> QED
    BY <1>1, <1>2, <2>1, <2>3 DEF Contents, DictionaryGet
<1> QED
  BY <1>1, <1>2

\* The slot that dictionary_set writes.
LEMMA SetSlot ==
    ASSUME TypeOKDict, size > 0, NEW k \in Keys, NEW v, DictionarySet(k, v)
    PROVE  \E sz \in Nat, i \in Nat :
             /\ sz >= size /\ i \in 0..(sz - 1) /\ Arrays(sz, i, k, v)
             /\ \A j \in Used : key[j] = k <=> (j = i /\ i \in Used)
             /\ n' = IF i \in Used THEN n ELSE n + 1
<1>1. CASE \E i \in Used : key[i] = k /\ Arrays(size, i, k, v) /\ n' = n
  <2>1. PICK i \in Used : key[i] = k /\ Arrays(size, i, k, v) /\ n' = n
    BY <1>1
  <2>2. size \in Nat /\ i \in 0..(size - 1) /\ i \in Nat
    BY DEF TypeOKDict, Used, Slots
  <2>3. \A j \in Used : key[j] = k <=> (j = i /\ i \in Used)
    BY <2>1 DEF TypeOKDict
  <2> QED
    BY <2>1, <2>2, <2>3
<1>2. CASE /\ \A i \in Used : key[i] # k
           /\ \E sz \in Nat : \E i \in 0..(sz - 1) :
                sz >= size /\ i \notin Used /\ Arrays(sz, i, k, v) /\ n' = n + 1
  BY <1>2
<1> QED
  BY <1>1, <1>2, SetEffect

\* Setting a key leaves every other entry as it is.
LEMMA SetIsMapStep ==
    ASSUME TypeOKDict, size > 0, NEW k \in Keys, NEW v \in Values \cup {Null}, DictionarySet(k, v)
    PROVE  TypeOKDict' /\ size' > 0 /\ Map!Next
<1>1. PICK sz \in Nat, i \in Nat :
        /\ sz >= size /\ i \in 0..(sz - 1) /\ Arrays(sz, i, k, v)
        /\ \A j \in Used : key[j] = k <=> (j = i /\ i \in Used)
        /\ n' = IF i \in Used THEN n ELSE n + 1
  BY SetSlot
<1>2. TypeOKDict' /\ Used' = Used \cup {i}
  BY <1>1, ArraysKeep
<1>3. /\ size' = sz /\ key'[i] = k
      /\ \A j \in Used \ {i} : key'[j] = key[j] /\ val'[j] = val[j]
  <2>1. size \in Nat /\ Used \subseteq 0..(sz - 1)
    BY <1>1 DEF TypeOKDict, Used, Slots
  <2> QED
    BY <1>1, <2>1 DEF Arrays
<1>4. k \in DOMAIN Contents'
  BY <1>2, <1>3, ContentsNext
<1>5. ASSUME NEW x \in (DOMAIN Contents \cup DOMAIN Contents') \ {k}
      PROVE  x \in DOMAIN Contents /\ x \in DOMAIN Contents' /\ Contents'[x] = Contents[x]
  <2>1. PICK j \in Used \ {i} : key[j] = x /\ key'[j] = x
    <3>1. CASE x \in DOMAIN Contents
      <4>1. PICK j \in Used : key[j] = x
        BY <3>1, ContentsAre
      <4> QED
        BY <1>1, <1>3, <1>5, <4>1
    <3>2. CASE x \in DOMAIN Contents'
      <4>1. PICK j \in Used' : key'[j] = x
        BY <1>2, <3>2, ContentsNext
      <4> QED
        BY <1>2, <1>3, <1>5, <4>1
    <3> QED
      BY <1>5, <3>1, <3>2
  <2> QED
    BY <1>2, <1>3, <2>1, ContentsAre, ContentsNext
<1>6. Map!ChangesOnly(k)
  BY <1>5 DEF Map!ChangesOnly
<1>7. Map!Next
  BY <1>4, <1>6 DEF Map!Next
<1> QED
  BY <1>1, <1>2, <1>3, <1>7 DEF TypeOKDict

\* So does removing one.
LEMMA UnsetIsMapStep ==
    ASSUME TypeOKDict, NEW k \in Keys, DictionaryUnset(k)
    PROVE  TypeOKDict' /\ size' = size /\ (Map!Next \/ UNCHANGED dictVars)
<1>1. CASE UNCHANGED dictVars
  BY <1>1 DEF dictVars, TypeOKDict, Used, Slots
<1>2. ASSUME NEW i \in Used, key[i] = k, Arrays(size, i, Null, Null), n' = n - 1
      PROVE  TypeOKDict' /\ size' = size /\ Map!Next
  <2>1. TypeOKDict' /\ Used' = Used \ {i}
    BY <1>2, RemovalKeeps
  <2>2. /\ size' = size /\ \A j \in Used \ {i} : key'[j] = key[j] /\ val'[j] = val[j]
    BY <1>2 DEF Arrays, Used, Slots
  <2>3. k \in DOMAIN Contents
    BY <1>2, ContentsAre
  <2>4. ASSUME NEW x \in (DOMAIN Contents \cup DOMAIN Contents') \ {k}
        PROVE  x \in DOMAIN Contents /\ x \in DOMAIN Contents' /\ Contents'[x] = Contents[x]
    <3>1. PICK j \in Used \ {i} : key[j] = x /\ key'[j] = x
      <4>1. CASE x \in DOMAIN Contents
        BY <1>2, <2>2, <2>4, <4>1, ContentsAre
      <4>2. CASE x \in DOMAIN Contents'
        BY <2>1, <2>2, <2>4, <4>2, ContentsNext
      <4> QED
        BY <2>4, <4>1, <4>2
    <3> QED
      BY <2>1, <2>2, <3>1, ContentsAre, ContentsNext
  <2>5. Map!ChangesOnly(k)
    BY <2>4 DEF Map!ChangesOnly
  <2> QED
    BY <2>1, <2>2, <2>3, <2>5 DEF Map!Next
<1> QED
  BY <1>1, <1>2, UnsetEffect DEF dictVars

\* A step that leaves the arrays alone leaves the map alone.
LEMMA SameContents ==
    ASSUME UNCHANGED dictVars
    PROVE  Contents' = Contents /\ (TypeOKDict => TypeOKDict') /\ size' = size
BY DEF dictVars, Contents, TypeOKDict, Used, Slots, DictionaryGet, Find

\* An empty dictionary is the empty map.
LEMMA EmptyIsMapStep == ASSUME Used' = {} PROVE Map!Next
BY DEF Map!Next, Contents

-----------------------------------------------------------------------------
(***************************************************************************)
(* Lines.                                                                   *)
(***************************************************************************)

\* What comes before a stop is a beginning of the text.
LEMMA UntilIs ==
    ASSUME NEW T, NEW x \in Seq(T), NEW S \in SUBSET (1..Len(x))
    PROVE  Until(x, S) \in Seq(T)
<1>1. CASE S = {}
  BY <1>1 DEF Until
<1>2. CASE S # {}
  <2>1. S \in SUBSET Nat
    OBVIOUS
  <2>2. PICK q \in 1..Len(x) : q = First(S)
    BY <1>2, <2>1, Least
  <2>3. SubSeq(x, 1, q - 1) \in Seq(T)
    BY <2>2
  <2> QED
    BY <1>2, <2>2, <2>3 DEF Until
<1> QED
  BY <1>1, <1>2

\* Key and value of a line are made of its tokens.
LEMMA ValueLine ==
    ASSUME NEW Tokens, NEW line \in Seq(Tokens), IsValue(line)
    PROVE  KeyOf(line) \in Seq(Tokens) /\ ValueOf(line) \in Seq(Tokens)
<1> DEFINE p == First(Position(line, "key"))
<1>1. \A s \in Seq(Tokens) : \A kind : Position(s, kind) \subseteq 1..Len(s) /\ Len(s) \in Nat
  BY DEF Position
<1>2. Position(line, "key") \in SUBSET Nat /\ Position(line, "key") # {}
  BY <1>1 DEF IsValue
<1>3. p \in 1..Len(line)
  BY <1>1, <1>2, Least
<1> HIDE DEF p
<1>4. PICK rest \in Seq(Tokens) : rest = SubSeq(line, p + 1, Len(line))
  <2>1. SubSeq(line, p + 1, Len(line)) \in Seq(Tokens)
    BY <1>1, <1>3
  <2> QED
    BY <2>1
<1>5. SubSeq(line, 1, p) \in Seq(Tokens)
  BY <1>1, <1>3
<1>6. PICK bare \in Seq(Tokens) : bare = Until(rest, Position(rest, "comment"))
  BY <1>1, UntilIs
<1>7. <<>> \in Seq(Tokens)
  OBVIOUS
<1>8. ASSUME Quoted(rest)
      PROVE  Until(Tail(rest), {i \in 1..Len(Tail(rest)) : Tail(rest)[i] = rest[1]}) \in Seq(Tokens)
  <2>1. PICK inside \in Seq(Tokens) : inside = Tail(rest)
    <3>1. rest # <<>>
      <4>1. Len(<<>>) = 0 /\ Len(rest) > 1
        BY <1>8 DEF Quoted
      <4> QED
        BY <4>1
    <3>2. Tail(rest) \in Seq(Tokens)
      BY <3>1
    <3> QED
      BY <3>2
  <2> QED
    BY <2>1, UntilIs
<1> QED
  BY <1>4, <1>5, <1>6, <1>7, <1>8 DEF KeyOf, ValueOf, p

\* The name of a section is that of a token.
LEMMA SectionLine ==
    ASSUME NEW Names, NEW Tokens, Vocabulary(Names, Tokens), NEW line \in Seq(Tokens),
           IsSection(line)
    PROVE  line[1][2] \in Names
<1>1. line[1] \in Tokens
  BY DEF IsSection
<1> QED
  BY <1>1 DEF IsSection, Is, Vocabulary

-----------------------------------------------------------------------------
(***************************************************************************)
(* Reading one more line of a file.                                         *)
(***************************************************************************)

\* Lines made of tokens.
Readable(L, Tokens) == \A l \in L : TextOf(l) \in Seq(Tokens)

IsEnd(l) == l.kind = "text" /\ ~l.continued

\* The texts of the lines after from, up to i.
Between(f, from, i) == FlattenSeq([j \in 1..(i - from) |-> TextOf(f[from + j])])

LEMMA JoinedIs == \A f, i : Joined(f, i) = Between(f, LastEnd(f, i), i)
BY DEF Joined, Between

LEMMA BetweenNone ==
    ASSUME NEW f, NEW i \in Nat
    PROVE  Between(f, i, i) = <<>>
<1>1. [j \in 1..(i - i) |-> TextOf(f[i + j])] = <<>>
  OBVIOUS
<1> QED
  BY <1>1, FlattenEmpty DEF Between

\* A sequence with one element more.
LEMMA AppendIs ==
    ASSUME NEW T, NEW ss \in Seq(T), NEW rr \in Seq(T), Len(rr) = Len(ss) + 1,
           \A j \in 1..Len(ss) : rr[j] = ss[j]
    PROVE  rr = Append(ss, rr[Len(ss) + 1])
<1> DEFINE t == rr[Len(ss) + 1]
<1>1. t \in T
  OBVIOUS
<1> HIDE DEF t
<1>2. Append(ss, t) \in Seq(T) /\ Len(Append(ss, t)) = Len(ss) + 1
  BY <1>1
<1>3. \A j \in 1..Len(rr) : rr[j] = Append(ss, t)[j]
  BY <1>1 DEF t
<1>4. rr = Append(ss, t)
  BY <1>2, <1>3, SeqEqual
<1> QED
  BY <1>4 DEF t

LEMMA BetweenNext ==
    ASSUME NEW Tokens, NEW L, Readable(L, Tokens), NEW f \in Seq(L), NEW x \in L,
           NEW from \in 0..Len(f)
    PROVE  /\ Between(f, from, Len(f)) \in Seq(Tokens)
           /\ Between(Append(f, x), from, Len(f) + 1) = Between(f, from, Len(f)) \o TextOf(x)
<1> DEFINE c == Len(f) - from
           ss == [j \in 1..c |-> TextOf(f[from + j])]
           g == Append(f, x)
           rr == [j \in 1..((Len(f) + 1) - from) |-> TextOf(g[from + j])]
<1>1. c \in Nat /\ (Len(f) + 1) - from = c + 1
  OBVIOUS
<1>2. \A j \in 1..c : from + j \in 1..Len(f) /\ f[from + j] \in L /\ g[from + j] = f[from + j]
  OBVIOUS
<1>3. ss \in Seq(Seq(Tokens)) /\ Len(ss) = c
  <2>1. \A j \in 1..c : TextOf(f[from + j]) \in Seq(Tokens)
    BY <1>2 DEF Readable
  <2> HIDE DEF c
  <2> QED
    BY <1>1, <2>1
<1>4. TextOf(x) \in Seq(Tokens) /\ g[from + (c + 1)] = x
  BY DEF Readable
<1> HIDE DEF g, c
<1>5. rr = Append(ss, TextOf(x))
  <2>1. DOMAIN rr = 1..(c + 1) /\ \A j \in 1..(c + 1) : rr[j] = TextOf(g[from + j])
    BY <1>1
  <2>2. \A j \in 1..c : ss[j] = TextOf(f[from + j])
    OBVIOUS
  <2> HIDE DEF ss, rr
  <2>3. \A j \in 1..c : rr[j] = ss[j]
    BY <1>1, <1>2, <2>1, <2>2
  <2>4. rr[c + 1] = TextOf(x)
    BY <1>1, <1>4, <2>1
  <2>5. rr \in Seq(Seq(Tokens)) /\ Len(rr) = c + 1
    <3>1. \A j \in 1..(c + 1) : rr[j] \in Seq(Tokens)
      BY <1>1, <1>3, <1>4, <2>3, <2>4
    <3>2. rr = [j \in 1..(c + 1) |-> rr[j]]
      BY <1>1 DEF rr
    <3>3. c + 1 \in Nat
      BY <1>1
    <3> QED
      BY <3>1, <3>2, <3>3
  <2> QED
    BY <1>3, <2>3, <2>4, <2>5, AppendIs
<1> HIDE DEF ss, rr
<1>6. FlattenSeq(ss) \in Seq(Tokens) /\ FlattenSeq(rr) = FlattenSeq(ss) \o TextOf(x)
  BY <1>3, <1>4, <1>5, FlattenAppend
<1> QED
  BY <1>6 DEF Between, ss, rr, g, c

LEMMA BetweenSame ==
    ASSUME NEW L, NEW f \in Seq(L), NEW x, NEW i \in 0..Len(f), NEW from \in 0..i
    PROVE  Between(Append(f, x), from, i) = Between(f, from, i)
<1> DEFINE g == Append(f, x)
<1>1. \A j \in 1..(i - from) : g[from + j] = f[from + j]
  OBVIOUS
<1> HIDE DEF g
<1>2. [j \in 1..(i - from) |-> TextOf(g[from + j])] = [j \in 1..(i - from) |-> TextOf(f[from + j])]
  BY <1>1
<1> QED
  BY <1>2 DEF Between, g

LEMMA EndsNext ==
    ASSUME NEW L, NEW f \in Seq(L), NEW x
    PROVE  /\ Ends(Append(f, x)) = Ends(f) \cup {i \in {Len(f) + 1} : IsEnd(x)}
           /\ Ends(f) \subseteq 1..Len(f)
BY DEF Ends, IsEnd

LEMMA LastEndRange ==
    ASSUME NEW L, NEW f \in Seq(L), NEW i \in 1..(Len(f) + 1)
    PROVE  LastEnd(f, i) \in 0..(i - 1)
<1> DEFINE S == {0} \cup {p \in Ends(f) : p < i}
<1>1. S \in SUBSET (0..(i - 1)) /\ S # {} /\ i - 1 \in Nat
  BY DEF Ends
<1> HIDE DEF S
<1>2. Max(S) \in S
  BY <1>1, Greatest
<1> QED
  BY <1>1, <1>2 DEF LastEnd, S

\* What was read does not change.
LEMMA PrefixSame ==
    ASSUME NEW L, NEW f \in Seq(L), NEW x
    PROVE  /\ \A i \in 1..(Len(f) + 1) : LastEnd(Append(f, x), i) = LastEnd(f, i)
           /\ \A i \in 1..Len(f) : Joined(Append(f, x), i) = Joined(f, i)
           /\ \A i \in 1..(Len(f) + 1) : SectionAt(Append(f, x), i) = SectionAt(f, i)
<1> DEFINE g == Append(f, x)
<1>0. Len(f) \in Nat
  OBVIOUS
<1>1. ASSUME NEW i \in 1..(Len(f) + 1) PROVE LastEnd(g, i) = LastEnd(f, i)
  <2>1. {p \in Ends(g) : p < i} = {p \in Ends(f) : p < i}
    BY EndsNext
  <2> QED
    BY <2>1 DEF LastEnd
<1>2. ASSUME NEW i \in 1..Len(f) PROVE Joined(g, i) = Joined(f, i)
  <2>1. i \in 1..(Len(f) + 1) /\ i \in 0..Len(f) /\ (0..(i - 1)) \subseteq 0..i
    BY <1>0
  <2>2. LastEnd(g, i) = LastEnd(f, i) /\ LastEnd(f, i) \in 0..i
    BY <1>1, <2>1, LastEndRange
  <2> QED
    BY <2>1, <2>2, BetweenSame, JoinedIs
<1>3. ASSUME NEW i \in 1..(Len(f) + 1) PROVE SectionAt(g, i) = SectionAt(f, i)
  <2> DEFINE S == {j \in Ends(f) : j < i /\ IsSection(Joined(f, j))}
  <2>1. {j \in Ends(g) : j < i /\ IsSection(Joined(g, j))} = S
    BY <1>2, EndsNext
  <2>2. CASE S = {}
    BY <2>1, <2>2 DEF SectionAt
  <2>3. CASE S # {}
    <3>1. S \in SUBSET (0..Len(f)) /\ S \subseteq 1..Len(f)
      BY EndsNext
    <3>2. Max(S) \in 1..Len(f)
      BY <1>0, <2>3, <3>1, Greatest
    <3>3. Joined(g, Max(S)) = Joined(f, Max(S))
      BY <1>2, <3>2
    <3> QED
      BY <2>1, <2>3, <3>3 DEF SectionAt
  <2> QED
    BY <2>2, <2>3
<1> QED
  BY <1>1, <1>2, <1>3

\* What the lines since the last end amount to.
Pending(f) == Between(f, LastEnd(f, Len(f) + 1), Len(f))

\* An error that no section and no value follows.
HasErrors(f) == \E i \in Ends(f) : IsError(Joined(f, i)) /\ \A j \in Assigning(f) : j < i

\* A line is of one kind.
LEMMA OneKind ==
    ASSUME NEW line
    PROVE  /\ ~(IsSection(line) /\ IsComment(line)) /\ ~(IsSection(line) /\ IsValue(line))
           /\ IsSection(line) \/ IsValue(line) \/ IsError(line) \/ line = <<>> \/ IsComment(line)
           /\ IsError(line) => ~IsSection(line) /\ ~IsValue(line) /\ ~IsComment(line) /\ line # <<>>
           /\ IsComment(line) \/ line = <<>> => ~IsSection(line) /\ ~IsValue(line)
BY DEF IsSection, IsComment, IsValue, IsError, Is

\* A map with the entry of k added or replaced.
Put(m, k, v) == [x \in DOMAIN m \cup {k} |-> IF x = k THEN v ELSE m[x]]

\* The assignments e are those of a, which end with number b, and one of v to k after them.
OneMore(e, a, b, k, v) ==
    /\ DOMAIN a \subseteq 0..b /\ DOMAIN e = DOMAIN a \cup {b + 1}
    /\ e[b + 1] = <<k, v>> /\ \A i \in DOMAIN a : e[i] = a[i]

\* An assignment after all others is the one that counts.
LEMMA LastWinsNext ==
    ASSUME NEW b \in Nat, NEW a, NEW k, NEW v, NEW e, OneMore(e, a, b, k, v)
    PROVE  LastWins(e) = Put(LastWins(a), k, v)
<1> DEFINE Of(x) == {i \in DOMAIN a : a[i][1] = x}
           New(x) == {i \in DOMAIN e : e[i][1] = x}
           D == {a[i][1] : i \in DOMAIN a}
<1>0. /\ b + 1 \in Nat /\ b + 1 \notin DOMAIN a /\ DOMAIN a \subseteq Nat
      /\ DOMAIN a \subseteq 0..b /\ \A i \in DOMAIN a : i <= b
      /\ DOMAIN e = DOMAIN a \cup {b + 1} /\ e[b + 1] = <<k, v>> /\ \A i \in DOMAIN a : e[i] = a[i]
  BY DEF OneMore
<1>1. {e[i][1] : i \in DOMAIN e} = D \cup {k}
  BY <1>0
<1>2. ASSUME NEW x \in D, x # k PROVE e[Max(New(x))][2] = a[Max(Of(x))][2]
  <2>1. New(x) = Of(x)
    BY <1>0, <1>2
  <2>2. Of(x) \in SUBSET (0..b) /\ Of(x) # {}
    BY <1>0, <1>2
  <2> HIDE DEF Of, New
  <2>3. Max(Of(x)) \in Of(x)
    BY <2>2, Greatest
  <2>4. Max(Of(x)) \in DOMAIN a
    BY <2>3 DEF Of
  <2> QED
    BY <1>0, <2>1, <2>4
<1>3. e[Max(New(k))][2] = v
  <2>1. New(k) \in SUBSET Nat /\ b + 1 \in New(k) /\ \A y \in New(k) : y <= b + 1
    BY <1>0
  <2> HIDE DEF New
  <2>2. Max(New(k)) = b + 1
    BY <2>1, MaxIs
  <2> QED
    BY <1>0, <2>2
<1>4. DOMAIN LastWins(a) = D /\ \A x \in D : LastWins(a)[x] = a[Max(Of(x))][2]
  BY DEF LastWins
<1>5. LastWins(e) = [x \in D \cup {k} |-> e[Max(New(x))][2]]
  BY <1>1 DEF LastWins
<1> HIDE DEF Of, New, D
<1>6. ASSUME NEW x \in D \cup {k}
      PROVE  e[Max(New(x))][2] = IF x = k THEN v ELSE LastWins(a)[x]
  BY <1>2, <1>3, <1>4, <1>6
<1> HIDE DEF LastWins
<1> QED
  BY <1>4, <1>5, <1>6 DEF Put

\* The assignments already read.
LEMMA AssigningSame ==
    ASSUME NEW L, NEW f \in Seq(L), NEW x
    PROVE  /\ Assigning(f) \subseteq 1..Len(f)
           /\ Assigning(Append(f, x)) = Assigning(f) \cup
                {i \in {Len(f) + 1} : IsEnd(x) /\ (\/ IsSection(Joined(Append(f, x), i))
                                                   \/ IsValue(Joined(Append(f, x), i)))}
           /\ \A i \in Assigning(f) : Assignment(Append(f, x), i) = Assignment(f, i)
<1> DEFINE g == Append(f, x)
<1>1. Ends(g) = Ends(f) \cup {i \in {Len(f) + 1} : IsEnd(x)} /\ Ends(f) \subseteq 1..Len(f)
  BY EndsNext
<1>2. /\ \A i \in 1..Len(f) : Joined(g, i) = Joined(f, i)
      /\ \A i \in 1..(Len(f) + 1) : SectionAt(g, i) = SectionAt(f, i)
  BY PrefixSame
<1>3. Len(f) \in Nat
  OBVIOUS
<1> HIDE DEF g
<1>4. Assigning(f) \subseteq 1..Len(f)
  BY <1>1 DEF Assigning
<1>5. Assigning(g) = Assigning(f) \cup
        {i \in {Len(f) + 1} : IsEnd(x) /\ (IsSection(Joined(g, i)) \/ IsValue(Joined(g, i)))}
  BY <1>1, <1>2, <1>3 DEF Assigning
<1>6. \A i \in Assigning(f) : Assignment(g, i) = Assignment(f, i)
  <2>1. ASSUME NEW i \in Assigning(f) PROVE Assignment(g, i) = Assignment(f, i)
    <3>1. i \in 1..Len(f) /\ i \in 1..(Len(f) + 1)
      BY <1>3, <1>4
    <3>2. Joined(g, i) = Joined(f, i) /\ SectionAt(g, i) = SectionAt(f, i)
      BY <1>2, <3>1
    <3> QED
      BY <3>2, Zenon DEF Assignment
  <2> QED
    BY <2>1
<1> QED
  BY <1>4, <1>5, <1>6 DEF g

\* A line that does not end what is read: blank, or continued.
LEMMA ReadOn ==
    ASSUME NEW Tokens, NEW L, Readable(L, Tokens), NEW f \in Seq(L), NEW x \in L, ~IsEnd(x)
    PROVE  /\ Pending(Append(f, x)) = Pending(f) \o TextOf(x)
           /\ SectionAt(Append(f, x), Len(f) + 2) = SectionAt(f, Len(f) + 1)
           /\ Meaning(Append(f, x)) = Meaning(f)
           /\ HasErrors(Append(f, x)) <=> HasErrors(f)
<1> DEFINE g == Append(f, x)
<1>1. Ends(g) = Ends(f) /\ Ends(f) \subseteq 1..Len(f)
  <2>1. /\ Ends(g) = Ends(f) \cup {i \in {Len(f) + 1} : IsEnd(x)}
        /\ Ends(f) \subseteq 1..Len(f)
    BY EndsNext
  <2> HIDE DEF g
  <2> QED
    BY <2>1
<1>2. /\ \A i \in 1..(Len(f) + 1) : LastEnd(g, i) = LastEnd(f, i)
      /\ \A i \in 1..Len(f) : Joined(g, i) = Joined(f, i)
  BY PrefixSame
<1>3. Len(f) \in Nat /\ Len(g) = Len(f) + 1 /\ Len(f) + 1 \in 1..(Len(f) + 1)
  OBVIOUS
<1>4. /\ Assigning(g) = Assigning(f) /\ Assigning(f) \subseteq 1..Len(f)
      /\ \A i \in Assigning(f) : Assignment(g, i) = Assignment(f, i)
  <2>1. {i \in {Len(f) + 1} : IsEnd(x) /\ (IsSection(Joined(g, i)) \/ IsValue(Joined(g, i)))} = {}
    OBVIOUS
  <2>2. /\ Assigning(f) \subseteq 1..Len(f)
        /\ Assigning(g) = Assigning(f) \cup
             {i \in {Len(f) + 1} : IsEnd(x) /\ (IsSection(Joined(g, i)) \/ IsValue(Joined(g, i)))}
        /\ \A i \in Assigning(f) : Assignment(g, i) = Assignment(f, i)
    BY AssigningSame, Zenon
  <2> HIDE DEF g
  <2> QED
    BY <2>1, <2>2
<1>5. LastEnd(g, Len(f) + 2) = LastEnd(f, Len(f) + 1) /\ LastEnd(f, Len(f) + 1) \in 0..Len(f)
  <2>1. {p \in Ends(g) : p < Len(f) + 2} = {p \in Ends(f) : p < Len(f) + 1}
    BY <1>1, <1>3
  <2>2. LastEnd(f, Len(f) + 1) \in 0..(Len(f) + 1 - 1) /\ Len(f) + 1 - 1 = Len(f)
    BY <1>3, LastEndRange
  <2> QED
    BY <2>1, <2>2 DEF LastEnd
<1>6. Pending(g) = Pending(f) \o TextOf(x)
  <2>1. Len(g) + 1 = Len(f) + 2
    BY <1>3
  <2>2. PICK from \in 0..Len(f) : from = LastEnd(f, Len(f) + 1)
    BY <1>5
  <2>3. Between(g, from, Len(f) + 1) = Between(f, from, Len(f)) \o TextOf(x)
    BY BetweenNext
  <2> QED
    BY <1>3, <1>5, <2>1, <2>2, <2>3 DEF Pending
<1> HIDE DEF g
<1>7. SectionAt(g, Len(f) + 2) = SectionAt(f, Len(f) + 1)
  <2> DEFINE S == {j \in Ends(f) : j < Len(f) + 1 /\ IsSection(Joined(f, j))}
  <2>1. {j \in Ends(g) : j < Len(f) + 2 /\ IsSection(Joined(g, j))} = S
    BY <1>1, <1>2, <1>3
  <2>2. CASE S = {}
    BY <2>1, <2>2 DEF SectionAt
  <2>3. CASE S # {}
    <3>1. S \in SUBSET (0..Len(f)) /\ S \subseteq 1..Len(f)
      BY <1>1
    <3>2. Max(S) \in 1..Len(f)
      BY <1>3, <2>3, <3>1, Greatest
    <3>3. Joined(g, Max(S)) = Joined(f, Max(S))
      BY <1>2, <3>2
    <3> QED
      BY <2>1, <2>3, <3>3 DEF SectionAt
  <2> QED
    BY <2>2, <2>3
<1>8. Meaning(g) = Meaning(f)
  <2>1. [i \in Assigning(g) |-> Assignment(g, i)] = [i \in Assigning(f) |-> Assignment(f, i)]
    BY <1>4
  <2> QED
    BY <2>1 DEF Meaning
<1>9. HasErrors(g) <=> HasErrors(f)
  BY <1>1, <1>2, <1>4 DEF HasErrors
<1> QED
  BY <1>6, <1>7, <1>8, <1>9 DEF g

\* File g is f and a text that completes a line: a section, a value, an error or nothing.
EndRead(f, g, line) ==
    /\ Pending(g) = <<>>
    /\ SectionAt(g, Len(f) + 2) = IF IsSection(line) THEN line[1][2] ELSE SectionAt(f, Len(f) + 1)
    /\ Meaning(g) =
         IF IsSection(line) THEN Put(Meaning(f), <<line[1][2], <<>>>>, Null)
         ELSE IF IsValue(line)
         THEN Put(Meaning(f), <<SectionAt(f, Len(f) + 1), KeyOf(line)>>, ValueOf(line))
         ELSE Meaning(f)
    /\ HasErrors(g) <=> (IsError(line) \/ (~IsSection(line) /\ ~IsValue(line) /\ HasErrors(f)))

LEMMA ReadEnd ==
    ASSUME NEW Tokens, NEW L, Readable(L, Tokens), NEW f \in Seq(L), NEW x \in L, IsEnd(x)
    PROVE  /\ Pending(f) \o TextOf(x) \in Seq(Tokens)
           /\ EndRead(f, Append(f, x), Pending(f) \o TextOf(x))
<1> DEFINE g == Append(f, x)
           e == Len(f) + 1
           line == Pending(f) \o TextOf(x)
<1>1. Ends(g) = Ends(f) \cup {e} /\ Ends(f) \subseteq 1..Len(f)
  <2>1. /\ Ends(g) = Ends(f) \cup {i \in {e} : IsEnd(x)}
        /\ Ends(f) \subseteq 1..Len(f)
    BY EndsNext
  <2> HIDE DEF g, e
  <2> QED
    BY <2>1
<1>2. /\ \A i \in 1..e : LastEnd(g, i) = LastEnd(f, i)
      /\ \A i \in 1..Len(f) : Joined(g, i) = Joined(f, i)
      /\ \A i \in 1..e : SectionAt(g, i) = SectionAt(f, i)
  BY PrefixSame
<1>3. Len(f) \in Nat /\ Len(g) = e /\ e \in 1..e /\ e - 1 = Len(f) /\ Len(f) + 2 = e + 1
      /\ e \in Nat
  OBVIOUS
<1>4. /\ Assigning(f) \subseteq 1..Len(f)
      /\ Assigning(g) = Assigning(f) \cup
           {i \in {e} : IsSection(Joined(g, i)) \/ IsValue(Joined(g, i))}
      /\ \A i \in Assigning(f) : Assignment(g, i) = Assignment(f, i)
  BY AssigningSame
<1>5. Joined(g, e) = line /\ line \in Seq(Tokens)
  <2>0. LastEnd(g, e) = LastEnd(f, e) /\ LastEnd(f, e) \in 0..Len(f)
    BY <1>2, <1>3, LastEndRange
  <2>1. PICK from \in 0..Len(f) : from = LastEnd(f, e) /\ LastEnd(g, e) = from
    BY <2>0
  <2>2. Joined(g, e) = Between(g, from, e)
    BY <2>1, JoinedIs
  <2>3. /\ Between(f, from, Len(f)) \in Seq(Tokens)
        /\ Between(g, from, e) = Between(f, from, Len(f)) \o TextOf(x)
    BY BetweenNext
  <2>4. TextOf(x) \in Seq(Tokens)
    BY DEF Readable
  <2> QED
    BY <2>1, <2>2, <2>3, <2>4 DEF Pending
<1> HIDE DEF g, e, line
<1>6. Pending(g) = <<>>
  <2> DEFINE S == {0} \cup {p \in Ends(g) : p < e + 1}
  <2>1. S \in SUBSET Nat /\ e \in S /\ \A y \in S : y <= e
    BY <1>1, <1>3
  <2>2. Max(S) = e
    BY <2>1, MaxIs
  <2>3. LastEnd(g, Len(g) + 1) = e
    BY <1>3, <2>2 DEF LastEnd
  <2> QED
    BY <1>3, <2>3, BetweenNone DEF Pending
<1>7. SectionAt(g, e + 1) = IF IsSection(line) THEN line[1][2] ELSE SectionAt(f, e)
  <2> DEFINE S == {j \in Ends(g) : j < e + 1 /\ IsSection(Joined(g, j))}
             R == {j \in Ends(f) : j < e /\ IsSection(Joined(f, j))}
  <2>1. CASE IsSection(line)
    <3>1. S \in SUBSET Nat /\ e \in S /\ \A y \in S : y <= e
      <4>1. e \in Ends(g) /\ e < e + 1 /\ IsSection(Joined(g, e))
        BY <1>1, <1>3, <1>5, <2>1
      <4>2. \A y \in Ends(g) : y \in Nat /\ y <= e
        BY <1>1, <1>3
      <4> QED
        BY <4>1, <4>2
    <3>2. Max(S) = e
      BY <3>1, MaxIs
    <3> QED
      BY <1>5, <2>1, <3>1, <3>2 DEF SectionAt
  <2>2. CASE ~IsSection(line)
    <3>1. S = R
      <4>1. \A j \in Ends(f) : j < e /\ j < e + 1 /\ j # e /\ Joined(g, j) = Joined(f, j)
        BY <1>1, <1>2, <1>3
      <4>2. ~IsSection(Joined(g, e))
        BY <1>5, <2>2
      <4> QED
        BY <1>1, <4>1, <4>2
    <3>2. CASE R = {}
      BY <2>2, <3>1, <3>2 DEF SectionAt
    <3>3. CASE R # {}
      <4>1. R \in SUBSET (0..Len(f)) /\ R \subseteq 1..Len(f)
        BY <1>1
      <4>2. Max(R) \in 1..Len(f)
        BY <1>3, <3>3, <4>1, Greatest
      <4>3. Joined(g, Max(R)) = Joined(f, Max(R))
        BY <1>2, <4>2
      <4> QED
        BY <2>2, <3>1, <3>3, <4>3 DEF SectionAt
    <3> QED
      BY <3>2, <3>3
  <2> QED
    BY <2>1, <2>2
<1>8. CASE IsSection(line) \/ IsValue(line)
  <2>1. Assigning(g) = Assigning(f) \cup {e}
    BY <1>4, <1>5, <1>8
  <2>2. ASSUME NEW k, NEW v, Assignment(g, e) = <<k, v>> PROVE Meaning(g) = Put(Meaning(f), k, v)
    <3>0. PICK a, b : /\ a = [i \in Assigning(f) |-> Assignment(f, i)]
                      /\ b = [i \in Assigning(g) |-> Assignment(g, i)]
      OBVIOUS
    <3>1. DOMAIN a = Assigning(f) /\ DOMAIN a \subseteq 0..Len(f)
      BY <1>4, <3>0
    <3>2. DOMAIN b = DOMAIN a \cup {Len(f) + 1} /\ b[Len(f) + 1] = <<k, v>>
      BY <2>1, <2>2, <3>0 DEF e
    <3>3. \A i \in DOMAIN a : b[i] = a[i]
      BY <1>4, <2>1, <3>0
    <3>4. LastWins(b) = Put(LastWins(a), k, v)
      <4>1. OneMore(b, a, Len(f), k, v)
        BY <3>1, <3>2, <3>3 DEF OneMore
      <4> QED
        BY <1>3, <4>1, LastWinsNext
    <3> QED
      BY <3>0, <3>4 DEF Meaning
  <2>3. ~HasErrors(g)
    <3>1. e \in Assigning(g) /\ \A i \in Ends(g) : ~(e < i)
      BY <1>1, <1>3, <2>1
    <3> QED
      BY <3>1 DEF HasErrors
  <2>4. SectionAt(g, e) = SectionAt(f, e)
    BY <1>2, <1>3
  <2>5. CASE IsSection(line)
    <3>1. Assignment(g, e) = << <<line[1][2], <<>>>>, Null>>
      BY <1>5, <2>5 DEF Assignment
    <3> QED
      <4>1. Meaning(g) = Put(Meaning(f), <<line[1][2], <<>>>>, Null)
        BY <2>2, <3>1
      <4>2. ~IsError(line)
        BY <2>5, OneKind
      <4> QED
        BY <1>3, <1>5, <1>6, <1>7, <2>3, <2>5, <4>1, <4>2 DEF EndRead, g, e, line
  <2>6. CASE ~IsSection(line)
    <3>1. Assignment(g, e) = << <<SectionAt(f, e), KeyOf(line)>>, ValueOf(line)>>
      BY <1>5, <2>4, <2>6 DEF Assignment
    <3> QED
      <4>1. Meaning(g) = Put(Meaning(f), <<SectionAt(f, e), KeyOf(line)>>, ValueOf(line))
        BY <2>2, <3>1
      <4>2. IsValue(line) /\ ~IsError(line)
        BY <1>8, <2>6, OneKind
      <4> QED
        BY <1>3, <1>5, <1>6, <1>7, <2>3, <2>6, <4>1, <4>2 DEF EndRead, g, e, line
  <2> QED
    BY <2>5, <2>6
<1>9. CASE ~IsSection(line) /\ ~IsValue(line)
  <2>1. Assigning(g) = Assigning(f)
    BY <1>4, <1>5, <1>9
  <2>2. Meaning(g) = Meaning(f)
    <3>1. [i \in Assigning(g) |-> Assignment(g, i)] = [i \in Assigning(f) |-> Assignment(f, i)]
      BY <1>4, <2>1
    <3> QED
      BY <3>1 DEF Meaning
  <2>3. HasErrors(g) <=> (IsError(line) \/ HasErrors(f))
    <3>1. \A j \in Assigning(g) : j < e
      BY <1>3, <1>4, <2>1
    <3>2. \A i \in Ends(f) : Joined(g, i) = Joined(f, i)
      BY <1>1, <1>2
    <3> QED
      BY <1>1, <1>5, <2>1, <3>1, <3>2 DEF HasErrors
  <2> QED
    BY <1>3, <1>5, <1>6, <1>7, <1>9, <2>2, <2>3 DEF EndRead, g, e, line
<1> QED
  BY <1>8, <1>9

-----------------------------------------------------------------------------
(***************************************************************************)
(* The invariant.                                                           *)
(***************************************************************************)
Line(l) == [kind |-> "text", text |-> l.text, continued |-> l.continued]
FileLines ==
    {[kind |-> "blank"], [kind |-> "character"], [kind |-> "long"]} \cup {Line(l) : l \in Lines}

\* Beside the types: a dictionary that is in use has slots, so that doubling gives it more.
Inv(Names, Tokens) ==
    /\ TypeOKDict
    /\ file \in Seq(FileLines) /\ Len(file) <= MaxLines
    /\ full \in Seq(Tokens) /\ section \in Names
    /\ errs \in Nat /\ ops \in 0..MaxOps
    /\ state \in {"start", "loading", "loaded", "failed"}
    /\ state \in {"loading", "loaded"} => size > 0

\* A map step, or none.
MapStep == Map!Next \/ Contents' = Contents

\* The handling of a line sets one key at most.
LEMMA HandleLineStep ==
    ASSUME NEW Names, NEW Tokens, Vocabulary(Names, Tokens), Inv(Names, Tokens),
           size > 0, NEW line \in Seq(Tokens), HandleLine(line)
    PROVE  /\ TypeOKDict' /\ size' > 0 /\ MapStep
           /\ full' \in Seq(Tokens) /\ section' \in Names /\ errs' \in Nat
<1>0. TypeOKDict /\ section \in Names /\ errs \in Nat /\ full' \in Seq(Tokens)
  BY DEF Inv, HandleLine
<1>1. CASE IsSection(line) /\ section' = line[1][2] /\ errs' = 0
           /\ DictionarySet(<<line[1][2], <<>>>>, Null)
  <2>1. line[1][2] \in Names
    BY <1>1, SectionLine
  <2>2. <<line[1][2], <<>>>> \in Keys
    <3>1. Keys = Names \X Seq(Tokens)
      BY DEF Vocabulary
    <3>2. <<>> \in Seq(Tokens)
      OBVIOUS
    <3> QED
      BY <2>1, <3>1, <3>2
  <2>3. TypeOKDict' /\ size' > 0 /\ Map!Next
    BY <1>0, <1>1, <2>2, SetIsMapStep
  <2> QED
    BY <1>0, <1>1, <2>1, <2>3 DEF MapStep
<1>2. CASE IsValue(line) /\ errs' = 0 /\ UNCHANGED section
           /\ DictionarySet(<<section, KeyOf(line)>>, ValueOf(line))
  <2>1. KeyOf(line) \in Seq(Tokens) /\ ValueOf(line) \in Seq(Tokens)
    BY <1>2, ValueLine
  <2>2. <<section, KeyOf(line)>> \in Keys /\ ValueOf(line) \in Values \cup {Null}
    BY <1>0, <2>1 DEF Vocabulary
  <2>3. TypeOKDict' /\ size' > 0 /\ Map!Next
    BY <1>0, <1>2, <2>2, SetIsMapStep
  <2> QED
    BY <1>0, <1>2, <2>3 DEF MapStep
<1>3. CASE UNCHANGED dictVars /\ UNCHANGED section /\ (errs' = errs \/ errs' = errs + 1)
  BY <1>0, <1>3, SameContents DEF MapStep
<1> QED
  BY <1>1, <1>2, <1>3 DEF HandleLine

\* Every step keeps the invariant and does to the map what a map allows.
LEMMA Step ==
    ASSUME NEW Names, NEW Tokens, Vocabulary(Names, Tokens), Inv(Names, Tokens), [Next]_vars
    PROVE  Inv(Names, Tokens)' /\ MapStep
<1>0. /\ TypeOKDict /\ file \in Seq(FileLines) /\ Len(file) <= MaxLines
      /\ full \in Seq(Tokens) /\ section \in Names
      /\ errs \in Nat /\ ops \in 0..MaxOps
      /\ state \in {"start", "loading", "loaded", "failed"}
      /\ state \in {"loading", "loaded"} => size > 0
      /\ MaxLines \in Nat /\ MaxOps \in Nat /\ <<>> \in Seq(Tokens)
  BY SettingsConfig DEF Inv
<1>f. ASSUME NEW l \in FileLines, file' = Append(file, l), Len(file) < MaxLines
      PROVE  file' \in Seq(FileLines) /\ Len(file') <= MaxLines
  <2> HIDE DEF FileLines
  <2> QED
    BY <1>0, <1>f
<1>s. ASSUME UNCHANGED dictVars PROVE TypeOKDict' /\ size' = size /\ MapStep
  BY <1>0, <1>s, SameContents DEF MapStep
<1>e. ASSUME DictionaryNew \/ DictionaryDel
      PROVE  TypeOKDict' /\ (DictionaryNew => size' > 0) /\ MapStep
  BY <1>e, EmptyKeeps, EmptyIsMapStep DEF MapStep
<1>1. CASE OpenFile
  BY <1>0, <1>1, <1>e DEF OpenFile, Inv
<1>2. CASE CannotOpen
  BY <1>0, <1>2, <1>s DEF CannotOpen, Inv
<1>3. CASE ReadBlank
  <2>1. [kind |-> "blank"] \in FileLines
    BY DEF FileLines
  <2>2. file' \in Seq(FileLines) /\ Len(file') <= MaxLines
    BY <1>3, <1>f, <2>1 DEF ReadBlank
  <2> QED
    BY <1>0, <1>3, <1>s, <2>2 DEF ReadBlank, Inv
<1>4. ASSUME NEW e \in Nat, Finish(e), state = "loading",
             file' \in Seq(FileLines) /\ Len(file') <= MaxLines
      PROVE  Inv(Names, Tokens)' /\ MapStep
  <2>1. CASE e = 0
    BY <1>0, <1>4, <1>s, <2>1 DEF Finish, Inv
  <2>2. CASE e # 0
    BY <1>0, <1>4, <1>e, <2>2 DEF Finish, Inv
  <2> QED
    BY <2>1, <2>2
<1>5. CASE EndOfFile
  BY <1>0, <1>4, <1>5 DEF EndOfFile
<1>6. CASE ReadLastCharacter
  <2>1. [kind |-> "character"] \in FileLines
    BY DEF FileLines
  <2>2. file' \in Seq(FileLines) /\ Len(file') <= MaxLines
    BY <1>6, <1>f, <2>1 DEF ReadLastCharacter
  <2> QED
    BY <1>0, <1>4, <1>6, <2>2 DEF ReadLastCharacter
<1>7. CASE ReadTooLong
  <2>1. [kind |-> "long"] \in FileLines
    BY DEF FileLines
  <2>2. file' \in Seq(FileLines) /\ Len(file') <= MaxLines
    BY <1>7, <1>f, <2>1 DEF ReadTooLong
  <2>3. errs + 1 \in Nat
    BY <1>0
  <2> QED
    BY <1>4, <1>7, <2>2, <2>3 DEF ReadTooLong
<1>8. ASSUME NEW l \in Lines, ReadText(l) PROVE Inv(Names, Tokens)' /\ MapStep
  <2>1. Line(l) \in FileLines
    BY DEF FileLines
  <2>2. file' \in Seq(FileLines) /\ Len(file') <= MaxLines
    BY <1>8, <1>f, <2>1 DEF ReadText, Line
  <2>3. full \o l.text \in Seq(Tokens)
    <3>1. l.text \in Seq(Tokens)
      BY DEF Vocabulary
    <3> QED
      BY <1>0, <3>1
  <2>4. state = "loading" /\ state' = state /\ ops' = ops /\ size > 0
    BY <1>0, <1>8 DEF ReadText
  <2>5. CASE l.continued
    <3>1. UNCHANGED dictVars /\ UNCHANGED <<section, errs>> /\ full' = full \o l.text
      BY <1>8, <2>5 DEF ReadText
    <3> QED
      BY <1>0, <1>s, <2>2, <2>3, <2>4, <3>1 DEF Inv
  <2>6. CASE ~l.continued
    <3>1. HandleLine(full \o l.text)
      BY <1>8, <2>6 DEF ReadText
    <3>2. /\ TypeOKDict' /\ size' > 0 /\ MapStep
          /\ full' \in Seq(Tokens) /\ section' \in Names /\ errs' \in Nat
      BY <2>3, <2>4, <3>1, HandleLineStep
    <3> QED
      BY <1>0, <2>2, <2>4, <3>2 DEF Inv
  <2> QED
    BY <2>5, <2>6
<1>9. ASSUME Change, TypeOKDict', size' > 0 PROVE Inv(Names, Tokens)'
  BY <1>0, <1>9 DEF Change, Inv
<1>10. ASSUME NEW k \in SetKeys, NEW v \in SetValues, IniparserSet(k, v)
       PROVE  Inv(Names, Tokens)' /\ MapStep
  <2>1. k \in Keys /\ v \in Values /\ size > 0
    BY <1>0, <1>10 DEF Vocabulary, IniparserSet, Change
  <2>2. TypeOKDict' /\ size' > 0 /\ Map!Next
    BY <1>0, <1>10, <2>1, SetIsMapStep DEF IniparserSet
  <2> QED
    BY <1>9, <1>10, <2>2 DEF IniparserSet, MapStep
<1>11. ASSUME NEW k \in SetKeys, IniparserUnset(k) PROVE Inv(Names, Tokens)' /\ MapStep
  <2>1. k \in Keys /\ size > 0
    BY <1>0, <1>11 DEF Vocabulary, IniparserUnset, Change
  <2>2. TypeOKDict' /\ size' = size /\ (Map!Next \/ UNCHANGED dictVars)
    BY <1>0, <1>11, <2>1, UnsetIsMapStep DEF IniparserUnset
  <2>3. MapStep
    BY <1>s, <2>2 DEF MapStep
  <2> QED
    BY <1>9, <1>11, <2>1, <2>2, <2>3 DEF IniparserUnset
<1>12. CASE UNCHANGED vars
  BY <1>0, <1>12, <1>s DEF vars, Inv
<1> QED
  BY <1>1, <1>2, <1>3, <1>5, <1>6, <1>7, <1>8, <1>10, <1>11, <1>12 DEF Next

\* The initial state.
LEMMA InitHolds ==
    ASSUME NEW Names, NEW Tokens, Vocabulary(Names, Tokens), Init
    PROVE  Inv(Names, Tokens) /\ Map!Init
<1>0. /\ size = 0 /\ n = 0 /\ key = [i \in {} |-> Null] /\ val = [i \in {} |-> Null]
      /\ file = <<>> /\ full = <<>> /\ section = "" /\ errs = 0 /\ state = "start" /\ ops = 0
  BY DEF Init, InitDict
<1>1. Slots = {} /\ Used = {}
  <2>1. 0..(0 - 1) = {}
    OBVIOUS
  <2> QED
    BY <1>0, <2>1 DEF Slots, Used
<1>2. Cardinality(Used) = 0
  BY <1>1, FS_EmptySet
<1>3. TypeOKDict
  BY <1>0, <1>1, <1>2 DEF TypeOKDict
<1>4. <<>> \in Seq(Tokens) /\ <<>> \in Seq(FileLines) /\ Len(<<>>) = 0
  OBVIOUS
<1>5. Inv(Names, Tokens)
  <2>1. "" \in Names
    BY DEF Vocabulary
  <2>2. 0 \in 0..MaxOps /\ 0 <= MaxLines
    BY SettingsConfig
  <2>3. file \in Seq(FileLines) /\ Len(file) <= MaxLines
    BY <1>0, <1>4, <2>2
  <2> QED
    BY <1>0, <1>3, <1>4, <2>1, <2>2, <2>3 DEF Inv
<1>6. Map!Init
  BY <1>1 DEF Map!Init, Contents
<1> QED
  BY <1>5, <1>6

\* The arrays of the dictionary are in order whatever file is loaded and whatever
\* iniparser_set and iniparser_unset do afterwards: n counts the slots in use, so that the
\* search for a free slot ends, no key is in two slots and no free slot keeps a value.
THEOREM TypeCorrect ==
    ASSUME NEW Names, NEW Tokens, Vocabulary(Names, Tokens)
    PROVE  Spec => []TypeOK
<1>1. Init => Inv(Names, Tokens)
  BY InitHolds
<1>2. Inv(Names, Tokens) /\ [Next]_vars => Inv(Names, Tokens)'
  BY Step
<1>3. Inv(Names, Tokens) => TypeOK
  BY DEF Inv, TypeOK
<1> QED
  BY <1>1, <1>2, <1>3, PTL DEF Spec

\* The dictionary of the configuration implements a map: through dictionary_set,
\* dictionary_unset and the doubling of the arrays, one step changes the entry of one key and
\* no other, or empties the dictionary.
THEOREM ImplementsMap ==
    ASSUME NEW Names, NEW Tokens, Vocabulary(Names, Tokens)
    PROVE  Spec => RefinesMap
<1>1. Init => Inv(Names, Tokens) /\ Map!Init
  BY InitHolds
<1>2. Inv(Names, Tokens) /\ [Next]_vars => Inv(Names, Tokens)'
  BY Step
<1>3. Inv(Names, Tokens) /\ [Next]_vars => [Map!Next]_Contents
  BY Step DEF MapStep
<1> QED
  BY <1>1, <1>2, <1>3, PTL DEF Spec, RefinesMap, Map!Spec

-----------------------------------------------------------------------------
(***************************************************************************)
(* What is loaded.                                                          *)
(***************************************************************************)

\* dictionary_set, as an assignment of the map.
LEMMA SetContents ==
    ASSUME TypeOKDict, size > 0, NEW k \in Keys, NEW v \in Values \cup {Null}, DictionarySet(k, v)
    PROVE  Contents' = Put(Contents, k, v)
<1>1. PICK sz \in Nat, i \in Nat :
        /\ sz >= size /\ i \in 0..(sz - 1) /\ Arrays(sz, i, k, v)
        /\ \A j \in Used : key[j] = k <=> (j = i /\ i \in Used)
        /\ n' = IF i \in Used THEN n ELSE n + 1
  BY SetSlot
<1>2. TypeOKDict' /\ Used' = Used \cup {i}
  BY <1>1, ArraysKeep
<1>3. /\ key'[i] = k /\ val'[i] = v
      /\ \A j \in Used \ {i} : key'[j] = key[j] /\ val'[j] = val[j]
  <2>1. size \in Nat /\ Used \subseteq 0..(sz - 1)
    BY <1>1 DEF TypeOKDict, Used, Slots
  <2> QED
    BY <1>1, <2>1 DEF Arrays
<1>4. /\ DOMAIN Contents = {key[j] : j \in Used}
      /\ \A j \in Used : Contents[key[j]] = val[j]
  BY ContentsAre
<1>5. /\ DOMAIN Contents' = {key'[j] : j \in Used'}
      /\ \A j \in Used' : Contents'[key'[j]] = val'[j]
  BY <1>2, ContentsNext
<1>6. DOMAIN Contents' = DOMAIN Contents \cup {k}
  BY <1>1, <1>2, <1>3, <1>4, <1>5
<1>7. Contents'[k] = v
  BY <1>2, <1>3, <1>5
<1>8. ASSUME NEW x \in DOMAIN Contents, x # k PROVE Contents'[x] = Contents[x]
  <2>1. PICK j \in Used : key[j] = x
    BY <1>4
  <2>2. j \in Used \ {i} /\ key'[j] = x /\ val'[j] = val[j]
    BY <1>1, <1>3, <1>8, <2>1
  <2> QED
    BY <1>2, <1>4, <1>5, <2>1, <2>2
<1>9. Contents' = [x \in DOMAIN Contents' |-> Contents'[x]]
  BY DEF Contents
<1> HIDE DEF Contents
<1> QED
  BY <1>6, <1>7, <1>8, <1>9 DEF Put

\* The empty file.
LEMMA NothingRead ==
    /\ Pending(<<>>) = <<>> /\ SectionAt(<<>>, 1) = "" /\ Meaning(<<>>) = [x \in {} |-> x]
    /\ ~HasErrors(<<>>)
<1>1. Ends(<<>>) = {} /\ Assigning(<<>>) = {} /\ Len(<<>>) = 0
  BY DEF Ends, Assigning
<1>2. LastEnd(<<>>, 1) = 0
  <2>1. {0} \cup {p \in Ends(<<>>) : p < 1} = {0}
    BY <1>1
  <2>2. Max({0}) = 0
    BY MaxIs
  <2> QED
    BY <2>1, <2>2 DEF LastEnd
<1>3. Pending(<<>>) = <<>>
  BY <1>1, <1>2, BetweenNone DEF Pending
<1>4. SectionAt(<<>>, 1) = ""
  BY <1>1 DEF SectionAt
<1>5. Meaning(<<>>) = [x \in {} |-> x]
  BY <1>1 DEF Meaning, LastWins
<1>6. ~HasErrors(<<>>)
  BY <1>1 DEF HasErrors
<1> QED
  BY <1>3, <1>4, <1>5, <1>6

\* The lines of a file.
LEMMA FileLine ==
    ASSUME NEW Names, NEW Tokens, Vocabulary(Names, Tokens)
    PROVE  /\ Readable(FileLines, Tokens)
           /\ \A kind \in {"blank", "character", "long"} :
                /\ [kind |-> kind] \in FileLines /\ TextOf([kind |-> kind]) = <<>>
                /\ ~IsEnd([kind |-> kind])
           /\ \A l \in Lines :
                /\ Line(l) \in FileLines /\ Line(l).kind = "text" /\ TextOf(Line(l)) = l.text
                /\ IsEnd(Line(l)) <=> ~l.continued
<1>1. ASSUME NEW kind \in {"blank", "character", "long"}
      PROVE  /\ [kind |-> kind] \in FileLines /\ TextOf([kind |-> kind]) = <<>>
             /\ ~IsEnd([kind |-> kind])
  BY DEF FileLines, TextOf, IsEnd
<1>2. ASSUME NEW l \in Lines
      PROVE  /\ Line(l) \in FileLines /\ Line(l).kind = "text" /\ TextOf(Line(l)) = l.text
             /\ TextOf(Line(l)) \in Seq(Tokens) /\ (IsEnd(Line(l)) <=> ~l.continued)
  <2>1. l.text \in Seq(Tokens)
    BY DEF Vocabulary
  <2> QED
    BY <2>1 DEF FileLines, Line, TextOf, IsEnd
<1>3. Readable(FileLines, Tokens)
  <2>1. ASSUME NEW x \in FileLines PROVE TextOf(x) \in Seq(Tokens)
    <3>1. CASE x \in {[kind |-> "blank"], [kind |-> "character"], [kind |-> "long"]}
      <4>1. TextOf(x) = <<>>
        BY <3>1 DEF TextOf
      <4> QED
        BY <4>1
    <3>2. CASE \E l \in Lines : x = Line(l)
      BY <1>2, <3>2
    <3> QED
      BY <3>1, <3>2 DEF FileLines
  <2> QED
    BY <2>1 DEF Readable
<1> QED
  BY <1>1, <1>2, <1>3

\* While a file is read, the variables and the map are what the lines read so far amount to.
LoadInv ==
    /\ state = "start" => file = <<>> /\ full = <<>> /\ section = "" /\ errs = 0 /\ ops = 0
    /\ state = "loading" =>
         /\ full = Pending(file) /\ section = SectionAt(file, Len(file) + 1)
         /\ Contents = Meaning(file)
         /\ errs # 0 <=> HasErrors(file)
         /\ \A i \in 1..Len(file) : file[i].kind # "long"
    /\ LoadMatchesFile

\* The initial state.
LEMMA LoadInit == Init => LoadInv
BY DEF Init, LoadInv, LoadMatchesFile

\* A line that only adds to what is read, and the end of the file: what is loaded or refused.
LEMMA FinishLoads ==
    ASSUME NEW e \in Nat, Finish(e), state = "loading", Contents = Meaning(file'),
           e # 0 <=> Refused(file')
    PROVE  LoadInv'
<1>1. CASE e = 0
  <2>1. state' = "loaded" /\ UNCHANGED dictVars
    BY <1>1 DEF Finish
  <2>2. Contents' = Contents
    BY <2>1, SameContents
  <2> QED
    BY <1>1, <2>1, <2>2 DEF LoadInv, LoadMatchesFile
<1>2. CASE e # 0
  BY <1>2 DEF Finish, LoadInv, LoadMatchesFile
<1> QED
  BY <1>1, <1>2

\* A line is handled as it is meant.
LEMMA HandleMeans ==
    ASSUME NEW Names, NEW Tokens, Vocabulary(Names, Tokens), Inv(Names, Tokens), size > 0,
           NEW line \in Seq(Tokens), HandleLine(line)
    PROVE  /\ full' = <<>>
           /\ section' = IF IsSection(line) THEN line[1][2] ELSE section
           /\ Contents' = IF IsSection(line) THEN Put(Contents, <<line[1][2], <<>>>>, Null)
                          ELSE IF IsValue(line)
                          THEN Put(Contents, <<section, KeyOf(line)>>, ValueOf(line))
                          ELSE Contents
           /\ errs' # 0 <=> (IsError(line) \/ (~IsSection(line) /\ ~IsValue(line) /\ errs # 0))
<1>0. TypeOKDict /\ section \in Names /\ errs \in Nat /\ full' = <<>>
  BY DEF Inv, HandleLine
<1>1. CASE IsSection(line) /\ section' = line[1][2] /\ errs' = 0
           /\ DictionarySet(<<line[1][2], <<>>>>, Null)
  <2>1. line[1][2] \in Names
    BY <1>1, SectionLine
  <2>2. <<line[1][2], <<>>>> \in Keys
    <3>1. Keys = Names \X Seq(Tokens)
      BY DEF Vocabulary
    <3>2. <<>> \in Seq(Tokens)
      OBVIOUS
    <3> QED
      BY <2>1, <3>1, <3>2
  <2>3. Contents' = Put(Contents, <<line[1][2], <<>>>>, Null)
    BY <1>0, <1>1, <2>2, SetContents
  <2>4. ~IsError(line)
    BY <1>1, OneKind
  <2> QED
    BY <1>0, <1>1, <2>3, <2>4
<1>2. CASE IsValue(line) /\ errs' = 0 /\ UNCHANGED section
           /\ DictionarySet(<<section, KeyOf(line)>>, ValueOf(line))
  <2>1. KeyOf(line) \in Seq(Tokens) /\ ValueOf(line) \in Seq(Tokens)
    BY <1>2, ValueLine
  <2>2. <<section, KeyOf(line)>> \in Keys /\ ValueOf(line) \in Values \cup {Null}
    BY <1>0, <2>1 DEF Vocabulary
  <2>3. Contents' = Put(Contents, <<section, KeyOf(line)>>, ValueOf(line))
    BY <1>0, <1>2, <2>2, SetContents
  <2>4. ~IsError(line) /\ ~IsSection(line)
    BY <1>2, OneKind
  <2> QED
    BY <1>0, <1>2, <2>3, <2>4
<1>3. CASE IsError(line) /\ errs' = errs + 1 /\ UNCHANGED <<section, dictVars>>
  <2>1. ~IsValue(line) /\ ~IsSection(line)
    BY <1>3, OneKind
  <2>2. Contents' = Contents
    BY <1>3, SameContents
  <2>3. errs' # 0
    BY <1>0, <1>3
  <2> QED
    BY <1>0, <1>3, <2>1, <2>2, <2>3
<1>4. CASE (line = <<>> \/ IsComment(line)) /\ UNCHANGED <<section, errs, dictVars>>
  <2>1. ~IsValue(line) /\ ~IsSection(line) /\ ~IsError(line)
    BY <1>4, OneKind
  <2>2. Contents' = Contents
    BY <1>4, SameContents
  <2> QED
    BY <1>0, <1>4, <2>1, <2>2
<1> QED
  BY <1>1, <1>2, <1>3, <1>4 DEF HandleLine

\* Every step keeps it.
LEMMA LoadStep ==
    ASSUME NEW Names, NEW Tokens, Vocabulary(Names, Tokens), Inv(Names, Tokens), LoadInv,
           [Next]_vars
    PROVE  LoadInv'
<1>0. /\ TypeOKDict /\ file \in Seq(FileLines) /\ Len(file) \in Nat
      /\ full \in Seq(Tokens) /\ errs \in Nat /\ ops \in Nat
      /\ state \in {"start", "loading", "loaded", "failed"}
      /\ state \in {"loading", "loaded"} => size > 0
  <2>1. \A f \in Seq(FileLines) : Len(f) \in Nat
    OBVIOUS
  <2> QED
    BY <2>1, SettingsConfig DEF Inv
<1>1. state = "loading" =>
        /\ full = Pending(file) /\ section = SectionAt(file, Len(file) + 1)
        /\ Contents = Meaning(file)
        /\ errs # 0 <=> HasErrors(file)
        /\ \A i \in 1..Len(file) : file[i].kind # "long"
  BY DEF LoadInv
<1>2. ASSUME NEW x, file' = Append(file, x)
      PROVE  /\ Len(file') = Len(file) + 1 /\ Len(file') + 1 = Len(file) + 2
             /\ file'[Len(file) + 1] = x /\ \A i \in 1..Len(file) : file'[i] = file[i]
  BY <1>0, <1>2
<1>3. ASSUME state = "loading", NEW x \in FileLines, x.kind # "long", file' = Append(file, x)
      PROVE  \A i \in 1..Len(file') : file'[i].kind # "long"
  BY <1>0, <1>1, <1>2, <1>3
<1>4. Readable(FileLines, Tokens)
  BY FileLine
<1>5. \A f : Refused(f) <=> (\E i \in 1..Len(f) : f[i].kind = "long") \/ HasErrors(f)
  BY DEF Refused, HasErrors
<1>6. CASE OpenFile
  <2>1. /\ state' = "loading" /\ file' = <<>> /\ full' = <<>> /\ section' = "" /\ errs' = 0
    BY <1>6 DEF OpenFile, LoadInv
  <2>2. Contents' = [x \in {} |-> x]
    <3>1. Used' = {}
      BY <1>6, EmptyKeeps DEF OpenFile
    <3> QED
      BY <3>1 DEF Contents
  <2>3. Len(<<>>) + 1 = 1 /\ \A i \in 1..Len(<<>>) : <<>>[i].kind # "long"
    OBVIOUS
  <2> QED
    BY <2>1, <2>2, <2>3, NothingRead DEF LoadInv, LoadMatchesFile
<1>7. CASE CannotOpen
  BY <1>7 DEF CannotOpen, LoadInv, LoadMatchesFile
<1>8. ASSUME NEW x \in FileLines, ~IsEnd(x), file' = Append(file, x), state = "loading"
      PROVE  /\ Pending(file') = full \o TextOf(x)
             /\ SectionAt(file', Len(file') + 1) = section
             /\ Meaning(file') = Contents
             /\ HasErrors(file') <=> errs # 0
  <2>1. /\ Pending(file') = Pending(file) \o TextOf(x)
        /\ SectionAt(file', Len(file) + 2) = SectionAt(file, Len(file) + 1)
        /\ Meaning(file') = Meaning(file)
        /\ HasErrors(file') <=> HasErrors(file)
    BY <1>0, <1>4, <1>8, ReadOn
  <2> QED
    BY <1>1, <1>2, <1>8, <2>1
<1>9. CASE ReadBlank
  <2>1. PICK x \in FileLines : x = [kind |-> "blank"] /\ TextOf(x) = <<>> /\ ~IsEnd(x)
    BY FileLine
  <2>2. /\ state = "loading" /\ state' = state /\ file' = Append(file, x) /\ x.kind # "long"
        /\ UNCHANGED <<dictVars, full, section, errs, ops>>
    BY <1>9, <2>1 DEF ReadBlank
  <2>3. Contents' = Contents
    BY <2>2, SameContents
  <2>4. full \o <<>> = full
    BY <1>0
  <2>5. \A i \in 1..Len(file') : file'[i].kind # "long"
    BY <1>3, <2>2
  <2> QED
    BY <1>8, <2>1, <2>2, <2>3, <2>4, <2>5 DEF LoadInv, LoadMatchesFile
<1>10. CASE EndOfFile
  <2>1. state = "loading" /\ Finish(errs) /\ file' = file
    BY <1>10 DEF EndOfFile
  <2>2. errs # 0 <=> Refused(file)
    BY <1>1, <1>5, <2>1
  <2> QED
    BY <1>0, <1>1, <2>1, <2>2, FinishLoads
<1>11. CASE ReadLastCharacter
  <2>1. PICK x \in FileLines : x = [kind |-> "character"] /\ TextOf(x) = <<>> /\ ~IsEnd(x)
    BY FileLine
  <2>2. state = "loading" /\ file' = Append(file, x) /\ x.kind # "long" /\ Finish(errs)
    BY <1>11, <2>1 DEF ReadLastCharacter
  <2>3. Meaning(file') = Contents /\ (HasErrors(file') <=> errs # 0)
    BY <1>8, <2>1, <2>2
  <2>4. errs # 0 <=> Refused(file')
    BY <1>3, <1>5, <2>2, <2>3
  <2> QED
    BY <1>0, <2>2, <2>3, <2>4, FinishLoads
<1>12. CASE ReadTooLong
  <2>1. PICK x \in FileLines : x = [kind |-> "long"] /\ TextOf(x) = <<>> /\ ~IsEnd(x)
    BY FileLine
  <2>2. state = "loading" /\ file' = Append(file, x) /\ x.kind = "long" /\ Finish(errs + 1)
    BY <1>12, <2>1 DEF ReadTooLong
  <2>3. Meaning(file') = Contents
    BY <1>8, <2>1, <2>2
  <2>4. Refused(file') /\ errs + 1 # 0 /\ errs + 1 \in Nat
    <3>1. Len(file) + 1 \in 1..Len(file') /\ file'[Len(file) + 1].kind = "long"
      BY <1>0, <1>2, <2>2
    <3> QED
      BY <1>0, <1>5, <3>1
  <2> QED
    BY <2>2, <2>3, <2>4, FinishLoads
<1>13. ASSUME NEW l \in Lines, ReadText(l) PROVE LoadInv'
  <2>1. PICK x \in FileLines : x = Line(l) /\ x.kind = "text" /\ TextOf(x) = l.text
                               /\ (IsEnd(x) <=> ~l.continued)
    BY FileLine
  <2>2. state = "loading" /\ state' = state /\ file' = Append(file, x) /\ ops' = ops /\ size > 0
    BY <1>0, <1>13, <2>1 DEF ReadText, Line
  <2>3. \A i \in 1..Len(file') : file'[i].kind # "long"
    BY <1>3, <2>1, <2>2
  <2>4. CASE l.continued
    <3>1. full' = full \o TextOf(x) /\ UNCHANGED <<dictVars, section, errs>>
      BY <1>13, <2>1, <2>4 DEF ReadText
    <3>2. Contents' = Contents
      BY <3>1, SameContents
    <3> QED
      BY <1>8, <2>1, <2>2, <2>3, <2>4, <3>1, <3>2 DEF LoadInv, LoadMatchesFile
  <2>5. CASE ~l.continued
    <3>1. PICK line : line = full \o TextOf(x)
      OBVIOUS
    <3>2. IsEnd(x) /\ HandleLine(line)
      BY <1>13, <2>1, <2>5, <3>1 DEF ReadText
    <3>3. line \in Seq(Tokens) /\ EndRead(file, file', line)
      <4>1. line = Pending(file) \o TextOf(x)
        BY <1>1, <2>2, <3>1
      <4> QED
        BY <1>0, <1>4, <2>2, <3>2, <4>1, ReadEnd
    <3>4. /\ full' = <<>>
          /\ section' = IF IsSection(line) THEN line[1][2] ELSE section
          /\ Contents' = IF IsSection(line) THEN Put(Contents, <<line[1][2], <<>>>>, Null)
                         ELSE IF IsValue(line)
                         THEN Put(Contents, <<section, KeyOf(line)>>, ValueOf(line))
                         ELSE Contents
          /\ errs' # 0 <=> (IsError(line) \/ (~IsSection(line) /\ ~IsValue(line) /\ errs # 0))
      BY <2>2, <3>2, <3>3, HandleMeans
    <3>5. /\ full' = Pending(file') /\ section' = SectionAt(file', Len(file') + 1)
          /\ Contents' = Meaning(file') /\ (errs' # 0 <=> HasErrors(file'))
      BY <1>1, <1>2, <2>2, <3>3, <3>4 DEF EndRead
    <3> QED
      BY <2>2, <2>3, <3>5 DEF LoadInv, LoadMatchesFile
  <2> QED
    BY <2>4, <2>5
<1>14. CASE Change
  BY <1>0, <1>14 DEF Change, LoadInv, LoadMatchesFile
<1>15. CASE UNCHANGED vars
  <2>1. Contents' = Contents
    BY <1>15, SameContents DEF vars
  <2> QED
    BY <1>15, <2>1 DEF vars, LoadInv, LoadMatchesFile
<1> QED
  BY <1>6, <1>7, <1>9, <1>10, <1>11, <1>12, <1>13, <1>14, <1>15
  DEF Next, IniparserSet, IniparserUnset

\* However its lines are continued, repeated and distributed over the sections, iniparser_load
\* turns a file into the map it means, with the last value of a key, or refuses it: for a line
\* that is too long, or for an error that no section and no value follows.
THEOREM LoadsWhatIsMeant ==
    ASSUME NEW Names, NEW Tokens, Vocabulary(Names, Tokens)
    PROVE  Spec => []LoadMatchesFile
<1>1. Init => Inv(Names, Tokens) /\ LoadInv
  BY InitHolds, LoadInit
<1>2. Inv(Names, Tokens) /\ LoadInv /\ [Next]_vars => Inv(Names, Tokens)' /\ LoadInv'
  BY Step, LoadStep
<1>3. LoadInv => LoadMatchesFile
  BY DEF LoadInv
<1> QED
  BY <1>1, <1>2, <1>3, PTL DEF Spec

-----------------------------------------------------------------------------
(***************************************************************************)
(* The slots of a set, in the order of the arrays.                          *)
(***************************************************************************)

LEMMA FirstIs ==
    ASSUME NEW S \in SUBSET Nat, NEW x \in S, \A y \in S : x <= y
    PROVE  First(S) = x
<1>1. First(S) \in S /\ \A y \in S : First(S) <= y
  BY Least
<1>2. First(S) \in Nat /\ x \in Nat /\ First(S) <= x /\ x <= First(S)
  BY <1>1
<1> QED
  BY <1>2

Below(S, i) == {j \in S : j < i}

\* Every number below the size of a set is that of an element.
LEMMA NthExists ==
    ASSUME NEW S \in SUBSET Nat, IsFiniteSet(S), NEW k \in 0..(Cardinality(S) - 1)
    PROVE  \E i \in S : Cardinality(Below(S, i)) = k
<1> DEFINE Has(R) == \A m \in 0..(Cardinality(R) - 1) : \E i \in R : Cardinality(Below(R, i)) = m
           C == {c \in Nat : \A R \in SUBSET Nat : IsFiniteSet(R) /\ Cardinality(R) = c => Has(R)}
<1>1. 0 \in C
  OBVIOUS
<1>2. ASSUME NEW c \in Nat, c \in C PROVE c + 1 \in C
  <2> SUFFICES ASSUME NEW R \in SUBSET Nat, IsFiniteSet(R), Cardinality(R) = c + 1,
                      NEW m \in 0..c
               PROVE  \E i \in R : Cardinality(Below(R, i)) = m
    OBVIOUS
  <2>1. R # {}
    BY FS_EmptySet
  <2>2. PICK x \in R : \A y \in R : x <= y
    BY <2>1, Least
  <2>3. CASE m = 0
    <3>1. Below(R, x) = {}
      <4>1. \A y \in R : y \in Nat /\ x \in Nat /\ ~(y < x)
        BY <2>2
      <4> QED
        BY <4>1 DEF Below
    <3> QED
      BY <2>3, <3>1, FS_EmptySet
  <2>4. CASE m # 0
    <3> DEFINE T == R \ {x}
    <3>1. T \in SUBSET Nat /\ IsFiniteSet(T) /\ Cardinality(T) = c
      BY FS_RemoveElement
    <3>2. Has(T)
      BY <1>2, <3>1
    <3>3. m - 1 \in 0..(Cardinality(T) - 1)
      BY <2>4, <3>1
    <3>4. PICK i \in T : Cardinality(Below(T, i)) = m - 1
      BY <3>2, <3>3
    <3>5. Below(R, i) = Below(T, i) \cup {x} /\ x \notin Below(T, i)
      BY <2>2, <3>4 DEF Below
    <3>6. IsFiniteSet(Below(T, i))
      BY <3>1, FS_Subset DEF Below
    <3>7. Cardinality(Below(T, i) \cup {x}) = Cardinality(Below(T, i)) + 1
      BY <3>5, <3>6, FS_AddElement
    <3>8. Cardinality(Below(R, i)) = m - 1 + 1 /\ m - 1 + 1 = m
      BY <3>4, <3>5, <3>7
    <3> QED
      BY <3>4, <3>8
  <2> QED
    BY <2>3, <2>4
<1> HIDE DEF C
<1>3. Nat \subseteq C
  BY <1>1, <1>2, Induct
<1>4. Cardinality(S) \in Nat
  BY FS_CardinalityType
<1>5. Cardinality(S) \in C
  BY <1>3, <1>4
<1>6. Has(S)
  BY <1>5 DEF C
<1> QED
  BY <1>6

\* InOrder goes through all of a set and nothing else.
LEMMA InOrderIs ==
    ASSUME NEW S \in SUBSET Nat, IsFiniteSet(S)
    PROVE  /\ InOrder(S) \in Seq(S) /\ Len(InOrder(S)) = Cardinality(S)
           /\ \A k \in 1..Cardinality(S) : InOrder(S)[k] = Nth(S, k - 1) /\ Nth(S, k - 1) \in S
           /\ \A i \in S : \E k \in 1..Cardinality(S) : Nth(S, k - 1) = i
<1>0. Cardinality(S) \in Nat
  BY FS_CardinalityType
<1>1. ASSUME NEW k \in 1..Cardinality(S)
      PROVE  Nth(S, k - 1) \in S /\ Cardinality(Below(S, Nth(S, k - 1))) = k - 1
  <2>1. k - 1 \in 0..(Cardinality(S) - 1)
    BY <1>0
  <2>2. \E i \in S : Cardinality(Below(S, i)) = k - 1
    BY <2>1, NthExists
  <2>3. \E i \in S : Cardinality({j \in S : j < i}) = k - 1
    BY <2>2 DEF Below
  <2>4. Nth(S, k - 1) \in S /\ Cardinality({j \in S : j < Nth(S, k - 1)}) = k - 1
    BY <2>3, Zenon DEF Nth
  <2> QED
    BY <2>4 DEF Below
<1>2. \A i \in S : IsFiniteSet(Below(S, i)) /\ Cardinality(Below(S, i)) \in Nat
                   /\ Cardinality(Below(S, i) \cup {i}) = Cardinality(Below(S, i)) + 1
                   /\ IsFiniteSet(Below(S, i) \cup {i})
  <2>1. ASSUME NEW i \in S
        PROVE  /\ IsFiniteSet(Below(S, i)) /\ Cardinality(Below(S, i)) \in Nat
               /\ Cardinality(Below(S, i) \cup {i}) = Cardinality(Below(S, i)) + 1
               /\ IsFiniteSet(Below(S, i) \cup {i})
    <3>1. Below(S, i) \subseteq S /\ i \notin Below(S, i) /\ Below(S, i) \cup {i} \subseteq S
      BY DEF Below
    <3>2. IsFiniteSet(Below(S, i)) /\ IsFiniteSet(Below(S, i) \cup {i})
      BY <3>1, FS_Subset
    <3> QED
      BY <3>1, <3>2, FS_AddElement, FS_CardinalityType
  <2> QED
    BY <2>1
<1>3. ASSUME NEW i \in S, NEW h \in S, i < h
      PROVE  Cardinality(Below(S, i)) < Cardinality(Below(S, h))
  <2>1. Below(S, i) \cup {i} \subseteq Below(S, h)
    <3>1. i \in Nat /\ h \in Nat /\ \A j \in S : j \in Nat
      OBVIOUS
    <3>2. \A j \in S : j < i => j < h
      BY <1>3, <3>1
    <3> QED
      BY <1>3, <3>2 DEF Below
  <2>2. Cardinality(Below(S, i) \cup {i}) <= Cardinality(Below(S, h))
    BY <1>2, <2>1, FS_Subset
  <2> QED
    <3>1. Cardinality(Below(S, i)) \in Nat /\ Cardinality(Below(S, h)) \in Nat
          /\ Cardinality(Below(S, i)) + 1 <= Cardinality(Below(S, h))
      BY <1>2, <2>2
    <3> QED
      BY <3>1
<1>4. ASSUME NEW i \in S PROVE \E k \in 1..Cardinality(S) : Nth(S, k - 1) = i
  <2>1. PICK c : c = Cardinality(Below(S, i))
    OBVIOUS
  <2>2. c \in Nat /\ c + 1 <= Cardinality(S)
    <3>1. Below(S, i) \cup {i} \subseteq S
      BY DEF Below
    <3>2. Cardinality(Below(S, i) \cup {i}) <= Cardinality(S)
      BY <3>1, FS_Subset
    <3> QED
      BY <1>2, <2>1, <3>2
  <2>3. c + 1 \in 1..Cardinality(S) /\ (c + 1) - 1 = c
    BY <1>0, <2>2
  <2>4. Nth(S, c) \in S /\ Cardinality(Below(S, Nth(S, c))) = c
    BY <1>1, <2>3
  <2>5. PICK h \in S : h = Nth(S, c)
    BY <2>4
  <2>6. ~(i < h) /\ ~(h < i) /\ i \in Nat /\ h \in Nat
    <3>1. Cardinality(Below(S, h)) = c /\ ~(c < c)
      BY <2>2, <2>4, <2>5
    <3>2. i < h => c < c
      BY <1>3, <2>1, <3>1
    <3>3. h < i => c < c
      BY <1>3, <2>1, <3>1
    <3> QED
      BY <3>1, <3>2, <3>3
  <2>7. h = i
    BY <2>6
  <2> QED
    BY <2>3, <2>5, <2>7
<1>5. InOrder(S) = [k \in 1..Cardinality(S) |-> Nth(S, k - 1)]
  BY DEF InOrder
<1>6. InOrder(S) \in Seq(S) /\ Len(InOrder(S)) = Cardinality(S)
  BY <1>0, <1>1, <1>5
<1> QED
  BY <1>1, <1>4, <1>5, <1>6

-----------------------------------------------------------------------------
(***************************************************************************)
(* A dump, line by line.                                                    *)
(***************************************************************************)

\* What iniparser_line takes for a key.
KeyLike(k) ==
    /\ k # <<>> /\ Is(k, Len(k), "key") /\ ~Is(k, 1, "comment")
    /\ \A i \in 1..(Len(k) - 1) : ~Is(k, i, "key")

\* The beginning of a sequence.
LEMMA PrefixIs ==
    ASSUME NEW T, NEW s \in Seq(T), NEW m \in 0..Len(s)
    PROVE  /\ SubSeq(s, 1, m) \in Seq(T) /\ Len(SubSeq(s, 1, m)) = m
           /\ \A i \in 1..m : SubSeq(s, 1, m)[i] = s[i]
OBVIOUS

\* A key and a value on a line are read as this key and this value.
LEMMA ReadsKey ==
    ASSUME NEW T, NEW k \in Seq(T), NEW v \in Seq(T), KeyLike(k), ~Is(k, 1, "section"),
           AsItIs(v)
    PROVE  /\ ~IsSection(k \o v) /\ IsValue(k \o v) /\ ~Continues(k \o v)
           /\ KeyOf(k \o v) = k /\ ValueOf(k \o v) = v
<1>0. k \o v \in Seq(T)
  BY ConcatProperties
<1>1. PICK line \in Seq(T) : line = k \o v
  BY <1>0
<1>2. PICK p \in Nat \ {0} : p = Len(k)
  BY EmptySeq DEF KeyLike
<1>3. /\ Len(line) = p + Len(v) /\ Len(v) \in Nat /\ p \in 1..Len(line)
      /\ \A i \in 1..p : line[i] = k[i]
      /\ \A i \in 1..Len(v) : line[p + i] = v[i]
  BY <1>1, <1>2
<1>4. 1 \in 1..p /\ p \in 1..p /\ line # <<>>
  BY <1>2, <1>3
<1>5. ~IsSection(line) /\ ~IsComment(line)
  BY <1>3, <1>4 DEF IsSection, IsComment, KeyLike, Is
<1> DEFINE S == Position(line, "key")
<1>6. S \in SUBSET Nat /\ p \in S /\ \A y \in S : p <= y
  <2>1. p \in S
    BY <1>2, <1>3, <1>4 DEF Position, Is, KeyLike
  <2>2. ASSUME NEW y \in S PROVE y \in Nat /\ p <= y
    <3>1. y \in 1..Len(line) /\ line[y][1] = "key"
      BY DEF Position, Is
    <3>2. ~(y < p)
      <4>1. ASSUME y < p PROVE FALSE
        <5>1. y \in 1..p /\ y \in 1..(Len(k) - 1)
          BY <1>2, <3>1, <4>1
        <5> QED
          BY <1>3, <3>1, <5>1 DEF KeyLike, Is
      <4> QED
        BY <4>1
    <3> QED
      BY <1>2, <3>1, <3>2
  <2> QED
    BY <2>1, <2>2
<1>7. First(S) = p
  BY <1>6, FirstIs
<1>8. IsValue(line)
  BY <1>4, <1>5, <1>6 DEF IsValue
<1>9. SubSeq(line, 1, p) = k
  <2>1. SubSeq(line, 1, p) \in Seq(T) /\ Len(SubSeq(line, 1, p)) = p
        /\ \A i \in 1..p : SubSeq(line, 1, p)[i] = line[i]
    BY <1>2, <1>3
  <2> QED
    BY <1>2, <1>3, <2>1, SeqEqual
<1>10. SubSeq(line, p + 1, Len(line)) = v
  <2> DEFINE r == SubSeq(line, p + 1, Len(line))
  <2>1. r \in Seq(T) /\ Len(r) = Len(v) /\ \A i \in 1..Len(v) : r[i] = line[p + i]
    BY <1>2, <1>3
  <2> HIDE DEF r
  <2>2. r = v
    BY <1>3, <2>1, SeqEqual
  <2> QED
    BY <2>2 DEF r
<1>11. KeyOf(line) = k
  BY <1>7, <1>9 DEF KeyOf
<1>12. ValueOf(line) = v
  <2>1. ~Quoted(v) /\ ~EmptyQuotes(v)
    <3>1. CASE v = <<>>
      <4>1. Len(v) = 0
        BY <3>1, EmptySeq
      <4> QED
        BY <4>1 DEF Quoted, EmptyQuotes
    <3>2. CASE v # <<>>
      BY <3>2 DEF Quoted, EmptyQuotes, AsItIs
    <3> QED
      BY <3>1, <3>2
  <2>2. Until(v, Position(v, "comment")) = v
    BY DEF Until, AsItIs
  <2> QED
    BY <1>7, <1>10, <2>1, <2>2 DEF ValueOf
<1>13. ~Continues(line)
  <2>1. CASE v = <<>>
    <3>1. Len(line) = p /\ line[p] = k[p]
      BY <1>3, <1>4, <2>1
    <3> QED
      BY <1>2, <3>1 DEF Continues, KeyLike, Is
  <2>2. CASE v # <<>>
    <3>1. Len(v) \in 1..Len(v)
      BY <2>2, EmptySeq
    <3>2. line[Len(line)] = v[Len(v)]
      BY <1>3, <3>1
    <3> QED
      BY <2>2, <3>2 DEF Continues, AsItIs, Is
  <2> QED
    BY <2>1, <2>2
<1> QED
  BY <1>1, <1>5, <1>8, <1>11, <1>12, <1>13

\* The other way round: what is read is such a key.
LEMMA LoadedLine ==
    ASSUME NEW T, NEW line \in Seq(T), IsValue(line)
    PROVE  KeyLike(KeyOf(line))
<1> DEFINE S == Position(line, "key")
<1>1. S \in SUBSET Nat /\ S \subseteq 1..Len(line) /\ S # {}
  BY DEF Position, IsValue
<1>2. PICK p \in S : p = First(S) /\ \A y \in S : p <= y
  BY <1>1, Least
<1>3. p \in 1..Len(line) /\ Len(line) \in Nat /\ p \in Nat /\ 1 \in 1..p /\ p \in 1..p
  BY <1>1, <1>2
<1>4. PICK k \in Seq(T) : k = SubSeq(line, 1, p) /\ Len(k) = p /\ \A i \in 1..p : k[i] = line[i]
  <2>1. p \in 0..Len(line)
    BY <1>3
  <2> QED
    BY <2>1, PrefixIs, ZenonT(60)
<1>5. KeyLike(k)
  <2>1. k # <<>>
    BY <1>3, <1>4
  <2>2. Is(k, Len(k), "key")
    BY <1>2, <1>3, <1>4 DEF Position, Is
  <2>3. ~Is(k, 1, "comment")
    BY <1>3, <1>4 DEF IsValue, IsComment, Is
  <2>4. ASSUME NEW i \in 1..(Len(k) - 1) PROVE ~Is(k, i, "key")
    <3>1. i \in 1..p /\ i \in 1..Len(line) /\ ~(p <= i)
      BY <1>3, <1>4
    <3>2. i \notin S
      BY <1>2, <3>1
    <3> QED
      BY <1>4, <3>1, <3>2 DEF Position, Is
  <2> QED
    BY <2>1, <2>2, <2>3, <2>4 DEF KeyLike
<1> QED
  BY <1>2, <1>4, <1>5 DEF KeyOf

\* A sequence and the beginning of another.
LEMMA PrefixNext ==
    ASSUME NEW T, NEW f \in Seq(T), NEW t \in Seq(T), NEW c \in 0..(Len(t) - 1)
    PROVE  /\ f \o SubSeq(t, 1, c + 1) = Append(f \o SubSeq(t, 1, c), t[c + 1])
           /\ SubSeq(t, 1, c + 1) = Append(SubSeq(t, 1, c), t[c + 1])
           /\ SubSeq(t, 1, Len(t)) = t /\ SubSeq(t, 1, 0) = <<>>
           /\ f \o SubSeq(t, 1, c) \in Seq(T) /\ SubSeq(t, 1, c) \in Seq(T) /\ t[c + 1] \in T
<1>1. PICK a \in Seq(T) : a = SubSeq(t, 1, c) /\ Len(a) = c /\ \A i \in 1..c : a[i] = t[i]
  <2>1. c \in 0..Len(t)
    OBVIOUS
  <2> QED
    BY <2>1, PrefixIs, ZenonT(60)
<1>2. PICK b \in Seq(T) : b = SubSeq(t, 1, c + 1) /\ Len(b) = c + 1 /\ \A i \in 1..(c + 1) : b[i] = t[i]
  <2>1. c + 1 \in 0..Len(t)
    OBVIOUS
  <2> QED
    BY <2>1, PrefixIs
<1>3. t[c + 1] \in T /\ c \in Nat
  OBVIOUS
<1>4. b = Append(a, t[c + 1])
  <2>1. Len(b) = Len(a) + 1 /\ \A i \in 1..Len(a) : b[i] = a[i]
    BY <1>1, <1>2, <1>3
  <2>2. b = Append(a, b[Len(a) + 1])
    BY <2>1, AppendIs
  <2> QED
    BY <1>1, <1>2, <1>3, <2>2
<1>5. f \o Append(a, t[c + 1]) = Append(f \o a, t[c + 1])
  BY <1>3
<1>6. SubSeq(t, 1, Len(t)) = t /\ SubSeq(t, 1, 0) = <<>>
  OBVIOUS
<1>7. f \o a \in Seq(T)
  OBVIOUS
<1> QED
  BY <1>1, <1>2, <1>3, <1>4, <1>5, <1>6, <1>7

\* The lines of a dump: texts of tokens and of names in brackets.
Written(Names, Tokens) == Tokens \cup {<<"section", s>> : s \in Names}
WholeLine(t) == [kind |-> "text", continued |-> FALSE, text |-> t]
DumpLines(Names, Tokens) == {WholeLine(t) : t \in Seq(Written(Names, Tokens))}

\* A dictionary that can be written, with keys that can be read back.
Writable == \A k \in Entries : Dumpable(k) /\ (k[2] # <<>> => KeyLike(k[2]))

\* The file f holds nothing but entries of the dictionary.
Holds(f, Names, Tokens) ==
    /\ f \in Seq(DumpLines(Names, Tokens)) /\ Pending(f) = <<>> /\ ~HasErrors(f)
    /\ \A k \in DOMAIN Meaning(f) :
         k \in Entries /\ (k[2] # <<>> => Meaning(f)[k] = GetConfigItem(k, <<>>))

\* It ends in section s.
HoldsIn(f, s, Names, Tokens) == Holds(f, Names, Tokens) /\ SectionAt(f, Len(f) + 1) = s

\* File g has the entry of k as well.
HasToo(f, g, k) == DOMAIN Meaning(g) = DOMAIN Meaning(f) \cup {k}

\* One more line of the dump.
LEMMA AddLine ==
    ASSUME NEW Names, NEW Tokens, NEW f \in Seq(DumpLines(Names, Tokens)), Pending(f) = <<>>,
           NEW t \in Seq(Written(Names, Tokens))
    PROVE  /\ EndRead(f, Append(f, WholeLine(t)), t)
           /\ Append(f, WholeLine(t)) \in Seq(DumpLines(Names, Tokens))
           /\ Len(Append(f, WholeLine(t))) + 1 = Len(f) + 2
<1> DEFINE L == DumpLines(Names, Tokens)
           W == Written(Names, Tokens)
<1>1. \A u \in Seq(W) : TextOf(WholeLine(u)) = u /\ IsEnd(WholeLine(u))
  BY DEF TextOf, WholeLine, IsEnd
<1>2. Readable(L, W)
  BY <1>1 DEF Readable, DumpLines
<1>3. PICK x \in L : x = WholeLine(t)
  BY DEF DumpLines
<1> HIDE DEF L, W
<1>4. <<>> \o t = t
  BY DEF W
<1>5. t \in Seq(W) /\ f \in Seq(L)
  BY DEF W, L
<1>6. IsEnd(x) /\ TextOf(x) = t
  BY <1>1, <1>3, <1>5
<1>7. EndRead(f, Append(f, x), Pending(f) \o TextOf(x))
  BY <1>2, <1>5, <1>6, ReadEnd
<1>8. EndRead(f, Append(f, x), t)
  BY <1>4, <1>6, <1>7
<1>9. Append(f, x) \in Seq(L) /\ Len(Append(f, x)) + 1 = Len(f) + 2
  BY <1>5
<1> QED
  BY <1>3, <1>8, <1>9 DEF L

\* A section is written as it is read.
Heading(s) == WholeLine(<< <<"section", s>> >>)

LEMMA AddHead ==
    ASSUME NEW Names, NEW Tokens, NEW f, Holds(f, Names, Tokens),
           NEW s \in Names, <<s, <<>>>> \in Entries, NEW g, g = Append(f, Heading(s))
    PROVE  HoldsIn(g, s, Names, Tokens) /\ HasToo(f, g, <<s, <<>>>>)
<1> DEFINE t == << <<"section", s>> >>
<1>1. t \in Seq(Written(Names, Tokens)) /\ Len(t) = 1 /\ t[1] = <<"section", s>> /\ t # <<>>
  BY DEF Written
<1>2. IsSection(t) /\ t[1][2] = s
  BY <1>1 DEF IsSection, Is
<1> HIDE DEF t
<1>3. EndRead(f, g, t) /\ g \in Seq(DumpLines(Names, Tokens)) /\ Len(g) + 1 = Len(f) + 2
  BY <1>1, AddLine DEF Holds, Heading, t
<1>4. /\ Pending(g) = <<>> /\ SectionAt(g, Len(g) + 1) = s /\ ~HasErrors(g)
      /\ Meaning(g) = Put(Meaning(f), <<s, <<>>>>, Null)
  BY <1>2, <1>3, OneKind DEF EndRead
<1>5. <<s, <<>>>>[2] = <<>>
  OBVIOUS
<1>6. /\ DOMAIN Meaning(g) = DOMAIN Meaning(f) \cup {<<s, <<>>>>}
      /\ \A k \in DOMAIN Meaning(f) : k # <<s, <<>>>> => Meaning(g)[k] = Meaning(f)[k]
  BY <1>4 DEF Put
<1>7. Holds(g, Names, Tokens)
  BY <1>3, <1>4, <1>5, <1>6 DEF Holds
<1> QED
  BY <1>4, <1>6, <1>7 DEF HoldsIn, HasToo

\* The entry of a slot, as its line.
EntryText(i) == key[i][2] \o IF val[i] = Null THEN <<>> ELSE val[i]

LEMMA SlotEntry ==
    ASSUME NEW Names, NEW Tokens, Vocabulary(Names, Tokens), TypeOKDict, NEW i \in Used
    PROVE  /\ key[i] \in Entries /\ key[i] = <<key[i][1], key[i][2]>>
           /\ key[i][1] \in Names /\ key[i][2] \in Seq(Tokens)
           /\ GetConfigItem(key[i], <<>>) = IF val[i] = Null THEN <<>> ELSE val[i]
           /\ GetConfigItem(key[i], <<>>) \in Seq(Tokens)
<1>1. key[i] \in Entries
  BY ContentsAre DEF Entries
<1>2. key[i] \in Names \X Seq(Tokens) /\ val[i] \in Seq(Tokens) \cup {Null}
  BY DEF Vocabulary, TypeOKDict, Used
<1>3. GetConfigItem(key[i], <<>>) = IF val[i] = Null THEN <<>> ELSE val[i]
  BY OnlySlot DEF GetConfigItem
<1>4. <<>> \in Seq(Tokens)
  OBVIOUS
<1>5. GetConfigItem(key[i], <<>>) \in Seq(Tokens)
  BY <1>2, <1>3, <1>4
<1> QED
  BY <1>1, <1>2, <1>3, <1>5

\* The line of an entry that can be written fits, and is not continued.
SlotLine(i) ==
    DumpLine(KeyWidth, key[i][2], IF val[i] = Null THEN <<>> ELSE val[i])

LEMMA SlotWhole ==
    ASSUME NEW Names, NEW Tokens, Vocabulary(Names, Tokens), TypeOKDict, Writable,
           NEW s, NEW i \in SecKeySlots(s)
    PROVE  SlotLine(i) = WholeLine(EntryText(i))
<1>1. i \in Used /\ key[i][2] # <<>>
  BY DEF SecKeySlots
<1>2. PICK k \in Seq(Tokens), v \in Seq(Tokens) :
        /\ k = key[i][2] /\ v = GetConfigItem(key[i], <<>>) /\ EntryText(i) = k \o v
        /\ v = IF val[i] = Null THEN <<>> ELSE val[i]
        /\ key[i] \in Entries
  BY <1>1, SlotEntry DEF EntryText
<1>3. /\ KeyLike(k) /\ ~Is(k, 1, "section") /\ AsItIs(v)
      /\ FitsLine(KeyWidth, k, v)
  BY <1>1, <1>2 DEF Writable, Dumpable
<1>4. ~Continues(k \o v)
  BY <1>3, ReadsKey
<1>5. SlotLine(i) = TextLine(k \o v)
  BY <1>2, <1>3 DEF SlotLine, DumpLine
<1>6. TextLine(k \o v) = WholeLine(k \o v)
  <2>1. Continues(k \o v) = FALSE
    BY <1>4 DEF Continues
  <2> QED
    BY <2>1 DEF TextLine, WholeLine
<1> QED
  BY <1>2, <1>5, <1>6

LEMMA AddEntry ==
    ASSUME NEW Names, NEW Tokens, Vocabulary(Names, Tokens), TypeOKDict, Writable,
           NEW f, NEW s, HoldsIn(f, s, Names, Tokens), NEW i \in SecKeySlots(s),
           NEW g, g = Append(f, WholeLine(EntryText(i)))
    PROVE  HoldsIn(g, s, Names, Tokens) /\ HasToo(f, g, key[i])
<1>0. Holds(f, Names, Tokens) /\ SectionAt(f, Len(f) + 1) = s
  BY DEF HoldsIn
<1>1. i \in Used /\ key[i][1] = s /\ key[i][2] # <<>>
  BY DEF SecKeySlots
<1>2. PICK k \in Seq(Tokens), v \in Seq(Tokens) :
        /\ k = key[i][2] /\ v = GetConfigItem(key[i], <<>>) /\ EntryText(i) = k \o v
        /\ key[i] = <<s, k>> /\ key[i] \in Entries
  BY <1>1, SlotEntry DEF EntryText
<1>3. KeyLike(k) /\ ~Is(k, 1, "section") /\ AsItIs(v)
  BY <1>1, <1>2 DEF Writable, Dumpable
<1>4. PICK t \in Seq(Written(Names, Tokens)) : t = k \o v
  <2>1. k \in Seq(Written(Names, Tokens)) /\ v \in Seq(Written(Names, Tokens))
    BY DEF Written
  <2>2. k \o v \in Seq(Written(Names, Tokens))
    BY <2>1, ConcatProperties
  <2> QED
    BY <2>2
<1>5. ~IsSection(t) /\ IsValue(t) /\ KeyOf(t) = k /\ ValueOf(t) = v
  BY <1>3, <1>4, ReadsKey
<1>6. EndRead(f, g, t) /\ g \in Seq(DumpLines(Names, Tokens)) /\ Len(g) + 1 = Len(f) + 2
  BY <1>0, <1>2, <1>4, AddLine, ZenonT(60) DEF Holds
<1>7. /\ Pending(g) = <<>> /\ SectionAt(g, Len(g) + 1) = s /\ ~HasErrors(g)
      /\ Meaning(g) = Put(Meaning(f), key[i], v)
  BY <1>0, <1>2, <1>5, <1>6, OneKind DEF EndRead
<1>8. /\ DOMAIN Meaning(g) = DOMAIN Meaning(f) \cup {key[i]} /\ Meaning(g)[key[i]] = v
      /\ \A x \in DOMAIN Meaning(f) : x # key[i] => Meaning(g)[x] = Meaning(f)[x]
  BY <1>7 DEF Put
<1>9. Holds(g, Names, Tokens)
  BY <1>0, <1>2, <1>6, <1>7, <1>8 DEF Holds
<1> QED
  BY <1>7, <1>8, <1>9 DEF HoldsIn, HasToo

\* The keys of a section, with that of the section itself.
SectionKeys(s) == {<<s, <<>>>>} \cup {key[i] : i \in SecKeySlots(s)}

\* A sequence with an element before it.
LEMMA ConsIs ==
    ASSUME NEW T, NEW h \in T, NEW q \in Seq(T)
    PROVE  /\ <<h>> \o q \in Seq(T) /\ Len(<<h>> \o q) = Len(q) + 1 /\ (<<h>> \o q)[1] = h
           /\ \A j \in 1..Len(q) : (<<h>> \o q)[j + 1] = q[j]
OBVIOUS

\* The slots of a section, and its lines t.
LinesOf(s, slots, t) ==
    /\ \A i \in SecKeySlots(s) : \E j \in 1..Len(slots) : slots[j] = i
    /\ Len(t) = Len(slots) + 1 /\ t[1] = Heading(s)
    /\ \A j \in 1..Len(slots) : t[j + 1] = WholeLine(EntryText(slots[j]))

LEMMA SectionLines ==
    ASSUME NEW Names, NEW Tokens, Vocabulary(Names, Tokens), TypeOKDict, Writable,
           NEW s \in Names,
           <<s, <<>>>> \in Entries, NEW L, L = DumpLines(Names, Tokens)
    PROVE  /\ DumpSection(s) \in Seq(L)
           /\ \E slots \in Seq(SecKeySlots(s)) : LinesOf(s, slots, DumpSection(s))
<1> DEFINE S == SecKeySlots(s)
<1>1. S \in SUBSET Nat /\ IsFiniteSet(S) /\ S \subseteq Used
  <2>1. S \subseteq Used /\ Used \subseteq Nat
    BY DEF SecKeySlots, Used, Slots, TypeOKDict
  <2>2. IsFiniteSet(Used)
    BY Room
  <2> HIDE DEF S
  <2> QED
    BY <2>1, <2>2, FS_Subset
<1>2. GetSecKeys(s) = InOrder(S)
  <2>1. PICK i \in Used : key[i] = <<s, <<>>>>
    BY ContentsAre DEF Entries
  <2>2. FindEntry(<<s, <<>>>>)
    BY <2>1 DEF FindEntry, Find, Used
  <2> QED
    BY <2>2 DEF GetSecKeys
<1> HIDE DEF S
<1>3. PICK slots \in Seq(S) : /\ slots = InOrder(S)
                              /\ \A i \in S : \E j \in 1..Len(slots) : slots[j] = i
  BY <1>1, InOrderIs
<1> DEFINE lines == [j \in 1..Len(slots) |-> WholeLine(EntryText(slots[j]))]
<1>4. DumpSection(s) = <<Heading(s)>> \o lines
  <2>1. << <<"section", s>> >>[1] = <<"section", s>> /\ Len(<< <<"section", s>> >>) = 1
    OBVIOUS
  <2>2. TextLine(<< <<"section", s>> >>) = Heading(s)
    BY <2>1 DEF TextLine, Continues, Is, Heading, WholeLine
  <2>3. \A j \in 1..Len(slots) : SlotLine(slots[j]) = WholeLine(EntryText(slots[j]))
    <3>1. \A j \in 1..Len(slots) : slots[j] \in S
      BY ElementOfSeq
    <3> QED
      BY <3>1, SlotWhole DEF S
  <2>4. [j \in 1..Len(slots) |-> SlotLine(slots[j])] = lines
    BY <2>3
  <2>5. DumpSection(s) = <<TextLine(<< <<"section", s>> >>)>> \o
                           [j \in 1..Len(slots) |-> SlotLine(slots[j])]
    BY <1>2, <1>3 DEF DumpSection, SlotLine
  <2> QED
    BY <2>2, <2>4, <2>5
<1>5. Heading(s) \in L
  <2>1. << <<"section", s>> >> \in Seq(Written(Names, Tokens))
    BY DEF Written
  <2> QED
    BY <2>1 DEF DumpLines, Heading
<1>6. \A j \in 1..Len(slots) : WholeLine(EntryText(slots[j])) \in L
  <2>1. ASSUME NEW j \in 1..Len(slots) PROVE WholeLine(EntryText(slots[j])) \in L
    <3>0. slots[j] \in S
      BY ElementOfSeq
    <3>1. PICK i \in Used : i = slots[j]
      BY <1>1, <3>0
    <3>2. PICK k \in Seq(Tokens), v \in Seq(Tokens) : EntryText(i) = k \o v
      BY SlotEntry DEF EntryText
    <3>3. k \in Seq(Written(Names, Tokens)) /\ v \in Seq(Written(Names, Tokens))
      BY DEF Written
    <3>4. EntryText(i) \in Seq(Written(Names, Tokens))
      BY <3>2, <3>3, ConcatProperties
    <3> QED
      BY <3>1, <3>4 DEF DumpLines
  <2> QED
    BY <2>1
<1>7. Len(slots) \in Nat
  OBVIOUS
<1>8. /\ lines \in Seq(L) /\ Len(lines) = Len(slots)
      /\ \A j \in 1..Len(slots) : lines[j] = WholeLine(EntryText(slots[j]))
  BY <1>6, <1>7
<1> HIDE DEF lines
<1>9. /\ <<Heading(s)>> \o lines \in Seq(L) /\ Len(<<Heading(s)>> \o lines) = Len(lines) + 1
      /\ (<<Heading(s)>> \o lines)[1] = Heading(s)
      /\ \A j \in 1..Len(lines) : (<<Heading(s)>> \o lines)[j + 1] = lines[j]
  BY <1>5, <1>8, ConsIs
<1>10. LinesOf(s, slots, DumpSection(s))
  BY <1>3, <1>4, <1>8, <1>9, SMTT(40) DEF LinesOf, S
<1> QED
  BY <1>3, <1>4, <1>9, <1>10 DEF S

\* A section is added with its entries.
LEMMA AddSection ==
    ASSUME NEW Names, NEW Tokens, Vocabulary(Names, Tokens), TypeOKDict, Writable,
           NEW f, Holds(f, Names, Tokens),
           NEW s \in Names, <<s, <<>>>> \in Entries
    PROVE  /\ Holds(f \o DumpSection(s), Names, Tokens)
           /\ DOMAIN Meaning(f) \cup SectionKeys(s) \subseteq DOMAIN Meaning(f \o DumpSection(s))
<1>0. PICK L : L = DumpLines(Names, Tokens)
  OBVIOUS
<1>1. PICK t \in Seq(L) : t = DumpSection(s)
  BY <1>0, SectionLines
<1>2. PICK slots \in Seq(SecKeySlots(s)) : LinesOf(s, slots, t)
  BY <1>0, <1>1, SectionLines
<1> DEFINE g(c) == f \o SubSeq(t, 1, c + 1)
           Done(c) == /\ HoldsIn(g(c), s, Names, Tokens)
                      /\ DOMAIN Meaning(f) \subseteq DOMAIN Meaning(g(c))
                      /\ <<s, <<>>>> \in DOMAIN Meaning(g(c))
                      /\ \A j \in 1..c : key[slots[j]] \in DOMAIN Meaning(g(c))
           C == {c \in Nat : c <= Len(slots) => Done(c)}
<1>3. Len(slots) \in Nat /\ Len(t) = Len(slots) + 1 /\ f \in Seq(L)
  BY <1>0, <1>2 DEF LinesOf, Holds
<1>4. 0 \in C
  <2>1. 0 \in 0..(Len(t) - 1) /\ 0 + 1 = 1
    BY <1>3
  <2>2. g(0) = Append(f \o SubSeq(t, 1, 0), t[0 + 1])
    BY <1>3, <2>1, PrefixNext
  <2>3. f \o SubSeq(t, 1, 0) = f
    BY <1>3
  <2>4. g(0) = Append(f, Heading(s))
    BY <1>2, <2>1, <2>2, <2>3 DEF LinesOf
  <2> HIDE DEF g
  <2>5. HoldsIn(g(0), s, Names, Tokens) /\ HasToo(f, g(0), <<s, <<>>>>)
    BY <2>4, AddHead
  <2> QED
    BY <2>5 DEF HasToo
<1>5. ASSUME NEW c \in Nat, c \in C PROVE c + 1 \in C
  <2> SUFFICES ASSUME c + 1 <= Len(slots) PROVE Done(c + 1)
    OBVIOUS
  <2>1. Done(c)
    BY <1>3, <1>5
  <2>2. c + 1 \in 0..(Len(t) - 1) /\ c + 1 \in 1..Len(slots)
    BY <1>3
  <2>3. g(c + 1) = Append(g(c), t[c + 1 + 1])
    BY <1>3, <2>2, PrefixNext, SMTT(40)
  <2>4. PICK i \in SecKeySlots(s) : i = slots[c + 1]
    BY <2>2
  <2>5. t[c + 1 + 1] = WholeLine(EntryText(i))
    BY <1>2, <2>2, <2>4 DEF LinesOf
  <2> HIDE DEF g
  <2>6. PICK a, b : a = g(c) /\ b = g(c + 1)
    OBVIOUS
  <2>7. b = Append(a, WholeLine(EntryText(i)))
    BY <2>3, <2>5, <2>6
  <2>8. HoldsIn(a, s, Names, Tokens)
    BY <2>1, <2>6
  <2>9. HoldsIn(b, s, Names, Tokens) /\ HasToo(a, b, key[i])
    BY <2>7, <2>8, AddEntry
  <2>10. \A j \in 1..(c + 1) : j \in 1..c \/ j = c + 1
    OBVIOUS
  <2> QED
    BY <2>1, <2>4, <2>6, <2>9, <2>10 DEF HasToo
<1> HIDE DEF C
<1>6. Nat \subseteq C
  BY <1>4, <1>5, Induct
<1>7. Done(Len(slots))
  <2>1. Len(slots) \in C /\ Len(slots) <= Len(slots)
    BY <1>3, <1>6
  <2> QED
    BY <2>1 DEF C
<1>8. g(Len(slots)) = f \o DumpSection(s)
  <2>1. SubSeq(t, 1, Len(t)) = t
    OBVIOUS
  <2> QED
    BY <1>1, <1>3, <2>1
<1> HIDE DEF g
<1>9. SectionKeys(s) \subseteq DOMAIN Meaning(g(Len(slots)))
  <2>1. \A i \in SecKeySlots(s) : key[i] \in DOMAIN Meaning(g(Len(slots)))
    BY <1>2, <1>7 DEF LinesOf
  <2> QED
    BY <1>7, <2>1 DEF SectionKeys
<1> QED
  BY <1>7, <1>8, <1>9 DEF HoldsIn

\* The dump holds every entry.
LEMMA DumpHolds ==
    ASSUME NEW Names, NEW Tokens, Vocabulary(Names, Tokens), TypeOKDict, Writable
    PROVE  /\ Holds(DumpIni, Names, Tokens)
           /\ Entries \subseteq DOMAIN Meaning(DumpIni)
<1> DEFINE S == SectionSlots
           N == Cardinality(S)
<1>1. S \in SUBSET Nat /\ IsFiniteSet(S) /\ S \subseteq Used
  <2>1. S \subseteq Used /\ Used \subseteq Nat
    BY DEF SectionSlots, Used, Slots, TypeOKDict
  <2>2. IsFiniteSet(Used)
    BY Room
  <2> HIDE DEF S
  <2> QED
    BY <2>1, <2>2, FS_Subset
<1>0. PICK L : L = DumpLines(Names, Tokens)
  OBVIOUS
<1>2. N \in Nat
  BY <1>1, FS_CardinalityType
<1>3. /\ \A a \in 1..N : GetSecName(a - 1) \in S
      /\ \A i \in S : \E a \in 1..N : GetSecName(a - 1) = i
  <2> HIDE DEF S
  <2>1. /\ \A a \in 1..N : Nth(S, a - 1) \in S
        /\ \A i \in S : \E a \in 1..N : Nth(S, a - 1) = i
    BY <1>1, InOrderIs
  <2> QED
    BY <2>1 DEF GetSecName, S
<1> DEFINE Name(a) == key[GetSecName(a - 1)][1]
<1>4. ASSUME NEW a \in 1..N PROVE Name(a) \in Names /\ <<Name(a), <<>>>> \in Entries
  <2>1. PICK i \in S : i = GetSecName(a - 1)
    BY <1>3
  <2>2. i \in Used /\ key[i][2] = <<>>
    BY DEF SectionSlots
  <2>3. key[i] = <<key[i][1], key[i][2]>> /\ key[i][1] \in Names /\ key[i] \in Entries
    BY <2>2, SlotEntry
  <2> QED
    BY <2>1, <2>2, <2>3
<1>5. ASSUME NEW k \in Entries PROVE \E a \in 1..N : k \in SectionKeys(Name(a))
  <2>1. PICK i \in Used : key[i] = k /\ key[i] = <<key[i][1], key[i][2]>>
    BY ContentsAre, SlotEntry DEF Entries
  <2>2. <<k[1], <<>>>> \in Entries
    BY DEF Writable, Dumpable
  <2>3. PICK h \in Used : key[h] = <<k[1], <<>>>>
    BY <2>2, ContentsAre DEF Entries
  <2>4. h \in S /\ key[h][1] = k[1]
    BY <2>3 DEF SectionSlots
  <2>5. PICK a \in 1..N : GetSecName(a - 1) = h
    BY <1>3, <2>4
  <2>6. Name(a) = k[1]
    BY <2>4, <2>5
  <2>7. CASE k[2] = <<>>
    BY <2>1, <2>6, <2>7 DEF SectionKeys
  <2>8. CASE k[2] # <<>>
    <3>1. i \in SecKeySlots(k[1])
      BY <2>1, <2>8 DEF SecKeySlots
    <3> QED
      BY <2>1, <2>6, <3>1 DEF SectionKeys
  <2> QED
    BY <2>7, <2>8
<1> HIDE DEF Name
<1>6. CASE N = 0
  <2>1. Entries = {} /\ Used = {}
    <3>1. Entries = {}
      BY <1>5, <1>6
    <3> QED
      BY <3>1, ContentsAre DEF Entries
  <2>2. Cardinality(Used) = 0 /\ GetNSec < 1
    BY <1>6, <2>1, FS_EmptySet DEF GetNSec
  <2>3. InOrder(Used) = <<>>
    BY <2>2 DEF InOrder
  <2>4. DumpIni = <<>>
    BY <2>2, <2>3 DEF DumpIni
  <2> QED
    <3>1. <<>> \in Seq(DumpLines(Names, Tokens))
      OBVIOUS
    <3>2. Meaning(<<>>) = [x \in {} |-> x] /\ Pending(<<>>) = <<>> /\ ~HasErrors(<<>>)
      BY NothingRead
    <3> QED
      BY <2>1, <2>4, <3>1, <3>2 DEF Holds
<1>7. CASE N # 0
  <2> DEFINE ss == [a \in 1..N |-> DumpSection(Name(a))]
  <2>1. DumpIni = FlattenSeq(ss)
    <3>1. ~(GetNSec < 1) /\ GetNSec = N
      BY <1>2, <1>7 DEF GetNSec
    <3> QED
      BY <3>1 DEF DumpIni, Name
  <2>2. \A a \in 1..N : DumpSection(Name(a)) \in Seq(L)
    BY <1>0, <1>4, SectionLines
  <2> HIDE DEF N
  <2>3. ss \in Seq(Seq(L)) /\ Len(ss) = N /\ \A a \in 1..N : ss[a] = DumpSection(Name(a))
    BY <1>2, <2>2
  <2> HIDE DEF ss
  <2> DEFINE g(c) == FlattenSeq(SubSeq(ss, 1, c))
             Done(c) == /\ Holds(g(c), Names, Tokens)
                        /\ \A a \in 1..c : SectionKeys(Name(a)) \subseteq DOMAIN Meaning(g(c))
             C == {c \in Nat : c <= N => Done(c)}
  <2>4. 0 \in C
    <3>1. g(0) = <<>>
      <4>1. SubSeq(ss, 1, 0) = <<>>
        BY <2>3
      <4> QED
        BY <4>1, FlattenEmpty
    <3> HIDE DEF g
    <3>2. Holds(g(0), Names, Tokens)
      <4>1. <<>> \in Seq(L)
        OBVIOUS
      <4>2. Meaning(<<>>) = [x \in {} |-> x] /\ Pending(<<>>) = <<>> /\ ~HasErrors(<<>>)
        BY NothingRead
      <4> QED
        BY <1>0, <3>1, <4>1, <4>2 DEF Holds
    <3> QED
      BY <3>2
  <2>5. ASSUME NEW c \in Nat, c \in C PROVE c + 1 \in C
    <3> SUFFICES ASSUME c + 1 <= N PROVE Done(c + 1)
      OBVIOUS
    <3>1. Done(c) /\ c + 1 \in 1..N /\ c \in 0..(Len(ss) - 1)
      BY <1>2, <2>3, <2>5
    <3>2. /\ SubSeq(ss, 1, c + 1) = Append(SubSeq(ss, 1, c), ss[c + 1])
          /\ SubSeq(ss, 1, c) \in Seq(Seq(L)) /\ ss[c + 1] \in Seq(L)
      BY <2>3, <3>1, PrefixNext
    <3>3. g(c + 1) = g(c) \o ss[c + 1]
      BY <3>2, FlattenAppend
    <3>4. PICK s \in Names : s = Name(c + 1) /\ <<s, <<>>>> \in Entries /\ ss[c + 1] = DumpSection(s)
      BY <1>4, <2>3, <3>1
    <3> HIDE DEF g
    <3>5. PICK f : f = g(c) /\ Holds(f, Names, Tokens)
      BY <3>1
    <3>6. g(c + 1) = f \o DumpSection(s)
      BY <3>3, <3>4, <3>5
    <3>7. /\ Holds(g(c + 1), Names, Tokens)
          /\ DOMAIN Meaning(f) \cup SectionKeys(s) \subseteq DOMAIN Meaning(g(c + 1))
      <4>1. /\ Holds(f \o DumpSection(s), Names, Tokens)
            /\ DOMAIN Meaning(f) \cup SectionKeys(s) \subseteq DOMAIN Meaning(f \o DumpSection(s))
        BY <1>0, <3>4, <3>5, AddSection, Zenon
      <4> QED
        BY <3>6, <4>1
    <3>8. \A a \in 1..(c + 1) : a \in 1..c \/ a = c + 1
      OBVIOUS
    <3> QED
      BY <3>1, <3>4, <3>5, <3>7, <3>8
  <2> HIDE DEF C
  <2>6. Nat \subseteq C
    BY <2>4, <2>5, Induct
  <2>7. Done(N)
    <3>1. N \in C /\ N <= N
      BY <1>2, <2>6
    <3> QED
      BY <3>1 DEF C
  <2>8. g(N) = DumpIni
    <3>1. SubSeq(ss, 1, Len(ss)) = ss
      BY <2>3
    <3> QED
      BY <2>1, <2>3, <3>1
  <2> HIDE DEF g
  <2> QED
    BY <1>0, <1>5, <2>7, <2>8
<1> QED
  BY <1>6, <1>7

-----------------------------------------------------------------------------
(***************************************************************************)
(* What can be dumped.                                                      *)
(***************************************************************************)
\* What the callers of iniparser_set may set, for the dump to be read back: keys that could
\* stand in a file.
Settable == \A k \in SetKeys : k[2] # <<>> => KeyLike(k[2])

\* Every key is one that could stand in a file.
Fits(m) == \A k \in DOMAIN m : k[2] # <<>> => KeyLike(k[2])
LegibleInv == Fits(Contents)

\* Removing a key adds and changes no entry.
LEMMA UnsetContents ==
    ASSUME TypeOKDict, NEW k \in Keys, DictionaryUnset(k)
    PROVE  \A x \in DOMAIN Contents' : x \in DOMAIN Contents /\ Contents'[x] = Contents[x]
<1>1. CASE UNCHANGED dictVars
  BY <1>1, SameContents
<1>2. ASSUME NEW i \in Used, key[i] = k, Arrays(size, i, Null, Null), n' = n - 1
      PROVE  \A x \in DOMAIN Contents' : x \in DOMAIN Contents /\ Contents'[x] = Contents[x]
  <2>1. TypeOKDict' /\ Used' = Used \ {i}
    BY <1>2, RemovalKeeps
  <2>2. \A j \in Used \ {i} : key'[j] = key[j] /\ val'[j] = val[j]
    BY <1>2 DEF Arrays, Used, Slots
  <2>3. ASSUME NEW x \in DOMAIN Contents'
        PROVE  x \in DOMAIN Contents /\ Contents'[x] = Contents[x]
    <3>1. PICK j \in Used \ {i} : key[j] = x /\ key'[j] = x
      BY <2>1, <2>2, ContentsNext
    <3> QED
      BY <2>1, <2>2, <3>1, ContentsAre, ContentsNext
  <2> QED
    BY <2>3
<1> QED
  BY <1>1, <1>2, UnsetEffect DEF dictVars

\* A map with one more entry that fits.
LEMMA PutFits ==
    ASSUME NEW m, Fits(m), NEW k, NEW v, k[2] # <<>> => KeyLike(k[2])
    PROVE  Fits(Put(m, k, v))
BY DEF Fits, Put

\* Every step keeps the entries legible.
LEMMA LegibleStep ==
    ASSUME NEW Names, NEW Tokens, Vocabulary(Names, Tokens), Settable,
           Inv(Names, Tokens), LegibleInv, [Next]_vars
    PROVE  LegibleInv'
<1>0. /\ TypeOKDict /\ full \in Seq(Tokens) /\ Fits(Contents)
      /\ state \in {"loading", "loaded"} => size > 0
  BY DEF Inv, LegibleInv
<1> SUFFICES Fits(Contents')
  BY DEF LegibleInv
<1>s. ASSUME UNCHANGED dictVars PROVE Fits(Contents')
  BY <1>0, <1>s, SameContents
<1>e. ASSUME DictionaryNew \/ DictionaryDel PROVE Fits(Contents')
  <2>1. Used' = {}
    BY <1>e, EmptyKeeps
  <2>2. DOMAIN Contents' = {}
    BY <2>1 DEF Contents
  <2> QED
    BY <2>2 DEF Fits
<1>f. ASSUME NEW e, Finish(e) PROVE Fits(Contents')
  BY <1>s, <1>e, <1>f DEF Finish
<1>1. CASE OpenFile
  BY <1>1, <1>e DEF OpenFile
<1>2. CASE CannotOpen \/ ReadBlank \/ UNCHANGED vars
  BY <1>2, <1>s DEF CannotOpen, ReadBlank, vars
<1>3. CASE ReadLastCharacter \/ ReadTooLong \/ EndOfFile
  BY <1>3, <1>f DEF ReadLastCharacter, ReadTooLong, EndOfFile
<1>4. ASSUME NEW l \in Lines, ReadText(l) PROVE Fits(Contents')
  <2>1. CASE l.continued
    BY <1>4, <1>s, <2>1 DEF ReadText
  <2>2. CASE ~l.continued
    <3>1. l.text \in Seq(Tokens)
      BY DEF Vocabulary
    <3>2. PICK line \in Seq(Tokens) : line = full \o l.text
      BY <1>0, <3>1, ConcatProperties
    <3>3. HandleLine(line) /\ size > 0
      BY <1>0, <1>4, <2>2, <3>2 DEF ReadText
    <3>4. Contents' = IF IsSection(line) THEN Put(Contents, <<line[1][2], <<>>>>, Null)
                      ELSE IF IsValue(line)
                      THEN Put(Contents, <<section, KeyOf(line)>>, ValueOf(line))
                      ELSE Contents
      BY <3>3, HandleMeans
    <3>5. CASE IsSection(line)
      <4>0. PICK k : k = <<line[1][2], <<>>>>
        OBVIOUS
      <4>1. k = <<line[1][2], <<>>>> /\ k[2] = <<>>
        BY <4>0
      <4>2. Contents' = Put(Contents, k, Null)
        BY <3>4, <3>5, <4>1
      <4> QED
        BY <1>0, <4>1, <4>2, PutFits
    <3>6. CASE ~IsSection(line) /\ IsValue(line)
      <4>0. PICK k, v : k = <<section, KeyOf(line)>> /\ v = ValueOf(line)
        OBVIOUS
      <4>1. k = <<section, KeyOf(line)>> /\ k[2] = KeyOf(line) /\ v = ValueOf(line)
        BY <4>0
      <4>2. Contents' = Put(Contents, k, v)
        BY <3>4, <3>6, <4>1
      <4>3. KeyLike(k[2])
        BY <3>6, <4>1, LoadedLine
      <4> QED
        BY <1>0, <4>2, <4>3, PutFits
    <3> QED
      BY <1>0, <3>4, <3>5, <3>6
  <2> QED
    BY <2>1, <2>2
<1>5. ASSUME NEW k \in SetKeys, NEW v \in SetValues, IniparserSet(k, v) PROVE Fits(Contents')
  <2>1. k \in Keys /\ v \in Values \cup {Null} /\ size > 0 /\ DictionarySet(k, v)
    BY <1>0, <1>5 DEF IniparserSet, Change, Vocabulary
  <2>2. Contents' = Put(Contents, k, v)
    BY <1>0, <2>1, SetContents
  <2>3. k[2] # <<>> => KeyLike(k[2])
    BY DEF Settable
  <2> QED
    BY <1>0, <2>2, <2>3, PutFits
<1>6. ASSUME NEW k \in SetKeys, IniparserUnset(k) PROVE Fits(Contents')
  <2>1. k \in Keys /\ DictionaryUnset(k)
    BY <1>6 DEF IniparserUnset, Vocabulary
  <2>2. \A x \in DOMAIN Contents' : x \in DOMAIN Contents /\ Contents'[x] = Contents[x]
    BY <1>0, <2>1, UnsetContents
  <2> QED
    BY <1>0, <2>2 DEF Fits
<1> QED
  BY <1>1, <1>2, <1>3, <1>4, <1>5, <1>6 DEF Next

\* So a dictionary that DumpReloads speaks of can be written.
LEMMA WritableIfLegible ==
    ASSUME LegibleInv, \A k \in Entries : Dumpable(k)
    PROVE  Writable
BY DEF LegibleInv, Fits, Entries, Writable

\* A dictionary that can be written comes back from the file that iniparser_dump_ini writes,
\* whatever was loaded and after any number of calls of iniparser_set and iniparser_unset, as
\* long as the keys that are set could stand in a file.  Which ones can be written DumpReloads
\* says: their sections are there, their values are plain, and their lines fit.
THEOREM DumpReadsBack ==
    ASSUME NEW Names, NEW Tokens, Vocabulary(Names, Tokens), Settable
    PROVE  Spec => []DumpReloads
<1>1. Init => Inv(Names, Tokens) /\ LegibleInv
  <2>1. ASSUME Init PROVE LegibleInv
    <3>1. size = 0
      BY <2>1 DEF Init, InitDict
    <3>2. Used = {}
      BY <3>1 DEF Used, Slots
    <3>3. DOMAIN Contents = {}
      BY <3>2 DEF Contents
    <3> QED
      BY <3>3 DEF LegibleInv, Fits
  <2> QED
    BY <2>1, InitHolds
<1>2. Inv(Names, Tokens) /\ LegibleInv /\ [Next]_vars => Inv(Names, Tokens)' /\ LegibleInv'
  BY Step, LegibleStep
<1>3. Inv(Names, Tokens) /\ LegibleInv => DumpReloads
  <2> SUFFICES ASSUME Inv(Names, Tokens), LegibleInv, \A k \in Entries : Dumpable(k)
               PROVE  /\ DOMAIN Meaning(DumpIni) = Entries /\ ~Refused(DumpIni)
                      /\ \A k \in Entries : k[2] # <<>> =>
                           Meaning(DumpIni)[k] = GetConfigItem(k, <<>>)
    BY DEF DumpReloads
  <2>1. TypeOKDict
    BY DEF Inv
  <2>2. Writable
    BY WritableIfLegible
  <2>3. PICK f : f = DumpIni /\ Holds(f, Names, Tokens) /\ Entries \subseteq DOMAIN Meaning(f)
    BY <2>1, <2>2, DumpHolds
  <2>4. ~Refused(f)
    <3>1. \A i \in 1..Len(f) : f[i] \in DumpLines(Names, Tokens)
      BY <2>3 DEF Holds
    <3>2. \A i \in 1..Len(f) : f[i].kind # "long"
      BY <3>1 DEF DumpLines, WholeLine
    <3> QED
      BY <2>3, <3>2 DEF Holds, HasErrors, Refused
  <2> QED
    BY <2>3, <2>4 DEF Holds
<1> QED
  BY <1>1, <1>2, <1>3, PTL DEF Spec

-----------------------------------------------------------------------------
(***************************************************************************)
(* url_decode.  DecodeFrom is a recursive function too; h solves its        *)
(* equation from position m on.                                             *)
(***************************************************************************)
DecodeAt(t, h, p) ==
    IF p > Len(t) THEN <<>>
    ELSE IF t[p] = Plus THEN <<Space>> \o h[p + 1]
    ELSE IF IsEscape(t, p) THEN <<HexToInt(t, p + 1)>> \o h[p + 3]
    ELSE <<t[p]>> \o h[p + 1]

Decodes(h, t, m) == h = [p \in m..(Len(t) + 1) |-> DecodeAt(t, h, p)]

LEMMA DecodeFromIs == ASSUME NEW t PROVE DecodeFrom(t) = CHOOSE h : Decodes(h, t, 1)
BY Zenon DEF DecodeFrom, Decodes, DecodeAt

\* What the equation says of one position.
LEMMA DecodesAt ==
    ASSUME NEW t, NEW m, NEW h, Decodes(h, t, m), NEW p \in m..(Len(t) + 1)
    PROVE  h[p] = DecodeAt(t, h, p)
<1> DEFINE f == [q \in m..(Len(t) + 1) |-> DecodeAt(t, h, q)]
<1>1. h = f
  BY Zenon DEF Decodes
<1>2. f[p] = DecodeAt(t, h, p)
  BY Zenon
<1>3. h[p] = f[p]
  BY <1>1, Zenon
<1> HIDE DEF f
<1> QED
  BY <1>2, <1>3, Zenon

\* It looks only at what follows.
LEMMA DecodeAhead ==
    ASSUME NEW t, Len(t) \in Nat, NEW p \in 1..(Len(t) + 1), NEW h, NEW g,
           \A q \in (p + 1)..(Len(t) + 1) : g[q] = h[q]
    PROVE  DecodeAt(t, g, p) = DecodeAt(t, h, p)
<1>1. CASE p > Len(t)
  BY <1>1 DEF DecodeAt
<1>2. CASE ~(p > Len(t))
  <2>1. p + 1 \in (p + 1)..(Len(t) + 1) /\ (IsEscape(t, p) => p + 3 \in (p + 1)..(Len(t) + 1))
    BY <1>2 DEF IsEscape
  <2> QED
    BY <2>1 DEF DecodeAt
<1> QED
  BY <1>1, <1>2

\* There is a solution from every position on.
LEMMA Decodable ==
    ASSUME NEW t, Len(t) \in Nat
    PROVE  \E h : Decodes(h, t, 1)
<1> DEFINE C == {c \in Nat : c <= Len(t) => \E h : Decodes(h, t, Len(t) + 1 - c)}
<1>1. 0 \in C
  <2>1. PICK m : m = Len(t) + 1 - 0 /\ m = Len(t) + 1
    OBVIOUS
  <2> DEFINE h == [p \in m..(Len(t) + 1) |-> <<>>]
  <2>2. \A p \in m..(Len(t) + 1) : DecodeAt(t, h, p) = <<>>
    BY <2>1 DEF DecodeAt
  <2>3. h = [p \in m..(Len(t) + 1) |-> DecodeAt(t, h, p)]
    BY <2>2
  <2>4. Decodes(h, t, m)
    BY <2>3, Zenon DEF Decodes
  <2> QED
    BY <2>1, <2>4
<1>2. ASSUME NEW c \in Nat, c \in C PROVE c + 1 \in C
  <2> SUFFICES ASSUME c + 1 <= Len(t) PROVE \E h : Decodes(h, t, Len(t) + 1 - (c + 1))
    OBVIOUS
  <2>1. PICK m \in Nat : m = Len(t) + 1 - (c + 1) /\ m + 1 = Len(t) + 1 - c /\ m >= 1 /\ m <= Len(t)
    OBVIOUS
  <2>2. PICK h : Decodes(h, t, m + 1)
    BY <1>2, <2>1
  <2> DEFINE g == [p \in m..(Len(t) + 1) |-> DecodeAt(t, h, p)]
  <2>3. ASSUME NEW q \in (m + 1)..(Len(t) + 1) PROVE g[q] = h[q]
    <3>1. q \in m..(Len(t) + 1)
      BY <2>1
    <3>2. g[q] = DecodeAt(t, h, q)
      BY <3>1
    <3> QED
      BY <2>2, <3>2, DecodesAt
  <2>4. ASSUME NEW p \in m..(Len(t) + 1) PROVE DecodeAt(t, h, p) = DecodeAt(t, g, p)
    <3>1. p \in 1..(Len(t) + 1) /\ \A q \in (p + 1)..(Len(t) + 1) : q \in (m + 1)..(Len(t) + 1)
      BY <2>1
    <3>2. \A q \in (p + 1)..(Len(t) + 1) : g[q] = h[q]
      BY <2>3, <3>1
    <3> HIDE DEF g
    <3> QED
      BY <3>1, <3>2, DecodeAhead
  <2>5. g = [p \in m..(Len(t) + 1) |-> DecodeAt(t, g, p)]
    BY <2>4
  <2> HIDE DEF g
  <2>6. Decodes(g, t, m)
    BY <2>5, Zenon DEF Decodes
  <2> QED
    BY <2>1, <2>6
<1> HIDE DEF C
<1>3. Nat \subseteq C
  BY <1>1, <1>2, Induct
<1>4. Len(t) \in C /\ Len(t) <= Len(t) /\ Len(t) + 1 - Len(t) = 1
  BY <1>3
<1>5. \E h : Decodes(h, t, Len(t) + 1 - Len(t))
  BY <1>4 DEF C
<1> QED
  BY <1>4, <1>5

\* What DecodeFrom is.
LEMMA DecodeIs ==
    ASSUME NEW t, Len(t) \in Nat, NEW p \in 1..(Len(t) + 1)
    PROVE  DecodeFrom(t)[p] = DecodeAt(t, DecodeFrom(t), p)
<1>1. Decodes(DecodeFrom(t), t, 1)
  <2>1. \E h : Decodes(h, t, 1)
    BY Decodable
  <2> QED
    BY <2>1, DecodeFromIs, Zenon
<1> QED
  BY <1>1, DecodesAt

\* Induction from the end of a text: P holds of a position when it holds of all after it.
LEMMA FromEnd ==
    ASSUME NEW b \in Nat, NEW P,
           \A p \in 1..b : (\A q \in (p + 1)..b : q \in P) => p \in P
    PROVE  1..b \subseteq P
<1> SUFFICES ASSUME (1..b) \ P # {} PROVE FALSE
  OBVIOUS
<1>1. PICK p \in (1..b) \ P : \A q \in (1..b) \ P : q <= p
  <2>1. (1..b) \ P \in SUBSET (0..b)
    OBVIOUS
  <2> QED
    BY <2>1, Greatest
<1>2. ASSUME NEW q \in (p + 1)..b PROVE q \in P
  <2>1. q \in 1..b /\ ~(q <= p)
    BY <1>1
  <2> QED
    BY <1>1, <2>1
<1> QED
  BY <1>1, <1>2

\* Decoding gives numbers,
LEMMA DecodeType ==
    ASSUME NEW t \in Seq(Int)
    PROVE  \A p \in 1..(Len(t) + 1) : DecodeFrom(t)[p] \in Seq(Int)
<1> DEFINE D == DecodeFrom(t)
           P == {p \in Nat : D[p] \in Seq(Int)}
<1>0. Len(t) \in Nat /\ Len(t) + 1 \in Nat
  OBVIOUS
<1>c. ASSUME NEW d \in Int, NEW q \in Seq(Int) PROVE <<d>> \o q \in Seq(Int)
  OBVIOUS
<1>1. ASSUME NEW p \in 1..(Len(t) + 1), \A q \in (p + 1)..(Len(t) + 1) : q \in P
      PROVE  p \in P
  <2>0. p \in Nat /\ <<>> \in Seq(Int)
    OBVIOUS
  <2>1. D[p] = DecodeAt(t, D, p)
    BY <1>0, DecodeIs
  <2> HIDE DEF D
  <2>2. CASE p > Len(t)
    <3>1. D[p] = <<>>
      BY <2>1, <2>2 DEF DecodeAt
    <3> QED
      BY <2>0, <3>1
  <2>3. CASE ~(p > Len(t))
    <3>1. p + 1 \in (p + 1)..(Len(t) + 1) /\ t[p] \in Int
      BY <1>0, <2>3
    <3>2. D[p + 1] \in Seq(Int)
      BY <1>1, <3>1
    <3>3. CASE t[p] = Plus
      <4>1. D[p] = <<Space>> \o D[p + 1] /\ Space \in Int
        BY <2>1, <2>3, <3>3, SMTT(40) DEF DecodeAt, Space
      <4> QED
        BY <2>0, <3>2, <4>1, <1>c
    <3>4. CASE t[p] # Plus /\ IsEscape(t, p)
      <4>1. p + 3 \in (p + 1)..(Len(t) + 1) /\ t[p + 1] \in Int /\ t[p + 2] \in Int /\ p + 1 + 1 = p + 2
        BY <1>0, <2>3, <3>4 DEF IsEscape
      <4>2. PICK d \in Int : d = HexToInt(t, p + 1)
        <5>1. \A c \in Int : HexValue(c) \in Int
          BY DEF HexValue
        <5>2. HexValue(t[p + 1]) \in Int /\ HexValue(t[p + 1 + 1]) \in Int
          BY <4>1, <5>1
        <5> QED
          BY <5>2 DEF HexToInt
      <4>3. D[p] = <<d>> \o D[p + 3]
        BY <2>1, <2>3, <3>4, <4>2 DEF DecodeAt
      <4>4. D[p + 3] \in Seq(Int)
        BY <1>1, <4>1
      <4> QED
        BY <2>0, <4>2, <4>3, <4>4, <1>c
    <3>5. CASE t[p] # Plus /\ ~IsEscape(t, p)
      <4>1. D[p] = <<t[p]>> \o D[p + 1]
        BY <2>1, <2>3, <3>5 DEF DecodeAt
      <4> QED
        BY <2>0, <3>1, <3>2, <4>1, <1>c
    <3> QED
      BY <3>3, <3>4, <3>5
  <2> QED
    BY <2>2, <2>3
<1> HIDE DEF P
<1>2. 1..(Len(t) + 1) \subseteq P
  BY <1>0, <1>1, FromEnd
<1> QED
  BY <1>2 DEF P

\* and does not look back: behind x, the text v is decoded as by itself.
LEMMA DecodeBehind ==
    ASSUME NEW x \in Seq(Int), NEW v \in Seq(Int)
    PROVE  \A p \in 1..(Len(v) + 1) : DecodeFrom(x \o v)[Len(x) + p] = DecodeFrom(v)[p]
<1>1. PICK t \in Seq(Int) : t = x \o v
  BY ConcatProperties
<1>2. PICK k \in Nat : k = Len(x)
  OBVIOUS
<1>3. /\ Len(t) = k + Len(v) /\ Len(v) \in Nat /\ Len(t) \in Nat /\ Len(v) + 1 \in Nat
      /\ \A i \in 1..Len(v) : t[k + i] = v[i]
  BY <1>1, <1>2
<1> DEFINE D == DecodeFrom(t)
           E == DecodeFrom(v)
           P == {p \in Nat : D[k + p] = E[p]}
<1>4. ASSUME NEW p \in 1..(Len(v) + 1), \A q \in (p + 1)..(Len(v) + 1) : q \in P
      PROVE  p \in P
  <2>0. k + p \in 1..(Len(t) + 1) /\ p \in Nat
    BY <1>3
  <2>1. D[k + p] = DecodeAt(t, D, k + p) /\ E[p] = DecodeAt(v, E, p)
    BY <1>3, <2>0, DecodeIs
  <2> HIDE DEF D, E
  <2>2. CASE p > Len(v)
    <3>1. k + p > Len(t)
      BY <1>3, <2>2
    <3> QED
      BY <2>0, <2>1, <2>2, <3>1 DEF DecodeAt
  <2>3. CASE ~(p > Len(v))
    <3>1. /\ ~(k + p > Len(t)) /\ p \in 1..Len(v) /\ t[k + p] = v[p]
          /\ p + 1 \in (p + 1)..(Len(v) + 1) /\ k + (p + 1) = k + p + 1
      BY <1>3, <2>3
    <3>2. D[k + p + 1] = E[p + 1]
      BY <1>4, <3>1
    <3>3. ASSUME p + 2 <= Len(v)
          PROVE  /\ t[k + p + 1] = v[p + 1] /\ t[k + p + 2] = v[p + 2]
                 /\ D[k + p + 3] = E[p + 3] /\ k + p + 2 <= Len(t)
      <4>1. p + 1 \in 1..Len(v) /\ p + 2 \in 1..Len(v) /\ p + 3 \in (p + 1)..(Len(v) + 1)
        BY <1>3, <3>3, SMTT(40)
      <4>2. k + (p + 1) = k + p + 1 /\ k + (p + 2) = k + p + 2 /\ k + (p + 3) = k + p + 3
        OBVIOUS
      <4>3. t[k + (p + 1)] = v[p + 1] /\ t[k + (p + 2)] = v[p + 2] /\ D[k + (p + 3)] = E[p + 3]
        BY <1>3, <1>4, <4>1
      <4>4. k + p + 2 <= Len(t)
        BY <1>3, <3>3
      <4> QED
        BY <4>2, <4>3, <4>4
    <3>4. IsEscape(t, k + p) <=> IsEscape(v, p)
      <4>1. k + p + 2 <= Len(t) <=> p + 2 <= Len(v)
        BY <1>3
      <4> QED
        BY <3>1, <3>3, <4>1 DEF IsEscape
    <3>5. IsEscape(v, p) => /\ HexToInt(t, k + p + 1) = HexToInt(v, p + 1)
                            /\ D[k + p + 3] = E[p + 3]
      <4>1. IsEscape(v, p) => p + 2 <= Len(v)
        BY DEF IsEscape
      <4>2. k + p + 1 + 1 = k + p + 2 /\ p + 1 + 1 = p + 2
        OBVIOUS
      <4> QED
        BY <3>3, <4>1, <4>2 DEF HexToInt
    <3> QED
      BY <2>0, <2>1, <2>3, <3>1, <3>2, <3>4, <3>5 DEF DecodeAt
  <2> QED
    BY <2>2, <2>3
<1> HIDE DEF P
<1>5. 1..(Len(v) + 1) \subseteq P
  BY <1>3, <1>4, FromEnd
<1> QED
  BY <1>1, <1>2, <1>5 DEF P

-----------------------------------------------------------------------------
(***************************************************************************)
(* url_encode.                                                              *)
(***************************************************************************)
Bytes == 1..255

\* The digits of a byte.
LEMMA HexDigitsOf ==
    ASSUME NEW d \in 0..15
    PROVE  /\ HexChar(d) \in Int /\ IsHex(HexChar(d)) /\ HexValue(HexChar(d)) = d
           /\ HexChar(d) # Plus /\ HexChar(d) # Percent
BY DEF HexChar, IsHex, HexValue, Digits, Upper, Plus, Percent

LEMMA TwoDigits ==
    ASSUME NEW c \in Bytes
    PROVE  \E a, b \in 0..15 : a * 16 + b = c /\ a = c \div 16 /\ b = c % 16
BY DEF Bytes

\* The three ways in which a byte is encoded.
Escapes(c) == c # Space /\ c \notin Plain

LEMMA EncodeByteIs ==
    ASSUME NEW c \in Bytes
    PROVE  /\ ~Escapes(c) => \E d \in Int :
                /\ EncodeByte(c) = <<d>> /\ d # Percent
                /\ IF d = Plus THEN c = Space ELSE c = d
           /\ Escapes(c) => \E a, b \in 0..15 :
                /\ EncodeByte(c) = <<Percent, HexChar(a), HexChar(b)>> /\ a * 16 + b = c
<1>1. c \in Int /\ Plus \in Int /\ Plus # Percent /\ Plus \notin Plain /\ Percent \notin Plain
  BY DEF Bytes, Plus, Percent, Plain, Upper, Lower, Digits
<1>2. ASSUME Escapes(c)
      PROVE  \E a, b \in 0..15 :
               EncodeByte(c) = <<Percent, HexChar(a), HexChar(b)>> /\ a * 16 + b = c
  <2>1. EncodeByte(c) = <<Percent, HexChar(c \div 16), HexChar(c % 16)>>
    BY <1>2 DEF Escapes, EncodeByte
  <2> QED
    BY <2>1, TwoDigits
<1>3. CASE c = Space
  <2>1. EncodeByte(c) = <<Plus>> /\ ~Escapes(c)
    BY <1>3 DEF Escapes, EncodeByte
  <2> QED
    BY <1>1, <1>3, <2>1
<1>4. CASE c # Space /\ c \in Plain
  <2>1. EncodeByte(c) = <<c>> /\ ~Escapes(c) /\ c # Plus /\ c # Percent
    BY <1>1, <1>4 DEF Escapes, EncodeByte
  <2> QED
    BY <1>1, <2>1
<1> QED
  BY <1>2, <1>3, <1>4 DEF Escapes

LEMMA EncodeByteType ==
    ASSUME NEW c \in Bytes
    PROVE  /\ EncodeByte(c) \in Seq(Int)
           /\ Len(EncodeByte(c)) = IF Escapes(c) THEN 3 ELSE 1
<1>1. CASE Escapes(c)
  <2>1. PICK a \in 0..15, b \in 0..15 : EncodeByte(c) = <<Percent, HexChar(a), HexChar(b)>>
    BY <1>1, EncodeByteIs
  <2>2. Percent \in Int /\ HexChar(a) \in Int /\ HexChar(b) \in Int
    BY HexDigitsOf DEF Percent
  <2> QED
    BY <1>1, <2>1, <2>2
<1>2. CASE ~Escapes(c)
  <2>1. PICK d \in Int : EncodeByte(c) = <<d>>
    BY <1>2, EncodeByteIs
  <2> QED
    BY <1>2, <2>1
<1> QED
  BY <1>1, <1>2

\* An encoded byte is decoded, whatever follows it.
LEMMA OneByte ==
    ASSUME NEW c \in Bytes, NEW v \in Seq(Int)
    PROVE  UrlDecode(EncodeByte(c) \o v) = <<c>> \o UrlDecode(v)
<1>1. PICK x \in Seq(Int) : x = EncodeByte(c)
  BY EncodeByteType
<1>2. PICK t \in Seq(Int) : t = x \o v
  BY ConcatProperties
<1>3. /\ Len(t) = Len(x) + Len(v) /\ Len(v) \in Nat /\ Len(x) \in Nat /\ Len(t) \in Nat
      /\ \A i \in 1..Len(x) : t[i] = x[i]
  BY <1>2
<1> DEFINE D == DecodeFrom(t)
<1>4. D[Len(x) + 1] = UrlDecode(v)
  <2>1. 1 \in 1..(Len(v) + 1)
    BY <1>3
  <2> QED
    BY <1>2, <2>1, DecodeBehind DEF UrlDecode
<1>5. D[1] = DecodeAt(t, D, 1)
  <2>1. 1 \in 1..(Len(t) + 1)
    BY <1>3
  <2> QED
    BY <1>3, <2>1, DecodeIs
<1>6. UrlDecode(t) = D[1]
  BY DEF UrlDecode
<1> HIDE DEF D
<1>7. CASE Escapes(c)
  <2>1. PICK a \in 0..15, b \in 0..15 : x = <<Percent, HexChar(a), HexChar(b)>> /\ a * 16 + b = c
    BY <1>1, <1>7, EncodeByteIs
  <2>2. Len(x) = 3 /\ x[1] = Percent /\ x[2] = HexChar(a) /\ x[3] = HexChar(b)
    BY <2>1
  <2>3. t[1] = Percent /\ t[2] = HexChar(a) /\ t[3] = HexChar(b) /\ 3 <= Len(t) /\ ~(1 > Len(t))
    BY <1>3, <2>2
  <2>n. 1 + 1 = 2 /\ 1 + 2 = 3 /\ 2 + 1 = 3 /\ 1 + 3 = 4 /\ Percent # Plus
    BY DEF Percent, Plus
  <2>4. IsEscape(t, 1) /\ t[1] # Plus
    BY <2>3, <2>n, HexDigitsOf, Zenon DEF IsEscape
  <2>5. HexToInt(t, 1 + 1) = c
    <3>1. HexToInt(t, 2) = HexValue(t[2]) * 16 + HexValue(t[3])
      BY <2>n, Zenon DEF HexToInt
    <3>2. HexToInt(t, 2) = a * 16 + b
      BY <2>3, <3>1, HexDigitsOf, Zenon
    <3> QED
      BY <2>1, <2>n, <3>2, Zenon
  <2>6. D[1] = <<c>> \o D[4]
    BY <1>5, <2>3, <2>4, <2>5, <2>n, Zenon DEF DecodeAt
  <2> QED
    BY <1>1, <1>2, <1>4, <1>6, <2>2, <2>6
<1>8. CASE ~Escapes(c)
  <2>1. PICK d \in Int : x = <<d>> /\ d # Percent /\ IF d = Plus THEN c = Space ELSE c = d
    BY <1>1, <1>8, EncodeByteIs
  <2>2. Len(x) = 1 /\ x[1] = d
    BY <2>1
  <2>3. t[1] = d /\ ~(1 > Len(t))
    BY <1>3, <2>2
  <2>4. ~IsEscape(t, 1)
    BY <2>1, <2>3 DEF IsEscape
  <2>5. D[1] = <<c>> \o D[2]
    BY <1>5, <2>1, <2>3, <2>4 DEF DecodeAt
  <2> QED
    BY <1>1, <1>2, <1>4, <1>6, <2>2, <2>5
<1> QED
  BY <1>7, <1>8

\* One more byte.
LEMMA EncodeNext ==
    ASSUME NEW s \in Seq(Bytes), NEW c \in Bytes
    PROVE  /\ UrlEncode(s) \in Seq(Int)
           /\ UrlEncode(Append(s, c)) = UrlEncode(s) \o EncodeByte(c)
<1>1. PICK T : T = Int
  OBVIOUS
<1>2. \A d \in Bytes : EncodeByte(d) \in Seq(T)
  BY <1>1, EncodeByteType
<1> DEFINE ss == [i \in 1..Len(s) |-> EncodeByte(s[i])]
           r == Append(s, c)
           rr == [i \in 1..Len(r) |-> EncodeByte(r[i])]
<1>3. Len(s) \in Nat /\ r \in Seq(Bytes) /\ Len(r) = Len(s) + 1 /\ r[Len(s) + 1] = c
      /\ \A i \in 1..Len(s) : r[i] = s[i] /\ s[i] \in Bytes
  OBVIOUS
<1>4. UrlEncode(s) = FlattenSeq(ss) /\ UrlEncode(Append(s, c)) = FlattenSeq(rr)
  BY DEF UrlEncode
<1> HIDE DEF r, Bytes
<1>5. \A i \in 1..Len(r) : r[i] \in Bytes
  BY <1>3
<1>6. ss \in Seq(Seq(T)) /\ Len(ss) = Len(s) /\ \A i \in 1..Len(s) : ss[i] = EncodeByte(s[i])
  BY <1>2, <1>3
<1>7. rr \in Seq(Seq(T)) /\ Len(rr) = Len(s) + 1 /\ \A i \in 1..Len(r) : rr[i] = EncodeByte(r[i])
  BY <1>2, <1>3, <1>5
<1> HIDE DEF ss, rr
<1>8. \A i \in 1..Len(ss) : rr[i] = ss[i]
  BY <1>3, <1>6, <1>7
<1>9. Len(ss) + 1 \in 1..Len(r) /\ rr[Len(ss) + 1] = EncodeByte(c)
  BY <1>3, <1>6, <1>7
<1>10. rr = Append(ss, rr[Len(ss) + 1])
  BY <1>6, <1>7, <1>8, AppendIs
<1>11. rr = Append(ss, EncodeByte(c)) /\ EncodeByte(c) \in Seq(T)
  BY <1>2, <1>9, <1>10
<1>12. FlattenSeq(ss) \in Seq(T) /\ FlattenSeq(Append(ss, EncodeByte(c))) = FlattenSeq(ss) \o EncodeByte(c)
  BY <1>6, <1>11, FlattenAppend
<1> QED
  BY <1>1, <1>4, <1>11, <1>12

LEMMA EncodeNone == UrlEncode(<<>>) = <<>>
<1>1. [i \in 1..Len(<<>>) |-> EncodeByte(<<>>[i])] = <<>>
  OBVIOUS
<1> QED
  BY <1>1, FlattenEmpty DEF UrlEncode

-----------------------------------------------------------------------------
(***************************************************************************)
(* A text, byte by byte.                                                    *)
(***************************************************************************)

\* Concatenation.
LEMMA Associates == \A a, b, c \in Seq(Int) : (a \o b) \o c = a \o (b \o c)
BY SMTT(40)

LEMMA ConcatIs ==
    \A a, b \in Seq(Int) :
      /\ a \o b \in Seq(Int) /\ Len(a \o b) = Len(a) + Len(b)
      /\ \A i \in 1..Len(a) : (a \o b)[i] = a[i]
      /\ \A i \in 1..Len(b) : (a \o b)[Len(a) + i] = b[i]
OBVIOUS

LEMMA AppendConcat ==
    \A a \in Seq(Int), d \in Int, c \in Seq(Int) : a \o (<<d>> \o c) = Append(a, d) \o c
BY SMTT(40)

LEMMA WiderSeq == ASSUME NEW T, NEW U, T \subseteq U, NEW s \in Seq(T) PROVE s \in Seq(U)
OBVIOUS

LEMMA BytesAreNumbers == Bytes \subseteq Int
BY DEF Bytes

Encoded(s, c) == UrlEncode(SubSeq(s, 1, c))

\* The first c bytes are decoded, whatever follows, and take from one to three bytes each.
Decoded(s, c) ==
    /\ Encoded(s, c) \in Seq(Int)
    /\ c <= Len(Encoded(s, c)) /\ Len(Encoded(s, c)) <= 3 * c
    /\ (\E i \in 1..c : Len(EncodeByte(s[i])) = 3) => c + 2 <= Len(Encoded(s, c))
    /\ \A v \in Seq(Int) : UrlDecode(Encoded(s, c) \o v) = SubSeq(s, 1, c) \o UrlDecode(v)

\* The next byte.
LEMMA EncodedNext ==
    ASSUME NEW s \in Seq(Bytes), NEW c \in 0..(Len(s) - 1)
    PROVE  /\ SubSeq(s, 1, c + 1) = Append(SubSeq(s, 1, c), s[c + 1]) /\ s[c + 1] \in Bytes
           /\ SubSeq(s, 1, c) \in Seq(Bytes) /\ Encoded(s, c) \in Seq(Int)
           /\ Encoded(s, c + 1) = Encoded(s, c) \o EncodeByte(s[c + 1])
<1>1. <<>> \in Seq(Bytes)
  OBVIOUS
<1>0. /\ SubSeq(s, 1, c) \in Seq(Bytes) /\ s[c + 1] \in Bytes
      /\ SubSeq(s, 1, c + 1) = Append(SubSeq(s, 1, c), s[c + 1])
  <2>1. PICK T : T = Bytes
    OBVIOUS
  <2>2. s \in Seq(T) /\ <<>> \in Seq(T)
    BY <1>1, <2>1
  <2>3. /\ SubSeq(s, 1, c) \in Seq(T) /\ s[c + 1] \in T
        /\ SubSeq(s, 1, c + 1) = Append(SubSeq(s, 1, c), s[c + 1])
    BY <2>2, PrefixNext
  <2> QED
    BY <2>1, <2>3
<1>2. PICK a \in Seq(Bytes), d \in Bytes :
        a = SubSeq(s, 1, c) /\ d = s[c + 1] /\ SubSeq(s, 1, c + 1) = Append(a, d)
  BY <1>0
<1>3. UrlEncode(a) \in Seq(Int) /\ UrlEncode(Append(a, d)) = UrlEncode(a) \o EncodeByte(d)
  BY EncodeNext
<1> QED
  BY <1>2, <1>3 DEF Encoded

LEMMA DecodedStep ==
    ASSUME NEW s \in Seq(Bytes), NEW c \in 0..(Len(s) - 1), Decoded(s, c)
    PROVE  Decoded(s, c + 1)
<1>1. PICK a \in Seq(Bytes), d \in Bytes :
        a = SubSeq(s, 1, c) /\ d = s[c + 1] /\ SubSeq(s, 1, c + 1) = Append(a, d)
  BY EncodedNext
<1>2. PICK e \in Seq(Int) : e = Encoded(s, c)
  BY DEF Decoded
<1>3. PICK x \in Seq(Int) : x = EncodeByte(d)
  BY EncodeByteType
<1>x. Len(x) \in Nat /\ 1 <= Len(x) /\ Len(x) <= 3
  <2>1. Len(x) = IF Escapes(d) THEN 3 ELSE 1
    BY <1>3, EncodeByteType
  <2> QED
    BY <2>1
<1>4. Encoded(s, c + 1) = e \o x
  BY <1>1, <1>2, <1>3, EncodedNext
<1>5. e \o x \in Seq(Int) /\ Len(e \o x) = Len(e) + Len(x) /\ Len(e) \in Nat /\ c \in Nat
  OBVIOUS
<1>6. c <= Len(e) /\ Len(e) <= 3 * c /\ ((\E i \in 1..c : Len(EncodeByte(s[i])) = 3) => c + 2 <= Len(e))
  BY <1>2 DEF Decoded
<1>l. PICK k \in Nat, h \in Nat : k = Len(e) /\ h = Len(x) /\ 1 <= h /\ h <= 3
  BY <1>5, <1>x
<1>7. c + 1 <= Len(e \o x) /\ Len(e \o x) <= 3 * (c + 1)
  BY <1>5, <1>6, <1>l, SMTT(40)
<1>8. ASSUME NEW i \in 1..(c + 1), Len(EncodeByte(s[i])) = 3 PROVE c + 1 + 2 <= Len(e \o x)
  <2>1. CASE i = c + 1
    <3>1. Len(x) = 3
      BY <1>1, <1>3, <1>8, <2>1
    <3> QED
      BY <1>5, <1>6, <3>1
  <2>2. CASE i # c + 1
    <3>1. i \in 1..c
      BY <2>2
    <3>2. c + 2 <= Len(e)
      BY <1>6, <1>8, <3>1
    <3> QED
      BY <1>5, <1>l, <3>2
  <2> QED
    BY <2>1, <2>2
<1>9. ASSUME NEW v \in Seq(Int)
      PROVE  UrlDecode((e \o x) \o v) = Append(a, d) \o UrlDecode(v)
  <2>1. PICK w \in Seq(Int) : w = x \o v
    BY ConcatProperties
  <2>2. (e \o x) \o v = e \o w
    <3>1. (e \o x) \o v = e \o (x \o v)
      BY Associates, Zenon
    <3> QED
      BY <2>1, <3>1, Zenon
  <2>3. UrlDecode(e \o w) = a \o UrlDecode(w)
    BY <1>1, <1>2 DEF Decoded
  <2>4. UrlDecode(w) = <<d>> \o UrlDecode(v)
    BY <1>3, <2>1, OneByte
  <2>5. PICK y \in Seq(Int) : y = UrlDecode(v)
    <3>1. 1 \in 1..(Len(v) + 1)
      OBVIOUS
    <3> QED
      BY <3>1, DecodeType DEF UrlDecode
  <2>6. a \o (<<d>> \o y) = Append(a, d) \o y
    <3>1. d \in Int /\ a \in Seq(Int)
      BY BytesAreNumbers, WiderSeq
    <3> QED
      BY <3>1, AppendConcat, Zenon
  <2> QED
    BY <2>2, <2>3, <2>4, <2>5, <2>6
<1> QED
  BY <1>1, <1>4, <1>5, <1>7, <1>8, <1>9 DEF Decoded

LEMMA AllDecoded ==
    ASSUME NEW s \in Seq(Bytes), NEW c \in 0..Len(s)
    PROVE  Decoded(s, c)
<1> DEFINE C == {m \in Nat : m <= Len(s) => Decoded(s, m)}
<1>0. Len(s) \in Nat
  OBVIOUS
<1>1. 0 \in C
  <2>1. SubSeq(s, 1, 0) = <<>>
    OBVIOUS
  <2>2. Encoded(s, 0) = <<>>
    BY <2>1, EncodeNone DEF Encoded
  <2>3. Len(<<>>) = 0 /\ <<>> \in Seq(Int) /\ 0 <= 3 * 0 /\ ~\E i \in 1..0 : TRUE
    OBVIOUS
  <2>4. ASSUME NEW v \in Seq(Int) PROVE UrlDecode(<<>> \o v) = <<>> \o UrlDecode(v)
    <3>1. 1 \in 1..(Len(v) + 1)
      OBVIOUS
    <3>2. PICK y \in Seq(Int) : y = UrlDecode(v)
      BY <3>1, DecodeType DEF UrlDecode
    <3>3. <<>> \o v = v /\ <<>> \o y = y
      OBVIOUS
    <3> QED
      BY <3>2, <3>3
  <2>5. (\E i \in 1..0 : Len(EncodeByte(s[i])) = 3) => 0 + 2 <= Len(<<>>)
    BY <2>3
  <2>6. 0 <= Len(<<>>) /\ Len(<<>>) <= 3 * 0
    BY <2>3
  <2>7. Decoded(s, 0)
    BY <2>1, <2>2, <2>3, <2>4, <2>5, <2>6, Zenon DEF Decoded
  <2> QED
    BY <2>7
<1>2. ASSUME NEW m \in Nat, m \in C PROVE m + 1 \in C
  <2> SUFFICES ASSUME m + 1 <= Len(s) PROVE Decoded(s, m + 1)
    OBVIOUS
  <2>1. m \in 0..(Len(s) - 1) /\ m <= Len(s)
    BY <1>0
  <2>2. Decoded(s, m)
    BY <1>2, <2>1
  <2> QED
    BY <2>1, <2>2, DecodedStep
<1> HIDE DEF C
<1>3. Nat \subseteq C
  BY <1>1, <1>2, Induct
<1>4. c \in C /\ c <= Len(s)
  BY <1>0, <1>3
<1> QED
  BY <1>4 DEF C

\* The encoding of the first bytes begins that of the text.
Begins(e, u) == \E w \in Seq(Int) : u = e \o w

LEMMA EncodedBegins ==
    ASSUME NEW s \in Seq(Bytes), NEW c \in 0..Len(s)
    PROVE  Begins(Encoded(s, c), UrlEncode(s))
<1> DEFINE C == {m \in Nat : c + m <= Len(s) => Begins(Encoded(s, c), Encoded(s, c + m))}
<1>0. Len(s) \in Nat /\ c \in Nat
  OBVIOUS
<1>e. PICK e \in Seq(Int) : e = Encoded(s, c)
  BY AllDecoded DEF Decoded
<1>1. 0 \in C
  <2>1. c + 0 = c /\ <<>> \in Seq(Int) /\ e = e \o <<>>
    BY <1>0
  <2> QED
    BY <1>e, <2>1 DEF Begins
<1>2. ASSUME NEW m \in Nat, m \in C PROVE m + 1 \in C
  <2> SUFFICES ASSUME c + (m + 1) <= Len(s) PROVE Begins(e, Encoded(s, c + (m + 1)))
    BY <1>e
  <2>1. PICK k \in 0..(Len(s) - 1) : k = c + m /\ k + 1 = c + (m + 1)
    BY <1>0
  <2>2. PICK w \in Seq(Int) : Encoded(s, k) = e \o w
    <3>1. c + m <= Len(s)
      BY <1>0
    <3>2. Begins(e, Encoded(s, k))
      BY <1>2, <1>e, <2>1, <3>1
    <3> QED
      BY <3>2 DEF Begins
  <2>3. PICK d \in Bytes : d = s[k + 1] /\ Encoded(s, k + 1) = Encoded(s, k) \o EncodeByte(d)
    BY EncodedNext
  <2>4. PICK x \in Seq(Int) : x = EncodeByte(d)
    BY EncodeByteType
  <2>5. (e \o w) \o x = e \o (w \o x)
    BY Associates, Zenon
  <2>6. w \o x \in Seq(Int)
    BY ConcatIs, Zenon
  <2> QED
    BY <2>1, <2>2, <2>3, <2>4, <2>5, <2>6 DEF Begins
<1> HIDE DEF C
<1>3. Nat \subseteq C
  BY <1>1, <1>2, Induct
<1>4. PICK m \in Nat : c + m = Len(s) /\ c + m <= Len(s)
  <2>1. Len(s) - c \in Nat /\ c + (Len(s) - c) = Len(s) /\ Len(s) <= Len(s)
    BY <1>0
  <2> QED
    BY <2>1
<1>5. Begins(Encoded(s, c), Encoded(s, c + m))
  <2>1. m \in C
    BY <1>3
  <2> QED
    BY <1>4, <2>1 DEF C
<1>6. SubSeq(s, 1, Len(s)) = s
  OBVIOUS
<1> QED
  BY <1>4, <1>5, <1>6 DEF Encoded

-----------------------------------------------------------------------------
(***************************************************************************)
(* A name that is cut.                                                      *)
(***************************************************************************)

\* Two sequences of one element.
LEMMA PairIs == ASSUME NEW a, NEW b PROVE <<a>> \o <<b>> = <<a, b>>
<1>1. PICK T : T = {a, b}
  OBVIOUS
<1>2. PICK x \in Seq(T), y \in Seq(T), z \in Seq(T) : x = <<a>> /\ y = <<b>> /\ z = <<a, b>>
  <2>1. a \in T /\ b \in T
    BY <1>1
  <2>2. <<a>> \in Seq(T) /\ <<b>> \in Seq(T) /\ <<a, b>> \in Seq(T)
    BY <2>1
  <2> QED
    BY <2>2, Zenon
<1>3. x \o y \in Seq(T) /\ Len(x \o y) = 2 /\ (x \o y)[1] = a /\ (x \o y)[2] = b
  BY <1>2
<1>4. Len(z) = 2 /\ \A i \in 1..2 : z[i] = (x \o y)[i]
  <2>1. z[1] = a /\ z[2] = b /\ Len(z) = 2
    BY <1>2
  <2>2. \A i \in 1..2 : i = 1 \/ i = 2
    OBVIOUS
  <2> QED
    BY <1>3, <2>1, <2>2
<1>5. x \o y = z
  BY <1>3, <1>4, SeqEqual
<1> QED
  BY <1>2, <1>5

\* What is left of an escape is no escape.
LEMMA RemainsStay ==
    ASSUME NEW rest \in Remains
    PROVE  rest \in Seq(Int) /\ UrlDecode(rest) = rest
<1>0. Percent \in Int /\ Percent # Plus
  BY DEF Percent, Plus
<1> DEFINE D == DecodeFrom(rest)
<1>1. ASSUME rest \in Seq(Int) PROVE \A p \in 1..(Len(rest) + 1) : D[p] = DecodeAt(rest, D, p)
  BY <1>1, DecodeIs
<1> HIDE DEF D
<1>2. CASE rest = <<>>
  <2>1. rest \in Seq(Int) /\ 1 \in 1..(Len(rest) + 1) /\ 1 > Len(rest)
    BY <1>2
  <2>2. D[1] = <<>>
    BY <1>1, <2>1 DEF DecodeAt
  <2> QED
    BY <1>2, <2>1, <2>2 DEF UrlDecode, D
<1>3. CASE rest = <<Percent>>
  <2>1. /\ rest \in Seq(Int) /\ Len(rest) = 1 /\ rest[1] = Percent
        /\ 1 \in 1..(Len(rest) + 1) /\ 2 \in 1..(Len(rest) + 1)
        /\ ~(1 > Len(rest)) /\ 2 > Len(rest) /\ ~(1 + 2 <= Len(rest)) /\ 1 + 1 = 2
    BY <1>0, <1>3
  <2>2. D[2] = <<>>
    BY <1>1, <2>1 DEF DecodeAt
  <2>3. ~IsEscape(rest, 1)
    BY <2>1 DEF IsEscape
  <2>4. D[1] = <<Percent>> \o <<>>
    BY <1>0, <1>1, <2>1, <2>2, <2>3, Zenon DEF DecodeAt
  <2>5. <<Percent>> \o <<>> = rest
    BY <1>3
  <2> QED
    BY <2>1, <2>4, <2>5 DEF UrlDecode, D
<1>4. ASSUME NEW d \in 0..15, rest = <<Percent, HexChar(d)>>
      PROVE  rest \in Seq(Int) /\ UrlDecode(rest) = rest
  <2>0. PICK h \in Int : h = HexChar(d) /\ h # Plus /\ h # Percent
    BY HexDigitsOf
  <2>r. rest = <<Percent, h>>
    BY <1>4, <2>0
  <2>1. /\ rest \in Seq(Int) /\ Len(rest) = 2 /\ rest[1] = Percent /\ rest[2] = h
        /\ 1 \in 1..(Len(rest) + 1) /\ 2 \in 1..(Len(rest) + 1) /\ 3 \in 1..(Len(rest) + 1)
        /\ ~(1 > Len(rest)) /\ ~(2 > Len(rest)) /\ 3 > Len(rest) /\ ~(1 + 2 <= Len(rest))
        /\ 1 + 1 = 2 /\ 2 + 1 = 3
    BY <1>0, <2>r
  <2>2. D[3] = <<>>
    BY <1>1, <2>1 DEF DecodeAt
  <2>3. ~IsEscape(rest, 1) /\ ~IsEscape(rest, 2)
    BY <2>0, <2>1 DEF IsEscape
  <2>4. D[2] = <<h>> \o <<>>
    BY <1>1, <2>0, <2>1, <2>2, <2>3, Zenon DEF DecodeAt
  <2>5. D[1] = <<Percent>> \o (<<h>> \o <<>>)
    BY <1>0, <1>1, <2>1, <2>3, <2>4, Zenon DEF DecodeAt
  <2>6. <<Percent>> \o (<<h>> \o <<>>) = rest
    <3>1. <<h>> \o <<>> = <<h>>
      OBVIOUS
    <3>2. <<Percent>> \o <<h>> = <<Percent, h>>
      BY PairIs, Zenon
    <3> QED
      BY <2>r, <3>1, <3>2, Zenon
  <2> QED
    BY <2>1, <2>5, <2>6 DEF UrlDecode, D
<1> QED
  BY <1>2, <1>3, <1>4 DEF Remains

\* One and two elements.
LEMMA FirstBytes ==
    ASSUME NEW y \in Seq(Int), 3 <= Len(y)
    PROVE  SubSeq(y, 1, 1) = <<y[1]>> /\ SubSeq(y, 1, 2) = <<y[1], y[2]>>
<1>1. 1 \in 0..Len(y) /\ 2 \in 0..Len(y) /\ y[1] \in Int /\ y[2] \in Int
  OBVIOUS
<1>p. ASSUME NEW j \in 0..Len(y)
      PROVE  \E a \in Seq(Int) : a = SubSeq(y, 1, j) /\ Len(a) = j /\ \A i \in 1..j : a[i] = y[i]
  BY PrefixIs, ZenonT(60)
<1>2. PICK a \in Seq(Int) : a = SubSeq(y, 1, 1) /\ Len(a) = 1 /\ \A i \in 1..1 : a[i] = y[i]
  BY <1>1, <1>p, Zenon
<1>3. PICK b \in Seq(Int) : b = SubSeq(y, 1, 2) /\ Len(b) = 2 /\ \A i \in 1..2 : b[i] = y[i]
  BY <1>1, <1>p, Zenon
<1>4. a = <<y[1]>>
  <2>1. <<y[1]>> \in Seq(Int) /\ Len(<<y[1]>>) = 1 /\ \A i \in 1..1 : <<y[1]>>[i] = a[i]
    BY <1>1, <1>2
  <2> QED
    BY <1>2, <2>1, SeqEqual
<1>5. b = <<y[1], y[2]>>
  <2>1. /\ <<y[1], y[2]>> \in Seq(Int) /\ Len(<<y[1], y[2]>>) = 2
        /\ \A i \in 1..2 : <<y[1], y[2]>>[i] = b[i]
    BY <1>1, <1>3
  <2> QED
    BY <1>3, <2>1, SeqEqual
<1> QED
  BY <1>2, <1>3, <1>4, <1>5

\* The beginning of an encoded byte.
LEMMA CutByte ==
    ASSUME NEW c \in Bytes, NEW z \in Seq(Int), NEW k \in 0..(Len(EncodeByte(c)) - 1)
    PROVE  SubSeq(EncodeByte(c) \o z, 1, k) \in Remains /\ k <= Len(EncodeByte(c) \o z)
<1>1. PICK x \in Seq(Int) : x = EncodeByte(c) /\ Len(x) = IF Escapes(c) THEN 3 ELSE 1
  BY EncodeByteType
<1>2. PICK y \in Seq(Int) : /\ y = x \o z /\ Len(y) = Len(x) + Len(z) /\ Len(z) \in Nat
                            /\ \A i \in 1..Len(x) : y[i] = x[i]
  <2>1. Len(z) \in Nat
    OBVIOUS
  <2>2. /\ x \o z \in Seq(Int) /\ Len(x \o z) = Len(x) + Len(z)
        /\ \A i \in 1..Len(x) : (x \o z)[i] = x[i]
    BY ConcatIs, Zenon
  <2> QED
    BY <2>1, <2>2, Zenon
<1>3. k <= Len(y)
  BY <1>1, <1>2
<1>4. CASE k = 0
  <2>1. SubSeq(y, 1, k) = <<>>
    BY <1>4
  <2> QED
    BY <1>1, <1>2, <1>3, <2>1 DEF Remains
<1>5. CASE k # 0
  <2>1. Escapes(c) /\ Len(x) = 3 /\ k \in {1, 2}
    BY <1>1, <1>5
  <2>2. PICK a \in 0..15, b \in 0..15 : x = <<Percent, HexChar(a), HexChar(b)>>
    BY <1>1, <2>1, EncodeByteIs, ZenonT(60)
  <2>3. y[1] = Percent /\ y[2] = HexChar(a) /\ 3 <= Len(y)
    <3>1. x[1] = Percent /\ x[2] = HexChar(a)
      BY <2>2
    <3> QED
      BY <1>2, <2>1, <3>1
  <2>4. CASE k = 1
    <3>1. SubSeq(y, 1, 1) = <<y[1]>>
      BY <2>3, FirstBytes
    <3> QED
      BY <1>1, <1>2, <1>3, <2>3, <2>4, <3>1 DEF Remains
  <2>5. CASE k = 2
    <3>1. SubSeq(y, 1, 2) = <<y[1], y[2]>>
      BY <2>3, FirstBytes
    <3> QED
      BY <1>1, <1>2, <1>3, <2>3, <2>5, <3>1 DEF Remains
  <2> QED
    BY <2>1, <2>4, <2>5
<1> QED
  BY <1>4, <1>5

\* The beginning of a concatenation.
LEMMA CutConcat ==
    ASSUME NEW e \in Seq(Int), NEW y \in Seq(Int), NEW k \in 0..Len(y)
    PROVE  /\ SubSeq(e \o y, 1, Len(e) + k) = e \o SubSeq(y, 1, k)
           /\ Len(SubSeq(y, 1, k)) = k /\ SubSeq(y, 1, k) \in Seq(Int)
<1>1. PICK a \in Seq(Int) : a = SubSeq(y, 1, k) /\ Len(a) = k /\ \A i \in 1..k : a[i] = y[i]
  BY PrefixIs, ZenonT(60)
<1>2. PICK u \in Seq(Int) : u = e \o y
  BY ConcatProperties
<1>3. /\ Len(e) \in Nat /\ Len(y) \in Nat /\ Len(u) = Len(e) + Len(y)
      /\ \A i \in 1..Len(e) : u[i] = e[i]
      /\ \A i \in 1..Len(y) : u[Len(e) + i] = y[i]
  BY <1>2
<1>4. Len(e) + k \in 0..Len(u)
  BY <1>3
<1>5. PICK b \in Seq(Int) : /\ b = SubSeq(u, 1, Len(e) + k) /\ Len(b) = Len(e) + k
                            /\ \A i \in 1..(Len(e) + k) : b[i] = u[i]
  BY <1>4, PrefixIs
<1>6. PICK f \in Seq(Int) : /\ f = e \o a /\ Len(f) = Len(e) + k
                            /\ \A i \in 1..Len(e) : f[i] = e[i]
                            /\ \A i \in 1..k : f[Len(e) + i] = a[i]
  <2>1. /\ e \o a \in Seq(Int) /\ Len(e \o a) = Len(e) + Len(a)
        /\ \A i \in 1..Len(e) : (e \o a)[i] = e[i]
        /\ \A i \in 1..Len(a) : (e \o a)[Len(e) + i] = a[i]
    BY ConcatIs, Zenon
  <2>2. PICK f \in Seq(Int) : f = e \o a
    BY <2>1
  <2>3. Len(f) = Len(e) + k /\ (\A i \in 1..Len(e) : f[i] = e[i])
        /\ \A i \in 1..k : f[Len(e) + i] = a[i]
    BY <1>1, <2>1, <2>2
  <2> QED
    BY <2>2, <2>3
<1>7. ASSUME NEW i \in 1..(Len(e) + k) PROVE b[i] = f[i]
  <2>1. CASE i <= Len(e)
    <3>1. i \in 1..Len(e)
      BY <1>3, <2>1
    <3> QED
      BY <1>3, <1>5, <1>6, <3>1
  <2>2. CASE ~(i <= Len(e))
    <3>1. PICK j \in 1..k : i = Len(e) + j
      <4>1. i - Len(e) \in 1..k /\ i = Len(e) + (i - Len(e))
        BY <1>3, <2>2
      <4> QED
        BY <4>1
    <3>2. j \in 1..Len(y)
      BY <1>3, <3>1
    <3> QED
      BY <1>1, <1>3, <1>5, <1>6, <3>1, <3>2
  <2> QED
    BY <2>1, <2>2
<1>8. b = f
  BY <1>5, <1>6, <1>7, SeqEqual
<1> QED
  BY <1>1, <1>2, <1>5, <1>6, <1>8

\* Where a name is cut.
LEMMA WholeIs ==
    ASSUME NEW s \in Seq(Bytes), NEW room \in 0..Len(UrlEncode(s)),
           NEW w, w = Whole(s, room)
    PROVE  /\ w \in 0..Len(s) /\ Len(Encoded(s, w)) <= room
           /\ w < Len(s) => ~(Len(Encoded(s, w + 1)) <= room)
<1> DEFINE S == {i \in 0..Len(s) : EndOf(s, i) <= room}
<1>1. \A i : EndOf(s, i) = Len(Encoded(s, i))
  BY DEF EndOf, Encoded
<1>2. Len(s) \in Nat /\ S \in SUBSET (0..Len(s))
  OBVIOUS
<1>3. 0 \in S
  <2>1. SubSeq(s, 1, 0) = <<>> /\ Len(<<>>) = 0
    OBVIOUS
  <2>2. Len(Encoded(s, 0)) = 0
    BY <2>1, EncodeNone DEF Encoded
  <2> QED
    BY <1>1, <1>2, <2>2
<1> HIDE DEF S
<1>4. Max(S) \in S /\ \A y \in S : y <= Max(S)
  BY <1>2, <1>3, Greatest
<1>5. w = Max(S)
  BY DEF Whole, S
<1>6. w \in 0..Len(s) /\ Len(Encoded(s, w)) <= room
  BY <1>1, <1>4, <1>5 DEF S
<1>7. ASSUME w < Len(s), Len(Encoded(s, w + 1)) <= room PROVE FALSE
  <2>1. w + 1 \in 0..Len(s) /\ ~(w + 1 <= w)
    BY <1>2, <1>6, <1>7
  <2>2. w + 1 \in S
    BY <1>1, <1>7, <2>1 DEF S
  <2> QED
    BY <1>4, <1>5, <2>1, <2>2
<1> QED
  BY <1>6, <1>7

\* A name is the encoding of whole bytes and the rest of one.
LEMMA NameIs ==
    ASSUME NEW s \in Seq(Bytes), NEW room \in 0..Len(UrlEncode(s)),
           NEW w, w = Whole(s, room)
    PROVE  \E rest \in Remains : /\ NodeName(s, room) = Encoded(s, w) \o rest
                                 /\ rest \in Seq(Int)
                                 /\ Len(NodeName(s, room)) = Len(Encoded(s, w)) + Len(rest)
<1>1. /\ w \in 0..Len(s) /\ Len(Encoded(s, w)) <= room
      /\ w < Len(s) => ~(Len(Encoded(s, w + 1)) <= room)
  BY WholeIs
<1>2. PICK e \in Seq(Int) : e = Encoded(s, w)
  BY <1>1, AllDecoded DEF Decoded
<1>3. PICK u : u = UrlEncode(s)
  OBVIOUS
<1>4. Len(s) \in Nat /\ Len(e) \in Nat
  OBVIOUS
<1>5. CASE w = Len(s)
  <2>1. SubSeq(s, 1, Len(s)) = s
    OBVIOUS
  <2>2. e = u
    BY <1>2, <1>3, <1>5, <2>1 DEF Encoded
  <2>3. room = Len(e)
    BY <1>1, <1>2, <1>3, <1>4, <2>2
  <2>4. SubSeq(e, 1, Len(e)) = e /\ e \o <<>> = e /\ <<>> \in Seq(Int) /\ Len(<<>>) = 0
    OBVIOUS
  <2>5. NodeName(s, room) = e /\ Len(e) = Len(e) + 0
    BY <1>3, <1>4, <2>2, <2>3, <2>4 DEF NodeName
  <2>6. <<>> \in Remains
    BY DEF Remains
  <2> QED
    BY <1>2, <2>4, <2>5, <2>6
<1>6. CASE w # Len(s)
  <2>1. w \in 0..(Len(s) - 1) /\ w < Len(s) /\ w + 1 \in 0..Len(s)
    BY <1>1, <1>4, <1>6
  <2>2. PICK d \in Bytes : Encoded(s, w + 1) = e \o EncodeByte(d)
    BY <1>2, <2>1, EncodedNext
  <2>3. PICK x \in Seq(Int) : x = EncodeByte(d)
    BY EncodeByteType
  <2>4. PICK z \in Seq(Int) : u = (e \o x) \o z
    BY <1>3, <2>1, <2>2, <2>3, EncodedBegins DEF Begins
  <2>5. PICK y \in Seq(Int) : y = x \o z
    BY ConcatProperties
  <2>6. u = e \o y
    <3>1. (e \o x) \o z = e \o (x \o z)
      BY Associates, Zenon
    <3> QED
      BY <2>4, <2>5, <3>1, Zenon
  <2>7. PICK k \in Nat : room = Len(e) + k
    <3>1. room - Len(e) \in Nat /\ room = Len(e) + (room - Len(e))
      BY <1>1, <1>2, <1>4
    <3> QED
      BY <3>1
  <2>8. k \in 0..(Len(x) - 1)
    <3>1. Len(e \o x) = Len(e) + Len(x) /\ Len(x) \in Nat
      OBVIOUS
    <3>2. ~(Len(e) + Len(x) <= Len(e) + k)
      BY <1>1, <2>1, <2>2, <2>3, <2>7, <3>1
    <3> QED
      BY <1>4, <3>1, <3>2
  <2>9. PICK rest \in Remains : rest = SubSeq(y, 1, k) /\ k <= Len(y)
    BY <2>3, <2>5, <2>8, CutByte
  <2>10. k \in 0..Len(y)
    BY <2>9
  <2>11. /\ SubSeq(e \o y, 1, Len(e) + k) = e \o rest /\ Len(rest) = k /\ rest \in Seq(Int)
    BY <2>9, <2>10, CutConcat
  <2>12. NodeName(s, room) = e \o rest
    BY <1>3, <2>6, <2>7, <2>11 DEF NodeName
  <2>13. Len(e \o rest) = Len(e) + Len(rest)
    BY <2>11
  <2> QED
    BY <1>2, <2>9, <2>11, <2>12, <2>13
<1> QED
  BY <1>5, <1>6

\* What an agent decodes of it.
LEMMA NameDecodes ==
    ASSUME NEW s \in Seq(Bytes), NEW room \in 0..Len(UrlEncode(s)),
           NEW w, w = Whole(s, room)
    PROVE  /\ \E rest \in Remains : UrlDecode(NodeName(s, room)) = SubSeq(s, 1, w) \o rest
           /\ (\E i \in 1..w : Len(EncodeByte(s[i])) = 3) => DecodeFits(NodeName(s, room))
<1>1. w \in 0..Len(s)
  BY WholeIs
<1>2. Decoded(s, w)
  BY <1>1, AllDecoded
<1>3. PICK name : name = NodeName(s, room)
  OBVIOUS
<1>4. PICK rest \in Remains : /\ name = Encoded(s, w) \o rest /\ rest \in Seq(Int)
                              /\ Len(name) = Len(Encoded(s, w)) + Len(rest)
  BY <1>3, NameIs
<1>5. UrlDecode(rest) = rest
  BY RemainsStay
<1>6. PICK a \in Seq(Bytes) : a = SubSeq(s, 1, w) /\ Len(a) = w
  <2>1. PICK T : T = Bytes
    OBVIOUS
  <2>2. s \in Seq(T)
    BY <2>1
  <2>3. SubSeq(s, 1, w) \in Seq(T) /\ Len(SubSeq(s, 1, w)) = w
    BY <1>1, <2>2, PrefixIs
  <2> QED
    BY <2>1, <2>3
<1>7. UrlDecode(name) = a \o rest
  BY <1>2, <1>4, <1>5, <1>6 DEF Decoded
<1>8. ASSUME NEW i \in 1..w, Len(EncodeByte(s[i])) = 3 PROVE DecodeFits(name)
  <2>1. w + 2 <= Len(Encoded(s, w)) /\ Encoded(s, w) \in Seq(Int)
    BY <1>2, <1>8 DEF Decoded
  <2>2. PICK k \in Nat, h \in Nat : k = Len(Encoded(s, w)) /\ h = Len(rest)
    BY <1>4, <2>1
  <2>3. Len(a \o rest) = w + h
    <3>1. a \in Seq(Int)
      BY BytesAreNumbers, WiderSeq
    <3>2. Len(a \o rest) = Len(a) + Len(rest)
      BY <1>4, <3>1
    <3> QED
      BY <1>6, <2>2, <3>2
  <2>4. w + h + 1 <= k + h
    BY <1>1, <2>1, <2>2
  <2> QED
    BY <1>4, <1>7, <2>2, <2>3, <2>4 DEF DecodeFits
<1> QED
  BY <1>3, <1>6, <1>7, <1>8

\* What is said of a text of bytes.
LEMMA TextDecodes == text \in Seq(Bytes) => NamesDecode
<1> SUFFICES ASSUME text \in Seq(Bytes) PROVE NamesDecode
  OBVIOUS
<1>1. PICK s \in Seq(Bytes) : s = text
  OBVIOUS
<1>2. Len(s) \in Nat /\ Len(s) \in 0..Len(s) /\ SubSeq(s, 1, Len(s)) = s
  OBVIOUS
<1>3. Decoded(s, Len(s))
  BY <1>2, AllDecoded
<1>4. PICK u \in Seq(Int) : u = UrlEncode(s) /\ Len(u) <= 3 * Len(s) /\ UrlDecode(u \o <<>>) = s \o UrlDecode(<<>>)
  <2>1. Encoded(s, Len(s)) = UrlEncode(s)
    BY <1>2, Zenon DEF Encoded
  <2>2. <<>> \in Seq(Int)
    OBVIOUS
  <2> QED
    BY <1>2, <1>3, <2>1, <2>2, Zenon DEF Decoded
<1>5. EncodeFits(s)
  <2>0. Len(u) \in Nat
    OBVIOUS
  <2>1. PICK k \in Nat, h \in Nat : k = Len(u) /\ h = Len(s)
    BY <1>2, <2>0
  <2>2. k <= 3 * h => k + 1 <= 3 * h + 1
    OBVIOUS
  <2> QED
    BY <1>4, <2>1, <2>2 DEF EncodeFits
<1>6. UrlDecode(UrlEncode(s)) = s
  <2>1. <<>> \in Remains
    BY DEF Remains
  <2>2. UrlDecode(<<>>) = <<>>
    BY <2>1, RemainsStay
  <2>3. u \o <<>> = u /\ s \o <<>> = s
    OBVIOUS
  <2> QED
    BY <1>4, <2>2, <2>3
<1>7. ASSUME NEW room \in 0..Len(UrlEncode(s))
      PROVE  /\ \E rest \in Remains :
                  UrlDecode(NodeName(s, room)) = SubSeq(s, 1, Whole(s, room)) \o rest
             /\ (\E i \in 1..Whole(s, room) : Len(EncodeByte(s[i])) = 3)
                  => DecodeFits(NodeName(s, room))
  <2>1. PICK w : w = Whole(s, room)
    OBVIOUS
  <2> QED
    BY <2>1, NameDecodes
<1> QED
  BY <1>1, <1>5, <1>6, <1>7, Zenon DEF NamesDecode

\* Whatever bytes the services file has and wherever the name of its node is cut, an agent
\* decodes the bytes that are whole as they were written, and behind them at most the
\* beginning of one escape; url_encode stays in its buffer, and url_decode does once one byte
\* is escaped.
THEOREM NamesDecoded == SpecText => []NamesDecode
<1> DEFINE IsText == text \in Seq(Bytes)
<1>1. InitText => IsText
  BY DEF InitText
<1>2. IsText /\ [NextText]_textVars => IsText'
  <2> SUFFICES ASSUME text \in Seq(Bytes), NEW piece \in Pieces, Write(piece)
               PROVE  text' \in Seq(Bytes)
    BY DEF NextText, textVars
  <2>1. piece \in Seq(Bytes) /\ text' = text \o piece
    BY NodeNamesConfig DEF Write, Bytes
  <2> QED
    BY <2>1, ConcatProperties
<1>3. IsText => NamesDecode
  BY TextDecodes
<1> HIDE DEF IsText
<1> QED
  BY <1>1, <1>2, <1>3, PTL DEF SpecText
-----------------------------------------------------------------------------
(***************************************************************************)
(* The home in a value of the configuration.                                *)
(***************************************************************************)

\* What a byte becomes is bytes.
LEMMA BecomesBytes ==
    ASSUME NEW t \in Seq(Bytes), NEW h \in Seq(Bytes), NEW i \in 1..Len(t)
    PROVE  Becomes(t, h, i) \in Seq(Bytes)
<1>1. t[i] \in Bytes /\ <<t[i]>> \in Seq(Bytes) /\ <<>> \in Seq(Bytes)
  OBVIOUS
<1> QED
  BY <1>1 DEF Becomes

\* The expansion goes on byte by byte.
LEMMA ExpandedNone == \A t, h : Expanded(t, h, 0) = <<>>
<1> SUFFICES ASSUME NEW t, NEW h PROVE Expanded(t, h, 0) = <<>>
  OBVIOUS
<1>1. [i \in 1..0 |-> Becomes(t, h, i)] = <<>>
  OBVIOUS
<1> QED
  BY <1>1, FlattenEmpty DEF Expanded

LEMMA ExpandedNext ==
    ASSUME NEW t \in Seq(Bytes), NEW h \in Seq(Bytes), NEW k \in 0..Len(t)
    PROVE  /\ Expanded(t, h, k) \in Seq(Bytes)
           /\ k < Len(t) => Expanded(t, h, k + 1) = Expanded(t, h, k) \o Becomes(t, h, k + 1)
<1> DEFINE ss == [i \in 1..k |-> Becomes(t, h, i)]
           rr == [i \in 1..(k + 1) |-> Becomes(t, h, i)]
<1>1. ss \in Seq(Seq(Bytes)) /\ Len(ss) = k
  <2>1. \A i \in 1..k : Becomes(t, h, i) \in Seq(Bytes)
    BY BecomesBytes
  <2> QED
    BY <2>1
<1>2. Expanded(t, h, k) = FlattenSeq(ss)
  BY Zenon DEF Expanded
<1>3. FlattenSeq(ss) \in Seq(Bytes)
  <2>1. <<>> \in Seq(Bytes)
    OBVIOUS
  <2> HIDE DEF ss
  <2> QED
    BY <1>1, <2>1, FlattenAppend
<1>4. ASSUME k < Len(t)
      PROVE  Expanded(t, h, k + 1) = Expanded(t, h, k) \o Becomes(t, h, k + 1)
  <2>1. rr \in Seq(Seq(Bytes)) /\ Len(rr) = k + 1 /\ rr[k + 1] = Becomes(t, h, k + 1)
    <3>1. \A i \in 1..(k + 1) : Becomes(t, h, i) \in Seq(Bytes)
      BY <1>4, BecomesBytes
    <3> QED
      BY <3>1
  <2>2. \A j \in 1..Len(ss) : rr[j] = ss[j]
    BY <1>1
  <2>3. Becomes(t, h, k + 1) \in Seq(Bytes)
    BY <1>4, BecomesBytes
  <2>4. Expanded(t, h, k + 1) = FlattenSeq(rr)
    BY Zenon DEF Expanded
  <2> HIDE DEF ss, rr
  <2>5. rr = Append(ss, Becomes(t, h, k + 1))
    BY <1>1, <2>1, <2>2, AppendIs
  <2>6. FlattenSeq(rr) = FlattenSeq(ss) \o Becomes(t, h, k + 1)
    BY <1>1, <2>3, <2>5, FlattenAppend
  <2> QED
    BY <1>2, <2>4, <2>6
<1> QED
  BY <1>2, <1>3, <1>4

\* Bytes that stand for themselves, bytes that vanish, and that an expansion never shrinks.
LEMMA ExpandedPlain ==
    ASSUME NEW t \in Seq(Bytes), NEW h \in Seq(Bytes), NEW a \in 0..Len(t), NEW b \in a..Len(t),
           \A i \in (a + 1)..b : Becomes(t, h, i) = <<t[i]>>
    PROVE  Expanded(t, h, b) = Expanded(t, h, a) \o SubSeq(t, a + 1, b)
<1> DEFINE Run(d) == Expanded(t, h, d) = Expanded(t, h, a) \o SubSeq(t, a + 1, d)
           S == {c \in Nat : a + c <= b => Run(a + c)}
<1>0. Expanded(t, h, a) \in Seq(Bytes)
  BY ExpandedNext
<1>1. Run(a)
  <2>1. SubSeq(t, a + 1, a) = <<>>
    OBVIOUS
  <2>2. Expanded(t, h, a) \o <<>> = Expanded(t, h, a)
    BY <1>0
  <2> QED
    BY <2>1, <2>2, Zenon
<1>2. ASSUME NEW d \in a..(b - 1), Run(d) PROVE Run(d + 1)
  <2>1. d \in 0..Len(t) /\ d < Len(t) /\ d + 1 \in (a + 1)..b /\ d + 1 \in 1..Len(t)
    OBVIOUS
  <2>2. Expanded(t, h, d + 1) = Expanded(t, h, d) \o <<t[d + 1]>>
    <3>1. Becomes(t, h, d + 1) = <<t[d + 1]>>
      BY <2>1, Zenon
    <3>2. Expanded(t, h, d + 1) = Expanded(t, h, d) \o Becomes(t, h, d + 1)
      BY <2>1, ExpandedNext, Zenon
    <3> QED
      BY <3>1, <3>2, Zenon
  <2>3. PICK u \in Seq(Int), v \in Seq(Int) : u = Expanded(t, h, a) /\ v = SubSeq(t, a + 1, d)
    <3>1. SubSeq(t, a + 1, d) \in Seq(Bytes)
      OBVIOUS
    <3> QED
      BY <1>0, <3>1, BytesAreNumbers, WiderSeq, Zenon
  <2>4. PICK w \in Seq(Int) : w = <<t[d + 1]>>
    <3>0. t[d + 1] \in Bytes
      BY <2>1
    <3>1. PICK x \in Int : x = t[d + 1]
      BY <3>0, BytesAreNumbers, Zenon
    <3>2. <<x>> \in Seq(Int)
      OBVIOUS
    <3> QED
      BY <3>1, <3>2, Zenon
  <2>5. v \o w = SubSeq(t, a + 1, d + 1)
    BY <2>1, <2>3, <2>4
  <2>6. (u \o v) \o w = u \o (v \o w)
    BY Associates
  <2> QED
    BY <1>2, <2>2, <2>3, <2>4, <2>5, <2>6, Zenon
<1> HIDE DEF Run
<1>3. 0 \in S /\ \A c \in Nat : c \in S => c + 1 \in S
  <2>1. 0 \in S
    BY <1>1
  <2>2. ASSUME NEW c \in Nat, c \in S PROVE c + 1 \in S
    <3>1. ASSUME a + (c + 1) <= b PROVE Run(a + (c + 1))
      <4>1. a + c \in a..(b - 1) /\ Run(a + c) /\ a + (c + 1) = (a + c) + 1
        BY <2>2, <3>1
      <4> QED
        BY <1>2, <4>1, Zenon
    <3> QED
      BY <3>1
  <2> QED
    BY <2>1, <2>2
<1>4. b - a \in Nat /\ a + (b - a) = b
  OBVIOUS
<1> HIDE DEF S
<1>5. b - a \in S
  BY <1>3, <1>4, Induct
<1>6. Run(b)
  BY <1>4, <1>5 DEF S
<1> QED
  BY <1>6, Zenon DEF Run

LEMMA ExpandedSame ==
    ASSUME NEW t \in Seq(Bytes), NEW h \in Seq(Bytes), NEW a \in 0..Len(t), NEW b \in a..Len(t),
           \A i \in (a + 1)..b : Becomes(t, h, i) = <<>>
    PROVE  Expanded(t, h, b) = Expanded(t, h, a)
<1> DEFINE S == {c \in Nat : a + c <= b => Expanded(t, h, a + c) = Expanded(t, h, a)}
<1>1. 0 \in S
  OBVIOUS
<1>2. ASSUME NEW c \in Nat, c \in S PROVE c + 1 \in S
  <2> SUFFICES ASSUME a + (c + 1) <= b PROVE Expanded(t, h, a + (c + 1)) = Expanded(t, h, a)
    OBVIOUS
  <2>1. PICK d \in 0..Len(t) : d = a + c /\ d < Len(t) /\ d + 1 \in (a + 1)..b
    OBVIOUS
  <2>2. Expanded(t, h, d) = Expanded(t, h, a)
    BY <1>2, <2>1
  <2>3. Expanded(t, h, d) \in Seq(Bytes) /\ Expanded(t, h, d + 1) = Expanded(t, h, d) \o <<>>
    BY <2>1, ExpandedNext
  <2>4. a + (c + 1) = d + 1
    BY <2>1
  <2> QED
    BY <2>2, <2>3, <2>4
<1> HIDE DEF S
<1>3. Nat \subseteq S
  BY <1>1, <1>2, Induct
<1>4. b - a \in S /\ a + (b - a) = b
  BY <1>3
<1> QED
  BY <1>4 DEF S

LEMMA ExpandedGrows ==
    ASSUME NEW t \in Seq(Bytes), NEW h \in Seq(Bytes), NEW a \in 0..Len(t), NEW b \in a..Len(t)
    PROVE  Len(Expanded(t, h, a)) <= Len(Expanded(t, h, b))
<1> DEFINE S == {c \in Nat : a + c <= b => Len(Expanded(t, h, a)) <= Len(Expanded(t, h, a + c))}
<1>0. \A d \in 0..Len(t) : Len(Expanded(t, h, d)) \in Nat
  BY ExpandedNext
<1>1. 0 \in S
  BY <1>0
<1>2. ASSUME NEW c \in Nat, c \in S PROVE c + 1 \in S
  <2> SUFFICES ASSUME a + (c + 1) <= b
               PROVE  Len(Expanded(t, h, a)) <= Len(Expanded(t, h, a + (c + 1)))
    OBVIOUS
  <2>1. PICK d \in 0..Len(t) : d = a + c /\ d < Len(t) /\ d + 1 \in 1..Len(t)
    OBVIOUS
  <2>2. /\ Expanded(t, h, d) \in Seq(Bytes) /\ Becomes(t, h, d + 1) \in Seq(Bytes)
        /\ Expanded(t, h, d + 1) = Expanded(t, h, d) \o Becomes(t, h, d + 1)
    BY <2>1, ExpandedNext, BecomesBytes
  <2>3. Len(Expanded(t, h, d)) <= Len(Expanded(t, h, d + 1))
    BY <2>2, ConcatProperties
  <2>4. Len(Expanded(t, h, a)) <= Len(Expanded(t, h, d))
    BY <1>2, <2>1
  <2>5. a + (c + 1) = d + 1
    BY <2>1
  <2> QED
    BY <1>0, <2>1, <2>3, <2>4, <2>5
<1> HIDE DEF S
<1>3. Nat \subseteq S
  BY <1>1, <1>2, Induct
<1>4. b - a \in S /\ a + (b - a) = b
  BY <1>3
<1> QED
  BY <1>4 DEF S

\* Two places of the name do not overlap, because its first byte is in it once.
LEMMA Apart ==
    ASSUME NEW t \in Seq(Bytes), NEW q \in Found(t, 1), NEW r \in Found(t, 1), q < r
    PROVE  q + Len(Src) <= r
<1>1. PICK ls \in Nat : ls = Len(Src) /\ ls > 0 /\ Src \in Seq(Bytes)
  BY ConfigItemConfig DEF Bytes
<1>2. /\ q \in 1..(Len(t) - ls + 1) /\ SubSeq(t, q, q + ls - 1) = Src
      /\ r \in 1..(Len(t) - ls + 1) /\ SubSeq(t, r, r + ls - 1) = Src
  BY <1>1 DEF Found
<1>3. \A i \in 1..ls : Src[i] = t[q + i - 1] /\ Src[i] = t[r + i - 1]
  BY <1>1, <1>2
<1> SUFFICES ASSUME r < q + ls PROVE FALSE
  BY <1>1, <1>2
<1>4. PICK i \in 2..ls : i = r - q + 1
  BY <1>1, <1>2
<1>5. Src[i] = t[q + i - 1] /\ Src[1] = t[r + 1 - 1]
  BY <1>1, <1>3, <1>4
<1>6. q + i - 1 = r /\ r + 1 - 1 = r
  BY <1>2, <1>4
<1>7. Src[i] # Src[1]
  BY <1>1, <1>4, ConfigItemConfig
<1> QED
  BY <1>5, <1>6, <1>7

\* The loop has replaced every name it went past.
Past(t, i) == \A q \in Found(t, 1) : q < i => q + Len(Src) <= i

\* Up to the next name the text stays as it is.
LEMMA PlainUpTo ==
    ASSUME NEW t \in Seq(Bytes), NEW h \in Seq(Bytes), NEW a \in 1..(Len(t) + 1), Past(t, a),
           NEW b \in a..(Len(t) + 1), \A q \in Found(t, a) : b <= q
    PROVE  Expanded(t, h, b - 1) = Expanded(t, h, a - 1) \o SubSeq(t, a, b - 1)
<1>1. PICK ls \in Nat : ls = Len(Src)
  BY ConfigItemConfig
<1>2. ASSUME NEW i \in a..(b - 1) PROVE Becomes(t, h, i) = <<t[i]>>
  <2>1. ASSUME NEW q \in Found(t, 1) PROVE q # i /\ ~(q < i /\ i < q + Len(Src))
    <3>1. q \in Nat /\ (q >= a => q \in Found(t, a))
      BY <1>1 DEF Found
    <3>2. CASE q >= a
      <4>1. b <= q
        BY <3>1, <3>2
      <4> QED
        BY <3>1, <4>1
    <3>3. CASE q < a
      <4>1. q + ls <= a
        BY <1>1, <3>3 DEF Past
      <4> QED
        BY <1>1, <3>1, <3>3, <4>1
    <3> QED
      BY <3>1, <3>2, <3>3
  <2> QED
    BY <2>1 DEF Becomes
<1>3. PICK c \in 0..Len(t), d \in Nat : c = a - 1 /\ d = b - 1 /\ d \in c..Len(t) /\ c + 1 = a
  OBVIOUS
<1>4. \A i \in (c + 1)..d : Becomes(t, h, i) = <<t[i]>>
  BY <1>2, <1>3, Zenon
<1>5. Expanded(t, h, d) = Expanded(t, h, c) \o SubSeq(t, c + 1, d)
  BY <1>3, <1>4, ExpandedPlain
<1> QED
  BY <1>3, <1>5, Zenon

\* Past a name.
LEMMA NameReplaced ==
    ASSUME NEW t \in Seq(Bytes), NEW h \in Seq(Bytes), NEW q \in Found(t, 1)
    PROVE  LET e == q + Len(Src) IN
             /\ q \in 1..Len(t) /\ e \in (q + 1)..(Len(t) + 1) /\ Past(t, e)
             /\ Expanded(t, h, q) = Expanded(t, h, q - 1) \o h
             /\ Expanded(t, h, e - 1) = Expanded(t, h, q)
<1>1. PICK ls \in Nat : ls = Len(Src) /\ ls > 0
  BY ConfigItemConfig
<1>2. q \in 1..Len(t) /\ q + ls \in (q + 1)..(Len(t) + 1)
  BY <1>1 DEF Found
<1>3. ASSUME NEW r \in Found(t, 1), r < q + ls PROVE r + ls <= q + ls
  <2>1. r \in Nat
    BY <1>1 DEF Found
  <2>2. CASE q < r
    BY <1>1, <1>2, <1>3, <2>1, <2>2, Apart
  <2> QED
    BY <1>2, <2>1, <2>2
<1>4. Expanded(t, h, q) = Expanded(t, h, q - 1) \o h
  <2>1. Becomes(t, h, q) = h
    BY DEF Becomes
  <2>2. PICK k \in 0..Len(t) : k = q - 1 /\ k < Len(t) /\ k + 1 = q
    BY <1>2
  <2>3. Expanded(t, h, k + 1) = Expanded(t, h, k) \o Becomes(t, h, k + 1)
    BY <2>2, ExpandedNext, Zenon
  <2> QED
    BY <2>1, <2>2, <2>3, Zenon
<1>5. Expanded(t, h, q + ls - 1) = Expanded(t, h, q)
  <2>1. ASSUME NEW i \in (q + 1)..(q + ls - 1) PROVE Becomes(t, h, i) = <<>>
    <3>1. i \in Int /\ q < i /\ i < q + ls
      BY <1>1, <1>2
    <3>2. i \notin Found(t, 1)
      BY <1>1, <1>2, <3>1, Apart
    <3> QED
      BY <1>1, <3>1, <3>2 DEF Becomes
  <2>2. q \in 0..Len(t) /\ q + ls - 1 \in q..Len(t)
    BY <1>1, <1>2
  <2> QED
    BY <2>1, <2>2, ExpandedSame
<1> QED
  BY <1>1, <1>2, <1>3, <1>4, <1>5 DEF Past

\* What holds in the loop: what is written is the expansion of what was read, and with what
\* is left it makes up the buffer.
LoopInv ==
    /\ pInput \in Seq(Bytes) /\ pDst \in Seq(Bytes) /\ output_len \in Nat \ {0}
    /\ at \in {"call", "find", "copied", "done", "undefined"}
    /\ at = "call" => pi = 1
    /\ pi \in 1..(Len(pInput) + 1) /\ Past(pInput, pi)
    /\ nLeft \in Nat
    /\ at \in {"call", "find"} =>
         po = Expanded(pInput, pDst, pi - 1) /\ Len(po) + nLeft = output_len
ItemInv == LoopInv /\ ReplacesAll /\ StaysInBuffer

\* The next name is the first one that strstr can find.
LEMMA NextName ==
    ASSUME NEW t \in Seq(Bytes), NEW a \in 1..(Len(t) + 1), Found(t, a) # {}
    PROVE  /\ Min(Found(t, a)) \in Found(t, 1) /\ Min(Found(t, a)) \in a..(Len(t) + 1)
           /\ \A q \in Found(t, a) : Min(Found(t, a)) <= q
<1>1. PICK ls \in Nat : ls = Len(Src) /\ ls > 0
  BY ConfigItemConfig
<1>2. \A q \in Found(t, a) : q \in Nat /\ q \in a..(Len(t) + 1) /\ q \in Found(t, 1)
  BY <1>1 DEF Found
<1>3. PICK f \in Found(t, a) : \A q \in Found(t, a) : f <= q
  BY <1>2, Least
<1>4. Min(Found(t, a)) \in Found(t, a) /\ \A q \in Found(t, a) : Min(Found(t, a)) <= q
  BY <1>3, Zenon DEF Min
<1> HIDE DEF Min
<1> QED
  BY <1>2, <1>4

\* Parts of a text: nothing, and a part of a part.
LEMMA Nothing ==
    ASSUME NEW t \in Seq(Bytes), NEW k \in 0..Len(t), NEW e \in Seq(Bytes)
    PROVE  e = e \o SubSeq(t, k + 1, k)
OBVIOUS

LEMMA PartIs ==
    ASSUME NEW t \in Seq(Bytes), NEW k \in 0..Len(t), NEW m \in k..Len(t)
    PROVE  /\ SubSeq(t, k + 1, m) \in Seq(Bytes) /\ Len(SubSeq(t, k + 1, m)) = m - k
           /\ \A i \in 1..(m - k) : SubSeq(t, k + 1, m)[i] = t[k + i]
<1>1. SubSeq(t, k + 1, m) \in Seq(Bytes) /\ Len(SubSeq(t, k + 1, m)) = m - k
  OBVIOUS
<1>2. ASSUME NEW i \in 1..(m - k) PROVE SubSeq(t, k + 1, m)[i] = t[k + i]
  <2>1. SubSeq(t, k + 1, m)[i] = t[(k + 1) + i - 1]
    OBVIOUS
  <2>2. (k + 1) + i - 1 = k + i
    OBVIOUS
  <2> QED
    BY <2>1, <2>2
<1> QED
  BY <1>1, <1>2

LEMMA InnerPart ==
    ASSUME NEW t \in Seq(Bytes), NEW k \in 0..Len(t), NEW x \in 0..(Len(t) - k)
    PROVE  SubSeq(SubSeq(t, k + 1, Len(t)), 1, x) = SubSeq(t, k + 1, k + x)
<1>0. Len(t) \in k..Len(t) /\ k + x \in k..Len(t)
  OBVIOUS
<1>1. PICK r \in Seq(Bytes) : r = SubSeq(t, k + 1, Len(t))
  BY <1>0, PartIs, Zenon
<1>2. Len(r) = Len(t) - k /\ \A i \in 1..(Len(t) - k) : r[i] = t[k + i]
  BY <1>1, PartIs
<1>3. PICK a \in Seq(Bytes) : a = SubSeq(r, 0 + 1, x)
  <2>1. 0 \in 0..Len(r) /\ x \in 0..Len(r)
    BY <1>2
  <2> QED
    BY <2>1, PartIs, Zenon
<1>4. Len(a) = x /\ \A i \in 1..x : a[i] = r[0 + i]
  <2>1. 0 \in 0..Len(r) /\ x \in 0..Len(r) /\ x - 0 = x
    BY <1>2
  <2> QED
    BY <1>3, <2>1, PartIs
<1>5. PICK b \in Seq(Bytes) : b = SubSeq(t, k + 1, k + x)
  BY <1>0, PartIs, Zenon
<1>6. Len(b) = x /\ \A i \in 1..x : b[i] = t[k + i]
  <2>1. k + x \in k..Len(t) /\ (k + x) - k = x
    OBVIOUS
  <2> QED
    BY <1>5, <2>1, PartIs
<1>7. \A i \in 1..x : i \in 1..(Len(t) - k) /\ 0 + i = i
  OBVIOUS
<1>8. \A i \in 1..x : a[i] = b[i]
  BY <1>2, <1>4, <1>6, <1>7
<1>9. a = b
  BY <1>4, <1>6, <1>8, SeqEqual
<1> QED
  BY <1>1, <1>3, <1>5, <1>9

LEMMA ItemStarts == InitItem => ItemInv
<1> SUFFICES ASSUME InitItem PROVE ItemInv
  OBVIOUS
<1>1. /\ pInput \in Seq(Bytes) /\ pDst \in Seq(Bytes) /\ output_len \in Nat \ {0}
      /\ pi = 1 /\ po = <<>> /\ nLeft = output_len /\ at = "call"
  BY ConfigItemConfig DEF InitItem, Bytes
<1>2. Expanded(pInput, pDst, 0) = <<>>
  BY ExpandedNone
<1>3. Past(pInput, pi)
  BY <1>1 DEF Past, Found
<1>4. LoopInv
  BY <1>1, <1>2, <1>3 DEF LoopInv
<1>5. \E k \in 0..Len(pInput) :
        \E m \in k..Len(pInput) : po = Expanded(pInput, pDst, k) \o SubSeq(pInput, k + 1, m)
  <2>1. 0 \in 0..Len(pInput) /\ 0 \in 0..Len(pInput) /\ <<>> \in Seq(Bytes)
    BY <1>1
  <2>2. po = Expanded(pInput, pDst, 0) \o SubSeq(pInput, 0 + 1, 0)
    BY <1>1, <1>2, <2>1, Nothing, Zenon
  <2> QED
    BY <2>1, <2>2, Zenon
<1> QED
  BY <1>1, <1>4, <1>5, Zenon DEF ItemInv, ReplacesAll, StaysInBuffer

LEMMA NoHomeKeeps == ItemInv /\ NoHome => ItemInv'
<1> SUFFICES ASSUME ItemInv, NoHome PROVE ItemInv'
  OBVIOUS
<1>1. PICK t \in Seq(Bytes) : t = pInput
  BY DEF ItemInv, LoopInv
<1>2. PICK m \in 0..Len(t) : m < output_len /\ po' = SubSeq(t, 1, m)
  <2>1. PICK x \in Nat, y \in Nat : x = Len(t) /\ y = output_len - 1 /\ y < output_len
    BY DEF ItemInv, LoopInv
  <2>2. Min({x, y}) \in {x, y} /\ Min({x, y}) <= x /\ Min({x, y}) <= y
    <3>1. \E z \in {x, y} : \A w \in {x, y} : z <= w
      OBVIOUS
    <3> QED
      BY <3>1, Zenon DEF Min
  <2> HIDE DEF Min
  <2>3. po' = SubSeq(t, 1, Min({x, y}))
    BY <1>1, <2>1, Zenon DEF NoHome
  <2>4. PICK z : z = Min({x, y})
    OBVIOUS
  <2>5. z \in Nat /\ z <= x /\ z <= y
    BY <2>2, <2>4
  <2>6. z \in 0..Len(t)
    BY <2>1, <2>5
  <2>7. z < output_len
    BY <2>1, <2>5 DEF ItemInv, LoopInv
  <2> QED
    BY <2>3, <2>4, <2>6, <2>7, Zenon
<1>3. /\ pInput' = pInput /\ pDst' = pDst /\ output_len' = output_len /\ pi' = pi
      /\ nLeft' = nLeft /\ at' = "copied"
  BY DEF NoHome, arguments
<1>4. LoopInv'
  BY <1>3 DEF ItemInv, LoopInv, Past
<1>5. Len(po') < output_len
  <2>1. Len(SubSeq(t, 1, m)) = m
    OBVIOUS
  <2> QED
    BY <1>2, <2>1
<1>6. po' = Expanded(t, pDst, 0) \o SubSeq(t, 0 + 1, m)
  <2>1. Expanded(t, pDst, 0) = <<>> /\ 0 + 1 = 1
    BY ExpandedNone
  <2>2. <<>> \o SubSeq(t, 1, m) = SubSeq(t, 1, m)
    OBVIOUS
  <2> QED
    BY <1>2, <2>1, <2>2, Zenon
<1>7. 0 \in 0..Len(t) /\ m \in 0..Len(t)
  OBVIOUS
<1> QED
  BY <1>1, <1>3, <1>4, <1>5, <1>6, <1>7, Zenon DEF ItemInv, ReplacesAll, StaysInBuffer

LEMMA HasHomeKeeps == ItemInv /\ HasHome => ItemInv'
<1> SUFFICES ASSUME ItemInv, HasHome PROVE ItemInv'
  OBVIOUS
<1>1. /\ pInput' = pInput /\ pDst' = pDst /\ output_len' = output_len /\ pi' = pi /\ po' = po
      /\ nLeft' = nLeft /\ at = "call" /\ at' = "find"
  BY DEF HasHome, arguments
<1>2. LoopInv'
  BY <1>1 DEF ItemInv, LoopInv, Past
<1> QED
  BY <1>1, <1>2, Zenon DEF ItemInv, ReplacesAll, StaysInBuffer, Expansion

\* One replacement: up to the name the text is as it was, and the name is the home.
LEMMA ReplaceKeeps == ItemInv /\ Replace => ItemInv'
<1> SUFFICES ASSUME ItemInv, Replace PROVE ItemInv'
  OBVIOUS
<1>0. PICK t \in Seq(Bytes), h \in Seq(Bytes) : t = pInput /\ h = pDst
  BY DEF ItemInv, LoopInv
<1>1. PICK a \in 1..(Len(t) + 1) : t = pInput /\ h = pDst /\ a = pi
  BY <1>0 DEF ItemInv, LoopInv
<1>2. PICK q : q = Min(Found(t, a))
  OBVIOUS
<1>3. /\ q \in Found(t, 1) /\ q \in a..(Len(t) + 1) /\ \A r \in Found(t, a) : q <= r
  <2>1. Found(t, a) # {}
    BY <1>1 DEF Replace, HasRoom
  <2> QED
    BY <1>2, <2>1, NextName, Zenon
<1>4. PICK e : e = q + Len(Src)
  OBVIOUS
<1>5. /\ q \in 1..Len(t) /\ e \in (q + 1)..(Len(t) + 1) /\ Past(t, e)
      /\ Expanded(t, h, q) = Expanded(t, h, q - 1) \o h
      /\ Expanded(t, h, e - 1) = Expanded(t, h, q)
  BY <1>3, <1>4, NameReplaced
<1>6. Expanded(t, h, q - 1) = Expanded(t, h, a - 1) \o SubSeq(t, a, q - 1)
  <2>1. Past(t, a)
    BY <1>1 DEF ItemInv, LoopInv
  <2> QED
    BY <1>3, <2>1, PlainUpTo
<1>7. /\ at = "find" /\ at' = at /\ pInput' = t /\ pDst' = h /\ output_len' = output_len
      /\ po' = po \o SubSeq(t, a, q - 1) \o h /\ pi' = e
      /\ nLeft' = nLeft - (q - a) - Len(h) /\ nLeft - (q - a) >= Len(h)
  BY <1>1, <1>2, <1>4, Zenon DEF Replace, HasRoom, Occurrence, nLen, arguments
<1>8. po = Expanded(t, h, a - 1) /\ Len(po) + nLeft = output_len /\ nLeft \in Nat
  BY <1>1, <1>7 DEF ItemInv, LoopInv
<1>9. po' = Expanded(t, h, e - 1)
  BY <1>5, <1>6, <1>7, <1>8, Zenon
<1>10. Len(po') + nLeft' = output_len /\ nLeft' \in Nat /\ po' \in Seq(Bytes)
  <2>1. PICK u \in Seq(Bytes), v \in Seq(Bytes), c \in Nat, d \in Nat :
          /\ u = po /\ v = SubSeq(t, a, q - 1) /\ c = Len(u) /\ d = q - a /\ Len(v) = d
    <3>1. a - 1 \in 0..Len(t)
      OBVIOUS
    <3>2. po \in Seq(Bytes)
      BY <1>8, <3>1, ExpandedNext
    <3>3. SubSeq(t, a, q - 1) \in Seq(Bytes) /\ Len(SubSeq(t, a, q - 1)) = q - a /\ q - a \in Nat
      BY <1>5, <1>3
    <3>4. Len(po) \in Nat
      BY <3>2
    <3> QED
      BY <3>2, <3>3, <3>4, Zenon
  <2>2. Len(u \o v \o h) = c + d + Len(h) /\ u \o v \o h \in Seq(Bytes) /\ Len(h) \in Nat
    BY <2>1, ConcatProperties
  <2>3. po' = u \o v \o h
    BY <1>7, <2>1, Zenon
  <2>4. nLeft' = nLeft - d - Len(h) /\ nLeft - d >= Len(h) /\ c + nLeft = output_len
    BY <1>7, <1>8, <2>1, Zenon
  <2>5. PICK f \in Nat : f = Len(h)
    BY <2>2
  <2>6. nLeft' = nLeft - d - f /\ nLeft - d >= f /\ Len(po') = c + d + f
    BY <2>2, <2>3, <2>4, <2>5, Zenon
  <2>7. nLeft' \in Nat /\ Len(po') + nLeft' = c + nLeft
    BY <1>8, <2>6
  <2> QED
    BY <2>2, <2>3, <2>4, <2>7, Zenon
<1>11. LoopInv'
  <2>1. /\ pInput' \in Seq(Bytes) /\ pDst' \in Seq(Bytes) /\ output_len' \in Nat \ {0}
        /\ at' = "find" /\ nLeft' \in Nat
    BY <1>7, <1>10 DEF ItemInv, LoopInv
  <2>2. pi' \in 1..(Len(pInput') + 1) /\ Past(pInput', pi')
    <3>1. e \in 1..(Len(t) + 1)
      BY <1>5
    <3> QED
      BY <1>5, <1>7, <3>1, Zenon
  <2>3. po' = Expanded(pInput', pDst', pi' - 1) /\ Len(po') + nLeft' = output_len'
    BY <1>7, <1>9, <1>10, Zenon
  <2>4. LoopInv' = (/\ pInput' \in Seq(Bytes) /\ pDst' \in Seq(Bytes)
                    /\ output_len' \in Nat \ {0}
                    /\ at' \in {"call", "find", "copied", "done", "undefined"}
                    /\ at' = "call" => pi' = 1
                    /\ pi' \in 1..(Len(pInput') + 1) /\ Past(pInput', pi')
                    /\ nLeft' \in Nat
                    /\ at' \in {"call", "find"} =>
                         /\ po' = Expanded(pInput', pDst', pi' - 1)
                         /\ Len(po') + nLeft' = output_len')
    BY Zenon DEF LoopInv
  <2> HIDE DEF LoopInv
  <2> QED
    BY <2>1, <2>2, <2>3, <2>4
<1>12. PICK k \in 0..Len(t) : k = e - 1
  BY <1>5
<1>13. po' = Expanded(t, h, k) \o SubSeq(t, k + 1, k) /\ k \in k..Len(t)
  <2>1. po' = Expanded(t, h, k)
    BY <1>9, <1>12, Zenon
  <2> QED
    BY <1>10, <2>1, Nothing
<1> QED
  BY <1>7, <1>11, <1>12, <1>13, Zenon DEF ItemInv, ReplacesAll, StaysInBuffer

\* The end of the loop: no name is left, or its replacement does not fit.
LEMMA CopyRestKeeps == ItemInv /\ CopyRest => ItemInv'
<1> SUFFICES ASSUME ItemInv, CopyRest PROVE ItemInv'
  OBVIOUS
<1>0. PICK t \in Seq(Bytes), h \in Seq(Bytes) : t = pInput /\ h = pDst
  BY DEF ItemInv, LoopInv
<1>1. PICK a \in 1..(Len(t) + 1) : a = pi
  BY <1>0 DEF ItemInv, LoopInv
<1>2. PICK k \in 0..Len(t) : k = a - 1 /\ k + 1 = a
  OBVIOUS
<1>3. /\ at = "find" /\ pInput' = t /\ pDst' = h /\ output_len' = output_len /\ pi' = a
      /\ nLeft' = nLeft /\ at' \in {"done", "undefined"}
  BY <1>0, <1>1 DEF CopyRest, arguments
<1>4. /\ po = Expanded(t, h, k) /\ Len(po) + nLeft = output_len
      /\ nLeft \in Nat /\ output_len \in Nat \ {0} /\ Past(t, a)
  BY <1>0, <1>1, <1>2, <1>3 DEF ItemInv, LoopInv
<1>5. PICK u \in Seq(Bytes), c \in Nat : u = po /\ c = Len(u) /\ c + nLeft = output_len
  <2>1. Expanded(t, h, k) \in Seq(Bytes)
    BY ExpandedNext
  <2>2. Len(po) \in Nat
    BY <1>4, <2>1
  <2> QED
    BY <1>4, <2>1, <2>2, Zenon
<1>6. PICK r \in Seq(Bytes), d \in Nat : /\ r = SubSeq(t, a, Len(t)) /\ r = Remaining
                                         /\ d = Len(r) /\ d = Len(t) - k
  <2>1. SubSeq(t, a, Len(t)) \in Seq(Bytes) /\ Len(SubSeq(t, a, Len(t))) = Len(t) - k
    BY <1>2
  <2>2. Len(t) - k \in Nat
    OBVIOUS
  <2>3. Remaining = SubSeq(t, a, Len(t))
    BY <1>0, <1>1 DEF Remaining
  <2> QED
    BY <2>1, <2>2, <2>3, Zenon
<1>7. PICK x \in Int : x = nCopy /\ x = IF nLeft > d THEN d ELSE nLeft - 1
  <2>1. nCopy = IF nLeft > d THEN d ELSE nLeft - 1
    BY <1>6, Zenon DEF nCopy
  <2>2. (IF nLeft > d THEN d ELSE nLeft - 1) \in Int
    BY <1>4
  <2> QED
    BY <2>1, <2>2, Zenon
<1>8. PICK w \in Nat : w = Len(Expanded(t, h, Len(t))) /\ c <= w
  <2>1. Len(t) \in k..Len(t) /\ Len(t) \in 0..Len(t)
    OBVIOUS
  <2>2. Len(Expanded(t, h, Len(t))) \in Nat
    BY <2>1, ExpandedNext
  <2>3. Len(Expanded(t, h, k)) <= Len(Expanded(t, h, Len(t)))
    BY <2>1, ExpandedGrows
  <2> QED
    BY <1>4, <1>5, <2>2, <2>3, Zenon
\* When the expansion fits, no name is left and there is room for the rest.
<1>9. ASSUME w < output_len PROVE nLeft > d /\ Expanded(t, h, Len(t)) = u \o r
  <2>1. CASE Found(t, a) = {}
    <3>1. Len(t) + 1 \in a..(Len(t) + 1) /\ Len(t) + 1 - 1 = Len(t)
      OBVIOUS
    <3>2. Expanded(t, h, Len(t)) = Expanded(t, h, k) \o SubSeq(t, a, Len(t))
      <4>1. PICK b \in a..(Len(t) + 1) : b - 1 = Len(t)
        BY <3>1
      <4>2. Expanded(t, h, b - 1) = Expanded(t, h, a - 1) \o SubSeq(t, a, b - 1)
        BY <1>4, <2>1, PlainUpTo
      <4>3. Expanded(t, h, Len(t)) = Expanded(t, h, a - 1) \o SubSeq(t, a, Len(t))
        BY <4>1, <4>2, Zenon
      <4> QED
        BY <1>2, <4>3, Zenon
    <3>3. Expanded(t, h, Len(t)) = u \o r
      BY <1>4, <1>5, <1>6, <3>2, Zenon
    <3>4. w = c + d
      <4>1. Len(u \o r) = Len(u) + Len(r)
        BY ConcatProperties
      <4> QED
        BY <1>5, <1>6, <1>8, <3>3, <4>1, Zenon
    <3> QED
      BY <1>4, <1>5, <1>9, <3>3, <3>4
  <2>2. CASE Found(t, a) # {}
    <3>1. PICK q : q = Min(Found(t, a)) /\ q = Occurrence
      BY <1>0, <1>1 DEF Occurrence
    <3>2. q \in Found(t, 1) /\ q \in a..(Len(t) + 1) /\ \A s \in Found(t, a) : q <= s
      BY <2>2, <3>1, NextName, Zenon
    <3>3. /\ q \in 1..Len(t) /\ Expanded(t, h, q) = Expanded(t, h, q - 1) \o h
      BY <3>2, NameReplaced
    <3>4. Expanded(t, h, q - 1) = u \o SubSeq(t, a, q - 1)
      <4>1. Expanded(t, h, q - 1) = Expanded(t, h, a - 1) \o SubSeq(t, a, q - 1)
        BY <1>4, <3>2, PlainUpTo
      <4> QED
        BY <1>2, <1>4, <1>5, <4>1, Zenon
    <3>5. PICK m \in Nat, f \in Nat : m = q - a /\ f = Len(h) /\ q \in 0..Len(t)
      <4>1. q - a \in Nat /\ q \in 0..Len(t)
        BY <3>2, <3>3
      <4>2. Len(h) \in Nat
        OBVIOUS
      <4> QED
        BY <4>1, <4>2, Zenon
    <3>6. Len(Expanded(t, h, q)) = c + m + f
      <4>1. PICK v \in Seq(Bytes) : v = SubSeq(t, a, q - 1) /\ Len(v) = m
        <5>1. SubSeq(t, a, q - 1) \in Seq(Bytes) /\ Len(SubSeq(t, a, q - 1)) = q - a
          BY <3>2, <3>3
        <5> QED
          BY <3>5, <5>1, Zenon
      <4>2. Len((u \o v) \o h) = Len(u) + Len(v) + Len(h)
        BY ConcatProperties
      <4> QED
        BY <1>5, <3>3, <3>4, <3>5, <4>1, <4>2, Zenon
    <3>7. nLeft - m < f
      <4>1. ~(nLeft - m >= f)
        BY <1>0, <1>1, <2>2, <3>1, <3>5, Zenon DEF CopyRest, HasRoom, nLen
      <4> QED
        BY <1>4, <4>1
    <3>8. Len(Expanded(t, h, q)) <= w
      <4>1. Len(t) \in q..Len(t)
        BY <3>3
      <4> QED
        BY <1>8, <3>5, <4>1, ExpandedGrows
    <3> QED
      BY <1>4, <1>5, <1>9, <3>6, <3>7, <3>8
  <2> QED
    BY <2>1, <2>2
<1>10. CASE nCopy >= 0
  <2>1. x \in 0..d /\ x < nLeft /\ at' = "done" /\ po' = u \o SubSeq(r, 1, x)
    <3>1. at' = "done" /\ po' = po \o SubSeq(Remaining, 1, nCopy)
      <4>1. ~(nCopy < 0)
        BY <1>7, <1>10
      <4> QED
        BY <4>1, Zenon DEF CopyRest
    <3>2. x \in 0..d /\ x < nLeft
      BY <1>4, <1>7, <1>10
    <3> QED
      BY <1>5, <1>6, <1>7, <3>1, <3>2, Zenon
  <2>2. PICK m \in k..Len(t) : m = k + x /\ SubSeq(r, 1, x) = SubSeq(t, k + 1, m)
    <3>1. k + x \in k..Len(t)
      BY <1>6, <2>1
    <3>2. SubSeq(SubSeq(t, k + 1, Len(t)), 1, x) = SubSeq(t, k + 1, k + x)
      <4>1. x \in 0..(Len(t) - k)
        BY <1>6, <2>1
      <4> QED
        BY <4>1, InnerPart
    <3> QED
      BY <1>2, <1>6, <3>1, <3>2, Zenon
  <2>3. Len(po') < output_len
    <3>1. SubSeq(r, 1, x) \in Seq(Bytes) /\ Len(SubSeq(r, 1, x)) = x
      <4>1. 0 \in 0..Len(r) /\ x \in 0..Len(r) /\ x - 0 = x /\ 0 + 1 = 1
        BY <1>6, <2>1
      <4> QED
        BY <4>1, PartIs
    <3>2. Len(u \o SubSeq(r, 1, x)) = c + x
      BY <1>5, <3>1, ConcatProperties
    <3> QED
      BY <1>4, <1>5, <2>1, <3>2
  <2>4. w < output_len => po' = Expanded(t, h, Len(t))
    <3> SUFFICES ASSUME w < output_len PROVE po' = Expanded(t, h, Len(t))
      OBVIOUS
    <3>1. x = d /\ Expanded(t, h, Len(t)) = u \o r
      BY <1>7, <1>9
    <3>2. SubSeq(r, 1, Len(r)) = r
      OBVIOUS
    <3> QED
      BY <1>6, <2>1, <3>1, <3>2, Zenon
  <2>5. ReplacesAll'
    BY <1>3, <1>8, <2>1, <2>4, Zenon DEF ReplacesAll, Expansion
  <2>6. po' = Expanded(t, h, k) \o SubSeq(t, k + 1, m)
    BY <1>4, <1>5, <2>1, <2>2, Zenon
  <2>7. StaysInBuffer'
    BY <1>3, <2>1, <2>2, <2>3, <2>6, Zenon DEF StaysInBuffer
  <2>8. LoopInv'
    BY <1>0, <1>1, <1>3, <2>1 DEF ItemInv, LoopInv, Past
  <2> QED
    BY <2>5, <2>7, <2>8 DEF ItemInv
<1>11. CASE nCopy < 0
  <2>1. at' = "undefined" /\ po' = po
    <3>1. ~(nCopy >= 0)
      BY <1>7, <1>11
    <3> QED
      BY <3>1, Zenon DEF CopyRest
  <2>2. nLeft = 0
    BY <1>4, <1>7, <1>11
  <2>3. c = output_len /\ ~(w < output_len)
    BY <1>4, <1>5, <1>8, <2>2
  <2>4. ReplacesAll'
    BY <1>3, <1>8, <2>3, Zenon DEF ReplacesAll, Expansion
  <2>5. po' = Expanded(t, h, k) \o SubSeq(t, k + 1, k) /\ k \in k..Len(t)
    BY <1>4, <1>5, <2>1, Nothing
  <2>6. Len(Expanded(t, h, a - 1)) = output_len
    BY <1>2, <1>4, <1>5, <2>3, Zenon
  <2>7. StaysInBuffer'
    BY <1>3, <2>1, <2>5, <2>6, Zenon DEF StaysInBuffer
  <2>8. LoopInv'
    BY <1>0, <1>1, <1>3, <2>1 DEF ItemInv, LoopInv, Past
  <2> QED
    BY <2>4, <2>7, <2>8 DEF ItemInv
<1> QED
  BY <1>10, <1>11, Zenon DEF CopyRest

\* The three together hold in every state.
LEMMA ItemInvariant == SpecItem => []ItemInv
<1>1. InitItem => ItemInv
  BY ItemStarts
<1>2. ItemInv /\ [NextItem]_itemVars => ItemInv'
  <2> SUFFICES ASSUME ItemInv, [NextItem]_itemVars PROVE ItemInv'
    OBVIOUS
  <2>1. CASE UNCHANGED itemVars
    BY <2>1 DEF ItemInv, LoopInv, ReplacesAll, StaysInBuffer, Expansion, itemVars, arguments, Past
  <2> QED
    BY <2>1, NoHomeKeeps, HasHomeKeeps, ReplaceKeeps, CopyRestKeeps DEF NextItem
<1> QED
  BY <1>1, <1>2, PTL DEF SpecItem

\* Whatever the value and the home: when the value with every "${AGENT_HOME}" replaced fits
\* the caller's buffer, this is what substitute writes.
THEOREM HomeReplaced == SpecItem => []ReplacesAll
<1>1. ItemInv => ReplacesAll
  BY DEF ItemInv
<1> QED
  BY <1>1, ItemInvariant, PTL

\* Whatever the size of the buffer: get_config_item writes a text that ends in it, replaced up
\* to one place and as it is from there on, unless the replacements fill it to the last byte.
THEOREM ReplacementFits == SpecItem => []StaysInBuffer
<1>1. ItemInv => StaysInBuffer
  BY DEF ItemInv
<1> QED
  BY <1>1, ItemInvariant, PTL
=============================================================================
