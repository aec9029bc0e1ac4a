--------------------------- MODULE ConnPool_proofs ---------------------------
(***************************************************************************)
(* Safety of the connection pool, for every configuration of the pool,      *)
(* every number of workers and every number of descriptors.                 *)
(***************************************************************************)
EXTENDS ConnPool, FiniteSetTheorems, TLAPS

\* A worker has a connection exactly while it works with it, and every connection a
\* worker has is on the used list.
HandsMatchLists ==
    /\ \A w \in Workers : holds[w] = NoConn <=> step[w] = "out"
    /\ \A w \in Workers : step[w] # "out" => holds[w] \in used
    /\ \A c \in used : \E w \in Workers : step[w] # "out" /\ holds[w] = c
    /\ \A v, w \in Workers : holds[v] = holds[w] /\ holds[v] # NoConn => v = w

\* No address is twice on the idle list or on both lists.
ListsDisjoint ==
    /\ \A i, j \in 1..Len(unused) : unused[i] = unused[j] => i = j
    /\ \A i \in 1..Len(unused) : unused[i] \notin used

\* While pool_init runs, the connections made and the attempts left are within init_conn_num.
InitBudget ==
    phase = "init" => used = {} /\ Len(unused) + left <= InitConns

Ownership == TypeOK /\ HandsMatchLists /\ ListsDisjoint

IInv ==
    /\ Ownership
    /\ IsFiniteSet(used)
    /\ InitBudget
    /\ SizeBound
    /\ DescriptorsExclusive

-----------------------------------------------------------------------------
\* What deleting the i-th element leaves: a sequence one shorter, of the elements at the
\* other positions.
LEMMA DeleteAtFacts ==
    ASSUME NEW S, NEW s \in Seq(S), NEW i \in 1..Len(s)
    PROVE  /\ DeleteAt(s, i) \in Seq(S)
           /\ Len(DeleteAt(s, i)) = Len(s) - 1
           /\ \A j \in 1..(Len(s) - 1) :
                DeleteAt(s, i)[j] = IF j < i THEN s[j] ELSE s[j + 1]
<1>1. Len(s) \in Nat /\ Len(s) - 1 \in Nat
  OBVIOUS
<1>2. DeleteAt(s, i) \in [1..(Len(s) - 1) -> S]
  BY DEF DeleteAt
<1>. QED  BY <1>1, <1>2 DEF DeleteAt

\* The initial state satisfies the invariant.
LEMMA InitIInv == Init => IInv
<1>. SUFFICES ASSUME Init PROVE IInv
  OBVIOUS
<1>. USE DEF Init
<1>0. setBack \in BOOLEAN
  BY Zenon
<1>1. TypeOK
  BY <1>0, PoolConfig DEF TypeOK, Phases
<1>2. HandsMatchLists
  BY NullValues DEF HandsMatchLists
<1>3. ListsDisjoint /\ DescriptorsExclusive
  BY DEF ListsDisjoint, DescriptorsExclusive, OwnsDescriptor, Allocated, Idle
<1>4. IsFiniteSet(used) /\ Cardinality(used) = 0
  BY FS_EmptySet
<1>5. InitBudget /\ SizeBound
  BY <1>4, PoolConfig DEF InitBudget, SizeBound, PoolSize
<1>. QED  BY <1>1, <1>2, <1>3, <1>4, <1>5 DEF IInv, Ownership

-----------------------------------------------------------------------------
(***************************************************************************)
(* Types, hands and lists.                                                  *)
(***************************************************************************)

\* Every step keeps the types.
LEMMA TypeStep == TypeOK /\ HandsMatchLists /\ [Next]_vars => TypeOK'
<1>. SUFFICES ASSUME TypeOK, HandsMatchLists, [Next]_vars PROVE TypeOK'
  OBVIOUS
<1>. USE PoolConfig, NullValues DEF TypeOK, Phases
<1>1. ASSUME NEW c \in Conns, NEW fd \in Fds, InitConnect(c, fd) PROVE TypeOK'
  BY <1>1 DEF InitConnect, Connects
<1>2. ASSUME NEW fd \in Fds \cup {NoFd}, InitConnectFails(fd) PROVE TypeOK'
  BY <1>2 DEF InitConnectFails, FailedSocket
<1>3. CASE InitDone
  BY <1>3 DEF InitDone, socks, work
<1>4. ASSUME NEW w \in Workers, WorkerNext(w) PROVE TypeOK'
  <2>. USE DEF CanRequire, Granted, socks, pool, work
  <2>1. CASE RequireIdle(w)
    BY <2>1 DEF RequireIdle
  <2>2. ASSUME NEW c \in Conns, NEW fd \in Fds, RequireNew(w, c, fd) PROVE TypeOK'
    BY <2>2 DEF RequireNew, Connects
  <2>3. ASSUME NEW fd \in Fds \cup {NoFd}, RequireNewFails(w, fd) PROVE TypeOK'
    BY <2>3 DEF RequireNewFails, FailedSocket
  <2>4. CASE RequireExceedsMax(w)
    BY <2>4 DEF RequireExceedsMax, vars
  <2>5. CASE Release(w)
    BY <2>5 DEF Release, HandsMatchLists
  <2>6. CASE ReconnectClose(w)
    BY <2>6 DEF ReconnectClose
  <2>7. ASSUME NEW fd \in Fds, ReconnectOpen(w, fd) PROVE TypeOK'
    BY <2>7 DEF ReconnectOpen, Connects
  <2>8. ASSUME NEW fd \in Fds \cup {NoFd}, ReconnectFails(w, fd) PROVE TypeOK'
    BY <2>8 DEF ReconnectFails, FailedSocket
  <2>. QED  BY <1>4, <2>1, <2>2, <2>3, <2>4, <2>5, <2>6, <2>7, <2>8 DEF WorkerNext
<1>5. CASE PoolCheck
  <2>1. PICK i \in 1..Len(unused) :
          /\ open' = open \ {sock_fd[unused[i]]}
          /\ sock_fd' = [sock_fd EXCEPT ![unused[i]] = NoFd]
          /\ unused' = DeleteAt(unused, i)
          /\ last_used' = [last_used EXCEPT ![unused[i]] = 0]
    BY <1>5 DEF PoolCheck
  <2>2. unused' \in Seq(Conns)
    BY <2>1, DeleteAtFacts
  <2>. QED  BY <1>5, <2>1, <2>2 DEF PoolCheck, work
<1>6. CASE Retire
  BY <1>6 DEF Retire, socks, work
<1>7. CASE DestroyerNext
  <2>1. CASE DestroyFails
    BY <2>1 DEF DestroyFails, socks, work
  <2>2. CASE Destroy
    BY <2>2 DEF Destroy, work
  <2>3. CASE FreePool \/ DestroyGivesUp
    BY <2>3 DEF FreePool, DestroyGivesUp, socks, work
  <2>. QED  BY <1>7, <2>1, <2>2, <2>3 DEF DestroyerNext
<1>8. CASE Tick
  BY <1>8 DEF Tick, pool, socks, work
<1>9. CASE ClockSetBack
  BY <1>9 DEF ClockSetBack, pool, socks, work
<1>10. CASE UNCHANGED vars
  BY <1>10 DEF vars
<1>. QED  BY <1>1, <1>2, <1>3, <1>4, <1>5, <1>6, <1>7, <1>8, <1>9, <1>10 DEF Next, PoolInit

\* Handing a connection that is on neither list to a worker keeps hands and lists matched.
LEMMA GrantedHands ==
    ASSUME Ownership, NEW w \in Workers, NEW c \in Conns,
           step[w] = "out", c \notin used, Granted(w, c)
    PROVE  HandsMatchLists'
<1>. USE NullValues DEF Ownership, TypeOK, HandsMatchLists, Granted
<1>1. \A v \in Workers : holds'[v] = IF v = w THEN c ELSE holds[v]
  OBVIOUS
<1>2. \A v \in Workers : step'[v] = IF v = w THEN "work" ELSE step[v]
  OBVIOUS
<1>. QED  BY <1>1, <1>2

\* Every step keeps hands and lists matched.
LEMMA HandsStep == Ownership /\ [Next]_vars => HandsMatchLists'
<1>. SUFFICES ASSUME Ownership, [Next]_vars PROVE HandsMatchLists'
  OBVIOUS
<1>1. ASSUME UNCHANGED <<used, step, holds>> PROVE HandsMatchLists'
  BY <1>1 DEF Ownership, HandsMatchLists
<1>2. ASSUME NEW w \in Workers, WorkerNext(w) PROVE HandsMatchLists'
  <2>1. CASE RequireIdle(w)
    <3>1. Head(unused) \in Conns /\ Head(unused) = unused[1] /\ 1 \in 1..Len(unused)
      BY <2>1 DEF RequireIdle, Ownership, TypeOK
    <3>. QED  BY <2>1, <3>1, GrantedHands DEF RequireIdle, CanRequire, Ownership, ListsDisjoint
  <2>2. ASSUME NEW c \in Conns, NEW fd \in Fds, RequireNew(w, c, fd) PROVE HandsMatchLists'
    BY <2>2, GrantedHands DEF RequireNew, CanRequire, Allocated
  <2>3. ASSUME NEW fd \in Fds \cup {NoFd}, RequireNewFails(w, fd) PROVE HandsMatchLists'
    BY <2>3, <1>1 DEF RequireNewFails, pool, work
  <2>4. CASE RequireExceedsMax(w)
    BY <2>4, <1>1 DEF RequireExceedsMax, vars
  <2>5. CASE Release(w)
    BY <2>5, NullValues DEF Release, Ownership, HandsMatchLists, TypeOK
  <2>6. CASE ReconnectClose(w)
    BY <2>6 DEF ReconnectClose, Ownership, HandsMatchLists, TypeOK, pool
  <2>7. ASSUME NEW fd \in Fds, ReconnectOpen(w, fd) PROVE HandsMatchLists'
    BY <2>7 DEF ReconnectOpen, Ownership, HandsMatchLists, TypeOK, pool
  <2>8. ASSUME NEW fd \in Fds \cup {NoFd}, ReconnectFails(w, fd) PROVE HandsMatchLists'
    BY <2>8 DEF ReconnectFails, Ownership, HandsMatchLists, TypeOK, pool
  <2>. QED  BY <1>2, <2>1, <2>2, <2>3, <2>4, <2>5, <2>6, <2>7, <2>8 DEF WorkerNext
<1>3. CASE PoolInit
  BY <1>1, <1>3 DEF PoolInit, InitConnect, InitConnectFails, InitDone, work
<1>4. CASE PoolCheck \/ Retire \/ DestroyerNext
  BY <1>1, <1>4 DEF PoolCheck, Retire, DestroyerNext, DestroyFails, Destroy, FreePool,
                         DestroyGivesUp, work
<1>5. CASE Tick \/ ClockSetBack \/ UNCHANGED vars
  BY <1>1, <1>5 DEF Tick, ClockSetBack, vars, pool, work
<1>. QED  BY <1>2, <1>3, <1>4, <1>5 DEF Next

\* Every step keeps the two lists free of repetitions and disjoint.
LEMMA ListsStep == Ownership /\ [Next]_vars => ListsDisjoint'
<1>. SUFFICES ASSUME Ownership, [Next]_vars PROVE ListsDisjoint'
  OBVIOUS
<1>. USE DEF Ownership, TypeOK, ListsDisjoint
<1>1. ASSUME UNCHANGED <<unused, used>> PROVE ListsDisjoint'
  BY <1>1
<1>2. ASSUME NEW c \in Conns, NEW fd \in Fds, InitConnect(c, fd) PROVE ListsDisjoint'
  BY <1>2 DEF InitConnect, Allocated, Idle
<1>3. ASSUME NEW w \in Workers, WorkerNext(w) PROVE ListsDisjoint'
  <2>1. CASE RequireIdle(w)
    <3>1. /\ Head(unused) = unused[1] /\ Len(unused) > 0
          /\ Len(Tail(unused)) = Len(unused) - 1
          /\ \A i \in 1..(Len(unused) - 1) : Tail(unused)[i] = unused[i + 1]
      BY <2>1 DEF RequireIdle
    <3>. QED  BY <2>1, <3>1 DEF RequireIdle, Granted
  <2>2. ASSUME NEW c \in Conns, NEW fd \in Fds, RequireNew(w, c, fd) PROVE ListsDisjoint'
    BY <2>2 DEF RequireNew, Granted, Allocated, Idle
  <2>3. CASE Release(w)
    <3>1. holds[w] \in used
      BY <2>3 DEF Release, HandsMatchLists
    <3>2. /\ Len(unused') = Len(unused) + 1
          /\ \A i \in 1..Len(unused') :
               unused'[i] = IF i = Len(unused) + 1 THEN holds[w] ELSE unused[i]
      BY <2>3, <3>1 DEF Release
    <3>. QED  BY <2>3, <3>1, <3>2 DEF Release
  <2>4. ASSUME \/ RequireExceedsMax(w) \/ ReconnectClose(w)
               \/ \E fd \in Fds : ReconnectOpen(w, fd)
               \/ \E fd \in Fds \cup {NoFd} : RequireNewFails(w, fd) \/ ReconnectFails(w, fd)
        PROVE  ListsDisjoint'
    BY <1>1, <2>4 DEF RequireExceedsMax, ReconnectClose, ReconnectOpen, RequireNewFails,
                      ReconnectFails, vars, pool
  <2>. QED  BY <1>3, <2>1, <2>2, <2>3, <2>4 DEF WorkerNext
<1>4. CASE PoolCheck
  <2>1. PICK i \in 1..Len(unused) : unused' = DeleteAt(unused, i)
    BY <1>4 DEF PoolCheck
  <2>2. /\ Len(unused') = Len(unused) - 1
        /\ \A j \in 1..(Len(unused) - 1) :
             unused'[j] = IF j < i THEN unused[j] ELSE unused[j + 1]
    BY <2>1, DeleteAtFacts
  <2>3. used' = used /\ used = {}
    BY <1>4 DEF PoolCheck
  <2>4. ASSUME NEW j \in 1..Len(unused'), NEW k \in 1..Len(unused'), unused'[j] = unused'[k]
        PROVE  j = k
    <3>1. j \in 1..(Len(unused) - 1) /\ k \in 1..(Len(unused) - 1)
      BY <2>2
    <3>. DEFINE old(x) == IF x < i THEN x ELSE x + 1
    <3>2. Len(unused) \in Nat /\ i \in Int /\ j \in Int /\ k \in Int
      BY <3>1
    <3>3. old(j) \in 1..Len(unused) /\ old(k) \in 1..Len(unused)
      BY <3>1, <3>2
    <3>4. unused'[j] = unused[old(j)] /\ unused'[k] = unused[old(k)]
      BY <2>2, <3>1
    <3>5. old(j) = old(k)
      BY <2>4, <3>3, <3>4
    <3>. QED  BY <3>2, <3>5
  <2>. QED  BY <2>3, <2>4
<1>5. CASE Destroy
  BY <1>5 DEF Destroy
<1>6. CASE InitDone \/ \E fd \in Fds \cup {NoFd} : InitConnectFails(fd)
  BY <1>1, <1>6 DEF InitDone, InitConnectFails
<1>7. CASE Retire \/ DestroyFails \/ FreePool \/ DestroyGivesUp \/ Tick \/ ClockSetBack \/ UNCHANGED vars
  BY <1>1, <1>7 DEF Retire, DestroyFails, FreePool, DestroyGivesUp, Tick, ClockSetBack, vars, pool
<1>. QED  BY <1>2, <1>3, <1>4, <1>5, <1>6, <1>7 DEF Next, PoolInit, DestroyerNext

-----------------------------------------------------------------------------
(***************************************************************************)
(* Size.  An idle connection only changes lists, a new one is made only     *)
(* below max_conn_num, and pool_init spends its budget.                     *)
(***************************************************************************)

\* The parts of the invariant that bound the pool.
SizeInv == IsFiniteSet(used) /\ InitBudget /\ SizeBound

\* One more used connection is at most one more to count.
LEMMA AddOne ==
    ASSUME NEW S, NEW x, IsFiniteSet(S)
    PROVE  /\ IsFiniteSet(S \cup {x})
           /\ Cardinality(S \cup {x}) \in Nat
           /\ Cardinality(S \cup {x}) <= Cardinality(S) + 1
<1>1. IsFiniteSet(S \cup {x})
  BY FS_AddElement
<1>2. Cardinality(S) \in Nat /\ Cardinality(S \cup {x}) \in Nat
  BY <1>1, FS_CardinalityType
<1>3. Cardinality(S \cup {x}) = IF x \in S THEN Cardinality(S) ELSE Cardinality(S) + 1
  BY FS_AddElement
<1>. QED  BY <1>1, <1>2, <1>3

\* Every step keeps the pool within its limits.
LEMMA SizeStep == Ownership /\ SizeInv /\ [Next]_vars => SizeInv'
<1>. SUFFICES ASSUME Ownership, SizeInv, [Next]_vars PROVE SizeInv'
  OBVIOUS
<1>. USE PoolConfig DEF SizeInv, InitBudget, SizeBound, PoolSize
<1>0. /\ Cardinality(used) \in Nat /\ Len(unused) \in Nat /\ left \in Nat
      /\ unused \in Seq(Conns) /\ IsFiniteSet(used)
  BY FS_CardinalityType DEF Ownership, TypeOK
<1>1. ASSUME UNCHANGED <<phase, left, unused, used>> PROVE SizeInv'
  BY <1>1
<1>2. ASSUME UNCHANGED <<unused, used>>, phase' # "init" PROVE SizeInv'
  BY <1>2
<1>3. ASSUME NEW c \in Conns, NEW fd \in Fds, InitConnect(c, fd) PROVE SizeInv'
  <2>1. used = {} /\ Cardinality(used) = 0
    BY <1>3, FS_EmptySet DEF InitConnect
  <2>. QED  BY <1>0, <1>3, <2>1 DEF InitConnect
<1>4. ASSUME NEW fd \in Fds \cup {NoFd}, InitConnectFails(fd) PROVE SizeInv'
  BY <1>0, <1>4 DEF InitConnectFails
<1>5. ASSUME NEW w \in Workers, WorkerNext(w) PROVE SizeInv'
  <2>1. CASE RequireIdle(w)
    <3>1. Len(unused') = Len(unused) - 1
      BY <1>0, <2>1 DEF RequireIdle
    <3>2. IsFiniteSet(used') /\ Cardinality(used') <= Cardinality(used) + 1
            /\ Cardinality(used') \in Nat
      BY <1>0, <2>1, AddOne DEF RequireIdle, Granted
    <3>. QED  BY <1>0, <2>1, <3>1, <3>2 DEF RequireIdle, CanRequire, Granted
  <2>2. ASSUME NEW c \in Conns, NEW fd \in Fds, RequireNew(w, c, fd) PROVE SizeInv'
    <3>1. IsFiniteSet(used') /\ Cardinality(used') <= Cardinality(used) + 1
            /\ Cardinality(used') \in Nat
      BY <1>0, <2>2, AddOne DEF RequireNew, Granted
    <3>2. Len(unused) = 0
      BY <2>2 DEF RequireNew
    <3>. QED  BY <1>0, <2>2, <3>1, <3>2 DEF RequireNew, CanRequire, Granted
  <2>3. CASE Release(w)
    <3>1. holds[w] \in used /\ holds[w] \in Conns
      BY <2>3 DEF Release, Ownership, HandsMatchLists, TypeOK
    <3>2. Len(unused') = Len(unused) + 1
      BY <1>0, <2>3, <3>1 DEF Release
    <3>3. IsFiniteSet(used') /\ Cardinality(used') = Cardinality(used) - 1
      BY <1>0, <2>3, <3>1, FS_RemoveElement DEF Release
    <3>4. phase' # "init"
      BY <2>3, <3>1 DEF Release
    <3>. QED  BY <1>0, <3>2, <3>3, <3>4
  <2>4. ASSUME \/ RequireExceedsMax(w) \/ ReconnectClose(w)
               \/ \E fd \in Fds : ReconnectOpen(w, fd)
               \/ \E fd \in Fds \cup {NoFd} : RequireNewFails(w, fd) \/ ReconnectFails(w, fd)
        PROVE  SizeInv'
    BY <1>1, <2>4 DEF RequireExceedsMax, ReconnectClose, ReconnectOpen, RequireNewFails,
                      ReconnectFails, vars, pool
  <2>. QED  BY <1>5, <2>1, <2>2, <2>3, <2>4 DEF WorkerNext
<1>6. CASE PoolCheck
  <2>1. Len(unused') = Len(unused) - 1
    BY <1>0, <1>6, DeleteAtFacts DEF PoolCheck
  <2>. QED  BY <1>0, <1>6, <2>1 DEF PoolCheck
<1>7. CASE Destroy
  BY <1>0, <1>7 DEF Destroy
<1>8. CASE InitDone \/ Retire \/ DestroyFails \/ FreePool \/ DestroyGivesUp
  BY <1>2, <1>8 DEF InitDone, Retire, DestroyFails, FreePool, DestroyGivesUp
<1>9. CASE Tick \/ ClockSetBack \/ UNCHANGED vars
  BY <1>1, <1>9 DEF Tick, ClockSetBack, vars, pool
<1>. QED  BY <1>3, <1>4, <1>5, <1>6, <1>7, <1>8, <1>9 DEF Next, PoolInit, DestroyerNext

-----------------------------------------------------------------------------
(***************************************************************************)
(* Descriptors.  A connection that would use a descriptor after the step    *)
(* either did so before, and the descriptor was not closed, or has just got *)
(* one that was not open.                                                   *)
(***************************************************************************)
Kept(c) == OwnsDescriptor(c) /\ sock_fd'[c] = sock_fd[c] /\ sock_fd[c] \in open'
Fresh(c, fd) == sock_fd'[c] = fd /\ fd \notin open /\ fd \in open'

\* If every owner after the step kept its descriptor or is the one connection that got a
\* fresh one, descriptors are still exclusive.
LEMMA KeptOrFresh ==
    ASSUME DescriptorsExclusive, NEW d, NEW fd,
           \A c \in Conns : OwnsDescriptor(c)' => Kept(c) \/ (c = d /\ Fresh(c, fd))
    PROVE  DescriptorsExclusive'
<1>1. \A c \in Conns : OwnsDescriptor(c)' => sock_fd'[c] \in open'
  BY DEF Kept, Fresh
<1>2. ASSUME NEW a \in Conns, NEW b \in Conns,
             OwnsDescriptor(a)', OwnsDescriptor(b)', sock_fd'[a] = sock_fd'[b]
      PROVE  a = b
  <2>1. CASE Kept(a) /\ Kept(b)
    BY <1>2, <2>1 DEF Kept, DescriptorsExclusive
  <2>2. CASE Kept(a) /\ ~Kept(b)
    BY <1>2, <2>2 DEF Kept, Fresh, DescriptorsExclusive
  <2>3. CASE ~Kept(a) /\ Kept(b)
    BY <1>2, <2>3 DEF Kept, Fresh, DescriptorsExclusive
  <2>4. CASE ~Kept(a) /\ ~Kept(b)
    BY <1>2, <2>4
  <2>. QED  BY <2>1, <2>2, <2>3, <2>4
<1>. QED  BY <1>1, <1>2 DEF DescriptorsExclusive

\* A step that leaves sockets alone, adds nothing to the lists and ends no reconnect.
LEMMA SocketsUntouched ==
    ASSUME DescriptorsExclusive, UNCHANGED <<sock_fd, step, holds>>,
           open \subseteq open', Allocated' \subseteq Allocated
    PROVE  DescriptorsExclusive'
<1>1. \A c \in Conns : OwnsDescriptor(c)' => Kept(c)
  BY DEF OwnsDescriptor, Reopening, Kept, DescriptorsExclusive
<1>. QED  BY <1>1, KeptOrFresh

\* Every step keeps descriptors exclusive.
LEMMA DescriptorsStep == Ownership /\ DescriptorsExclusive /\ [Next]_vars => DescriptorsExclusive'
<1>. SUFFICES ASSUME Ownership, DescriptorsExclusive, [Next]_vars PROVE DescriptorsExclusive'
  OBVIOUS
<1>0. TypeOK
  BY DEF Ownership
<1>1. ASSUME UNCHANGED <<unused, used>> PROVE Allocated' = Allocated
  BY <1>1 DEF Allocated, Idle
<1>2. ASSUME NEW c \in Conns, NEW fd \in Fds, InitConnect(c, fd) PROVE DescriptorsExclusive'
  <2>1. Allocated' \subseteq Allocated \cup {c}
    BY <1>0, <1>2 DEF InitConnect, Allocated, Idle, TypeOK
  <2>2. \A d \in Conns : OwnsDescriptor(d)' => Kept(d) \/ (d = c /\ Fresh(d, fd))
    BY <1>0, <1>2, <2>1
    DEF InitConnect, Connects, OwnsDescriptor, Reopening, Kept, Fresh, DescriptorsExclusive, TypeOK
  <2>. QED  BY <2>2, KeptOrFresh
<1>3. ASSUME NEW fd \in Fds \cup {NoFd}, InitConnectFails(fd) PROVE DescriptorsExclusive'
  BY <1>1, <1>3, SocketsUntouched DEF InitConnectFails, FailedSocket
<1>4. ASSUME NEW w \in Workers, WorkerNext(w) PROVE DescriptorsExclusive'
  <2>1. CASE RequireIdle(w)
    <3>1. Allocated' \subseteq Allocated
      <4>1. /\ Head(unused) = unused[1] /\ Len(unused) > 0
            /\ Len(Tail(unused)) = Len(unused) - 1
            /\ \A i \in 1..(Len(unused) - 1) : Tail(unused)[i] = unused[i + 1]
        BY <1>0, <2>1 DEF RequireIdle, TypeOK
      <4>. QED  BY <2>1, <4>1 DEF RequireIdle, Granted, Allocated, Idle
    <3>2. \A c \in Conns : Reopening(c) => Reopening(c)'
      BY <1>0, <2>1 DEF RequireIdle, CanRequire, Granted, Reopening, TypeOK
    <3>3. \A c \in Conns : OwnsDescriptor(c)' => Kept(c)
      BY <2>1, <3>1, <3>2 DEF RequireIdle, socks, OwnsDescriptor, Kept, DescriptorsExclusive
    <3>. QED  BY <3>3, KeptOrFresh
  <2>2. ASSUME NEW c \in Conns, NEW fd \in Fds, RequireNew(w, c, fd) PROVE DescriptorsExclusive'
    <3>1. Allocated' \subseteq Allocated \cup {c}
      BY <2>2 DEF RequireNew, Granted, Allocated, Idle
    <3>2. \A d \in Conns : Reopening(d) => Reopening(d)'
      BY <1>0, <2>2 DEF RequireNew, CanRequire, Granted, Reopening, TypeOK
    <3>3. \A d \in Conns : OwnsDescriptor(d)' => Kept(d) \/ (d = c /\ Fresh(d, fd))
      BY <1>0, <2>2, <3>1, <3>2
      DEF RequireNew, Connects, OwnsDescriptor, Kept, Fresh, DescriptorsExclusive, TypeOK
    <3>. QED  BY <3>3, KeptOrFresh
  <2>3. ASSUME NEW fd \in Fds \cup {NoFd}, RequireNewFails(w, fd) PROVE DescriptorsExclusive'
    BY <1>1, <2>3, SocketsUntouched DEF RequireNewFails, FailedSocket, pool, work
  <2>4. CASE RequireExceedsMax(w)
    BY <1>1, <2>4, SocketsUntouched DEF RequireExceedsMax, vars
  <2>5. CASE Release(w)
    <3>1. holds[w] \in used /\ holds[w] \in Conns
      BY <2>5 DEF Release, Ownership, HandsMatchLists, TypeOK
    <3>2. Allocated' \subseteq Allocated
      BY <1>0, <2>5, <3>1 DEF Release, Allocated, Idle, TypeOK
    <3>3. \A c \in Conns : Reopening(c) => Reopening(c)'
      BY <1>0, <2>5 DEF Release, Reopening, TypeOK
    <3>4. \A c \in Conns : OwnsDescriptor(c)' => Kept(c)
      BY <2>5, <3>2, <3>3 DEF Release, OwnsDescriptor, Kept, DescriptorsExclusive
    <3>. QED  BY <3>4, KeptOrFresh
  <2>6. CASE ReconnectClose(w)
    <3>1. Allocated' = Allocated
      BY <1>1, <2>6 DEF ReconnectClose, pool
    <3>2. Reopening(holds[w])' /\ \A c \in Conns : Reopening(c) => Reopening(c)'
      BY <1>0, <2>6 DEF ReconnectClose, Reopening, TypeOK
    <3>3. OwnsDescriptor(holds[w]) \/ sock_fd[holds[w]] = NoFd
      <4>1. holds[w] \in used
        BY <2>6 DEF ReconnectClose, Ownership, HandsMatchLists
      <4>2. ~Reopening(holds[w])
        BY <2>6, NullValues DEF ReconnectClose, Reopening, Ownership, HandsMatchLists, TypeOK
      <4>. QED  BY <4>1, <4>2 DEF OwnsDescriptor, Allocated
    <3>4. holds[w] \in Conns
      BY <2>6 DEF ReconnectClose, Ownership, HandsMatchLists, TypeOK
    <3>5. \A c \in Conns : OwnsDescriptor(c)' => Kept(c)
      BY <2>6, <3>1, <3>2, <3>3, <3>4
      DEF ReconnectClose, OwnsDescriptor, Kept, DescriptorsExclusive
    <3>. QED  BY <3>5, KeptOrFresh
  <2>7. ASSUME NEW fd \in Fds, ReconnectOpen(w, fd) PROVE DescriptorsExclusive'
    <3>1. Allocated' = Allocated
      BY <1>1, <2>7 DEF ReconnectOpen, pool
    <3>2. \A c \in Conns : Reopening(c) => Reopening(c)' \/ c = holds[w]
      BY <1>0, <2>7 DEF ReconnectOpen, Reopening, TypeOK
    <3>3. \A c \in Conns : OwnsDescriptor(c)' => Kept(c) \/ (c = holds[w] /\ Fresh(c, fd))
      BY <1>0, <2>7, <3>1, <3>2
      DEF ReconnectOpen, Connects, OwnsDescriptor, Kept, Fresh, DescriptorsExclusive, TypeOK
    <3>. QED  BY <3>3, KeptOrFresh
  <2>8. ASSUME NEW fd \in Fds \cup {NoFd}, ReconnectFails(w, fd) PROVE DescriptorsExclusive'
    <3>1. Allocated' = Allocated
      BY <1>1, <2>8 DEF ReconnectFails, pool
    <3>2. \A c \in Conns : Reopening(c) => Reopening(c)' \/ c = holds[w]
      BY <1>0, <2>8 DEF ReconnectFails, Reopening, TypeOK
    <3>3. \A c \in Conns : OwnsDescriptor(c)' => Kept(c) \/ (c = holds[w] /\ Fresh(c, fd))
      BY <1>0, <2>8, <3>1, <3>2
      DEF ReconnectFails, FailedSocket, OwnsDescriptor, Kept, Fresh, DescriptorsExclusive, TypeOK
    <3>. QED  BY <3>3, KeptOrFresh
  <2>. QED  BY <1>4, <2>1, <2>2, <2>3, <2>4, <2>5, <2>6, <2>7, <2>8 DEF WorkerNext
<1>5. CASE PoolCheck
  <2>1. PICK i \in 1..Len(unused) :
          /\ open' = open \ {sock_fd[unused[i]]}
          /\ sock_fd' = [sock_fd EXCEPT ![unused[i]] = NoFd]
          /\ unused' = DeleteAt(unused, i)
    BY <1>5 DEF PoolCheck
  <2>2. unused[i] \in Conns /\ unused[i] \in Allocated
    BY <1>0 DEF TypeOK, Allocated, Idle
  <2>3. Allocated' \subseteq Allocated
    <3>1. /\ Len(unused') = Len(unused) - 1
          /\ \A j \in 1..(Len(unused) - 1) :
               unused'[j] = IF j < i THEN unused[j] ELSE unused[j + 1]
      BY <1>0, <2>1, DeleteAtFacts DEF TypeOK
    <3>2. \A j \in 1..Len(unused') : unused'[j] \in Idle
      BY <1>0, <3>1, SMTT(30) DEF Idle, TypeOK
    <3>. QED  BY <1>5, <3>2 DEF PoolCheck, Allocated, Idle
  <2>4. ~Reopening(unused[i])
    BY <1>5, <2>2 DEF PoolCheck, Reopening, Ownership, HandsMatchLists
  <2>5. \A c \in Conns : Reopening(c) => Reopening(c)'
    BY <1>5 DEF PoolCheck, work, Reopening
  <2>6. \A c \in Conns : OwnsDescriptor(c)' => Kept(c)
    BY <1>0, <2>1, <2>2, <2>3, <2>4, <2>5 DEF OwnsDescriptor, Kept, DescriptorsExclusive, TypeOK
  <2>. QED  BY <2>6, KeptOrFresh
<1>6. CASE Destroy
  <2>1. Allocated' = {}
    BY <1>6 DEF Destroy, Allocated, Idle
  <2>. QED  BY <2>1 DEF DescriptorsExclusive, OwnsDescriptor
<1>7. CASE InitDone \/ Retire \/ DestroyFails \/ FreePool \/ DestroyGivesUp
  BY <1>1, <1>7, SocketsUntouched DEF InitDone, Retire, DestroyFails, FreePool, DestroyGivesUp, socks, work
<1>8. CASE Tick \/ ClockSetBack \/ UNCHANGED vars
  BY <1>1, <1>8, SocketsUntouched DEF Tick, ClockSetBack, vars, pool, socks, work
<1>. QED  BY <1>2, <1>3, <1>4, <1>5, <1>6, <1>7, <1>8 DEF Next, PoolInit, DestroyerNext

-----------------------------------------------------------------------------
(***************************************************************************)
(* The theorems.                                                            *)
(***************************************************************************)

\* The invariant is inductive.
THEOREM Invariance == Spec => []IInv
<1>1. IInv /\ [Next]_vars => IInv'
  BY TypeStep, HandsStep, ListsStep, SizeStep, DescriptorsStep
  DEF IInv, Ownership, SizeInv
<1>. QED  BY InitIInv, <1>1, PTL DEF Spec

\* In every reachable state of the pool the variables have their types: the counters of
\* pool_init and of the destroying thread never go below zero.
THEOREM TypeCorrect == Spec => []TypeOK
<1>1. IInv => TypeOK
  BY DEF IInv, Ownership
<1>. QED  BY <1>1, Invariance, PTL

\* pool_require_connection never hands a connection to two workers, and the lists and the
\* workers' hands always agree.
THEOREM UseIsExclusive == Spec => []ExclusiveUse
<1>1. IInv => ExclusiveUse
  BY DEF IInv, Ownership, HandsMatchLists, ListsDisjoint, ExclusiveUse, Idle
<1>. QED  BY <1>1, Invariance, PTL

\* The pool never outgrows max_conn_num (init_conn_num when that is larger).
THEOREM SizeIsBounded == Spec => []SizeBound
<1>1. IInv => SizeBound
  BY DEF IInv
<1>. QED  BY <1>1, Invariance, PTL

\* No two connections use one descriptor, whatever conn_reconnect and the closing threads
\* do to the descriptor table in between.
THEOREM DescriptorsAreExclusive == Spec => []DescriptorsExclusive
<1>1. IInv => DescriptorsExclusive
  BY DEF IInv
<1>. QED  BY <1>1, Invariance, PTL

\* pool_destroy empties the pool only in a step in which no worker has a connection of it,
\* reconnecting workers included, and leaves none on its lists.
THEOREM EmptiesOnlyUnused == Spec => EmptiesUnused
<1>1. ASSUME IInv, [Next]_vars, PoolEmptied
      PROVE  Allocated' = {} /\ \A w \in Workers : step[w] = "out"
  <2>1. Destroy
    BY <1>1 DEF PoolEmptied, Next, PoolInit, InitConnect, InitConnectFails, InitDone, WorkerNext,
       RequireIdle, RequireNew, RequireNewFails, RequireExceedsMax, Granted, Release,
       ReconnectClose, ReconnectOpen, ReconnectFails, PoolCheck, Retire, DestroyerNext,
       DestroyFails, FreePool, DestroyGivesUp, Tick, ClockSetBack, vars, pool
  <2>2. used = {} /\ used' = {} /\ unused' = <<>>
    BY <2>1 DEF Destroy
  <2>3. \A w \in Workers : step[w] = "out"
    BY <1>1, <2>2 DEF IInv, Ownership, HandsMatchLists
  <2>. QED  BY <2>2, <2>3 DEF Allocated, Idle
<1>2. IInv /\ [Next]_vars =>
        [PoolEmptied => Allocated' = {} /\ \A w \in Workers : step[w] = "out"]_vars
  BY <1>1
<1>. QED  BY <1>2, Invariance, PTL DEF Spec, EmptiesUnused

-----------------------------------------------------------------------------
(***************************************************************************)
(* Time, as long as the clock was not set back.                             *)
(***************************************************************************)
TimeInv ==
    ~setBack => /\ \A c \in Conns : last_used[c] <= now
                /\ OldestFirst

\* Appending a connection that was used just now keeps the order.
LEMMA AppendKeepsOrder ==
    ASSUME TypeOK, TimeInv, NEW c \in Conns,
           \A i \in 1..Len(unused) : unused[i] # c,
           now' = now, setBack' = setBack, last_used' = [last_used EXCEPT ![c] = now],
           unused' = Append(unused, c)
    PROVE  TimeInv'
<1>. SUFFICES ASSUME ~setBack PROVE TimeInv'
  BY DEF TimeInv
<1>. USE PoolConfig DEF TypeOK, TimeInv, OldestFirst
<1>1. \A d \in Conns : last_used'[d] = IF d = c THEN now ELSE last_used[d]
  OBVIOUS
<1>2. /\ Len(unused) \in Nat /\ Len(unused') = Len(unused) + 1
      /\ unused'[Len(unused) + 1] = c
      /\ \A i \in 1..Len(unused) : unused'[i] = unused[i] /\ unused[i] \in Conns
  OBVIOUS
<1>3. ASSUME NEW i \in 1..Len(unused'), NEW j \in 1..Len(unused'), i < j
      PROVE  last_used'[unused'[i]] <= last_used'[unused'[j]]
  <2>1. i \in 1..Len(unused)
    BY <1>2, <1>3
  <2>2. last_used'[unused'[i]] = last_used[unused[i]]
    BY <1>1, <1>2, <2>1
  <2>3. CASE j = Len(unused) + 1
    BY <1>1, <1>2, <2>1, <2>2, <2>3
  <2>4. CASE j # Len(unused) + 1
    <3>1. j \in 1..Len(unused)
      BY <1>2, <2>4
    <3>2. last_used'[unused'[j]] = last_used[unused[j]]
      BY <1>1, <1>2, <3>1
    <3>. QED  BY <1>3, <2>1, <2>2, <3>1, <3>2
  <2>. QED  BY <2>3, <2>4
<1>4. \A d \in Conns : last_used'[d] <= now'
  BY <1>1
<1>. QED  BY <1>3, <1>4

\* Every step keeps the idle list in the order of last use until the clock is set back.
LEMMA TimeStep == Ownership /\ TimeInv /\ [Next]_vars => TimeInv'
<1>. SUFFICES ASSUME Ownership, TimeInv, [Next]_vars, ~setBack' PROVE TimeInv'
  BY DEF TimeInv
<1>0. TypeOK
  BY DEF Ownership
<1>. USE PoolConfig DEF TimeInv, OldestFirst
<1>1. ASSUME UNCHANGED <<unused, last_used, now, setBack>> PROVE TimeInv'
  BY <1>1
<1>2. ASSUME NEW c \in Conns, NEW fd \in Fds, InitConnect(c, fd) PROVE TimeInv'
  <2>1. \A i \in 1..Len(unused) : unused[i] # c /\ unused[i] \in Conns
    BY <1>0, <1>2 DEF InitConnect, Allocated, Idle, TypeOK
  <2>. QED  BY <1>0, <1>2, <2>1, AppendKeepsOrder DEF InitConnect, Connects
<1>3. ASSUME NEW w \in Workers, WorkerNext(w) PROVE TimeInv'
  <2>1. CASE RequireIdle(w)
    <3>1. /\ Len(unused') = Len(unused) - 1
          /\ \A i \in 1..(Len(unused) - 1) : unused'[i] = unused[i + 1]
      BY <1>0, <2>1 DEF RequireIdle, TypeOK
    <3>. QED  BY <1>0, <2>1, <3>1 DEF RequireIdle, Granted, socks, TypeOK
  <2>2. ASSUME NEW c \in Conns, NEW fd \in Fds, RequireNew(w, c, fd) PROVE TimeInv'
    <3>1. Len(unused') = 0 /\ UNCHANGED <<now, setBack>>
      BY <2>2 DEF RequireNew, Granted
    <3>2. last_used' = [last_used EXCEPT ![c] = now]
      BY <2>2 DEF RequireNew, Connects
    <3>. QED  BY <1>0, <3>1, <3>2 DEF TypeOK
  <2>3. CASE Release(w)
    <3>1. holds[w] \in used /\ holds[w] \in Conns
      BY <2>3 DEF Release, Ownership, HandsMatchLists, TypeOK
    <3>2. \A i \in 1..Len(unused) : unused[i] # holds[w] /\ unused[i] \in Conns
      BY <1>0, <3>1 DEF Ownership, ListsDisjoint, TypeOK
    <3>. QED  BY <1>0, <2>3, <3>1, <3>2, AppendKeepsOrder DEF Release
  <2>4. ASSUME NEW fd \in Fds, ReconnectOpen(w, fd) PROVE TimeInv'
    <3>1. holds[w] \in used /\ holds[w] \in Conns
      BY <2>4 DEF ReconnectOpen, Ownership, HandsMatchLists, TypeOK
    <3>2. \A i \in 1..Len(unused) : unused[i] # holds[w] /\ unused[i] \in Conns
      BY <1>0, <3>1 DEF Ownership, ListsDisjoint, TypeOK
    <3>. QED  BY <1>0, <2>4, <3>1, <3>2 DEF ReconnectOpen, Connects, pool, TypeOK
  <2>5. ASSUME \/ RequireExceedsMax(w) \/ ReconnectClose(w)
               \/ \E fd \in Fds \cup {NoFd} : RequireNewFails(w, fd) \/ ReconnectFails(w, fd)
        PROVE  TimeInv'
    BY <1>1, <2>5 DEF RequireExceedsMax, ReconnectClose, RequireNewFails, ReconnectFails,
                      vars, pool
  <2>. QED  BY <1>3, <2>1, <2>2, <2>3, <2>4, <2>5 DEF WorkerNext
<1>4. CASE PoolCheck
  <2>1. PICK i \in 1..Len(unused) :
          /\ unused' = DeleteAt(unused, i)
          /\ last_used' = [last_used EXCEPT ![unused[i]] = 0]
    BY <1>4 DEF PoolCheck
  <2>2. /\ Len(unused') = Len(unused) - 1
        /\ \A j \in 1..(Len(unused) - 1) :
             unused'[j] = IF j < i THEN unused[j] ELSE unused[j + 1]
    BY <1>0, <2>1, DeleteAtFacts DEF TypeOK
  <2>3. /\ UNCHANGED <<now, setBack>>
        /\ \A c \in Conns : last_used'[c] = IF c = unused[i] THEN 0 ELSE last_used[c]
        /\ \A c \in Conns : last_used[c] \in Nat /\ last_used[c] <= now
        /\ now \in Nat
    BY <1>0, <1>4, <2>1 DEF PoolCheck, TypeOK
  <2>4. ASSUME NEW j \in 1..Len(unused'), NEW k \in 1..Len(unused'), j < k
        PROVE  last_used'[unused'[j]] <= last_used'[unused'[k]]
    <3>. DEFINE old(x) == IF x < i THEN x ELSE x + 1
    <3>1. j \in 1..(Len(unused) - 1) /\ k \in 1..(Len(unused) - 1)
      BY <2>2
    <3>2. Len(unused) \in Nat /\ i \in Int /\ j \in Int /\ k \in Int
      BY <1>0, <3>1 DEF TypeOK
    <3>3. old(j) \in 1..Len(unused) /\ old(k) \in 1..Len(unused) /\ old(j) < old(k)
      BY <2>4, <3>1, <3>2
    <3>4. unused'[j] = unused[old(j)] /\ unused'[k] = unused[old(k)]
      BY <2>2, <3>1
    <3>5. unused[old(j)] \in Conns /\ unused[old(k)] \in Conns /\ unused[old(k)] # unused[i]
      BY <1>0, <3>2, <3>3 DEF Ownership, ListsDisjoint, TypeOK
    <3>6. last_used[unused[old(j)]] <= last_used[unused[old(k)]] /\ setBack = FALSE
      BY <2>3, <3>3
    <3>. QED  BY <2>3, <3>4, <3>5, <3>6
  <2>5. \A c \in Conns : last_used'[c] <= now'
    BY <2>3
  <2>. QED  BY <2>4, <2>5
<1>5. CASE Destroy
  BY <1>0, <1>5 DEF Destroy, TypeOK
<1>6. CASE InitDone \/ \E fd \in Fds \cup {NoFd} : InitConnectFails(fd)
  BY <1>1, <1>6 DEF InitDone, InitConnectFails, socks
<1>7. CASE Retire \/ DestroyFails \/ FreePool \/ DestroyGivesUp \/ UNCHANGED vars
  BY <1>1, <1>7 DEF Retire, DestroyFails, FreePool, DestroyGivesUp, vars, socks
<1>8. CASE Tick
  BY <1>0, <1>8 DEF Tick, pool, socks, TypeOK
<1>9. CASE ClockSetBack
  BY <1>9 DEF ClockSetBack
<1>. QED  BY <1>2, <1>3, <1>4, <1>5, <1>6, <1>7, <1>8, <1>9 DEF Next, PoolInit, DestroyerNext

\* Until the clock is set back for the first time, the connection pool_require_connection
\* takes is the longest idle one.
THEOREM IdleListIsOrdered == Spec => []OldestFirst
<1>1. Init => TimeInv
  BY PoolConfig DEF Init, TimeInv, OldestFirst
<1>2. IInv /\ TimeInv /\ [Next]_vars => TimeInv'
  BY TimeStep DEF IInv
<1>3. TimeInv => OldestFirst
  BY DEF TimeInv, OldestFirst
<1>. QED  BY <1>1, <1>2, <1>3, Invariance, PTL DEF Spec

-----------------------------------------------------------------------------
(***************************************************************************)
(* What pool_check closes.                                                  *)
(***************************************************************************)

\* The unsigned difference is never more than the time that passed.
LEMMA DifferenceIsBounded ==
    ASSUME NEW begin \in Nat, NEW end \in Nat, begin <= end
    PROVE  TimeDifference(begin, end) <= end - begin
<1>1. UIntMod \in Nat /\ UIntMod > 0 /\ end - begin \in Nat
  BY PoolConfig
<1>2. ASSUME NEW d \in Nat, NEW m \in Nat, m > 0 PROVE d % m <= d
  <2>1. CASE d < m
    BY <1>2, <2>1
  <2>2. CASE d >= m
    BY <1>2, <2>2
  <2> QED
    BY <1>2, <2>1, <2>2
<1> QED
  BY <1>1, <1>2 DEF TimeDifference

\* A connection on the idle list leaves the pool in pool_check or with the whole pool.
LEMMA LeavesByCheck ==
    ASSUME Ownership, [Next]_vars, NEW c \in Idle, c \notin Allocated', ~PoolEmptied
    PROVE  IsIdleTimeout(c)
<1>0. TypeOK
  BY DEF Ownership
<1>1. PICK i \in 1..Len(unused) : unused[i] = c
  BY DEF Idle
<1>2. c \notin used' /\ ~\E j \in 1..Len(unused') : unused'[j] = c
  BY DEF Allocated, Idle
<1>3. unused' # unused
  BY <1>1, <1>2
<1>4. ASSUME NEW d, unused' = Append(unused, d) PROVE FALSE
  <2>1. i \in 1..Len(unused') /\ unused'[i] = c
    BY <1>0, <1>1, <1>4 DEF TypeOK
  <2>. QED  BY <1>2, <2>1
<1>5. ASSUME NEW w \in Workers, RequireIdle(w) PROVE FALSE
  <2>1. unused' = Tail(unused) /\ used' = used \cup {Head(unused)}
    BY <1>5 DEF RequireIdle, Granted
  <2>2. i # 1
    BY <1>0, <1>1, <1>2, <2>1 DEF TypeOK
  <2>3. i - 1 \in 1..Len(unused') /\ unused'[i - 1] = c
    BY <1>0, <1>1, <2>1, <2>2 DEF TypeOK
  <2>. QED  BY <1>2, <2>3
<1>6. ASSUME NEW w \in Workers, WorkerNext(w) PROVE FALSE
  BY <1>3, <1>4, <1>5, <1>6 DEF WorkerNext, RequireNew, RequireNewFails, RequireExceedsMax,
     Release, ReconnectClose, ReconnectOpen, ReconnectFails, vars, pool
<1>7. CASE PoolCheck
  <2>1. PICK k \in 1..Len(unused) : FirstIdleTimeout(k) /\ unused' = DeleteAt(unused, k)
    BY <1>7 DEF PoolCheck
  <2>0. unused \in Seq(Conns) /\ Len(unused) \in Nat
    BY <1>0 DEF TypeOK
  <2>2. /\ Len(unused') = Len(unused) - 1
        /\ \A j \in 1..(Len(unused) - 1) :
             unused'[j] = IF j < k THEN unused[j] ELSE unused[j + 1]
    BY <2>0, <2>1, DeleteAtFacts
  <2>3. i = k
    <3>1. CASE i < k
      BY <1>1, <1>2, <2>0, <2>2, <3>1
    <3>2. CASE i > k
      <4>1. i - 1 \in 1..Len(unused') /\ unused'[i - 1] = c
        BY <1>1, <2>0, <2>2, <3>2
      <4>. QED  BY <1>2, <4>1
    <3>. QED  BY <3>1, <3>2
  <2>. QED  BY <1>1, <2>1, <2>3 DEF FirstIdleTimeout
<1>8. ~PoolInit /\ ~Destroy
  BY <1>3, <1>4 DEF PoolInit, InitConnect, InitConnectFails, InitDone, Destroy,
     PoolEmptied
<1>9. ~Retire /\ ~DestroyFails /\ ~FreePool /\ ~DestroyGivesUp /\ ~Tick /\ ~ClockSetBack /\ ~UNCHANGED vars
  BY <1>3 DEF Retire, DestroyFails, FreePool, DestroyGivesUp, Tick, ClockSetBack, vars, pool
<1>. QED  BY <1>6, <1>7, <1>8, <1>9 DEF Next, DestroyerNext

\* pool_check closes no connection that was used within the limit, unless the clock was set
\* back behind its last use, where the unsigned difference wraps; no other step takes an idle
\* connection out of the pool before it is destroyed.
THEOREM OnlyLongIdleClosed == Spec => ClosesOnlyLongIdle
<1>. DEFINE A == \A c \in Idle : c \notin Allocated' /\ ~PoolEmptied
                   => now - last_used[c] > IdleLimit \/ now < last_used[c]
<1>1. ASSUME IInv, [Next]_vars PROVE A
  <2>. SUFFICES ASSUME NEW c \in Idle, c \notin Allocated', ~PoolEmptied,
                       ~(now < last_used[c])
                PROVE  now - last_used[c] > IdleLimit
    OBVIOUS
  <2>1. Ownership
    BY <1>1 DEF IInv
  <2>2. TimeDifference(last_used[c], now) > IdleLimit
    BY <1>1, <2>1, LeavesByCheck DEF IsIdleTimeout
  <2>3. last_used[c] \in Nat /\ now \in Nat /\ last_used[c] <= now
    BY <2>1 DEF Ownership, TypeOK, Idle
  <2>4. TimeDifference(last_used[c], now) <= now - last_used[c]
    BY <2>3, DifferenceIsBounded
  <2>5. TimeDifference(last_used[c], now) \in Int
    BY <2>3, PoolConfig DEF TimeDifference
  <2>. QED  BY <2>2, <2>3, <2>4, <2>5, PoolConfig
<1>2. IInv /\ [Next]_vars => [A]_vars
  BY <1>1
<1>. QED  BY <1>2, Invariance, PTL DEF Spec, ClosesOnlyLongIdle
=============================================================================
