-------------------------- MODULE Discovery_proofs --------------------------
(***************************************************************************)
(* Safety of service discovery, for any groups, services, providers and     *)
(* contents of the file, any number of sessions, and with every failure     *)
(* that the constants allow.                                                *)
(***************************************************************************)
EXTENDS Discovery, TLAPS

\* Lists of children and of entries stay with their group.
InTheirGroup ==
    /\ \A g \in Groups : \A c \in children[g] : Under[c] = g
    /\ \A t \in Threads : at[t] \in {"apply", "notify"} =>
         \A c \in snapshot[t] : Under[c] = group[t]
    /\ \A g \in Groups : \A e \in mapping[g] : InGroup(e, g)

\* The tables agree with the mapping on group g.
Follows(g) ==
    /\ mapping[g] \subseteq Routed(g)
    /\ g \notin LongGroups => Routed(g) = mapping[g]

\* How far the thread in the modify lock has come on group g: what it has not notified yet
\* makes up the difference between the tables and the list it is going to put.
HalfWay(g) ==
    /\ \A e \in remote \cup deleted : InGroup(e, g)
    /\ added \subseteq remote /\ deleted \cap remote = {}
    /\ remote \ added \subseteq routes
    /\ g \notin LongGroups => Routed(g) = (remote \ added) \cup deleted

ChangeInHand ==
    /\ modifyLock = Nobody => \A g \in Groups : Follows(g)
    /\ \A t \in Threads : modifyLock = t =>
         HalfWay(group[t]) /\ \A g \in Groups \ {group[t]} : Follows(g)

IInv == TypeOK /\ InTheirGroup /\ ChangeInHand

USE DiscoveryConfig DEF Sessions, Threads, Versions, Refresher, Nobody

-----------------------------------------------------------------------------
(***************************************************************************)
(* Types, and the queues of events.                                         *)
(***************************************************************************)

\* A change, or the end of a session, puts the same event into a queue a number of times.
LEMMA FiredEvents ==
    ASSUME NEW q \in Seq(Groups \cup {Expired}), NEW n \in Nat,
           NEW g \in Groups \cup {Expired}, NEW r, r = q \o [i \in 1..n |-> g]
    PROVE  /\ r \in Seq(Groups \cup {Expired})
           /\ Len(r) \in Nat /\ Len(q) \in Nat /\ Len(r) = Len(q) + n
           /\ \A i \in 1..Len(r) : r[i] = IF i <= Len(q) THEN q[i] ELSE g
<1> DEFINE f == [i \in 1..n |-> g]
<1>1. f \in Seq(Groups \cup {Expired}) /\ Len(f) = n
  OBVIOUS
<1> QED
  BY <1>1

\* Taking the first event of a queue.
LEMMA TakenEvent ==
    ASSUME NEW q \in Seq(Groups \cup {Expired}), q # <<>>
    PROVE  /\ Head(q) = q[1] /\ Head(q) \in Groups \cup {Expired}
           /\ Tail(q) \in Seq(Groups \cup {Expired})
           /\ Len(Tail(q)) = Len(q) - 1 /\ Len(q) >= 1
           /\ \A i \in 1..Len(Tail(q)) : Tail(q)[i] = q[i + 1]
OBVIOUS

\* The initial states are typed, with empty queues.
LEMMA InitTyped == Init => TypeOK
<1> SUFFICES ASSUME Init PROVE TypeOK
  OBVIOUS
<1>1. /\ events \in [Sessions -> Seq(Groups \cup {Expired})]
      /\ \A k \in Sessions : Len(events[k]) = 0
  BY DEF Init
<1>3. /\ file \in Versions /\ session \in Sessions
      /\ at \in [Threads -> Places] /\ force \in [Threads -> BOOLEAN]
  BY DEF Init, Places
<1>4. /\ mapping \in [Groups -> SUBSET Entries] /\ armed \in [Groups -> Nat]
      /\ todo \in [Threads -> SUBSET Groups] /\ group \in [Threads -> Groups \cup {NoGroup}]
      /\ snapshot \in [Threads -> SUBSET Children]
  BY DEF Init
<1>5. \A t \in Threads :
        /\ watchLock # t /\ modifyLock # t
        /\ at[t] \in {"idle", "enter"} /\ group[t] \notin Groups
  BY DEF Init
<1> QED
  BY <1>1, <1>3, <1>4, <1>5 DEF Init, TypeOK

\* Types and the queues of events are kept by a refresh and by the application of a
\* change, whichever way each returns.
LEMMA ThreadTyped ==
    ASSUME TypeOK, NEW t \in Threads, ThreadNext(t)
    PROVE  TypeOK'
<1> USE DEF Goto, Set, Places, registry, zk, config, tables, locals, diff
<1>1. CASE NotChanged(t)
  BY <1>1 DEF TypeOK, NotChanged
<1>2. CASE EnterRefresh(t)
  BY <1>2 DEF TypeOK, EnterRefresh
<1>3. CASE ReadConfig(t)
  <2> DEFINE gs == {GroupOf[s] : s \in Declares[file]}
             same == <<registry, zk, file, seen, inited, mapping, routes, modifyLock, force,
                       group, snapshot, diff, refreshes>>
  <2>u. UNCHANGED same /\ at[t] = "config"
    BY <1>3 DEF ReadConfig
  <2>1. CASE Declares[file] # Malformed
    <3>1. Declares[file] \subseteq Services
      BY <2>1 DEF TypeOK
    <3>2. gs \in SUBSET Groups
      BY <3>1
    <3>3. /\ todo' = [todo EXCEPT ![t] = gs] /\ filters' = filters \cup Declares[file]
          /\ loaded' = file /\ at' = [at EXCEPT ![t] = "watch"] /\ watchLock' = watchLock
      BY <1>3, <2>1 DEF ReadConfig
    <3> HIDE DEF gs
    <3>4. todo' \in [Threads -> SUBSET Groups]
      BY <3>2, <3>3 DEF TypeOK
    <3>5. filters' \in SUBSET Services
      BY <3>1, <3>3 DEF TypeOK
    <3> QED
      BY <2>u, <3>3, <3>4, <3>5 DEF TypeOK
  <2>2. CASE Declares[file] = Malformed
    <3>1. /\ at' = [at EXCEPT ![t] = "idle"] /\ watchLock' = Nobody
          /\ UNCHANGED <<loaded, filters, todo>>
      BY <1>3, <2>2 DEF ReadConfig
    <3> HIDE DEF gs
    <3> QED
      BY <2>u, <3>1 DEF TypeOK
  <2> QED
    BY <2>1, <2>2
<1>4. CASE SaveModified(t)
  BY <1>4 DEF TypeOK, SaveModified
<1>5. ASSUME NEW g \in Groups, GetChildren(t, g)
      PROVE  TypeOK'
  <2>1. armed' \in [Groups -> Nat]
    BY <1>5 DEF TypeOK, GetChildren
  <2>2. /\ snapshot' \in [Threads -> SUBSET Children]
        /\ todo' \in [Threads -> SUBSET Groups]
        /\ group' \in [Threads -> Groups \cup {NoGroup}]
    BY <1>5 DEF TypeOK, GetChildren
  <2> QED
    BY <1>5, <2>1, <2>2, SMTT(30) DEF TypeOK, GetChildren
<1>6. ASSUME NEW g \in Groups, GetChildrenFails(t, g)
      PROVE  TypeOK'
  BY <1>6 DEF TypeOK, GetChildrenFails
<1>7. CASE BeginChange(t)
  <2>1. Parse(snapshot[t], filters) \subseteq Entries
    BY DEF TypeOK, Parse
  <2>2. RegisterMappingFind(group[t]) \subseteq Entries
    BY <1>7 DEF TypeOK, BeginChange, RegisterMappingFind
  <2>3. /\ remote' \in SUBSET Entries /\ deleted' \in SUBSET Entries
        /\ added' \in SUBSET Entries
    BY <1>7, <2>1, <2>2 DEF BeginChange, FindDeleted, FindAdded
  <2>4. at' \in [Threads -> Places]
    BY <1>7 DEF TypeOK, BeginChange
  <2> QED
    BY <1>7, <2>3, <2>4 DEF TypeOK, BeginChange
<1>8. ASSUME NEW e \in Entries, NotifyDelete(t, e)
      PROVE  TypeOK'
  BY <1>8 DEF TypeOK, NotifyDelete
<1>9. ASSUME NEW e \in Entries, NotifyAdd(t, e)
      PROVE  TypeOK'
  BY <1>9, SMTT(30) DEF TypeOK, NotifyAdd
<1>10. CASE EndChange(t)
  BY <1>10 DEF TypeOK, EndChange
<1> QED
  BY <1>1, <1>2, <1>3, <1>4, <1>5, <1>6, <1>7, <1>8, <1>9, <1>10 DEF ThreadNext

\* They are kept by my_zk_watcher_marshal, however many ends of sessions are queued.
LEMMA CompletionTyped ==
    ASSUME TypeOK, NEW k \in Sessions, CompletionNext(k)
    PROVE  TypeOK'
<1> USE DEF Goto, Set, Places, registry, zk, config, tables, locals, diff
<1>k. k \in Threads /\ k # Refresher /\ MaxSessions \in Nat
  OBVIOUS
<1>1. CASE ChildEventDone(k)
  BY <1>1, <1>k, ZenonT(40) DEF TypeOK, ChildEventDone
<1>2. ASSUME events[k] # <<>>
      PROVE  /\ Head(events[k]) \in Groups \cup {Expired}
             /\ Tail(events[k]) \in Seq(Groups \cup {Expired})
  <2>1. events[k] \in Seq(Groups \cup {Expired})
    BY DEF TypeOK
  <2> QED
    BY <1>2, <2>1, TakenEvent
<1>3. CASE ChildEvent(k)
  <2>1. Head(events[k]) \in Groups /\ events' \in [Sessions -> Seq(Groups \cup {Expired})]
    BY <1>2, <1>3 DEF ChildEvent, TypeOK
  <2> QED
    BY <1>k, <1>3, <2>1, SMTT(30) DEF TypeOK, ChildEvent
<1>4. CASE CloseSession(k)
  <2>1. /\ events[k] # <<>>
        /\ events' = [j \in Sessions |-> IF j = k THEN Tail(events[k])
                                        ELSE IF j = session THEN <<>> ELSE events[j]]
    BY <1>4, Zenon DEF CloseSession
  <2>a. Tail(events[k]) \in Seq(Groups \cup {Expired})
    BY <1>2, <2>1, Zenon
  <2>b. \A j \in Sessions : events[j] \in Seq(Groups \cup {Expired})
    BY Zenon DEF TypeOK
  <2>2. events' \in [Sessions -> Seq(Groups \cup {Expired})]
    BY <2>1, <2>a, <2>b
  <2> QED
    BY <1>k, <1>4, <2>2 DEF TypeOK, CloseSession
<1>5. ASSUME Closed(k), session < MaxSessions PROVE session + 1 \in Sessions /\ at[k] = "init"
  BY <1>5 DEF TypeOK, Closed
<1>6. CASE SessionExpired(k)
  BY <1>k, <1>5, <1>6 DEF TypeOK, SessionExpired, NewSession
<1>7. CASE ReinitFails(k)
  <2>1. /\ session' \in Sessions /\ up' \in BOOLEAN
        /\ at[k] = "init" /\ at' = [at EXCEPT ![k] = "idle"]
    BY <1>5, <1>7 DEF TypeOK, ReinitFails
  <2> QED
    BY <1>k, <1>7, <2>1 DEF TypeOK, ReinitFails
<1> QED
  BY <1>1, <1>3, <1>4, <1>6, <1>7 DEF CompletionNext

\* They are kept by what ZooKeeper and the operator do.
LEMMA EnvironmentTyped ==
    ASSUME TypeOK, \/ \E c \in Children : Register(c) \/ Leave(c)
                  \/ Expire \/ Edit \/ Signal
    PROVE  TypeOK'
<1> USE DEF Goto, Set, Places, registry, zk, config, tables, locals, diff
<1>q. events[session] \in Seq(Groups \cup {Expired}) /\ session \in Sessions
  BY DEF TypeOK
<1>1. ASSUME NEW c \in Children, NEW names \in SUBSET Children, Change(c, names)
      PROVE  TypeOK'
  <2> DEFINE g == Under[c]
  <2>1. g \in Groups /\ armed[g] \in Nat
    BY DEF TypeOK
  <2>2. /\ children' \in [Groups -> SUBSET Children] /\ exists' \in SUBSET Groups
        /\ changes' \in Nat
        /\ UNCHANGED <<session, up, config, tables, watchLock, modifyLock, at, locals, diff,
                       refreshes>>
    BY <1>1, <2>1 DEF TypeOK, Change
  <2>3. CASE up
    <3> DEFINE q == events[session]
               n == armed[g]
               r == q \o [i \in 1..n |-> g]
    <3>1. /\ r \in Seq(Groups \cup {Expired})
          /\ \A i \in 1..Len(r) : r[i] = IF i <= Len(q) THEN q[i] ELSE g
          /\ Len(r) \in Nat /\ Len(q) \in Nat
      <4>1. q \in Seq(Groups \cup {Expired}) /\ n \in Nat /\ g \in Groups
        BY <1>q, <2>1
      <4>2. r = q \o [i \in 1..n |-> g]
        OBVIOUS
      <4> HIDE DEF g, n, q, r
      <4> QED
        BY <4>1, <4>2, FiredEvents
    <3>2. events' = [events EXCEPT ![session] = r] /\ armed' = [armed EXCEPT ![g] = 0]
      BY <1>1, <2>3 DEF Change, Fire
    <3> HIDE DEF g, r
    <3>3. events' \in [Sessions -> Seq(Groups \cup {Expired})] /\ armed' \in [Groups -> Nat]
      BY <2>1, <3>1, <3>2 DEF TypeOK
    <3> QED
      BY <2>2, <3>3 DEF TypeOK
  <2>4. CASE ~up
    <3>1. UNCHANGED <<events, armed, session, up>>
      BY <1>1, <2>4 DEF Change, Fire
    <3> HIDE DEF g
    <3> QED
      BY <2>2, <3>1 DEF TypeOK
  <2> QED
    BY <2>3, <2>4 DEF TypeOK
<1>2. CASE Expire
  <2>1. PICK n \in 1..(MaxSessions - session - Replacements) :
          events' = [events EXCEPT ![session] = events[session] \o [i \in 1..n |-> Expired]]
    BY <1>2 DEF Expire
  <2>2. events[session] \o [i \in 1..n |-> Expired] \in Seq(Groups \cup {Expired})
    BY <1>q, FiredEvents
  <2>3. events' \in [Sessions -> Seq(Groups \cup {Expired})] /\ armed' \in [Groups -> Nat]
    BY <1>2, <2>1, <2>2 DEF TypeOK, Expire
  <2> QED
    BY <1>2, <2>3 DEF TypeOK, Expire
<1>3. CASE Edit
  BY <1>3 DEF TypeOK, Edit
<1>4. CASE Signal
  BY <1>4, SMTT(30) DEF TypeOK, Signal
<1>5. ASSUME NEW c \in Children, Register(c) \/ Leave(c)
      PROVE  TypeOK'
  <2>1. children[Under[c]] \cup {c} \in SUBSET Children
    BY DEF TypeOK
  <2>2. children[Under[c]] \ {c} \in SUBSET Children
    BY DEF TypeOK
  <2> QED
    BY <1>1, <1>5, <2>1, <2>2 DEF Register, Leave
<1> QED
  BY <1>2, <1>3, <1>4, <1>5

-----------------------------------------------------------------------------
(***************************************************************************)
(* Lists stay with their group.                                             *)
(***************************************************************************)

\* A step that leaves the lists alone and reads no group.
LEMMA SameGroups ==
    ASSUME InTheirGroup, UNCHANGED <<children, mapping, group, snapshot>>,
           \A t \in Threads : at'[t] \in {"apply", "notify"} => at[t] \in {"apply", "notify"}
    PROVE  InTheirGroup'
BY DEF InTheirGroup, InGroup

\* Lists of children and of entries stay with their group.
LEMMA InTheirGroupKept ==
    ASSUME IInv, Next
    PROVE  InTheirGroup'
<1> USE DEF Goto, Set, registry, zk, config, tables, locals, diff
<1>a. at \in [Threads -> Places] /\ TypeOK /\ InTheirGroup
  BY DEF IInv, TypeOK
<1>1. ASSUME NEW t \in Threads, ThreadNext(t)
      PROVE  InTheirGroup'
  <2>1. CASE NotChanged(t) \/ EnterRefresh(t) \/ SaveModified(t)
    BY <1>a, <2>1, SameGroups DEF NotChanged, EnterRefresh, SaveModified
  <2>2. CASE ReadConfig(t)
    <3>1. /\ UNCHANGED <<children, mapping, group, snapshot>>
          /\ \A u \in Threads : at'[u] \in {"apply", "notify"} => at[u] \in {"apply", "notify"}
      BY <1>a, <2>2 DEF ReadConfig
    <3> QED
      BY <1>a, <3>1, SameGroups
  <2>3. ASSUME NEW g \in Groups, GetChildren(t, g)
        PROVE  InTheirGroup'
    BY <1>a, <2>3 DEF GetChildren, InTheirGroup, InGroup, TypeOK
  <2>4. ASSUME NEW g \in Groups, GetChildrenFails(t, g)
        PROVE  InTheirGroup'
    BY <1>a, <2>4, SameGroups DEF GetChildrenFails
  <2>5. CASE BeginChange(t)
    BY <1>a, <2>5, SameGroups DEF BeginChange
  <2>6. ASSUME NEW e \in Entries, NotifyDelete(t, e) \/ NotifyAdd(t, e)
        PROVE  InTheirGroup'
    BY <1>a, <2>6, SameGroups DEF NotifyDelete, NotifyAdd
  <2>7. CASE EndChange(t)
    <3>1. modifyLock = t /\ group[t] \in Groups
      BY <1>a, <2>7 DEF EndChange, TypeOK
    <3>2. \A e \in remote : InGroup(e, group[t])
      BY <3>1 DEF IInv, ChangeInHand, HalfWay
    <3>3. \A g \in Groups : \A e \in mapping'[g] : InGroup(e, g)
      BY <1>a, <2>7, <3>1, <3>2 DEF EndChange, InTheirGroup, TypeOK
    <3>4. \A u \in Threads : at'[u] \in {"apply", "notify"} =>
            /\ at[u] \in {"apply", "notify"}
            /\ snapshot'[u] = snapshot[u] /\ group'[u] = group[u]
      BY <1>a, <2>7 DEF EndChange, TypeOK
    <3>5. UNCHANGED children
      BY <2>7 DEF EndChange
    <3> QED
      BY <1>a, <3>3, <3>4, <3>5 DEF InTheirGroup, InGroup
  <2> QED
    BY <1>1, <2>1, <2>2, <2>3, <2>4, <2>5, <2>6, <2>7 DEF ThreadNext
<1>2. ASSUME NEW k \in Sessions, CompletionNext(k)
      PROVE  InTheirGroup'
  <2>1. k \in Threads
    OBVIOUS
  <2> QED
    BY <1>2, <1>a, <2>1, SameGroups
       DEF CompletionNext, ChildEvent, ChildEventDone, CloseSession, SessionExpired,
         NewSession, Closed, ReinitFails
<1>3. ASSUME NEW c \in Children, Register(c) \/ Leave(c)
      PROVE  InTheirGroup'
  <2>1. /\ UNCHANGED <<mapping, group, snapshot, at>>
        /\ \E names \in SUBSET (children[Under[c]] \cup {c}) :
             children' = [children EXCEPT ![Under[c]] = names]
    BY <1>3 DEF Register, Leave, Change
  <2>2. \A g \in Groups : \A d \in children'[g] : Under[d] = g
    BY <1>a, <2>1 DEF InTheirGroup, TypeOK
  <2> QED
    BY <1>a, <2>1, <2>2 DEF InTheirGroup, InGroup
<1>4. CASE Expire \/ Edit \/ Signal
  BY <1>a, <1>4, SameGroups DEF Expire, Edit, Signal
<1> QED
  BY <1>1, <1>2, <1>3, <1>4 DEF Next

-----------------------------------------------------------------------------
(***************************************************************************)
(* The tables, the mapping and the change in hand.                          *)
(***************************************************************************)

\* What the children of a group offer is in that group.
LEMMA ParsedInGroup ==
    ASSUME NEW names \in SUBSET Children, NEW declared, NEW g,
           \A c \in names : Under[c] = g
    PROVE  \A e \in Parse(names, declared) : InGroup(e, g)
BY DEF Parse, InGroup

\* A step that leaves the tables, the mapping and the change in hand alone.
LEMMA SameChange ==
    ASSUME ChangeInHand, UNCHANGED <<mapping, routes, modifyLock, remote, deleted, added>>,
           \A t \in Threads : modifyLock = t => group'[t] = group[t]
    PROVE  ChangeInHand'
<1>1. \A g : (Follows(g) <=> Follows(g)')
  BY DEF Follows, Routed, InGroup
<1>2. \A g : (HalfWay(g) <=> HalfWay(g)')
  BY DEF HalfWay, Routed, InGroup
<1> QED
  BY <1>1, <1>2 DEF ChangeInHand

\* The diff of children_change_func_impl is what separates the tables from the list read.
LEMMA BeginKept ==
    ASSUME IInv, NEW t \in Threads, BeginChange(t)
    PROVE  ChangeInHand'
<1> DEFINE g == group[t]
           parsed == Parse(snapshot[t], filters)
           local == RegisterMappingFind(g)
<1>1. /\ modifyLock = Nobody /\ modifyLock' = t /\ at[t] = "apply"
      /\ remote' = parsed /\ deleted' = local \ parsed /\ added' = parsed \ local
      /\ UNCHANGED <<mapping, routes, group>>
  BY DEF BeginChange, FindDeleted, FindAdded, tables, locals
<1>2. g \in Groups /\ snapshot[t] \in SUBSET Children
  BY <1>1 DEF IInv, TypeOK
<1>3. \A h \in Groups : Follows(h)
  BY <1>1 DEF IInv, ChangeInHand
<1>4. \A e \in parsed : InGroup(e, g)
  BY <1>1, <1>2, ParsedInGroup DEF IInv, InTheirGroup
<1>5. /\ local \subseteq mapping[g]
      /\ \A e \in local : InGroup(e, g) /\ e \in routes
      /\ g \notin LongGroups => local = Routed(g)
  BY <1>2, <1>3 DEF RegisterMappingFind, Follows, Routed
<1> HIDE DEF parsed, local, g
<1>6. HalfWay(g)'
  BY <1>1, <1>4, <1>5 DEF HalfWay, Routed, InGroup, g
<1>7. \A h \in Groups : Follows(h)'
  BY <1>1, <1>3 DEF Follows, Routed, InGroup
<1> QED
  BY <1>1, <1>6, <1>7 DEF ChangeInHand, g

\* Each notify_change takes its entry off that difference and leaves other groups alone.
LEMMA NotifyKept ==
    ASSUME IInv, NEW t \in Threads, NEW e \in Entries, NotifyDelete(t, e) \/ NotifyAdd(t, e)
    PROVE  ChangeInHand'
<1> DEFINE g == group[t]
<1>1. /\ UNCHANGED <<mapping, modifyLock, group, remote>> /\ at[t] = "notify"
      /\ \/ e \in deleted /\ routes' = routes \ {e} /\ deleted' = deleted \ {e} /\ added' = added
         \/ e \in added /\ routes' = routes \cup {e} /\ added' = added \ {e} /\ deleted' = deleted
  BY DEF NotifyDelete, NotifyAdd, locals
<1>2. modifyLock = t /\ g \in Groups
  BY <1>1 DEF IInv, TypeOK
<1>3. HalfWay(g) /\ \A h \in Groups \ {g} : Follows(h)
  BY <1>2 DEF IInv, ChangeInHand
<1>4. InGroup(e, g)
  BY <1>1, <1>3 DEF HalfWay
<1> HIDE DEF g
<1>5. HalfWay(g)'
  BY <1>1, <1>3, <1>4 DEF HalfWay, Routed, InGroup, g
<1>6. \A h \in Groups \ {g} : Follows(h)'
  BY <1>1, <1>3, <1>4 DEF Follows, Routed, InGroup
<1> QED
  BY <1>1, <1>2, <1>5, <1>6 DEF ChangeInHand, g

\* register_mapping_put closes it: the tables hold the list that is put.
LEMMA EndKept ==
    ASSUME IInv, NEW t \in Threads, EndChange(t)
    PROVE  ChangeInHand'
<1> DEFINE g == group[t]
<1>1. /\ deleted = {} /\ added = {} /\ modifyLock' = Nobody /\ UNCHANGED routes
      /\ mapping' = [mapping EXCEPT ![g] = remote] /\ at[t] = "notify"
  BY DEF EndChange
<1>2. modifyLock = t /\ g \in Groups /\ mapping \in [Groups -> SUBSET Entries]
  BY <1>1 DEF IInv, TypeOK
<1>3. HalfWay(g) /\ \A h \in Groups \ {g} : Follows(h)
  BY <1>2 DEF IInv, ChangeInHand
<1> HIDE DEF g
<1>4. \A h \in Groups : Follows(h)'
  BY <1>1, <1>2, <1>3 DEF HalfWay, Follows, Routed, InGroup
<1> QED
  BY <1>1, <1>4 DEF ChangeInHand

\* Every step keeps the tables and the mapping together, up to the change in hand.
LEMMA ChangeInHandKept ==
    ASSUME IInv, Next
    PROVE  ChangeInHand'
<1> USE DEF Goto, Set, registry, zk, config, tables, locals, diff
<1>a. TypeOK /\ ChangeInHand
  BY DEF IInv
<1>1. ASSUME NEW t \in Threads, ThreadNext(t)
      PROVE  ChangeInHand'
  <2>1. CASE NotChanged(t) \/ EnterRefresh(t) \/ SaveModified(t) \/ ReadConfig(t)
    BY <1>a, <2>1, SameChange DEF NotChanged, EnterRefresh, SaveModified, ReadConfig
  <2>2. ASSUME NEW g \in Groups, GetChildren(t, g)
        PROVE  ChangeInHand'
    <3>1. \A u \in Threads : modifyLock = u => group'[u] = group[u]
      BY <1>a, <2>2 DEF GetChildren, TypeOK
    <3> QED
      BY <1>a, <2>2, <3>1, SameChange DEF GetChildren
  <2>3. ASSUME NEW g \in Groups, GetChildrenFails(t, g)
        PROVE  ChangeInHand'
    BY <1>a, <2>3, SameChange DEF GetChildrenFails
  <2> QED
    BY <1>1, <2>1, <2>2, <2>3, BeginKept, NotifyKept, EndKept DEF ThreadNext
<1>2. ASSUME NEW k \in Sessions, CompletionNext(k)
      PROVE  ChangeInHand'
  BY <1>2, <1>a, SameChange
     DEF CompletionNext, ChildEvent, ChildEventDone, CloseSession, SessionExpired,
         NewSession, Closed, ReinitFails
<1>3. CASE \/ \E c \in Children : Register(c) \/ Leave(c)
           \/ Expire \/ Edit \/ Signal
  BY <1>a, <1>3, SameChange DEF Register, Leave, Change, Expire, Edit, Signal
<1> QED
  BY <1>1, <1>2, <1>3 DEF Next

-----------------------------------------------------------------------------
(***************************************************************************)
(* The theorems.                                                            *)
(***************************************************************************)

\* The inductive invariant holds: types and locks, lists that stay with their group, and the change in hand.
THEOREM Invariance == Spec => []IInv
<1>1. Init => IInv
  <2>1. Init => InTheirGroup
    BY DEF Init, InTheirGroup
  <2>2. Init => ChangeInHand
    BY DEF Init, ChangeInHand, Follows, Routed
  <2> QED
    BY <2>1, <2>2, InitTyped DEF IInv
<1>2. IInv /\ [Next]_vars => IInv'
  <2> SUFFICES ASSUME IInv, [Next]_vars PROVE IInv'
    OBVIOUS
  <2>1. CASE Next
    <3>1. TypeOK'
      BY <2>1, ThreadTyped, CompletionTyped, EnvironmentTyped DEF Next, IInv
    <3> QED
      BY <2>1, <3>1, InTheirGroupKept, ChangeInHandKept DEF IInv
  <2>2. CASE UNCHANGED vars
    <3> USE <2>2 DEF vars, registry, zk, config, tables, locals, diff
    <3>1. TypeOK'
      BY DEF IInv, TypeOK
    <3>2. InTheirGroup'
      BY SameGroups DEF IInv
    <3>3. ChangeInHand'
      BY SameChange DEF IInv
    <3> QED
      BY <3>1, <3>2, <3>3 DEF IInv
  <2> QED
    BY <2>1, <2>2
<1> QED
  BY <1>1, <1>2, PTL DEF Spec

\* Every variable has its type and a thread has a lock exactly where the code does: every
\* return from watch_declared_services and children_change_func_impl unlocks what was locked.
THEOREM TypeCorrect == Spec => []TypeOK
<1>1. IInv => TypeOK
  BY DEF IInv
<1> QED
  BY <1>1, Invariance, PTL

\* Whenever no change is being applied, the resource tables hold for each group what
\* register_mapping has: what children_change_func_impl adds and deletes never drifts from
\* what its next diff is made against, however many threads apply changes and whatever
\* reads fail or sessions end in between.
THEOREM TablesFollowMapping == Spec => []RoutesFollowMapping
<1>1. IInv => RoutesFollowMapping
  BY DEF IInv, ChangeInHand, Follows, RoutesFollowMapping
<1> QED
  BY <1>1, Invariance, PTL

-----------------------------------------------------------------------------
(***************************************************************************)
(* No declared group is lost sight of, as long as the registry answers:     *)
(* every read of a live session succeeds, a new session can be opened, the  *)
(* groups have their nodes and the file parses.                             *)
(***************************************************************************)
RegistryAnswers ==
    /\ ~ReadsMayFail /\ ~ReinitMayFail /\ FreshGroups = {}
    /\ \A v \in Versions : Declares[v] # Malformed

Queued(x) == \E k \in Sessions : \E i \in 1..Len(events[k]) : events[k][i] = x

\* Thread t is going to read group g.
Coming(t, g) == g \in todo[t] \/ (at[t] \in {"enter", "config"} /\ force[t])

\* A session is going to be opened, and then all groups are read.
Renewal == Queued(Expired) \/ \E t \in Threads : at[t] = "init"

\* Beside the property itself: a session that ended is going to be replaced, and a thread
\* that is not in the middle of a refresh or of an event has nothing on its list, so that the
\* list it is given next replaces nothing.
WatchInv ==
    /\ exists = Groups
    /\ ~up => Renewal
    /\ \A t \in Threads : at[t] \in {"idle", "init", "enter", "config"} => todo[t] = {}
    /\ WatchKept

\* The reads to come are those on some thread's list and those in some queue.
LEMMA WillReadIs ==
    ASSUME TypeOK, NEW g \in Groups
    PROVE  WillRead(g) <=>
             (\E t \in Threads : Coming(t, g)) \/ Queued(g) \/ Renewal
<1>1. \A k \in Sessions : DOMAIN events[k] = 1..Len(events[k])
  <2>1. events \in [Sessions -> Seq(Groups \cup {Expired})]
    BY DEF TypeOK
  <2> QED
    BY <2>1
<1> QED
  BY <1>1, Zenon DEF WillRead, Coming, Queued, Renewal

\* The declared groups are groups.
LEMMA DeclaredTyped == ASSUME TypeOK, RegistryAnswers PROVE DeclaredGroups \subseteq Groups
<1>1. ASSUME loaded # 0 PROVE Declares[loaded] \in SUBSET Services
  BY <1>1 DEF TypeOK, RegistryAnswers
<1> QED
  BY <1>1 DEF DeclaredGroups

\* Events stay in their queue until they are taken, one at a time, or a session is closed.
LEMMA QueuesKept ==
    ASSUME TypeOK, Next, NEW x \in Groups \cup {Expired}, Queued(x)
    PROVE  \/ Queued(x)'
           \/ \E k \in Sessions : ChildEvent(k) /\ Head(events[k]) = x
           \/ \E k \in Sessions : CloseSession(k)
<1>0. PICK k \in Sessions : \E i \in 1..Len(events[k]) : events[k][i] = x
  BY DEF Queued
<1>1. PICK i \in 1..Len(events[k]) : events[k][i] = x
  BY <1>0
<1>2. CASE events' = events
  BY <1>2 DEF Queued
<1>3. ASSUME NEW j \in Sessions, ChildEvent(j)
      PROVE  Queued(x)' \/ Head(events[j]) = x
  <2>1. events[j] # <<>> /\ events' = [events EXCEPT ![j] = Tail(events[j])]
    BY <1>3 DEF ChildEvent, Set
  <2>2. CASE k # j
    <3>1. events'[k] = events[k]
      BY <2>1, <2>2 DEF TypeOK
    <3> QED
      BY <1>1, <3>1 DEF Queued
  <2>3. CASE k = j
    <3>1. /\ events[k] \in Seq(Groups \cup {Expired}) /\ events'[k] = Tail(events[k])
          /\ Len(events[k]) \in Nat
      BY <2>1, <2>3 DEF TypeOK
    <3>2. /\ Head(events[k]) = events[k][1] /\ Len(Tail(events[k])) = Len(events[k]) - 1
          /\ \A m \in 1..Len(Tail(events[k])) : Tail(events[k])[m] = events[k][m + 1]
      BY <2>1, <2>3, <3>1, TakenEvent
    <3>3. CASE i = 1
      BY <1>1, <2>3, <3>2, <3>3
    <3>4. CASE i # 1
      <4>1. i - 1 \in 1..Len(events'[k]) /\ events'[k][i - 1] = x
        BY <1>1, <3>1, <3>2, <3>4
      <4> QED
        BY <4>1 DEF Queued
    <3> QED
      BY <3>3, <3>4
  <2> QED
    BY <2>2, <2>3
<1>4. ASSUME NEW n \in Nat, NEW y \in Groups \cup {Expired},
             events' = [events EXCEPT ![session] = events[session] \o [m \in 1..n |-> y]]
      PROVE  Queued(x)'
  <2>1. /\ events[session] \in Seq(Groups \cup {Expired}) /\ session \in Sessions
        /\ events'[session] = events[session] \o [m \in 1..n |-> y]
    BY <1>4 DEF TypeOK
  <2>2. /\ Len(events'[session]) = Len(events[session]) + n /\ Len(events[session]) \in Nat
        /\ \A m \in 1..Len(events'[session]) :
             events'[session][m] = IF m <= Len(events[session]) THEN events[session][m] ELSE y
    BY <2>1, FiredEvents
  <2>3. CASE k = session
    <3>1. i \in 1..Len(events'[k]) /\ events'[k][i] = x
      BY <1>1, <2>2, <2>3
    <3> QED
      BY <3>1 DEF Queued
  <2>4. CASE k # session
    <3>1. events'[k] = events[k]
      BY <1>4, <2>4 DEF TypeOK
    <3> QED
      BY <1>1, <3>1 DEF Queued
  <2> QED
    BY <2>3, <2>4
<1>5. CASE Expire
  <2>1. PICK n \in 1..(MaxSessions - session - Replacements) :
          events' = [events EXCEPT ![session] = events[session] \o [m \in 1..n |-> Expired]]
    BY <1>5 DEF Expire
  <2>2. n \in Nat /\ Expired \in Groups \cup {Expired}
    OBVIOUS
  <2> QED
    BY <1>4, <2>1, <2>2
<1>6. ASSUME NEW t \in Threads, ThreadNext(t) PROVE events' = events
  BY <1>6 DEF ThreadNext, NotChanged, EnterRefresh, ReadConfig, SaveModified, GetChildren,
     GetChildrenFails, BeginChange, NotifyDelete, NotifyAdd, EndChange, zk
<1>7. ASSUME NEW c \in Children, Register(c) \/ Leave(c) PROVE Queued(x)'
  <2>1. Fire(Under[c]) /\ Under[c] \in Groups
    BY <1>7 DEF Register, Leave, Change
  <2>2. CASE up
    <3>1. /\ events' = [events EXCEPT ![session] =
                           events[session] \o [m \in 1..armed[Under[c]] |-> Under[c]]]
          /\ armed[Under[c]] \in Nat /\ Under[c] \in Groups \cup {Expired}
      BY <2>1, <2>2 DEF Fire, TypeOK
    <3> HIDE DEF Queued
    <3> QED
      BY <1>4, <3>1
  <2>3. CASE ~up
    BY <2>1, <2>3 DEF Fire, Queued
  <2> QED
    BY <2>2, <2>3
<1>8. CASE Edit \/ Signal
           \/ \E j \in Sessions : ChildEventDone(j) \/ SessionExpired(j) \/ ReinitFails(j)
  BY <1>2, <1>8 DEF Edit, Signal, ChildEventDone, SessionExpired, NewSession, ReinitFails, zk
<1> QED
  BY <1>2, <1>3, <1>5, <1>6, <1>7, <1>8 DEF Next, CompletionNext

\* A change of a group that is watched is in the queue of the session.
LEMMA FiredQueued ==
    ASSUME TypeOK, NEW g \in Groups, Fire(g), up, armed[g] > 0
    PROVE  Queued(g)'
<1> DEFINE q == events[session]
<1>1. events' = [events EXCEPT ![session] = q \o [m \in 1..armed[g] |-> g]]
  BY DEF Fire
<1>t. /\ events \in [Sessions -> Seq(Groups \cup {Expired})] /\ session \in Sessions
      /\ armed \in [Groups -> Nat]
  BY DEF TypeOK
<1> HIDE DEF q
<1>2. /\ q \in Seq(Groups \cup {Expired}) /\ armed[g] \in Nat /\ session \in Sessions
      /\ events'[session] = q \o [m \in 1..armed[g] |-> g]
  <2>1. q \in Seq(Groups \cup {Expired}) /\ armed[g] \in Nat
    BY <1>t DEF q
  <2>2. events'[session] = q \o [m \in 1..armed[g] |-> g]
    BY <1>1, <1>t
  <2> QED
    BY <1>t, <2>1, <2>2
<1>3. /\ Len(q) \in Nat /\ Len(events'[session]) = Len(q) + armed[g]
      /\ \A i \in 1..Len(events'[session]) :
           events'[session][i] = IF i <= Len(q) THEN q[i] ELSE g
  BY <1>2, FiredEvents
<1>5. /\ Len(q) + 1 \in 1..Len(events'[session])
      /\ events'[session][Len(q) + 1] = g
  BY <1>2, <1>3
<1>6. \E k \in Sessions : \E i \in 1..Len(events'[k]) : events'[k][i] = g
  BY <1>2, <1>5
<1> QED
  BY <1>6 DEF Queued

\* A declared group that no read is coming for has its watch before the step; after it, it
\* has one, unless the step takes the watches away.
LEMMA WatchKeptIf ==
    ASSUME TypeOK, TypeOK', RegistryAnswers, WatchKept, loaded' = loaded,
           \A g \in Groups : armed[g] > 0 => armed'[g] > 0 \/ Queued(g)' \/ Renewal',
           \A g \in Groups : \A t \in Threads : Coming(t, g) =>
             armed'[g] > 0 \/ (\E s \in Threads : Coming(s, g)') \/ Renewal',
           \A g \in Groups : Queued(g) =>
             Queued(g)' \/ \E s \in Threads : Coming(s, g)',
           Renewal =>
             Renewal' \/ \A g \in Groups : \E s \in Threads : Coming(s, g)'
    PROVE  WatchKept'
<1>1. DeclaredGroups' = DeclaredGroups /\ DeclaredGroups \subseteq Groups
  BY DeclaredTyped DEF DeclaredGroups
<1> SUFFICES ASSUME NEW g \in DeclaredGroups PROVE armed'[g] > 0 \/ WillRead(g)'
  BY <1>1 DEF WatchKept
<1>2. g \in Groups
  BY <1>1
<1>3. armed[g] > 0 \/ WillRead(g)
  BY DEF WatchKept
<1>4. armed[g] > 0 \/ (\E t \in Threads : Coming(t, g)) \/ Queued(g) \/ Renewal
  BY <1>2, <1>3, WillReadIs
<1>5. armed'[g] > 0 \/ (\E t \in Threads : Coming(t, g)') \/ Queued(g)' \/ Renewal'
  BY <1>2, <1>4
<1>6. (\E t \in Threads : Coming(t, g)') \/ Queued(g)' \/ Renewal' => WillRead(g)'
  <2>1. \A k \in Sessions : DOMAIN events'[k] = 1..Len(events'[k])
    BY DEF TypeOK
  <2> QED
    BY <2>1 DEF WillRead, Coming, Queued, Renewal
<1> QED
  BY <1>5, <1>6

\* A refresh or the handling of an event keeps the declared groups in sight.
LEMMA ThreadWatches ==
    ASSUME TypeOK, TypeOK', RegistryAnswers, WatchInv, NEW t \in Threads, ThreadNext(t)
    PROVE  WatchInv'
<1> USE DEF WatchInv
<1>e. events' = events /\ exists' = exists /\ up' = up
  BY DEF ThreadNext, NotChanged, EnterRefresh, ReadConfig, SaveModified, GetChildren,
     GetChildrenFails, BeginChange, NotifyDelete, NotifyAdd, EndChange, zk, registry
<1>t. /\ armed \in [Groups -> Nat] /\ at \in [Threads -> Places]
      /\ todo \in [Threads -> SUBSET Groups]
  BY DEF TypeOK
<1>q. /\ \A x : Queued(x)' <=> Queued(x)
      /\ Renewal => Renewal'
  <2>1. \A s \in Threads : at[s] = "init" => at'[s] = "init"
    BY <1>t DEF ThreadNext, NotChanged, EnterRefresh, ReadConfig, SaveModified, GetChildren,
       GetChildrenFails, BeginChange, NotifyDelete, NotifyAdd, EndChange, Goto
  <2> QED
    BY <1>e, <2>1 DEF Queued, Renewal
<1>1. CASE ReadConfig(t)
  <2>1. /\ Declares[file] # Malformed /\ loaded' = file /\ file \in Versions
        /\ todo' = [todo EXCEPT ![t] = {GroupOf[s] : s \in Declares[file]}]
        /\ at' = [at EXCEPT ![t] = "watch"]
    BY <1>1 DEF ReadConfig, RegistryAnswers, TypeOK, Set, Goto
  <2>2. \A g \in DeclaredGroups' : g \in todo'[t]
    BY <2>1 DEF DeclaredGroups, TypeOK
  <2>3. WatchKept'
    BY <2>2 DEF WatchKept, WillRead
  <2>4. \A s \in Threads : at'[s] \in {"idle", "init", "enter", "config"} => todo'[s] = {}
    BY <2>1 DEF TypeOK
  <2> QED
    BY <1>e, <1>q, <2>3, <2>4
<1>2. ASSUME NEW g \in Groups, GetChildrenFails(t, g) PROVE WatchInv'
  <2>1. ~up
    BY <1>2 DEF GetChildrenFails, RegistryAnswers
  <2>2. Renewal' /\ loaded' = loaded
    BY <1>2, <1>q, <2>1 DEF GetChildrenFails, config
  <2>3. WatchKept'
    BY <1>q, <2>2, WatchKeptIf
  <2>4. \A s \in Threads : at'[s] \in {"idle", "init", "enter", "config"} => todo'[s] = {}
    BY <1>2 DEF GetChildrenFails, Set, TypeOK
  <2> QED
    BY <1>e, <1>q, <2>3, <2>4
<1>3. ASSUME NEW g \in Groups, GetChildren(t, g) PROVE WatchInv'
  <2>1. /\ todo' = [todo EXCEPT ![t] = todo[t] \ {g}] /\ at[t] = "watch"
        /\ at' = [at EXCEPT ![t] = "apply"] /\ force' = force /\ loaded' = loaded
        /\ armed' = [armed EXCEPT ![g] = armed[g] + 1]
    BY <1>3 DEF GetChildren, Set, Goto, config
  <2>a. \A h \in Groups : armed'[h] = IF h = g THEN armed[h] + 1 ELSE armed[h]
    BY <1>t, <2>1
  <2>2. armed'[g] > 0 /\ \A h \in Groups : armed[h] > 0 => armed'[h] > 0
    <3> HIDE DEF WatchInv
    <3>1. \A h \in Groups : armed[h] \in Nat
      BY <1>t
    <3>2. armed'[g] > 0
      BY <2>a, <3>1
    <3>3. ASSUME NEW h \in Groups, armed[h] > 0 PROVE armed'[h] > 0
      BY <2>a, <3>1, <3>3
    <3> QED
      BY <3>2, <3>3
  <2>b. \A s \in Threads : /\ \A h \in todo[s] : h # g => h \in todo'[s]
                          /\ at[s] \in {"enter", "config"} => at'[s] = at[s]
    BY <1>t, <2>1
  <2>3. \A h \in Groups : \A s \in Threads : Coming(s, h) /\ h # g => Coming(s, h)'
    BY <2>1, <2>b DEF Coming
  <2>4. \A h \in Groups : \A s \in Threads : Coming(s, h) =>
          armed'[h] > 0 \/ (\E r \in Threads : Coming(r, h)') \/ Renewal'
    BY <2>2, <2>3
  <2>5. WatchKept'
    BY <1>q, <2>1, <2>2, <2>4, WatchKeptIf
  <2>6. \A s \in Threads : at'[s] \in {"idle", "init", "enter", "config"} => todo'[s] = {}
    BY <2>1, SMTT(30) DEF TypeOK
  <2> QED
    BY <1>e, <1>q, <2>5, <2>6
\* The others read nothing and take nothing off a list.
<1>4. CASE \/ NotChanged(t) \/ EnterRefresh(t) \/ SaveModified(t) \/ BeginChange(t) \/ EndChange(t)
           \/ \E e \in Entries : NotifyDelete(t, e) \/ NotifyAdd(t, e)
  <2>1. /\ todo' = todo /\ force' = force /\ loaded' = loaded /\ armed' = armed
        /\ \/ at' = at
           \/ at[t] = "enter" /\ ~force[t] /\ at' = [at EXCEPT ![t] = "idle"]
           \/ at[t] = "enter" /\ at' = [at EXCEPT ![t] = "config"]
           \/ at[t] = "watch" /\ todo[t] = {} /\ at' = [at EXCEPT ![t] = "idle"]
           \/ at[t] = "apply" /\ at' = [at EXCEPT ![t] = "notify"]
           \/ at[t] = "notify" /\ at' = [at EXCEPT ![t] = "watch"]
    BY <1>4 DEF NotChanged, EnterRefresh, SaveModified, BeginChange, EndChange, NotifyDelete,
       NotifyAdd, Goto, locals, config, zk
  <2>a. \A s \in Threads : at[s] \in {"enter", "config"} /\ at'[s] \notin {"enter", "config"} =>
          s = t /\ ~force[t]
    BY <1>t, <2>1
  <2>2. \A h \in Groups : \A s \in Threads : Coming(s, h) => Coming(s, h)'
    BY <2>1, <2>a DEF Coming
  <2>3. WatchKept'
    BY <1>q, <2>1, <2>2, WatchKeptIf
  <2>4. \A s \in Threads : at'[s] \in {"idle", "init", "enter", "config"} => todo'[s] = {}
    BY <1>t, <2>1
  <2> QED
    BY <1>e, <1>q, <2>3, <2>4
<1> QED
  BY <1>1, <1>2, <1>3, <1>4 DEF ThreadNext

\* So does a completion thread that takes an event: the group goes onto its list at once, and
\* a session that it closes is followed by another one and by a read of all groups.
LEMMA CompletionWatches ==
    ASSUME TypeOK, TypeOK', RegistryAnswers, WatchInv,
           NEW k \in Sessions, CompletionNext(k)
    PROVE  WatchInv'
<1> USE DEF WatchInv
<1>t. /\ at \in [Threads -> Places] /\ todo \in [Threads -> SUBSET Groups] /\ k \in Threads
      /\ force \in [Threads -> BOOLEAN]
  <2>1. k \in Threads
    OBVIOUS
  <2>2. at \in [Threads -> Places] /\ todo \in [Threads -> SUBSET Groups]
        /\ force \in [Threads -> BOOLEAN]
    BY DEF TypeOK
  <2> QED
    BY <2>1, <2>2
<1>n. Next
  BY DEF Next
<1>1. CASE ChildEvent(k)
  <2> DEFINE x == Head(events[k])
  <2>1. /\ todo' = [todo EXCEPT ![k] = {x}] /\ at' = [at EXCEPT ![k] = "watch"]
        /\ at[k] = "idle" /\ x # Expired
        /\ UNCHANGED <<armed, loaded, force, exists, up>>
    BY <1>1 DEF ChildEvent, Set, Goto, config, registry
  <2>2. \A j \in Sessions : /\ ~CloseSession(j)
                            /\ ChildEvent(j) => j = k
    <3>2. at'[k] = "watch" /\ at[k] = "idle"
      BY <1>t, <2>1
    <3>3. ASSUME NEW j \in Sessions, ChildEvent(j) \/ CloseSession(j), j # k
          PROVE  FALSE
      BY <1>t, <3>2, <3>3 DEF ChildEvent, CloseSession, Goto
    <3>4. ~CloseSession(k)
      BY <2>1 DEF CloseSession
    <3> QED
      BY <3>3, <3>4
  <2>3. \A g \in Groups : Queued(g) => Queued(g)' \/ g = x
    BY <1>n, <2>2, QueuesKept
  <2>4. Renewal => Renewal'
    <3>1. Queued(Expired) => Queued(Expired)'
      BY <1>n, <2>1, <2>2, QueuesKept
    <3>2. \A s \in Threads : at[s] = "init" => at'[s] = "init"
      BY <1>t, <2>1
    <3> QED
      BY <3>1, <3>2 DEF Renewal
  <2>5. \A s \in Threads : /\ todo[s] \subseteq todo'[s]
                           /\ at[s] \in {"enter", "config"} => at'[s] = at[s]
    BY <1>t, <2>1
  <2>6. \A g \in Groups, s \in Threads : Coming(s, g) => Coming(s, g)'
    BY <2>1, <2>5 DEF Coming
  <2>7. x \in todo'[k]
    BY <1>t, <2>1
  <2>8. \A g \in Groups : Queued(g) => Queued(g)' \/ \E s \in Threads : Coming(s, g)'
    BY <1>t, <2>3, <2>7 DEF Coming
  <2>9. WatchKept'
    BY <2>1, <2>4, <2>6, <2>8, WatchKeptIf
  <2>10. \A s \in Threads : at'[s] \in {"idle", "init", "enter", "config"} => todo'[s] = {}
    BY <1>t, <2>1
  <2> QED
    BY <2>1, <2>4, <2>9, <2>10
<1>2. CASE SessionExpired(k)
  <2>1. /\ force' = [force EXCEPT ![k] = TRUE] /\ at' = [at EXCEPT ![k] = "enter"]
        /\ up' = TRUE /\ at[k] = "init" /\ UNCHANGED <<armed, loaded, todo, exists>>
    BY <1>2 DEF SessionExpired, NewSession, Closed, Set, Goto, config, registry
  <2>2. at'[k] = "enter" /\ force'[k]
    BY <1>t, <2>1
  <2>3. WatchKept'
    BY <1>t, <2>2 DEF WatchKept, WillRead
  <2>4. \A s \in Threads : at'[s] \in {"idle", "init", "enter", "config"} => todo'[s] = {}
    BY <1>t, <2>1
  <2> QED
    BY <2>1, <2>3, <2>4
<1>3. CASE ChildEventDone(k)
  <2>1. /\ at[k] = "watch" /\ todo[k] = {} /\ at' = [at EXCEPT ![k] = "idle"]
        /\ UNCHANGED <<armed, events, loaded, force, todo, exists, up>>
    BY <1>3 DEF ChildEventDone, Goto, zk, config, registry, locals
  <2>2. (\A x : Queued(x)' <=> Queued(x)) /\ (Renewal => Renewal')
    <3>1. \A s \in Threads : at[s] = "init" => at'[s] = "init"
      BY <1>t, <2>1
    <3> QED
      BY <2>1, <3>1 DEF Queued, Renewal
  <2>3. \A s \in Threads : at[s] \in {"enter", "config"} => at'[s] = at[s]
    BY <1>t, <2>1
  <2>4. \A g \in Groups, s \in Threads : Coming(s, g) => Coming(s, g)'
    BY <2>1, <2>3 DEF Coming
  <2>5. WatchKept'
    BY <2>1, <2>2, <2>4, WatchKeptIf
  <2>6. \A s \in Threads : at'[s] \in {"idle", "init", "enter", "config"} => todo'[s] = {}
    BY <1>t, <2>1
  <2> QED
    BY <2>1, <2>2, <2>5, <2>6
<1>4. ~ReinitFails(k)
  BY DEF ReinitFails, RegistryAnswers
<1>5. CASE CloseSession(k)
  <2>1. /\ at[k] = "idle" /\ at' = [at EXCEPT ![k] = "init"]
        /\ UNCHANGED <<todo, exists>>
    BY <1>5 DEF CloseSession, Goto, registry, locals
  <2>2. at'[k] = "init"
    BY <1>t, <2>1
  <2>3. WatchKept' /\ Renewal'
    BY <1>t, <2>2 DEF WatchKept, WillRead, Renewal
  <2>4. \A s \in Threads : at'[s] \in {"idle", "init", "enter", "config"} => todo'[s] = {}
    BY <1>t, <2>1
  <2> QED
    BY <2>1, <2>3, <2>4
<1> QED
  BY <1>1, <1>2, <1>3, <1>4, <1>5 DEF CompletionNext

\* A change puts an event in the queue for the watches it takes, the end of a session puts
\* its own there, and a signal gives the refresher a list only where it had none.
LEMMA EnvironmentWatches ==
    ASSUME TypeOK, TypeOK', RegistryAnswers, WatchInv,
           (\E c \in Children : Register(c) \/ Leave(c)) \/ Expire \/ Edit \/ Signal
    PROVE  WatchInv'
<1> USE DEF WatchInv
<1>n. Next
  BY DEF Next
<1>t. /\ at \in [Threads -> Places] /\ todo \in [Threads -> SUBSET Groups]
      /\ armed \in [Groups -> Nat] /\ events \in [Sessions -> Seq(Groups \cup {Expired})]
      /\ session \in Sessions /\ force \in [Threads -> BOOLEAN] /\ Refresher \in Threads
  <2>1. Refresher \in Threads
    OBVIOUS
  <2>2. /\ at \in [Threads -> Places] /\ todo \in [Threads -> SUBSET Groups]
        /\ armed \in [Groups -> Nat] /\ events \in [Sessions -> Seq(Groups \cup {Expired})]
        /\ session \in Sessions /\ force \in [Threads -> BOOLEAN]
    BY DEF TypeOK
  <2> QED
    BY <2>1, <2>2
<1>1. ASSUME NEW c \in Children, Register(c) \/ Leave(c) PROVE WatchInv'
  <2>1. /\ Fire(Under[c]) /\ Under[c] \in Groups /\ exists' = exists \cup {Under[c]}
        /\ UNCHANGED <<loaded, at, todo, force, up>>
    BY <1>1 DEF Register, Leave, Change, config, locals
  <2>2. \A g \in Groups, s \in Threads : Coming(s, g) => Coming(s, g)'
    BY <2>1 DEF Coming
  <2>3. \A x \in Groups \cup {Expired} : Queued(x) => Queued(x)'
    <3> SUFFICES ASSUME NEW x \in Groups \cup {Expired}, Queued(x), ~Queued(x)' PROVE FALSE
      OBVIOUS
    <3>1. PICK j \in Sessions : ChildEvent(j) \/ CloseSession(j)
      BY <1>n, QueuesKept
    <3>2. changes' = changes /\ changes' = changes + 1 /\ changes \in Nat
      BY <1>1, <3>1 DEF ChildEvent, CloseSession, registry, Register, Leave, Change, TypeOK
    <3> QED
      BY <3>2
  <2>4. \A g \in Groups : armed[g] > 0 => armed'[g] > 0 \/ Queued(g)'
    <3>1. CASE up
      <4>1. armed' = [armed EXCEPT ![Under[c]] = 0]
        BY <2>1, <3>1 DEF Fire
      <4>2. armed[Under[c]] > 0 => Queued(Under[c])'
        BY <2>1, <3>1, FiredQueued
      <4> QED
        BY <1>t, <4>1, <4>2
    <3>2. CASE ~up
      BY <2>1, <3>2 DEF Fire
    <3> QED
      BY <3>1, <3>2
  <2>5. Renewal => Renewal'
    BY <2>1, <2>3 DEF Renewal
  <2>6. WatchKept'
    BY <2>1, <2>2, <2>3, <2>4, <2>5, WatchKeptIf
  <2> QED
    BY <2>1, <2>5, <2>6
<1>2. CASE Expire
  <2>1. PICK n \in 1..(MaxSessions - session - Replacements) :
          events' = [events EXCEPT ![session] = events[session] \o [i \in 1..n |-> Expired]]
    BY <1>2 DEF Expire
  <2>a. UNCHANGED <<exists, loaded, at, todo>>
    BY <1>2 DEF Expire, registry, config, locals
  <2>2. /\ Len(events[session]) + 1 \in 1..Len(events'[session])
        /\ events'[session][Len(events[session]) + 1] = Expired
    <3>1. events[session] \in Seq(Groups \cup {Expired}) /\ n \in Nat \ {0}
          /\ events'[session] = events[session] \o [i \in 1..n |-> Expired]
      BY <1>t, <2>1
    <3>2. /\ Len(events'[session]) = Len(events[session]) + n /\ Len(events[session]) \in Nat
          /\ \A m \in 1..Len(events'[session]) : events'[session][m] =
               IF m <= Len(events[session]) THEN events[session][m] ELSE Expired
      BY <3>1, FiredEvents
    <3> QED
      BY <3>1, <3>2
  <2>3. Queued(Expired)'
    <3>1. \E j \in Sessions : \E i \in 1..Len(events'[j]) : events'[j][i] = Expired
      BY <1>t, <2>2
    <3> QED
      BY <3>1 DEF Queued
  <2>4. \A k \in Sessions : DOMAIN events'[k] = 1..Len(events'[k])
    BY DEF TypeOK
  <2>5. WatchKept'
    BY <2>3, <2>4 DEF WatchKept, WillRead, Queued
  <2> QED
    BY <2>a, <2>3, <2>5 DEF Renewal
<1>3. CASE Edit
  <2>1. UNCHANGED <<exists, loaded, at, todo, armed, events, force, up>>
    BY <1>3 DEF Edit, registry, zk, locals
  <2> QED
    BY <2>1 DEF Queued, Renewal, WatchKept, WillRead, DeclaredGroups
<1>4. CASE Signal
  <2>1. /\ at[Refresher] = "idle" /\ at' = [at EXCEPT ![Refresher] = "enter"]
        /\ force' = [force EXCEPT ![Refresher] = FALSE]
        /\ UNCHANGED <<exists, loaded, todo, armed, events, up>>
    BY <1>4 DEF Signal, Goto, Set, registry, config, zk
  <2>2. (\A x : Queued(x)' <=> Queued(x)) /\ (Renewal => Renewal')
    <3>1. \A s \in Threads : at[s] = "init" => at'[s] = "init"
      BY <1>t, <2>1
    <3> QED
      BY <2>1, <3>1 DEF Queued, Renewal
  <2>3. \A s \in Threads : at[s] \in {"enter", "config"} => at'[s] = at[s] /\ force'[s] = force[s]
    BY <1>t, <2>1
  <2>4. \A g \in Groups, s \in Threads : Coming(s, g) => Coming(s, g)'
    BY <2>1, <2>3 DEF Coming
  <2>5. WatchKept'
    BY <2>1, <2>2, <2>4, WatchKeptIf
  <2>6. \A s \in Threads : at'[s] \in {"idle", "init", "enter", "config"} => todo'[s] = {}
    BY <1>t, <2>1
  <2> QED
    BY <2>1, <2>2, <2>5, <2>6
<1> QED
  BY <1>1, <1>2, <1>3, <1>4

\* While the registry answers, no declared group is ever lost sight of: at every moment
\* there is a watch on its children or a read of them, which sets one, is still to come.  It
\* holds when the registry changes in the middle of a refresh, when several threads refresh
\* and handle events at once, and across the end of any number of sessions.
THEOREM WatchesAreKept == ASSUME RegistryAnswers PROVE Spec => []WatchKept
<1>1. Init => WatchInv
  <2> SUFFICES ASSUME Init PROVE WatchInv
    OBVIOUS
  <2>1. exists = Groups /\ up /\ (\A t \in Threads : todo[t] = {})
    BY DEF Init, RegistryAnswers
  <2>2. WatchKept
    BY DEF Init, WatchKept, DeclaredGroups
  <2> QED
    BY <2>1, <2>2 DEF WatchInv
<1>2. IInv /\ IInv' /\ WatchInv /\ [Next]_vars => WatchInv'
  <2> SUFFICES ASSUME IInv, IInv', WatchInv, [Next]_vars PROVE WatchInv'
    OBVIOUS
  <2>1. TypeOK /\ TypeOK'
    BY DEF IInv
  <2>2. CASE Next
    BY <2>1, <2>2, ThreadWatches, CompletionWatches, EnvironmentWatches DEF Next
  <2>3. CASE UNCHANGED vars
    BY <2>3 DEF vars, registry, zk, config, tables, locals, diff, WatchInv, Queued, Renewal, WatchKept,
       WillRead, DeclaredGroups
  <2> QED
    BY <2>2, <2>3
<1>3. WatchInv => WatchKept
  BY DEF WatchInv
<1> QED
  BY <1>1, <1>2, <1>3, Invariance, PTL DEF Spec
=============================================================================
