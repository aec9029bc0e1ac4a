------------------------------ MODULE Discovery ------------------------------
(***************************************************************************)
(* How the agent learns which providers there are: soaagent/invoke_stub.c   *)
(* (watch_declared_services, my_zk_watcher_marshal,                         *)
(* children_change_func_impl), soaagent/service_conf.c (the filters, the    *)
(* mapping, the diff) and get_children of soaagent/zk_handle.c.             *)
(*                                                                          *)
(* Thread 0 is the one that refreshes: main during start-up, the signal     *)
(* thread on SIGUSR2 afterwards.  Thread k > 0 is the completion thread of  *)
(* the k-th ZooKeeper session, which runs my_zk_watcher_marshal for the     *)
(* events of that session, one at a time.  The thread that handles the end  *)
(* of session k declares the services again itself, while the thread of the *)
(* new session already handles the events of that one.  The same function   *)
(* is the watcher of the handle and of each watch, and the client library   *)
(* calls it once for each when a session ends: the first call opens a new   *)
(* session, and each of the others closes it and opens one more.            *)
(*                                                                          *)
(* A child is a node under /<group>/providers; its name says which services *)
(* a host and port offers.  An entry is one of these, a service at a host   *)
(* and port.  A name that does not parse offers nothing.  The arrays of     *)
(* register_info are searched and never indexed, and each add skips what is *)
(* there: they are sets, and NULL is the empty one, from which              *)
(* diff_register_info computes the same.                                    *)
(*                                                                          *)
(* A change_context is only known by its group; `armed' counts the ones     *)
(* that have a watch.  Every refresh adds a context per group, so that one  *)
(* change of a group may be followed by several events.                     *)
(*                                                                          *)
(* notify_change is one step here; ResourceMgt has its parts.               *)
(***************************************************************************)
EXTENDS Integers, Sequences, FiniteSets

CONSTANTS
    Groups, Services, Children, Entries,
    GroupOf,           \* the group of a service
    ServiceOf,         \* the service of an entry
    Under,             \* the group a child is registered under
    Offers,            \* the entries in a child's name
    Declares,          \* the successive contents of declares.json: sets of services
    Malformed,         \* the content that does not parse
    Expired,           \* the event of a session that expired
    NoGroup,
    FreshGroups,       \* groups no provider ever registered in when the agent starts
    LongGroups,        \* groups whose provider key does not fit PROVIDER_KEY_LEN
    MayOverlap,        \* the registry may change while a refresh is behind a read
    MayEditInRefresh,  \* declares.json may be edited during a refresh
    ReadsMayFail,      \* a read of a live session may fail (connection loss, timeout)
    ReinitMayFail,     \* init_zk_handle may fail after the session expired
    MaxChanges,        \* bound: changes of the registry
    MaxRefreshes,      \* bound: SIGUSR2 signals
    MaxSessions        \* bound: sessions; one does not expire if that would take more

Versions == 1..Len(Declares)

ASSUME DiscoveryConfig ==
    /\ GroupOf \in [Services -> Groups] /\ ServiceOf \in [Entries -> Services]
    /\ Under \in [Children -> Groups] /\ Offers \in [Children -> SUBSET Entries]
    /\ \A c \in Children : \A e \in Offers[c] : GroupOf[ServiceOf[e]] = Under[c]
    /\ Expired \notin Groups /\ NoGroup \notin Groups
    /\ Len(Declares) \in Nat \ {0} /\ Declares[1] # Malformed
    /\ \A v \in Versions : Declares[v] = Malformed \/ Declares[v] \in SUBSET Services
    /\ FreshGroups \subseteq Groups /\ LongGroups \subseteq Groups
    /\ {MayOverlap, MayEditInRefresh, ReadsMayFail, ReinitMayFail} \subseteq BOOLEAN
    /\ MaxChanges \in Nat /\ MaxRefreshes \in Nat
    /\ MaxSessions \in Nat \ {0}

Sessions == 1..MaxSessions
Threads == 0..MaxSessions
Refresher == 0
Nobody == -1     \* an unlocked mutex

VARIABLES
    children,    \* the children of each group in the registry
    exists,      \* groups whose node exists in the registry
    session,     \* the session of zk_h
    up,          \* whether it is alive
    armed,       \* contexts with a watch on the group, for each group
    events,      \* what each session's completion thread has to handle
    file,        \* version of declares.json, which is also its modification time
    seen,        \* global_config_file_last_modified
    loaded,      \* the version read last
    inited,      \* g_inited
    filters,     \* service_filters
    mapping,     \* register_mapping
    routes,      \* the entries in the resource tables
    watchLock, modifyLock,
    at,          \* where each thread is
    force,       \* force_refresh
    todo,        \* groups it still has to read
    group,       \* the group it read
    snapshot,    \* the children it read
    remote, deleted, added,   \* locals of children_change_func_impl, under modifyLock
    changes, refreshes        \* counted for the bounds

registry == <<children, exists, changes>>
zk == <<session, up, armed, events>>
config == <<file, seen, loaded, inited>>
tables == <<filters, mapping, routes>>
locals == <<force, todo, group, snapshot>>
diff == <<remote, deleted, added>>
vars == <<registry, zk, config, tables, watchLock, modifyLock, at, locals, diff, refreshes>>

Goto(t, p) == at' = [at EXCEPT ![t] = p]
Set(f, t, v) == [f EXCEPT ![t] = v]
InGroup(e, g) == GroupOf[ServiceOf[e]] = g

-----------------------------------------------------------------------------
(***************************************************************************)
(* watch_declared_services.                                                 *)
(***************************************************************************)

\* Mutant: returns with the lock held.
NotChangedKeepsLock(t) ==
    /\ at[t] = "enter" /\ watchLock = Nobody
    /\ ~force[t] /\ file = seen
    /\ watchLock' = t
    /\ Goto(t, "idle")
    /\ UNCHANGED <<registry, zk, config, tables, modifyLock, locals, diff, refreshes>>

\* The modification time is the one seen last: nothing to do.
NotChanged(t) ==
    /\ at[t] = "enter" /\ watchLock = Nobody
    /\ ~force[t] /\ file = seen
    /\ Goto(t, "idle")
    /\ UNCHANGED <<registry, zk, config, tables, watchLock, modifyLock, locals, diff, refreshes>>

EnterRefresh(t) ==
    /\ at[t] = "enter" /\ watchLock = Nobody
    /\ force[t] \/ file # seen
    /\ watchLock' = t
    /\ Goto(t, "config")
    /\ UNCHANGED <<registry, zk, config, tables, modifyLock, locals, diff, refreshes>>

\* read_content_from_file, cJSON_Parse, and the loop that adds to the filters.
ReadConfig(t) ==
    /\ at[t] = "config"
    /\ \/ /\ Declares[file] # Malformed
          /\ loaded' = file
          /\ filters' = filters \cup Declares[file]
          /\ todo' = Set(todo, t, {GroupOf[s] : s \in Declares[file]})
          /\ Goto(t, "watch")
          /\ UNCHANGED watchLock
       \/ /\ Declares[file] = Malformed
          /\ watchLock' = Nobody
          /\ Goto(t, "idle")
          /\ UNCHANGED <<loaded, filters, todo>>
    /\ UNCHANGED <<registry, zk, file, seen, inited, mapping, routes, modifyLock, force, group,
                   snapshot, diff, refreshes>>

\* After the last group: the modification time is read once more and kept.
SaveModified(t) ==
    /\ at[t] = "watch" /\ todo[t] = {} /\ watchLock = t
    /\ seen' = file
    /\ inited' = (inited \/ t = Refresher)
    /\ watchLock' = Nobody
    /\ Goto(t, "idle")
    /\ UNCHANGED <<registry, zk, file, loaded, tables, modifyLock, locals, diff, refreshes>>

-----------------------------------------------------------------------------
(***************************************************************************)
(* get_children with its watch, for watch_group_change and for a child      *)
(* event.  The children and the watch come from one request.  When it fails *)
(* there is no watch, and both callers ignore the result.  A node that does *)
(* not exist is such a failure.                                             *)
(***************************************************************************)

\* Mutant: a child event reads the children without a watch.
GetChildrenNoRewatch(t, g) ==
    /\ at[t] = "watch" /\ g \in todo[t]
    /\ up /\ g \in exists
    /\ armed' = IF watchLock = t THEN [armed EXCEPT ![g] = @ + 1] ELSE armed
    /\ todo' = Set(todo, t, todo[t] \ {g})
    /\ group' = Set(group, t, g)
    /\ snapshot' = Set(snapshot, t, children[g])
    /\ Goto(t, "apply")
    /\ UNCHANGED <<registry, session, up, events, config, tables, watchLock, modifyLock, force,
                   diff, refreshes>>

GetChildren(t, g) ==
    /\ at[t] = "watch" /\ g \in todo[t]
    /\ up /\ g \in exists
    /\ armed' = [armed EXCEPT ![g] = @ + 1]
    /\ todo' = Set(todo, t, todo[t] \ {g})
    /\ group' = Set(group, t, g)
    /\ snapshot' = Set(snapshot, t, children[g])
    /\ Goto(t, "apply")
    /\ UNCHANGED <<registry, session, up, events, config, tables, watchLock, modifyLock, force,
                   diff, refreshes>>

GetChildrenFails(t, g) ==
    /\ at[t] = "watch" /\ g \in todo[t]
    /\ ReadsMayFail \/ ~up \/ g \notin exists
    /\ todo' = Set(todo, t, todo[t] \ {g})
    /\ UNCHANGED <<registry, zk, config, tables, watchLock, modifyLock, at, force, group,
                   snapshot, diff, refreshes>>

-----------------------------------------------------------------------------
(***************************************************************************)
(* children_change_func_impl, under the modify lock.                        *)
(***************************************************************************)

\* parse_node_register_info over the children: what the filters let through.
Parse(names, declared) == {e \in UNION {Offers[c] : c \in names} : ServiceOf[e] \in declared}

\* register_mapping_find.  A provider key that was truncated when it was stored is not
\* found: the array is NULL.
RegisterMappingFind(g) == IF g \in LongGroups THEN {} ELSE mapping[g]

\* Mutant: nothing is deleted when the group has become empty.
FindDeletedUnlessEmpty(left, right) == IF right = {} THEN {} ELSE left \ right

\* diff_register_info, status -1 and status 1.
FindDeleted(left, right) == left \ right
FindAdded(left, right) == right \ left

BeginChange(t) ==
    /\ at[t] = "apply" /\ modifyLock = Nobody
    /\ modifyLock' = t
    /\ LET parsed == Parse(snapshot[t], filters)
           local == RegisterMappingFind(group[t])
       IN /\ remote' = parsed
          /\ deleted' = FindDeleted(local, parsed)
          /\ added' = FindAdded(local, parsed)
    /\ Goto(t, "notify")
    /\ UNCHANGED <<registry, zk, config, tables, watchLock, locals, refreshes>>

\* notify_change, the deletions first.
NotifyDelete(t, e) ==
    /\ at[t] = "notify" /\ e \in deleted
    /\ routes' = routes \ {e}
    /\ deleted' = deleted \ {e}
    /\ UNCHANGED <<registry, zk, config, filters, mapping, watchLock, modifyLock, at, locals,
                   remote, added, refreshes>>

NotifyAdd(t, e) ==
    /\ at[t] = "notify" /\ deleted = {} /\ e \in added
    /\ routes' = routes \cup {e}
    /\ added' = added \ {e}
    /\ UNCHANGED <<registry, zk, config, filters, mapping, watchLock, modifyLock, at, locals,
                   remote, deleted, refreshes>>

\* register_mapping_put and the unlock.
EndChange(t) ==
    /\ at[t] = "notify" /\ deleted = {} /\ added = {}
    /\ mapping' = [mapping EXCEPT ![group[t]] = remote]
    /\ remote' = {}
    /\ snapshot' = Set(snapshot, t, {}) /\ group' = Set(group, t, NoGroup)
    /\ modifyLock' = Nobody
    /\ Goto(t, "watch")
    /\ UNCHANGED <<registry, zk, config, filters, routes, watchLock, force, todo, deleted,
                   added, refreshes>>

-----------------------------------------------------------------------------
(***************************************************************************)
(* my_zk_watcher_marshal, by the completion thread of session k.            *)
(***************************************************************************)
ChildEvent(k) ==
    /\ at[k] = "idle" /\ events[k] # <<>> /\ Head(events[k]) # Expired
    /\ todo' = Set(todo, k, {Head(events[k])})
    /\ events' = Set(events, k, Tail(events[k]))
    /\ Goto(k, "watch")
    /\ UNCHANGED <<registry, session, up, armed, config, tables, watchLock, modifyLock, force,
                   group, snapshot, diff, refreshes>>

ChildEventDone(k) ==
    /\ at[k] = "watch" /\ todo[k] = {} /\ watchLock # k
    /\ Goto(k, "idle")
    /\ UNCHANGED <<registry, zk, config, tables, watchLock, modifyLock, locals, diff, refreshes>>

\* fini_zk_handle closes the handle there is, which at the second event of an expiry is a
\* live one, with its watches and whatever its thread has still to do.  Two threads that close
\* the handle at the same time are left out: there is no lock on it.
CloseSession(k) ==
    /\ at[k] = "idle" /\ events[k] # <<>> /\ Head(events[k]) = Expired
    /\ \A j \in Sessions : at[j] # "init"
    /\ up' = FALSE /\ armed' = [g \in Groups |-> 0]
    /\ events' = [j \in Sessions |-> IF j = k THEN Tail(events[k])
                                    ELSE IF j = session THEN <<>> ELSE events[j]]
    /\ Goto(k, "init")
    /\ UNCHANGED <<registry, session, config, tables, watchLock, modifyLock, locals, diff,
                   refreshes>>

\* zookeeper_close has come back: it joins the completion thread of the session, if that is
\* not the caller, so a callback there ends first.
Closed(k) == at[k] = "init" /\ (session = k \/ at[session] = "idle")

\* init_zk_handle and watch_declared_services(path, forced).
NewSession(k, forced) ==
    /\ Closed(k) /\ session < MaxSessions
    /\ session' = session + 1 /\ up' = TRUE
    /\ force' = Set(force, k, forced)
    /\ Goto(k, "enter")
    /\ UNCHANGED <<registry, armed, events, config, tables, watchLock, modifyLock, todo, group,
                   snapshot, diff, refreshes>>

\* Mutant: the services are not declared again when the file is the same.
SessionExpiredUnforced(k) == NewSession(k, FALSE)

SessionExpired(k) == NewSession(k, TRUE)

\* init_zk_handle fails, which is only logged: there is no handle (zookeeper_init), or one
\* that had not connected in time (exist_node) and may do so later.
ReinitFails(k) ==
    /\ ReinitMayFail
    /\ Closed(k) /\ session < MaxSessions
    /\ Goto(k, "idle")
    /\ \/ UNCHANGED <<session, up>>
       \/ session' = session + 1 /\ up' = TRUE
    /\ UNCHANGED <<registry, armed, events, config, tables, watchLock, modifyLock, locals, diff,
                   refreshes>>

-----------------------------------------------------------------------------
(***************************************************************************)
(* ZooKeeper: a change of a group's children fires the watches on it, each  *)
(* once.  The client library calls the watcher of the handle and every      *)
(* watcher that is set with the end of a session, and the watches end too.  *)
(***************************************************************************)
Fire(g) ==
    IF up
      THEN /\ events' = [events EXCEPT ![session] = @ \o [i \in 1..armed[g] |-> g]]
           /\ armed' = [armed EXCEPT ![g] = 0]
      ELSE UNCHANGED <<events, armed>>

\* A thread other than the one that handles the events of this session has read the
\* group's children and not applied them yet.
Behind(g) ==
    \E t \in Threads \ {session} : at[t] \in {"apply", "notify"} /\ group[t] = g

Change(c, names) ==
    /\ changes < MaxChanges
    /\ MayOverlap \/ ~Behind(Under[c])
    /\ children' = [children EXCEPT ![Under[c]] = names]
    /\ exists' = exists \cup {Under[c]}
    /\ changes' = changes + 1
    /\ Fire(Under[c])
    /\ UNCHANGED <<session, up, config, tables, watchLock, modifyLock, at, locals, diff, refreshes>>

Register(c) == c \notin children[Under[c]] /\ Change(c, children[Under[c]] \cup {c})

Leave(c) == c \in children[Under[c]] /\ Change(c, children[Under[c]] \ {c})

Watches == Cardinality(UNION {{g} \X (1..armed[g]) : g \in Groups})

\* Sessions that the events in the queues are going to open.
Replacements ==
    Cardinality({k \in Sessions : at[k] = "init"})
      + Cardinality(UNION {{k} \X {i \in DOMAIN events[k] : events[k][i] = Expired} :
                            k \in Sessions})

Expire ==
    /\ up
    /\ \E n \in 1..(MaxSessions - session - Replacements) :
         /\ n = 1 + Watches
         /\ events' = [events EXCEPT ![session] = @ \o [i \in 1..n |-> Expired]]
    /\ up' = FALSE
    /\ armed' = [g \in Groups |-> 0]
    /\ UNCHANGED <<registry, session, config, tables, watchLock, modifyLock, at, locals, diff,
                   refreshes>>

(***************************************************************************)
(* The operator edits declares.json, and sends SIGUSR2.                     *)
(***************************************************************************)
Edit ==
    /\ inited /\ file < Len(Declares)
    /\ MayEditInRefresh \/ watchLock = Nobody
    /\ file' = file + 1
    /\ UNCHANGED <<registry, zk, seen, loaded, inited, tables, watchLock, modifyLock, at, locals,
                   diff, refreshes>>

Signal ==
    /\ inited /\ at[Refresher] = "idle"
    /\ refreshes < MaxRefreshes
    /\ refreshes' = refreshes + 1
    /\ force' = Set(force, Refresher, FALSE)
    /\ Goto(Refresher, "enter")
    /\ UNCHANGED <<registry, zk, config, tables, watchLock, modifyLock, todo, group, snapshot, diff>>

-----------------------------------------------------------------------------
Init ==
    /\ children \in [Groups -> SUBSET Children]
    /\ \A g \in Groups : \A c \in children[g] : Under[c] = g /\ g \notin FreshGroups
    /\ exists = Groups \ FreshGroups
    /\ session = 1 /\ up = TRUE
    /\ armed = [g \in Groups |-> 0] /\ events = [k \in Sessions |-> <<>>]
    /\ file = 1 /\ seen = 0 /\ loaded = 0 /\ inited = FALSE
    /\ filters = {} /\ mapping = [g \in Groups |-> {}] /\ routes = {}
    /\ watchLock = Nobody /\ modifyLock = Nobody
    /\ at = [t \in Threads |-> IF t = Refresher THEN "enter" ELSE "idle"]
    /\ force = [t \in Threads |-> t = Refresher]
    /\ todo = [t \in Threads |-> {}]
    /\ group = [t \in Threads |-> NoGroup]
    /\ snapshot = [t \in Threads |-> {}]
    /\ remote = {} /\ deleted = {} /\ added = {}
    /\ changes = 0 /\ refreshes = 0

ThreadNext(t) ==
    \/ NotChanged(t) \/ EnterRefresh(t) \/ ReadConfig(t) \/ SaveModified(t)
    \/ \E g \in Groups : GetChildren(t, g) \/ GetChildrenFails(t, g)
    \/ BeginChange(t)
    \/ \E e \in Entries : NotifyDelete(t, e) \/ NotifyAdd(t, e)
    \/ EndChange(t)

CompletionNext(k) ==
    ChildEvent(k) \/ ChildEventDone(k) \/ CloseSession(k) \/ SessionExpired(k) \/ ReinitFails(k)

Next ==
    \/ \E t \in Threads : ThreadNext(t)
    \/ \E k \in Sessions : CompletionNext(k)
    \/ \E c \in Children : Register(c) \/ Leave(c)
    \/ Expire \/ Edit \/ Signal

Spec == Init /\ [][Next]_vars

\* A thread that has something to do and is not kept waiting for a lock goes on.
FairSpec ==
    /\ Spec
    /\ \A t \in Threads : WF_vars(ThreadNext(t))
    /\ \A k \in Sessions : WF_vars(CompletionNext(k))

-----------------------------------------------------------------------------
(***************************************************************************)
(* Properties.                                                              *)
(***************************************************************************)
Places == {"idle", "init", "enter", "config", "watch", "apply", "notify"}

\* Every variable has its type, and a thread has a lock exactly where the code does: the watch
\* lock from the check of the file to the end of a refresh (every early return unlocks it),
\* the modify lock while it applies a change.
TypeOK ==
    /\ children \in [Groups -> SUBSET Children] /\ exists \in SUBSET Groups
    /\ session \in Sessions /\ up \in BOOLEAN
    /\ armed \in [Groups -> Nat] /\ events \in [Sessions -> Seq(Groups \cup {Expired})]
    /\ file \in Versions /\ seen \in Versions \cup {0} /\ loaded \in Versions \cup {0}
    /\ inited \in BOOLEAN
    /\ filters \in SUBSET Services
    /\ mapping \in [Groups -> SUBSET Entries] /\ routes \in SUBSET Entries
    /\ watchLock \in Threads \cup {Nobody} /\ modifyLock \in Threads \cup {Nobody}
    /\ at \in [Threads -> Places] /\ force \in [Threads -> BOOLEAN]
    /\ todo \in [Threads -> SUBSET Groups] /\ group \in [Threads -> Groups \cup {NoGroup}]
    /\ snapshot \in [Threads -> SUBSET Children]
    /\ remote \in SUBSET Entries /\ deleted \in SUBSET Entries /\ added \in SUBSET Entries
    /\ changes \in Nat /\ refreshes \in Nat
    /\ \A t \in Threads :
         /\ watchLock = t => at[t] \in {"config", "watch", "apply", "notify"}
         /\ at[t] = "config" => watchLock = t
         /\ modifyLock = t <=> at[t] = "notify"
         /\ group[t] \in Groups <=> at[t] \in {"apply", "notify"}

Routed(g) == {e \in routes : InGroup(e, g)}

\* Whenever no change is being applied, the resource tables hold for each group what the
\* mapping has and no more: what a thread adds and deletes from its diff never drifts from
\* what the next diff is made against, whatever the order in which several threads apply
\* theirs.  For a group whose key is truncated, the diff is made against nothing and
\* providers that left stay.
RoutesFollowMapping ==
    modifyLock = Nobody =>
      \A g \in Groups : /\ mapping[g] \subseteq Routed(g)
                        /\ g \notin LongGroups => Routed(g) = mapping[g]

DeclaredGroups == IF loaded = 0 THEN {} ELSE {GroupOf[s] : s \in Declares[loaded]}

\* Somebody is going to read group g, or to declare all services again.
WillRead(g) ==
    \/ \E t \in Threads : \/ g \in todo[t] \/ at[t] = "init"
                          \/ at[t] \in {"enter", "config"} /\ force[t]
    \/ \E k \in Sessions : \E i \in DOMAIN events[k] : events[k][i] \in {g, Expired}

\* Between the events there is no moment at which a declared group is lost sight of: it has
\* a watch, or a read of it that will set one is still to come.
WatchKept == \A g \in DeclaredGroups : armed[g] > 0 \/ WillRead(g)

\* The tables agree with the registry on the declared groups.
Converged ==
    /\ inited
    /\ \A g \in DeclaredGroups : Routed(g) = Parse(children[g], filters)

\* Once the registry stops changing, the agent routes to the providers that are
\* registered and to no others, and keeps doing so.
Convergence == <>[]Converged
=============================================================================
