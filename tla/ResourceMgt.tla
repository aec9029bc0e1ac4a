----------------------------- MODULE ResourceMgt -----------------------------
(***************************************************************************)
(* soaagent/resource_mgt.c: the table of services (each with the keys of    *)
(* the nodes that provide it) and the table of nodes (each with its pool),  *)
(* as they are changed by the threads that apply a registry change and read *)
(* by the workers in invoke_service.                                        *)
(*                                                                          *)
(* Changes are made one at a time, under global_modify_resource_lock, but   *)
(* in several steps: each section under service_pool_lock or                *)
(* nodes_pool_lock is one step.  The workers take only those two locks, one *)
(* section at a time, and keep bare pointers (to the service, to a key      *)
(* inside its array, to the node) from one section to the next.  Objects    *)
(* are addresses that malloc hands out again after free; `dangling' holds   *)
(* the workers whose pointer is to memory that was freed since they got it. *)
(* What the process does after such a pointer is used is not modelled: the  *)
(* worker stops in "undefined".                                             *)
(*                                                                          *)
(* string_array_next walks the array round robin (StrArray); here it        *)
(* returns any element, which covers every position of its counter.  A pool *)
(* is reduced to the workers that hold one of its connections (ConnPool has *)
(* the rest).                                                               *)
(***************************************************************************)
CONSTANTS
    Services,   \* group#service#version
    Keys,       \* host:port
    Items,      \* addresses of service_resource objects
    Nodes,      \* addresses of node_resource objects
    Workers,    \* threads that run invoke_service
    Writers,    \* threads that apply registry changes
    Nil

ASSUME NilIsNoAddress ==
    Nil \notin Services \cup Keys \cup Items \cup Nodes \cup Writers

VARIABLES
    modify,     \* the thread in global_modify_resource_lock, or Nil
    wpc, wsrv, wkey, wobj,        \* a writer's place, its arguments, its pointer
    servTbl, itemKey, arr,        \* services_resource_pool, service_key, node_key_array
    nodeTbl, nodeKey,             \* nodes_resource_pool, node_key
    retiring,                     \* nodes whose pool_destroy_thd_func runs
    emptied,                      \* nodes whose pool was emptied and unlocked, but not freed yet
    users,                        \* workers with a connection of the node's pool
    ipc, iitem, ikey, inode,      \* a worker's place and its pointers
    late,                         \* history: workers with a connection of an emptied pool
    dangling

writer == <<wpc, wsrv, wkey, wobj>>
services == <<servTbl, itemKey, arr>>
nodes == <<nodeTbl, nodeKey, retiring, emptied>>
invoker == <<ipc, iitem, ikey, inode, late>>
vars == <<modify, writer, services, nodes, users, invoker, dangling>>

ItemsOf(s) == {i \in servTbl : itemKey[i] = s}
NodesOf(k) == {n \in nodeTbl : nodeKey[n] = k}
Listed(k) == \E i \in servTbl : k \in arr[i]

Goto(t, pc) == wpc' = [wpc EXCEPT ![t] = pc]
Point(t, p) == wobj' = [wobj EXCEPT ![t] = p]

\* The last step of notify_change: children_change_func_impl leaves its lock.
Finish(t) == Goto(t, "idle") /\ modify' = Nil

-----------------------------------------------------------------------------
(***************************************************************************)
(* children_change_func_impl: take the lock and apply one change.           *)
(***************************************************************************)

\* Mutant: without modify_resource_lock().
StartUnlocked(t, s, k, pc) ==
    /\ wpc[t] = "idle"
    /\ modify' = t
    /\ wsrv' = [wsrv EXCEPT ![t] = s] /\ wkey' = [wkey EXCEPT ![t] = k]
    /\ Goto(t, pc)
    /\ UNCHANGED <<wobj, services, nodes, users, invoker, dangling>>

Start(t, s, k, pc) ==
    /\ wpc[t] = "idle" /\ modify = Nil
    /\ modify' = t
    /\ wsrv' = [wsrv EXCEPT ![t] = s] /\ wkey' = [wkey EXCEPT ![t] = k]
    /\ Goto(t, pc)
    /\ UNCHANGED <<wobj, services, nodes, users, invoker, dangling>>

\* Mutant: the service is added before the node.
StartAddServiceFirst(t, s, k) == Start(t, s, k, "find_service_to_add")

StartAdd(t, s, k) == Start(t, s, k, "find_node_to_add")

StartDelete(t, s, k) == Start(t, s, k, "find_service_to_delete")

(***************************************************************************)
(* resource_add: node_resource_add, then service_resource_add.              *)
(***************************************************************************)
FindNodeToAdd(t) ==
    /\ wpc[t] = "find_node_to_add"
    /\ \/ /\ NodesOf(wkey[t]) # {}
          /\ Goto(t, "find_service_to_add")
          /\ UNCHANGED <<nodeKey, wobj>>
       \/ /\ NodesOf(wkey[t]) = {}
          /\ \E n \in Nodes :
               /\ nodeKey[n] = Nil
               /\ nodeKey' = [nodeKey EXCEPT ![n] = wkey[t]]
               /\ Point(t, n)
          /\ Goto(t, "add_node")
    /\ UNCHANGED <<modify, wsrv, wkey, services, nodeTbl, retiring, emptied, users, invoker,
                   dangling>>

AddNode(t) ==
    /\ wpc[t] = "add_node"
    /\ nodeTbl' = nodeTbl \cup {wobj[t]}
    /\ Point(t, Nil)
    /\ Goto(t, "find_service_to_add")
    /\ UNCHANGED <<modify, wsrv, wkey, services, nodeKey, retiring, emptied, users, invoker,
                   dangling>>

FindServiceToAdd(t) ==
    /\ wpc[t] = "find_service_to_add"
    /\ \/ /\ \E i \in ItemsOf(wsrv[t]) : Point(t, i)
          /\ Goto(t, "append_key")
          /\ UNCHANGED <<itemKey, arr>>
       \/ /\ ItemsOf(wsrv[t]) = {}
          /\ \E i \in Items :
               /\ itemKey[i] = Nil
               /\ itemKey' = [itemKey EXCEPT ![i] = wsrv[t]]
               /\ arr' = [arr EXCEPT ![i] = {wkey[t]}]
               /\ Point(t, i)
          /\ Goto(t, "add_service")
    /\ UNCHANGED <<modify, wsrv, wkey, servTbl, nodes, users, invoker, dangling>>

AppendKey(t) ==
    /\ wpc[t] = "append_key"
    /\ arr' = [arr EXCEPT ![wobj[t]] = @ \cup {wkey[t]}]
    /\ Point(t, Nil)
    /\ Finish(t)
    /\ UNCHANGED <<wsrv, wkey, servTbl, itemKey, nodes, users, invoker, dangling>>

AddService(t) ==
    /\ wpc[t] = "add_service"
    /\ servTbl' = servTbl \cup {wobj[t]}
    /\ Point(t, Nil)
    /\ Finish(t)
    /\ UNCHANGED <<wsrv, wkey, itemKey, arr, nodes, users, invoker, dangling>>

(***************************************************************************)
(* resource_delete: service_resource_delete, service_resource_pool_is_used, *)
(* node_resource_delete.                                                    *)
(***************************************************************************)
FindServiceToDelete(t) ==
    /\ wpc[t] = "find_service_to_delete"
    /\ \/ (\E i \in ItemsOf(wsrv[t]) : Point(t, i)) /\ Goto(t, "delete_key")
       \/ ItemsOf(wsrv[t]) = {} /\ Goto(t, "is_used") /\ UNCHANGED wobj
    /\ UNCHANGED <<modify, wsrv, wkey, services, nodes, users, invoker, dangling>>

\* Workers whose pointer is to item i, or to key k in its array.
PointersInto(i, k, itemToo) ==
    {w \in Workers : /\ iitem[w] = i
                     /\ \/ ipc[w] = "item" /\ itemToo
                        \/ ipc[w] = "key" /\ ikey[w] = k}

\* Mutant: service_resource_delete leaves the empty service in the table.
DeleteKeyKeepsService(t) ==
    /\ wpc[t] = "delete_key"
    /\ LET i == wobj[t] IN
         /\ arr' = [arr EXCEPT ![i] = @ \ {wkey[t]}]
         /\ UNCHANGED <<servTbl, itemKey>>
         /\ dangling' = dangling \cup PointersInto(i, wkey[t], FALSE)
    /\ Point(t, Nil)
    /\ Goto(t, "is_used")
    /\ UNCHANGED <<modify, wsrv, wkey, nodes, users, invoker>>

DeleteKey(t) ==
    /\ wpc[t] = "delete_key"
    /\ LET i == wobj[t]
           empty == arr[i] \ {wkey[t]} = {}
       IN /\ arr' = [arr EXCEPT ![i] = @ \ {wkey[t]}]
          /\ servTbl' = IF empty THEN servTbl \ {i} ELSE servTbl
          /\ itemKey' = IF empty THEN [itemKey EXCEPT ![i] = Nil] ELSE itemKey
          /\ dangling' = dangling \cup PointersInto(i, wkey[t], empty)
    /\ Point(t, Nil)
    /\ Goto(t, "is_used")
    /\ UNCHANGED <<modify, wsrv, wkey, nodes, users, invoker>>

\* Mutant: the node is kept when another service is looked up, whatever it lists.
IsUsedNeverDeletes(t) ==
    /\ wpc[t] = "is_used"
    /\ Finish(t)
    /\ UNCHANGED <<wsrv, wkey, wobj, services, nodes, users, invoker, dangling>>

IsUsed(t) ==
    /\ wpc[t] = "is_used"
    /\ \/ Listed(wkey[t]) /\ Finish(t)
       \/ ~Listed(wkey[t]) /\ Goto(t, "find_node_to_delete") /\ UNCHANGED modify
    /\ UNCHANGED <<wsrv, wkey, wobj, services, nodes, users, invoker, dangling>>

FindNodeToDelete(t) ==
    /\ wpc[t] = "find_node_to_delete"
    /\ \/ /\ \E n \in NodesOf(wkey[t]) : Point(t, n)
          /\ Goto(t, "delete_node")
          /\ UNCHANGED modify
       \/ /\ NodesOf(wkey[t]) = {}
          /\ Finish(t)
          /\ UNCHANGED wobj
    /\ UNCHANGED <<wsrv, wkey, services, nodes, users, invoker, dangling>>

DeleteNode(t) ==
    /\ wpc[t] = "delete_node"
    /\ nodeTbl' = nodeTbl \ {wobj[t]}
    /\ Goto(t, "spawn_destroyer")
    /\ UNCHANGED <<modify, wsrv, wkey, wobj, services, nodeKey, retiring, emptied, users, invoker,
                   dangling>>

\* pthread_create, which may fail: then the node is never freed.
SpawnDestroyer(t) ==
    /\ wpc[t] = "spawn_destroyer"
    /\ \/ retiring' = retiring \cup {wobj[t]}
       \/ UNCHANGED retiring
    /\ Point(t, Nil)
    /\ Finish(t)
    /\ UNCHANGED <<wsrv, wkey, services, nodeTbl, nodeKey, emptied, users, invoker, dangling>>

(***************************************************************************)
(* pool_destroy_thd_func for node n: pool_destroy empties the pool when no  *)
(* connection is used, or the thread gives up after its attempts.  The      *)
(* pool is unlocked before pool_destroy returns and the node is freed.      *)
(***************************************************************************)
Empty(n) ==
    /\ retiring' = retiring \ {n} /\ emptied' = emptied \cup {n}
    /\ UNCHANGED <<modify, writer, services, nodeTbl, nodeKey, users, invoker, dangling>>

\* Mutant: the pool is emptied although a connection is used.
DestroyPoolAnyway(n) == n \in retiring /\ Empty(n)

DestroyPool(n) == n \in retiring /\ users[n] = {} /\ Empty(n)

\* The mutex is destroyed and free(node): from here on the pointers of the workers dangle.
FreeNode(n) ==
    /\ n \in emptied
    /\ emptied' = emptied \ {n}
    /\ nodeKey' = [nodeKey EXCEPT ![n] = Nil] /\ users' = [users EXCEPT ![n] = {}]
    /\ dangling' = dangling \cup
         {w \in Workers : inode[w] = n /\ ipc[w] \in {"node", "working", "log"}}
    /\ UNCHANGED <<modify, writer, services, nodeTbl, retiring, invoker>>

DestroyGivesUp(n) ==
    /\ n \in retiring
    /\ users[n] # {}
    /\ retiring' = retiring \ {n}
    /\ UNCHANGED <<modify, writer, services, nodeTbl, nodeKey, emptied, users, invoker, dangling>>

-----------------------------------------------------------------------------
(***************************************************************************)
(* invoke_service, up to the use of the connection and its release.         *)
(***************************************************************************)
Move(w, pc) == ipc' = [ipc EXCEPT ![w] = pc]

\* A pointer to freed memory is followed.
Undefined(w) ==
    /\ w \in dangling
    /\ Move(w, "undefined")
    /\ UNCHANGED <<iitem, ikey, inode, late, users>>

\* service_resource_get: the section that finds the service.
GetService(w, s) ==
    /\ ipc[w] = "out"
    /\ \/ /\ \E i \in ItemsOf(s) : iitem' = [iitem EXCEPT ![w] = i]
          /\ Move(w, "item")
       \/ ItemsOf(s) = {} /\ UNCHANGED <<ipc, iitem>>
    /\ UNCHANGED <<modify, writer, services, nodes, users, ikey, inode, late, dangling>>

\* The section of service_resource_require_node_key that picks a key.
NextKey(w) ==
    /\ ipc[w] = "item"
    /\ \/ Undefined(w)
       \/ /\ w \notin dangling
          /\ \E k \in arr[iitem[w]] : ikey' = [ikey EXCEPT ![w] = k]
          /\ Move(w, "key")
          /\ UNCHANGED <<iitem, inode, late, users>>
    /\ UNCHANGED <<modify, writer, services, nodes, dangling>>

\* snprintf of the key, after the lock was left.
CopyKey(w) ==
    /\ ipc[w] = "key"
    /\ \/ Undefined(w)
       \/ /\ w \notin dangling
          /\ iitem' = [iitem EXCEPT ![w] = Nil]
          /\ Move(w, "copied")
          /\ UNCHANGED <<ikey, inode, late, users>>
    /\ UNCHANGED <<modify, writer, services, nodes, dangling>>

\* node_resource_get_by_key; not found: invoke_service fails.
GetNode(w) ==
    /\ ipc[w] = "copied"
    /\ \/ /\ \E n \in NodesOf(ikey[w]) : inode' = [inode EXCEPT ![w] = n]
          /\ Move(w, "node")
       \/ /\ NodesOf(ikey[w]) = {}
          /\ Move(w, "out")
          /\ UNCHANGED inode
    /\ ikey' = [ikey EXCEPT ![w] = Nil]
    /\ UNCHANGED <<modify, writer, services, nodes, users, iitem, late, dangling>>

\* pool_require_connection(&node->pool): a connection, or NULL and a last look at the
\* pool's host for the log.  The pool may be emptied already.
RequireConnection(w) ==
    /\ ipc[w] = "node"
    /\ \/ Undefined(w)
       \/ /\ w \notin dangling
          /\ users' = [users EXCEPT ![inode[w]] = @ \cup {w}]
          /\ late' = IF inode[w] \in emptied THEN late \cup {w} ELSE late
          /\ Move(w, "working")
          /\ UNCHANGED <<iitem, ikey, inode>>
       \/ /\ w \notin dangling
          /\ Move(w, "log")
          /\ UNCHANGED <<iitem, ikey, inode, late, users>>
    /\ UNCHANGED <<modify, writer, services, nodes, dangling>>

\* pool_release_connection(&node->pool, conn, 1): the section under the pool's lock.
ReleaseConnection(w) ==
    /\ ipc[w] = "working"
    /\ \/ Undefined(w)
       \/ /\ w \notin dangling
          /\ users' = [users EXCEPT ![inode[w]] = @ \ {w}]
          /\ late' = late \ {w}
          /\ Move(w, "log")
          /\ UNCHANGED <<iitem, ikey, inode>>
    /\ UNCHANGED <<modify, writer, services, nodes, dangling>>

\* pool->host and pool->port are read for the log after the lock was left.
LogPool(w) ==
    /\ ipc[w] = "log"
    /\ \/ Undefined(w)
       \/ /\ w \notin dangling
          /\ inode' = [inode EXCEPT ![w] = Nil]
          /\ Move(w, "out")
          /\ UNCHANGED <<iitem, ikey, late, users>>
    /\ UNCHANGED <<modify, writer, services, nodes, dangling>>

-----------------------------------------------------------------------------
Init ==
    /\ modify = Nil
    /\ wpc = [t \in Writers |-> "idle"]
    /\ wsrv = [t \in Writers |-> Nil] /\ wkey = [t \in Writers |-> Nil]
    /\ wobj = [t \in Writers |-> Nil]
    /\ servTbl = {} /\ itemKey = [i \in Items |-> Nil] /\ arr = [i \in Items |-> {}]
    /\ nodeTbl = {} /\ nodeKey = [n \in Nodes |-> Nil] /\ retiring = {} /\ emptied = {}
    /\ users = [n \in Nodes |-> {}]
    /\ ipc = [w \in Workers |-> "out"] /\ iitem = [w \in Workers |-> Nil]
    /\ ikey = [w \in Workers |-> Nil] /\ inode = [w \in Workers |-> Nil]
    /\ late = {} /\ dangling = {}

WriterNext(t) ==
    \/ \E s \in Services, k \in Keys : StartAdd(t, s, k) \/ StartDelete(t, s, k)
    \/ FindNodeToAdd(t) \/ AddNode(t)
    \/ FindServiceToAdd(t) \/ AppendKey(t) \/ AddService(t)
    \/ FindServiceToDelete(t) \/ DeleteKey(t) \/ IsUsed(t)
    \/ FindNodeToDelete(t) \/ DeleteNode(t) \/ SpawnDestroyer(t)

WorkerNext(w) ==
    \/ \E s \in Services : GetService(w, s)
    \/ NextKey(w) \/ CopyKey(w) \/ GetNode(w)
    \/ RequireConnection(w) \/ ReleaseConnection(w) \/ LogPool(w)

Next ==
    \/ \E t \in Writers : WriterNext(t)
    \/ \E n \in Nodes : DestroyPool(n) \/ FreeNode(n) \/ DestroyGivesUp(n)
    \/ \E w \in Workers : WorkerNext(w)

Spec == Init /\ [][Next]_vars

-----------------------------------------------------------------------------
(***************************************************************************)
(* Properties.                                                              *)
(***************************************************************************)
AddingPcs == {"find_node_to_add", "add_node", "find_service_to_add", "append_key", "add_service"}
DeletingPcs == {"find_service_to_delete", "delete_key", "is_used", "find_node_to_delete",
                "delete_node", "spawn_destroyer"}

\* Every variable has its type, and a pointer that is about to be followed is not NULL.
TypeOK ==
    /\ modify \in Writers \cup {Nil}
    /\ wpc \in [Writers -> {"idle"} \cup AddingPcs \cup DeletingPcs]
    /\ wsrv \in [Writers -> Services \cup {Nil}]
    /\ wkey \in [Writers -> Keys \cup {Nil}]
    /\ wobj \in [Writers -> Items \cup Nodes \cup {Nil}]
    /\ servTbl \in SUBSET Items
    /\ itemKey \in [Items -> Services \cup {Nil}]
    /\ arr \in [Items -> SUBSET Keys]
    /\ nodeTbl \in SUBSET Nodes
    /\ nodeKey \in [Nodes -> Keys \cup {Nil}]
    /\ retiring \in SUBSET Nodes /\ emptied \in SUBSET Nodes
    /\ users \in [Nodes -> SUBSET Workers]
    /\ ipc \in [Workers -> {"out", "item", "key", "copied", "node", "working", "log",
                            "undefined"}]
    /\ iitem \in [Workers -> Items \cup {Nil}]
    /\ ikey \in [Workers -> Keys \cup {Nil}]
    /\ inode \in [Workers -> Nodes \cup {Nil}]
    /\ late \in SUBSET Workers /\ dangling \in SUBSET Workers
    /\ \A t \in Writers :
         /\ wpc[t] # "idle" => wsrv[t] \in Services /\ wkey[t] \in Keys
         /\ wpc[t] \in {"append_key", "add_service", "delete_key"} => wobj[t] \in Items
         /\ wpc[t] \in {"add_node", "delete_node", "spawn_destroyer"} => wobj[t] \in Nodes
    /\ \A w \in Workers :
         /\ ipc[w] \in {"item", "key"} => iitem[w] \in Items
         /\ ipc[w] \in {"key", "copied"} => ikey[w] \in Keys
         /\ ipc[w] \in {"node", "working", "log"} => inode[w] \in Nodes

\* A node key that a service lists always has its pool in the node table, at every point of
\* a change: the node is added before it is listed and unlisted before it is deleted.
\* invoke_service therefore misses a node only if it was unlisted in the meantime.
ListedHavePools == \A k \in Keys : Listed(k) => NodesOf(k) # {}

\* A service in the table lists at least one node, so that string_array_next returns one.
ServicesNonEmpty == \A i \in servTbl : arr[i] # {}

\* Between changes no pool is kept for a node that no service lists: a node shared by
\* several services is deleted with the last of them.
NoOrphanPools == modify = Nil => \A n \in nodeTbl : Listed(nodeKey[n])

\* The tables have one entry per key, although a look-up and the HASH_ADD that follows it
\* are two sections: uthash would keep both entries and find only one.
UniqueEntries ==
    /\ \A i, j \in servTbl : itemKey[i] = itemKey[j] => i = j
    /\ \A m, n \in nodeTbl : nodeKey[m] = nodeKey[n] => m = n

\* The node whose connection a worker holds is not freed under it, unless the worker got the
\* connection after pool_destroy had counted the used ones, emptied the pool and unlocked it.
\* A node in the table is never freed (the checker thread goes through them), and no node is
\* destroyed twice.
NodesInUseAlive ==
    /\ \A w \in Workers : ipc[w] = "working" /\ w \notin late =>
         w \notin dangling /\ nodeKey[inode[w]] # Nil
    /\ \A n \in nodeTbl : nodeKey[n] # Nil /\ n \notin retiring \cup emptied
    /\ retiring \cap emptied = {}

\* invoke_service copies the node key before it can be freed.
KeyCopiedInTime == \A w \in Workers : ipc[w] = "key" => w \notin dangling
=============================================================================
