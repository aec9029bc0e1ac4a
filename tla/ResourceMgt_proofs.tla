------------------------- MODULE ResourceMgt_proofs -------------------------
(***************************************************************************)
(* Safety of the service and node tables, for any number of services,       *)
(* nodes, workers and threads that apply changes, and the round robin over  *)
(* the nodes of a service, for any number of them and any counter.          *)
(***************************************************************************)
EXTENDS ResourceMgt, StrArray, FiniteSetTheorems, SequenceTheorems, TLAPS

\* Only the thread in global_modify_resource_lock is in the middle of a change.
OneWriter == \A t \in Writers : wpc[t] # "idle" => modify = t

\* The entries of the tables and the nodes being destroyed are allocated, and no node is both
\* in its table and being destroyed.
EntriesAllocated ==
    /\ \A i \in servTbl : itemKey[i] \in Services
    /\ \A n \in nodeTbl : nodeKey[n] \in Keys /\ n \notin retiring \cup emptied
    /\ \A n \in retiring \cup emptied : nodeKey[n] \in Keys
    /\ retiring \cap emptied = {}

\* What the thread in the middle of a change knows at each point.
ChangeKnows ==
    \A t \in Writers :
      /\ wpc[t] = "add_node" =>
           /\ wobj[t] \notin nodeTbl /\ wobj[t] \notin retiring \cup emptied
           /\ nodeKey[wobj[t]] = wkey[t] /\ NodesOf(wkey[t]) = {}
      /\ wpc[t] \in {"find_service_to_add", "append_key", "add_service"} =>
           NodesOf(wkey[t]) # {}
      /\ wpc[t] \in {"append_key", "delete_key"} =>
           wobj[t] \in servTbl /\ itemKey[wobj[t]] = wsrv[t]
      /\ wpc[t] = "add_service" =>
           /\ wobj[t] \notin servTbl /\ itemKey[wobj[t]] = wsrv[t]
           /\ arr[wobj[t]] = {wkey[t]} /\ ItemsOf(wsrv[t]) = {}
      /\ wpc[t] \in {"find_node_to_delete", "delete_node"} => ~Listed(wkey[t])
      /\ wpc[t] = "delete_node" => wobj[t] \in nodeTbl /\ nodeKey[wobj[t]] = wkey[t]
      /\ wpc[t] = "spawn_destroyer" =>
           wobj[t] \notin nodeTbl /\ wobj[t] \notin retiring \cup emptied
           /\ nodeKey[wobj[t]] \in Keys

\* A pool that no service lists is the one the current change is about to list or delete.
OrphansInHand ==
    \A n \in nodeTbl :
      \/ Listed(nodeKey[n])
      \/ \E t \in Writers :
           /\ wkey[t] = nodeKey[n]
           /\ wpc[t] \in {"find_service_to_add", "append_key", "add_service", "is_used",
                          "find_node_to_delete", "delete_node"}

\* A worker's node is allocated unless its pointer dangles, and never dangles while the worker
\* counts as a user of the node's pool; who is not counted came when the pool was emptied.
WorkersSafe ==
    \A w \in Workers :
      /\ ipc[w] \in {"node", "working", "log"} /\ w \notin dangling =>
           nodeKey[inode[w]] \in Keys
      /\ ipc[w] = "working" /\ w \notin late =>
           w \notin dangling /\ w \in users[inode[w]] /\ inode[w] \notin emptied

Tables ==
    /\ TypeOK
    /\ OneWriter
    /\ EntriesAllocated
    /\ ChangeKnows
    /\ UniqueEntries
    /\ ListedHavePools
    /\ ServicesNonEmpty

IInv == Tables /\ OrphansInHand /\ WorkersSafe

-----------------------------------------------------------------------------
\* Initially both tables are empty.
LEMMA InitIInv == Init => IInv
<1>. SUFFICES ASSUME Init PROVE IInv
  OBVIOUS
<1>. USE NilIsNoAddress DEF Init
<1>1. TypeOK
  BY DEF TypeOK
<1>2. OneWriter /\ EntriesAllocated /\ ChangeKnows
  BY DEF OneWriter, EntriesAllocated, ChangeKnows
<1>3. UniqueEntries /\ ListedHavePools /\ ServicesNonEmpty
  BY DEF UniqueEntries, ListedHavePools, ServicesNonEmpty, Listed
<1>4. OrphansInHand /\ WorkersSafe
  BY DEF OrphansInHand, WorkersSafe
<1>. QED  BY <1>1, <1>2, <1>3, <1>4 DEF IInv, Tables

\* A worker's step changes neither the tables nor the writers.
WorkerFrame == UNCHANGED <<modify, wpc, wsrv, wkey, wobj, servTbl, itemKey, arr,
                           nodeTbl, nodeKey, retiring, emptied, dangling>>

\* The frame of a worker's step.
LEMMA WorkerFrames == ASSUME NEW w \in Workers, WorkerNext(w) PROVE WorkerFrame
  BY DEF WorkerNext, WorkerFrame, GetService, NextKey, CopyKey, GetNode, RequireConnection,
         ReleaseConnection, LogPool, writer, services, nodes

\* The frame of a writer's step.
WriterFrame == UNCHANGED <<emptied, users, ipc, iitem, ikey, inode, late>> /\ dangling \subseteq dangling'

\* A writer's step leaves the workers' state alone, but for pointers that begin to dangle.
LEMMA WriterFrames == ASSUME NEW t \in Writers, WriterNext(t) PROVE WriterFrame
  BY DEF WriterNext, WriterFrame, StartAdd, StartDelete, Start, FindNodeToAdd, AddNode,
         FindServiceToAdd, AppendKey, AddService, FindServiceToDelete, DeleteKey, IsUsed,
         FindNodeToDelete, DeleteNode, SpawnDestroyer, invoker, nodes, services

\* The steps of a destroying thread leave the tables' contents, the writers and the workers
\* alone.
DestroyerFrame == UNCHANGED <<modify, wpc, wsrv, wkey, wobj, servTbl, itemKey, arr, nodeTbl,
                              ipc, iitem, ikey, inode, late>>

Destroys(n) == DestroyPool(n) \/ FreeNode(n) \/ DestroyGivesUp(n)

\* A step of the thread that destroys node n touches that node only.
LEMMA DestroyerFrames ==
    ASSUME TypeOK, NEW n \in Nodes, Destroys(n)
    PROVE  /\ DestroyerFrame /\ n \in retiring \cup emptied
           /\ \A m \in Nodes : m # n => nodeKey'[m] = nodeKey[m]
  BY DEF Destroys, DestroyPool, Empty, DestroyGivesUp, FreeNode, DestroyerFrame, TypeOK, writer,
         services, invoker

-----------------------------------------------------------------------------
(***************************************************************************)
(* Types.                                                                   *)
(***************************************************************************)

\* Every step of a writer keeps the types.
LEMMA WriterTypes == ASSUME TypeOK, NEW t \in Writers, WriterNext(t) PROVE TypeOK'
<1>. USE NilIsNoAddress DEF TypeOK, AddingPcs, DeletingPcs, Goto, Point, Finish,
                            writer, services, nodes, invoker
<1>1. ASSUME NEW s \in Services, NEW k \in Keys, StartAdd(t, s, k) PROVE TypeOK'
  BY <1>1 DEF StartAdd, Start
<1>2. ASSUME NEW s \in Services, NEW k \in Keys, StartDelete(t, s, k) PROVE TypeOK'
  BY <1>2 DEF StartDelete, Start
<1>3. CASE FindNodeToAdd(t)
  BY <1>3 DEF FindNodeToAdd
<1>4. CASE AddNode(t)
  BY <1>4 DEF AddNode
<1>5. CASE FindServiceToAdd(t)
  BY <1>5 DEF FindServiceToAdd, ItemsOf
<1>6. CASE AppendKey(t)
  BY <1>6 DEF AppendKey
<1>7. CASE AddService(t)
  BY <1>7 DEF AddService
<1>8. CASE FindServiceToDelete(t)
  BY <1>8 DEF FindServiceToDelete, ItemsOf
<1>9. CASE DeleteKey(t)
  BY <1>9 DEF DeleteKey, PointersInto
<1>10. CASE IsUsed(t)
  BY <1>10 DEF IsUsed
<1>11. CASE FindNodeToDelete(t)
  BY <1>11 DEF FindNodeToDelete, NodesOf
<1>12. CASE DeleteNode(t)
  BY <1>12 DEF DeleteNode
<1>13. CASE SpawnDestroyer(t)
  BY <1>13 DEF SpawnDestroyer
<1>. QED  BY <1>1, <1>2, <1>3, <1>4, <1>5, <1>6, <1>7, <1>8, <1>9, <1>10, <1>11, <1>12, <1>13,
             WriterNext(t) DEF WriterNext

\* Every step of a worker keeps the types.
LEMMA WorkerTypes == ASSUME TypeOK, NEW w \in Workers, WorkerNext(w) PROVE TypeOK'
<1>. USE NilIsNoAddress DEF TypeOK, AddingPcs, DeletingPcs, Move, Undefined,
                            writer, services, nodes, invoker
<1>1. ASSUME NEW s \in Services, GetService(w, s) PROVE TypeOK'
  BY <1>1 DEF GetService, ItemsOf
<1>2. CASE NextKey(w)
  BY <1>2 DEF NextKey
<1>3. CASE CopyKey(w)
  BY <1>3 DEF CopyKey
<1>4. CASE GetNode(w)
  BY <1>4 DEF GetNode, NodesOf
<1>5. CASE RequireConnection(w)
  BY <1>5 DEF RequireConnection
<1>6. CASE ReleaseConnection(w)
  BY <1>6 DEF ReleaseConnection
<1>7. CASE LogPool(w)
  BY <1>7 DEF LogPool
<1>. QED  BY <1>1, <1>2, <1>3, <1>4, <1>5, <1>6, <1>7, WorkerNext(w) DEF WorkerNext

\* Every step keeps the types.
LEMMA TypeStep == TypeOK /\ [Next]_vars => TypeOK'
<1>. SUFFICES ASSUME TypeOK, [Next]_vars PROVE TypeOK'
  OBVIOUS
<1>1. ASSUME NEW n \in Nodes, DestroyPool(n) PROVE TypeOK'
  BY <1>1 DEF DestroyPool, Empty, TypeOK, writer, services, invoker
<1>2. ASSUME NEW n \in Nodes, DestroyGivesUp(n) PROVE TypeOK'
  BY <1>2 DEF DestroyGivesUp, TypeOK, writer, services, invoker
<1>3. CASE UNCHANGED vars
  BY <1>3 DEF vars, TypeOK, writer, services, nodes, invoker
<1>4. ASSUME NEW n \in Nodes, FreeNode(n) PROVE TypeOK'
  BY <1>4, NilIsNoAddress DEF FreeNode, TypeOK, writer, services, invoker
<1>. QED  BY <1>1, <1>2, <1>3, <1>4, WriterTypes, WorkerTypes DEF Next

-----------------------------------------------------------------------------
(***************************************************************************)
(* The tables.  One step per section of resource_add and resource_delete.   *)
(***************************************************************************)

\* The part of the tables' invariant that is not about types.
Shape ==
    /\ OneWriter
    /\ EntriesAllocated
    /\ ChangeKnows
    /\ UniqueEntries
    /\ ListedHavePools
    /\ ServicesNonEmpty

\* The last section of resource_add, in both of its forms, keeps the tables in order.
LEMMA ListKeyTables ==
    ASSUME TypeOK, Shape, OrphansInHand, NEW t \in Writers, AppendKey(t) \/ AddService(t)
    PROVE  Shape' /\ OrphansInHand'
<1>. DEFINE i == wobj[t]
            k == wkey[t]
<1>1. /\ i \in Items /\ k \in Keys /\ wsrv[t] \in Services
      /\ \A j \in Items : itemKey[j] = itemKey'[j]
  BY DEF AppendKey, AddService, TypeOK
<1>2. UNCHANGED <<itemKey, nodeTbl, nodeKey, retiring, emptied>>
  BY DEF AppendKey, AddService, nodes
<1>3. /\ servTbl' = servTbl \cup {i}
      /\ \A j \in Items : j # i => arr'[j] = arr[j]
      /\ arr'[i] \in SUBSET Keys /\ k \in arr'[i]
      /\ \A x \in arr'[i] : x = k \/ (i \in servTbl /\ x \in arr[i])
      /\ i \in servTbl => arr[i] \subseteq arr'[i]
  <2>1. CASE AppendKey(t)
    <3>1. i \in servTbl
      BY <2>1 DEF AppendKey, Shape, ChangeKnows
    <3>2. arr'[i] = arr[i] \cup {k} /\ \A j \in Items : j # i => arr'[j] = arr[j]
      BY <1>1, <2>1 DEF AppendKey, TypeOK
    <3>. QED  BY <1>1, <2>1, <3>1, <3>2 DEF AppendKey, TypeOK
  <2>2. CASE AddService(t)
    <3>1. arr[i] = {k} /\ arr' = arr /\ i \notin servTbl
      BY <2>2 DEF AddService, Shape, ChangeKnows
    <3>. QED  BY <1>1, <2>2, <3>1 DEF AddService
  <2>. QED  BY <2>1, <2>2
<1>4. itemKey[i] = wsrv[t] /\ \A j \in servTbl : itemKey[j] = wsrv[t] => j = i
  <2>1. CASE AppendKey(t)
    BY <2>1 DEF AppendKey, Shape, ChangeKnows, UniqueEntries
  <2>2. CASE AddService(t)
    BY <2>2 DEF AddService, Shape, ChangeKnows, ItemsOf
  <2>. QED  BY <2>1, <2>2
<1>5. \E n \in nodeTbl : nodeKey[n] = k
  BY DEF AppendKey, AddService, Shape, ChangeKnows, NodesOf
<1>6. \A u \in Writers : wpc'[u] = "idle"
  BY NilIsNoAddress DEF AppendKey, AddService, Shape, OneWriter, Finish, Goto, TypeOK
<1>7. servTbl \subseteq Items
  BY DEF TypeOK
<1>8. \A x : Listed(x)' <=> Listed(x) \/ x = k
  BY <1>1, <1>3, <1>7 DEF Listed
<1>9. OneWriter' /\ ChangeKnows'
  BY <1>6 DEF OneWriter, ChangeKnows
<1>10. EntriesAllocated'
  BY <1>1, <1>2, <1>3, <1>4 DEF Shape, EntriesAllocated
<1>11. UniqueEntries'
  BY <1>2, <1>3, <1>4 DEF Shape, UniqueEntries
<1>12. ListedHavePools'
  BY <1>2, <1>5, <1>8 DEF Shape, ListedHavePools, NodesOf
<1>13. ServicesNonEmpty'
  BY <1>3, <1>7 DEF Shape, ServicesNonEmpty
<1>14. OrphansInHand'
  <2>1. ASSUME NEW n \in nodeTbl PROVE Listed(nodeKey[n]) \/ nodeKey[n] = k
    BY NilIsNoAddress DEF OrphansInHand, Shape, OneWriter, AppendKey, AddService
  <2>. QED  BY <1>2, <1>8, <2>1 DEF OrphansInHand
<1>. QED  BY <1>9, <1>10, <1>11, <1>12, <1>13, <1>14 DEF Shape

\* Every step of a writer keeps the tables and orphans in order.
LEMMA WriterTables ==
    ASSUME TypeOK, TypeOK', Shape, OrphansInHand, NEW t \in Writers, WriterNext(t)
    PROVE  Shape' /\ OrphansInHand'
<1>0. ASSUME NEW u \in Writers, wpc[t] # "idle" \/ modify = Nil, u # t PROVE wpc[u] = "idle"
  BY <1>0, NilIsNoAddress DEF Shape, OneWriter
<1>. USE NilIsNoAddress DEF TypeOK, Shape, OneWriter, EntriesAllocated, ChangeKnows,
           UniqueEntries, ListedHavePools, ServicesNonEmpty, OrphansInHand,
           NodesOf, ItemsOf, Listed, Goto, Point, Finish, writer, services, nodes, invoker
<1>1. ASSUME NEW s \in Services, NEW k \in Keys, StartAdd(t, s, k) PROVE Shape' /\ OrphansInHand'
  BY <1>0, <1>1 DEF StartAdd, Start
<1>2. ASSUME NEW s \in Services, NEW k \in Keys, StartDelete(t, s, k) PROVE Shape' /\ OrphansInHand'
  BY <1>0, <1>2 DEF StartDelete, Start
<1>3. CASE FindNodeToAdd(t)
  BY <1>0, <1>3, SMTT(30) DEF FindNodeToAdd
<1>4. CASE AddNode(t)
  BY <1>0, <1>4 DEF AddNode
<1>5. CASE FindServiceToAdd(t)
  BY <1>0, <1>5 DEF FindServiceToAdd
<1>6. CASE AppendKey(t)
  BY <1>6, ListKeyTables
<1>7. CASE AddService(t)
  BY <1>7, ListKeyTables
<1>8. CASE FindServiceToDelete(t)
  BY <1>0, <1>8 DEF FindServiceToDelete
<1>9. CASE DeleteKey(t)
  BY <1>0, <1>9, SMTT(30) DEF DeleteKey
<1>10. CASE IsUsed(t)
  BY <1>0, <1>10 DEF IsUsed
<1>11. CASE FindNodeToDelete(t)
  BY <1>0, <1>11 DEF FindNodeToDelete
<1>12. CASE DeleteNode(t)
  BY <1>0, <1>12, SMTT(30) DEF DeleteNode
<1>13. CASE SpawnDestroyer(t)
  BY <1>0, <1>13 DEF SpawnDestroyer
<1>. QED  BY <1>1, <1>2, <1>3, <1>4, <1>5, <1>6, <1>7, <1>8, <1>9, <1>10, <1>11, <1>12, <1>13,
             WriterNext(t) DEF WriterNext

\* A worker's step leaves the tables and the writers as they are.
LEMMA WorkerTables ==
    ASSUME Shape, OrphansInHand, WorkerFrame PROVE Shape' /\ OrphansInHand'
  BY DEF Shape, OrphansInHand, WorkerFrame, OneWriter, EntriesAllocated, ChangeKnows, UniqueEntries,
         ListedHavePools, ServicesNonEmpty, NodesOf, ItemsOf, Listed

\* Emptying the pool of a node, freeing it or giving it up touches no entry of the tables and
\* no node a writer is about to add or to hand to a destroying thread.
LEMMA DestroyerTables ==
    ASSUME TypeOK, Shape, OrphansInHand, NEW n \in Nodes, Destroys(n)
    PROVE  Shape' /\ OrphansInHand'
<1>1. /\ DestroyerFrame /\ n \in retiring \cup emptied
      /\ \A m \in Nodes : m # n => nodeKey'[m] = nodeKey[m]
  BY DestroyerFrames
<1>2. n \notin nodeTbl /\ nodeTbl \subseteq Nodes
  BY <1>1 DEF Shape, EntriesAllocated, TypeOK
<1>3. \A k : NodesOf(k)' = NodesOf(k)
  BY <1>1, <1>2 DEF NodesOf, DestroyerFrame
<1>4. \A s, k : ItemsOf(s)' = ItemsOf(s) /\ Listed(k)' = Listed(k)
  BY <1>1 DEF ItemsOf, Listed, DestroyerFrame
<1>5. EntriesAllocated' /\ (retiring \cup emptied)' \subseteq retiring \cup emptied
  <2>1. CASE DestroyPool(n)
    BY <1>1, <2>1 DEF DestroyPool, Empty, Shape, EntriesAllocated, DestroyerFrame
  <2>2. CASE FreeNode(n)
    BY <1>1, <1>2, <2>2 DEF FreeNode, Shape, EntriesAllocated, DestroyerFrame, TypeOK
  <2>3. CASE DestroyGivesUp(n)
    BY <1>1, <2>3 DEF DestroyGivesUp, Shape, EntriesAllocated, DestroyerFrame
  <2>. QED  BY <2>1, <2>2, <2>3 DEF Destroys
<1>6. ChangeKnows'
  BY <1>1, <1>2, <1>3, <1>4, <1>5 DEF Shape, ChangeKnows, DestroyerFrame, TypeOK
<1>7. OneWriter' /\ UniqueEntries' /\ ListedHavePools' /\ ServicesNonEmpty'
  BY <1>1, <1>2, <1>3, <1>4
  DEF Shape, OneWriter, UniqueEntries, ListedHavePools, ServicesNonEmpty, DestroyerFrame, TypeOK
<1>8. OrphansInHand'
  BY <1>1, <1>2, <1>4 DEF OrphansInHand, DestroyerFrame, TypeOK
<1>. QED  BY <1>5, <1>6, <1>7, <1>8 DEF Shape

-----------------------------------------------------------------------------
(***************************************************************************)
(* The workers.                                                             *)
(***************************************************************************)

\* Every step keeps the nodes that workers use allocated.
LEMMA WorkersStep ==
    ASSUME TypeOK, TypeOK', Shape, WorkersSafe, [Next]_vars
    PROVE  WorkersSafe'
<1>1. ASSUME NEW w \in Workers, WorkerNext(w) PROVE WorkersSafe'
  <2>1. WorkerFrame
    BY <1>1, WorkerFrames
  <2>. USE <2>1 DEF TypeOK, WorkersSafe, WorkerFrame, Move, Undefined
  <2>2. ASSUME NEW s \in Services, GetService(w, s) PROVE WorkersSafe'
    BY <2>2 DEF GetService
  <2>3. CASE NextKey(w)
    BY <2>3 DEF NextKey
  <2>4. CASE CopyKey(w)
    BY <2>4 DEF CopyKey
  <2>5. CASE GetNode(w)
    BY <2>5 DEF GetNode, NodesOf, Shape, EntriesAllocated
  <2>6. CASE RequireConnection(w)
    BY <2>6 DEF RequireConnection
  <2>7. CASE ReleaseConnection(w)
    BY <2>7 DEF ReleaseConnection
  <2>8. CASE LogPool(w)
    BY <2>8 DEF LogPool
  <2>. QED  BY <1>1, <2>2, <2>3, <2>4, <2>5, <2>6, <2>7, <2>8 DEF WorkerNext
<1>2. ASSUME NEW t \in Writers, WriterNext(t) PROVE WorkersSafe'
  <2>1. WriterFrame
    BY <1>2, WriterFrames
  <2>2. \A n \in Nodes : nodeKey[n] \in Keys => nodeKey'[n] = nodeKey[n]
    BY <1>2, NilIsNoAddress
    DEF WriterNext, StartAdd, StartDelete, Start, FindNodeToAdd, AddNode, FindServiceToAdd, AppendKey,
        AddService, FindServiceToDelete, DeleteKey, IsUsed, FindNodeToDelete, DeleteNode,
        SpawnDestroyer, nodes, TypeOK
  <2>3. \A w \in dangling' \ dangling : ipc[w] \in {"item", "key"}
    BY <1>2
    DEF WriterNext, StartAdd, StartDelete, Start, FindNodeToAdd, AddNode, FindServiceToAdd, AppendKey,
        AddService, FindServiceToDelete, DeleteKey, IsUsed, FindNodeToDelete, DeleteNode,
        SpawnDestroyer, PointersInto
  <2>. QED  BY <2>1, <2>2, <2>3 DEF WorkersSafe, WriterFrame, TypeOK
<1>3. ASSUME NEW n \in Nodes, DestroyPool(n) PROVE WorkersSafe'
  BY <1>3 DEF DestroyPool, Empty, WorkersSafe, TypeOK, invoker
<1>6. ASSUME NEW n \in Nodes, FreeNode(n) PROVE WorkersSafe'
  BY <1>6 DEF FreeNode, WorkersSafe, TypeOK, invoker
<1>4. ASSUME NEW n \in Nodes, DestroyGivesUp(n) PROVE WorkersSafe'
  BY <1>4 DEF DestroyGivesUp, WorkersSafe, invoker
<1>5. CASE UNCHANGED vars
  BY <1>5 DEF vars, WorkersSafe, invoker, nodes
<1>. QED  BY <1>1, <1>2, <1>3, <1>4, <1>5, <1>6 DEF Next

-----------------------------------------------------------------------------
(***************************************************************************)
(* The theorems.                                                            *)
(***************************************************************************)

\* The invariant is inductive.
THEOREM Invariance == Spec => []IInv
<1>1. ASSUME IInv, [Next]_vars PROVE IInv'
  <2>1. TypeOK /\ Shape /\ OrphansInHand /\ WorkersSafe
    BY <1>1 DEF IInv, Tables, Shape
  <2>2. TypeOK'
    BY <1>1, <2>1, TypeStep
  <2>3. ASSUME UNCHANGED vars PROVE WorkerFrame
    BY <2>3 DEF vars, WorkerFrame, writer, services, nodes
  <2>4. Shape' /\ OrphansInHand'
    BY <1>1, <2>1, <2>2, <2>3, WriterTables, WorkerFrames, WorkerTables, DestroyerTables
    DEF Next, Destroys
  <2>5. WorkersSafe'
    BY <1>1, <2>1, <2>2, WorkersStep
  <2>. QED  BY <2>2, <2>4, <2>5 DEF IInv, Tables, Shape
<1>. QED  BY InitIInv, <1>1, PTL DEF Spec

\* In every reachable state the variables have their types and no pointer that is about to be
\* followed is NULL.
THEOREM TypeCorrect == Spec => []TypeOK
<1>1. IInv => TypeOK
  BY DEF IInv, Tables
<1>. QED  BY <1>1, Invariance, PTL

\* At every point of resource_add and resource_delete, a listed node key has its pool.
THEOREM ListedKeysHavePools == Spec => []ListedHavePools
<1>1. IInv => ListedHavePools
  BY DEF IInv, Tables
<1>. QED  BY <1>1, Invariance, PTL

\* No service is ever found without a node to choose.
THEOREM NoEmptyService == Spec => []ServicesNonEmpty
<1>1. IInv => ServicesNonEmpty
  BY DEF IInv, Tables
<1>. QED  BY <1>1, Invariance, PTL

\* Between changes every pool belongs to a node that some service lists.
THEOREM PoolsAreListed == Spec => []NoOrphanPools
<1>1. IInv => NoOrphanPools
  BY NilIsNoAddress DEF IInv, Tables, OneWriter, OrphansInHand, NoOrphanPools, TypeOK
<1>. QED  BY <1>1, Invariance, PTL

\* The look-up and the HASH_ADD that follows never make two entries of one key.
THEOREM EntriesAreUnique == Spec => []UniqueEntries
<1>1. IInv => UniqueEntries
  BY DEF IInv, Tables
<1>. QED  BY <1>1, Invariance, PTL

\* A node is never freed while it is in the table, or while a worker holds one of its
\* connections, except for connections that were taken after pool_destroy emptied the pool.
THEOREM UsedNodesAreAlive == Spec => []NodesInUseAlive
<1>1. IInv => NodesInUseAlive
  BY NilIsNoAddress DEF IInv, Tables, EntriesAllocated, WorkersSafe, NodesInUseAlive, TypeOK
<1>. QED  BY <1>1, Invariance, PTL

-----------------------------------------------------------------------------
(***************************************************************************)
(* The round robin.                                                         *)
(***************************************************************************)

\* The first of some numbers.
LEMMA LeastPlace ==
    ASSUME NEW S \in SUBSET Nat, S # {}
    PROVE  \E f \in S : \A i \in S : f <= i
<1> DEFINE R == {p \in Nat \X Nat : p[1] < p[2]}
<1>1. IsWellFoundedOn(R, Nat)
  BY NatLessThanWellFounded, Zenon DEF OpToRel
<1> HIDE DEF R
<1>2. PICK x \in S : \A y \in S : ~(<<y, x>> \in R)
  BY <1>1, WFMin
<1>3. ASSUME NEW y \in S PROVE x <= y
  <2>1. x \in Nat /\ y \in Nat /\ <<y, x>> \in Nat \X Nat /\ <<y, x>> \notin R
    BY <1>2
  <2>2. ~(y < x)
    BY <2>1 DEF R
  <2> QED
    BY <2>1, <2>2
<1> QED
  BY <1>3

\* Remainders: of a number, and of the next one.
LEMMA RemainderRange == \A c \in Nat, k \in Nat \ {0} : c % k \in 0..(k - 1)
OBVIOUS

LEMMA Division ==
    ASSUME NEW c \in Nat, NEW k \in Nat \ {0}
    PROVE  \E q \in Nat : \E r \in 0..(k - 1) : c = k * q + r /\ r = c % k
<1>1. c % k \in 0..(k - 1)
  BY RemainderRange
<1>2. c \div k \in Nat /\ k * (c \div k) \in Int
  OBVIOUS
<1>3. c % k = c - k * (c \div k)
  BY SMT
<1>4. PICK q \in Nat : q = c \div k
  BY <1>2, Zenon
<1>5. PICK r \in 0..(k - 1) : r = c % k
  BY <1>1, Zenon
<1>6. PICK x \in Int : x = k * q
  OBVIOUS
<1>7. c = x + r
  <2>1. r = c - x
    BY <1>3, <1>4, <1>5, <1>6, Zenon
  <2> QED
    BY <2>1
<1>8. c = k * q + r
  BY <1>6, <1>7, Zenon
<1> QED
  BY <1>5, <1>8, Zenon

LEMMA Remainder ==
    ASSUME NEW k \in Nat \ {0}, NEW q \in Nat, NEW r \in 0..(k - 1)
    PROVE  (k * q + r) % k = r
OBVIOUS

LEMMA NextRemainder ==
    ASSUME NEW c \in Nat, NEW k \in Nat \ {0}
    PROVE  (c + 1) % k = IF c % k = k - 1 THEN 0 ELSE (c % k) + 1
<1>1. PICK q \in Nat : \E r \in 0..(k - 1) : c = k * q + r /\ r = c % k
  BY Division
<1>2. PICK r \in 0..(k - 1) : c = k * q + r /\ r = c % k
  BY <1>1
<1>3. PICK x \in Int : x = k * q /\ c = x + r
  <2>1. k * q \in Int
    OBVIOUS
  <2> QED
    BY <1>2, <2>1
<1>4. CASE r = k - 1
  <2>1. k * (q + 1) = k * q + k
    OBVIOUS
  <2>2. c + 1 = (x + k) + 0
    BY <1>3, <1>4
  <2>3. c + 1 = k * (q + 1) + 0 /\ q + 1 \in Nat /\ 0 \in 0..(k - 1)
    BY <1>3, <2>1, <2>2
  <2> QED
    BY <1>2, <1>4, <2>3, Remainder
<1>5. CASE r # k - 1
  <2>1. c + 1 = x + (r + 1) /\ r + 1 \in 0..(k - 1)
    BY <1>3, <1>5
  <2>2. c + 1 = k * q + (r + 1)
    BY <1>3, <2>1
  <2> QED
    BY <1>2, <1>5, <2>1, <2>2, Remainder
<1> QED
  BY <1>4, <1>5

LEMMA SmallRemainder == \A c \in Nat, k \in Nat \ {0} : c < k => c % k = c
OBVIOUS

LEMMA WholeRemainder == \A k \in Nat \ {0} : k % k = 0
OBVIOUS

-----------------------------------------------------------------------------
\* Every string is in the array once.
Once == \A i, j \in 1..Len(strs) : strs[i] = strs[j] => i = j

\* The turns from a up to b, going around the end.
Between(a, b, i) == IF a <= b THEN a <= i /\ i < b ELSE a <= i \/ i < b
Extra(a, b, i) == IF Between(a, b, i) THEN 1 ELSE 0

\* How the picks are spread: up to the last time the counter skipped turns by `before', which
\* are as balanced as the skips allow; since then m rounds, and one more turn from a on.
IsSpread(k, p, skips, turn, before, m, a) ==
    /\ \A i, j \in 0..(k - 1) : before[i] <= before[j] + skips
    /\ \A i \in 0..(k - 1) : p[i] = before[i] + m + Extra(a, turn, i)
Spread(k, p, skips, turn) ==
    \E before \in [0..(k - 1) -> Nat], m \in Nat, a \in 0..(k - 1) :
      IsSpread(k, p, skips, turn, before, m, a)

\* One more turn,
LEMMA SpreadTurn ==
    ASSUME NEW k \in Nat \ {0}, NEW p \in [0..(k - 1) -> Nat], NEW skips \in Nat,
           NEW turn \in 0..(k - 1), Spread(k, p, skips, turn),
           NEW r, r = [p EXCEPT ![turn] = @ + 1]
    PROVE  Spread(k, r, skips, IF turn = k - 1 THEN 0 ELSE turn + 1)
<1>0. PICK before \in [0..(k - 1) -> Nat], m \in Nat, a \in 0..(k - 1) :
        IsSpread(k, p, skips, turn, before, m, a)
  BY Zenon DEF Spread
<1>1. /\ \A i, j \in 0..(k - 1) : before[i] <= before[j] + skips
      /\ \A i \in 0..(k - 1) : p[i] = before[i] + m + Extra(a, turn, i)
  BY <1>0, Zenon DEF IsSpread
<1>2. PICK next \in 0..(k - 1) : next = IF turn = k - 1 THEN 0 ELSE turn + 1
  OBVIOUS
<1>3. CASE next = a
  <2>1. ASSUME NEW i \in 0..(k - 1)
        PROVE  r[i] = before[i] + (m + 1) + Extra(a, next, i)
    <3>1. r[i] = IF i = turn THEN p[i] + 1 ELSE p[i]
      OBVIOUS
    <3>2. ~Between(a, next, i) /\ (Between(a, turn, i) <=> i # turn)
      BY <1>2, <1>3 DEF Between
    <3>3. p[i] = before[i] + m + (IF i = turn THEN 0 ELSE 1) /\ Extra(a, next, i) = 0
      BY <1>1, <3>2 DEF Extra
    <3>4. PICK x \in Nat, y \in Nat : x = before[i] /\ y = p[i]
      OBVIOUS
    <3>5. y = x + m + (IF i = turn THEN 0 ELSE 1) /\ r[i] = IF i = turn THEN y + 1 ELSE y
      BY <3>1, <3>3, <3>4, Zenon
    <3>6. r[i] = x + (m + 1) + 0
      BY <3>5
    <3> QED
      BY <3>3, <3>4, <3>6, Zenon
  <2>2. m + 1 \in Nat
    OBVIOUS
  <2>3. IsSpread(k, r, skips, next, before, m + 1, a)
    BY <1>1, <2>1, Zenon DEF IsSpread
  <2>4. Spread(k, r, skips, next)
    BY <2>2, <2>3, Zenon DEF Spread
  <2> QED
    BY <1>2, <2>4, Zenon
<1>4. CASE next # a
  <2>1. ASSUME NEW i \in 0..(k - 1)
        PROVE  r[i] = before[i] + m + Extra(a, next, i)
    <3>1. r[i] = IF i = turn THEN p[i] + 1 ELSE p[i]
      OBVIOUS
    <3>2. Between(a, next, i) <=> Between(a, turn, i) \/ i = turn
      BY <1>2, <1>4 DEF Between
    <3>3. ~Between(a, turn, turn)
      BY DEF Between
    <3>4. before[i] \in Nat /\ p[i] \in Nat
      OBVIOUS
    <3>5. CASE i = turn
      <4>1. Extra(a, turn, i) = 0 /\ Extra(a, next, i) = 1
        BY <3>2, <3>3, <3>5 DEF Extra
      <4>2. p[i] = before[i] + m + 0
        BY <1>1, <4>1
      <4> QED
        BY <3>1, <3>4, <3>5, <4>1, <4>2
    <3>6. CASE i # turn
      <4>1. Extra(a, turn, i) = Extra(a, next, i)
        BY <3>2, <3>6 DEF Extra
      <4> QED
        BY <1>1, <3>1, <3>6, <4>1
    <3> QED
      BY <3>5, <3>6
  <2>2. IsSpread(k, r, skips, next, before, m, a)
    BY <1>1, <2>1, Zenon DEF IsSpread
  <2>3. Spread(k, r, skips, next)
    BY <2>2, Zenon DEF Spread
  <2> QED
    BY <1>2, <2>3, Zenon
<1> QED
  BY <1>3, <1>4

\* and what the spread says of two strings,
LEMMA SpreadBalanced ==
    ASSUME NEW k \in Nat \ {0}, NEW p \in [0..(k - 1) -> Nat], NEW skips \in Nat,
           NEW turn \in 0..(k - 1), Spread(k, p, skips, turn)
    PROVE  \A i, j \in 0..(k - 1) : p[i] <= p[j] + 1 + skips
<1>0. PICK before \in [0..(k - 1) -> Nat], m \in Nat, a \in 0..(k - 1) :
        IsSpread(k, p, skips, turn, before, m, a)
  BY Zenon DEF Spread
<1>1. /\ \A i, j \in 0..(k - 1) : before[i] <= before[j] + skips
      /\ \A i \in 0..(k - 1) : p[i] = before[i] + m + Extra(a, turn, i)
  BY <1>0, Zenon DEF IsSpread
<1>2. ASSUME NEW i \in 0..(k - 1)
      PROVE  before[i] + m <= p[i] /\ p[i] <= before[i] + m + 1
  <2>1. p[i] = before[i] + m + Extra(a, turn, i) /\ before[i] \in Nat
    BY <1>1
  <2>2. PICK e \in {0, 1} : e = Extra(a, turn, i)
    BY DEF Extra
  <2>3. PICK x \in Nat : x = before[i]
    BY <2>1
  <2>4. p[i] = x + m + e
    BY <2>1, <2>2, <2>3, Zenon
  <2>5. x + m <= x + m + e /\ x + m + e <= x + m + 1
    OBVIOUS
  <2> QED
    BY <2>3, <2>4, <2>5, Zenon
<1>3. ASSUME NEW i \in 0..(k - 1), NEW j \in 0..(k - 1) PROVE p[i] <= p[j] + 1 + skips
  <2>1. PICK x \in Nat, y \in Nat, u \in Nat, v \in Nat :
          x = before[i] /\ y = before[j] /\ u = p[i] /\ v = p[j]
    OBVIOUS
  <2>2. before[i] <= before[j] + skips /\ p[i] <= before[i] + m + 1 /\ before[j] + m <= p[j]
    BY <1>1, <1>2
  <2>3. x <= y + skips /\ u <= x + m + 1 /\ y + m <= v
    BY <2>1, <2>2, Zenon
  <2>4. u <= v + 1 + skips
    BY <2>3
  <2> QED
    BY <2>1, <2>4, Zenon
<1> QED
  BY <1>3

\* from which another skip may start.
LEMMA SpreadSkip ==
    ASSUME NEW k \in Nat \ {0}, NEW p \in [0..(k - 1) -> Nat], NEW skips \in Nat,
           \A i, j \in 0..(k - 1) : p[i] <= p[j] + skips
    PROVE  \A turn \in 0..(k - 1) : Spread(k, p, skips, turn)
<1> SUFFICES ASSUME NEW turn \in 0..(k - 1) PROVE Spread(k, p, skips, turn)
  OBVIOUS
<1>1. \A i \in 0..(k - 1) : p[i] = p[i] + 0 + Extra(turn, turn, i)
  BY DEF Between, Extra
<1>2. IsSpread(k, p, skips, turn, p, 0, turn) /\ 0 \in Nat
  BY <1>1 DEF IsSpread
<1> QED
  BY <1>2, Zenon DEF Spread

-----------------------------------------------------------------------------
\* What string_array_find returns.
Places(value) == {i \in 1..Len(strs) : strs[i] = value}

LEMMA FindIs ==
    ASSUME NEW value, strs \in Seq(Strings)
    PROVE  /\ StringArrayFind(value) = 0 => \A i \in 1..Len(strs) : strs[i] # value
           /\ StringArrayFind(value) # 0 => StringArrayFind(value) \in 1..Len(strs)
<1>1. StringArrayFind(value) = IF Places(value) # {} THEN Min(Places(value)) ELSE 0
  BY Zenon DEF StringArrayFind, SelectInSeq, Places
<1>2. CASE Places(value) = {}
  BY <1>1, <1>2 DEF Places
<1>3. CASE Places(value) # {}
  <2>1. Places(value) \in SUBSET Nat
    BY DEF Places
  <2>2. PICK f \in Places(value) : \A i \in Places(value) : f <= i
    BY <1>3, <2>1, LeastPlace
  <2>3. Min(Places(value)) \in Places(value)
    BY <2>2, Zenon DEF Min
  <2> HIDE DEF Min
  <2> QED
    BY <1>1, <1>3, <2>3 DEF Places
<1> QED
  BY <1>2, <1>3

\* Erasing one element.
LEMMA ErasedIs ==
    ASSUME NEW s \in Seq(Strings), NEW i \in 1..Len(s)
    PROVE  /\ RemoveAt(s, i) \in Seq(Strings) /\ Len(RemoveAt(s, i)) = Len(s) - 1
           /\ \A j \in 1..(Len(s) - 1) :
                RemoveAt(s, i)[j] = s[IF j < i THEN j ELSE j + 1]
<1>0. SubSeq(s, 1, i - 1) \in Seq(Strings) /\ SubSeq(s, i + 1, Len(s)) \in Seq(Strings)
  OBVIOUS
<1>1. PICK a \in Seq(Strings) : a = SubSeq(s, 1, i - 1)
  BY <1>0, Zenon
<1>2. Len(a) = i - 1 /\ \A j \in 1..(i - 1) : a[j] = s[j]
  BY <1>1
<1>3. PICK b \in Seq(Strings) : b = SubSeq(s, i + 1, Len(s))
  BY <1>0, Zenon
<1>4. Len(b) = Len(s) - i /\ \A j \in 1..(Len(s) - i) : b[j] = s[i + j]
  <2>1. Len(b) = Len(s) - i
    BY <1>3
  <2>2. ASSUME NEW j \in 1..(Len(s) - i) PROVE b[j] = s[i + j]
    <3>1. b[j] = s[(i + 1) + j - 1] /\ (i + 1) + j - 1 = i + j
      BY <1>3
    <3> QED
      BY <3>1
  <2> QED
    BY <2>1, <2>2
<1>5. RemoveAt(s, i) = a \o b
  BY <1>1, <1>3, Zenon DEF RemoveAt
<1>6. a \o b \in Seq(Strings) /\ Len(a \o b) = Len(s) - 1
  <2>1. a \o b \in Seq(Strings) /\ Len(a \o b) = Len(a) + Len(b)
    BY ConcatProperties
  <2> QED
    BY <1>2, <1>4, <2>1
<1>7. ASSUME NEW j \in 1..(Len(s) - 1)
      PROVE  (a \o b)[j] = s[IF j < i THEN j ELSE j + 1]
  <2>1. CASE j < i
    BY <1>2, <2>1, ConcatProperties
  <2>2. CASE ~(j < i)
    <3>1. (a \o b)[j] = b[j - Len(a)]
      BY <1>2, <1>4, <2>2, ConcatProperties
    <3>2. PICK d \in 1..(Len(s) - i) : d = j - (i - 1) /\ i + d = j + 1
      BY <2>2
    <3> QED
      BY <1>2, <1>4, <2>2, <3>1, <3>2
  <2> QED
    BY <2>1, <2>2
<1> QED
  BY <1>5, <1>6, <1>7

\* The picks by turn.
ByTurn == [i \in 0..(Len(strs) - 1) |-> picks[strs[i + 1]]]

ArrayInv ==
    /\ strs \in Seq(Strings) /\ counter \in 0..(CounterRange - 1)
    /\ picks \in [Strings -> Nat] /\ wraps \in Nat
    /\ Once
    /\ strs # <<>> => Spread(Len(strs), ByTurn, Skips, Turn)

LEMMA ByTurnType ==
    ASSUME strs \in Seq(Strings), picks \in [Strings -> Nat]
    PROVE  ByTurn \in [0..(Len(strs) - 1) -> Nat]
<1>1. \A i \in 0..(Len(strs) - 1) : i + 1 \in 1..Len(strs) /\ strs[i + 1] \in Strings
  OBVIOUS
<1> QED
  BY <1>1 DEF ByTurn

LEMMA ArrayStarts == StringArrayInit => ArrayInv
BY StrArrayConfig DEF StringArrayInit, ArrayInv, Once

\* A change of the array.
LEMMA ChangedKeeps ==
    ASSUME ArrayInv, Changed, strs' \in Seq(Strings), Once'
    PROVE  ArrayInv'
<1>1. /\ picks' = [s \in Strings |-> 0] /\ wraps' = 0 /\ counter' \in 0..(CounterRange - 1)
      /\ picks' \in [Strings -> Nat] /\ counter' \in Nat
  BY StrArrayConfig DEF Changed, ArrayInv
<1>2. strs' # <<>> => Spread(Len(strs), ByTurn, Skips, Turn)'
  <2> SUFFICES ASSUME strs' # <<>> PROVE Spread(Len(strs'), ByTurn', Skips', Turn')
    OBVIOUS
  <2>1. PICK k \in Nat \ {0} : k = Len(strs')
    OBVIOUS
  <2>2. Skips' = 0
    BY <1>1 DEF Skips
  <2>3. Turn' \in 0..(k - 1)
    <3>1. counter' % k \in 0..(k - 1)
      BY <1>1, RemainderRange
    <3> QED
      BY <2>1, <3>1, Zenon DEF Turn
  <2>4. ByTurn' = [i \in 0..(k - 1) |-> 0]
    <3>1. \A i \in 0..(k - 1) : i + 1 \in 1..Len(strs') /\ strs'[i + 1] \in Strings
      BY <2>1
    <3>2. \A i \in 0..(k - 1) : picks'[strs'[i + 1]] = 0
      BY <1>1, <3>1
    <3>3. ByTurn' = [i \in 0..(k - 1) |-> picks'[strs'[i + 1]]]
      BY <2>1, Zenon DEF ByTurn
    <3> QED
      BY <3>2, <3>3
  <2>5. PICK p \in [0..(k - 1) -> Nat] : p = ByTurn' /\ \A i \in 0..(k - 1) : p[i] = 0
    <3>1. [i \in 0..(k - 1) |-> 0] \in [0..(k - 1) -> Nat]
      OBVIOUS
    <3> QED
      BY <2>4, <3>1
  <2>6. \A i, j \in 0..(k - 1) : p[i] <= p[j] + 0
    BY <2>5
  <2>7. Spread(k, p, 0, Turn')
    BY <2>3, <2>6, SpreadSkip
  <2> QED
    BY <2>1, <2>2, <2>5, <2>7, Zenon
<1> QED
  BY <1>1, <1>2, Zenon DEF ArrayInv

LEMMA AddKeeps == ASSUME ArrayInv, NEW value \in Strings, StringArrayAdd(value) PROVE ArrayInv'
<1>1. CASE UNCHANGED arrayVars
  BY <1>1 DEF ArrayInv, arrayVars, Once, ByTurn, Skips, Turn
<1>2. CASE StringArrayFind(value) = 0 /\ strs' = Append(strs, value) /\ Changed
  <2>1. strs \in Seq(Strings) /\ \A i, j \in 1..Len(strs) : strs[i] = strs[j] => i = j
    BY DEF ArrayInv, Once
  <2>2. \A i \in 1..Len(strs) : strs[i] # value
    BY <1>2, <2>1, FindIs
  <2>3. /\ strs' \in Seq(Strings) /\ Len(strs') = Len(strs) + 1 /\ strs'[Len(strs) + 1] = value
        /\ \A i \in 1..Len(strs) : strs'[i] = strs[i]
    BY <1>2, <2>1
  <2>4. ASSUME NEW i \in 1..Len(strs'), NEW j \in 1..Len(strs'), strs'[i] = strs'[j]
        PROVE  i = j
    <3>1. /\ i \in 1..Len(strs) \/ i = Len(strs) + 1
          /\ j \in 1..Len(strs) \/ j = Len(strs) + 1
      BY <2>1, <2>3
    <3> QED
      BY <2>1, <2>2, <2>3, <2>4, <3>1
  <2> QED
    BY <1>2, <2>3, <2>4, ChangedKeeps DEF Once
<1> QED
  BY <1>1, <1>2 DEF StringArrayAdd

LEMMA DeleteKeeps ==
    ASSUME ArrayInv, NEW value \in Strings, StringArrayDelete(value) PROVE ArrayInv'
<1>1. CASE UNCHANGED arrayVars
  BY <1>1 DEF ArrayInv, arrayVars, Once, ByTurn, Skips, Turn
<1>2. CASE /\ StringArrayFind(value) # 0
           /\ strs' = RemoveAt(strs, StringArrayFind(value)) /\ Changed
  <2>1. strs \in Seq(Strings) /\ \A i, j \in 1..Len(strs) : strs[i] = strs[j] => i = j
    BY DEF ArrayInv, Once
  <2>2. PICK f \in 1..Len(strs) : strs' = RemoveAt(strs, f)
    BY <1>2, <2>1, FindIs
  <2>3. /\ strs' \in Seq(Strings) /\ Len(strs') = Len(strs) - 1
        /\ \A j \in 1..(Len(strs) - 1) : strs'[j] = strs[IF j < f THEN j ELSE j + 1]
    BY <2>1, <2>2, ErasedIs
  <2>4. ASSUME NEW i \in 1..Len(strs'), NEW j \in 1..Len(strs'), strs'[i] = strs'[j]
        PROVE  i = j
    <3>1. PICK x \in 1..Len(strs), y \in 1..Len(strs) :
            /\ x = IF i < f THEN i ELSE i + 1
            /\ y = IF j < f THEN j ELSE j + 1
      BY <2>1, <2>3
    <3>2. strs[x] = strs[y]
      BY <2>3, <2>4, <3>1
    <3>3. x = y
      BY <2>1, <3>2
    <3> QED
      BY <2>1, <2>3, <3>1, <3>3
  <2> QED
    BY <1>2, <2>3, <2>4, ChangedKeeps DEF Once
<1> QED
  BY <1>1, <1>2 DEF StringArrayDelete

\* A pick is one more turn, unless the counter starts over and turns are left out.
LEMMA NextKeeps == ASSUME ArrayInv, StringArrayNext PROVE ArrayInv'
<1>1. CASE UNCHANGED arrayVars
  BY <1>1 DEF ArrayInv, arrayVars, Once, ByTurn, Skips, Turn
<1>2. CASE /\ strs # <<>>
           /\ counter' = (counter + 1) % CounterRange
           /\ picks' = [picks EXCEPT ![Picked] = @ + 1]
           /\ wraps' = IF counter' = 0 THEN wraps + 1 ELSE wraps
           /\ UNCHANGED strs
  <2>1. /\ strs \in Seq(Strings) /\ picks \in [Strings -> Nat] /\ wraps \in Nat
        /\ counter \in 0..(CounterRange - 1) /\ CounterRange \in Nat \ {0}
        /\ counter \in Nat /\ counter + 1 \in Nat
    BY StrArrayConfig DEF ArrayInv
  <2>2. PICK k \in Nat \ {0} : k = Len(strs)
    BY <1>2, <2>1
  <2>3. PICK turn \in 0..(k - 1) : turn = Turn
    <3>1. counter % k \in 0..(k - 1)
      BY <2>1, RemainderRange
    <3> QED
      BY <2>2, <3>1, Zenon DEF Turn
  <2>4. PICK p \in [0..(k - 1) -> Nat] : p = ByTurn
    BY <2>1, <2>2, ByTurnType
  <2>5. PICK skips \in Nat : skips = Skips
    BY <2>1 DEF Skips
  <2>6. Spread(k, p, skips, turn)
    BY <1>2, <2>2, <2>3, <2>4, <2>5 DEF ArrayInv
  <2>7. PICK next \in 0..(k - 1) : next = IF turn = k - 1 THEN 0 ELSE turn + 1
    OBVIOUS
  <2>8. PICK r \in [0..(k - 1) -> Nat] : r = [p EXCEPT ![turn] = @ + 1]
    <3>1. [p EXCEPT ![turn] = p[turn] + 1] \in [0..(k - 1) -> Nat]
      OBVIOUS
    <3> QED
      BY <3>1, Zenon
  <2>9. Spread(k, r, skips, next)
    BY <2>6, <2>7, <2>8, SpreadTurn
  <2>10. Picked \in Strings /\ picks' \in [Strings -> Nat] /\ Picked = strs[turn + 1]
    <3>1. turn + 1 \in 1..Len(strs) /\ Picked = strs[turn + 1]
      BY <2>2, <2>3 DEF Picked
    <3>2. Picked \in Strings
      BY <2>1, <3>1
    <3> QED
      BY <1>2, <2>1, <3>1, <3>2
  <2>11. ByTurn' = r
    <3>1. ASSUME NEW i \in 0..(k - 1) PROVE ByTurn'[i] = r[i]
      <4>1. /\ i + 1 \in 1..Len(strs) /\ turn + 1 \in 1..Len(strs)
            /\ strs[i + 1] \in Strings
        BY <2>1, <2>2
      <4>2. ByTurn'[i] = picks'[strs[i + 1]] /\ p[i] = picks[strs[i + 1]]
        BY <1>2, <2>2, <2>4 DEF ByTurn
      <4>3. strs[i + 1] = strs[turn + 1] <=> i = turn
        BY <4>1 DEF ArrayInv, Once
      <4> QED
        BY <1>2, <2>1, <2>8, <2>10, <4>1, <4>2, <4>3
    <3>2. ByTurn' = [i \in 0..(k - 1) |-> ByTurn'[i]]
      BY <1>2, <2>2 DEF ByTurn
    <3> QED
      BY <3>1, <3>2
  <2>12. Len(strs') = k /\ strs' \in Seq(Strings) /\ Once'
    BY <1>2, <2>1, <2>2 DEF ArrayInv, Once
  <2>13. CASE counter + 1 < CounterRange
    <3>1. counter' = counter + 1 /\ counter' \in 0..(CounterRange - 1) /\ counter' # 0
      <4>1. (counter + 1) % CounterRange = counter + 1
        BY <2>1, <2>13, SmallRemainder
      <4> QED
        BY <1>2, <2>1, <2>13, <4>1
    <3>2. wraps' = wraps /\ wraps' \in Nat
      BY <1>2, <2>1, <3>1
    <3>3. Skips' = skips
      BY <2>2, <2>5, <2>12, <3>2 DEF Skips
    <3>4. Turn' = next
      <4>1. Turn' = (counter + 1) % k
        BY <2>12, <3>1 DEF Turn
      <4>2. (counter + 1) % k = IF counter % k = k - 1 THEN 0 ELSE (counter % k) + 1
        BY <2>1, NextRemainder, Zenon
      <4>3. counter % k = turn
        BY <2>2, <2>3 DEF Turn
      <4> QED
        BY <2>7, <4>1, <4>2, <4>3
    <3>5. Spread(Len(strs'), ByTurn', Skips', Turn')
      BY <2>9, <2>11, <2>12, <3>3, <3>4, Zenon
    <3> QED
      BY <2>10, <2>12, <3>1, <3>2, <3>5, Zenon DEF ArrayInv
  <2>14. CASE ~(counter + 1 < CounterRange)
    <3>1. counter + 1 = CounterRange
      BY <2>1, <2>14
    <3>2. counter' = 0 /\ counter' \in 0..(CounterRange - 1)
      <4>1. CounterRange % CounterRange = 0
        BY <2>1, WholeRemainder, Zenon
      <4>2. counter' = 0
        BY <1>2, <3>1, <4>1, Zenon
      <4> QED
        BY <2>1, <4>2
    <3>3. wraps' = wraps + 1 /\ wraps' \in Nat
      BY <1>2, <2>1, <3>2
    <3>4. Turn' = 0 /\ 0 \in 0..(k - 1)
      <4>1. 0 % k = 0
        OBVIOUS
      <4> QED
        BY <2>12, <3>2, <4>1 DEF Turn
    <3>5. Spread(Len(strs'), ByTurn', Skips', Turn')
      <4>1. CASE CounterRange % k = 0
        <5>1. Skips' = skips
          BY <2>2, <2>5, <2>12, <4>1 DEF Skips
        <5>2. next = 0
          <6>1. (counter + 1) % k = IF counter % k = k - 1 THEN 0 ELSE (counter % k) + 1
            BY <2>1, NextRemainder, Zenon
          <6>2. counter % k = turn
            BY <2>2, <2>3 DEF Turn
          <6> QED
            BY <2>7, <3>1, <4>1, <6>1, <6>2
        <5> QED
          BY <2>9, <2>11, <2>12, <3>4, <5>1, <5>2, Zenon
      <4>2. CASE CounterRange % k # 0
        <5>1. Skips' = skips + 1 /\ skips + 1 \in Nat
          BY <2>2, <2>5, <2>12, <3>3, <4>2 DEF Skips
        <5>2. \A i, j \in 0..(k - 1) : r[i] <= r[j] + (skips + 1)
          <6>1. \A i, j \in 0..(k - 1) : r[i] <= r[j] + 1 + skips
            BY <2>9, SpreadBalanced
          <6>2. ASSUME NEW i \in 0..(k - 1), NEW j \in 0..(k - 1)
                PROVE  r[i] <= r[j] + (skips + 1)
            <7>1. PICK x \in Nat, y \in Nat : x = r[i] /\ y = r[j] /\ x <= y + 1 + skips
              BY <6>1
            <7>2. x <= y + (skips + 1)
              BY <7>1
            <7> QED
              BY <7>1, <7>2, Zenon
          <6> QED
            BY <6>2
        <5>3. Spread(k, r, skips + 1, 0)
          BY <3>4, <5>1, <5>2, SpreadSkip
        <5> QED
          BY <2>11, <2>12, <3>4, <5>1, <5>3, Zenon
      <4> QED
        BY <4>1, <4>2
    <3> QED
      BY <2>10, <2>12, <3>2, <3>3, <3>5, Zenon DEF ArrayInv
  <2> QED
    BY <2>13, <2>14
<1> QED
  BY <1>1, <1>2 DEF StringArrayNext

\* However often the nodes of a service changed and wherever the counter stood, the calls made
\* since then are spread evenly over them, up to the turns that are left out when the counter
\* starts over.
THEOREM TurnsBalanced == SpecArray => []Balanced
<1>1. StringArrayInit => ArrayInv
  BY ArrayStarts
<1>2. ArrayInv /\ [NextArray]_arrayVars => ArrayInv'
  <2> SUFFICES ASSUME ArrayInv, [NextArray]_arrayVars PROVE ArrayInv'
    OBVIOUS
  <2>1. CASE UNCHANGED arrayVars
    BY <2>1 DEF ArrayInv, arrayVars, Once, ByTurn, Skips, Turn
  <2> QED
    BY <2>1, AddKeeps, DeleteKeeps, NextKeeps DEF NextArray
<1>3. ArrayInv => Balanced
  <2> SUFFICES ASSUME ArrayInv, NEW i \in 1..Len(strs), NEW j \in 1..Len(strs)
               PROVE  picks[strs[i]] <= picks[strs[j]] + 1 + Skips
    BY DEF Balanced
  <2>1. PICK k \in Nat \ {0} : k = Len(strs) /\ strs # <<>>
    BY DEF ArrayInv
  <2>2. ByTurn \in [0..(k - 1) -> Nat] /\ Turn \in 0..(k - 1) /\ Skips \in Nat
    <3>1. /\ strs \in Seq(Strings) /\ picks \in [Strings -> Nat] /\ wraps \in Nat
          /\ counter \in Nat
      BY StrArrayConfig DEF ArrayInv
    <3>2. counter % k \in 0..(k - 1)
      BY <3>1, RemainderRange
    <3>3. Turn \in 0..(k - 1)
      BY <2>1, <3>2, Zenon DEF Turn
    <3>4. Skips \in Nat
      BY <3>1 DEF Skips
    <3> QED
      BY <2>1, <3>1, <3>3, <3>4, ByTurnType, Zenon
  <2>3. Spread(k, ByTurn, Skips, Turn)
    BY <2>1 DEF ArrayInv
  <2>4. \A x, y \in 0..(k - 1) : ByTurn[x] <= ByTurn[y] + 1 + Skips
    BY <2>2, <2>3, SpreadBalanced
  <2>5. PICK x \in 0..(k - 1), y \in 0..(k - 1) : x + 1 = i /\ y + 1 = j
    BY <2>1
  <2>6. ByTurn[x] = picks[strs[i]] /\ ByTurn[y] = picks[strs[j]]
    BY <2>1, <2>5 DEF ByTurn
  <2> QED
    BY <2>4, <2>5, <2>6, Zenon
<1> QED
  BY <1>1, <1>2, <1>3, PTL DEF SpecArray
=============================================================================
