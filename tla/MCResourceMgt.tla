---------------------------- MODULE MCResourceMgt ----------------------------
(* ResourceMgt for TLC: keys, services, addresses and threads are interchangeable. *)
EXTENDS ResourceMgt, TLC

TableSymmetry == Permutations(Services) \cup Permutations(Keys) \cup Permutations(Items)
                 \cup Permutations(Nodes) \cup Permutations(Workers) \cup Permutations(Writers)

\* Not a property of this code: NodesInUseAlive without its exception, for the worker that
\* waited for the lock of a pool while it was emptied.
NodeOutlivesUse == \A w \in Workers : ipc[w] = "working" => w \notin dangling
=============================================================================
