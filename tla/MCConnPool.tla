----------------------------- MODULE MCConnPool -----------------------------
(* ConnPool for TLC, with the state that shows how far a late worker gets.  *)
EXTENDS ConnPool

\* Not a property of this code: pool_destroy has unlocked the pool before the node is freed,
\* so that a worker that waited for the lock may have a connection of a pool that is gone.
FreedPoolUnused == phase = "destroyed" => \A w \in Workers : step[w] = "out"
=============================================================================
