---------------------------- MODULE MCInvokeStub ----------------------------
(* InvokeStub for TLC: connections, descriptors and workers are interchangeable. *)
EXTENDS InvokeStub, TLC

CallSymmetry == Permutations(Workers) \cup Permutations(Conns) \cup Permutations(Fds)
=============================================================================
