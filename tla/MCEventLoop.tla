---------------------------- MODULE MCEventLoop ----------------------------
(* The event loop for TLC: threads, and addresses, are interchangeable. *)
EXTENDS EventLoop

Symmetry == Permutations(Threads) \cup Permutations(Addrs)
============================================================================
