------------------------- MODULE MCClusterElection -------------------------
(* ClusterElection for TLC.                                                *)
EXTENDS ClusterElection, TLC

\* The masters are alike, and so are the replicas.
Alike == Permutations(Replicas) \cup Permutations(Masters)
=============================================================================
