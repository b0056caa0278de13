------------------------- MODULE ClusterMembershipMC -------------------------
(* Small instances of ClusterMembership for TLC.                            *)
EXTENDS ClusterMembership, TLC

(* Followers, threads and tokens are interchangeable.                       *)
Symmetry == Permutations(Followers) \cup Permutations(Threads) \cup Permutations(Tokens)
==============================================================================
