---------------------------- MODULE DesktopPoolMC ----------------------------
(* Small instances of DesktopPool for TLC.                                  *)
EXTENDS DesktopPool, TLC

CONSTANT g1

(* No limit, and a limit of one time unit.                                  *)
Unlimited == [p \in Pools |-> 0]
Limited == [p \in Pools |-> 1]

(* One class for all slots, and no class at all.                            *)
OneClass == (g1 :> Slots)
NoGpu == [g \in Classes |-> {}]

(* Threads, VMs and users are interchangeable.                              *)
Symmetry == Permutations(Threads) \cup Permutations(VMs) \cup Permutations(Users)
==============================================================================
