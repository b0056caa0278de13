------------------------------ MODULE JobQueueMC ------------------------------
(* Instances of JobQueue for TLC. *)
EXTENDS JobQueue, TLC

Threads == Permutations(Workers) \cup Permutations(Callers)

=============================================================================
