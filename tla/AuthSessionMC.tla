--------------------------- MODULE AuthSessionMC ---------------------------
(* Small instances of AuthSession for TLC.  Request threads are            *)
(* interchangeable, and so are accounts.                                   *)
EXTENDS AuthSession, TLC

Interchangeable == Permutations(Threads) \cup Permutations(Users)

=============================================================================
