-------------------------- MODULE MCRefreshSessions --------------------------
(* Small instances of RefreshSessions for TLC. *)
EXTENDS RefreshSessions, TLC

Symmetry ==
  Permutations(Users) \cup Permutations(Families) \cup Permutations(Calls)
=============================================================================
