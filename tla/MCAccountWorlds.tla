-------------------------- MODULE MCAccountWorlds --------------------------
(***************************************************************************)
(* The instance of AccountWorlds that TLC checks.                          *)
(***************************************************************************)
EXTENDS AccountWorlds, TLC

Symmetry == Permutations(Worlds) \cup Permutations(Bans) \cup Permutations(Accounts)
=============================================================================
