------------------------------- MODULE Online -------------------------------
(***************************************************************************)
(* The players that are in game in one world: what trades and parties look *)
(* up with getPlayerByID before they do anything.                          *)
(***************************************************************************)
CONSTANTS Players, Nobody

ASSUME OnlineAssumption == Nobody \notin Players

VARIABLE online
=============================================================================
