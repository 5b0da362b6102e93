--------------------------- MODULE MCTaskThreads ---------------------------
(***************************************************************************)
(* The instances of TaskThreads that TLC checks.                           *)
(***************************************************************************)
EXTENDS TaskThreadsInv
=============================================================================
