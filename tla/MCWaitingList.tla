--------------------------- MODULE MCWaitingList ---------------------------
(***************************************************************************)
(* The instance of WaitingList that TLC checks.                            *)
(***************************************************************************)
EXTENDS WaitingList
=============================================================================
