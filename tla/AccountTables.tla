--------------------------- MODULE AccountTables ---------------------------
(***************************************************************************)
(* The account tables of the auth schema as the worlds use them: every     *)
(* world runs its statements one at a time on its main connection, and the *)
(* statements of the worlds interleave.                                    *)
(* Database::executeQuery sends a statement again when the connection was  *)
(* lost: if only the answer was, the statement runs twice, and the caller  *)
(* learns of the second run alone.                                         *)
(***************************************************************************)
EXTENDS Naturals, FiniteSets

CONSTANTS
    Worlds, Accounts,
    MaxFaults,      \* bound: statements that fail, or whose answer is lost
    MaxRequests     \* bound: bans issued and operations on coins

ASSUME TablesAssumption ==
    /\ IsFiniteSet(Worlds) /\ IsFiniteSet(Accounts)
    /\ MaxFaults \in Nat /\ MaxRequests \in Nat

VARIABLES
    faults, requests,
    losses      \* those of the faults that no caller can make good

Answered == UNCHANGED <<faults, losses>>

\* A statement fails, and its caller is told.
Fault == faults < MaxFaults /\ faults' = faults + 1 /\ UNCHANGED losses

\* Its answer is lost, or it fails where the failure is only logged.
Loss == faults < MaxFaults /\ faults' = faults + 1 /\ losses' = losses + 1

Request == requests < MaxRequests /\ requests' = requests + 1
=============================================================================
