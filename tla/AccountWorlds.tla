--------------------------- MODULE AccountWorlds ---------------------------
(***************************************************************************)
(* Worlds that share the account tables: a dispatcher finishes with a ban  *)
(* before it turns to coins and the other way round, and a ban that stands *)
(* keeps its account out, unless it could not be read.                     *)
(* A world may crash between two statements of an operation and start      *)
(* again; the tables stay.                                                 *)
(***************************************************************************)
EXTENDS Bans, Coins

vars == <<faults, losses, requests, banVars, coinVars>>

TypeOK ==
    /\ losses \in 0..faults /\ faults \in 0..MaxFaults /\ requests \in 0..MaxRequests
    /\ BansTypeOK /\ CoinsTypeOK

Init == faults = 0 /\ losses = 0 /\ requests = 0 /\ BansInit /\ CoinsInit

Banned(a) == bans[a] \in issued \ expired

\* The login's check of the ban; isAccountBanned takes a failed read for no ban.
\* (The check and the read of the coins are two statements, and one step here.)
Admitted(w) ==
    \A a \in Accounts :
        InGame(w, a)' /\ ~ InGame(w, a) /\ Banned(a) => faults' > faults /\ cache'[w][a] = row[a]

\* Nobody finishes what a world was at when it crashed. The other players'
\* copies are gone with it.
Crash(w) ==
    /\ ~ NotOnBans(w) \/ ~ NotOnCoins(w)
    /\ Loss
    /\ found' = [found EXCEPT ![w] = {}]
    /\ removed' = [removed EXCEPT ![w] = NoBan]
    /\ op' = [op EXCEPT ![w] = Idle]
    /\ cache' = [cache EXCEPT ![w] = [a \in Accounts |-> NoSession]]
    /\ spentElsewhere' = [spentElsewhere EXCEPT ![w] = [a \in Accounts |-> None]]
    /\ UNCHANGED <<requests, bans, issued, expired, lifted, history, row, ledger, outside>>

Next ==
    \/ \E w \in Worlds : Crash(w)
    \/ (BansScripts \/ \E w \in Worlds : NotOnCoins(w) /\ BansStep(w)) /\ UNCHANGED coinVars
    \/ (\E w \in Worlds : NotOnBans(w) /\ CoinsStep(w) /\ Admitted(w)) /\ UNCHANGED banVars

Spec == Init /\ [][Next]_vars
=============================================================================
