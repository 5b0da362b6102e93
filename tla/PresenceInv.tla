---------------------------- MODULE PresenceInv ----------------------------
(***************************************************************************)
(* The inductive invariant behind CaughtLostClaims and ClaimsOutliveRivals,*)
(* and at the end what NoOrphans and others need besides.                  *)
(***************************************************************************)
EXTENDS Presence

LoginPhase  == {"insert", "lookup", "takeover", "admit"}
NobodyPhase == {"down", "starting", "retireBeat", "closing"}

\* Everything of world w and account a that carries token t.
Carries(w, a, t) ==
    \/ token[w][a] = t
    \/ <<a, t>> \in releases[w]
    \/ login[w].account = a /\ login[w].token = t
    \/ row[a] = [world |-> w, token |-> t]

\* A token belongs to one world and one account for as long as anything
\* carries it ...
TokensNameOneClaim ==
    \A v, w \in Worlds : \A a, b \in Accounts : \A t \in Tokens :
        Carries(v, a, t) /\ Carries(w, b, t) => v = w /\ a = b

\* ... and is carried by a player, by a login or by a queued release, never two.
OneCarrier ==
    \A w \in Worlds, a \in Accounts, t \in Tokens :
        /\ <<a, t>> \in releases[w] => token[w][a] # t /\ login[w].token # t
        /\ login[w].token = t => token[w][a] # t

\* The login a dispatcher is in: of an account that is not in game here.
LoginsAreLocal ==
    \A w \in Worlds :
        /\ pc[w] \in LoginPhase <=> login[w].account # NoAccount
        /\ login[w].account = NoAccount => login[w].token = NoToken
        /\ login[w].account \notin players[w]
        /\ pc[w] \in LoginPhase \ {"admit"} => login[w].token # NoToken

\* Only players hold claims, and none does while nobody can be in game.
ClaimsNeedPlayers ==
    \A w \in Worlds, a \in Accounts :
        token[w][a] # NoToken => a \in players[w] /\ pc[w] \notin NobodyPhase

\* A running world has a heartbeat row ...
HeartbeatKept == \A w \in Worlds : beat[w] = Missing => pc[w] \in NobodyPhase \ {"retireBeat"}

\* ... and a beat in flight measures at least the age it reached, but for the
\* jumps of the database's clock.
MeasureCoversAge ==
    \A w \in Worlds :
        flight[w] = "replied" /\ beat[w] # Missing =>
            measured[w] >= Threshold \/ measured[w] + drift[w] >= beat[w]

IInv ==
    /\ TypeOK
    /\ TokensNameOneClaim
    /\ OneCarrier
    /\ LoginsAreLocal
    /\ ClaimsNeedPlayers
    /\ HeartbeatKept
    /\ MeasureCoversAge
    /\ CaughtLostClaims

-----------------------------------------------------------------------------
(* What NoOrphans, KicksOnlyTheLost and LandedClaimsAdmit need besides     *)

ClaimPhase == LoginPhase \ {"admit"}

\* A world that starts has cleared its rows.
StartsClear == \A w \in Worlds, a \in Accounts : pc[w] = "starting" => row[a].world # w

\* As long as no answer was lost, a login that still has to win its claim has not.
ClaimsAreWonOnce ==
    faults = 0 => \A w \in Worlds :
        pc[w] \in ClaimPhase => row[login[w].account] # Mine(w)

\* Whom a reconcile is about to kick has lost its claim.
VictimsLost ==
    \A w \in Worlds, a \in Accounts :
        pc[w] = "kicking" /\ a \in victims[w] =>
            /\ token[w][a] # NoToken
            /\ row[a] # [world |-> w, token |-> token[w][a]]

\* For LandedClaimsAdmit: what a login is about to take over is not its own claim.
RivalsOnly == \A w \in Worlds : pc[w] = "takeover" => login[w].holder # login[w].token

OwnersInv == NoOrphans /\ StartsClear /\ ClaimsAreWonOnce /\ VictimsLost
=============================================================================
