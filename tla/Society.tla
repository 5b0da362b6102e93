------------------------------ MODULE Society ------------------------------
(***************************************************************************)
(* The players of one world as they trade, form parties, log in and leave. *)
(* Trade and Party meet in Player::onRemoveCreature, which takes a player  *)
(* out of both, whatever it was doing with whom.                           *)
(***************************************************************************)
EXTENDS Trade, Party

vars == <<online, tradeVars, parties>>

TypeOK ==
    /\ TradeTypeOK /\ PartyTypeOK /\ PartyLimits
    /\ online \subseteq Players

Init == TradeInit /\ PartyInit

\* Game::placeCreature, of a Player object without trade, party or invitations
\* (Presence has what comes before it); autoOpenContainers opens the bags that
\* were open when the player was saved.
Login(p) ==
    /\ p \notin online
    /\ online' = online \cup {p}
    /\ \E open \in SUBSET {b \in Containers : place[b] = p} :
            openContainers' = [openContainers EXCEPT ![p] = open]
    /\ UNCHANGED <<offers, place, owner, parties>>

\* Mutant: the invitations of the player stay.
LeaveSocietyInvited(s, p) == IF s.partyOf[p] # NoParty THEN LeaveParty(s, p) ELSE s

LeaveSociety(s, p) ==
    LET t == ClearInvitations(s, p)
    IN  IF t.partyOf[p] # NoParty THEN LeaveParty(t, p) ELSE t

\* onRemoveCreature: a logout, a kick, a death.
Logout(p) ==
    /\ p \in online
    /\ online' = online \ {p}
    /\ EndTrades(IF tradePartner[p] # Nobody THEN WithPartners({p}) ELSE {})
    /\ openContainers' = [openContainers EXCEPT ![p] = {}]
    /\ parties' = LeaveSociety(parties, p)
    /\ UNCHANGED <<place, owner>>

Next ==
    \/ TradeNext /\ UNCHANGED parties
    \/ PartyNext /\ UNCHANGED tradeVars
    \/ \E p \in Players : Login(p) \/ Logout(p)

Spec == Init /\ [][Next]_vars

-----------------------------------------------------------------------------

\* Who is not in game trades with nobody, has no party and no invitation, and
\* nobody's lists have a pointer to it.
AbsentLeaveNoTrace ==
    \A p \in Players \ online :
        /\ tradeState[p] = "none" /\ \A q \in Players : tradePartner[q] # p
        /\ \A g \in Goods : tradeItems[g] # p
        /\ parties.partyOf[p] = NoParty /\ parties.invitePartyList[p] = {}
        /\ \A k \in Parties :
            p # parties.leader[k] /\ p \notin ToSet(parties.memberList[k]) \cup parties.inviteList[k]
=============================================================================
