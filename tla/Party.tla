------------------------------- MODULE Party -------------------------------
(***************************************************************************)
(* Parties of players (party.cpp, game.cpp 7271-7406, player.cpp           *)
(* 5383-5426). A request may end in a chain of calls (an invitation is     *)
(* withdrawn, the party is empty, it disbands): every call is an operator  *)
(* from the state of all parties to the next one, and a request applies    *)
(* them one after the other.                                               *)
(* The entry of a disbanded party stays in _game_parties; nobody holds its *)
(* number any more, and the model gives the number to a later party.       *)
(***************************************************************************)
EXTENDS Online, Naturals, Sequences, SequencesExt, FiniteSets, FiniteSetsExt

CONSTANTS Parties, NoParty, MaxMembers, MaxInvites

ASSUME PartyAssumption ==
    /\ NoParty \notin Parties
    /\ MaxMembers \in Nat \ {0} /\ MaxInvites \in Nat \ {0}

VARIABLE parties    \* every party, and the party and invitations of every player

\* A party takes up to MaxMembers players beside its leader, and no more
\* invitations than the configuration allows.
PartyLimits ==
    \A k \in Parties : /\ Len(parties.memberList[k]) <= MaxMembers
                       /\ Cardinality(parties.inviteList[k]) <= MaxInvites

PartyTypeOK ==
    parties \in [partyOf         : [Players -> Parties \cup {NoParty}],
                 invitePartyList : [Players -> SUBSET Parties],
                 leader          : [Parties -> Players \cup {Nobody}],
                 memberList      : [Parties -> Seq(Players)],
                 inviteList      : [Parties -> SUBSET Players]]

PartyInit ==
    parties = [partyOf         |-> [p \in Players |-> NoParty],
               invitePartyList |-> [p \in Players |-> {}],
               leader          |-> [k \in Parties |-> Nobody],
               memberList      |-> [k \in Parties |-> << >>],
               inviteList      |-> [k \in Parties |-> {}]]

-----------------------------------------------------------------------------
(* What party.cpp does to the state s                                      *)

Make(s, k, p) == [s EXCEPT !.leader[k] = p, !.partyOf[p] = k]

Empty(s, k) == s.memberList[k] = << >> /\ s.inviteList[k] = {}

\* Mutant: the invitations of a disbanded party stay with the invited.
DisbandKeepingInvitations(s, k) ==
    [s EXCEPT !.partyOf = [p \in Players |->
                  IF p = s.leader[k] \/ p \in ToSet(s.memberList[k]) THEN NoParty ELSE @[p]],
              !.leader[k] = Nobody, !.memberList[k] = << >>, !.inviteList[k] = {}]

Disband(s, k) ==
    [s EXCEPT !.partyOf = [p \in Players |->
                  IF p = s.leader[k] \/ p \in ToSet(s.memberList[k]) THEN NoParty ELSE @[p]],
              !.invitePartyList = [p \in Players |->
                  IF p \in s.inviteList[k] THEN @[p] \ {k} ELSE @[p]],
              !.leader[k] = Nobody, !.memberList[k] = << >>, !.inviteList[k] = {}]

DisbandIfEmpty(s, k) == IF Empty(s, k) THEN Disband(s, k) ELSE s

Withdraw(s, k, p) ==
    [s EXCEPT !.inviteList[k] = @ \ {p}, !.invitePartyList[p] = @ \ {k}]

\* Mutant: a party whose last invitation is withdrawn is kept.
RemoveInviteOnly(s, k, p) == Withdraw(s, k, p)

RemoveInvite(s, k, p) ==
    IF p \in s.inviteList[k] THEN DisbandIfEmpty(Withdraw(s, k, p), k) ELSE s

\* Player::clearPartyInvitations
ClearInvitations(s, p) ==
    FoldSet(LAMBDA k, t : RemoveInvite(t, k, p), s, s.invitePartyList[p])

\* Mutant: the new leader stays on the list of members.
PassLeadershipTwice(s, k, p) ==
    [s EXCEPT !.leader[k] = p, !.memberList[k] = <<s.leader[k]>> \o @]

\* The old leader becomes the first of the members.
PassLeadership(s, k, p) ==
    [s EXCEPT !.leader[k] = p,
              !.memberList[k] = <<s.leader[k]>> \o RemoveFirst(@, p)]

\* What is left of a party without its leader: nobody, or one member and no
\* invitation.
EndsWithLeader(s, k) ==
    \/ s.memberList[k] = << >>
    \/ Len(s.memberList[k]) = 1 /\ s.inviteList[k] = {}

Erase(s, k, p) == [s EXCEPT !.memberList[k] = RemoveFirst(@, p), !.partyOf[p] = NoParty]

LeaveParty(s, p) ==
    LET k == s.partyOf[p]
    IN  IF s.leader[k] = p
        THEN IF EndsWithLeader(s, k)
             THEN Disband(Erase(s, k, p), k)
             ELSE DisbandIfEmpty(Erase(PassLeadership(s, k, Head(s.memberList[k])), k, p), k)
        ELSE DisbandIfEmpty(Erase(s, k, p), k)

-----------------------------------------------------------------------------
(* The requests of the players                                             *)

Leads(p, k) == k # NoParty /\ parties.partyOf[p] = k /\ parties.leader[k] = p

\* Mutant: the invitations are not counted.
MoreInvites(k) == TRUE

MayInviteMore(k) == Cardinality(parties.inviteList[k]) < MaxInvites

\* The party p invites to: its own if it leads one, a new one if it has none.
InvitingParty(p, k) ==
    \/ Leads(p, k)
    \/ parties.partyOf[p] = NoParty /\ parties.leader[k] = Nobody

InviteToParty(p, q) ==
    /\ p \in online /\ q \in online \ {p}
    /\ parties.partyOf[q] = NoParty
    /\ \E k \in Parties :
        /\ InvitingParty(p, k)
        /\ q \notin parties.inviteList[k]
        /\ MayInviteMore(k)
        /\ parties' = [Make(parties, k, p) EXCEPT
                            !.inviteList[k] = @ \cup {q}, !.invitePartyList[q] = @ \cup {k}]
    /\ UNCHANGED online

\* Mutant: the list of invitations is not asked.
JoinUninvited(p, k) ==
    /\ p \in online
    /\ \E q \in online : Leads(q, k)
    /\ parties.partyOf[p] = NoParty
    /\ Len(parties.memberList[k]) < MaxMembers
    /\ parties' = [Withdraw(parties, k, p) EXCEPT
                        !.partyOf[p] = k, !.memberList[k] = Append(@, p)]
    /\ UNCHANGED online

\* The leader is not counted among the members.
JoinParty(p, k) ==
    /\ p \in online /\ p \in parties.inviteList[k]
    /\ \E q \in online : Leads(q, k)
    /\ parties.partyOf[p] = NoParty
    /\ Len(parties.memberList[k]) < MaxMembers
    /\ parties' = [Withdraw(parties, k, p) EXCEPT
                        !.partyOf[p] = k, !.memberList[k] = Append(@, p)]
    /\ UNCHANGED online

RevokePartyInvitation(p, q) ==
    /\ p \in online /\ q \in online
    /\ \E k \in Parties :
        /\ Leads(p, k) /\ q \in parties.inviteList[k]
        /\ parties' = RemoveInvite(parties, k, q)
    /\ UNCHANGED online

PassPartyLeadership(p, q) ==
    /\ p \in online /\ q \in online \ {p}
    /\ \E k \in Parties :
        /\ Leads(p, k) /\ parties.partyOf[q] = k
        /\ parties' = PassLeadership(parties, k, q)
    /\ UNCHANGED online

\* Unless the player is in a fight.
PlayerLeaveParty(p) ==
    /\ p \in online
    /\ parties.partyOf[p] # NoParty
    /\ parties' = LeaveParty(parties, p)
    /\ UNCHANGED online

PartyNext ==
    \E p \in Players :
        \/ PlayerLeaveParty(p)
        \/ \E q \in Players : InviteToParty(p, q) \/ RevokePartyInvitation(p, q) \/ PassPartyLeadership(p, q)
        \/ \E k \in Parties : JoinParty(p, k)

-----------------------------------------------------------------------------
(* Properties                                                              *)

\* A player's party number names a party that has the player, once, as its
\* leader or as a member, and a party has nobody else: whoever leaves, logs out
\* or is disbanded is gone from both sides (Party::disband, leaveParty).
MembershipAgrees ==
    /\ \A k \in Parties : \A p \in Players :
        parties.partyOf[p] = k <=> p = parties.leader[k] \/ p \in ToSet(parties.memberList[k])
    /\ \A k \in Parties :
        /\ IsInjective(parties.memberList[k])
        /\ parties.leader[k] \notin ToSet(parties.memberList[k])

\* An invitation is known to the party and to the invited player, and only a
\* party that still exists invites, and nobody it already has.
InvitationsAgree ==
    \A k \in Parties : \A p \in Players :
        /\ p \in parties.inviteList[k] <=> k \in parties.invitePartyList[p]
        /\ p \in parties.inviteList[k] => parties.leader[k] # Nobody /\ parties.partyOf[p] # k

\* A party of a leader alone, who has invited nobody, does not stay: whichever
\* call took the last one out disbands it, or nobody could invite its leader.
NobodyIsAlone ==
    \A k \in Parties : parties.leader[k] # Nobody => ~ Empty(parties, k)

\* Nobody gets into a party but by an invitation that stood, except by making
\* it, and nobody who is in one gets into another or becomes a leader of one it
\* was no member of.
JoinsByInvitation ==
    [][ \A p \in Players : \A k \in Parties :
            /\ parties'.partyOf[p] = k
            => \/ parties.partyOf[p] = k
               \/ parties.partyOf[p] = NoParty /\ parties.leader[k] = Nobody
               \/ parties.partyOf[p] = NoParty /\ p \in parties.inviteList[k] ]_parties

-----------------------------------------------------------------------------
(* What the proofs need beside the properties                              *)

\* A party without a leader has no members, and lists are finite.
PartyInv ==
    /\ PartyTypeOK /\ PartyLimits /\ MembershipAgrees /\ InvitationsAgree /\ NobodyIsAlone
    /\ \A k \in Parties : /\ parties.leader[k] = Nobody => parties.memberList[k] = << >>
                          /\ IsFiniteSet(parties.inviteList[k])
    /\ \A p \in Players : IsFiniteSet(parties.invitePartyList[p])

\* What AbsentLeaveNoTrace says of parties, from which the rest follows.
PartiesPresent ==
    \A p \in Players \ online :
        parties.partyOf[p] = NoParty /\ parties.invitePartyList[p] = {}
=============================================================================
