---------------------------- MODULE PartyProofs ----------------------------
(***************************************************************************)
(* Theorems about parties, for any players and parties and any limits, and *)
(* what the society owes to both its halves: that every variable has its   *)
(* type, and that a player who is gone is in no trade, party or invitation. *)
(* The functions of Party map a state of parties to another one; the lemmas *)
(* say of each that it keeps the state good, and mostly that it only shrinks. *)
(***************************************************************************)
EXTENDS SocietyProofs, DataLemmas

USE OnlineAssumption, TradeAssumption, PartyAssumption

-----------------------------------------------------------------------------
(* The state of parties as a value                                         *)

PartyStates ==
    [partyOf         : [Players -> Parties \cup {NoParty}],
     invitePartyList : [Players -> SUBSET Parties],
     leader          : [Parties -> Players \cup {Nobody}],
     memberList      : [Parties -> Seq(Players)],
     inviteList      : [Parties -> SUBSET Players]]

\* Party k and its players know of each other, in state s.
Agrees(s, k) ==
    /\ \A p \in Players : s.partyOf[p] = k <=> p = s.leader[k] \/ p \in ToSet(s.memberList[k])
    /\ IsInjective(s.memberList[k]) /\ s.leader[k] \notin ToSet(s.memberList[k])
    /\ s.leader[k] = Nobody => s.memberList[k] = << >>

\* So do party k and those it invites.
Invites(s, k) ==
    \A p \in Players : p \in s.inviteList[k] <=> k \in s.invitePartyList[p]

Uninvolved(s, k) ==
    \A p \in Players : p \in s.inviteList[k] => s.leader[k] # Nobody /\ s.partyOf[p] # k

Alone(s, k) == s.leader[k] # Nobody /\ Empty(s, k)

\* All of it, but that party k may be alone.
Standing(s, k) == Agrees(s, k) /\ Invites(s, k) /\ Uninvolved(s, k)

Good(s) == s \in PartyStates /\ \A k \in Parties : Standing(s, k) /\ ~ Alone(s, k)

GoodBut(s, k) ==
    /\ s \in PartyStates /\ \A j \in Parties : Standing(s, j)
    /\ \A j \in Parties \ {k} : ~ Alone(s, j)

\* The limits, and that lists are finite.
Bounded(s) ==
    /\ \A k \in Parties : /\ Len(s.memberList[k]) <= MaxMembers
                          /\ IsFiniteSet(s.inviteList[k])
                          /\ Cardinality(s.inviteList[k]) <= MaxInvites
    /\ \A p \in Players : IsFiniteSet(s.invitePartyList[p])

\* Nobody gets into a party or is invited from s to t, and no list gets longer.
Shrinks(s, t) ==
    /\ \A p \in Players : /\ t.partyOf[p] \in {s.partyOf[p], NoParty}
                          /\ t.invitePartyList[p] \subseteq s.invitePartyList[p]
    /\ \A k \in Parties : /\ t.inviteList[k] \subseteq s.inviteList[k]
                          /\ Len(t.memberList[k]) <= Len(s.memberList[k])

\* From s to t only party k is touched.
Touches(s, t, k) ==
    /\ \A j \in Parties \ {k} : /\ t.leader[j] = s.leader[j]
                                /\ t.memberList[j] = s.memberList[j]
                                /\ t.inviteList[j] = s.inviteList[j]
    /\ \A p \in Players : \A j \in Parties \ {k} :
        /\ t.partyOf[p] = j <=> s.partyOf[p] = j
        /\ j \in t.invitePartyList[p] <=> j \in s.invitePartyList[p]

\* The invariant, now and after a step, as a property of a state of parties.
LEMMA PartyInvIsGood ==
  /\ PartyInv <=> Good(parties) /\ Bounded(parties)
  /\ PartyInv' <=> Good(parties') /\ Bounded(parties')
  BY DEF PartyInv, PartyTypeOK, PartyLimits, MembershipAgrees, InvitationsAgree, NobodyIsAlone,
     Good, Bounded, PartyStates, Standing, Agrees, Invites, Uninvolved, Alone

\* Who touches one party leaves the others standing.
LEMMA OthersStand ==
  ASSUME NEW s, NEW t, NEW k \in Parties, GoodBut(s, k), t \in PartyStates, Touches(s, t, k),
         Standing(t, k)
  PROVE  GoodBut(t, k)
<1>. SUFFICES ASSUME NEW j \in Parties \ {k} PROVE Standing(t, j) /\ ~ Alone(t, j)
  BY DEF GoodBut
<1>1. Standing(s, j) /\ ~ Alone(s, j)
  BY DEF GoodBut
<1>2. /\ t.leader[j] = s.leader[j] /\ t.memberList[j] = s.memberList[j]
      /\ t.inviteList[j] = s.inviteList[j]
      /\ \A p \in Players : /\ t.partyOf[p] = j <=> s.partyOf[p] = j
                            /\ j \in t.invitePartyList[p] <=> j \in s.invitePartyList[p]
  BY DEF Touches
<1>3. Agrees(t, j)
  BY <1>1, <1>2 DEF Standing, Agrees
<1>4. Invites(t, j) /\ Uninvolved(t, j) /\ ~ Alone(t, j)
  BY <1>1, <1>2 DEF Standing, Invites, Uninvolved, Alone, Empty
<1>. QED
  BY <1>3, <1>4 DEF Standing

\* To shrink twice is to shrink.
LEMMA ShrinksOn ==
  ASSUME NEW s \in PartyStates, NEW t \in PartyStates, NEW u \in PartyStates,
         Shrinks(s, t), Shrinks(t, u)
  PROVE  Shrinks(s, u)
<1>1. \A k \in Parties : /\ Len(s.memberList[k]) \in Nat /\ Len(t.memberList[k]) \in Nat
                         /\ Len(u.memberList[k]) \in Nat
  BY DEF PartyStates
<1>. QED
  BY <1>1 DEF Shrinks

\* A state that shrinks keeps to the limits.
LEMMA BoundsShrink ==
  ASSUME NEW s \in PartyStates, NEW t \in PartyStates, Bounded(s), Shrinks(s, t)
  PROVE  Bounded(t)
<1>1. ASSUME NEW k \in Parties
      PROVE  /\ Len(t.memberList[k]) <= MaxMembers /\ IsFiniteSet(t.inviteList[k])
             /\ Cardinality(t.inviteList[k]) <= MaxInvites
  <2>1. /\ Len(s.memberList[k]) \in Nat /\ Len(t.memberList[k]) \in Nat
        /\ IsFiniteSet(s.inviteList[k]) /\ Cardinality(s.inviteList[k]) <= MaxInvites
        /\ Len(s.memberList[k]) <= MaxMembers
    BY DEF PartyStates, Bounded
  <2>2. t.inviteList[k] \subseteq s.inviteList[k] /\ Len(t.memberList[k]) <= Len(s.memberList[k])
    BY DEF Shrinks
  <2>3. /\ IsFiniteSet(t.inviteList[k])
        /\ Cardinality(t.inviteList[k]) <= Cardinality(s.inviteList[k])
    BY <2>1, <2>2, FS_Subset
  <2>4. Cardinality(t.inviteList[k]) \in Nat /\ Cardinality(s.inviteList[k]) \in Nat
    BY <2>1, <2>3, FS_CardinalityType
  <2>. QED
    BY <2>1, <2>2, <2>3, <2>4
<1>2. ASSUME NEW p \in Players PROVE IsFiniteSet(t.invitePartyList[p])
  BY FS_Subset DEF Bounded, Shrinks
<1>. QED
  BY <1>1, <1>2 DEF Bounded

-----------------------------------------------------------------------------
(* What the calls of party.cpp do                                          *)

\* The party that Disband ends: it has no other players than it knows of, and
\* none that is in another party.
Endable(s, k) ==
    /\ s \in PartyStates /\ Invites(s, k)
    /\ \A p \in Players :
        /\ s.partyOf[p] = k => p = s.leader[k] \/ p \in ToSet(s.memberList[k])
        /\ p = s.leader[k] \/ p \in ToSet(s.memberList[k]) => s.partyOf[p] \in {k, NoParty}

\* Disbanding a party whose players know of it leaves no trace of it.
LEMMA Disbanded ==
  ASSUME NEW s, NEW k \in Parties, Endable(s, k)
  PROVE  /\ Disband(s, k) \in PartyStates /\ Touches(s, Disband(s, k), k)
         /\ Standing(Disband(s, k), k) /\ ~ Alone(Disband(s, k), k) /\ Shrinks(s, Disband(s, k))
<1>0. PICK t : t = Disband(s, k)
  OBVIOUS
<1>1. << >> \in Seq(Players) /\ ToSet(<< >>) = {} /\ IsInjective(<< >>) /\ Len(<< >>) = 0
  BY DEF ToSet, IsInjective
<1>2. /\ t \in PartyStates
      /\ t.leader[k] = Nobody /\ t.memberList[k] = << >> /\ t.inviteList[k] = {}
      /\ \A j \in Parties \ {k} : /\ t.leader[j] = s.leader[j]
                                  /\ t.memberList[j] = s.memberList[j]
                                  /\ t.inviteList[j] = s.inviteList[j]
  BY <1>0, <1>1 DEF Endable, Disband, PartyStates
<1>3. ASSUME NEW p \in Players
      PROVE  /\ t.partyOf[p] # k /\ t.partyOf[p] \in {s.partyOf[p], NoParty}
             /\ t.partyOf[p] # s.partyOf[p] => s.partyOf[p] \in {k, NoParty}
  <2>1. t.partyOf[p] = IF p = s.leader[k] \/ p \in ToSet(s.memberList[k])
                       THEN NoParty ELSE s.partyOf[p]
    BY <1>0 DEF Endable, Disband, PartyStates
  <2>2. CASE p = s.leader[k] \/ p \in ToSet(s.memberList[k])
    BY <2>1, <2>2 DEF Endable
  <2>3. CASE ~ (p = s.leader[k] \/ p \in ToSet(s.memberList[k]))
    BY <2>1, <2>3 DEF Endable
  <2>. QED
    BY <2>2, <2>3
<1>4. ASSUME NEW p \in Players PROVE t.invitePartyList[p] = s.invitePartyList[p] \ {k}
  <2>1. t.invitePartyList[p] = IF p \in s.inviteList[k] THEN s.invitePartyList[p] \ {k}
                               ELSE s.invitePartyList[p]
    BY <1>0 DEF Endable, Disband, PartyStates
  <2>. QED
    BY <2>1 DEF Endable, Invites
<1>5. Touches(s, t, k)
  <2>1. ASSUME NEW p \in Players, NEW j \in Parties \ {k}
        PROVE  /\ t.partyOf[p] = j <=> s.partyOf[p] = j
               /\ j \in t.invitePartyList[p] <=> j \in s.invitePartyList[p]
    BY <1>3, <1>4
  <2>. QED
    BY <1>2, <2>1 DEF Touches
<1>6. Standing(t, k) /\ ~ Alone(t, k)
  BY <1>1, <1>2, <1>3, <1>4 DEF Standing, Agrees, Invites, Uninvolved, Alone
<1>7. Shrinks(s, t)
  <2>1. \A j \in Parties : Len(s.memberList[j]) \in Nat
    BY DEF Endable, PartyStates
  <2>2. ASSUME NEW j \in Parties
        PROVE  /\ t.inviteList[j] \subseteq s.inviteList[j]
               /\ Len(t.memberList[j]) <= Len(s.memberList[j])
    BY <1>1, <1>2, <2>1
  <2>. QED
    BY <1>3, <1>4, <2>2 DEF Shrinks
<1>. QED
  BY <1>0, <1>2, <1>5, <1>6, <1>7

\* A party that may be alone is either kept, or disbanded if it is.
LEMMA DisbandedIfEmpty ==
  ASSUME NEW s, NEW k \in Parties, GoodBut(s, k)
  PROVE  Good(DisbandIfEmpty(s, k)) /\ Shrinks(s, DisbandIfEmpty(s, k))
<1>1. s \in PartyStates /\ Standing(s, k)
  BY DEF GoodBut
<1>2. CASE Empty(s, k)
  <2>1. Endable(s, k)
    BY <1>1 DEF Standing, Agrees, Endable
  <2>. DEFINE t == Disband(s, k)
  <2>2. t \in PartyStates /\ Touches(s, t, k) /\ Standing(t, k) /\ ~ Alone(t, k) /\ Shrinks(s, t)
    BY <2>1, Disbanded
  <2>. HIDE DEF t
  <2>3. GoodBut(t, k)
    BY <2>2, OthersStand
  <2>4. Good(t)
    BY <2>2, <2>3 DEF Good, GoodBut
  <2>. QED
    BY <1>2, <2>2, <2>4 DEF DisbandIfEmpty, t
<1>3. CASE ~ Empty(s, k)
  <2>1. Good(s)
    BY <1>3 DEF Good, GoodBut, Alone
  <2>2. \A j \in Parties : Len(s.memberList[j]) \in Nat
    BY <1>1 DEF PartyStates
  <2>. QED
    BY <1>3, <2>1, <2>2 DEF DisbandIfEmpty, Shrinks
<1>. QED
  BY <1>2, <1>3

\* An invitation that is removed is gone from both sides.
LEMMA InviteRemoved ==
  ASSUME NEW s, NEW k \in Parties, NEW p \in Players, Good(s)
  PROVE  /\ Good(RemoveInvite(s, k, p)) /\ Shrinks(s, RemoveInvite(s, k, p))
         /\ k \notin RemoveInvite(s, k, p).invitePartyList[p]
<1>1. s \in PartyStates /\ Standing(s, k) /\ GoodBut(s, k)
  BY DEF Good, GoodBut
<1>2. \A j \in Parties : Len(s.memberList[j]) \in Nat
  BY <1>1 DEF PartyStates
<1>3. CASE p \in s.inviteList[k]
  <2>. DEFINE t == Withdraw(s, k, p)
              u == DisbandIfEmpty(t, k)
  <2>1. /\ t \in PartyStates
        /\ t.leader = s.leader /\ t.memberList = s.memberList /\ t.partyOf = s.partyOf
        /\ t.inviteList[k] = s.inviteList[k] \ {p}
        /\ \A j \in Parties \ {k} : t.inviteList[j] = s.inviteList[j]
        /\ t.invitePartyList[p] = s.invitePartyList[p] \ {k}
        /\ \A q \in Players \ {p} : t.invitePartyList[q] = s.invitePartyList[q]
    BY <1>1 DEF Withdraw, PartyStates
  <2>. HIDE DEF t
  <2>2. Touches(s, t, k) /\ Shrinks(s, t)
    BY <1>2, <2>1 DEF Touches, Shrinks
  <2>3. Standing(t, k)
    BY <1>1, <2>1 DEF Standing, Agrees, Invites, Uninvolved
  <2>4. GoodBut(t, k)
    BY <1>1, <2>1, <2>2, <2>3, OthersStand
  <2>5. Good(u) /\ Shrinks(t, u)
    BY <2>4, DisbandedIfEmpty
  <2>. HIDE DEF u
  <2>6. u \in PartyStates
    BY <2>5 DEF Good
  <2>7. Shrinks(s, u)
    BY <1>1, <2>1, <2>2, <2>5, <2>6, ShrinksOn
  <2>8. k \notin u.invitePartyList[p]
    BY <2>1, <2>5 DEF Shrinks
  <2>. QED
    BY <1>3, <2>5, <2>7, <2>8 DEF RemoveInvite, t, u
<1>4. CASE p \notin s.inviteList[k]
  <2>1. k \notin s.invitePartyList[p]
    BY <1>1, <1>4 DEF Standing, Invites
  <2>2. Shrinks(s, s)
    BY <1>2 DEF Shrinks
  <2>. QED
    BY <1>4, <2>1, <2>2 DEF RemoveInvite
<1>. QED
  BY <1>3, <1>4

\* To touch one party twice is to touch one party.
LEMMA TouchesOn ==
  ASSUME NEW s, NEW t, NEW u, NEW k, Touches(s, t, k), Touches(t, u, k)
  PROVE  Touches(s, u, k)
  BY DEF Touches

\* A member that is erased is in no party.
LEMMA MemberErased ==
  ASSUME NEW s, NEW k \in Parties, NEW p \in Players, GoodBut(s, k), p \in ToSet(s.memberList[k])
  PROVE  /\ GoodBut(Erase(s, k, p), k) /\ Shrinks(s, Erase(s, k, p))
         /\ Erase(s, k, p).partyOf[p] = NoParty
<1>0. PICK t : t = Erase(s, k, p)
  OBVIOUS
<1>1. s \in PartyStates /\ Standing(s, k)
  BY DEF GoodBut
<1>2. /\ s.memberList[k] \in Seq(Players) /\ IsInjective(s.memberList[k])
      /\ p # s.leader[k] /\ s.partyOf[p] = k /\ s.leader[k] # Nobody
  <2>1. s.leader[k] # Nobody
    BY <1>1 DEF Standing, Agrees, ToSet
  <2>. QED
    BY <1>1, <2>1 DEF Standing, Agrees, PartyStates
<1>. DEFINE rest == RemoveFirst(s.memberList[k], p)
<1>3. /\ rest \in Seq(Players) /\ IsInjective(rest) /\ ToSet(rest) = ToSet(s.memberList[k]) \ {p}
      /\ Len(rest) = Len(s.memberList[k]) - 1
  BY <1>2, RemovedFirst
<1>. HIDE DEF rest
<1>4. /\ t \in PartyStates
      /\ t.leader = s.leader /\ t.inviteList = s.inviteList
      /\ t.invitePartyList = s.invitePartyList
      /\ t.memberList[k] = rest /\ t.partyOf[p] = NoParty
      /\ \A j \in Parties \ {k} : t.memberList[j] = s.memberList[j]
      /\ \A q \in Players \ {p} : t.partyOf[q] = s.partyOf[q]
  BY <1>0, <1>1, <1>3 DEF Erase, PartyStates, rest
<1>5. Touches(s, t, k)
  BY <1>2, <1>4 DEF Touches
<1>6. Shrinks(s, t)
  <2>1. \A j \in Parties : Len(s.memberList[j]) \in Nat
    BY <1>1 DEF PartyStates
  <2>2. ASSUME NEW j \in Parties PROVE Len(t.memberList[j]) <= Len(s.memberList[j])
    BY <1>3, <1>4, <2>1
  <2>. QED
    BY <1>4, <2>2 DEF Shrinks
<1>7. Agrees(t, k)
  BY <1>1, <1>2, <1>3, <1>4 DEF Standing, Agrees
<1>8. Invites(t, k) /\ Uninvolved(t, k)
  BY <1>1, <1>2, <1>4 DEF Standing, Invites, Uninvolved
<1>. QED
  BY <1>0, <1>4, <1>5, <1>6, <1>7, <1>8, OthersStand DEF Standing

\* The new leader was a member, and the old leader is one.
LEMMA LeadershipPassed ==
  ASSUME NEW s, NEW k \in Parties, NEW p \in Players, Good(s), p \in ToSet(s.memberList[k])
  PROVE  /\ Good(PassLeadership(s, k, p)) /\ Shrinks(s, PassLeadership(s, k, p))
         /\ PassLeadership(s, k, p).partyOf = s.partyOf
         /\ s.leader[k] \in Players
         /\ s.leader[k] \in ToSet(PassLeadership(s, k, p).memberList[k])
<1>0. PICK t : t = PassLeadership(s, k, p)
  OBVIOUS
<1>1. s \in PartyStates /\ Standing(s, k)
  BY DEF Good
<1>2. /\ s.memberList[k] \in Seq(Players) /\ IsInjective(s.memberList[k])
      /\ p # s.leader[k] /\ s.partyOf[p] = k /\ s.leader[k] \in Players
  <2>1. s.leader[k] # Nobody
    BY <1>1 DEF Standing, Agrees, ToSet
  <2>. QED
    BY <1>1, <2>1 DEF Standing, Agrees, PartyStates
<1>. DEFINE rest == RemoveFirst(s.memberList[k], p)
            list == <<s.leader[k]>> \o rest
<1>3. /\ rest \in Seq(Players) /\ IsInjective(rest) /\ ToSet(rest) = ToSet(s.memberList[k]) \ {p}
      /\ Len(rest) = Len(s.memberList[k]) - 1
  BY <1>2, RemovedFirst
<1>. HIDE DEF rest
<1>4. s.leader[k] \notin ToSet(rest)
  BY <1>1, <1>3 DEF Standing, Agrees
<1>5. /\ list \in Seq(Players) /\ IsInjective(list) /\ Len(list) = Len(s.memberList[k])
      /\ ToSet(list) = (ToSet(s.memberList[k]) \ {p}) \cup {s.leader[k]}
  <2>1. Len(s.memberList[k]) \in Nat
    BY <1>2
  <2>. QED
    BY <1>2, <1>3, <1>4, <2>1, PutFirst
<1>. HIDE DEF list
<1>6. /\ t \in PartyStates
      /\ t.partyOf = s.partyOf /\ t.inviteList = s.inviteList
      /\ t.invitePartyList = s.invitePartyList
      /\ t.memberList[k] = list /\ t.leader[k] = p
      /\ \A j \in Parties \ {k} : t.memberList[j] = s.memberList[j] /\ t.leader[j] = s.leader[j]
  BY <1>0, <1>1, <1>5 DEF PassLeadership, PartyStates, rest, list
<1>7. Touches(s, t, k)
  BY <1>6 DEF Touches
<1>8. Shrinks(s, t)
  <2>1. \A j \in Parties : Len(s.memberList[j]) \in Nat
    BY <1>1 DEF PartyStates
  <2>2. ASSUME NEW j \in Parties PROVE Len(t.memberList[j]) <= Len(s.memberList[j])
    BY <1>5, <1>6, <2>1
  <2>. QED
    BY <1>6, <2>2 DEF Shrinks
<1>9. Agrees(t, k)
  BY <1>1, <1>2, <1>5, <1>6 DEF Standing, Agrees
<1>10. Invites(t, k) /\ Uninvolved(t, k)
  BY <1>1, <1>2, <1>6 DEF Standing, Invites, Uninvolved
<1>11. ~ Alone(t, k)
  BY <1>2, <1>5, <1>6 DEF Alone, Empty, ToSet
<1>12. GoodBut(s, k)
  BY DEF Good, GoodBut
<1>13. GoodBut(t, k)
  BY <1>6, <1>7, <1>9, <1>10, <1>12, OthersStand DEF Standing
<1>14. Good(t)
  BY <1>11, <1>13 DEF Good, GoodBut
<1>. QED
  BY <1>0, <1>2, <1>5, <1>6, <1>8, <1>14

\* Who leaves a party is in none, whatever becomes of the party.
LEMMA PartyLeft ==
  ASSUME NEW s, NEW p \in Players, Good(s), s.partyOf[p] # NoParty
  PROVE  /\ Good(LeaveParty(s, p)) /\ Shrinks(s, LeaveParty(s, p))
         /\ LeaveParty(s, p).partyOf[p] = NoParty
<1>0. PICK k : k = s.partyOf[p]
  OBVIOUS
<1>1. s \in PartyStates /\ k \in Parties /\ Standing(s, k) /\ GoodBut(s, k)
  BY <1>0 DEF Good, GoodBut, PartyStates
<1>2. p = s.leader[k] \/ p \in ToSet(s.memberList[k])
  BY <1>0, <1>1 DEF Standing, Agrees
<1>3. ASSUME NEW t, Good(t), Shrinks(s, t), p \in ToSet(t.memberList[k])
      PROVE  /\ Good(DisbandIfEmpty(Erase(t, k, p), k))
             /\ Shrinks(s, DisbandIfEmpty(Erase(t, k, p), k))
             /\ DisbandIfEmpty(Erase(t, k, p), k).partyOf[p] = NoParty
  <2>1. PICK u : u = Erase(t, k, p)
    OBVIOUS
  <2>2. PICK v : v = DisbandIfEmpty(u, k)
    OBVIOUS
  <2>3. GoodBut(t, k)
    BY <1>3 DEF Good, GoodBut
  <2>4. GoodBut(u, k) /\ Shrinks(t, u) /\ u.partyOf[p] = NoParty
    BY <1>1, <1>3, <2>1, <2>3, MemberErased
  <2>5. Good(v) /\ Shrinks(u, v)
    BY <1>1, <2>2, <2>4, DisbandedIfEmpty
  <2>6. t \in PartyStates /\ u \in PartyStates /\ v \in PartyStates
    BY <1>3, <2>4, <2>5 DEF Good, GoodBut
  <2>7. Shrinks(s, u)
    BY <1>1, <1>3, <2>4, <2>6, ShrinksOn
  <2>8. Shrinks(s, v)
    BY <1>1, <2>5, <2>6, <2>7, ShrinksOn
  <2>9. v.partyOf[p] = NoParty
    BY <2>4, <2>5 DEF Shrinks
  <2>. QED
    BY <2>1, <2>2, <2>5, <2>8, <2>9
<1>4. CASE s.leader[k] # p
  <2>1. Shrinks(s, s)
    <3>1. \A j \in Parties : Len(s.memberList[j]) \in Nat
      BY <1>1 DEF PartyStates
    <3>. QED
      BY <3>1 DEF Shrinks
  <2>2. LeaveParty(s, p) = DisbandIfEmpty(Erase(s, k, p), k)
    BY <1>0, <1>4 DEF LeaveParty
  <2>. QED
    BY <1>2, <1>3, <1>4, <2>1, <2>2
<1>5. CASE s.leader[k] = p /\ ~ EndsWithLeader(s, k)
  <2>1. PICK h : h = Head(s.memberList[k])
    OBVIOUS
  <2>2. h \in Players /\ h \in ToSet(s.memberList[k])
    <3>1. s.memberList[k] # << >> /\ s.memberList[k] \in Seq(Players)
      BY <1>1, <1>5 DEF EndsWithLeader, PartyStates
    <3>2. 1 \in DOMAIN s.memberList[k] /\ h = s.memberList[k][1]
      BY <2>1, <3>1
    <3>. QED
      BY <3>1, <3>2 DEF ToSet
  <2>3. PICK t : t = PassLeadership(s, k, h)
    OBVIOUS
  <2>4. Good(t) /\ Shrinks(s, t) /\ p \in ToSet(t.memberList[k])
    BY <1>1, <1>5, <2>2, <2>3, LeadershipPassed
  <2>5. LeaveParty(s, p) = DisbandIfEmpty(Erase(t, k, p), k)
    BY <1>0, <1>5, <2>1, <2>3 DEF LeaveParty
  <2>. QED
    BY <1>3, <2>4, <2>5
<1>6. CASE s.leader[k] = p /\ EndsWithLeader(s, k)
  <2>1. PICK t : t = Erase(s, k, p)
    OBVIOUS
  <2>2. PICK u : u = Disband(t, k)
    OBVIOUS
  <2>3. RemoveFirst(s.memberList[k], p) = s.memberList[k]
    BY <1>1, <1>6, RemovedFirst DEF Standing, Agrees, PartyStates
  <2>4. /\ t \in PartyStates
        /\ t.leader = s.leader /\ t.inviteList = s.inviteList
        /\ t.invitePartyList = s.invitePartyList /\ t.memberList = s.memberList
        /\ t.partyOf[p] = NoParty
        /\ \A q \in Players \ {p} : t.partyOf[q] = s.partyOf[q]
    BY <1>1, <2>1, <2>3 DEF Erase, PartyStates
  <2>5. Touches(s, t, k)
    BY <1>0, <2>4 DEF Touches
  <2>6. Shrinks(s, t)
    <3>1. \A j \in Parties : Len(s.memberList[j]) \in Nat
      BY <1>1 DEF PartyStates
    <3>. QED
      BY <2>4, <3>1 DEF Shrinks
  <2>7. Endable(t, k)
    BY <1>1, <1>6, <2>4 DEF Standing, Agrees, Invites, Endable
  <2>8. /\ u \in PartyStates /\ Touches(t, u, k) /\ Standing(u, k) /\ ~ Alone(u, k)
        /\ Shrinks(t, u)
    BY <1>1, <2>2, <2>7, Disbanded
  <2>9. Touches(s, u, k) /\ Shrinks(s, u)
    BY <1>1, <2>4, <2>5, <2>6, <2>8, TouchesOn, ShrinksOn
  <2>10. Good(u)
    BY <1>1, <2>8, <2>9, OthersStand DEF Good, GoodBut
  <2>11. u.partyOf[p] = NoParty
    BY <2>4, <2>8 DEF Shrinks
  <2>12. LeaveParty(s, p) = u
    BY <1>0, <1>6, <2>1, <2>2 DEF LeaveParty
  <2>. QED
    BY <2>9, <2>10, <2>11, <2>12
<1>. QED
  BY <1>4, <1>5, <1>6

-----------------------------------------------------------------------------
(* Player::clearPartyInvitations, one invitation after the other           *)

Clears(s, p, iter) ==
    iter = [T \in SUBSET s.invitePartyList[p] |->
        IF T = {} THEN s
        ELSE LET k == CHOOSE k \in T : TRUE IN RemoveInvite(iter[T \ {k}], k, p)]

\* What the fold of ClearInvitations is.
LEMMA ClearUnfolds ==
  ASSUME NEW s, NEW p
  PROVE  ClearInvitations(s, p) = (CHOOSE iter : Clears(s, p, iter))[s.invitePartyList[p]]
  BY DEF ClearInvitations, FoldSet, MapThenFoldSet, Clears

\* It exists, for a finite set of invitations.
LEMMA ClearsExists ==
  ASSUME NEW s, NEW p \in Players, Good(s), IsFiniteSet(s.invitePartyList[p])
  PROVE  \E iter : Clears(s, p, iter)
<1>. DEFINE S == s.invitePartyList[p]
            D == {t \in PartyStates : Good(t)}
            step == [x \in S \X D |-> RemoveInvite(x[2], x[1], p)]
<1>1. s \in D /\ S \in SUBSET Parties
  BY DEF Good, PartyStates
<1>2. \A k \in S, t \in D : RemoveInvite(t, k, p) \in D /\ step[k, t] = RemoveInvite(t, k, p)
  <2>. SUFFICES ASSUME NEW k \in S, NEW t \in D
                PROVE  RemoveInvite(t, k, p) \in D /\ step[k, t] = RemoveInvite(t, k, p)
    OBVIOUS
  <2>1. Good(RemoveInvite(t, k, p))
    BY <1>1, InviteRemoved
  <2>2. RemoveInvite(t, k, p) \in PartyStates
    BY <2>1 DEF Good
  <2>. QED
    BY <2>1, <2>2
<1>3. step \in [S \X D -> D]
  <2>1. \A x \in S \X D : RemoveInvite(x[2], x[1], p) \in D
    BY <1>2
  <2>. HIDE DEF D
  <2>. QED
    BY <2>1
<1>. HIDE DEF D, step, S
<1>4. PICK iter \in [SUBSET S -> D] : Folds(S, s, step, iter)
  BY <1>1, <1>3, FoldExists DEF S
<1>5. ASSUME NEW T \in SUBSET S, T # {}
      PROVE  step[CHOOSE k \in T : TRUE, iter[T \ {CHOOSE k \in T : TRUE}]]
               = RemoveInvite(iter[T \ {CHOOSE k \in T : TRUE}], CHOOSE k \in T : TRUE, p)
  <2>1. (CHOOSE k \in T : TRUE) \in S /\ iter[T \ {CHOOSE k \in T : TRUE}] \in D
    BY <1>5
  <2>. QED
    BY <1>2, <2>1
<1>6. iter = [T \in SUBSET S |->
        IF T = {} THEN s
        ELSE LET k == CHOOSE k \in T : TRUE IN RemoveInvite(iter[T \ {k}], k, p)]
  BY <1>4, <1>5 DEF Folds
<1>. QED
  BY <1>6 DEF Clears, S

\* After it no invitation is left, and the state is good: otherwise there is a
\* smallest set of invitations for which it is not.
LEMMA InvitationsCleared ==
  ASSUME NEW s, NEW p \in Players, Good(s), IsFiniteSet(s.invitePartyList[p])
  PROVE  /\ Good(ClearInvitations(s, p)) /\ Shrinks(s, ClearInvitations(s, p))
         /\ ClearInvitations(s, p).invitePartyList[p] = {}
<1>. DEFINE S == s.invitePartyList[p]
            Cleared(T, t) == Good(t) /\ Shrinks(s, t) /\ t.invitePartyList[p] \cap T = {}
<1>1. PICK iter : iter = CHOOSE x : Clears(s, p, x)
  OBVIOUS
<1>2. Clears(s, p, iter) /\ ClearInvitations(s, p) = iter[S]
  BY <1>1, ClearsExists, ClearUnfolds
<1>3. s \in PartyStates /\ S \in SUBSET Parties
  BY DEF Good, PartyStates
<1>. DEFINE H == {T \in SUBSET S : ~ Cleared(T, iter[T])}
<1>4. H = {}
  <2>. SUFFICES ASSUME H # {} PROVE FALSE
    OBVIOUS
  <2>1. PICK T \in H : \A U \in H : U \subseteq T => U = T
    <3>1. H \in SUBSET SUBSET S
      OBVIOUS
    <3>. HIDE DEF H
    <3>. QED
      BY <3>1, SmallestSet
  <2>2. T \in SUBSET S /\ ~ Cleared(T, iter[T])
    OBVIOUS
  <2>3. CASE T = {}
    <3>1. iter[T] = s
      BY <1>2, <2>2, <2>3 DEF Clears
    <3>2. Shrinks(s, s)
      <4>1. \A j \in Parties : Len(s.memberList[j]) \in Nat
        BY <1>3 DEF PartyStates
      <4>. QED
        BY <4>1 DEF Shrinks
    <3>. QED
      BY <2>2, <2>3, <3>1, <3>2
  <2>4. CASE T # {}
    <3>1. PICK k : k = CHOOSE x \in T : TRUE
      OBVIOUS
    <3>2. k \in T /\ k \in Parties
      BY <1>3, <2>2, <2>4, <3>1
    <3>3. PICK t : t = iter[T \ {k}]
      OBVIOUS
    <3>4. Cleared(T \ {k}, t)
      <4>1. T \ {k} \in SUBSET S /\ T \ {k} \subseteq T /\ T \ {k} # T
        BY <2>2, <3>2
      <4>2. T \ {k} \notin H
        <5>. HIDE DEF H
        <5>. QED
          BY <2>1, <4>1
      <4>. QED
        BY <3>3, <4>1, <4>2
    <3>5. PICK u : u = RemoveInvite(t, k, p)
      OBVIOUS
    <3>6. iter[T] = u
      BY <1>2, <2>2, <2>4, <3>1, <3>3, <3>5 DEF Clears
    <3>7. Good(u) /\ Shrinks(t, u) /\ k \notin u.invitePartyList[p]
      BY <3>2, <3>4, <3>5, InviteRemoved
    <3>8. t \in PartyStates /\ u \in PartyStates
      BY <3>4, <3>7 DEF Good
    <3>9. Shrinks(s, u)
      BY <1>3, <3>4, <3>7, <3>8, ShrinksOn
    <3>10. u.invitePartyList[p] \cap T = {}
      BY <3>4, <3>7 DEF Shrinks
    <3>. QED
      BY <2>2, <3>6, <3>7, <3>9, <3>10
  <2>. QED
    BY <2>3, <2>4
<1>5. Cleared(S, iter[S])
  BY <1>4
<1>6. iter[S].invitePartyList[p] = {}
  BY <1>5 DEF Shrinks
<1>. QED
  BY <1>2, <1>5, <1>6

\* A player who goes is in no party and invited to none.
LEMMA SocietyLeft ==
  ASSUME NEW s, NEW p \in Players, Good(s), IsFiniteSet(s.invitePartyList[p])
  PROVE  /\ Good(LeaveSociety(s, p)) /\ Shrinks(s, LeaveSociety(s, p))
         /\ LeaveSociety(s, p).partyOf[p] = NoParty
         /\ LeaveSociety(s, p).invitePartyList[p] = {}
<1>1. PICK t : t = ClearInvitations(s, p)
  OBVIOUS
<1>2. Good(t) /\ Shrinks(s, t) /\ t.invitePartyList[p] = {}
  BY <1>1, InvitationsCleared
<1>3. CASE t.partyOf[p] # NoParty
  <2>1. PICK u : u = LeaveParty(t, p)
    OBVIOUS
  <2>2. Good(u) /\ Shrinks(t, u) /\ u.partyOf[p] = NoParty
    BY <1>2, <1>3, <2>1, PartyLeft
  <2>3. Shrinks(s, u)
    BY <1>2, <2>2, ShrinksOn DEF Good
  <2>4. u.invitePartyList[p] = {}
    BY <1>2, <2>2 DEF Shrinks
  <2>. QED
    BY <1>1, <1>3, <2>1, <2>2, <2>3, <2>4 DEF LeaveSociety
<1>4. CASE t.partyOf[p] = NoParty
  BY <1>1, <1>2, <1>4 DEF LeaveSociety
<1>. QED
  BY <1>3, <1>4

-----------------------------------------------------------------------------
(* The requests of the players                                             *)

\* Nobody joins a party from s to t uninvited, unless it makes it.
Joins(s, t) ==
    \A p \in Players : \A k \in Parties :
        t.partyOf[p] = k
        => \/ s.partyOf[p] = k
           \/ s.partyOf[p] = NoParty /\ s.leader[k] = Nobody
           \/ s.partyOf[p] = NoParty /\ p \in s.inviteList[k]

\* A step that shrinks a good state keeps the invariant.
LEMMA ShrinkingStep ==
  ASSUME PartyInv, Good(parties'), Shrinks(parties, parties')
  PROVE  /\ PartyInv' /\ Joins(parties, parties')
         /\ PartiesPresent /\ online' = online => PartiesPresent'
<1>1. Good(parties) /\ Bounded(parties) /\ parties \in PartyStates /\ parties' \in PartyStates
  BY PartyInvIsGood DEF Good
<1>2. Bounded(parties')
  BY <1>1, BoundsShrink
<1>3. Joins(parties, parties')
  BY DEF Joins, Shrinks
<1>4. PartiesPresent /\ online' = online => PartiesPresent'
  BY DEF PartiesPresent, Shrinks
<1>. QED
  BY <1>2, <1>3, <1>4, PartyInvIsGood

\* So does an invitation, which may make a party,
LEMMA InviteStep ==
  ASSUME PartyInv, NEW p \in Players, NEW q \in Players, InviteToParty(p, q)
  PROVE  PartyInv' /\ Joins(parties, parties') /\ (PartiesPresent => PartiesPresent')
<1>1. PICK s, t : s = parties /\ t = parties'
  OBVIOUS
<1>2. PICK k \in Parties :
        /\ \/ s.partyOf[p] = k /\ s.leader[k] = p
           \/ s.partyOf[p] = NoParty /\ s.leader[k] = Nobody
        /\ q \notin s.inviteList[k] /\ Cardinality(s.inviteList[k]) < MaxInvites
        /\ t = [Make(s, k, p) EXCEPT
                    !.inviteList[k] = @ \cup {q}, !.invitePartyList[q] = @ \cup {k}]
  BY <1>1 DEF InviteToParty, InvitingParty, Leads, MayInviteMore
<1>3. p # q /\ s.partyOf[q] = NoParty /\ p \in online /\ q \in online /\ online' = online
  BY <1>1 DEF InviteToParty
<1>4. s \in PartyStates /\ Standing(s, k) /\ GoodBut(s, k) /\ Good(s) /\ Bounded(s)
  BY <1>1, PartyInvIsGood DEF Good, GoodBut
<1>5. /\ t \in PartyStates
      /\ t.memberList = s.memberList
      /\ t.leader[k] = p /\ t.partyOf[p] = k
      /\ t.inviteList[k] = s.inviteList[k] \cup {q}
      /\ t.invitePartyList[q] = s.invitePartyList[q] \cup {k}
      /\ \A j \in Parties \ {k} : t.leader[j] = s.leader[j] /\ t.inviteList[j] = s.inviteList[j]
      /\ \A r \in Players \ {p} : t.partyOf[r] = s.partyOf[r]
      /\ \A r \in Players \ {q} : t.invitePartyList[r] = s.invitePartyList[r]
  <2>1. PICK m : m = Make(s, k, p)
    OBVIOUS
  <2>2. /\ m \in PartyStates
        /\ m.memberList = s.memberList /\ m.inviteList = s.inviteList
        /\ m.invitePartyList = s.invitePartyList
        /\ m.leader[k] = p /\ m.partyOf[p] = k
        /\ \A j \in Parties \ {k} : m.leader[j] = s.leader[j]
        /\ \A r \in Players \ {p} : m.partyOf[r] = s.partyOf[r]
    BY <1>4, <2>1 DEF Make, PartyStates
  <2>3. t = [m EXCEPT !.inviteList[k] = @ \cup {q}, !.invitePartyList[q] = @ \cup {k}]
    BY <1>2, <2>1
  <2>4. t \in PartyStates
    BY <2>2, <2>3 DEF PartyStates
  <2>5. t.memberList = m.memberList /\ t.leader = m.leader /\ t.partyOf = m.partyOf
    BY <2>2, <2>3 DEF PartyStates
  <2>6. /\ t.inviteList[k] = m.inviteList[k] \cup {q}
        /\ t.invitePartyList[q] = m.invitePartyList[q] \cup {k}
        /\ \A j \in Parties \ {k} : t.inviteList[j] = m.inviteList[j]
        /\ \A r \in Players \ {q} : t.invitePartyList[r] = m.invitePartyList[r]
    BY <2>2, <2>3 DEF PartyStates
  <2>. QED
    BY <2>2, <2>4, <2>5, <2>6
<1>6. Touches(s, t, k)
  BY <1>2, <1>5 DEF Touches
<1>7. Agrees(t, k)
  <2>1. CASE s.partyOf[p] = k /\ s.leader[k] = p
    BY <1>4, <1>5, <2>1 DEF Standing, Agrees
  <2>2. CASE s.partyOf[p] = NoParty /\ s.leader[k] = Nobody
    BY <1>4, <1>5, <2>2 DEF Standing, Agrees, ToSet
  <2>. QED
    BY <1>2, <2>1, <2>2
<1>8. Invites(t, k)
  BY <1>4, <1>5 DEF Standing, Invites
<1>9. Uninvolved(t, k)
  BY <1>2, <1>3, <1>4, <1>5 DEF Standing, Uninvolved
<1>10. ~ Alone(t, k)
  BY <1>5 DEF Alone, Empty
<1>11. Good(t)
  BY <1>4, <1>5, <1>6, <1>7, <1>8, <1>9, <1>10, OthersStand DEF Standing, Good, GoodBut
<1>12. Bounded(t)
  <2>1. /\ IsFiniteSet(s.inviteList[k]) /\ Cardinality(s.inviteList[k]) <= MaxInvites
        /\ Cardinality(s.inviteList[k]) \in Nat /\ IsFiniteSet(s.invitePartyList[q])
    BY <1>4, FS_CardinalityType DEF Bounded
  <2>2. /\ IsFiniteSet(t.inviteList[k]) /\ IsFiniteSet(t.invitePartyList[q])
        /\ Cardinality(t.inviteList[k]) = Cardinality(s.inviteList[k]) + 1
    <3>1. PICK a, b : a = s.inviteList[k] /\ b = s.invitePartyList[q]
      OBVIOUS
    <3>2. IsFiniteSet(a \cup {q}) /\ IsFiniteSet(b \cup {k})
      BY <2>1, <3>1, FS_AddElement
    <3>3. Cardinality(a \cup {q}) = Cardinality(a) + 1
      BY <1>2, <2>1, <3>1, FS_AddElement
    <3>. QED
      BY <1>5, <3>1, <3>2, <3>3
  <2>3. Cardinality(t.inviteList[k]) <= MaxInvites
    BY <1>2, <2>1, <2>2
  <2>. QED
    BY <1>4, <1>5, <2>2, <2>3 DEF Bounded
<1>13. Joins(s, t)
  BY <1>2, <1>5 DEF Joins
<1>14. PartiesPresent => PartiesPresent'
  BY <1>1, <1>3, <1>5 DEF PartiesPresent
<1>. QED
  BY <1>1, <1>11, <1>12, <1>13, <1>14, PartyInvIsGood

\* and whoever joins one.
LEMMA JoinStep ==
  ASSUME PartyInv, NEW p \in Players, NEW k \in Parties, JoinParty(p, k)
  PROVE  PartyInv' /\ Joins(parties, parties') /\ (PartiesPresent => PartiesPresent')
<1>1. PICK s, t : s = parties /\ t = parties'
  OBVIOUS
<1>2. /\ p \in online /\ online' = online
      /\ p \in s.inviteList[k] /\ s.partyOf[p] = NoParty
      /\ Len(s.memberList[k]) < MaxMembers
      /\ t = [Withdraw(s, k, p) EXCEPT !.partyOf[p] = k, !.memberList[k] = Append(@, p)]
  BY <1>1 DEF JoinParty
<1>3. s \in PartyStates /\ Standing(s, k) /\ GoodBut(s, k) /\ Good(s) /\ Bounded(s)
  BY <1>1, PartyInvIsGood DEF Good, GoodBut
<1>4. s.memberList[k] \in Seq(Players) /\ Len(s.memberList[k]) \in Nat
  BY <1>3 DEF PartyStates
<1>5. p \notin ToSet(s.memberList[k]) /\ p # s.leader[k] /\ IsInjective(s.memberList[k])
  BY <1>2, <1>3 DEF Standing, Agrees
<1>. DEFINE list == Append(s.memberList[k], p)
<1>6. /\ list \in Seq(Players) /\ Len(list) = Len(s.memberList[k]) + 1 /\ IsInjective(list)
      /\ ToSet(list) = ToSet(s.memberList[k]) \cup {p}
  BY <1>4, <1>5, Appended
<1>. HIDE DEF list
<1>7. /\ t \in PartyStates
      /\ t.leader = s.leader /\ t.memberList[k] = list /\ t.partyOf[p] = k
      /\ t.inviteList[k] = s.inviteList[k] \ {p}
      /\ t.invitePartyList[p] = s.invitePartyList[p] \ {k}
      /\ \A j \in Parties \ {k} :
            t.memberList[j] = s.memberList[j] /\ t.inviteList[j] = s.inviteList[j]
      /\ \A r \in Players \ {p} :
            t.partyOf[r] = s.partyOf[r] /\ t.invitePartyList[r] = s.invitePartyList[r]
  BY <1>2, <1>3, <1>6 DEF Withdraw, PartyStates, list
<1>8. Touches(s, t, k)
  BY <1>2, <1>7 DEF Touches
<1>9. s.leader[k] # Nobody
  BY <1>2, <1>3 DEF Standing, Uninvolved
<1>10. Agrees(t, k)
  BY <1>3, <1>5, <1>6, <1>7, <1>9 DEF Standing, Agrees
<1>11. Invites(t, k) /\ Uninvolved(t, k)
  BY <1>3, <1>7, <1>9 DEF Standing, Invites, Uninvolved
<1>12. ~ Alone(t, k)
  BY <1>6, <1>7 DEF Alone, Empty, ToSet
<1>13. Good(t)
  BY <1>3, <1>7, <1>8, <1>10, <1>11, <1>12, OthersStand DEF Standing, Good, GoodBut
<1>14. Bounded(t)
  <2>1. /\ IsFiniteSet(t.inviteList[k]) /\ IsFiniteSet(t.invitePartyList[p])
        /\ Cardinality(t.inviteList[k]) <= MaxInvites
    <3>1. /\ IsFiniteSet(s.inviteList[k]) /\ Cardinality(s.inviteList[k]) <= MaxInvites
          /\ IsFiniteSet(s.invitePartyList[p])
      BY <1>3 DEF Bounded
    <3>2. /\ IsFiniteSet(t.inviteList[k]) /\ IsFiniteSet(t.invitePartyList[p])
          /\ Cardinality(t.inviteList[k]) <= Cardinality(s.inviteList[k])
      BY <1>7, <3>1, FS_Subset
    <3>3. Cardinality(s.inviteList[k]) \in Nat /\ Cardinality(t.inviteList[k]) \in Nat
      BY <3>1, <3>2, FS_CardinalityType
    <3>. QED
      BY <3>1, <3>2, <3>3
  <2>2. Len(t.memberList[k]) <= MaxMembers
    BY <1>2, <1>4, <1>6, <1>7
  <2>. QED
    BY <1>3, <1>7, <2>1, <2>2 DEF Bounded
<1>15. Joins(s, t)
  BY <1>2, <1>7 DEF Joins
<1>16. PartiesPresent => PartiesPresent'
  BY <1>1, <1>2, <1>7 DEF PartiesPresent
<1>. QED
  BY <1>1, <1>13, <1>14, <1>15, <1>16, PartyInvIsGood

\* So do all requests about parties,
LEMMA PartyStep ==
  ASSUME PartyInv, PartyNext
  PROVE  PartyInv' /\ Joins(parties, parties') /\ (PartiesPresent => PartiesPresent')
<1>1. Good(parties) /\ Bounded(parties)
  BY PartyInvIsGood
<1>2. ASSUME NEW p \in Players, PlayerLeaveParty(p)
      PROVE  Good(parties') /\ Shrinks(parties, parties') /\ online' = online
  BY <1>1, <1>2, PartyLeft DEF PlayerLeaveParty
<1>3. ASSUME NEW p \in Players, NEW q \in Players, RevokePartyInvitation(p, q)
      PROVE  Good(parties') /\ Shrinks(parties, parties') /\ online' = online
  BY <1>1, <1>3, InviteRemoved DEF RevokePartyInvitation
<1>4. ASSUME NEW p \in Players, NEW q \in Players, PassPartyLeadership(p, q)
      PROVE  Good(parties') /\ Shrinks(parties, parties') /\ online' = online
  <2>1. PICK k \in Parties : /\ Leads(p, k) /\ parties.partyOf[q] = k
                             /\ parties' = PassLeadership(parties, k, q)
    BY <1>4 DEF PassPartyLeadership
  <2>2. q \in ToSet(parties.memberList[k])
    BY <1>1, <1>4, <2>1 DEF PassPartyLeadership, Leads, Good, Standing, Agrees
  <2>. QED
    BY <1>1, <1>4, <2>1, <2>2, LeadershipPassed DEF PassPartyLeadership
<1>5. ASSUME Good(parties'), Shrinks(parties, parties'), online' = online
      PROVE  PartyInv' /\ Joins(parties, parties') /\ (PartiesPresent => PartiesPresent')
  BY <1>5, ShrinkingStep
<1>. QED
  BY <1>2, <1>3, <1>4, <1>5, InviteStep, JoinStep DEF PartyNext

\* a logout,
LEMMA LogoutStep ==
  ASSUME PartyInv, NEW p \in Players, Logout(p)
  PROVE  PartyInv' /\ Joins(parties, parties') /\ (PartiesPresent => PartiesPresent')
<1>1. /\ Good(parties) /\ Bounded(parties)
      /\ parties' = LeaveSociety(parties, p) /\ online' = online \ {p}
  BY PartyInvIsGood DEF Logout
<1>2. /\ Good(parties') /\ Shrinks(parties, parties')
      /\ parties'.partyOf[p] = NoParty /\ parties'.invitePartyList[p] = {}
  BY <1>1, SocietyLeft DEF Bounded
<1>3. PartiesPresent => PartiesPresent'
  BY <1>1, <1>2 DEF PartiesPresent, Shrinks
<1>. QED
  BY <1>2, <1>3, ShrinkingStep

\* and whatever leaves the parties alone,
LEMMA NothingJoined ==
  ASSUME PartyInv, UNCHANGED parties, online \subseteq online'
  PROVE  PartyInv' /\ Joins(parties, parties') /\ (PartiesPresent => PartiesPresent')
<1>1. PartyInv'
  BY PartyInvIsGood
<1>2. Joins(parties, parties')
  BY DEF Joins
<1>3. PartiesPresent => PartiesPresent'
  BY DEF PartiesPresent
<1>. QED
  BY <1>1, <1>2, <1>3

\* so every step of the society.
LEMMA SocietyStep ==
  ASSUME PartyInv, [Next]_vars
  PROVE  PartyInv' /\ Joins(parties, parties') /\ (PartiesPresent => PartiesPresent')
<1>1. CASE PartyNext
  BY <1>1, PartyStep
<1>2. ASSUME NEW p \in Players, Logout(p)
      PROVE  PartyInv' /\ Joins(parties, parties') /\ (PartiesPresent => PartiesPresent')
  BY <1>2, LogoutStep
<1>3. ASSUME NEW p \in Players, Login(p)
      PROVE  PartyInv' /\ Joins(parties, parties') /\ (PartiesPresent => PartiesPresent')
  BY <1>3, NothingJoined DEF Login
<1>4. CASE TradeNext /\ UNCHANGED parties
  <2>1. online' = online
    BY <1>4 DEF TradeNext, CloseTrade, WalkAway, AcceptTrade, RequestTrade, StartHouseTrade,
                MoveItem, UseContainer, CloseContainer, BuyHouse, LeaveHouse
  <2>. QED
    BY <1>4, <2>1, NothingJoined
<1>5. CASE UNCHANGED vars
  BY <1>5, NothingJoined DEF vars
<1>. QED
  BY <1>1, <1>2, <1>3, <1>4, <1>5 DEF Next

\* The invariant holds when the world starts.
LEMMA InitParties == Init => PartyInv
<1>. SUFFICES ASSUME Init PROVE PartyInv
  OBVIOUS
<1>1. << >> \in Seq(Players) /\ ToSet(<< >>) = {} /\ IsInjective(<< >>) /\ Len(<< >>) = 0
  BY DEF ToSet, IsInjective
<1>2. IsFiniteSet({}) /\ Cardinality({}) = 0
  BY FS_EmptySet
<1>3. parties \in PartyStates /\ Bounded(parties)
  BY <1>1, <1>2 DEF Init, PartyInit, PartyStates, Bounded
<1>4. ASSUME NEW k \in Parties PROVE Standing(parties, k) /\ ~ Alone(parties, k)
  BY <1>1 DEF Init, PartyInit, Standing, Agrees, Invites, Uninvolved, Alone
<1>. QED
  BY <1>3, <1>4, PartyInvIsGood DEF Good

-----------------------------------------------------------------------------
(* The theorems                                                            *)

\* PartyInv is an inductive invariant of the society.
THEOREM PartyInvariant == Spec => []PartyInv
<1>1. PartyInv /\ [Next]_vars => PartyInv'
  BY SocietyStep
<1>. QED
  BY <1>1, InitParties, PTL DEF Spec

\* Every variable of trades and parties has its type, and parties their limits.
THEOREM SocietyTypeCorrect == Spec => []TypeOK
<1>1. PartyInv /\ TradeInv => TypeOK
  BY DEF PartyInv, TradeInv, TypeOK
<1>. QED
  BY <1>1, PartyInvariant, TradeInvariant, PTL

\* A party has a player exactly while the player's party number names it.
THEOREM MembersAreKnown == Spec => []MembershipAgrees
<1>1. PartyInv => MembershipAgrees
  BY DEF PartyInv
<1>. QED
  BY <1>1, PartyInvariant, PTL

\* The party and the invited player know of the same invitations.
THEOREM InvitationsAreKnown == Spec => []InvitationsAgree
<1>1. PartyInv => InvitationsAgree
  BY DEF PartyInv
<1>. QED
  BY <1>1, PartyInvariant, PTL

\* A leader without members and invitations does not keep its party.
THEOREM LonePartiesDisband == Spec => []NobodyIsAlone
<1>1. PartyInv => NobodyIsAlone
  BY DEF PartyInv
<1>. QED
  BY <1>1, PartyInvariant, PTL

\* Nobody gets into a party uninvited, whatever the step.
THEOREM NobodyIntrudes == Spec => JoinsByInvitation
<1>1. ASSUME PartyInv, [Next]_vars
      PROVE  [ \A p \in Players : \A k \in Parties :
                /\ parties'.partyOf[p] = k
                => \/ parties.partyOf[p] = k
                   \/ parties.partyOf[p] = NoParty /\ parties.leader[k] = Nobody
                   \/ parties.partyOf[p] = NoParty /\ p \in parties.inviteList[k] ]_parties
  BY <1>1, SocietyStep DEF Joins
<1>. QED
  BY <1>1, PartyInvariant, PTL DEF Spec, JoinsByInvitation

\* Who is in a party, invited or trading is in game.
LEMMA PresentAlways == Spec => []PartiesPresent
<1>1. Init => PartiesPresent
  <2>. SUFFICES ASSUME Init, NEW p \in Players
                PROVE  parties.partyOf[p] = NoParty /\ parties.invitePartyList[p] = {}
    BY DEF PartiesPresent
  <2>. QED
    BY DEF Init, PartyInit
<1>2. PartyInv /\ PartiesPresent /\ [Next]_vars => PartiesPresent'
  BY SocietyStep
<1>. QED
  BY <1>1, <1>2, PartyInvariant, PTL DEF Spec

\* The invariants of trades and parties leave nothing of who is not in game.
LEMMA NoTrace ==
  ASSUME TradeInv, PartyInv, PartiesPresent
  PROVE  AbsentLeaveNoTrace
<1>. SUFFICES ASSUME NEW p \in Players, p \notin online
              PROVE  /\ tradeState[p] = "none" /\ \A q \in Players : tradePartner[q] # p
                     /\ \A g \in Goods : tradeItems[g] # p
                     /\ parties.partyOf[p] = NoParty /\ parties.invitePartyList[p] = {}
                     /\ \A k \in Parties :
                         /\ p # parties.leader[k]
                         /\ p \notin ToSet(parties.memberList[k]) \cup parties.inviteList[k]
  BY DEF AbsentLeaveNoTrace
<1>1. tradeState[p] = "none" /\ tradeItem[p] = NoItem
  BY DEF TradeInv, PartnersAgree
<1>2. ASSUME NEW q \in Players, tradePartner[q] = p
      PROVE  FALSE
  BY <1>1, <1>2 DEF TradeInv, PartnersAgree
<1>3. ASSUME NEW g \in Goods, tradeItems[g] = p
      PROVE  FALSE
  <2>1. tradeItem[p] = g
    BY <1>3 DEF TradeInv, OffersRegistered, RegistryAgrees
  <2>. QED
    BY <1>1, <2>1
<1>4. parties.partyOf[p] = NoParty /\ parties.invitePartyList[p] = {}
  BY DEF PartiesPresent
<1>5. ASSUME NEW k \in Parties
      PROVE  /\ p # parties.leader[k]
             /\ p \notin ToSet(parties.memberList[k]) \cup parties.inviteList[k]
  BY <1>4, <1>5 DEF PartyInv, MembershipAgrees, InvitationsAgree
<1>. QED
  BY <1>1, <1>2, <1>3, <1>4, <1>5

\* A player who is not in game is in no trade, party or list of invitations.
THEOREM AbsentAreForgotten == Spec => []AbsentLeaveNoTrace
BY NoTrace, TradeInvariant, PartyInvariant, PresentAlways, PTL
=============================================================================
