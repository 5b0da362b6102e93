------------------------------- MODULE Trade -------------------------------
(***************************************************************************)
(* Trades between two players of one world (game.cpp 3918-4317), the house *)
(* documents that are traded like items (house.cpp, item.cpp), and the     *)
(* callbacks of player.cpp that end a trade when an offered item moves.    *)
(* The dispatcher runs every request to its end, so each is one action; the*)
(* state TRADE_TRANSFER never outlives playerAcceptTrade and does not show.*)
(* A house stands for its transfer document; bags are not put into bags. A *)
(* player's place stands for its slots and its own backpack, the ground    *)
(* for tiles and furniture: a bag's window may close or stay as it moves.  *)
(***************************************************************************)
EXTENDS Online

CONSTANTS
    Items, Houses,
    Containers,           \* the items that hold others
    Stackable,      \* the items that may merge with a stack of their receiver
    NoItem, Ground

Goods == Items \cup Houses

ASSUME TradeAssumption ==
    /\ Containers \subseteq Items /\ Stackable \subseteq Items \ Containers
    /\ Items \cap Houses = {} /\ NoItem \notin Goods
    /\ (Players \cup {Nobody, Ground}) \cap (Goods \cup {NoItem}) = {}
    /\ Ground \notin Players

VARIABLES
    tradeState, tradePartner, tradeItem,    \* of each player
    tradeItems,     \* Game::tradeItems: who offers a good
    place,          \* the player, the bag or the ground an item is with
    openContainers, \* the bags a player has a window on, wherever they are
    borrowed,       \* history: who offers a thing out of another player's bag
    owner,          \* the owner of each house
    transferItem    \* whether a house's transfer document exists

offers == <<tradeState, tradePartner, tradeItem, tradeItems, borrowed, transferItem>>
tradeVars == <<offers, place, openContainers, owner>>

TradeTypeOK ==
    /\ tradeState \in [Players -> {"none", "initiated", "acknowledge", "accept"}]
    /\ tradePartner \in [Players -> Players \cup {Nobody}]
    /\ tradeItem \in [Players -> Goods \cup {NoItem}]
    /\ tradeItems \in [Goods -> Players \cup {Nobody}]
    /\ place \in [Items -> Players \cup Containers \cup {Ground}]
    /\ openContainers \in [Players -> SUBSET Containers]
    /\ borrowed \subseteq Players
    /\ owner \in [Houses -> Players \cup {Nobody}]
    /\ transferItem \in [Houses -> BOOLEAN]

TradeInit ==
    /\ online = {}
    /\ tradeState = [p \in Players |-> "none"]
    /\ tradePartner = [p \in Players |-> Nobody]
    /\ tradeItem = [p \in Players |-> NoItem]
    /\ tradeItems = [g \in Goods |-> Nobody]
    /\ place \in [Items -> Players]
    /\ openContainers = [p \in Players |-> {}]
    /\ borrowed = {}
    /\ owner = [h \in Houses |-> Nobody]
    /\ transferItem = [h \in Houses |-> FALSE]

Carrier(i) == IF place[i] \in Containers THEN place[place[i]] ELSE place[i]

\* resolveItem: what p can lay hands on. Nobody asks whose bag a window shows;
\* the range checks are left out, as if everybody stood together.
Reaches(p, i) ==
    \/ Carrier(i) = p
    \/ place[i] = Ground
    \/ place[i] \in openContainers[p]

Overlap(g, i) ==
    \/ g = i
    \/ g \in Items /\ i \in Items /\ (place[g] = i \/ place[i] = g)

-----------------------------------------------------------------------------
(* Ending trades: internalCloseTrade, for the players of S                 *)

\* Mutant: the transfer document of a cancelled offer is not taken back.
EndDocumentsKept(S) == transferItem' = transferItem

EndDocuments(S) ==
    transferItem' = [h \in Houses |-> transferItem[h] /\ \A p \in S : tradeItem[p] # h]

EndTrades(S) ==
    /\ tradeState' = [p \in Players |-> IF p \in S THEN "none" ELSE tradeState[p]]
    /\ tradePartner' = [p \in Players |-> IF p \in S THEN Nobody ELSE tradePartner[p]]
    /\ tradeItem' = [p \in Players |-> IF p \in S THEN NoItem ELSE tradeItem[p]]
    /\ tradeItems' = [g \in Goods |-> IF \E p \in S : tradeItem[p] = g THEN Nobody ELSE tradeItems[g]]
    /\ borrowed' = borrowed \ S
    /\ EndDocuments(S)

\* The players of S and those they trade with.
\* Mutant: the other side of a closed trade is not told.
OneSided(S) == S

WithPartners(S) == S \cup {p \in Players : \E q \in S : tradePartner[q] = p}

\* playerCloseTrade
CloseTrade(p) ==
    /\ p \in online /\ tradeState[p] # "none"
    /\ EndTrades(WithPartners({p}))
    /\ UNCHANGED <<online, place, openContainers, owner>>

\* onCreatureMove, onNearbyCreatureMoved: p steps out of reach of its item or of
\* its partner, and of bags it looks into. The steps of others are not looked at.
WalkAway(p) ==
    /\ p \in online
    /\ tradeItem[p] # NoItem \/ tradePartner[p] # Nobody
    /\ EndTrades(WithPartners({p}))
    /\ \E far \in SUBSET {b \in openContainers[p] : place[b] # p} :
            openContainers' = [openContainers EXCEPT ![p] = @ \ far]
    /\ UNCHANGED <<online, place, owner>>

-----------------------------------------------------------------------------
(* Windows on bags                                                         *)

\* playerUseItem on a bag: the window opens or, if it is open, closes.
UseContainer(p, b) ==
    /\ p \in online /\ place[b] \in {p, Ground}
    /\ openContainers' = [openContainers EXCEPT
            ![p] = IF b \in @ THEN @ \ {b} ELSE @ \cup {b}]
    /\ UNCHANGED <<online, offers, place, owner>>

\* playerCloseContainer; also a step of p away from the bag when it trades nothing.
CloseContainer(p, b) ==
    /\ p \in online /\ b \in openContainers[p]
    /\ openContainers' = [openContainers EXCEPT ![p] = @ \ {b}]
    /\ UNCHANGED <<online, offers, place, owner>>

\* notifyItemRemoved, for the bags that moved: all who see the tile a bag was on
\* are told, but only the player it was with. Their windows close unless it is
\* now theirs, or lies in another container: in anybody's backpack.
WindowsFollow ==
    LET told(b) == IF place[b] = Ground THEN Players ELSE {place[b]}
        mayClose(p) == {b \in openContainers[p] : place'[b] # place[b] /\ p \in told(b) \ {place'[b]}}
    IN  /\ openContainers' \in [Players -> SUBSET Containers]
        /\ \A p \in Players : /\ openContainers'[p] \subseteq openContainers[p]
                             /\ openContainers[p] \ openContainers'[p] \subseteq mayClose(p)

-----------------------------------------------------------------------------
(* Starting trades                                                         *)

\* The guards of internalStartTrade ...
MayTrade(p, q) ==
    /\ \/ tradeState[p] = "none"
       \/ tradeState[p] = "acknowledge" /\ tradePartner[p] = q
    /\ tradeState[q] = "none" \/ tradePartner[q] = p

\* ... and what it does.
StartTrade(p, q, g) ==
    /\ MayTrade(p, q)
    /\ tradePartner' = [tradePartner EXCEPT
                            ![p] = q, ![q] = IF tradeState[q] = "none" THEN p ELSE @]
    /\ tradeState' = [tradeState EXCEPT
                            ![p] = "initiated", ![q] = IF @ = "none" THEN "acknowledge" ELSE @]
    /\ tradeItem' = [tradeItem EXCEPT ![p] = g]
    /\ tradeItems' = [tradeItems EXCEPT ![g] = p]

\* Mutant: only the item itself is looked up, not what it holds or lies in.
MayOfferShallow(i) == tradeItems[i] = Nobody

\* "This item is already being traded": it, its bag or its contents.
MayOffer(i) == \A g \in Goods : tradeItems[g] # Nobody => ~ Overlap(g, i)

\* playerRequestTrade
RequestTrade(p, q, i) ==
    /\ p \in online /\ q \in online \ {p}
    /\ Reaches(p, i) /\ MayOffer(i)
    /\ StartTrade(p, q, i)
    /\ borrowed' = borrowed \cup {r \in {p} : Carrier(i) \notin {p, Ground}}
    /\ UNCHANGED <<online, place, openContainers, owner, transferItem>>

\* house:startTrade; a document that cannot be offered is taken back at once.
StartHouseTrade(p, q, h) ==
    /\ p \in online /\ q \in online \ {p}
    /\ owner[h] = p
    /\ \A k \in Houses : owner[k] # q
    /\ ~ transferItem[h]
    /\ StartTrade(p, q, h)
    /\ transferItem' = [transferItem EXCEPT ![h] = TRUE]
    /\ UNCHANGED <<online, place, openContainers, borrowed, owner>>

-----------------------------------------------------------------------------
(* playerAcceptTrade                                                       *)

\* Where an item given to p may end up: not in the bag p gives away.
Pockets(p, i, given) ==
    {p} \cup {b \in Containers \ {given} : place[b] = p /\ i \notin Containers}

\* Mutant: an acceptance without a counter-offer hands the item over.
ExchangeGift(p, q) ==
    LET i == tradeItem[p]
        j == tradeItem[q]
    IN  /\ i # NoItem
        /\ \E to \in Pockets(q, i, j) :
            place' = [x \in Items |-> IF x = i THEN to ELSE IF x = j THEN p ELSE place[x]]
        /\ WindowsFollow
        /\ owner' = [h \in Houses |-> IF h = i THEN q ELSE IF h = j THEN p ELSE owner[h]]

\* p, who accepts last, gives i for j. The result of the second move is not
\* looked at: without a slot for it, a stackable j stays where it is.
Exchange(p, q) ==
    LET i == tradeItem[p]
        j == tradeItem[q]
    IN  /\ i # NoItem /\ j # NoItem
        /\ \E to \in Pockets(q, i, j), back \in Pockets(p, j, i) :
            \/ place' = [x \in Items |-> IF x = i THEN to ELSE IF x = j THEN back ELSE place[x]]
            \/ /\ j \in Stackable
               /\ place' = [x \in Items |-> IF x = i THEN to ELSE place[x]]
        /\ WindowsFollow
        /\ owner' = [h \in Houses |-> IF h = i THEN q ELSE IF h = j THEN p ELSE owner[h]]

AcceptTrade(p) ==
    /\ p \in online
    /\ tradeState[p] \in {"acknowledge", "initiated"}
    /\ \/ /\ tradeState[tradePartner[p]] # "accept"
          /\ tradeState' = [tradeState EXCEPT ![p] = "accept"]
          /\ UNCHANGED <<tradePartner, tradeItem, tradeItems, place, openContainers, borrowed, owner, transferItem>>
       \/ \* no line of sight, a script's veto, no room, or nothing offered
          /\ tradeState[tradePartner[p]] = "accept"
          /\ EndTrades({p, tradePartner[p]})
          /\ UNCHANGED <<place, openContainers, owner>>
       \/ /\ tradeState[tradePartner[p]] = "accept"
          /\ Exchange(p, tradePartner[p])
          /\ EndTrades({p, tradePartner[p]})
    /\ UNCHANGED online

-----------------------------------------------------------------------------
(* Items and houses outside trades                                         *)

\* checkTradeState and its callers: whose trade ends when i moves to a place.
\* Mutant: only the offered item itself is watched, not what it holds.
DisturbedShallow(i, to) == {q \in Players : tradeItem[q] = i}

Disturbed(i, to) ==
    {q \in Players : \/ tradeItem[q] \in {i, place[i], to}
                     \/ tradeItem[q] \in Items /\ place[tradeItem[q]] = i}

\* playerMoveItem, a swap being two of them. What happens in a bag or a slot is
\* told to those beside it: who offers a thing of another's bag may be out of
\* earshot (afar), as the other has walked off with it.
MoveItem(p, i, to) ==
    /\ p \in online /\ Reaches(p, i) /\ to # place[i]
    /\ \/ to \in {p, Ground}
       \/ to \in Containers /\ i \notin Containers /\ (place[to] = p \/ to \in openContainers[p])
    /\ place' = [place EXCEPT ![i] = to]
    /\ WindowsFollow
    /\ \E afar \in SUBSET borrowed : EndTrades(WithPartners(Disturbed(i, to) \ afar))
    /\ UNCHANGED <<online, owner>>

\* !buyhouse
BuyHouse(p, h) ==
    /\ p \in online
    /\ owner[h] = Nobody /\ \A k \in Houses : owner[k] # p
    /\ owner' = [owner EXCEPT ![h] = p]
    /\ UNCHANGED <<online, offers, place, openContainers>>

\* !leavehouse: whoever is in the house is teleported to its entry, near enough
\* to a partner or not (WalkAway).
LeaveHouse(p, h) ==
    /\ p \in online /\ owner[h] = p
    /\ owner' = [owner EXCEPT ![h] = Nobody]
    /\ UNCHANGED <<online, offers, place, openContainers>>

TradeNext ==
    \E p \in Players :
        \/ CloseTrade(p) \/ WalkAway(p) \/ AcceptTrade(p)
        \/ \E q \in Players : \/ \E i \in Items : RequestTrade(p, q, i)
                              \/ \E h \in Houses : StartHouseTrade(p, q, h)
        \/ \E i \in Items, to \in Players \cup Containers \cup {Ground} : MoveItem(p, i, to)
        \/ \E b \in Containers : UseContainer(p, b) \/ CloseContainer(p, b)
        \/ \E h \in Houses : BuyHouse(p, h) \/ LeaveHouse(p, h)

-----------------------------------------------------------------------------
(* Properties                                                              *)

\* Trading is mutual: a player has a partner exactly while its trade state says
\* so, and that partner trades with it and with nobody else.
PartnersAgree ==
    \A p \in Players :
        IF tradeState[p] = "none"
        THEN tradePartner[p] = Nobody /\ tradeItem[p] = NoItem
        ELSE /\ p \in online
             /\ tradePartner[p] \in Players \ {p}
             /\ tradePartner[tradePartner[p]] = p
             /\ tradeState[tradePartner[p]] # "none"
             /\ tradeState[p] = "initiated" => tradeItem[p] # NoItem
             /\ tradeState[p] = "acknowledge" => tradeItem[p] = NoItem
             /\ tradeItem[p] # NoItem \/ tradeItem[tradePartner[p]] # NoItem

RegistryAgrees ==
    \A g \in Goods : \A p \in Players : tradeItems[g] = p <=> tradeItem[p] = g

OfferedOnce ==
    \A p, q \in Players : p # q /\ tradeItem[p] # NoItem /\ tradeItem[q] # NoItem =>
        ~ Overlap(tradeItem[p], tradeItem[q])

\* Game::tradeItems lists exactly what is offered; no good is offered twice, not
\* even as part of another one.
OffersRegistered == RegistryAgrees /\ OfferedOnce

\* A house has a transfer document exactly while somebody offers it: one that is
\* left behind would keep the house from being traded for good.
DocumentsAreOffered ==
    \A h \in Houses : transferItem[h] <=> tradeItems[h] # Nobody

\* What is offered stays as it was shown: nobody puts another good in its place,
\* and, unless it was offered out of another player's bag, the item keeps its
\* place and a bag its contents for as long as the trade goes on, so what is
\* handed over is what both players saw.
OffersStayPut ==
    [][ \A p \in Players : \A g \in Goods :
            /\ tradeItem[p] = g
            /\ tradeState'[p] # "none"
            => /\ tradeItem'[p] = g
               /\ g \in Items /\ p \notin borrowed =>
                    /\ place'[g] = place[g]
                    /\ \A x \in Items : place[x] = g <=> place'[x] = g ]_tradeVars

\* i is handed over in a trade, by who had it or had borrowed it: as what was
\* offered or part of it, and what the receiver offered comes back (a stackable
\* item excepted, whose move may be refused after the first one).
PaidFor(i) ==
    \E r \in Players :
        /\ r = Carrier(i) \/ r \in borrowed
        /\ tradePartner[r] = Carrier(i)'
        /\ i = tradeItem[r] \/ place[i] = tradeItem[r]
        /\ tradeItem[Carrier(i)'] # NoItem
        /\ \A j \in Items \ Stackable : tradeItem[Carrier(i)'] = j => Carrier(j)' = r
        /\ tradeItem[Carrier(i)'] \in Houses => owner'[tradeItem[Carrier(i)']] = r

\* i is moved by hand, by a player who has a window on each bag concerned that
\* is not its own.
HandedThroughWindow(i) ==
    \E m \in online :
        /\ Carrier(i) = m \/ place[i] \in openContainers[m]
        /\ Carrier(i)' = m \/ place'[i] \in openContainers[m]

\* An item passes from one player's hands into another's only against what that
\* other one offered, or through a window somebody has open on the bag it lies
\* or comes to lie in.
NothingForNothing ==
    [][ \A i \in Items : Carrier(i) \in Players /\ Carrier(i)' \in Players \ {Carrier(i)} =>
            PaidFor(i) \/ HandedThroughWindow(i) ]_tradeVars

\* A house is handed over by its owner: house:startTrade answers everybody else
\* "You don't own this house." (tools.cpp:1244).
HouseTradedByOwner ==
    [][ \A h \in Houses : \A p \in Players :
            tradeItem[p] = h /\ owner'[h] # owner[h] /\ tradeState'[p] = "none" => owner[h] = p ]_tradeVars

-----------------------------------------------------------------------------
(* What the proofs need beside the properties                              *)

\* Who has not borrowed what it offers carries it or finds it on the ground; only
\* things that lie in a bag, never a bag, are borrowed.
OffersInReach ==
    /\ \A p \in borrowed : tradeItem[p] \in Items \ Containers
    /\ \A p \in Players \ borrowed : \A i \in Items : tradeItem[p] = i => Carrier(i) \in {p, Ground}

FlatContainers == \A b \in Containers : place[b] \notin Containers

TradeInv ==
    /\ TradeTypeOK /\ online \subseteq Players
    /\ PartnersAgree /\ OffersRegistered /\ DocumentsAreOffered
    /\ OffersInReach /\ FlatContainers
=============================================================================
