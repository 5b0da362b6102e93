--------------------------- MODULE SocietyProofs ---------------------------
(***************************************************************************)
(* What holds of trades for any players, items, containers and houses.     *)
(***************************************************************************)
EXTENDS Society, TLAPS

USE OnlineAssumption, TradeAssumption

\* Ending the trades of some players and of everybody they trade with leaves
\* the other trades as they are.
Closed(S) == \A p \in S : tradePartner[p] # Nobody => tradePartner[p] \in S

\* Those whose trades end are closed under partners.
LEMMA WithPartnersClosed ==
    ASSUME TradeInv, NEW S \in SUBSET Players
    PROVE  WithPartners(S) \in SUBSET Players /\ Closed(WithPartners(S)) /\ S \subseteq WithPartners(S)
BY DEF TradeInv, TradeTypeOK, PartnersAgree, WithPartners, Closed

\* Ending trades keeps the types,
LEMMA EndTradesTypes ==
    ASSUME TradeInv, NEW S \in SUBSET Players, EndTrades(S)
    PROVE  /\ tradeState' \in [Players -> {"none", "initiated", "acknowledge", "accept"}]
           /\ tradePartner' \in [Players -> Players \cup {Nobody}]
           /\ tradeItem' \in [Players -> Goods \cup {NoItem}]
           /\ tradeItems' \in [Goods -> Players \cup {Nobody}]
           /\ transferItem' \in [Houses -> BOOLEAN]
           /\ borrowed' \subseteq Players
<1>1. tradeState' \in [Players -> {"none", "initiated", "acknowledge", "accept"}]
    BY DEF TradeInv, TradeTypeOK, EndTrades
<1>2. tradePartner' \in [Players -> Players \cup {Nobody}]
    BY DEF TradeInv, TradeTypeOK, EndTrades
<1>3. tradeItem' \in [Players -> Goods \cup {NoItem}]
    BY DEF TradeInv, TradeTypeOK, EndTrades
<1>4. tradeItems' \in [Goods -> Players \cup {Nobody}]
    BY DEF TradeInv, TradeTypeOK, EndTrades
<1>5. transferItem' \in [Houses -> BOOLEAN]
    BY DEF TradeInv, TradeTypeOK, EndTrades, EndDocuments
<1>6. borrowed' \subseteq Players
    BY DEF TradeInv, TradeTypeOK, EndTrades
<1> QED BY <1>1, <1>2, <1>3, <1>4, <1>5, <1>6

\* leaves the other trades mutual,
LEMMA EndTradesPartners ==
    ASSUME TradeInv, NEW S \in SUBSET Players, Closed(S), EndTrades(S),
           \A p \in Players \ S : p \in online => p \in online'
    PROVE  PartnersAgree'
<1> SUFFICES ASSUME NEW p \in Players
             PROVE  IF tradeState'[p] = "none"
                    THEN tradePartner'[p] = Nobody /\ tradeItem'[p] = NoItem
                    ELSE /\ p \in online'
                         /\ tradePartner'[p] \in Players \ {p}
                         /\ tradePartner'[tradePartner'[p]] = p
                         /\ tradeState'[tradePartner'[p]] # "none"
                         /\ tradeState'[p] = "initiated" => tradeItem'[p] # NoItem
                         /\ tradeState'[p] = "acknowledge" => tradeItem'[p] = NoItem
                         /\ tradeItem'[p] # NoItem \/ tradeItem'[tradePartner'[p]] # NoItem
    BY DEF PartnersAgree
<1>1. CASE p \in S
    BY <1>1 DEF TradeInv, TradeTypeOK, EndTrades
<1>2. CASE p \notin S /\ tradeState[p] = "none"
    BY <1>2 DEF TradeInv, TradeTypeOK, PartnersAgree, EndTrades
<1>3. CASE p \notin S /\ tradeState[p] # "none"
    <2> DEFINE r == tradePartner[p]
    <2>1. /\ p \in online /\ r \in Players \ {p} /\ tradePartner[r] = p /\ tradeState[r] # "none"
          /\ tradeState[p] = "initiated" => tradeItem[p] # NoItem
          /\ tradeState[p] = "acknowledge" => tradeItem[p] = NoItem
          /\ tradeItem[p] # NoItem \/ tradeItem[r] # NoItem
        BY <1>3 DEF TradeInv, PartnersAgree
    <2>2. r \notin S
        BY <2>1, <1>3 DEF Closed
    <2>3. /\ tradeState'[p] = tradeState[p] /\ tradeState'[r] = tradeState[r]
          /\ tradePartner'[p] = r /\ tradePartner'[r] = p
          /\ tradeItem'[p] = tradeItem[p] /\ tradeItem'[r] = tradeItem[r]
        BY <1>3, <2>1, <2>2 DEF EndTrades
    <2> QED BY <1>3, <2>1, <2>3
<1> QED BY <1>1, <1>2, <1>3

\* and the registry and the documents with what is offered.
LEMMA EndTradesRegistry ==
    ASSUME TradeInv, NEW S \in SUBSET Players, EndTrades(S)
    PROVE  RegistryAgrees' /\ DocumentsAreOffered'
<1>1. RegistryAgrees'
    <2> SUFFICES ASSUME NEW g \in Goods, NEW p \in Players
                 PROVE  tradeItems'[g] = p <=> tradeItem'[p] = g
        BY DEF RegistryAgrees
    <2>1. tradeItems[g] = p <=> tradeItem[p] = g
        BY DEF TradeInv, OffersRegistered, RegistryAgrees
    <2>2. CASE \E q \in S : tradeItem[q] = g
        <3>1. PICK q \in S : tradeItem[q] = g
            BY <2>2
        <3>2. tradeItems[g] = q
            BY <3>1 DEF TradeInv, OffersRegistered, RegistryAgrees
        <3>3. tradeItems'[g] = Nobody
            BY <2>2 DEF EndTrades
        <3>4. tradeItem'[p] # g
            BY <2>1, <3>2, <3>1 DEF EndTrades, Goods
        <3> QED BY <3>3, <3>4
    <2>3. CASE ~ \E q \in S : tradeItem[q] = g
        <3>1. tradeItems'[g] = tradeItems[g]
            BY <2>3 DEF EndTrades
        <3>2. tradeItem'[p] = g <=> tradeItem[p] = g
            BY <2>3 DEF EndTrades, Goods
        <3> QED BY <2>1, <3>1, <3>2
    <2> QED BY <2>2, <2>3
<1>2. DocumentsAreOffered'
    <2> SUFFICES ASSUME NEW h \in Houses
                 PROVE  transferItem'[h] <=> tradeItems'[h] # Nobody
        BY DEF DocumentsAreOffered
    <2>1. transferItem[h] <=> tradeItems[h] # Nobody
        BY DEF TradeInv, DocumentsAreOffered
    <2>2. h \in Goods
        BY DEF Goods
    <2> QED BY <2>1, <2>2 DEF EndTrades, EndDocuments
<1> QED BY <1>1, <1>2

\* Where nothing is put into what trades that go on offer, and their own items
\* keep their places and their containers, what is offered stays apart and in
\* reach.
LEMMA EndTradesPlaces ==
    ASSUME TradeInv, NEW S \in SUBSET Players, EndTrades(S),
           \A p \in Players \ S : tradeItem[p] \in Items =>
               /\ \A x \in Items : place'[x] = tradeItem[p] => place[x] = tradeItem[p]
               /\ p \notin borrowed =>
                    /\ place'[tradeItem[p]] = place[tradeItem[p]]
                    /\ place[tradeItem[p]] \in Containers =>
                            place'[place[tradeItem[p]]] = place[place[tradeItem[p]]]
    PROVE  OfferedOnce' /\ OffersInReach'
<1>1. OfferedOnce'
    <2> SUFFICES ASSUME NEW p \in Players, NEW q \in Players,
                        p # q, tradeItem'[p] # NoItem, tradeItem'[q] # NoItem,
                        Overlap(tradeItem[p], tradeItem[q])'
                 PROVE  FALSE
        BY DEF OfferedOnce
    <2>1. p \notin S /\ q \notin S /\ tradeItem'[p] = tradeItem[p] /\ tradeItem'[q] = tradeItem[q]
        BY DEF EndTrades
    <2>2. ~ Overlap(tradeItem[p], tradeItem[q])
        BY <2>1 DEF TradeInv, OffersRegistered, OfferedOnce
    <2> QED BY <2>1, <2>2 DEF Overlap
<1>2. ASSUME NEW p \in borrowed'
      PROVE  tradeItem'[p] \in Items \ Containers
    <2>1. p \in borrowed /\ p \in Players \ S
        BY <1>2 DEF EndTrades, TradeInv, TradeTypeOK
    <2>2. tradeItem'[p] = tradeItem[p]
        BY <2>1 DEF EndTrades
    <2> QED BY <2>1, <2>2 DEF TradeInv, OffersInReach
<1>3. ASSUME NEW p \in Players \ borrowed', NEW i \in Items, tradeItem'[p] = i
      PROVE  Carrier(i)' \in {p, Ground}
    <2>1. p \notin S /\ tradeItem[p] = i
        BY <1>3 DEF EndTrades, Goods
    <2>2. p \notin borrowed
        BY <1>3, <2>1 DEF EndTrades
    <2>3. Carrier(i) \in {p, Ground}
        BY <2>1, <2>2 DEF TradeInv, OffersInReach
    <2> QED BY <2>1, <2>2, <2>3 DEF Carrier
<1> QED BY <1>1, <1>2, <1>3 DEF OffersInReach

-----------------------------------------------------------------------------
(* One step preserves the invariant                                        *)

\* The invariant holds when the world starts.
LEMMA InitHolds == TradeInit => TradeInv
<1> SUFFICES ASSUME TradeInit PROVE TradeInv
    OBVIOUS
<1>1. TradeTypeOK /\ online \subseteq Players
    BY DEF TradeInit, TradeTypeOK, Goods
<1>2. PartnersAgree /\ OffersRegistered /\ DocumentsAreOffered
    BY DEF TradeInit, PartnersAgree, OffersRegistered, RegistryAgrees, OfferedOnce, DocumentsAreOffered, Goods
<1>3. OffersInReach
    BY DEF TradeInit, OffersInReach, Goods
<1>4. FlatContainers
    <2> SUFFICES ASSUME NEW b \in Containers PROVE place[b] \notin Containers
        BY DEF FlatContainers
    <2>1. b \in Items /\ place[b] \in Players
        BY DEF TradeInit
    <2>2. place[b] \notin Items
        BY <2>1 DEF Goods
    <2> QED BY <2>2
<1> QED BY <1>1, <1>2, <1>3, <1>4 DEF TradeInv

\* Who may start a trade has offered nothing yet.
LEMMA NothingOfferedYet ==
    ASSUME TradeInv, NEW p \in Players, NEW q \in Players, MayTrade(p, q)
    PROVE  /\ tradeItem[p] = NoItem
           /\ tradeState[p] = "none" \/ tradePartner[p] = q
           /\ tradeState[q] = "none" \/ tradePartner[q] = p
BY DEF MayTrade, TradeInv, PartnersAgree

\* Starting a trade keeps the types,
LEMMA StartTradeTypes ==
    ASSUME TradeInv, NEW p \in Players, NEW q \in Players, NEW g \in Goods, StartTrade(p, q, g)
    PROVE  /\ tradeState' \in [Players -> {"none", "initiated", "acknowledge", "accept"}]
           /\ tradePartner' \in [Players -> Players \cup {Nobody}]
           /\ tradeItem' \in [Players -> Goods \cup {NoItem}]
           /\ tradeItems' \in [Goods -> Players \cup {Nobody}]
<1>1. tradeState' \in [Players -> {"none", "initiated", "acknowledge", "accept"}]
    BY DEF TradeInv, TradeTypeOK, StartTrade
<1>2. tradePartner' \in [Players -> Players \cup {Nobody}]
    BY DEF TradeInv, TradeTypeOK, StartTrade
<1>3. tradeItem' \in [Players -> Goods \cup {NoItem}]
    BY DEF TradeInv, TradeTypeOK, StartTrade
<1>4. tradeItems' \in [Goods -> Players \cup {Nobody}]
    BY DEF TradeInv, TradeTypeOK, StartTrade
<1> QED BY <1>1, <1>2, <1>3, <1>4

\* and what trades and offers owe to each other, for a good that no offer has
\* part in and that is in reach.
LEMMA StartTradeKeeps ==
    ASSUME TradeInv, NEW p \in online, NEW q \in online \ {p}, NEW g \in Goods,
           \A r \in Players : tradeItem[r] # NoItem => ~ Overlap(tradeItem[r], g),
           StartTrade(p, q, g), UNCHANGED <<online, place>>,
           \/ borrowed' = borrowed /\ (g \in Items => Carrier(g) \in {p, Ground})
           \/ borrowed' = borrowed \cup {p} /\ g \in Items \ Containers
    PROVE  PartnersAgree' /\ OffersRegistered' /\ OffersInReach'
<1>1. p \in Players /\ q \in Players /\ p # q
    BY DEF TradeInv
<1>2. MayTrade(p, q) /\ g # NoItem
    BY DEF StartTrade, Goods
<1>3. /\ tradeItem[p] = NoItem
      /\ tradeState[p] = "none" \/ tradePartner[p] = q
      /\ tradeState[q] = "none" \/ tradePartner[q] = p
    BY <1>1, <1>2, NothingOfferedYet
<1>4. /\ tradePartner'[p] = q /\ tradePartner'[q] = p
      /\ tradeState'[p] = "initiated" /\ tradeState'[q] # "none"
      /\ tradeState'[q] = "acknowledge" => tradeItem[q] = NoItem
      /\ tradeState'[q] = "initiated" => tradeItem[q] # NoItem
      /\ tradeItem'[p] = g /\ tradeItem'[q] = tradeItem[q]
    BY <1>1, <1>3 DEF StartTrade, TradeInv, TradeTypeOK, PartnersAgree
<1>5. \A r \in Players \ {p, q} : /\ tradeState'[r] = tradeState[r] /\ tradePartner'[r] = tradePartner[r]
                                 /\ tradeItem'[r] = tradeItem[r]
    BY DEF StartTrade, TradeInv, TradeTypeOK
<1>6. PartnersAgree'
    <2> SUFFICES ASSUME NEW r \in Players
                 PROVE  IF tradeState'[r] = "none"
                        THEN tradePartner'[r] = Nobody /\ tradeItem'[r] = NoItem
                        ELSE /\ r \in online
                             /\ tradePartner'[r] \in Players \ {r}
                             /\ tradePartner'[tradePartner'[r]] = r
                             /\ tradeState'[tradePartner'[r]] # "none"
                             /\ tradeState'[r] = "initiated" => tradeItem'[r] # NoItem
                             /\ tradeState'[r] = "acknowledge" => tradeItem'[r] = NoItem
                             /\ tradeItem'[r] # NoItem \/ tradeItem'[tradePartner'[r]] # NoItem
        BY DEF PartnersAgree
    <2>1. CASE r \in {p, q}
        BY <1>1, <1>2, <1>4, <2>1
    <2>2. CASE r \notin {p, q} /\ tradeState[r] = "none"
        BY <2>2, <1>5 DEF TradeInv, PartnersAgree
    <2>3. CASE r \notin {p, q} /\ tradeState[r] # "none"
        <3>1. /\ r \in online /\ tradePartner[r] \in Players \ {r} /\ tradePartner[tradePartner[r]] = r
              /\ tradeState[tradePartner[r]] # "none"
              /\ tradeState[r] = "initiated" => tradeItem[r] # NoItem
              /\ tradeState[r] = "acknowledge" => tradeItem[r] = NoItem
              /\ tradeItem[r] # NoItem \/ tradeItem[tradePartner[r]] # NoItem
            BY <2>3 DEF TradeInv, PartnersAgree
        <3>2. tradePartner[r] \notin {p, q}
            BY <3>1, <2>3, <1>3
        <3> QED BY <3>1, <3>2, <2>3, <1>5
    <2> QED BY <2>1, <2>2, <2>3
<1>7. RegistryAgrees'
    <2> SUFFICES ASSUME NEW h \in Goods, NEW r \in Players
                 PROVE  tradeItems'[h] = r <=> tradeItem'[r] = h
        BY DEF RegistryAgrees
    <2>1. tradeItems[h] = r <=> tradeItem[r] = h
        BY DEF TradeInv, OffersRegistered, RegistryAgrees
    <2>2. CASE h = g
        <3>1. tradeItem[r] # g
            BY <1>2 DEF Overlap
        <3>2. tradeItems'[g] = p
            BY DEF StartTrade, TradeInv, TradeTypeOK
        <3> QED BY <2>2, <3>1, <3>2, <1>1, <1>4, <1>5
    <2>3. CASE h # g
        <3>1. tradeItems'[h] = tradeItems[h]
            BY <2>3 DEF StartTrade, TradeInv, TradeTypeOK
        <3>2. h # NoItem
            BY DEF Goods
        <3> QED BY <2>1, <2>3, <3>1, <3>2, <1>1, <1>3, <1>4, <1>5
    <2> QED BY <2>2, <2>3
<1>8. OfferedOnce'
    <2> SUFFICES ASSUME NEW r \in Players, NEW s \in Players, r # s,
                        tradeItem'[r] # NoItem, tradeItem'[s] # NoItem
                 PROVE  ~ Overlap(tradeItem[r], tradeItem[s])'
        BY DEF OfferedOnce
    <2>1. /\ r # p => tradeItem'[r] = tradeItem[r]
          /\ s # p => tradeItem'[s] = tradeItem[s]
        BY <1>1, <1>4, <1>5
    <2>2. CASE r # p /\ s # p
        BY <2>1, <2>2 DEF TradeInv, OffersRegistered, OfferedOnce, Overlap
    <2>3. CASE r = p
        BY <2>1, <2>3, <1>4 DEF Overlap
    <2>4. CASE s = p
        BY <2>1, <2>4, <1>4 DEF Overlap
    <2> QED BY <2>2, <2>3, <2>4
<1>9. ASSUME NEW r \in borrowed'
      PROVE  tradeItem'[r] \in Items \ Containers
    <2>1. \A s \in borrowed : tradeItem[s] \in Items \ Containers /\ s \in Players /\ tradeItem[s] # NoItem
        BY DEF TradeInv, TradeTypeOK, OffersInReach, Goods
    <2>2. CASE r \in borrowed
        <3>1. r # p
            BY <1>3, <2>1, <2>2
        <3> QED BY <2>1, <2>2, <3>1, <1>4, <1>5
    <2>3. CASE r \notin borrowed
        BY <1>4, <1>9, <2>3
    <2> QED BY <2>2, <2>3
<1>10. ASSUME NEW r \in Players \ borrowed', NEW i \in Items, tradeItem'[r] = i
       PROVE  Carrier(i)' \in {r, Ground}
    <2>1. CASE r = p
        <3>1. i = g /\ borrowed' = borrowed
            BY <1>4, <1>10, <2>1
        <3> QED BY <1>10, <2>1, <3>1 DEF Carrier
    <2>2. CASE r # p
        <3>1. tradeItem[r] = i /\ r \notin borrowed
            BY <1>10, <2>2, <1>1, <1>4, <1>5
        <3>2. Carrier(i) \in {r, Ground}
            BY <3>1 DEF TradeInv, OffersInReach
        <3> QED BY <3>2 DEF Carrier
    <2> QED BY <2>1, <2>2
<1> QED BY <1>6, <1>7, <1>8, <1>9, <1>10 DEF OffersRegistered, OffersInReach

\* A trade request keeps the invariant,
LEMMA RequestTradeStep ==
    ASSUME TradeInv, NEW p \in Players, NEW q \in Players, NEW i \in Items, RequestTrade(p, q, i)
    PROVE  TradeInv'
<1>1. i \in Goods /\ i \notin Houses
    BY DEF Goods
<1>2. \A r \in Players : tradeItem[r] # NoItem => ~ Overlap(tradeItem[r], i)
    <2> SUFFICES ASSUME NEW r \in Players, tradeItem[r] # NoItem
                 PROVE  ~ Overlap(tradeItem[r], i)
        OBVIOUS
    <2>1. tradeItem[r] \in Goods
        BY DEF TradeInv, TradeTypeOK
    <2>2. tradeItems[tradeItem[r]] = r
        BY <2>1 DEF TradeInv, OffersRegistered, RegistryAgrees
    <2> QED BY <2>1, <2>2 DEF RequestTrade, MayOffer
<1>3. PartnersAgree' /\ OffersRegistered' /\ OffersInReach'
    <2>1. CASE Carrier(i) \in {p, Ground}
        <3>1. borrowed' = borrowed
            BY <2>1 DEF RequestTrade
        <3> QED BY <1>1, <1>2, <2>1, <3>1, StartTradeKeeps DEF RequestTrade
    <2>2. CASE Carrier(i) \notin {p, Ground}
        <3>1. borrowed' = borrowed \cup {p}
            BY <2>2 DEF RequestTrade
        <3>2. place[i] \in Containers
            BY <2>2 DEF RequestTrade, Reaches, Carrier, TradeInv, TradeTypeOK
        <3>3. i \in Items \ Containers
            BY <3>2 DEF TradeInv, FlatContainers
        <3> QED BY <1>1, <1>2, <3>1, <3>3, StartTradeKeeps DEF RequestTrade
    <2> QED BY <2>1, <2>2
<1>4. TradeTypeOK' /\ (online \subseteq Players)'
    BY <1>1, StartTradeTypes DEF RequestTrade, TradeInv, TradeTypeOK
<1>5. DocumentsAreOffered'
    BY <1>1 DEF RequestTrade, StartTrade, TradeInv, TradeTypeOK, DocumentsAreOffered, Goods
<1>6. FlatContainers'
    BY DEF RequestTrade, TradeInv, FlatContainers
<1> QED BY <1>3, <1>4, <1>5, <1>6 DEF TradeInv

\* so does the offer of a house,
LEMMA StartHouseTradeStep ==
    ASSUME TradeInv, NEW p \in Players, NEW q \in Players, NEW h \in Houses, StartHouseTrade(p, q, h)
    PROVE  TradeInv'
<1>1. h \in Goods /\ h \notin Items
    BY DEF Goods
<1>2. \A r \in Players : tradeItem[r] # NoItem => ~ Overlap(tradeItem[r], h)
    <2> SUFFICES ASSUME NEW r \in Players, tradeItem[r] = h
                 PROVE  FALSE
        BY <1>1 DEF Overlap
    <2>1. tradeItems[h] = r
        BY <1>1 DEF TradeInv, OffersRegistered, RegistryAgrees
    <2> QED BY <2>1 DEF TradeInv, DocumentsAreOffered, StartHouseTrade
<1>3. PartnersAgree' /\ OffersRegistered' /\ OffersInReach'
    BY <1>1, <1>2, StartTradeKeeps DEF StartHouseTrade
<1>4. TradeTypeOK' /\ (online \subseteq Players)'
    BY <1>1, StartTradeTypes DEF StartHouseTrade, TradeInv, TradeTypeOK
<1>5. DocumentsAreOffered'
    BY <1>1 DEF StartHouseTrade, StartTrade, TradeInv, TradeTypeOK, DocumentsAreOffered, Goods
<1>6. FlatContainers'
    BY DEF StartHouseTrade, TradeInv, FlatContainers
<1> QED BY <1>3, <1>4, <1>5, <1>6 DEF TradeInv

\* An end of trades that moves nothing.
LEMMA EndTradesStep ==
    ASSUME TradeInv, NEW S \in SUBSET Players, Closed(S), EndTrades(S), UNCHANGED <<place, owner>>,
           openContainers' \in [Players -> SUBSET Containers],
           (online \subseteq Players)', \A p \in Players \ S : p \in online => p \in online'
    PROVE  TradeInv'
<1>1. TradeTypeOK'
    BY EndTradesTypes DEF TradeInv, TradeTypeOK
<1>2. PartnersAgree'
    BY EndTradesPartners
<1>3. RegistryAgrees' /\ DocumentsAreOffered'
    BY EndTradesRegistry
<1>4. OfferedOnce' /\ OffersInReach'
    BY EndTradesPlaces
<1>5. FlatContainers'
    BY DEF TradeInv, FlatContainers
<1> QED BY <1>1, <1>2, <1>3, <1>4, <1>5 DEF TradeInv, OffersRegistered

\* An exchange does not move what others offer.
LEMMA ExchangeElsewhere ==
    ASSUME TradeInv, NEW p \in Players, AcceptTrade(p), Exchange(p, tradePartner[p]),
           NEW r \in Players \ {p, tradePartner[p]}, NEW g \in Items, tradeItem[r] = g
    PROVE  place'[g] = place[g] /\ \A x \in Items : place[x] = g <=> place'[x] = g
<1> PICK q, i, j : q = tradePartner[p] /\ i = tradeItem[p] /\ j = tradeItem[q]
    OBVIOUS
<1>1. /\ q \in Players \ {p} /\ tradePartner[q] = p /\ i # NoItem /\ j # NoItem
      /\ i \in Goods /\ j \in Goods /\ g # NoItem
    BY DEF AcceptTrade, Exchange, TradeInv, PartnersAgree, TradeTypeOK, Goods
<1>2. ~ Overlap(g, i) /\ ~ Overlap(g, j)
    BY <1>1 DEF TradeInv, OffersRegistered, OfferedOnce
<1>3. PICK to \in Pockets(q, i, j), back \in Pockets(p, j, i) :
            \/ place' = [x \in Items |-> IF x = i THEN to ELSE IF x = j THEN back ELSE place[x]]
            \/ place' = [x \in Items |-> IF x = i THEN to ELSE place[x]]
    BY DEF Exchange
<1>4. g \in Containers => Carrier(g) \in {r, Ground}
    BY DEF TradeInv, OffersInReach
<1>5. g \in Containers => place[g] \notin {p, q}
    <2>1. g \in Goods /\ p \notin Containers /\ q \notin Containers /\ p # Ground /\ q # Ground
        BY <1>1 DEF Goods
    <2> QED BY <1>1, <1>4, <2>1 DEF Carrier
<1>6. to # g /\ back # g
    <2>1. g \notin Players
        BY DEF Goods
    <2> QED BY <1>1, <1>5, <2>1 DEF Pockets
<1>7. place'[g] = place[g]
    BY <1>2, <1>3 DEF Overlap
<1>8. ASSUME NEW x \in Items
      PROVE  place[x] = g <=> place'[x] = g
    <2>1. /\ i \in Items => place[i] # g
          /\ j \in Items => place[j] # g
        BY <1>2 DEF Overlap
    <2> QED BY <1>3, <1>6, <2>1
<1> QED BY <1>7, <1>8

\* an acceptance, the first or the second,
LEMMA AcceptTradeStep ==
    ASSUME TradeInv, NEW p \in Players, AcceptTrade(p)
    PROVE  TradeInv'
<1> DEFINE q == tradePartner[p]
<1>1. /\ p \in online /\ tradeState[p] # "none" /\ q \in Players \ {p} /\ tradePartner[q] = p
      /\ tradeItem[p] # NoItem \/ tradeItem[q] # NoItem
    BY DEF AcceptTrade, TradeInv, PartnersAgree
<1>2. Closed({p, q}) /\ {p, q} \in SUBSET Players
    BY <1>1 DEF Closed
<1>3. CASE /\ tradeState' = [tradeState EXCEPT ![p] = "accept"]
           /\ UNCHANGED <<tradePartner, tradeItem, tradeItems, place, openContainers, borrowed, owner, transferItem>>
    <2>1. TradeTypeOK' /\ (online \subseteq Players)'
        BY <1>3 DEF AcceptTrade, TradeInv, TradeTypeOK
    <2>2. \A r \in Players : /\ tradeState[r] = "none" <=> tradeState'[r] = "none"
                             /\ tradeState'[r] \in {"initiated", "acknowledge"} => tradeState'[r] = tradeState[r]
        BY <1>1, <1>3 DEF TradeInv, TradeTypeOK
    <2>3. PartnersAgree'
        <3> SUFFICES ASSUME NEW r \in Players
                     PROVE  IF tradeState'[r] = "none"
                            THEN tradePartner[r] = Nobody /\ tradeItem[r] = NoItem
                            ELSE /\ r \in online
                                 /\ tradePartner[r] \in Players \ {r}
                                 /\ tradePartner[tradePartner[r]] = r
                                 /\ tradeState'[tradePartner[r]] # "none"
                                 /\ tradeState'[r] = "initiated" => tradeItem[r] # NoItem
                                 /\ tradeState'[r] = "acknowledge" => tradeItem[r] = NoItem
                                 /\ tradeItem[r] # NoItem \/ tradeItem[tradePartner[r]] # NoItem
            BY <1>3 DEF PartnersAgree, AcceptTrade
        <3> QED BY <2>2 DEF TradeInv, PartnersAgree
    <2>4. OffersRegistered' /\ DocumentsAreOffered'
        BY <1>3 DEF TradeInv, OffersRegistered, RegistryAgrees, OfferedOnce, DocumentsAreOffered, Overlap
    <2>5. OffersInReach' /\ FlatContainers'
        BY <1>3 DEF TradeInv, OffersInReach, Carrier, FlatContainers
    <2> QED BY <2>1, <2>3, <2>4, <2>5 DEF TradeInv
<1>4. CASE EndTrades({p, q}) /\ UNCHANGED <<place, openContainers, owner>>
    <2>1. openContainers' \in [Players -> SUBSET Containers]
        BY <1>4 DEF TradeInv, TradeTypeOK
    <2> QED BY <1>2, <1>4, <2>1, EndTradesStep DEF AcceptTrade, TradeInv
<1>5. CASE Exchange(p, q) /\ EndTrades({p, q})
    <2> DEFINE i == tradeItem[p]
               j == tradeItem[q]
    <2>1. PICK to \in Pockets(q, i, j), back \in Pockets(p, j, i) :
                \/ place' = [x \in Items |-> IF x = i THEN to ELSE IF x = j THEN back ELSE place[x]]
                \/ place' = [x \in Items |-> IF x = i THEN to ELSE place[x]]
        BY <1>5 DEF Exchange
    <2>2. /\ to \in Players \cup Containers /\ back \in Players \cup Containers
          /\ to \in Containers => i \notin Containers
          /\ back \in Containers => j \notin Containers
        BY <1>1 DEF Pockets, Goods
    <2>3. TradeTypeOK' /\ (online \subseteq Players)'
        <3>1. place' \in [Items -> Players \cup Containers \cup {Ground}]
            BY <2>1, <2>2 DEF TradeInv, TradeTypeOK
        <3>2. owner' \in [Houses -> Players \cup {Nobody}]
            BY <1>1, <1>5 DEF Exchange, TradeInv, TradeTypeOK
        <3>3. openContainers' \in [Players -> SUBSET Containers]
            BY <1>5 DEF Exchange, WindowsFollow
        <3> QED BY <3>1, <3>2, <3>3, <1>2, <1>5, EndTradesTypes DEF AcceptTrade, TradeInv, TradeTypeOK
    <2>4. PartnersAgree' /\ RegistryAgrees' /\ DocumentsAreOffered'
        BY <1>2, <1>5, EndTradesPartners, EndTradesRegistry DEF AcceptTrade
    <2>5. OfferedOnce' /\ OffersInReach'
        <3> SUFFICES ASSUME NEW r \in Players \ {p, q}, tradeItem[r] \in Items
                     PROVE  /\ \A x \in Items : place'[x] = tradeItem[r] => place[x] = tradeItem[r]
                            /\ place'[tradeItem[r]] = place[tradeItem[r]]
                            /\ place[tradeItem[r]] \in Containers =>
                                    place'[place[tradeItem[r]]] = place[place[tradeItem[r]]]
            BY <1>2, <1>5, EndTradesPlaces
        <3>1. r # p /\ r # q /\ r \in Players
            OBVIOUS
        <3>2. /\ place'[tradeItem[r]] = place[tradeItem[r]]
              /\ \A x \in Items : place[x] = tradeItem[r] <=> place'[x] = tradeItem[r]
            BY <1>5, ExchangeElsewhere
        <3>3. tradeItem[r] # NoItem /\ i # NoItem /\ j # NoItem
            BY <1>5 DEF Exchange, Goods
        <3>4. ~ Overlap(tradeItem[r], i) /\ ~ Overlap(tradeItem[r], j)
            BY <1>1, <3>1, <3>3 DEF TradeInv, OffersRegistered, OfferedOnce
        <3>5. /\ i \in Items => place[tradeItem[r]] # i
              /\ j \in Items => place[tradeItem[r]] # j
            BY <3>4 DEF Overlap
        <3>6. ASSUME place[tradeItem[r]] \in Containers
              PROVE  place'[place[tradeItem[r]]] = place[place[tradeItem[r]]]
            BY <2>1, <3>5, <3>6
        <3> QED BY <3>2, <3>6
    <2>6. FlatContainers'
        <3> SUFFICES ASSUME NEW b \in Containers PROVE place'[b] \notin Containers
            BY DEF FlatContainers
        <3>1. place[b] \notin Containers /\ b \in Items
            BY DEF TradeInv, FlatContainers
        <3> QED BY <2>1, <2>2, <3>1
    <2> QED BY <2>3, <2>4, <2>5, <2>6 DEF TradeInv, OffersRegistered
<1> QED BY <1>3, <1>4, <1>5 DEF AcceptTrade

\* an item that moves, with the trades that it ends,
LEMMA MoveItemStep ==
    ASSUME TradeInv, NEW p \in Players, NEW i \in Items,
           NEW to \in Players \cup Containers \cup {Ground}, MoveItem(p, i, to)
    PROVE  TradeInv'
<1> PICK afar \in SUBSET borrowed : EndTrades(WithPartners(Disturbed(i, to) \ afar))
    BY DEF MoveItem
<1> PICK S : S = WithPartners(Disturbed(i, to) \ afar)
    OBVIOUS
<1>1. /\ EndTrades(S) /\ place' = [place EXCEPT ![i] = to] /\ UNCHANGED <<online, owner>>
      /\ openContainers' \in [Players -> SUBSET Containers]
    BY DEF MoveItem, WindowsFollow
<1>2. S \in SUBSET Players /\ Closed(S) /\ Disturbed(i, to) \ borrowed \subseteq S
    <2>1. Disturbed(i, to) \ afar \in SUBSET Players
        BY DEF Disturbed
    <2> QED BY <2>1, WithPartnersClosed
<1>3. TradeTypeOK' /\ (online \subseteq Players)'
    BY <1>1, <1>2, EndTradesTypes DEF TradeInv, TradeTypeOK
<1>4. PartnersAgree' /\ RegistryAgrees' /\ DocumentsAreOffered'
    BY <1>1, <1>2, EndTradesPartners, EndTradesRegistry
<1>5. OfferedOnce' /\ OffersInReach'
    <2> SUFFICES ASSUME NEW r \in Players \ S, tradeItem[r] \in Items
                 PROVE  /\ \A x \in Items : place'[x] = tradeItem[r] => place[x] = tradeItem[r]
                        /\ r \notin borrowed =>
                            /\ place'[tradeItem[r]] = place[tradeItem[r]]
                            /\ place[tradeItem[r]] \in Containers =>
                                    place'[place[tradeItem[r]]] = place[place[tradeItem[r]]]
        BY <1>1, <1>2, EndTradesPlaces
    <2>1. CASE r \in borrowed
        <3>1. tradeItem[r] \notin Containers /\ tradeItem[r] \notin Players /\ tradeItem[r] # Ground
            BY <2>1 DEF TradeInv, OffersInReach, Goods
        <3> QED BY <2>1, <3>1, <1>1 DEF TradeInv, TradeTypeOK
    <2>2. CASE r \notin borrowed
        <3>1. r \notin Disturbed(i, to)
            BY <1>2, <2>2
        <3>2. tradeItem[r] # i /\ tradeItem[r] # to /\ place[tradeItem[r]] # i
            BY <3>1 DEF Disturbed
        <3> QED BY <1>1, <3>2 DEF TradeInv, TradeTypeOK
    <2> QED BY <2>1, <2>2
<1>6. FlatContainers'
    <2> SUFFICES ASSUME NEW b \in Containers PROVE place'[b] \notin Containers
        BY DEF FlatContainers
    <2>1. place[b] \notin Containers /\ b \in Items
        BY DEF TradeInv, FlatContainers
    <2>2. i \in Containers => to \notin Containers
        BY DEF MoveItem, Goods
    <2> QED BY <1>1, <2>1, <2>2 DEF TradeInv, TradeTypeOK
<1> QED BY <1>3, <1>4, <1>5, <1>6 DEF TradeInv, OffersRegistered

\* Houses change hands, and windows open and close, without a trade.
LEMMA HouseStep ==
    ASSUME TradeInv, owner' \in [Houses -> Players \cup {Nobody}],
           openContainers' \in [Players -> SUBSET Containers], online \subseteq online', online' \subseteq Players,
           UNCHANGED <<offers, place>>
    PROVE  TradeInv'
<1>1. TradeTypeOK' /\ (online \subseteq Players)' /\ PartnersAgree'
    BY DEF offers, TradeInv, TradeTypeOK, PartnersAgree
<1>2. OffersRegistered' /\ DocumentsAreOffered'
    BY DEF offers, TradeInv, OffersRegistered, RegistryAgrees, OfferedOnce, DocumentsAreOffered, Overlap
<1>3. OffersInReach' /\ FlatContainers'
    BY DEF offers, TradeInv, OffersInReach, Carrier, FlatContainers
<1> QED BY <1>1, <1>2, <1>3 DEF TradeInv

\* and every other request about trades.
LEMMA TradeNextStep ==
    ASSUME TradeInv, TradeNext
    PROVE  TradeInv'
<1> PICK p \in Players :
        \/ CloseTrade(p) \/ WalkAway(p) \/ AcceptTrade(p)
        \/ \E q \in Players : \/ \E i \in Items : RequestTrade(p, q, i)
                              \/ \E h \in Houses : StartHouseTrade(p, q, h)
        \/ \E i \in Items, to \in Players \cup Containers \cup {Ground} : MoveItem(p, i, to)
        \/ \E b \in Containers : UseContainer(p, b) \/ CloseContainer(p, b)
        \/ \E h \in Houses : BuyHouse(p, h) \/ LeaveHouse(p, h)
    BY DEF TradeNext
<1>1. CASE CloseTrade(p) \/ WalkAway(p)
    <2>1. WithPartners({p}) \in SUBSET Players /\ Closed(WithPartners({p}))
        BY WithPartnersClosed
    <2>2. EndTrades(WithPartners({p})) /\ UNCHANGED <<online, place, owner>>
        BY <1>1 DEF CloseTrade, WalkAway
    <2>3. openContainers' \in [Players -> SUBSET Containers]
        BY <1>1 DEF CloseTrade, WalkAway, TradeInv, TradeTypeOK
    <2> QED BY <2>1, <2>2, <2>3, EndTradesStep DEF TradeInv
<1>2. CASE AcceptTrade(p)
    BY <1>2, AcceptTradeStep
<1>3. CASE \E q \in Players, i \in Items : RequestTrade(p, q, i)
    BY <1>3, RequestTradeStep
<1>4. CASE \E q \in Players, h \in Houses : StartHouseTrade(p, q, h)
    BY <1>4, StartHouseTradeStep
<1>5. CASE \E i \in Items, to \in Players \cup Containers \cup {Ground} : MoveItem(p, i, to)
    BY <1>5, MoveItemStep
<1>6. CASE \E h \in Houses : BuyHouse(p, h) \/ LeaveHouse(p, h)
    <2>1. owner' \in [Houses -> Players \cup {Nobody}]
        BY <1>6 DEF BuyHouse, LeaveHouse, TradeInv, TradeTypeOK
    <2>2. openContainers' \in [Players -> SUBSET Containers] /\ online' \subseteq Players
        BY <1>6 DEF BuyHouse, LeaveHouse, TradeInv, TradeTypeOK
    <2> QED BY <1>6, <2>1, <2>2, HouseStep DEF BuyHouse, LeaveHouse
<1>7. CASE \E b \in Containers : UseContainer(p, b) \/ CloseContainer(p, b)
    <2>1. openContainers' \in [Players -> SUBSET Containers]
        BY <1>7 DEF UseContainer, CloseContainer, TradeInv, TradeTypeOK
    <2>2. owner' \in [Houses -> Players \cup {Nobody}] /\ online' \subseteq Players
        BY <1>7 DEF UseContainer, CloseContainer, TradeInv, TradeTypeOK
    <2> QED BY <1>7, <2>1, <2>2, HouseStep DEF UseContainer, CloseContainer
<1> QED BY <1>1, <1>2, <1>3, <1>4, <1>5, <1>6, <1>7

\* So does every step of the society.
LEMMA NextStep ==
    ASSUME TradeInv, [Next]_vars
    PROVE  TradeInv'
<1>1. CASE TradeNext
    BY <1>1, TradeNextStep
<1>2. CASE UNCHANGED <<online, tradeVars>>
    BY <1>2, HouseStep DEF tradeVars, TradeInv, TradeTypeOK
<1>3. CASE PartyNext /\ UNCHANGED tradeVars
    <2>1. UNCHANGED online
        BY <1>3 DEF PartyNext, PlayerLeaveParty, InviteToParty, RevokePartyInvitation, PassPartyLeadership, JoinParty
    <2> QED BY <1>2, <1>3, <2>1
<1>4. ASSUME NEW p \in Players, Login(p)
      PROVE  TradeInv'
    <2>1. /\ online \subseteq online' /\ online' \subseteq Players
          /\ openContainers' \in [Players -> SUBSET Containers]
          /\ owner' \in [Houses -> Players \cup {Nobody}]
        BY <1>4 DEF Login, TradeInv, TradeTypeOK
    <2> QED BY <1>4, <2>1, HouseStep DEF Login
<1>5. ASSUME NEW p \in Players, Logout(p)
      PROVE  TradeInv'
    <2>1. /\ online' = online \ {p} /\ UNCHANGED <<place, owner>>
          /\ openContainers' \in [Players -> SUBSET Containers]
        BY <1>5 DEF Logout, TradeInv, TradeTypeOK
    <2>2. CASE tradePartner[p] # Nobody
        <3>1. EndTrades(WithPartners({p}))
            BY <1>5, <2>2 DEF Logout
        <3>2. WithPartners({p}) \in SUBSET Players /\ Closed(WithPartners({p})) /\ p \in WithPartners({p})
            BY WithPartnersClosed
        <3> QED BY <3>1, <3>2, <2>1, EndTradesStep DEF TradeInv
    <2>3. CASE tradePartner[p] = Nobody
        <3>1. EndTrades({})
            BY <1>5, <2>3 DEF Logout
        <3>2. tradeState[p] = "none"
            BY <2>3 DEF TradeInv, PartnersAgree
        <3>3. Closed({})
            BY DEF Closed
        <3>4. TradeTypeOK' /\ (online \subseteq Players)'
            BY <3>1, <2>1, EndTradesTypes DEF TradeInv, TradeTypeOK
        <3>5. PartnersAgree'
            <4>1. /\ tradeState' = tradeState /\ tradePartner' = tradePartner /\ tradeItem' = tradeItem
                BY <3>1 DEF EndTrades, TradeInv, TradeTypeOK
            <4> QED BY <4>1, <3>2, <2>1 DEF TradeInv, PartnersAgree
        <3>6. RegistryAgrees' /\ DocumentsAreOffered' /\ OfferedOnce' /\ OffersInReach'
            BY <3>1, <2>1, EndTradesRegistry, EndTradesPlaces
        <3>7. FlatContainers'
            BY <2>1 DEF TradeInv, FlatContainers
        <3> QED BY <3>4, <3>5, <3>6, <3>7 DEF TradeInv, OffersRegistered
    <2> QED BY <2>2, <2>3
<1> QED BY <1>1, <1>2, <1>3, <1>4, <1>5 DEF Next, vars

\* TradeInv is an inductive invariant of the society.
THEOREM TradeInvariant == Spec => []TradeInv
<1>1. Init => TradeInv
    BY InitHolds DEF Init
<1> QED BY <1>1, NextStep, PTL DEF Spec

\* Both sides of a trade agree on it at any time (PartnersAgree).
THEOREM TradesAreMutual == Spec => []PartnersAgree
BY TradeInvariant, PTL DEF TradeInv

\* The table of offered goods is right and no good is offered twice.
THEOREM OffersAreRegistered == Spec => []OffersRegistered
BY TradeInvariant, PTL DEF TradeInv

\* No transfer document of a house outlives its offer.
THEOREM DocumentsDoNotLinger == Spec => []DocumentsAreOffered
BY TradeInvariant, PTL DEF TradeInv

-----------------------------------------------------------------------------
(* What one step may do to offers and goods                                *)

\* An offer that goes on stays as it was.
LEMMA OffersStep ==
    ASSUME TradeInv, [Next]_vars, NEW p \in Players, NEW g \in Goods,
           tradeItem[p] = g, tradeState'[p] # "none"
    PROVE  /\ tradeItem'[p] = g
           /\ g \in Items /\ p \notin borrowed =>
                            /\ place'[g] = place[g]
                            /\ \A x \in Items : place[x] = g <=> place'[x] = g
<1>1. g # NoItem
    BY DEF Goods
<1>2. ASSUME NEW S \in SUBSET Players, EndTrades(S)
      PROVE  p \notin S /\ tradeItem'[p] = g
    BY <1>2 DEF EndTrades
<1>3. ASSUME NEW r \in Players, NEW q \in Players, NEW h \in Goods, r # q, StartTrade(r, q, h)
      PROVE  tradeItem'[p] = g
    <2>1. tradeItem[r] = NoItem
        BY <1>3, NothingOfferedYet DEF StartTrade
    <2> QED BY <1>1, <1>3, <2>1 DEF StartTrade, TradeInv, TradeTypeOK
<1>4. CASE UNCHANGED tradeVars
    BY <1>4 DEF tradeVars, offers
<1>5. CASE TradeNext
    <2> PICK r \in Players :
            \/ CloseTrade(r) \/ WalkAway(r) \/ AcceptTrade(r)
            \/ \E q \in Players : \/ \E i \in Items : RequestTrade(r, q, i)
                                  \/ \E h \in Houses : StartHouseTrade(r, q, h)
            \/ \E i \in Items, to \in Players \cup Containers \cup {Ground} : MoveItem(r, i, to)
            \/ \E b \in Containers : UseContainer(r, b) \/ CloseContainer(r, b)
            \/ \E h \in Houses : BuyHouse(r, h) \/ LeaveHouse(r, h)
        BY <1>5 DEF TradeNext
    <2>1. CASE CloseTrade(r) \/ WalkAway(r)
        <3>1. WithPartners({r}) \in SUBSET Players
            BY WithPartnersClosed
        <3> QED BY <2>1, <3>1, <1>2 DEF CloseTrade, WalkAway
    <2>2. CASE AcceptTrade(r)
        <3>1. r \in Players /\ tradePartner[r] \in Players
            BY <2>2 DEF AcceptTrade, TradeInv, PartnersAgree
        <3>2. {r, tradePartner[r]} \in SUBSET Players
            BY <3>1
        <3>3. CASE UNCHANGED <<tradePartner, tradeItem, tradeItems, place, openContainers, borrowed, owner, transferItem>>
            BY <3>3
        <3>4. CASE EndTrades({r, tradePartner[r]}) /\ UNCHANGED <<place, openContainers, owner>>
            BY <3>2, <3>4, <1>2
        <3>5. CASE Exchange(r, tradePartner[r]) /\ EndTrades({r, tradePartner[r]})
            <4>1. p \in Players \ {r, tradePartner[r]} /\ tradeItem'[p] = g
                BY <3>2, <3>5, <1>2
            <4> QED BY <2>2, <3>5, <4>1, ExchangeElsewhere
        <3> QED BY <2>2, <3>3, <3>4, <3>5 DEF AcceptTrade
    <2>3. CASE \E q \in Players, i \in Items : RequestTrade(r, q, i)
        BY <2>3, <1>3 DEF RequestTrade, Goods
    <2>4. CASE \E q \in Players, h \in Houses : StartHouseTrade(r, q, h)
        BY <2>4, <1>3 DEF StartHouseTrade, Goods
    <2>5. CASE \E i \in Items, to \in Players \cup Containers \cup {Ground} : MoveItem(r, i, to)
        <3> PICK i \in Items, to \in Players \cup Containers \cup {Ground} : MoveItem(r, i, to)
            BY <2>5
        <3> PICK afar \in SUBSET borrowed : EndTrades(WithPartners(Disturbed(i, to) \ afar))
            BY DEF MoveItem
        <3>1. place' = [place EXCEPT ![i] = to]
            BY DEF MoveItem
        <3>2. /\ WithPartners(Disturbed(i, to) \ afar) \in SUBSET Players
              /\ Disturbed(i, to) \ borrowed \subseteq WithPartners(Disturbed(i, to) \ afar)
            <4>1. Disturbed(i, to) \ afar \in SUBSET Players
                BY DEF Disturbed
            <4> QED BY <4>1, WithPartnersClosed
        <3>3. p \notin Disturbed(i, to) \ borrowed /\ tradeItem'[p] = g
            BY <3>2, <1>2
        <3>4. p \notin borrowed => g # i /\ g # place[i] /\ g # to /\ (g \in Items => place[g] # i)
            BY <3>3 DEF Disturbed
        <3> QED BY <3>1, <3>3, <3>4 DEF TradeInv, TradeTypeOK
    <2>6. CASE \E h \in Houses : BuyHouse(r, h) \/ LeaveHouse(r, h)
        BY <2>6 DEF offers, BuyHouse, LeaveHouse
    <2>7. CASE \E b \in Containers : UseContainer(r, b) \/ CloseContainer(r, b)
        BY <2>7 DEF offers, UseContainer, CloseContainer
    <2> QED BY <2>1, <2>2, <2>3, <2>4, <2>5, <2>6, <2>7
<1>6. ASSUME NEW r \in Players, Logout(r)
      PROVE  tradeItem'[p] = g /\ place' = place
    <2>1. WithPartners({r}) \in SUBSET Players
        BY WithPartnersClosed
    <2>2. place' = place /\ \E S \in SUBSET Players : EndTrades(S)
        BY <1>6, <2>1 DEF Logout
    <2> QED BY <2>2, <1>2
<1>7. ASSUME NEW r \in Players, Login(r)
      PROVE  tradeItem' = tradeItem /\ place' = place
    BY <1>7 DEF offers, Login
<1> QED BY <1>4, <1>5, <1>6, <1>7 DEF Next, vars

\* Nobody's offer changes under the eyes of the other (OffersStayPut).
THEOREM OffersDoNotChange == Spec => OffersStayPut
<1>1. ASSUME TradeInv, [Next]_vars
      PROVE  [ \A p \in Players : \A g \in Goods :
                  /\ tradeItem[p] = g
                  /\ tradeState'[p] # "none"
                  => /\ tradeItem'[p] = g
                     /\ g \in Items /\ p \notin borrowed =>
                          /\ place'[g] = place[g]
                          /\ \A x \in Items : place[x] = g <=> place'[x] = g ]_tradeVars
    BY <1>1, OffersStep
<1> QED BY <1>1, TradeInvariant, PTL DEF Spec, OffersStayPut

-----------------------------------------------------------------------------
(* Goods change hands in exchanges or through windows                      *)

\* A move by hand leads from and to what the mover has, what lies on the ground
\* and the bags it has windows on.
LEMMA MovesThroughWindows ==
    ASSUME TradeInv, NEW r \in Players, NEW k \in Items,
           NEW to \in Players \cup Containers \cup {Ground}, MoveItem(r, k, to),
           NEW x \in Items, Carrier(x) \in Players, Carrier(x)' \in Players \ {Carrier(x)}
    PROVE  HandedThroughWindow(x)
<1>1. /\ place' = [place EXCEPT ![k] = to] /\ Reaches(r, k) /\ r \in online
      /\ openContainers \in [Players -> SUBSET Containers]
      /\ \/ to \in {r, Ground}
         \/ to \in Containers /\ k \notin Containers /\ (place[to] = r \/ to \in openContainers[r])
    BY DEF MoveItem, TradeInv, TradeTypeOK
<1>2. /\ r \notin Containers /\ Ground \notin Containers /\ Ground \notin Players
      /\ Containers \subseteq Items /\ k \in DOMAIN place /\ x \in DOMAIN place
    BY DEF Goods, TradeInv, TradeTypeOK
<1>3. CASE x = k
    <2>1. place'[x] = to
        BY <1>1, <1>2, <1>3
    <2>2. Carrier(x) = r \/ place[x] \in openContainers[r]
        BY <1>1, <1>2, <1>3 DEF Reaches, Carrier
    <2>3. Carrier(x)' = r \/ place'[x] \in openContainers[r]
        <3>1. CASE to \in {r, Ground}
            BY <1>2, <2>1, <3>1 DEF Carrier
        <3>2. CASE to \in Containers /\ k \notin Containers /\ place[to] = r
            BY <1>1, <1>2, <2>1, <3>2 DEF Carrier
        <3>3. CASE to \in openContainers[r]
            BY <2>1, <3>3
        <3> QED BY <1>1, <3>1, <3>2, <3>3
    <2> QED BY <1>1, <2>2, <2>3 DEF HandedThroughWindow
<1>4. CASE x # k
    <2>1. place'[x] = place[x]
        BY <1>1, <1>4
    <2>2. place[x] \in Containers /\ place[x] = k
        BY <1>1, <2>1 DEF Carrier
    <2>3. Carrier(x) = place[k] /\ Carrier(x)' = to /\ place[k] \notin Containers
        BY <1>1, <1>2, <2>1, <2>2 DEF Carrier, TradeInv, FlatContainers
    <2>4. Carrier(k) = place[k] /\ place[k] # Ground
        BY <1>2, <2>3 DEF Carrier
    <2>5. place[k] = r /\ to \in {r, Ground}
        BY <1>1, <2>2, <2>3, <2>4 DEF Reaches
    <2> QED BY <1>2, <2>3, <2>5
<1> QED BY <1>3, <1>4

\* Who carries what after an exchange of i (of p) and j (of q).
LEMMA ExchangeCarriers ==
    ASSUME TradeInv, NEW p \in Players, NEW q, AcceptTrade(p), tradePartner[p] = q, Exchange(p, q),
           NEW i, tradeItem[p] = i, NEW j, tradeItem[q] = j
    PROVE  /\ i \in Items => Carrier(i)' = q
           /\ j \in Items \ Stackable => Carrier(j)' = p
           /\ j \in Items => Carrier(j)' \in {p, Carrier(j)}
           /\ \A x \in Items \ {i, j} :
                \/ Carrier(x)' = Carrier(x)
                \/ i \in Items /\ place[x] = i /\ Carrier(x) \in {p, Ground} /\ Carrier(x)' = q
                \/ j \in Items /\ place[x] = j /\ Carrier(x) \in {q, Ground} /\ Carrier(x)' = p
<1>1. /\ q \in Players \ {p} /\ i # NoItem /\ j # NoItem /\ i \in Goods /\ j \in Goods
    BY DEF AcceptTrade, Exchange, TradeInv, PartnersAgree, TradeTypeOK
<1>2. PICK to \in Pockets(q, i, j), back \in Pockets(p, j, i) :
            \/ place' = [x \in Items |-> IF x = i THEN to ELSE IF x = j THEN back ELSE place[x]]
            \/ j \in Stackable /\ place' = [x \in Items |-> IF x = i THEN to ELSE place[x]]
    BY DEF Exchange
<1>3. ~ Overlap(i, j)
    BY <1>1 DEF TradeInv, OffersRegistered, OfferedOnce
<1>4. /\ p \notin Containers /\ q \notin Containers
      /\ Containers \subseteq Items /\ Stackable \subseteq Items \ Containers /\ i # j
    BY <1>1, <1>3 DEF Goods, Overlap
<1>5. /\ i \in Containers => Carrier(i) \in {p, Ground}
      /\ j \in Containers => Carrier(j) \in {q, Ground}
    BY <1>1 DEF TradeInv, OffersInReach
<1>6. /\ to = q \/ (to \in Containers \ {i, j} /\ place[to] = q /\ i \notin Containers)
      /\ back = p \/ (back \in Containers \ {i, j} /\ place[back] = p /\ j \notin Containers)
    BY DEF Pockets
<1>7. \A b \in Containers \ {i, j} : place'[b] = place[b]
    BY <1>2, <1>4
<1>8. ASSUME i \in Items
      PROVE  Carrier(i)' = q
    <2>1. place'[i] = to
        BY <1>2, <1>8
    <2> QED BY <2>1, <1>4, <1>6, <1>7 DEF Carrier
<1>9. ASSUME j \in Items, place'[j] = back
      PROVE  Carrier(j)' = p
    BY <1>4, <1>6, <1>7, <1>9 DEF Carrier
<1>10. ASSUME j \in Items \ Stackable
       PROVE  Carrier(j)' = p
    <2>1. place'[j] = back
        BY <1>2, <1>4, <1>10
    <2> QED BY <1>9, <1>10, <2>1
<1>11. ASSUME j \in Items
       PROVE  Carrier(j)' \in {p, Carrier(j)}
    <2>1. CASE place'[j] = back
        BY <1>9, <1>11, <2>1
    <2>2. CASE place'[j] # back
        <3>1. place' = [x \in Items |-> IF x = i THEN to ELSE place[x]]
            BY <1>2, <1>4, <1>11, <2>2
        <3>2. place'[j] = place[j]
            BY <3>1, <1>4, <1>11
        <3>3. place[j] # i
            BY <1>1, <1>3, <1>11 DEF Overlap, TradeInv, TradeTypeOK, Goods
        <3>4. place[j] \in Containers => place'[place[j]] = place[place[j]]
            BY <3>1, <3>3, <1>4
        <3> QED BY <3>2, <3>4 DEF Carrier
    <2> QED BY <2>1, <2>2
<1>12. ASSUME NEW x \in Items \ {i, j}
       PROVE  \/ Carrier(x)' = Carrier(x)
              \/ i \in Items /\ place[x] = i /\ Carrier(x) \in {p, Ground} /\ Carrier(x)' = q
              \/ j \in Items /\ place[x] = j /\ Carrier(x) \in {q, Ground} /\ Carrier(x)' = p
    <2>1. place'[x] = place[x]
        BY <1>2
    <2>2. CASE place[x] \notin Containers \/ place[x] \notin {i, j}
        BY <1>7, <2>1, <2>2 DEF Carrier
    <2>3. CASE place[x] \in Containers /\ place[x] = i
        <3>1. Carrier(x) = place[i] /\ Carrier(x)' = place'[i] /\ Carrier(i) = place[i]
            BY <2>1, <2>3 DEF Carrier, TradeInv, FlatContainers
        <3>2. place'[i] = q
            BY <1>2, <1>4, <1>6, <2>3
        <3> QED BY <1>4, <1>5, <2>3, <3>1, <3>2
    <2>4. CASE place[x] \in Containers /\ place[x] = j
        <3>1. Carrier(x) = place[j] /\ Carrier(x)' = place'[j] /\ Carrier(j) = place[j]
            BY <2>1, <2>4 DEF Carrier, TradeInv, FlatContainers
        <3>2. place'[j] = p
            BY <1>2, <1>4, <1>6, <2>4
        <3> QED BY <1>4, <1>5, <2>4, <3>1, <3>2
    <2> QED BY <2>2, <2>3, <2>4
<1> QED BY <1>8, <1>10, <1>11, <1>12

\* Only an exchange hands an item from player to player, or a move by hand,
LEMMA HandsStep ==
    ASSUME TradeInv, [Next]_vars, NEW x \in Items, Carrier(x) \in Players, Carrier(x)' \in Players \ {Carrier(x)}
    PROVE  \/ HandedThroughWindow(x)
           \/ \E p \in Players : AcceptTrade(p) /\ Exchange(p, tradePartner[p])
<1>1. place' # place
    BY DEF Carrier
<1>2. CASE TradeNext
    <2> PICK r \in Players :
            \/ CloseTrade(r) \/ WalkAway(r) \/ AcceptTrade(r)
            \/ \E q \in Players : \/ \E i \in Items : RequestTrade(r, q, i)
                                  \/ \E h \in Houses : StartHouseTrade(r, q, h)
            \/ \E i \in Items, to \in Players \cup Containers \cup {Ground} : MoveItem(r, i, to)
            \/ \E b \in Containers : UseContainer(r, b) \/ CloseContainer(r, b)
            \/ \E h \in Houses : BuyHouse(r, h) \/ LeaveHouse(r, h)
        BY <1>2 DEF TradeNext
    <2>1. CASE AcceptTrade(r)
        BY <1>1, <2>1 DEF AcceptTrade
    <2>2. CASE \E i \in Items, to \in Players \cup Containers \cup {Ground} : MoveItem(r, i, to)
        BY <2>2, MovesThroughWindows
    <2> QED BY <1>1, <2>1, <2>2 DEF CloseTrade, WalkAway, RequestTrade, StartHouseTrade,
                                    UseContainer, CloseContainer, BuyHouse, LeaveHouse
<1> QED BY <1>1, <1>2 DEF Next, vars, tradeVars, Login, Logout

\* the exchange against what the other one offered.
LEMMA ExchangesArePaid ==
    ASSUME TradeInv, NEW p \in Players, AcceptTrade(p), Exchange(p, tradePartner[p]),
           NEW x \in Items, Carrier(x) \in Players, Carrier(x)' \in Players \ {Carrier(x)}
    PROVE  PaidFor(x)
<1> PICK q, i, j : q = tradePartner[p] /\ i = tradeItem[p] /\ j = tradeItem[q]
    OBVIOUS
<1>1. /\ q \in Players \ {p} /\ tradePartner[q] = p /\ i # NoItem /\ j # NoItem /\ i # j
      /\ owner' = [h \in Houses |-> IF h = i THEN q ELSE IF h = j THEN p ELSE owner[h]]
    BY DEF AcceptTrade, Exchange, TradeInv, PartnersAgree, OffersRegistered, OfferedOnce, Overlap
<1>2. /\ i \in Items => Carrier(i)' = q
      /\ j \in Items \ Stackable => Carrier(j)' = p
      /\ j \in Items => Carrier(j)' \in {p, Carrier(j)}
      /\ \A y \in Items \ {i, j} :
            \/ Carrier(y)' = Carrier(y)
            \/ i \in Items /\ place[y] = i /\ Carrier(y) \in {p, Ground} /\ Carrier(y)' = q
            \/ j \in Items /\ place[y] = j /\ Carrier(y) \in {q, Ground} /\ Carrier(y)' = p
    BY ExchangeCarriers
<1>3. /\ Ground \notin Players
      /\ i \in Items => Carrier(i) \in {p, Ground} \/ p \in borrowed
      /\ j \in Items => Carrier(j) \in {q, Ground} \/ q \in borrowed
    BY <1>1 DEF TradeInv, OffersInReach
<1>4. \/ (Carrier(x) = p \/ p \in borrowed) /\ Carrier(x)' = q /\ (x = i \/ place[x] = i)
      \/ (Carrier(x) = q \/ q \in borrowed) /\ Carrier(x)' = p /\ (x = j \/ place[x] = j)
    BY <1>2, <1>3
<1>5. CASE (Carrier(x) = p \/ p \in borrowed) /\ Carrier(x)' = q /\ (x = i \/ place[x] = i)
    <2>1. tradeItem[Carrier(x)'] = j
        BY <1>5
    <2>2. j \in Houses => owner'[j] = p
        BY <1>1
    <2> QED BY <1>1, <1>2, <1>5, <2>1, <2>2 DEF PaidFor
<1>6. CASE (Carrier(x) = q \/ q \in borrowed) /\ Carrier(x)' = p /\ (x = j \/ place[x] = j)
    <2>1. tradeItem[Carrier(x)'] = i
        BY <1>6
    <2>2. i \in Houses => owner'[i] = q
        BY <1>1
    <2> QED BY <1>1, <1>2, <1>6, <2>1, <2>2 DEF PaidFor
<1> QED BY <1>4, <1>5, <1>6

\* Goods pass from hand to hand for what was offered, or through an open window
\* (NothingForNothing).
THEOREM GoodsArePaidFor == Spec => NothingForNothing
<1>1. ASSUME TradeInv, [Next]_vars
      PROVE  [ \A i \in Items : Carrier(i) \in Players /\ Carrier(i)' \in Players \ {Carrier(i)} =>
                    PaidFor(i) \/ HandedThroughWindow(i) ]_tradeVars
    BY <1>1, HandsStep, ExchangesArePaid
<1> QED BY <1>1, TradeInvariant, PTL DEF Spec, NothingForNothing
=============================================================================
