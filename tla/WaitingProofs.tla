--------------------------- MODULE WaitingProofs ---------------------------
(***************************************************************************)
(* Theorems about the waiting list, for any players and any limit: nobody  *)
(* is overtaken and nobody loses its place, but where the code says so.    *)
(***************************************************************************)
EXTENDS WaitingList, DataLemmas

USE WaitingAssumption

Lists == Seq(Players)

-----------------------------------------------------------------------------
(* The loop that erases entries                                            *)

\* Its recursion, over a list.
Keeps(list, kept) ==
    kept = [n \in 0..Len(list) |->
        IF n = 0 THEN << >>
        ELSE IF list[n] \in stale THEN kept[n - 1] ELSE Append(kept[n - 1], list[n])]

\* Purged is its recursion, at the length of the list.
LEMMA PurgeUnfolds ==
  ASSUME NEW list
  PROVE  Purged(list) = (CHOOSE kept : Keeps(list, kept))[Len(list)]
  BY DEF Purged, Keeps

\* What n steps of the loop have kept of a list.
KeptOf(list, n, part) ==
    /\ part \in Lists /\ IsInjective(part) /\ Len(part) <= n
    /\ ToSet(part) = {list[i] : i \in 1..n} \ stale
    /\ \A q, p \in Players :
        Before(part, q, p) => \E i, j \in 1..n : i < j /\ list[i] = q /\ list[j] = p

\* The next step, which appends an entry ...
LEMMA NextKept ==
  ASSUME NEW list \in Lists, IsInjective(list), NEW n \in Nat, n + 1 <= Len(list),
         NEW part, KeptOf(list, n, part), list[n + 1] \notin stale
  PROVE  KeptOf(list, n + 1, Append(part, list[n + 1]))
<1>1. PICK x : x = list[n + 1]
  OBVIOUS
<1>2. PICK more : more = Append(part, x)
  OBVIOUS
<1>3. /\ DOMAIN list = 1..Len(list) /\ Len(list) \in Nat /\ n + 1 \in 1..Len(list)
      /\ x \in Players /\ part \in Lists /\ Len(part) \in Nat /\ Len(part) <= n
  BY <1>1 DEF Lists, KeptOf
<1>4. \A i \in 1..n : list[i] # x
  BY <1>1, <1>3 DEF IsInjective
<1>5. x \notin ToSet(part)
  BY <1>4 DEF KeptOf
<1>6. /\ more \in Lists /\ Len(more) = Len(part) + 1 /\ IsInjective(more)
      /\ ToSet(more) = ToSet(part) \cup {x}
  BY <1>2, <1>3, <1>5, Appended DEF KeptOf, Lists
<1>7. ToSet(more) = {list[i] : i \in 1..n + 1} \ stale
  <2>1. {list[i] : i \in 1..n + 1} = {list[i] : i \in 1..n} \cup {x}
    <3>1. 1..n + 1 = (1..n) \cup {n + 1}
      OBVIOUS
    <3>. QED
      BY <1>1, <3>1
  <2>. QED
    BY <1>1, <1>6, <2>1 DEF KeptOf
<1>8. ASSUME NEW q \in Players, NEW p \in Players, Before(more, q, p)
      PROVE  \E i, j \in 1..n + 1 : i < j /\ list[i] = q /\ list[j] = p
  <2>1. PICK i \in 1..Len(part) + 1, j \in 1..Len(part) + 1 : i < j /\ more[i] = q /\ more[j] = p
    BY <1>6, <1>8 DEF Before, Lists
  <2>2. i \in 1..Len(part) /\ more[i] = part[i] /\ DOMAIN part = 1..Len(part)
    BY <1>2, <1>3, <2>1 DEF Lists
  <2>3. CASE j \in 1..Len(part)
    <3>1. more[j] = part[j]
      BY <1>2, <1>3, <2>3 DEF Lists
    <3>2. Before(part, q, p)
      BY <2>1, <2>2, <2>3, <3>1 DEF Before
    <3>3. PICK k, m \in 1..n : k < m /\ list[k] = q /\ list[m] = p
      BY <3>2 DEF KeptOf
    <3>4. k \in 1..n + 1 /\ m \in 1..n + 1
      BY <3>3
    <3>. QED
      BY <3>3, <3>4
  <2>4. CASE j \notin 1..Len(part)
    <3>1. p = x
      BY <1>2, <1>3, <2>1, <2>4 DEF Lists
    <3>2. q \in ToSet(part)
      BY <2>1, <2>2 DEF ToSet
    <3>3. PICK k \in 1..n : list[k] = q
      BY <3>2 DEF KeptOf
    <3>4. k \in 1..n + 1 /\ n + 1 \in 1..n + 1 /\ k < n + 1
      BY <3>3
    <3>. QED
      BY <1>1, <3>1, <3>3, <3>4
  <2>. QED
    BY <2>3, <2>4
<1>. QED
  BY <1>1, <1>2, <1>3, <1>6, <1>7, <1>8 DEF KeptOf

\* ... or leaves one out.
LEMMA NextLeftOut ==
  ASSUME NEW list \in Lists, NEW n \in Nat, n + 1 <= Len(list),
         NEW part, KeptOf(list, n, part), list[n + 1] \in stale
  PROVE  KeptOf(list, n + 1, part)
<1>1. 1..n + 1 = (1..n) \cup {n + 1}
  OBVIOUS
<1>2. {list[i] : i \in 1..n + 1} = {list[i] : i \in 1..n} \cup {list[n + 1]}
  BY <1>1
<1>3. ToSet(part) = {list[i] : i \in 1..n + 1} \ stale
  BY <1>2 DEF KeptOf
<1>4. Len(part) <= n + 1
  BY DEF KeptOf, Lists
<1>5. ASSUME NEW q \in Players, NEW p \in Players, Before(part, q, p)
      PROVE  \E i, j \in 1..n + 1 : i < j /\ list[i] = q /\ list[j] = p
  BY <1>1, <1>5 DEF KeptOf
<1>. QED
  BY <1>3, <1>4, <1>5 DEF KeptOf

\* What the loop keeps of a list: the entries that have not timed out, in their
\* order.
LEMMA WhatIsKept ==
  ASSUME NEW list \in Lists, IsInjective(list)
  PROVE  /\ Purged(list) \in Lists /\ IsInjective(Purged(list)) /\ Len(Purged(list)) <= Len(list)
         /\ ToSet(Purged(list)) = ToSet(list) \ stale
         /\ \A q, p \in Players : Before(Purged(list), q, p) => Before(list, q, p)
<1>1. /\ Len(list) \in Nat /\ << >> \in Lists
      /\ DOMAIN list = 1..Len(list) /\ list \in [1..Len(list) -> Players]
  BY DEF Lists
<1>2. PICK step : step = [a \in (1..Len(list)) \X Lists |->
                            IF list[a[1]] \in stale THEN a[2] ELSE Append(a[2], list[a[1]])]
  OBVIOUS
<1>3. /\ step \in [(1..Len(list)) \X Lists -> Lists]
      /\ \A n \in 1..Len(list), part \in Lists :
            step[n, part] = IF list[n] \in stale THEN part ELSE Append(part, list[n])
  <2>1. ASSUME NEW n \in 1..Len(list), NEW part \in Lists
        PROVE  (IF list[n] \in stale THEN part ELSE Append(part, list[n])) \in Lists
    BY <1>1 DEF Lists
  <2>. QED
    BY <1>2, <2>1
<1>4. \E kept \in [0..Len(list) -> Lists] : Keeps(list, kept)
  <2>1. PICK kept \in [0..Len(list) -> Lists] : RecursTo(Len(list), << >>, step, kept)
    BY <1>1, <1>3, RecursionExists
  <2>2. ASSUME NEW n \in 0..Len(list)
        PROVE  kept[n] = IF n = 0 THEN << >>
                         ELSE IF list[n] \in stale THEN kept[n - 1]
                         ELSE Append(kept[n - 1], list[n])
    <3>1. n # 0 => n \in 1..Len(list) /\ n - 1 \in 0..Len(list)
      BY <1>1
    <3>2. n # 0 => kept[n - 1] \in Lists
      BY <3>1
    <3>3. kept[n] = IF n = 0 THEN << >> ELSE step[n, kept[n - 1]]
      BY <2>1 DEF RecursTo
    <3>. QED
      BY <1>3, <3>1, <3>2, <3>3
  <2>. QED
    BY <2>2 DEF Keeps
<1>5. PICK kept : kept = CHOOSE f : Keeps(list, f)
  OBVIOUS
<1>6. Keeps(list, kept) /\ Purged(list) = kept[Len(list)]
  BY <1>4, <1>5, PurgeUnfolds
<1>. DEFINE H == {n \in Nat : n <= Len(list) => KeptOf(list, n, kept[n])}
<1>7. 0 \in H
  <2>1. kept[0] = << >>
    BY <1>1, <1>6 DEF Keeps
  <2>2. IsInjective(<< >>) /\ ToSet(<< >>) = {} /\ \A q, p \in Players : ~ Before(<< >>, q, p)
    BY DEF IsInjective, ToSet, Before
  <2>3. 1..0 = {}
    OBVIOUS
  <2>. QED
    BY <1>1, <2>1, <2>2, <2>3 DEF KeptOf
<1>8. ASSUME NEW n \in H PROVE n + 1 \in H
  <2>1. n \in Nat /\ n + 1 \in Nat /\ (n + 1 <= Len(list) => KeptOf(list, n, kept[n]))
    BY <1>1
  <2>2. ASSUME n + 1 <= Len(list) PROVE KeptOf(list, n + 1, kept[n + 1])
    <3>1. kept[n + 1] = IF list[n + 1] \in stale THEN kept[n] ELSE Append(kept[n], list[n + 1])
      <4>1. n + 1 \in 0..Len(list) /\ n + 1 # 0 /\ (n + 1) - 1 = n
        BY <1>1, <2>1, <2>2
      <4>. QED
        BY <1>6, <4>1 DEF Keeps
    <3>. HIDE DEF H
    <3>. QED
      BY <2>1, <2>2, <3>1, NextKept, NextLeftOut
  <2>. QED
    BY <2>1, <2>2
<1>9. H = Nat
  <2>1. H \in SUBSET Nat
    OBVIOUS
  <2>. HIDE DEF H
  <2>. QED
    BY <1>7, <1>8, <2>1, NumberInduction
<1>10. KeptOf(list, Len(list), Purged(list))
  BY <1>1, <1>6, <1>9
<1>11. {list[i] : i \in 1..Len(list)} = ToSet(list)
  BY <1>1 DEF ToSet
<1>. QED
  BY <1>1, <1>10, <1>11 DEF KeptOf, Before

-----------------------------------------------------------------------------
(* What operations on lists do to their order                              *)

\* Who is before whom after a removal was so before it,
LEMMA RemovalKeepsOrder ==
  ASSUME NEW list \in Lists, NEW i \in 1..Len(list), NEW q, NEW p, Before(RemoveAt(list, i), q, p)
  PROVE  Before(list, q, p)
<1>1. PICK less : less = RemoveAt(list, i)
  OBVIOUS
<1>2. /\ less \in Lists /\ Len(less) = Len(list) - 1 /\ Len(list) \in Nat
      /\ \A j \in 1..Len(list) - 1 : less[j] = IF j < i THEN list[j] ELSE list[j + 1]
  <2>1. list \in Seq(Players)
    BY DEF Lists
  <2>2. /\ RemoveAt(list, i) \in Seq(Players) /\ Len(RemoveAt(list, i)) = Len(list) - 1
        /\ \A j \in 1..Len(list) - 1 :
              RemoveAt(list, i)[j] = IF j < i THEN list[j] ELSE list[j + 1]
    BY <2>1, RemovedAt
  <2>3. Len(list) \in Nat
    BY <2>1
  <2>. QED
    BY <1>1, <2>2, <2>3 DEF Lists
<1>3. DOMAIN list = 1..Len(list) /\ DOMAIN less = 1..Len(list) - 1
  BY <1>2 DEF Lists
<1>4. PICK j \in 1..Len(list) - 1, k \in 1..Len(list) - 1 : j < k /\ less[j] = q /\ less[k] = p
  BY <1>1, <1>3 DEF Before
<1>5. PICK a \in 1..Len(list) : a = (IF j < i THEN j ELSE j + 1)
  BY <1>2
<1>6. PICK b \in 1..Len(list) : b = (IF k < i THEN k ELSE k + 1)
  BY <1>2
<1>7. a < b
  BY <1>2, <1>4, <1>5, <1>6
<1>8. list[a] = q /\ list[b] = p
  BY <1>2, <1>4, <1>5, <1>6
<1>. QED
  BY <1>3, <1>7, <1>8 DEF Before

\* What QueueByPriority makes of a list, place by place.
LEMMA InsertedInList ==
  ASSUME NEW list \in Lists, NEW i \in 1..Len(list) + 1, NEW x \in Players
  PROVE  /\ InsertAt(list, i, x) \in Lists /\ Len(InsertAt(list, i, x)) = Len(list) + 1
         /\ Len(list) \in Nat
         /\ \A j \in 1..Len(list) + 1 :
              InsertAt(list, i, x)[j]
                = IF j < i THEN list[j] ELSE IF j = i THEN x ELSE list[j - 1]
<1>1. list \in Seq(Players) /\ Len(list) \in Nat
  BY DEF Lists
<1>2. /\ InsertAt(list, i, x) \in Seq(Players) /\ Len(InsertAt(list, i, x)) = Len(list) + 1
      /\ \A j \in 1..Len(list) + 1 :
            InsertAt(list, i, x)[j]
              = IF j < i THEN list[j] ELSE IF j = i THEN x ELSE list[j - 1]
  BY <1>1, InsertedAt, SMTT(20)
<1>. QED
  BY <1>1, <1>2 DEF Lists

\* and so it is for all but the entry that is inserted
LEMMA InsertionKeepsOrder ==
  ASSUME NEW list \in Lists, NEW i \in 1..Len(list) + 1, NEW x \in Players, NEW q, NEW p,
         q # x, p # x, Before(InsertAt(list, i, x), q, p)
  PROVE  Before(list, q, p)
<1>1. PICK more : more = InsertAt(list, i, x)
  OBVIOUS
<1>2. /\ more \in Lists /\ Len(more) = Len(list) + 1 /\ Len(list) \in Nat
      /\ \A j \in 1..Len(list) + 1 :
            more[j] = IF j < i THEN list[j] ELSE IF j = i THEN x ELSE list[j - 1]
  BY <1>1, InsertedInList
<1>3. DOMAIN list = 1..Len(list) /\ DOMAIN more = 1..Len(list) + 1
  BY <1>2 DEF Lists
<1>4. PICK j \in 1..Len(list) + 1, k \in 1..Len(list) + 1 : j < k /\ more[j] = q /\ more[k] = p
  BY <1>1, <1>3 DEF Before
<1>5. j # i /\ k # i
  BY <1>2, <1>4
<1>6. PICK a \in 1..Len(list) : a = (IF j < i THEN j ELSE j - 1)
  BY <1>2, <1>5
<1>7. PICK b \in 1..Len(list) : b = (IF k < i THEN k ELSE k - 1)
  BY <1>2, <1>5
<1>8. a < b
  BY <1>2, <1>4, <1>5, <1>6, <1>7
<1>9. list[a] = q /\ list[b] = p
  BY <1>2, <1>4, <1>5, <1>6, <1>7
<1>. QED
  BY <1>3, <1>8, <1>9 DEF Before

\* or appended.
LEMMA AppendKeepsOrder ==
  ASSUME NEW list \in Lists, NEW x \in Players, NEW q, NEW p,
         p # x, Before(Append(list, x), q, p)
  PROVE  Before(list, q, p)
<1>1. PICK more : more = Append(list, x)
  OBVIOUS
<1>2. /\ DOMAIN list = 1..Len(list) /\ DOMAIN more = 1..Len(list) + 1 /\ Len(list) \in Nat
      /\ more[Len(list) + 1] = x /\ \A j \in 1..Len(list) : more[j] = list[j]
  BY <1>1 DEF Lists
<1>3. PICK j \in 1..Len(list) + 1, k \in 1..Len(list) + 1 : j < k /\ more[j] = q /\ more[k] = p
  BY <1>1, <1>2 DEF Before
<1>4. k \in 1..Len(list) /\ j \in 1..Len(list)
  BY <1>2, <1>3
<1>. QED
  BY <1>2, <1>3, <1>4 DEF Before

-----------------------------------------------------------------------------
(* The list that a login finds                                             *)

\* The list that a login looks at has those who wait and whose entries have not
\* timed out, in their order.
LEMMA PurgedList ==
  ASSUME WaitInv
  PROVE  /\ Purged(waitList) \in Lists /\ IsInjective(Purged(waitList))
         /\ Len(Purged(waitList)) \in Nat /\ DOMAIN Purged(waitList) = 1..Len(Purged(waitList))
         /\ ToSet(Purged(waitList)) = Waiting \ stale
         /\ \A q, p \in Players : Before(Purged(waitList), q, p) => Before(waitList, q, p)
<1>1. waitList \in Lists /\ IsInjective(waitList)
  BY DEF WaitInv, TypeOK, Lists
<1>. QED
  BY <1>1, WhatIsKept DEF Waiting, Lists

\* The list has every waiting player once, so no two are before each other.
LEMMA WaitingIsOrdered ==
  ASSUME WaitInv, NEW q, NEW p, Before(waitList, q, p)
  PROVE  ~ Before(waitList, p, q)
<1>1. waitList \in Seq(Players) /\ IsInjective(waitList)
  BY DEF WaitInv, TypeOK
<1>. QED
  BY <1>1 DEF Before, IsInjective

\* A login that finds itself has a place there,
LEMMA SlotFound ==
  ASSUME WaitInv, NEW p, Found(p)
  PROVE  /\ Slot(p) \in 1..Len(Purged(waitList)) /\ Purged(waitList)[Slot(p)] = p
         /\ p \in Waiting \ stale
<1>1. Slot(p) \in DOMAIN Purged(waitList) /\ Purged(waitList)[Slot(p)] = p
  BY DEF Found, Slot
<1>. QED
  BY <1>1, PurgedList DEF ToSet

\* and one that does not find itself has none.
LEMMA NotFound ==
  ASSUME WaitInv, NEW p, ~ Found(p)
  PROVE  p \notin Waiting \ stale
  BY PurgedList DEF ToSet, Found

\* Whoever is ahead of p has a place before p's on the list without those who
\* timed out, so there are less of them than p's place says.
LEMMA FewAhead ==
  ASSUME WaitInv, NEW p, Found(p)
  PROVE  /\ IsFiniteSet(Ahead(p)) /\ Cardinality(Ahead(p)) \in Nat
         /\ Cardinality(Ahead(p)) <= Slot(p) - 1
<1>1. PICK list, slot : list = Purged(waitList) /\ slot = Slot(p)
  OBVIOUS
<1>2. /\ list \in Lists /\ Len(list) \in Nat /\ DOMAIN list = 1..Len(list)
      /\ ToSet(list) = Waiting \ stale
      /\ \A q, r \in Players : Before(list, q, r) => Before(waitList, q, r)
  BY <1>1, PurgedList
<1>3. slot \in 1..Len(list) /\ list[slot] = p /\ p \in Waiting \ stale /\ p \in Players
  BY <1>1, <1>2, SlotFound DEF Lists
<1>4. ASSUME NEW q \in Ahead(p)
      PROVE  \E j \in 1..slot - 1 : list[j] = q
  <2>1. q \in Waiting \ stale /\ q # p /\ Before(waitList, q, p)
    BY <1>3 DEF Ahead
  <2>2. PICK j \in 1..Len(list) : list[j] = q
    BY <1>2, <2>1 DEF ToSet
  <2>3. q \in Players
    BY <1>2, <2>2 DEF Lists
  <2>4. ~ Before(waitList, p, q)
    BY <2>1, WaitingIsOrdered
  <2>5. ~ (slot < j)
    <3>1. slot < j => Before(list, p, q)
      BY <1>2, <1>3, <2>2 DEF Before
    <3>. QED
      BY <1>2, <1>3, <2>3, <2>4, <3>1
  <2>6. j # slot
    BY <1>3, <2>1, <2>2
  <2>. QED
    BY <1>2, <1>3, <2>2, <2>5, <2>6
<1>5. PICK f : f = [q \in Ahead(p) |-> CHOOSE j \in 1..slot - 1 : list[j] = q]
  OBVIOUS
<1>6. \A q \in Ahead(p) : f[q] \in 1..slot - 1 /\ list[f[q]] = q
  BY <1>4, <1>5
<1>7. f \in Injection(Ahead(p), 1..slot - 1)
  BY <1>5, <1>6 DEF Injection, IsInjective
<1>8. slot - 1 \in Nat /\ IsFiniteSet(1..slot - 1) /\ Cardinality(1..slot - 1) = slot - 1
  <2>1. slot - 1 \in Nat /\ 1 \in Int /\ slot - 1 \in Int
    BY <1>2, <1>3
  <2>2. /\ IsFiniteSet(1..slot - 1)
        /\ Cardinality(1..slot - 1) = IF 1 > slot - 1 THEN 0 ELSE slot - 1 - 1 + 1
    BY <2>1, FS_Interval
  <2>. QED
    BY <2>1, <2>2
<1>9. IsFiniteSet(Ahead(p)) /\ Cardinality(Ahead(p)) <= slot - 1
  BY <1>7, <1>8, FS_Injection
<1>. QED
  BY <1>1, <1>9, FS_CardinalityType

-----------------------------------------------------------------------------
(* The invariant                                                           *)

\* Whoever enters is one more.
LEMMA EnterCounts ==
  ASSUME WaitInv, NEW p \in Players, p \notin online, Enter(p)
  PROVE  /\ online' \subseteq Players /\ IsFiniteSet(online')
         /\ online' \ online \subseteq {p} /\ Cardinality(online) \in Nat
         /\ Cardinality(online') \in Nat /\ Cardinality(online') <= Cardinality(online) + 1
<1>1. PICK s, t : s = online /\ t = online'
  OBVIOUS
<1>2. s \subseteq Players /\ IsFiniteSet(s) /\ Cardinality(s) \in Nat
  BY <1>1, FS_CardinalityType DEF WaitInv, TypeOK
<1>3. IsFiniteSet(s \cup {p}) /\ Cardinality(s \cup {p}) = Cardinality(s) + 1
  BY <1>1, <1>2, FS_AddElement
<1>4. t = s \cup {p} \/ t = s
  BY <1>1 DEF Enter
<1>5. /\ t \subseteq Players /\ IsFiniteSet(t) /\ t \ s \subseteq {p}
      /\ Cardinality(t) \in Nat /\ Cardinality(t) <= Cardinality(s) + 1
  <2>1. CASE t = s \cup {p}
    <3>1. Cardinality(t) = Cardinality(s) + 1 /\ IsFiniteSet(t)
      BY <1>3, <2>1
    <3>2. t \subseteq Players /\ t \ s \subseteq {p}
      BY <1>2, <2>1
    <3>. QED
      BY <1>2, <3>1, <3>2
  <2>2. CASE t = s
    BY <1>2, <2>2
  <2>. QED
    BY <1>4, <2>1, <2>2
<1>. QED
  BY <1>1, <1>2, <1>5

\* What every request leaves of the list, and where priorityEnd may point.
LEMMA ListStep ==
  ASSUME WaitInv, NEW list, list \in Lists, IsInjective(list),
         waitList' = list, stale' = {}, priorityEnd' \in 0..Len(list) + 1,
         online' \subseteq Players, IsFiniteSet(online')
  PROVE  WaitInv'
  BY DEF WaitInv, TypeOK, Lists, Waiting

\* An admission takes an entry out of the list.
LEMMA AdmitStep ==
  ASSUME WaitInv, NEW p \in Players, Admit(p)
  PROVE  WaitInv'
<1>1. PICK list, slot : list = Purged(waitList) /\ slot = Slot(p)
  OBVIOUS
<1>2. list \in Seq(Players) /\ IsInjective(list) /\ slot \in 1..Len(list)
  BY <1>1, PurgedList, SlotFound DEF Admit, Lists
<1>3. /\ RemoveAt(list, slot) \in Seq(Players) /\ IsInjective(RemoveAt(list, slot))
      /\ Len(RemoveAt(list, slot)) \in Nat
  BY <1>2, RemovedAt, RemovedAtRest
<1>4. /\ p \notin online /\ Enter(p)
      /\ waitList' = RemoveAt(list, slot) /\ stale' = {} /\ priorityEnd' = 0
  BY <1>1 DEF Admit, Asks
<1>. QED
  BY <1>3, <1>4, EnterCounts, ListStep DEF Lists

\* Waiting on leaves the list as it was purged.
LEMMA WaitOnStep ==
  ASSUME WaitInv, NEW p \in Players, WaitOn(p)
  PROVE  WaitInv'
<1>1. PICK list : list = Purged(waitList)
  OBVIOUS
<1>2. list \in Lists /\ IsInjective(list) /\ Len(list) \in Nat
  BY <1>1, PurgedList
<1>3. /\ waitList' = list /\ stale' = {} /\ online' = online
      /\ priorityEnd' = IF list = waitList THEN priorityEnd ELSE 0
  BY <1>1 DEF WaitOn, Refreshed, Pointed
<1>4. priorityEnd \in 0..Len(waitList) + 1 /\ online \subseteq Players /\ IsFiniteSet(online)
  BY DEF WaitInv, TypeOK
<1>. QED
  BY <1>2, <1>3, <1>4, ListStep

\* A player that queues up was not on the list.
LEMMA QueueUpStep ==
  ASSUME WaitInv, NEW p \in Players, QueueUp(p)
  PROVE  WaitInv'
<1>1. PICK list : list = Purged(waitList)
  OBVIOUS
<1>2. list \in Seq(Players) /\ IsInjective(list) /\ Len(list) \in Nat /\ p \notin ToSet(list)
  BY <1>1, PurgedList, NotFound DEF QueueUp, Lists
<1>3. PICK more : more = Append(list, p)
  OBVIOUS
<1>4. more \in Lists /\ IsInjective(more) /\ Len(more) = Len(list) + 1
  BY <1>2, <1>3, Appended DEF Lists
<1>5. waitList' = more /\ stale' = {} /\ online' = online /\ priorityEnd' = 0
  BY <1>1, <1>3 DEF QueueUp
<1>6. online \subseteq Players /\ IsFiniteSet(online)
  BY DEF WaitInv, TypeOK
<1>7. 0 \in 0..Len(more) + 1
  BY <1>2, <1>4
<1>. QED
  BY <1>4, <1>5, <1>6, <1>7, ListStep

\* Nor was a premium player, wherever it is inserted.
LEMMA QueueByPriorityStep ==
  ASSUME WaitInv, NEW p \in Players, QueueByPriority(p)
  PROVE  WaitInv'
<1>1. PICK list : list = Purged(waitList)
  OBVIOUS
<1>2. list \in Seq(Players) /\ IsInjective(list) /\ Len(list) \in Nat /\ p \notin ToSet(list)
  BY <1>1, PurgedList, NotFound DEF QueueByPriority, Lists
<1>3. PICK slot \in 1..Len(list) + 1 :
        /\ waitList' = InsertAt(list, slot, p) /\ priorityEnd' = slot
        /\ IF slot = 1 THEN Enter(p) ELSE UNCHANGED online
  BY <1>1 DEF QueueByPriority
<1>4. PICK more : more = InsertAt(list, slot, p)
  OBVIOUS
<1>5. more \in Lists /\ IsInjective(more) /\ Len(more) = Len(list) + 1
  <2>1. more \in Seq(Players) /\ Len(more) = Len(list) + 1
    BY <1>2, <1>4, InsertedAt
  <2>2. IsInjective(more)
    BY <1>2, <1>4, InsertedAtRest
  <2>. QED
    BY <2>1, <2>2 DEF Lists
<1>6. priorityEnd' \in 0..Len(more) + 1
  BY <1>2, <1>3, <1>5
<1>7. online' \subseteq Players /\ IsFiniteSet(online')
  <2>1. CASE slot = 1
    BY <1>3, <2>1, EnterCounts DEF QueueByPriority, Asks
  <2>2. CASE slot # 1
    BY <1>3, <2>2 DEF WaitInv, TypeOK
  <2>. QED
    BY <2>1, <2>2
<1>8. stale' = {} /\ waitList' = more
  BY <1>3, <1>4 DEF QueueByPriority
<1>. QED
  BY <1>5, <1>6, <1>7, <1>8, ListStep

\* Every step keeps the invariant.
LEMMA WaitStep == WaitInv /\ [Next]_vars => WaitInv'
<1>. SUFFICES ASSUME WaitInv, [Next]_vars PROVE WaitInv'
  OBVIOUS
<1>1. ASSUME NEW p \in Players, WalkIn(p) PROVE WaitInv'
  <2>1. p \notin online /\ Enter(p) /\ UNCHANGED <<waitList, stale, priorityEnd>>
    BY <1>1 DEF WalkIn
  <2>2. online' \subseteq Players /\ IsFiniteSet(online')
    BY <2>1, EnterCounts
  <2>. QED
    BY <2>1, <2>2 DEF WaitInv, TypeOK, Waiting
<1>2. ASSUME NEW p \in Players, TimeOut(p) PROVE WaitInv'
  BY <1>2 DEF TimeOut, WaitInv, TypeOK, Waiting
<1>3. ASSUME NEW p \in Players, Logout(p) PROVE WaitInv'
  <2>1. IsFiniteSet(online \ {p})
    BY FS_RemoveElement DEF WaitInv
  <2>. QED
    BY <1>3, <2>1 DEF Logout, WaitInv, TypeOK, Waiting
<1>4. CASE UNCHANGED vars
  BY <1>4 DEF vars, WaitInv, TypeOK, Waiting
<1>. QED
  BY <1>1, <1>2, <1>3, <1>4, AdmitStep, WaitOnStep, QueueUpStep, QueueByPriorityStep
     DEF Next, ClientLogin

\* WaitInv is an inductive invariant.
THEOREM WaitInvariant == Spec => []WaitInv
<1>1. Init => WaitInv
  <2>1. << >> \in Seq(Players) /\ Len(<< >>) = 0 /\ IsInjective(<< >>) /\ ToSet(<< >>) = {}
    BY DEF IsInjective, ToSet
  <2>2. IsFiniteSet({})
    BY FS_EmptySet
  <2>. QED
    BY <2>1, <2>2 DEF Init, WaitInv, TypeOK, Waiting
<1>. QED
  BY <1>1, WaitStep, PTL DEF Spec

\* Every player waits at most once, and priorityEnd points into the list or
\* behind it, or is known to be invalid.
THEOREM WaitingTypeCorrect == Spec => []TypeOK
<1>1. WaitInv => TypeOK
  BY DEF WaitInv
<1>. QED
  BY <1>1, WaitInvariant, PTL

-----------------------------------------------------------------------------
(* Turns and places                                                        *)

\* What EntersInTurn asks of a step that lets p in.
InTurn(p) ==
    \/ Cardinality(online') + Cardinality(Ahead(p)) <= MaxPlayers
    \/ p \in Premium /\ waitList' # << >> /\ waitList'[1] = p

\* Who walks in, staff aside, finds nobody waiting and a free place.
LEMMA WalkInTurn ==
  ASSUME WaitInv, NEW p \in Players, WalkIn(p), NEW q \in (online' \ online) \ Privileged
  PROVE  InTurn(q)
<1>1. p \notin online /\ Enter(p)
  BY DEF WalkIn
<1>2. /\ q = p /\ Cardinality(online) \in Nat
      /\ Cardinality(online') \in Nat /\ Cardinality(online') <= Cardinality(online) + 1
  BY <1>1, EnterCounts
<1>3. waitList = << >> /\ Cardinality(online) < MaxPlayers
  BY <1>2 DEF WalkIn
<1>4. Ahead(q) = {}
  BY <1>3 DEF Ahead, Waiting, ToSet
<1>5. Cardinality(Ahead(q)) = 0
  BY <1>4, FS_EmptySet
<1>. QED
  BY <1>2, <1>3, <1>5 DEF InTurn

\* Who is admitted leaves room for all those ahead of it on the list.
LEMMA AdmitInTurn ==
  ASSUME WaitInv, NEW p \in Players, Admit(p), NEW q \in online' \ online
  PROVE  InTurn(q)
<1>1. p \notin online /\ Enter(p) /\ Found(p) /\ Cardinality(online) + Slot(p) <= MaxPlayers
  BY DEF Admit, Asks, HasRoom
<1>2. /\ q = p /\ Cardinality(online) \in Nat
      /\ Cardinality(online') \in Nat /\ Cardinality(online') <= Cardinality(online) + 1
  BY <1>1, EnterCounts
<1>3. /\ Cardinality(Ahead(p)) \in Nat /\ Cardinality(Ahead(p)) <= Slot(p) - 1
      /\ Slot(p) \in Int
  BY <1>1, FewAhead, SlotFound, PurgedList
<1>4. Cardinality(online') + Cardinality(Ahead(p)) <= MaxPlayers
  BY <1>1, <1>2, <1>3
<1>. QED
  BY <1>2, <1>4 DEF InTurn

\* A premium player that gets in at once has the first entry.
LEMMA PriorityInTurn ==
  ASSUME WaitInv, NEW p \in Players, QueueByPriority(p), NEW q \in online' \ online
  PROVE  InTurn(q)
<1>1. PICK list : list = Purged(waitList)
  OBVIOUS
<1>2. list \in Lists /\ Len(list) \in Nat
  BY <1>1, PurgedList
<1>3. PICK slot \in 1..Len(list) + 1 :
        /\ waitList' = InsertAt(list, slot, p)
        /\ IF slot = 1 THEN Enter(p) ELSE UNCHANGED online
  BY <1>1 DEF QueueByPriority
<1>4. slot = 1 /\ Enter(p)
  BY <1>3
<1>5. q = p
  BY <1>4, EnterCounts DEF QueueByPriority, Asks
<1>6. PICK more : more = InsertAt(list, slot, p)
  OBVIOUS
<1>7. /\ more \in Lists /\ Len(more) = Len(list) + 1
      /\ \A j \in 1..Len(list) + 1 :
            more[j] = IF j < slot THEN list[j] ELSE IF j = slot THEN p ELSE list[j - 1]
  BY <1>2, <1>6, InsertedInList
<1>8. more[1] = p /\ more # << >>
  BY <1>2, <1>4, <1>7 DEF Lists
<1>. QED
  BY <1>3, <1>5, <1>6, <1>8 DEF InTurn, QueueByPriority

\* Nobody is overtaken by whoever is let in, but by staff and by a premium
\* player whose entry is the first one (EntersInTurn).
THEOREM NobodyIsOvertaken == Spec => EntersInTurn
<1>1. ASSUME WaitInv, [Next]_vars
      PROVE  [ \A p \in (online' \ online) \ Privileged :
                \/ Cardinality(online') + Cardinality(Ahead(p)) <= MaxPlayers
                \/ p \in Premium /\ waitList' # << >> /\ waitList'[1] = p ]_vars
  <2>1. ASSUME NEW p \in (online' \ online) \ Privileged
        PROVE  InTurn(p)
    <3>1. PICK r \in Players : WalkIn(r) \/ Admit(r) \/ QueueByPriority(r)
      BY <1>1, <2>1 DEF Next, ClientLogin, WaitOn, QueueUp, TimeOut, Logout, vars
    <3>. QED
      BY <1>1, <2>1, <3>1, WalkInTurn, AdmitInTurn, PriorityInTurn
  <2>. QED
    BY <2>1 DEF InTurn
<1>. QED
  BY <1>1, WaitInvariant, PTL DEF Spec, EntersInTurn

\* What PlacesKept asks of a step for p.
PlaceKept(p) ==
    /\ \/ p \in ToSet(waitList')
       \/ Cardinality(online) + Cardinality(Ahead(p)) < MaxPlayers
    /\ \A q \in (Waiting \ stale) \cup (Players \ Premium) :
        Before(waitList', q, p) => Before(waitList, q, p)

\* An admission takes nobody off the list whose turn has not come,
LEMMA AdmitKeepsPlaces ==
  ASSUME WaitInv, NEW r \in Players, Admit(r), NEW p \in Waiting \ stale
  PROVE  PlaceKept(p)
<1>1. PICK list, slot : list = Purged(waitList) /\ slot = Slot(r)
  OBVIOUS
<1>2. /\ list \in Seq(Players) /\ IsInjective(list) /\ ToSet(list) = Waiting \ stale
      /\ \A q, s \in Players : Before(list, q, s) => Before(waitList, q, s)
  BY <1>1, PurgedList DEF Lists
<1>3. /\ Found(r) /\ Cardinality(online) + slot <= MaxPlayers /\ waitList' = RemoveAt(list, slot)
      /\ slot \in 1..Len(list) /\ list[slot] = r
  BY <1>1, SlotFound DEF Admit, HasRoom
<1>4. ToSet(waitList') = ToSet(list) \ {r}
  BY <1>2, <1>3, RemovedAtRest
<1>5. Waiting \ stale \subseteq Players
  BY DEF WaitInv, TypeOK, Waiting, ToSet
<1>6. p = r => Cardinality(online) + Cardinality(Ahead(p)) < MaxPlayers
  <2>1. Cardinality(online) \in Nat
    BY FS_CardinalityType DEF WaitInv
  <2>2. Cardinality(Ahead(r)) \in Nat /\ Cardinality(Ahead(r)) <= slot - 1 /\ slot \in Int
    BY <1>1, <1>2, <1>3, FewAhead
  <2>3. Cardinality(online) + Cardinality(Ahead(r)) < MaxPlayers
    BY <1>3, <2>1, <2>2
  <2>. QED
    BY <2>3
<1>7. ASSUME NEW q \in (Waiting \ stale) \cup (Players \ Premium), Before(waitList', q, p)
      PROVE  Before(waitList, q, p)
  <2>1. Before(RemoveAt(list, slot), q, p)
    BY <1>3, <1>7
  <2>2. Before(list, q, p)
    BY <1>2, <1>3, <2>1, RemovalKeepsOrder DEF Lists
  <2>. QED
    BY <1>2, <1>5, <2>2
<1>. QED
  BY <1>2, <1>4, <1>6, <1>7 DEF PlaceKept

\* waiting on takes nobody off,
LEMMA WaitOnKeepsPlaces ==
  ASSUME WaitInv, NEW r \in Players, WaitOn(r), NEW p \in Waiting \ stale
  PROVE  PlaceKept(p)
<1>1. /\ ToSet(Purged(waitList)) = Waiting \ stale /\ waitList' = Purged(waitList)
      /\ \A q, s \in Players : Before(Purged(waitList), q, s) => Before(waitList, q, s)
  BY PurgedList DEF WaitOn, Refreshed
<1>2. Waiting \ stale \subseteq Players
  BY DEF WaitInv, TypeOK, Waiting, ToSet
<1>. QED
  BY <1>1, <1>2 DEF PlaceKept

\* who queues up gets behind all the others,
LEMMA QueueUpKeepsPlaces ==
  ASSUME WaitInv, NEW r \in Players, QueueUp(r), NEW p \in Waiting \ stale
  PROVE  PlaceKept(p)
<1>1. PICK list : list = Purged(waitList)
  OBVIOUS
<1>2. /\ list \in Seq(Players) /\ ToSet(list) = Waiting \ stale
      /\ \A q, s \in Players : Before(list, q, s) => Before(waitList, q, s)
      /\ r \notin Waiting \ stale /\ waitList' = Append(list, r)
  BY <1>1, PurgedList, NotFound DEF Lists, QueueUp
<1>3. ToSet(waitList') = ToSet(list) \cup {r}
  BY <1>2, Appended
<1>4. Waiting \ stale \subseteq Players
  BY DEF WaitInv, TypeOK, Waiting, ToSet
<1>5. ASSUME NEW q \in (Waiting \ stale) \cup (Players \ Premium), Before(waitList', q, p)
      PROVE  Before(waitList, q, p)
  <2>1. Before(Append(list, r), q, p) /\ p # r
    BY <1>2, <1>5
  <2>2. Before(list, q, p)
    BY <1>2, <2>1, AppendKeepsOrder DEF Lists
  <2>. QED
    BY <1>2, <1>4, <2>2
<1>. QED
  BY <1>2, <1>3, <1>5 DEF PlaceKept

\* and an insertion does not swap any two who were there.
LEMMA PriorityKeepsPlaces ==
  ASSUME WaitInv, NEW r \in Players, QueueByPriority(r), NEW p \in Waiting \ stale
  PROVE  PlaceKept(p)
<1>1. PICK list : list = Purged(waitList)
  OBVIOUS
<1>2. /\ list \in Seq(Players) /\ IsInjective(list) /\ ToSet(list) = Waiting \ stale
      /\ \A q, s \in Players : Before(list, q, s) => Before(waitList, q, s)
      /\ r \notin Waiting \ stale /\ r \in Premium
  BY <1>1, PurgedList, NotFound DEF Lists, QueueByPriority
<1>3. PICK slot \in 1..Len(list) + 1 : waitList' = InsertAt(list, slot, r)
  BY <1>1 DEF QueueByPriority
<1>4. ToSet(waitList') = ToSet(list) \cup {r}
  BY <1>2, <1>3, InsertedAtRest
<1>5. Waiting \ stale \subseteq Players
  BY DEF WaitInv, TypeOK, Waiting, ToSet
<1>6. ASSUME NEW q \in (Waiting \ stale) \cup (Players \ Premium), Before(waitList', q, p)
      PROVE  Before(waitList, q, p)
  <2>1. Before(InsertAt(list, slot, r), q, p) /\ p # r /\ q # r
    BY <1>2, <1>3, <1>6
  <2>2. Before(list, q, p)
    BY <1>2, <2>1, InsertionKeepsOrder DEF Lists
  <2>. QED
    BY <1>2, <1>5, <2>2
<1>. QED
  BY <1>2, <1>4, <1>6 DEF PlaceKept

\* Nobody loses its place on the list, or gets behind anybody but premium players
\* who arrive (PlacesKept).
THEOREM NobodyLosesItsPlace == Spec => PlacesKept
<1>1. ASSUME WaitInv, [Next]_vars
      PROVE  [ \A p \in Waiting \ stale :
                /\ \/ p \in ToSet(waitList')
                   \/ Cardinality(online) + Cardinality(Ahead(p)) < MaxPlayers
                /\ \A q \in (Waiting \ stale) \cup (Players \ Premium) :
                    Before(waitList', q, p) => Before(waitList, q, p) ]_vars
  <2>1. ASSUME NEW p \in Waiting \ stale
        PROVE  PlaceKept(p)
    <3>1. CASE UNCHANGED waitList
      BY <2>1, <3>1 DEF PlaceKept, Waiting
    <3>2. ASSUME NEW r \in Players, ClientLogin(r)
          PROVE  PlaceKept(p)
      <4>1. CASE WalkIn(r)
        BY <3>1, <4>1 DEF WalkIn
      <4>. QED
        BY <1>1, <2>1, <3>2, <4>1, AdmitKeepsPlaces, WaitOnKeepsPlaces, QueueUpKeepsPlaces,
           PriorityKeepsPlaces DEF ClientLogin
    <3>. QED
      BY <1>1, <3>1, <3>2 DEF Next, TimeOut, Logout, vars
  <2>. QED
    BY <2>1 DEF PlaceKept
<1>. QED
  BY <1>1, WaitInvariant, PTL DEF Spec, PlacesKept
=============================================================================
