---------------------------- MODULE WaitingList ----------------------------
(***************************************************************************)
(* The waiting list of a full world (protocolgame.cpp 93-194, called by    *)
(* login in 350-361): a login that gets no place is told when to try again *)
(* and keeps its entry for 15 seconds longer than that. The whole login is *)
(* one task of the dispatcher.                                             *)
(* Time shows only in entries that time out. priorityEnd is an iterator    *)
(* that most changes of the deque leave invalid; the next premium login    *)
(* uses it all the same, and where it then inserts is anybody's guess.     *)
(***************************************************************************)
EXTENDS Integers, Sequences, FiniteSets, SequencesExt

CONSTANTS
    Players,
    Premium, Privileged,    \* those on premium time; staff, who never wait
    Patient,                \* clients that try again when they were told to
    MaxPlayers

ASSUME WaitingAssumption ==
    /\ Premium \subseteq Players /\ Privileged \subseteq Players /\ Patient \subseteq Players
    /\ MaxPlayers \in Nat \ {0}

VARIABLES
    online,
    waitList,       \* the players, first one first
    stale,          \* those of them whose entry timed out
    priorityEnd     \* the place it points to, 0 for an invalid iterator

vars == <<online, waitList, stale, priorityEnd>>

Waiting == ToSet(waitList)

TypeOK ==
    /\ online \subseteq Players
    /\ waitList \in Seq(Players) /\ IsInjective(waitList)
    /\ stale \subseteq Waiting
    /\ priorityEnd \in 0..Len(waitList) + 1

Init ==
    /\ online = {}
    /\ waitList = << >> /\ stale = {}
    /\ priorityEnd = 1

-----------------------------------------------------------------------------

\* Mutant: entries are kept for good.
PurgedNone(list) == list

\* The entries that have not timed out: the loop that erases the others.
Purged(list) ==
    LET kept[n \in 0..Len(list)] ==
            IF n = 0 THEN << >>
            ELSE IF list[n] \in stale THEN kept[n - 1] ELSE Append(kept[n - 1], list[n])
    IN  kept[Len(list)]

\* Mutant: the list is not searched.
FoundNever(p) == FALSE

Found(p) == \E i \in DOMAIN Purged(waitList) : Purged(waitList)[i] = p

Slot(p) == CHOOSE i \in DOMAIN Purged(waitList) : Purged(waitList)[i] = p

\* Mutant: the others on the list are not counted.
HasRoomFor(slot) == Cardinality(online) < MaxPlayers

HasRoom(slot) == Cardinality(online) + slot <= MaxPlayers

\* Every entry erased before or in this call invalidates the iterator.
Pointed == IF Purged(waitList) = waitList THEN priorityEnd ELSE 0

\* What is left of the login: the character is loaded and placed, or is not.
Enter(p) == online' = online \cup {p} \/ UNCHANGED online

\* Staff, and everybody while there is room and nobody waits.
WalkIn(p) ==
    /\ p \notin online
    /\ p \in Privileged \/ (waitList = << >> /\ Cardinality(online) < MaxPlayers)
    /\ Enter(p)
    /\ UNCHANGED <<waitList, stale, priorityEnd>>

Asks(p) ==
    /\ p \notin online \cup Privileged
    /\ waitList # << >> \/ Cardinality(online) >= MaxPlayers

Admit(p) ==
    /\ Asks(p) /\ Found(p) /\ HasRoom(Slot(p))
    /\ waitList' = RemoveAt(Purged(waitList), Slot(p))
    /\ stale' = {} /\ priorityEnd' = 0
    /\ Enter(p)

\* Mutant: who asks again is put at the end.
SentBack(p) == Append(Remove(Purged(waitList), p), p)

Refreshed(p) == Purged(waitList)

WaitOn(p) ==
    /\ Asks(p) /\ Found(p) /\ ~ HasRoom(Slot(p))
    /\ waitList' = Refreshed(p)
    /\ stale' = {} /\ priorityEnd' = Pointed
    /\ UNCHANGED online

QueueUp(p) ==
    /\ Asks(p) /\ ~ Found(p) /\ p \notin Premium
    /\ waitList' = Append(Purged(waitList), p)
    /\ stale' = {} /\ priorityEnd' = 0
    /\ UNCHANGED online

\* A premium player is inserted where priorityEnd points, which is then its own
\* entry. The distance from the begin is returned for the place: 0 for the first
\* entry, which the login takes for an admission.
QueueByPriority(p) ==
    /\ Asks(p) /\ ~ Found(p) /\ p \in Premium
    /\ \E place \in 1..Len(Purged(waitList)) + 1 :
        /\ Pointed # 0 => place = Pointed
        /\ waitList' = InsertAt(Purged(waitList), place, p)
        /\ priorityEnd' = place
        /\ IF place = 1 THEN Enter(p) ELSE UNCHANGED online
    /\ stale' = {}

ClientLogin(p) == WalkIn(p) \/ Admit(p) \/ WaitOn(p) \/ QueueUp(p) \/ QueueByPriority(p)

\* An entry times out: its client has not come back, or is in game with it.
TimeOut(p) ==
    /\ p \in Waiting \ stale
    /\ p \notin Patient \/ p \in online
    /\ stale' = stale \cup {p}
    /\ UNCHANGED <<online, waitList, priorityEnd>>

Logout(p) ==
    /\ p \in online
    /\ online' = online \ {p}
    /\ UNCHANGED <<waitList, stale, priorityEnd>>

Next == \E p \in Players : ClientLogin(p) \/ TimeOut(p) \/ Logout(p)

Spec == Init /\ [][Next]_vars

\* Patient clients try again, an entry nobody asks for times out, and nobody
\* plays for ever.
FairSpec ==
    /\ Spec
    /\ \A p \in Patient : WF_vars(p \in Waiting /\ ClientLogin(p))
    /\ \A p \in Players : WF_vars(TimeOut(p)) /\ WF_vars(Logout(p))

-----------------------------------------------------------------------------
(* Properties                                                              *)

Before(list, p, q) ==
    \E i, j \in DOMAIN list : i < j /\ list[i] = p /\ list[j] = q

\* The places of those who wait and would be let in before p.
Ahead(p) == {q \in Waiting \ stale : q # p /\ (p \in Waiting => Before(waitList, q, p))}

\* Whoever is let in leaves room for all that are ahead of it, so neither the limit
\* of players is passed nor is anybody overtaken. Staff are exempt, and so is a
\* premium player whose entry comes first on the list when it is made.
EntersInTurn ==
    [][ \A p \in (online' \ online) \ Privileged :
            \/ Cardinality(online') + Cardinality(Ahead(p)) <= MaxPlayers
            \/ p \in Premium /\ waitList' # << >> /\ waitList'[1] = p ]_vars

\* Nobody loses its place: who waits stays on the list until it times out or its
\* own turn comes, and behind nobody else than before but premium players who
\* arrive.
PlacesKept ==
    [][ \A p \in Waiting \ stale :
            /\ \/ p \in ToSet(waitList')
               \/ Cardinality(online) + Cardinality(Ahead(p)) < MaxPlayers
            /\ \A q \in (Waiting \ stale) \cup (Players \ Premium) :
                Before(waitList', q, p) => Before(waitList, q, p) ]_vars

\* While no staff and no premium player comes or is there, whoever waits and tries
\* again when told to gets in, whatever the others on the list do.
PatientGetIn ==
    \A p \in Patient \ (Premium \cup Privileged) :
        [] (/\ p \in Waiting
            /\ [] (\A q \in Premium \cup Privileged : q \notin online \cup Waiting)
            => <> (p \notin Waiting))

-----------------------------------------------------------------------------
(* What the proofs need beside the properties                              *)

WaitInv == TypeOK /\ IsFiniteSet(online)
=============================================================================
