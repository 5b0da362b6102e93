-------------------------------- MODULE Bans --------------------------------
(***************************************************************************)
(* Account bans, shared by all worlds: a world that finds one expired at a *)
(* login (isAccountBanned) or at its start (sweepExpiredAccountBans)       *)
(* deletes it with a guarded DELETE and writes its history row if this     *)
(* DELETE removed it (ban.cpp 62-155). Each world does one statement at a  *)
(* time; a ban stands for its banned_at and expires_at, which identify it. *)
(***************************************************************************)
EXTENDS AccountTables, FiniteSets

CONSTANTS Bans, NoBan

ASSUME BansAssumption == NoBan \notin Bans

VARIABLES
    bans,       \* account_bans: the ban of each account
    issued, expired, lifted,    \* the bans issued, out of time, removed by /unban
    history,    \* account_ban_history: the rows of each ban
    found,      \* what a world has read and still has to delete
    removed     \* what a world's DELETE has removed: its history row is due

banVars == <<bans, issued, expired, lifted, history, found, removed>>

BansTypeOK ==
    /\ bans \in [Accounts -> Bans \cup {NoBan}]
    /\ issued \subseteq Bans /\ expired \subseteq issued /\ lifted \subseteq issued
    /\ history \in [Bans -> Nat]
    /\ found \in [Worlds -> SUBSET (Accounts \X Bans)]
    /\ removed \in [Worlds -> Bans \cup {NoBan}]

BansInit ==
    /\ bans = [a \in Accounts |-> NoBan]
    /\ issued = {} /\ expired = {} /\ lifted = {}
    /\ history = [b \in Bans |-> 0]
    /\ found = [w \in Worlds |-> {}]
    /\ removed = [w \in Worlds |-> NoBan]

NotOnBans(w) == found[w] = {} /\ removed[w] = NoBan

-----------------------------------------------------------------------------

\* /ban: at most one ban per account, which is the table's primary key. (Its
\* player is removed in LeaveWorld.)
IssueBan(a, b) ==
    /\ Request
    /\ bans[a] = NoBan /\ b \notin issued
    /\ bans' = [bans EXCEPT ![a] = b]
    /\ issued' = issued \cup {b}
    /\ UNCHANGED <<faults, losses, expired, lifted, history, found, removed>>

\* /unban, which does not ask whether the ban has expired.
LiftBan(a) ==
    /\ bans[a] # NoBan
    /\ lifted' = lifted \cup {bans[a]}
    /\ bans' = [bans EXCEPT ![a] = NoBan]
    /\ UNCHANGED <<faults, losses, requests, issued, expired, history, found, removed>>

Expire(b) ==
    /\ b \in issued \ expired
    /\ expired' = expired \cup {b}
    /\ UNCHANGED <<faults, losses, requests, bans, issued, lifted, history, found, removed>>

\* isAccountBanned, for a ban whose time is over.
CheckLogin(w, a) ==
    /\ NotOnBans(w)
    /\ bans[a] \in expired
    /\ found' = [found EXCEPT ![w] = {<<a, bans[a]>>}]
    /\ UNCHANGED <<faults, losses, requests, bans, issued, expired, lifted, history, removed>>

\* sweepExpiredAccountBans reads every row before the first DELETE.
Sweep(w) ==
    /\ NotOnBans(w)
    /\ found' = [found EXCEPT ![w] = {<<a, bans[a]>> : a \in {x \in Accounts : bans[x] \in expired}}]
    /\ UNCHANGED <<faults, losses, requests, bans, issued, expired, lifted, history, removed>>

\* Mutant: banned_at and expires_at are not part of the condition.
MatchesAccount(a, b) == bans[a] # NoBan

Matches(a, b) == bans[a] = b

\* Mutant: one DELETE for whatever has expired.
DeleteExpired(a, b) == bans' = [x \in Accounts |-> IF bans[x] \in expired THEN NoBan ELSE bans[x]]

Delete(a, b) == bans' = IF Matches(a, b) THEN [bans EXCEPT ![a] = NoBan] ELSE bans

\* Mutant: the affected rows are not looked at.
RemovedAlways(a, b) == b

\* The ban whose history this world has to write: getAffectedRows() = 1.
RemovedBy(a, b) == IF Matches(a, b) THEN b ELSE NoBan

\* RetireExpiredBan, its guarded DELETE. When the answer was lost, the second
\* run finds no row.
RetireBan(w, a, b) ==
    /\ removed[w] = NoBan /\ <<a, b>> \in found[w]
    /\ found' = [found EXCEPT ![w] = @ \ {<<a, b>>}]
    /\ \/ Answered /\ Delete(a, b) /\ removed' = [removed EXCEPT ![w] = RemovedBy(a, b)]
       \/ Loss /\ Delete(a, b) /\ UNCHANGED removed
       \/ Fault /\ UNCHANGED <<bans, removed>>
    /\ UNCHANGED <<requests, issued, expired, lifted, history>>

\* The INSERT of the history row: written, written twice or failed.
WriteHistory(w) ==
    /\ removed[w] # NoBan
    /\ removed' = [removed EXCEPT ![w] = NoBan]
    /\ \/ Answered /\ history' = [history EXCEPT ![removed[w]] = @ + 1]
       \/ Loss /\ history' = [history EXCEPT ![removed[w]] = @ + 2]
       \/ Loss /\ UNCHANGED history
    /\ UNCHANGED <<requests, bans, issued, expired, lifted, found>>

BansScripts ==
    \/ \E a \in Accounts : LiftBan(a) \/ \E b \in Bans : IssueBan(a, b)
    \/ \E b \in Bans : Expire(b)

BansStep(w) ==
    \/ Sweep(w) \/ WriteHistory(w)
    \/ \E a \in Accounts : CheckLogin(w, a) \/ \E b \in Bans : RetireBan(w, a, b)

-----------------------------------------------------------------------------
(* Properties                                                              *)

Standing(b) == \E a \in Accounts : bans[a] = b

Due(b) == \E w \in Worlds : removed[w] = b

\* "An expired ban is retired once, however many worlds notice it"
\* (docs/multiworld.md:171): one world writes its history row, when the ban is
\* gone, and only an INSERT that was run twice leaves a second row.
RetiredOnce ==
    \A b \in Bans :
        /\ history[b] > 0 => b \in expired /\ ~ Standing(b)
        /\ \A w \in Worlds : removed[w] = b =>
            /\ b \in expired /\ ~ Standing(b) /\ history[b] = 0
            /\ \A v \in Worlds \ {w} : removed[v] # b
        /\ history[b] <= 1 + losses

\* No ban vanishes: what /unban did not lift stands, or its history is written, or
\* a world is about to write it, and a DELETE that fails changes nothing of this.
\* (A lost answer does lose the row: the second run reports that nothing was
\* removed; and a failed INSERT is not tried again.)
NoBanVanishes ==
    losses = 0 => \A b \in issued : Standing(b) \/ Due(b) \/ history[b] > 0 \/ b \in lifted

\* A ban ends when its time is over or when /unban lifts it: the retirement of
\* an old ban, however late its DELETE comes, does not touch a newer one.
StandingBansStay ==
    [][ \A a \in Accounts :
            bans[a] # NoBan /\ bans'[a] # bans[a] => bans[a] \in expired \cup lifted' ]_banVars

-----------------------------------------------------------------------------
(* What the proofs need beside the properties                              *)

\* A world sets out to delete expired bans only.
FoundExpired == \A w \in Worlds : \A e \in found[w] : e[2] \in expired

\* A ban that stands was issued, and for one account.
OneAccountEach ==
    \A a \in Accounts : bans[a] # NoBan =>
        bans[a] \in issued /\ \A x \in Accounts : bans[x] = bans[a] => x = a

BansInv ==
    /\ losses \in Nat
    /\ BansTypeOK /\ FoundExpired /\ OneAccountEach
    /\ RetiredOnce /\ NoBanVanishes
=============================================================================
