------------------------------ MODULE Presence ------------------------------
(***************************************************************************)
(* Deployment-wide login presence: an account is online on one world at a  *)
(* time.  Every game world is a process of its own; the worlds share two   *)
(* tables of one database:                                                 *)
(*                                                                         *)
(*   account_presence   one row per claimed account: the world and a token *)
(*   world_presence     one heartbeat row per running world                *)
(*                                                                         *)
(* A world claims an account before it lets a player in, renews its        *)
(* heartbeat, and after a stall reads its claims again and kicks the       *)
(* players whose claim another world took over (presence.cpp, presence.h,  *)
(* the login of protocolgame.cpp, the logout of player.cpp, the shutdown   *)
(* of game.cpp).                                                           *)
(*                                                                         *)
(* A world runs its game logic on one thread, the dispatcher: pc[w] says   *)
(* where that thread is, every database round trip is a step of its own,   *)
(* and the steps of other worlds, of the database thread and of the clock  *)
(* come in between.  One unit of time is one heartbeat's granularity; the  *)
(* database's clock and the worlds' steady clocks are kept as differences  *)
(* that stop growing where the code no longer tells them apart.            *)
(***************************************************************************)
EXTENDS Integers, FiniteSets

CONSTANTS
    Worlds,         \* the worlds of the deployment
    Accounts,       \* the accounts they share
    Exempt,         \* accounts of type Gamemaster and above: no claim
    Crashable,      \* worlds whose process may die at any moment
    Stoppable,      \* worlds that may be told to shut down
    Tokens,         \* claim tokens; bounds how many are in use at once
    NoWorld, NoToken, NoAccount,
    Lease,          \* a heartbeat older than this is expired
    BeatInterval,   \* time between two beats
    ClaimAttempts,  \* rounds of the claim loop
    MaxDrift,       \* how far the database's clock may jump within one check
    MaxFaults       \* bound on failed or unanswered queries

ASSUME IdsAssumption ==
    /\ Exempt \subseteq Accounts /\ Crashable \subseteq Worlds /\ Stoppable \subseteq Worlds
    /\ NoWorld \notin Worlds /\ NoToken \notin Tokens /\ NoAccount \notin Accounts

ASSUME TimeAssumption ==
    /\ Lease \in Nat /\ BeatInterval \in Nat \ {0} /\ MaxDrift \in Nat
    /\ BeatInterval < Lease /\ MaxDrift <= BeatInterval

ASSUME BoundAssumption == ClaimAttempts \in Nat \ {0} /\ MaxFaults \in Nat

VARIABLES
    row,            \* account_presence: the world and the token that hold each account
    beat,           \* world_presence: age of each heartbeat on the database's clock
    faults,         \* failed and unanswered queries so far
    pc,             \* where each world's dispatcher is
    players,        \* accounts each world has in game
    token,          \* Player::presence_claim of each of them
    releases,       \* releases queued on g_databaseTasks, not run yet
    login,          \* the login a world's dispatcher is in
    since,          \* now - last_beat
    flight,         \* beat_in_flight: the age read is queued, or it replied
    measured,       \* now - readAt, and databaseAge with it once replied
    drift,          \* database clock jumps since readAt
    followUp,       \* follow_up_reconcile
    stallPending,   \* stall_pending
    victims         \* players the running reconcile has still to kick

dbVars      == <<row, beat>>
sessionVars == <<players, token, releases>>
beatVars    == <<since, flight, measured, drift, followUp, stallPending>>
vars        == <<row, beat, faults, pc, players, token, releases, login, since, flight,
                 measured, drift, followUp, stallPending, victims>>

-----------------------------------------------------------------------------
(* Data                                                                    *)

Missing   == -1                     \* a heartbeat row or a reading that is not there
\* Mutant: no margin left for a jump of the database's clock.
ThresholdWithoutMargin == Lease + 1

Threshold == Lease - BeatInterval

NoRow   == [world |-> NoWorld, token |-> NoToken]
Entry(a, t, n) == [account |-> a, token |-> t, attempt |-> n, holder |-> NoToken]
NoLogin == Entry(NoAccount, NoToken, 0)

Age   == 0..(Lease + 1)
Phase == {"down", "starting", "idle", "insert", "lookup", "takeover", "admit", "beating",
          "reconcile", "kicking", "retiring", "retireBeat", "closing"}

\* The rows of account_presence and the logins a dispatcher may be in.
Claims == [world : Worlds, token : Tokens] \cup {NoRow}
Logins == [account : Accounts \cup {NoAccount}, token : Tokens \cup {NoToken},
           attempt : 0..ClaimAttempts, holder : Tokens \cup {NoToken}]

Cap(n, max) == IF n < max THEN n ELSE max

\* COALESCE(beat_at, 0) < UNIX_TIMESTAMP() - Lease: how other worlds judge w
Expired(w) == beat[w] = Missing \/ beat[w] > Lease

\* The tokens some row, player, login or queued release still names.
InUse == {t \in Tokens : \E w \in Worlds, a \in Accounts :
            \/ row[a].token = t \/ token[w][a] = t \/ <<a, t>> \in releases[w]
            \/ login[w].token = t \/ login[w].holder = t}

\* A 64-bit random draw: one that no claim carries.  Tokens are only compared
\* for equality, so which of them it is makes no difference.
NewToken == CHOOSE t \in Tokens : t \notin InUse
CanDraw  == \E t \in Tokens : t \notin InUse

\* A query answered as it should be, and one that is not.
Answered == faults' = faults
Faulty   == faults < MaxFaults /\ faults' = faults + 1

\* Mutant: the DELETE names the account alone.
DeletedByAccount(r, a, t) == [r EXCEPT ![a] = NoRow]

\* One token-guarded DELETE, applied to the claim table r.
Deleted(r, a, t) == IF r[a].token = t THEN [r EXCEPT ![a] = NoRow] ELSE r

\* DELETE ... WHERE world_id = w, applied to the claim table r.
DeletedAll(r, w) == [a \in Accounts |-> IF r[a].world = w THEN NoRow ELSE r[a]]

-----------------------------------------------------------------------------
(* The pure decisions of presence.h                                        *)

\* Mutant: a stale heartbeat is no reason to take a claim over.
ClassifyWithoutExpiry(holderToken, holderWorld, holderExpired, ourToken, ourWorld) ==
    IF holderToken = ourToken THEN "Ours"
    ELSE IF holderWorld = ourWorld THEN "Abandoned"
    ELSE "Live"

\* Mutant: the login does not know its own claim from a leftover of its world.
ClassifyWithoutToken(holderToken, holderWorld, holderExpired, ourToken, ourWorld) ==
    IF holderWorld = ourWorld \/ holderExpired THEN "Abandoned" ELSE "Live"

Classify(holderToken, holderWorld, holderExpired, ourToken, ourWorld) ==
    IF holderToken = ourToken THEN "Ours"
    ELSE IF holderWorld = ourWorld \/ holderExpired THEN "Abandoned"
    ELSE "Live"

\* IsStall looks at nothing but the sum of the two; no reading is a stall.
Measured(databaseAge, readSpan) ==
    IF databaseAge = Missing THEN Threshold ELSE Cap(databaseAge + readSpan, Threshold)

IsStall(age, sinceLastBeat) == age >= Threshold \/ sinceLastBeat >= Threshold

\* Mutant: a stall seen by a beat that did not land is forgotten.
PlanReconcileForgets(beatLanded, stalled, followUpPending, stallWasPending) ==
    LET stall == stalled \/ stallWasPending
    IN  IF ~beatLanded THEN [reconcile |-> FALSE, follow_up |-> followUpPending, stall_pending |-> FALSE]
        ELSE IF stall  THEN [reconcile |-> TRUE, follow_up |-> TRUE, stall_pending |-> FALSE]
        ELSE [reconcile |-> followUpPending, follow_up |-> FALSE, stall_pending |-> FALSE]

PlanReconcile(beatLanded, stalled, followUpPending, stallWasPending) ==
    LET stall == stalled \/ stallWasPending
    IN  IF ~beatLanded THEN [reconcile |-> FALSE, follow_up |-> followUpPending, stall_pending |-> stall]
        ELSE IF stall  THEN [reconcile |-> TRUE, follow_up |-> TRUE, stall_pending |-> FALSE]
        ELSE [reconcile |-> followUpPending, follow_up |-> FALSE, stall_pending |-> FALSE]

FollowUpAfter(plan, readFailed) == plan.follow_up \/ (plan.reconcile /\ readFailed)

-----------------------------------------------------------------------------
Init ==
    /\ row = [a \in Accounts |-> NoRow]
    /\ beat = [w \in Worlds |-> Missing]
    /\ faults = 0
    /\ pc = [w \in Worlds |-> "down"]
    /\ players = [w \in Worlds |-> {}]
    /\ token = [w \in Worlds |-> [a \in Accounts |-> NoToken]]
    /\ releases = [w \in Worlds |-> {}]
    /\ login = [w \in Worlds |-> NoLogin]
    /\ since = [w \in Worlds |-> 0]
    /\ flight = [w \in Worlds |-> "none"]
    /\ measured = [w \in Worlds |-> 0]
    /\ drift = [w \in Worlds |-> 0]
    /\ followUp = [w \in Worlds |-> FALSE]
    /\ stallPending = [w \in Worlds |-> FALSE]
    /\ victims = [w \in Worlds |-> {}]

-----------------------------------------------------------------------------
(* Time                                                                    *)

Aged == [w \in Worlds |-> IF beat[w] = Missing THEN Missing ELSE Cap(beat[w] + 1, Lease + 1)]

Running(w) == pc[w] \notin {"down", "starting"}

\* Time passes, however long a dispatcher takes over one task.
Tick ==
    /\ beat' = Aged
    /\ since' = [w \in Worlds |-> IF Running(w) THEN Cap(since[w] + 1, Threshold) ELSE since[w]]
    /\ measured' = [w \in Worlds |-> IF flight[w] # "none" THEN Cap(measured[w] + 1, Threshold) ELSE measured[w]]
    /\ UNCHANGED <<row, faults, pc, sessionVars, login, flight, drift, followUp,
                   stallPending, victims>>

\* The database's clock steps forward: by MaxDrift at most within one check.
ClockStep ==
    /\ \A w \in Worlds : drift[w] < MaxDrift
    /\ beat' = Aged
    /\ drift' = [w \in Worlds |-> IF flight[w] # "none" THEN drift[w] + 1 ELSE drift[w]]
    /\ UNCHANGED <<row, faults, pc, sessionVars, login, since, flight, measured,
                   followUp, stallPending, victims>>

-----------------------------------------------------------------------------
(* Start, shutdown, crash                                                  *)

\* What the end of a process leaves of it.
Forgotten(w) ==
    /\ players' = [players EXCEPT ![w] = {}]
    /\ token' = [token EXCEPT ![w] = [a \in Accounts |-> NoToken]]
    /\ releases' = [releases EXCEPT ![w] = {}]
    /\ login' = [login EXCEPT ![w] = NoLogin]
    /\ since' = [since EXCEPT ![w] = 0]
    /\ flight' = [flight EXCEPT ![w] = "none"]
    /\ measured' = [measured EXCEPT ![w] = 0]
    /\ drift' = [drift EXCEPT ![w] = 0]
    /\ followUp' = [followUp EXCEPT ![w] = FALSE]
    /\ stallPending' = [stallPending EXCEPT ![w] = FALSE]
    /\ victims' = [victims EXCEPT ![w] = {}]
    /\ pc' = [pc EXCEPT ![w] = "down"]

\* Start: every claim that names this world is a leftover of its last run.
StartClear(w) ==
    /\ pc[w] = "down"
    /\ row' = DeletedAll(row, w)
    /\ pc' = [pc EXCEPT ![w] = "starting"]
    /\ Answered
    /\ UNCHANGED <<beat, sessionVars, login, beatVars, victims>>

\* Start: the first heartbeat, then Beat is armed.
StartBeat(w) ==
    /\ pc[w] = "starting"
    /\ beat' = [beat EXCEPT ![w] = 0]
    /\ pc' = [pc EXCEPT ![w] = "idle"]
    /\ Answered
    /\ UNCHANGED <<row, sessionVars, login, since, flight, measured, drift, followUp,
                   stallPending, victims>>

\* Start refuses to run the world when a statement of its fails.
StartFails(w) ==
    /\ pc[w] = "starting"
    /\ pc' = [pc EXCEPT ![w] = "down"]
    /\ Faulty
    /\ UNCHANGED <<dbVars, sessionVars, login, beatVars, victims>>

Crash(w) ==
    /\ w \in Crashable /\ pc[w] # "down"
    /\ Forgotten(w)
    /\ UNCHANGED <<dbVars, faults>>

\* setGameState(GAME_STATE_SHUTDOWN): from here Release discards.
BeginRetire(w) ==
    /\ w \in Stoppable /\ pc[w] = "idle"
    /\ pc' = [pc EXCEPT ![w] = "retiring"]
    /\ UNCHANGED <<dbVars, faults, sessionVars, login, beatVars, victims>>

\* The kick loop of the shutdown: saved, removed, the claim only discarded.
ShutdownKick(w, a) ==
    /\ pc[w] = "retiring" /\ a \in players[w]
    /\ players' = [players EXCEPT ![w] = @ \ {a}]
    /\ token' = [token EXCEPT ![w][a] = NoToken]
    /\ UNCHANGED <<dbVars, faults, pc, releases, login, beatVars, victims>>

\* Retire: one statement frees every claim; a failure is only logged.
RetireClaims(w) ==
    /\ pc[w] = "retiring" /\ players[w] = {}
    /\ \/ Answered /\ row' = DeletedAll(row, w)
       \/ Faulty /\ UNCHANGED row
    /\ pc' = [pc EXCEPT ![w] = "retireBeat"]
    /\ UNCHANGED <<beat, sessionVars, login, beatVars, victims>>

\* Retire: the heartbeat row goes, and the world is retired for good.
RetireBeat(w) ==
    /\ pc[w] = "retireBeat"
    /\ \/ Answered /\ beat' = [beat EXCEPT ![w] = Missing]
       \/ Faulty /\ UNCHANGED beat
    /\ pc' = [pc EXCEPT ![w] = "closing"]
    /\ UNCHANGED <<row, sessionVars, login, beatVars, victims>>

\* A login task that was queued behind the shutdown task: presence is no
\* longer enabled, so the player is placed without a claim.
LateLogin(w, a) ==
    /\ pc[w] = "closing" /\ a \notin players[w]
    /\ players' = [players EXCEPT ![w] = @ \cup {a}]
    /\ UNCHANGED <<dbVars, faults, pc, token, releases, login, beatVars, victims>>

\* saveGameState has flushed g_databaseTasks; the process ends.
Exit(w) ==
    /\ pc[w] = "closing" /\ releases[w] = {}
    /\ Forgotten(w)
    /\ UNCHANGED <<dbVars, faults>>

-----------------------------------------------------------------------------
(* Login: ProtocolGame::login and Presence::Claim                          *)

\* The account is not online here; an exempt one makes no claim.
Login(w, a) ==
    /\ pc[w] = "idle" /\ a \notin players[w]
    /\ IF a \in Exempt
       THEN /\ login' = [login EXCEPT ![w] = Entry(a, NoToken, 0)]
            /\ pc' = [pc EXCEPT ![w] = "admit"]
       ELSE /\ CanDraw
            /\ login' = [login EXCEPT ![w] = Entry(a, NewToken, 1)]
            /\ pc' = [pc EXCEPT ![w] = "insert"]
    /\ UNCHANGED <<dbVars, faults, sessionVars, beatVars, victims>>

Mine(w) == [world |-> w, token |-> login[w].token]

Granted(w) == /\ pc' = [pc EXCEPT ![w] = "admit"]
              /\ login' = [login EXCEPT ![w].holder = NoToken]

Refused(w) == /\ pc' = [pc EXCEPT ![w] = "idle"]
              /\ login' = [login EXCEPT ![w] = NoLogin]

NextAttempt(w) ==
    IF login[w].attempt < ClaimAttempts
    THEN /\ pc' = [pc EXCEPT ![w] = "insert"]
         /\ login' = [login EXCEPT ![w] = Entry(@.account, @.token, @.attempt + 1)]
    ELSE Refused(w)

\* INSERT IGNORE.  When the answer is lost after the row landed, executeQuery
\* sends it again; any other error refuses the login.
Insert(w) ==
    LET a == login[w].account IN
    /\ pc[w] = "insert"
    /\ \/ /\ Answered /\ row[a] = NoRow
          /\ row' = [row EXCEPT ![a] = Mine(w)]
          /\ Granted(w)
       \/ /\ Answered /\ row[a] # NoRow
          /\ pc' = [pc EXCEPT ![w] = "lookup"]
          /\ UNCHANGED <<row, login>>
       \/ /\ Faulty /\ row[a] = NoRow
          /\ row' = [row EXCEPT ![a] = Mine(w)]
          /\ UNCHANGED <<pc, login>>
       \/ Faulty /\ Refused(w) /\ UNCHANGED row
    /\ UNCHANGED <<beat, sessionVars, beatVars, victims>>

\* The holder lookup and Classify.  No row, and a failed query, cost an attempt.
Lookup(w) ==
    LET a      == login[w].account
        holder == row[a]
        class  == Classify(holder.token, holder.world, Expired(holder.world), login[w].token, w)
    IN
    /\ pc[w] = "lookup"
    /\ \/ Answered /\ holder = NoRow /\ NextAttempt(w)
       \/ Faulty /\ NextAttempt(w)
       \/ /\ Answered /\ holder # NoRow
          /\ CASE class = "Ours" -> Granted(w)
               [] class = "Live" -> Refused(w)
               [] class = "Abandoned" ->
                    /\ pc' = [pc EXCEPT ![w] = "takeover"]
                    /\ login' = [login EXCEPT ![w].holder = holder.token]
    /\ UNCHANGED <<dbVars, sessionVars, beatVars, victims>>

\* Mutant: the takeover trusts the lookup's verdict.
TakeableAsRead(w) == row[login[w].account].token = login[w].holder

\* The WHERE of the takeover: the claim that was looked up is still there, and
\* it is this world's or its world is expired as the statement runs. The connection
\* counts the rows a statement changes: one that is this login's already is none.
Takeable(w) ==
    LET r == row[login[w].account] IN
    /\ r.token = login[w].holder /\ r.token # login[w].token
    /\ r.world = w \/ Expired(r.world)

Takeover(w) ==
    LET a == login[w].account IN
    /\ pc[w] = "takeover"
    /\ \/ /\ Answered /\ Takeable(w)
          /\ row' = [row EXCEPT ![a] = Mine(w)]
          /\ Granted(w)
       \/ Answered /\ ~Takeable(w) /\ NextAttempt(w) /\ UNCHANGED row
       \/ /\ Faulty /\ Takeable(w)
          /\ row' = [row EXCEPT ![a] = Mine(w)]
          /\ UNCHANGED <<pc, login>>
       \/ Faulty /\ Refused(w) /\ UNCHANGED row
    /\ UNCHANGED <<beat, sessionVars, beatVars, victims>>

\* The player is loaded and placed, and adopts the claim.
Place(w) ==
    LET a == login[w].account IN
    /\ pc[w] = "admit"
    /\ players' = [players EXCEPT ![w] = @ \cup {a}]
    /\ token' = [token EXCEPT ![w][a] = login[w].token]
    /\ Refused(w)
    /\ UNCHANGED <<dbVars, faults, releases, beatVars, victims>>

\* Mutant: a claim that is destroyed is only forgotten.
QueuedNever(w, a, t) == releases

\* QueueRelease: an empty claim queues nothing.
Queued(w, a, t) == IF t = NoToken THEN releases ELSE [releases EXCEPT ![w] = @ \cup {<<a, t>>}]

\* The waiting list, or a load or placement that failed: the claim's
\* destructor queues its release.
TurnAway(w) ==
    /\ pc[w] = "admit"
    /\ releases' = Queued(w, login[w].account, login[w].token)
    /\ Refused(w)
    /\ UNCHANGED <<dbVars, faults, players, token, beatVars, victims>>

-----------------------------------------------------------------------------
(* The end of a session                                                    *)

\* PresenceClaim::Release: deleted at once; a statement that fails is queued.
Release(w, a, t) ==
    \/ t = NoToken /\ Answered /\ UNCHANGED <<row, releases>>
    \/ t # NoToken /\ Answered /\ row' = Deleted(row, a, t) /\ UNCHANGED releases
    \/ t # NoToken /\ Faulty /\ releases' = Queued(w, a, t) /\ UNCHANGED row

\* An onLogin script refused the player inside placeCreature.
ScriptRefuses(w) ==
    /\ pc[w] = "admit"
    /\ Release(w, login[w].account, login[w].token)
    /\ Refused(w)
    /\ UNCHANGED <<beat, players, token, beatVars, victims>>

\* onRemoveCreature: the player is saved, leaves, and its claim is released.
Leave(w, a) ==
    /\ players' = [players EXCEPT ![w] = @ \ {a}]
    /\ token' = [token EXCEPT ![w][a] = NoToken]
    /\ Release(w, a, token[w][a])

Logout(w, a) ==
    /\ pc[w] = "idle" /\ a \in players[w]
    /\ Leave(w, a)
    /\ UNCHANGED <<beat, pc, login, beatVars, victims>>

\* The database thread runs a queued release; nobody retries one that fails.
RunRelease(w, a, t) ==
    /\ <<a, t>> \in releases[w]
    /\ releases' = [releases EXCEPT ![w] = @ \ {<<a, t>>}]
    /\ \/ Answered /\ row' = Deleted(row, a, t)
       \/ Faulty /\ UNCHANGED row
    /\ UNCHANGED <<beat, pc, players, token, login, beatVars, victims>>

-----------------------------------------------------------------------------
(* The heartbeat                                                           *)

\* Re-arms first; a tick that finds the last read still pending does nothing.
Beat(w) ==
    /\ pc[w] = "idle" 
    /\ IF flight[w] = "none"
       THEN /\ flight' = [flight EXCEPT ![w] = "queued"]
            /\ measured' = [measured EXCEPT ![w] = 0]
            /\ drift' = [drift EXCEPT ![w] = 0]
       ELSE UNCHANGED <<flight, measured, drift>>
    /\ UNCHANGED <<dbVars, faults, pc, sessionVars, login, since, followUp,
                   stallPending, victims>>

\* The database thread reads the heartbeat's age and posts the reply.
ReadAge(w) ==
    /\ flight[w] = "queued"
    /\ flight' = [flight EXCEPT ![w] = "replied"]
    /\ \/ Answered /\ measured' = [measured EXCEPT ![w] = Measured(beat[w], @)]
       \/ Faulty /\ measured' = [measured EXCEPT ![w] = Measured(Missing, @)]
    /\ UNCHANGED <<dbVars, pc, sessionVars, login, since, drift, followUp,
                   stallPending, victims>>

\* beat_in_flight is cleared; measured and drift mean nothing any more.
Settled(w) ==
    /\ flight' = [flight EXCEPT ![w] = "none"]
    /\ measured' = [measured EXCEPT ![w] = 0]
    /\ drift' = [drift EXCEPT ![w] = 0]

\* The plan of a beat whose upsert returned, and the flags it leaves.
Planned(w, landed) ==
    LET stalled == IsStall(measured[w], since[w])
        plan    == PlanReconcile(landed, stalled, followUp[w], stallPending[w])
    IN  /\ pc' = [pc EXCEPT ![w] = IF plan.reconcile THEN "reconcile" ELSE "idle"]
        /\ followUp' = [followUp EXCEPT ![w] = FollowUpAfter(plan, FALSE)]
        /\ stallPending' = [stallPending EXCEPT ![w] = plan.stall_pending]

\* The upsert, then the plan.  A write reported failed may have committed, and
\* one whose answer is lost is sent again while the dispatcher waits.
FinishBeat(w) ==
    /\ pc[w] \in {"idle", "beating"} /\ flight[w] = "replied"
    /\ \/ /\ Answered
          /\ beat' = [beat EXCEPT ![w] = 0]
          /\ since' = [since EXCEPT ![w] = 0]
          /\ Planned(w, TRUE) /\ Settled(w)
       \/ /\ Faulty
          /\ beat' \in {beat, [beat EXCEPT ![w] = 0]}
          /\ Planned(w, FALSE) /\ Settled(w)
          /\ UNCHANGED since
       \/ /\ Faulty
          /\ beat' = [beat EXCEPT ![w] = 0]
          /\ pc' = [pc EXCEPT ![w] = "beating"]
          /\ UNCHANGED <<since, flight, measured, drift, followUp, stallPending>>
    /\ UNCHANGED <<row, sessionVars, login, victims>>

\* Mutant: the late reply is settled like any other.
DropReplyBeats(w) ==
    /\ pc[w] = "closing" /\ flight[w] = "replied"
    /\ beat' = [beat EXCEPT ![w] = 0]
    /\ Settled(w)
    /\ UNCHANGED <<row, faults, pc, sessionVars, login, since, followUp,
                   stallPending, victims>>

\* A reply that finds the world retired must not bring its heartbeat back.
DropReply(w) ==
    /\ pc[w] = "closing" /\ flight[w] = "replied"
    /\ Settled(w)
    /\ UNCHANGED <<dbVars, faults, pc, sessionVars, login, since, followUp,
                   stallPending, victims>>

\* The tokens the claim table still gives to world w.
ClaimedTokens(w) == {row[b].token : b \in {c \in Accounts : row[c].world = w}}

\* Mutant: players without a claim are looked up as well.
LostClaimOfAnyone(w, a) == token[w][a] \notin ClaimedTokens(w)

\* Mutant: only a row that is gone counts as lost, not one taken over.
LostClaimIfGone(w, a) == token[w][a] # NoToken /\ row[a] = NoRow

\* lostClaim: a player without a token holds no claim to lose.
LostClaim(w, a) == token[w][a] # NoToken /\ token[w][a] \notin ClaimedTokens(w)

\* Reconcile reads this world's claims; a failed read kicks nobody.
Reconcile(w) ==
    /\ pc[w] = "reconcile"
    /\ \/ /\ Answered
          /\ victims' = [victims EXCEPT ![w] = {a \in players[w] : LostClaim(w, a)}]
          /\ pc' = [pc EXCEPT ![w] = "kicking"]
          /\ UNCHANGED followUp
       \/ /\ Faulty
          /\ followUp' = [followUp EXCEPT ![w] = TRUE]
          /\ pc' = [pc EXCEPT ![w] = "idle"]
          /\ UNCHANGED victims
    /\ UNCHANGED <<dbVars, sessionVars, login, since, flight, measured, drift,
                   stallPending>>

\* Reconcile's kick loop: one player, its save and its release at a time.
Kick(w, a) ==
    /\ pc[w] = "kicking" /\ a \in victims[w]
    /\ Leave(w, a)
    /\ victims' = [victims EXCEPT ![w] = @ \ {a}]
    /\ UNCHANGED <<beat, pc, login, beatVars>>

Reconciled(w) ==
    /\ pc[w] = "kicking" /\ victims[w] = {}
    /\ pc' = [pc EXCEPT ![w] = "idle"]
    /\ UNCHANGED <<dbVars, faults, sessionVars, login, beatVars, victims>>

-----------------------------------------------------------------------------
\* What the dispatcher of w does next while it is inside a task.
Continue(w) ==
    \/ StartBeat(w) \/ StartFails(w)
    \/ Insert(w) \/ Lookup(w) \/ Takeover(w) \/ Place(w) \/ TurnAway(w) \/ ScriptRefuses(w)
    \/ Reconcile(w) \/ Reconciled(w)
    \/ \E a \in Accounts : Kick(w, a) \/ ShutdownKick(w, a)
    \/ RetireClaims(w) \/ RetireBeat(w) \/ DropReply(w) \/ Exit(w)

\* What g_databaseTasks does for w.
Background(w) ==
    ReadAge(w) \/ \E a \in Accounts, t \in Tokens : RunRelease(w, a, t)

World(w) ==
    \/ StartClear(w) \/ Crash(w) \/ BeginRetire(w)
    \/ \E a \in Accounts : Login(w, a) \/ LateLogin(w, a) \/ Logout(w, a)
    \/ Beat(w) \/ FinishBeat(w)
    \/ Continue(w)
    \/ Background(w)

Next == Tick \/ ClockStep \/ \E w \in Worlds : World(w)

Spec == Init /\ [][Next]_vars

-----------------------------------------------------------------------------
(* Properties                                                              *)

\* Every variable keeps its type.
TypeOK ==
    /\ row \in [Accounts -> Claims]
    /\ beat \in [Worlds -> Age \cup {Missing}]
    /\ faults \in 0..MaxFaults
    /\ pc \in [Worlds -> Phase]
    /\ players \in [Worlds -> SUBSET Accounts]
    /\ token \in [Worlds -> [Accounts -> Tokens \cup {NoToken}]]
    /\ releases \in [Worlds -> SUBSET (Accounts \X Tokens)]
    /\ login \in [Worlds -> Logins]
    /\ since \in [Worlds -> 0..Threshold]
    /\ flight \in [Worlds -> {"none", "queued", "replied"}]
    /\ measured \in [Worlds -> 0..Threshold]
    /\ drift \in [Worlds -> 0..MaxDrift]
    /\ followUp \in [Worlds -> BOOLEAN]
    /\ stallPending \in [Worlds -> BOOLEAN]
    /\ victims \in [Worlds -> SUBSET Accounts]

\* The claim a player, or a login that was granted one, relies on.
Relies(w, a, t) ==
    /\ t # NoToken
    /\ \/ token[w][a] = t
       \/ pc[w] = "admit" /\ login[w].account = a /\ login[w].token = t

Lost(w, a, t) == Relies(w, a, t) /\ row[a] # [world |-> w, token |-> t]

\* The beat in flight will be taken for a stall, whenever it is settled.
WillStall(w) == flight[w] = "replied" /\ IsStall(measured[w], since[w])

\* w has not settled the stall in which a claim was lost: other worlds still
\* see it expired, so its next beat will find out; or the beat in flight, a
\* carried stall or an armed follow-up makes it read its claims again; or it
\* is doing so.
Owes(w, a) ==
    \/ Expired(w)
    \/ WillStall(w)
    \/ followUp[w] \/ stallPending[w]
    \/ pc[w] = "reconcile"
    \/ pc[w] = "kicking" /\ a \in victims[w]

\* A world never keeps a player whose claim another world took without owing
\* a reconcile that will find it (FinishBeat, Reconcile, IsStall).
CaughtLostClaims ==
    \A w \in Worlds, a \in Accounts, t \in Tokens : Lost(w, a, t) => Owes(w, a)

\* A claim somebody relies on is gone after this step only if its world is expired.
TakenOnlyIfExpired ==
    \A w \in Worlds, a \in Accounts, t \in Tokens :
        Relies(w, a, t) /\ ~Lost(w, a, t) /\ Lost(w, a, t)' => Expired(w)

\* A claim a player or an admitted login relies on is taken away only while its
\* world is expired, at the very step that takes it: not by a release queued
\* for an older claim, not by a takeover whose lookup is out of date.
ClaimsOutliveRivals == [][TakenOnlyIfExpired]_vars

\* Reconcile kicks nobody whose claim the table still gives to this world, and
\* nobody who plays without a claim, whatever happened since it read the table.
KicksOnlyTheLost ==
    [][\A w \in Worlds, a \in Accounts :
         /\ pc[w] = "kicking" /\ a \in players[w] /\ a \notin players'[w] /\ pc'[w] # "down"
         => token[w][a] # NoToken /\ Lost(w, a, token[w][a])]_vars

\* Once a world retired, no answer still under way brings its heartbeat back.
RetiredStaysSilent ==
    [][\A w \in Worlds :
         pc[w] = "closing" /\ beat[w] = Missing /\ pc'[w] = "closing" => beat'[w] = Missing]_vars

\* Every row of a running world has an owner that will give it back: a player,
\* a login under way, a queued release, or the shutdown's one DELETE. (An answer
\* that is lost may leave one without: RefusedLoginsFree.)
NoOrphans ==
    faults = 0 => \A a \in Accounts : row[a] # NoRow =>
        LET w == row[a].world
            t == row[a].token
        IN  \/ pc[w] \in {"down", "starting", "retiring"}
            \/ token[w][a] = t
            \/ login[w].account = a /\ login[w].token = t
            \/ <<a, t>> \in releases[w]

\* "One player online per account across the whole deployment": of two worlds
\* that have a player of an account that is not exempt, one lost its claim and
\* will find out.
OneSession ==
    \A a \in Accounts \ Exempt : \A v, w \in Worlds :
        a \in players[v] /\ a \in players[w] /\ v # w =>
            \E u \in {v, w} : Lost(u, a, token[u][a])

\* "Every early return between claiming and entering the world frees the
\* account": a login that is refused leaves no row that carries its token.
RefusedLoginsFree ==
    [][\A w \in Worlds :
         pc[w] \in {"insert", "lookup", "takeover"} /\ pc'[w] = "idle" =>
            row'[login[w].account] # Mine(w)]_vars

\* A login whose own row has landed, though the answer was lost, gets in: the next
\* look at the row knows it, and nothing but a further failure turns the login
\* away. (A takeover that was the last attempt is not looked at again:
\* RefusedLoginsFree.)
LandedClaimsAdmit ==
    [][\A w \in Worlds :
         /\ pc[w] \in {"insert", "lookup", "takeover"} /\ row[login[w].account] = Mine(w)
         /\ pc'[w] = "idle"
         => \/ faults' > faults
            \/ /\ pc[w] = "takeover" /\ login[w].holder # login[w].token
               /\ login[w].attempt = ClaimAttempts]_vars

\* Presence implements the abstract lock: what other worlds see of a claim and
\* of a heartbeat is all that matters.
Lock == INSTANCE AccountLock WITH
            owner     <- [a \in Accounts |-> row[a].world],
            suspected <- {w \in Worlds : Expired(w)}
LockSpec == Lock!Spec

-----------------------------------------------------------------------------
(* Liveness                                                                *)

\* The clock runs; a dispatcher goes on with a task it started, the database
\* thread runs every query it was handed; the dispatcher's queue is first in first
\* out, so a beat that is due, its reply, and a login that is tried again and
\* again all get their turn.
Fairness ==
    /\ WF_vars(Tick)
    /\ \A w \in Worlds :
         /\ WF_vars(Continue(w)) /\ WF_vars(ReadAge(w))
         /\ \A a \in Accounts, t \in Tokens : WF_vars(RunRelease(w, a, t))
         /\ SF_vars(Beat(w)) /\ SF_vars(FinishBeat(w))
         /\ \A a \in Accounts : SF_vars(Login(w, a))

FairSpec == Spec /\ Fairness

\* A player whose claim was taken over does not stay in game for ever.
LostPlayersLeave ==
    \A w \in Worlds, a \in Accounts, t \in Tokens : Lost(w, a, t) ~> ~Relies(w, a, t)

\* "A crashed world must not lock its players out forever": as long as another
\* world stays up and the player keeps trying there, the claim is taken over,
\* unless the crashed world is started again and clears it.
CrashedWorldsLetGo ==
    \A v, w \in Worlds, a \in Accounts :
        /\ row[a].world = w /\ pc[w] = "down"
        /\ Running(v) /\ v \notin Crashable \cup Stoppable
        ~> row[a].world # w \/ pc[w] # "down"
=============================================================================
