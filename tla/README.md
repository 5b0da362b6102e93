# ArkOT: a TLA+ model of the server's concurrent core

ArkOT is a game server of the Open Tibia family, extended so that several worlds, each a
process of its own, share one set of accounts in one database. This directory models the parts
of it in which several actors act on shared state, checks the models with TLC, and proves their
central invariants with TLAPS.

## 1. Inventory

One process serves one world. Inside a process all game logic runs on one thread, the
*dispatcher* (`src/src/tasks.cpp`): network threads, the scheduler and the database thread hand it
closures. Several processes meet only in the database.

| Component | State | Operations | Interacts by |
|---|---|---|---|
| Presence (`presence.cpp`, `presence.h`) | tables `account_presence`, `world_presence`; per world `last_beat`, `beat_in_flight`, `follow_up_reconcile`, `stall_pending`, `retiring`, `retired`; per player a claim | `Start`, `Claim`, `Release`, `QueueRelease`, `Beat`, `FinishBeat`, `Reconcile`, `BeginRetire`, `Retire` | SQL statements of several worlds; an age read on the database thread whose reply is posted to the dispatcher |
| Login, logout (`protocolgame.cpp`, `player.cpp`) | player map, waiting list | `login`, `clientLogin`, `logout`, `onRemoveCreature`, `kickPlayer` | calls presence, bans, save |
| Game state, shutdown (`game.cpp`) | `gameState` | `setGameState`, `saveGameState`, `shutdown` | stops every thread, retires presence |
| Dispatcher, scheduler, database tasks (`tasks.cpp`, `scheduler.cpp`, `databasetasks.cpp`) | three threads with a state each, two task queues, timers | `addTask`, `flush`, `shutdown`, `addEvent`, `stopEvent` | post tasks to one another |
| Bans, store coins (`ban.cpp`, `store.cpp`) | the account tables all worlds share, and each player's copy of its balance | retire an expired ban; load, spend, grant, transfer and refund coins by guarded deltas | SQL of several worlds; the login asks for a ban and loads the coins |
| Waiting list (`protocolgame.cpp`) | `waitList`, `priorityEnd` | `clientLogin`, the clean-up of entries | called by `login`; clients come back when they like |
| Market (`iomarket.cpp`, `game.cpp`) | offers, history, money, inboxes | create, cancel, accept, expire | database tasks, offline players |
| Trade (`game.cpp`, `player.cpp`, `house.cpp`, `item.cpp`) | trade state, partner and item of each player, `tradeItems`, the transfer documents of houses | request, accept, close, and the callbacks that end a trade | every move of an item or a player calls back into it |
| Party (`party.cpp`) | leader, members, invitations; on each player its party and invitations | invite, join, revoke, pass leadership, leave, disband | calls that call one another; a logout leaves everything |
| Guild, house, chat | membership | join, leave, invite | one thread |
| Connections (`connection.cpp`, `outputmessage.cpp`) | read and write queues, timeouts | asynchronous handlers | network threads and dispatcher |
| Everything else (map, items, creatures, combat, Lua bindings, progression systems) | see PROJECT.json | | one thread |

What is hard: two worlds and the clock interleave between any two statements of a login; a
statement whose answer is lost is sent again for as long as it takes; a world may stall for
minutes and come back with verdicts others have acted on; replies cross threads and are handled
when the world has moved on; queues are drained by two threads at once; shutdown stops all of
this in the middle. Each such place is listed with its line under `hazards` in PROJECT.json.

What makes each component correct:

* *Presence*: an account is online on one world; a claim is taken only from a world that is
  expired; a world that lost a claim finds out and removes the player; nobody is removed who did
  not lose a claim; no claim stays without an owner; a crashed world lets its players go.
* *Task threads*: what was accepted runs exactly once; nothing sleeps while there is work;
  everything ends at shutdown.
* *Bans*: an expired ban is retired once, by whichever world; none vanishes; no newer one is deleted.
* *Coins*: a balance is what its history says; transfers neither make nor destroy coins; a world's copy of a
  balance is off by no more than what other worlds took.
* *Trade*: trading is mutual; what is offered does not change; a trade hands nothing over for nothing.
* *Party*: players and parties agree on who belongs to what, through every chain of calls.
* *Waiting list*: who is let in left room for those ahead; who keeps asking gets in.
* *Market*: what is moved is neither lost nor doubled.

## 2. Plan

1. **Presence** with its abstract specification, invariant and proofs (done).
2. **Task threads and shutdown**: a module for each thread and one for their composition with the
   shutdown script and Lua's timer events, with invariants and proofs (done). Left: the
   start that fails, the utility thread, and an abstract queue that is executed exactly once, as a
   specification to refine.
3. **Account tables shared by the worlds**: bans retired once, coins moved by guarded deltas,
   under statements that fail and statements that run twice (done, with proofs).
4. **Trade** and **party**, composed in what a logout does to both (done, with proofs).
5. **Waiting list** (done, with proofs).
6. **Market**, **connections**, the bounded creature cache: see section 8.
7. Theorems: every invariant and every action property that a passing run checks is proved; the
   liveness properties are left to TLC. New modules come with their proofs.

Eight modules hold theorems. Seven belong to a component and are described with it; the eighth,
`DataLemmas`, has what they share: induction, sequences without duplicates, and `FoldSet`. The
theorem that a fact holds for all finite sets or all naturals cannot take the fact as a parameter
here, so a lemma takes the *set* of those arguments that have it: a collection of subsets of a finite
set has a smallest one (`SmallestSet`), a set of naturals has a smallest number (`SmallestNumber`), and a
proof by induction asks what the smallest counterexample would be. A recursive function in a
`LET` is a choice, of which something is known only once a function that satisfies its equation is
shown to exist: `RecursionExists` does that for recursion over the naturals, `FoldExists` for `FoldSet`.

The theorems are about `Spec`. The specifications with fairness that some runs check are `Spec` and
more, so what is proved holds of them as well.

## 3. Presence

### Modules

| Module | Role |
|---|---|
| `AccountLock` | what the tables promise: an account is taken from its owner only while the owner is suspected |
| `Presence` | the worlds, the two tables, the clock; all properties |
| `PresenceInv` | the inductive invariants `IInv` and `OwnersInv` |
| `PresenceProofs` | the theorems: lost claims, that `Presence` is a lock, the owners of rows, kicks and retired worlds |
| `MCPresence` | the state constraint `PromptWorlds` used by some configurations |

### State and code

| Variable | Code |
|---|---|
| `row[a]` | the row of account `a` in `account_presence`: `world_id`, `claim_token`; the other columns are only shown to users |
| `beat[w]` | `UNIX_TIMESTAMP() - beat_at` of `world_presence`, `Missing` when there is no row; it stops at `Lease + 1`, from where every comparison gives the same answer |
| `pc[w]` | where the dispatcher of `w` is: between tasks (`idle`), in one of the statements of `Claim`, between claim and placement (`admit`), in a resent upsert (`beating`), in `Reconcile` or its kick loop, in the shutdown (`retiring`, `retireBeat`, `closing`); `retiring` and `retired` of the code are these phases |
| `players[w]`, `token[w]` | the player map, and `Player::presence_claim` of each player |
| `releases[w]` | releases queued on `g_databaseTasks` |
| `login[w]` | the locals of `Claim` and `login`: account, token, attempt, the holder's token |
| `since[w]` | steady time since `last_beat`; it stops at the threshold of `IsStall` |
| `flight[w]` | `beat_in_flight`, and whether its age read has replied |
| `measured[w]` | what `IsStall` will add up: time since `readAt`, and `databaseAge` once replied |
| `drift[w]` | how far the database's clock jumped since `readAt`; an auxiliary variable |
| `followUp`, `stallPending` | the fields of the same names |
| `victims[w]` | the local vector of `Reconcile` |
| `faults` | a counter that bounds how many queries fail; auxiliary |

Every SQL statement is one action, and so is every stretch of code between two statements.
`Claim` is `Login`, `Insert`, `Lookup`, `Takeover`; `FinishBeat` is one action for the upsert and
the plan, then `Reconcile`, then one `Kick` per victim and `Reconciled`. `Beat` fires whenever the
dispatcher is idle: how the timer re-arms is left out, which only adds behaviours. A query has
three outcomes: it is answered (`Answered`); it fails (`Faulty`), with or without an effect where the
code treats the two alike; its answer is lost and `executeQuery` sends it again, which for a write
is the effect without a change of `pc`. The dispatcher cannot do anything else meanwhile, but every
other thread, world and the clock can.

`Tick` lets one unit of time pass for all clocks at once. `ClockStep` lets the database's clock jump
ahead of the steady clocks, by at most `MaxDrift` within one check: that is the tolerance
`presence.h:153-161` argues for, and `TimeAssumption` demands `MaxDrift <= BeatInterval`.

Abstractions: tokens are drawn fresh (`NewToken` is 64 random bits; the model never repeats one
that something still carries, and compares tokens only for equality); `releases` is a set, because
token-guarded deletions commute; the character, its data and its save are left out; an account has
one character, so "already logged in" and "account already online" coincide; the clock never steps
back; `claimed_at` is left out, so a takeover of a row that has this login's token already would change
nothing (as it does within the same second), which only `ClassifyWithoutToken`, the mutant, tries.

### Runs

| Run | Instance | Properties | What it shows |
|---|---|---|---|
| `stall` | 2 worlds, 1 account, clock jumps, unlimited stalls | `IInv`, `ClaimsOutliveRivals`, `LockSpec` | lost claims are lost to an expired heartbeat and are found; the refinement |
| `lifecycle` | 2 worlds, 2 accounts (one exempt), one world crashes, restarts, shuts down; one fault | `CaughtLostClaims`, `NoOrphans`, `RetiredStaysSilent`, `KicksOnlyTheLost`, `LandedClaimsAdmit` | failed beats and reads carry what they saw; rows keep an owner; late replies are dropped; only losers are kicked; a login knows its own claim when the answer to it was lost |
| `live` | 2 worlds, 1 account, one world crashes and stalls; `FairSpec` | `LostPlayersLeave`, `CrashedWorldsLetGo` | the promises with "eventually" in them |
| `late_login` | one world shuts down | `OneSession` (violated) | see findings |
| `lost_answer` | one fault | `RefusedLoginsFree` (violated) | see findings |

Bounds. Two worlds are one that loses a claim and one that takes it; a third only adds another
taker. One account suffices for everything that concerns a single row; the second account of
`lifecycle` lets a login and a player of the same world meet. Two tokens are the old claim and the
new one. `Lease = 3`, `BeatInterval = 1` is the smallest pair for which `Lease - BeatInterval` differs
from both and from `Lease + 1`. `ClaimAttempts` is the code's 3 where a takeover must lose twice
(`lost_answer`), 2 or 1 where the number of rounds does not matter. One fault is a
failed beat, a failed read, or a lost answer, anywhere; `CaughtLostClaims` is proved for any
number of them. The types are the first conjunct of `IInv`. `NoOrphans` is claimed for runs without faults: `lost_answer` is why.

`PromptWorlds` (in `lifecycle`, `live`) is a state constraint, not part of the
specification: it keeps one of the two worlds punctual, so that the other one alone stalls. `stall`
does without it, and `IInv` and the theorems hold without it. In `live`, the constraint cuts off
behaviours in which the punctual world is late; those are not checked for liveness.

Fairness (`Fairness`). Time passes. A dispatcher that is in the middle of a task goes on with it and
the database thread runs what it was handed (weak fairness of `Continue`, `ReadAge`, `RunRelease`). The
dispatcher's list is first in first out, so a beat, its reply and a login that is tried again and
again get their turn although other tasks keep coming: strong fairness of `Beat`, `FinishBeat`
and `Login`, which are disabled while another task runs.

### Findings

* **`late_login`.** `docs/multiworld.md:21` promises one player per account in the whole deployment.
  Login tasks behind the shutdown task in the dispatcher's list still run. `login` checks for
  `CLOSING` and `CLOSED`, not for `SHUTDOWN`; after `Retire`, `IsEnabled()` is false, and the player is
  placed without a claim, while any other world may claim the account.
* **`lost_answer`.** `presence.h:28` and `presence.cpp:240` promise that a login that returns early frees
  the account, and that a resent write is recognised. When the answer to the takeover of the *last*
  attempt is lost, the resent statement changes no row, no lookup follows, and the refused login
  leaves its row. It stays until the account logs in on the same world again, or the world restarts.

### Proofs

`PresenceProofs` proves, for all sets of worlds, accounts and tokens and all constants that satisfy
the three named assumptions of `Presence`:

* `Invariance`: `Spec => []IInv`. `CaughtLostClaims` alone is not inductive. It needs to know that a
  token names one claim for its whole life (`TokensNameOneClaim`) and has one carrier (`OneCarrier`),
  so that a release or a takeover cannot hit a claim it was not meant for; that logins are of
  accounts not in game (`LoginsAreLocal`, `ClaimsNeedPlayers`); that running worlds have a heartbeat
  row (`HeartbeatKept`); and the argument of `presence.h:138-161` as a formula, `MeasureCoversAge`: what a
  beat in flight measures, plus the jumps of the database's clock, is at least the age other worlds
  have seen. With `MaxDrift <= BeatInterval` this makes `measured >= Lease - BeatInterval` whenever the
  heartbeat was expired, so the beat is taken for a stall.
* `TypeCorrectness` and `LostClaimsAreCaught` are parts of it.
* `ClaimsAreNotStolen`: `[][TakenOnlyIfExpired]_vars`, from `IInv` and `Next`.
* `PresenceIsALock`: every step of `Presence` is a step of `AccountLock` or a stutter.

The proof of the step goes action by action; for each action first the typing, then each named part
of the invariant that it can disturb.

Its second half adds, under the same assumptions and on top of `IInv`:

* `RowsKeepOwners`: `Spec => []NoOrphans`. A row gets its owner from the login that wrote it, and each
  owner hands it on: the login to the player or to the queue of releases, both to an answered
  `DELETE`. The step that fails without more is the refusal of a login that still has its row. `OwnersInv`
  therefore adds `ClaimsAreWonOnce` (without lost answers a login in the claim loop has no row yet) and
  `StartsClear` (a starting world has no rows, so going up leaves none behind).
* `OnlyLosersAreKicked`: from `VictimsLost`, the third addition: whom the kick loop has still to kick
  holds a claim and has lost its row. It is stable because only a login writes rows, and a dispatcher
  in the kick loop is in no login.
* `TheRetiredAreSilent`: from the types alone, action by action.
* `LandedClaimsGetIn`: `LandedClaimsAdmit`, for any number of lost answers. It needs `RivalsOnly`, that a login
  is never about to take over its own claim: what was looked up as a rival's has another token, and a login in
  `takeover` whose own row stands has thus won it by a statement whose answer was lost. That one statement is
  not looked at again when it was the last attempt, which is `lost_answer`, and the property's exception.

Only model-checked: liveness, which is out of the prover's reach.

## 4. Task threads and shutdown

### Modules

| Module | Role |
|---|---|
| `Dispatcher` | `tasks.cpp`: the list of tasks, the batch that was swapped out, the wait, the terminator |
| `DatabaseTasks` | `databasetasks.cpp`: the queue of queries, drained by its thread and by `flush` |
| `Scheduler` | `scheduler.cpp`: the handlers of its `io_context`, the timers |
| `TaskThreads` | the three together, the tasks they hand to one another, `setGameState(SHUTDOWN)`, `Game::shutdown`, Lua's timer events; all properties |
| `TaskThreadsInv` | the inductive invariants |
| `TaskThreadsProofs` | the theorems |
| `MCTaskThreads` | the instances for TLC |

### State and code

| Variable | Code |
|---|---|
| `dispatcherState`, `databaseState`, `schedulerState` | `ThreadHolder::threadState` of each thread |
| `taskList`, `batch` | `taskList` and `tmpTaskList`; the head of the batch may be running |
| `dispatcherPc`, `databasePc` | where `threadMain` is; `databasePc = "take"` is the gap between reading the state and taking the lock |
| `dispatcherWoken`, `databaseWoken` | a notification that reached a thread in `wait` and was not acted on yet |
| `body` | the calls the running task has still to make, each of which takes a lock or stores a state |
| `tasks`, `held`, `executed` | the deque of queries, the local `task` of `threadMain` and of `flush`, the queries that ran |
| `accepted` | the queries `addTask` took, in order; auxiliary |
| `handlers`, `timers`, `schedulerEnded` | the queue of the `io_context`, `eventIdTimerMap`, whether `run` returned |
| `timerEvents`, `luaOpen` | the map of that name, and whether `luaState` is set |
| `posted`, `stopped`, `called`, `replied` | auxiliary: a bound, and what happened to events and callbacks |

What the code does under one lock is one action. `addTask` and its `notify_one`, which comes after the
unlock, are one action too: a condition variable may wake up by itself (`Wake`, `WakeDatabase`), and all that
a notification in between could add is such a wake-up. A task is a sequence of calls; only the saving
and the shutdown have calls that other threads can see in between, so every other task is one step.
A post is any task of the network, of a signal or of the heartbeat; what it does is chosen when it
runs. Callbacks and timer functions are scripts and could do the same; posts stand in for them.
A task that has expired is a `Skip`. A timer that is due queues a handler and cannot be
cancelled any more (`Due`), as with `steady_timer::cancel`.

Abstractions: queries have no result and do not fail; a query and an event is handed over once, so that
"run once" can be said; the kick loop and the saves of the shutdown are left out, as they only hand
over queries, which `Query` before the shutdown does as well; only the dispatcher hands over queries,
which is so in the code (`presence.cpp`, `iomarket.cpp`, `ban.cpp`, `luascript.cpp` call `addTask` from tasks).

### Runs

| Run | Instance | Properties | What it shows |
|---|---|---|---|
| `threads` | 2 queries, one with a callback, 1 event, 5 posts; `FairSpec` | `TypeOK`, `NobodySleepsOverWork`, `QueriesStartInOrder`, `NothingLeftBehind`, `StoppedTimersStaySilent`, `AcceptedQueriesRun`, `AnswersComeBack`, `ShutdownEnds` | no missed wake-up, order, nothing left, orderly end |
| `hang` | the same with 2 posts | `DatabaseThreadJoins` (violated) | see findings |
| `late_task` | the same with 2 posts | `NothingRunsAfterLua` (violated) | see findings |

Bounds. Five posts are two queries, an event added and stopped, and a shutdown, or with saves instead:
every pair of the operations meets. Two queries are what two threads that drain one queue can
confuse. Deadlock is not checked: the threads end, or sleep when no more tasks come.

Fairness. A thread that can run does, but a thread in `wait` need not wake up unless it was notified:
the conjunct `dispatcherPc = "wait" => dispatcherWoken` is what makes a lost notification visible. The time
of a timer comes. Nothing makes the network post a task.

### Findings

* **`hang`.** `DatabaseTasks::threadMain` reads its state without the lock (`databasetasks.cpp:20`), then locks
  and waits if the queue is empty. If `shutdown` sets the state, flushes and notifies in
  between, the thread waits with nobody left to notify it, and `main` (`otserv.cpp:680`) and the console handler
  ("we block until all threads have joined", `signals.cpp:112-115`) wait for it for ever.
* **`late_task`.** `game.cpp:7062`: "The dispatchers are already stopped above, so no script can be
  running". The shutdown task is added at line 206 and the dispatcher stops taking tasks at
  line 211; what other threads hand over in between is run after `closeState`.

### Proofs

For all sets of queries and events and any number of posts:

* `TypeCorrect`: `TypeOK` is inductive; it says more than types: the dispatcher is inside a task exactly
  while it has a batch, the database thread runs a query exactly while it holds one.
* `NobodyOversleeps`: `NobodySleepsOverWork` is inductive together with `TypeOK`.
* `StoppedIsSilent` needs `TimersKnown`: what Lua still knows was neither stopped nor called.
* `QueriesInOrder` needs `EachQueryOnce`: no query was accepted twice, and only taken ones were run.
* `ShutdownLeavesNothing` needs `ShutdownInv`, about `Pending == batch \o taskList`: the calls of a
  running task fit the states of the threads; there is one shutdown task, because the game state changes to
  `shutdown` once; so there is one terminator, it is pushed when `addTask` refuses everything else, and it is
  the last pending task; by then the database thread is terminated and its queue was flushed, and stays empty.

`TaskThreadsInv` holds the strengthenings; TLC agrees with each of them on the instance of `threads`.
Only model-checked: `AcceptedQueriesRun`, `AnswersComeBack`, `ShutdownEnds` (liveness).

## 5. Trade and party

### Modules

| Module | Role |
|---|---|
| `Online` | the players in game, which both parts ask for before they do anything |
| `Trade` | trades, houses that change hands by their transfer documents, and every callback that ends a trade |
| `Party` | parties, invitations and leadership |
| `Society` | the two together: login, and the removal of a player, which leaves both |
| `SocietyProofs` | the theorems about trades |
| `PartyProofs` | the theorems about parties, and about what a logout leaves |
| `MCSociety` | the instance for TLC |

### State and code

| Variable | Code |
|---|---|
| `online` | the players `getPlayerByID` finds |
| `tradeState`, `tradePartner`, `tradeItem` | the fields of `Player`; `TRADE_TRANSFER` begins and ends inside `playerAcceptTrade` and does not show |
| `tradeItems` | `Game::tradeItems`, from an offered item to the player that offers it |
| `place[i]` | where an item is as far as trades look at it: with a player (a slot, or its own backpack), in a bag, on the ground (a tile, or furniture on it) |
| `openContainers[p]` | `Player::openContainers`: the bags `p` has a window on, wherever they are by now |
| `borrowed` | auxiliary: who offers a thing that lay in another player's bag when it was offered |
| `owner[h]`, `transferItem[h]` | `House::owner`; whether `House::transferItem` is set. A house stands for its document wherever a good is offered |
| `parties` | for each party number the fields of `Party`, for each player `party` and `invitePartyList` |

The dispatcher runs each request to its end, so each is one action: what is hard here is not
interleaving but what a request leaves behind for the next. `EndTrades(S)` is `internalCloseTrade` for
the players of `S`: fields, registry and documents. `MoveItem` is a move with
`checkTradeState`, `onUpdateInventoryItem`, `onRemoveContainerItem` and their kin: `Disturbed` says whose
trade they end. `AcceptTrade` has three outcomes where the second side accepts: the first acceptance is
recorded, the exchange fails (no room, no line of sight, a veto of `onTradeAccept`, nothing
offered yet) and the trade ends, or it succeeds. In `Exchange` the result of the *second* move is ignored as
in `game.cpp:4158`: a stackable item that finds no slot of its own stays where it is although the other
one has moved.

What a player can lay hands on (`Reaches`) is what `resolveItem` finds: its slots, a tile, and whatever
lies in a container it has a window on. Nobody asks who carries that container. A window is opened on a
bag of one's own or on the ground (`UseContainer`), or at the login, and it may stay open when the bag
changes hands: `notifyItemRemoved` closes it for the player who is told, unless the bag is now that
player's own or lies in a container, *anybody's* backpack included, within reach (`player.cpp:4006`).
Players who are not told, and there are such when a bag leaves a backpack, keep their windows. So a
player can take things out of a bag that another one carries by now, put things into it, and offer them
in a trade. `WindowsFollow` leaves open which windows close, and the properties below say what holds all
the same.

The calls of `party.cpp` end in one another (an invitation is withdrawn, the party is empty, it
disbands, which withdraws the others). Each call is an operator from a state of all parties to the next,
and a request composes them in the code's order: `LeaveParty` after `ClearInvitations` in
`LeaveSociety`, which is `onRemoveCreature`.

Left out: bags in bags and stacks that are split (an item has one place); distances, as if all players
stood together, which adds behaviours; a swap of two items is two moves; bags that a saved character
comes back with are the same bags, and who has a window on them or offers something out of them while
they are away keeps doing so; the swap of two worn backpacks (`game.cpp:4139`); scripts as anything but
a veto; "you are in a fight" for leaving a party; shared experience, which nothing here depends on. The
index entry of a disbanded party is reused in the model, which the code never does; nobody holds its
number any more.

### Runs

| Run | Instance | Properties | What it shows |
|---|---|---|---|
| `society` | 3 players, 3 items (a bag, a stackable one), 1 house, 2 parties of at most 2 beside the leader, one invitation each; 171 thousand states | `TypeOK`, `PartnersAgree`, `OffersRegistered`, `DocumentsAreOffered`, `OffersStayPut`, `NothingForNothing`, `AbsentLeaveNoTrace`, `MembershipAgrees`, `InvitationsAgree`, `NobodyIsAlone`, `JoinsByInvitation` | nothing is offered twice or changed behind a partner's back, whoever looks into whose bag; no dangling partner, party or invitation |
| `house_trade` | 3 players, 2 items, 1 house, no party | `HouseTradedByOwner` (violated) | see findings |

`OffersStayPut` promises that what an open trade offers keeps its place and its contents, unless it was
offered out of somebody else's bag. The carrier may then have walked off with the bag, and what happens
in a bag is told only to those nearby, so the player who offers is out of earshot (`afar` in `MoveItem`)
and the trade goes on. That nobody puts another *good* in its place holds there as well.
`NothingForNothing` promises that an item goes from one player's hands into another's only in two ways:
in a trade, against what was offered; or by hand, through a window that the player who moves it has open
on the bag it comes from or goes to.

Bounds. A trade has two sides, and a third player is whom one of them could be trading with as well,
or who carries an item or a bag away. The three items are an offered bag, what is in it, and what is
offered against it, one of them stackable. Two parties are one to be in and one to be invited to;
two members beside the leader are one who becomes leader and one who stays; `MaxInvites = 1` makes
the limit of invitations bind (three players cannot pass the limit of members, which is proved).
Trades and parties meet in `Logout` alone, and their product is large, so the state constraint
`PartiesOrGoods` lets items, windows and houses move about only while no party exists; while one
does, players may still trade what they were given at first, and log out in the middle of it. That
the two parts do not disturb each other otherwise is what the proofs show, which know no such
constraint. Players, parties and houses are symmetric: no definition names one of them.

### Finding

* **`house_trade`.** `tools.cpp:1244` answers whoever starts a trade of a house that is not theirs "You don't own this
  house.", and the document is meant to be the owner's. `House::executeTransfer` asks only whether the
  document is the house's (`house.cpp:347`). Whoever offers the house, gives it up with `!leavehouse` and then
  lets the trade be accepted hands over a house that belongs to nobody, or to somebody who
  bought it in between.

### Proofs

For all sets of players, goods, containers and houses, and for whatever parties do meanwhile:

* `TradeInvariant`: `Spec => []TradeInv`, from which `TradesAreMutual`, `OffersAreRegistered` and
  `DocumentsDoNotLinger` follow. The named properties support one another (that ending the trades of
  `WithPartners(S)` leaves no half of a trade needs `PartnersAgree`; that the registry stays exact needs that
  no good is offered twice). Two conjuncts are added: `OffersInReach`, who has not borrowed what it offers carries it
  or finds it on the ground, and nobody borrows a bag; and `FlatContainers`. Without the first, `borrowed` would
  not name all those whose item is with somebody else; without the second, a bag's carrier would not be where its
  contents go. Both hold whatever windows are open, about which the invariant says nothing but their type.
* `OffersDoNotChange` and `GoodsArePaidFor` are action properties. The argument of the second: outside an
  exchange an item moves where the player who moves it carries things, has a window or puts them down
  (`MovesThroughWindows`); in an
  exchange, `ExchangeCarriers` says where every item goes that is offered or in an offered bag.

`PartyProofs`, for all sets of players and parties, all limits and whatever trades do meanwhile:

* `PartyInvariant`: `Spec => []PartyInv`, which is the typing, the limits and the three invariants
  `MembershipAgrees`, `InvitationsAgree`, `NobodyIsAlone` (`MembersAreKnown`, `InvitationsAreKnown`,
  `LonePartiesDisband`), with two additions: a party without a leader has no members, and lists of
  invitations are finite. None of the three is inductive alone. A call of `party.cpp` passes through
  states in which a party *is* alone, on the way to `disband`; the lemmas about calls are therefore about a
  state that is good "but that party k may be alone", and `DisbandedIfEmpty` is what mends it.
* A request is a composition of calls, so the lemmas (`InviteRemoved`, `MemberErased`, `LeadershipPassed`,
  `PartyLeft`) are about operators from any good state to the next, not about steps. `InvitationsCleared` is
  the loop over a player's invitations, each of which may disband a party: were the state after it not
  good, there would be a smallest set of invitations for which it is not, and one invitation less.
* `NobodyIntrudes`: `JoinsByInvitation`. All calls but two only shrink parties and lists (`ShrinksOn`).
* `SocietyTypeCorrect`: `TypeOK` of both parts.
* `AbsentAreForgotten`: `AbsentLeaveNoTrace`. Of trades it follows from what `TradeInv` says of who trades. Of
  parties it needs that only players in game have a party or invitations (`PartiesPresent`), and then the
  agreement of both sides: what the player does not know of, no party has.

Nothing here is only model-checked.

## 6. Account tables

### Modules

| Module | Role |
|---|---|
| `AccountTables` | the outcomes of a statement, and the bounds that `Bans` and `Coins` share |
| `Bans` | bans: issued, lifted, found expired, retired |
| `Coins` | store coins: sessions, purchases, grants, transfers, refunds |
| `AccountWorlds` | the two together; a banned account is admitted only where its ban could not be read; the crash of a world |
| `AccountProofs` | the theorems about bans |
| `CoinProofs` | the theorems about coins, with lemmas about sums of amounts |
| `MCAccountWorlds` | the instance for TLC |

### State and code

| Variable | Code |
|---|---|
| `bans[a]` | the row of `account_bans`; a ban stands for its `banned_at` and `expires_at`, by which the DELETE knows it |
| `issued`, `expired`, `lifted` | auxiliary: what happened to each ban; `expired` is the comparison with `time(nullptr)` |
| `history[b]` | how many rows of `account_ban_history` a ban has |
| `found[w]`, `removed[w]` | the locals of `isAccountBanned` and `sweepExpiredAccountBans`: read and not deleted yet; deleted, with its history row due |
| `row[a]` | `coins` and `coins_transferable` of `accounts` |
| `ledger[a]` | the sum of the account's rows in `store_history`, in the two columns the amounts were taken from |
| `cache[w][a]` | `Player::coins` and `transferable_coins` of a player in game |
| `op[w]` | where the dispatcher is in an operation on coins, with its locals |
| `spentElsewhere[w][a]` | auxiliary: what other worlds took from the row since this world last read it into its copy |
| `outside`, `losses`, `faults`, `requests` | auxiliary: the part of all ledgers that no transfer made; the bounds |

Each statement is an action, and between two of them every other world can act: that is the concurrency
the guards in `ban.cpp:87` and `store.cpp:77` are for. A statement is answered (`Answered`), fails and
its caller is told (`Fault`), or has its answer lost and runs a second time, of which alone the caller
hears (`Loss`; also a failure that is only logged). `losses` counts the faults no caller can make good:
the properties allow each of them one amount or one row, and nothing else. `Crash` is the death of a
world between two statements and its restart: it forgets the operation and all copies, the tables keep
what was done, and it counts as a loss, for nobody finishes the operation. A world that dies between
operations is one whose players leave.

An account may be in game in both worlds, and each then has its own copy of the balance. The code allows
it in several ways: a claim is taken over while the stalled world's player still plays
(`presence.cpp:294-326`, `docs/multiworld.md:150-157`), a late login finds presence retired
(`late_login` in section 3), and accounts that are exempt, `ALLOW_CLONES` or a missing
`ONE_PLAYER_ON_ACCOUNT` do without claims (`protocolgame.cpp:299-303`). The model therefore asks for no
claim at all, which covers them all. `CacheFollowsRow` says how far a copy may be off: it exceeds the
row by no more than what *other* worlds have taken from it since it was read (`spentElsewhere`). That is
the case the comment at `store.cpp:574` is about, a cache that outran the database, and the property
says that nothing else leads to it: not a purchase or refund of this world, a gift, a read back that
failed, or a deposit by somebody else.

Within one world the model gives an account one copy. Where clones are allowed, a second character in
the same world is like one in a second world whose dispatcher never acts between two statements of the
first, except that a gift refreshes the character it names at once. The login's check of the ban and its
read of the coins are two statements of the code and one step here: no property depends on what comes
between.

Left out: the ceilings of `uint32_t` in the guards; items of the store (`Deliver` only says whether all
arrived); IP bans and namelocks, which are read only; whether `/unban` meant the ban it finds.

### Run

| Run | Instance | Properties | What it shows |
|---|---|---|---|
| `accounts` | 2 worlds, 2 accounts, 2 bans, 2 requests, 2 faults, coins 1 and 1, amounts 1 and 2; 1.5 million states | `TypeOK`, `RetiredOnce`, `NoBanVanishes`, `StandingBansStay`, `RowMatchesHistory`, `TransfersConserve`, `CacheFollowsRow` | the guards do what they are there for, and what a lost answer or a crash can cost |

Bounds. Two requests are two transfers at once, two purchases with one balance, a purchase against a
gift from another world, or a ban issued again while a world has still to delete the old one. Two faults
are a credit that fails and a refund that fails as well, or a crash after a failed read. An amount of 2
needs both kinds of coins and 1 does not. Requests are bounded, so the instance comes to rest, and
deadlock is not checked. Worlds, accounts and bans are symmetric.

### Proofs

For any number of worlds, accounts and bans, and whatever coins do meanwhile:

* `BansInvariant`: `Spec => []BansInv`. `RetiredOnce` and `NoBanVanishes` are inductive only together with
  `FoundExpired` (a world sets out to delete expired bans only) and `OneAccountEach` (a ban stands for one
  account, so that the DELETE that removes it leaves it standing nowhere). The core is
  `StandingIsUntouched`: while a ban stands, no world has removed it and it has no history; hence the one DELETE
  that hits makes one world, and no other, owe the row.
* `BansAreRetiredOnce`, `NoBanIsLost` are parts of it. `StandingBansAreKept` is the action property that follows from
  `FoundExpired` and the guard on both times.

`CoinProofs`, for any finite sets of worlds and accounts (the tables' rows are added up), any start
balance and any bound on amounts:

* `CoinsInvariant`: `Spec => []CoinsInv`. `RowMatchesHistory` and `TransfersConserve` need `OperationsOrderly`:
  what an operation under way does next, and whether it takes or gives, go together. Without it a
  refund could be refused by the guard of its `UPDATE`, and its amount would be in no history.
  `CacheFollowsRow` is not inductive: while a copy waits for its read back it already owes the
  amount, and while a gift waits to be shown the row already has it. `CopiesCovered` says what is true between
  the statements. It is about `Known`, the row with what others took from it given back, which a step of another world
  never lowers (`KnownStays`).
* `RowsMatchHistories`, `NoCoinsAreMade` and `CopiesFollowRows` are parts of it or follow from it;
  `TypeCorrect` is `TypeOK`, which also bounds the counters of both parts.
* The steps are shown by what they *move*: `DriftMoves` and `TransfersKept` reduce the two sums over all worlds
  and accounts to the terms of the one world and one or two accounts of the step (`SumShifts`). That `SumOf`
  adds at all is `SumExists` and `UnfoldsIsUnique`: `FoldSet` picks the elements in an order that
  nobody knows, a function that adds exists whatever the order, and only one function unfolds so.
* Both kinds of lost answers, and a crash, are steps of the proof like all others: a loss moves a drift by at most
  one amount (`HistoryKept`), and the other two properties are claimed for runs without one.

## 7. Waiting list

`WaitingList` is the list of `protocolgame.cpp:93-194` and the part of `login` that asks it. A login is
one task of the dispatcher, so each of its outcomes is one action: `WalkIn`, `Admit`, `WaitOn`,
`QueueUp`, `QueueByPriority`; an entry times out, or a player leaves. `waitList` holds the players in
order, `stale` those whose entry has timed out and will be erased by the next call. `priorityEnd` is an
iterator into a `std::deque` that survives the calls. Every erase and every `emplace_back` invalidates
it, and the next premium login inserts with it all the same: that is undefined, and the model lets the
insertion go anywhere (0 stands for an invalid iterator). What this can do is bounded by the properties:
the list stays a list, and only premium players profit.

| Run | Instance | Properties | What it shows |
|---|---|---|---|
| `waiting` | a limit of 2; three regular players, one of them patient, two premium, one of the staff; `FairSpec` | `TypeOK`, `EntersInTurn`, `PlacesKept`, `PatientGetIn` | nobody is overtaken but by those who may; who keeps asking gets in |

`EntersInTurn` has an exception. `clientLogin` returns `std::distance(begin, priorityEnd)` after the
insertion, which is one less than the place: for the first entry it is 0, which `login` takes for "there
is room". A premium player whose entry comes first is therefore let in beyond the limit of players, and
its entry stays on the list until it times out, although `protocolgame.cpp:333` says that "admission
takes the player off it".

Bounds. With a limit of 2 and six players, four can wait at a time, which is more than there are
kinds of players. Fairness: a patient client tries again (that is what it was told to do), an entry nobody asks
for times out, and nobody plays for ever. `PatientGetIn` assumes that from some time on no staff and no premium
player comes: they may overtake for as long as they like.

`WaitingProofs`, for all sets of players, premium players and staff, and every limit:

* `WaitInvariant`: `Spec => []WaitInv`, which is `TypeOK` (`WaitingTypeCorrect`) and that finitely many play at a
  time. That nobody is on the list twice is what makes places unique.
* `WhatIsKept` is the loop of `clientLogin` that erases entries (`Purged`), by induction on how far it has
  come: what is left has those who have not timed out, once each and in their order.
* `NobodyIsOvertaken`: `EntersInTurn`. All those ahead of `p` have smaller places than `p` on the list that is
  left, so they are fewer than the `slot` that the code adds to the number of players (`FewAhead`).
* `NobodyLosesItsPlace`: `PlacesKept`. A removal, an append and an insertion *anywhere* keep the order of
  those who were there, and only the insertion puts anybody ahead of them, who is premium; so the undefined iterator
  does no harm to it.

Only model-checked: `PatientGetIn` (liveness).

## 8. Not modelled

The share of the source that the models cover is small, because most of the 127,000 lines are game
rules, map structures and bindings that one thread runs in one piece. What follows is listed in
PROJECT.json too.

* **Market.** Offers, history and inboxes are rows of tables. Creating, cancelling and accepting an offer are
  each one task of the dispatcher with a dozen statements and no guard against the database; what could go wrong
  is a delivery that breaks off halfway (`game.cpp:7863`), and the expiry, which runs in two tasks: it pays back
  the amount that was read by the first, whatever was sold in between (`iomarket.cpp:110`). It is the next
  module worth writing.
* **Connections and output.** Asynchronous reads, writes and timers of one socket, with `boost::asio` as the
  scheduler. `TaskThreads` has what the dispatcher sees of them: posts.
* **Guild, house, chat** beyond trades: bookkeeping of one thread, with little state that two
  operations could disagree about.
* **Known creature cache and lock-free pool.** Small and self-contained; properties would be about array
  indices and memory orders.
* **Combat, conditions, spells, creatures, monsters, NPCs, raids, map, tiles, items, zones.** State far
  beyond what TLC can enumerate, sequential, with random outcomes.
* **Forge, prey, bestiary, wheel, quests.** Arithmetic over tables, sequential.
* **Lua scripting.** 25,000 lines of bindings; timer events and asynchronous queries are in `TaskThreads`.
* **Database connection, configuration, logging, metrics, formats.** I/O. Of the connection the models have what
  their callers can tell apart: answered, failed, run twice.
* **World registry and access.** Read once at the start, then constant.
