------------------------------- MODULE Coins -------------------------------
(***************************************************************************)
(* Store coins (store.cpp 53-176, 340-401, 440-490, 546-608): an account's *)
(* two balances in the row that all worlds share, and the copy every world *)
(* keeps of it for a player in game. Each operation is a chain of          *)
(* statements that may be refused, fail or run twice. An amount is a pair  *)
(* of what it adds to the regular and to the transferable coins.           *)
(* An account may be in game in any number of worlds: a claim that has     *)
(* expired is taken over while its holder still plays (presence.cpp 294),  *)
(* a login may find presence retired, and accounts that are exempt, or the *)
(* configuration, do without a claim. Within a world the model gives every *)
(* account one player, as getPlayerByAccount does for all but these last.  *)
(***************************************************************************)
EXTENDS AccountTables, Integers, FiniteSets, FiniteSetsExt

CONSTANTS
    StartCoins,     \* of either kind, on every account
    MaxAmount,      \* bound: the largest price, gift or transfer
    NoSession, NoAccount

ASSUME CoinsAssumption ==
    /\ NoAccount \notin Accounts
    /\ StartCoins \in Nat /\ MaxAmount \in Nat \ {0}

VARIABLES
    row,        \* accounts: coins and coins_transferable
    ledger,     \* store_history: the sum of an account's rows, each in the two
                \* columns it was taken from (a row itself names but one)
    outside,    \* the part of all ledgers that no transfer made
    cache,      \* Player::coins and transferable_coins, in each world
    op,         \* the operation a world's dispatcher is in
    spentElsewhere      \* history variable: what other worlds took from a row
                        \* since this world last read it into its copy

coinVars == <<row, ledger, outside, cache, op, spentElsewhere>>

Coins(r, t) == [regular |-> r, transferable |-> t]

None == Coins(0, 0)

Plus(x, y) == Coins(x.regular + y.regular, x.transferable + y.transferable)

Negated(x) == Coins(- x.regular, - x.transferable)

Covers(x, y) == x.regular >= y.regular /\ x.transferable >= y.transferable

Amounts == [regular : Int, transferable : Int]

Balances == [regular : Nat, transferable : Nat]

ASSUME SessionsAssumption == NoSession \notin Balances

Idle == [do |-> "idle", then |-> "end", account |-> NoAccount, to |-> NoAccount, delta |-> None]

Operations ==
    [do      : {"idle", "apply", "refresh", "deliver", "record", "credit", "gift"},
     then    : {"end", "deliver", "record", "send"},
     account : Accounts \cup {NoAccount},
     to      : Accounts \cup {NoAccount},
     delta   : Amounts]

CoinsTypeOK ==
    /\ row \in [Accounts -> Balances]
    /\ ledger \in [Accounts -> Amounts]
    /\ outside \in Amounts
    /\ cache \in [Worlds -> [Accounts -> Balances \cup {NoSession}]]
    /\ op \in [Worlds -> Operations]
    /\ spentElsewhere \in [Worlds -> [Accounts -> Balances]]

CoinsInit ==
    /\ row = [a \in Accounts |-> Coins(StartCoins, StartCoins)]
    /\ ledger = [a \in Accounts |-> None]
    /\ outside = None
    /\ cache = [w \in Worlds |-> [a \in Accounts |-> NoSession]]
    /\ op = [w \in Worlds |-> Idle]
    /\ spentElsewhere = [w \in Worlds |-> [a \in Accounts |-> None]]

NotOnCoins(w) == op[w] = Idle

InGame(w, a) == cache[w][a] # NoSession

-----------------------------------------------------------------------------
(* Sessions: the coins are loaded with the character (iologindata.cpp 25)  *)

\* A read that fails is that of the coins, or that of the ban.
EnterWorld(w, a) ==
    /\ NotOnCoins(w) /\ ~ InGame(w, a)
    /\ \/ Answered /\ cache' = [cache EXCEPT ![w][a] = row[a]]
       \/ Fault /\ \E balance \in {None, row[a]} : cache' = [cache EXCEPT ![w][a] = balance]
    /\ spentElsewhere' = [spentElsewhere EXCEPT ![w][a] = None]
    /\ UNCHANGED <<requests, row, ledger, outside, op>>

LeaveWorld(w, a) ==
    /\ NotOnCoins(w) /\ InGame(w, a)
    /\ cache' = [cache EXCEPT ![w][a] = NoSession]
    /\ spentElsewhere' = [spentElsewhere EXCEPT ![w][a] = None]
    /\ UNCHANGED <<faults, losses, requests, row, ledger, outside, op>>

-----------------------------------------------------------------------------
(* The operations begin                                                    *)

\* SpendDelta: a regular price takes regular coins first.
SpendDelta(balance, n, transferable) ==
    LET regular == IF transferable THEN 0 ELSE Min({balance.regular, n})
    IN  Coins(- regular, regular - n)

BalanceFor(balance, transferable) ==
    IF transferable THEN balance.transferable ELSE balance.regular + balance.transferable

Begin(w, a, to, delta, then) ==
    op' = [op EXCEPT ![w] =
        [do |-> "apply", then |-> then, account |-> a, to |-> to, delta |-> delta]]

\* purchase (then "deliver") and removeCoins (then "record")
Spend(w, a, n, transferable, then) ==
    /\ NotOnCoins(w) /\ InGame(w, a) /\ Request
    /\ BalanceFor(cache[w][a], transferable) >= n
    /\ Begin(w, a, NoAccount, SpendDelta(cache[w][a], n, transferable), then)
    /\ UNCHANGED <<faults, losses, row, ledger, outside, cache, spentElsewhere>>

\* addCoins, of player:addCoins
Grant(w, a, n, transferable) ==
    /\ NotOnCoins(w) /\ InGame(w, a) /\ Request
    /\ Begin(w, a, NoAccount, IF transferable THEN Coins(0, n) ELSE Coins(n, 0), "record")
    /\ UNCHANGED <<faults, losses, row, ledger, outside, cache, spentElsewhere>>

\* transfer, to a character of this world, in game or not
Transfer(w, a, b, n) ==
    /\ NotOnCoins(w) /\ InGame(w, a) /\ a # b /\ Request
    /\ BalanceFor(cache[w][a], TRUE) >= n
    /\ Begin(w, a, b, SpendDelta(cache[w][a], n, TRUE), "send")
    /\ UNCHANGED <<faults, losses, row, ledger, outside, cache, spentElsewhere>>

-----------------------------------------------------------------------------
(* Their statements                                                        *)

Account(w) == op[w].account

Delta(w) == op[w].delta

Continue(w, do) == op' = [op EXCEPT ![w].do = do]

End(w) == op' = [op EXCEPT ![w] = Idle]

\* Mutant: the WHERE clause has no guard.
AffordableAlways(balance, delta) == TRUE

Affordable(balance, delta) == Covers(Plus(balance, delta), None)

\* Mutant: the world writes the balance it holds.
NewBalance(w) == Plus(cache[w][Account(w)], Delta(w))

Changed(w) == Plus(row[Account(w)], Delta(w))

\* The undoing of a purchase or of a transfer: a failure leaves the balance to
\* "a manual correction".
Refunds(w) == op[w].then = "end" \/ (op[w].then = "record" /\ op[w].to # NoAccount)

\* std::clamp, to what a column can hold.
Clamped(x) == Coins(Max({x.regular, 0}), Max({x.transferable, 0}))

\* World w changes its account's row by delta; the copies of the other worlds stay.
Unnoticed(w, delta) ==
    spentElsewhere' =
        [v \in Worlds |-> [a \in Accounts |->
            IF v # w /\ a = Account(w) /\ InGame(v, a)
            THEN Plus(spentElsewhere[v][a], Clamped(Negated(delta)))
            ELSE spentElsewhere[v][a]]]

\* ApplyCoinDelta, the guarded UPDATE. When its answer was lost it runs again,
\* and what is refused now may have been taken before.
ApplyCoinDelta(w) ==
    LET a == Account(w)
    IN  /\ op[w].do = "apply"
        /\ \/ /\ Answered /\ Affordable(row[a], Delta(w))
              /\ row' = [row EXCEPT ![a] = Changed(w)] /\ Unnoticed(w, Delta(w))
              /\ Continue(w, "refresh")
           \/ /\ Answered /\ ~ Affordable(row[a], Delta(w))
              /\ End(w) /\ UNCHANGED <<row, spentElsewhere>>
           \/ /\ IF Refunds(w) THEN Loss ELSE Fault
              /\ End(w) /\ UNCHANGED <<row, spentElsewhere>>
           \/ /\ Loss /\ Affordable(row[a], Delta(w)) /\ Affordable(Changed(w), Delta(w))
              /\ row' = [row EXCEPT ![a] = Plus(Changed(w), Delta(w))]
              /\ Unnoticed(w, Plus(Delta(w), Delta(w)))
              /\ Continue(w, "refresh")
           \/ /\ Loss /\ Affordable(row[a], Delta(w)) /\ ~ Affordable(Changed(w), Delta(w))
              /\ row' = [row EXCEPT ![a] = Changed(w)] /\ Unnoticed(w, Delta(w))
              /\ End(w)
        /\ UNCHANGED <<requests, ledger, outside, cache>>

\* Mutant: a copy that could not be read back is left as it was.
LeftBalance(balance, delta) == balance

ShiftedBalance(balance, delta) == Clamped(Plus(balance, delta))

\* ApplyCoinDelta, its read back; what comes next is the caller's.
Refresh(w) ==
    LET a == Account(w)
    IN  /\ op[w].do = "refresh"
        /\ \/ /\ Answered
              /\ cache' = [cache EXCEPT ![w][a] = row[a]]
              /\ spentElsewhere' = [spentElsewhere EXCEPT ![w][a] = None]
           \/ /\ Fault
              /\ cache' = [cache EXCEPT ![w][a] = ShiftedBalance(@, Delta(w))]
              /\ UNCHANGED spentElsewhere
        /\ CASE op[w].then = "deliver" -> Continue(w, "deliver")
             [] op[w].then \in {"record", "send"} -> Continue(w, "record")
             [] OTHER -> End(w)
        /\ UNCHANGED <<requests, row, ledger, outside>>

\* deliver: what was not delivered is paid back, and never recorded.
Deliver(w) ==
    /\ op[w].do = "deliver"
    /\ \/ Continue(w, "record")
       \/ Begin(w, Account(w), NoAccount, Negated(Delta(w)), "end")
    /\ UNCHANGED <<faults, losses, requests, row, ledger, outside, cache, spentElsewhere>>

\* The sums after a record of an amount: its INSERT ran once, twice or failed.
Recorded(a, delta) ==
    \/ Answered /\ ledger' = [ledger EXCEPT ![a] = Plus(@, delta)]
    \/ Loss /\ ledger' = [ledger EXCEPT ![a] = Plus(@, Plus(delta, delta))]
    \/ Loss /\ UNCHANGED ledger

\* The sender's record comes before the credit, a refund's after it.
Record(w) ==
    /\ op[w].do = "record"
    /\ Recorded(Account(w), Delta(w))
    /\ IF op[w].to = NoAccount
       THEN outside' = Plus(outside, Delta(w)) /\ End(w)
       ELSE /\ UNCHANGED outside
            /\ IF op[w].then = "send" THEN Continue(w, "credit") ELSE End(w)
    /\ UNCHANGED <<requests, row, cache, spentElsewhere>>

\* Mutant: a credit that failed is not paid back.
RefundNothing(w) == End(w)

\* addCoins, with Mode::Refund.
Refund(w) == Begin(w, Account(w), op[w].to, Negated(Delta(w)), "record")

\* CreditTransferableCoins, and the refund if it fails.
Credit(w) ==
    LET b == op[w].to
        gift == Negated(Delta(w))
    IN  /\ op[w].do = "credit"
        /\ \/ /\ Answered
              /\ row' = [row EXCEPT ![b] = Plus(@, gift)] /\ Continue(w, "gift")
           \/ /\ Loss
              /\ row' = [row EXCEPT ![b] = Plus(@, Plus(gift, gift))] /\ Continue(w, "gift")
           \/ /\ Fault
              /\ Refund(w) /\ UNCHANGED row
        /\ UNCHANGED <<requests, ledger, outside, cache, spentElsewhere>>

\* The recipient's record, and its balance if it is in game in this world.
Gift(w) ==
    LET b == op[w].to
        gift == Negated(Delta(w))
    IN  /\ op[w].do = "gift"
        /\ Recorded(b, gift)
        /\ cache' = IF InGame(w, b) THEN [cache EXCEPT ![w][b] = Plus(@, gift)] ELSE cache
        /\ End(w)
        /\ UNCHANGED <<requests, row, outside, spentElsewhere>>

CoinsStep(w) ==
    \/ \E a \in Accounts : EnterWorld(w, a) \/ LeaveWorld(w, a)
    \/ \E a \in Accounts, n \in 1..MaxAmount, transferable \in BOOLEAN :
            \/ Spend(w, a, n, transferable, "deliver") \/ Spend(w, a, n, transferable, "record")
            \/ Grant(w, a, n, transferable)
    \/ \E a, b \in Accounts, n \in 1..MaxAmount : Transfer(w, a, b, n)
    \/ ApplyCoinDelta(w) \/ Refresh(w) \/ Deliver(w) \/ Record(w) \/ Credit(w) \/ Gift(w)

-----------------------------------------------------------------------------
(* Properties                                                              *)

\* What world w has done to account a's row and not yet recorded.
Pending(w, a) ==
    IF op[w].account = a /\ op[w].do \in {"refresh", "deliver", "record"} /\ op[w].then # "end"
    THEN Delta(w)
    ELSE IF op[w].account = a /\ op[w].do = "apply" /\ op[w].then = "end"
    THEN Negated(Delta(w))
    ELSE IF op[w].to = a /\ op[w].do = "gift"
    THEN Negated(Delta(w))
    ELSE None

SumOf(f, S) == FoldSet(LAMBDA x, y : Plus(f[x], y), None, S)

Expected(a) ==
    Plus(Coins(StartCoins, StartCoins),
         Plus(ledger[a], SumOf([w \in Worlds |-> Pending(w, a)], Worlds)))

\* An account's row is what its history says, operations under way aside, in
\* either column: what another world changed is never overwritten, an operation
\* that was refused, failed or was undone leaves no trace, and each answer that
\* was lost costs no more than the one amount it was about.
RowMatchesHistory ==
    \A a \in Accounts :
        LET drift == Plus(row[a], Negated(Expected(a)))
            bound == losses * MaxAmount
        IN  drift.regular \in -bound..bound /\ drift.transferable \in -bound..bound

\* Coins that are between two accounts.
InTransit(w) ==
    IF op[w].do = "credit" \/ op[w].do = "gift" THEN Delta(w)
    ELSE IF op[w].to # NoAccount /\ op[w].then = "record" THEN Negated(Delta(w))
    ELSE None

\* A transfer neither makes nor destroys coins, even if the credit fails: what all
\* histories add up to is what came from outside transfers, but for the coins
\* that have left one account and are not yet with the other.
TransfersConserve ==
    losses = 0 =>
        SumOf(ledger, Accounts) = Plus(outside, SumOf([w \in Worlds |-> InTransit(w)], Worlds))

\* The balance that a world may take its account's row to have.
Known(w, a) == Plus(row[a], spentElsewhere[w][a])

\* A player's copy of its balance shows more than the row has only by what other
\* worlds have taken since the copy was last read: no sequence of purchases,
\* refunds, gifts and failed reads of its own world, with the deposits of others
\* in between, makes it outrun the row. "A cache that outran the database"
\* (store.cpp:574) is thus always the work of a second session of the account.
CacheFollowsRow ==
    losses = 0 => \A w \in Worlds, a \in Accounts :
        InGame(w, a) =>
            \/ Covers(Known(w, a), cache[w][a])
            \/ op[w].account = a /\ op[w].do = "refresh"

-----------------------------------------------------------------------------
(* What the proofs need beside the properties                              *)

Debit(x) == x.regular \in -MaxAmount..0 /\ x.transferable \in -MaxAmount..0

Deposit(x) == x.regular \in 0..MaxAmount /\ x.transferable \in 0..MaxAmount

\* An operation takes or gives as its kind says, which tells whether the guard
\* of its UPDATE can refuse it: what is paid back never is.
Orderly(w) ==
    LET x == op[w]
    IN  \/ x.to = NoAccount /\ x.then = "deliver" /\ Debit(x.delta)
           /\ x.do \in {"apply", "refresh", "deliver", "record"}
        \/ x.to = NoAccount /\ x.then = "record" /\ (Debit(x.delta) \/ Deposit(x.delta))
           /\ x.do \in {"apply", "refresh", "record"}
        \/ x.to = NoAccount /\ x.then = "end" /\ Deposit(x.delta)
           /\ x.do \in {"apply", "refresh"}
        \/ x.to \in Accounts /\ x.then = "send" /\ Debit(x.delta)
           /\ x.do \in {"apply", "refresh", "record", "credit", "gift"}
        \/ x.to \in Accounts /\ x.then = "record" /\ Deposit(x.delta)
           /\ x.do \in {"apply", "refresh", "record"}

\* The player of an operation under way stays in game until it is over.
OperationsOrderly ==
    \A w \in Worlds : op[w] = Idle \/
        /\ op[w].account \in Accounts /\ InGame(w, op[w].account)
        /\ op[w].to # op[w].account /\ Orderly(w)

\* CacheFollowsRow between the statements: while a copy waits for its read
\* back, or for the amount of a gift, the row is known to have what it will show.
Covered(w, a) ==
    IF op[w].account = a /\ op[w].do = "refresh"
    THEN Covers(Known(w, a), Plus(cache[w][a], Delta(w)))
    ELSE IF op[w].to = a /\ op[w].do = "gift"
    THEN Covers(Known(w, a), Plus(cache[w][a], Negated(Delta(w))))
    ELSE Covers(Known(w, a), cache[w][a])

CopiesCovered ==
    losses = 0 => \A w \in Worlds, a \in Accounts : InGame(w, a) => Covered(w, a)

CoinsInv ==
    /\ losses \in Nat /\ CoinsTypeOK
    /\ OperationsOrderly /\ CopiesCovered
    /\ RowMatchesHistory /\ TransfersConserve
=============================================================================
