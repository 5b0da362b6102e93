----------------------------- MODULE CoinProofs -----------------------------
(***************************************************************************)
(* Theorems about the coins of the accounts: rows match their histories,   *)
(* transfers conserve coins, and a copy of a balance outruns its row by no *)
(* more than other worlds have taken, for any number of worlds, accounts   *)
(* and requests. Two of them are about sums over all worlds or all         *)
(* accounts, which begin with lemmas about SumOf.                          *)
(***************************************************************************)
EXTENDS AccountProofs, DataLemmas

\* Amounts add up as pairs of integers do.
LEMMA PlusIsAddition ==
  /\ None \in Amounts
  /\ \A x \in Amounts : Plus(None, x) = x /\ Plus(x, None) = x /\ Negated(x) \in Amounts
  /\ \A x, y \in Amounts :
        /\ Plus(x, y) \in Amounts /\ Plus(x, y) = Plus(y, x)
        /\ Plus(Plus(x, y), Negated(y)) = x
  /\ \A x, y, z \in Amounts :
        /\ Plus(x, Plus(y, z)) = Plus(Plus(x, y), z)
        /\ Plus(x, Plus(y, z)) = Plus(y, Plus(x, z))
<1>1. None \in Amounts
  BY DEF None, Coins, Amounts
<1>2. ASSUME NEW x \in Amounts
      PROVE  Plus(None, x) = x /\ Plus(x, None) = x /\ Negated(x) \in Amounts
  BY DEF None, Coins, Plus, Negated, Amounts
<1>3. ASSUME NEW x \in Amounts, NEW y \in Amounts
      PROVE  /\ Plus(x, y) \in Amounts /\ Plus(x, y) = Plus(y, x)
             /\ Plus(Plus(x, y), Negated(y)) = x
  BY DEF Coins, Plus, Negated, Amounts
<1>4. ASSUME NEW x \in Amounts, NEW y \in Amounts, NEW z \in Amounts
      PROVE  /\ Plus(x, Plus(y, z)) = Plus(Plus(x, y), z)
             /\ Plus(x, Plus(y, z)) = Plus(y, Plus(x, z))
  BY DEF Coins, Plus, Amounts
<1>. QED
  BY <1>1, <1>2, <1>3, <1>4

\* A sum of amounts is an amount.
LEMMA PlusType ==
  ASSUME NEW x \in Amounts, NEW y \in Amounts
  PROVE  Plus(x, y) \in Amounts
  BY DEF Coins, Plus, Amounts

\* The terms of a sum of three can be taken in any order.
LEMMA PlusMoves ==
  ASSUME NEW x \in Amounts, NEW y \in Amounts, NEW z \in Amounts
  PROVE  /\ Plus(Plus(x, y), z) = Plus(Plus(x, z), y)
         /\ Plus(Plus(x, y), z) = Plus(x, Plus(y, z))
         /\ Plus(x, Plus(y, z)) = Plus(y, Plus(x, z))
  BY DEF Coins, Plus, Amounts

-----------------------------------------------------------------------------
(* Sums over finite sets                                                   *)

\* What SumOf unfolds to: every set gives up one of its elements.
Unfolds(f, S, iter) ==
    iter = [T \in SUBSET S |->
        IF T = {} THEN None
        ELSE LET x == CHOOSE x \in T : TRUE IN Plus(f[x], iter[T \ {x}])]

\* What a sum should be: none for the empty set, and one term more with each element.
Adds(f, S, sum) ==
    /\ sum \in [SUBSET S -> Amounts]
    /\ sum[{}] = None
    /\ \A T \in SUBSET S : \A x \in S \ T : sum[T \cup {x}] = Plus(f[x], sum[T])

\* SumOf is the fold of the community modules, down to its recursion.
LEMMA SumUnfolds ==
  ASSUME NEW f, NEW S
  PROVE  SumOf(f, S) = (CHOOSE iter : Unfolds(f, S, iter))[S]
  BY DEF SumOf, FoldSet, MapThenFoldSet, Unfolds

\* A function that adds with each element also unfolds by the one chosen.
LEMMA AddsUnfolds ==
  ASSUME NEW f, NEW S, NEW sum, Adds(f, S, sum)
  PROVE  Unfolds(f, S, sum)
<1>. DEFINE unfolded == [T \in SUBSET S |->
        IF T = {} THEN None
        ELSE LET x == CHOOSE x \in T : TRUE IN Plus(f[x], sum[T \ {x}])]
<1>1. ASSUME NEW T \in SUBSET S
      PROVE  sum[T] = unfolded[T]
  <2>1. CASE T = {}
    BY <2>1 DEF Adds
  <2>2. CASE T # {}
    <3>. DEFINE x == CHOOSE x \in T : TRUE
    <3>1. x \in T
      BY <2>2
    <3>2. sum[(T \ {x}) \cup {x}] = Plus(f[x], sum[T \ {x}])
      <4>1. T \ {x} \in SUBSET S /\ x \in S \ (T \ {x})
        BY <3>1
      <4>. HIDE DEF x
      <4>. QED
        BY <4>1 DEF Adds
    <3>3. (T \ {x}) \cup {x} = T
      BY <3>1
    <3>. QED
      BY <2>2, <3>2, <3>3
  <2>. QED
    BY <2>1, <2>2
<1>. QED
  BY <1>1 DEF Adds, Unfolds

\* There is but one function that unfolds so.
LEMMA UnfoldsIsUnique ==
  ASSUME NEW f, NEW S, IsFiniteSet(S), NEW g, NEW h, Unfolds(f, S, g), Unfolds(f, S, h)
  PROVE  g[S] = h[S]
<1>. DEFINE H == {T \in SUBSET S : g[T] # h[T]}
<1>. SUFFICES ASSUME H # {} PROVE FALSE
  OBVIOUS
<1>1. PICK T \in H : \A U \in H : U \subseteq T => U = T
  <2>1. H \in SUBSET SUBSET S
    OBVIOUS
  <2>. HIDE DEF H
  <2>. QED
    BY <2>1, SmallestSet
<1>. DEFINE x == CHOOSE x \in T : TRUE
<1>2. T # {}
  BY <1>1 DEF Unfolds
<1>3. x \in T
  BY <1>2
<1>4. g[T \ {x}] = h[T \ {x}]
  BY <1>1, <1>3
<1>5. g[T] = Plus(f[x], g[T \ {x}]) /\ h[T] = Plus(f[x], h[T \ {x}])
  BY <1>1, <1>2 DEF Unfolds
<1>. QED
  BY <1>1, <1>4, <1>5

\* So a function that adds is the sum, which FoldSet leaves to a choice.
LEMMA SumAdds ==
  ASSUME NEW f, NEW S, IsFiniteSet(S), NEW sum, Adds(f, S, sum)
  PROVE  SumOf(f, S) = sum[S]
<1>1. Unfolds(f, S, sum)
  BY AddsUnfolds
<1>2. Unfolds(f, S, CHOOSE iter : Unfolds(f, S, iter))
  BY <1>1
<1>. QED
  BY <1>1, <1>2, SumUnfolds, UnfoldsIsUnique

\* A function that adds exists, whatever the order of the elements: it is
\* built from the subsets of one element less.
LEMMA SumExists ==
  ASSUME NEW S, IsFiniteSet(S), NEW f \in [S -> Amounts]
  PROVE  \E sum : Adds(f, S, sum)
<1>. DEFINE F == {T \in SUBSET S : \E sum : Adds(f, T, sum)}
<1>1. {} \in F
  <2>1. Adds(f, {}, [T \in {{}} |-> None])
    BY PlusIsAddition DEF Adds
  <2>. QED
    BY <2>1
<1>2. ASSUME NEW T \in F, NEW x \in S \ T
      PROVE  T \cup {x} \in F
  <2>1. PICK sum : Adds(f, T, sum)
    OBVIOUS
  <2>. DEFINE V == T \cup {x}
              more == [U \in SUBSET V |->
                            IF x \in U THEN Plus(f[x], sum[U \ {x}]) ELSE sum[U]]
  <2>2. \A U \in SUBSET V : U \ {x} \in SUBSET T /\ sum[U \ {x}] \in Amounts
    BY <2>1 DEF Adds
  <2>3. \A y \in V : f[y] \in Amounts
    OBVIOUS
  <2>4. more \in [SUBSET V -> Amounts]
    <3>1. ASSUME NEW U \in SUBSET V
          PROVE  (IF x \in U THEN Plus(f[x], sum[U \ {x}]) ELSE sum[U]) \in Amounts
      <4>1. x \notin U => U \ {x} = U
        OBVIOUS
      <4>. QED
        BY <4>1, <2>2, <2>3, PlusIsAddition
    <3>. QED
      BY <3>1
  <2>5. more[{}] = None
    BY <2>1 DEF Adds
  <2>6. ASSUME NEW U \in SUBSET V, NEW y \in V \ U
        PROVE  more[U \cup {y}] = Plus(f[y], more[U])
    <3>1. CASE y = x
      <4>1. (U \cup {x}) \ {x} = U /\ U \cup {x} \in SUBSET V /\ x \notin U
        BY <3>1
      <4>. QED
        BY <3>1, <4>1
    <3>2. CASE y # x /\ x \notin U
      <4>1. U \in SUBSET T /\ y \in T \ U /\ x \notin U \cup {y} /\ U \cup {y} \in SUBSET V
        BY <3>2
      <4>2. sum[U \cup {y}] = Plus(f[y], sum[U])
        BY <4>1, <2>1 DEF Adds
      <4>. QED
        BY <4>1, <4>2
    <3>3. CASE y # x /\ x \in U
      <4>. DEFINE W == U \ {x}
      <4>1. W \in SUBSET T /\ y \in T \ W /\ U \cup {y} \in SUBSET V /\ x \in U \cup {y}
        BY <3>3
      <4>2. (U \cup {y}) \ {x} = W \cup {y}
        BY <3>3
      <4>3. sum[W \cup {y}] = Plus(f[y], sum[W])
        BY <4>1, <2>1 DEF Adds
      <4>4. more[U \cup {y}] = Plus(f[x], Plus(f[y], sum[W]))
        BY <4>1, <4>2, <4>3
      <4>5. more[U] = Plus(f[x], sum[W])
        BY <3>3
      <4>6. sum[W] \in Amounts /\ f[x] \in Amounts /\ f[y] \in Amounts
        BY <2>2, <2>3
      <4>. HIDE DEF more
      <4>. QED
        BY <4>4, <4>5, <4>6, PlusMoves
    <3>. QED
      BY <3>1, <3>2, <3>3
  <2>7. Adds(f, V, more)
    <3>. HIDE DEF more, V
    <3>. QED
      BY <2>4, <2>5, <2>6 DEF Adds
  <2>. QED
    BY <2>7
<1>3. S \in F
  <2>1. F \in SUBSET SUBSET S
    OBVIOUS
  <2>. HIDE DEF F
  <2>. QED
    BY <1>1, <1>2, <2>1, SetInduction
<1>. QED
  BY <1>3

\* A sum of amounts over a finite set is an amount.
LEMMA SumType ==
  ASSUME NEW S, IsFiniteSet(S), NEW f \in [S -> Amounts]
  PROVE  SumOf(f, S) \in Amounts
<1>1. PICK sum : Adds(f, S, sum)
  BY SumExists
<1>2. SumOf(f, S) = sum[S]
  BY <1>1, SumAdds
<1>. QED
  BY <1>1, <1>2 DEF Adds

\* Terms that are none add up to none.
LEMMA SumOfNone ==
  ASSUME NEW S, IsFiniteSet(S)
  PROVE  SumOf([x \in S |-> None], S) = None
<1>. DEFINE f == [x \in S |-> None]
            sum == [T \in SUBSET S |-> None]
<1>1. Adds(f, S, sum)
  BY PlusIsAddition DEF Adds
<1>. QED
  BY <1>1, SumAdds

\* When one term changes by an amount, so does the sum.
LEMMA SumShifts ==
  ASSUME NEW S, IsFiniteSet(S), NEW f \in [S -> Amounts], NEW g \in [S -> Amounts],
         NEW x \in S, NEW d \in Amounts,
         g[x] = Plus(f[x], d), \A y \in S \ {x} : g[y] = f[y]
  PROVE  SumOf(g, S) = Plus(SumOf(f, S), d)
<1>1. PICK sum : Adds(f, S, sum)
  BY SumExists
<1>. DEFINE shifted == [T \in SUBSET S |-> IF x \in T THEN Plus(sum[T], d) ELSE sum[T]]
<1>2. \A T \in SUBSET S : sum[T] \in Amounts
  BY <1>1 DEF Adds
<1>3. shifted \in [SUBSET S -> Amounts] /\ shifted[{}] = None
  <2>1. \A T \in SUBSET S : (IF x \in T THEN Plus(sum[T], d) ELSE sum[T]) \in Amounts
    BY <1>2, PlusIsAddition
  <2>. QED
    BY <2>1, <1>1 DEF Adds
<1>4. ASSUME NEW T \in SUBSET S, NEW y \in S \ T
      PROVE  shifted[T \cup {y}] = Plus(g[y], shifted[T])
  <2>1. sum[T \cup {y}] = Plus(f[y], sum[T]) /\ T \cup {y} \in SUBSET S
    BY <1>1 DEF Adds
  <2>2. f[y] \in Amounts /\ sum[T] \in Amounts
    BY <1>2
  <2>3. CASE y = x
    <3>1. shifted[T \cup {y}] = Plus(Plus(f[y], sum[T]), d)
      BY <2>1, <2>3
    <3>2. Plus(g[y], shifted[T]) = Plus(Plus(f[y], d), sum[T])
      BY <2>3
    <3>. HIDE DEF shifted
    <3>. QED
      BY <3>1, <3>2, <2>2, PlusMoves
  <2>4. CASE y # x /\ x \in T
    <3>1. shifted[T \cup {y}] = Plus(Plus(f[y], sum[T]), d)
      BY <2>1, <2>4
    <3>2. Plus(g[y], shifted[T]) = Plus(f[y], Plus(sum[T], d))
      BY <2>4
    <3>. HIDE DEF shifted
    <3>. QED
      BY <3>1, <3>2, <2>2, PlusMoves
  <2>5. CASE y # x /\ x \notin T
    BY <2>1, <2>5
  <2>. QED
    BY <2>3, <2>4, <2>5
<1>5. Adds(g, S, shifted)
  <2>. HIDE DEF shifted
  <2>. QED
    BY <1>3, <1>4 DEF Adds
<1>6. SumOf(g, S) = shifted[S] /\ SumOf(f, S) = sum[S]
  BY <1>1, <1>5, SumAdds
<1>. QED
  BY <1>6

-----------------------------------------------------------------------------
(* How a step moves the two sums                                           *)

Only(w) == \A v \in Worlds \ {w} : op'[v] = op[v]

Difference(x, y) == Coins(x.regular - y.regular, x.transferable - y.transferable)

Within(x, n) == x.regular \in -n..n /\ x.transferable \in -n..n

Drift(a) == Plus(row[a], Negated(Expected(a)))

\* By how much a step of world w moves the drift of account a.
Moved(w, a) ==
    Difference(Difference(row'[a], row[a]),
               Plus(Difference(ledger'[a], ledger[a]), Difference(Pending(w, a)', Pending(w, a))))

\* RowMatchesHistory in terms of what a row differs by from its history.
LEMMA HistoryIsDrift ==
  RowMatchesHistory <=> \A a \in Accounts : Within(Drift(a), losses * MaxAmount)
  BY DEF RowMatchesHistory, Drift, Within

\* What is under way and what is pending of it are amounts.
LEMMA AmountsOfAnOperation ==
  ASSUME CoinsTypeOK, NEW w \in Worlds, NEW a \in Accounts
  PROVE  /\ Delta(w) \in Amounts /\ Negated(Delta(w)) \in Amounts
         /\ Pending(w, a) \in Amounts 
<1>1. Delta(w) \in Amounts
  BY DEF CoinsTypeOK, Operations, Delta
<1>. QED
  BY <1>1, PlusIsAddition DEF Pending

\* So they are after a step.
LEMMA AmountsAfterAStep ==
  ASSUME CoinsTypeOK', NEW w \in Worlds, NEW a \in Accounts
  PROVE  /\ Delta(w)' \in Amounts /\ Negated(Delta(w)') \in Amounts
         /\ Pending(w, a)' \in Amounts 
<1>1. Delta(w)' \in Amounts
  BY DEF CoinsTypeOK, Operations, Delta
<1>. QED
  BY <1>1, PlusIsAddition DEF Pending

\* What is between two accounts is an amount, before and after a step.
LEMMA TransitsAreAmounts ==
  ASSUME CoinsTypeOK, CoinsTypeOK', NEW w \in Worlds
  PROVE  InTransit(w) \in Amounts /\ InTransit(w)' \in Amounts
<1>1. Delta(w) \in Amounts /\ Delta(w)' \in Amounts
  BY DEF CoinsTypeOK, Operations, Delta
<1>. QED
  BY <1>1, PlusIsAddition DEF InTransit

\* A balance is an amount that is nowhere negative.
LEMMA BalancesAreAmounts == Balances \subseteq Amounts
  BY DEF Balances, Amounts

\* A difference is a sum with the opposite.
LEMMA DifferenceIsMoved ==
  ASSUME NEW x \in Amounts, NEW y \in Amounts
  PROVE  Difference(x, y) \in Amounts /\ x = Plus(y, Difference(x, y))
         /\ Plus(x, Negated(y)) = Difference(x, y)
  BY DEF Difference, Plus, Negated, Coins, Amounts

\* Three amounts with a sum's sides, before and after a step.
Level(l, o, i, m, p, j) ==
    /\ {l, o, i, m, p, j} \subseteq Amounts
    /\ Plus(m, Plus(o, i)) = Plus(l, Plus(p, j))

\* When both sides of the balance stay level, they have changed by the same.
LEMMA LevelMoves ==
  ASSUME NEW l, NEW o, NEW i, NEW m, NEW p, NEW j, Level(l, o, i, m, p, j)
  PROVE  Plus(o, Difference(m, l)) = Plus(p, Difference(j, i))
<1>1. /\ m.regular + (o.regular + i.regular) = l.regular + (p.regular + j.regular)
      /\ m.transferable + (o.transferable + i.transferable)
           = l.transferable + (p.transferable + j.transferable)
  BY DEF Level, Plus, Coins
<1>2. /\ l.regular \in Int /\ m.regular \in Int /\ o.regular \in Int
      /\ p.regular \in Int /\ i.regular \in Int /\ j.regular \in Int
      /\ l.transferable \in Int /\ m.transferable \in Int /\ o.transferable \in Int
      /\ p.transferable \in Int /\ i.transferable \in Int /\ j.transferable \in Int
  BY DEF Level, Amounts
<1>3. o.regular + (m.regular - l.regular) = p.regular + (j.regular - i.regular)
  BY <1>1, <1>2
<1>4. o.transferable + (m.transferable - l.transferable)
        = p.transferable + (j.transferable - i.transferable)
  BY <1>1, <1>2
<1>. QED
  BY <1>3, <1>4 DEF Difference, Plus, Coins

\* What is pending of one account in all worlds changes by what changes in
\* the world of the step.
LEMMA SumOfPendingShifts ==
  ASSUME CoinsTypeOK, CoinsTypeOK', NEW w \in Worlds, Only(w), NEW a \in Accounts
  PROVE  /\ SumOf([v \in Worlds |-> Pending(v, a)], Worlds) \in Amounts
         /\ SumOf([v \in Worlds |-> Pending(v, a)], Worlds)'
              = Plus(SumOf([v \in Worlds |-> Pending(v, a)], Worlds),
                     Difference(Pending(w, a)', Pending(w, a)))
<1>. DEFINE f == [v \in Worlds |-> Pending(v, a)]
            g == [v \in Worlds |-> Pending(v, a)']
            d == Difference(Pending(w, a)', Pending(w, a))
<1>1. \A v \in Worlds : Pending(v, a) \in Amounts /\ Pending(v, a)' \in Amounts
  BY AmountsOfAnOperation, AmountsAfterAStep
<1>2. f \in [Worlds -> Amounts] /\ g \in [Worlds -> Amounts]
  BY <1>1
<1>3. g[w] = Plus(f[w], d) /\ d \in Amounts
  BY <1>1, DifferenceIsMoved
<1>4. \A v \in Worlds \ {w} : g[v] = f[v]
  BY DEF Only, Pending, Delta
<1>5. SumOf(f, Worlds) \in Amounts
  BY <1>2, SumType, TablesAssumption
<1>6. SumOf(g, Worlds) = Plus(SumOf(f, Worlds), d)
  <2>. HIDE DEF f, g, d
  <2>. QED
    BY <1>2, <1>3, <1>4, SumShifts, TablesAssumption
<1>. QED
  BY <1>5, <1>6

\* A step of a world moves the drift of an account by Moved.
LEMMA DriftMoves ==
  ASSUME CoinsTypeOK, CoinsTypeOK', NEW w \in Worlds, Only(w), NEW a \in Accounts
  PROVE  Drift(a) \in Amounts /\ Moved(w, a) \in Amounts /\ Drift(a)' = Plus(Drift(a), Moved(w, a))
<1>. DEFINE s == SumOf([v \in Worlds |-> Pending(v, a)], Worlds)
            start == Coins(StartCoins, StartCoins)
            d == Difference(Pending(w, a)', Pending(w, a))
<1>1. s \in Amounts /\ s' = Plus(s, d)
  BY SumOfPendingShifts
<1>2. start \in Amounts /\ start' = start
  BY CoinsAssumption DEF Amounts, Coins
<1>3. /\ row[a] \in Amounts /\ row'[a] \in Amounts
      /\ ledger[a] \in Amounts /\ ledger'[a] \in Amounts
  BY BalancesAreAmounts DEF CoinsTypeOK
<1>4. d \in Amounts
  BY AmountsOfAnOperation, AmountsAfterAStep, DifferenceIsMoved
<1>5. /\ s' \in Amounts
      /\ Plus(start, Plus(ledger[a], s)) \in Amounts
      /\ Plus(start, Plus(ledger'[a], s')) \in Amounts
  <2>. HIDE DEF s, start, d
  <2>1. s' \in Amounts
    BY <1>1, <1>4, PlusIsAddition
  <2>2. Plus(ledger[a], s) \in Amounts /\ Plus(ledger'[a], s') \in Amounts
    BY <1>1, <1>3, <2>1, PlusIsAddition
  <2>. QED
    BY <1>2, <2>1, <2>2, PlusIsAddition
<1>6. /\ Drift(a) = Plus(row[a], Negated(Plus(start, Plus(ledger[a], s))))
      /\ Drift(a)' = Plus(row'[a], Negated(Plus(start, Plus(ledger'[a], s'))))
      /\ Moved(w, a) = Difference(Difference(row'[a], row[a]), Plus(Difference(ledger'[a], ledger[a]), d))
  BY <1>2 DEF Drift, Expected, Moved
<1>. HIDE DEF s, start, d
<1>7. /\ Drift(a) = Difference(row[a], Plus(start, Plus(ledger[a], s)))
      /\ Drift(a)' = Difference(row'[a], Plus(start, Plus(ledger'[a], s')))
  BY <1>3, <1>5, <1>6, DifferenceIsMoved
<1>. QED
  BY <1>1, <1>2, <1>3, <1>4, <1>6, <1>7 DEF Amounts, Difference, Plus, Coins

\* A step keeps RowMatchesHistory if it moves no drift, or loses an answer and
\* moves no drift by more than an amount.
LEMMA HistoryKept ==
  ASSUME CoinsInv, CoinsTypeOK', NEW w \in Worlds, Only(w),
         \/ losses' = losses /\ \A a \in Accounts : Moved(w, a) = None
         \/ losses' = losses + 1 /\ \A a \in Accounts : Within(Moved(w, a), MaxAmount)
  PROVE  RowMatchesHistory'
<1>. SUFFICES ASSUME NEW a \in Accounts
              PROVE  Within(Drift(a)', losses' * MaxAmount)
  BY DEF RowMatchesHistory, Drift, Within
<1>. DEFINE n == losses * MaxAmount
            m == losses' * MaxAmount
<1>1. /\ CoinsTypeOK /\ losses \in Nat /\ MaxAmount \in Nat
      /\ Within(Drift(a), n)
  BY HistoryIsDrift, CoinsAssumption DEF CoinsInv
<1>2. Drift(a) \in Amounts /\ Moved(w, a) \in Amounts /\ Drift(a)' = Plus(Drift(a), Moved(w, a))
  BY <1>1, DriftMoves
<1>3. n \in Nat
  BY <1>1
<1>4. CASE losses' = losses /\ \A x \in Accounts : Moved(w, x) = None
  BY <1>1, <1>2, <1>4, PlusIsAddition
<1>5. CASE losses' = losses + 1 /\ \A x \in Accounts : Within(Moved(w, x), MaxAmount)
  <2>1. m = n + MaxAmount
    BY <1>1, <1>5
  <2>. HIDE DEF n, m
  <2>2. Within(Plus(Drift(a), Moved(w, a)), m)
    BY <1>1, <1>2, <1>3, <1>5, <2>1 DEF Within, Amounts, Plus, Coins
  <2>. QED
    BY <1>2, <2>2 DEF m
<1>. QED
  BY <1>4, <1>5

\* A step keeps TransfersConserve if what it adds to the histories is what came
\* from outside, or from what is between two accounts.
LEMMA TransfersKept ==
  ASSUME CoinsInv, CoinsTypeOK', NEW w \in Worlds, Only(w), losses' = 0 => losses = 0,
         losses' = 0 =>
             \/ /\ ledger' = ledger
                /\ Plus(outside', InTransit(w)') = Plus(outside, InTransit(w))
             \/ \E b \in Accounts :
                /\ \A a \in Accounts \ {b} : ledger'[a] = ledger[a]
                /\ Level(ledger[b], outside, InTransit(w), ledger'[b], outside', InTransit(w)')
  PROVE  TransfersConserve'
<1>. SUFFICES ASSUME losses' = 0
              PROVE  SumOf(ledger', Accounts)
                       = Plus(outside', SumOf([v \in Worlds |-> InTransit(v)'], Worlds))
  BY DEF TransfersConserve
<1>. DEFINE f == [v \in Worlds |-> InTransit(v)]
            g == [v \in Worlds |-> InTransit(v)']
            d == Difference(InTransit(w)', InTransit(w))
<1>1. CoinsTypeOK /\ SumOf(ledger, Accounts) = Plus(outside, SumOf(f, Worlds))
  BY DEF CoinsInv, TransfersConserve
<1>2. \A v \in Worlds : InTransit(v) \in Amounts /\ InTransit(v)' \in Amounts
  BY <1>1, TransitsAreAmounts
<1>3. f \in [Worlds -> Amounts] /\ g \in [Worlds -> Amounts]
  BY <1>2
<1>4. g[w] = Plus(f[w], d) /\ d \in Amounts
  BY <1>2, DifferenceIsMoved
<1>5. \A v \in Worlds \ {w} : g[v] = f[v]
  BY DEF Only, InTransit, Delta
<1>6. SumOf(f, Worlds) \in Amounts
  BY <1>3, SumType, TablesAssumption
<1>7. SumOf(g, Worlds) = Plus(SumOf(f, Worlds), d)
  <2>. HIDE DEF f, g, d
  <2>. QED
    BY <1>3, <1>4, <1>5, SumShifts, TablesAssumption
<1>8. /\ ledger \in [Accounts -> Amounts] /\ ledger' \in [Accounts -> Amounts]
      /\ outside \in Amounts /\ outside' \in Amounts
  BY <1>1 DEF CoinsTypeOK
<1>9. CASE /\ ledger' = ledger
           /\ Plus(outside', InTransit(w)') = Plus(outside, InTransit(w))
  <2>. HIDE DEF f, g
  <2>1. Plus(outside', Plus(SumOf(f, Worlds), d)) = Plus(outside, SumOf(f, Worlds))
    BY <1>2, <1>6, <1>8, <1>9 DEF Amounts, Difference, Plus, Negated, Coins
  <2>2. SumOf(ledger', Accounts) = Plus(outside', SumOf(g, Worlds))
    BY <1>1, <1>7, <1>9, <2>1
  <2>. QED
    BY <2>2 DEF g
<1>10. ASSUME NEW b \in Accounts, \A a \in Accounts \ {b} : ledger'[a] = ledger[a],
              Level(ledger[b], outside, InTransit(w), ledger'[b], outside', InTransit(w)')
       PROVE  SumOf(ledger', Accounts) = Plus(outside', SumOf(g, Worlds))
  <2>. DEFINE e == Difference(ledger'[b], ledger[b])
  <2>1. e \in Amounts /\ ledger'[b] = Plus(ledger[b], e)
    BY <1>8, DifferenceIsMoved
  <2>2. SumOf(ledger', Accounts) = Plus(SumOf(ledger, Accounts), e)
    <3>. HIDE DEF e
    <3>. QED
      BY <1>8, <1>10, <2>1, SumShifts, TablesAssumption
  <2>. HIDE DEF f, g
  <2>3. Plus(Plus(outside, SumOf(f, Worlds)), e) = Plus(outside', Plus(SumOf(f, Worlds), d))
    <3>1. ledger[b] \in Amounts /\ ledger'[b] \in Amounts
      BY <1>8
    <3>2. outside \in Amounts /\ outside' \in Amounts
          /\ InTransit(w) \in Amounts /\ InTransit(w)' \in Amounts
      BY <1>2, <1>8
    <3>3. Level(ledger[b], outside, InTransit(w), ledger'[b], outside', InTransit(w)')
      BY <1>10
    <3>4. Plus(outside, e) = Plus(outside', d)
      <4>1. Plus(outside, Difference(ledger'[b], ledger[b]))
              = Plus(outside', Difference(InTransit(w)', InTransit(w)))
        BY <3>3, LevelMoves
      <4>. QED
        BY <4>1
    <3>. HIDE DEF d, e
    <3>5. Plus(Plus(outside, SumOf(f, Worlds)), e) = Plus(Plus(outside, e), SumOf(f, Worlds))
      BY <1>6, <2>1, <3>2, PlusMoves
    <3>6. Plus(outside', Plus(SumOf(f, Worlds), d)) = Plus(Plus(outside', d), SumOf(f, Worlds))
      BY <1>4, <1>6, <3>2, PlusMoves
    <3>. QED
      BY <3>4, <3>5, <3>6
  <2>. QED
    BY <1>1, <1>7, <2>2, <2>3
<1>. QED
  BY <1>9, <1>10, <1>1

-----------------------------------------------------------------------------
(* What a step does to the operation of its world                          *)

OperationsNow == {"idle", "apply", "refresh", "deliver", "record", "credit", "gift"}

\* The operation of world w goes on to another statement.
LEMMA Continues ==
  ASSUME CoinsTypeOK, NEW w \in Worlds, NEW do \in OperationsNow, Continue(w, do)
  PROVE  /\ op' \in [Worlds -> Operations] /\ Only(w)
         /\ op'[w].do = do /\ op'[w].then = op[w].then /\ op'[w].account = op[w].account
         /\ op'[w].to = op[w].to /\ op'[w].delta = op[w].delta
  BY DEF CoinsTypeOK, Continue, Operations, OperationsNow, Only

\* The operation of world w is over.
LEMMA Ends ==
  ASSUME CoinsTypeOK, NEW w \in Worlds, End(w)
  PROVE  op' \in [Worlds -> Operations] /\ Only(w) /\ op'[w] = Idle
<1>1. Idle \in Operations
  BY PlusIsAddition DEF Idle, Operations
<1>. QED
  BY <1>1 DEF CoinsTypeOK, End, Only

\* An operation, or the undoing of one, begins in world w.
LEMMA Begins ==
  ASSUME CoinsTypeOK, NEW w \in Worlds, NEW a \in Accounts, NEW b \in Accounts \cup {NoAccount},
         NEW d \in Amounts, NEW then \in {"end", "deliver", "record", "send"},
         Begin(w, a, b, d, then)
  PROVE  /\ op' \in [Worlds -> Operations] /\ Only(w)
         /\ op'[w].do = "apply" /\ op'[w].then = then /\ op'[w].account = a
         /\ op'[w].to = b /\ op'[w].delta = d
  BY DEF CoinsTypeOK, Begin, Operations, Only

\* What the invariant says of an operation that is under way.
LEMMA UnderWay ==
  ASSUME CoinsInv, NEW w \in Worlds, op[w].do # "idle"
  PROVE  /\ CoinsTypeOK
         /\ Account(w) \in Accounts /\ InGame(w, Account(w)) /\ op[w].to # Account(w)
         /\ op[w].to \in Accounts \cup {NoAccount} /\ Orderly(w)
         /\ Delta(w) \in Amounts /\ Negated(Delta(w)) \in Amounts
<1>1. CoinsTypeOK /\ op[w] # Idle
  BY DEF CoinsInv, Idle
<1>2. op[w] \in Operations
  BY <1>1 DEF CoinsTypeOK
<1>3. Delta(w) \in Amounts /\ op[w].to \in Accounts \cup {NoAccount}
  BY <1>2 DEF Operations, Delta
<1>4. /\ Account(w) \in Accounts /\ InGame(w, Account(w)) /\ op[w].to # Account(w)
      /\ Orderly(w)
  BY <1>1 DEF CoinsInv, OperationsOrderly, Account
<1>. QED
  BY <1>1, <1>3, <1>4, PlusIsAddition

\* A world in no operation has nothing pending and nothing in transit.
LEMMA NothingPendsWhenIdle ==
  ASSUME NEW w \in Worlds, NEW a \in Accounts
  PROVE  /\ op[w] = Idle => Pending(w, a) = None /\ InTransit(w) = None
         /\ op'[w] = Idle => Pending(w, a)' = None /\ InTransit(w)' = None
  BY CoinsAssumption DEF Idle, Pending, InTransit, Delta

\* Only the operation of the world of a step needs to be looked at.
LEMMA OrderlyKept ==
  ASSUME CoinsInv, NEW w \in Worlds, Only(w), \A v \in Worlds \ {w} : cache'[v] = cache[v],
         op'[w] # Idle => /\ op'[w].account \in Accounts /\ InGame(w, Account(w))'
                          /\ op'[w].to # op'[w].account /\ Orderly(w)'
  PROVE  OperationsOrderly'
<1>. SUFFICES ASSUME NEW v \in Worlds, op'[v] # Idle
              PROVE  /\ op'[v].account \in Accounts /\ InGame(v, Account(v))'
                     /\ op'[v].to # op'[v].account /\ Orderly(v)'
  BY DEF OperationsOrderly, Account
<1>1. CASE v = w
  BY <1>1
<1>2. CASE v # w
  <2>1. op'[v] = op[v] /\ cache'[v] = cache[v]
    BY <1>2 DEF Only
  <2>2. /\ op[v].account \in Accounts /\ InGame(v, op[v].account)
        /\ op[v].to # op[v].account /\ Orderly(v)
    BY <2>1 DEF CoinsInv, OperationsOrderly
  <2>. QED
    BY <2>1, <2>2 DEF InGame, Orderly, Account
<1>. QED
  BY <1>1, <1>2

\* What a world knows of a row is a balance.
LEMMA KnownIsABalance ==
  ASSUME NEW w \in Worlds, NEW a \in Accounts
  PROVE  /\ CoinsTypeOK => Known(w, a) \in Balances
         /\ CoinsTypeOK' => Known(w, a)' \in Balances
<1>1. \A x, y \in Balances : Plus(x, y) \in Balances
  BY DEF Plus, Balances, Coins
<1>. QED
  BY <1>1 DEF Known, CoinsTypeOK

\* A row that stays, or grows, leaves what a world knows of it.
LEMMA KnownStays ==
  ASSUME CoinsTypeOK, CoinsTypeOK', NEW w \in Worlds, NEW a \in Accounts,
         Covers(row'[a], row[a]), spentElsewhere'[w][a] = spentElsewhere[w][a]
  PROVE  Covers(Known(w, a)', Known(w, a))
<1>1. \A x, y, z \in Balances : Covers(x, y) => Covers(Plus(x, z), Plus(y, z))
  BY DEF Covers, Balances, Plus, Coins
<1>. QED
  BY <1>1 DEF Known, CoinsTypeOK

\* Another world never takes what a world knows of: what it takes from the row
\* is added to what was spent elsewhere.
LEMMA CopiesKept ==
  ASSUME CoinsInv, CoinsTypeOK', NEW w \in Worlds, Only(w),
         \A v \in Worlds \ {w} : cache'[v] = cache[v], losses' = 0 => losses = 0,
         \A v \in Worlds \ {w}, a \in Accounts : InGame(v, a) => Covers(Known(v, a)', Known(v, a)),
         losses' = 0 => \A a \in Accounts : InGame(w, a)' => Covered(w, a)'
  PROVE  CopiesCovered'
<1>. SUFFICES ASSUME losses' = 0, NEW v \in Worlds, NEW a \in Accounts, InGame(v, a)'
              PROVE  Covered(v, a)'
  BY DEF CopiesCovered
<1>1. CASE v = w
  BY <1>1
<1>2. CASE v # w
  <2>1. op'[v] = op[v] /\ cache'[v] = cache[v]
    BY <1>2 DEF Only
  <2>2. InGame(v, a) /\ Covered(v, a)
    BY <2>1 DEF InGame, CoinsInv, CopiesCovered
  <2>3. Covers(Known(v, a)', Known(v, a))
    BY <1>2, <2>2
  <2>4. Known(v, a) \in Balances /\ Known(v, a)' \in Balances
    BY KnownIsABalance DEF CoinsInv
  <2>5. cache[v][a] \in Balances /\ Delta(v) \in Amounts
    BY <2>2 DEF CoinsInv, CoinsTypeOK, InGame, Delta, Operations
  <2>6. \A x \in Amounts : Covers(Known(v, a), x) => Covers(Known(v, a)', x)
    BY <2>3, <2>4 DEF Covers, Balances, Amounts
  <2>7. /\ cache[v][a] \in Amounts /\ Plus(cache[v][a], Delta(v)) \in Amounts
        /\ Plus(cache[v][a], Negated(Delta(v))) \in Amounts
    BY <2>5, BalancesAreAmounts, PlusIsAddition
  <2>. QED
    BY <2>1, <2>2, <2>6, <2>7 DEF Covered, Delta
<1>. QED
  BY <1>1, <1>2

\* What a step adds to the row and the history of an account and to what is pending.
Shifts(w, a, r, l, p) ==
    /\ {r, l, p} \subseteq Amounts
    /\ row'[a] = Plus(row[a], r) /\ ledger'[a] = Plus(ledger[a], l)
    /\ Pending(w, a)' = Plus(Pending(w, a), p)

\* Moved, from what a step adds to each of its parts.
LEMMA MovedBy ==
  ASSUME CoinsTypeOK, CoinsTypeOK', NEW w \in Worlds, NEW a \in Accounts,
         NEW r, NEW l, NEW p, Shifts(w, a, r, l, p)
  PROVE  Moved(w, a) = Difference(r, Plus(l, p))
<1>1. /\ row[a] \in Amounts /\ ledger[a] \in Amounts /\ Pending(w, a) \in Amounts
      /\ r \in Amounts /\ l \in Amounts /\ p \in Amounts
  BY BalancesAreAmounts, AmountsOfAnOperation DEF CoinsTypeOK, Shifts
<1>2. \A x, y \in Amounts : Difference(Plus(x, y), x) = y
  BY DEF Difference, Plus, Coins, Amounts
<1>3. /\ Difference(row'[a], row[a]) = r /\ Difference(ledger'[a], ledger[a]) = l
      /\ Difference(Pending(w, a)', Pending(w, a)) = p
  BY <1>1, <1>2 DEF Shifts
<1>. QED
  BY <1>3 DEF Moved

\* What is added to two sides that are compared does not show.
LEMMA StandsStill ==
  ASSUME NEW d \in Amounts
  PROVE  /\ Difference(d, Plus(None, d)) = None /\ Difference(None, Plus(d, Negated(d))) = None
         /\ Difference(None, Plus(None, None)) = None
         /\ Plus(Negated(d), d) = None /\ Plus(d, Negated(d)) = None
  BY DEF Difference, Plus, Negated, None, Coins, Amounts

-----------------------------------------------------------------------------
(* The statements of an operation keep the invariant                       *)

\* The guard of the UPDATE never refuses an amount that is given.
LEMMA DepositsAreAffordable ==
  ASSUME NEW x \in Balances, NEW d \in Amounts, Deposit(d)
  PROVE  Affordable(x, d)
  BY CoinsAssumption DEF Deposit, Balances, Amounts, Affordable, Covers, Plus, None, Coins

\* What the guard lets through leaves a balance.
LEMMA AffordableIsABalance ==
  ASSUME NEW x \in Balances, NEW d \in Amounts, Affordable(x, d)
  PROVE  Plus(x, d) \in Balances
  BY DEF Balances, Amounts, Affordable, Covers, Plus, None, Coins

\* Covers is reflexive, has None below every balance, and is kept by addition.
LEMMA CoversIsAnOrder ==
  /\ \A x \in Amounts : Covers(x, x)
  /\ \A x \in Balances : Covers(x, None)
  /\ \A x, y, z \in Amounts : Covers(x, y) => Covers(Plus(x, z), Plus(y, z))
<1>1. \A x \in Amounts : Covers(x, x)
  BY DEF Covers, Amounts
<1>2. \A x \in Balances : Covers(x, None)
  BY DEF Covers, Balances, None, Coins
<1>3. \A x, y, z \in Amounts : Covers(x, y) => Covers(Plus(x, z), Plus(y, z))
  BY DEF Covers, Amounts, Plus, Coins
<1>. QED
  BY <1>1, <1>2, <1>3

\* No operation is about more than MaxAmount.
LEMMA OrderlyIsWithin ==
  ASSUME NEW w \in Worlds, Orderly(w), Delta(w) \in Amounts
  PROVE  /\ Within(Delta(w), MaxAmount) /\ Within(Negated(Delta(w)), MaxAmount)
         /\ Within(None, MaxAmount)
<1>1. MaxAmount \in Nat
  BY CoinsAssumption
<1>2. Within(Delta(w), MaxAmount)
  BY <1>1 DEF Orderly, Debit, Deposit, Within, Delta, Amounts
<1>. QED
  BY <1>1, <1>2 DEF Within, Negated, None, Coins, Amounts

\* The guarded UPDATE, run once, twice or not at all.
LEMMA ApplyKeepsCoins ==
  ASSUME CoinsInv, NEW w \in Worlds, ApplyCoinDelta(w)
  PROVE  CoinsInv'
<1>0. PICK a, d : a = Account(w) /\ d = Delta(w)
  OBVIOUS
<1>1. /\ op[w].do = "apply" /\ UNCHANGED <<ledger, outside, cache>>
      /\ losses \in Nat
  BY DEF ApplyCoinDelta, CoinsInv
<1>2. /\ CoinsTypeOK /\ a \in Accounts /\ InGame(w, a) /\ op[w].to # a
      /\ op[w].to \in Accounts \cup {NoAccount} /\ Orderly(w)
      /\ d \in Amounts /\ Negated(d) \in Amounts
  BY <1>0, <1>1, UnderWay
<1>3. /\ row[a] \in Balances /\ row[a] \in Amounts /\ row \in [Accounts -> Balances]
      /\ \A x \in Accounts : row[x] \in Amounts /\ ledger[x] \in Amounts
  BY <1>2, BalancesAreAmounts DEF CoinsTypeOK
<1>4. op[w].then = "end" \/ (op[w].to # NoAccount /\ op[w].then = "record") => Affordable(row[a], d)
  BY <1>0, <1>2, <1>3, DepositsAreAffordable DEF Orderly, Delta
<1>5. PICK r \in Amounts :
        /\ row' = [row EXCEPT ![a] = Plus(row[a], r)] /\ Plus(row[a], r) \in Balances
        /\ Unnoticed(w, r) \/ (UNCHANGED spentElsewhere /\ r = None)
        /\ \/ Continue(w, "refresh") /\ r = d /\ losses' = losses
           \/ Continue(w, "refresh") /\ r = Plus(d, d) /\ losses' = losses + 1
           \/ End(w) /\ r = None /\ losses' = losses /\ ~ Refunds(w)
           \/ End(w) /\ r \in {None, d} /\ losses' = losses + 1
  <2>1. row = [row EXCEPT ![a] = Plus(row[a], None)] /\ Plus(row[a], None) = row[a]
        /\ None \in Amounts
    BY <1>3, PlusIsAddition
  <2>2. /\ Changed(w) = Plus(row[a], d)
        /\ Affordable(row[a], d) => Changed(w) \in Balances /\ Changed(w) \in Amounts
    BY <1>0, <1>2, <1>3, AffordableIsABalance, PlusIsAddition DEF Changed
  <2>3. Plus(Changed(w), d) = Plus(row[a], Plus(d, d)) /\ Plus(d, d) \in Amounts
    BY <1>2, <1>3, <2>2, PlusMoves, PlusIsAddition
  <2>4. CASE Answered /\ Affordable(row[a], d) /\ row' = [row EXCEPT ![a] = Changed(w)]
             /\ Unnoticed(w, d) /\ Continue(w, "refresh")
    BY <1>2, <2>2, <2>4 DEF Answered
  <2>5. CASE Answered /\ ~ Affordable(row[a], d) /\ End(w) /\ UNCHANGED <<row, spentElsewhere>>
    BY <1>3, <1>4, <2>1, <2>5 DEF Answered, Refunds
  <2>6. CASE (IF Refunds(w) THEN Loss ELSE Fault) /\ End(w) /\ UNCHANGED <<row, spentElsewhere>>
    BY <1>3, <2>1, <2>6 DEF Loss, Fault
  <2>7. CASE /\ Loss /\ Affordable(row[a], d) /\ Affordable(Changed(w), d)
             /\ row' = [row EXCEPT ![a] = Plus(Changed(w), d)] /\ Unnoticed(w, Plus(d, d))
             /\ Continue(w, "refresh")
    <3>1. Plus(Changed(w), d) \in Balances
      BY <1>2, <2>2, <2>7, AffordableIsABalance
    <3>. QED
      BY <2>3, <2>7, <3>1 DEF Loss
  <2>8. CASE /\ Loss /\ Affordable(row[a], d) /\ ~ Affordable(Changed(w), d)
             /\ row' = [row EXCEPT ![a] = Changed(w)] /\ Unnoticed(w, d) /\ End(w)
    BY <1>2, <2>2, <2>8 DEF Loss
  <2>. QED
    BY <1>0, <2>4, <2>5, <2>6, <2>7, <2>8 DEF ApplyCoinDelta
<1>6. losses' \in Nat /\ (losses' = 0 => losses = 0)
  BY <1>1, <1>5
<1>7. row' \in [Accounts -> Balances] /\ row'[a] = Plus(row[a], r)
      /\ \A x \in Accounts \ {a} : row'[x] = row[x]
  BY <1>2, <1>3, <1>5
<1>8. /\ spentElsewhere' \in [Worlds -> [Accounts -> Balances]]
      /\ spentElsewhere'[w] = spentElsewhere[w]
      /\ \A v \in Worlds \ {w}, x \in Accounts : InGame(v, x) =>
            Covers(Plus(row'[x], spentElsewhere'[v][x]), Plus(row[x], spentElsewhere[v][x]))
  <2>. DEFINE s == Clamped(Negated(r))
  <2>1. s \in Balances
    BY DEF Clamped, Negated, Amounts, Balances, Coins, Max
  <2>2. \A x \in Balances : Plus(x, s) \in Balances
    <3>. HIDE DEF s
    <3>. QED
      BY <2>1 DEF Plus, Balances, Coins
  <2>3. \A x, y \in Balances : Covers(Plus(Plus(x, r), Plus(y, s)), Plus(x, y))
    <3>1. r.regular + s.regular >= 0 /\ r.transferable + s.transferable >= 0
      <4>1. \A i \in Int : Max({- i, 0}) \in Nat /\ i + Max({- i, 0}) >= 0
        <5>1. ASSUME NEW i \in Int PROVE Max({i, 0}) \in Nat /\ Max({i, 0}) >= i
          <6>1. CASE i >= 0
            <7>1. Max({i, 0}) = i
              BY <6>1 DEF Max
            <7>. QED
              BY <6>1, <7>1
          <6>2. CASE i < 0
            <7>1. Max({i, 0}) = 0
              BY <6>2 DEF Max
            <7>. QED
              BY <6>2, <7>1
          <6>. QED
            BY <6>1, <6>2
        <5>2. ASSUME NEW i \in Int PROVE Max({- i, 0}) \in Nat /\ i + Max({- i, 0}) >= 0
          <6>1. - i \in Int
            OBVIOUS
          <6>2. Max({- i, 0}) \in Nat /\ Max({- i, 0}) >= - i
            BY <5>1, <6>1
          <6>. QED
            BY <6>2
        <5>. QED
          BY <5>2
      <4>2. /\ r.regular \in Int /\ r.transferable \in Int
            /\ s.regular = Max({- r.regular, 0}) /\ s.transferable = Max({- r.transferable, 0})
        BY DEF Clamped, Negated, Amounts, Coins
      <4>. HIDE DEF s
      <4>. QED
        BY <4>1, <4>2
    <3>2. r.regular \in Int /\ r.transferable \in Int /\ s.regular \in Nat /\ s.transferable \in Nat
      BY <2>1 DEF Amounts, Balances
    <3>. HIDE DEF s
    <3>. QED
      BY <3>1, <3>2 DEF Covers, Plus, Balances, Coins
  <2>4. \A x \in Balances : Covers(x, x)
    BY BalancesAreAmounts, CoversIsAnOrder
  <2>5. \A v \in Worlds, x \in Accounts :
          row[x] \in Balances /\ spentElsewhere[v][x] \in Balances
          /\ Plus(row[x], spentElsewhere[v][x]) \in Balances
    <3>1. \A x, y \in Balances : Plus(x, y) \in Balances
      BY DEF Plus, Balances, Coins
    <3>. QED
      BY <1>2, <3>1 DEF CoinsTypeOK
  <2>6. CASE Unnoticed(w, r)
    <3>1. spentElsewhere' =
            [v \in Worlds |-> [x \in Accounts |->
                IF v # w /\ x = a /\ InGame(v, x)
                THEN Plus(spentElsewhere[v][x], s) ELSE spentElsewhere[v][x]]]
      BY <1>0, <2>6 DEF Unnoticed
    <3>. HIDE DEF s
    <3>2. spentElsewhere' \in [Worlds -> [Accounts -> Balances]]
      BY <2>2, <2>5, <3>1
    <3>3. spentElsewhere'[w] = spentElsewhere[w]
      BY <1>2, <3>1 DEF CoinsTypeOK
    <3>4. ASSUME NEW v \in Worlds \ {w}, NEW x \in Accounts, InGame(v, x)
          PROVE  Covers(Plus(row'[x], spentElsewhere'[v][x]), Plus(row[x], spentElsewhere[v][x]))
      <4>1. CASE x = a
        BY <1>7, <2>3, <2>5, <3>1, <3>4, <4>1
      <4>2. CASE x # a
        BY <1>7, <2>4, <2>5, <3>1, <4>2
      <4>. QED
        BY <4>1, <4>2
    <3>. QED
      BY <3>2, <3>3, <3>4
  <2>7. CASE UNCHANGED spentElsewhere /\ r = None
    <3>1. \A x \in Accounts : row'[x] = row[x]
      BY <1>3, <1>7, <2>7, PlusIsAddition
    <3>. QED
      BY <1>2, <2>4, <2>5, <2>7, <3>1 DEF CoinsTypeOK
  <2>. QED
    BY <1>5, <2>6, <2>7
<1>9. ASSUME op' \in [Worlds -> Operations] PROVE CoinsTypeOK'
  BY <1>1, <1>2, <1>7, <1>9, <1>8 DEF CoinsTypeOK
<1>10. \A v \in Worlds \ {w}, x \in Accounts : InGame(v, x) => Covers(Known(v, x)', Known(v, x))
  BY <1>8 DEF Known
<1>11. \A x \in Accounts \ {a} :
         Pending(w, x) = None /\ row'[x] = Plus(row[x], None) /\ ledger'[x] = Plus(ledger[x], None)
  BY <1>0, <1>1, <1>3, <1>7, PlusIsAddition DEF Pending, Account
<1>12. Pending(w, a) = IF op[w].then = "end" THEN Negated(d) ELSE None
  BY <1>0, <1>1, <1>2 DEF Pending, Account
<1>13. ledger'[a] = Plus(ledger[a], None) /\ None \in Amounts
  BY <1>1, <1>2, <1>3, PlusIsAddition
<1>14. \A x \in Accounts : losses' = 0 /\ InGame(w, x) => Covers(Known(w, x), cache[w][x])
  BY <1>1, <1>6 DEF CoinsInv, CopiesCovered, Covered
<1>15. CASE Continue(w, "refresh")
  <2>1. /\ op' \in [Worlds -> Operations] /\ Only(w)
        /\ op'[w].do = "refresh" /\ op'[w].then = op[w].then /\ op'[w].account = a
        /\ op'[w].to = op[w].to /\ op'[w].delta = d
    BY <1>0, <1>2, <1>15, Continues DEF OperationsNow, Account, Delta
  <2>2. CoinsTypeOK'
    BY <1>9, <2>1
  <2>7. (r = d /\ losses' = losses) \/ (r = Plus(d, d) /\ losses' = losses + 1)
    <3>1. ~ End(w)
      BY <1>2, <2>1, Ends DEF Idle
    <3>. QED
      BY <1>5, <3>1
  <2>3. OperationsOrderly'
    <3>1. Orderly(w)'
      BY <1>0, <1>1, <1>2, <2>1 DEF Orderly, Delta, Debit, Deposit
    <3>. QED
      BY <1>0, <1>1, <1>2, <2>1, <3>1, OrderlyKept DEF InGame, Account
  <2>4. CopiesCovered'
    <3>1. ASSUME losses' = 0, NEW x \in Accounts, InGame(w, x)'
          PROVE  Covered(w, x)'
      <4>1. Covers(Known(w, x), cache[w][x]) /\ InGame(w, x)
        BY <1>1, <1>14, <3>1 DEF InGame
      <4>2. CASE x = a
        <5>1. r = d /\ cache[w][a] \in Amounts
          BY <1>1, <1>2, <2>7, <3>1, BalancesAreAmounts DEF CoinsTypeOK, InGame
        <5>2. spentElsewhere[w][a] \in Amounts /\ Known(w, a) \in Amounts
          BY <1>2, BalancesAreAmounts, KnownIsABalance DEF CoinsTypeOK
        <5>3. Known(w, a)' = Plus(Known(w, a), d)
          BY <1>2, <1>3, <1>7, <1>8, <5>1, <5>2, PlusMoves DEF Known
        <5>4. Covers(Known(w, a)', Plus(cache[w][a], d))
          BY <1>2, <4>1, <4>2, <5>1, <5>2, <5>3, CoversIsAnOrder
        <5>. QED
          BY <1>1, <2>1, <4>2, <5>4 DEF Covered, Delta
      <4>3. CASE x # a
        <5>1. Known(w, x)' = Known(w, x)
          BY <1>7, <1>8, <4>3 DEF Known
        <5>. QED
          BY <1>1, <2>1, <4>1, <4>3, <5>1 DEF Covered
      <4>. QED
        BY <4>2, <4>3
    <3>. QED
      BY <1>1, <1>6, <1>10, <2>1, <2>2, <3>1, CopiesKept
  <2>5. RowMatchesHistory'
    <3>1. \A x \in Accounts \ {a} : Moved(w, x) = None
      <4>1. ASSUME NEW x \in Accounts \ {a} PROVE Pending(w, x)' = Plus(Pending(w, x), None)
        BY <1>11, <2>1, PlusIsAddition DEF Pending
      <4>2. \A x \in Accounts \ {a} : Shifts(w, x, None, None, None)
        BY <1>11, <1>13, <4>1 DEF Shifts
      <4>. QED
        BY <1>2, <1>13, <2>2, <4>2, MovedBy, StandsStill
    <3>2. Pending(w, a)' = Plus(Pending(w, a), d)
      <4>1. Pending(w, a)' = IF op[w].then = "end" THEN None ELSE d
        BY <2>1 DEF Pending, Delta
      <4>. QED
        BY <1>2, <1>12, <4>1, PlusIsAddition, StandsStill
    <3>3. Moved(w, a) = Difference(r, Plus(None, d))
      <4>1. Shifts(w, a, r, None, d)
        BY <1>2, <1>7, <1>13, <3>2 DEF Shifts
      <4>. QED
        BY <1>2, <2>2, <4>1, MovedBy
    <3>4. CASE r = d /\ losses' = losses
      BY <1>2, <2>1, <2>2, <3>1, <3>3, <3>4, StandsStill, HistoryKept
    <3>5. CASE r = Plus(d, d) /\ losses' = losses + 1
      <4>1. Moved(w, a) = d
        BY <1>2, <3>3, <3>5 DEF Difference, Plus, None, Coins, Amounts
      <4>2. \A x \in Accounts : Within(Moved(w, x), MaxAmount)
        BY <1>2, <3>1, <4>1, OrderlyIsWithin, <1>0
      <4>. QED
        BY <2>1, <2>2, <3>5, <4>2, HistoryKept
    <3>. QED
      BY <2>7, <3>4, <3>5
  <2>6. TransfersConserve'
    <3>1. InTransit(w)' = InTransit(w)
      BY <1>0, <1>1, <2>1 DEF InTransit, Delta
    <3>. QED
      BY <1>1, <1>6, <2>1, <2>2, <3>1, TransfersKept
  <2>. QED
    BY <1>6, <2>2, <2>3, <2>4, <2>5, <2>6 DEF CoinsInv
<1>16. CASE End(w)
  <2>1. op' \in [Worlds -> Operations] /\ Only(w) /\ op'[w] = Idle
    BY <1>2, <1>16, Ends
  <2>2. CoinsTypeOK' /\ OperationsOrderly'
    BY <1>1, <1>9, <2>1, OrderlyKept
  <2>3. r \in {None, d}
        /\ ((losses' = losses /\ ~ Refunds(w) /\ r = None) \/ losses' = losses + 1)
    BY <1>5, <2>1 DEF Continue, Idle
  <2>4. CopiesCovered'
    <3>1. ASSUME losses' = 0, NEW x \in Accounts, InGame(w, x)'
          PROVE  Covered(w, x)'
      <4>1. Covers(Known(w, x), cache[w][x]) /\ r = None
        BY <1>1, <1>14, <2>3, <3>1 DEF InGame
      <4>2. row'[x] = row[x]
        BY <1>3, <1>7, <4>1, PlusIsAddition
      <4>3. Known(w, x)' = Known(w, x)
        BY <1>8, <4>2 DEF Known
      <4>. QED
        BY <1>1, <2>1, <4>1, <4>3 DEF Covered, Idle
    <3>. QED
      BY <1>1, <1>6, <1>10, <2>1, <2>2, <3>1, CopiesKept
  <2>5. RowMatchesHistory'
    <3>. DEFINE p == IF op[w].then = "end" THEN d ELSE None
    <3>1. \A x \in Accounts \ {a} : Moved(w, x) = None
      <4>1. ASSUME NEW x \in Accounts \ {a} PROVE Pending(w, x)' = Plus(Pending(w, x), None)
        BY <1>11, <2>1, PlusIsAddition, NothingPendsWhenIdle
      <4>2. \A x \in Accounts \ {a} : Shifts(w, x, None, None, None)
        BY <1>11, <1>13, <4>1 DEF Shifts
      <4>. QED
        BY <1>2, <1>13, <2>2, <4>2, MovedBy, StandsStill
    <3>2. Pending(w, a)' = Plus(Pending(w, a), p) /\ p \in {None, d}
      <4>1. Pending(w, a)' = None
        BY <1>2, <2>1, NothingPendsWhenIdle
      <4>. QED
        BY <1>2, <1>12, <1>13, <4>1, PlusIsAddition, StandsStill
    <3>3. Moved(w, a) = Difference(r, Plus(None, p))
      <4>1. Shifts(w, a, r, None, p)
        BY <1>2, <1>7, <1>13, <3>2 DEF Shifts
      <4>. QED
        BY <1>2, <2>2, <4>1, MovedBy
    <3>4. CASE losses' = losses /\ ~ Refunds(w) /\ r = None
      <4>1. p = None
        BY <3>4 DEF Refunds
      <4>. QED
        BY <1>2, <2>1, <2>2, <3>1, <3>3, <3>4, <4>1, StandsStill, HistoryKept
    <3>5. CASE losses' = losses + 1
      <4>1. Moved(w, a) \in {None, d, Negated(d)}
        BY <1>2, <2>3, <3>2, <3>3 DEF Difference, Plus, Negated, None, Coins, Amounts
      <4>2. \A x \in Accounts : Within(Moved(w, x), MaxAmount)
        BY <1>2, <3>1, <4>1, OrderlyIsWithin, <1>0
      <4>. QED
        BY <2>1, <2>2, <3>5, <4>2, HistoryKept
    <3>. QED
      BY <2>3, <3>4, <3>5
  <2>6. TransfersConserve'
    <3>1. losses' = 0 => InTransit(w)' = None /\ InTransit(w) = None
      <4>1. ASSUME losses' = 0 PROVE ~ Refunds(w)
        BY <1>1, <2>3, <4>1
      <4>2. InTransit(w)' = None
        BY <1>2, <2>1, NothingPendsWhenIdle
      <4>. QED
        BY <1>1, <4>1, <4>2 DEF InTransit, Refunds
    <3>. QED
      BY <1>1, <1>6, <2>1, <2>2, <3>1, TransfersKept
  <2>. QED
    BY <1>6, <2>2, <2>4, <2>5, <2>6 DEF CoinsInv
<1>. QED
  BY <1>5, <1>15, <1>16

\* Rows, histories and the copies of those in game are amounts.
LEMMA BalancesAreSessions ==
  ASSUME CoinsTypeOK, NEW w \in Worlds, NEW x \in Accounts
  PROVE  /\ row[x] \in Balances /\ row[x] \in Amounts /\ ledger[x] \in Amounts
         /\ cache[w] \in [Accounts -> Balances \cup {NoSession}]
         /\ InGame(w, x) <=> cache[w][x] \in Balances
         /\ cache[w][x] \in Balances => cache[w][x] \in Amounts
  BY BalancesAreAmounts, SessionsAssumption DEF CoinsTypeOK, InGame

\* A step that changes neither rows, nor histories, nor what is under way.
LEMMA StandingStillKeepsSums ==
  ASSUME CoinsInv, CoinsTypeOK', NEW w \in Worlds, Only(w), losses' = losses,
         UNCHANGED <<row, ledger, outside>>,
         \A x \in Accounts : Pending(w, x)' = Pending(w, x), InTransit(w)' = InTransit(w)
  PROVE  RowMatchesHistory' /\ TransfersConserve'
<1>1. CoinsTypeOK
  BY DEF CoinsInv
<1>2. ASSUME NEW x \in Accounts PROVE Moved(w, x) = None
  <2>1. /\ row'[x] = Plus(row[x], None) /\ ledger'[x] = Plus(ledger[x], None)
        /\ Pending(w, x)' = Plus(Pending(w, x), None) /\ None \in Amounts
    <3>1. row[x] \in Amounts /\ ledger[x] \in Amounts /\ Pending(w, x) \in Amounts
      BY <1>1, BalancesAreSessions, AmountsOfAnOperation
    <3>2. Pending(w, x)' = Pending(w, x)
      OBVIOUS
    <3>. QED
      BY <3>1, <3>2, PlusIsAddition
  <2>. QED
    <3>1. Shifts(w, x, None, None, None)
      BY <2>1 DEF Shifts
    <3>. QED
      BY <1>1, <2>1, <3>1, MovedBy, StandsStill
<1>. QED
  BY <1>2, HistoryKept, TransfersKept

\* The read back of the balance, or the shift of the copy if it failed.
LEMMA RefreshKeepsCoins ==
  ASSUME CoinsInv, NEW w \in Worlds, Refresh(w)
  PROVE  CoinsInv'
<1>0. PICK a, d : a = Account(w) /\ d = Delta(w)
  OBVIOUS
<1>1. /\ op[w].do = "refresh" /\ UNCHANGED <<row, ledger, outside>>
      /\ losses' = losses /\ losses \in Nat
  BY DEF Refresh, CoinsInv, Answered, Fault
<1>2. /\ CoinsTypeOK /\ a \in Accounts /\ InGame(w, a) /\ op[w].to # a
      /\ op[w].to \in Accounts \cup {NoAccount} /\ Orderly(w)
      /\ d \in Amounts /\ Negated(d) \in Amounts
  BY <1>0, <1>1, UnderWay
<1>3. PICK balance \in Balances, spent \in Balances :
        /\ cache' = [cache EXCEPT ![w][a] = balance]
        /\ spentElsewhere' = [spentElsewhere EXCEPT ![w][a] = spent]
        /\ Covers(Known(w, a), Plus(cache[w][a], d)) => Covers(Plus(row[a], spent), balance)
  <2>1. row[a] \in Balances /\ cache[w][a] \in Amounts /\ Plus(cache[w][a], d) \in Amounts
    BY <1>2, BalancesAreSessions, PlusIsAddition
  <2>2. Covers(Plus(row[a], None), row[a]) /\ None \in Balances
    BY <2>1, BalancesAreAmounts, CoversIsAnOrder, PlusIsAddition DEF None, Coins, Balances
  <2>3. \A x \in Amounts : Clamped(x) \in Balances
    BY DEF Clamped, Amounts, Balances, Coins, Max
  <2>4. \A x \in Amounts, y \in Balances : Covers(y, x) => Covers(y, Clamped(x))
    BY DEF Clamped, Amounts, Balances, Coins, Max, Covers
  <2>5. CASE /\ cache' = [cache EXCEPT ![w][a] = row[a]]
             /\ spentElsewhere' = [spentElsewhere EXCEPT ![w][a] = None]
    BY <2>1, <2>2, <2>5
  <2>6. CASE /\ cache' = [cache EXCEPT ![w][a] = Clamped(Plus(cache[w][a], d))]
             /\ UNCHANGED spentElsewhere
    <3>1. /\ spentElsewhere[w][a] \in Balances
          /\ spentElsewhere' = [spentElsewhere EXCEPT ![w][a] = spentElsewhere[w][a]]
      BY <1>2, <2>6 DEF CoinsTypeOK
    <3>2. Known(w, a) = Plus(row[a], spentElsewhere[w][a]) /\ Known(w, a) \in Balances
      BY <1>2, KnownIsABalance DEF Known
    <3>. QED
      BY <2>1, <2>3, <2>4, <2>6, <3>1, <3>2
  <2>. QED
    BY <1>0, <1>2, <2>5, <2>6 DEF Refresh, ShiftedBalance
<1>4. PICK do \in {"deliver", "record", "idle"} :
        /\ op' \in [Worlds -> Operations] /\ Only(w)
        /\ op'[w].do = do
        /\ do = "idle" => op'[w] = Idle /\ op[w].then = "end"
        /\ do # "idle" =>
             /\ op'[w].then = op[w].then /\ op'[w].account = a /\ op'[w].to = op[w].to
             /\ op'[w].delta = d /\ op[w].then # "end"
             /\ do = "deliver" <=> op[w].then = "deliver"
  <2>1. CASE op[w].then = "deliver"
    <3>1. Continue(w, "deliver")
      BY <2>1 DEF Refresh
    <3>. QED
      BY <1>0, <1>2, <2>1, <3>1, Continues DEF OperationsNow, Account, Delta
  <2>2. CASE op[w].then \in {"record", "send"}
    <3>1. Continue(w, "record")
      BY <2>2 DEF Refresh
    <3>. QED
      BY <1>0, <1>2, <2>2, <3>1, Continues DEF OperationsNow, Account, Delta
  <2>3. CASE op[w].then = "end"
    <3>1. End(w)
      BY <2>3 DEF Refresh
    <3>. QED
      BY <1>2, <2>3, <3>1, Ends DEF Idle
  <2>. QED
    BY <1>2, <2>1, <2>2, <2>3 DEF Orderly
<1>5. /\ cache' \in [Worlds -> [Accounts -> Balances \cup {NoSession}]]
      /\ cache'[w][a] = balance
      /\ \A x \in Accounts \ {a} : cache'[w][x] = cache[w][x]
      /\ \A v \in Worlds \ {w} : cache'[v] = cache[v]
      /\ spentElsewhere' \in [Worlds -> [Accounts -> Balances]]
      /\ spentElsewhere'[w][a] = spent
      /\ \A x \in Accounts \ {a} : spentElsewhere'[w][x] = spentElsewhere[w][x]
      /\ \A v \in Worlds \ {w} : spentElsewhere'[v] = spentElsewhere[v]
  BY <1>2, <1>3 DEF CoinsTypeOK
<1>6. CoinsTypeOK'
  BY <1>1, <1>2, <1>4, <1>5 DEF CoinsTypeOK
<1>7. \A v \in Worlds, x \in Accounts : InGame(v, x)' => InGame(v, x)
  BY <1>2, <1>5 DEF InGame
<1>8. OperationsOrderly'
  <2>1. InGame(w, a)'
    BY <1>3, <1>5, SessionsAssumption DEF InGame
  <2>2. op'[w] # Idle => Orderly(w)'
    BY <1>0, <1>1, <1>2, <1>4 DEF Orderly, Debit, Deposit, Delta
  <2>3. op'[w] # Idle => /\ op'[w].account \in Accounts /\ InGame(w, Account(w))'
                         /\ op'[w].to # op'[w].account
    BY <1>2, <1>4, <2>1 DEF InGame, Account
  <2>. QED
    BY <1>4, <1>5, <2>2, <2>3, OrderlyKept
<1>9. CopiesCovered'
  <2>1. \A v \in Worlds \ {w}, x \in Accounts : InGame(v, x) => Covers(Known(v, x)', Known(v, x))
    BY <1>1, <1>2, <1>5, <1>6, BalancesAreSessions, CoversIsAnOrder, KnownStays
  <2>2. ASSUME losses' = 0, NEW x \in Accounts, InGame(w, x)'
        PROVE  Covered(w, x)'
    <3>1. Covered(w, x)
      BY <1>1, <1>7, <2>2 DEF CoinsInv, CopiesCovered
    <3>2. Covers(Known(w, x)', cache'[w][x])
      <4>1. CASE x = a
        <5>1. Known(w, a)' = Plus(row[a], spent)
          BY <1>1, <1>5 DEF Known
        <5>. QED
          BY <1>0, <1>1, <1>3, <1>5, <3>1, <4>1, <5>1 DEF Covered, Account
      <4>2. CASE x # a
        <5>1. Known(w, x)' = Known(w, x)
          BY <1>1, <1>5, <4>2 DEF Known
        <5>. QED
          BY <1>0, <1>1, <1>5, <3>1, <4>2, <5>1 DEF Covered, Account
      <4>. QED
        BY <4>1, <4>2
    <3>. QED
      BY <1>1, <1>4, <3>2 DEF Covered
  <2>. QED
    BY <1>1, <1>4, <1>5, <1>6, <2>1, <2>2, CopiesKept
<1>10. \A x \in Accounts : Pending(w, x)' = Pending(w, x)
  <2>. SUFFICES ASSUME NEW x \in Accounts PROVE Pending(w, x)' = Pending(w, x)
    OBVIOUS
  <2>1. Pending(w, x) = IF x = a /\ op[w].then # "end" THEN d ELSE None
    BY <1>0, <1>1 DEF Pending, Account
  <2>2. CASE do = "idle"
    BY <1>4, <2>1, <2>2, NothingPendsWhenIdle
  <2>3. CASE do # "idle"
    BY <1>4, <2>1, <2>3 DEF Pending, Delta
  <2>. QED
    BY <2>2, <2>3
<1>11. InTransit(w)' = InTransit(w)
  <2>1. CASE do = "idle"
    BY <1>1, <1>2, <1>4, <2>1, NothingPendsWhenIdle DEF InTransit, Orderly
  <2>2. CASE do # "idle"
    BY <1>0, <1>1, <1>4, <2>2 DEF InTransit, Delta
  <2>. QED
    BY <2>1, <2>2
<1>. QED
  BY <1>1, <1>4, <1>6, <1>7, <1>8, <1>9, <1>10, <1>11,
     StandingStillKeepsSums DEF CoinsInv

\* The delivery, or the beginning of its refund.
LEMMA DeliverKeepsCoins ==
  ASSUME CoinsInv, NEW w \in Worlds, Deliver(w)
  PROVE  CoinsInv'
<1>0. PICK a, d : a = Account(w) /\ d = Delta(w)
  OBVIOUS
<1>1. /\ op[w].do = "deliver" /\ UNCHANGED <<row, ledger, outside, cache, losses, spentElsewhere>>
      /\ losses \in Nat
  BY DEF Deliver, CoinsInv
<1>2. /\ CoinsTypeOK /\ a \in Accounts /\ InGame(w, a) /\ op[w].to = NoAccount
      /\ op[w].then = "deliver" /\ d \in Amounts /\ Debit(d) /\ a # NoAccount
  BY <1>0, <1>1, UnderWay, CoinsAssumption DEF Orderly, Delta
<1>3. PICK do \in {"record", "apply"} :
        /\ op' \in [Worlds -> Operations] /\ Only(w)
        /\ op'[w].do = do /\ op'[w].account = a /\ op'[w].to = NoAccount
        /\ do = "record" => op'[w].then = "deliver" /\ op'[w].delta = d
        /\ do = "apply" => op'[w].then = "end" /\ op'[w].delta = Negated(d)
  <2>1. CASE Continue(w, "record")
    BY <1>0, <1>2, <2>1, Continues DEF OperationsNow, Account, Delta
  <2>2. CASE Begin(w, a, NoAccount, Negated(d), "end")
    <3>1. Negated(d) \in Amounts
      BY <1>2, PlusIsAddition
    <3>2. /\ op' \in [Worlds -> Operations] /\ Only(w)
          /\ op'[w].do = "apply" /\ op'[w].then = "end" /\ op'[w].account = a
          /\ op'[w].to = NoAccount /\ op'[w].delta = Negated(d)
      BY <1>2, <2>2, <3>1, Begins
    <3>. QED
      BY <3>2
  <2>. QED
    BY <1>0, <2>1, <2>2 DEF Deliver
<1>4. CoinsTypeOK'
  BY <1>1, <1>2, <1>3 DEF CoinsTypeOK
<1>5. OperationsOrderly'
  <2>1. Deposit(Negated(d))
    BY <1>2, CoinsAssumption DEF Debit, Deposit, Negated, Amounts, Coins
  <2>2. Orderly(w)'
    BY <1>2, <1>3, <2>1 DEF Orderly, Debit, Deposit
  <2>. QED
    BY <1>1, <1>2, <1>3, <2>2, OrderlyKept DEF InGame, Account
<1>6. CopiesCovered'
  <2>1. \A v \in Worlds \ {w}, x \in Accounts : InGame(v, x) => Covers(Known(v, x)', Known(v, x))
    BY <1>1, <1>2, <1>4, BalancesAreSessions, CoversIsAnOrder, KnownStays
  <2>2. ASSUME losses' = 0, NEW x \in Accounts, InGame(w, x)'
        PROVE  Covered(w, x)'
    <3>1. Covered(w, x)
      BY <1>1, <2>2 DEF CoinsInv, CopiesCovered, InGame
    <3>. QED
      BY <1>1, <1>3, <3>1 DEF Covered, Known
  <2>. QED
    BY <1>1, <1>3, <1>4, <2>1, <2>2, CopiesKept
<1>7. \A x \in Accounts : Pending(w, x)' = Pending(w, x)
  <2>. SUFFICES ASSUME NEW x \in Accounts PROVE Pending(w, x)' = Pending(w, x)
    OBVIOUS
  <2>1. Pending(w, x) = IF x = a THEN d ELSE None
    BY <1>0, <1>1, <1>2 DEF Pending, Account
  <2>2. Negated(Negated(d)) = d
    BY <1>2 DEF Negated, Amounts, Coins
  <2>. QED
    BY <1>2, <1>3, <2>1, <2>2 DEF Pending, Delta
<1>8. InTransit(w)' = InTransit(w)
  BY <1>1, <1>2, <1>3 DEF InTransit
<1>. QED
  BY <1>1, <1>3, <1>4, <1>5, <1>6, <1>7, <1>8,
     StandingStillKeepsSums DEF CoinsInv

\* The INSERT of a record of amount d for account b, in a step after which
\* nothing of it is pending.
LEMMA RecordKeepsSums ==
  ASSUME CoinsInv, CoinsTypeOK', NEW w \in Worlds, Only(w), NEW b \in Accounts, NEW d \in Amounts,
         Recorded(b, d), row' = row, Within(d, MaxAmount), Within(Negated(d), MaxAmount),
         Pending(w, b) = d, Pending(w, b)' = None,
         \A x \in Accounts \ {b} : Pending(w, x)' = Pending(w, x),
         Plus(outside', InTransit(w)') = Plus(Plus(outside, InTransit(w)), d)
  PROVE  RowMatchesHistory' /\ TransfersConserve'
<1>1. CoinsTypeOK /\ losses \in Nat
  BY DEF CoinsInv
<1>2. ledger[b] \in Amounts /\ row[b] \in Amounts /\ Negated(d) \in Amounts /\ None \in Amounts
      /\ Plus(d, d) \in Amounts
  BY <1>1, BalancesAreSessions, PlusIsAddition
<1>3. PICK l \in Amounts :
        /\ ledger' = [ledger EXCEPT ![b] = Plus(ledger[b], l)]
        /\ (l = d /\ losses' = losses) \/ (l \in {Plus(d, d), None} /\ losses' = losses + 1)
  <2>1. CASE Answered /\ ledger' = [ledger EXCEPT ![b] = Plus(ledger[b], d)]
    BY <2>1 DEF Answered
  <2>2. CASE Loss /\ ledger' = [ledger EXCEPT ![b] = Plus(ledger[b], Plus(d, d))]
    BY <1>2, <2>2 DEF Loss
  <2>3. CASE Loss /\ UNCHANGED ledger
    <3>1. Plus(ledger[b], None) = ledger[b]
      BY <1>2, PlusIsAddition
    <3>2. ledger' = [ledger EXCEPT ![b] = Plus(ledger[b], None)]
      BY <1>1, <2>3, <3>1 DEF CoinsTypeOK
    <3>. QED
      BY <1>2, <2>3, <3>2 DEF Loss
  <2>. QED
    BY <2>1, <2>2, <2>3 DEF Recorded
<1>4. ledger'[b] = Plus(ledger[b], l) /\ \A x \in Accounts \ {b} : ledger'[x] = ledger[x]
  BY <1>1, <1>3 DEF CoinsTypeOK
<1>5. \A x \in Accounts \ {b} : Moved(w, x) = None
  <2>. SUFFICES ASSUME NEW x \in Accounts \ {b} PROVE Moved(w, x) = None
    OBVIOUS
  <2>1. row[x] \in Amounts /\ ledger[x] \in Amounts /\ Pending(w, x) \in Amounts
    BY <1>1, BalancesAreSessions, AmountsOfAnOperation
  <2>2. /\ row'[x] = Plus(row[x], None) /\ ledger'[x] = Plus(ledger[x], None)
        /\ Pending(w, x)' = Plus(Pending(w, x), None)
    BY <1>4, <2>1, PlusIsAddition
  <2>3. Shifts(w, x, None, None, None)
    BY <1>2, <2>2 DEF Shifts
  <2>. QED
    BY <1>1, <1>2, <2>3, MovedBy, StandsStill
<1>6. Moved(w, b) = Difference(None, Plus(l, Negated(d)))
  <2>1. row'[b] = Plus(row[b], None) /\ Pending(w, b)' = Plus(Pending(w, b), Negated(d))
    BY <1>2, PlusIsAddition, StandsStill
  <2>2. Shifts(w, b, None, l, Negated(d))
    BY <1>2, <1>4, <2>1 DEF Shifts
  <2>. QED
    BY <1>1, <2>2, MovedBy
<1>7. RowMatchesHistory'
  <2>1. CASE l = d /\ losses' = losses
    <3>1. \A x \in Accounts : Moved(w, x) = None
      BY <1>5, <1>6, <2>1, StandsStill
    <3>. QED
      BY <2>1, <3>1, HistoryKept
  <2>2. CASE l \in {Plus(d, d), None} /\ losses' = losses + 1
    <3>1. Moved(w, b) \in {d, Negated(d)}
      BY <1>6, <2>2 DEF Difference, Plus, Negated, None, Coins, Amounts
    <3>2. Within(None, MaxAmount)
      BY CoinsAssumption DEF Within, None, Coins
    <3>3. \A x \in Accounts : Within(Moved(w, x), MaxAmount)
      BY <1>5, <3>1, <3>2
    <3>. QED
      BY <2>2, <3>3, HistoryKept
  <2>. QED
    BY <1>3, <2>1, <2>2
<1>8. TransfersConserve'
  <2>1. losses' = 0 => losses = 0 /\ l = d
    BY <1>1, <1>3
  <2>2. ASSUME losses' = 0
        PROVE  Level(ledger[b], outside, InTransit(w), ledger'[b], outside', InTransit(w)')
    <3>1. /\ outside \in Amounts /\ outside' \in Amounts
          /\ InTransit(w) \in Amounts /\ InTransit(w)' \in Amounts
      BY <1>1, TransitsAreAmounts DEF CoinsTypeOK
    <3>2. Plus(ledger'[b], Plus(outside, InTransit(w)))
            = Plus(Plus(ledger[b], d), Plus(outside, InTransit(w)))
      BY <1>4, <2>1, <2>2
    <3>3. Plus(outside, InTransit(w)) \in Amounts
      BY <3>1, PlusIsAddition
    <3>4. Plus(Plus(ledger[b], d), Plus(outside, InTransit(w)))
            = Plus(ledger[b], Plus(Plus(outside, InTransit(w)), d))
      <4>. DEFINE x == Plus(outside, InTransit(w))
      <4>1. Plus(Plus(ledger[b], d), x) = Plus(Plus(ledger[b], x), d)
            /\ Plus(Plus(ledger[b], x), d) = Plus(ledger[b], Plus(x, d))
        <5>. HIDE DEF x
        <5>1. x \in Amounts
          BY <3>3 DEF x
        <5>. QED
          BY <1>2, <5>1, PlusMoves
      <4>. QED
        BY <4>1
    <3>5. ledger'[b] \in Amounts
      BY <1>2, <1>4, PlusType
    <3>. QED
      BY <1>2, <3>1, <3>2, <3>4, <3>5 DEF Level
  <2>. QED
    BY <1>4, <2>1, <2>2, TransfersKept
<1>. QED
  BY <1>7, <1>8

\* The INSERT of a record leaves amounts.
LEMMA RecordedType ==
  ASSUME CoinsTypeOK, NEW b \in Accounts, NEW d \in Amounts, Recorded(b, d)
  PROVE  ledger' \in [Accounts -> Amounts]
<1>1. /\ ledger \in [Accounts -> Amounts] /\ Plus(d, d) \in Amounts
      /\ Plus(ledger[b], d) \in Amounts /\ Plus(ledger[b], Plus(d, d)) \in Amounts
  <2>1. ledger \in [Accounts -> Amounts] /\ ledger[b] \in Amounts /\ Plus(d, d) \in Amounts
    BY PlusType DEF CoinsTypeOK
  <2>. QED
    BY <2>1, PlusType
<1>. QED
  BY <1>1 DEF Recorded

\* The record of an operation: what was pending becomes history.
LEMMA RecordKeepsCoins ==
  ASSUME CoinsInv, NEW w \in Worlds, Record(w)
  PROVE  CoinsInv'
<1>0. PICK a, d : a = Account(w) /\ d = Delta(w)
  OBVIOUS
<1>1. /\ op[w].do = "record" /\ UNCHANGED <<row, cache, spentElsewhere>> /\ Recorded(a, d)
      /\ losses' \in Nat /\ (losses' = 0 => losses = 0)
  BY <1>0 DEF Record, CoinsInv, Recorded, Answered, Loss
<1>2. /\ CoinsTypeOK /\ a \in Accounts /\ InGame(w, a) /\ op[w].to # a /\ Orderly(w)
      /\ op[w].to \in Accounts \cup {NoAccount}
      /\ d \in Amounts /\ Negated(d) \in Amounts /\ a # NoAccount
  BY <1>0, <1>1, UnderWay, CoinsAssumption
<1>3. /\ Within(d, MaxAmount) /\ Within(Negated(d), MaxAmount)
  BY <1>0, <1>2, OrderlyIsWithin
<1>4. /\ op' \in [Worlds -> Operations] /\ Only(w)
      /\ \/ op'[w] = Idle
         \/ /\ op'[w].do = "credit" /\ op'[w].then = "send" /\ op'[w].account = a
            /\ op'[w].to = op[w].to /\ op'[w].delta = d
            /\ op[w].to # NoAccount /\ op[w].then = "send"
  <2>1. CASE End(w)
    BY <1>2, <2>1, Ends
  <2>2. CASE Continue(w, "credit") /\ op[w].to # NoAccount /\ op[w].then = "send"
    BY <1>0, <1>2, <2>2, Continues DEF OperationsNow, Account, Delta
  <2>. QED
    BY <2>1, <2>2 DEF Record
<1>5. outside' \in Amounts
  <2>1. outside \in Amounts /\ Plus(outside, d) \in Amounts
    BY <1>2, PlusType DEF CoinsTypeOK
  <2>. QED
    BY <1>0, <2>1 DEF Record
<1>6. ledger' \in [Accounts -> Amounts]
  BY <1>1, <1>2, RecordedType
<1>7. CoinsTypeOK'
  BY <1>1, <1>2, <1>4, <1>5, <1>6 DEF CoinsTypeOK
<1>8. OperationsOrderly'
  <2>1. op'[w] # Idle => Orderly(w)'
    BY <1>0, <1>2, <1>4 DEF Orderly, Debit, Deposit, Delta
  <2>. QED
    BY <1>1, <1>2, <1>4, <2>1, OrderlyKept DEF InGame, Account
<1>9. CopiesCovered'
  <2>1. \A v \in Worlds \ {w}, x \in Accounts : InGame(v, x) => Covers(Known(v, x)', Known(v, x))
    BY <1>1, <1>2, <1>7, BalancesAreSessions, CoversIsAnOrder, KnownStays
  <2>2. ASSUME losses' = 0, NEW x \in Accounts, InGame(w, x)'
        PROVE  Covered(w, x)'
    <3>1. Covered(w, x)
      BY <1>1, <2>2 DEF CoinsInv, CopiesCovered, InGame
    <3>2. op'[w].do \in {"idle", "credit"}
      BY <1>4 DEF Idle
    <3>. QED
      BY <1>1, <3>1, <3>2 DEF Covered, Known
  <2>. QED
    BY <1>1, <1>4, <1>7, <2>1, <2>2, CopiesKept
<1>10. Pending(w, a) = d /\ op[w].then # "end"
  BY <1>0, <1>1, <1>2 DEF Pending, Account, Orderly
<1>11. \A x \in Accounts \ {a} : Pending(w, x) = None
  BY <1>0, <1>1 DEF Pending, Account
<1>12. \A x \in Accounts : Pending(w, x)' = None
  <2>1. op'[w] = Idle => \A x \in Accounts : Pending(w, x)' = None
    BY NothingPendsWhenIdle
  <2>2. op'[w].do = "credit" => \A x \in Accounts : Pending(w, x)' = None
    BY DEF Pending
  <2>. QED
    BY <1>4, <2>1, <2>2
<1>13. Plus(outside', InTransit(w)') = Plus(Plus(outside, InTransit(w)), d)
  <2>1. outside \in Amounts /\ None \in Amounts
    BY <1>2, PlusIsAddition DEF CoinsTypeOK
  <2>2. CASE op[w].to = NoAccount
    <3>1. outside' = Plus(outside, d) /\ InTransit(w) = None
      BY <1>0, <1>1, <2>2 DEF Record, InTransit
    <3>2. InTransit(w)' = None
      BY <1>2, <1>4, <2>2, NothingPendsWhenIdle
    <3>3. Plus(outside, d) \in Amounts
      BY <1>2, <2>1, PlusIsAddition
    <3>. QED
      BY <2>1, <3>1, <3>2, <3>3, PlusIsAddition
  <2>3. CASE op[w].to # NoAccount /\ op[w].then = "send"
    <3>1. outside' = outside /\ InTransit(w) = None /\ op'[w].do = "credit"
      <4>1. Continue(w, "credit")
        BY <2>3 DEF Record
      <4>2. op'[w].do = "credit"
        BY <1>2, <4>1, Continues DEF OperationsNow
      <4>. QED
        BY <1>1, <2>3, <4>2 DEF Record, InTransit
    <3>2. InTransit(w)' = d
      BY <1>4, <3>1 DEF InTransit, Delta, Idle
    <3>. QED
      BY <2>1, <3>1, <3>2, PlusIsAddition
  <2>4. CASE op[w].to # NoAccount /\ op[w].then # "send"
    <3>1. outside' = outside /\ InTransit(w) = Negated(d)
      BY <1>0, <1>1, <1>2, <2>4 DEF Record, InTransit, Orderly
    <3>2. InTransit(w)' = None
      BY <1>2, <1>4, <2>4, NothingPendsWhenIdle
    <3>3. Plus(Plus(outside, Negated(d)), d) = Plus(outside, Plus(Negated(d), d))
      BY <1>2, <2>1, PlusMoves
    <3>. QED
      BY <1>2, <3>1, <3>2, <3>3, StandsStill
  <2>. QED
    BY <2>2, <2>3, <2>4
<1>14. RowMatchesHistory' /\ TransfersConserve'
  BY <1>1, <1>2, <1>3, <1>4, <1>7, <1>10, <1>11, <1>12, <1>13, RecordKeepsSums
<1>. QED
  BY <1>1, <1>7, <1>8, <1>9, <1>14 DEF CoinsInv

\* The credit of a transfer, run once, twice or failed, with the refund it begins.
LEMMA CreditKeepsCoins ==
  ASSUME CoinsInv, NEW w \in Worlds, Credit(w)
  PROVE  CoinsInv'
<1>0. PICK a, b, d : a = Account(w) /\ b = op[w].to /\ d = Delta(w)
  OBVIOUS
<1>. DEFINE g == Negated(d)
<1>1. /\ op[w].do = "credit" /\ UNCHANGED <<ledger, outside, cache, spentElsewhere>>
      /\ losses' \in Nat /\ (losses' = 0 => losses = 0)
  BY DEF Credit, CoinsInv, Answered, Loss, Fault
<1>2. /\ CoinsTypeOK /\ a \in Accounts /\ InGame(w, a) /\ b # a /\ b \in Accounts
      /\ Orderly(w) /\ op[w].then = "send" /\ Debit(d)
      /\ d \in Amounts /\ g \in Amounts
  BY <1>0, <1>1, UnderWay DEF Orderly, Delta
<1>3. /\ Within(d, MaxAmount) /\ Within(g, MaxAmount) /\ Within(None, MaxAmount)
  BY <1>0, <1>2, OrderlyIsWithin
<1>4. Deposit(g) /\ Negated(g) = d
  BY <1>2, CoinsAssumption DEF Debit, Deposit, Negated, Amounts, Coins
<1>5. /\ row \in [Accounts -> Balances] /\ row[b] \in Balances /\ row[b] \in Amounts
      /\ Plus(g, g) \in Amounts /\ None \in Amounts
  BY <1>2, BalancesAreSessions, PlusType, PlusIsAddition DEF CoinsTypeOK
<1>6. PICK r \in Amounts :
        /\ row' = [row EXCEPT ![b] = Plus(row[b], r)] /\ Plus(row[b], r) \in Balances
        /\ Covers(Plus(row[b], r), row[b])
        /\ \/ Continue(w, "gift") /\ r = g /\ losses' = losses
           \/ Continue(w, "gift") /\ r = Plus(g, g) /\ losses' = losses + 1
           \/ Begin(w, a, b, g, "record") /\ r = None /\ losses' = losses
  <2>. HIDE DEF g
  <2>1. \A x \in Balances : Plus(x, g) \in Balances /\ Covers(Plus(x, g), x)
    <3>1. \A x \in Balances : Plus(x, g) \in Balances
      BY <1>2, <1>4, DepositsAreAffordable, AffordableIsABalance
    <3>2. \A x \in Balances : Covers(Plus(x, g), x)
      BY <1>2, <1>4, CoinsAssumption DEF Balances, Amounts, Deposit, Plus, Covers, Coins
    <3>. QED
      BY <3>1, <3>2
  <2>2. Plus(row[b], None) = row[b] /\ row = [row EXCEPT ![b] = Plus(row[b], None)]
        /\ Covers(row[b], row[b])
    BY <1>5, PlusIsAddition, CoversIsAnOrder
  <2>3. Plus(Plus(row[b], g), g) = Plus(row[b], Plus(g, g))
    BY <1>2, <1>5, PlusMoves
  <2>4. CASE Answered /\ row' = [row EXCEPT ![b] = Plus(row[b], g)] /\ Continue(w, "gift")
    BY <1>2, <1>5, <2>1, <2>4 DEF Answered
  <2>5. CASE Loss /\ row' = [row EXCEPT ![b] = Plus(row[b], Plus(g, g))] /\ Continue(w, "gift")
    <3>1. Plus(row[b], Plus(g, g)) \in Balances
      BY <1>5, <2>1, <2>3
    <3>2. Covers(Plus(row[b], Plus(g, g)), row[b])
      BY <1>2, <1>4, <1>5, CoinsAssumption DEF Balances, Amounts, Deposit, Plus, Covers, Coins
    <3>. QED
      BY <1>5, <2>5, <3>1, <3>2 DEF Loss
  <2>6. CASE Fault /\ Begin(w, a, b, g, "record") /\ UNCHANGED row
    BY <1>5, <2>2, <2>6 DEF Fault
  <2>. QED
    BY <1>0, <2>4, <2>5, <2>6 DEF Credit, Refund, g
<1>7. row' \in [Accounts -> Balances] /\ row'[b] = Plus(row[b], r)
      /\ \A x \in Accounts \ {b} : row'[x] = row[x]
  BY <1>2, <1>5, <1>6
<1>8. ASSUME op' \in [Worlds -> Operations] PROVE CoinsTypeOK'
  BY <1>1, <1>2, <1>7, <1>8 DEF CoinsTypeOK
<1>9. \A x \in Accounts : Covers(row'[x], row[x])
  BY <1>2, <1>6, <1>7, BalancesAreSessions, CoversIsAnOrder
<1>10. /\ InTransit(w) = d /\ \A x \in Accounts : Pending(w, x) = None
  BY <1>0, <1>1 DEF Pending, InTransit
<1>11. /\ \A x \in Accounts \ {b} : row'[x] = Plus(row[x], None)
       /\ \A x \in Accounts : ledger'[x] = Plus(ledger[x], None)
  BY <1>1, <1>2, <1>7, BalancesAreSessions, PlusIsAddition
<1>12. /\ op' \in [Worlds -> Operations] /\ Only(w)
       /\ op'[w].account = a /\ op'[w].to = b
       /\ \/ /\ op'[w].do = "gift" /\ op'[w].then = "send" /\ op'[w].delta = d
             /\ ((r = g /\ losses' = losses) \/ (r = Plus(g, g) /\ losses' = losses + 1))
          \/ /\ op'[w].do = "apply" /\ op'[w].then = "record" /\ op'[w].delta = g
             /\ r = None /\ losses' = losses
  <2>1. CASE Continue(w, "gift")
    <3>1. /\ op' \in [Worlds -> Operations] /\ Only(w) /\ op'[w].do = "gift"
          /\ op'[w].then = "send" /\ op'[w].account = a /\ op'[w].to = b /\ op'[w].delta = d
      BY <1>0, <1>2, <2>1, Continues DEF OperationsNow, Account, Delta
    <3>2. ~ Begin(w, a, b, g, "record")
      BY <1>2, <3>1, Begins
    <3>. QED
      BY <1>6, <3>1, <3>2
  <2>2. CASE Begin(w, a, b, g, "record") /\ r = None /\ losses' = losses
    BY <1>2, <2>2, Begins
  <2>. QED
    BY <1>6, <2>1, <2>2
<1>13. OperationsOrderly'
  <2>1. Orderly(w)'
    BY <1>2, <1>4, <1>12 DEF Orderly, Debit, Deposit
  <2>. QED
    BY <1>1, <1>2, <1>12, <2>1, OrderlyKept DEF InGame, Account
<1>13a. CoinsTypeOK'
  BY <1>8, <1>12
<1>13b. \A v \in Worlds, x \in Accounts : Covers(Known(v, x)', Known(v, x))
  BY <1>1, <1>2, <1>9, <1>13a, KnownStays
<1>14. CopiesCovered'
  <2>1. ASSUME losses' = 0, NEW x \in Accounts, InGame(w, x)'
        PROVE  Covered(w, x)'
    <3>1. Covers(Known(w, x), cache[w][x])
      BY <1>1, <2>1 DEF CoinsInv, CopiesCovered, Covered, InGame
    <3>2. /\ Known(w, x) \in Balances /\ Known(w, x)' \in Balances /\ cache[w][x] \in Balances
          /\ Known(w, x) \in Amounts /\ cache[w][x] \in Amounts
      BY <1>1, <1>2, <1>13a, <2>1, BalancesAreSessions, BalancesAreAmounts, KnownIsABalance DEF InGame
    <3>3. Covers(Known(w, x)', cache[w][x])
      BY <1>13b, <3>1, <3>2 DEF Covers, Balances
    <3>4. CASE op'[w].do = "apply"
      BY <1>1, <3>3, <3>4 DEF Covered
    <3>5. CASE op'[w].do = "gift" /\ x # b
      BY <1>1, <1>12, <3>3, <3>5 DEF Covered
    <3>6. CASE op'[w].do = "gift" /\ x = b
      <4>1. r = g
        BY <1>1, <1>12, <2>1, <3>6 DEF CoinsInv
      <4>2. Known(w, b)' = Plus(Known(w, b), g)
        <5>1. spentElsewhere[w][b] \in Amounts
          BY <1>2, BalancesAreAmounts DEF CoinsTypeOK
        <5>. QED
          BY <1>1, <1>2, <1>5, <1>7, <4>1, <5>1, PlusMoves DEF Known
      <4>3. Covers(Known(w, b)', Plus(cache[w][b], g))
        BY <1>2, <3>1, <3>2, <3>6, <4>2, CoversIsAnOrder
      <4>. QED
        BY <1>1, <1>12, <3>6, <4>3 DEF Covered, Delta
    <3>. QED
      BY <1>12, <3>4, <3>5, <3>6
  <2>. QED
    BY <1>1, <1>12, <1>13a, <1>13b, <2>1, CopiesKept
<1>15. RowMatchesHistory'
  <2>. DEFINE p == IF op'[w].do = "gift" THEN g ELSE None
  <2>1. \A x \in Accounts \ {b} : Moved(w, x) = None
    <3>. SUFFICES ASSUME NEW x \in Accounts \ {b} PROVE Moved(w, x) = None
      OBVIOUS
    <3>1. Pending(w, x)' = Plus(Pending(w, x), None)
      BY <1>5, <1>10, <1>12, PlusIsAddition DEF Pending
    <3>2. Shifts(w, x, None, None, None)
      BY <1>5, <1>11, <3>1 DEF Shifts
    <3>. QED
      BY <1>2, <1>5, <1>8, <1>12, <3>2, MovedBy, StandsStill
  <2>2. Moved(w, b) = Difference(r, Plus(None, p))
    <3>1. Pending(w, b)' = p
      BY <1>2, <1>12 DEF Pending, Delta
    <3>2. p \in Amounts /\ Plus(None, p) = p
      BY <1>2, <1>5, PlusIsAddition
    <3>3. Shifts(w, b, r, None, p)
      BY <1>2, <1>5, <1>7, <1>10, <1>11, <3>1, <3>2 DEF Shifts
    <3>. QED
      BY <1>2, <1>8, <1>12, <3>3, MovedBy
  <2>3. CASE r = p /\ losses' = losses
    <3>1. p \in Amounts
      BY <1>2, <1>5
    <3>2. Moved(w, b) = None
      BY <2>2, <2>3, <3>1, StandsStill
    <3>3. \A x \in Accounts : Moved(w, x) = None
      BY <2>1, <3>2
    <3>. QED
      BY <1>8, <1>12, <2>3, <3>3, HistoryKept
  <2>4. CASE r = Plus(g, g) /\ p = g /\ losses' = losses + 1
    <3>1. Moved(w, b) = g
      BY <1>2, <2>2, <2>4 DEF Difference, Plus, None, Coins, Amounts
    <3>2. \A x \in Accounts : Within(Moved(w, x), MaxAmount)
      BY <1>3, <2>1, <3>1
    <3>. QED
      BY <1>8, <1>12, <2>4, <3>2, HistoryKept
  <2>. QED
    BY <1>12, <2>3, <2>4
<1>16. TransfersConserve'
  <2>1. InTransit(w)' = d
    BY <1>2, <1>4, <1>12, CoinsAssumption DEF InTransit, Delta
  <2>. QED
    BY <1>1, <1>8, <1>10, <1>12, <2>1, TransfersKept
<1>. QED
  BY <1>1, <1>8, <1>12, <1>13, <1>14, <1>15, <1>16 DEF CoinsInv

\* The recipient's record and its copy.
LEMMA GiftKeepsCoins ==
  ASSUME CoinsInv, NEW w \in Worlds, Gift(w)
  PROVE  CoinsInv'
<1>0. PICK a, b, d : a = Account(w) /\ b = op[w].to /\ d = Delta(w)
  OBVIOUS
<1>. DEFINE g == Negated(d)
<1>1. /\ op[w].do = "gift" /\ UNCHANGED <<row, outside, spentElsewhere>> /\ Recorded(b, g)
      /\ losses' \in Nat /\ (losses' = 0 => losses = 0)
  BY <1>0 DEF Gift, CoinsInv, Recorded, Answered, Loss
<1>2. /\ CoinsTypeOK /\ a \in Accounts /\ InGame(w, a) /\ b # a /\ b \in Accounts
      /\ Orderly(w) /\ op[w].then = "send" /\ Debit(d)
      /\ d \in Amounts /\ g \in Amounts
  BY <1>0, <1>1, UnderWay DEF Orderly, Delta
<1>3. /\ Within(d, MaxAmount) /\ Within(g, MaxAmount) /\ Within(Negated(g), MaxAmount)
  BY <1>0, <1>2, OrderlyIsWithin DEF Negated, Coins, Amounts
<1>4. Deposit(g)
  BY <1>2, CoinsAssumption DEF Debit, Deposit, Negated, Amounts, Coins
<1>. HIDE DEF g
<1>5. op' \in [Worlds -> Operations] /\ Only(w) /\ op'[w] = Idle
  <2>1. End(w)
    BY DEF Gift
  <2>. QED
    BY <1>2, <2>1, Ends
<1>6. /\ cache' \in [Worlds -> [Accounts -> Balances \cup {NoSession}]]
      /\ InGame(w, b) => cache'[w][b] = Plus(cache[w][b], g) /\ cache'[w][b] # NoSession
      /\ ~ InGame(w, b) => cache'[w][b] = cache[w][b]
      /\ \A x \in Accounts \ {b} : cache'[w][x] = cache[w][x]
      /\ \A v \in Worlds \ {w} : cache'[v] = cache[v]
  <2>1. CASE InGame(w, b)
    <3>1. cache' = [cache EXCEPT ![w][b] = Plus(cache[w][b], g)]
      BY <1>0, <2>1 DEF Gift, g
    <3>2. Plus(cache[w][b], g) \in Balances
      BY <1>2, <1>4, <2>1, BalancesAreSessions, DepositsAreAffordable, AffordableIsABalance
    <3>3. cache'[w][b] = Plus(cache[w][b], g) /\ Plus(cache[w][b], g) # NoSession
      BY <1>2, <3>1, <3>2, SessionsAssumption DEF CoinsTypeOK
    <3>. QED
      BY <1>2, <2>1, <3>1, <3>2, <3>3 DEF CoinsTypeOK
  <2>2. CASE ~ InGame(w, b)
    <3>1. cache' = cache
      BY <1>0, <2>2 DEF Gift
    <3>. QED
      BY <1>2, <2>2, <3>1 DEF CoinsTypeOK
  <2>. QED
    BY <2>1, <2>2
<1>7. ledger' \in [Accounts -> Amounts]
  BY <1>1, <1>2, RecordedType
<1>8. CoinsTypeOK'
  BY <1>1, <1>2, <1>5, <1>6, <1>7 DEF CoinsTypeOK
<1>9. \A v \in Worlds, x \in Accounts : InGame(v, x)' => InGame(v, x)
  BY <1>2, <1>6 DEF InGame
<1>10. OperationsOrderly'
  BY <1>5, <1>6, OrderlyKept
<1>11. CopiesCovered'
  <2>1. \A v \in Worlds \ {w}, x \in Accounts : InGame(v, x) => Covers(Known(v, x)', Known(v, x))
    BY <1>1, <1>2, <1>8, BalancesAreSessions, CoversIsAnOrder, KnownStays
  <2>2. ASSUME losses' = 0, NEW x \in Accounts, InGame(w, x)'
        PROVE  Covered(w, x)'
    <3>1. Covered(w, x)
      BY <1>1, <1>9, <2>2 DEF CoinsInv, CopiesCovered
    <3>2. Covers(Known(w, x), cache'[w][x])
      <4>1. CASE x = b
        BY <1>0, <1>1, <1>6, <1>9, <2>2, <3>1, <4>1 DEF Covered, g
      <4>2. CASE x # b
        BY <1>0, <1>1, <1>6, <3>1, <4>2 DEF Covered
      <4>. QED
        BY <4>1, <4>2
    <3>. QED
      BY <1>1, <1>5, <3>2 DEF Covered, Idle, Known
  <2>. QED
    BY <1>1, <1>5, <1>6, <1>8, <2>1, <2>2, CopiesKept
<1>12. /\ Pending(w, b) = g /\ \A x \in Accounts \ {b} : Pending(w, x) = None
       /\ InTransit(w) = d
  BY <1>0, <1>1 DEF Pending, InTransit, g
<1>13. InTransit(w)' = None /\ \A x \in Accounts : Pending(w, x)' = None
  BY <1>2, <1>5, NothingPendsWhenIdle
<1>14. Plus(outside', InTransit(w)') = Plus(Plus(outside, InTransit(w)), g)
  <2>1. outside \in Amounts
    BY <1>2 DEF CoinsTypeOK
  <2>. QED
    BY <1>1, <1>2, <1>12, <1>13, <2>1, PlusIsAddition DEF g
<1>. QED
  BY <1>1, <1>2, <1>3, <1>5, <1>8, <1>9, <1>10, <1>11, <1>12, <1>13, <1>14,
     RecordKeepsSums DEF CoinsInv

-----------------------------------------------------------------------------
(* The steps of a world that is in no operation                            *)

\* A login, with what it read of the balance, or a logout.
LEMMA SessionsKeepCoins ==
  ASSUME CoinsInv, NEW w \in Worlds, NEW a \in Accounts, NEW balance \in Balances \cup {NoSession},
         NotOnCoins(w), losses' = losses, UNCHANGED <<row, ledger, outside, op>>,
         cache' = [cache EXCEPT ![w][a] = balance],
         spentElsewhere' = [spentElsewhere EXCEPT ![w][a] = None],
         balance # NoSession => Covers(row[a], balance)
  PROVE  CoinsInv'
<1>1. CoinsTypeOK /\ Only(w) /\ losses \in Nat
  BY DEF CoinsInv, Only
<1>2. /\ cache' \in [Worlds -> [Accounts -> Balances \cup {NoSession}]]
      /\ cache'[w][a] = balance
      /\ \A x \in Accounts \ {a} : cache'[w][x] = cache[w][x]
      /\ \A v \in Worlds \ {w} : cache'[v] = cache[v]
      /\ spentElsewhere' \in [Worlds -> [Accounts -> Balances]]
      /\ spentElsewhere'[w][a] = None
      /\ \A x \in Accounts \ {a} : spentElsewhere'[w][x] = spentElsewhere[w][x]
      /\ \A v \in Worlds \ {w} : spentElsewhere'[v] = spentElsewhere[v]
  BY <1>1 DEF CoinsTypeOK, None, Coins, Balances
<1>3. CoinsTypeOK'
  BY <1>1, <1>2 DEF CoinsTypeOK
<1>4. OperationsOrderly'
  BY <1>1, <1>2, OrderlyKept DEF NotOnCoins
<1>6. CopiesCovered'
  <2>1. \A v \in Worlds \ {w}, x \in Accounts : InGame(v, x) => Covers(Known(v, x)', Known(v, x))
    BY <1>1, <1>2, <1>3, BalancesAreSessions, CoversIsAnOrder, KnownStays
  <2>2. ASSUME losses' = 0, NEW x \in Accounts, InGame(w, x)'
        PROVE  Covered(w, x)'
    <3>1. Covers(Known(w, x)', cache'[w][x])
      <4>1. CASE x = a
        <5>1. Known(w, a)' = row[a]
          BY <1>1, <1>2, BalancesAreSessions, PlusIsAddition DEF Known
        <5>. QED
          BY <1>2, <2>2, <4>1, <5>1 DEF InGame
      <4>2. CASE x # a
        <5>1. Covered(w, x)
          BY <1>2, <2>2, <4>2 DEF CoinsInv, CopiesCovered, InGame
        <5>. QED
          BY <1>2, <4>2, <5>1 DEF Covered, Known, NotOnCoins, Idle
      <4>. QED
        BY <4>1, <4>2
    <3>. QED
      BY <3>1 DEF Covered, NotOnCoins, Idle
  <2>. QED
    BY <1>1, <1>2, <1>3, <2>1, <2>2, CopiesKept
<1>7. InTransit(w)' = InTransit(w) /\ \A x \in Accounts : Pending(w, x)' = Pending(w, x)
  BY DEF Pending, InTransit, Delta
<1>. QED
  BY <1>1, <1>3, <1>4, <1>6, <1>7, StandingStillKeepsSums DEF CoinsInv

\* An operation begins.
LEMMA BeginningKeepsCoins ==
  ASSUME CoinsInv, NEW w \in Worlds, NEW a \in Accounts, NEW b \in Accounts \cup {NoAccount},
         NEW d \in Amounts, NEW then \in {"deliver", "record", "send"},
         NotOnCoins(w), InGame(w, a), a # b, Begin(w, a, b, d, then),
         \/ b = NoAccount /\ then = "deliver" /\ Debit(d)
         \/ b = NoAccount /\ then = "record" /\ (Debit(d) \/ Deposit(d))
         \/ b # NoAccount /\ then = "send" /\ Debit(d),
         losses' = losses, UNCHANGED <<row, ledger, outside, cache, spentElsewhere>>
  PROVE  CoinsInv'
<1>1. CoinsTypeOK /\ losses \in Nat
  BY DEF CoinsInv
<1>2. /\ op' \in [Worlds -> Operations] /\ Only(w)
      /\ op'[w].do = "apply" /\ op'[w].then = then /\ op'[w].account = a
      /\ op'[w].to = b /\ op'[w].delta = d
  BY <1>1, Begins
<1>3. CoinsTypeOK'
  BY <1>1, <1>2 DEF CoinsTypeOK
<1>4. OperationsOrderly'
  <2>1. Orderly(w)'
    BY <1>2 DEF Orderly, Debit, Deposit
  <2>. QED
    BY <1>2, <2>1, OrderlyKept DEF InGame, Account
<1>5. CopiesCovered'
  <2>1. \A v \in Worlds \ {w}, x \in Accounts : InGame(v, x) => Covers(Known(v, x)', Known(v, x))
    BY <1>1, <1>3, BalancesAreSessions, CoversIsAnOrder, KnownStays
  <2>2. ASSUME losses' = 0, NEW x \in Accounts, InGame(w, x)'
        PROVE  Covered(w, x)'
    <3>1. Covered(w, x)
      BY <2>2 DEF CoinsInv, CopiesCovered, InGame
    <3>. QED
      BY <1>2, <3>1 DEF Covered, Known, NotOnCoins, Idle
  <2>. QED
    BY <1>1, <1>2, <1>3, <2>1, <2>2, CopiesKept
<1>6. \A x \in Accounts : Pending(w, x)' = Pending(w, x)
  <2>1. \A x \in Accounts : Pending(w, x)' = None
    BY <1>2 DEF Pending
  <2>. QED
    BY <2>1, NothingPendsWhenIdle DEF NotOnCoins
<1>7. InTransit(w)' = InTransit(w)
  <2>1. InTransit(w)' = None
    BY <1>2 DEF InTransit
  <2>2. InTransit(w) = None
    BY CoinsAssumption DEF NotOnCoins, Idle, InTransit
  <2>. QED
    BY <2>1, <2>2
<1>. QED
  BY <1>1, <1>2, <1>3, <1>4, <1>5, <1>6, <1>7, StandingStillKeepsSums
     DEF CoinsInv

\* SpendDelta takes no more than the price from either balance.
LEMMA SpendingIsADebit ==
  ASSUME NEW balance \in Balances, NEW n \in 1..MaxAmount, NEW transferable \in BOOLEAN
  PROVE  /\ SpendDelta(balance, n, transferable) \in Amounts
         /\ Debit(SpendDelta(balance, n, transferable))
<1>1. balance.regular \in Nat /\ n \in Nat /\ n <= MaxAmount /\ MaxAmount \in Nat
  BY CoinsAssumption DEF Balances
<1>2. PICK r \in 0..n : SpendDelta(balance, n, transferable) = Coins(- r, r - n)
  <2>1. CASE transferable
    BY <1>1, <2>1 DEF SpendDelta
  <2>2. CASE ~ transferable
    <3>1. Min({balance.regular, n}) \in 0..n
      BY <1>1 DEF Min
    <3>. QED
      BY <2>2, <3>1 DEF SpendDelta
  <2>. QED
    BY <2>1, <2>2
<1>. QED
  BY <1>1, <1>2 DEF Amounts, Debit, Coins

\* Every step of a world keeps the invariant.
LEMMA StepsKeepCoins ==
  ASSUME CoinsInv, NEW w \in Worlds, CoinsStep(w)
  PROVE  CoinsInv'
<1>1. CoinsTypeOK
  BY DEF CoinsInv
<1>2. ASSUME NEW a \in Accounts, EnterWorld(w, a) PROVE CoinsInv'
  <2>1. row[a] \in Balances /\ None \in Balances /\ Covers(row[a], row[a]) /\ Covers(row[a], None)
    BY <1>1, BalancesAreSessions, CoversIsAnOrder DEF None, Coins, Balances
  <2>2. /\ NotOnCoins(w) /\ losses' = losses
        /\ UNCHANGED <<row, ledger, outside, op>>
        /\ spentElsewhere' = [spentElsewhere EXCEPT ![w][a] = None]
        /\ \E balance \in {None, row[a]} : cache' = [cache EXCEPT ![w][a] = balance]
    BY <1>2 DEF EnterWorld, Answered, Fault
  <2>3. PICK balance \in Balances : Covers(row[a], balance) /\ cache' = [cache EXCEPT ![w][a] = balance]
    BY <2>1, <2>2
  <2>. QED
    BY <2>2, <2>3, SessionsKeepCoins
<1>3. ASSUME NEW a \in Accounts, LeaveWorld(w, a) PROVE CoinsInv'
  BY <1>3, SessionsKeepCoins DEF LeaveWorld
<1>4. ASSUME NEW a \in Accounts, InGame(w, a), NEW n \in 1..MaxAmount, NEW transferable \in BOOLEAN
      PROVE  /\ SpendDelta(cache[w][a], n, transferable) \in Amounts
             /\ Debit(SpendDelta(cache[w][a], n, transferable))
  BY <1>1, <1>4, BalancesAreSessions, SpendingIsADebit
<1>5. ASSUME NEW a \in Accounts, NEW n \in 1..MaxAmount, NEW transferable \in BOOLEAN,
             NEW then \in {"deliver", "record"}, Spend(w, a, n, transferable, then)
      PROVE  CoinsInv'
  <2>1. PICK d : d = SpendDelta(cache[w][a], n, transferable)
    OBVIOUS
  <2>2. /\ NotOnCoins(w) /\ InGame(w, a) /\ Begin(w, a, NoAccount, d, then)
        /\ losses' = losses /\ UNCHANGED <<row, ledger, outside, cache, spentElsewhere>>
    BY <1>5, <2>1 DEF Spend
  <2>3. d \in Amounts /\ Debit(d) /\ a # NoAccount
    BY <1>4, <2>1, <2>2, CoinsAssumption
  <2>. QED
    BY <2>2, <2>3, BeginningKeepsCoins
<1>6. ASSUME NEW a \in Accounts, NEW n \in 1..MaxAmount, NEW transferable \in BOOLEAN,
             Grant(w, a, n, transferable)
      PROVE  CoinsInv'
  <2>1. PICK d : d = IF transferable THEN Coins(0, n) ELSE Coins(n, 0)
    OBVIOUS
  <2>2. /\ NotOnCoins(w) /\ InGame(w, a) /\ Begin(w, a, NoAccount, d, "record")
        /\ losses' = losses /\ UNCHANGED <<row, ledger, outside, cache, spentElsewhere>>
    BY <1>6, <2>1 DEF Grant
  <2>3. d \in Amounts /\ Deposit(d) /\ a # NoAccount
    BY <2>1, CoinsAssumption DEF Deposit, Coins, Amounts
  <2>. QED
    BY <2>2, <2>3, BeginningKeepsCoins
<1>7. ASSUME NEW a \in Accounts, NEW b \in Accounts, NEW n \in 1..MaxAmount, Transfer(w, a, b, n)
      PROVE  CoinsInv'
  <2>1. PICK d : d = SpendDelta(cache[w][a], n, TRUE)
    OBVIOUS
  <2>2. /\ NotOnCoins(w) /\ InGame(w, a) /\ a # b /\ Begin(w, a, b, d, "send")
        /\ losses' = losses /\ UNCHANGED <<row, ledger, outside, cache, spentElsewhere>>
    BY <1>7, <2>1 DEF Transfer
  <2>3. d \in Amounts /\ Debit(d) /\ b # NoAccount
    BY <1>4, <2>1, <2>2, CoinsAssumption
  <2>. QED
    BY <2>2, <2>3, BeginningKeepsCoins
<1>. QED
  BY <1>2, <1>3, <1>5, <1>6, <1>7, ApplyKeepsCoins, RefreshKeepsCoins, DeliverKeepsCoins,
     RecordKeepsCoins, CreditKeepsCoins, GiftKeepsCoins DEF CoinsStep

\* What bans do leaves coins alone; an answer that they lose only gives the
\* rows more to differ by.
LEMMA ElsewhereKeepsCoins ==
  ASSUME CoinsInv, UNCHANGED coinVars, losses' \in {losses, losses + 1}
  PROVE  CoinsInv'
<1>1. losses \in Nat /\ losses' \in Nat /\ (losses' = 0 => losses = 0) /\ MaxAmount \in Nat
  BY CoinsAssumption DEF CoinsInv
<1>2. CoinsTypeOK' /\ OperationsOrderly' /\ CopiesCovered'
  BY <1>1 DEF CoinsInv, coinVars, CoinsTypeOK, OperationsOrderly, Orderly, InGame,
     CopiesCovered, Covered, Known, Delta
<1>3. \A w \in Worlds : InTransit(w)' = InTransit(w)
  BY DEF coinVars, InTransit, Delta
<1>4. \A w \in Worlds, a \in Accounts : Pending(w, a)' = Pending(w, a)
  BY DEF coinVars, Pending, Delta
<1>5. TransfersConserve'
  <2>1. [w \in Worlds |-> InTransit(w)]' = [w \in Worlds |-> InTransit(w)]
    BY <1>3
  <2>. QED
    BY <1>1, <2>1 DEF CoinsInv, TransfersConserve, coinVars
<1>6. RowMatchesHistory'
  <2>. SUFFICES ASSUME NEW a \in Accounts PROVE Within(Drift(a)', losses' * MaxAmount)
    BY DEF RowMatchesHistory, Drift, Within
  <2>1. [w \in Worlds |-> Pending(w, a)]' = [w \in Worlds |-> Pending(w, a)]
    BY <1>4
  <2>2. Drift(a)' = Drift(a)
    BY <2>1 DEF Drift, Expected, coinVars
  <2>3. Within(Drift(a), losses * MaxAmount)
    BY HistoryIsDrift DEF CoinsInv
  <2>4. losses' * MaxAmount \in {losses * MaxAmount, losses * MaxAmount + MaxAmount}
    <3>1. CASE losses' = losses
      BY <3>1
    <3>2. CASE losses' = losses + 1
      BY <1>1, <3>2
    <3>. QED
      BY <3>1, <3>2
  <2>5. losses * MaxAmount \in Nat
    BY <1>1
  <2>. QED
    BY <1>1, <2>2, <2>3, <2>4, <2>5 DEF Within
<1>. QED
  BY <1>1, <1>2, <1>5, <1>6 DEF CoinsInv

\* A world crashes: what it had pending is lost, no more than one amount.
LEMMA CrashKeepsCoins ==
  ASSUME CoinsInv, NEW w \in Worlds, Crash(w)
  PROVE  CoinsInv'
<1>1. /\ CoinsTypeOK /\ losses \in Nat /\ losses' = losses + 1
      /\ UNCHANGED <<row, ledger, outside>>
  BY DEF CoinsInv, Crash, Loss
<1>2. op' = [op EXCEPT ![w] = Idle]
  BY DEF Crash
<1>3. op' \in [Worlds -> Operations] /\ Only(w) /\ op'[w] = Idle
  BY <1>1, <1>2, Ends DEF End
<1>4. /\ cache' \in [Worlds -> [Accounts -> Balances \cup {NoSession}]]
      /\ spentElsewhere' \in [Worlds -> [Accounts -> Balances]]
      /\ \A v \in Worlds \ {w} : cache'[v] = cache[v]
  <2>1. /\ [a \in Accounts |-> NoSession] \in [Accounts -> Balances \cup {NoSession}]
        /\ [a \in Accounts |-> None] \in [Accounts -> Balances]
    BY DEF None, Coins, Balances
  <2>2. /\ cache' = [cache EXCEPT ![w] = [a \in Accounts |-> NoSession]]
        /\ spentElsewhere' = [spentElsewhere EXCEPT ![w] = [a \in Accounts |-> None]]
    BY DEF Crash
  <2>. QED
    BY <1>1, <2>1, <2>2 DEF CoinsTypeOK
<1>5. CoinsTypeOK'
  BY <1>1, <1>3, <1>4 DEF CoinsTypeOK
<1>6. OperationsOrderly'
  BY <1>3, <1>4, OrderlyKept
<1>7. CopiesCovered' /\ TransfersConserve'
  BY <1>1 DEF CopiesCovered, TransfersConserve
<1>8. ASSUME NEW a \in Accounts PROVE Within(Moved(w, a), MaxAmount)
  <2>. DEFINE p == Pending(w, a)
  <2>1. p \in Amounts /\ Negated(p) \in Amounts /\ Pending(w, a)' = None
    BY <1>1, <1>3, AmountsOfAnOperation, NothingPendsWhenIdle, PlusIsAddition
  <2>2. Within(p, MaxAmount)
    <3>1. CASE op[w].do = "idle"
      BY <3>1, CoinsAssumption DEF Pending, Within, None, Coins
    <3>2. CASE op[w].do # "idle"
      BY <3>2, UnderWay, OrderlyIsWithin DEF Pending
    <3>. QED
      BY <3>1, <3>2
  <2>3. Moved(w, a) = Difference(None, Plus(None, Negated(p)))
    <3>1. row[a] \in Amounts /\ ledger[a] \in Amounts /\ None \in Amounts
      BY <1>1, BalancesAreSessions, PlusIsAddition
    <3>2. row'[a] = Plus(row[a], None) /\ ledger'[a] = Plus(ledger[a], None)
      BY <1>1, <3>1, PlusIsAddition
    <3>3. Pending(w, a)' = Plus(p, Negated(p))
      BY <2>1, StandsStill
    <3>4. Shifts(w, a, None, None, Negated(p))
      BY <2>1, <3>1, <3>2, <3>3 DEF Shifts
    <3>. QED
      BY <1>1, <1>5, <3>4, MovedBy
  <2>. HIDE DEF p
  <2>4. Within(Difference(None, Plus(None, Negated(p))), MaxAmount)
    BY <2>1, <2>2, CoinsAssumption DEF Within, Difference, Plus, Negated, None, Coins, Amounts
  <2>. QED
    BY <2>3, <2>4
<1>9. RowMatchesHistory'
  BY <1>1, <1>3, <1>5, <1>8, HistoryKept
<1>. QED
  BY <1>1, <1>5, <1>6, <1>7, <1>9 DEF CoinsInv

\* At the start no world is in an operation and every history is empty.
LEMMA InitCoins == Init => CoinsInv
<1>. SUFFICES ASSUME Init PROVE CoinsInv
  OBVIOUS
<1>1. /\ losses = 0 /\ CoinsTypeOK
  <2>1. None \in Balances
    BY DEF None, Coins, Balances
  <2>. QED
    BY <2>1, PlusIsAddition, CoinsAssumption
       DEF Init, CoinsInit, CoinsTypeOK, Idle, Operations, Coins, Balances
<1>2. (\A w \in Worlds : op[w] = Idle) /\ \A w \in Worlds, a \in Accounts : ~ InGame(w, a)
  BY DEF Init, CoinsInit, InGame
<1>3. OperationsOrderly /\ CopiesCovered
  BY <1>2 DEF OperationsOrderly, CopiesCovered
<1>4. \A w \in Worlds : InTransit(w) = None /\ \A a \in Accounts : Pending(w, a) = None
  BY <1>2, CoinsAssumption DEF InTransit, Pending, Idle
<1>5. RowMatchesHistory
  <2>. SUFFICES ASSUME NEW a \in Accounts PROVE Within(Drift(a), losses * MaxAmount)
    BY HistoryIsDrift
  <2>1. [w \in Worlds |-> Pending(w, a)] = [w \in Worlds |-> None]
    BY <1>4
  <2>2. SumOf([w \in Worlds |-> Pending(w, a)], Worlds) = None
    BY <2>1, SumOfNone, TablesAssumption
  <2>3. row[a] = Coins(StartCoins, StartCoins) /\ ledger[a] = None
    BY DEF Init, CoinsInit
  <2>4. Drift(a) = None
    BY <2>2, <2>3, CoinsAssumption DEF Drift, Expected, Plus, Negated, None, Coins
  <2>. QED
    BY <1>1, <2>4, CoinsAssumption DEF Within, None, Coins
<1>6. TransfersConserve
  <2>1. [w \in Worlds |-> InTransit(w)] = [w \in Worlds |-> None]
    BY <1>4
  <2>2. SumOf([w \in Worlds |-> InTransit(w)], Worlds) = None /\ SumOf(ledger, Accounts) = None
    BY <2>1, SumOfNone, TablesAssumption DEF Init, CoinsInit
  <2>. QED
    BY <2>2, PlusIsAddition DEF TransfersConserve, Init, CoinsInit
<1>. QED
  BY <1>1, <1>3, <1>5, <1>6 DEF CoinsInv

-----------------------------------------------------------------------------
(* The theorems                                                            *)

\* CoinsInv holds in every reachable state: no step of any world, and no ban,
\* leaves a statement's effect without its record, its copy or its owner.
THEOREM CoinsInvariant == Spec => []CoinsInv
<1>1. CoinsInv /\ [Next]_vars => CoinsInv'
  <2>. SUFFICES ASSUME CoinsInv, [Next]_vars PROVE CoinsInv'
    OBVIOUS
  <2>1. ASSUME NEW w \in Worlds, CoinsStep(w) PROVE CoinsInv'
    BY <2>1, StepsKeepCoins
  <2>2. CASE (BansScripts \/ \E w \in Worlds : BansStep(w)) /\ UNCHANGED coinVars
    <3>1. losses' \in {losses, losses + 1}
      BY <2>2 DEF BansScripts, BansStep, LiftBan, IssueBan, Expire, Sweep, WriteHistory,
         CheckLogin, RetireBan, Answered, Fault, Loss
    <3>. QED
      BY <2>2, <3>1, ElsewhereKeepsCoins
  <2>3. CASE UNCHANGED vars
    BY <2>3, ElsewhereKeepsCoins DEF vars
  <2>4. ASSUME NEW w \in Worlds, Crash(w) PROVE CoinsInv'
    BY <2>4, CrashKeepsCoins
  <2>. QED
    BY <2>1, <2>2, <2>3, <2>4 DEF Next
<1>. QED
  BY InitCoins, <1>1, PTL DEF Spec

\* What the counters of faults, losses and requests can be.
CountersOK == losses \in 0..faults /\ faults \in 0..MaxFaults /\ requests \in 0..MaxRequests

\* The counters stay within their bounds, and no fault is a loss twice.
LEMMA CountersInvariant == Spec => []CountersOK
<1>1. Init => CountersOK
  BY TablesAssumption DEF Init, CountersOK
<1>2. CountersOK /\ [Next]_vars => CountersOK'
  <2>. SUFFICES ASSUME CountersOK, [Next]_vars PROVE CountersOK'
    OBVIOUS
  <2>1. /\ UNCHANGED <<faults, losses>> => losses' \in 0..faults' /\ faults' \in 0..MaxFaults
        /\ Answered \/ Fault \/ Loss => losses' \in 0..faults' /\ faults' \in 0..MaxFaults
        /\ Request \/ UNCHANGED requests => requests' \in 0..MaxRequests
    BY TablesAssumption DEF CountersOK, Answered, Fault, Loss, Request
  <2>2. ASSUME NEW w \in Worlds, CoinsStep(w) PROVE CountersOK'
    <3>1. UNCHANGED <<faults, losses>> \/ Answered \/ Fault \/ Loss
      BY <2>2 DEF CoinsStep, EnterWorld, LeaveWorld, Spend, Grant, Transfer, ApplyCoinDelta,
         Refresh, Deliver, Record, Recorded, Credit, Gift
    <3>2. Request \/ UNCHANGED requests
      BY <2>2 DEF CoinsStep, EnterWorld, LeaveWorld, Spend, Grant, Transfer, ApplyCoinDelta,
         Refresh, Deliver, Record, Recorded, Credit, Gift
    <3>. QED
      BY <2>1, <3>1, <3>2 DEF CountersOK
  <2>3. CASE BansScripts \/ \E w \in Worlds : BansStep(w)
    <3>1. UNCHANGED <<faults, losses>> \/ Answered \/ Fault \/ Loss
      BY <2>3 DEF BansScripts, BansStep, LiftBan, IssueBan, Expire, Sweep, WriteHistory,
         CheckLogin, RetireBan
    <3>2. Request \/ UNCHANGED requests
      BY <2>3 DEF BansScripts, BansStep, LiftBan, IssueBan, Expire, Sweep, WriteHistory,
         CheckLogin, RetireBan
    <3>. QED
      BY <2>1, <3>1, <3>2 DEF CountersOK
  <2>4. CASE UNCHANGED vars
    BY <2>4 DEF vars, CountersOK
  <2>5. ASSUME NEW w \in Worlds, Crash(w) PROVE CountersOK'
    BY <2>1, <2>5 DEF Crash, CountersOK
  <2>. QED
    BY <2>2, <2>3, <2>4, <2>5 DEF Next
<1>. QED
  BY <1>1, <1>2, PTL DEF Spec

\* The modules' types hold in every reachable state.
THEOREM TypeCorrect == Spec => []TypeOK
<1>1. BansInv /\ CoinsInv /\ CountersOK => TypeOK
  BY DEF BansInv, CoinsInv, CountersOK, TypeOK
<1>. QED
  BY <1>1, BansInvariant, CoinsInvariant, CountersInvariant, PTL

\* An account's row is what its history says, the operations under way and
\* one amount per lost answer aside: for any number of worlds and accounts.
THEOREM RowsMatchHistories == Spec => []RowMatchesHistory
<1>1. CoinsInv => RowMatchesHistory
  BY DEF CoinsInv
<1>. QED
  BY <1>1, CoinsInvariant, PTL

\* As long as no answer was lost, transfers neither make nor destroy coins.
THEOREM NoCoinsAreMade == Spec => []TransfersConserve
<1>1. CoinsInv => TransfersConserve
  BY DEF CoinsInv
<1>. QED
  BY <1>1, CoinsInvariant, PTL

\* As long as no answer was lost, a player's copy shows coins that the row has
\* not only for what other worlds took since it was read, unless its read back
\* is next: for any number of worlds that have the account in game.
THEOREM CopiesFollowRows == Spec => []CacheFollowsRow
<1>1. CoinsInv => CacheFollowsRow
  <2>. SUFFICES ASSUME CoinsInv, losses = 0, NEW w \in Worlds, NEW a \in Accounts,
                       InGame(w, a), ~ (op[w].account = a /\ op[w].do = "refresh")
                PROVE  Covers(Known(w, a), cache[w][a])
    BY DEF CacheFollowsRow
  <2>1. CoinsTypeOK /\ Covered(w, a)
    BY DEF CoinsInv, CopiesCovered
  <2>2. Known(w, a) \in Balances /\ cache[w][a] \in Balances
    BY <2>1, BalancesAreSessions, KnownIsABalance
  <2>3. CASE op[w].to = a /\ op[w].do = "gift"
    <3>1. op[w].do # "idle"
      BY <2>3
    <3>2. Orderly(w) /\ Delta(w) \in Amounts /\ op[w].to \in Accounts
      BY <2>3, <3>1, UnderWay
    <3>3. Debit(Delta(w))
      BY <2>3, <3>2, CoinsAssumption DEF Orderly, Delta
    <3>4. Covers(Known(w, a), Plus(cache[w][a], Negated(Delta(w))))
      BY <2>1, <2>3 DEF Covered
    <3>. QED
      BY <2>2, <3>2, <3>3, <3>4, CoinsAssumption
         DEF Debit, Covers, Plus, Negated, Coins, Balances, Amounts
  <2>. QED
    BY <2>1, <2>3 DEF Covered
<1>. QED
  BY <1>1, CoinsInvariant, PTL
=============================================================================
