----------------------------- MODULE DataLemmas -----------------------------
(***************************************************************************)
(* Facts about the data the other modules are about: induction over finite *)
(* sets and over the naturals, sequences without duplicates, and FoldSet.  *)
(* What is to be shown by induction is given as the set of those that have *)
(* it, since a predicate cannot be a parameter of a lemma here.            *)
(***************************************************************************)
EXTENDS Integers, SequencesExt, FiniteSetTheorems, SequenceTheorems, TLAPS

-----------------------------------------------------------------------------
(* Induction                                                               *)

\* A collection of subsets of a finite set that is not empty has a smallest one.
LEMMA SmallestSet ==
  ASSUME NEW S, IsFiniteSet(S), NEW H \in SUBSET SUBSET S, H # {}
  PROVE  \E T \in H : \A U \in H : U \subseteq T => U = T
<1>1. H \subseteq FiniteSubsetsOf(S)
  BY FS_FiniteSubsetsOfFinite
<1>2. PICK T \in H : \A U \in H : <<U, T>> \notin StrictSubsetOrdering(S)
  BY <1>1, FS_StrictSubsetOrderingWellFounded, WFMin
<1>3. ASSUME NEW U \in H, U \subseteq T, U # T
      PROVE  FALSE
  <2>1. U \in SUBSET S /\ T \in SUBSET S
    BY <1>2
  <2>2. <<U, T>> \in (SUBSET S) \X (SUBSET S)
    BY <2>1
  <2>. QED
    BY <1>2, <1>3, <2>2 DEF StrictSubsetOrdering
<1>. QED
  BY <1>2, <1>3

\* A set of naturals that is not empty has a smallest one.
LEMMA SmallestNumber ==
  ASSUME NEW T \in SUBSET Nat, T # {}
  PROVE  \E n \in T : \A m \in T : n <= m
<1>. DEFINE R == OpToRel(<, Nat)
<1>1. PICK n \in T : \A m \in T : <<m, n>> \notin R
  BY NatLessThanWellFounded, WFMin
<1>2. ASSUME NEW m \in T, m < n
      PROVE  FALSE
  <2>1. <<m, n>> \in Nat \X Nat
    OBVIOUS
  <2>. QED
    BY <1>1, <1>2, <2>1 DEF OpToRel
<1>3. ASSUME NEW m \in T
      PROVE  n <= m
  <2>1. n \in Nat /\ m \in Nat /\ ~ (m < n)
    BY <1>2
  <2>. HIDE DEF R
  <2>. QED
    BY <2>1
<1>. QED
  BY <1>3, Zenon

\* If a collection of subsets of S has the empty set, and with a set every set
\* of one element more, it has S.
LEMMA SetInduction ==
  ASSUME NEW S, IsFiniteSet(S), NEW F \in SUBSET SUBSET S, {} \in F,
         \A T \in F : \A x \in S \ T : T \cup {x} \in F
  PROVE  S \in F
<1>. SUFFICES ASSUME S \notin F PROVE FALSE
  OBVIOUS
<1>. DEFINE H == {T \in SUBSET S : T \notin F}
<1>1. PICK T \in H : \A U \in H : U \subseteq T => U = T
  <2>1. H \in SUBSET SUBSET S /\ H # {}
    OBVIOUS
  <2>. HIDE DEF H
  <2>. QED
    BY <2>1, SmallestSet
<1>2. PICK x \in T : TRUE
  BY <1>1
<1>3. T \ {x} \in F
  BY <1>1, <1>2
<1>4. T = (T \ {x}) \cup {x}
  BY <1>2
<1>. QED
  BY <1>2, <1>3, <1>4

\* If a set of naturals has 0, and with a number the next one, it has them all.
LEMMA NumberInduction ==
  ASSUME NEW N \in SUBSET Nat, 0 \in N, \A n \in N : n + 1 \in N
  PROVE  N = Nat
<1>. SUFFICES ASSUME Nat \ N # {} PROVE FALSE
  OBVIOUS
<1>1. PICK n \in Nat \ N : \A m \in Nat \ N : n <= m
  BY SmallestNumber
<1>2. n - 1 \in N
  BY <1>1
<1>. QED
  BY <1>1, <1>2

-----------------------------------------------------------------------------
(* Sequences                                                               *)

\* Removing a place moves what comes after it one place forward.
LEMMA RemovedAt ==
  ASSUME NEW S, NEW s \in Seq(S), NEW i \in 1..Len(s)
  PROVE  /\ RemoveAt(s, i) \in Seq(S) /\ Len(RemoveAt(s, i)) = Len(s) - 1
         /\ \A j \in 1..Len(s) - 1 : RemoveAt(s, i)[j] = IF j < i THEN s[j] ELSE s[j + 1]
<1>1. /\ SubSeq(s, 1, i - 1) \in Seq(S) /\ Len(SubSeq(s, 1, i - 1)) = i - 1
      /\ \A j \in 1..i - 1 : SubSeq(s, 1, i - 1)[j] = s[j]
  OBVIOUS
<1>2. /\ SubSeq(s, i + 1, Len(s)) \in Seq(S) /\ Len(SubSeq(s, i + 1, Len(s))) = Len(s) - i
      /\ \A j \in 1..Len(s) - i : SubSeq(s, i + 1, Len(s))[j] = s[i + j]
  OBVIOUS
<1>. DEFINE u == SubSeq(s, 1, i - 1)
            v == SubSeq(s, i + 1, Len(s))
<1>3. RemoveAt(s, i) = u \o v
  BY DEF RemoveAt
<1>. HIDE DEF u, v
<1>4. u \in Seq(S) /\ v \in Seq(S) /\ Len(u) = i - 1 /\ Len(v) = Len(s) - i /\ Len(s) \in Nat
  BY <1>1, <1>2 DEF u, v
<1>5. /\ u \o v \in Seq(S) /\ Len(u \o v) = Len(s) - 1
      /\ \A j \in 1..Len(s) - 1 : (u \o v)[j] = IF j <= i - 1 THEN u[j] ELSE v[j - (i - 1)]
  <2>1. \A j \in 1..(i - 1) + (Len(s) - i) : (u \o v)[j] = IF j <= i - 1 THEN u[j] ELSE v[j - (i - 1)]
    BY <1>4, ConcatProperties
  <2>2. u \o v \in Seq(S) /\ Len(u \o v) = (i - 1) + (Len(s) - i)
    <3>1. \A w \in Seq(S), z \in Seq(S) : w \o z \in Seq(S) /\ Len(w \o z) = Len(w) + Len(z)
      OBVIOUS
    <3>2. u \o v \in Seq(S) /\ Len(u \o v) = Len(u) + Len(v)
      BY <1>4, <3>1
    <3>. QED
      BY <1>4, <3>2
  <2>3. (i - 1) + (Len(s) - i) = Len(s) - 1
    BY <1>4
  <2>. QED
    BY <2>1, <2>2, <2>3
<1>6. ASSUME NEW j \in 1..Len(s) - 1
      PROVE  (u \o v)[j] = IF j < i THEN s[j] ELSE s[j + 1]
  <2>1. CASE j < i
    <3>1. j \in 1..i - 1 /\ (u \o v)[j] = u[j]
      BY <1>4, <1>5, <2>1
    <3>. QED
      BY <1>1, <2>1, <3>1 DEF u
  <2>2. CASE ~ (j < i)
    <3>1. j - (i - 1) \in 1..Len(s) - i /\ i + (j - (i - 1)) = j + 1 /\ (u \o v)[j] = v[j - (i - 1)]
      BY <1>4, <1>5, <2>2
    <3>. QED
      BY <1>2, <2>2, <3>1 DEF v
  <2>. QED
    BY <2>1, <2>2
<1>. QED
  BY <1>3, <1>5, <1>6

\* A sequence without duplicates has none after that, and lacks what was there.
LEMMA RemovedAtRest ==
  ASSUME NEW S, NEW s \in Seq(S), IsInjective(s), NEW i \in 1..Len(s)
  PROVE  /\ IsInjective(RemoveAt(s, i)) /\ ToSet(RemoveAt(s, i)) = ToSet(s) \ {s[i]}
<1>. DEFINE t == RemoveAt(s, i)
<1>1. /\ t \in Seq(S) /\ Len(t) = Len(s) - 1 /\ Len(s) \in Nat
      /\ \A j \in 1..Len(s) - 1 : t[j] = IF j < i THEN s[j] ELSE s[j + 1]
  BY RemovedAt
<1>. HIDE DEF t
<1>2. DOMAIN s = 1..Len(s) /\ DOMAIN t = 1..Len(s) - 1
  BY <1>1
<1>3. IsInjective(t)
  <2>1. ASSUME NEW j \in 1..Len(s) - 1, NEW n \in 1..Len(s) - 1, t[j] = t[n] PROVE j = n
    <3>1. PICK a \in 1..Len(s) : a = IF j < i THEN j ELSE j + 1
      BY <1>1
    <3>2. PICK b \in 1..Len(s) : b = IF n < i THEN n ELSE n + 1
      BY <1>1
    <3>3. t[j] = s[a] /\ t[n] = s[b]
      BY <1>1, <3>1, <3>2
    <3>4. a = b
      BY <1>2, <2>1, <3>3 DEF IsInjective
    <3>. QED
      BY <3>1, <3>2, <3>4
  <2>. QED
    BY <1>2, <2>1 DEF IsInjective
<1>4. ASSUME NEW x \in ToSet(t) PROVE x \in ToSet(s) \ {s[i]}
  <2>1. PICK j \in 1..Len(s) - 1 : x = t[j]
    BY <1>2 DEF ToSet
  <2>2. PICK n \in 1..Len(s) : n = (IF j < i THEN j ELSE j + 1)
    BY <1>1
  <2>3. x = s[n] /\ n # i
    BY <1>1, <2>1, <2>2
  <2>4. s[n] # s[i]
    BY <1>2, <2>3 DEF IsInjective
  <2>. QED
    BY <1>2, <2>3, <2>4 DEF ToSet
<1>5. ASSUME NEW x \in ToSet(s) \ {s[i]} PROVE x \in ToSet(t)
  <2>1. PICK j \in 1..Len(s) : x = s[j] /\ j # i
    BY <1>2 DEF ToSet
  <2>2. CASE j < i
    BY <1>1, <1>2, <2>1, <2>2 DEF ToSet
  <2>3. CASE j > i
    <3>1. j - 1 \in 1..Len(s) - 1 /\ t[j - 1] = s[j]
      BY <1>1, <2>1, <2>3
    <3>. QED
      BY <1>2, <2>1, <3>1 DEF ToSet
  <2>. QED
    BY <2>1, <2>2, <2>3
<1>. QED
  BY <1>3, <1>4, <1>5 DEF t

\* RemoveFirst takes an element out of a sequence without duplicates.
LEMMA RemovedFirst ==
  ASSUME NEW S, NEW s \in Seq(S), IsInjective(s), NEW e
  PROVE  /\ RemoveFirst(s, e) \in Seq(S) /\ IsInjective(RemoveFirst(s, e))
         /\ ToSet(RemoveFirst(s, e)) = ToSet(s) \ {e}
         /\ e \in ToSet(s) => Len(RemoveFirst(s, e)) = Len(s) - 1
         /\ e \notin ToSet(s) => RemoveFirst(s, e) = s
<1>1. CASE e \in ToSet(s)
  <2>. DEFINE I == {i \in 1..Len(s) : s[i] = e}
              i == SelectInSeq(s, LAMBDA v : v = e)
  <2>1. I # {} /\ I \in SUBSET Nat /\ \E j \in 1..Len(s) : s[j] = e
    BY <1>1 DEF ToSet
  <2>2. i = CHOOSE j \in I : \A n \in I : j <= n
    BY <2>1 DEF SelectInSeq, Min
  <2>3. i \in 1..Len(s) /\ s[i] = e
    <3>1. \E j \in I : \A n \in I : j <= n
      <4>. HIDE DEF I
      <4>. QED
        BY <2>1, SmallestNumber
    <3>2. i \in I
      <4>. HIDE DEF I, i
      <4>. QED
        BY <2>2, <3>1
    <3>. QED
      BY <3>2
  <2>4. RemoveFirst(s, e) = RemoveAt(s, i)
    BY <2>1 DEF RemoveFirst
  <2>. HIDE DEF i, I
  <2>5. RemoveAt(s, i) \in Seq(S) /\ Len(RemoveAt(s, i)) = Len(s) - 1
    BY <2>3, RemovedAt
  <2>6. IsInjective(RemoveAt(s, i)) /\ ToSet(RemoveAt(s, i)) = ToSet(s) \ {e}
    BY <2>3, RemovedAtRest
  <2>. QED
    BY <1>1, <2>4, <2>5, <2>6
<1>2. CASE e \notin ToSet(s)
  <2>1. RemoveFirst(s, e) = s
    BY <1>2 DEF RemoveFirst, ToSet
  <2>. QED
    BY <1>2, <2>1
<1>. QED
  BY <1>1, <1>2

\* What is appended is added, and is no duplicate if it was not there.
LEMMA Appended ==
  ASSUME NEW S, NEW s \in Seq(S), NEW x \in S
  PROVE  /\ Append(s, x) \in Seq(S) /\ Len(Append(s, x)) = Len(s) + 1
         /\ ToSet(Append(s, x)) = ToSet(s) \cup {x}
         /\ IsInjective(s) /\ x \notin ToSet(s) => IsInjective(Append(s, x))
<1>. DEFINE t == Append(s, x)
<1>1. /\ t \in Seq(S) /\ Len(t) = Len(s) + 1 /\ Len(s) \in Nat
      /\ DOMAIN s = 1..Len(s) /\ DOMAIN t = 1..Len(s) + 1
      /\ t[Len(s) + 1] = x /\ \A j \in 1..Len(s) : t[j] = s[j]
  OBVIOUS
<1>. HIDE DEF t
<1>2. ASSUME NEW y PROVE y \in ToSet(t) <=> y \in ToSet(s) \cup {x}
  BY <1>1 DEF ToSet
<1>3. IsInjective(s) /\ x \notin ToSet(s) => IsInjective(t)
  BY <1>1 DEF ToSet, IsInjective
<1>. QED
  BY <1>1, <1>2, <1>3 DEF t

\* So is what is put before the others.
LEMMA PutFirst ==
  ASSUME NEW S, NEW s \in Seq(S), NEW x \in S
  PROVE  /\ <<x>> \o s \in Seq(S) /\ Len(<<x>> \o s) = Len(s) + 1
         /\ ToSet(<<x>> \o s) = ToSet(s) \cup {x}
         /\ IsInjective(s) /\ x \notin ToSet(s) => IsInjective(<<x>> \o s)
<1>. DEFINE t == <<x>> \o s
<1>1. /\ t \in Seq(S) /\ Len(t) = Len(s) + 1 /\ Len(s) \in Nat
      /\ DOMAIN s = 1..Len(s) /\ DOMAIN t = 1..Len(s) + 1
      /\ t[1] = x /\ \A j \in 1..Len(s) : t[j + 1] = s[j]
  OBVIOUS
<1>. HIDE DEF t
<1>2. \A j \in 1..Len(s) + 1 : j # 1 => j - 1 \in 1..Len(s) /\ t[j] = s[j - 1]
  <2>. SUFFICES ASSUME NEW j \in 1..Len(s) + 1, j # 1 PROVE j - 1 \in 1..Len(s) /\ t[j] = s[j - 1]
    OBVIOUS
  <2>1. j - 1 \in 1..Len(s) /\ (j - 1) + 1 = j
    BY <1>1
  <2>. QED
    BY <1>1, <2>1
<1>3. ASSUME NEW y PROVE y \in ToSet(t) <=> y \in ToSet(s) \cup {x}
  <2>1. ASSUME y \in ToSet(t) PROVE y \in ToSet(s) \cup {x}
    BY <1>1, <1>2, <2>1 DEF ToSet
  <2>2. ASSUME NEW j \in 1..Len(s), y = s[j] PROVE y \in ToSet(t)
    <3>1. j + 1 \in 1..Len(s) + 1 /\ t[j + 1] = y
      BY <1>1, <2>2
    <3>. QED
      BY <1>1, <3>1 DEF ToSet
  <2>3. x \in ToSet(t)
    <3>1. 1 \in 1..Len(s) + 1
      BY <1>1
    <3>. QED
      BY <1>1, <3>1 DEF ToSet
  <2>. QED
    BY <1>1, <2>1, <2>2, <2>3 DEF ToSet
<1>4. ASSUME IsInjective(s), x \notin ToSet(s), NEW i \in 1..Len(s) + 1, NEW j \in 1..Len(s) + 1, t[i] = t[j]
      PROVE  i = j
  <2>1. CASE i = 1 /\ j = 1
    BY <2>1
  <2>2. CASE i # 1 /\ j # 1
    <3>1. i - 1 \in DOMAIN s /\ j - 1 \in DOMAIN s /\ s[i - 1] = s[j - 1]
      BY <1>1, <1>2, <1>4, <2>2
    <3>2. i - 1 = j - 1
      BY <1>4, <3>1 DEF IsInjective
    <3>. QED
      BY <1>1, <3>2
  <2>3. ASSUME NEW n \in 1..Len(s) + 1, n # 1 PROVE t[n] # x
    BY <1>1, <1>2, <1>4, <2>3 DEF ToSet
  <2>. QED
    BY <1>1, <1>4, <2>1, <2>2, <2>3
<1>5. IsInjective(s) /\ x \notin ToSet(s) => IsInjective(t)
  BY <1>1, <1>4 DEF IsInjective
<1>. QED
  BY <1>1, <1>3, <1>5 DEF t

\* Inserting at a place moves what was there, and what follows, one place back.
LEMMA InsertedAt ==
  ASSUME NEW S, NEW s \in Seq(S), NEW i \in 1..Len(s) + 1, NEW x \in S
  PROVE  /\ InsertAt(s, i, x) \in Seq(S) /\ Len(InsertAt(s, i, x)) = Len(s) + 1
         /\ \A j \in 1..Len(s) + 1 :
              InsertAt(s, i, x)[j] = IF j < i THEN s[j] ELSE IF j = i THEN x ELSE s[j - 1]
<1>. DEFINE u == SubSeq(s, 1, i - 1)
            v == SubSeq(s, i, Len(s))
<1>1. /\ u \in Seq(S) /\ Len(u) = i - 1 /\ \A j \in 1..i - 1 : u[j] = s[j]
  OBVIOUS
<1>2. /\ v \in Seq(S) /\ Len(v) = Len(s) - i + 1 /\ \A j \in 1..Len(s) - i + 1 : v[j] = s[i + j - 1]
  OBVIOUS
<1>3. InsertAt(s, i, x) = u \o <<x>> \o v
  BY DEF InsertAt
<1>. HIDE DEF u, v
<1>4. PICK w : w = u \o <<x>>
  OBVIOUS
<1>5. /\ w \in Seq(S) /\ Len(w) = i /\ w[i] = x /\ Len(s) \in Nat
      /\ \A j \in 1..i - 1 : w[j] = u[j]
  BY <1>1, <1>4
<1>6. \A y \in Seq(S), z \in Seq(S) :
        /\ y \o z \in Seq(S) /\ Len(y \o z) = Len(y) + Len(z)
        /\ \A j \in 1..Len(y) : (y \o z)[j] = y[j]
        /\ \A j \in 1..Len(z) : (y \o z)[Len(y) + j] = z[j]
  OBVIOUS
<1>7. PICK t : t = w \o v
  OBVIOUS
<1>8. /\ t \in Seq(S) /\ Len(t) = i + (Len(s) - i + 1)
      /\ \A j \in 1..i : t[j] = w[j]
      /\ \A j \in 1..Len(s) - i + 1 : t[i + j] = v[j]
  BY <1>2, <1>5, <1>6, <1>7
<1>9. ASSUME NEW j \in 1..Len(s) + 1
      PROVE  t[j] = IF j < i THEN s[j] ELSE IF j = i THEN x ELSE s[j - 1]
  <2>1. CASE j <= i
    <3>1. j \in 1..i /\ t[j] = w[j] /\ (j # i => j \in 1..i - 1)
      BY <1>8, <2>1
    <3>2. j # i => t[j] = u[j] /\ u[j] = s[j]
      BY <1>1, <1>5, <3>1
    <3>. QED
      BY <1>5, <2>1, <3>1, <3>2
  <2>2. CASE j > i
    <3>1. PICK n \in 1..Len(s) - i + 1 : i + n = j
      <4>1. Len(s) \in Nat /\ i \in Int /\ j \in Int /\ j <= Len(s) + 1
        OBVIOUS
      <4>2. j - i \in 1..Len(s) - i + 1 /\ i + (j - i) = j
        BY <2>2, <4>1
      <4>. QED
        BY <4>2
    <3>2. t[j] = v[n]
      BY <1>8, <3>1
    <3>3. v[n] = s[i + n - 1] /\ i + n - 1 = j - 1
      BY <1>2, <3>1
    <3>. QED
      BY <2>2, <3>2, <3>3
  <2>. QED
    BY <2>1, <2>2
<1>10. i + (Len(s) - i + 1) = Len(s) + 1
  BY <1>5
<1>11. t = InsertAt(s, i, x)
  BY <1>3, <1>4, <1>7
<1>. QED
  BY <1>8, <1>9, <1>10, <1>11

\* What is inserted is added, and is no duplicate if it was not there.
LEMMA InsertedAtRest ==
  ASSUME NEW S, NEW s \in Seq(S), IsInjective(s), NEW i \in 1..Len(s) + 1,
         NEW x \in S, x \notin ToSet(s)
  PROVE  /\ IsInjective(InsertAt(s, i, x)) /\ ToSet(InsertAt(s, i, x)) = ToSet(s) \cup {x}
<1>. DEFINE t == InsertAt(s, i, x)
<1>1. /\ t \in Seq(S) /\ Len(t) = Len(s) + 1 /\ Len(s) \in Nat
      /\ \A j \in 1..Len(s) + 1 : t[j] = IF j < i THEN s[j] ELSE IF j = i THEN x ELSE s[j - 1]
  BY InsertedAt
<1>. HIDE DEF t
<1>2. DOMAIN s = 1..Len(s) /\ DOMAIN t = 1..Len(s) + 1
  BY <1>1
<1>3. ASSUME NEW j \in 1..Len(s) + 1, j # i
      PROVE  \E n \in 1..Len(s) : n = (IF j < i THEN j ELSE j - 1) /\ t[j] = s[n]
  <2>1. (IF j < i THEN j ELSE j - 1) \in 1..Len(s)
    BY <1>1, <1>3
  <2>. QED
    BY <1>1, <1>3, <2>1
<1>4. \A n \in 1..Len(s) : s[n] # x
  BY <1>2 DEF ToSet
<1>5. ASSUME NEW j \in 1..Len(s) + 1, NEW n \in 1..Len(s) + 1, t[j] = t[n]
      PROVE  j = n
  <2>1. CASE j = i \/ n = i
    BY <1>1, <1>3, <1>4, <1>5, <2>1
  <2>2. CASE j # i /\ n # i
    <3>1. PICK a \in 1..Len(s) : a = (IF j < i THEN j ELSE j - 1) /\ t[j] = s[a]
      BY <1>3, <2>2
    <3>2. PICK b \in 1..Len(s) : b = (IF n < i THEN n ELSE n - 1) /\ t[n] = s[b]
      BY <1>3, <2>2
    <3>3. a = b
      BY <1>2, <1>5, <3>1, <3>2 DEF IsInjective
    <3>. QED
      BY <1>1, <2>2, <3>1, <3>2, <3>3
  <2>. QED
    BY <2>1, <2>2
<1>6. IsInjective(t)
  BY <1>2, <1>5 DEF IsInjective
<1>7. ASSUME NEW y \in ToSet(t) PROVE y \in ToSet(s) \cup {x}
  <2>1. PICK j \in 1..Len(s) + 1 : y = t[j]
    BY <1>2 DEF ToSet
  <2>2. CASE j = i
    BY <1>1, <2>1, <2>2
  <2>3. CASE j # i
    BY <1>2, <1>3, <2>1, <2>3 DEF ToSet
  <2>. QED
    BY <2>2, <2>3
<1>8. ASSUME NEW n \in 1..Len(s) PROVE s[n] \in ToSet(t)
  <2>1. CASE n < i
    <3>1. n \in 1..Len(s) + 1 /\ t[n] = s[n]
      BY <1>1, <2>1
    <3>. QED
      BY <1>2, <3>1 DEF ToSet
  <2>2. CASE ~ (n < i)
    <3>1. n + 1 \in 1..Len(s) + 1 /\ t[n + 1] = s[n]
      BY <1>1, <2>2
    <3>. QED
      BY <1>2, <3>1 DEF ToSet
  <2>. QED
    BY <2>1, <2>2
<1>9. x \in ToSet(t)
  <2>1. i \in 1..Len(s) + 1 /\ t[i] = x
    BY <1>1
  <2>. QED
    BY <1>2, <2>1 DEF ToSet
<1>10. ToSet(t) = ToSet(s) \cup {x}
  <2>1. \A y \in ToSet(s) : y \in ToSet(t)
    BY <1>2, <1>8 DEF ToSet
  <2>. QED
    BY <1>7, <1>9, <2>1
<1>. QED
  BY <1>6, <1>10 DEF t

-----------------------------------------------------------------------------
(* Functions that are defined by recursion over the naturals               *)

\* f is what base and step recur to, up to n.
RecursTo(n, base, step, f) ==
  \A m \in 0..n : f[m] = IF m = 0 THEN base ELSE step[m, f[m - 1]]

\* One step more.
LEMMA RecursionGoesOn ==
  ASSUME NEW n \in Nat, NEW N \in Nat, n + 1 <= N,
         NEW D, NEW base \in D, NEW step \in [(1..N) \X D -> D],
         NEW f \in [0..n -> D], RecursTo(n, base, step, f)
  PROVE  \E g \in [0..n + 1 -> D] : RecursTo(n + 1, base, step, g)
<1>1. PICK last \in D : last = step[n + 1, f[n]]
  <2>1. f[n] \in D /\ n + 1 \in 1..N
    OBVIOUS
  <2>. QED
    BY <2>1
<1>2. /\ \A m \in 0..n + 1 : m # n + 1 => m \in 0..n
      /\ n + 1 \in 0..n + 1 /\ \A m \in 0..n : m \in 0..n + 1 /\ m # n + 1
  OBVIOUS
<1>3. PICK g \in [0..n + 1 -> D] : g = [m \in 0..n + 1 |-> IF m = n + 1 THEN last ELSE f[m]]
  BY <1>2
<1>4. g[n + 1] = last /\ \A m \in 0..n : g[m] = f[m]
  BY <1>2, <1>3
<1>5. ASSUME NEW m \in 0..n + 1
      PROVE  g[m] = IF m = 0 THEN base ELSE step[m, g[m - 1]]
  <2>1. CASE m = n + 1
    <3>1. m # 0 /\ m - 1 = n /\ n \in 0..n
      BY <2>1
    <3>. QED
      BY <1>1, <1>4, <2>1, <3>1
  <2>2. CASE m # n + 1
    <3>1. m \in 0..n /\ (m # 0 => m - 1 \in 0..n)
      BY <2>2
    <3>. QED
      BY <1>4, <3>1 DEF RecursTo
  <2>. QED
    BY <2>1, <2>2
<1>. QED
  BY <1>5 DEF RecursTo

\* A recursion with values in D defines a function.
LEMMA RecursionExists ==
  ASSUME NEW N \in Nat, NEW D, NEW base \in D, NEW step \in [(1..N) \X D -> D]
  PROVE  \E f \in [0..N -> D] : RecursTo(N, base, step, f)
<1>. DEFINE H == {n \in Nat : n <= N => \E f \in [0..n -> D] : RecursTo(n, base, step, f)}
<1>1. 0 \in H
  <2>1. PICK f : f = [m \in 0..0 |-> base]
    OBVIOUS
  <2>2. f \in [0..0 -> D] /\ RecursTo(0, base, step, f)
    BY <2>1 DEF RecursTo
  <2>. QED
    BY <2>2
<1>2. ASSUME NEW n \in H PROVE n + 1 \in H
  <2>1. n \in Nat /\ n + 1 \in Nat /\ (n + 1 <= N => n <= N)
    OBVIOUS
  <2>2. ASSUME n + 1 <= N PROVE \E g \in [0..n + 1 -> D] : RecursTo(n + 1, base, step, g)
    <3>1. PICK f \in [0..n -> D] : RecursTo(n, base, step, f)
      BY <2>1, <2>2
    <3>. QED
      BY <2>1, <2>2, <3>1, RecursionGoesOn
  <2>. QED
    BY <2>1, <2>2
<1>3. H = Nat
  <2>1. H \in SUBSET Nat
    OBVIOUS
  <2>. HIDE DEF H
  <2>. QED
    BY <1>1, <1>2, <2>1, NumberInduction
<1>4. N \in H /\ N <= N
  BY <1>3
<1>. QED
  BY <1>4

-----------------------------------------------------------------------------
(* FoldSet                                                                 *)

\* What FoldSet unfolds to, for an operator given as a function.
Folds(S, base, step, iter) ==
    iter = [T \in SUBSET S |->
        IF T = {} THEN base
        ELSE LET x == CHOOSE x \in T : TRUE IN step[x, iter[T \ {x}]]]

\* Its sets of up to n elements.
UpTo(S, n) == {T \in SUBSET S : Cardinality(T) <= n}

FoldsUpTo(S, base, step, n, iter) ==
    \A T \in UpTo(S, n) :
        iter[T] = IF T = {} THEN base
                  ELSE LET x == CHOOSE x \in T : TRUE IN step[x, iter[T \ {x}]]

\* FoldSet takes an element out of a set and goes on with a smaller one.
LEMMA SmallerSets ==
  ASSUME NEW S, IsFiniteSet(S), NEW n \in Nat, NEW T \in UpTo(S, n), T # {}
  PROVE  /\ (CHOOSE x \in T : TRUE) \in T
         /\ T \ {CHOOSE x \in T : TRUE} \in UpTo(S, n) /\ n > 0
         /\ T \ {CHOOSE x \in T : TRUE} \in UpTo(S, n - 1)
<1>. DEFINE x == CHOOSE x \in T : TRUE
<1>1. x \in T
  OBVIOUS
<1>. HIDE DEF x
<1>2. IsFiniteSet(T) /\ T \in SUBSET S /\ Cardinality(T) <= n
  BY FS_Subset DEF UpTo
<1>3. Cardinality(T) \in Nat /\ Cardinality(T) # 0
  BY <1>2, FS_CardinalityType, FS_EmptySet
<1>4. Cardinality(T \ {x}) = Cardinality(T) - 1
  BY <1>1, <1>2, FS_RemoveElement
<1>. QED
  BY <1>1, <1>2, <1>3, <1>4 DEF UpTo, x

\* What FoldSet chooses exists, for a finite set and a step from D to D: for the
\* sets of up to n elements by induction on n.
LEMMA FoldExists ==
  ASSUME NEW S, IsFiniteSet(S), NEW D, NEW base \in D, NEW step \in [S \X D -> D]
  PROVE  \E iter \in [SUBSET S -> D] : Folds(S, base, step, iter)
<1>. DEFINE N == {n \in Nat : \E iter \in [UpTo(S, n) -> D] : FoldsUpTo(S, base, step, n, iter)}
<1>1. 0 \in N
  <2>1. UpTo(S, 0) = {{}}
    BY FS_Subset, FS_EmptySet, FS_CardinalityType DEF UpTo
  <2>2. FoldsUpTo(S, base, step, 0, [T \in UpTo(S, 0) |-> base])
    BY <2>1 DEF FoldsUpTo
  <2>. QED
    BY <2>2
<1>2. ASSUME NEW n \in N PROVE n + 1 \in N
  <2>1. PICK iter \in [UpTo(S, n) -> D] : FoldsUpTo(S, base, step, n, iter)
    OBVIOUS
  <2>. DEFINE more == [T \in UpTo(S, n + 1) |->
                  IF T \in UpTo(S, n) THEN iter[T]
                  ELSE LET x == CHOOSE x \in T : TRUE IN step[x, iter[T \ {x}]]]
  <2>2. n \in Nat /\ (n + 1) - 1 = n /\ UpTo(S, n) \subseteq UpTo(S, n + 1) /\ {} \in UpTo(S, n)
    BY FS_EmptySet, FS_Subset, FS_CardinalityType DEF UpTo
  <2>3. ASSUME NEW T \in UpTo(S, n + 1), T # {}
        PROVE  /\ (CHOOSE x \in T : TRUE) \in S /\ T \ {CHOOSE x \in T : TRUE} \in UpTo(S, n)
               /\ T \ {CHOOSE x \in T : TRUE} \in UpTo(S, n + 1)
               /\ step[CHOOSE x \in T : TRUE, iter[T \ {CHOOSE x \in T : TRUE}]] \in D
    <3>1. /\ (CHOOSE x \in T : TRUE) \in T /\ T \ {CHOOSE x \in T : TRUE} \in UpTo(S, n)
      BY <2>2, <2>3, SmallerSets
    <3>2. T \in SUBSET S
      BY DEF UpTo
    <3>. QED
      BY <2>2, <3>1, <3>2
  <2>4. more \in [UpTo(S, n + 1) -> D]
    BY <2>2, <2>3
  <2>5. ASSUME NEW T \in UpTo(S, n + 1)
        PROVE  more[T] = IF T = {} THEN base
                         ELSE LET x == CHOOSE x \in T : TRUE IN step[x, more[T \ {x}]]
    <3>1. CASE T = {}
      BY <2>1, <2>2, <3>1 DEF FoldsUpTo
    <3>2. CASE T # {}
      <4>. DEFINE x == CHOOSE x \in T : TRUE
      <4>1. more[T \ {x}] = iter[T \ {x}]
        BY <2>3, <3>2
      <4>2. more[T] = step[x, iter[T \ {x}]]
        <5>1. CASE T \in UpTo(S, n)
          BY <2>1, <3>2, <5>1 DEF FoldsUpTo
        <5>2. CASE T \notin UpTo(S, n)
          BY <5>2
        <5>. QED
          BY <5>1, <5>2
      <4>. HIDE DEF more
      <4>. QED
        BY <3>2, <4>1, <4>2
    <3>. QED
      BY <3>1, <3>2
  <2>6. FoldsUpTo(S, base, step, n + 1, more)
    <3>. HIDE DEF more
    <3>. QED
      BY <2>5 DEF FoldsUpTo
  <2>. HIDE DEF more
  <2>. QED
    BY <2>2, <2>4, <2>6
<1>3. N = Nat
  <2>1. N \in SUBSET Nat
    OBVIOUS
  <2>. HIDE DEF N
  <2>. QED
    BY <1>1, <1>2, <2>1, NumberInduction
<1>4. Cardinality(S) \in Nat
  BY FS_CardinalityType
<1>5. PICK iter \in [UpTo(S, Cardinality(S)) -> D] : FoldsUpTo(S, base, step, Cardinality(S), iter)
  BY <1>3, <1>4
<1>6. UpTo(S, Cardinality(S)) = SUBSET S
  BY FS_Subset DEF UpTo
<1>7. Folds(S, base, step, iter)
  BY <1>5, <1>6 DEF Folds, FoldsUpTo
<1>. QED
  BY <1>6, <1>7
=============================================================================
