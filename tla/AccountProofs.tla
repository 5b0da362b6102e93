--------------------------- MODULE AccountProofs ---------------------------
(***************************************************************************)
(* Theorems about the worlds that share the account tables: bans are       *)
(* retired once, none vanishes, and none that stands is deleted, for any   *)
(* number of worlds, accounts and bans, and whatever fails.                *)
(***************************************************************************)
EXTENDS AccountWorlds, TLAPS

-----------------------------------------------------------------------------
(* What other steps do to losses                                           *)

Grow == losses' = losses \/ losses' = losses + 1

\* No outcome of a statement takes a fault back.
LEMMA OutcomesGrow == (Answered => Grow) /\ (Fault => Grow) /\ (Loss => Grow)
  BY DEF Answered, Fault, Loss, Grow

\* Every statement of the operations on coins ends in one of the outcomes.
LEMMA CoinsGrow ==
  ASSUME NEW w \in Worlds, CoinsStep(w)
  PROVE  Grow
<1>1. ASSUME NEW a \in Accounts, EnterWorld(w, a) \/ LeaveWorld(w, a) PROVE Grow
  BY <1>1, OutcomesGrow DEF EnterWorld, LeaveWorld, Grow
<1>2. ASSUME NEW a \in Accounts, NEW n \in 1..MaxAmount, NEW transferable \in BOOLEAN,
             \/ Spend(w, a, n, transferable, "deliver")
             \/ Spend(w, a, n, transferable, "record")
             \/ Grant(w, a, n, transferable)
      PROVE  Grow
  BY <1>2 DEF Spend, Grant, Grow
<1>3. ASSUME NEW a \in Accounts, NEW b \in Accounts, NEW n \in 1..MaxAmount, Transfer(w, a, b, n)
      PROVE  Grow
  BY <1>3 DEF Transfer, Grow
<1>4. CASE ApplyCoinDelta(w)
  BY <1>4, OutcomesGrow DEF ApplyCoinDelta
<1>5. CASE Refresh(w)
  BY <1>5, OutcomesGrow DEF Refresh
<1>6. CASE Deliver(w)
  BY <1>6 DEF Deliver, Grow
<1>7. CASE Record(w)
  BY <1>7, OutcomesGrow DEF Record, Recorded
<1>8. CASE Credit(w)
  BY <1>8, OutcomesGrow DEF Credit
<1>9. CASE Gift(w)
  BY <1>9, OutcomesGrow DEF Gift, Recorded
<1>. QED
  BY <1>1, <1>2, <1>3, <1>4, <1>5, <1>6, <1>7, <1>8, <1>9 DEF CoinsStep

-----------------------------------------------------------------------------
(* The inductive invariant                                                 *)

\* The invariant of bans holds when the worlds start.
LEMMA InitBans == Init => BansInv
<1>. SUFFICES ASSUME Init PROVE BansInv
  OBVIOUS
<1>1. losses \in Nat /\ BansTypeOK
  BY BansAssumption DEF Init, BansInit, BansTypeOK
<1>2. FoundExpired /\ OneAccountEach /\ NoBanVanishes
  BY DEF Init, BansInit, FoundExpired, OneAccountEach, NoBanVanishes
<1>3. RetiredOnce
  BY BansAssumption DEF Init, BansInit, RetiredOnce, Standing
<1>. QED
  BY <1>1, <1>2, <1>3 DEF BansInv

\* A step that leaves the bans alone.
LEMMA ElsewhereKeepsBans ==
  ASSUME BansInv, UNCHANGED banVars, Grow
  PROVE  BansInv'
<1>. USE DEF banVars, Grow
<1>1. losses' \in Nat /\ losses' >= losses
  BY DEF BansInv
<1>2. BansTypeOK' /\ FoundExpired' /\ OneAccountEach'
  BY DEF BansInv, BansTypeOK, FoundExpired, OneAccountEach
<1>3. RetiredOnce'
  <2>. SUFFICES ASSUME NEW b \in Bans
                PROVE  /\ history'[b] > 0 => b \in expired' /\ ~ Standing(b)'
                       /\ \A w \in Worlds : removed'[w] = b =>
                            /\ b \in expired' /\ ~ Standing(b)' /\ history'[b] = 0
                            /\ \A v \in Worlds \ {w} : removed'[v] # b
                       /\ history'[b] <= 1 + losses'
    BY DEF RetiredOnce
  <2>1. Standing(b)' <=> Standing(b)
    BY DEF Standing
  <2>2. history[b] \in Nat /\ history[b] <= 1 + losses /\ losses \in Nat
    BY DEF BansInv, RetiredOnce, BansTypeOK
  <2>3. history'[b] <= 1 + losses'
    BY <1>1, <2>2
  <2>. QED
    BY <2>1, <2>3 DEF BansInv, RetiredOnce
<1>4. NoBanVanishes'
  <2>. SUFFICES ASSUME losses' = 0, NEW b \in issued
                PROVE  Standing(b)' \/ Due(b)' \/ history'[b] > 0 \/ b \in lifted'
    BY DEF NoBanVanishes
  <2>1. losses = 0
    BY <1>1 DEF BansInv
  <2>. QED
    BY <2>1 DEF BansInv, NoBanVanishes, Standing, Due
<1>. QED
  BY <1>1, <1>2, <1>3, <1>4 DEF BansInv

\* What is known of a ban that stands: nobody has retired it.
LEMMA StandingIsUntouched ==
  ASSUME BansInv, NEW a \in Accounts, bans[a] # NoBan
  PROVE  /\ bans[a] \in Bans /\ bans[a] \in issued
         /\ history[bans[a]] = 0
         /\ \A w \in Worlds : removed[w] # bans[a]
         /\ \A x \in Accounts : bans[x] = bans[a] => x = a
<1>1. bans[a] \in Bans /\ history[bans[a]] \in Nat
  BY DEF BansInv, BansTypeOK
<1>2. Standing(bans[a])
  BY DEF Standing
<1>3. history[bans[a]] = 0
  BY <1>1, <1>2 DEF BansInv, RetiredOnce
<1>. QED
  BY <1>1, <1>2, <1>3 DEF BansInv, RetiredOnce, OneAccountEach

\* A ban that was not issued is nowhere.
LEMMA FreshIsNowhere ==
  ASSUME BansInv, NEW b \in Bans, b \notin issued
  PROVE  /\ history[b] = 0 /\ b \notin expired /\ ~ Standing(b)
         /\ \A w \in Worlds : removed[w] # b
<1>1. b \notin expired /\ history[b] \in Nat
  BY DEF BansInv, BansTypeOK
<1>2. history[b] = 0 /\ \A w \in Worlds : removed[w] # b
  BY <1>1 DEF BansInv, RetiredOnce
<1>3. ~ Standing(b)
  BY BansAssumption DEF BansInv, OneAccountEach, Standing
<1>. QED
  BY <1>1, <1>2, <1>3

-----------------------------------------------------------------------------
(* Scripts and time                                                        *)

\* /ban keeps the invariant,
LEMMA IssueKeepsBans ==
  ASSUME BansInv, NEW a \in Accounts, NEW b \in Bans, IssueBan(a, b)
  PROVE  BansInv'
<1>. USE DEF IssueBan
<1>1. /\ losses' \in Nat /\ BansTypeOK'
      /\ history[b] = 0 /\ b \notin expired /\ b # NoBan
      /\ ~ Standing(b) /\ \A w \in Worlds : removed[w] # b
  BY FreshIsNowhere, BansAssumption DEF BansInv, BansTypeOK
<1>2. FoundExpired'
  BY DEF BansInv, FoundExpired
<1>3. \A c \in Bans : Standing(c)' <=> Standing(c) \/ c = b
  BY BansAssumption DEF BansInv, BansTypeOK, Standing
<1>4. OneAccountEach'
  <2>. SUFFICES ASSUME NEW x \in Accounts, bans'[x] # NoBan
                PROVE  /\ bans'[x] \in issued'
                       /\ \A y \in Accounts : bans'[y] = bans'[x] => y = x
    BY DEF OneAccountEach
  <2>1. \A y \in Accounts : bans[y] # b /\ bans'[y] = IF y = a THEN b ELSE bans[y]
    BY <1>1 DEF BansInv, BansTypeOK, Standing
  <2>. QED
    BY <2>1 DEF BansInv, OneAccountEach
<1>5. RetiredOnce'
  BY <1>1, <1>3 DEF BansInv, RetiredOnce
<1>6. NoBanVanishes'
  <2>. SUFFICES ASSUME losses = 0, NEW c \in issued'
                PROVE  Standing(c)' \/ Due(c)' \/ history'[c] > 0 \/ c \in lifted'
    BY DEF NoBanVanishes
  <2>1. c \in Bans
    BY DEF BansInv, BansTypeOK
  <2>. QED
    BY <1>3, <2>1 DEF BansInv, NoBanVanishes, Due
<1>. QED
  BY <1>1, <1>2, <1>4, <1>5, <1>6 DEF BansInv

\* /unban does,
LEMMA LiftKeepsBans ==
  ASSUME BansInv, NEW a \in Accounts, LiftBan(a)
  PROVE  BansInv'
<1>. USE DEF LiftBan
<1>1. /\ bans[a] \in Bans /\ bans[a] \in issued
      /\ \A x \in Accounts : bans'[x] = IF x = a THEN NoBan ELSE bans[x]
  BY StandingIsUntouched DEF BansInv, BansTypeOK
<1>2. losses' \in Nat /\ BansTypeOK' /\ FoundExpired'
  BY <1>1 DEF BansInv, BansTypeOK, FoundExpired
<1>3. OneAccountEach'
  BY <1>1 DEF BansInv, OneAccountEach
<1>4. \A c \in Bans : /\ Standing(c)' => Standing(c)
                      /\ Standing(c) => Standing(c)' \/ c = bans[a]
  BY <1>1, BansAssumption DEF Standing
<1>5. RetiredOnce'
  BY <1>4 DEF BansInv, RetiredOnce
<1>6. NoBanVanishes'
  <2>. SUFFICES ASSUME losses = 0, NEW c \in issued
                PROVE  Standing(c)' \/ Due(c)' \/ history[c] > 0 \/ c \in lifted'
    BY DEF NoBanVanishes
  <2>1. c \in Bans
    BY DEF BansInv, BansTypeOK
  <2>. QED
    BY <1>4, <2>1 DEF BansInv, NoBanVanishes, Due
<1>. QED
  BY <1>2, <1>3, <1>5, <1>6 DEF BansInv

\* a ban that expires does,
LEMMA ExpiryKeepsBans ==
  ASSUME BansInv, NEW b \in Bans, Expire(b)
  PROVE  BansInv'
<1>. USE DEF Expire
<1>1. losses' \in Nat /\ BansTypeOK' /\ FoundExpired' /\ OneAccountEach'
  BY DEF BansInv, BansTypeOK, FoundExpired, OneAccountEach
<1>2. RetiredOnce'
  BY DEF BansInv, RetiredOnce, Standing
<1>3. NoBanVanishes'
  BY DEF BansInv, NoBanVanishes, Standing, Due
<1>. QED
  BY <1>1, <1>2, <1>3 DEF BansInv

-----------------------------------------------------------------------------
(* The statements of a world                                               *)

\* A SELECT changes nothing but what the world has read.
LEMMA ReadsKeepBans ==
  ASSUME BansInv, NEW w \in Worlds, Sweep(w) \/ \E a \in Accounts : CheckLogin(w, a)
  PROVE  BansInv'
<1>1. /\ UNCHANGED <<losses, bans, issued, expired, lifted, history, removed>>
      /\ found' \in [Worlds -> SUBSET (Accounts \X Bans)]
      /\ \A v \in Worlds : \A e \in found'[v] : e \in found[v] \/ e[2] \in expired
  <2>1. ASSUME Sweep(w)
        PROVE  {<<a, bans[a]>> : a \in {x \in Accounts : bans[x] \in expired}} \subseteq Accounts \X Bans
    BY DEF BansInv, BansTypeOK
  <2>2. CASE Sweep(w)
    BY <2>1, <2>2 DEF Sweep, BansInv, BansTypeOK
  <2>3. ASSUME NEW a \in Accounts, CheckLogin(w, a)
        PROVE  {<<a, bans[a]>>} \subseteq Accounts \X Bans
    BY <2>3 DEF BansInv, BansTypeOK, CheckLogin
  <2>4. ASSUME NEW a \in Accounts, CheckLogin(w, a)
        PROVE  <1>1!:
    BY <2>3, <2>4 DEF CheckLogin, BansInv, BansTypeOK
  <2>. QED
    BY <2>2, <2>4
<1>2. losses' \in Nat /\ BansTypeOK' /\ FoundExpired' /\ OneAccountEach'
  BY <1>1 DEF BansInv, BansTypeOK, FoundExpired, OneAccountEach
<1>3. RetiredOnce'
  BY <1>1 DEF BansInv, RetiredOnce, Standing
<1>4. NoBanVanishes'
  BY <1>1 DEF BansInv, NoBanVanishes, Standing, Due
<1>. QED
  BY <1>2, <1>3, <1>4 DEF BansInv

\* Whether its DELETE hits or misses, a world retires the ban it has read.
LEMMA RetiringKeepsBans ==
  ASSUME BansInv, NEW w \in Worlds, NEW a \in Accounts, NEW b \in Bans, RetireBan(w, a, b)
  PROVE  BansInv'
<1>. USE DEF RetireBan
<1>1. /\ b \in expired /\ b # NoBan
      /\ UNCHANGED <<issued, expired, lifted, history>>
      /\ losses \in Nat /\ losses' \in {losses, losses + 1}
  BY BansAssumption, OutcomesGrow DEF BansInv, FoundExpired, Grow
<1>2. FoundExpired' /\ found' \in [Worlds -> SUBSET (Accounts \X Bans)]
  BY DEF BansInv, BansTypeOK, FoundExpired
<1>3. CASE UNCHANGED <<bans, removed>>
  <2>1. losses' \in Nat /\ BansTypeOK' /\ OneAccountEach'
    BY <1>1, <1>2, <1>3 DEF BansInv, BansTypeOK, OneAccountEach
  <2>2. RetiredOnce'
    <3>1. \A c \in Bans : history[c] \in Nat /\ (Standing(c)' <=> Standing(c))
      BY <1>3 DEF BansInv, BansTypeOK, Standing
    <3>. QED
      BY <1>1, <1>3, <3>1 DEF BansInv, RetiredOnce
  <2>3. NoBanVanishes'
    BY <1>1, <1>3 DEF BansInv, NoBanVanishes, Standing, Due
  <2>. QED
    BY <1>2, <2>1, <2>2, <2>3 DEF BansInv
<1>4. CASE bans[a] = b /\ bans' = [bans EXCEPT ![a] = NoBan]
  <2>1. /\ \A x \in Accounts : bans'[x] = IF x = a THEN NoBan ELSE bans[x]
        /\ history[b] = 0
        /\ \A v \in Worlds : removed[v] # b
        /\ \A x \in Accounts : bans[x] = b => x = a
    BY <1>1, <1>4, StandingIsUntouched DEF BansInv, BansTypeOK
  <2>2. ~ Standing(b)' /\ \A c \in Bans \ {b} : Standing(c)' <=> Standing(c)
    BY <1>1, <1>4, <2>1, BansAssumption DEF Standing
  <2>3. /\ removed' \in [Worlds -> Bans \cup {NoBan}]
        /\ \A v \in Worlds : removed'[v] = removed[v] \/ (v = w /\ removed'[v] = b)
        /\ removed[w] = NoBan
        /\ losses' = 0 => removed'[w] = b
    BY <1>1, <1>4 DEF Answered, Loss, Fault, RemovedBy, Matches, BansInv, BansTypeOK
  <2>4. losses' \in Nat /\ BansTypeOK' /\ OneAccountEach'
    <3>1. bans' \in [Accounts -> Bans \cup {NoBan}]
      BY <1>4 DEF BansInv, BansTypeOK
    <3>2. losses' \in Nat /\ BansTypeOK'
      BY <1>1, <1>2, <2>3, <3>1 DEF BansInv, BansTypeOK
    <3>3. OneAccountEach'
      BY <1>1, <2>1 DEF BansInv, OneAccountEach
    <3>. QED
      BY <3>2, <3>3
  <2>5. RetiredOnce'
    <3>1. \A c \in Bans : history[c] \in Nat /\ history[c] <= 1 + losses'
      BY <1>1 DEF BansInv, BansTypeOK, RetiredOnce
    <3>2. \A c \in Bans : history[c] > 0 => c \in expired /\ ~ Standing(c)'
      BY <2>1, <2>2 DEF BansInv, RetiredOnce
    <3>3. ASSUME NEW c \in Bans, NEW v \in Worlds, removed'[v] = c
          PROVE  /\ c \in expired /\ ~ Standing(c)' /\ history[c] = 0
                 /\ \A u \in Worlds \ {v} : removed'[u] # c
      <4>1. CASE c = b
        BY <1>1, <2>1, <2>2, <2>3, <3>3, <4>1
      <4>2. CASE c # b
        BY <2>2, <2>3, <3>3, <4>2 DEF BansInv, RetiredOnce
      <4>. QED
        BY <4>1, <4>2
    <3>. QED
      BY <1>1, <3>1, <3>2, <3>3 DEF RetiredOnce
  <2>6. NoBanVanishes'
    <3>. SUFFICES ASSUME losses' = 0, NEW c \in issued
                  PROVE  Standing(c)' \/ Due(c)' \/ history[c] > 0 \/ c \in lifted
      BY <1>1 DEF NoBanVanishes
    <3>1. c \in Bans /\ losses = 0
      BY <1>1 DEF BansInv, BansTypeOK
    <3>2. CASE c = b
      BY <2>3, <3>2 DEF Due
    <3>3. CASE c # b
      <4>1. Due(c) => Due(c)'
        <5>1. ASSUME NEW v \in Worlds, removed[v] = c
              PROVE  removed'[v] = c
          BY <2>3, <3>1, <5>1, BansAssumption
        <5>. QED
          BY <5>1 DEF Due
      <4>. QED
        BY <2>2, <3>1, <3>3, <4>1 DEF BansInv, NoBanVanishes
    <3>. QED
      BY <3>2, <3>3
  <2>. QED
    BY <1>2, <2>4, <2>5, <2>6 DEF BansInv
<1>5. (bans[a] = b /\ bans' = [bans EXCEPT ![a] = NoBan]) \/ UNCHANGED <<bans, removed>>
  <2>1. CASE bans[a] = b
    BY <2>1 DEF Delete, Matches
  <2>2. CASE bans[a] # b
    BY <2>2 DEF Delete, Matches, RemovedBy, BansInv, BansTypeOK
  <2>. QED
    BY <2>1, <2>2
<1>. QED
  BY <1>3, <1>4, <1>5

\* A row is written while none is there, and two only for an answer that was lost.
LEMMA WritingKeepsBans ==
  ASSUME BansInv, NEW w \in Worlds, WriteHistory(w)
  PROVE  BansInv'
<1>. DEFINE b == removed[w]
<1>. USE DEF WriteHistory
<1>1. /\ b \in Bans /\ b \in expired /\ ~ Standing(b) /\ history[b] = 0
      /\ \A v \in Worlds \ {w} : removed[v] # b
  BY DEF BansInv, BansTypeOK, RetiredOnce
<1>2. /\ \A v \in Worlds : removed'[v] = IF v = w THEN NoBan ELSE removed[v]
      /\ \A c \in Bans \ {b} : history'[c] = history[c]
      /\ history' \in [Bans -> Nat]
      /\ losses \in Nat /\ losses' \in {losses, losses + 1}
      /\ history'[b] <= 1 + losses'
      /\ losses' = 0 => history'[b] > 0
  BY <1>1 DEF Answered, Loss, BansInv, BansTypeOK
<1>3. losses' \in Nat /\ BansTypeOK' /\ FoundExpired' /\ OneAccountEach'
  BY <1>2 DEF BansInv, BansTypeOK, FoundExpired, OneAccountEach
<1>4. \A c \in Bans : Standing(c)' <=> Standing(c)
  BY DEF Standing
<1>5. RetiredOnce'
  <2>1. \A c \in Bans : history[c] \in Nat /\ history[c] <= 1 + losses
    BY DEF BansInv, BansTypeOK, RetiredOnce
  <2>2. \A c \in Bans : history'[c] <= 1 + losses'
    BY <1>2, <2>1
  <2>3. \A c \in Bans : history'[c] > 0 => c \in expired' /\ ~ Standing(c)'
    BY <1>1, <1>2, <1>4 DEF BansInv, RetiredOnce
  <2>4. ASSUME NEW c \in Bans, NEW v \in Worlds, removed'[v] = c
        PROVE  /\ c \in expired' /\ ~ Standing(c)' /\ history'[c] = 0
               /\ \A u \in Worlds \ {v} : removed'[u] # c
    <3>1. v # w /\ removed[v] = c /\ c # b
      BY <1>1, <1>2, <2>4, BansAssumption
    <3>. QED
      BY <1>2, <1>4, <3>1, BansAssumption DEF BansInv, RetiredOnce
  <2>. QED
    BY <2>2, <2>3, <2>4 DEF RetiredOnce
<1>6. NoBanVanishes'
  <2>. SUFFICES ASSUME losses' = 0, NEW c \in issued
                PROVE  Standing(c)' \/ Due(c)' \/ history'[c] > 0 \/ c \in lifted
    BY DEF NoBanVanishes
  <2>1. c \in Bans /\ losses = 0
    BY <1>2 DEF BansInv, BansTypeOK
  <2>2. CASE c = b
    BY <1>2, <2>2
  <2>3. CASE c # b
    <3>1. Due(c) => Due(c)'
      BY <1>2, <2>3 DEF Due
    <3>. QED
      BY <1>2, <1>4, <2>1, <2>3, <3>1 DEF BansInv, NoBanVanishes
  <2>. QED
    BY <2>2, <2>3
<1>. QED
  BY <1>3, <1>5, <1>6 DEF BansInv

-----------------------------------------------------------------------------
(* A crash                                                                 *)

\* What a world has found is found again, and the history row it did not get to
\* write is a loss.
LEMMA CrashKeepsBans ==
  ASSUME BansInv, NEW w \in Worlds, Crash(w)
  PROVE  BansInv'
<1>1. /\ losses \in Nat /\ losses' = losses + 1
      /\ UNCHANGED <<bans, issued, expired, lifted, history>>
      /\ found' \in [Worlds -> SUBSET (Accounts \X Bans)]
      /\ removed' \in [Worlds -> Bans \cup {NoBan}]
      /\ \A v \in Worlds : /\ found'[v] = IF v = w THEN {} ELSE found[v]
                           /\ removed'[v] = IF v = w THEN NoBan ELSE removed[v]
  BY DEF Crash, Loss, BansInv, BansTypeOK
<1>2. losses' \in Nat /\ BansTypeOK' /\ FoundExpired' /\ OneAccountEach'
  BY <1>1 DEF BansInv, BansTypeOK, FoundExpired, OneAccountEach
<1>3. RetiredOnce'
  <2>1. \A b \in Bans : (Standing(b)' <=> Standing(b)) /\ history[b] \in Nat
    BY <1>1 DEF Standing, BansInv, BansTypeOK
  <2>2. \A b \in Bans : history[b] <= 1 + losses'
    BY <1>1, <2>1 DEF BansInv, RetiredOnce
  <2>3. \A v \in Worlds, b \in Bans : removed'[v] = b => removed[v] = b
    BY <1>1, BansAssumption
  <2>. QED
    BY <1>1, <2>1, <2>2, <2>3, BansAssumption DEF BansInv, RetiredOnce
<1>4. NoBanVanishes'
  BY <1>1 DEF NoBanVanishes
<1>. QED
  BY <1>2, <1>3, <1>4 DEF BansInv

-----------------------------------------------------------------------------
(* Theorems                                                                *)

\* in short, whatever happens outside the chains of statements,
LEMMA ScriptsKeepBans == BansInv /\ BansScripts => BansInv'
  BY IssueKeepsBans, LiftKeepsBans, ExpiryKeepsBans DEF BansScripts

\* and every statement of a world.
LEMMA WorldsKeepBans ==
  ASSUME BansInv, NEW w \in Worlds, BansStep(w)
  PROVE  BansInv'
  BY ReadsKeepBans, RetiringKeepsBans, WritingKeepsBans DEF BansStep

\* BansInv is inductive.
THEOREM BansInvariant == Spec => []BansInv
<1>1. BansInv /\ [Next]_vars => BansInv'
  <2>. SUFFICES ASSUME BansInv, [Next]_vars PROVE BansInv'
    OBVIOUS
  <2>1. CASE BansScripts
    BY <2>1, ScriptsKeepBans
  <2>2. ASSUME NEW w \in Worlds, BansStep(w) PROVE BansInv'
    BY <2>2, WorldsKeepBans
  <2>3. ASSUME NEW w \in Worlds, CoinsStep(w), UNCHANGED banVars PROVE BansInv'
    BY <2>3, CoinsGrow, ElsewhereKeepsBans
  <2>4. CASE UNCHANGED vars
    BY <2>4, ElsewhereKeepsBans DEF vars, Grow
  <2>5. ASSUME NEW w \in Worlds, Crash(w) PROVE BansInv'
    BY <2>5, CrashKeepsBans
  <2>. QED
    BY <2>1, <2>2, <2>3, <2>4, <2>5 DEF Next
<1>. QED
  BY InitBans, <1>1, PTL DEF Spec

\* An expired ban is retired once (RetiredOnce).
THEOREM BansAreRetiredOnce == Spec => []RetiredOnce
<1>1. BansInv => RetiredOnce
  BY DEF BansInv
<1>. QED
  BY <1>1, BansInvariant, PTL

\* While no fault is of the kind that no caller can make good, no ban is lost
\* without a history row (NoBanVanishes).
THEOREM NoBanIsLost == Spec => []NoBanVanishes
<1>1. BansInv => NoBanVanishes
  BY DEF BansInv
<1>. QED
  BY <1>1, BansInvariant, PTL

\* A ban that has not expired is deleted by /unban alone (StandingBansStay).
THEOREM StandingBansAreKept == Spec => StandingBansStay
<1>1. ASSUME BansInv, [Next]_vars
      PROVE  [\A a \in Accounts :
                bans[a] # NoBan /\ bans'[a] # bans[a] => bans[a] \in expired \cup lifted']_banVars
  <2>. SUFFICES ASSUME NEW a \in Accounts, bans[a] # NoBan, bans'[a] # bans[a]
                PROVE  bans[a] \in expired \cup lifted'
    OBVIOUS
  <2>1. bans \in [Accounts -> Bans \cup {NoBan}] /\ FoundExpired
    BY <1>1 DEF BansInv, BansTypeOK
  <2>2. ASSUME NEW x \in Accounts, LiftBan(x) PROVE bans[a] \in lifted'
    BY <2>1, <2>2 DEF LiftBan
  <2>3. ASSUME NEW x \in Accounts, NEW b \in Bans, IssueBan(x, b) PROVE FALSE
    BY <2>1, <2>3 DEF IssueBan
  <2>4. ASSUME NEW w \in Worlds, NEW x \in Accounts, NEW b \in Bans, RetireBan(w, x, b)
        PROVE  bans[a] \in expired
    BY <2>1, <2>4 DEF RetireBan, Delete, Matches, FoundExpired
  <2>5. bans' # bans
    OBVIOUS
  <2>6. CASE BansScripts
    BY <2>2, <2>3, <2>5, <2>6 DEF BansScripts, Expire
  <2>7. ASSUME NEW w \in Worlds, BansStep(w) PROVE bans[a] \in expired
    BY <2>4, <2>5, <2>7 DEF BansStep, Sweep, WriteHistory, CheckLogin
  <2>. QED
    BY <1>1, <2>5, <2>6, <2>7 DEF Next, vars, banVars, Crash
<1>. QED
  BY <1>1, BansInvariant, PTL DEF Spec, StandingBansStay
=============================================================================
