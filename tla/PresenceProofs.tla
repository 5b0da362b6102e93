--------------------------- MODULE PresenceProofs ---------------------------
(***************************************************************************)
(* Proofs about Presence, for every set of worlds, accounts and tokens and *)
(* every lease, beat interval and bound on faults.                         *)
(***************************************************************************)
EXTENDS PresenceInv, TLAPS

-----------------------------------------------------------------------------
(* What the helpers return                                                 *)

\* The time after which a world gives up its rows is shorter than the lease.
LEMMA ThresholdRange == Threshold \in Nat /\ Threshold >= 1 /\ Threshold < Lease
  BY TimeAssumption DEF Threshold

\* A drawn token is one that nothing carries.
LEMMA DrawIsFresh == CanDraw => NewToken \in Tokens /\ NewToken \notin InUse
  BY DEF CanDraw, NewToken

\* Counters start in their ranges.
LEMMA ZeroInRange == 0 \in 0..Threshold /\ 0 \in 0..MaxDrift /\ 0 \in Age
  BY ThresholdRange, TimeAssumption DEF Age

\* A login that is being claimed for is a login,
LEMMA EntryType ==
    ASSUME NEW a \in Accounts \cup {NoAccount}, NEW t \in Tokens \cup {NoToken}, NEW n \in 0..ClaimAttempts
    PROVE  Entry(a, t, n) \in Logins
  BY DEF Entry, Logins

\* and so are the records that stand for none.
LEMMA EmptyRecords == NoRow \in Claims /\ NoLogin \in Logins
  BY BoundAssumption, EntryType DEF NoRow, NoLogin, Claims

\* What a world writes into a row is a claim.
LEMMA MineIsAClaim ==
    ASSUME TypeOK, NEW w \in Worlds, login[w].token # NoToken
    PROVE  Mine(w) \in Claims
  BY DEF TypeOK, Mine, Claims, Logins

\* A DELETE of one row leaves claims,
LEMMA DeletedType ==
    ASSUME NEW r \in [Accounts -> Claims], NEW a, NEW t
    PROVE  Deleted(r, a, t) \in [Accounts -> Claims]
  BY EmptyRecords DEF Deleted

\* so does one of all rows of a world.
LEMMA DeletedAllType ==
    ASSUME NEW r \in [Accounts -> Claims], NEW w
    PROVE  DeletedAll(r, w) \in [Accounts -> Claims]
  BY EmptyRecords DEF DeletedAll

\* A queued release is of an account and a token.
LEMMA QueuedType ==
    ASSUME TypeOK, NEW w \in Worlds, NEW a \in Accounts, NEW t \in Tokens \cup {NoToken}
    PROVE  Queued(w, a, t) \in [Worlds -> SUBSET (Accounts \X Tokens)]
  BY DEF Queued, TypeOK

\* Faults are counted up to their bound.
LEMMA AnswerType == TypeOK /\ (Answered \/ Faulty) => faults' \in 0..MaxFaults
  BY BoundAssumption DEF Answered, Faulty, TypeOK

\* A release keeps the types,
LEMMA ReleaseType ==
    ASSUME TypeOK, NEW w \in Worlds, NEW a \in Accounts, NEW t \in Tokens \cup {NoToken},
           Release(w, a, t)
    PROVE  /\ row' \in [Accounts -> Claims]
           /\ releases' \in [Worlds -> SUBSET (Accounts \X Tokens)]
           /\ faults' \in 0..MaxFaults
  <1>1. row' \in [Accounts -> Claims] BY DeletedType DEF Release, TypeOK
  <1>2. releases' \in [Worlds -> SUBSET (Accounts \X Tokens)] BY QueuedType DEF Release, TypeOK
  <1>3. faults' \in 0..MaxFaults BY AnswerType DEF Release
  <1>. QED BY <1>1, <1>2, <1>3

\* and so does a player who leaves.
LEMMA LeaveType ==
    ASSUME TypeOK, NEW w \in Worlds, NEW a \in Accounts, Leave(w, a)
    PROVE  /\ row' \in [Accounts -> Claims]
           /\ releases' \in [Worlds -> SUBSET (Accounts \X Tokens)]
           /\ faults' \in 0..MaxFaults
           /\ players' \in [Worlds -> SUBSET Accounts]
           /\ token' \in [Worlds -> [Accounts -> Tokens \cup {NoToken}]]
  <1>1. token[w][a] \in Tokens \cup {NoToken} BY DEF TypeOK
  <1>2. Release(w, a, token[w][a]) BY DEF Leave
  <1>3. players' \in [Worlds -> SUBSET Accounts] BY DEF Leave, TypeOK
  <1>4. token' \in [Worlds -> [Accounts -> Tokens \cup {NoToken}]] BY DEF Leave, TypeOK
  <1>. QED BY <1>1, <1>2, <1>3, <1>4, ReleaseType

\* The end of an attempt to claim keeps the types of the login.
LEMMA LoginMoves ==
    ASSUME TypeOK, NEW w \in Worlds, Granted(w) \/ Refused(w) \/ NextAttempt(w)
    PROVE  pc' \in [Worlds -> Phase] /\ login' \in [Worlds -> Logins]
  <1>1. CASE Granted(w)
    <2>1. pc' \in [Worlds -> Phase] BY <1>1 DEF Granted, TypeOK, Phase
    <2>2. [login[w] EXCEPT !.holder = NoToken] \in Logins
      <3>1. login[w] \in Logins BY DEF TypeOK
      <3>. QED BY <3>1 DEF Logins
    <2>3. login' = [login EXCEPT ![w] = [login[w] EXCEPT !.holder = NoToken]] BY <1>1 DEF Granted
    <2>4. login' \in [Worlds -> Logins] BY <2>2, <2>3 DEF TypeOK
    <2>. QED BY <2>1, <2>4
  <1>2. CASE Refused(w) BY <1>2, EmptyRecords DEF Refused, TypeOK, Phase
  <1>3. CASE NextAttempt(w) /\ ~Refused(w)
    <2>1. login[w].attempt + 1 \in 0..ClaimAttempts
      BY <1>3, BoundAssumption DEF NextAttempt, TypeOK, Logins
    <2>2. Entry(login[w].account, login[w].token, login[w].attempt + 1) \in Logins
      BY <2>1, EntryType DEF TypeOK, Logins
    <2>4. login' \in [Worlds -> Logins]
      <3>1. login' = [login EXCEPT ![w] = Entry(login[w].account, login[w].token, login[w].attempt + 1)]
        BY <1>3 DEF NextAttempt
      <3>. QED BY <2>2, <3>1 DEF TypeOK
    <2>3. pc' \in [Worlds -> Phase] BY <1>3 DEF NextAttempt, TypeOK, Phase
    <2>. QED BY <2>3, <2>4
  <1>. QED BY <1>1, <1>2, <1>3

-----------------------------------------------------------------------------
(* Types                                                                   *)

\* The types hold when the worlds start.
LEMMA TypeInit == Init => TypeOK
  BY EmptyRecords, TimeAssumption, BoundAssumption, ThresholdRange
     DEF Init, TypeOK, Missing, Phase, Age

\* Time keeps them,
LEMMA TypeTick == TypeOK /\ Tick => TypeOK'
  BY TimeAssumption, ThresholdRange DEF Tick, TypeOK, Aged, Cap, Age, Missing, sessionVars

\* so does a step of a clock,
LEMMA TypeClockStep == TypeOK /\ ClockStep => TypeOK'
  BY TimeAssumption DEF ClockStep, TypeOK, Aged, Cap, Age, Missing, sessionVars

\* a world that forgets what it knew,
LEMMA TypeForgotten ==
    ASSUME TypeOK, NEW w \in Worlds, Forgotten(w), UNCHANGED <<dbVars, faults>>
    PROVE  TypeOK'
  BY EmptyRecords, TimeAssumption, ThresholdRange, BoundAssumption
     DEF Forgotten, TypeOK, Phase, dbVars

\* and every step of a world.
LEMMA TypeStep ==
    ASSUME TypeOK, LoginsAreLocal, NEW w \in Worlds, World(w)
    PROVE  TypeOK'
  <1>. USE DEF dbVars, sessionVars, beatVars
  <1>1. CASE StartClear(w)
    <2>1. row' \in [Accounts -> Claims] BY <1>1, DeletedAllType DEF StartClear, TypeOK
    <2>. QED BY <1>1, <2>1 DEF StartClear, TypeOK, Phase, Answered
  <1>2. CASE StartBeat(w) BY <1>2, TimeAssumption DEF StartBeat, TypeOK, Phase, Age, Answered
  <1>3. CASE StartFails(w) BY <1>3, AnswerType DEF StartFails, TypeOK, Phase
  <1>4. CASE Crash(w) BY <1>4, TypeForgotten DEF Crash
  <1>5. CASE BeginRetire(w) BY <1>5 DEF BeginRetire, TypeOK, Phase
  <1>6. CASE \E a \in Accounts : ShutdownKick(w, a) BY <1>6 DEF ShutdownKick, TypeOK
  <1>7. CASE RetireClaims(w)
    <2>a. row \in [Accounts -> Claims] BY DEF TypeOK
    <2>b. row' = DeletedAll(row, w) \/ row' = row BY <1>7 DEF RetireClaims
    <2>1. row' \in [Accounts -> Claims] BY <2>a, <2>b, DeletedAllType
    <2>2. faults' \in 0..MaxFaults BY <1>7, AnswerType DEF RetireClaims
    <2>. QED BY <1>7, <2>1, <2>2 DEF RetireClaims, TypeOK, Phase
  <1>8. CASE RetireBeat(w)
    <2>1. beat' \in [Worlds -> Age \cup {Missing}] BY <1>8 DEF RetireBeat, TypeOK
    <2>2. faults' \in 0..MaxFaults BY <1>8, AnswerType DEF RetireBeat
    <2>. QED BY <1>8, <2>1, <2>2 DEF RetireBeat, TypeOK, Phase
  <1>9. CASE \E a \in Accounts : LateLogin(w, a) BY <1>9 DEF LateLogin, TypeOK
  <1>10. CASE Exit(w) BY <1>10, TypeForgotten DEF Exit
  <1>11. CASE \E a \in Accounts : Login(w, a)
    <2>1. PICK a \in Accounts : Login(w, a) BY <1>11
    <2>2. CASE a \in Exempt
      <3>1. Entry(a, NoToken, 0) \in Logins BY BoundAssumption, EntryType
      <3>2. login' \in [Worlds -> Logins] BY <2>1, <2>2, <3>1 DEF Login, TypeOK
      <3>3. pc' = [pc EXCEPT ![w] = "admit"] BY <2>1, <2>2 DEF Login
      <3>4. pc' \in [Worlds -> Phase] BY <3>3 DEF TypeOK, Phase
      <3>. QED BY <2>1, <3>2, <3>4 DEF Login, TypeOK
    <2>3. CASE a \notin Exempt
      <3>1. Entry(a, NewToken, 1) \in Logins
        BY <2>1, <2>3, DrawIsFresh, BoundAssumption, EntryType DEF Login
      <3>2. login' \in [Worlds -> Logins] BY <2>1, <2>3, <3>1 DEF Login, TypeOK
      <3>3. pc' = [pc EXCEPT ![w] = "insert"] BY <2>1, <2>3 DEF Login
      <3>4. pc' \in [Worlds -> Phase] BY <3>3 DEF TypeOK, Phase
      <3>. QED BY <2>1, <3>2, <3>4 DEF Login, TypeOK
    <2>. QED BY <2>2, <2>3
  <1>12. CASE Insert(w)
    <2>1. Mine(w) \in Claims BY <1>12, MineIsAClaim DEF Insert, LoginsAreLocal, LoginPhase
    <2>2. row' \in [Accounts -> Claims] BY <1>12, <2>1 DEF Insert, TypeOK
    <2>3. pc' \in [Worlds -> Phase] /\ login' \in [Worlds -> Logins]
      BY <1>12, LoginMoves DEF Insert, TypeOK, Phase
    <2>4. faults' \in 0..MaxFaults BY <1>12, AnswerType DEF Insert
    <2>. QED BY <1>12, <2>2, <2>3, <2>4 DEF Insert, TypeOK
  <1>13. CASE Lookup(w)
    <2>1. pc' \in [Worlds -> Phase] /\ login' \in [Worlds -> Logins]
      <3>1. CASE Granted(w) \/ Refused(w) \/ NextAttempt(w) BY <3>1, LoginMoves
      <3>2. CASE /\ row[login[w].account] # NoRow
                 /\ pc' = [pc EXCEPT ![w] = "takeover"]
                 /\ login' = [login EXCEPT ![w].holder = row[login[w].account].token]
        <4>1. row[login[w].account].token \in Tokens
          BY <1>13, <3>2 DEF Lookup, LoginsAreLocal, LoginPhase, TypeOK, Logins, Claims
        <4>2. pc' \in [Worlds -> Phase] BY <3>2 DEF TypeOK, Phase
        <4>3. [login[w] EXCEPT !.holder = row[login[w].account].token] \in Logins
          <5>1. login[w] \in Logins BY DEF TypeOK
          <5>. QED BY <4>1, <5>1 DEF Logins
        <4>4. login' = [login EXCEPT ![w] = [login[w] EXCEPT !.holder = row[login[w].account].token]]
          BY <3>2
        <4>5. login' \in [Worlds -> Logins] BY <4>3, <4>4 DEF TypeOK
        <4>. QED BY <4>2, <4>5
      <3>3. Granted(w) \/ Refused(w) \/ NextAttempt(w) \/
              (/\ row[login[w].account] # NoRow
               /\ pc' = [pc EXCEPT ![w] = "takeover"]
               /\ login' = [login EXCEPT ![w].holder = row[login[w].account].token])
        BY <1>13 DEF Lookup, Classify
      <3>. QED BY <3>1, <3>2, <3>3
    <2>2. faults' \in 0..MaxFaults BY <1>13, AnswerType DEF Lookup
    <2>. QED BY <1>13, <2>1, <2>2 DEF Lookup, TypeOK
  <1>14. CASE Takeover(w)
    <2>1. Mine(w) \in Claims BY <1>14, MineIsAClaim DEF Takeover, LoginsAreLocal, LoginPhase
    <2>2. row' \in [Accounts -> Claims] BY <1>14, <2>1 DEF Takeover, TypeOK
    <2>3. pc' \in [Worlds -> Phase] /\ login' \in [Worlds -> Logins]
      BY <1>14, LoginMoves DEF Takeover, TypeOK
    <2>4. faults' \in 0..MaxFaults BY <1>14, AnswerType DEF Takeover
    <2>. QED BY <1>14, <2>2, <2>3, <2>4 DEF Takeover, TypeOK
  <1>15. CASE Place(w)
    <2>1. pc' \in [Worlds -> Phase] /\ login' \in [Worlds -> Logins] BY <1>15, LoginMoves DEF Place
    <2>2. login[w].account \in Accounts /\ login[w].token \in Tokens \cup {NoToken}
      BY <1>15 DEF Place, LoginsAreLocal, LoginPhase, TypeOK, Logins
    <2>3. players' \in [Worlds -> SUBSET Accounts] BY <1>15, <2>2 DEF Place, TypeOK
    <2>4. token' \in [Worlds -> [Accounts -> Tokens \cup {NoToken}]] BY <1>15, <2>2 DEF Place, TypeOK
    <2>. QED BY <1>15, <2>1, <2>3, <2>4 DEF Place, TypeOK
  <1>16. CASE TurnAway(w)
    <2>1. pc' \in [Worlds -> Phase] /\ login' \in [Worlds -> Logins] BY <1>16, LoginMoves DEF TurnAway
    <2>2. login[w].account \in Accounts /\ login[w].token \in Tokens \cup {NoToken}
      BY <1>16 DEF TurnAway, LoginsAreLocal, LoginPhase, TypeOK, Logins
    <2>3. releases' \in [Worlds -> SUBSET (Accounts \X Tokens)] BY <1>16, <2>2, QueuedType DEF TurnAway
    <2>. QED BY <1>16, <2>1, <2>3 DEF TurnAway, TypeOK
  <1>17. CASE ScriptRefuses(w)
    <2>1. pc' \in [Worlds -> Phase] /\ login' \in [Worlds -> Logins] BY <1>17, LoginMoves DEF ScriptRefuses
    <2>2. login[w].account \in Accounts /\ login[w].token \in Tokens \cup {NoToken}
      BY <1>17 DEF ScriptRefuses, LoginsAreLocal, LoginPhase, TypeOK, Logins
    <2>3. /\ row' \in [Accounts -> Claims] /\ faults' \in 0..MaxFaults
          /\ releases' \in [Worlds -> SUBSET (Accounts \X Tokens)]
      BY <1>17, <2>2, ReleaseType DEF ScriptRefuses
    <2>. QED BY <1>17, <2>1, <2>3 DEF ScriptRefuses, TypeOK
  <1>18. CASE \E a \in Accounts : Logout(w, a)
    BY <1>18, LeaveType DEF Logout, TypeOK
  <1>19. CASE \E a \in Accounts, t \in Tokens : RunRelease(w, a, t)
    <2>1. PICK a \in Accounts, t \in Tokens : RunRelease(w, a, t) BY <1>19
    <2>2. row' \in [Accounts -> Claims] BY <2>1, DeletedType DEF RunRelease, TypeOK
    <2>3. faults' \in 0..MaxFaults BY <2>1, AnswerType DEF RunRelease
    <2>. QED BY <2>1, <2>2, <2>3 DEF RunRelease, TypeOK
  <1>20. CASE Beat(w)
    <2>1. CASE flight[w] = "none"
      <3>1. /\ flight' = [flight EXCEPT ![w] = "queued"]
            /\ measured' = [measured EXCEPT ![w] = 0]
            /\ drift' = [drift EXCEPT ![w] = 0]
        BY <1>20, <2>1 DEF Beat
      <3>2. flight' \in [Worlds -> {"none", "queued", "replied"}] BY <3>1 DEF TypeOK
      <3>3. measured' \in [Worlds -> 0..Threshold] BY <3>1, ZeroInRange DEF TypeOK
      <3>4. drift' \in [Worlds -> 0..MaxDrift] BY <3>1, ZeroInRange DEF TypeOK
      <3>. QED BY <1>20, <3>2, <3>3, <3>4 DEF Beat, TypeOK
    <2>2. CASE flight[w] # "none"
      <3>1. UNCHANGED <<flight, measured, drift>> BY <1>20, <2>2 DEF Beat
      <3>. QED BY <1>20, <3>1 DEF Beat, TypeOK
    <2>. QED BY <2>1, <2>2
  <1>21. CASE ReadAge(w)
    <2>1. measured' \in [Worlds -> 0..Threshold]
      BY <1>21, ThresholdRange DEF ReadAge, Measured, Cap, Missing, Age, TypeOK
    <2>2. faults' \in 0..MaxFaults BY <1>21, AnswerType DEF ReadAge
    <2>. QED BY <1>21, <2>1, <2>2 DEF ReadAge, TypeOK
  <1>22. CASE FinishBeat(w)
    <2>1. beat' \in [Worlds -> Age \cup {Missing}]
      <3>1. beat' = beat \/ beat' = [beat EXCEPT ![w] = 0] BY <1>22 DEF FinishBeat
      <3>. QED BY <3>1, ZeroInRange DEF TypeOK
    <2>2. since' \in [Worlds -> 0..Threshold]
      <3>1. since' = since \/ since' = [since EXCEPT ![w] = 0] BY <1>22 DEF FinishBeat
      <3>. QED BY <3>1, ZeroInRange DEF TypeOK
    <2>3. pc' \in [Worlds -> Phase] BY <1>22 DEF FinishBeat, Planned, TypeOK, Phase
    <2>4. followUp' \in [Worlds -> BOOLEAN] /\ stallPending' \in [Worlds -> BOOLEAN]
      BY <1>22 DEF FinishBeat, Planned, PlanReconcile, FollowUpAfter, IsStall, TypeOK
    <2>5. /\ flight' \in [Worlds -> {"none", "queued", "replied"}]
          /\ measured' \in [Worlds -> 0..Threshold]
          /\ drift' \in [Worlds -> 0..MaxDrift]
      <3>1. Settled(w) \/ UNCHANGED <<flight, measured, drift>> BY <1>22 DEF FinishBeat
      <3>2. CASE Settled(w) BY <3>2, ZeroInRange DEF Settled, TypeOK
      <3>3. CASE UNCHANGED <<flight, measured, drift>> BY <3>3 DEF TypeOK
      <3>. QED BY <3>1, <3>2, <3>3
    <2>6. faults' \in 0..MaxFaults BY <1>22, AnswerType DEF FinishBeat
    <2>. QED BY <1>22, <2>1, <2>2, <2>3, <2>4, <2>5, <2>6 DEF FinishBeat, TypeOK
  <1>23. CASE DropReply(w) BY <1>23, ThresholdRange, TimeAssumption DEF DropReply, Settled, TypeOK
  <1>24. CASE Reconcile(w)
    <2>1. victims' \in [Worlds -> SUBSET Accounts]
      <3>1. {a \in players[w] : LostClaim(w, a)} \in SUBSET Accounts BY DEF TypeOK
      <3>. QED BY <1>24, <3>1 DEF Reconcile, TypeOK
    <2>2. followUp' \in [Worlds -> BOOLEAN] BY <1>24 DEF Reconcile, TypeOK
    <2>3. faults' \in 0..MaxFaults BY <1>24, AnswerType DEF Reconcile
    <2>. QED BY <1>24, <2>1, <2>2, <2>3 DEF Reconcile, TypeOK, Phase
  <1>25. CASE \E a \in Accounts : Kick(w, a)
    <2>1. PICK a \in Accounts : Kick(w, a) BY <1>25
    <2>2. victims' \in [Worlds -> SUBSET Accounts] BY <2>1 DEF Kick, TypeOK
    <2>. QED BY <2>1, <2>2, LeaveType DEF Kick, TypeOK
  <1>26. CASE Reconciled(w) BY <1>26 DEF Reconciled, TypeOK, Phase
  <1>. QED BY <1>1, <1>2, <1>3, <1>4, <1>5, <1>6, <1>7, <1>8, <1>9, <1>10, <1>11, <1>12, <1>13, <1>14, <1>15,
      <1>16, <1>17, <1>18, <1>19, <1>20, <1>21, <1>22, <1>23, <1>24, <1>25, <1>26 DEF World, Continue, Background

-----------------------------------------------------------------------------
(* Logins, players and heartbeats                                          *)

\* A step of the claim loop: it goes on with the same account and token, or ends.
ClaimLoop(w) ==
    \/ /\ pc'[w] \in LoginPhase /\ \A v \in Worlds \ {w} : pc'[v] = pc[v]
       /\ \A v \in Worlds : login'[v].account = login[v].account /\ login'[v].token = login[v].token
    \/ Refused(w)

\* The statements of the claim loop touch no player and no token.
LEMMA ClaimLoopMoves ==
    ASSUME TypeOK, NEW w \in Worlds, Insert(w) \/ Lookup(w) \/ Takeover(w)
    PROVE  UNCHANGED <<players, token, releases>> /\ ClaimLoop(w)
  <1>a. SUFFICES UNCHANGED <<players, token, releases>> /\ (~Refused(w) => ClaimLoop(w))
    BY DEF ClaimLoop
  <1>6. UNCHANGED <<players, token, releases>>
    BY DEF Insert, Lookup, Takeover, sessionVars
  <1>b. login[w] \in Logins /\ pc \in [Worlds -> Phase] BY DEF TypeOK
  <1>1. CASE Granted(w)
    <2>1. pc'[w] \in LoginPhase /\ \A v \in Worlds \ {w} : pc'[v] = pc[v]
      BY <1>1, <1>b DEF Granted, LoginPhase
    <2>2. ASSUME NEW v \in Worlds
          PROVE  login'[v].account = login[v].account /\ login'[v].token = login[v].token
      BY <1>1 DEF Granted, TypeOK, Logins
    <2>. QED BY <1>6, <2>1, <2>2 DEF ClaimLoop
  <1>2. CASE NextAttempt(w)
    <2>. SUFFICES ASSUME ~Refused(w) PROVE ClaimLoop(w) BY <1>6
    <2>1. /\ pc' = [pc EXCEPT ![w] = "insert"]
          /\ login' = [login EXCEPT ![w] = Entry(@.account, @.token, @.attempt + 1)]
      BY <1>2 DEF NextAttempt
    <2>2. pc'[w] \in LoginPhase /\ \A v \in Worlds \ {w} : pc'[v] = pc[v]
      BY <2>1, <1>b DEF LoginPhase
    <2>3. ASSUME NEW v \in Worlds
          PROVE  login'[v].account = login[v].account /\ login'[v].token = login[v].token
      BY <2>1 DEF Entry, TypeOK
    <2>. QED BY <2>2, <2>3 DEF ClaimLoop
  <1>3. CASE /\ pc' = pc \/ pc' = [pc EXCEPT ![w] = "lookup"]
             /\ login' = login
             /\ pc[w] \in LoginPhase
    <2>1. pc'[w] \in LoginPhase /\ \A v \in Worlds \ {w} : pc'[v] = pc[v]
      BY <1>3, <1>b DEF LoginPhase
    <2>. QED BY <1>3, <1>6, <2>1 DEF ClaimLoop
  <1>4. CASE /\ pc' = [pc EXCEPT ![w] = "takeover"]
             /\ login' = [login EXCEPT ![w].holder = row[login[w].account].token]
    <2>1. pc'[w] \in LoginPhase /\ \A v \in Worlds \ {w} : pc'[v] = pc[v]
      BY <1>4, <1>b DEF LoginPhase
    <2>2. ASSUME NEW v \in Worlds
          PROVE  login'[v].account = login[v].account /\ login'[v].token = login[v].token
      BY <1>4 DEF TypeOK, Logins
    <2>. QED BY <1>6, <2>1, <2>2 DEF ClaimLoop
  <1>7. CASE Insert(w)
    <2>1. Granted(w) \/ Refused(w) \/ ((pc' = pc \/ pc' = [pc EXCEPT ![w] = "lookup"]) /\ login' = login)
      BY <1>7 DEF Insert
    <2>. QED BY <1>1, <1>3, <1>6, <1>7, <2>1 DEF Insert, LoginPhase
  <1>8. CASE Lookup(w)
    <2>1. \/ Granted(w) \/ Refused(w) \/ NextAttempt(w)
          \/ /\ pc' = [pc EXCEPT ![w] = "takeover"]
             /\ login' = [login EXCEPT ![w].holder = row[login[w].account].token]
      BY <1>8 DEF Lookup, Classify
    <2>. QED BY <1>1, <1>2, <1>4, <1>6, <2>1
  <1>9. CASE Takeover(w)
    <2>1. Granted(w) \/ Refused(w) \/ NextAttempt(w) \/ (pc' = pc /\ login' = login)
      BY <1>9 DEF Takeover
    <2>. QED BY <1>1, <1>2, <1>3, <1>6, <1>9, <2>1 DEF Takeover, LoginPhase
  <1>. QED BY <1>7, <1>8, <1>9

\* A world that forgets has no login under way.
LEMMA LocalForgotten ==
    ASSUME TypeOK, LoginsAreLocal, NEW w \in Worlds, Forgotten(w)
    PROVE  LoginsAreLocal'
  BY IdsAssumption DEF Forgotten, LoginsAreLocal, LoginPhase, NoLogin, Entry, TypeOK, Phase

\* No step starts a login of an account that its world has already.
LEMMA LocalStep ==
    ASSUME TypeOK, LoginsAreLocal, NEW w \in Worlds, World(w)
    PROVE  LoginsAreLocal'
  <1>. USE DEF LoginPhase, sessionVars
  <1>1. CASE Crash(w) \/ Exit(w) BY <1>1, LocalForgotten DEF Crash, Exit
  <1>2. CASE StartClear(w) \/ StartBeat(w) \/ StartFails(w) \/ BeginRetire(w)
    BY <1>2 DEF StartClear, StartBeat, StartFails, BeginRetire, LoginsAreLocal, TypeOK, Phase
  <1>3. CASE RetireClaims(w) \/ RetireBeat(w) \/ Reconcile(w) \/ Reconciled(w)
    BY <1>3 DEF RetireClaims, RetireBeat, Reconcile, Reconciled, LoginsAreLocal, TypeOK, Phase
  <1>4. CASE (\E a \in Accounts : ShutdownKick(w, a)) \/ (\E a \in Accounts : Logout(w, a))
             \/ (\E a \in Accounts : Kick(w, a))
    BY <1>4 DEF ShutdownKick, Logout, Kick, Leave, LoginsAreLocal, TypeOK
  <1>5. CASE \E a \in Accounts : LateLogin(w, a)
    BY <1>5, IdsAssumption DEF LateLogin, LoginsAreLocal, TypeOK
  <1>6. CASE \E a \in Accounts : Login(w, a)
    <2>1. PICK a \in Accounts : Login(w, a) BY <1>6
    <2>2. CASE a \in Exempt
      <3>1. pc' = [pc EXCEPT ![w] = "admit"] /\ login' = [login EXCEPT ![w] = Entry(a, NoToken, 0)]
            /\ players' = players /\ a \notin players[w]
        BY <2>1, <2>2 DEF Login
      <3>. QED BY <3>1, IdsAssumption DEF LoginsAreLocal, Entry, TypeOK, Phase
    <2>3. CASE a \notin Exempt
      <3>1. pc' = [pc EXCEPT ![w] = "insert"] /\ login' = [login EXCEPT ![w] = Entry(a, NewToken, 1)]
            /\ players' = players /\ a \notin players[w]
        BY <2>1, <2>3 DEF Login
      <3>2. NewToken # NoToken BY <2>1, <2>3, DrawIsFresh, IdsAssumption DEF Login
      <3>. QED BY <3>1, <3>2, IdsAssumption DEF LoginsAreLocal, Entry, TypeOK, Phase
    <2>. QED BY <2>2, <2>3
  <1>7. CASE Insert(w) \/ Lookup(w) \/ Takeover(w)
    <2>1. UNCHANGED players /\ ClaimLoop(w) BY <1>7, ClaimLoopMoves
    <2>2. pc[w] \in LoginPhase \ {"admit"} BY <1>7 DEF Insert, Lookup, Takeover
    <2>3. CASE Refused(w)
      BY <2>1, <2>3, IdsAssumption DEF Refused, LoginsAreLocal, NoLogin, Entry, TypeOK
    <2>4. CASE ~Refused(w) BY <2>1, <2>2, <2>4 DEF ClaimLoop, LoginsAreLocal
    <2>. QED BY <2>3, <2>4
  <1>8. CASE Place(w) \/ TurnAway(w) \/ ScriptRefuses(w)
    <2>1. Refused(w) BY <1>8 DEF Place, TurnAway, ScriptRefuses
    <2>2. \A v \in Worlds \ {w} : players'[v] = players[v]
      BY <1>8 DEF Place, TurnAway, ScriptRefuses, TypeOK
    <2>3. \A v \in Worlds : NoAccount \notin players'[v]
      <3>1. players' \in [Worlds -> SUBSET Accounts] BY <1>8, TypeStep DEF TypeOK, World, Continue
      <3>. QED BY <3>1, IdsAssumption
    <2>. QED BY <2>1, <2>2, <2>3, IdsAssumption DEF Refused, NoLogin, Entry, LoginsAreLocal, TypeOK
  <1>9. CASE \E a \in Accounts, t \in Tokens : RunRelease(w, a, t)
    BY <1>9 DEF RunRelease, LoginsAreLocal
  <1>10. CASE Beat(w) \/ ReadAge(w) \/ DropReply(w)
    BY <1>10 DEF Beat, ReadAge, DropReply, LoginsAreLocal
  <1>11. CASE FinishBeat(w)
    <2>1. UNCHANGED <<login, players>> BY <1>11 DEF FinishBeat
    <2>2. /\ {pc[w], pc'[w]} \subseteq {"idle", "beating", "reconcile"}
          /\ \A v \in Worlds \ {w} : pc'[v] = pc[v]
      BY <1>11 DEF FinishBeat, Planned, TypeOK
    <2>. QED BY <2>1, <2>2 DEF LoginsAreLocal
  <1>. QED BY <1>1, <1>2, <1>3, <1>4, <1>5, <1>6, <1>7, <1>8, <1>9, <1>10, <1>11 DEF World, Continue, Background

\* No step lets a world hold a token of an account that does not play there.
LEMMA PlayersStep ==
    ASSUME TypeOK, LoginsAreLocal, ClaimsNeedPlayers, NEW w \in Worlds, World(w)
    PROVE  ClaimsNeedPlayers'
  <1>. USE DEF NobodyPhase, sessionVars
  <1>1. CASE Crash(w) \/ Exit(w)
    BY <1>1 DEF Crash, Exit, Forgotten, ClaimsNeedPlayers, TypeOK
  <1>2. CASE StartClear(w) \/ StartBeat(w) \/ StartFails(w) \/ BeginRetire(w)
    BY <1>2 DEF StartClear, StartBeat, StartFails, BeginRetire, ClaimsNeedPlayers, TypeOK, Phase
  <1>3. CASE RetireClaims(w) \/ RetireBeat(w) \/ Reconcile(w) \/ Reconciled(w)
    BY <1>3 DEF RetireClaims, RetireBeat, Reconcile, Reconciled, ClaimsNeedPlayers, TypeOK, Phase
  <1>4. CASE (\E a \in Accounts : ShutdownKick(w, a)) \/ (\E a \in Accounts : Logout(w, a))
             \/ (\E a \in Accounts : Kick(w, a))
    BY <1>4 DEF ShutdownKick, Logout, Kick, Leave, ClaimsNeedPlayers, TypeOK
  <1>5. CASE \E a \in Accounts : LateLogin(w, a)
    BY <1>5 DEF LateLogin, ClaimsNeedPlayers, TypeOK
  <1>6. CASE \E a \in Accounts : Login(w, a)
    BY <1>6 DEF Login, ClaimsNeedPlayers, TypeOK, Phase
  <1>7. CASE Insert(w) \/ Lookup(w) \/ Takeover(w)
    <2>1. UNCHANGED <<players, token>> /\ ClaimLoop(w) BY <1>7, ClaimLoopMoves
    <2>. QED BY <2>1 DEF ClaimLoop, LoginPhase, Refused, ClaimsNeedPlayers, TypeOK
  <1>8. CASE Place(w)
    BY <1>8 DEF Place, Refused, ClaimsNeedPlayers, TypeOK, Phase
  <1>9. CASE TurnAway(w) \/ ScriptRefuses(w)
    <2>1. UNCHANGED <<players, token>> /\ pc[w] = "admit" /\ pc' = [pc EXCEPT ![w] = "idle"]
      BY <1>9 DEF TurnAway, ScriptRefuses, Refused
    <2>2. \A v \in Worlds \ {w} : pc'[v] = pc[v] BY <2>1 DEF TypeOK
    <2>3. pc'[w] = "idle" BY <2>1 DEF TypeOK
    <2>. QED BY <2>1, <2>2, <2>3 DEF ClaimsNeedPlayers
  <1>10. CASE \E a \in Accounts, t \in Tokens : RunRelease(w, a, t)
    BY <1>10 DEF RunRelease, ClaimsNeedPlayers
  <1>11. CASE Beat(w) \/ ReadAge(w) \/ DropReply(w)
    BY <1>11 DEF Beat, ReadAge, DropReply, ClaimsNeedPlayers
  <1>12. CASE FinishBeat(w)
    <2>1. /\ UNCHANGED <<players, token>>
          /\ pc' = pc \/ \E p \in Phase \ NobodyPhase : pc' = [pc EXCEPT ![w] = p]
      BY <1>12 DEF FinishBeat, Planned, Phase
    <2>2. \A v \in Worlds : pc'[v] = pc[v] \/ pc'[v] \notin NobodyPhase BY <2>1 DEF TypeOK
    <2>. QED BY <2>1, <2>2 DEF ClaimsNeedPlayers
  <1>. QED BY <1>1, <1>2, <1>3, <1>4, <1>5, <1>6, <1>7, <1>8, <1>9, <1>10, <1>11, <1>12
      DEF World, Continue, Background

\* No step takes the heartbeat row away from a running world.
LEMMA HeartbeatStep ==
    ASSUME TypeOK, HeartbeatKept, NEW w \in Worlds, World(w)
    PROVE  HeartbeatKept'
  <1>. USE DEF NobodyPhase, dbVars
  <1>1. CASE Crash(w) \/ Exit(w)
    BY <1>1 DEF Crash, Exit, Forgotten, HeartbeatKept, TypeOK
  <1>2. CASE StartClear(w) \/ StartFails(w) \/ BeginRetire(w) \/ RetireClaims(w)
    BY <1>2 DEF StartClear, StartFails, BeginRetire, RetireClaims, HeartbeatKept, TypeOK
  <1>3. CASE StartBeat(w)
    BY <1>3 DEF StartBeat, HeartbeatKept, TypeOK, Missing
  <1>4. CASE RetireBeat(w)
    BY <1>4 DEF RetireBeat, HeartbeatKept, TypeOK
  <1>5. CASE \/ \E a \in Accounts : LateLogin(w, a)
             \/ \E a \in Accounts : ShutdownKick(w, a)
             \/ \E a \in Accounts : Logout(w, a)
             \/ \E a \in Accounts : Kick(w, a)
             \/ \E a \in Accounts, t \in Tokens : RunRelease(w, a, t)
             \/ Beat(w) \/ ReadAge(w) \/ DropReply(w)
    BY <1>5 DEF LateLogin, ShutdownKick, Logout, Kick, RunRelease, Beat, ReadAge, DropReply, HeartbeatKept
  <1>6. CASE \E a \in Accounts : Login(w, a)
    <2>1. UNCHANGED beat /\ pc[w] = "idle" /\ \A v \in Worlds \ {w} : pc'[v] = pc[v]
      BY <1>6 DEF Login, TypeOK
    <2>. QED BY <2>1 DEF HeartbeatKept
  <1>7. CASE Insert(w) \/ Lookup(w) \/ Takeover(w)
    <2>1. /\ UNCHANGED beat /\ ClaimLoop(w)
          /\ pc[w] \in LoginPhase
      BY <1>7, ClaimLoopMoves DEF Insert, Lookup, Takeover, LoginPhase
    <2>2. \A v \in Worlds \ {w} : pc'[v] = pc[v] BY <2>1 DEF ClaimLoop, Refused, TypeOK
    <2>. QED BY <2>1, <2>2 DEF HeartbeatKept, LoginPhase
  <1>8. CASE Place(w) \/ TurnAway(w) \/ ScriptRefuses(w)
    <2>1. UNCHANGED beat /\ pc[w] = "admit" /\ pc' = [pc EXCEPT ![w] = "idle"]
      BY <1>8 DEF Place, TurnAway, ScriptRefuses, Refused
    <2>2. \A v \in Worlds \ {w} : pc'[v] = pc[v] BY <2>1 DEF TypeOK
    <2>. QED BY <2>1, <2>2 DEF HeartbeatKept
  <1>9. CASE Reconcile(w) \/ Reconciled(w)
    BY <1>9 DEF Reconcile, Reconciled, HeartbeatKept, TypeOK
  <1>10. CASE FinishBeat(w)
    <2>1. /\ beat' = beat \/ beat' = [beat EXCEPT ![w] = 0]
          /\ pc[w] \in {"idle", "beating"} /\ \A v \in Worlds \ {w} : pc'[v] = pc[v]
      BY <1>10 DEF FinishBeat, Planned, TypeOK
    <2>2. \A v \in Worlds : beat'[v] = Missing => beat[v] = Missing
      BY <2>1 DEF TypeOK, Missing
    <2>3. SUFFICES ASSUME NEW v \in Worlds, beat'[v] = Missing
                   PROVE  pc'[v] \in NobodyPhase \ {"retireBeat"}
      BY DEF HeartbeatKept
    <2>4. pc[v] \in NobodyPhase \ {"retireBeat"} BY <2>2, <2>3 DEF HeartbeatKept
    <2>5. v # w BY <2>1, <2>4
    <2>. QED BY <2>1, <2>4, <2>5
  <1>. QED BY <1>1, <1>2, <1>3, <1>4, <1>5, <1>6, <1>7, <1>8, <1>9, <1>10 DEF World, Continue, Background

\* Time, and a jump of the database's clock, age every heartbeat by one at most;
\* the measure of a beat in flight follows.
LEMMA MeasureTime ==
    ASSUME TypeOK, HeartbeatKept, MeasureCoversAge, Tick \/ ClockStep
    PROVE  HeartbeatKept' /\ MeasureCoversAge'
  <1>1. ASSUME NEW w \in Worlds
        PROVE  /\ beat'[w] = Missing <=> beat[w] = Missing
               /\ beat[w] # Missing => beat'[w] <= beat[w] + 1
    <2>1. beat'[w] = IF beat[w] = Missing THEN Missing ELSE Cap(beat[w] + 1, Lease + 1)
      BY DEF Tick, ClockStep, Aged
    <2>2. beat[w] \in 0..(Lease + 1) \cup {-1} BY DEF TypeOK, Age, Missing
    <2>. QED BY <2>1, <2>2, TimeAssumption DEF Cap, Missing
  <1>2. HeartbeatKept' BY <1>1 DEF HeartbeatKept, Tick, ClockStep
  <1>3. ASSUME NEW w \in Worlds, flight'[w] = "replied", beat'[w] # Missing
        PROVE  measured'[w] >= Threshold \/ measured'[w] + drift'[w] >= beat'[w]
    <2>1. flight[w] = "replied" /\ beat[w] # Missing BY <1>1, <1>3 DEF Tick, ClockStep
    <2>2. measured[w] >= Threshold \/ measured[w] + drift[w] >= beat[w]
      BY <2>1 DEF MeasureCoversAge
    <2>3. beat[w] \in Int /\ beat'[w] \in Int /\ measured[w] \in Int /\ drift[w] \in Int
      BY TimeAssumption DEF TypeOK, Tick, ClockStep, Aged, Cap, Age, Missing
    <2>4. CASE Tick
      <3>1. drift'[w] = drift[w] /\ measured'[w] = Cap(measured[w] + 1, Threshold)
        BY <2>1, <2>4 DEF Tick
      <3>. QED BY <1>1, <2>1, <2>2, <2>3, <3>1, ThresholdRange DEF Cap
    <2>5. CASE ClockStep
      <3>1. measured'[w] = measured[w] /\ drift'[w] = drift[w] + 1 BY <2>1, <2>5 DEF ClockStep, TypeOK
      <3>. QED BY <1>1, <2>1, <2>2, <2>3, <3>1, ThresholdRange
    <2>. QED BY <2>4, <2>5
  <1>. QED BY <1>2, <1>3 DEF MeasureCoversAge

\* No step makes a world think its row is younger than it is.
LEMMA MeasureStep ==
    ASSUME TypeOK, MeasureCoversAge, NEW w \in Worlds, World(w)
    PROVE  MeasureCoversAge'
  <1>. USE DEF dbVars, beatVars
  <1>0. CASE UNCHANGED <<beat, flight, measured, drift>> BY <1>0 DEF MeasureCoversAge
  <1>1. CASE \/ StartClear(w) \/ StartFails(w) \/ BeginRetire(w) \/ RetireClaims(w)
             \/ Insert(w) \/ Lookup(w) \/ Takeover(w) \/ Place(w) \/ TurnAway(w) \/ ScriptRefuses(w)
             \/ Reconcile(w) \/ Reconciled(w)
             \/ \E a \in Accounts, t \in Tokens : RunRelease(w, a, t)
    <2>1. UNCHANGED <<beat, flight, measured, drift>>
      BY <1>1 DEF StartClear, StartFails, BeginRetire, RetireClaims, Insert, Lookup, Takeover, Place, TurnAway,
         ScriptRefuses, Reconcile, Reconciled, RunRelease
    <2>. QED BY <1>0, <2>1
  <1>2. CASE \/ \E a \in Accounts : Login(w, a)
             \/ \E a \in Accounts : LateLogin(w, a)
             \/ \E a \in Accounts : ShutdownKick(w, a)
             \/ \E a \in Accounts : Logout(w, a)
             \/ \E a \in Accounts : Kick(w, a)
    <2>1. UNCHANGED <<beat, flight, measured, drift>>
      BY <1>2 DEF Login, LateLogin, ShutdownKick, Logout, Kick
    <2>. QED BY <1>0, <2>1
  <1>3. CASE Crash(w) \/ Exit(w)
    <2>1. UNCHANGED beat /\ flight'[w] = "none"
      BY <1>3 DEF Crash, Exit, Forgotten, TypeOK
    <2>2. \A v \in Worlds \ {w} : flight'[v] = flight[v] /\ measured'[v] = measured[v] /\ drift'[v] = drift[v]
      BY <1>3 DEF Crash, Exit, Forgotten, TypeOK
    <2>. QED BY <2>1, <2>2 DEF MeasureCoversAge
  <1>4. CASE StartBeat(w)
    <2>1. measured[w] >= 0 /\ drift[w] >= 0 /\ measured[w] \in Int /\ drift[w] \in Int BY DEF TypeOK
    <2>. QED BY <1>4, <2>1 DEF StartBeat, MeasureCoversAge, TypeOK
  <1>5. CASE RetireBeat(w)
    BY <1>5 DEF RetireBeat, MeasureCoversAge, TypeOK
  <1>6. CASE Beat(w)
    <2>1. CASE flight[w] = "none"
      <3>1. /\ flight' = [flight EXCEPT ![w] = "queued"]
            /\ \A v \in Worlds \ {w} : measured'[v] = measured[v] /\ drift'[v] = drift[v]
            /\ UNCHANGED beat
        BY <1>6, <2>1 DEF Beat, TypeOK
      <3>. QED BY <3>1 DEF MeasureCoversAge, TypeOK
    <2>2. CASE flight[w] # "none" BY <1>0, <1>6, <2>2 DEF Beat
    <2>. QED BY <2>1, <2>2
  <1>7. CASE ReadAge(w)
    <2>1. UNCHANGED <<beat, drift>> /\ \A v \in Worlds \ {w} : flight'[v] = flight[v] /\ measured'[v] = measured[v]
      BY <1>7 DEF ReadAge, TypeOK
    <2>2. beat'[w] # Missing => measured'[w] >= Threshold \/ measured'[w] + drift'[w] >= beat'[w]
      BY <1>7, <2>1, ThresholdRange, TimeAssumption DEF ReadAge, Measured, Cap, TypeOK, Age, Missing
    <2>. QED BY <2>1, <2>2 DEF MeasureCoversAge
  <1>8. CASE FinishBeat(w)
    <2>1. CASE Settled(w)
      <3>1. flight'[w] = "none" BY <2>1 DEF Settled, TypeOK
      <3>2. \A v \in Worlds \ {w} : /\ flight'[v] = flight[v] /\ measured'[v] = measured[v]
                                    /\ drift'[v] = drift[v] /\ beat'[v] = beat[v]
        BY <1>8, <2>1 DEF FinishBeat, Settled, TypeOK
      <3>. QED BY <3>1, <3>2 DEF MeasureCoversAge
    <2>2. CASE UNCHANGED <<flight, measured, drift>> /\ beat' = [beat EXCEPT ![w] = 0]
      <3>1. measured[w] >= 0 /\ drift[w] >= 0 /\ measured[w] \in Int /\ drift[w] \in Int BY DEF TypeOK
      <3>. QED BY <2>2, <3>1 DEF MeasureCoversAge, TypeOK
    <2>. QED BY <1>8, <2>1, <2>2 DEF FinishBeat
  <1>9. CASE DropReply(w)
    BY <1>9 DEF DropReply, Settled, MeasureCoversAge, TypeOK
  <1>. QED BY <1>1, <1>2, <1>3, <1>4, <1>5, <1>6, <1>7, <1>8, <1>9 DEF World, Continue, Background

-----------------------------------------------------------------------------
(* Who carries a token                                                     *)

\* All a world's step may change of another world is its rows.
Untouched(v) ==
    /\ pc'[v] = pc[v] /\ token'[v] = token[v] /\ releases'[v] = releases[v]
    /\ login'[v] = login[v] /\ victims'[v] = victims[v]
    /\ beat'[v] = beat[v] /\ since'[v] = since[v]
    /\ flight'[v] = flight[v] /\ measured'[v] = measured[v]
    /\ followUp'[v] = followUp[v] /\ stallPending'[v] = stallPending[v]

\* A release of one world is none of another's,
LEMMA ReleaseElsewhere ==
    ASSUME TypeOK, NEW w \in Worlds, NEW a, NEW t, Release(w, a, t), NEW v \in Worlds \ {w}
    PROVE  releases'[v] = releases[v]
  BY DEF Release, Queued, TypeOK

\* nor is a player who leaves it.
LEMMA LeaveElsewhere ==
    ASSUME TypeOK, NEW w \in Worlds, NEW a \in Accounts, Leave(w, a), NEW v \in Worlds \ {w}
    PROVE  releases'[v] = releases[v] /\ token'[v] = token[v]
  BY ReleaseElsewhere DEF Leave, TypeOK

\* A step of one world leaves what another one knows alone.
LEMMA OthersUntouched ==
    ASSUME TypeOK, NEW w \in Worlds, World(w), NEW v \in Worlds \ {w}
    PROVE  Untouched(v)
  <1>. USE DEF dbVars, sessionVars, beatVars, Untouched
  <1>1. CASE Crash(w) \/ Exit(w) BY <1>1 DEF Crash, Exit, Forgotten, TypeOK
  <1>2. CASE StartClear(w) \/ StartBeat(w) \/ StartFails(w)
    BY <1>2 DEF StartClear, StartBeat, StartFails, TypeOK
  <1>3. CASE BeginRetire(w) \/ RetireClaims(w) \/ RetireBeat(w)
    BY <1>3 DEF BeginRetire, RetireClaims, RetireBeat, TypeOK
  <1>4. CASE (\E a \in Accounts : ShutdownKick(w, a)) \/ (\E a \in Accounts : LateLogin(w, a))
    BY <1>4 DEF ShutdownKick, LateLogin, TypeOK
  <1>5. CASE \E a \in Accounts : Login(w, a) BY <1>5 DEF Login, TypeOK
  <1>6. CASE Insert(w) \/ Lookup(w) \/ Takeover(w)
    <2>1. Granted(w) \/ Refused(w) \/ NextAttempt(w)
          \/ \A u \in Worlds \ {w} : pc'[u] = pc[u] /\ login'[u] = login[u]
      BY <1>6 DEF Insert, Lookup, Takeover, Classify, TypeOK
    <2>2. pc'[v] = pc[v] /\ login'[v] = login[v]
      BY <2>1 DEF Granted, Refused, NextAttempt, TypeOK
    <2>. QED BY <1>6, <2>2 DEF Insert, Lookup, Takeover
  <1>7. CASE Place(w) BY <1>7 DEF Place, Refused, TypeOK
  <1>8. CASE TurnAway(w) BY <1>8 DEF TurnAway, Queued, Refused, TypeOK
  <1>9. CASE ScriptRefuses(w) BY <1>9, ReleaseElsewhere DEF ScriptRefuses, Refused, TypeOK
  <1>10. CASE \E a \in Accounts : Logout(w, a) BY <1>10, LeaveElsewhere DEF Logout
  <1>11. CASE \E a \in Accounts, t \in Tokens : RunRelease(w, a, t) BY <1>11 DEF RunRelease, TypeOK
  <1>12. CASE Beat(w) BY <1>12 DEF Beat, TypeOK
  <1>13. CASE ReadAge(w) \/ DropReply(w) BY <1>13 DEF ReadAge, DropReply, Settled, TypeOK
  <1>14. CASE FinishBeat(w)
    <2>1. Settled(w) \/ UNCHANGED <<flight, measured>> BY <1>14 DEF FinishBeat
    <2>2. flight'[v] = flight[v] /\ measured'[v] = measured[v] BY <2>1 DEF Settled, TypeOK
    <2>3. pc'[v] = pc[v] /\ followUp'[v] = followUp[v] /\ stallPending'[v] = stallPending[v]
      BY <1>14 DEF FinishBeat, Planned, TypeOK
    <2>4. beat'[v] = beat[v] /\ since'[v] = since[v] BY <1>14 DEF FinishBeat, TypeOK
    <2>. QED BY <1>14, <2>2, <2>3, <2>4 DEF FinishBeat
  <1>15. CASE Reconcile(w) \/ Reconciled(w) BY <1>15 DEF Reconcile, Reconciled, TypeOK
  <1>16. CASE \E a \in Accounts : Kick(w, a) BY <1>16, LeaveElsewhere DEF Kick, TypeOK
  <1>. QED BY <1>1, <1>2, <1>3, <1>4, <1>5, <1>6, <1>7, <1>8, <1>9, <1>10, <1>11, <1>12, <1>13, <1>14, <1>15, <1>16
      DEF World, Continue, Background

\* Nothing carries a token that was just drawn.
LEMMA FreshCarries ==
    ASSUME CanDraw, NEW v \in Worlds, NEW a \in Accounts
    PROVE  ~Carries(v, a, NewToken)
  <1>1. NewToken \in Tokens /\ NewToken \notin InUse BY DrawIsFresh
  <1>2. /\ row[a].token # NewToken /\ token[v][a] # NewToken /\ login[v].token # NewToken
        /\ <<a, NewToken>> \notin releases[v]
    BY <1>1 DEF InUse
  <1>. QED BY <1>2 DEF Carries

\* A row comes from the login of the world that writes it.
LEMMA RowMoves ==
    ASSUME TypeOK, NEW w \in Worlds, World(w), NEW v \in Worlds, NEW a \in Accounts, NEW t \in Tokens,
           row'[a] = [world |-> v, token |-> t]
    PROVE  \/ row[a] = [world |-> v, token |-> t]
           \/ v = w /\ login[w].account = a /\ login[w].token = t
  <1>. USE DEF dbVars
  <1>0. [world |-> v, token |-> t] # NoRow BY IdsAssumption DEF NoRow
  <1>1. CASE StartClear(w) \/ RetireClaims(w)
    BY <1>0, <1>1 DEF StartClear, RetireClaims, DeletedAll
  <1>2. CASE Insert(w) \/ Takeover(w)
    <2>1. row' = row \/ row' = [row EXCEPT ![login[w].account] = Mine(w)]
      BY <1>2 DEF Insert, Takeover
    <2>2. row'[a] = row[a] \/ (login[w].account = a /\ row'[a] = Mine(w)) BY <2>1 DEF TypeOK
    <2>3. ASSUME row'[a] = Mine(w) PROVE v = w /\ login[w].token = t
      <3>1. Mine(w).world = w /\ Mine(w).token = login[w].token BY DEF Mine
      <3>. QED BY <2>3, <3>1
    <2>. QED BY <2>2, <2>3
  <1>3. ASSUME NEW b, NEW s, row' = Deleted(row, b, s) PROVE row[a] = [world |-> v, token |-> t]
    BY <1>0, <1>3 DEF Deleted, TypeOK
  <1>4. CASE ScriptRefuses(w) BY <1>3, <1>4 DEF ScriptRefuses, Release
  <1>5. CASE (\E b \in Accounts : Logout(w, b)) \/ (\E b \in Accounts : Kick(w, b))
    BY <1>3, <1>5 DEF Logout, Kick, Leave, Release
  <1>6. CASE \E b \in Accounts, s \in Tokens : RunRelease(w, b, s)
    BY <1>3, <1>6 DEF RunRelease
  <1>7. CASE UNCHANGED row BY <1>7
  <1>8. CASE (\E b \in Accounts : ShutdownKick(w, b)) \/ (\E b \in Accounts : LateLogin(w, b))
             \/ (\E b \in Accounts : Login(w, b))
    BY <1>7, <1>8 DEF ShutdownKick, LateLogin, Login
  <1>9. CASE \/ StartBeat(w) \/ StartFails(w) \/ Crash(w) \/ Exit(w) \/ BeginRetire(w) \/ RetireBeat(w)
             \/ Lookup(w) \/ Place(w) \/ TurnAway(w) \/ Beat(w) \/ ReadAge(w) \/ FinishBeat(w)
             \/ DropReply(w) \/ Reconcile(w) \/ Reconciled(w)
    BY <1>7, <1>9 DEF StartBeat, StartFails, Crash, Exit, BeginRetire, RetireBeat, Lookup, Place, TurnAway,
       Beat, ReadAge, FinishBeat, DropReply, Reconcile, Reconciled
  <1>. QED BY <1>1, <1>2, <1>4, <1>5, <1>6, <1>8, <1>9 DEF World, Continue, Background

\* A player's token comes from the login that placed it.
LEMMA TokenMoves ==
    ASSUME TypeOK, NEW w \in Worlds, World(w), NEW a \in Accounts, NEW t \in Tokens, token'[w][a] = t
    PROVE  \/ token[w][a] = t
           \/ Place(w) /\ login[w].account = a /\ login[w].token = t
  <1>. USE DEF sessionVars
  <1>1. CASE Crash(w) \/ Exit(w) BY <1>1, IdsAssumption DEF Crash, Exit, Forgotten, TypeOK
  <1>2. CASE Place(w) BY <1>2 DEF Place, TypeOK
  <1>3. ASSUME NEW b, token' = [token EXCEPT ![w][b] = NoToken] PROVE token[w][a] = t
    BY <1>3, IdsAssumption DEF TypeOK
  <1>4. CASE (\E b \in Accounts : Logout(w, b)) \/ (\E b \in Accounts : Kick(w, b))
             \/ (\E b \in Accounts : ShutdownKick(w, b))
    BY <1>3, <1>4 DEF Logout, Kick, Leave, ShutdownKick
  <1>5. CASE UNCHANGED token BY <1>5
  <1>6. CASE (\E b \in Accounts : LateLogin(w, b)) \/ (\E b \in Accounts : Login(w, b))
             \/ (\E b \in Accounts, s \in Tokens : RunRelease(w, b, s))
    BY <1>5, <1>6 DEF LateLogin, Login, RunRelease
  <1>7. CASE \/ StartClear(w) \/ StartBeat(w) \/ StartFails(w) \/ BeginRetire(w) \/ RetireClaims(w)
             \/ RetireBeat(w) \/ Insert(w) \/ Lookup(w) \/ Takeover(w) \/ TurnAway(w) \/ ScriptRefuses(w)
             \/ Beat(w) \/ ReadAge(w) \/ FinishBeat(w) \/ DropReply(w) \/ Reconcile(w) \/ Reconciled(w)
    BY <1>5, <1>7 DEF StartClear, StartBeat, StartFails, BeginRetire, RetireClaims, RetireBeat, Insert, Lookup,
       Takeover, TurnAway, ScriptRefuses, Beat, ReadAge, FinishBeat, DropReply, Reconcile, Reconciled
  <1>. QED BY <1>1, <1>2, <1>4, <1>6, <1>7 DEF World, Continue, Background

\* A queued release comes from the player or the login that gave the claim up.
LEMMA ReleaseMoves ==
    ASSUME TypeOK, NEW w \in Worlds, World(w), NEW a \in Accounts, NEW t \in Tokens, <<a, t>> \in releases'[w]
    PROVE  \/ <<a, t>> \in releases[w]
           \/ token[w][a] = t /\ token'[w][a] = NoToken /\ login'[w] = login[w]
           \/ login[w].account = a /\ login[w].token = t /\ login'[w] = NoLogin /\ token'[w][a] = token[w][a]
  <1>. USE DEF sessionVars
  <1>1. CASE Crash(w) \/ Exit(w) BY <1>1 DEF Crash, Exit, Forgotten, TypeOK
  <1>2. ASSUME NEW b, NEW s, releases' = Queued(w, b, s), <<a, t>> \notin releases[w] PROVE a = b /\ s = t
    BY <1>2 DEF Queued, TypeOK
  <1>3. CASE TurnAway(w) \/ ScriptRefuses(w)
    <2>1. login'[w] = NoLogin /\ token' = token
      BY <1>3 DEF TurnAway, ScriptRefuses, Refused, TypeOK
    <2>2. CASE TurnAway(w) BY <1>2, <2>1, <2>2 DEF TurnAway
    <2>3. CASE ScriptRefuses(w) BY <1>2, <2>1, <2>3 DEF ScriptRefuses, Release
    <2>. QED BY <1>3, <2>2, <2>3
  <1>4. CASE (\E b \in Accounts : Logout(w, b)) \/ (\E b \in Accounts : Kick(w, b))
    <2>1. PICK b \in Accounts : Leave(w, b) /\ login' = login BY <1>4 DEF Logout, Kick
    <2>2. releases' = releases \/ releases' = Queued(w, b, token[w][b]) BY <2>1 DEF Leave, Release
    <2>3. CASE <<a, t>> \notin releases[w]
      <3>1. a = b /\ token[w][b] = t BY <1>2, <2>2, <2>3
      <3>2. token'[w][a] = NoToken BY <2>1, <3>1 DEF Leave, TypeOK
      <3>. QED BY <2>1, <3>1, <3>2
    <2>. QED BY <2>3
  <1>5. CASE UNCHANGED releases BY <1>5
  <1>6. CASE (\E b \in Accounts : LateLogin(w, b)) \/ (\E b \in Accounts : Login(w, b))
             \/ (\E b \in Accounts : ShutdownKick(w, b))
    BY <1>5, <1>6 DEF LateLogin, Login, ShutdownKick
  <1>7. CASE \E b \in Accounts, s \in Tokens : RunRelease(w, b, s) BY <1>7 DEF RunRelease, TypeOK
  <1>8. CASE \/ StartClear(w) \/ StartBeat(w) \/ StartFails(w) \/ BeginRetire(w) \/ RetireClaims(w)
             \/ RetireBeat(w) \/ Insert(w) \/ Lookup(w) \/ Takeover(w) \/ Place(w)
             \/ Beat(w) \/ ReadAge(w) \/ FinishBeat(w) \/ DropReply(w) \/ Reconcile(w) \/ Reconciled(w)
    BY <1>5, <1>8 DEF StartClear, StartBeat, StartFails, BeginRetire, RetireClaims, RetireBeat, Insert, Lookup,
       Takeover, Place, Beat, ReadAge, FinishBeat, DropReply, Reconcile, Reconciled
  <1>. QED BY <1>1, <1>3, <1>4, <1>6, <1>7, <1>8 DEF World, Continue, Background

\* A login keeps its account and token until it ends; a new one draws a token.
LEMMA LoginStep ==
    ASSUME TypeOK, NEW w \in Worlds, World(w), NEW t \in Tokens, login'[w].token = t
    PROVE  \/ login[w].account = login'[w].account /\ login[w].token = t
           \/ CanDraw /\ t = NewToken /\ UNCHANGED <<row, token, releases>>
  <1>. USE DEF sessionVars
  <1>0. NoLogin.token # t BY IdsAssumption DEF NoLogin, Entry
  <1>1. CASE Crash(w) \/ Exit(w) BY <1>0, <1>1 DEF Crash, Exit, Forgotten, TypeOK
  <1>2. CASE \E a \in Accounts : Login(w, a)
    <2>1. PICK a \in Accounts : Login(w, a) BY <1>2
    <2>2. CASE a \in Exempt
      <3>1. login'[w] = Entry(a, NoToken, 0) BY <2>1, <2>2 DEF Login, TypeOK
      <3>. QED BY <3>1, IdsAssumption DEF Entry
    <2>3. CASE a \notin Exempt
      <3>1. CanDraw /\ login'[w] = Entry(a, NewToken, 1) /\ UNCHANGED <<row, token, releases>>
        BY <2>1, <2>3 DEF Login, TypeOK, dbVars
      <3>. QED BY <3>1 DEF Entry
    <2>. QED BY <2>2, <2>3
  <1>3. CASE Insert(w) \/ Lookup(w) \/ Takeover(w)
    <2>1. CASE Refused(w) BY <1>0, <2>1 DEF Refused, TypeOK
    <2>2. CASE ~Refused(w) BY <1>3, <2>2, ClaimLoopMoves DEF ClaimLoop
    <2>. QED BY <2>1, <2>2
  <1>4. CASE Place(w) \/ TurnAway(w) \/ ScriptRefuses(w)
    BY <1>0, <1>4 DEF Place, TurnAway, ScriptRefuses, Refused, TypeOK
  <1>5. CASE UNCHANGED login BY <1>5
  <1>6. CASE (\E b \in Accounts : LateLogin(w, b)) \/ (\E b \in Accounts : Logout(w, b))
             \/ (\E b \in Accounts : ShutdownKick(w, b)) \/ (\E b \in Accounts : Kick(w, b))
             \/ (\E b \in Accounts, s \in Tokens : RunRelease(w, b, s))
    BY <1>5, <1>6 DEF LateLogin, Logout, ShutdownKick, Kick, RunRelease
  <1>7. CASE \/ StartClear(w) \/ StartBeat(w) \/ StartFails(w) \/ BeginRetire(w) \/ RetireClaims(w)
             \/ RetireBeat(w) \/ Beat(w) \/ ReadAge(w) \/ FinishBeat(w) \/ DropReply(w)
             \/ Reconcile(w) \/ Reconciled(w)
    BY <1>5, <1>7 DEF StartClear, StartBeat, StartFails, BeginRetire, RetireClaims, RetireBeat,
       Beat, ReadAge, FinishBeat, DropReply, Reconcile, Reconciled
  <1>. QED BY <1>1, <1>2, <1>3, <1>4, <1>6, <1>7 DEF World, Continue, Background

\* A step makes nothing carry a token that did not, but for the token it draws.
LEMMA CarriersStep ==
    ASSUME TypeOK, NEW w \in Worlds, World(w), NEW v \in Worlds, NEW a \in Accounts, NEW t \in Tokens,
           Carries(v, a, t)'
    PROVE  Carries(v, a, t) \/ (CanDraw /\ t = NewToken /\ v = w /\ login'[w].account = a)
  <1>1. CASE row'[a] = [world |-> v, token |-> t]
    BY <1>1, RowMoves DEF Carries
  <1>2. CASE v # w /\ row'[a] # [world |-> v, token |-> t]
    <2>1. Untouched(v) BY <1>2, OthersUntouched
    <2>. QED BY <1>2, <2>1 DEF Untouched, Carries
  <1>3. CASE v = w /\ token'[w][a] = t BY <1>3, TokenMoves DEF Carries
  <1>4. CASE v = w /\ <<a, t>> \in releases'[w] BY <1>4, ReleaseMoves DEF Carries
  <1>5. CASE v = w /\ login'[w].account = a /\ login'[w].token = t BY <1>5, LoginStep DEF Carries
  <1>. QED BY <1>1, <1>2, <1>3, <1>4, <1>5 DEF Carries

\* No step lets one token name two worlds or two accounts.
LEMMA TokensStep ==
    ASSUME TypeOK, TokensNameOneClaim, NEW w \in Worlds, World(w)
    PROVE  TokensNameOneClaim'
  <1>. SUFFICES ASSUME NEW u \in Worlds, NEW v \in Worlds, NEW a \in Accounts, NEW b \in Accounts,
                       NEW t \in Tokens, Carries(u, a, t)', Carries(v, b, t)'
                PROVE  u = v /\ a = b
    BY DEF TokensNameOneClaim
  <1>1. CASE Carries(u, a, t) /\ Carries(v, b, t) BY <1>1 DEF TokensNameOneClaim
  <1>2. CASE CanDraw /\ t = NewToken
    <2>1. ~Carries(u, a, t) /\ ~Carries(v, b, t) BY <1>2, FreshCarries
    <2>. QED BY <2>1, CarriersStep
  <1>. QED BY <1>1, <1>2, CarriersStep

\* No step lets a token be carried twice, by players, logins and queued releases.
LEMMA CarrierStep ==
    ASSUME TypeOK, LoginsAreLocal, TokensNameOneClaim, OneCarrier, NEW w \in Worlds, World(w)
    PROVE  OneCarrier'
  <1>. SUFFICES ASSUME NEW v \in Worlds, NEW a \in Accounts, NEW t \in Tokens
                PROVE  /\ <<a, t>> \in releases'[v] => token'[v][a] # t /\ login'[v].token # t
                       /\ login'[v].token = t => token'[v][a] # t
    BY DEF OneCarrier
  <1>1. CASE v # w
    <2>1. Untouched(v) BY <1>1, OthersUntouched
    <2>. QED BY <2>1 DEF Untouched, OneCarrier
  <1>2. CASE v = w
    <2>. t # NoToken BY IdsAssumption
    <2>1. ASSUME login'[w].token = t PROVE token'[w][a] # t
      <3>1. CASE login[w].token = t
        <4>1. token[w][a] # t BY <3>1 DEF OneCarrier
        <4>2. ~Place(w) BY <2>1, IdsAssumption DEF Place, Refused, NoLogin, Entry, TypeOK
        <4>. QED BY <4>1, <4>2, TokenMoves
      <3>2. CASE CanDraw /\ t = NewToken /\ UNCHANGED token
        BY <3>2, FreshCarries DEF Carries
      <3>. QED BY <2>1, <3>1, <3>2, LoginStep
    <2>2. ASSUME <<a, t>> \in releases'[w] PROVE token'[w][a] # t
      <3>1. CASE <<a, t>> \in releases[w]
        <4>1. token[w][a] # t /\ login[w].token # t BY <3>1 DEF OneCarrier
        <4>. QED BY <4>1, TokenMoves
      <3>2. CASE login[w].token = t /\ token'[w][a] = token[w][a] BY <3>2 DEF OneCarrier
      <3>. QED BY <2>2, <3>1, <3>2, ReleaseMoves
    <2>3. ASSUME <<a, t>> \in releases'[w] PROVE login'[w].token # t
      <3>1. CASE <<a, t>> \in releases[w]
        <4>1. login[w].token # t BY <3>1 DEF OneCarrier
        <4>2. ~(CanDraw /\ t = NewToken) BY <3>1, FreshCarries DEF Carries
        <4>. QED BY <4>1, <4>2, LoginStep
      <3>2. CASE token[w][a] = t /\ login'[w] = login[w] BY <3>2 DEF OneCarrier
      <3>3. CASE login'[w] = NoLogin BY <3>3 DEF NoLogin, Entry
      <3>. QED BY <2>3, <3>1, <3>2, <3>3, ReleaseMoves
    <2>. QED BY <1>2, <2>1, <2>2, <2>3
  <1>. QED BY <1>1, <1>2

-----------------------------------------------------------------------------
(* When a claim is lost                                                    *)

\* Who relies on a claim after a step relied on it before, or was just granted it.
LEMMA ReliesStep ==
    ASSUME TypeOK, TokensNameOneClaim, NEW w \in Worlds, World(w), NEW v \in Worlds, NEW a \in Accounts,
           NEW t \in Tokens, Lost(v, a, t)'
    PROVE  Relies(v, a, t)
  <1>0. t # NoToken /\ row'[a] # [world |-> v, token |-> t] BY DEF Lost, Relies
  <1>1. CASE v # w
    <2>1. Untouched(v) BY <1>1, OthersUntouched
    <2>. QED BY <2>1 DEF Untouched, Lost, Relies
  <1>2. CASE v = w /\ token'[w][a] = t
    BY <1>0, <1>2, TokenMoves DEF Relies, Place
  <1>3. CASE /\ v = w /\ pc'[w] = "admit" /\ login'[w].account = a /\ login'[w].token = t
    <2>. USE DEF sessionVars
    <2>1. CASE pc[w] = "admit" /\ login' = login BY <1>0, <1>3, <2>1 DEF Relies
    <2>2. CASE \E b \in Accounts : Login(w, b)
      <3>1. PICK b \in Accounts : Login(w, b) BY <2>2
      <3>2. b \in Exempt BY <1>3, <3>1 DEF Login, TypeOK
      <3>3. login'[w] = Entry(b, NoToken, 0) BY <3>1, <3>2 DEF Login, TypeOK
      <3>. QED BY <1>0, <1>3, <3>3 DEF Entry
    <2>3. CASE Insert(w) \/ Lookup(w) \/ Takeover(w)
      <3>1. pc[w] # "admit" /\ ~Refused(w) /\ ~NextAttempt(w)
        BY <1>3, <2>3 DEF Insert, Lookup, Takeover, Refused, NextAttempt, TypeOK
      <3>2. login[w].account = a /\ login[w].token = t
        BY <1>3, <2>3, <3>1, ClaimLoopMoves DEF ClaimLoop
      <3>3. Mine(w) = [world |-> w, token |-> t] BY <3>2 DEF Mine
      <3>4. CASE Insert(w) \/ Takeover(w)
        <4>1. row' = [row EXCEPT ![a] = Mine(w)]
          BY <1>3, <3>1, <3>2, <3>4 DEF Insert, Takeover, TypeOK
        <4>. QED BY <1>0, <1>3, <3>3, <4>1 DEF TypeOK
      <3>5. CASE Lookup(w)
        <4>1. row[a] # NoRow /\ row[a].token = t /\ row' = row
          BY <1>3, <3>1, <3>2, <3>5 DEF Lookup, Classify, TypeOK, dbVars
        <4>2. row[a].world \in Worlds /\ row[a] = [world |-> row[a].world, token |-> t]
          BY <4>1 DEF TypeOK, Claims
        <4>3. row[a].world = w BY <3>2, <4>2 DEF TokensNameOneClaim, Carries
        <4>. QED BY <1>0, <1>3, <4>1, <4>2, <4>3
      <3>. QED BY <2>3, <3>4, <3>5
    <2>4. CASE \/ StartClear(w) \/ StartBeat(w) \/ StartFails(w) \/ Crash(w) \/ Exit(w) \/ BeginRetire(w)
               \/ RetireClaims(w) \/ RetireBeat(w) \/ Place(w) \/ TurnAway(w) \/ ScriptRefuses(w)
               \/ FinishBeat(w) \/ Reconcile(w) \/ Reconciled(w)
      <3>1. pc'[w] # "admit"
        BY <2>4 DEF StartClear, StartBeat, StartFails, Crash, Exit, Forgotten, BeginRetire, RetireClaims,
           RetireBeat, Place, TurnAway, ScriptRefuses, Refused, FinishBeat, Planned, Reconcile, Reconciled, TypeOK
      <3>. QED BY <1>3, <3>1
    <2>5. CASE \/ \E b \in Accounts : ShutdownKick(w, b)
               \/ \E b \in Accounts : LateLogin(w, b)
               \/ \E b \in Accounts : Logout(w, b)
               \/ \E b \in Accounts : Kick(w, b)
               \/ \E b \in Accounts, s \in Tokens : RunRelease(w, b, s)
               \/ Beat(w) \/ ReadAge(w) \/ DropReply(w)
      <3>1. UNCHANGED <<pc, login>>
        BY <2>5 DEF ShutdownKick, LateLogin, Logout, Kick, RunRelease, Beat, ReadAge, DropReply
      <3>. QED BY <1>3, <2>1, <3>1
    <2>. QED BY <2>2, <2>3, <2>4, <2>5 DEF World, Continue, Background
  <1>. QED BY <1>1, <1>2, <1>3 DEF Lost, Relies

\* A claim is only taken from those who rely on it while their world is expired.
LEMMA LostStep ==
    ASSUME IInv, NEW w \in Worlds, World(w), NEW v \in Worlds, NEW a \in Accounts,
           NEW t \in Tokens, Lost(v, a, t)'
    PROVE  Lost(v, a, t) \/ Expired(v)
  <1>. USE DEF dbVars
  <1>. SUFFICES ASSUME ~Lost(v, a, t) PROVE Expired(v) OBVIOUS
  <1>1. /\ TypeOK /\ TokensNameOneClaim /\ OneCarrier /\ LoginsAreLocal /\ ClaimsNeedPlayers BY DEF IInv
  <1>2. /\ row[a] = [world |-> v, token |-> t] /\ row'[a] # row[a] /\ t # NoToken
    BY <1>1, ReliesStep DEF Lost, Relies
  <1>3. Carries(v, a, t) /\ row[a] # NoRow BY <1>2, IdsAssumption DEF Carries, NoRow
  <1>4. token'[v][a] = t \/ (pc'[v] = "admit" /\ login'[v].account = a /\ login'[v].token = t)
    BY DEF Lost, Relies
  <1>5. CASE StartClear(w) \/ RetireClaims(w)
    <2>1. row' = DeletedAll(row, w) /\ pc'[w] # "admit" /\ token' = token
      BY <1>1, <1>2, <1>5 DEF StartClear, RetireClaims, sessionVars, TypeOK
    <2>2. v = w BY <1>2, <2>1 DEF DeletedAll
    <2>3. token[w][a] = NoToken
      BY <1>1, <1>5 DEF StartClear, RetireClaims, ClaimsNeedPlayers, NobodyPhase
    <2>. QED BY <1>2, <1>4, <2>1, <2>2, <2>3
  <1>6. CASE Insert(w)
    BY <1>1, <1>2, <1>3, <1>6 DEF Insert, TypeOK
  <1>7. CASE Takeover(w)
    <2>1. /\ a = login[w].account /\ row' = [row EXCEPT ![a] = Mine(w)] /\ Takeable(w) /\ UNCHANGED token
      BY <1>1, <1>2, <1>7 DEF Takeover, TypeOK, sessionVars
    <2>2. CASE v = w
      <3>1. token[w][a] = NoToken
        BY <1>1, <2>1 DEF LoginsAreLocal, ClaimsNeedPlayers
      <3>2. login'[w].token = t BY <1>2, <1>4, <2>1, <2>2, <3>1
      <3>4. ~Refused(w) BY <1>1, <1>2, <3>2 DEF Refused, NoLogin, Entry, TypeOK
      <3>5. login[w].token = t BY <1>1, <1>7, <3>2, <3>4, ClaimLoopMoves DEF ClaimLoop
      <3>3. row'[a] = [world |-> w, token |-> t] BY <1>1, <2>1, <3>5 DEF Mine, TypeOK
      <3>. QED BY <1>2, <2>2, <3>3
    <2>3. CASE v # w
      <3>1. row[a].world = v BY <1>2
      <3>. QED BY <2>1, <2>3, <3>1 DEF Takeable
    <2>. QED BY <2>2, <2>3
  <1>8. ASSUME NEW b \in Accounts, NEW s, row' = Deleted(row, b, s) PROVE a = b /\ s = t
    BY <1>1, <1>2, <1>8 DEF Deleted, TypeOK
  <1>9. CASE ScriptRefuses(w)
    <2>1. login[w].account \in Accounts
      BY <1>1, <1>9 DEF ScriptRefuses, LoginsAreLocal, LoginPhase, TypeOK, Logins
    <2>0. row' = Deleted(row, login[w].account, login[w].token)
      BY <1>2, <1>9 DEF ScriptRefuses, Release
    <2>2. login[w].account = a /\ login[w].token = t BY <1>8, <2>0, <2>1
    <2>c. Carries(w, a, t) BY <2>2 DEF Carries
    <2>3. v = w BY <1>1, <1>3, <2>c DEF TokensNameOneClaim
    <2>4. token'[w][a] # t BY <1>1, <1>9, <2>2 DEF OneCarrier, ScriptRefuses
    <2>5. pc'[w] # "admit" BY <1>1, <1>9 DEF ScriptRefuses, Refused, TypeOK
    <2>. QED BY <1>4, <2>3, <2>4, <2>5
  <1>10. CASE (\E b \in Accounts : Logout(w, b)) \/ (\E b \in Accounts : Kick(w, b))
    <2>1. PICK b \in Accounts : Leave(w, b) /\ pc' = pc /\ pc[w] # "admit" BY <1>10 DEF Logout, Kick
    <2>0. row' = Deleted(row, b, token[w][b]) BY <1>2, <2>1 DEF Leave, Release
    <2>2. b = a /\ token[w][a] = t BY <1>8, <2>0
    <2>c. Carries(w, a, t) BY <2>2 DEF Carries
    <2>3. v = w BY <1>1, <1>3, <2>c DEF TokensNameOneClaim
    <2>4. token'[w][a] = NoToken BY <1>1, <2>1, <2>2 DEF Leave, TypeOK
    <2>. QED BY <1>2, <1>4, <2>1, <2>3, <2>4
  <1>11. CASE \E b \in Accounts, s \in Tokens : RunRelease(w, b, s)
    <2>1. PICK b \in Accounts, s \in Tokens : RunRelease(w, b, s) BY <1>11
    <2>2. <<a, t>> \in releases[w] BY <1>2, <1>8, <2>1 DEF RunRelease
    <2>c. Carries(w, a, t) BY <2>2 DEF Carries
    <2>3. v = w BY <1>1, <1>3, <2>c DEF TokensNameOneClaim
    <2>4. token[w][a] # t /\ login[w].token # t BY <1>1, <2>2 DEF OneCarrier
    <2>. QED BY <1>4, <2>1, <2>3, <2>4 DEF RunRelease
  <1>12. CASE (\E b \in Accounts : ShutdownKick(w, b)) \/ (\E b \in Accounts : LateLogin(w, b))
             \/ (\E b \in Accounts : Login(w, b))
    BY <1>2, <1>12 DEF ShutdownKick, LateLogin, Login
  <1>13. CASE \/ StartBeat(w) \/ StartFails(w) \/ Crash(w) \/ Exit(w) \/ BeginRetire(w) \/ RetireBeat(w)
             \/ Lookup(w) \/ Place(w) \/ TurnAway(w) \/ Beat(w) \/ ReadAge(w) \/ FinishBeat(w)
             \/ DropReply(w) \/ Reconcile(w) \/ Reconciled(w)
    BY <1>2, <1>13 DEF StartBeat, StartFails, Crash, Exit, BeginRetire, RetireBeat, Lookup, Place, TurnAway,
       Beat, ReadAge, FinishBeat, DropReply, Reconcile, Reconciled
  <1>. QED BY <1>5, <1>6, <1>7, <1>9, <1>10, <1>11, <1>12, <1>13 DEF World, Continue, Background

\* A world that fell behind its lease measures it, whatever the database's
\* clock did meanwhile: the margin of the threshold covers the jump.
LEMMA ExpiryIsMeasured ==
    ASSUME TypeOK, HeartbeatKept, MeasureCoversAge, NEW w \in Worlds,
           pc[w] \in {"idle", "beating"}, flight[w] = "replied", Expired(w)
    PROVE  IsStall(measured[w], since[w])
  <1>1. beat[w] # Missing /\ beat[w] > Lease BY DEF HeartbeatKept, NobodyPhase, Expired
  <1>2. measured[w] >= Threshold \/ measured[w] + drift[w] >= beat[w] BY <1>1 DEF MeasureCoversAge
  <1>3. beat[w] \in Int /\ measured[w] \in Int /\ drift[w] \in 0..MaxDrift BY DEF TypeOK, Age, Missing
  <1>4. measured[w] >= Threshold BY <1>1, <1>2, <1>3, TimeAssumption DEF Threshold
  <1>. QED BY <1>4 DEF IsStall

\* What a world owes it goes on owing until it settles it or lets the player go.
LEMMA OwesStep ==
    ASSUME IInv, NEW w \in Worlds, World(w), NEW v \in Worlds, NEW a \in Accounts,
           NEW t \in Tokens, Owes(v, a), Lost(v, a, t)'
    PROVE  Owes(v, a)'
  <1>. USE DEF dbVars, beatVars
  <1>1. /\ TypeOK /\ TokensNameOneClaim /\ HeartbeatKept /\ MeasureCoversAge
        /\ LoginsAreLocal /\ ClaimsNeedPlayers /\ ClaimsNeedPlayers'
    BY PlayersStep DEF IInv
  <1>2. t # NoToken /\ (token'[v][a] = t \/ pc'[v] = "admit") BY DEF Lost, Relies
  <1>3. pc'[v] \notin NobodyPhase BY <1>1, <1>2 DEF ClaimsNeedPlayers, NobodyPhase
  <1>4. CASE v # w
    <2>1. Untouched(v) BY <1>1, <1>4, OthersUntouched
    <2>. QED BY <2>1 DEF Untouched, Owes, Expired, WillStall
  <1>5. CASE v = w /\ UNCHANGED beatVars /\ UNCHANGED <<beat, victims>> /\ pc[w] \notin {"reconcile", "kicking"}
    BY <1>5 DEF Owes, Expired, WillStall
  <1>6. CASE v = w
    <2>1. CASE \/ StartClear(w) \/ StartFails(w) \/ BeginRetire(w) \/ RetireClaims(w)
               \/ Insert(w) \/ Lookup(w) \/ Takeover(w) \/ Place(w) \/ TurnAway(w) \/ ScriptRefuses(w)
      BY <1>5, <1>6, <2>1 DEF StartClear, StartFails, BeginRetire, RetireClaims, Insert, Lookup, Takeover,
         Place, TurnAway, ScriptRefuses
    <2>2. CASE \/ \E b \in Accounts : Login(w, b)
               \/ \E b \in Accounts : LateLogin(w, b)
               \/ \E b \in Accounts : ShutdownKick(w, b)
               \/ \E b \in Accounts : Logout(w, b)
      BY <1>5, <1>6, <2>2 DEF Login, LateLogin, ShutdownKick, Logout
    <2>3. CASE StartBeat(w)
      <3>1. pc[w] \in NobodyPhase /\ pc'[w] = "idle" /\ token' = token
        BY <1>1, <2>3 DEF StartBeat, NobodyPhase, TypeOK, sessionVars
      <3>2. token[w][a] = NoToken BY <1>1, <3>1 DEF ClaimsNeedPlayers
      <3>. QED BY <1>2, <1>6, <3>1, <3>2
    <2>4. CASE Crash(w) \/ Exit(w) \/ RetireBeat(w) \/ DropReply(w)
      <3>1. pc'[w] \in NobodyPhase
        BY <1>1, <2>4 DEF Crash, Exit, Forgotten, RetireBeat, DropReply, NobodyPhase, TypeOK
      <3>. QED BY <1>3, <1>6, <3>1
    <2>5. CASE \E b \in Accounts, s \in Tokens : RunRelease(w, b, s)
      BY <1>6, <2>5 DEF RunRelease, Owes, Expired, WillStall
    <2>6. CASE Beat(w) \/ ReadAge(w)
      <3>1. /\ UNCHANGED <<beat, followUp, stallPending, pc, victims>>
            /\ flight[w] = "replied" => UNCHANGED <<flight, measured, since>>
        BY <2>6 DEF Beat, ReadAge
      <3>. QED BY <1>6, <3>1 DEF Owes, Expired, WillStall
    <2>7. CASE FinishBeat(w)
      <3>1. pc[w] \in {"idle", "beating"} /\ flight[w] = "replied" BY <2>7 DEF FinishBeat
      <3>2. Expired(w) \/ WillStall(w) => IsStall(measured[w], since[w])
        BY <1>1, <3>1, ExpiryIsMeasured DEF WillStall
      <3>3. IsStall(measured[w], since[w]) \/ followUp[w] \/ stallPending[w]
        BY <1>6, <3>1, <3>2 DEF Owes
      <3>4. CASE Planned(w, TRUE)
        <4>1. pc'[w] = "reconcile" BY <1>1, <3>3, <3>4 DEF Planned, PlanReconcile, TypeOK
        <4>. QED BY <1>6, <4>1 DEF Owes
      <3>5. CASE Planned(w, FALSE)
        <4>1. followUp'[w] \/ stallPending'[w]
          BY <1>1, <3>3, <3>5 DEF Planned, PlanReconcile, FollowUpAfter, TypeOK
        <4>. QED BY <1>6, <4>1 DEF Owes
      <3>6. CASE UNCHANGED beatVars
        BY <1>6, <3>1, <3>3, <3>6 DEF Owes, WillStall
      <3>. QED BY <2>7, <3>4, <3>5, <3>6 DEF FinishBeat
    <2>8. CASE Reconcile(w)
      <3>1. CASE followUp' = [followUp EXCEPT ![w] = TRUE] BY <1>1, <1>6, <3>1 DEF Owes, TypeOK
      <3>2. CASE /\ victims' = [victims EXCEPT ![w] = {b \in players[w] : LostClaim(w, b)}]
                 /\ pc' = [pc EXCEPT ![w] = "kicking"]
        <4>1. pc'[w] = "kicking" BY <1>1, <3>2 DEF TypeOK
        <4>2. token[w][a] = t /\ row[a] # [world |-> w, token |-> t]
          BY <1>2, <1>6, <2>8, <4>1 DEF Reconcile, sessionVars, Lost
        <4>3. a \in players[w] BY <1>1, <1>2, <4>2 DEF ClaimsNeedPlayers
        <4>4. ASSUME t \in ClaimedTokens(w) PROVE FALSE
          <5>1. PICK b \in Accounts : row[b].world = w /\ row[b].token = t BY <4>4 DEF ClaimedTokens
          <5>2. row[b] \in Claims /\ row[b] # NoRow BY <1>1, <5>1, IdsAssumption DEF TypeOK, NoRow
          <5>3. row[b] = [world |-> w, token |-> t] BY <5>1, <5>2 DEF Claims
          <5>4. Carries(w, b, t) /\ Carries(w, a, t) BY <4>2, <5>3 DEF Carries
          <5>. QED BY <1>1, <4>2, <5>3, <5>4 DEF TokensNameOneClaim
        <4>5. LostClaim(w, a) BY <1>2, <4>2, <4>4 DEF LostClaim
        <4>6. a \in victims'[w] BY <1>1, <3>2, <4>3, <4>5 DEF TypeOK
        <4>. QED BY <1>6, <4>1, <4>6 DEF Owes
      <3>. QED BY <2>8, <3>1, <3>2 DEF Reconcile
    <2>9. CASE Reconciled(w)
      BY <1>6, <2>9 DEF Reconciled, Owes, Expired, WillStall
    <2>10. CASE \E b \in Accounts : Kick(w, b)
      <3>1. PICK b \in Accounts : Kick(w, b) BY <2>10
      <3>2. token'[w][b] = NoToken BY <1>1, <3>1 DEF Kick, Leave, TypeOK
      <3>3. b # a BY <1>2, <1>6, <3>1, <3>2 DEF Kick
      <3>4. a \in victims[w] => a \in victims'[w] BY <1>1, <3>1, <3>3 DEF Kick, TypeOK
      <3>. QED BY <1>6, <3>1, <3>4 DEF Kick, Owes, Expired, WillStall
    <2>. QED BY <2>1, <2>2, <2>3, <2>4, <2>5, <2>6, <2>7, <2>8, <2>9, <2>10 DEF World, Continue, Background
  <1>. QED BY <1>4, <1>6

\* Time settles nothing: what expired stays expired, what will stall still will.
LEMMA OwesTime ==
    ASSUME TypeOK, Tick \/ ClockStep, NEW v \in Worlds, NEW a \in Accounts, Owes(v, a)
    PROVE  Owes(v, a)'
  <1>1. UNCHANGED <<pc, followUp, stallPending, victims, flight>> BY DEF Tick, ClockStep
  <1>2. ASSUME Expired(v) PROVE Expired(v)'
    <2>1. beat'[v] = IF beat[v] = Missing THEN Missing ELSE Cap(beat[v] + 1, Lease + 1)
      BY DEF Tick, ClockStep, Aged
    <2>2. beat[v] \in 0..(Lease + 1) \cup {-1} BY DEF TypeOK, Age, Missing
    <2>. QED BY <1>2, <2>1, <2>2, TimeAssumption DEF Expired, Cap
  <1>3. ASSUME WillStall(v) PROVE WillStall(v)'
    <2>1. measured[v] \in 0..Threshold /\ since[v] \in 0..Threshold BY DEF TypeOK
    <2>2. /\ measured'[v] \in {measured[v], Cap(measured[v] + 1, Threshold)}
          /\ since'[v] \in {since[v], Cap(since[v] + 1, Threshold)}
      BY DEF Tick, ClockStep
    <2>3. IsStall(measured'[v], since'[v])
      BY <1>3, <2>1, <2>2, ThresholdRange DEF WillStall, IsStall, Cap
    <2>. QED BY <1>1, <1>3, <2>3 DEF WillStall, IsStall
  <1>. QED BY <1>1, <1>2, <1>3 DEF Owes

-----------------------------------------------------------------------------
(* The abstract lock                                                       *)

\* Every step of a world is one of the account lock, or none.
LEMMA LockStep ==
    ASSUME IInv, NEW w \in Worlds, World(w)
    PROVE  Lock!Next
  <1>. USE DEF dbVars
  <1>0. TypeOK /\ TokensNameOneClaim /\ LoginsAreLocal BY DEF IInv
  <1>1. CASE UNCHANGED row
    <2>1. Lock!Judge BY <1>1 DEF Lock!Judge
    <2>. QED BY <2>1 DEF Lock!Next
  <1>2. ASSUME row' = DeletedAll(row, w), UNCHANGED beat PROVE Lock!Next
    <2>0. PICK given \in SUBSET Accounts : given = {a \in Accounts : row[a].world = w} OBVIOUS
    <2>1. ASSUME NEW a \in Accounts
          PROVE  row'[a].world = IF a \in given THEN NoWorld ELSE row[a].world
      BY <1>2, <2>0 DEF DeletedAll, NoRow
    <2>2. {v \in Worlds : Expired(v)}' = {v \in Worlds : Expired(v)} BY <1>2 DEF Expired
    <2>3. Lock!Yield(w, given) BY <2>0, <2>1, <2>2 DEF Lock!Yield
    <2>. QED BY <2>3 DEF Lock!Next
  <1>3. ASSUME NEW a \in Accounts, row' = [row EXCEPT ![a] = Mine(w)], UNCHANGED beat,
               row[a].world \in {v \in Worlds : Expired(v)} \cup {NoWorld, w}
        PROVE  Lock!Next
    <2>1. ASSUME NEW b \in Accounts
          PROVE  row'[b].world = IF b = a THEN w ELSE row[b].world
      BY <1>0, <1>3 DEF Mine, TypeOK
    <2>2. {v \in Worlds : Expired(v)}' = {v \in Worlds : Expired(v)} BY <1>3 DEF Expired
    <2>3. Lock!Take(a, w) BY <1>3, <2>1, <2>2 DEF Lock!Take
    <2>. QED BY <2>3 DEF Lock!Next
  <1>4. ASSUME NEW a \in Accounts, NEW t \in Tokens, Carries(w, a, t), row' = Deleted(row, a, t), UNCHANGED beat
        PROVE  Lock!Next
    <2>1. CASE row[a].token # t BY <1>1, <1>4, <2>1 DEF Deleted
    <2>2. CASE row[a].token = t
      <3>1. row[a] # NoRow BY <2>2, IdsAssumption DEF NoRow
      <3>2. row[a].world \in Worlds /\ row[a] = [world |-> row[a].world, token |-> t]
        BY <1>0, <2>2, <3>1 DEF TypeOK, Claims
      <3>3. Carries(row[a].world, a, t) BY <3>2 DEF Carries
      <3>4. row[a].world = w BY <1>0, <1>4, <3>2, <3>3 DEF TokensNameOneClaim
      <3>5. ASSUME NEW b \in Accounts
            PROVE  row'[b].world = IF b \in {a} THEN NoWorld ELSE row[b].world
        BY <1>0, <1>4, <2>2 DEF Deleted, NoRow, TypeOK
      <3>6. {v \in Worlds : Expired(v)}' = {v \in Worlds : Expired(v)} BY <1>4 DEF Expired
      <3>7. Lock!Yield(w, {a}) BY <3>4, <3>5, <3>6 DEF Lock!Yield
      <3>. QED BY <3>7 DEF Lock!Next
    <2>. QED BY <2>1, <2>2
  <1>5. ASSUME NEW a \in Accounts, NEW t, Release(w, a, t), t # NoToken => t \in Tokens /\ Carries(w, a, t),
               UNCHANGED beat
        PROVE  Lock!Next
    BY <1>1, <1>4, <1>5 DEF Release
  <1>6. CASE StartClear(w) \/ RetireClaims(w)
    <2>1. UNCHANGED beat /\ (row' = DeletedAll(row, w) \/ UNCHANGED row) BY <1>6 DEF StartClear, RetireClaims
    <2>. QED BY <1>1, <1>2, <2>1
  <1>7. CASE Insert(w) \/ Takeover(w)
    <2>. DEFINE a == login[w].account
    <2>1. a \in Accounts BY <1>0, <1>7 DEF Insert, Takeover, LoginsAreLocal, LoginPhase, TypeOK, Logins
    <2>2. UNCHANGED row \/ row' = [row EXCEPT ![a] = Mine(w)] BY <1>7 DEF Insert, Takeover
    <2>3. UNCHANGED row \/ row[a] = NoRow \/ Takeable(w) BY <1>7 DEF Insert, Takeover
    <2>4. row[a].world \in Worlds \cup {NoWorld} BY <1>0, <2>1 DEF TypeOK, Claims, NoRow
    <2>5. UNCHANGED row \/ row[a].world \in {v \in Worlds : Expired(v)} \cup {NoWorld, w}
      BY <2>3, <2>4 DEF Takeable, NoRow
    <2>6. UNCHANGED beat BY <1>7 DEF Insert, Takeover
    <2>. QED BY <1>1, <1>3, <2>1, <2>2, <2>5, <2>6
  <1>8. CASE ScriptRefuses(w)
    <2>1. login[w].account \in Accounts /\ login[w].token \in Tokens \cup {NoToken}
      BY <1>0, <1>8 DEF ScriptRefuses, LoginsAreLocal, LoginPhase, TypeOK, Logins
    <2>2. Carries(w, login[w].account, login[w].token) BY DEF Carries
    <2>3. Release(w, login[w].account, login[w].token) /\ UNCHANGED beat BY <1>8 DEF ScriptRefuses
    <2>. QED BY <1>5, <2>1, <2>2, <2>3
  <1>9. CASE (\E a \in Accounts : Logout(w, a)) \/ (\E a \in Accounts : Kick(w, a))
    <2>1. PICK a \in Accounts : Release(w, a, token[w][a]) /\ UNCHANGED beat
      BY <1>9 DEF Logout, Kick, Leave
    <2>2. token[w][a] \in Tokens \cup {NoToken} /\ Carries(w, a, token[w][a])
      BY <1>0 DEF TypeOK, Carries
    <2>. QED BY <1>5, <2>1, <2>2
  <1>10. CASE \E a \in Accounts, t \in Tokens : RunRelease(w, a, t)
    <2>1. PICK a \in Accounts, t \in Tokens : RunRelease(w, a, t) BY <1>10
    <2>2. Carries(w, a, t) /\ UNCHANGED beat BY <2>1 DEF RunRelease, Carries
    <2>. QED BY <1>1, <1>4, <2>1, <2>2 DEF RunRelease
  <1>11. CASE (\E b \in Accounts : ShutdownKick(w, b)) \/ (\E b \in Accounts : LateLogin(w, b))
             \/ (\E b \in Accounts : Login(w, b))
    BY <1>1, <1>11 DEF ShutdownKick, LateLogin, Login
  <1>12. CASE \/ StartBeat(w) \/ StartFails(w) \/ Crash(w) \/ Exit(w) \/ BeginRetire(w) \/ RetireBeat(w)
             \/ Lookup(w) \/ Place(w) \/ TurnAway(w) \/ Beat(w) \/ ReadAge(w) \/ FinishBeat(w)
             \/ DropReply(w) \/ Reconcile(w) \/ Reconciled(w)
    BY <1>1, <1>12 DEF StartBeat, StartFails, Crash, Exit, BeginRetire, RetireBeat, Lookup, Place, TurnAway,
       Beat, ReadAge, FinishBeat, DropReply, Reconcile, Reconciled
  <1>. QED BY <1>6, <1>7, <1>8, <1>9, <1>10, <1>11, <1>12 DEF World, Continue, Background

-----------------------------------------------------------------------------
(* Theorems                                                                *)

\* The invariant holds when the worlds start.
LEMMA InvInit == Init => IInv
  <1>. SUFFICES ASSUME Init PROVE IInv OBVIOUS
  <1>1. TypeOK BY TypeInit
  <1>2. /\ TokensNameOneClaim /\ OneCarrier
        /\ \A w \in Worlds, a \in Accounts, t \in Tokens : ~Relies(w, a, t)
    BY IdsAssumption
       DEF Init, TokensNameOneClaim, OneCarrier, Carries, Relies, NoRow, NoLogin, Entry
  <1>3. LoginsAreLocal /\ ClaimsNeedPlayers /\ HeartbeatKept /\ MeasureCoversAge
    BY IdsAssumption
       DEF Init, LoginsAreLocal, LoginPhase, ClaimsNeedPlayers, NobodyPhase, HeartbeatKept,
           MeasureCoversAge, NoLogin, Entry
  <1>. QED BY <1>1, <1>2, <1>3 DEF IInv, CaughtLostClaims, Lost

\* Time keeps it,
LEMMA InvTime == IInv /\ (Tick \/ ClockStep) => IInv'
  <1>. SUFFICES ASSUME IInv, Tick \/ ClockStep PROVE IInv' OBVIOUS
  <1>1. /\ UNCHANGED <<row, pc, players, token, releases, login>>
    BY DEF Tick, ClockStep, sessionVars
  <1>2. TypeOK' BY TypeTick, TypeClockStep DEF IInv
  <1>3. HeartbeatKept' /\ MeasureCoversAge' BY MeasureTime DEF IInv
  <1>4. TokensNameOneClaim' /\ OneCarrier' BY <1>1 DEF IInv, TokensNameOneClaim, OneCarrier, Carries
  <1>5. LoginsAreLocal' /\ ClaimsNeedPlayers' BY <1>1 DEF IInv, LoginsAreLocal, ClaimsNeedPlayers
  <1>6. ASSUME NEW w \in Worlds, NEW a \in Accounts, NEW t \in Tokens, Lost(w, a, t)'
        PROVE  Owes(w, a)'
    <2>1. Lost(w, a, t) BY <1>1, <1>6 DEF Lost, Relies
    <2>2. Owes(w, a) BY <2>1 DEF IInv, CaughtLostClaims
    <2>. QED BY <2>2, OwesTime DEF IInv
  <1>. QED BY <1>2, <1>3, <1>4, <1>5, <1>6 DEF IInv, CaughtLostClaims

\* every step of a world does,
LEMMA InvWorld ==
    ASSUME IInv, NEW w \in Worlds, World(w)
    PROVE  IInv'
  <1>1. TypeOK' BY TypeStep DEF IInv
  <1>2. TokensNameOneClaim' /\ OneCarrier' BY TokensStep, CarrierStep DEF IInv
  <1>3. LoginsAreLocal' /\ ClaimsNeedPlayers' BY LocalStep, PlayersStep DEF IInv
  <1>4. HeartbeatKept' /\ MeasureCoversAge' BY HeartbeatStep, MeasureStep DEF IInv
  <1>5. ASSUME NEW v \in Worlds, NEW a \in Accounts, NEW t \in Tokens, Lost(v, a, t)'
        PROVE  Owes(v, a)'
    <2>1. Lost(v, a, t) \/ Expired(v) BY <1>5, LostStep
    <2>2. Owes(v, a) BY <2>1 DEF IInv, CaughtLostClaims, Owes
    <2>. QED BY <1>5, <2>2, OwesStep
  <1>. QED BY <1>1, <1>2, <1>3, <1>4, <1>5 DEF IInv, CaughtLostClaims

\* and a step that changes nothing.
LEMMA InvStutter == IInv /\ UNCHANGED vars => IInv'
  BY DEF IInv, vars, TypeOK, TokensNameOneClaim, OneCarrier, Carries, LoginsAreLocal, ClaimsNeedPlayers,
     HeartbeatKept, MeasureCoversAge, CaughtLostClaims, Lost, Relies, Owes, Expired, WillStall

\* The inductive invariant holds in every reachable state: tokens name one claim
\* (NewToken, presence.cpp), one owner at a time gives a claim back
\* (PresenceClaim), and a beat's measure never falls short of the age its
\* heartbeat reached (IsStall, presence.h).
THEOREM Invariance == Spec => []IInv
  <1>1. IInv /\ [Next]_vars => IInv' BY InvTime, InvWorld, InvStutter DEF Next
  <1>. QED BY InvInit, <1>1, PTL DEF Spec

\* Every variable of the presence protocol keeps its type.
THEOREM TypeCorrectness == Spec => []TypeOK
  <1>1. IInv => TypeOK BY DEF IInv
  <1>. QED BY Invariance, <1>1, PTL

\* Whatever the lease, the interval and the number of worlds, a player whose
\* claim another world took over is known to, or about to be found by, the
\* world that still has it in game (FinishBeat, PlanReconcile, Reconcile).
THEOREM LostClaimsAreCaught == Spec => []CaughtLostClaims
  <1>1. IInv => CaughtLostClaims BY DEF IInv
  <1>. QED BY Invariance, <1>1, PTL

\* A claim someone relies on is taken only while its world is expired: neither a
\* late release nor a takeover decided on an old lookup takes it (ReleaseQuery
\* and the takeover's WHERE, presence.cpp).
THEOREM ClaimsAreNotStolen == Spec => ClaimsOutliveRivals
  <1>1. IInv /\ [Next]_vars => [TakenOnlyIfExpired]_vars
    <2>. SUFFICES ASSUME IInv, Next PROVE TakenOnlyIfExpired BY DEF vars
    <2>1. CASE Tick \/ ClockStep
      <3>1. UNCHANGED <<row, pc, token, login>> BY <2>1 DEF Tick, ClockStep, sessionVars
      <3>. QED BY <3>1 DEF TakenOnlyIfExpired, Lost, Relies
    <2>2. CASE \E w \in Worlds : World(w) BY <2>2, LostStep DEF TakenOnlyIfExpired
    <2>. QED BY <2>1, <2>2 DEF Next
  <1>. QED BY Invariance, <1>1, PTL DEF Spec, ClaimsOutliveRivals

\* The two tables implement the lock: a world takes an account of another only
\* while it is suspected, and gives up none but its own, however late the
\* statement that does so runs (Claim, Release, QueueRelease, Retire, Start).
THEOREM PresenceIsALock == Spec => LockSpec
  <1>1. Init => Lock!Init
    <2>. SUFFICES ASSUME Init PROVE Lock!Init OBVIOUS
    <2>1. [a \in Accounts |-> row[a].world] = [a \in Accounts |-> NoWorld] BY DEF Init, NoRow
    <2>2. {w \in Worlds : Expired(w)} = Worlds BY DEF Init, Expired
    <2>. QED BY <2>1, <2>2 DEF Lock!Init
  <1>2. IInv /\ [Next]_vars => [Lock!Next]_<<[a \in Accounts |-> row[a].world], {w \in Worlds : Expired(w)}>>
    <2>. SUFFICES ASSUME IInv, [Next]_vars
                  PROVE  Lock!Next \/ UNCHANGED <<[a \in Accounts |-> row[a].world], {w \in Worlds : Expired(w)}>>
      OBVIOUS
    <2>1. CASE Tick \/ ClockStep
      <3>1. UNCHANGED row BY <2>1 DEF Tick, ClockStep
      <3>2. Lock!Judge BY <3>1 DEF Lock!Judge
      <3>. QED BY <3>2 DEF Lock!Next
    <2>2. CASE \E w \in Worlds : World(w) BY <2>2, LockStep
    <2>3. CASE UNCHANGED vars BY <2>3 DEF vars, Expired
    <2>. QED BY <2>1, <2>2, <2>3 DEF Next
  <1>. QED BY Invariance, <1>1, <1>2, PTL DEF Spec, LockSpec, Lock!Spec

-----------------------------------------------------------------------------
(* Who owns the rows of the claim table: none is left without an owner, a  *)
(* reconcile kicks none but those whose row is lost, and a retired world   *)
(* does not write any more.                                                *)

\* What NoOrphans asks of a row that names world w and token t.
Owned(w, a, t) ==
    \/ pc[w] \in {"down", "starting", "retiring"}
    \/ token[w][a] = t
    \/ login[w].account = a /\ login[w].token = t
    \/ <<a, t>> \in releases[w]

RowIs(w, a, t) == row[a] = [world |-> w, token |-> t]

\* A row names a world and a token.
LEMMA RowsAreClaims ==
    ASSUME TypeOK
    PROVE  /\ \A a \in Accounts : row[a] # NoRow =>
                 /\ row[a].world \in Worlds /\ row[a].token \in Tokens
                 /\ RowIs(row[a].world, a, row[a].token)
           /\ \A w \in Worlds, a \in Accounts, t \in Tokens : RowIs(w, a, t) =>
                 row[a] # NoRow /\ row[a].world = w /\ row[a].token = t
  <1>1. \A a \in Accounts : row[a] # NoRow =>
                 /\ row[a].world \in Worlds /\ row[a].token \in Tokens
                 /\ RowIs(row[a].world, a, row[a].token)
    BY DEF TypeOK, Claims, RowIs
  <1>2. \A w \in Worlds, a \in Accounts, t \in Tokens : RowIs(w, a, t) =>
                 row[a] # NoRow /\ row[a].world = w /\ row[a].token = t
    BY IdsAssumption DEF RowIs, NoRow
  <1>. QED BY <1>1, <1>2

AllOwned == faults = 0 => \A w \in Worlds, a \in Accounts, t \in Tokens : RowIs(w, a, t) => Owned(w, a, t)

\* NoOrphans, row by row.
LEMMA OrphansOwned == TypeOK => (NoOrphans <=> AllOwned)
  <1>. SUFFICES ASSUME TypeOK PROVE NoOrphans <=> AllOwned OBVIOUS
  <1>1. ASSUME NoOrphans, faults = 0, NEW w \in Worlds, NEW a \in Accounts, NEW t \in Tokens, RowIs(w, a, t)
        PROVE  Owned(w, a, t)
    BY <1>1, RowsAreClaims DEF NoOrphans, Owned
  <1>2. ASSUME AllOwned PROVE NoOrphans
    BY <1>2, RowsAreClaims DEF AllOwned, NoOrphans, Owned
  <1>. QED BY <1>1, <1>2 DEF AllOwned

\* Faults are never taken back.
LEMMA FaultsGrow ==
    ASSUME TypeOK, NEW w \in Worlds, World(w), faults' = 0
    PROVE  faults = 0 /\ ~Faulty
  <1>1. faults \in Nat BY BoundAssumption DEF TypeOK
  <1>2. ~Faulty BY <1>1 DEF Faulty
  <1>3. faults' = faults
    <2>. USE DEF Answered, dbVars, sessionVars
    <2>1. CASE StartClear(w) \/ StartBeat(w) \/ StartFails(w) \/ Crash(w) \/ BeginRetire(w) \/ RetireClaims(w)
               \/ RetireBeat(w) \/ Exit(w) \/ (\E a \in Accounts : ShutdownKick(w, a) \/ LateLogin(w, a) \/ Login(w, a))
      BY <1>2, <2>1 DEF StartClear, StartBeat, StartFails, Crash, BeginRetire, RetireClaims, RetireBeat, Exit,
         ShutdownKick, LateLogin, Login
    <2>2. CASE Insert(w) \/ Lookup(w) \/ Takeover(w) \/ Place(w) \/ TurnAway(w)
      BY <1>2, <2>2 DEF Insert, Lookup, Takeover, Place, TurnAway
    <2>3. CASE ScriptRefuses(w) \/ (\E a \in Accounts : Logout(w, a) \/ Kick(w, a))
      BY <1>2, <2>3 DEF ScriptRefuses, Logout, Kick, Leave, Release
    <2>4. CASE Beat(w) \/ FinishBeat(w) \/ DropReply(w) \/ Reconcile(w) \/ Reconciled(w) \/ Background(w)
      BY <1>2, <2>4 DEF Beat, FinishBeat, DropReply, Reconcile, Reconciled, Background, ReadAge, RunRelease
    <2>. QED BY <2>1, <2>2, <2>3, <2>4 DEF World, Continue
  <1>. QED BY <1>2, <1>3

-----------------------------------------------------------------------------
(* Rows keep an owner                                                      *)

\* Whoever gives a claim up by an answered DELETE leaves no row.
LEMMA DeletedIsGone ==
    ASSUME TypeOK, NEW w \in Worlds, NEW a \in Accounts, NEW t \in Tokens, row' = Deleted(row, a, t)
    PROVE  ~RowIs(w, a, t)'
  <1>1. row'[a].token # t
    BY IdsAssumption DEF Deleted, TypeOK, NoRow
  <1>. QED BY <1>1 DEF RowIs

\* A player who leaves does not leave the rows of others without an owner,
LEMMA LeaverKeepsOwner ==
    ASSUME IInv, NEW w \in Worlds, NEW b \in Accounts, Leave(w, b), ~Faulty, UNCHANGED login, pc'[w] = pc[w],
           NEW a \in Accounts, NEW t \in Tokens, RowIs(w, a, t)', Owned(w, a, t)
    PROVE  Owned(w, a, t)'
  <1>1. /\ UNCHANGED releases
        /\ \A c \in Accounts \ {b} : token'[w][c] = token[w][c]
        /\ token[w][b] # NoToken => row' = Deleted(row, b, token[w][b])
    BY DEF Leave, Release, IInv, TypeOK
  <1>2. CASE b = a /\ token[w][a] = t
    BY <1>1, <1>2, DeletedIsGone, IdsAssumption DEF IInv
  <1>3. CASE ~(b = a /\ token[w][a] = t)
    BY <1>1, <1>3 DEF Owned
  <1>. QED BY <1>2, <1>3

\* nor do the statements of a claim,
LEMMA ClaimerKeepsOwner ==
    ASSUME IInv, ClaimsAreWonOnce, NEW w \in Worlds, Insert(w) \/ Lookup(w) \/ Takeover(w), faults = 0, ~Faulty,
           NEW a \in Accounts, NEW t \in Tokens, RowIs(w, a, t)', Owned(w, a, t)
    PROVE  Owned(w, a, t)'
  <1>1. UNCHANGED <<token, releases>> /\ pc[w] \in ClaimPhase
    BY DEF Insert, Lookup, Takeover, sessionVars, ClaimPhase, LoginPhase
  <1>2. CASE Refused(w) /\ UNCHANGED row
    <2>1. ~(login[w].account = a /\ login[w].token = t)
      BY <1>1, <1>2 DEF ClaimsAreWonOnce, RowIs, Mine
    <2>. QED BY <1>1, <2>1 DEF Owned, ClaimPhase, LoginPhase
  <1>3. CASE login'[w].account = login[w].account /\ login'[w].token = login[w].token
    BY <1>1, <1>3 DEF Owned, ClaimPhase, LoginPhase
  <1>4. (Refused(w) /\ UNCHANGED row) \/ (login'[w].account = login[w].account /\ login'[w].token = login[w].token)
    <2>1. login \in [Worlds -> Logins] BY DEF IInv, TypeOK
    <2>2. ASSUME Granted(w) PROVE login'[w].account = login[w].account /\ login'[w].token = login[w].token
      BY <2>1, <2>2 DEF Granted, Logins
    <2>3. ASSUME NextAttempt(w)
          PROVE  Refused(w) \/ (login'[w].account = login[w].account /\ login'[w].token = login[w].token)
      BY <2>1, <2>3 DEF NextAttempt, Entry
    <2>4. CASE Insert(w)
      BY <2>2, <2>4 DEF Insert
    <2>5. CASE Lookup(w)
      BY <2>1, <2>2, <2>3, <2>5 DEF Lookup, Classify, dbVars, Logins
    <2>6. CASE Takeover(w)
      BY <2>2, <2>3, <2>6 DEF Takeover
    <2>. QED BY <2>4, <2>5, <2>6
  <1>. QED BY <1>2, <1>3, <1>4

\* nor any step of a world.
LEMMA OwnerStep ==
    ASSUME IInv, OwnersInv, NEW w \in Worlds, World(w), faults = 0, ~Faulty,
           NEW a \in Accounts, NEW t \in Tokens, RowIs(w, a, t)', Owned(w, a, t)
    PROVE  Owned(w, a, t)'
  <1>. USE DEF dbVars, sessionVars
  <1>1. TypeOK BY DEF IInv
  <1>2. CASE Crash(w) \/ Exit(w) \/ StartClear(w) \/ BeginRetire(w) \/ (\E b \in Accounts : ShutdownKick(w, b))
    BY <1>1, <1>2 DEF Crash, Exit, Forgotten, StartClear, BeginRetire, ShutdownKick, Owned, TypeOK
  <1>3. CASE StartBeat(w) \/ StartFails(w)
    BY <1>3 DEF StartBeat, StartFails, OwnersInv, StartsClear, RowIs
  <1>4. CASE RetireClaims(w)
    BY <1>4, IdsAssumption DEF RetireClaims, DeletedAll, RowIs, NoRow
  <1>5. CASE \/ RetireBeat(w) \/ Beat(w) \/ FinishBeat(w) \/ DropReply(w) \/ Reconcile(w) \/ Reconciled(w)
             \/ ReadAge(w) \/ \E b \in Accounts : LateLogin(w, b)
    <2>1. UNCHANGED <<token, login, releases>>
      BY <1>5 DEF RetireBeat, Beat, FinishBeat, DropReply, Reconcile, Reconciled, ReadAge, LateLogin
    <2>2. pc[w] \notin {"down", "starting", "retiring"} \/ pc'[w] = pc[w]
      BY <1>5 DEF RetireBeat, Beat, FinishBeat, DropReply, Reconcile, Reconciled, ReadAge, LateLogin
    <2>. QED BY <2>1, <2>2 DEF Owned
  <1>6. ASSUME NEW b \in Accounts, NEW s \in Tokens, RunRelease(w, b, s) PROVE Owned(w, a, t)'
    <2>1. UNCHANGED <<token, login, pc>> /\ row' = Deleted(row, b, s)
          /\ releases' = [releases EXCEPT ![w] = @ \ {<<b, s>>}]
      BY <1>6 DEF RunRelease
    <2>2. <<a, t>> # <<b, s>> BY <1>1, <2>1, DeletedIsGone
    <2>3. <<a, t>> \in releases[w] => <<a, t>> \in releases'[w] BY <1>1, <2>1, <2>2 DEF TypeOK
    <2>. QED BY <2>1, <2>3 DEF Owned
  <1>7. ASSUME NEW b \in Accounts, Login(w, b) PROVE Owned(w, a, t)'
    <2>1. UNCHANGED <<token, releases>> /\ pc[w] = "idle" BY <1>7 DEF Login
    <2>2. login[w].account # a BY <2>1, IdsAssumption DEF IInv, LoginsAreLocal, LoginPhase
    <2>. QED BY <2>1, <2>2 DEF Owned
  <1>8. CASE Insert(w) \/ Lookup(w) \/ Takeover(w)
    BY <1>8, ClaimerKeepsOwner DEF OwnersInv
  <1>9. CASE Place(w)
    <2>1. /\ UNCHANGED releases /\ pc[w] = "admit"
          /\ \A c \in Accounts : token'[w][c] = IF c = login[w].account THEN login[w].token ELSE token[w][c]
      BY <1>1, <1>9 DEF Place, TypeOK
    <2>2. token[w][a] = t => a # login[w].account
      BY IdsAssumption DEF IInv, LoginsAreLocal, ClaimsNeedPlayers
    <2>. QED BY <2>1, <2>2 DEF Owned
  <1>10. CASE TurnAway(w)
    <2>1. UNCHANGED token /\ pc[w] = "admit" /\ releases' = Queued(w, login[w].account, login[w].token)
      BY <1>10 DEF TurnAway
    <2>2. /\ releases[w] \subseteq releases'[w]
          /\ login[w].account = a /\ login[w].token = t => <<a, t>> \in releases'[w]
      BY <1>1, <2>1, IdsAssumption DEF Queued, TypeOK
    <2>. QED BY <2>1, <2>2 DEF Owned
  <1>11. CASE ScriptRefuses(w)
    <2>1. /\ UNCHANGED <<token, releases>> /\ pc[w] = "admit"
          /\ login[w].token # NoToken => row' = Deleted(row, login[w].account, login[w].token)
      BY <1>11 DEF ScriptRefuses, Release
    <2>2. ~(login[w].account = a /\ login[w].token = t)
      BY <1>1, <2>1, DeletedIsGone, IdsAssumption
    <2>. QED BY <2>1, <2>2 DEF Owned
  <1>12. CASE \E b \in Accounts : Logout(w, b) \/ Kick(w, b)
    BY <1>12, LeaverKeepsOwner DEF Logout, Kick
  <1>. QED BY <1>2, <1>3, <1>4, <1>5, <1>6, <1>7, <1>8, <1>9, <1>10, <1>11, <1>12
       DEF World, Continue, Background

\* So no row is left without an owner as long as nothing fails.
LEMMA OrphansStep ==
    ASSUME IInv, IInv', OwnersInv, NEW w \in Worlds, World(w)
    PROVE  NoOrphans'
  <1>1. TypeOK /\ TypeOK' BY DEF IInv
  <1>2. SUFFICES ASSUME faults' = 0, NEW v \in Worlds, NEW a \in Accounts, NEW t \in Tokens, RowIs(v, a, t)'
                 PROVE  Owned(v, a, t)'
    <2>1. AllOwned' => NoOrphans' BY <1>1, OrphansOwned, PTL
    <2>. QED BY <2>1 DEF AllOwned
  <1>3. faults = 0 /\ ~Faulty BY <1>1, <1>2, FaultsGrow
  <1>4. RowIs(v, a, t) \/ (v = w /\ login[w].account = a /\ login[w].token = t)
    BY <1>1, <1>2, RowMoves DEF RowIs
  <1>5. Owned(v, a, t)
    <2>1. RowIs(v, a, t) => Owned(v, a, t) BY <1>1, <1>3, OrphansOwned DEF OwnersInv, AllOwned
    <2>. QED BY <1>4, <2>1 DEF Owned
  <1>6. CASE v # w
    BY <1>1, <1>5, <1>6, OthersUntouched DEF Owned, Untouched
  <1>7. CASE v = w
    BY <1>2, <1>3, <1>5, <1>7, OwnerStep
  <1>. QED BY <1>6, <1>7

-----------------------------------------------------------------------------
(* What NoOrphans rests on                                                 *)

\* A world gets to where it starts by clearing its rows, ...
LEMMA OnlyStartClear ==
    ASSUME TypeOK, NEW w \in Worlds, World(w), pc[w] # "starting", pc'[w] = "starting"
    PROVE  StartClear(w)
  <1>. pc \in [Worlds -> Phase] BY DEF TypeOK
  <1>. USE DEF sessionVars
  <1>1. CASE Crash(w) \/ Exit(w) BY <1>1 DEF Crash, Exit, Forgotten
  <1>2. CASE BeginRetire(w) \/ StartBeat(w) \/ StartFails(w) \/ RetireClaims(w) \/ RetireBeat(w)
             \/ Reconcile(w) \/ Reconciled(w)
    BY <1>2 DEF BeginRetire, StartBeat, StartFails, RetireClaims, RetireBeat, Reconcile, Reconciled
  <1>3. CASE Place(w) \/ TurnAway(w) \/ ScriptRefuses(w)
    BY <1>3 DEF Place, TurnAway, ScriptRefuses, Refused
  <1>4. CASE Insert(w) \/ Lookup(w) \/ Takeover(w)
    BY <1>4, ClaimLoopMoves DEF ClaimLoop, LoginPhase, Refused
  <1>5. CASE FinishBeat(w) BY <1>5 DEF FinishBeat, Planned
  <1>6. CASE \E a \in Accounts : Login(w, a) BY <1>6 DEF Login
  <1>7. CASE pc' = pc BY <1>7
  <1>8. CASE \/ Beat(w) \/ DropReply(w) \/ Background(w)
             \/ \E a \in Accounts : LateLogin(w, a) \/ Logout(w, a) \/ Kick(w, a) \/ ShutdownKick(w, a)
    BY <1>7, <1>8 DEF Beat, DropReply, Background, ReadAge, RunRelease, LateLogin, Logout, Kick, ShutdownKick
  <1>. QED BY <1>1, <1>2, <1>3, <1>4, <1>5, <1>6, <1>8 DEF World, Continue

\* ... and through the rounds of a claim by its three statements.
LEMMA ClaimRounds ==
    ASSUME TypeOK, NEW w \in Worlds, World(w), pc[w] \in LoginPhase, pc'[w] \in ClaimPhase
    PROVE  Insert(w) \/ Lookup(w) \/ Takeover(w) \/ Background(w)
  <1>. pc \in [Worlds -> Phase] BY DEF TypeOK
  <1>. USE DEF LoginPhase, ClaimPhase
  <1>1. ~(Crash(w) \/ Exit(w)) BY DEF Crash, Exit, Forgotten
  <1>2. ~(Place(w) \/ TurnAway(w) \/ ScriptRefuses(w)) BY DEF Place, TurnAway, ScriptRefuses, Refused
  <1>3. ~(\/ StartClear(w) \/ StartBeat(w) \/ StartFails(w) \/ BeginRetire(w) \/ RetireClaims(w) \/ RetireBeat(w)
          \/ Beat(w) \/ FinishBeat(w) \/ DropReply(w) \/ Reconcile(w) \/ Reconciled(w))
    BY DEF StartClear, StartBeat, StartFails, BeginRetire, RetireClaims, RetireBeat, Beat, FinishBeat, DropReply,
       Reconcile, Reconciled
  <1>4. ~(\E a \in Accounts : \/ Login(w, a) \/ LateLogin(w, a) \/ Logout(w, a) \/ Kick(w, a) \/ ShutdownKick(w, a))
    BY DEF Login, LateLogin, Logout, Kick, ShutdownKick
  <1>. QED BY <1>1, <1>2, <1>3, <1>4 DEF World, Continue

\* A world that starts has no row of its own from before.
LEMMA StartsStep ==
    ASSUME IInv, IInv', OwnersInv, NEW w \in Worlds, World(w)
    PROVE  StartsClear'
  <1>1. TypeOK /\ TypeOK' BY DEF IInv
  <1>. SUFFICES ASSUME NEW v \in Worlds, NEW a \in Accounts, pc'[v] = "starting", row'[a].world = v
                PROVE  FALSE
    BY DEF StartsClear
  <1>2. PICK t \in Tokens : row'[a] = [world |-> v, token |-> t]
    BY <1>1, IdsAssumption DEF TypeOK, Claims, NoRow
  <1>3. CASE pc[v] = "starting"
    <2>1. row[a] # [world |-> v, token |-> t] BY <1>3 DEF OwnersInv, StartsClear
    <2>2. login[v].account # a BY <1>3, IdsAssumption DEF IInv, LoginsAreLocal, LoginPhase
    <2>. QED BY <1>1, <1>2, <2>1, <2>2, RowMoves
  <1>4. CASE pc[v] # "starting"
    <2>1. v = w BY <1>1, <1>4, OthersUntouched DEF Untouched
    <2>2. StartClear(w) BY <1>1, <1>4, <2>1, OnlyStartClear
    <2>. QED BY <2>1, <2>2, IdsAssumption DEF StartClear, DeletedAll, NoRow
  <1>. QED BY <1>3, <1>4

\* Without lost answers, no step gives a row to a login that has still to win it.
LEMMA WonStep ==
    ASSUME IInv, IInv', OwnersInv, NEW w \in Worlds, World(w)
    PROVE  ClaimsAreWonOnce'
  <1>. USE DEF dbVars
  <1>1. TypeOK /\ TypeOK' /\ LoginsAreLocal /\ LoginsAreLocal' BY DEF IInv
  <1>. SUFFICES ASSUME faults' = 0, NEW v \in Worlds, pc'[v] \in ClaimPhase,
                       row'[login'[v].account] = [world |-> v, token |-> login'[v].token]
                PROVE  FALSE
    BY DEF ClaimsAreWonOnce, Mine
  <1>2. faults = 0 /\ ~Faulty BY <1>1, FaultsGrow
  <1>3. PICK a \in Accounts, t \in Tokens : login'[v].account = a /\ login'[v].token = t
    BY <1>1 DEF LoginsAreLocal, ClaimPhase, LoginPhase, TypeOK, Logins
  <1>4. CASE v # w
    <2>1. pc[v] = pc'[v] /\ login[v] = login'[v] BY <1>1, <1>4, OthersUntouched DEF Untouched
    <2>2. row[a] = [world |-> v, token |-> t] BY <1>1, <1>3, <1>4, RowMoves
    <2>. QED BY <1>2, <1>3, <2>1, <2>2 DEF OwnersInv, ClaimsAreWonOnce, Mine
  <1>5. CASE v = w
    <2>1. login[w].account = a /\ login[w].token = t
      <3>1. ~(CanDraw /\ t = NewToken /\ UNCHANGED row)
        <4>1. row'[a].token = t BY <1>3
        <4>. QED BY <4>1, DrawIsFresh DEF InUse
      <3>. QED BY <1>1, <1>3, <1>5, <3>1, LoginStep
    <2>2. pc[w] \in LoginPhase BY <1>1, <2>1, IdsAssumption DEF LoginsAreLocal
    <2>3. Insert(w) \/ Lookup(w) \/ Takeover(w) \/ Background(w) BY <1>1, <1>5, <2>2, ClaimRounds
    <2>4. pc[w] \in ClaimPhase
      BY <1>1, <1>5, <2>3 DEF Insert, Lookup, Takeover, Background, ReadAge, RunRelease, ClaimPhase, LoginPhase
    <2>5. row[a] # Mine(w) BY <1>2, <2>1, <2>4 DEF OwnersInv, ClaimsAreWonOnce
    <2>6. row'[a] = Mine(w) BY <1>3, <1>5, <2>1 DEF Mine
    <2>7. pc'[w] # "admit" BY <1>5 DEF ClaimPhase
    <2>8. ~Granted(w) BY <1>1, <2>7 DEF Granted, TypeOK
    <2>9. CASE Insert(w) \/ Lookup(w) \/ Takeover(w)
      BY <1>2, <2>5, <2>6, <2>8, <2>9 DEF Insert, Lookup, Takeover
    <2>10. CASE Background(w)
      <3>1. UNCHANGED row \/ \E b \in Accounts, s \in Tokens : row' = Deleted(row, b, s)
        BY <2>10 DEF Background, ReadAge, RunRelease
      <3>2. Mine(w) # NoRow BY IdsAssumption DEF Mine, NoRow
      <3>. QED BY <1>1, <2>5, <2>6, <3>1, <3>2 DEF Deleted, TypeOK
    <2>. QED BY <2>3, <2>9, <2>10
  <1>. QED BY <1>4, <1>5

\* Who kicks players is in a reconcile, which has chosen them.
LEMMA KickingSteps ==
    ASSUME TypeOK, NEW w \in Worlds, World(w), pc'[w] = "kicking"
    PROVE  \/ Reconcile(w) /\ UNCHANGED <<players, token>>
                           /\ victims' = [victims EXCEPT ![w] = {a \in players[w] : LostClaim(w, a)}]
           \/ pc[w] = "kicking" /\ \E a \in Accounts : Kick(w, a)
           \/ pc[w] = "kicking" /\ Background(w) /\ UNCHANGED <<players, token, victims>>
  <1>. pc \in [Worlds -> Phase] BY DEF TypeOK
  <1>. USE DEF sessionVars
  <1>1. ~(Crash(w) \/ Exit(w)) BY DEF Crash, Exit, Forgotten
  <1>2. ~(Place(w) \/ TurnAway(w) \/ ScriptRefuses(w)) BY DEF Place, TurnAway, ScriptRefuses, Refused
  <1>3. ~(\/ StartClear(w) \/ StartBeat(w) \/ StartFails(w) \/ BeginRetire(w) \/ RetireClaims(w) \/ RetireBeat(w)
          \/ Beat(w) \/ DropReply(w) \/ Reconciled(w))
    BY DEF StartClear, StartBeat, StartFails, BeginRetire, RetireClaims, RetireBeat, Beat, DropReply, Reconciled
  <1>4. ~FinishBeat(w) BY DEF FinishBeat, Planned
  <1>5. ~(\E a \in Accounts : Login(w, a) \/ LateLogin(w, a) \/ Logout(w, a) \/ ShutdownKick(w, a))
    BY DEF Login, LateLogin, Logout, ShutdownKick
  <1>6. ~(Insert(w) \/ Lookup(w) \/ Takeover(w))
    BY ClaimLoopMoves DEF ClaimLoop, LoginPhase, Refused
  <1>7. Reconcile(w) \/ Background(w) \/ \E a \in Accounts : Kick(w, a)
    BY <1>1, <1>2, <1>3, <1>4, <1>5, <1>6 DEF World, Continue
  <1>8. CASE Reconcile(w) BY <1>8 DEF Reconcile
  <1>9. CASE Background(w) BY <1>9 DEF Background, ReadAge, RunRelease
  <1>10. CASE \E a \in Accounts : Kick(w, a) BY <1>10 DEF Kick
  <1>. QED BY <1>7, <1>8, <1>9, <1>10

\* Those it has chosen have lost their rows.
LEMMA VictimsStep ==
    ASSUME IInv, OwnersInv, NEW w \in Worlds, World(w)
    PROVE  VictimsLost'
  <1>1. TypeOK /\ LoginsAreLocal BY DEF IInv
  <1>. SUFFICES ASSUME NEW v \in Worlds, NEW a \in Accounts, pc'[v] = "kicking", a \in victims'[v]
                PROVE  /\ token'[v][a] # NoToken
                       /\ row'[a] # [world |-> v, token |-> token'[v][a]]
    BY DEF VictimsLost
  <1>2. SUFFICES /\ token'[v][a] = token[v][a] /\ token[v][a] # NoToken
                 /\ row[a] # [world |-> v, token |-> token[v][a]]
                 /\ v = w => login[w].account # a
    <2>1. token[v][a] \in Tokens BY <1>1, <1>2 DEF TypeOK
    <2>. QED BY <1>1, <1>2, <2>1, RowMoves
  <1>3. CASE v # w
    BY <1>1, <1>3, OthersUntouched DEF Untouched, OwnersInv, VictimsLost
  <1>4. CASE v = w
    <2>1. pc[w] \in {"reconcile", "kicking"} BY <1>1, <1>4, KickingSteps DEF Reconcile
    <2>2. login[w].account # a BY <1>1, <2>1, IdsAssumption DEF LoginsAreLocal, LoginPhase
    <2>3. CASE /\ UNCHANGED <<players, token>>
               /\ victims' = [victims EXCEPT ![w] = {c \in players[w] : LostClaim(w, c)}]
      <3>1. LostClaim(w, a) BY <1>1, <1>4, <2>3 DEF TypeOK
      <3>2. row[a] # [world |-> w, token |-> token[w][a]]
        BY <3>1 DEF LostClaim, ClaimedTokens
      <3>. QED BY <1>4, <2>2, <2>3, <3>1, <3>2 DEF LostClaim
    <2>4. CASE pc[w] = "kicking" /\ \E c \in Accounts : Kick(w, c)
      <3>1. PICK c \in Accounts : Kick(w, c) BY <2>4
      <3>2. a # c /\ a \in victims[w] /\ token'[w][a] = token[w][a]
        BY <1>1, <1>4, <3>1 DEF Kick, Leave, TypeOK
      <3>. QED BY <1>4, <2>2, <2>4, <3>2 DEF OwnersInv, VictimsLost
    <2>5. CASE pc[w] = "kicking" /\ Background(w) /\ UNCHANGED <<players, token, victims>>
      BY <1>4, <2>2, <2>5 DEF OwnersInv, VictimsLost
    <2>. QED BY <1>1, <1>4, <2>3, <2>4, <2>5, KickingSteps
  <1>. QED BY <1>3, <1>4

\* What does not touch the rows and their owners keeps the invariant.
LEMMA OwnersSame ==
    ASSUME OwnersInv, UNCHANGED <<row, faults, pc, token, login, releases, victims>>
    PROVE  OwnersInv'
  BY DEF OwnersInv, NoOrphans, StartsClear, ClaimsAreWonOnce, VictimsLost, Mine

-----------------------------------------------------------------------------
(* The theorems                                                            *)

\* What the three theorems below rest on, with the inductive invariant.
THEOREM OwnersInvariance == Spec => [](IInv /\ OwnersInv)
  <1>1. Init => IInv /\ OwnersInv
    <2>1. Init => OwnersInv
      BY IdsAssumption DEF Init, OwnersInv, NoOrphans, StartsClear, ClaimsAreWonOnce, VictimsLost, ClaimPhase,
         LoginPhase, NoRow
    <2>. QED BY <2>1, InvInit
  <1>2. ASSUME IInv, OwnersInv, [Next]_vars PROVE IInv' /\ OwnersInv'
    <2>1. CASE \E w \in Worlds : World(w)
      <3>1. PICK w \in Worlds : World(w) BY <2>1
      <3>2. IInv' BY <1>2, <3>1, InvWorld
      <3>3. NoOrphans' /\ StartsClear' /\ ClaimsAreWonOnce' /\ VictimsLost'
        BY <1>2, <3>1, <3>2, OrphansStep, StartsStep, WonStep, VictimsStep
      <3>. QED BY <3>2, <3>3 DEF OwnersInv
    <2>2. CASE Tick \/ ClockStep
      <3>1. UNCHANGED <<row, faults, pc, token, login, releases, victims>>
        BY <2>2 DEF Tick, ClockStep, sessionVars
      <3>. QED BY <1>2, <2>2, <3>1, InvTime, OwnersSame
    <2>3. CASE UNCHANGED vars
      BY <1>2, <2>3, InvStutter, OwnersSame DEF vars
    <2>. QED BY <1>2, <2>1, <2>2, <2>3 DEF Next
  <1>. QED BY <1>1, <1>2, PTL DEF Spec

\* As long as no answer was lost, whatever the number of worlds and accounts and
\* wherever a world stops, every row of a world that runs has somebody who will
\* give it back (PresenceClaim, Retire and Start, presence.cpp).
THEOREM RowsKeepOwners == Spec => []NoOrphans
  <1>1. IInv /\ OwnersInv => NoOrphans BY DEF OwnersInv
  <1>. QED BY OwnersInvariance, <1>1, PTL

\* While a world kicks, only those it has chosen leave.
LEMMA OnlyKicksRemove ==
    ASSUME TypeOK, NEW w \in Worlds, World(w), NEW v \in Worlds, NEW a \in Accounts,
           pc[v] = "kicking", pc'[v] # "down", a \in players[v], a \notin players'[v]
    PROVE  a \in victims[v]
  <1>1. CASE Crash(w) \/ Exit(w)
    BY <1>1 DEF Crash, Exit, Forgotten, TypeOK
  <1>2. CASE \E b \in Accounts : LateLogin(w, b) \/ Logout(w, b) \/ ShutdownKick(w, b)
    BY <1>2 DEF LateLogin, Logout, Leave, ShutdownKick, TypeOK
  <1>3. CASE \E b \in Accounts : Kick(w, b)
    BY <1>3 DEF Kick, Leave, TypeOK
  <1>4. CASE Place(w) BY <1>4 DEF Place, TypeOK
  <1>5. CASE Insert(w) \/ Lookup(w) \/ Takeover(w) BY <1>5, ClaimLoopMoves
  <1>6. CASE \/ StartClear(w) \/ StartBeat(w) \/ StartFails(w) \/ BeginRetire(w) \/ RetireClaims(w) \/ RetireBeat(w)
             \/ TurnAway(w) \/ ScriptRefuses(w) \/ Beat(w) \/ FinishBeat(w) \/ DropReply(w)
             \/ Reconcile(w) \/ Reconciled(w) \/ Background(w) \/ \E b \in Accounts : Login(w, b)
    <2>. USE DEF sessionVars
    <2>. UNCHANGED players
      BY <1>6 DEF StartClear, StartBeat, StartFails, BeginRetire, RetireClaims, RetireBeat, TurnAway, ScriptRefuses,
         Beat, FinishBeat, DropReply, Reconcile, Reconciled, Background, ReadAge, RunRelease, Login
    <2>. QED OBVIOUS
  <1>. QED BY <1>1, <1>2, <1>3, <1>4, <1>5, <1>6 DEF World, Continue

\* Whatever happened since it read the claim table, a reconcile kicks nobody whose
\* row still names its player, and nobody who holds no claim (lostClaim,
\* presence.h; Reconcile, presence.cpp).
THEOREM OnlyLosersAreKicked == Spec => KicksOnlyTheLost
  <1>1. ASSUME IInv, OwnersInv, Next,
               NEW w \in Worlds, NEW a \in Accounts,
               pc[w] = "kicking", a \in players[w], a \notin players'[w], pc'[w] # "down"
        PROVE  token[w][a] # NoToken /\ Lost(w, a, token[w][a])
    <2>1. ~(Tick \/ ClockStep) BY <1>1 DEF Tick, ClockStep, sessionVars
    <2>2. a \in victims[w] BY <1>1, <2>1, OnlyKicksRemove DEF Next, IInv
    <2>. QED BY <1>1, <2>2 DEF OwnersInv, VictimsLost, Lost, Relies
  <1>2. IInv /\ OwnersInv /\ [Next]_vars =>
          [\A w \in Worlds, a \in Accounts :
             /\ pc[w] = "kicking" /\ a \in players[w] /\ a \notin players'[w] /\ pc'[w] # "down"
             => token[w][a] # NoToken /\ Lost(w, a, token[w][a])]_vars
    BY <1>1
  <1>. QED BY OwnersInvariance, <1>2, PTL DEF Spec, KicksOnlyTheLost

\* A world that closes without a heartbeat row does not write one.
LEMMA ClosedIsSilent ==
    ASSUME TypeOK, Next, NEW v \in Worlds, pc[v] = "closing", beat[v] = Missing
    PROVE  beat'[v] = Missing
  <1>. USE DEF dbVars
  <1>1. CASE Tick \/ ClockStep BY <1>1 DEF Tick, ClockStep, Aged
  <1>2. ASSUME NEW w \in Worlds, World(w), v # w PROVE beat'[v] = Missing
    BY <1>2, OthersUntouched DEF Untouched
  <1>3. CASE World(v)
    <2>1. ~(StartBeat(v) \/ FinishBeat(v) \/ RetireBeat(v)) BY DEF StartBeat, FinishBeat, RetireBeat
    <2>2. CASE \E a \in Accounts : \/ Login(v, a) \/ LateLogin(v, a) \/ Logout(v, a) \/ Kick(v, a) \/ ShutdownKick(v, a)
      BY <2>2 DEF Login, LateLogin, Logout, Kick, ShutdownKick
    <2>3. CASE \/ StartClear(v) \/ StartFails(v) \/ Crash(v) \/ Exit(v) \/ BeginRetire(v) \/ RetireClaims(v)
               \/ Insert(v) \/ Lookup(v) \/ Takeover(v) \/ Place(v) \/ TurnAway(v) \/ ScriptRefuses(v)
               \/ Beat(v) \/ DropReply(v) \/ Reconcile(v) \/ Reconciled(v) \/ Background(v)
      BY <2>3 DEF StartClear, StartFails, Crash, Exit, BeginRetire, RetireClaims, Insert, Lookup, Takeover, Place,
         TurnAway, ScriptRefuses, Beat, DropReply, Reconcile, Reconciled, Background, ReadAge, RunRelease
    <2>. QED BY <1>3, <2>1, <2>2, <2>3 DEF World, Continue
  <1>. QED BY <1>1, <1>2, <1>3 DEF Next

\* Whatever reply or task was still under way, a retired world does not bring its
\* heartbeat row back (DropReply, the retired check of FinishBeat, presence.cpp).
THEOREM TheRetiredAreSilent == Spec => RetiredStaysSilent
  <1>1. IInv /\ [Next]_vars =>
          [\A w \in Worlds :
             pc[w] = "closing" /\ beat[w] = Missing /\ pc'[w] = "closing" => beat'[w] = Missing]_vars
    BY ClosedIsSilent DEF IInv
  <1>. QED BY Invariance, <1>1, PTL DEF Spec, RetiredStaysSilent

\* No step makes a login's own claim the one it is about to take over.
LEMMA RivalsStep ==
    ASSUME TypeOK, RivalsOnly, NEW w \in Worlds, World(w)
    PROVE  RivalsOnly'
  <1>. pc \in [Worlds -> Phase] /\ login \in [Worlds -> Logins] BY DEF TypeOK
  <1>. SUFFICES ASSUME NEW v \in Worlds, pc'[v] = "takeover" PROVE login'[v].holder # login'[v].token
    BY DEF RivalsOnly
  <1>1. CASE v # w BY <1>1, OthersUntouched DEF Untouched, RivalsOnly
  <1>2. CASE v = w
    <2>. pc'[w] = "takeover" BY <1>2
    <2>1. ~(Crash(w) \/ Exit(w)) BY DEF Crash, Exit, Forgotten
    <2>2. ~(Place(w) \/ TurnAway(w) \/ ScriptRefuses(w)) BY DEF Place, TurnAway, ScriptRefuses, Refused
    <2>3. ~(\/ StartClear(w) \/ StartBeat(w) \/ StartFails(w) \/ BeginRetire(w) \/ RetireClaims(w) \/ RetireBeat(w)
            \/ Beat(w) \/ DropReply(w) \/ Reconcile(w) \/ Reconciled(w))
      BY DEF StartClear, StartBeat, StartFails, BeginRetire, RetireClaims, RetireBeat, Beat, DropReply, Reconcile,
         Reconciled
    <2>4. ~FinishBeat(w) BY DEF FinishBeat, Planned
    <2>5. ~(\E a \in Accounts : \/ Login(w, a) \/ LateLogin(w, a) \/ Logout(w, a) \/ Kick(w, a) \/ ShutdownKick(w, a))
      BY DEF Login, LateLogin, Logout, Kick, ShutdownKick
    <2>6. ~Granted(w) /\ ~NextAttempt(w) /\ ~Refused(w) BY DEF Granted, NextAttempt, Refused
    <2>7. ~Insert(w) BY <2>6 DEF Insert
    <2>8. CASE Lookup(w)
      <3>1. /\ row[login[w].account].token # login[w].token
            /\ login' = [login EXCEPT ![w].holder = row[login[w].account].token]
        BY <2>6, <2>8 DEF Lookup, Classify
      <3>2. login'[w].holder = row[login[w].account].token /\ login'[w].token = login[w].token
        BY <3>1 DEF Logins
      <3>. QED BY <1>2, <3>1, <3>2
    <2>9. CASE Takeover(w) BY <1>2, <2>6, <2>9 DEF Takeover, RivalsOnly
    <2>10. CASE Background(w) BY <1>2, <2>10 DEF Background, ReadAge, RunRelease, RivalsOnly
    <2>. QED BY <2>1, <2>2, <2>3, <2>4, <2>5, <2>7, <2>8, <2>9, <2>10 DEF World, Continue
  <1>. QED BY <1>1, <1>2

\* A login with a row of its own is turned away by a failing statement, or as it
\* has just tried to take over another's claim for the last time.
LEMMA LandedStep ==
    ASSUME TypeOK, RivalsOnly, Next, NEW v \in Worlds,
           pc[v] \in ClaimPhase, row[login[v].account] = Mine(v), pc'[v] = "idle"
    PROVE  \/ faults' > faults
           \/ pc[v] = "takeover" /\ login[v].holder # login[v].token /\ login[v].attempt = ClaimAttempts
  <1>. pc \in [Worlds -> Phase] /\ login \in [Worlds -> Logins] /\ faults \in Nat BY DEF TypeOK
  <1>. USE DEF ClaimPhase, LoginPhase
  <1>1. ~(Tick \/ ClockStep) BY DEF Tick, ClockStep
  <1>2. PICK w \in Worlds : World(w) BY <1>1 DEF Next
  <1>3. v = w BY <1>2, OthersUntouched DEF Untouched
  <1>. pc[w] \in ClaimPhase /\ row[login[w].account] = Mine(w) /\ pc'[w] = "idle" BY <1>3
  <1>4. Mine(w) # NoRow BY IdsAssumption DEF Mine, NoRow
  <1>5. ~Granted(w) BY DEF Granted
  <1>6. Faulty => faults' > faults BY DEF Faulty
  <1>7. CASE Insert(w) BY <1>4, <1>5, <1>6, <1>7 DEF Insert
  <1>8. CASE Lookup(w)
    <2>1. Classify(row[login[w].account].token, row[login[w].account].world,
                   Expired(row[login[w].account].world), login[w].token, w) = "Ours"
      BY DEF Classify, Mine
    <2>. QED BY <1>4, <1>5, <1>6, <1>8, <2>1 DEF Lookup
  <1>9. CASE Takeover(w)
    <2>1. ~Takeable(w) BY DEF Takeable, Mine
    <2>2. Faulty \/ NextAttempt(w) BY <1>9, <2>1 DEF Takeover
    <2>3. NextAttempt(w) => login[w].attempt = ClaimAttempts
      <3>1. login[w].attempt \in 0..ClaimAttempts BY DEF Logins
      <3>. QED BY <3>1, BoundAssumption DEF NextAttempt
    <2>. QED BY <1>3, <1>6, <1>9, <2>2, <2>3 DEF Takeover, RivalsOnly
  <1>10. Insert(w) \/ Lookup(w) \/ Takeover(w)
    <2>1. ~(Crash(w) \/ Exit(w)) BY DEF Crash, Exit, Forgotten
    <2>2. ~(\/ StartClear(w) \/ StartBeat(w) \/ StartFails(w) \/ BeginRetire(w) \/ RetireClaims(w) \/ RetireBeat(w)
            \/ Place(w) \/ TurnAway(w) \/ ScriptRefuses(w) \/ Beat(w) \/ FinishBeat(w) \/ DropReply(w)
            \/ Reconcile(w) \/ Reconciled(w) \/ Background(w))
      BY DEF StartClear, StartBeat, StartFails, BeginRetire, RetireClaims, RetireBeat, Place, TurnAway, ScriptRefuses,
         Beat, FinishBeat, DropReply, Reconcile, Reconciled, Background, ReadAge, RunRelease
    <2>3. ~(\E a \in Accounts : \/ Login(w, a) \/ LateLogin(w, a) \/ Logout(w, a) \/ Kick(w, a) \/ ShutdownKick(w, a))
      BY DEF Login, LateLogin, Logout, Kick, ShutdownKick
    <2>. QED BY <1>2, <2>1, <2>2, <2>3 DEF World, Continue
  <1>. QED BY <1>7, <1>8, <1>9, <1>10

\* Whatever answers are lost and whatever other worlds do, a login whose claim has
\* landed knows it again and gets in, unless a further statement fails or its last
\* attempt was a takeover (Claim and Classify, presence.cpp).
THEOREM LandedClaimsGetIn == Spec => LandedClaimsAdmit
  <1>1. Init => RivalsOnly BY DEF Init, RivalsOnly
  <1>2. IInv /\ RivalsOnly /\ [Next]_vars => RivalsOnly'
    <2>1. ASSUME IInv, RivalsOnly, Next PROVE RivalsOnly'
      <3>1. CASE Tick \/ ClockStep BY <2>1, <3>1 DEF Tick, ClockStep, RivalsOnly
      <3>2. CASE \E w \in Worlds : World(w) BY <2>1, <3>2, RivalsStep DEF IInv
      <3>. QED BY <2>1, <3>1, <3>2 DEF Next
    <2>2. RivalsOnly /\ UNCHANGED vars => RivalsOnly' BY DEF RivalsOnly, vars
    <2>. QED BY <2>1, <2>2
  <1>3. IInv /\ RivalsOnly /\ [Next]_vars =>
          [\A w \in Worlds :
             /\ pc[w] \in {"insert", "lookup", "takeover"} /\ row[login[w].account] = Mine(w)
             /\ pc'[w] = "idle"
             => \/ faults' > faults
                \/ /\ pc[w] = "takeover" /\ login[w].holder # login[w].token
                   /\ login[w].attempt = ClaimAttempts]_vars
    BY LandedStep DEF IInv, ClaimPhase, LoginPhase
  <1>. QED BY Invariance, <1>1, <1>2, <1>3, PTL DEF Spec, LandedClaimsAdmit
=============================================================================
