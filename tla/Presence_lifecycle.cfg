\* Crash, restart, orderly shutdown, logout, waiting list and refused logins of
\* two accounts, one of them exempt, and a query that fails or is not answered
\* anywhere among them: no row is left without an owner, a retired world stays
\* silent, a reconcile kicks only players who lost their claim, and what a failed
\* beat or a failed read leaves behind still catches every lost claim. A login whose
\* claim landed unanswered gets in.
SPECIFICATION Spec
CONSTANTS
  Worlds = {w1, w2}
  Accounts = {a1, a2}
  Exempt = {a2}
  Crashable = {w1}
  Stoppable = {w1}
  Tokens = {t1, t2}
  NoWorld = NoWorld
  NoToken = NoToken
  NoAccount = NoAccount
  Lease = 3
  BeatInterval = 1
  ClaimAttempts = 2
  MaxDrift = 0
  MaxFaults = 1
  Prompt = {w2}
CONSTRAINT PromptWorlds
INVARIANTS CaughtLostClaims NoOrphans
PROPERTIES RetiredStaysSilent KicksOnlyTheLost LandedClaimsAdmit
