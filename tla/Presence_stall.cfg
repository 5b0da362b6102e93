\* Two worlds fight over one account while either may stall for as long as it
\* likes and the database's clock may jump by a beat interval within a check:
\* every claim that is lost is lost to an expired heartbeat, and is found.
SPECIFICATION Spec
CONSTANTS
  Worlds = {w1, w2}
  Accounts = {a1}
  Exempt = {}
  Crashable = {}
  Stoppable = {}
  Tokens = {t1, t2}
  NoWorld = NoWorld
  NoToken = NoToken
  NoAccount = NoAccount
  Lease = 3
  BeatInterval = 1
  ClaimAttempts = 1
  MaxDrift = 1
  MaxFaults = 0
  Prompt = {}
INVARIANTS IInv
PROPERTIES ClaimsOutliveRivals LockSpec
