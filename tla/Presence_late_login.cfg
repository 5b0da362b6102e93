\* A login queued behind the shutdown task is placed without a claim.
SPECIFICATION Spec
CONSTANTS
  Worlds = {w1, w2}
  Accounts = {a1}
  Exempt = {}
  Crashable = {}
  Stoppable = {w1}
  Tokens = {t1, t2}
  NoWorld = NoWorld
  NoToken = NoToken
  NoAccount = NoAccount
  Lease = 3
  BeatInterval = 1
  ClaimAttempts = 1
  MaxDrift = 0
  MaxFaults = 0
  Prompt = {}
INVARIANT OneSession
