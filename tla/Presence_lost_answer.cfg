\* The answer to the last takeover of a login is lost: resent, it changes no row,
\* and the login is refused while its row stays.
SPECIFICATION Spec
CONSTANTS
  Worlds = {w1, w2}
  Accounts = {a1}
  Exempt = {}
  Crashable = {}
  Stoppable = {}
  Tokens = {t1, t2}
  NoWorld = NoWorld
  NoToken = NoToken
  NoAccount = NoAccount
  Lease = 3
  BeatInterval = 1
  ClaimAttempts = 3
  MaxDrift = 0
  MaxFaults = 1
  Prompt = {}
PROPERTY RefusedLoginsFree
