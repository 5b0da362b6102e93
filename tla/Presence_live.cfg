\* Under fairness: a player whose claim was taken over leaves, and a crashed
\* world does not keep its players out.
SPECIFICATION FairSpec
CONSTANTS
  Worlds = {w1, w2}
  Accounts = {a1}
  Exempt = {}
  Crashable = {w1}
  Stoppable = {}
  Tokens = {t1, t2}
  NoWorld = NoWorld
  NoToken = NoToken
  NoAccount = NoAccount
  Lease = 3
  BeatInterval = 1
  ClaimAttempts = 1
  MaxDrift = 0
  MaxFaults = 0
  Prompt = {w2}
CONSTRAINT PromptWorlds
PROPERTIES LostPlayersLeave CrashedWorldsLetGo
