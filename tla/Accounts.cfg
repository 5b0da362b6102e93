\* Two worlds and two accounts, which may be in game in both. Two requests are
\* enough for two transfers at once, for a purchase against a gift, for two
\* purchases with one balance, and for a ban that is issued again while a world
\* is still to delete the one before; two faults for a refund that fails as well
\* or a crash after a failed read.
\* The requests are bounded, so the instance comes to rest.
SPECIFICATION Spec
CONSTANTS
  Worlds = {w1, w2}
  Accounts = {a1, a2}
  MaxFaults = 2
  MaxRequests = 2
  Bans = {b1, b2}
  NoBan = NoBan
  StartCoins = 1
  MaxAmount = 2
  NoSession = NoSession
  NoAccount = NoAccount
SYMMETRY Symmetry
INVARIANTS TypeOK RetiredOnce NoBanVanishes RowMatchesHistory TransfersConserve CacheFollowsRow
PROPERTIES StandingBansStay
CHECK_DEADLOCK FALSE
