\* Two players may be in game: three regular ones, one of them patient, a premium
\* player and one of the staff come and go.
SPECIFICATION FairSpec
CONSTANTS
  Players = {r1, r2, r3, m1, m2, g1}
  Premium = {m1, m2}
  Privileged = {g1}
  Patient = {r1}
  MaxPlayers = 2
INVARIANTS TypeOK
PROPERTIES EntersInTurn PlacesKept PatientGetIn
