SPECIFICATION Spec
CONSTANTS
  Players = {p1, p2, p3}
  Nobody = Nobody
  Items = {i1, i2}
  Houses = {h1}
  Containers = {i1}
  Stackable = {i2}
  NoItem = NoItem
  Ground = Ground
  Parties = {}
  NoParty = NoParty
  MaxMembers = 2
  MaxInvites = 1
PROPERTIES HouseTradedByOwner
