\* Three players who trade and form two parties. An offered bag, what is in it and
\* what is offered against it are the three items; one of them is stackable.
SPECIFICATION Spec
CONSTANTS
  Players = {p1, p2, p3}
  Nobody = Nobody
  Items = {i1, i2, i3}
  Houses = {h1}
  Containers = {i1}
  Stackable = {i2}
  NoItem = NoItem
  Ground = Ground
  Parties = {k1, k2}
  NoParty = NoParty
  MaxMembers = 2
  MaxInvites = 1
SYMMETRY Symmetry
CONSTRAINT PartiesOrGoods
INVARIANTS TypeOK PartnersAgree OffersRegistered DocumentsAreOffered AbsentLeaveNoTrace MembershipAgrees InvitationsAgree NobodyIsAlone
PROPERTIES OffersStayPut NothingForNothing JoinsByInvitation
