CONSTANTS
  d1 = d1  d2 = d2  d3 = d3  d4 = d4  h1 = h1  h2 = h2  c1 = c1  c2 = c2
  l1 = l1  l2 = l2  l3 = l3  w1 = w1  w2 = w2  o1 = o1  o2 = o2
  Deals = {d1, d2, d3, d4}
  Leases = {l1, l2, l3}
  Listings = {h1, h2}
  Customers = {c1, c2}
  DealListing <- MCDealListing
  DealCustomer <- MCDealCustomer
  LeaseListing <- MCLeaseListing
  NoRow = NoRow
  Owners = {o1, o2}
  OwnerOf <- MCOwnerOf
  Desks = {w1, w2}
  Verifiers = {w1}
  Nobody = Nobody
  Users = {w1, c1}
  Nothing = Nothing
  Visits <- MCVisits
  MaxKept = 2
  NearDeals <- MCNearDeals
  NearLeases <- MCNearLeases
SPECIFICATION PagesSpec
CHECK_DEADLOCK FALSE
INVARIANTS
  OneReservingDeal
  OneLiveLease
  StatusDerived
  NoQueueOnLetHome
  ClosedDealHasOneLease
  PaperworkMatchesState
  RenewalChains
  PagesAgreeWithEngine
  NoDealIsStranded
  NumbersAgree
PROPERTIES
  DecidedStaysDecided
  OnlyMoveOutFreesHome
  LostCallIsOver
  OldButtonsDoNoMore
