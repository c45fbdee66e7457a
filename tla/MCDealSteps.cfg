CONSTANTS
  d1 = d1  d2 = d2  h1 = h1  c1 = c1  c2 = c2
  l1 = l1  l2 = l2  w1 = w1  w2 = w2
  Deals = {d1, d2}
  Leases = {l1, l2}
  Listings = {h1}
  Customers = {c1, c2}
  Workers = {w1, w2}
  DealListing <- MCDealListing
  DealCustomer <- MCDealCustomer
  LeaseListing <- MCLeaseListing
  Duties <- LeaseDesk
  MayCrash = TRUE
  MaxDocs = 2
  NoRow = NoRow
SPECIFICATION Spec
SYMMETRY MCSymmetry
CHECK_DEADLOCK FALSE
INVARIANTS
  OneReservingDeal
  OneLiveLease
  ClosedDealHasLease
PROPERTIES
  EndedLeaseStaysEnded
