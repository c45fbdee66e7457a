CONSTANTS
  d1 = d1  d2 = d2  d3 = d3
  h1 = h1  h2 = h2  c1 = c1  c2 = c2
  l1 = l1  l2 = l2  l3 = l3  w1 = w1
  Deals = {d1, d2, d3}
  Leases = {l1, l2, l3}
  Listings = {h1, h2}
  Customers = {c1, c2}
  Workers = {w1}
  DealListing <- MCDealListing
  DealCustomer <- MCDealCustomer
  LeaseListing <- MCLeaseListing
  Duties <- MCDuties
  MayCrash = FALSE
  MaxDocs = 3
  NoRow = NoRow
SPECIFICATION SSpec
SYMMETRY MCSymmetry
CHECK_DEADLOCK FALSE
PROPERTIES
  ImplementsLifecycle
