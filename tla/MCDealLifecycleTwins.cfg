CONSTANTS
  d1 = d1  d2 = d2  d3 = d3  d4 = d4
  h1 = h1  h2 = h2  c1 = c1  c2 = c2
  l1 = l1  l2 = l2  l3 = l3
  Deals = {d1, d4}
  Leases = {l1}
  Listings = {h1}
  Customers = {c1}
  DealListing <- MCDealListing
  DealCustomer <- MCDealCustomer
  LeaseListing <- MCLeaseListing
  NoRow = NoRow
SPECIFICATION Spec
CHECK_DEADLOCK FALSE
INVARIANT OneOpenDealPerCustomer
