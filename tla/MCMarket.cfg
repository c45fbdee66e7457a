CONSTANTS
  h1 = h1  h2 = h2  h3 = h3  i1 = i1  i2 = i2  i3 = i3  i4 = i4  w1 = w1  w2 = w2
  a1 = a1  a2 = a2  g1 = g1  g2 = g2  g3 = g3  e1 = e1  p1 = p1  p2 = p2
  l1 = l1  l2 = l2  l3 = l3  o1 = o1  o2 = o2
  Listings = {h1, h2, h3}
  Images = {i1, i2, i3, i4}
  FromIntake = {h2}
  MAX_PHOTOS = 3
  Workers = {w1, w2}
  Duties <- TwoDesks
  MayCrash = TRUE
  Applications = {a1, a2}
  Agencies = {g1, g2, g3}
  Emails = {e1}
  EmailOf <- SameFounder
  Null = Null
  Admins = {p1, p2}
  AdminsMayCrash = TRUE
  AgencyOf <- Agency
  IdOf <- Ids
  Rents = {1, 2}
  BROWSE_PAGE_SIZE = 1
  Leases = {l1, l2, l3}
  LeaseOwners = {o1, o2}
  LeaseAgencies = {g1, g2}
  OwnerOfLease <- LeaseOwner
  AgencyOfLease <- LeaseAgency
  Amounts = {1, 6}
  YearLength = 2
  LastMonth = 2
  MaxPayments = 3
SPECIFICATION MCSpec
SYMMETRY ImageSymmetry
CHECK_DEADLOCK FALSE
INVARIANTS
  ApprovedHasAgency
  ThumbsComplete
  PhotoLimit
  ScrollIsComplete
  ConsolesAgree
  FiguresAgree
