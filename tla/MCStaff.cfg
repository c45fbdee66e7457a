CONSTANTS
  p1 = p1  p2 = p2  p3 = p3  d1 = d1  w1 = w1  
  People = {p1, p2, p3}
  Founders = {p1, p2}
  Deals = {d1}
  NoOne = NoOne
  Workers = {w1}
  Duties <- AllDuties
  MayCrash = TRUE
SPECIFICATION Spec
INVARIANTS
  NeverHeadless
PROPERTIES
  RemovalOrphansNoDeal
