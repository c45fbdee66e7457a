CONSTANTS
  v1 = v1  l1 = l1  p1 = p1  p2 = p2  w1 = w1  w2 = w2  k1 = k1  k2 = k2
  Items = {v1, l1}
  PartOf <- MCPartOf
  People = {p1, p2}
  RecipientsOf <- MCRecipientsOf
  MaxDay = 1
  Null = Null
  Runners = {w1, w2}
  Faults = {"crash", "sms"}
  BELL_PAGE_SIZE = 1
  Clicks = {k1, k2}
  MaxRows = 2
SPECIFICATION MCSpec
INVARIANTS
  ToldOnce
  BadgeNeverHides
PROPERTIES
  DueIsMoved
  BadgeComesRight
