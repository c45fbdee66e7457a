CONSTANTS
  i1 = i1  a1 = a1  a2 = a2  p1 = p1  f1 = f1  f2 = f2  d1 = d1  d2 = d2  w1 = w1  w2 = w2
  Intakes = {i1}
  Agencies = {a1, a2}
  Drafts = {f1}
  Users = {p1}
  Districts = {d1, d2}
  OwnerOf <- MCOwnerOf
  DistrictOf <- MCDistrictOf
  Serves <- MCServes
  Null = Null
  Workers = {w1, w2}
  Duties <- MCDuties
  MayCrash = TRUE
SPECIFICATION MCSpec
INVARIANTS
  DraftHasTie
PROPERTIES
  LeadIsAnswered
  AnswersInHand
