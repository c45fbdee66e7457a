CONSTANTS
  c1 = c1  c2 = c2  e1 = e1  e2 = e2  r1 = r1  r2 = r2
  a1 = a1  w1 = w1  w2 = w2
  Accounts = {c1, c2}
  Emails = {e1, e2}
  Rows = {r1, r2}
  Agencies = {a1}
  Null = Null
  Workers = {w1, w2}
  MaxEvents = 2
  Duties <- InviteBeside
  Faults = {"crash"}
SPECIFICATION MCSpec
SYMMETRY Symmetry
PROPERTIES
  OneAccount
  LinkIsFinal
  LeaversHaveNoTies
