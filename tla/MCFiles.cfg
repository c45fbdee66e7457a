CONSTANTS
  c1 = c1  c2 = c2  g1 = g1  g2 = g2  n1 = n1  w1 = w1  w2 = w2
  Files = {n1, c1, c2, g1, g2}
  PrefixOf <- MCPrefixOf
  Null = Null
  Workers = {w1, w2}
  Duties <- PurgeBeside
  Faults = {"crash", "storage"}
SPECIFICATION Spec
INVARIANTS
  RowsHaveObjects
  ReviewHasDocument
PROPERTIES
  SweptUnreferenced
