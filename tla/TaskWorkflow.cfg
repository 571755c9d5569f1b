CONSTANTS
  s1 = s1
  s2 = s2
  k1 = k1
  k2 = k2
  k3 = k3
  Sessions = {s1, s2}
  Calls = {k1, k2, k3}
  NoSession = NoSession
  NoCall = NoCall
  MaxTerms = 2
  MaxDrafts = 1
  MaxRecords = 2
SYMMETRY Alike
SPECIFICATION Spec
INVARIANTS WorkflowInv UserCompletionStrandsNothing PassedAsReviewed ArchivedUnownedUnlessLate
PROPERTIES NothingNewAfterTheEnd
CHECK_DEADLOCK FALSE
