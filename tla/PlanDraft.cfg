CONSTANTS
  a = a
  b = b
  Contents = {a, b}
  NoFile = NoFile
  MaxSaves = 2
  MaxRevisions = 4
SYMMETRY TextsAlike
SPECIFICATION PlanSpec
INVARIANTS PlanInv DecidedAsReviewed AcceptedPlansKept RejectedForGood
CHECK_DEADLOCK FALSE
