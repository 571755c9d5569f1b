CONSTANTS
  s1 = s1
  s2 = s2
  t1 = t1
  x1 = x1
  x2 = x2
  r1 = r1
  r2 = r2
  Sessions = {s1, s2}
  Tasks = {t1}
  ChangeSets = {x1, x2}
  TaskOf <- OneTask
  Result <- OwnResults
  Results = {r1, r2}
  MayHold <- EitherSession
  MaxCommits = 2
  MaxTerms = 2
  MaxMoves = 2
  Mixed = Mixed
  NoTarget = NoTarget
  NoSession = NoSession
  NoCommit = NoCommit
  NoWant = NoWant
SYMMETRY SessionsAlike
SPECIFICATION Spec
INVARIANTS DecidesCurrentTarget
CHECK_DEADLOCK FALSE
