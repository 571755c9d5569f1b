CONSTANTS
  s1 = s1
  s2 = s2
  t1 = t1
  t2 = t2
  p1 = p1
  Sessions = {s1, s2}
  Tasks = {t1, t2}
  Projects = {p1}
  Unlocked = {}
  Legacy = {t1}
  MaxTokens = 3
  MaxStrays = 0
  NoFile = NoFile
  Torn = Torn
  NoTask = NoTask
  NoProject = NoProject
  NoCall = NoCall
  NoSession = NoSession
SPECIFICATION FairSpec
INVARIANTS OwnInv
PROPERTIES ImplementsLease ClaimReleasable
