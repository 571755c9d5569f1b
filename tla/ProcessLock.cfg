CONSTANTS
  c1 = c1
  c2 = c2
  c3 = c3
  c4 = c4
  Clients = {c1, c2, c3, c4}
  Pids <- ThreePids
  Hosts <- TwoHosts
  PidOf <- SharedPid
  HostOf <- LastIsForeign
  RetryCount = 1
  MaxGen = 1
  Free = Free
  Legacy = Legacy
  Malformed = Malformed
SPECIFICATION FairSpec
INVARIANTS LockInv ExclusionUnlessMisfired
PROPERTIES RecoveryLosesOnlyTheDead ArtifactsUntouched DeadOwnerReclaimed
CHECK_DEADLOCK FALSE
