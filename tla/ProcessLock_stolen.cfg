CONSTANTS
  c1 = c1
  c2 = c2
  c3 = c3
  c4 = c4
  Clients = {c1, c2, c3, c4}
  Pids <- FourPids
  Hosts <- OneHost
  PidOf <- OwnPid
  HostOf <- SameHost
  RetryCount = 2
  MaxGen = 1
  Free = Free
  Legacy = Legacy
  Malformed = Malformed
SPECIFICATION Spec
INVARIANTS MutualExclusion
CHECK_DEADLOCK FALSE
