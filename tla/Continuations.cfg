SPECIFICATION Spec
CONSTANTS
  Callers = {c1, c2}
  UserAgents = {"coder", "researcher"}
  Replies <- MCReplies
  RuleSets <- MCRuleSets
  NoReply = NoReply
  NoRecord = NoRecord
  Capacity = 1
  MaxDepth = 2
  MaxInvocations = 3
INVARIANTS HandleUsedOnce NetworkGrantTraceable CoderOnlyByUser ValidatedIsStorable
SYMMETRY Symmetry
CHECK_DEADLOCK FALSE
