SPECIFICATION Spec
CONSTANTS
  c1 = c1
  c2 = c2
  NoCall = NoCall
  Calls <- MCCalls
  KeyAgents <- MCKeyAgents
  Edges <- MCEdges
  Models = {"m1"}
  Projects = {"p1", "p2"}
  Tasks = {"t1", "t2", "t3"}
  Paths = {"path", "other"}
  Sources <- MCSources
  Statuses <- MCStatuses
  References <- MCReferences
  Providers = {"openai", "google"}
  RunAgents = {"questioner", "examiner", "researcher", "planner", "coder", "reviewer"}
  Ids = {1, 2, 3}
  FirstReports <- MCReports
SYMMETRY CallsAlike
CHECK_DEADLOCK FALSE
INVARIANTS TypeOK WithinContract MemoryAcyclic RegistrationAccountedFor ContextWhole
PROPERTIES SavesOverWhatWasShown MemoryReplacedAsRead
