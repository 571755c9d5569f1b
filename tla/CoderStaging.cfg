SPECIFICATION FairSpec
CONSTANTS
  Calls = {k1}
  RunAgents = {"coder", "reviewer"}
  Commits = {safe, unsafe}
  UnsafeCommits = {unsafe}
  Configs <- MCConfigs
  Runtimes <- MCRuntimes
  Results <- MCResults
  NetworkRules = {"ask"}
  StdoutLimit = 1
  Nobody = Nobody
  NoTree = NoTree
  MaxEdits = 1
  MaxTerms = 2
INVARIANTS PublishedAsOneTree ReportedAsLanded AcceptedIsWhole NothingLeftBehind
PROPERTIES SourceOnlyByUser EveryCallEnds
CHECK_DEADLOCK FALSE
