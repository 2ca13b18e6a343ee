SPECIFICATION SpecReports
CONSTANTS
  Words <- RWords
  Dropped = {"fix"}
  Specific = {}
  Paths = {}
  DiffName <- RNames
  StatusNames <- RNames
  Unnamed = {}
  Files <- RFiles
  Again = {2}
  KindOf <- RKindOf
  Root <- RRoot
  Profiled <- RProfiled
  Direct <- RDirect
  HomeOf <- RHomeOf
  Blob <- RBlob
  Trigger <- RTrigger
  Blockers = {}
  ConcernsOf <- RConcerns
  Settles <- RSettles
  Tasks = {{"etcd", "fix"}}
  MaxMatches = 2
  MaxEdits = 2
  Ids <- RIds
  NoId = ""
  IdOf <- RIdOf
  RefsOf <- RRefsOf
  Bare = {3}
  Blank = {5}
  Dated = {1}
INVARIANTS
  ReportTypeOK
  ReportIsWitnessed
  OkIsEarned
