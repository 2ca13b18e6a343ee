SPECIFICATION Spec
CONSTANTS
  Words <- MCWords
  Dropped <- MCDropped
  Specific <- MCSpecific
  Paths <- MCPaths
  DiffName <- MCDiffName
  StatusNames <- MCStatusNames
  Unnamed = {"old.go"}
  Files <- MCFiles
  Again = {}
  KindOf <- MCKindOf
  Root <- MCRoot
  Profiled <- MCProfiled
  Direct <- MCDirect
  HomeOf <- MCHomeOf
  Blob <- MCBlob
  Trigger <- MCTrigger
  Blockers <- MCBlockers
  ConcernsOf <- MCConcernsOf
  Settles <- MCSettles
  Tasks <- MCTasks
  MaxMatches = 2
  MaxEdits = 2
INVARIANTS
  TypeOK
  AnswersAreWitnessed
  NothingSteadyIsMissed
  BadFileSilencesTheCall
  UnwarnedCallSawTheChanges
