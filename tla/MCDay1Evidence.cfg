SPECIFICATION Spec
CONSTANTS
  Units <- MCUnits
  PKIFiles <- MCPKIFiles
  Ports <- MCPorts
  Versions = {"1.2", "1.3"}
  Builds = {"b1", "b2"}
  UnitStates <- MCUnitStates
  PKIList <- MCPKIList
  UnitList <- MCUnitList
  SocketOrder <- MCSocketOrder
  StartStates <- MCStartStates
  MaxChanges = 2
  MaxMisses = 1
INVARIANTS
  TypeOK
  QuietNodeJudgedExactly
  PassIsWitnessed
  BadBundleDecides
  HeldBackMeansForbidden
  CertificateAdviceIsWitnessed
  DownBackendBlocksDependents
PROPERTIES
  ImplementsGate
  DegradationNeverUnblocks
