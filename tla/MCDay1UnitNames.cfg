SPECIFICATION Spec
CONSTANTS
  Units <- MCPrefixedUnits
  PKIFiles <- MCPKIFiles
  Ports <- MCPorts
  Versions = {"1.2", "1.3"}
  Builds = {"b1", "b2"}
  UnitStates <- MCUnitStates
  PKIList <- MCPKIList
  UnitList <- MCPrefixedList
  SocketOrder <- MCSocketOrder
  StartStates <- MCStartStates
  MaxChanges = 2
  MaxMisses = 0
INVARIANT
  FailedUnitHoldsNodeBack
