\* Inputs of Compose, one observation at a time, up to two alarms.
CONSTANTS
  Kinds <- MCKinds
  Alarms <- MCAlarms
  MaxAlarms = 2
  NoTuple = NoTuple
  NoReport = NoReport

SPECIFICATION Spec

INVARIANTS
  ClearedOnlyWhenQuiet
  HeldBackSaysWhy

PROPERTY WorseNewsNeverClears
