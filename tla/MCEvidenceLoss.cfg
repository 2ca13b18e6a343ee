SPECIFICATION Spec
CONSTANTS
  s1 = s1
  s2 = s2
  s3 = s3
  Writers = {w1, w2}
  Snapshots <- MCSnapshots
  FactsOf <- MCFactsOf
  NoSnapshot = NoSnapshot
  MaxFaults = 1
INVARIANT
  RecentFactsAreComplete
\* Once every snapshot was saved the system stops.
CHECK_DEADLOCK FALSE
