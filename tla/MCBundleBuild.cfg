\* Two builds, a reader and the authors of four knowledge files.
CONSTANTS
  Core <- MCCore
  Optional <- MCOptional
  BaseOf <- MCBaseOf
  MaxEdits = 2
  MaxBuilds = 2

SPECIFICATION Spec

INVARIANTS
  TypeOK
  AcknowledgedIsComplete
  ManifestNeverRunsAhead
  ReportedPathsAreListed
