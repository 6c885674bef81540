SPECIFICATION Spec
CONSTANTS
  PairSeq <- MCPairSeq
  Offset <- MCOffset
  BodySize <- MCBodySize
  Setup <- MCSetup
  Amounts = {1}
  ProbeSeq <- MCProbeSeq
  Exec <- MCExec
  Holds <- MCHolds
  Targets <- MCTargets
  Later <- MCLater
  Equivalent <- MCEquivalent
  Builds = {old, new}
  Faults <- MCFaults
  MaxActions = 1
  MaxIterations = 2
  MaxProcesses = 2
  MaxRebuilds = 1
  MaxEdits = 1
INVARIANTS NoFalseDivergence CleanMeansAgreed ReportReplays PortableNamesFinding GradeIsJustified DamageNeverCarried
SYMMETRY BuildsAlike
CHECK_DEADLOCK FALSE
