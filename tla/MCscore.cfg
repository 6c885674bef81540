SPECIFICATION Spec
CONSTANTS
  Ids = {"m1", "m2", "m3", "m4"}
  ExpectedKiller <- MCExpected
  Detectors = {"pda-forge", "signer-skip"}
  MinKilled = 2
  MinOf = 3
  MinReached = 3
PROPERTY TriageNeverConcludes
