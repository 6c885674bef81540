SPECIFICATION Spec
CONSTANTS
  Mutants <- MCMutants
  Files = {"lib.rs", "state.rs"}
  Detectors <- MCDetectors
  Plan <- WholePlan
  FileOf <- MCFileOf
  EnclosingFn <- InHandlers
  NoFn = NoFn
  Nobody = Nobody
  Rank <- MCRank
  Ixs = {"deposit", "withdraw"}
  Uncompilable = {"broken"}
  Planted <- MCPlanted
  Native = {"cu-dos"}
  Faults = {"silent", "partial"}
  MaxCrashes = 0
  MaxReruns = 0
INVARIANT KillsAreTheMutants
