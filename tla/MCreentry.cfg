SPECIFICATION Spec
CONSTANTS
  Programs = {"amm", "token"}
  Allowlists <- MCAllowlists
  NoReentry = NoReentry
  Builtins = {"token"}
  MaxLate = 2
  MaxFrames = 3
  MaxDepth = 3
INVARIANTS FindsFirstReentry NoReentryMissed TreeIsTheInvocations WholeTreeIsComplete
