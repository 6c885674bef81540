SPECIFICATION Spec
CONSTANTS
  Keys <- MCKeys
  Owners <- MCOwners
  Discs <- MCDiscs
  Contexts <- MCContexts
  Vals <- MCVals
  SystemProgram = "system"
  ZeroVal = 0
  Empty = Empty
  Missing = Missing
  Ixs <- MCIxs
  Instr <- MCInstr
  FeePayer = "payer"
  AltPda <- MCAltPda
  Genuine <- MCGenuine
  SigVerify = TRUE
  Harnesses <- MCHarnesses
  FakeKey = "fake"
  Stranger = "stranger"
  WrongDiscriminators = {"Wrong"}
  Snapshot <- MCSnapshot
  ActionsRecord = TRUE
  NoViolation = NoViolation
INVARIANTS NoFalseAccusation BodyRestores
