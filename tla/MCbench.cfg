SPECIFICATION Spec
CONSTANTS
  NTicks = 3
  TickDepth = 2
  FeeBps = 30
  DepositAmount = 10
  BorrowAmount = 5
  PriceA = 1
  PriceB = 1
  Zero = Zero
  User = User
  NextTick = NextTick
  Prices <- MCPrices
  SamplePrice = 500
  Amounts <- MCAmounts
  Deposits = {1, 3, 7}
  Slots = {1, 2, 3}
  InitialReserveIn = 1000
  InitialReserveOut = 2000
  InitialUserSrc = 2000
  InitialUnderlying = 12
  Dust = 4
  NoViolation = NoViolation
  MaxActions = 5
INVARIANTS OnlyItsPlant NoPlantActsUnseen SignerPlantSeen
