CONSTANTS
  None = None
  IShards = {"i1", "i2"}
  CShards = {"c1", "c2"}
  Related <- MCRelated
  Order <- MCOrder
  KeyRange <- MCKeyRange
  CrossTx <- MCCross
  InnerTx <- MCInner
  MaxCross = 2
  MaxInner = 1
  MaxHeight = 2
  InitBalance = 1
  Wrap = 3
SPECIFICATION MCSpec
INVARIANTS ExecutionIsSerial MoneyConserved RefusedOnlyInConflict
