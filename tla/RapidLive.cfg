SPECIFICATION Spec
CONSTANTS
  None = None
  IShards = {"i1"}
  BShards = {"b1", "b2"}
  Related <- ForkRelated
  KeyRange <- ForkKeyRange
  CrossTxs <- ForkCross
  MaxBlockTxNum = 1
PROPERTIES EveryBlockDecided LocksReleased EveryTransactionDecided
