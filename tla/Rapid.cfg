SPECIFICATION Safety
CONSTANTS
  None = None
  IShards = {"i1", "i2"}
  BShards = {"b1", "b2"}
  Related <- MeshRelated
  KeyRange <- MeshKeyRange
  CrossTxs <- ShortCross
  MaxBlockTxNum = 1
INVARIANTS NeighboursInLockStep LocksAreOwned
PROPERTY ImplementsAtomicCommit
