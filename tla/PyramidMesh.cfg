SPECIFICATION PromptSpec
CONSTANTS
  None = None
  Key = {"a", "b", "c"}
  InitBalance = 2
  Wrap = 8
  MaxBlockTxNum = 1
  IShards = {"i1", "i2"}
  BShards = {"b1", "b2"}
  Related <- MeshRelated
  Votes <- MeshVotes
  KeyRange <- MeshKeyRange
  InnerTxs <- MeshInner
  CrossTxs <- MeshCross
  PartTotal = 0
  MaxHeight = 5
INVARIANTS LedgerAgreement ShardsInLockStep NoPanic
PROPERTY ImplementsAtomicCommit
