SPECIFICATION StartedSpec
CONSTANTS
  None = None
  Key = {"a", "b", "c"}
  InitBalance = 2
  Wrap = 8
  MaxBlockTxNum = 1
  IShards = {"i1"}
  BShards = {"b1", "b2"}
  Related <- ForkRelated
  Votes <- ForkVotes
  KeyRange <- ForkKeyRange
  InnerTxs <- ForkInner
  CrossTxs <- ForkCross
  PartTotal = 0
  MaxHeight = 4
INVARIANT CommittedWritesApplied
