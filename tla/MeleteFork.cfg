CONSTANTS
  None = None
  IShards = {"i1"}
  CShards = {"c1", "c2"}
  Related <- ForkRelated
  Votes <- ForkVotes
  Correct <- AllNodes
  FaultyMsg = {}
  Body = {"b1"}
  Tx = {"i1"}
  PreExecutionI <- FirstHeightOnly
  PartTotal <- Folded
  MaxHeight = 2
SPECIFICATION MCSpec
INVARIANTS VotesCountedOnce NoMissedTransition OnlyAgreedBlocks LedgerAgreement CommittedByEveryShard
PROPERTY Progress
