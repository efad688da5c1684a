CONSTANTS
  None = None
  Block = {h1, h2}
  Status = {commit, abort}
  AcceptShards <- MCAcceptShards
  Votes <- MCVotes
  VoteNodes = {n1, n2}
  VoteHash = {h1, h2}
  Width = 3
  MaxBits = 5
  Nil = Nil
  MaxKey = 5
  Chain = 7
  Height = 1
  PartSize = {3, 5, 12}
  MaxBuffer = 1
SPECIFICATION DataSpec
INVARIANTS NoAmbiguity PowerCounted CounterMatches CommitIsCertified
INVARIANTS VotesAreRight BitsAreRight RangesAreRight PartsAreRight
PROPERTY MajorityIsStable
