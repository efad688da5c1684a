------------------------- MODULE MCPyramidDelivery -------------------------
(***************************************************************************)
(* PyramidDelivery in two topologies, one of which is chosen at the start  *)
(* and explored: an I-shard and a B-shard of two validators each, and an   *)
(* I-shard in which one validator alone is a quorum, so that the other one *)
(* lags behind and gets an OK of a height that it has not reached.         *)
(***************************************************************************)
EXTENDS Naturals, FiniteSets

CONSTANT None

VARIABLES topology, st, msgs, delivered

vars == <<topology, st, msgs, delivered>>

Transfer(x, y) == [from |-> <<x>>, fromMoney |-> <<1>>, to |-> <<y>>, toMoney |-> <<1>>]

Chain == {"b1", "i1"}
PairRelated == [c \in Chain |-> IF c = "b1" THEN {"i1"} ELSE {"b1"}]
PairKeyRange == [c \in Chain |-> IF c = "b1" THEN {} ELSE {"a", "b"}]
PairInner == [c \in Chain |-> <<>>]
PairCross == [c \in Chain |-> IF c = "b1" THEN <<Transfer("a", "b")>> ELSE <<>>]

Pair == INSTANCE PyramidDelivery WITH
  Key <- {"a", "b"}, InitBalance <- 2, Wrap <- 8, MaxBlockTxNum <- 1,
  IShards <- {"i1"}, BShards <- {"b1"}, Related <- PairRelated,
  Votes <- [c \in Chain |-> [v \in 0..1 |-> 1]],
  KeyRange <- PairKeyRange, InnerTxs <- PairInner, CrossTxs <- PairCross,
  PartTotal <- 0, MaxHeight <- 3

\* Validator 0 of the I-shard has three of the four Votes.
Lag == INSTANCE PyramidDelivery WITH
  Key <- {"a", "b"}, InitBalance <- 2, Wrap <- 8, MaxBlockTxNum <- 1,
  IShards <- {"i1"}, BShards <- {"b1"}, Related <- PairRelated,
  Votes <- [c \in Chain |-> IF c = "i1" THEN [v \in 0..1 |-> 3 - 2 * v] ELSE [v \in {0} |-> 1]],
  KeyRange <- PairKeyRange, InnerTxs <- PairInner, CrossTxs <- PairCross,
  PartTotal <- 0, MaxHeight <- 2

ASSUME DeliveryAssumption ==
  /\ Pair!TopologyOK /\ Pair!MempoolsOK /\ Pair!BoundsOK
  /\ Lag!TopologyOK /\ Lag!MempoolsOK /\ Lag!BoundsOK
-----------------------------------------------------------------------------
\* A B-shard of one validator has been started before its first block of an
\* I-shard comes: otherwise nothing makes it look, see the README.
MCInit ==
  \/ topology = "pair" /\ Pair!DeliveryInit
  \/ topology = "lag" /\ Lag!DeliveryStartedInit

MCNext ==
  /\ \/ topology = "pair" /\ Pair!DeliveryNext
     \/ topology = "lag" /\ Lag!DeliveryNext
  /\ UNCHANGED topology

\* No node that is in the topology owes a step for ever.
MCOwed(n) ==
  IF topology = "pair" THEN Pair!Owed(n) ELSE n \in Lag!Node /\ Lag!Owed(n)

MCSpec == MCInit /\ [][MCNext]_vars /\ \A n \in Pair!Node : []<>~MCOwed(n)

\* Every height ends in every shard, in whatever order the proposals, parts,
\* votes, blocks of other shards and OKs arrive, and although none is sent
\* again: what a node cannot use yet it keeps (relayMessageChannel,
\* randomHeaderBuffer, crossShardBlockPool, the block store).
EveryHeightEnds == <>(IF topology = "pair" THEN Pair!Finished ELSE Lag!Finished)
=============================================================================
