-------------------------- MODULE MCPyramidGroups --------------------------
(***************************************************************************)
(* Pyramid in four topologies, one of which is chosen at the start and     *)
(* explored: an I-shard alone, a B-shard over two I-shards, a B-shard over *)
(* one I-shard that has transactions of its own, and one over an I-shard   *)
(* with a validator that lags behind the quorum.                           *)
(***************************************************************************)
EXTENDS Naturals, FiniteSets

CONSTANT None

VARIABLES topology, st, msgs

vars == <<topology, st, msgs>>

\* A peer list of k validators with one Vote each.
Equal(k) == [v \in 0..(k - 1) |-> 1]

\* A transfer from account x to account y.
Pay(x, y, money) == [from |-> <<x>>, fromMoney |-> <<money>>, to |-> <<y>>, toMoney |-> <<money>>]

\* Three validators and two transactions, of which the balance covers only
\* the first; the part of a block may come before the proposal.
Lone == INSTANCE Pyramid WITH
  Key <- {"a", "b"}, InitBalance <- 1, Wrap <- 8, MaxBlockTxNum <- 1,
  IShards <- {"i1"}, BShards <- {}, Related <- [c \in {"i1"} |-> {}],
  Votes <- [c \in {"i1"} |-> Equal(3)], KeyRange <- [c \in {"i1"} |-> {"a", "b"}],
  InnerTxs <- [c \in {"i1"} |-> <<Pay("a", "b", 1), Pay("a", "b", 2)>>],
  CrossTxs <- [c \in {"i1"} |-> <<>>], PartTotal <- 1, MaxHeight <- 2

\* One transaction between the two I-shards.
Bridge == INSTANCE Pyramid WITH
  Key <- {"a", "b"}, InitBalance <- 2, Wrap <- 8, MaxBlockTxNum <- 1,
  IShards <- {"i1", "i2"}, BShards <- {"b1"},
  Related <- [c \in {"b1", "i1", "i2"} |-> IF c = "b1" THEN {"i1", "i2"} ELSE {"b1"}],
  Votes <- [c \in {"b1", "i1", "i2"} |-> IF c = "i1" THEN Equal(2) ELSE Equal(1)],
  KeyRange <- [c \in {"b1", "i1", "i2"} |-> [b1 |-> {}, i1 |-> {"a"}, i2 |-> {"b"}][c]],
  InnerTxs <- [c \in {"b1", "i1", "i2"} |-> <<>>],
  CrossTxs <- [c \in {"b1", "i1", "i2"} |-> IF c = "b1" THEN <<Pay("a", "b", 1)>> ELSE <<>>],
  PartTotal <- 0, MaxHeight <- 4

\* The I-shard has transactions of its own on the accounts of the
\* cross-shard transaction.
Pair == INSTANCE Pyramid WITH
  Key <- {"a", "b", "c"}, InitBalance <- 2, Wrap <- 8, MaxBlockTxNum <- 1,
  IShards <- {"i1"}, BShards <- {"b1"},
  Related <- [c \in {"b1", "i1"} |-> IF c = "b1" THEN {"i1"} ELSE {"b1"}],
  Votes <- [c \in {"b1", "i1"} |-> Equal(2)],
  KeyRange <- [c \in {"b1", "i1"} |-> IF c = "b1" THEN {"c"} ELSE {"a", "b"}],
  InnerTxs <- [c \in {"b1", "i1"} |->
                 IF c = "b1" THEN <<>> ELSE <<Pay("b", "a", 1), Pay("a", "b", 1)>>],
  CrossTxs <- [c \in {"b1", "i1"} |-> IF c = "b1" THEN <<Pay("a", "b", 1)>> ELSE <<>>],
  PartTotal <- 0, MaxHeight <- 4

\* Validator 0 of the I-shard has three of the four Votes: validator 1 gets
\* the OK of a height that it has not reached.
Lag == INSTANCE Pyramid WITH
  Key <- {"a", "b"}, InitBalance <- 2, Wrap <- 8, MaxBlockTxNum <- 1,
  IShards <- {"i1"}, BShards <- {"b1"},
  Related <- [c \in {"b1", "i1"} |-> IF c = "b1" THEN {"i1"} ELSE {"b1"}],
  Votes <- [c \in {"b1", "i1"} |-> IF c = "b1" THEN Equal(1) ELSE [v \in 0..1 |-> 3 - 2 * v]],
  KeyRange <- [c \in {"b1", "i1"} |-> IF c = "b1" THEN {} ELSE {"a", "b"}],
  InnerTxs <- [c \in {"b1", "i1"} |-> <<>>],
  CrossTxs <- [c \in {"b1", "i1"} |-> IF c = "b1" THEN <<Pay("a", "b", 1)>> ELSE <<>>],
  PartTotal <- 0, MaxHeight <- 2

ASSUME GroupsAssumption ==
  /\ Lone!TopologyOK /\ Lone!MempoolsOK /\ Lone!BoundsOK
  /\ Bridge!TopologyOK /\ Bridge!MempoolsOK /\ Bridge!BoundsOK
  /\ Pair!TopologyOK /\ Pair!MempoolsOK /\ Pair!BoundsOK
  /\ Lag!TopologyOK /\ Lag!MempoolsOK /\ Lag!BoundsOK
-----------------------------------------------------------------------------
MCInit ==
  \/ topology = "lone" /\ Lone!Init
  \/ topology = "bridge" /\ Bridge!StartedInit
  \/ topology = "pair" /\ Pair!StartedInit
  \/ topology = "lag" /\ Lag!StartedInit

MCNext ==
  /\ \/ topology = "lone" /\ Lone!Next
     \/ topology = "bridge" /\ Bridge!Next
     \/ topology = "pair" /\ Pair!Next
     \/ topology = "lag" /\ Lag!Next
  /\ UNCHANGED topology

MCSpec == MCInit /\ [][MCNext]_vars

Chosen(lone, bridge, pair, lag) ==
  CASE topology = "lone" -> lone
    [] topology = "bridge" -> bridge
    [] topology = "pair" -> pair
    [] topology = "lag" -> lag
-----------------------------------------------------------------------------
(* The properties of Pyramid, for the topology that was chosen.            *)

\* The nodes of a shard execute the same blocks with the same result, shards
\* leave a height together, and doPropose never takes the block of a correct
\* proposer for a Byzantine error (processIBlock, processBBlock, canCommit,
\* doPropose).  The copy that a B-shard keeps of the accounts of its only
\* I-shard is the state of that shard; with two I-shards it is not.
ShardsAreSafe ==
  Chosen(Lone!TypeOK /\ Lone!LedgerAgreement /\ Lone!ShardsInLockStep /\ Lone!NoPanic,
         Bridge!TypeOK /\ Bridge!LedgerAgreement /\ Bridge!ShardsInLockStep /\ Bridge!NoPanic,
         /\ Pair!TypeOK /\ Pair!LedgerAgreement /\ Pair!ShardsInLockStep /\ Pair!NoPanic
         /\ Pair!SyncedCopies,
         /\ Lag!TypeOK /\ Lag!LedgerAgreement /\ Lag!ShardsInLockStep /\ Lag!NoPanic
         /\ Lag!SyncedCopies)

\* An I-shard that executes a decision to commit has the values of the block,
\* and locks are held by the accepted blocks without a decision and by no
\* others (PreExecution, AcceptCommitShard).
DecisionsAreApplied ==
  Chosen(Lone!CommittedWritesApplied /\ Lone!LocksAreOwned,
         Bridge!CommittedWritesApplied /\ Bridge!LocksAreOwned,
         Pair!CommittedWritesApplied /\ Pair!LocksAreOwned,
         Lag!CommittedWritesApplied /\ Lag!LocksAreOwned)
=============================================================================
