--------------------------- MODULE MCMeleteGroups ---------------------------
(***************************************************************************)
(* Melete in five topologies, one of which is chosen at the start and      *)
(* explored: a shard alone, a C-shard on one I-shard, a C-shard that       *)
(* bridges two I-shards, and two with a faulty validator.  What the faulty *)
(* ones send is on the network from the start, and each receiver may get   *)
(* it at any time or never.                                                *)
(***************************************************************************)
EXTENDS Naturals, FiniteSets

CONSTANT None

VARIABLES topology, st, msgs

vars == <<topology, st, msgs>>

\* A peer list of k validators with one Vote each, as the configuration
\* generator makes them.
Equal(k) == [v \in 0..(k - 1) |-> 1]

\* Parts of a part set.
OnePart(b, kind) == 1
Folded(b, kind) == 0

\* The application accepts every transaction of the C-blocks.
AllCommit(i, root, blocks) == [d \in DOMAIN blocks |-> {"i1"}]

\* Transactions are named after the I-shard whose state decides them: in a
\* block with body "stale" shard i refuses transaction i.
StaleAbort(i, root, blocks) ==
  [d \in DOMAIN blocks |-> IF blocks[d].body = "stale" THEN {"i1", "i2"} \ {i} ELSE {"i1", "i2"}]

\* Two heights of a shard of three validators, with a part set.
Lone == INSTANCE Melete WITH
  IShards <- {"i1"}, CShards <- {}, Related <- [c \in {"i1"} |-> {}],
  Votes <- [c \in {"i1"} |-> Equal(3)], Correct <- {"i1"} \X (0..2), FaultyMsg <- {},
  Body <- {"b1"}, Tx <- {}, PreExecutionI <- AllCommit, PartTotal <- OnePart, MaxHeight <- 2

PairRelated == [c \in {"i1", "c1"} |-> IF c = "i1" THEN {"c1"} ELSE {"i1"}]
Pair == INSTANCE Melete WITH
  IShards <- {"i1"}, CShards <- {"c1"}, Related <- PairRelated,
  Votes <- [c \in {"i1", "c1"} |-> Equal(2)], Correct <- {"i1", "c1"} \X (0..1), FaultyMsg <- {},
  Body <- {"b1"}, Tx <- {"i1"}, PreExecutionI <- AllCommit, PartTotal <- OnePart, MaxHeight <- 1

Bridge == INSTANCE Melete WITH
  IShards <- {"i1", "i2"}, CShards <- {"c1"},
  Related <- [c \in {"i1", "i2", "c1"} |-> IF c = "c1" THEN {"i1", "i2"} ELSE {"c1"}],
  Votes <- [c \in {"i1", "i2", "c1"} |-> IF c = "c1" THEN Equal(1) ELSE Equal(2)],
  Correct <- {"i1", "i2"} \X (0..1) \cup {<<"c1", 0>>}, FaultyMsg <- {},
  Body <- {"fresh", "stale"}, Tx <- {"i1", "i2"}, PreExecutionI <- StaleAbort,
  PartTotal <- Folded, MaxHeight <- 1
-----------------------------------------------------------------------------
(* Faulty validators.                                                      *)

\* The proposer of height 1 is faulty, with two Votes in seven: it proposes
\* two blocks, and prevotes and precommits both.  The quorums are validator
\* 0 with either of the others.
TwoBlocks == {[chain |-> "i1", height |-> 1, body |-> b, root |-> <<>>] : b \in {"b1", "b2"}}
TwoProposals ==
  UNION {{Lone!ProposalMsg("i1", 1, b), Lone!PrevoteMsg(<<"i1", 1>>, b),
          Lone!PrecommitMsg(<<"i1", 1>>, b)} : b \in TwoBlocks}

Proposer == INSTANCE Melete WITH
  IShards <- {"i1"}, CShards <- {}, Related <- [c \in {"i1"} |-> {}],
  Votes <- [c \in {"i1"} |-> [v \in 0..2 |-> <<4, 2, 1>>[v + 1]]],
  Correct <- {"i1"} \X {0, 2}, FaultyMsg <- TwoProposals,
  Body <- {"b1", "b2"}, Tx <- {}, PreExecutionI <- AllCommit, PartTotal <- Folded, MaxHeight <- 1

\* An I-shard with a faulty validator of one Vote in five.  It accepts and
\* refuses the C-block, and sends certificates that carry its vote alone: of
\* both statuses, and a cross-shard proposal of a block of its own, with a
\* body that no mempool holds.
CBlock == [chain |-> "c1", height |-> 1, body |-> "b1", root |-> <<>>]
IBlock == [chain |-> "i1", height |-> 1, body |-> "forged", root |-> <<>>]
Statuses == {{}, {"i1"}}
OneVoteCommit(status) ==
  [upper |-> "c1", block |-> CBlock,
   commits |-> [i \in {"i1"} |-> [status |-> status, signers |-> {2}]]]
TwoAccepts ==
  {Pair!PrecommitMsg(<<"i1", 2>>, IBlock)} \cup Pair!CSPMsgs(IBlock, "full", {2}, {"c1"})
    \cup {Pair!CSAMsg(<<"i1", 2>>, "c1", 1, CBlock, status) : status \in Statuses}
    \cup UNION {Pair!CSCMsgs(1, OneVoteCommit(status), {"i1"}) : status \in Statuses}

Accept == INSTANCE Melete WITH
  IShards <- {"i1"}, CShards <- {"c1"}, Related <- PairRelated,
  Votes <- [c \in {"i1", "c1"} |->
              IF c = "i1" THEN [v \in 0..2 |-> IF v = 2 THEN 1 ELSE 2] ELSE Equal(2)],
  Correct <- {"i1", "c1"} \X (0..1), FaultyMsg <- TwoAccepts,
  Body <- {"b1"}, Tx <- {"i1"}, PreExecutionI <- AllCommit, PartTotal <- Folded, MaxHeight <- 1

ASSUME GroupsAssumption ==
  /\ Lone!TopologyOK /\ Lone!BoundsOK /\ Lone!FaultsOK
  /\ Pair!TopologyOK /\ Pair!BoundsOK /\ Pair!FaultsOK
  /\ Bridge!TopologyOK /\ Bridge!BoundsOK /\ Bridge!FaultsOK
  /\ Proposer!TopologyOK /\ Proposer!BoundsOK /\ Proposer!FaultsOK
  /\ Accept!TopologyOK /\ Accept!BoundsOK /\ Accept!FaultsOK
-----------------------------------------------------------------------------
MCInit ==
  \/ topology = "lone" /\ Lone!Init
  \/ topology = "pair" /\ Pair!Init
  \/ topology = "bridge" /\ Bridge!StartedInit
  \/ topology = "faulty proposer" /\ Proposer!StartedInit
  \/ topology = "faulty accept" /\ Accept!StartedInit

\* With a faulty validator a shard may come to a stop.
MCNext ==
  /\ \/ topology = "lone" /\ Lone!Next
     \/ topology = "pair" /\ Pair!Next
     \/ topology = "bridge" /\ Bridge!Next
     \/ topology = "faulty proposer" /\ (Proposer!Next \/ UNCHANGED <<st, msgs>>)
     \/ topology = "faulty accept" /\ (Accept!Next \/ UNCHANGED <<st, msgs>>)
  /\ UNCHANGED topology

MCSpec == MCInit /\ [][MCNext]_vars

Chosen(lone, pair, bridge, proposer, accept) ==
  CASE topology = "lone" -> lone
    [] topology = "pair" -> pair
    [] topology = "bridge" -> bridge
    [] topology = "faulty proposer" -> proposer
    [] topology = "faulty accept" -> accept
-----------------------------------------------------------------------------
\* The safety of Melete in the topology that was chosen: votes are counted
\* once, no finished step is left waiting, a node uses agreed blocks only,
\* executes what the others execute and commits with every I-shard (doMessage,
\* handleStateTransition, doCSC); and without faulty validators no node panics
\* over a block that was built on another state (doPropose).  States and
\* messages are well formed, except that a forged body is of no type.
ShardsAreSafe ==
  Chosen(Lone!TypeOK /\ Lone!Safety /\ Lone!NoPanic,
         Pair!TypeOK /\ Pair!Safety /\ Pair!NoPanic,
         Bridge!TypeOK /\ Bridge!Safety /\ Bridge!NoPanic,
         Proposer!TypeOK /\ Proposer!Safety,
         Accept!Safety)
=============================================================================
