------------------------------- MODULE Melete -------------------------------
(***************************************************************************)
(* The consensus of Melete: shards that each agree on one block a height   *)
(* (propose, prevote, precommit) and then commit the cross-shard part of   *)
(* their blocks together (cross-shard proposal, accept and commit).        *)
(*                                                                         *)
(* I-shards own accounts; a C-shard bridges the I-shards it is related to  *)
(* and proposes the transactions between them.  At every height            *)
(*   - each shard agrees on a block and its proposer sends the block with  *)
(*     the aggregated precommits (CSP) to the neighbours;                  *)
(*   - each I-shard node with the blocks of all its C-shards votes on      *)
(*     their cross-shard transactions (CSA, one for each C-shard);         *)
(*   - a C-shard node with two thirds of each of its I-shards makes the    *)
(*     commit certificate (CSC), the proposer sends it to the I-shards,    *)
(*     which pass it on to their other C-shards;                           *)
(*   - a node with all the blocks and certificates of its neighbourhood    *)
(*     executes them and enters the next height.                           *)
(*                                                                         *)
(* st[n] is the ConsensusState of node n together with its                 *)
(* HeightDataPackage.  A handler runs under stateMtx: it is a function     *)
(* from the state of the node to its new state, with the messages it       *)
(* sends in the field out.  The network is the set of messages ever sent:  *)
(* a message may arrive late, out of order, more than once or never.       *)
(* A hash is the value it is the hash of, and an aggregated signature is   *)
(* valid when each signer has sent the vote it aggregates.                 *)
(*                                                                         *)
(* No code changes Round, so it is always 0 and is left out.  PassStep is  *)
(* left out too: it remembers that a Finish condition held, and within a   *)
(* height these conditions never become false again.                       *)
(***************************************************************************)
EXTENDS Naturals, Sequences, FiniteSets

CONSTANTS
  IShards, CShards,        \* chain ids
  Related,                 \* Related[c]: RelatedShards of chain c
  Votes,                   \* Votes[c][v]: Vote of validator v of chain c
  Correct,                 \* the nodes that run this code
  FaultyMsg,               \* what the other nodes have put on the network
  Body,                    \* contents a proposer may reap from its mempools
  Tx,                      \* the cross-shard transactions of a C-block
  PreExecutionI(_, _, _),  \* the vote of the application, see DoCSA
  PartTotal(_, _),         \* parts of a block's part set of a kind; 0 folds
                           \* them into the message with their header
  MaxHeight,               \* bound: no node works on a higher height
  None                     \* nil

Shard == IShards \cup CShards
Node == UNION {{c} \X DOMAIN Votes[c] : c \in Shard}
Status == SUBSET Tx

\* What a node executed at one height, see ExecutionAllBlocks: the bodies
\* of the blocks and the commit status of the C-blocks, by chain.
Entry == [body : UNION {[S -> Body] : S \in SUBSET Shard},
          status : UNION {[S -> Status] : S \in SUBSET Shard}]

\* A block: root stands for the StateRoot and ReceiptRoot it is built on.
Block == [chain : Shard, height : Nat, body : Body, root : Seq(Entry)]

INSTANCE CSAShardSet

ChainOf(n) == n[1]
IndexOf(n) == n[2]

\* Related2LevelShards as the configuration builds it.
Related2Level(c) == (UNION {Related[d] : d \in Related[c]}) \ {c}

\* calculateProposer: (Height + Round) modulo the number of validators.
Proposer(c, h) == h % Cardinality(DOMAIN Votes[c])
IsProposer(n, s) == Proposer(ChainOf(n), s.height) = IndexOf(n)

\* The chains whose cross-shard and inner transactions a node executes.
CNeighbours(c) == IF c \in CShards THEN {c} \cup Related2Level(c) ELSE Related[c]
INeighbours(c) == IF c \in CShards THEN {c} \cup Related[c] ELSE {c}

TopologyOK ==
  /\ IsFiniteSet(Shard) /\ IShards \cap CShards = {}
  /\ \A c \in IShards : Related[c] \subseteq CShards
  /\ \A c \in CShards : Related[c] \subseteq IShards /\ Related[c] # {}
  /\ \A c, d \in Shard : c \in Related[d] <=> d \in Related[c]
  /\ \A c \in Shard : /\ IsFiniteSet(DOMAIN Votes[c]) /\ DOMAIN Votes[c] # {}
                       /\ DOMAIN Votes[c] = 0..(Cardinality(DOMAIN Votes[c]) - 1)
                       /\ Votes[c] \in [DOMAIN Votes[c] -> Nat]

BoundsOK == MaxHeight \in Nat /\ Correct \subseteq Node

\* What the code relies on in a message once it is decoded, whoever sent it:
\* a proposal has the height of its header, and an index is in the peer list.
WellFormed(m) ==
  /\ m.height \in Nat
  /\ m.type \in {"Proposal", "Part", "CSP"} => m.block.chain \in Shard
  /\ m.type \in {"Proposal", "CSP"} => m.block # None /\ m.block.height = m.height
  /\ m.type \in {"Prevote", "Precommit"} =>
       /\ m = [type |-> m.type, to |-> m.to, height |-> m.height, from |-> m.from, block |-> m.block]
       /\ m.from \in DOMAIN Votes[m.to]
  /\ m.type = "CSA" => m.index \in DOMAIN Votes[m.accept] /\ m.block # None /\ m.status \in Status

\* m is a vote in the name of node n.
VoteOf(n, m) ==
  \/ m.type \in {"Prevote", "Precommit"} /\ m.to = ChainOf(n) /\ m.from = IndexOf(n)
  \/ m.type = "CSA" /\ m.accept = ChainOf(n) /\ m.index = IndexOf(n)

\* The faulty validators of a shard hold less than a third of its Votes and
\* cannot sign for the correct ones.
FaultsOK ==
  /\ \A c \in Shard :
       3 * Power(Votes[c], {v \in DOMAIN Votes[c] : <<c, v>> \notin Correct}) < TotalVotes(Votes[c])
  /\ \A m \in FaultyMsg : WellFormed(m) /\ \A n \in Correct : ~VoteOf(n, m)

ASSUME MeleteAssumption == TopologyOK /\ BoundsOK /\ FaultsOK

VARIABLES st,     \* st[n]: state of node n
          msgs    \* every message sent so far

vars == <<st, msgs>>
-----------------------------------------------------------------------------
(* Messages.  The field to is the chain whose peers receive the message.   *)
(* A part belongs to the part set of the whole block ("full") or, from a   *)
(* C-shard to its neighbours, of the block without inner transactions      *)
(* ("cross").                                                              *)

ProposalMsg(c, v, b) ==
  [type |-> "Proposal", to |-> c, height |-> b.height, from |-> v, block |-> b]

PartMsgs(b, kind, dests) ==
  {[type |-> "Part", to |-> c, height |-> b.height, block |-> b, kind |-> kind, index |-> i] :
     c \in dests, i \in 1..PartTotal(b, kind)}

PrevoteMsg(n, b) ==
  [type |-> "Prevote", to |-> ChainOf(n), height |-> b.height, from |-> IndexOf(n), block |-> b]

PrecommitMsg(n, b) ==
  [type |-> "Precommit", to |-> ChainOf(n), height |-> b.height, from |-> IndexOf(n), block |-> b]

CSPMsgs(b, kind, signers, dests) ==
  {[type |-> "CSP", to |-> c, height |-> b.height, block |-> b, kind |-> kind,
    signers |-> signers] : c \in dests}

CSAMsg(n, c, h, b, status) ==
  [type |-> "CSA", to |-> c, accept |-> ChainOf(n), height |-> h,
   index |-> IndexOf(n), block |-> b, status |-> status]

CSCMsgs(h, csc, dests) ==
  {[type |-> "CSC", to |-> c, height |-> h, csc |-> csc] : c \in dests}

\* AddPart compares the part with the header of the set (Merkle proof).
InPartSet(p, ps) == p.block = ps.block /\ p.kind = ps.kind
-----------------------------------------------------------------------------
(* HeightDataPackage: what a node collects during one height.              *)

\* clearPrevote and clearPrecommit.
ClearVotes(n, s) ==
  [s EXCEPT
    !.prevotes = [v \in DOMAIN Votes[ChainOf(n)] |-> None],
    !.prevoteBits = {},
    !.prevoteTotal = 0,
    !.precommits = [v \in DOMAIN Votes[ChainOf(n)] |-> None],
    !.precommitBits = {},
    !.precommitTotal = 0]

\* Faulty variant: certificates survive the end of a height.
ClearCrossShardDataKeepCommits(n, s) ==
  [s EXCEPT
    !.csps = {}, !.counter = 0, !.buffer = {},
    !.csas = [i \in Related[ChainOf(n)] |-> NewCSAShardSet(Votes[i])],
    !.cscs = IF s.height = 0 THEN [d \in Shard |-> None] ELSE @,
    !.partSets = [d \in Shard |-> None],
    !.blocks = [d \in Shard |-> None]]

ClearCrossShardData(n, s) ==
  [s EXCEPT
    !.csps = {},
    !.csas = [i \in Related[ChainOf(n)] |-> NewCSAShardSet(Votes[i])],
    !.counter = 0,
    !.cscs = [d \in Shard |-> None],
    !.partSets = [d \in Shard |-> None],
    !.blocks = [d \in Shard |-> None],
    !.buffer = {}]

\* NewHeightData and NextHeight: clearAll.
ClearAll(n, s) == ClearCrossShardData(n, ClearVotes(n, [s EXCEPT !.proposal = None]))

\* NewConsensusState: height 0 until Start.
NewState(n) ==
  ClearAll(n, [up |-> TRUE, height |-> 0, step |-> "NewHeight", root |-> <<>>,
     relay |-> {}, resume |-> FALSE, out |-> {},
     proposal |-> None, prevotes |-> None, prevoteBits |-> {}, prevoteTotal |-> 0,
     precommits |-> None, precommitBits |-> {}, precommitTotal |-> 0,
     csps |-> {}, csas |-> None, counter |-> 0, cscs |-> None,
     partSets |-> None, blocks |-> None, buffer |-> {}])

Over23(c, total) == OverTwoThirds(Votes[c], total)

FinishProposal(n, s) == s.proposal # None /\ s.blocks[ChainOf(n)] # None
FinishPrevote(n, s) == FinishProposal(n, s) /\ Over23(ChainOf(n), s.prevoteTotal)

\* Faulty variant: the prevotes are counted for the precommits.
FinishPrecommitByPrevotes(n, s) == FinishPrevote(n, s) /\ Over23(ChainOf(n), s.prevoteTotal)

FinishPrecommit(n, s) == FinishPrevote(n, s) /\ Over23(ChainOf(n), s.precommitTotal)

\* An I-shard node has the cross-shard proposals and blocks of its C-shards.
FinishCrossShardAccept(n, s) ==
  /\ FinishPrecommit(n, s)
  /\ \A d \in Related[ChainOf(n)] \cup {ChainOf(n)} : d \in s.csps /\ s.blocks[d] # None

\* A C-shard node has a majority of each of its I-shards.
FinishCrossShardProposal(n, s) ==
  FinishPrecommit(n, s) /\ s.counter >= Cardinality(Related[ChainOf(n)])

FinishCrossShardCommit_I(n, s) ==
  FinishCrossShardAccept(n, s) /\ \A d \in Related[ChainOf(n)] : s.cscs[d] # None

FinishCrossShardCommit_B(n, s) ==
  LET c == ChainOf(n) IN
  /\ FinishCrossShardProposal(n, s)
  /\ \A d \in Related2Level(c) \cup {c} : s.cscs[d] # None
  /\ \A d \in Related[c] \cup Related2Level(c) \cup {c} : d \in s.csps /\ s.blocks[d] # None

\* A part set for a header, with the parts that arrived before the header;
\* the block is there once the set is complete.
OpenPartSet(s, b, kind) ==
  LET got == {p.index : p \in {q \in s.buffer : q.block = b /\ q.kind = kind}} IN
  [s EXCEPT
    !.partSets[b.chain] = [block |-> b, kind |-> kind, got |-> got],
    !.blocks[b.chain] = IF got = 1..PartTotal(b, kind) THEN b ELSE @]

\* The validators whose stored vote is for block b.
VotersFor(votes, b) == {v \in DOMAIN votes : votes[v] = b}

\* AddProposal opens the part set and counts the votes that came first
\* (reCalculatePrevotes, reCalculatePrecommits).
CanAddProposal(n, s, m) ==
  /\ s.proposal = None
  /\ m.height = s.height
  /\ m.from = Proposer(ChainOf(n), s.height)
  /\ m.block.chain = ChainOf(n)

AddProposal(n, s, m) ==
  LET c  == ChainOf(n)
      pv == VotersFor(s.prevotes, m.block)
      pc == VotersFor(s.precommits, m.block)
  IN  [OpenPartSet(s, m.block, "full") EXCEPT
        !.proposal = m.block,
        !.prevoteBits = @ \cup pv,
        !.prevoteTotal = @ + Power(Votes[c], pv),
        !.precommitBits = @ \cup pc,
        !.precommitTotal = @ + Power(Votes[c], pc)]

\* addInnerPart: a part without a part set waits in randomHeaderBuffer and
\* triggers no state transition.
CanBufferPart(s, m) == m.height = s.height /\ s.partSets[m.block.chain] = None

CanAddPart(s, m) ==
  LET ps == s.partSets[m.block.chain] IN
  /\ m.height = s.height
  /\ ps # None
  /\ InPartSet(m, ps)
  /\ m.index \notin ps.got

AddPart(s, m) ==
  LET d   == m.block.chain
      got == s.partSets[d].got \cup {m.index}
  IN  [s EXCEPT !.partSets[d].got = got,
                !.blocks[d] = IF got = 1..PartTotal(m.block, m.kind) THEN m.block ELSE @]

\* Faulty variant: a counted vote may be counted again.
CanAddPrevoteAgain(s, m) == m.height = s.height

\* A vote is stored, and counted when the proposal is known and the vote is
\* for it; a counted vote is never stored again.
CanAddPrevote(s, m) == m.from \notin s.prevoteBits /\ m.height = s.height

AddPrevote(n, s, m) ==
  LET counted == s.proposal # None /\ s.proposal = m.block IN
  [s EXCEPT
    !.prevotes[m.from] = m.block,
    !.prevoteBits = IF counted THEN @ \cup {m.from} ELSE @,
    !.prevoteTotal = IF counted THEN @ + Votes[ChainOf(n)][m.from] ELSE @]

CanAddPrecommit(s, m) == m.from \notin s.precommitBits /\ m.height = s.height

AddPrecommit(n, s, m) ==
  LET counted == s.proposal # None /\ s.proposal = m.block IN
  [s EXCEPT
    !.precommits[m.from] = m.block,
    !.precommitBits = IF counted THEN @ \cup {m.from} ELSE @,
    !.precommitTotal = IF counted THEN @ + Votes[ChainOf(n)][m.from] ELSE @]

\* AddCrossShardProposal checks the aggregated precommits of the sender.
CanAddCSP(s, m) ==
  LET d == m.block.chain IN
  /\ m.height = s.height
  /\ d \notin s.csps
  /\ m.signers \subseteq DOMAIN Votes[d]
  /\ \A v \in m.signers : PrecommitMsg(<<d, v>>, m.block) \in msgs
  /\ Over23(d, Power(Votes[d], m.signers))

AddCrossShardProposal(s, m) ==
  [OpenPartSet(s, m.block, m.kind) EXCEPT !.csps = @ \cup {m.block.chain}]

\* AddCrossShardAccept; a repeated vote changes nothing but is no error.
CanAddCSA(n, s, m) == m.height = s.height /\ m.accept \in Related[ChainOf(n)]

CSAReturnsNil(s, m) == AddCSAReturnsNil(Votes[m.accept], s.csas[m.accept], m)

AddCrossShardAccept(s, m) ==
  LET old == s.csas[m.accept]
      new == AddCSA(Votes[m.accept], old, m)
  IN  [s EXCEPT
        !.csas[m.accept] = new,
        !.counter = IF ~HasMaj23(old) /\ HasMaj23(new) /\ CSAReturnsNil(s, m)
                    THEN @ + 1 ELSE @]

\* AddCrossShardCommit: ValidateVote for every I-shard of the sender.
ValidateVote(csc, h, i) ==
  /\ csc.commits[i].signers \subseteq DOMAIN Votes[i]
  /\ Over23(i, Power(Votes[i], csc.commits[i].signers))
  /\ \A v \in csc.commits[i].signers :
       CSAMsg(<<i, v>>, csc.upper, h, csc.block, csc.commits[i].status) \in msgs

CanAddCSC(n, s, m) ==
  LET d == m.csc.upper IN
  /\ m.height = s.height
  /\ s.cscs[d] = None
  /\ d \in Related[ChainOf(n)] \cup Related2Level(ChainOf(n))
  /\ DOMAIN m.csc.commits = Related[d]
  /\ \A i \in Related[d] : ValidateVote(m.csc, m.height, i)

\* An I-shard node passes the certificate on to its other C-shards.
AddCrossShardCommit(n, s, m) ==
  [s EXCEPT
    !.cscs[m.csc.upper] = m.csc,
    !.out = IF ChainOf(n) \in IShards
            THEN @ \cup CSCMsgs(m.height, m.csc, Related[ChainOf(n)] \ {m.csc.upper})
            ELSE @]
-----------------------------------------------------------------------------
(* ConsensusState: the steps of a height.                                  *)

\* Next within a height; CrossShardAccept is also RoundStepCrossShardPropose.
NextStep ==
  [Propose |-> "Prevote", Prevote |-> "Precommit", Precommit |-> "CrossShardAccept",
   CrossShardAccept |-> "CrossShardCommit"]

\* doPropose: a node whose state differs from the one the block was built
\* on panics; otherwise it prevotes.
DoPropose(n, s) ==
  LET b == s.blocks[ChainOf(n)] IN
  IF b.root # s.root
  THEN [s EXCEPT !.up = FALSE]
  ELSE [AddPrevote(n, s, PrevoteMsg(n, b)) EXCEPT
         !.out = @ \cup {PrevoteMsg(n, b)},
         !.step = NextStep[@]]

DoPrevote(n, s) ==
  LET b == s.blocks[ChainOf(n)] IN
  [AddPrecommit(n, s, PrecommitMsg(n, b)) EXCEPT
    !.out = @ \cup {PrecommitMsg(n, b)},
    !.step = NextStep[@]]

\* doPrecommit: the proposer sends the block with the aggregated precommits
\* to the neighbours; a C-block goes without its inner transactions.
DoPrecommit(n, s) ==
  LET c     == ChainOf(n)
      b     == s.blocks[c]
      kind  == IF c \in IShards THEN "full" ELSE "cross"
      dests == IF c \in IShards THEN Related[c] ELSE Related[c] \cup Related2Level(c)
  IN  [s EXCEPT
        !.csps = @ \cup {c},
        !.out = IF IsProposer(n, s)
                THEN @ \cup CSPMsgs(b, kind, s.precommitBits, dests) \cup PartMsgs(b, kind, dests)
                ELSE @,
        !.step = NextStep[@]]

\* doCSA (I-shard): one vote for each C-shard.  PreExecutionI(i, root, bs)
\* is what the application of shard i in the state root answers for the
\* blocks bs of its C-shards: a commit status for each of them.
DoCSA(n, s) ==
  LET c      == ChainOf(n)
      blocks == [d \in Related[c] |-> s.blocks[d]]
      votes  == PreExecutionI(c, s.root, blocks)
  IN  [s EXCEPT
        !.out = @ \cup {CSAMsg(n, d, s.height, blocks[d], votes[d]) : d \in Related[c]},
        !.step = NextStep[@]]

\* doCSP (C-shard): GenerateCrossShardCommit, sent by the proposer.
GenerateCrossShardCommit(n, s) ==
  [upper |-> ChainOf(n), block |-> s.proposal,
   commits |-> [i \in Related[ChainOf(n)] |-> GetMaj23(s.csas[i])]]

DoCSP(n, s) ==
  LET csc == GenerateCrossShardCommit(n, s) IN
  [s EXCEPT
    !.cscs[ChainOf(n)] = csc,
    !.out = IF IsProposer(n, s) THEN @ \cup CSCMsgs(s.height, csc, Related[ChainOf(n)]) ELSE @,
    !.step = NextStep[@]]

\* Faulty variant: Or for And.
CommitStatusAny(csc) == {t \in Tx : \E i \in DOMAIN csc.commits : t \in csc.commits[i].status}

\* executionAllBlocks: the status of a C-block is the conjunction (And) of
\* the statuses of its I-shards.  The entry stands for the executed blocks;
\* receipts and state are a function of the sequence of entries.
CommitStatus(csc) == {t \in Tx : \A i \in DOMAIN csc.commits : t \in csc.commits[i].status}

ExecutionAllBlocks(n, s) ==
  LET c == ChainOf(n) IN
  [body   |-> [d \in CNeighbours(c) \cup INeighbours(c) |-> s.blocks[d].body],
   status |-> [d \in CNeighbours(c) |-> CommitStatus(s.cscs[d])]]

\* createBlockAndBroadcast: the block is built on the roots of the proposer.
CreateBlockAndBroadcast(n, s, body) ==
  LET c == ChainOf(n)
      b == [chain |-> c, height |-> s.height, body |-> body, root |-> s.root]
  IN  [s EXCEPT
        !.proposal = b,
        !.blocks[c] = b,
        !.partSets[c] = [block |-> b, kind |-> "full", got |-> 1..PartTotal(b, "full")],
        !.out = @ \cup {ProposalMsg(c, IndexOf(n), b)} \cup PartMsgs(b, "full", {c})]

\* Next from the last step, enterNewHeight and enterNewRound: messages kept
\* for the finished height are dropped, the height's data is cleared, and
\* the proposer makes its block.
EnterNewHeight(n, s, body) ==
  LET new == [ClearAll(n, s) EXCEPT
               !.height = s.height + 1,
               !.step = "Propose",
               !.relay = {m \in @ : m.height > s.height}]
  IN  IF IsProposer(n, new) THEN CreateBlockAndBroadcast(n, new, body) ELSE new

\* Faulty variant: the node does not go on after entering the height.
DoCSCStops(n, s, body) ==
  EnterNewHeight(n, [s EXCEPT !.root = Append(@, ExecutionAllBlocks(n, s))], body)

\* doCSC_C and doCSC_I: execute, record and enter the next height.
DoCSC(n, s, body) ==
  EnterNewHeight(n, [s EXCEPT !.root = Append(@, ExecutionAllBlocks(n, s)),
                              !.resume = TRUE], body)

AtStep(s, step) == s.up /\ s.step = step

ProposeStep(n, s) ==
  IF AtStep(s, "Propose") /\ FinishProposal(n, s) THEN DoPropose(n, s) ELSE s
PrevoteStep(n, s) ==
  IF AtStep(s, "Prevote") /\ FinishPrevote(n, s) THEN DoPrevote(n, s) ELSE s
PrecommitStep(n, s) ==
  IF AtStep(s, "Precommit") /\ FinishPrecommit(n, s) THEN DoPrecommit(n, s) ELSE s
CrossShardStep(n, s) ==
  IF AtStep(s, "CrossShardAccept") /\ ChainOf(n) \in IShards /\ FinishCrossShardAccept(n, s)
  THEN DoCSA(n, s)
  ELSE IF AtStep(s, "CrossShardAccept") /\ ChainOf(n) \in CShards /\ FinishCrossShardProposal(n, s)
  THEN DoCSP(n, s)
  ELSE s
CommitStep(n, s, body) ==
  IF /\ AtStep(s, "CrossShardCommit")
     /\ \/ ChainOf(n) \in IShards /\ FinishCrossShardCommit_I(n, s)
        \/ ChainOf(n) \in CShards /\ FinishCrossShardCommit_B(n, s)
  THEN DoCSC(n, s, body)
  ELSE s

\* handleStateTransition takes every step that is finished.  After a commit
\* it goes on in the new height, once the kept messages have been handled:
\* that is the field resume, see Resume.
HandleStateTransition(n, s, body) ==
  CommitStep(n, CrossShardStep(n, PrecommitStep(n, PrevoteStep(n, ProposeStep(n, s)))), body)

\* addRelayMessageIfOverTime keeps a message of a later height.  For the
\* first one of a height it returns false, and the AddX that is then called
\* finds another height and does nothing.
OverTime(s, m) == m.height > s.height

\* Faulty variant: a message of a later height is dropped.
AddRelayMessageNot(s, m) == s

AddRelayMessage(s, m) == [s EXCEPT !.relay = @ \cup {m}]

\* AddX returns an error, or the node looks for a state transition.
Error(s) == [state |-> s, look |-> FALSE]
Nil(s) == [state |-> s, look |-> TRUE]

AddMessage(n, s, m) ==
  CASE OverTime(s, m) -> Error(AddRelayMessage(s, m))
    [] m.type = "Proposal" /\ CanAddProposal(n, s, m) -> Nil(AddProposal(n, s, m))
    [] m.type = "Part" /\ CanBufferPart(s, m) -> Error([s EXCEPT !.buffer = @ \cup {m}])
    [] m.type = "Part" /\ CanAddPart(s, m) -> Nil(AddPart(s, m))
    [] m.type = "Prevote" /\ CanAddPrevote(s, m) -> Nil(AddPrevote(n, s, m))
    [] m.type = "Precommit" /\ CanAddPrecommit(s, m) -> Nil(AddPrecommit(n, s, m))
    [] m.type = "CSP" /\ CanAddCSP(s, m) -> Nil(AddCrossShardProposal(s, m))
    [] m.type = "CSA" /\ CanAddCSA(n, s, m) ->
         [state |-> AddCrossShardAccept(s, m), look |-> CSAReturnsNil(s, m)]
    [] m.type = "CSC" /\ CanAddCSC(n, s, m) -> Nil(AddCrossShardCommit(n, s, m))
    [] OTHER -> Error(s)

\* doMessage: a message that AddX takes without an error leads to
\* handleStateTransition.
Handled(n, added, body) ==
  IF added.look THEN HandleStateTransition(n, added.state, body) ELSE added.state

DoMessage(n, s, m, body) == Handled(n, AddMessage(n, s, m), body)
-----------------------------------------------------------------------------
(* The actions.  Replay and Resume are the rest of the handler that took   *)
(* the node to its new height: until they are done the node holds stateMtx *)
(* and receives nothing.                                                   *)

Pending(s) == {m \in s.relay : m.height = s.height}

\* stateMtx is free.
Unlocked(n) == st[n].up /\ ~st[n].resume /\ Pending(st[n]) = {}

\* The handler ends with the node in state s and its messages sent.
Become(n, s) ==
  /\ st' = [st EXCEPT ![n] = [s EXCEPT !.out = {}]]
  /\ msgs' = msgs \cup s.out

Start(n, body) ==
  /\ st[n].height = 0
  /\ Unlocked(n)
  /\ Become(n, EnterNewHeight(n, st[n], body))

\* A message the node drops is not a step.
Receive(n, m, body) ==
  /\ Unlocked(n)
  /\ m.to = ChainOf(n)
  /\ m.height <= MaxHeight
  /\ \E s \in {DoMessage(n, st[n], m, body)} : s # st[n] /\ Become(n, s)

Replay(n, m, body) ==
  /\ st[n].up
  /\ m \in Pending(st[n])
  /\ Become(n, DoMessage(n, [st[n] EXCEPT !.relay = @ \ {m}], m, body))

Resume(n, body) ==
  /\ st[n].up
  /\ st[n].resume
  /\ Pending(st[n]) = {}
  /\ st[n].height <= MaxHeight
  /\ Become(n, HandleStateTransition(n, [st[n] EXCEPT !.resume = FALSE], body))

Init ==
  /\ st = [n \in Correct |-> NewState(n)]
  /\ msgs = FaultyMsg

\* Every node has been started and no message has arrived: a reachable state
\* of Spec, from which larger topologies are explored.
StartedInit ==
  \E bodies \in [Correct -> Body] :
    LET started(n) == EnterNewHeight(n, NewState(n), bodies[n]) IN
    /\ st = [n \in Correct |-> [started(n) EXCEPT !.out = {}]]
    /\ msgs = FaultyMsg \cup UNION {started(n).out : n \in Correct}

\* A message may arrive any number of times.
Handle(n, body) ==
  \/ \E m \in msgs : Receive(n, m, body)
  \/ \E m \in st[n].relay : Replay(n, m, body)
  \/ Resume(n, body)

Step(n) == \E body \in Body : Start(n, body) \/ Handle(n, body)

\* Every correct node has finished the last height of the model.
Finished == \A n \in Correct : st[n].height > MaxHeight
Terminated == Finished /\ UNCHANGED vars

Next == (\E n \in Correct : Step(n)) \/ Terminated

Spec == Init /\ [][Next]_vars
-----------------------------------------------------------------------------
(* Properties.                                                             *)

Message ==
  [type : {"Proposal", "Prevote", "Precommit"}, to : Shard, height : Nat, from : Nat, block : Block]
  \cup [type : {"Part"}, to : Shard, height : Nat, block : Block, kind : {"full", "cross"}, index : Nat]
  \cup [type : {"CSP"}, to : Shard, height : Nat, block : Block, kind : {"full", "cross"},
        signers : SUBSET Nat]
  \cup [type : {"CSA"}, to : Shard, accept : Shard, height : Nat, index : Nat, block : Block,
        status : Status]

IsCSCMessage(m) ==
  /\ DOMAIN m = {"type", "to", "height", "csc"} /\ m.type = "CSC" /\ m.to \in Shard /\ m.height \in Nat
  /\ DOMAIN m.csc = {"upper", "block", "commits"} /\ m.csc.upper \in Shard /\ m.csc.block \in Block
  /\ DOMAIN m.csc.commits \subseteq Shard
  /\ \A d \in DOMAIN m.csc.commits : m.csc.commits[d] \in [status : Status, signers : SUBSET Nat]

AreMessages(S) == \A m \in S : IF m.type = "CSC" THEN IsCSCMessage(m) ELSE m \in Message

TypeOK ==
  /\ \A n \in Correct :
       LET s == st[n]  votes == DOMAIN Votes[ChainOf(n)]  maybe == Block \cup {None} IN
       /\ s.up \in BOOLEAN /\ s.resume \in BOOLEAN
       /\ s.height \in Nat
       /\ s.step \in {"NewHeight", "Propose", "Prevote", "Precommit", "CrossShardAccept", "CrossShardCommit"}
       /\ s.root \in Seq(Entry)
       /\ AreMessages(s.relay) /\ AreMessages(s.buffer) /\ s.out = {}
       /\ s.proposal \in maybe
       /\ s.prevotes \in [votes -> maybe] /\ s.prevoteBits \subseteq votes /\ s.prevoteTotal \in Nat
       /\ s.precommits \in [votes -> maybe] /\ s.precommitBits \subseteq votes /\ s.precommitTotal \in Nat
       /\ s.csps \subseteq Shard
       /\ s.counter \in Nat
       /\ s.blocks \in [Shard -> maybe]
  /\ AreMessages(msgs)

\* Each vote is counted once, whatever order proposal and votes arrive in
\* (AddPrevote, AddPrecommit, reCalculatePrevotes, reCalculatePrecommits):
\* the total is the power of the counted validators, which are the ones
\* whose stored vote is for the proposal.
VotesCountedOnce ==
  \A n \in Correct :
    LET s == st[n]
        Counted(b, votes) == IF b = None THEN {} ELSE VotersFor(votes, b)
    IN  /\ s.prevoteBits = Counted(s.proposal, s.prevotes)
        /\ s.prevoteTotal = Power(Votes[ChainOf(n)], s.prevoteBits)
        /\ s.precommitBits = Counted(s.proposal, s.precommits)
        /\ s.precommitTotal = Power(Votes[ChainOf(n)], s.precommitBits)

\* No finished step is left waiting: when the mutex is free no step of the
\* node can be taken.  The one exception is the first proposer of a shard:
\* Start does not look for a state transition after creating the block, so
\* that node waits in Propose until a message makes it look.
NoMissedTransition ==
  \A n \in Correct :
    \/ ~Unlocked(n)
    \/ st[n].height > MaxHeight
    \/ st[n].height = 1 /\ st[n].step = "Propose" /\ IsProposer(n, st[n])
    \/ \A body \in Body : HandleStateTransition(n, st[n], body) = st[n]

\* Validators of chain d that have sent a precommit for block b.
Precommitted(d, b) ==
  {v \in DOMAIN Votes[d] : PrecommitMsg(<<d, v>>, b) \in msgs}

\* A block that a correct node has collected for a chain whose (aggregated
\* or own) precommits it has checked is backed by a quorum of precommits of
\* that chain: no node votes on, or executes, a block that was not agreed.
BlocksAreAgreed ==
  \A n \in Correct : \A d \in st[n].csps :
    st[n].blocks[d] # None =>
      Over23(d, Power(Votes[d], Precommitted(d, st[n].blocks[d])))

\* A node works with agreed blocks only: a block of another shard that it has
\* collected (AddCrossShardProposal, AddPart), and the block of its own shard
\* from FinishPrecommit on, when it sends it to the neighbours, votes on the
\* C-blocks with it and executes it, has a quorum of precommits.
UsedBlocksAreAgreed ==
  \A n \in Correct : \A d \in Shard :
    /\ st[n].blocks[d] # None
    /\ d # ChainOf(n) \/ FinishPrecommit(n, st[n])
    => Over23(d, Power(Votes[d], Precommitted(d, st[n].blocks[d])))

\* The atomic commitment across shards: whatever two correct nodes, of the
\* same or of different shards, have both executed at a height is the same
\* block with the same commit status.
LedgerAgreement ==
  \A m, n \in Correct : \A h \in DOMAIN st[m].root \cap DOMAIN st[n].root :
    LET e == st[m].root[h]  f == st[n].root[h] IN
    /\ \A d \in DOMAIN e.body \cap DOMAIN f.body : e.body[d] = f.body[d]
    /\ \A d \in DOMAIN e.status \cap DOMAIN f.status : e.status[d] = f.status[d]

\* A transaction is committed only if every I-shard of its C-shard voted
\* for it: more than two thirds of the validators sent a CSA with it.
CommittedByEveryShard ==
  \A n \in Correct : \A h \in DOMAIN st[n].root :
    \A d \in DOMAIN st[n].root[h].status : \A t \in st[n].root[h].status[d] :
      \A i \in Related[d] :
        Over23(i, Power(Votes[i],
          {v \in DOMAIN Votes[i] :
             \E m \in msgs : /\ m.type = "CSA" /\ m.to = d /\ m.accept = i
                              /\ m.index = v /\ m.height = h /\ t \in m.status}))

\* With every validator correct, no node meets a block built on a state that
\* differs from its own ("Data state is inconsistent", "The receipt tree
\* does not match"): all nodes of a shard go through the same states.
NoPanic == \A n \in Correct : st[n].up

\* A correct node never leaves a height before a quorum of each shard of its
\* neighbourhood has precommitted in it, so shards advance together.
ShardsAdvanceTogether ==
  \A n \in Correct : \A h \in DOMAIN st[n].root :
    \A d \in DOMAIN st[n].root[h].body :
      Over23(d, Power(Votes[d],
        {v \in DOMAIN Votes[d] :
           \E m \in msgs : /\ m.type = "Precommit" /\ m.to = d /\ m.from = v
                            /\ m.height = h /\ m.block.body = st[n].root[h].body[d]}))

\* So a block that was not agreed is neither voted on, executed nor passed by.
OnlyAgreedBlocks == BlocksAreAgreed /\ UsedBlocksAreAgreed /\ ShardsAdvanceTogether

\* What holds with less than a third of each shard faulty (FaultsOK).
Safety ==
  /\ VotesCountedOnce
  /\ NoMissedTransition
  /\ OnlyAgreedBlocks
  /\ LedgerAgreement
  /\ CommittedByEveryShard
=============================================================================
