------------------------------ MODULE Pyramid ------------------------------
(***************************************************************************)
(* The consensus of the Pyramid baseline: I-shards that own accounts, and  *)
(* B-shards that keep a copy of the accounts of their I-shards and commit  *)
(* transactions between them in two phases.  A cross-shard block takes     *)
(* four blocks:                                                            *)
(*   - a B-shard agrees on a block of cross-shard transactions (Cross) and *)
(*     its proposer sends it to the I-shards (CSB);                        *)
(*   - each I-shard agrees on a block that accepts or refuses it (IAccept),*)
(*     locks the accounts and answers (Accept);                            *)
(*   - with the answers of all I-shards the B-shard agrees on a block that *)
(*     commits or aborts it (BCommit) and tells the I-shards (Commit);     *)
(*   - each I-shard agrees on a block that applies the decision (ICommit). *)
(* Blocks of inner transactions (Inner) fill the other heights.  A B-shard *)
(* ends a height when it has the blocks of its I-shards, which it executes *)
(* on its copy; an I-shard when all its B-shards have said so (OK).        *)
(*                                                                         *)
(* All validators run this code.  st[n] is the ConsensusState of node n    *)
(* with its HeightDataPackage and its application; a handler runs under    *)
(* stateMtx and is a function from the state of a node to its new state,   *)
(* with the messages it sends in the field out.  The network is the set of *)
(* messages ever sent: a message may arrive late, out of order, more than  *)
(* once or never.                                                          *)
(*                                                                         *)
(* A proposer makes one block a height, so that chain and height stand for *)
(* the hash of a block.  Round is always 0 and PassStep remembers a        *)
(* condition that stays true: both are left out.  maCount is -1 while      *)
(* nothing is pending and else the number of answers that are missing;     *)
(* bcount is the number of B-shards missing in bseen.                      *)
(***************************************************************************)
EXTENDS VoteSet, PyramidBank, FiniteSetsExt

CONSTANTS
  IShards, BShards,    \* chain ids
  Related,             \* Related[c]: RelatedShards of chain c
  Votes,               \* Votes[c][v]: Vote of validator v of chain c
  KeyRange,            \* KeyRange[c]: the accounts of KeyRangeMap[c]
  InnerTxs, CrossTxs,  \* InnerTxs[c], CrossTxs[c]: sequences, the mempools of
                       \* the nodes of chain c when consensus starts
  MaxBlockTxNum,
  PartTotal,           \* parts of a part set; 0 folds the parts into the proposal
  MaxHeight            \* bound: no node works on a higher height

Shard == IShards \cup BShards
Node == UNION {{c} \X DOMAIN Votes[c] : c \in Shard}
ChainOf(n) == n[1]
IndexOf(n) == n[2]

Hash(b) == <<b.chain, b.height>>

\* createKeyRangeTree: AllShardRangeTree of a B-shard.
AllShardRange(c) == UNION {KeyRange[d] : d \in Related[c] \cup {c}}

\* calculateProposer
Proposer(c, h) == h % Cardinality(DOMAIN Votes[c])
IsProposer(n, s) == Proposer(ChainOf(n), s.height) = IndexOf(n)

TopologyOK ==
  /\ IsFiniteSet(Shard) /\ IShards \cap BShards = {}
  /\ \A c \in IShards : Related[c] \subseteq BShards
  /\ \A c \in BShards : Related[c] \subseteq IShards /\ Related[c] # {}
  /\ \A c, d \in Shard : c \in Related[d] <=> d \in Related[c]
  /\ \A c \in Shard : KeyRange[c] \subseteq Key
  /\ \A c, d \in Shard : c # d => KeyRange[c] \cap KeyRange[d] = {}
  /\ \A c \in Shard : /\ IsFiniteSet(DOMAIN Votes[c]) /\ DOMAIN Votes[c] # {}
                      /\ DOMAIN Votes[c] = 0..(Cardinality(DOMAIN Votes[c]) - 1)
                      /\ Votes[c] \in [DOMAIN Votes[c] -> Nat]

\* ValidateTx: the transactions that AddTx lets into the mempools of chain c.
ValidateTx(c, tx, isCrossShard) ==
  IF isCrossShard THEN c \in BShards /\ KeysOf(tx) \subseteq AllShardRange(c)
                  ELSE KeysOf(tx) \subseteq KeyRange[c]

MempoolsOK ==
  \A c \in Shard : /\ \A tx \in ToSet(InnerTxs[c]) : ValidateTx(c, tx, FALSE)
                   /\ \A tx \in ToSet(CrossTxs[c]) : ValidateTx(c, tx, TRUE)

BoundsOK == PartTotal \in Nat /\ MaxHeight \in Nat /\ MaxBlockTxNum \in Nat \ {0}

ASSUME PyramidAssumption == TopologyOK /\ MempoolsOK /\ BoundsOK

VARIABLES st,    \* st[n]: state of node n
          msgs   \* every message sent so far

vars == <<st, msgs>>
-----------------------------------------------------------------------------
(* Messages.  The field to is the chain whose peers receive the message,   *)
(* height the height of the chain that sends it.                           *)

ProposalMsg(n, b) ==
  [type |-> "Proposal", to |-> b.chain, height |-> b.height, from |-> IndexOf(n), block |-> b]

PartMsgs(b) ==
  {[type |-> "Part", to |-> b.chain, height |-> b.height, block |-> b, index |-> i] :
     i \in 1..PartTotal}

PrevoteMsg(c, v, hash, ok) ==
  [type |-> "Prevote", to |-> c, height |-> hash[2], from |-> v, hash |-> hash, ok |-> ok]

PrecommitMsg(c, v, hash, ok) ==
  [type |-> "Precommit", to |-> c, height |-> hash[2], from |-> v, hash |-> hash, ok |-> ok]

CrossShardBlockMsgs(b, sig, dests) ==
  {[type |-> "CSB", to |-> c, height |-> b.height, block |-> b, sig |-> sig] : c \in dests}

MessageAccepts(hash, sig, dests) ==
  {[type |-> "Accept", to |-> c, height |-> sig.height, hash |-> hash, sig |-> sig] : c \in dests}

MessageCommits(hash, sig, dests) ==
  {[type |-> "Commit", to |-> c, height |-> sig.height, hash |-> hash, sig |-> sig] : c \in dests}

MessageOKs(c, h, dests) ==
  {[type |-> "OK", to |-> d, height |-> h, src |-> c] : d \in dests}

PrecommitAggregated(c, h, ok, signers) ==
  [chain |-> c, height |-> h, ok |-> ok, signers |-> signers]

\* VerifySignatures of a PrecommitAggregated: every signer has precommitted
\* the block of the height with this code.  No power is checked.
VerifySignatures(sig) ==
  \A v \in sig.signers :
    PrecommitMsg(sig.chain, v, <<sig.chain, sig.height>>, sig.ok) \in msgs
-----------------------------------------------------------------------------
(* HeightDataPackage and ConsensusState.                                   *)

\* clearAll.  Parts of finished heights stay in randomHeaderBuffer, where
\* nothing uses them; here they are dropped.
ClearAll(n, s) ==
  [s EXCEPT !.proposal = None, !.block = None, !.got = {},
            !.buffer = {p \in @ : p.height > s.height},
            !.prevotes = NewVoteSet(Votes[ChainOf(n)]),
            !.precommits = NewVoteSet(Votes[ChainOf(n)])]

\* NewConsensusState: height 0 until Start.  The ledger lists the blocks the
\* node has executed with the code of their precommits.
NewState(n) ==
  ClearAll(n,
    [up |-> TRUE, height |-> 0, step |-> "NewHeight", resume |-> FALSE, create |-> FALSE,
     out |-> {}, relay |-> {}, buffer |-> {}, proposal |-> None, block |-> None, got |-> {},
     prevotes |-> None, precommits |-> None,
     bseen |-> {}, csbPool |-> {}, commitPool |-> {}, committed |-> {},
     pending |-> None, maPool |-> {}, shardHeight |-> [d \in Related[ChainOf(n)] |-> 0],
     store |-> {}, ledger |-> <<>>, app |-> NewApplication,
     mempool |-> InnerTxs[ChainOf(n)], crossMempool |-> CrossTxs[ChainOf(n)]])

FinishProposal(s) == s.proposal # None /\ s.block # None
FinishPrevote(s) == FinishProposal(s) /\ HasMaj23(s.prevotes)
FinishPrecommit(s) == FinishPrevote(s) /\ HasMaj23(s.precommits)

\* AddProposal takes the parts that came before it from the buffer.
CanAddProposal(n, s, m) ==
  /\ s.proposal = None
  /\ m.height = s.height
  /\ m.from = Proposer(ChainOf(n), s.height)

WithParts(s, got) ==
  [s EXCEPT !.got = got, !.block = IF got = 1..PartTotal THEN s.proposal ELSE @]

AddProposal(s, m) ==
  WithParts([s EXCEPT !.proposal = m.block],
            {p.index : p \in {q \in s.buffer : q.block = m.block}})

\* AddPart: without a part set the part waits, and triggers nothing.
CanBufferPart(s, m) == m.height = s.height /\ s.proposal = None
CanAddPart(s, m) ==
  m.height = s.height /\ s.proposal = m.block /\ m.index \notin s.got
AddPart(s, m) == WithParts(s, s.got \cup {m.index})

\* Blocks of the store by height and by hash.
StoredAt(s, c, h) == {b \in s.store : b.chain = c /\ b.height = h}
StoredBlock(store, hash) == CHOOSE b \in store : Hash(b) = hash

\* GenerateAggregatePrecommitSignature
AggregatedSig(n, s) ==
  PrecommitAggregated(ChainOf(n), s.height, s.precommits.maj[2], Maj23Signers(s.precommits))

IfProposer(n, s, ms) == IF IsProposer(n, s) THEN ms ELSE {}

\* ReapTx: the first transactions of a mempool without a locked account.
ReapTx(s, pool) ==
  LET free == SelectSeq(pool, LAMBDA tx : CheckLock(DOMAIN s.app.locks, tx)) IN
  SubSeq(free, 1, Min({MaxBlockTxNum, Len(free)}))

\* Mempool.Update
Without(pool, txs) == SelectSeq(pool, LAMBDA tx : tx \notin ToSet(txs))
-----------------------------------------------------------------------------
(* doPropose.                                                              *)

\* The code accepts the block; otherwise it panics ("Byzantine error").
ValidBlock(n, s, b) ==
  LET related == Related[ChainOf(n)] IN
  CASE b.type = "Inner" -> TRUE
    [] b.type = "Cross" -> ChainOf(n) \in BShards
    [] b.type = "BCommit" ->
         /\ ChainOf(n) \in BShards
         /\ b.hash = s.pending
         /\ Cardinality(b.accepts) = Cardinality(related)
         /\ \A sig \in b.accepts : sig.chain \in related /\ VerifySignatures(sig)
    [] b.type = "IAccept" ->
         /\ ChainOf(n) \in IShards
         /\ b.csb.sig.chain \in related /\ VerifySignatures(b.csb.sig)
    [] b.type = "ICommit" ->
         /\ ChainOf(n) \in IShards
         /\ \A mc \in ToSet(b.commits) : mc.sig.chain \in related /\ VerifySignatures(mc.sig)

\* Faulty variant: one accept is enough.
PrevoteOKAny(s, b) ==
  CASE b.type = "BCommit" -> \E sig \in b.accepts : sig.ok
    [] b.type = "IAccept" -> PreExecutionI(s.app, b.csb.block)
    [] OTHER -> TRUE

\* The code of the prevote.
PrevoteOK(s, b) ==
  CASE b.type = "BCommit" -> \A sig \in b.accepts : sig.ok
    [] b.type = "IAccept" -> PreExecutionI(s.app, b.csb.block)
    [] OTHER -> TRUE

DoPropose(n, s) ==
  LET c    == ChainOf(n)
      vote == PrevoteMsg(c, IndexOf(n), Hash(s.block), PrevoteOK(s, s.block))
  IN  IF ~ValidBlock(n, s, s.block)
      THEN [s EXCEPT !.up = FALSE]
      ELSE [s EXCEPT !.prevotes = AddVote(Votes[c], @, vote),
                     !.out = @ \cup {vote},
                     !.step = "Prevote"]

\* doPrevote precommits the majority of the prevotes.
DoPrevote(n, s) ==
  LET c    == ChainOf(n)
      vote == PrecommitMsg(c, IndexOf(n), s.prevotes.maj[1], s.prevotes.maj[2])
  IN  [s EXCEPT !.precommits = AddVote(Votes[c], @, vote),
                !.out = @ \cup {vote},
                !.step = "Precommit"]
-----------------------------------------------------------------------------
(* doPrecommit.                                                            *)

\* AcceptCommitShard: the decisions in the order of the block.
AcceptCommitShard(app, store, b) ==
  LET after[j \in 0..Len(b.commits)] ==
        IF j = 0 THEN app
        ELSE AcceptCommit(after[j - 1], StoredBlock(store, b.commits[j].hash), b.commits[j].hash,
                          KeyRange[b.chain], b.commits[j].sig.ok)
  IN  after[Len(b.commits)]

\* The application's part of processIBlock: what a node of the I-shard, or
\* of a B-shard with a copy of its accounts, does with a block.
ExecuteIBlock(app, store, b, isok) ==
  CASE b.type = "Inner" -> ExecutionInnerShard(app, b.txs, KeyRange[b.chain])
    [] b.type = "IAccept" ->
         AcceptCrossShard(app, b.csb.block, Hash(b.csb.block), KeyRange[b.chain], isok)
    [] b.type = "ICommit" -> AcceptCommitShard(app, store, b)

\* AcceptCrossShard stores the cross-shard block that an I-block carries.
CarriedBlocks(blocks) == {b.csb.block : b \in {x \in blocks : x.type = "IAccept"}}

\* updateIState: what the block has dealt with leaves the pools.
UpdateIState(s, b) ==
  CASE b.type = "Inner" ->
         [s EXCEPT !.mempool = Without(@, b.txs)]
    [] b.type = "IAccept" ->
         [s EXCEPT !.csbPool = {csb \in @ : Hash(csb.block) # Hash(b.csb.block)}]
    [] b.type = "ICommit" ->
         LET hashes == {mc.hash : mc \in ToSet(b.commits)} IN
         [s EXCEPT !.commitPool = {mc \in @ : mc.hash \notin hashes},
                   !.committed = @ \cup hashes]

\* processIBlock in a consensus round: the proposer sends the block to the
\* B-shards, and the answer to a cross-shard block to the shard that made it.
ProcessIBlock(n, s, sig) ==
  LET b == s.block
      answers == IF b.type = "IAccept"
                 THEN MessageAccepts(Hash(b.csb.block), sig, {b.csb.block.chain}) ELSE {}
  IN  [UpdateIState(s, b) EXCEPT
        !.app = ExecuteIBlock(@, s.store, b, sig.ok),
        !.store = @ \cup CarriedBlocks({b}),
        !.out = @ \cup IfProposer(n, s, answers \cup CrossShardBlockMsgs(b, sig, Related[ChainOf(n)]))]

\* Faulty variant: only the proposer forgets what it has decided.
UpdateBStateProposer(n, s, b) ==
  CASE b.type = "Inner" -> [s EXCEPT !.mempool = Without(@, b.txs)]
    [] b.type = "Cross" -> [s EXCEPT !.pending = Hash(b), !.maPool = {}]
    [] b.type = "BCommit" /\ IsProposer(n, s) ->
         [s EXCEPT !.pending = None, !.maPool = {},
                   !.crossMempool = Without(@, StoredBlock(s.store, s.pending).txs)]
    [] b.type = "BCommit" /\ ~IsProposer(n, s) -> s

\* updateBState.  The transactions of a cross-shard block leave the mempool
\* with the decision, whatever it is.
UpdateBState(n, s, b) ==
  CASE b.type = "Inner" -> [s EXCEPT !.mempool = Without(@, b.txs)]
    [] b.type = "Cross" -> [s EXCEPT !.pending = Hash(b), !.maPool = {}]
    [] b.type = "BCommit" ->
         [s EXCEPT !.pending = None, !.maPool = {},
                   !.crossMempool = Without(@, StoredBlock(s.store, s.pending).txs)]

ProcessBBlock(n, s, sig) ==
  LET b == s.block
      related == Related[ChainOf(n)]
      sent == CASE b.type = "Inner" -> {}
                [] b.type = "Cross" -> CrossShardBlockMsgs(b, sig, related)
                [] b.type = "BCommit" -> MessageCommits(s.pending, sig, related)
  IN  [UpdateBState(n, s, b) EXCEPT
        !.app = IF b.type = "Inner" THEN ExecutionInnerShard(@, b.txs, KeyRange[b.chain]) ELSE @,
        !.out = @ \cup IfProposer(n, s, sent)]

ProcessBlock(n, s, sig) ==
  IF ChainOf(n) \in IShards THEN ProcessIBlock(n, s, sig) ELSE ProcessBBlock(n, s, sig)

DoPrecommit(n, s) ==
  LET sig == AggregatedSig(n, s) IN
  [ProcessBlock(n, s, sig) EXCEPT
    !.store = @ \cup {s.block},
    !.ledger = Append(@, [block |-> s.block, ok |-> sig.ok]),
    !.step = "Commit"]
-----------------------------------------------------------------------------
(* doCommit and the next height.                                           *)

\* Next, enterNewHeight and enterNewRound up to the block of the proposer;
\* the rest follows in Become, Replay and Resume.
\* (Faulty variant first: the block and the votes of the old height stay.)
EnterNewHeightKeeps(n, s) ==
  LET t == [s EXCEPT !.height = @ + 1, !.step = "Propose", !.bseen = {},
                     !.relay = {m \in @ : m.height > s.height}]
  IN  [t EXCEPT !.create = IsProposer(n, t)]

EnterNewHeight(n, s) ==
  LET t == ClearAll(n, [s EXCEPT !.height = @ + 1, !.step = "Propose", !.bseen = {},
                                 !.relay = {m \in @ : m.height > s.height}])
  IN  [t EXCEPT !.create = IsProposer(n, t)]

DoCommit(n, s) ==
  EnterNewHeight(n, [s EXCEPT
    !.resume = TRUE,
    !.out = IF ChainOf(n) \in BShards
            THEN @ \cup IfProposer(n, s, MessageOKs(ChainOf(n), s.height, Related[ChainOf(n)]))
            ELSE @])

\* Faulty variant: one I-shard, or one B-shard, is enough.
CanCommitAny(n, s) ==
  \/ Related[ChainOf(n)] = {}
  \/ ChainOf(n) \in IShards /\ s.bseen # {}
  \/ ChainOf(n) \in BShards /\ \E d \in Related[ChainOf(n)] : s.shardHeight[d] >= s.height

\* An I-shard needs the OK of all its B-shards (bcount = 0), a B-shard the
\* blocks of all its I-shards.
CanCommit(n, s) ==
  IF ChainOf(n) \in IShards THEN s.bseen = Related[ChainOf(n)]
  ELSE \A d \in Related[ChainOf(n)] : s.shardHeight[d] >= s.height

AtStep(s, step) == s.up /\ s.step = step

ProposeStep(n, s) == IF AtStep(s, "Propose") /\ FinishProposal(s) THEN DoPropose(n, s) ELSE s
PrevoteStep(n, s) == IF AtStep(s, "Prevote") /\ FinishPrevote(s) THEN DoPrevote(n, s) ELSE s
PrecommitStep(n, s) == IF AtStep(s, "Precommit") /\ FinishPrecommit(s) THEN DoPrecommit(n, s) ELSE s
CommitStep(n, s) == IF AtStep(s, "Commit") /\ CanCommit(n, s) THEN DoCommit(n, s) ELSE s

\* handleStateTransition takes every step that is finished; after doCommit it
\* goes on in the new height, see Resume.
HandleStateTransition(n, s) == CommitStep(n, PrecommitStep(n, PrevoteStep(n, ProposeStep(n, s))))
-----------------------------------------------------------------------------
(* Blocks.                                                                 *)

\* A block of a node in its height; the body of a cross-shard block is its
\* transactions with what they have read.
InnerBlock(n, s) ==
  [chain |-> ChainOf(n), height |-> s.height, type |-> "Inner", txs |-> ReapTx(s, s.mempool)]
IAcceptBlock(n, s, csb) ==
  [chain |-> ChainOf(n), height |-> s.height, type |-> "IAccept", csb |-> csb]
ICommitBlock(n, s, commits) ==
  [chain |-> ChainOf(n), height |-> s.height, type |-> "ICommit", commits |-> commits]
CrossShardBlock(n, s, txs) ==
  [chain |-> ChainOf(n), height |-> s.height, type |-> "Cross", txs |-> txs,
   datas |-> FillData(s.app, txs, AllShardRange(ChainOf(n)))]
\* The decision of a B-shard is on the answers it has collected.
BCommitBlock(n, s) ==
  [chain |-> ChainOf(n), height |-> s.height, type |-> "BCommit",
   hash |-> s.pending, accepts |-> s.maPool]

\* createIBlockTxs: a cross-shard block first, then the decisions, in the
\* order in which Go walks the map.
IBlocks(n, s) ==
  IF s.csbPool # {} THEN {IAcceptBlock(n, s, csb) : csb \in s.csbPool}
  ELSE IF s.commitPool # {} THEN {ICommitBlock(n, s, order) : order \in SetToSeqs(s.commitPool)}
  ELSE {InnerBlock(n, s)}

\* createBBlockTxs
BBlock(n, s) ==
  LET txs == ReapTx(s, s.crossMempool)
  IN  IF s.pending = None /\ txs # <<>> THEN CrossShardBlock(n, s, txs)
      ELSE IF s.pending # None /\ Cardinality(s.maPool) = Cardinality(Related[ChainOf(n)])
      THEN BCommitBlock(n, s)
      ELSE InnerBlock(n, s)

NewBlocks(n, s) == IF ChainOf(n) \in BShards THEN {BBlock(n, s)} ELSE IBlocks(n, s)

\* createBlockAndBroadcast
CreateBlockAndBroadcast(n, s, b) ==
  [s EXCEPT !.create = FALSE, !.proposal = b, !.block = b, !.got = 1..PartTotal,
            !.out = @ \cup {ProposalMsg(n, b)} \cup PartMsgs(b)]
-----------------------------------------------------------------------------
(* doMessage.                                                              *)

\* A handler returns, or it goes on to handleStateTransition.
Return(s) == [state |-> s, look |-> FALSE]
Look(s) == [state |-> s, look |-> TRUE]

\* addRelayMessageIfOverTime keeps a message of a later height, but for the
\* first one of a height it returns false and the handler goes on with it.
OverTime(s, m) == m.height > s.height

\* (Faulty variant first: the message is dropped.)
AddRelayMessageNot(s, m) == s
AddRelayMessage(s, m) == [s EXCEPT !.relay = @ \cup {m}]
FirstOfHeight(s, m) == \A k \in s.relay : k.height # m.height

DoVote(n, s, m) ==
  LET set(votes) == AddVote(Votes[ChainOf(n)], votes, m)
      nil(votes) == AddVoteReturnsNil(votes, m)
      t == IF m.type = "Prevote" THEN [s EXCEPT !.prevotes = set(@)]
                                 ELSE [s EXCEPT !.precommits = set(@)]
  IN  IF m.height = s.height /\ nil(IF m.type = "Prevote" THEN s.prevotes ELSE s.precommits)
      THEN Look(t)
      ELSE Return(s)

\* The height to which a node has all blocks of I-shard c from height first on.
LastStored(s, c, first, h) ==
  CHOOSE k \in (first - 1)..Max({first, h, MaxHeight + 1}) :
    /\ \A j \in first..k : StoredAt(s, c, j) # {}
    /\ StoredAt(s, c, k + 1) = {}

\* The blocks of I-shard c from height first to last, one after the other.
ExecuteFromTo(s, c, first, last, isok) ==
  LET blockAt(j) == CHOOSE b \in StoredAt(s, c, j) : TRUE
      after[j \in (first - 1)..last] ==
        IF j < first THEN s.app ELSE ExecuteIBlock(after[j - 1], s.store, blockAt(j), isok)
  IN  after[last]

SyncFromTo(s, c, first, last, isok) ==
  LET carried == CarriedBlocks({b \in s.store : b.chain = c /\ b.height \in first..last})
      t == [s EXCEPT !.store = @ \cup carried]
  IN  [t EXCEPT !.app = ExecuteFromTo(t, c, first, last, isok), !.shardHeight[c] = last]

\* Faulty variant: a block that is not the next one is executed at once.
SyncIBlocksGap(s, c, h, isok) == SyncFromTo(s, c, h, h, isok)

\* A B-shard node executes the blocks of I-shard c that it has, in order, and
\* all with the code of the message that has just arrived.
SyncIBlocks(s, c, h, isok) ==
  LET next == s.shardHeight[c] + 1
  IN  SyncFromTo(s, c, next, LastStored(s, c, next, h), isok)

DoCrossShardBlock(n, s, m) ==
  LET c == m.sig.chain IN
  IF c \notin Related[ChainOf(n)] \/ m.block \in s.store \/ ~VerifySignatures(m.sig)
  THEN Return(s)
  ELSE IF ChainOf(n) \in IShards
  THEN Look([s EXCEPT !.csbPool = @ \cup {[block |-> m.block, sig |-> m.sig]}])
  ELSE Look(SyncIBlocks([s EXCEPT !.store = @ \cup {m.block}], c, m.height, m.sig.ok))

DoMessageAccept(n, s, m) ==
  IF \/ ChainOf(n) \in IShards \/ m.hash # s.pending
     \/ ~VerifySignatures(m.sig)
     \/ \E sig \in s.maPool : sig.chain = m.sig.chain
  THEN Return(s)
  ELSE Look([s EXCEPT !.maPool = @ \cup {m.sig}])

DoMessageCommit(n, s, m) ==
  IF ChainOf(n) \in BShards \/ m.hash \in s.committed \/ ~VerifySignatures(m.sig) THEN Return(s)
  ELSE Look([s EXCEPT !.commitPool =
               {mc \in @ : mc.hash # m.hash} \cup {[hash |-> m.hash, sig |-> m.sig]}])

\* A MessageOK counts at the height the node is in when it comes first of a
\* later height, and again at its own.  Before Start bseen is a nil map.
DoMessageOK(n, s, m) ==
  LET kept == IF OverTime(s, m) THEN AddRelayMessage(s, m) ELSE s IN
  IF \/ OverTime(s, m) /\ ~FirstOfHeight(s, m)
     \/ m.height < s.height
     \/ m.src \in s.bseen
  THEN Return(kept)
  ELSE IF s.height = 0 THEN Return([kept EXCEPT !.up = FALSE])
  ELSE Look([kept EXCEPT !.bseen = @ \cup {m.src}])

Handle(n, s, m) ==
  CASE m.type = "CSB" -> DoCrossShardBlock(n, s, m)
    [] m.type = "Accept" -> DoMessageAccept(n, s, m)
    [] m.type = "Commit" -> DoMessageCommit(n, s, m)
    [] m.type = "OK" -> DoMessageOK(n, s, m)
    [] m.type \in {"Proposal", "Part", "Prevote", "Precommit"} /\ OverTime(s, m) ->
         Return(AddRelayMessage(s, m))
    [] m.type \in {"Prevote", "Precommit"} /\ ~OverTime(s, m) -> DoVote(n, s, m)
    [] m.type = "Proposal" /\ CanAddProposal(n, s, m) -> Look(AddProposal(s, m))
    [] m.type = "Part" /\ CanBufferPart(s, m) -> Return([s EXCEPT !.buffer = @ \cup {m}])
    [] m.type = "Part" /\ CanAddPart(s, m) -> Look(AddPart(s, m))
    [] OTHER -> Return(s)

Handled(n, done) == IF done.look THEN HandleStateTransition(n, done.state) ELSE done.state

DoMessage(n, s, m) == Handled(n, Handle(n, s, m))
-----------------------------------------------------------------------------
(* The actions.  Replay and Resume are the rest of the handler that took   *)
(* the node to its new height: until they are done the node holds stateMtx *)
(* and receives nothing.                                                   *)

Pending(s) == {m \in s.relay : m.height = s.height}

\* stateMtx is free.
Unlocked(n) == st[n].up /\ ~st[n].resume /\ Pending(st[n]) = {}

\* The handler has brought the node to state s; a proposer that has entered a
\* height makes its block.
Become(n, s) ==
  \E b \in IF s.create THEN NewBlocks(n, s) ELSE {None} :
    LET t == IF s.create THEN CreateBlockAndBroadcast(n, s, b) ELSE s IN
    /\ st' = [st EXCEPT ![n] = [t EXCEPT !.out = {}]]
    /\ msgs' = msgs \cup t.out

Start(n) ==
  /\ st[n].height = 0
  /\ Unlocked(n)
  /\ Become(n, EnterNewHeight(n, st[n]))

\* A message that changes nothing is not a step.
Receive(n, m) ==
  /\ Unlocked(n)
  /\ m.to = ChainOf(n)
  /\ m.height <= MaxHeight
  /\ \E s \in {DoMessage(n, st[n], m)} : s # st[n] /\ Become(n, s)

Replay(n, m) ==
  /\ st[n].up
  /\ m \in Pending(st[n])
  /\ Become(n, DoMessage(n, [st[n] EXCEPT !.relay = @ \ {m}], m))

Resume(n) ==
  /\ st[n].up
  /\ st[n].resume
  /\ Pending(st[n]) = {}
  /\ st[n].height <= MaxHeight
  /\ Become(n, HandleStateTransition(n, [st[n] EXCEPT !.resume = FALSE]))

Init ==
  /\ st = [n \in Node |-> NewState(n)]
  /\ msgs = {}

\* Every node has been started and no message has arrived: a reachable state
\* of Spec.
StartedInit ==
  /\ \A n \in Node : Cardinality(NewBlocks(n, EnterNewHeight(n, NewState(n)))) = 1
  /\ LET entered(n) == EnterNewHeight(n, NewState(n))
         started(n) == IF entered(n).create
                       THEN CreateBlockAndBroadcast(n, entered(n),
                              CHOOSE b \in NewBlocks(n, entered(n)) : TRUE)
                       ELSE entered(n)
     IN  /\ st = [n \in Node |-> [started(n) EXCEPT !.out = {}]]
         /\ msgs = UNION {started(n).out : n \in Node}

Step(n) ==
  \/ Start(n)
  \/ \E m \in msgs : Receive(n, m)
  \/ \E m \in st[n].relay : Replay(n, m)
  \/ Resume(n)

\* Every node has finished the last height of the model.
Finished == \A n \in Node : st[n].height > MaxHeight
Terminated == Finished /\ UNCHANGED vars

Next == (\E n \in Node : Step(n)) \/ Terminated

Spec == Init /\ [][Next]_vars
-----------------------------------------------------------------------------
(* Properties.                                                             *)

TypeOK ==
  /\ DOMAIN st = Node
  /\ \A n \in Node :
       /\ st[n].height \in 0..(MaxHeight + 1)
       /\ st[n].step \in {"NewHeight", "Propose", "Prevote", "Precommit", "Commit"}
       /\ st[n].bseen \subseteq Related[ChainOf(n)]
       /\ st[n].app.db \in [Key -> 0..(Wrap - 1)]
       /\ DOMAIN st[n].app.locks \subseteq Key
       /\ st[n].out = {}
       /\ ~st[n].create

NodesOf(c) == {n \in Node : ChainOf(n) = c}

\* The blocks a node has executed are consecutive, and the nodes of a shard
\* execute the same blocks with the same codes; after the same blocks they
\* have the same balances and the same locks (processIBlock, processBBlock).
\* A copy of the accounts of another shard may run ahead: only the accounts
\* of the own shard are compared.
LedgerAgreement ==
  \A c \in Shard : \A n, m \in NodesOf(c) :
    /\ \A j \in DOMAIN st[n].ledger : st[n].ledger[j].block.height = j
    /\ \A j \in DOMAIN st[n].ledger \cap DOMAIN st[m].ledger : st[n].ledger[j] = st[m].ledger[j]
    /\ Len(st[n].ledger) = Len(st[m].ledger) =>
         \A k \in KeyRange[c] :
           /\ st[n].app.db[k] = st[m].app.db[k]
           /\ IsLocked(st[n].app, k) <=> IsLocked(st[m].app, k)

\* A node of an I-shard leaves a height when each of its B-shards has a node
\* that has finished it with the blocks of all its I-shards, although an OK
\* of the next height is counted for the current one (DoMessageOK); a node of
\* a B-shard when each of its I-shards has a node that has finished its block.
ShardsInLockStep ==
  \A n \in Node : \A d \in Related[ChainOf(n)] :
    \E m \in NodesOf(d) : Len(st[m].ledger) >= st[n].height - 1

\* No correct node stops once it has been started: doPropose never meets a
\* block that it takes for a Byzantine error, whatever the order in which
\* pending blocks, answers and decisions arrive at the nodes of a shard.
NoPanic == \A n \in Node : st[n].height # 0 => st[n].up

\* What a cross-shard block writes, from the data it carries.
WritesOf(block) == BlockWrites({}, block)

\* The last block of a node, if it is a block of decisions: the commits, with
\* their blocks, that are not followed by another decision on the same account.
LastCommits(n, k) ==
  LET s == st[n]  b == s.ledger[Len(s.ledger)].block IN
  IF s.ledger = <<>> \/ b.type # "ICommit" THEN {}
  ELSE {StoredBlock(s.store, b.commits[j].hash) : j \in
         {i \in DOMAIN b.commits :
            /\ b.commits[i].sig.ok
            /\ \A l \in (i + 1)..Len(b.commits) :
                 k \notin DOMAIN WritesOf(StoredBlock(s.store, b.commits[l].hash))}}

\* A block that the B-shard has committed is applied as a whole: an I-shard
\* that executes the decision has in its accounts the values the block writes
\* (AcceptCommitShard), which it has kept as locks since it accepted the block.
CommittedWritesApplied ==
  \A n \in Node : ChainOf(n) \in IShards =>
    \A k \in KeyRange[ChainOf(n)] : \A x \in LastCommits(n, k) :
      k \in DOMAIN WritesOf(x) => st[n].app.db[k] = WritesOf(x)[k]

\* The cross-shard blocks that node n has accepted, and those it has a decision for.
Accepted(n) ==
  {st[n].ledger[j].block.csb.block : j \in
    {i \in DOMAIN st[n].ledger : st[n].ledger[i].block.type = "IAccept" /\ st[n].ledger[i].ok}}

\* Locks are held by the accepted blocks without a decision and by no others:
\* none is left when the decision has come, and none is released before.
LocksAreOwned ==
  \A n \in Node : ChainOf(n) \in IShards =>
    LET open == {x \in Accepted(n) : Hash(x) \notin st[n].committed}
    IN  DOMAIN st[n].app.locks = UNION {DOMAIN WritesOf(x) \cap KeyRange[ChainOf(n)] : x \in open}

\* The copy of an I-shard's accounts in a B-shard is the I-shard's state at
\* the height the copy has reached (processIBlock outside a round).
SyncedCopies ==
  \A n, m \in Node :
    /\ ChainOf(n) \in BShards
    /\ ChainOf(m) \in Related[ChainOf(n)]
    /\ Len(st[m].ledger) = st[n].shardHeight[ChainOf(m)]
    => \A k \in KeyRange[ChainOf(m)] : st[n].app.db[k] = st[m].app.db[k]
-----------------------------------------------------------------------------
(* The two phases, seen from the ledgers, implement atomic commitment.     *)

\* What the nodes of chain c have executed.
Entries(c) == UNION {ToSet(st[n].ledger) : n \in NodesOf(c)}

\* The codes with which nodes of chain c have executed a block that P holds for.
Codes(c, type, P(_, _)) == {ok \in BOOLEAN : \E e \in Entries(c) : e.block.type = type /\ P(e, ok)}

\* The name of a set of codes: a block has one, or none yet.
NameOf(codes, yes, no) ==
  CASE codes = {} -> "none" [] codes = {TRUE} -> yes [] codes = {FALSE} -> no [] OTHER -> "both"

VoteOf(x, i) ==
  LET for(e, ok) == e.ok = ok /\ Hash(e.block.csb.block) = x
  IN  NameOf(Codes(i, "IAccept", for), "yes", "no")

DecisionOf(x) ==
  LET on(e, ok) == e.ok = ok /\ e.block.hash = x
  IN  NameOf(Codes(x[1], "BCommit", on), "commit", "abort")

AppliedBy(x, i) ==
  LET holds(e, ok) == \E j \in DOMAIN e.block.commits :
                        e.block.commits[j].hash = x /\ e.block.commits[j].sig.ok = ok
  IN  NameOf(Codes(i, "ICommit", holds), "commit", "abort")

\* The blocks whose four heights end by MaxHeight.
CrossBlock == BShards \X (1..(MaxHeight - 3))

Commitment == INSTANCE AtomicCommit WITH
  Block <- CrossBlock,
  Parties <- [x \in CrossBlock |-> Related[x[1]]],
  vote <- [x \in CrossBlock |-> [i \in Related[x[1]] |-> VoteOf(x, i)]],
  decision <- [x \in CrossBlock |-> DecisionOf(x)],
  applied <- [x \in CrossBlock |-> [i \in Related[x[1]] |-> AppliedBy(x, i)]]

\* The four kinds of blocks carry out atomic commitment: the shards of a
\* cross-shard block answer once, the B-shard decides once and for commit if
\* and only if all answers are yes, and the I-shards execute that decision.
ImplementsAtomicCommit == Commitment!Spec
=============================================================================
