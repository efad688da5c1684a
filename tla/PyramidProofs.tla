--------------------------- MODULE PyramidProofs ---------------------------
(***************************************************************************)
(* The shards of Pyramid, for any topology, peer lists, transactions and   *)
(* heights.                                                                *)
(*                                                                         *)
(* A handler is a composition of functions on the state of a node, so the  *)
(* inductive invariant has a predicate on a node's state, NodeOK, which    *)
(* each of these functions keeps.  It is relative to the messages M, the   *)
(* ones on the network and the ones the handler is about to send, and to   *)
(* the ledgers L: L[c] lists the blocks of shard c, with the codes of      *)
(* their precommits, as far as some node of c has executed them.           *)
(***************************************************************************)
EXTENDS Pyramid, VotingPowerProofs, SequenceTheorems, WellFoundedInduction

\* nil is not a pair: neither the hash of a block nor a choice of a vote.
NoneIsNil == \A x, y : <<x, y>> # None

StateFields ==
  {"up", "height", "step", "resume", "create", "out", "relay", "buffer", "proposal", "block",
   "got", "prevotes", "precommits", "bseen", "csbPool", "commitPool", "committed", "pending",
   "maPool", "shardHeight", "store", "ledger", "app", "mempool", "crossMempool"}
IsState(s) == DOMAIN s = StateFields
-----------------------------------------------------------------------------
(* What the ledgers say.                                                   *)

\* The ledgers have grown.
Extends(L, N) ==
  \A c \in Shard : /\ Len(L[c]) \in Nat /\ Len(N[c]) \in Nat /\ Len(L[c]) <= Len(N[c])
                   /\ \A j \in 1..Len(L[c]) : N[c][j] = L[c][j]

\* The shard of block b has executed it.
InLedger(L, b) == b.height \in 1..Len(L[b.chain]) /\ L[b.chain][b.height].block = b

\* I-shard i has answered the cross-shard block with hash x with this code.
Answered(L, i, x, ok) ==
  \E j \in 1..Len(L[i]) : /\ L[i][j].block.type = "IAccept"
                          /\ Hash(L[i][j].block.csb.block) = x
                          /\ L[i][j].ok = ok

\* The B-shard of x has decided it with this code.
Decided(L, x, ok) ==
  \E j \in 1..Len(L[x[1]]) : /\ L[x[1]][j].block.type = "BCommit"
                             /\ L[x[1]][j].block.hash = x
                             /\ L[x[1]][j].ok = ok

\* p is the cross-shard block of B-shard c that is open after k blocks, or None.
OpenAfter(L, c, k, p) ==
  \/ /\ p = None
     /\ \A j \in 1..k : L[c][j].block.type = "Cross" =>
          \E l \in (j + 1)..k : L[c][l].block.type = "BCommit"
  \/ \E j \in 1..k :
       /\ p = <<c, j>>
       /\ L[c][j].block.type = "Cross"
       /\ \A l \in (j + 1)..k : L[c][l].block.type \notin {"Cross", "BCommit"}
-----------------------------------------------------------------------------
(* What backs a block.                                                     *)

\* VerifySignatures, for the messages M.
SigOK(M, sig) ==
  \A v \in sig.signers : PrecommitMsg(sig.chain, v, <<sig.chain, sig.height>>, sig.ok) \in M

\* A cross-shard block for I-shard c.
CsbOK(M, L, c, csb) ==
  /\ csb.block.chain \in Related[c] /\ csb.sig.chain = csb.block.chain
  /\ InLedger(L, csb.block)
  /\ SigOK(M, csb.sig)

\* The answer of an I-shard to block x of B-shard c.
AnswerOK(M, L, c, x, sig) ==
  /\ sig.chain \in Related[c]
  /\ Answered(L, sig.chain, x, sig.ok)
  /\ SigOK(M, sig)

\* A decision for I-shard c.
DecisionOK(M, L, c, mc) ==
  /\ mc.hash[1] \in Related[c] /\ mc.sig.chain = mc.hash[1]
  /\ Decided(L, mc.hash, mc.sig.ok)
  /\ SigOK(M, mc.sig)

\* No block accepts a cross-shard block, or carries a decision, for the
\* second time.
FreshBlock(L, b) ==
  \A j \in 1..(b.height - 1) :
    LET e == L[b.chain][j].block IN
    /\ b.type = "IAccept" /\ e.type = "IAccept" => e.csb.block # b.csb.block
    /\ b.type = "ICommit" /\ e.type = "ICommit" =>
         \A k \in DOMAIN e.commits : \A l \in DOMAIN b.commits : e.commits[k].hash # b.commits[l].hash

\* A B-shard decides its open block, with the answers of all its I-shards.
AcceptSetOK(M, L, b) ==
  /\ b.hash # None /\ OpenAfter(L, b.chain, b.height - 1, b.hash)
  /\ Cardinality(b.accepts) = Cardinality(Related[b.chain])
  /\ \A sig \in b.accepts : AnswerOK(M, L, b.chain, b.hash, sig)
  /\ \A d \in Related[b.chain] : \E sig \in b.accepts : sig.chain = d

\* A block that a proposer has made.
BlockOK(M, L, b) ==
  /\ b.chain \in Shard /\ b.height \in Nat \ {0} /\ b.height - 1 <= Len(L[b.chain])
  /\ b.type \in IF b.chain \in IShards THEN {"Inner", "IAccept", "ICommit"}
                                       ELSE {"Inner", "Cross", "BCommit"}
  /\ b.type = "IAccept" => CsbOK(M, L, b.chain, b.csb)
  /\ b.type = "ICommit" => /\ Len(b.commits) \in Nat
                            /\ \A k \in DOMAIN b.commits : DecisionOK(M, L, b.chain, b.commits[k])
  /\ b.type = "BCommit" => AcceptSetOK(M, L, b)
  /\ FreshBlock(L, b)

Proposed(M, b) == \E m \in M : m.type = "Proposal" /\ m.block = b

\* The code that votes for block b may have.
OkFor(b, ok) ==
  /\ ok \in BOOLEAN
  /\ b.type = "BCommit" => ok = (\A sig \in b.accepts : sig.ok)

\* A quorum has precommitted the block of chain c and height h with this code.
Precommitters(M, c, h, ok) == {v \in DOMAIN Votes[c] : PrecommitMsg(c, v, <<c, h>>, ok) \in M}
Chosen(M, c, h, ok) == OverTwoThirds(Votes[c], Power(Votes[c], Precommitters(M, c, h, ok)))

EntryOK(M, c, h, e) ==
  /\ e = [block |-> e.block, ok |-> e.ok]
  /\ e.block.chain = c /\ e.block.height = h
  /\ Proposed(M, e.block) /\ OkFor(e.block, e.ok)
  /\ Chosen(M, c, h, e.ok)
-----------------------------------------------------------------------------
(* Messages and ledgers.                                                   *)

IsVote(m) == m.type \in {"Prevote", "Precommit"}

VoteOK(M, m) ==
  /\ m = [type |-> m.type, to |-> m.to, height |-> m.height, from |-> m.from,
          hash |-> m.hash, ok |-> m.ok]
  /\ m.hash = <<m.to, m.height>>
  /\ m.from \in DOMAIN Votes[m.to]
  /\ \E p \in M : p.type = "Proposal" /\ Hash(p.block) = m.hash /\ OkFor(p.block, m.ok)

MsgOK(M, L, m) ==
  /\ m.type \in {"Proposal", "Part", "Prevote", "Precommit", "CSB", "Accept", "Commit", "OK"}
  /\ m.to \in Shard /\ m.height \in Nat \ {0}
  /\ m.type = "Proposal" => /\ m.to = m.block.chain /\ m.height = m.block.height
                            /\ m.from = Proposer(m.to, m.height)
                            /\ BlockOK(M, L, m.block)
  /\ IsVote(m) => VoteOK(M, m)
  /\ m.type = "CSB" => /\ m.height = m.block.height
                       /\ CsbOK(M, L, m.to, m)
  /\ m.type = "Accept" => AnswerOK(M, L, m.to, m.hash, m.sig)
  /\ m.type = "Commit" => DecisionOK(M, L, m.to, m)
  /\ m.type = "OK" => m.src \in Related[m.to] /\ m.height <= Len(L[m.src])

\* A proposer makes one block a height, a validator one vote of each type.
OneProposal(M) ==
  \A m, k \in M : m.type = "Proposal" /\ k.type = "Proposal" /\ m.to = k.to /\ m.height = k.height
                  => m.block = k.block
OneVote(M) ==
  \A m, k \in M : /\ IsVote(m) /\ k.type = m.type
                  /\ m.to = k.to /\ m.height = k.height /\ m.from = k.from
                  => m = k

LedgersOK(M, L) ==
  \A c \in Shard : /\ Len(L[c]) \in Nat
                   /\ \A j \in 1..Len(L[c]) : EntryOK(M, c, j, L[c][j])

Sound(M, L) ==
  /\ \A m \in M : MsgOK(M, L, m)
  /\ OneProposal(M)
  /\ OneVote(M)
  /\ LedgersOK(M, L)
-----------------------------------------------------------------------------
(* The state of a node.                                                    *)

\* A VoteSet of chain c: every vote has been sent, and the count of a choice
\* is the power behind it.
Voters(c, set, x) == {v \in DOMAIN Votes[c] : set.votes[v] = x}
VoteSetOK(M, c, type, h, set) ==
  /\ DOMAIN set.votes = DOMAIN Votes[c]
  /\ \A v \in DOMAIN Votes[c] : set.votes[v] # None =>
       \E ok \in BOOLEAN :
         /\ set.votes[v] = <<<<c, h>>, ok>>
         /\ [type |-> type, to |-> c, height |-> h, from |-> v, hash |-> <<c, h>>, ok |-> ok] \in M
  /\ \A x : x # None => IF x \in DOMAIN set.cnt
                        THEN set.cnt[x] = Power(Votes[c], Voters(c, set, x))
                        ELSE Voters(c, set, x) = {}
  /\ set.maj # None => set.maj \in DOMAIN set.cnt /\ OverTwoThirds(Votes[c], set.cnt[set.maj])

RoundOK(n, s, M) ==
  /\ s.proposal # None => /\ Proposed(M, s.proposal)
                          /\ s.proposal.chain = ChainOf(n) /\ s.proposal.height = s.height
  /\ s.block # None => s.block = s.proposal
  /\ VoteSetOK(M, ChainOf(n), "Prevote", s.height, s.prevotes)
  /\ VoteSetOK(M, ChainOf(n), "Precommit", s.height, s.precommits)

\* The node has executed the first blocks of the ledger of its shard.
LedgerOK(n, s, L) ==
  /\ \E S : s.ledger \in Seq(S)
  /\ Len(s.ledger) = IF s.step = "Commit" \/ s.height = 0 THEN s.height ELSE s.height - 1
  /\ Len(s.ledger) <= Len(L[ChainOf(n)])
  /\ \A j \in 1..Len(s.ledger) : s.ledger[j] = L[ChainOf(n)][j]

\* The pools of an I-shard: blocks not accepted and decisions not executed.
IPoolsOK(c, s, M, L) ==
  /\ \A csb \in s.csbPool : CsbOK(M, L, c, csb) /\ csb.block \notin s.store
  /\ \A mc \in s.commitPool : DecisionOK(M, L, c, mc) /\ mc.hash \notin s.committed
  /\ IsFiniteSet(s.commitPool)
  /\ \A j \in 1..Len(s.ledger) :
       LET b == L[c][j].block IN
       /\ b.type = "IAccept" => b.csb.block \in s.store
       /\ b.type = "ICommit" => \A k \in DOMAIN b.commits : b.commits[k].hash \in s.committed

\* The pools of a B-shard: its open block with the answers to it,
BPoolsOK(c, s, M, L) ==
  /\ OpenAfter(L, c, Len(s.ledger), s.pending)
  /\ \A sig \in s.maPool : s.pending # None /\ AnswerOK(M, L, c, s.pending, sig)
  /\ \A sig, tau \in s.maPool : sig.chain = tau.chain => sig = tau

\* and its copies of the I-shards' blocks.
CopiesOK(c, s, L) ==
  /\ DOMAIN s.shardHeight = Related[c]
  /\ \A d \in Related[c] : s.shardHeight[d] \in 0..MaxHeight /\ s.shardHeight[d] <= Len(L[d])
  /\ \A b \in s.store : b.chain \in Related[c] => InLedger(L, b) /\ b.height <= MaxHeight

\* The neighbours of the shard are at most one height behind.
TogetherOK(n, s, L) ==
  /\ \A d \in Related[ChainOf(n)] : s.height - 1 <= Len(L[d])
  /\ \A d \in s.bseen : d \in Related[ChainOf(n)] /\ s.height <= Len(L[d])

\* The steps in which a vote of a type has been sent.
AfterVote(type) ==
  IF type = "Prevote" THEN {"Prevote", "Precommit", "Commit"} ELSE {"Precommit", "Commit"}

\* What the node itself has sent.
SentBy(n, m) == m.to = ChainOf(n) /\ m.from = IndexOf(n)
SentOK(n, s, M) ==
  /\ \A m \in M : IsVote(m) /\ SentBy(n, m) =>
       m.height <= s.height /\ (m.height = s.height => s.step \in AfterVote(m.type))
  /\ \A m \in M : m.type = "Proposal" /\ SentBy(n, m) =>
       m.height <= s.height /\ (m.height = s.height => ~s.create)

ControlOK(n, s) ==
  /\ s.height \in Nat
  /\ s.step \in {"NewHeight", "Propose", "Prevote", "Precommit", "Commit"}
  /\ s.height = 0 => s.step = "NewHeight"
  /\ s.up \in BOOLEAN /\ (~s.up => s.height = 0)
  /\ s.create \in BOOLEAN /\ (s.create => IsProposer(n, s) /\ s.step = "Propose")

OutOK(n, s) ==
  \A m \in s.out : IsVote(m) \/ m.type = "Proposal" => SentBy(n, m)

\* Blocks and votes of later heights, and the OKs of neighbours.
RelayOK(n, s, M) == s.relay \subseteq {m \in M : m.to = ChainOf(n) /\ m.type # "CSB"}

NodeOK(n, s, M, L) ==
  /\ IsState(s)
  /\ ControlOK(n, s)
  /\ RoundOK(n, s, M)
  /\ LedgerOK(n, s, L)
  /\ ChainOf(n) \in IShards => IPoolsOK(ChainOf(n), s, M, L)
  /\ ChainOf(n) \in BShards => BPoolsOK(ChainOf(n), s, M, L) /\ CopiesOK(ChainOf(n), s, L)
  /\ TogetherOK(n, s, L)
  /\ SentOK(n, s, M)
  /\ RelayOK(n, s, M)
  /\ OutOK(n, s)

\* A node in a handler, with the messages N of the network.
Good(n, s, N, L) == Sound(N \cup s.out, L) /\ NodeOK(n, s, N \cup s.out, L)

\* The ledgers end where the first node of a shard is.
Inv(L) ==
  /\ Sound(msgs, L)
  /\ DOMAIN st = Node
  /\ \A n \in Node : NodeOK(n, st[n], msgs, L) /\ st[n].out = {} /\ ~st[n].create
  /\ \A c \in Shard : \E n \in NodesOf(c) : Len(st[n].ledger) = Len(L[c])

IInv == \E L : Inv(L)
-----------------------------------------------------------------------------
(* Facts about the constants.                                              *)

\* The peer list of each shard.
LEMMA PeerLists ==
  ASSUME NEW c \in Shard
  PROVE  PeerList(Votes[c])
BY PyramidAssumption DEF TopologyOK, PeerList

\* The chain and the index of a node.
LEMMA Nodes ==
  ASSUME NEW n \in Node
  PROVE  /\ ChainOf(n) \in Shard
         /\ IndexOf(n) \in DOMAIN Votes[ChainOf(n)]
         /\ n = <<ChainOf(n), IndexOf(n)>>
         /\ n \in NodesOf(ChainOf(n))
BY DEF Node, ChainOf, IndexOf, NodesOf

\* Neighbours are shards of the other kind.
LEMMA Neighbours ==
  ASSUME NEW c \in Shard
  PROVE  /\ c \in IShards <=> c \notin BShards
         /\ Related[c] \subseteq Shard /\ IsFiniteSet(Related[c])
         /\ \A d \in Related[c] : c \in Related[d] /\ (d \in IShards <=> c \in BShards)
<1>1. /\ IsFiniteSet(Shard) /\ IShards \cap BShards = {} /\ Shard = IShards \cup BShards
      /\ \A d \in IShards : Related[d] \subseteq BShards
      /\ \A d \in BShards : Related[d] \subseteq IShards
      /\ \A d, e \in Shard : d \in Related[e] <=> e \in Related[d]
  BY PyramidAssumption DEF TopologyOK, Shard
<1>2. Related[c] \subseteq Shard
  BY <1>1
<1>3. IsFiniteSet(Related[c])
  BY <1>1, <1>2, FS_Subset
<1> QED BY <1>1, <1>2, <1>3

-----------------------------------------------------------------------------
(* What the ledgers and messages back stays so as they grow.               *)

\* Ledgers extend themselves.
LEMMA ExtendsSelf ==
  ASSUME NEW M, NEW L, LedgersOK(M, L)
  PROVE  Extends(L, L)
BY DEF LedgersOK, Extends

\* What a ledger says stays said.
LEMMA LedgerFactsGrow ==
  ASSUME NEW L, NEW N, Extends(L, N)
  PROVE  /\ \A b : b.chain \in Shard /\ InLedger(L, b) => InLedger(N, b)
         /\ \A i \in Shard : \A x, ok : Answered(L, i, x, ok) => Answered(N, i, x, ok)
         /\ \A x, ok : x[1] \in Shard /\ Decided(L, x, ok) => Decided(N, x, ok)
         /\ \A c \in Shard : \A p : \A k \in 0..Len(L[c]) : OpenAfter(L, c, k, p) => OpenAfter(N, c, k, p)
<1>1. \A c \in Shard : \A j \in 1..Len(L[c]) : j \in 1..Len(N[c]) /\ N[c][j] = L[c][j]
  BY DEF Extends
<1>2. \A b : b.chain \in Shard /\ InLedger(L, b) => InLedger(N, b)
  BY <1>1 DEF InLedger
<1>3. \A i \in Shard : \A x, ok : Answered(L, i, x, ok) => Answered(N, i, x, ok)
  BY <1>1 DEF Answered
<1>4. \A x, ok : x[1] \in Shard /\ Decided(L, x, ok) => Decided(N, x, ok)
  BY <1>1 DEF Decided
<1>5. ASSUME NEW c \in Shard, NEW p, NEW k \in 0..Len(L[c]), OpenAfter(L, c, k, p)
      PROVE  OpenAfter(N, c, k, p)
  <2>1. \A j \in 1..k : N[c][j] = L[c][j]
    BY <1>1 DEF Extends
  <2>2. \A j \in 1..k : (j + 1)..k \subseteq 1..k
    BY DEF Extends
  <2>3. CASE /\ p = None
             /\ \A j \in 1..k : L[c][j].block.type = "Cross" =>
                  \E l \in (j + 1)..k : L[c][l].block.type = "BCommit"
    <3>1. ASSUME NEW j \in 1..k, N[c][j].block.type = "Cross"
          PROVE  \E l \in (j + 1)..k : N[c][l].block.type = "BCommit"
      <4>1. PICK l \in (j + 1)..k : L[c][l].block.type = "BCommit"
        BY <2>1, <2>3, <3>1
      <4> QED BY <2>1, <2>2, <4>1
    <3> QED BY <2>3, <3>1 DEF OpenAfter
  <2>4. CASE \E j \in 1..k :
               /\ p = <<c, j>>
               /\ L[c][j].block.type = "Cross"
               /\ \A l \in (j + 1)..k : L[c][l].block.type \notin {"Cross", "BCommit"}
    <3>1. PICK j \in 1..k : /\ p = <<c, j>>
                            /\ L[c][j].block.type = "Cross"
                            /\ \A l \in (j + 1)..k : L[c][l].block.type \notin {"Cross", "BCommit"}
      BY <2>4
    <3>2. \A l \in (j + 1)..k : N[c][l].block.type \notin {"Cross", "BCommit"}
      BY <2>1, <2>2, <3>1
    <3> QED BY <2>1, <3>1, <3>2 DEF OpenAfter
  <2> QED BY <1>5, <2>3, <2>4 DEF OpenAfter
<1> QED BY <1>2, <1>3, <1>4, <1>5

\* What backs a cross-shard block, an answer or a decision stays.
LEMMA BackingGrows ==
  ASSUME NEW M, NEW N, M \subseteq N, NEW K, NEW L, Extends(K, L), NEW c \in Shard
  PROVE  /\ \A csb : CsbOK(M, K, c, csb) => CsbOK(N, L, c, csb)
         /\ \A x, sig : AnswerOK(M, K, c, x, sig) => AnswerOK(N, L, c, x, sig)
         /\ \A mc : DecisionOK(M, K, c, mc) => DecisionOK(N, L, c, mc)
<1>1. Related[c] \subseteq Shard
  BY Neighbours
<1>2. \A sig : SigOK(M, sig) => SigOK(N, sig)
  BY DEF SigOK
<1>3. ASSUME NEW csb, CsbOK(M, K, c, csb) PROVE CsbOK(N, L, c, csb)
  BY <1>1, <1>2, <1>3, LedgerFactsGrow DEF CsbOK
<1>4. ASSUME NEW x, NEW sig, AnswerOK(M, K, c, x, sig) PROVE AnswerOK(N, L, c, x, sig)
  BY <1>1, <1>2, <1>4, LedgerFactsGrow DEF AnswerOK
<1>5. ASSUME NEW mc, DecisionOK(M, K, c, mc) PROVE DecisionOK(N, L, c, mc)
  BY <1>1, <1>2, <1>5, LedgerFactsGrow DEF DecisionOK
<1> QED BY <1>3, <1>4, <1>5

\* A block that a proposer could make stays one.
LEMMA BlockGrows ==
  ASSUME NEW M, NEW N, M \subseteq N, NEW K, NEW L, Extends(K, L), NEW b, BlockOK(M, K, b)
  PROVE  BlockOK(N, L, b)
<1>1. /\ b.chain \in Shard /\ b.height \in Nat \ {0} /\ b.height - 1 <= Len(K[b.chain])
      /\ b.type \in IF b.chain \in IShards THEN {"Inner", "IAccept", "ICommit"}
                                           ELSE {"Inner", "Cross", "BCommit"}
  BY DEF BlockOK
<1>2. /\ b.height - 1 <= Len(L[b.chain]) /\ b.height - 1 \in 0..Len(K[b.chain])
      /\ \A j \in 1..(b.height - 1) : L[b.chain][j] = K[b.chain][j]
  BY <1>1 DEF Extends
<1>3. b.type = "IAccept" => CsbOK(N, L, b.chain, b.csb)
  BY <1>1, BackingGrows DEF BlockOK
<1>4. b.type = "ICommit" => /\ Len(b.commits) \in Nat
                            /\ \A k \in DOMAIN b.commits : DecisionOK(N, L, b.chain, b.commits[k])
  BY <1>1, BackingGrows DEF BlockOK
<1>5. b.type = "BCommit" => AcceptSetOK(N, L, b)
  <2> SUFFICES ASSUME AcceptSetOK(M, K, b) PROVE AcceptSetOK(N, L, b)
    BY DEF BlockOK
  <2>1. OpenAfter(L, b.chain, b.height - 1, b.hash)
    BY <1>1, <1>2, LedgerFactsGrow DEF AcceptSetOK
  <2>2. \A sig \in b.accepts : AnswerOK(N, L, b.chain, b.hash, sig)
    BY <1>1, BackingGrows DEF AcceptSetOK
  <2> QED BY <2>1, <2>2 DEF AcceptSetOK
<1>6. FreshBlock(L, b)
  <2>1. FreshBlock(K, b)
    BY DEF BlockOK
  <2>2. ASSUME NEW j \in 1..(b.height - 1)
        PROVE  LET e == L[b.chain][j].block IN
               /\ b.type = "IAccept" /\ e.type = "IAccept" => e.csb.block # b.csb.block
               /\ b.type = "ICommit" /\ e.type = "ICommit" =>
                    \A k \in DOMAIN e.commits : \A l \in DOMAIN b.commits : e.commits[k].hash # b.commits[l].hash
    <3>1. L[b.chain][j] = K[b.chain][j]
      BY <1>2
    <3> QED BY <2>1, <3>1, Zenon DEF FreshBlock
  <2> QED BY <2>2, Zenon DEF FreshBlock
<1> QED BY <1>1, <1>2, <1>3, <1>4, <1>5, <1>6 DEF BlockOK

\* More validators are a quorum all the more.
LEMMA ChosenGrows ==
  ASSUME NEW M, NEW N, M \subseteq N, NEW c \in Shard, NEW h, NEW ok, Chosen(M, c, h, ok)
  PROVE  Chosen(N, c, h, ok)
<1> DEFINE S == Precommitters(M, c, h, ok)
           T == Precommitters(N, c, h, ok)
<1>1. T \in SUBSET DOMAIN Votes[c] /\ S \in SUBSET T
  BY DEF Precommitters
<1>2. OverTwoThirds(Votes[c], Power(Votes[c], S))
  BY DEF Chosen
<1> HIDE DEF S, T
<1>3. Power(Votes[c], S) <= Power(Votes[c], T)
  BY <1>1, PeerLists, PowerMonotone
<1>4. /\ Power(Votes[c], S) \in Nat /\ Power(Votes[c], T) \in Nat
      /\ TotalVotes(Votes[c]) \in Nat
  BY <1>1, PeerLists, PowerType DEF TotalVotes
<1>5. OverTwoThirds(Votes[c], Power(Votes[c], T))
  BY <1>2, <1>3, <1>4 DEF OverTwoThirds
<1> QED BY <1>5 DEF Chosen, T

\* An entry of a ledger stays backed.
LEMMA EntryGrows ==
  ASSUME NEW M, NEW N, M \subseteq N, NEW c \in Shard, NEW h, NEW e, EntryOK(M, c, h, e)
  PROVE  EntryOK(N, c, h, e)
BY ChosenGrows DEF EntryOK, Proposed

\* A message stays backed.
LEMMA MsgGrows ==
  ASSUME NEW M, NEW N, M \subseteq N, NEW K, NEW L, Extends(K, L), NEW m, MsgOK(M, K, m)
  PROVE  MsgOK(N, L, m)
<1>1. /\ m.type \in {"Proposal", "Part", "Prevote", "Precommit", "CSB", "Accept", "Commit", "OK"}
      /\ m.to \in Shard /\ m.height \in Nat \ {0}
  BY DEF MsgOK
<1>2. m.type = "Proposal" => BlockOK(N, L, m.block)
  BY BlockGrows DEF MsgOK
<1>3. IsVote(m) => VoteOK(N, m)
  BY DEF MsgOK, VoteOK
<1>4. m.type = "CSB" => CsbOK(N, L, m.to, m)
  BY <1>1, BackingGrows DEF MsgOK
<1>5. m.type = "Accept" => AnswerOK(N, L, m.to, m.hash, m.sig)
  BY <1>1, BackingGrows DEF MsgOK
<1>6. m.type = "Commit" => DecisionOK(N, L, m.to, m)
  BY <1>1, BackingGrows DEF MsgOK
<1>7. m.type = "OK" => m.src \in Related[m.to] /\ m.height <= Len(L[m.src])
  <2>1. Related[m.to] \subseteq Shard
    BY <1>1, Neighbours
  <2> QED BY <1>1, <2>1 DEF MsgOK, Extends
<1> QED BY <1>1, <1>2, <1>3, <1>4, <1>5, <1>6, <1>7 DEF MsgOK

\* The votes that have been counted stay sent.
LEMMA VoteSetGrows ==
  ASSUME NEW M, NEW N, M \subseteq N, NEW c, NEW type, NEW h, NEW set, VoteSetOK(M, c, type, h, set)
  PROVE  VoteSetOK(N, c, type, h, set)
BY DEF VoteSetOK

\* What a node has collected stays backed; what it has sent is its own matter.
LEMMA PoolsGrow ==
  ASSUME NEW M, NEW N, M \subseteq N, NEW K, NEW L, Extends(K, L),
         NEW c \in Shard, NEW s, Len(s.ledger) \in 0..Len(K[c])
  PROVE  /\ IPoolsOK(c, s, M, K) => IPoolsOK(c, s, N, L)
         /\ BPoolsOK(c, s, M, K) => BPoolsOK(c, s, N, L)
         /\ CopiesOK(c, s, K) => CopiesOK(c, s, L)
<1>1. \A j \in 1..Len(s.ledger) : L[c][j] = K[c][j]
  BY DEF Extends
<1>2. IPoolsOK(c, s, M, K) => IPoolsOK(c, s, N, L)
  BY <1>1, BackingGrows DEF IPoolsOK
<1>3. BPoolsOK(c, s, M, K) => BPoolsOK(c, s, N, L)
  BY BackingGrows, LedgerFactsGrow DEF BPoolsOK
<1>4. CopiesOK(c, s, K) => CopiesOK(c, s, L)
  <2> SUFFICES ASSUME CopiesOK(c, s, K) PROVE CopiesOK(c, s, L)
    OBVIOUS
  <2>1. Related[c] \subseteq Shard
    BY Neighbours
  <2>2. \A d \in Related[c] : s.shardHeight[d] \in 0..MaxHeight /\ s.shardHeight[d] <= Len(L[d])
    BY <2>1, PyramidAssumption DEF CopiesOK, Extends, BoundsOK
  <2>3. \A b \in s.store : b.chain \in Related[c] => InLedger(L, b) /\ b.height <= MaxHeight
    BY <2>1, LedgerFactsGrow DEF CopiesOK
  <2> QED BY <2>2, <2>3 DEF CopiesOK
<1> QED BY <1>2, <1>3, <1>4

\* Others may send and execute without harm to a node between handlers.
LEMMA NodeGrows ==
  ASSUME NEW n \in Node, NEW s, NEW M, NEW N, M \subseteq N, NEW K, NEW L, Extends(K, L),
         NodeOK(n, s, M, K), s.out = {},
         \A m \in N \ M : IsVote(m) \/ m.type = "Proposal" => ~SentBy(n, m)
  PROVE  NodeOK(n, s, N, L)
<1> DEFINE c == ChainOf(n)
<1>1. c \in Shard
  BY Nodes
<1>2. RoundOK(n, s, N)
  BY VoteSetGrows DEF NodeOK, RoundOK, Proposed
<1>3. Len(s.ledger) \in 0..Len(K[c]) /\ \A j \in 1..Len(s.ledger) : L[c][j] = K[c][j]
  BY <1>1 DEF NodeOK, LedgerOK, Extends
<1>4. LedgerOK(n, s, L)
  BY <1>1, <1>3 DEF NodeOK, LedgerOK, Extends
<1>5. /\ c \in IShards => IPoolsOK(c, s, N, L)
      /\ c \in BShards => BPoolsOK(c, s, N, L) /\ CopiesOK(c, s, L)
  <2> HIDE DEF c
  <2>1. /\ c \in IShards => IPoolsOK(c, s, M, K)
        /\ c \in BShards => BPoolsOK(c, s, M, K) /\ CopiesOK(c, s, K)
    BY DEF NodeOK, c
  <2> QED BY <1>1, <1>3, <2>1, PoolsGrow
<1>6. TogetherOK(n, s, L)
  <2>1. Related[c] \subseteq Shard /\ s.height \in Nat
    BY <1>1, Neighbours DEF NodeOK, ControlOK
  <2>2. \A d \in Related[c] : s.height - 1 <= Len(L[d])
    BY <2>1 DEF NodeOK, TogetherOK, Extends
  <2>3. \A d \in s.bseen : d \in Related[c] /\ s.height <= Len(L[d])
    BY <2>1 DEF NodeOK, TogetherOK, Extends
  <2> QED BY <2>2, <2>3 DEF TogetherOK
<1>7. SentOK(n, s, N)
  BY DEF NodeOK, SentOK
<1>8. RelayOK(n, s, N) /\ OutOK(n, s)
  BY DEF NodeOK, RelayOK
<1> QED BY <1>2, <1>4, <1>5, <1>6, <1>7, <1>8 DEF NodeOK
-----------------------------------------------------------------------------
(* What a shard does once.                                                 *)

\* Chain and height stand for the hash of a block.
LEMMA HashOnce ==
  ASSUME NEW M, NEW L, Sound(M, L), NEW a, NEW b, Proposed(M, a), Proposed(M, b), Hash(a) = Hash(b)
  PROVE  a = b
<1>1. PICK m \in M : m.type = "Proposal" /\ m.block = a
  BY DEF Proposed
<1>2. PICK k \in M : k.type = "Proposal" /\ k.block = b
  BY DEF Proposed
<1>3. m.to = a.chain /\ m.height = a.height /\ k.to = b.chain /\ k.height = b.height
  BY <1>1, <1>2 DEF Sound, MsgOK
<1>4. a.chain = b.chain /\ a.height = b.height
  BY DEF Hash
<1> QED BY <1>1, <1>2, <1>3, <1>4 DEF Sound, OneProposal

\* A proposed block is one that a proposer could make.
LEMMA ProposedIsOK ==
  ASSUME NEW M, NEW L, Sound(M, L), NEW b, Proposed(M, b)
  PROVE  BlockOK(M, L, b)
BY DEF Sound, MsgOK, Proposed

\* The j-th entry of a ledger is a backed block of height j.
LEMMA LedgerBlocks ==
  ASSUME NEW M, NEW L, Sound(M, L), NEW c \in Shard, NEW j \in 1..Len(L[c])
  PROVE  /\ EntryOK(M, c, j, L[c][j])
         /\ L[c][j].block.chain = c /\ L[c][j].block.height = j
         /\ BlockOK(M, L, L[c][j].block)
BY ProposedIsOK DEF Sound, LedgersOK, EntryOK

\* A shard agrees on one block, with one code, a height.
LEMMA EntryOnce ==
  ASSUME NEW M, NEW L, Sound(M, L), NEW c \in Shard, NEW h, NEW e, NEW f,
         EntryOK(M, c, h, e), EntryOK(M, c, h, f)
  PROVE  e = f
<1>1. e.block = f.block
  BY HashOnce DEF EntryOK, Hash
<1>2. e.ok = f.ok
  <2> DEFINE S == Precommitters(M, c, h, e.ok)
             T == Precommitters(M, c, h, f.ok)
  <2>1. /\ S \in SUBSET DOMAIN Votes[c] /\ T \in SUBSET DOMAIN Votes[c]
        /\ OverTwoThirds(Votes[c], Power(Votes[c], S)) /\ OverTwoThirds(Votes[c], Power(Votes[c], T))
    BY DEF Precommitters, EntryOK, Chosen
  <2>2. PICK v : v \in S \cap T
    <3> HIDE DEF S, T
    <3> QED BY <2>1, PeerLists, QuorumsIntersect
  <2>3. PrecommitMsg(c, v, <<c, h>>, e.ok) \in M /\ PrecommitMsg(c, v, <<c, h>>, f.ok) \in M
    BY <2>2 DEF Precommitters
  <2> DEFINE m == PrecommitMsg(c, v, <<c, h>>, e.ok)
             k == PrecommitMsg(c, v, <<c, h>>, f.ok)
  <2>4. /\ m.type = "Precommit" /\ m.to = c /\ m.height = h /\ m.from = v /\ m.ok = e.ok
        /\ k.type = "Precommit" /\ k.to = c /\ k.height = h /\ k.from = v /\ k.ok = f.ok
    BY DEF PrecommitMsg
  <2> HIDE DEF m, k
  <2>5. m = k
    BY <2>3, <2>4 DEF Sound, OneVote, IsVote, m, k
  <2> QED BY <2>4, <2>5
<1> QED BY <1>1, <1>2 DEF EntryOK

\* An open block is open once.
LEMMA OpenOnce ==
  ASSUME NEW L, NEW c, NEW k \in Nat, NEW p, NEW q, OpenAfter(L, c, k, p), OpenAfter(L, c, k, q),
         NoneIsNil
  PROVE  p = q
<1> DEFINE Type(j) == L[c][j].block.type
           At(x) == \E j \in 1..k : /\ x = <<c, j>> /\ Type(j) = "Cross"
                                    /\ \A l \in (j + 1)..k : Type(l) \notin {"Cross", "BCommit"}
           No(x) == /\ x = None
                    /\ \A j \in 1..k : Type(j) = "Cross" => \E l \in (j + 1)..k : Type(l) = "BCommit"
<1>1. (No(p) \/ At(p)) /\ (No(q) \/ At(q))
  BY DEF OpenAfter
<1> HIDE DEF Type
<1>2. CASE No(p) /\ No(q)
  BY <1>2
<1>3. CASE At(p) /\ At(q)
  <2>1. PICK i \in 1..k : /\ p = <<c, i>> /\ Type(i) = "Cross"
                          /\ \A l \in (i + 1)..k : Type(l) \notin {"Cross", "BCommit"}
    BY <1>3
  <2>2. PICK j \in 1..k : /\ q = <<c, j>> /\ Type(j) = "Cross"
                          /\ \A l \in (j + 1)..k : Type(l) \notin {"Cross", "BCommit"}
    BY <1>3
  <2>3. ~(i < j) /\ ~(j < i)
    BY <2>1, <2>2
  <2> QED BY <2>1, <2>2, <2>3
<1>4. ~(No(p) /\ At(q)) /\ ~(No(q) /\ At(p))
  OBVIOUS
<1> QED BY <1>1, <1>2, <1>3, <1>4

\* A B-shard decides a block once,
LEMMA DecidedOnce ==
  ASSUME NEW M, NEW L, Sound(M, L), NEW c \in Shard,
         NEW i \in 1..Len(L[c]), NEW j \in 1..Len(L[c]),
         L[c][i].block.type = "BCommit", L[c][j].block.type = "BCommit",
         L[c][i].block.hash = L[c][j].block.hash
  PROVE  i = j
<1> DEFINE a == L[c][i].block
           b == L[c][j].block
           x == a.hash
<1>1. /\ x # None
      /\ OpenAfter(L, c, i - 1, x) /\ OpenAfter(L, c, j - 1, x)
  <2>1. /\ BlockOK(M, L, a) /\ a.chain = c /\ a.height = i /\ a.type = "BCommit"
        /\ BlockOK(M, L, b) /\ b.chain = c /\ b.height = j /\ b.type = "BCommit"
    BY LedgerBlocks
  <2>2. AcceptSetOK(M, L, a) /\ AcceptSetOK(M, L, b) /\ b.hash = x
    BY <2>1 DEF BlockOK
  <2> HIDE DEF a, b
  <2> QED BY <2>1, <2>2 DEF AcceptSetOK
<1>2. PICK k \in 1..(i - 1) : /\ x = <<c, k>>
                              /\ \A l \in (k + 1)..(i - 1) : L[c][l].block.type \notin {"Cross", "BCommit"}
  BY <1>1 DEF OpenAfter
<1>3. PICK q \in 1..(j - 1) : /\ x = <<c, q>>
                              /\ \A l \in (q + 1)..(j - 1) : L[c][l].block.type \notin {"Cross", "BCommit"}
  BY <1>1 DEF OpenAfter
<1> HIDE DEF x
<1>4. k = q
  BY <1>2, <1>3
<1>5. i \in Nat /\ j \in Nat
  OBVIOUS
<1>6. ~(i < j) /\ ~(j < i)
  BY <1>2, <1>3, <1>4, <1>5
<1> QED BY <1>5, <1>6

\* an I-shard answers it once
LEMMA AnsweredOnce ==
  ASSUME NEW M, NEW L, Sound(M, L), NEW c \in Shard,
         NEW i \in 1..Len(L[c]), NEW j \in 1..Len(L[c]),
         L[c][i].block.type = "IAccept", L[c][j].block.type = "IAccept",
         Hash(L[c][i].block.csb.block) = Hash(L[c][j].block.csb.block)
  PROVE  i = j
<1> DEFINE a == L[c][i].block
           b == L[c][j].block
<1>1. /\ BlockOK(M, L, a) /\ a.chain = c /\ a.height = i /\ a.type = "IAccept"
      /\ BlockOK(M, L, b) /\ b.chain = c /\ b.height = j /\ b.type = "IAccept"
  BY LedgerBlocks
<1>2. InLedger(L, a.csb.block) /\ InLedger(L, b.csb.block)
  BY <1>1 DEF BlockOK, CsbOK
<1>3. a.csb.block = b.csb.block
  BY <1>2 DEF InLedger, Hash
<1>4. ~(i < j)
  <2> SUFFICES ASSUME i < j PROVE FALSE
    OBVIOUS
  <2>1. i \in 1..(b.height - 1)
    BY <1>1
  <2> QED BY <1>1, <1>3, <2>1 DEF BlockOK, FreshBlock
<1>5. ~(j < i)
  <2> SUFFICES ASSUME j < i PROVE FALSE
    OBVIOUS
  <2>1. j \in 1..(a.height - 1)
    BY <1>1
  <2> QED BY <1>1, <1>3, <2>1 DEF BlockOK, FreshBlock
<1> QED BY <1>4, <1>5

\* and executes the decision once.
LEMMA AppliedOnce ==
  ASSUME NEW M, NEW L, Sound(M, L), NEW c \in Shard,
         NEW i \in 1..Len(L[c]), NEW j \in 1..Len(L[c]),
         L[c][i].block.type = "ICommit", L[c][j].block.type = "ICommit",
         NEW k \in DOMAIN L[c][i].block.commits, NEW l \in DOMAIN L[c][j].block.commits,
         L[c][i].block.commits[k].hash = L[c][j].block.commits[l].hash
  PROVE  i = j
<1> DEFINE a == L[c][i].block
           b == L[c][j].block
<1>1. /\ BlockOK(M, L, a) /\ a.chain = c /\ a.height = i /\ a.type = "ICommit"
      /\ BlockOK(M, L, b) /\ b.chain = c /\ b.height = j /\ b.type = "ICommit"
  BY LedgerBlocks
<1>2. ~(i < j)
  <2> SUFFICES ASSUME i < j PROVE FALSE
    OBVIOUS
  <2>1. i \in 1..(b.height - 1)
    BY <1>1
  <2> QED BY <1>1, <2>1 DEF BlockOK, FreshBlock
<1>3. ~(j < i)
  <2> SUFFICES ASSUME j < i PROVE FALSE
    OBVIOUS
  <2>1. j \in 1..(a.height - 1)
    BY <1>1
  <2> QED BY <1>1, <2>1 DEF BlockOK, FreshBlock
<1> QED BY <1>2, <1>3
-----------------------------------------------------------------------------
(* Sets of votes.                                                          *)

\* An empty set of votes is consistent.
LEMMA NewSetOK ==
  ASSUME NEW M, NEW c, NEW type, NEW h
  PROVE  VoteSetOK(M, c, type, h, NewVoteSet(Votes[c]))
BY DEF VoteSetOK, NewVoteSet, Voters

\* The vote of a validator, as a message.
VoteMsg(type, c, h, v, ok) ==
  [type |-> type, to |-> c, height |-> h, from |-> v, hash |-> <<c, h>>, ok |-> ok]

\* A vote that is counted is counted once, with the Vote of its validator.
LEMMA VoteAdded ==
  ASSUME NoneIsNil, NEW c \in Shard, NEW M, NEW type, NEW h, NEW set, VoteSetOK(M, c, type, h, set),
         NEW m, m.from \in DOMAIN Votes[c], m.hash = <<c, h>>, m.ok \in BOOLEAN,
         VoteMsg(type, c, h, m.from, m.ok) \in M
  PROVE  VoteSetOK(M, c, type, h, AddVote(Votes[c], set, m))
<1> DEFINE v == m.from
           x == <<<<c, h>>, m.ok>>
           p == CntWith(Votes[c], set, m)
           new == AddVote(Votes[c], set, m)
<1>1. PeerList(Votes[c]) /\ x # None /\ Choice(m) = x
  BY PeerLists DEF NoneIsNil, Choice
<1>2. CASE set.votes[v] # None
  BY <1>2 DEF AddVote
<1>3. CASE set.votes[v] = None
  <2> HIDE DEF p, x
  <2>1. new = [votes |-> [set.votes EXCEPT ![v] = x],
               cnt   |-> [y \in DOMAIN set.cnt \cup {x} |-> IF y = x THEN p ELSE set.cnt[y]],
               maj   |-> IF set.maj = None /\ OverTwoThirds(Votes[c], p) THEN x ELSE set.maj]
    BY <1>1, <1>3 DEF AddVote, p
  <2> HIDE DEF new
  <2>2. /\ new.votes = [set.votes EXCEPT ![v] = x]
        /\ new.cnt = [y \in DOMAIN set.cnt \cup {x} |-> IF y = x THEN p ELSE set.cnt[y]]
        /\ new.maj = IF set.maj = None /\ OverTwoThirds(Votes[c], p) THEN x ELSE set.maj
    BY <2>1
  <2>3. /\ DOMAIN new.votes = DOMAIN Votes[c]
        /\ \A w \in DOMAIN Votes[c] : new.votes[w] = IF w = v THEN x ELSE set.votes[w]
    BY <2>2 DEF VoteSetOK
  <2>4. ASSUME NEW w \in DOMAIN Votes[c], new.votes[w] # None
        PROVE  \E ok \in BOOLEAN : new.votes[w] = <<<<c, h>>, ok>> /\ VoteMsg(type, c, h, w, ok) \in M
    <3>1. CASE w = v
      BY <2>3, <3>1 DEF x
    <3>2. CASE w # v
      BY <2>3, <2>4, <3>2 DEF VoteSetOK, VoteMsg
    <3> QED BY <3>1, <3>2
  <2>5. /\ Voters(c, new, x) = Voters(c, set, x) \cup {v} /\ v \notin Voters(c, set, x)
        /\ \A y : y # x /\ y # None => Voters(c, new, y) = Voters(c, set, y)
    BY <1>1, <1>3, <2>3 DEF Voters
  <2>6. p = Power(Votes[c], Voters(c, new, x))
    <3>1. Power(Votes[c], Voters(c, new, x)) = Power(Votes[c], Voters(c, set, x)) + Votes[c][v]
      BY <1>1, <2>5, PowerAdd DEF Voters
    <3>2. CASE x \in DOMAIN set.cnt
      BY <1>1, <3>1, <3>2 DEF p, CntWith, VoteSetOK
    <3>3. CASE x \notin DOMAIN set.cnt
      <4>1. Voters(c, set, x) = {}
        BY <1>1, <3>3 DEF VoteSetOK
      <4>2. 0 + Votes[c][v] = Votes[c][v]
        BY <1>1 DEF PeerList
      <4> QED BY <1>1, <3>1, <3>3, <4>1, <4>2, PowerEmpty DEF p, CntWith
    <3> QED BY <3>2, <3>3
  <2>7. ASSUME NEW y, y # None
        PROVE  IF y \in DOMAIN new.cnt THEN new.cnt[y] = Power(Votes[c], Voters(c, new, y))
                                       ELSE Voters(c, new, y) = {}
    <3>1. CASE y = x
      BY <2>2, <2>6, <3>1
    <3>2. CASE y # x
      BY <2>2, <2>5, <2>7, <3>2 DEF VoteSetOK
    <3> QED BY <3>1, <3>2
  <2>8. ASSUME new.maj # None
        PROVE  new.maj \in DOMAIN new.cnt /\ OverTwoThirds(Votes[c], new.cnt[new.maj])
    <3>1. CASE set.maj = None
      BY <2>2, <2>8, <3>1
    <3>2. CASE set.maj # None /\ set.maj # x
      BY <2>2, <3>2 DEF VoteSetOK
    <3>3. CASE set.maj # None /\ set.maj = x
      \* The power behind a choice only grows.
      <4>1. OverTwoThirds(Votes[c], Power(Votes[c], Voters(c, set, x)))
        BY <3>3 DEF VoteSetOK
      <4>2. Power(Votes[c], Voters(c, set, x)) <= Power(Votes[c], Voters(c, new, x))
        BY <1>1, <2>5, PowerMonotone DEF Voters
      <4>3. /\ Power(Votes[c], Voters(c, set, x)) \in Nat /\ Power(Votes[c], Voters(c, new, x)) \in Nat
            /\ TotalVotes(Votes[c]) \in Nat
        BY <1>1, PowerType DEF Voters, TotalVotes
      <4>4. OverTwoThirds(Votes[c], p)
        BY <2>6, <4>1, <4>2, <4>3 DEF OverTwoThirds
      <4> QED BY <2>2, <3>3, <4>4
    <3> QED BY <3>1, <3>2, <3>3
  <2> QED BY <2>3, <2>4, <2>7, <2>8, Zenon DEF VoteSetOK, VoteMsg, new
<1> QED BY <1>2, <1>3

\* A majority is a quorum of votes that have been sent.
LEMMA MajIsQuorum ==
  ASSUME NEW c \in Shard, NEW M, NEW type, NEW h, NEW set, VoteSetOK(M, c, type, h, set),
         set.maj # None
  PROVE  \E ok \in BOOLEAN :
           /\ set.maj = <<<<c, h>>, ok>>
           /\ Maj23Signers(set) = Voters(c, set, set.maj)
           /\ \A v \in Voters(c, set, set.maj) : VoteMsg(type, c, h, v, ok) \in M
           /\ Voters(c, set, set.maj) # {}
           /\ OverTwoThirds(Votes[c], Power(Votes[c], Voters(c, set, set.maj)))
<1> DEFINE S == Voters(c, set, set.maj)
<1>1. OverTwoThirds(Votes[c], Power(Votes[c], S))
  BY DEF VoteSetOK
<1>2. Maj23Signers(set) = S
  BY DEF VoteSetOK, Maj23Signers, Voters
<1>3. S # {}
  <2> SUFFICES ASSUME S = {} PROVE FALSE
    OBVIOUS
  <2>1. 0 > (TotalVotes(Votes[c]) * 2) \div 3
    BY <1>1, PowerEmpty DEF OverTwoThirds
  <2>2. TotalVotes(Votes[c]) \in Nat
    BY PeerLists, PowerType DEF TotalVotes
  <2>3. \A t \in Nat : (t * 2) \div 3 >= 0
    OBVIOUS
  <2> QED BY <2>1, <2>2, <2>3
<1>4. \A v \in S : \E ok \in BOOLEAN : set.maj = <<<<c, h>>, ok>> /\ VoteMsg(type, c, h, v, ok) \in M
  BY DEF Voters, VoteSetOK, VoteMsg
<1>5. PICK ok \in BOOLEAN : set.maj = <<<<c, h>>, ok>>
  BY <1>3, <1>4
<1>6. \A v \in S : VoteMsg(type, c, h, v, ok) \in M
  BY <1>4, <1>5
<1> QED BY <1>1, <1>2, <1>3, <1>5, <1>6
-----------------------------------------------------------------------------
(* Functions that change some of the fields of a state.                    *)

SameControl(s, t) ==
  t.height = s.height /\ t.step = s.step /\ t.up = s.up /\ t.create = s.create
SameRound(s, t) ==
  /\ t.proposal = s.proposal /\ t.block = s.block
  /\ t.prevotes = s.prevotes /\ t.precommits = s.precommits
SamePools(s, t) ==
  /\ t.csbPool = s.csbPool /\ t.commitPool = s.commitPool /\ t.committed = s.committed
  /\ t.pending = s.pending /\ t.maPool = s.maPool
  /\ t.shardHeight = s.shardHeight /\ t.store = s.store
SameRest(s, t) ==
  t.ledger = s.ledger /\ t.bseen = s.bseen /\ t.relay = s.relay /\ t.out = s.out

PoolsOK(n, s, M, L) ==
  /\ ChainOf(n) \in IShards => IPoolsOK(ChainOf(n), s, M, L)
  /\ ChainOf(n) \in BShards => BPoolsOK(ChainOf(n), s, M, L) /\ CopiesOK(ChainOf(n), s, L)

\* What a node has collected in its round, if it is left alone.
LEMMA RoundSame ==
  ASSUME NEW n, NEW s, NEW t, NEW M, RoundOK(n, s, M), SameRound(s, t), t.height = s.height
  PROVE  RoundOK(n, t, M)
BY DEF RoundOK, SameRound

\* The pools, if they are left alone.
LEMMA PoolsSame ==
  ASSUME NEW n, NEW s, NEW t, NEW M, NEW L, PoolsOK(n, s, M, L), SamePools(s, t), t.ledger = s.ledger
  PROVE  PoolsOK(n, t, M, L)
BY DEF PoolsOK, SamePools, IPoolsOK, BPoolsOK, CopiesOK

\* The node has sent nothing and executed nothing.
LEMMA Kept ==
  ASSUME NEW n, NEW s, NEW t, NEW M, NEW L, NodeOK(n, s, M, L),
         IsState(t), SameControl(s, t), t.ledger = s.ledger, t.out = s.out,
         RoundOK(n, t, M), PoolsOK(n, t, M, L), TogetherOK(n, t, L),
         RelayOK(n, t, M)
  PROVE  NodeOK(n, t, M, L)
<1>1. ControlOK(n, t)
  BY DEF NodeOK, ControlOK, SameControl, IsProposer
<1>2. LedgerOK(n, t, L)
  BY DEF NodeOK, LedgerOK, SameControl
<1>3. SentOK(n, t, M)
  BY DEF NodeOK, SentOK, SameControl
<1>4. OutOK(n, t)
  BY DEF NodeOK, OutOK
<1> QED BY <1>1, <1>2, <1>3, <1>4 DEF NodeOK, PoolsOK

\* A message that waits for its height.
LEMMA RelayAdded ==
  ASSUME NEW n, NEW s, NEW M, NEW L, NodeOK(n, s, M, L), NEW m \in M, m.to = ChainOf(n), m.type # "CSB"
  PROVE  NodeOK(n, AddRelayMessage(s, m), M, L)
<1> DEFINE t == AddRelayMessage(s, m)
<1>1. /\ IsState(t) /\ SameControl(s, t) /\ SameRound(s, t) /\ SamePools(s, t)
      /\ t.ledger = s.ledger /\ t.out = s.out /\ t.bseen = s.bseen /\ t.relay = s.relay \cup {m}
  BY DEF NodeOK, IsState, StateFields, AddRelayMessage, SameControl, SameRound, SamePools
<1> HIDE DEF t
<1>2. t.height = s.height
  BY <1>1 DEF SameControl
<1>3. RoundOK(n, t, M) /\ PoolsOK(n, t, M, L)
  BY <1>1, <1>2, RoundSame, PoolsSame DEF NodeOK, PoolsOK
<1>4. TogetherOK(n, t, L)
  BY <1>1, <1>2 DEF NodeOK, TogetherOK
<1>5. RelayOK(n, t, M)
  BY <1>1 DEF NodeOK, RelayOK
<1>6. NodeOK(n, t, M, L)
  BY <1>1, <1>3, <1>4, <1>5, Kept
<1> QED BY <1>6 DEF t

\* AddPrevote and AddPrecommit.
LEMMA VoteCounted ==
  ASSUME NoneIsNil, NEW n \in Node, NEW s, NEW M, NEW L, Sound(M, L), NodeOK(n, s, M, L),
         NEW m \in M, m.to = ChainOf(n), IsVote(m)
  PROVE  NodeOK(n, DoVote(n, s, m).state, M, L)
<1> DEFINE c == ChainOf(n)
           t == IF m.type = "Prevote" THEN [s EXCEPT !.prevotes = AddVote(Votes[c], @, m)]
                                      ELSE [s EXCEPT !.precommits = AddVote(Votes[c], @, m)]
<1>1. c \in Shard
  BY Nodes
<1>2. DoVote(n, s, m).state = s \/ (m.height = s.height /\ DoVote(n, s, m).state = t)
  BY DEF DoVote, Look, Return
<1>3. ASSUME m.height = s.height PROVE NodeOK(n, t, M, L)
  <2>1. /\ m.from \in DOMAIN Votes[c] /\ m.hash = <<c, s.height>> /\ m.ok \in BOOLEAN
        /\ VoteMsg(m.type, c, s.height, m.from, m.ok) \in M
    <3>1. VoteOK(M, m)
      BY DEF Sound, MsgOK
    <3>2. m.hash = <<m.to, m.height>>
      BY <3>1 DEF VoteOK
    <3>3. m = VoteMsg(m.type, c, s.height, m.from, m.ok)
      BY <1>3, <3>1, <3>2, Zenon DEF VoteOK, VoteMsg
    <3>4. m.from \in DOMAIN Votes[c] /\ m.ok \in BOOLEAN
      BY <3>1 DEF VoteOK, OkFor
    <3> QED BY <1>3, <3>2, <3>3, <3>4
  <2>2. /\ IsState(t) /\ SameControl(s, t) /\ SamePools(s, t) /\ SameRest(s, t)
        /\ t.proposal = s.proposal /\ t.block = s.block
        /\ t.prevotes = IF m.type = "Prevote" THEN AddVote(Votes[c], s.prevotes, m) ELSE s.prevotes
        /\ t.precommits = IF m.type = "Prevote" THEN s.precommits ELSE AddVote(Votes[c], s.precommits, m)
    BY DEF NodeOK, IsState, StateFields, SameControl, SamePools, SameRest
  <2> HIDE DEF t, c
  <2>3. /\ VoteSetOK(M, c, "Prevote", s.height, s.prevotes)
        /\ VoteSetOK(M, c, "Precommit", s.height, s.precommits)
    BY DEF NodeOK, RoundOK, c
  <2>4. VoteSetOK(M, c, "Prevote", s.height, t.prevotes)
    <3>1. CASE m.type = "Prevote"
      BY <1>1, <2>1, <2>2, <2>3, <3>1, VoteAdded
    <3>2. CASE m.type # "Prevote"
      BY <2>2, <2>3, <3>2
    <3> QED BY <3>1, <3>2
  <2>5. VoteSetOK(M, c, "Precommit", s.height, t.precommits)
    <3>1. CASE m.type = "Precommit"
      BY <1>1, <2>1, <2>2, <2>3, <3>1, VoteAdded
    <3>2. CASE m.type # "Precommit"
      BY <2>2, <2>3, <3>2 DEF IsVote
    <3> QED BY <3>1, <3>2
  <2>6. t.height = s.height
    BY <2>2 DEF SameControl
  <2>7. RoundOK(n, t, M)
    BY <2>2, <2>4, <2>5, <2>6 DEF NodeOK, RoundOK, c
  <2>8. PoolsOK(n, t, M, L) /\ TogetherOK(n, t, L)
    BY <2>2, <2>6, PoolsSame DEF NodeOK, PoolsOK, TogetherOK, SameRest
  <2> QED BY <2>2, <2>7, <2>8, Kept DEF NodeOK, RelayOK, SameRest
<1> QED BY <1>2, <1>3

\* AddProposal: a block of the proposer of the height.
LEMMA ProposalAdded ==
  ASSUME NEW n, NEW s, NEW M, NEW L, Sound(M, L), NodeOK(n, s, M, L),
         NEW m \in M, m.to = ChainOf(n), m.type = "Proposal", CanAddProposal(n, s, m)
  PROVE  NodeOK(n, AddProposal(s, m), M, L)
<1> DEFINE t == AddProposal(s, m)
<1>1. /\ IsState(t) /\ SameControl(s, t) /\ SamePools(s, t) /\ SameRest(s, t)
      /\ t.proposal = m.block /\ t.block \in {m.block, s.block}
      /\ t.prevotes = s.prevotes /\ t.precommits = s.precommits
  BY DEF NodeOK, IsState, StateFields, AddProposal, WithParts, SameControl, SamePools, SameRest
<1> HIDE DEF t
<1>2. m.to = m.block.chain /\ m.height = m.block.height /\ m.height = s.height /\ s.proposal = None
  BY DEF Sound, MsgOK, CanAddProposal
<1>3. t.height = s.height
  BY <1>1 DEF SameControl
<1>4. RoundOK(n, t, M)
  <2>1. Proposed(M, t.proposal) /\ t.proposal.chain = ChainOf(n) /\ t.proposal.height = t.height
    BY <1>1, <1>2, <1>3 DEF Proposed
  <2>2. t.block # None => t.block = t.proposal
    BY <1>1, <1>2 DEF NodeOK, RoundOK
  <2> QED BY <1>1, <1>3, <2>1, <2>2 DEF NodeOK, RoundOK
<1>5. PoolsOK(n, t, M, L) /\ TogetherOK(n, t, L)
  BY <1>1, <1>3, PoolsSame DEF NodeOK, PoolsOK, TogetherOK, SameRest
<1>6. NodeOK(n, t, M, L)
  BY <1>1, <1>4, <1>5, Kept DEF NodeOK, RelayOK, SameRest
<1> QED BY <1>6 DEF t

\* A part that comes before the proposal, and the parts of the proposal.
LEMMA PartBuffered ==
  ASSUME NEW n, NEW s, NEW M, NEW L, NodeOK(n, s, M, L), NEW m
  PROVE  NodeOK(n, [s EXCEPT !.buffer = @ \cup {m}], M, L)
<1> DEFINE t == [s EXCEPT !.buffer = @ \cup {m}]
<1>1. IsState(t) /\ SameControl(s, t) /\ SameRound(s, t) /\ SamePools(s, t) /\ SameRest(s, t)
  BY DEF NodeOK, IsState, StateFields, SameControl, SameRound, SamePools, SameRest
<1> HIDE DEF t
<1>2. RoundOK(n, t, M) /\ PoolsOK(n, t, M, L) /\ TogetherOK(n, t, L)
  BY <1>1, RoundSame, PoolsSame DEF NodeOK, PoolsOK, TogetherOK, SameRest, SameControl
<1>3. NodeOK(n, t, M, L)
  BY <1>1, <1>2, Kept DEF NodeOK, RelayOK, SameRest
<1> QED BY <1>3 DEF t

\* AddPart.
LEMMA PartAdded ==
  ASSUME NEW n, NEW s, NEW M, NEW L, NodeOK(n, s, M, L), NEW m
  PROVE  NodeOK(n, AddPart(s, m), M, L)
<1> DEFINE t == AddPart(s, m)
<1>1. /\ IsState(t) /\ SameControl(s, t) /\ SamePools(s, t) /\ SameRest(s, t)
      /\ t.proposal = s.proposal /\ t.block \in {s.proposal, s.block}
      /\ t.prevotes = s.prevotes /\ t.precommits = s.precommits
  BY DEF NodeOK, IsState, StateFields, AddPart, WithParts, SameControl, SamePools, SameRest
<1> HIDE DEF t
<1>2. RoundOK(n, t, M) /\ PoolsOK(n, t, M, L) /\ TogetherOK(n, t, L)
  BY <1>1, PoolsSame DEF NodeOK, RoundOK, PoolsOK, TogetherOK, SameRest, SameControl
<1>3. NodeOK(n, t, M, L)
  BY <1>1, <1>2, Kept DEF NodeOK, RelayOK, SameRest
<1> QED BY <1>3 DEF t

\* A MessageOK counts for the height of the node, also the one of the next
\* height: its sender has finished both.
LEMMA OKCounted ==
  ASSUME NEW n \in Node, NEW s, NEW M, NEW L, Sound(M, L), NodeOK(n, s, M, L),
         NEW m \in M, m.to = ChainOf(n), m.type = "OK"
  PROVE  NodeOK(n, DoMessageOK(n, s, m).state, M, L)
<1> DEFINE kept == IF OverTime(s, m) THEN AddRelayMessage(s, m) ELSE s
           down == [kept EXCEPT !.up = FALSE]
           t == [kept EXCEPT !.bseen = @ \cup {m.src}]
           r == DoMessageOK(n, s, m).state
<1>1. NodeOK(n, kept, M, L) /\ kept.height = s.height
  <2>1. AddRelayMessage(s, m).height = s.height
    BY DEF AddRelayMessage, NodeOK, IsState, StateFields
  <2> QED BY <2>1, RelayAdded
<1>2. \/ r = kept
      \/ s.height = 0 /\ r = down
      \/ m.height >= s.height /\ r = t
  <2>1. m.height \in Nat /\ s.height \in Nat
    BY DEF Sound, MsgOK, NodeOK, ControlOK
  <2> HIDE DEF kept
  <2>2. m.height < s.height \/ m.height >= s.height
    BY <2>1
  <2> QED BY <2>2 DEF DoMessageOK, Return, Look, kept
<1> HIDE DEF kept
<1>3. ASSUME s.height = 0 PROVE NodeOK(n, down, M, L)
  <2>1. /\ IsState(down) /\ SameRound(kept, down) /\ SamePools(kept, down) /\ SameRest(kept, down)
        /\ down.height = kept.height /\ down.step = kept.step /\ down.create = kept.create
        /\ down.up = FALSE
    BY <1>1 DEF NodeOK, IsState, StateFields, SameRound, SamePools, SameRest
  <2> HIDE DEF down
  <2>2. ControlOK(n, down)
    BY <1>1, <1>3, <2>1 DEF NodeOK, ControlOK, IsProposer
  <2>3. RoundOK(n, down, M) /\ PoolsOK(n, down, M, L)
    BY <1>1, <2>1, RoundSame, PoolsSame DEF NodeOK, PoolsOK, SameRest
  <2>4. /\ LedgerOK(n, down, L) /\ TogetherOK(n, down, L)
        /\ SentOK(n, down, M) /\ OutOK(n, down) /\ down.relay = kept.relay
    BY <1>1, <2>1 DEF NodeOK, LedgerOK, TogetherOK, SentOK, OutOK, SameRest
  <2> QED BY <1>1, <2>1, <2>2, <2>3, <2>4 DEF NodeOK, RelayOK, PoolsOK
<1>4. ASSUME m.height >= s.height PROVE NodeOK(n, t, M, L)
  <2>1. /\ IsState(t) /\ SameControl(kept, t) /\ SameRound(kept, t) /\ SamePools(kept, t)
        /\ t.ledger = kept.ledger /\ t.out = kept.out /\ t.relay = kept.relay
        /\ t.bseen = kept.bseen \cup {m.src} /\ t.height = s.height
    BY <1>1 DEF NodeOK, IsState, StateFields, SameControl, SameRound, SamePools
  <2> HIDE DEF t
  <2>2. RoundOK(n, t, M) /\ PoolsOK(n, t, M, L)
    BY <1>1, <2>1, RoundSame, PoolsSame DEF NodeOK, PoolsOK
  <2>3. m.src \in Related[ChainOf(n)] /\ s.height <= Len(L[m.src])
    <3>1. m.src \in Related[ChainOf(n)] /\ m.height <= Len(L[m.src]) /\ m.height \in Nat
      BY DEF Sound, MsgOK
    <3>2. Len(L[m.src]) \in Nat /\ s.height \in Nat
      BY <3>1, Nodes, Neighbours DEF Sound, LedgersOK, NodeOK, ControlOK
    <3> QED BY <1>4, <3>1, <3>2
  <2>4. TogetherOK(n, t, L)
    BY <1>1, <2>1, <2>3 DEF NodeOK, TogetherOK
  <2> QED BY <1>1, <2>1, <2>2, <2>4, Kept DEF NodeOK, RelayOK
<1> QED BY <1>1, <1>2, <1>3, <1>4

\* A handler that collects what other shards send.
LEMMA Collected ==
  ASSUME NEW n, NEW s, NEW t, NEW M, NEW L, NodeOK(n, s, M, L),
         IsState(t), SameControl(s, t), SameRound(s, t), SameRest(s, t), PoolsOK(n, t, M, L)
  PROVE  NodeOK(n, t, M, L)
<1>1. RoundOK(n, t, M) /\ TogetherOK(n, t, L) /\ RelayOK(n, t, M)
  BY RoundSame DEF NodeOK, TogetherOK, RelayOK, SameRest, SameControl
<1> QED BY <1>1, Kept DEF SameRest

\* DoMessageAccept takes only answers to the open block, one a shard.
LEMMA AcceptCollected ==
  ASSUME NoneIsNil, NEW n \in Node, NEW s, NEW M, NEW L, Sound(M, L), NodeOK(n, s, M, L),
         NEW m \in M, m.to = ChainOf(n), m.type = "Accept"
  PROVE  NodeOK(n, DoMessageAccept(n, s, m).state, M, L)
<1> DEFINE t == [s EXCEPT !.maPool = @ \cup {m.sig}]
           r == DoMessageAccept(n, s, m).state
<1>1. AnswerOK(M, L, ChainOf(n), m.hash, m.sig)
  BY DEF Sound, MsgOK
<1>2. \/ r = s
      \/ /\ r = t /\ ChainOf(n) \notin IShards /\ m.hash = s.pending
         /\ \A sig \in s.maPool : sig.chain # m.sig.chain
  BY DEF DoMessageAccept, Return, Look
<1>3. ASSUME ChainOf(n) \notin IShards, m.hash = s.pending, \A sig \in s.maPool : sig.chain # m.sig.chain
      PROVE  NodeOK(n, t, M, L)
  <2>1. /\ IsState(t) /\ SameControl(s, t) /\ SameRound(s, t) /\ SameRest(s, t)
        /\ t.pending = s.pending /\ t.maPool = s.maPool \cup {m.sig}
        /\ t.shardHeight = s.shardHeight /\ t.store = s.store
    BY DEF NodeOK, IsState, StateFields, SameControl, SameRound, SameRest
  <2> HIDE DEF t
  <2>2. m.hash # None
    BY <1>1 DEF AnswerOK, Answered, Hash, NoneIsNil
  <2>3. PoolsOK(n, t, M, L)
    <3>1. ChainOf(n) \in BShards => BPoolsOK(ChainOf(n), t, M, L)
      BY <1>1, <1>3, <2>1, <2>2 DEF NodeOK, BPoolsOK, SameRest
    <3>2. ChainOf(n) \in BShards => CopiesOK(ChainOf(n), t, L)
      BY <2>1 DEF NodeOK, CopiesOK
    <3> QED BY <1>3, <3>1, <3>2 DEF PoolsOK
  <2> QED BY <2>1, <2>3, Collected
<1> QED BY <1>2, <1>3

\* DoMessageCommit takes only decisions that are not executed.
LEMMA CommitCollected ==
  ASSUME NEW n \in Node, NEW s, NEW M, NEW L, Sound(M, L), NodeOK(n, s, M, L),
         NEW m \in M, m.to = ChainOf(n), m.type = "Commit"
  PROVE  NodeOK(n, DoMessageCommit(n, s, m).state, M, L)
<1> DEFINE t == [s EXCEPT !.commitPool =
                  {mc \in @ : mc.hash # m.hash} \cup {[hash |-> m.hash, sig |-> m.sig]}]
           r == DoMessageCommit(n, s, m).state
<1>1. DecisionOK(M, L, ChainOf(n), m)
  BY DEF Sound, MsgOK
<1>2. r = s \/ (r = t /\ ChainOf(n) \notin BShards /\ m.hash \notin s.committed)
  BY DEF DoMessageCommit, Return, Look
<1>3. ASSUME ChainOf(n) \notin BShards, m.hash \notin s.committed
      PROVE  NodeOK(n, t, M, L)
  <2>1. /\ IsState(t) /\ SameControl(s, t) /\ SameRound(s, t) /\ SameRest(s, t)
        /\ t.commitPool = {mc \in s.commitPool : mc.hash # m.hash} \cup {[hash |-> m.hash, sig |-> m.sig]}
        /\ t.csbPool = s.csbPool /\ t.store = s.store /\ t.committed = s.committed
    BY DEF NodeOK, IsState, StateFields, SameControl, SameRound, SameRest
  <2> HIDE DEF t
  <2>2. DecisionOK(M, L, ChainOf(n), [hash |-> m.hash, sig |-> m.sig])
    BY <1>1 DEF DecisionOK
  <2> DEFINE rest == {mc \in s.commitPool : mc.hash # m.hash}
  <2>5. ASSUME ChainOf(n) \in IShards PROVE IsFiniteSet(t.commitPool)
    <3>1. IsFiniteSet(s.commitPool) /\ rest \in SUBSET s.commitPool
      BY <2>5 DEF NodeOK, IPoolsOK
    <3> HIDE DEF rest
    <3>2. IsFiniteSet(rest)
      BY <3>1, FS_Subset
    <3>3. IsFiniteSet(rest \cup {[hash |-> m.hash, sig |-> m.sig]})
      BY <3>2, FS_AddElement
    <3> QED BY <2>1, <3>3 DEF rest
  <2>3. ChainOf(n) \in IShards => IPoolsOK(ChainOf(n), t, M, L)
    BY <1>3, <2>1, <2>2, <2>5 DEF NodeOK, IPoolsOK, SameRest
  <2>4. PoolsOK(n, t, M, L)
    BY <1>3, <2>3 DEF PoolsOK
  <2> QED BY <2>1, <2>4, Collected
<1> QED BY <1>2, <1>3

\* The last height to which a B-shard has all blocks of an I-shard.
LEMMA LastStoredIsLast ==
  ASSUME NEW s, NEW c, NEW h \in Nat, NEW k \in 0..MaxHeight,
         \A b \in s.store : b.chain = c => b.height \in Nat /\ b.height <= MaxHeight
  PROVE  /\ LastStored(s, c, k + 1, h) \in k..MaxHeight
         /\ \A i \in (k + 1)..LastStored(s, c, k + 1, h) : StoredAt(s, c, i) # {}
<1> DEFINE At(i) == StoredAt(s, c, i)
           top == Max({k + 1, h, MaxHeight + 1})
           End(j) == (\A i \in (k + 1)..j : At(i) # {}) /\ At(j + 1) = {}
           last == LastStored(s, c, k + 1, h)
           S == {j \in Nat : j >= k /\ At(j + 1) = {}}
<1>1. MaxHeight \in Nat /\ k \in Nat
  BY PyramidAssumption DEF BoundsOK
<1>2. \A i \in Nat : At(i) # {} => i <= MaxHeight
  BY DEF StoredAt
<1>3. top \in Int /\ top >= MaxHeight + 1
  <2>1. \E x \in {k + 1, h, MaxHeight + 1} : \A y \in {k + 1, h, MaxHeight + 1} : x >= y
    BY <1>1
  <2> QED BY <1>1, <2>1 DEF Max
<1>4. last = CHOOSE j \in k..top : End(j)
  <2>1. (k + 1) - 1 = k
    BY <1>1
  <2> QED BY <2>1 DEF LastStored
<1> HIDE DEF At, top, last
<1>5. MaxHeight \in S
  BY <1>1, <1>2
<1>6. PICK j \in S : \A i \in S : j <= i
  <2>1. S \subseteq Nat /\ S # {}
    BY <1>5
  <2> HIDE DEF S
  <2>2. PICK j \in S : \A y \in S : ~ (<<y, j>> \in OpToRel(<, Nat))
    BY <2>1, NatLessThanWellFounded, WFMin
  <2>3. \A y \in S : ~ (y < j)
    BY <2>1, <2>2, Zenon DEF OpToRel
  <2>4. \A y \in S : j <= y
    BY <2>1, <2>3
  <2> QED BY <2>4
<1>7. \A i \in (k + 1)..j : At(i) # {}
  <2> SUFFICES ASSUME NEW i \in (k + 1)..j, At(i) = {} PROVE FALSE
    OBVIOUS
  <2>1. (i - 1) \in Nat /\ i - 1 >= k /\ (i - 1) + 1 = i /\ i - 1 < j /\ j \in Nat
    BY <1>1
  <2>2. i - 1 \in S
    BY <2>1
  <2> QED BY <1>6, <2>1, <2>2
<1>8. j \in k..top /\ End(j)
  BY <1>1, <1>3, <1>5, <1>6, <1>7
<1>9. last \in k..top /\ End(last)
  BY <1>4, <1>8
<1>10. last <= MaxHeight
  <2>1. last = k \/ last \in (k + 1)..last
    BY <1>1, <1>9
  <2>2. last \in Nat
    BY <1>1, <1>3, <1>9
  <2>3. last = k \/ At(last) # {}
    BY <1>9, <2>1
  <2> QED BY <1>2, <2>2, <2>3
<1>11. last \in k..MaxHeight /\ \A i \in (k + 1)..last : At(i) # {}
  BY <1>1, <1>3, <1>9, <1>10
<1> QED BY <1>11 DEF last, At

\* A block of a neighbour: an I-shard keeps it in its pool, a B-shard executes
\* what it has of the I-shard.
LEMMA CrossShardBlockCollected ==
  ASSUME NEW n \in Node, NEW s, NEW M, NEW L, Sound(M, L), NodeOK(n, s, M, L),
         NEW m \in M, m.to = ChainOf(n), m.type = "CSB", m.height <= MaxHeight
  PROVE  NodeOK(n, DoCrossShardBlock(n, s, m).state, M, L)
<1> DEFINE c == ChainOf(n)
           d == m.sig.chain
           t == [s EXCEPT !.csbPool = @ \cup {[block |-> m.block, sig |-> m.sig]}]
           u == [s EXCEPT !.store = @ \cup {m.block}]
           w == SyncIBlocks(u, d, m.height, m.sig.ok)
           r == DoCrossShardBlock(n, s, m).state
<1>1. /\ CsbOK(M, L, c, m) /\ m.height = m.block.height /\ m.height \in Nat
      /\ c \in Shard /\ d \in Related[c] /\ d = m.block.chain
  BY Nodes DEF Sound, MsgOK, CsbOK
<1>2. \/ r = s
      \/ r = t /\ c \in IShards /\ m.block \notin s.store
      \/ r = w /\ c \notin IShards
  BY DEF DoCrossShardBlock, Return, Look
<1>3. ASSUME c \in IShards, m.block \notin s.store PROVE NodeOK(n, t, M, L)
  <2>1. /\ IsState(t) /\ SameControl(s, t) /\ SameRound(s, t) /\ SameRest(s, t)
        /\ t.csbPool = s.csbPool \cup {[block |-> m.block, sig |-> m.sig]}
        /\ t.commitPool = s.commitPool /\ t.store = s.store /\ t.committed = s.committed
    BY DEF NodeOK, IsState, StateFields, SameControl, SameRound, SameRest
  <2>2. CsbOK(M, L, c, [block |-> m.block, sig |-> m.sig])
    BY <1>1 DEF CsbOK
  <2>3. c \notin BShards
    BY <1>1, <1>3, Neighbours
  <2> HIDE DEF t, c
  <2>4. IPoolsOK(c, t, M, L)
    BY <1>3, <2>1, <2>2 DEF NodeOK, IPoolsOK, SameRest, c
  <2>5. PoolsOK(n, t, M, L)
    BY <2>3, <2>4 DEF PoolsOK, c
  <2> QED BY <2>1, <2>5, Collected
<1>4. ASSUME c \notin IShards PROVE NodeOK(n, w, M, L)
  <2> DEFINE k == s.shardHeight[d]
             last == LastStored(u, d, k + 1, m.height)
             carried == CarriedBlocks({b \in u.store : b.chain = d /\ b.height \in (k + 1)..last})
  <2>1. /\ c \in BShards /\ c \notin IShards
        /\ CopiesOK(c, s, L) /\ BPoolsOK(c, s, M, L)
    BY <1>1, <1>4, Neighbours DEF NodeOK
  <2>2. IsState(u) /\ u.store = s.store \cup {m.block} /\ u.shardHeight = s.shardHeight
    BY DEF NodeOK, IsState, StateFields
  <2>3. /\ IsState(w) /\ SameControl(s, w) /\ SameRound(s, w) /\ SameRest(s, w)
        /\ w.pending = s.pending /\ w.maPool = s.maPool
        /\ w.store = u.store \cup carried
        /\ w.shardHeight = [s.shardHeight EXCEPT ![d] = last]
    <3>1. /\ IsState(w) /\ SameControl(u, w) /\ SameRound(u, w) /\ SameRest(u, w)
          /\ w.pending = u.pending /\ w.maPool = u.maPool
          /\ w.store = u.store \cup carried
          /\ w.shardHeight = [u.shardHeight EXCEPT ![d] = last]
      <4> HIDE DEF u
      <4> QED BY <2>2 DEF IsState, StateFields, SameControl, SameRound, SameRest, SyncIBlocks, SyncFromTo
    <3>2. /\ SameControl(s, u) /\ SameRound(s, u) /\ SameRest(s, u)
          /\ u.pending = s.pending /\ u.maPool = s.maPool
      BY DEF NodeOK, IsState, StateFields, SameControl, SameRound, SameRest
    <3> HIDE DEF u, w
    <3> QED BY <2>2, <3>1, <3>2 DEF SameControl, SameRound, SameRest
  <2> HIDE DEF w
  <2>4. /\ k \in 0..MaxHeight /\ k <= Len(L[d])
        /\ \A b \in u.store : b.chain \in Related[c] => InLedger(L, b) /\ b.height <= MaxHeight
    BY <1>1, <2>1, <2>2 DEF CopiesOK, CsbOK
  <2>5. last \in k..MaxHeight /\ \A i \in (k + 1)..last : StoredAt(u, d, i) # {}
    <3>1. \A b \in u.store : b.chain = d => b.height \in Nat /\ b.height <= MaxHeight
      BY <1>1, <2>4 DEF InLedger
    <3> HIDE DEF d, k, u
    <3> QED BY <1>1, <2>4, <3>1, LastStoredIsLast
  <2>6. last <= Len(L[d])
    <3>1. last = k \/ last \in (k + 1)..last
      BY <2>5, <2>4, PyramidAssumption DEF BoundsOK
    <3>2. CASE last \in (k + 1)..last
      <4>1. PICK b \in u.store : b.chain = d /\ b.height = last
        BY <2>5, <3>2 DEF StoredAt
      <4> QED BY <1>1, <2>4, <4>1 DEF InLedger
    <3> QED BY <2>4, <3>1, <3>2
  <2>7. \A x \in carried : x.chain \notin Related[c]
    <3> SUFFICES ASSUME NEW b \in u.store, b.chain = d, b.type = "IAccept"
                 PROVE  b.csb.block.chain \notin Related[c]
      BY DEF CarriedBlocks
    <3>1. InLedger(L, b) /\ d \in Shard /\ d \in IShards
      BY <1>1, <2>1, <2>4, Neighbours
    <3>2. BlockOK(M, L, b)
      BY <3>1, LedgerBlocks DEF InLedger
    <3>3. b.csb.block.chain \in Related[d]
      BY <3>2 DEF BlockOK, CsbOK
    <3> QED BY <1>1, <2>1, <3>1, <3>3, Neighbours
  <2> HIDE DEF c, d, k, last, carried, u
  <2>8. CopiesOK(c, w, L)
    <3>1. DOMAIN w.shardHeight = Related[c]
      BY <2>1, <2>3 DEF CopiesOK
    <3>2. ASSUME NEW e \in Related[c]
          PROVE  w.shardHeight[e] \in 0..MaxHeight /\ w.shardHeight[e] <= Len(L[e])
      <4>1. CASE e = d
        <5>1. w.shardHeight[d] = last
          BY <1>1, <2>1, <2>3 DEF CopiesOK
        <5> QED BY <2>4, <2>5, <2>6, <4>1, <5>1, PyramidAssumption DEF BoundsOK
      <4>2. CASE e # d
        BY <2>1, <2>3, <4>2 DEF CopiesOK
      <4> QED BY <4>1, <4>2
    <3>3. \A b \in w.store : b.chain \in Related[c] => InLedger(L, b) /\ b.height <= MaxHeight
      BY <2>3, <2>4, <2>7
    <3> QED BY <3>1, <3>2, <3>3 DEF CopiesOK
  <2>9. BPoolsOK(c, w, M, L)
    BY <2>1, <2>3 DEF BPoolsOK, SameRest
  <2>10. PoolsOK(n, w, M, L)
    BY <2>1, <2>8, <2>9 DEF PoolsOK, c
  <2> QED BY <2>3, <2>10, Collected
<1> QED BY <1>2, <1>3, <1>4

\* No message, whatever it is and whenever it comes, harms the node.
LEMMA MessageKept ==
  ASSUME NoneIsNil, NEW n \in Node, NEW s, NEW M, NEW L, Sound(M, L), NodeOK(n, s, M, L),
         NEW m \in M, m.to = ChainOf(n), m.type = "CSB" => m.height <= MaxHeight
  PROVE  NodeOK(n, Handle(n, s, m).state, M, L)
<1> DEFINE r == Handle(n, s, m).state
<1>1. CASE m.type = "CSB"
  <2>1. r = DoCrossShardBlock(n, s, m).state
    BY <1>1 DEF Handle
  <2> QED BY <1>1, <2>1, CrossShardBlockCollected
<1>2. CASE m.type = "Accept"
  <2>1. r = DoMessageAccept(n, s, m).state
    BY <1>2 DEF Handle
  <2> QED BY <1>2, <2>1, AcceptCollected
<1>3. CASE m.type = "Commit"
  <2>1. r = DoMessageCommit(n, s, m).state
    BY <1>3 DEF Handle
  <2> QED BY <1>3, <2>1, CommitCollected
<1>4. CASE m.type = "OK"
  <2>1. r = DoMessageOK(n, s, m).state
    BY <1>4 DEF Handle
  <2> QED BY <1>4, <2>1, OKCounted
<1>5. CASE m.type \in {"Proposal", "Part", "Prevote", "Precommit"} /\ OverTime(s, m)
  <2>1. m.height \in Nat /\ s.height \in Nat
    BY DEF Sound, MsgOK, NodeOK, ControlOK
  <2>2. ~CanAddProposal(n, s, m) /\ ~CanBufferPart(s, m) /\ ~CanAddPart(s, m)
    BY <1>5, <2>1 DEF OverTime, CanAddProposal, CanBufferPart, CanAddPart
  <2>3. r = AddRelayMessage(s, m)
    BY <1>5, <2>2 DEF Handle, Return
  <2> QED BY <1>5, <2>3, RelayAdded
<1>6. CASE m.type \in {"Prevote", "Precommit"} /\ ~OverTime(s, m)
  <2>1. r = DoVote(n, s, m).state
    BY <1>6 DEF Handle
  <2> QED BY <1>6, <2>1, VoteCounted DEF IsVote
<1>7. CASE m.type = "Proposal" /\ ~OverTime(s, m)
  <2>1. \/ CanAddProposal(n, s, m) /\ r = AddProposal(s, m)
        \/ r = s
    BY <1>7 DEF Handle, Return, Look
  <2> QED BY <1>7, <2>1, ProposalAdded
<1>8. CASE m.type = "Part" /\ ~OverTime(s, m)
  <2>1. r \in {s, AddPart(s, m), [s EXCEPT !.buffer = @ \cup {m}]}
    BY <1>8 DEF Handle, Return, Look
  <2> DEFINE t == [s EXCEPT !.buffer = @ \cup {m}]
  <2>2. NodeOK(n, AddPart(s, m), M, L)
    BY PartAdded
  <2>3. NodeOK(n, t, M, L)
    BY PartBuffered
  <2> HIDE DEF t, r
  <2>4. r = s \/ r = AddPart(s, m) \/ r = t
    BY <2>1 DEF t
  <2>5. NodeOK(n, r, M, L)
    BY <2>2, <2>3, <2>4
  <2> QED BY <2>5 DEF r
<1>9. m.type \in {"Proposal", "Part", "Prevote", "Precommit", "CSB", "Accept", "Commit", "OK"}
  BY DEF Sound, MsgOK
<1> QED BY <1>1, <1>2, <1>3, <1>4, <1>5, <1>6, <1>7, <1>8, <1>9
-----------------------------------------------------------------------------
(* Transitions.                                                            *)

\* The height of a node and the lengths of the ledgers.
LEMMA NodeHeights ==
  ASSUME NEW n \in Node, NEW s, NEW M, NEW L, Sound(M, L), NodeOK(n, s, M, L)
  PROVE  /\ s.height \in Nat
         /\ \A d \in Shard : Len(L[d]) \in Nat
         /\ Len(s.ledger) \in 0..Len(L[ChainOf(n)])
         /\ Len(s.ledger) = IF s.step = "Commit" \/ s.height = 0 THEN s.height ELSE s.height - 1
<1>1. s.height \in Nat /\ \A d \in Shard : Len(L[d]) \in Nat
  BY DEF NodeOK, ControlOK, Sound, LedgersOK
<1>2. /\ Len(s.ledger) = IF s.step = "Commit" \/ s.height = 0 THEN s.height ELSE s.height - 1
      /\ Len(s.ledger) <= Len(L[ChainOf(n)])
  BY DEF NodeOK, LedgerOK
<1>3. Len(s.ledger) \in Nat
  BY <1>1, <1>2
<1> QED BY <1>1, <1>2, <1>3, Nodes

\* New messages and entries that are backed leave all others backed.
LEMMA SoundGrows ==
  ASSUME NEW M, NEW N, M \subseteq N, NEW K, NEW L, Sound(M, K), Extends(K, L),
         OneProposal(N), OneVote(N), \A m \in N \ M : MsgOK(N, L, m),
         \A c \in Shard : \A j \in 1..Len(L[c]) : j > Len(K[c]) => EntryOK(N, c, j, L[c][j])
  PROVE  Sound(N, L)
<1>1. \A m \in N : MsgOK(N, L, m)
  BY MsgGrows DEF Sound
<1>2. ASSUME NEW c \in Shard, NEW j \in 1..Len(L[c]) PROVE EntryOK(N, c, j, L[c][j])
  <2>1. CASE j > Len(K[c])
    BY <2>1
  <2>2. CASE ~(j > Len(K[c]))
    <3>1. j \in 1..Len(K[c]) /\ L[c][j] = K[c][j]
      BY <2>2 DEF Extends
    <3>2. EntryOK(M, c, j, K[c][j])
      BY <3>1 DEF Sound, LedgersOK
    <3> QED BY <3>1, <3>2, EntryGrows
  <2> QED BY <2>1, <2>2
<1>3. LedgersOK(N, L)
  BY <1>2 DEF LedgersOK, Extends
<1> QED BY <1>1, <1>3 DEF Sound

\* The vote of a node that has not voted.
LEMMA VoteSent ==
  ASSUME NEW n \in Node, NEW s, NEW M, NEW L, Sound(M, L), NodeOK(n, s, M, L), s.height # 0,
         NEW type \in {"Prevote", "Precommit"}, NEW ok \in BOOLEAN, s.step \notin AfterVote(type),
         \E p \in M : /\ p.type = "Proposal" /\ Hash(p.block) = <<ChainOf(n), s.height>>
                      /\ OkFor(p.block, ok)
  PROVE  Sound(M \cup {VoteMsg(type, ChainOf(n), s.height, IndexOf(n), ok)}, L)
<1> DEFINE m == VoteMsg(type, ChainOf(n), s.height, IndexOf(n), ok)
           N == M \cup {m}
<1>1. /\ m.type = type /\ m.to = ChainOf(n) /\ m.height = s.height /\ m.from = IndexOf(n)
      /\ m.hash = <<ChainOf(n), s.height>> /\ m.ok = ok
      /\ m = [type |-> m.type, to |-> m.to, height |-> m.height, from |-> m.from,
              hash |-> m.hash, ok |-> m.ok]
  BY DEF VoteMsg
<1> HIDE DEF m
<1>2. IsVote(m) /\ m.type # "Proposal"
  BY <1>1 DEF IsVote
<1>3. Extends(L, L)
  BY ExtendsSelf DEF Sound
<1>4. OneProposal(N)
  BY <1>2 DEF Sound, OneProposal
<1>5. \A k \in M : ~(IsVote(k) /\ k.type = m.type /\ k.to = m.to /\ k.height = m.height /\ k.from = m.from)
  BY <1>1 DEF NodeOK, SentOK, SentBy
<1>6. OneVote(N)
  <2>1. OneVote(M)
    BY DEF Sound
  <2> QED BY <1>5, <2>1, Zenon DEF OneVote, IsVote
<1>7. MsgOK(N, L, m)
  <2>1. m.to \in Shard /\ m.from \in DOMAIN Votes[m.to] /\ m.height \in Nat \ {0}
    BY <1>1, Nodes DEF NodeOK, ControlOK
  <2>2. VoteOK(N, m)
    <3>1. \E p \in N : p.type = "Proposal" /\ Hash(p.block) = m.hash /\ OkFor(p.block, m.ok)
      BY <1>1
    <3>2. m.hash = <<m.to, m.height>>
      BY <1>1
    <3> QED BY <1>1, <2>1, <3>1, <3>2, Zenon DEF VoteOK
  <2> QED BY <1>1, <1>2, <2>1, <2>2 DEF MsgOK
<1>8. \A k \in N \ M : MsgOK(N, L, k)
  BY <1>7
<1>9. Sound(N, L)
  <2>1. M \subseteq N /\ \A c \in Shard : \A j \in 1..Len(L[c]) : ~(j > Len(L[c]))
    BY DEF Sound, LedgersOK
  <2> HIDE DEF N
  <2> QED BY <1>3, <1>4, <1>6, <1>8, <2>1, SoundGrows
<1> QED BY <1>9 DEF m

\* The node after its vote.
LEMMA Voted ==
  ASSUME NoneIsNil, NEW n \in Node, NEW s, NEW N, NEW L, Good(n, s, N, L), s.height # 0, ~s.create,
         NEW type, NEW ok \in BOOLEAN,
         \/ type = "Prevote" /\ s.step = "Propose"
         \/ type = "Precommit" /\ s.step = "Prevote",
         \E p \in N \cup s.out : /\ p.type = "Proposal" /\ Hash(p.block) = <<ChainOf(n), s.height>>
                                 /\ OkFor(p.block, ok),
         NEW t, IsState(t), t.height = s.height, t.up = s.up, t.create = s.create, t.step = type,
         t.proposal = s.proposal, t.block = s.block,
         LET m == VoteMsg(type, ChainOf(n), s.height, IndexOf(n), ok) IN
         /\ t.prevotes = IF type = "Prevote" THEN AddVote(Votes[ChainOf(n)], s.prevotes, m)
                                             ELSE s.prevotes
         /\ t.precommits = IF type = "Precommit" THEN AddVote(Votes[ChainOf(n)], s.precommits, m)
                                                 ELSE s.precommits
         /\ t.out = s.out \cup {m},
         SamePools(s, t), t.ledger = s.ledger, t.bseen = s.bseen, t.relay = s.relay
  PROVE  Good(n, t, N, L)
<1> DEFINE c == ChainOf(n)
           m == VoteMsg(type, c, s.height, IndexOf(n), ok)
           M == N \cup s.out
           K == N \cup t.out
<1>1. /\ Sound(M, L) /\ NodeOK(n, s, M, L)
      /\ c \in Shard /\ IndexOf(n) \in DOMAIN Votes[c]
      /\ type \in {"Prevote", "Precommit"}
      /\ s.step \notin AfterVote(type)
  BY Nodes DEF Good, AfterVote
<1>2. /\ m.type = type /\ m.to = c /\ m.height = s.height /\ m.from = IndexOf(n)
      /\ m.hash = <<c, s.height>> /\ m.ok = ok
  BY DEF VoteMsg
<1>3. K = M \cup {m} /\ M \subseteq K /\ t.out = s.out \cup {m}
  OBVIOUS
<1>4. /\ t.prevotes = IF type = "Prevote" THEN AddVote(Votes[c], s.prevotes, m) ELSE s.prevotes
      /\ t.precommits = IF type = "Precommit" THEN AddVote(Votes[c], s.precommits, m) ELSE s.precommits
  OBVIOUS
<1>5. Sound(K, L)
  BY <1>1, <1>3, VoteSent
<1>6. VoteMsg(type, c, s.height, m.from, m.ok) \in K
  BY <1>2, <1>3
<1> HIDE DEF m, M, K, c
<1>7. RoundOK(n, t, K)
  <2>1. /\ VoteSetOK(K, c, "Prevote", s.height, s.prevotes)
        /\ VoteSetOK(K, c, "Precommit", s.height, s.precommits)
    BY <1>1, <1>3, VoteSetGrows DEF NodeOK, RoundOK, c
  <2>2. /\ VoteSetOK(K, c, "Prevote", s.height, t.prevotes)
        /\ VoteSetOK(K, c, "Precommit", s.height, t.precommits)
    <3>1. CASE type = "Prevote"
      BY <1>1, <1>2, <1>4, <1>6, <2>1, <3>1, VoteAdded
    <3>2. CASE type = "Precommit"
      BY <1>1, <1>2, <1>4, <1>6, <2>1, <3>2, VoteAdded
    <3> QED BY <1>1, <3>1, <3>2
  <2>3. /\ t.proposal # None => /\ Proposed(K, t.proposal)
                                /\ t.proposal.chain = c /\ t.proposal.height = t.height
        /\ t.block # None => t.block = t.proposal
    BY <1>1, <1>3 DEF NodeOK, RoundOK, Proposed, c
  <2> QED BY <2>2, <2>3 DEF RoundOK, c
<1>8. PoolsOK(n, t, K, L)
  <2>1. Extends(L, L) /\ Len(s.ledger) \in 0..Len(L[c])
    BY <1>1, ExtendsSelf, NodeHeights DEF Sound, c
  <2>2. PoolsOK(n, s, M, L)
    BY <1>1 DEF NodeOK, PoolsOK
  <2>3. PoolsOK(n, s, K, L)
    BY <1>1, <1>3, <2>1, <2>2, PoolsGrow DEF PoolsOK, c
  <2> QED BY <2>3, PoolsSame
<1>9. ControlOK(n, t) /\ LedgerOK(n, t, L) /\ TogetherOK(n, t, L)
  BY <1>1 DEF NodeOK, ControlOK, LedgerOK, TogetherOK, IsProposer
<1>10. SentOK(n, t, K)
  BY <1>1, <1>2, <1>3 DEF NodeOK, ControlOK, SentOK, AfterVote, IsVote
<1>11. RelayOK(n, t, K) /\ OutOK(n, t)
  BY <1>1, <1>2, <1>3 DEF NodeOK, RelayOK, OutOK, SentBy, c
<1>12. NodeOK(n, t, K, L)
  BY <1>7, <1>8, <1>9, <1>10, <1>11 DEF NodeOK, PoolsOK
<1> QED BY <1>5, <1>12 DEF Good, K

\* The block of a node that has a proposal.
LEMMA RoundBlock ==
  ASSUME NEW n \in Node, NEW s, NEW M, NEW L, Sound(M, L), NodeOK(n, s, M, L), s.block # None
  PROVE  /\ Proposed(M, s.block) /\ BlockOK(M, L, s.block)
         /\ s.block.chain = ChainOf(n) /\ s.block.height = s.height
         /\ Hash(s.block) = <<ChainOf(n), s.height>>
         /\ \E p \in M : p.type = "Proposal" /\ p.block = s.block
<1>1. Proposed(M, s.block) /\ s.block.chain = ChainOf(n) /\ s.block.height = s.height
  BY DEF NodeOK, RoundOK
<1> QED BY <1>1, ProposedIsOK DEF Hash, Proposed

\* A B-shard decides the block that its nodes hold open.
LEMMA PendingIsDecided ==
  ASSUME NoneIsNil, NEW n \in Node, NEW s, NEW M, NEW L, Sound(M, L), NodeOK(n, s, M, L),
         s.height # 0, s.step # "Commit", s.block # None, s.block.type = "BCommit"
  PROVE  s.pending = s.block.hash /\ s.pending # None
<1> DEFINE c == ChainOf(n)
<1>1. /\ BlockOK(M, L, s.block) /\ s.block.chain = c /\ s.block.height = s.height /\ c \in Shard
  BY RoundBlock, Nodes
<1>2. /\ s.block.hash # None /\ OpenAfter(L, c, s.height - 1, s.block.hash)
  BY <1>1 DEF BlockOK, AcceptSetOK
<1>3. c \in BShards
  BY <1>1, Neighbours DEF BlockOK
<1>4. OpenAfter(L, c, Len(s.ledger), s.pending)
  BY <1>3 DEF NodeOK, BPoolsOK
<1>5. Len(s.ledger) = s.height - 1 /\ Len(s.ledger) \in Nat
  BY NodeHeights
<1> HIDE DEF c
<1> QED BY <1>2, <1>4, <1>5, OpenOnce

\* doPropose never meets a block that it takes for a Byzantine error.
LEMMA NoByzantineError ==
  ASSUME NoneIsNil, NEW n \in Node, NEW s, NEW L, Sound(msgs, L), NodeOK(n, s, msgs, L),
         s.step = "Propose", s.block # None
  PROVE  ValidBlock(n, s, s.block)
<1> DEFINE c == ChainOf(n)
           b == s.block
<1>1. /\ BlockOK(msgs, L, b) /\ b.chain = c /\ b.height = s.height /\ c \in Shard
      /\ s.height # 0
  BY RoundBlock, Nodes DEF NodeOK, ControlOK
<1>2. \A sig : SigOK(msgs, sig) => VerifySignatures(sig)
  BY DEF SigOK, VerifySignatures
<1>3. c \in IShards <=> c \notin BShards
  BY <1>1, Neighbours
<1>4. b.type \in IF c \in IShards THEN {"Inner", "IAccept", "ICommit"} ELSE {"Inner", "Cross", "BCommit"}
  BY <1>1 DEF BlockOK
<1>5. ASSUME b.type = "BCommit"
      PROVE  /\ c \in BShards
             /\ b.hash = s.pending
             /\ Cardinality(b.accepts) = Cardinality(Related[c])
             /\ \A sig \in b.accepts : sig.chain \in Related[c] /\ VerifySignatures(sig)
  <2>1. b.hash = s.pending
    BY <1>1, <1>5, PendingIsDecided
  <2>2. AcceptSetOK(msgs, L, b)
    BY <1>1, <1>5 DEF BlockOK
  <2> HIDE DEF b, c
  <2> QED BY <1>1, <1>2, <1>3, <1>4, <1>5, <2>1, <2>2 DEF AcceptSetOK, AnswerOK
<1>6. ASSUME b.type = "IAccept"
      PROVE  /\ c \in IShards
             /\ b.csb.sig.chain \in Related[c] /\ VerifySignatures(b.csb.sig)
  <2>1. CsbOK(msgs, L, c, b.csb)
    BY <1>1, <1>6 DEF BlockOK
  <2> HIDE DEF b, c
  <2> QED BY <1>2, <1>3, <1>4, <1>6, <2>1 DEF CsbOK
<1>7. ASSUME b.type = "ICommit"
      PROVE  /\ c \in IShards
             /\ \A mc \in ToSet(b.commits) : mc.sig.chain \in Related[c] /\ VerifySignatures(mc.sig)
  <2>1. \A k \in DOMAIN b.commits : DecisionOK(msgs, L, c, b.commits[k])
    BY <1>1, <1>7 DEF BlockOK
  <2> HIDE DEF b, c
  <2>2. \A mc : DecisionOK(msgs, L, c, mc) => mc.sig.chain \in Related[c] /\ VerifySignatures(mc.sig)
    BY <1>2 DEF DecisionOK
  <2> QED BY <1>3, <1>4, <1>7, <2>1, <2>2 DEF ToSet
<1> HIDE DEF b, c
<1>8. ValidBlock(n, s, b)
  BY <1>3, <1>4, <1>5, <1>6, <1>7 DEF ValidBlock, c
<1> QED BY <1>8 DEF b

\* The code of a vote for a block that a B-shard commits is the I-shards'.
LEMMA PrevoteCode ==
  ASSUME NEW s, NEW b, b.type \in {"Inner", "Cross", "BCommit", "IAccept", "ICommit"}
  PROVE  OkFor(b, PrevoteOK(s, b))
<1>1. CASE b.type = "BCommit"
  <2>1. PrevoteOK(s, b) = \A sig \in b.accepts : sig.ok
    BY <1>1 DEF PrevoteOK
  <2> QED BY <2>1 DEF OkFor
<1>2. CASE b.type = "IAccept"
  <2>1. PrevoteOK(s, b) = PreExecutionI(s.app, b.csb.block)
    BY <1>2 DEF PrevoteOK
  <2>2. PreExecutionI(s.app, b.csb.block) \in BOOLEAN
    BY DEF PreExecutionI
  <2> QED BY <1>2, <2>1, <2>2 DEF OkFor
<1>3. CASE b.type \in {"Inner", "Cross", "ICommit"}
  <2>1. PrevoteOK(s, b) = TRUE
    BY <1>3 DEF PrevoteOK
  <2> QED BY <1>3, <2>1 DEF OkFor
<1> QED BY <1>1, <1>2, <1>3

\* ProposeStep: the first vote of the node at this height.
LEMMA ProposeKept ==
  ASSUME NoneIsNil, NEW n \in Node, NEW s, NEW L, Good(n, s, msgs, L), s.out = {}, ~s.create
  PROVE  Good(n, ProposeStep(n, s), msgs, L)
<1> DEFINE c == ChainOf(n)
           ok == PrevoteOK(s, s.block)
           m == VoteMsg("Prevote", c, s.height, IndexOf(n), ok)
           t == [s EXCEPT !.prevotes = AddVote(Votes[c], @, m),
                          !.out = @ \cup {m},
                          !.step = "Prevote"]
<1> SUFFICES ASSUME s.up, s.step = "Propose", s.block # None
             PROVE  Good(n, ProposeStep(n, s), msgs, L)
  BY DEF ProposeStep, AtStep, FinishProposal
<1>1. Sound(msgs, L) /\ NodeOK(n, s, msgs, L) /\ s.height # 0 /\ s.proposal # None
  BY DEF Good, NodeOK, ControlOK, RoundOK
<1>2. ValidBlock(n, s, s.block)
  BY <1>1, NoByzantineError
<1>3. Hash(s.block) = <<c, s.height>> /\ BlockOK(msgs, L, s.block)
  BY <1>1, RoundBlock
<1>4. ProposeStep(n, s) = t
  <2>1. PrevoteMsg(c, IndexOf(n), Hash(s.block), ok) = m
    BY <1>3 DEF PrevoteMsg, VoteMsg
  <2> QED BY <1>1, <1>2, <2>1 DEF ProposeStep, AtStep, FinishProposal, DoPropose
<1>5. OkFor(s.block, ok) /\ ok \in BOOLEAN
  <2>1. s.block.type \in {"Inner", "Cross", "BCommit", "IAccept", "ICommit"}
    BY <1>3 DEF BlockOK
  <2>2. OkFor(s.block, ok)
    BY <2>1, PrevoteCode
  <2>3. ok \in BOOLEAN
    BY <2>2, Zenon DEF OkFor
  <2> QED BY <2>2, <2>3, Zenon
<1>6. \E p \in msgs \cup s.out : /\ p.type = "Proposal" /\ Hash(p.block) = <<c, s.height>> /\ OkFor(p.block, ok)
  BY <1>1, <1>3, <1>5, RoundBlock
<1>7. /\ IsState(t) /\ t.height = s.height /\ t.up = s.up /\ t.create = s.create /\ t.step = "Prevote"
      /\ t.proposal = s.proposal /\ t.block = s.block
      /\ t.prevotes = AddVote(Votes[c], s.prevotes, m) /\ t.precommits = s.precommits
      /\ t.out = s.out \cup {m}
      /\ SamePools(s, t) /\ t.ledger = s.ledger /\ t.bseen = s.bseen /\ t.relay = s.relay
  BY <1>1 DEF NodeOK, IsState, StateFields, SamePools
<1> HIDE DEF t, ok
<1>8. Good(n, t, msgs, L)
  BY <1>1, <1>5, <1>6, <1>7, Voted
<1> QED BY <1>4, <1>8

\* PrevoteStep: the first precommit of the node at this height.
LEMMA PrevoteKept ==
  ASSUME NoneIsNil, NEW n \in Node, NEW s, NEW N, NEW L, Good(n, s, N, L), ~s.create
  PROVE  Good(n, PrevoteStep(n, s), N, L)
<1> DEFINE c == ChainOf(n)
           M == N \cup s.out
           ok == s.prevotes.maj[2]
           m == VoteMsg("Precommit", c, s.height, IndexOf(n), ok)
           t == [s EXCEPT !.precommits = AddVote(Votes[c], @, m),
                          !.out = @ \cup {m},
                          !.step = "Precommit"]
<1> SUFFICES ASSUME s.up, s.step = "Prevote", FinishPrevote(s)
             PROVE  Good(n, PrevoteStep(n, s), N, L)
  BY DEF PrevoteStep, AtStep
<1>1. Sound(M, L) /\ NodeOK(n, s, M, L) /\ s.height # 0 /\ c \in Shard
  BY Nodes DEF Good, NodeOK, ControlOK
<1> HIDE DEF M
<1>2. VoteSetOK(M, c, "Prevote", s.height, s.prevotes) /\ s.prevotes.maj # None
  BY <1>1 DEF NodeOK, RoundOK, FinishPrevote, HasMaj23
<1>3. PICK v : /\ ok \in BOOLEAN /\ s.prevotes.maj = <<<<c, s.height>>, ok>>
               /\ VoteMsg("Prevote", c, s.height, v, ok) \in M
  <2> HIDE DEF c
  <2>1. PICK k \in BOOLEAN : /\ s.prevotes.maj = <<<<c, s.height>>, k>>
                             /\ \A v \in Voters(c, s.prevotes, s.prevotes.maj) :
                                  VoteMsg("Prevote", c, s.height, v, k) \in M
                             /\ Voters(c, s.prevotes, s.prevotes.maj) # {}
    BY <1>1, <1>2, MajIsQuorum
  <2>2. k = ok
    BY <2>1
  <2> QED BY <2>1, <2>2
<1>4. PrevoteStep(n, s) = t
  <2>1. PrecommitMsg(c, IndexOf(n), s.prevotes.maj[1], s.prevotes.maj[2]) = m
    BY <1>3 DEF PrecommitMsg, VoteMsg
  <2> QED BY <2>1 DEF PrevoteStep, AtStep, DoPrevote
<1>5. \E p \in M : /\ p.type = "Proposal" /\ Hash(p.block) = <<c, s.height>> /\ OkFor(p.block, ok)
  <2> DEFINE k == VoteMsg("Prevote", c, s.height, v, ok)
  <2>1. k.type = "Prevote" /\ k.hash = <<c, s.height>> /\ k.ok = ok
    BY DEF VoteMsg
  <2> HIDE DEF k
  <2>2. VoteOK(M, k)
    BY <1>1, <1>3, <2>1 DEF k, Sound, MsgOK, IsVote
  <2> QED BY <2>1, <2>2 DEF VoteOK
<1>6. /\ IsState(t) /\ t.height = s.height /\ t.up = s.up /\ t.create = s.create /\ t.step = "Precommit"
      /\ t.proposal = s.proposal /\ t.block = s.block
      /\ t.prevotes = s.prevotes /\ t.precommits = AddVote(Votes[c], s.precommits, m)
      /\ t.out = s.out \cup {m}
      /\ SamePools(s, t) /\ t.ledger = s.ledger /\ t.bseen = s.bseen /\ t.relay = s.relay
  BY <1>1 DEF NodeOK, IsState, StateFields, SamePools
<1> HIDE DEF t, ok
<1>7. Good(n, t, N, L)
  BY <1>1, <1>3, <1>5, <1>6, Voted DEF M
<1> QED BY <1>4, <1>7

\* A node that has a majority of precommits has the block and the code that
\* its shard has agreed on, and a signature for them.
LEMMA Agreed ==
  ASSUME NEW n \in Node, NEW s, NEW M, NEW L, Sound(M, L), NodeOK(n, s, M, L),
         s.block # None, HasMaj23(s.precommits)
  PROVE  LET sig == AggregatedSig(n, s) IN
         /\ sig.chain = ChainOf(n) /\ sig.height = s.height
         /\ sig.ok \in BOOLEAN
         /\ SigOK(M, sig)
         /\ EntryOK(M, ChainOf(n), s.height, [block |-> s.block, ok |-> sig.ok])
<1> DEFINE c == ChainOf(n)
           sig == AggregatedSig(n, s)
           ok == s.precommits.maj[2]
           S == Voters(c, s.precommits, s.precommits.maj)
           T == Precommitters(M, c, s.height, ok)
<1>1. /\ Proposed(M, s.block) /\ s.block.chain = c /\ s.block.height = s.height
      /\ Hash(s.block) = <<c, s.height>> /\ c \in Shard
  BY RoundBlock, Nodes
<1>2. VoteSetOK(M, c, "Precommit", s.height, s.precommits) /\ s.precommits.maj # None
  BY DEF NodeOK, RoundOK, HasMaj23
<1>3. /\ ok \in BOOLEAN
      /\ Maj23Signers(s.precommits) = S
      /\ \A v \in S : VoteMsg("Precommit", c, s.height, v, ok) \in M
      /\ S # {}
      /\ OverTwoThirds(Votes[c], Power(Votes[c], S))
  <2> HIDE DEF c
  <2>1. PICK k \in BOOLEAN :
          /\ s.precommits.maj = <<<<c, s.height>>, k>>
          /\ Maj23Signers(s.precommits) = Voters(c, s.precommits, s.precommits.maj)
          /\ \A v \in Voters(c, s.precommits, s.precommits.maj) :
               VoteMsg("Precommit", c, s.height, v, k) \in M
          /\ Voters(c, s.precommits, s.precommits.maj) # {}
          /\ OverTwoThirds(Votes[c], Power(Votes[c], Voters(c, s.precommits, s.precommits.maj)))
    BY <1>1, <1>2, MajIsQuorum
  <2>2. k = ok
    BY <2>1
  <2> QED BY <2>1, <2>2
<1>4. sig.chain = c /\ sig.height = s.height /\ sig.ok = ok /\ sig.signers = S
  BY <1>3 DEF AggregatedSig, PrecommitAggregated
<1>5. \A v : VoteMsg("Precommit", c, s.height, v, ok) = PrecommitMsg(c, v, <<c, s.height>>, ok)
  BY DEF VoteMsg, PrecommitMsg
<1>6. SigOK(M, sig)
  BY <1>3, <1>4, <1>5 DEF SigOK
<1>7. OkFor(s.block, ok)
  <2>1. PICK v \in S : VoteMsg("Precommit", c, s.height, v, ok) \in M
    BY <1>3
  <2> DEFINE k == VoteMsg("Precommit", c, s.height, v, ok)
  <2>2. k.type = "Precommit" /\ k.hash = <<c, s.height>> /\ k.ok = ok
    BY DEF VoteMsg
  <2> HIDE DEF k
  <2>3. VoteOK(M, k)
    BY <2>1, <2>2 DEF k, Sound, MsgOK, IsVote
  <2>4. PICK p \in M : p.type = "Proposal" /\ Hash(p.block) = <<c, s.height>> /\ OkFor(p.block, ok)
    BY <2>2, <2>3 DEF VoteOK
  <2>5. p.block = s.block
    BY <1>1, <2>4, HashOnce DEF Proposed
  <2> QED BY <2>4, <2>5
<1>8. Chosen(M, c, s.height, ok)
  <2>1. S \in SUBSET T /\ T \in SUBSET DOMAIN Votes[c]
    BY <1>3, <1>5 DEF Precommitters, Voters
  <2>2. OverTwoThirds(Votes[c], Power(Votes[c], S)) /\ c \in Shard
    BY <1>1, <1>3
  <2> HIDE DEF S, T, c
  <2>3. Power(Votes[c], S) <= Power(Votes[c], T)
    BY <2>1, <2>2, PeerLists, PowerMonotone
  <2>4. /\ Power(Votes[c], S) \in Nat /\ Power(Votes[c], T) \in Nat
        /\ TotalVotes(Votes[c]) \in Nat
    BY <2>1, <2>2, PeerLists, PowerType DEF TotalVotes
  <2>5. OverTwoThirds(Votes[c], Power(Votes[c], T))
    BY <2>2, <2>3, <2>4 DEF OverTwoThirds
  <2> QED BY <2>5 DEF Chosen, T
<1> HIDE DEF c, sig, ok
<1>9. EntryOK(M, c, s.height, [block |-> s.block, ok |-> sig.ok])
  BY <1>1, <1>4, <1>7, <1>8 DEF EntryOK
<1> QED BY <1>3, <1>4, <1>6, <1>9 DEF c, sig

\* The ledgers when a node of chain c has got the ledger seq.
Grown(L, c, seq) == [d \in Shard |-> IF d = c /\ Len(seq) > Len(L[d]) THEN seq ELSE L[d]]

\* What a step of a node of chain c, whose ledger is then seq, does to them.
GrowsBy(L, K, c, seq) ==
  /\ Extends(L, K)
  /\ \A d \in Shard : d # c => K[d] = L[d]
  /\ K[c] = L[c] \/ (Len(K[c]) = Len(L[c]) + 1 /\ K[c] = seq)

\* The ledger seq of h blocks has become a prefix of K[c].
Reaches(M, L, K, c, h, seq) ==
  /\ \E S : seq \in Seq(S)
  /\ Len(seq) = h
  /\ GrowsBy(L, K, c, seq)
  /\ Sound(M, K)
  /\ h <= Len(K[c])
  /\ \A j \in 1..h : K[c][j] = seq[j]

\* What a node executes is in the ledger of its shard, or extends it.
LEMMA LedgerGrown ==
  ASSUME NEW n \in Node, NEW s, NEW M, NEW L, Sound(M, L), NodeOK(n, s, M, L),
         s.height # 0, s.step # "Commit", NEW e, EntryOK(M, ChainOf(n), s.height, e)
  PROVE  \E K : /\ Reaches(M, L, K, ChainOf(n), s.height, Append(s.ledger, e))
                /\ K[ChainOf(n)][s.height] = e
<1> DEFINE c == ChainOf(n)
           seq == Append(s.ledger, e)
           K == Grown(L, c, seq)
<1>1. /\ s.height \in Nat /\ c \in Shard
      /\ \A d \in Shard : Len(L[d]) \in Nat
      /\ Len(s.ledger) \in Nat /\ Len(s.ledger) <= Len(L[c])
      /\ Len(s.ledger) = s.height - 1
  BY Nodes, NodeHeights
<1>2. PICK S : s.ledger \in Seq(S)
  BY DEF NodeOK, LedgerOK
<1>3. /\ seq \in Seq(S \cup {e}) /\ Len(seq) = s.height
      /\ seq[s.height] = e
      /\ \A j \in 1..(s.height - 1) : seq[j] = s.ledger[j]
  <2>1. s.ledger \in Seq(S \cup {e})
    BY <1>2, SeqDef
  <2> QED BY <1>1, <2>1, AppendProperties
<1>4. \A j \in 1..(s.height - 1) : s.ledger[j] = L[c][j]
  BY <1>1 DEF NodeOK, LedgerOK
<1> HIDE DEF seq, c
<1>5. /\ \A d \in Shard : d # c => K[d] = L[d]
      /\ K[c] = IF s.height > Len(L[c]) THEN seq ELSE L[c]
  BY <1>1, <1>3 DEF Grown
<1> HIDE DEF K
<1>6. s.height <= Len(L[c]) => L[c][s.height] = e
  <2> SUFFICES ASSUME s.height <= Len(L[c]) PROVE L[c][s.height] = e
    OBVIOUS
  <2>1. s.height \in 1..Len(L[c])
    BY <1>1
  <2>2. EntryOK(M, c, s.height, L[c][s.height])
    BY <1>1, <2>1 DEF Sound, LedgersOK
  <2> QED BY <1>1, <2>2, EntryOnce DEF c
<1>7. /\ s.height <= Len(K[c]) /\ Len(K[c]) \in Nat
      /\ \A j \in 1..s.height : K[c][j] = seq[j]
      /\ K[c][s.height] = e
  <2>1. CASE s.height > Len(L[c])
    BY <1>1, <1>3, <1>5, <2>1
  <2>2. CASE ~(s.height > Len(L[c]))
    <3>1. K[c] = L[c] /\ s.height <= Len(L[c])
      BY <1>1, <1>5, <2>2
    <3>2. \A j \in 1..s.height : j = s.height \/ j \in 1..(s.height - 1)
      BY <1>1
    <3> QED BY <1>1, <1>3, <1>4, <1>6, <3>1, <3>2
  <2> QED BY <2>1, <2>2
<1>8. GrowsBy(L, K, c, seq)
  <2>1. ASSUME NEW d \in Shard
        PROVE  /\ Len(L[d]) \in Nat /\ Len(K[d]) \in Nat /\ Len(L[d]) <= Len(K[d])
               /\ \A j \in 1..Len(L[d]) : K[d][j] = L[d][j]
    <3>1. CASE K[d] = L[d]
      BY <1>1, <3>1
    <3>2. CASE K[d] # L[d]
      <4>1. d = c /\ s.height > Len(L[c]) /\ K[c] = seq /\ Len(L[c]) = s.height - 1
        BY <1>1, <1>5, <3>2
      <4> QED BY <1>1, <1>3, <1>4, <4>1
    <3> QED BY <3>1, <3>2
  <2>2. K[c] = L[c] \/ (Len(K[c]) = Len(L[c]) + 1 /\ K[c] = seq)
    <3>1. CASE s.height > Len(L[c])
      <4>1. K[c] = seq /\ Len(L[c]) = s.height - 1
        BY <1>1, <1>5, <3>1
      <4> QED BY <1>1, <1>3, <4>1
    <3>2. CASE ~(s.height > Len(L[c]))
      BY <1>5, <3>2
    <3> QED BY <3>1, <3>2
  <2> QED BY <1>5, <2>1, <2>2 DEF GrowsBy, Extends
<1>9. Sound(M, K)
  <2>1. ASSUME NEW d \in Shard, NEW j \in 1..Len(K[d]), j > Len(L[d])
        PROVE  EntryOK(M, d, j, K[d][j])
    <3>1. d = c /\ s.height > Len(L[c]) /\ K[c] = seq
      BY <1>1, <1>5, <2>1
    <3>2. j = s.height
      BY <1>1, <1>3, <2>1, <3>1
    <3> QED BY <1>3, <3>1, <3>2 DEF c
  <2>2. OneProposal(M) /\ OneVote(M) /\ Extends(L, K)
    BY <1>8 DEF Sound, GrowsBy
  <2> QED BY <2>1, <2>2, SoundGrows
<1>10. Reaches(M, L, K, c, s.height, seq) /\ K[c][s.height] = e
  BY <1>1, <1>3, <1>7, <1>8, <1>9 DEF Reaches
<1> QED BY <1>10 DEF seq, c

\* What doPrecommit leaves in the state of a node, but for the pools.
Executed(s, t, e) ==
  /\ IsState(t) /\ t.step = "Commit"
  /\ t.height = s.height /\ t.up = s.up /\ t.create = s.create
  /\ SameRound(s, t) /\ t.bseen = s.bseen /\ t.relay = s.relay /\ t.shardHeight = s.shardHeight
  /\ t.ledger = Append(s.ledger, e)

\* The decisions of a block.
HashesOf(b) == {mc.hash : mc \in ToSet(b.commits)}

\* What it does to the pools of an I-shard and of a B-shard.
IPools(s, t, b) ==
  /\ t.store = (s.store \cup CarriedBlocks({b})) \cup {b}
  /\ t.csbPool = IF b.type = "IAccept"
                 THEN {csb \in s.csbPool : Hash(csb.block) # Hash(b.csb.block)} ELSE s.csbPool
  /\ t.commitPool = IF b.type = "ICommit"
                    THEN {mc \in s.commitPool : mc.hash \notin HashesOf(b)} ELSE s.commitPool
  /\ t.committed = IF b.type = "ICommit" THEN s.committed \cup HashesOf(b) ELSE s.committed

BPools(s, t, b) ==
  /\ t.store = s.store \cup {b}
  /\ t.pending = CASE b.type = "Inner" -> s.pending
                   [] b.type = "Cross" -> Hash(b)
                   [] b.type = "BCommit" -> None
  /\ t.maPool = IF b.type = "Inner" THEN s.maPool ELSE {}

Answers(b, sig) ==
  IF b.type = "IAccept" THEN MessageAccepts(Hash(b.csb.block), sig, {b.csb.block.chain}) ELSE {}

\* What DoPrecommit changes in an I-shard.
LEMMA IExecuted ==
  ASSUME NEW n, NEW s, IsState(s), ChainOf(n) \in IShards,
         s.block.type \in {"Inner", "IAccept", "ICommit"}
  PROVE  LET t == DoPrecommit(n, s)
             b == s.block
             sig == AggregatedSig(n, s)
         IN  /\ Executed(s, t, [block |-> b, ok |-> sig.ok])
             /\ IPools(s, t, b)
             /\ t.app = ExecuteIBlock(s.app, s.store, b, sig.ok)
             /\ t.out = s.out \cup IfProposer(n, s, Answers(b, sig) \cup
                                   CrossShardBlockMsgs(b, sig, Related[ChainOf(n)]))
<1> DEFINE b == s.block
           sig == AggregatedSig(n, s)
           u == UpdateIState(s, b)
           t == DoPrecommit(n, s)
<1>1. /\ IsState(u)
      /\ u.step = s.step /\ u.height = s.height /\ u.up = s.up /\ u.create = s.create
      /\ SameRound(s, u) /\ u.bseen = s.bseen /\ u.relay = s.relay /\ u.shardHeight = s.shardHeight
      /\ u.ledger = s.ledger /\ u.pending = s.pending /\ u.maPool = s.maPool
      /\ u.app = s.app /\ u.store = s.store /\ u.out = s.out
      /\ u.csbPool = IF b.type = "IAccept"
                     THEN {csb \in s.csbPool : Hash(csb.block) # Hash(b.csb.block)}
                     ELSE s.csbPool
      /\ u.commitPool = IF b.type = "ICommit"
                        THEN {mc \in s.commitPool : mc.hash \notin HashesOf(b)} ELSE s.commitPool
      /\ u.committed = IF b.type = "ICommit" THEN s.committed \cup HashesOf(b) ELSE s.committed
  <2>1. CASE b.type = "Inner"
    <3>1. u = [s EXCEPT !.mempool = Without(@, b.txs)]
      BY <2>1 DEF UpdateIState
    <3> QED BY <2>1, <3>1 DEF IsState, StateFields, SameRound
  <2>2. CASE b.type = "IAccept"
    <3>1. u = [s EXCEPT !.csbPool = {csb \in @ : Hash(csb.block) # Hash(b.csb.block)}]
      BY <2>2 DEF UpdateIState
    <3> QED BY <2>2, <3>1 DEF IsState, StateFields, SameRound
  <2>3. CASE b.type = "ICommit"
    <3>1. u = [s EXCEPT !.commitPool = {mc \in @ : mc.hash \notin HashesOf(b)},
                        !.committed = @ \cup HashesOf(b)]
      BY <2>3 DEF UpdateIState, HashesOf
    <3> QED BY <2>3, <3>1 DEF IsState, StateFields, SameRound
  <2> QED BY <2>1, <2>2, <2>3
<1>2. t = [[u EXCEPT !.app = ExecuteIBlock(@, s.store, b, sig.ok),
                     !.store = @ \cup CarriedBlocks({b}),
                     !.out = @ \cup IfProposer(n, s, Answers(b, sig) \cup
                                       CrossShardBlockMsgs(b, sig, Related[ChainOf(n)]))]
           EXCEPT !.store = @ \cup {b}, !.ledger = Append(@, [block |-> b, ok |-> sig.ok]),
                  !.step = "Commit"]
  BY DEF DoPrecommit, ProcessBlock, ProcessIBlock, Answers
<1> HIDE DEF u, t, b, sig
<1> DEFINE out == IfProposer(n, s, Answers(b, sig) \cup CrossShardBlockMsgs(b, sig, Related[ChainOf(n)]))
           app == ExecuteIBlock(s.app, s.store, b, sig.ok)
           e == [block |-> b, ok |-> sig.ok]
           carried == CarriedBlocks({b})
<1>3. t = [[u EXCEPT !.app = app, !.store = @ \cup carried, !.out = @ \cup out]
           EXCEPT !.store = @ \cup {b}, !.ledger = Append(@, e), !.step = "Commit"]
  BY <1>1, <1>2
<1> HIDE DEF out, app, e, carried
<1>4. /\ IsState(t) /\ t.step = "Commit"
      /\ t.height = u.height /\ t.up = u.up /\ t.create = u.create
      /\ SameRound(u, t) /\ t.bseen = u.bseen /\ t.relay = u.relay /\ t.shardHeight = u.shardHeight
      /\ t.ledger = Append(u.ledger, e) /\ t.pending = u.pending /\ t.maPool = u.maPool
      /\ t.app = app /\ t.store = (u.store \cup carried) \cup {b} /\ t.out = u.out \cup out
      /\ t.csbPool = u.csbPool /\ t.commitPool = u.commitPool /\ t.committed = u.committed
  BY <1>1, <1>3 DEF IsState, StateFields, SameRound
<1>5. Executed(s, t, e)
  BY <1>1, <1>4 DEF Executed, SameRound
<1>6. IPools(s, t, b)
  BY <1>1, <1>4 DEF IPools, carried
<1> QED BY <1>1, <1>4, <1>5, <1>6 DEF out, app, e, carried, b, sig, t

\* What DoPrecommit changes in a B-shard.
LEMMA BExecuted ==
  ASSUME NEW n, NEW s, IsState(s), ChainOf(n) \notin IShards,
         s.block.type \in {"Inner", "Cross", "BCommit"}
  PROVE  LET t == DoPrecommit(n, s)
             b == s.block
             sig == AggregatedSig(n, s)
         IN  /\ Executed(s, t, [block |-> b, ok |-> sig.ok])
             /\ t.app = IF b.type = "Inner" THEN ExecutionInnerShard(s.app, b.txs, KeyRange[b.chain])
                                            ELSE s.app
             /\ BPools(s, t, b)
             /\ t.out = s.out \cup IfProposer(n, s,
                          CASE b.type = "Inner" -> {}
                            [] b.type = "Cross" -> CrossShardBlockMsgs(b, sig, Related[ChainOf(n)])
                            [] b.type = "BCommit" -> MessageCommits(s.pending, sig, Related[ChainOf(n)]))
<1> DEFINE b == s.block
           sig == AggregatedSig(n, s)
           u == UpdateBState(n, s, b)
           t == DoPrecommit(n, s)
           sent == CASE b.type = "Inner" -> {}
                     [] b.type = "Cross" -> CrossShardBlockMsgs(b, sig, Related[ChainOf(n)])
                     [] b.type = "BCommit" -> MessageCommits(s.pending, sig, Related[ChainOf(n)])
           out == IfProposer(n, s, sent)
           app == IF b.type = "Inner" THEN ExecutionInnerShard(s.app, b.txs, KeyRange[b.chain])
                                      ELSE s.app
           e == [block |-> b, ok |-> sig.ok]
<1>1. /\ IsState(u)
      /\ u.step = s.step /\ u.height = s.height /\ u.up = s.up /\ u.create = s.create
      /\ SameRound(s, u) /\ u.bseen = s.bseen /\ u.relay = s.relay /\ u.shardHeight = s.shardHeight
      /\ u.ledger = s.ledger /\ u.app = s.app /\ u.store = s.store /\ u.out = s.out
      /\ u.pending = CASE b.type = "Inner" -> s.pending
                       [] b.type = "Cross" -> Hash(b)
                       [] b.type = "BCommit" -> None
      /\ u.maPool = IF b.type = "Inner" THEN s.maPool ELSE {}
  <2>1. CASE b.type = "Inner"
    <3>1. u = [s EXCEPT !.mempool = Without(@, b.txs)]
      BY <2>1 DEF UpdateBState
    <3> QED BY <2>1, <3>1 DEF IsState, StateFields, SameRound
  <2>2. CASE b.type = "Cross"
    <3>1. u = [s EXCEPT !.pending = Hash(b), !.maPool = {}]
      BY <2>2 DEF UpdateBState
    <3> QED BY <2>2, <3>1 DEF IsState, StateFields, SameRound
  <2>3. CASE b.type = "BCommit"
    <3>1. u = [s EXCEPT !.pending = None, !.maPool = {},
                        !.crossMempool = Without(@, StoredBlock(s.store, s.pending).txs)]
      BY <2>3 DEF UpdateBState
    <3> QED BY <2>3, <3>1 DEF IsState, StateFields, SameRound
  <2> QED BY <2>1, <2>2, <2>3
<1>2. t = [[u EXCEPT !.app = IF b.type = "Inner" THEN ExecutionInnerShard(@, b.txs, KeyRange[b.chain])
                                                 ELSE @,
                     !.out = @ \cup IfProposer(n, s, sent)]
           EXCEPT !.store = @ \cup {b}, !.ledger = Append(@, [block |-> b, ok |-> sig.ok]),
                  !.step = "Commit"]
  BY DEF DoPrecommit, ProcessBlock, ProcessBBlock
<1> HIDE DEF u, t, b, sig, sent
<1>3. t = [[u EXCEPT !.app = app, !.out = @ \cup out]
           EXCEPT !.store = @ \cup {b}, !.ledger = Append(@, e), !.step = "Commit"]
  BY <1>1, <1>2
<1> HIDE DEF out, app, e
<1>4. /\ IsState(t) /\ t.step = "Commit"
      /\ t.height = u.height /\ t.up = u.up /\ t.create = u.create
      /\ SameRound(u, t) /\ t.bseen = u.bseen /\ t.relay = u.relay /\ t.shardHeight = u.shardHeight
      /\ t.ledger = Append(u.ledger, e) /\ t.pending = u.pending /\ t.maPool = u.maPool
      /\ t.app = app /\ t.store = u.store \cup {b} /\ t.out = u.out \cup out
  BY <1>1, <1>3 DEF IsState, StateFields, SameRound
<1>5. Executed(s, t, e)
  BY <1>1, <1>4 DEF Executed, SameRound
<1>6. BPools(s, t, b)
  BY <1>1, <1>4 DEF BPools
<1> QED BY <1>1, <1>4, <1>5, <1>6 DEF out, app, e, sent, b, sig, t

\* The pools of a node follow the ledgers.
LEMMA PoolsFollow ==
  ASSUME NEW n \in Node, NEW s, NEW M, NEW N, M \subseteq N, NEW L, NEW K,
         Sound(M, L), NodeOK(n, s, M, L), Extends(L, K)
  PROVE  PoolsOK(n, s, N, K)
<1> DEFINE c == ChainOf(n)
<1>1. Len(s.ledger) \in 0..Len(L[c]) /\ c \in Shard
  BY NodeHeights, Nodes
<1>2. PoolsOK(n, s, M, L)
  BY DEF NodeOK, PoolsOK
<1> HIDE DEF c
<1> QED BY <1>1, <1>2, PoolsGrow DEF PoolsOK, c

\* The last block of the ledger of t is b.
LEMMA IPoolsExecuted ==
  ASSUME NEW c \in IShards, NEW s, NEW t, NEW M, NEW K, NEW b, NEW h \in Nat \ {0},
         IPoolsOK(c, s, M, K), Len(s.ledger) = h - 1, Len(t.ledger) = h, K[c][h].block = b,
         b.chain = c, b.type \in {"Inner", "IAccept", "ICommit"},
         IPools(s, t, b)
  PROVE  IPoolsOK(c, t, M, K)
<1>1. /\ t.store = (s.store \cup CarriedBlocks({b})) \cup {b}
      /\ t.csbPool = IF b.type = "IAccept"
                     THEN {csb \in s.csbPool : Hash(csb.block) # Hash(b.csb.block)} ELSE s.csbPool
      /\ t.commitPool = IF b.type = "ICommit"
                        THEN {mc \in s.commitPool : mc.hash \notin HashesOf(b)} ELSE s.commitPool
      /\ t.committed = IF b.type = "ICommit" THEN s.committed \cup HashesOf(b) ELSE s.committed
  BY DEF IPools
<1>2. c \in Shard /\ c \notin Related[c] /\ \A d \in Related[c] : d # c
  BY Neighbours DEF Shard
<1>4. CarriedBlocks({b}) = IF b.type = "IAccept" THEN {b.csb.block} ELSE {}
  BY DEF CarriedBlocks
<1>5. ASSUME NEW csb \in t.csbPool
      PROVE  CsbOK(M, K, c, csb) /\ csb.block \notin t.store
  <2>1. csb \in s.csbPool /\ (b.type = "IAccept" => csb.block # b.csb.block)
    BY <1>1, <1>5
  <2>2. CsbOK(M, K, c, csb) /\ csb.block \notin s.store
    BY <2>1 DEF IPoolsOK
  <2>3. csb.block # b
    BY <1>1, <1>2, <2>2 DEF CsbOK
  <2> QED BY <1>1, <1>4, <2>1, <2>2, <2>3
<1>6. ASSUME NEW mc \in t.commitPool
      PROVE  DecisionOK(M, K, c, mc) /\ mc.hash \notin t.committed
  BY <1>1, <1>6 DEF IPoolsOK
<1>7. ASSUME NEW j \in 1..Len(t.ledger)
      PROVE  LET x == K[c][j].block IN
             /\ x.type = "IAccept" => x.csb.block \in t.store
             /\ x.type = "ICommit" => \A k \in DOMAIN x.commits : x.commits[k].hash \in t.committed
  <2>1. CASE j = h
    <3>1. b.type = "IAccept" => b.csb.block \in t.store
      BY <1>1, <1>4
    <3>2. b.type = "ICommit" => \A k \in DOMAIN b.commits : b.commits[k].hash \in t.committed
      BY <1>1 DEF HashesOf, ToSet
    <3> QED BY <1>1, <2>1, <3>1, <3>2
  <2>2. CASE j # h
    <3>1. j \in 1..Len(s.ledger)
      BY <1>7, <2>2
    <3>2. s.store \subseteq t.store /\ s.committed \subseteq t.committed
      BY <1>1
    <3> QED BY <3>1, <3>2 DEF IPoolsOK
  <2> QED BY <2>1, <2>2
<1>8. IsFiniteSet(t.commitPool)
  <2>1. IsFiniteSet(s.commitPool) /\ t.commitPool \in SUBSET s.commitPool
    BY <1>1 DEF IPoolsOK
  <2> QED BY <2>1, FS_Subset
<1> QED BY <1>5, <1>6, <1>7, <1>8 DEF IPoolsOK

\* A B-shard's open block and answers after it has executed a block.
LEMMA BPoolsExecuted ==
  ASSUME NEW c \in BShards, NEW s, NEW t, NEW M, NEW K, NEW b, NEW h \in Nat \ {0},
         BPoolsOK(c, s, M, K), Len(s.ledger) = h - 1, Len(t.ledger) = h, K[c][h].block = b,
         b.chain = c, b.height = h, b.type \in {"Inner", "Cross", "BCommit"},
         BPools(s, t, b)
  PROVE  BPoolsOK(c, t, M, K)
<1>1. /\ t.pending = CASE b.type = "Inner" -> s.pending
                       [] b.type = "Cross" -> Hash(b)
                       [] b.type = "BCommit" -> None
      /\ t.maPool = IF b.type = "Inner" THEN s.maPool ELSE {}
  BY DEF BPools
<1>4. CASE b.type = "Inner"
  <2>1. t.pending = s.pending /\ t.maPool = s.maPool
    BY <1>1, <1>4
  <2>2. OpenAfter(K, c, h - 1, s.pending)
    BY DEF BPoolsOK
  <2>3. OpenAfter(K, c, h, s.pending)
    <3>1. \A j \in 1..h : j = h \/ j \in 1..(h - 1)
      OBVIOUS
    <3>2. CASE /\ s.pending = None
               /\ \A j \in 1..(h - 1) : K[c][j].block.type = "Cross" =>
                    \E l \in (j + 1)..(h - 1) : K[c][l].block.type = "BCommit"
      <4>1. ASSUME NEW j \in 1..h, K[c][j].block.type = "Cross"
            PROVE  \E l \in (j + 1)..h : K[c][l].block.type = "BCommit"
        <5>1. j \in 1..(h - 1)
          BY <1>1, <1>4, <3>1, <4>1
        <5>2. PICK l \in (j + 1)..(h - 1) : K[c][l].block.type = "BCommit"
          BY <3>2, <4>1, <5>1
        <5> QED BY <5>1, <5>2
      <4> QED BY <3>2, <4>1 DEF OpenAfter
    <3>3. CASE \E j \in 1..(h - 1) :
                 /\ s.pending = <<c, j>>
                 /\ K[c][j].block.type = "Cross"
                 /\ \A l \in (j + 1)..(h - 1) : K[c][l].block.type \notin {"Cross", "BCommit"}
      <4>1. PICK j \in 1..(h - 1) :
              /\ s.pending = <<c, j>>
              /\ K[c][j].block.type = "Cross"
              /\ \A l \in (j + 1)..(h - 1) : K[c][l].block.type \notin {"Cross", "BCommit"}
        BY <3>3
      <4>2. ASSUME NEW l \in (j + 1)..h PROVE K[c][l].block.type \notin {"Cross", "BCommit"}
        <5>1. l = h \/ l \in (j + 1)..(h - 1)
          BY <4>1, <4>2
        <5> QED BY <1>1, <1>4, <4>1, <5>1
      <4>3. j \in 1..h
        BY <4>1
      <4> QED BY <4>1, <4>2, <4>3 DEF OpenAfter
    <3> QED BY <2>2, <3>2, <3>3 DEF OpenAfter
  <2> QED BY <2>1, <2>3 DEF BPoolsOK
<1>5. CASE b.type = "Cross"
  <2>1. t.pending = <<c, h>> /\ t.maPool = {}
    BY <1>1, <1>5 DEF Hash
  <2>2. OpenAfter(K, c, h, <<c, h>>)
    <3>1. h \in 1..h /\ (h + 1)..h = {}
      OBVIOUS
    <3> QED BY <1>1, <1>5, <3>1 DEF OpenAfter
  <2> QED BY <2>1, <2>2 DEF BPoolsOK
<1>6. CASE b.type = "BCommit"
  <2>1. t.pending = None /\ t.maPool = {}
    BY <1>1, <1>6
  <2>2. ASSUME NEW j \in 1..h, K[c][j].block.type = "Cross"
        PROVE  \E l \in (j + 1)..h : K[c][l].block.type = "BCommit"
    <3>1. j # h
      BY <1>1, <1>6, <2>2
    <3>2. h \in (j + 1)..h
      BY <3>1
    <3> QED BY <1>1, <1>6, <3>2
  <2>3. OpenAfter(K, c, h, None)
    BY <2>2 DEF OpenAfter
  <2> QED BY <2>1, <2>3 DEF BPoolsOK
<1> QED BY <1>1, <1>4, <1>5, <1>6

\* The shards around c can rely on what c has agreed on: its block,
LEMMA BlocksSent ==
  ASSUME NEW c \in Shard, NEW M, NEW K, NEW e, NEW h \in Nat \ {0}, EntryOK(M, c, h, e),
         NEW sig, sig.chain = c, SigOK(M, sig), Len(K[c]) \in Nat, h <= Len(K[c]), K[c][h] = e,
         NEW m \in CrossShardBlockMsgs(e.block, sig, Related[c])
  PROVE  m.type = "CSB" /\ MsgOK(M, K, m)
<1>1. PICK d \in Related[c] :
        m = [type |-> "CSB", to |-> d, height |-> e.block.height, block |-> e.block, sig |-> sig]
  BY DEF CrossShardBlockMsgs
<1>2. m.type = "CSB" /\ m.to = d /\ m.height = e.block.height /\ m.block = e.block /\ m.sig = sig
  BY <1>1
<1>3. d \in Shard /\ c \in Related[d]
  BY Neighbours
<1>4. e.block.chain = c /\ e.block.height = h
  BY DEF EntryOK
<1>5. CsbOK(M, K, d, m)
  BY <1>2, <1>3, <1>4 DEF CsbOK, InLedger
<1> QED BY <1>2, <1>3, <1>4, <1>5 DEF MsgOK, IsVote

\* the answer of an I-shard,
LEMMA AnswersSent ==
  ASSUME NEW c \in Shard, NEW M, NEW K, NEW e, NEW h \in Nat \ {0}, BlockOK(M, K, e.block),
         e.block.chain = c, e.block.type = "IAccept",
         NEW sig, sig.chain = c, sig.height = h, sig.ok = e.ok, SigOK(M, sig),
         Len(K[c]) \in Nat, h <= Len(K[c]), K[c][h] = e,
         NEW m \in Answers(e.block, sig)
  PROVE  m.type = "Accept" /\ MsgOK(M, K, m)
<1> DEFINE x == e.block.csb.block
<1>1. m = [type |-> "Accept", to |-> x.chain, height |-> sig.height, hash |-> Hash(x), sig |-> sig]
  BY DEF Answers, MessageAccepts
<1>2. m.type = "Accept" /\ m.to = x.chain /\ m.height = h /\ m.hash = Hash(x) /\ m.sig = sig
  BY <1>1
<1>3. x.chain \in Related[c]
  BY DEF BlockOK, CsbOK
<1>4. x.chain \in Shard /\ c \in Related[x.chain]
  BY <1>3, Neighbours
<1>5. Answered(K, c, Hash(x), sig.ok)
  BY DEF Answered
<1>6. AnswerOK(M, K, m.to, m.hash, m.sig)
  BY <1>2, <1>4, <1>5 DEF AnswerOK
<1> QED BY <1>2, <1>4, <1>6 DEF MsgOK, IsVote

\* and the decision of a B-shard.
LEMMA DecisionsSent ==
  ASSUME NEW c \in Shard, NEW M, NEW K, NEW e, NEW h \in Nat \ {0},
         e.block.type = "BCommit", e.block.hash[1] = c,
         NEW sig, sig.chain = c, sig.height = h, sig.ok = e.ok, SigOK(M, sig),
         Len(K[c]) \in Nat, h <= Len(K[c]), K[c][h] = e,
         NEW m \in MessageCommits(e.block.hash, sig, Related[c])
  PROVE  m.type = "Commit" /\ MsgOK(M, K, m)
<1> DEFINE x == e.block.hash
<1>1. PICK d \in Related[c] :
        m = [type |-> "Commit", to |-> d, height |-> sig.height, hash |-> x, sig |-> sig]
  BY DEF MessageCommits
<1>2. m.type = "Commit" /\ m.to = d /\ m.height = h /\ m.hash = x /\ m.sig = sig
  BY <1>1
<1>3. d \in Shard /\ c \in Related[d]
  BY Neighbours
<1>4. Decided(K, x, sig.ok)
  BY DEF Decided
<1>5. DecisionOK(M, K, m.to, m)
  BY <1>2, <1>3, <1>4 DEF DecisionOK
<1> QED BY <1>2, <1>3, <1>5 DEF MsgOK, IsVote

\* The open block of a B-shard is its own.
LEMMA OpenIsOwn ==
  ASSUME NEW L, NEW c, NEW k, NEW p, OpenAfter(L, c, k, p), p # None
  PROVE  p[1] = c
BY DEF OpenAfter

\* DoPrecommit: the ledger of the shard may grow by the block.
LEMMA DoPrecommitKept ==
  ASSUME NoneIsNil, NEW n \in Node, NEW s, NEW N, NEW L, Good(n, s, N, L), ~s.create,
         s.up, s.step = "Precommit", FinishPrecommit(s)
  PROVE  \E K : /\ GrowsBy(L, K, ChainOf(n), DoPrecommit(n, s).ledger)
                /\ Good(n, DoPrecommit(n, s), N, K)
<1> DEFINE c == ChainOf(n)
           M == N \cup s.out
           b == s.block
           sig == AggregatedSig(n, s)
           e == [block |-> b, ok |-> sig.ok]
           h == s.height
           t == DoPrecommit(n, s)
           R == N \cup t.out
<1>1. Sound(M, L) /\ NodeOK(n, s, M, L) /\ c \in Shard
  BY Nodes DEF Good
<1>2. e.block = b /\ e.ok = sig.ok
  OBVIOUS
<1> HIDE DEF M
<1>3. b # None /\ HasMaj23(s.precommits) /\ h # 0 /\ h \in Nat /\ s.step # "Commit"
  BY <1>1 DEF FinishPrecommit, FinishPrevote, FinishProposal, NodeOK, ControlOK
<1>4. /\ sig.chain = c /\ sig.height = h /\ sig.ok \in BOOLEAN
      /\ SigOK(M, sig) /\ EntryOK(M, c, h, e)
  BY <1>1, <1>3, Agreed
<1>5. BlockOK(M, L, b) /\ b.chain = c /\ b.height = h
  BY <1>1, <1>3, RoundBlock
<1>6. PICK K : /\ \E S : Append(s.ledger, e) \in Seq(S)
               /\ Len(Append(s.ledger, e)) = h
               /\ GrowsBy(L, K, c, Append(s.ledger, e))
               /\ Sound(M, K)
               /\ h <= Len(K[c])
               /\ \A j \in 1..h : K[c][j] = Append(s.ledger, e)[j]
               /\ K[c][h] = e
  <2> HIDE DEF e
  <2>1. EntryOK(M, ChainOf(n), s.height, e) /\ s.height # 0
    BY <1>3, <1>4
  <2>2. Sound(M, L) /\ NodeOK(n, s, M, L) /\ s.step # "Commit"
    BY <1>1, <1>3
  <2> HIDE DEF b, sig, h, c, t, R
  <2>3. PICK K : Reaches(M, L, K, ChainOf(n), s.height, Append(s.ledger, e)) /\ K[ChainOf(n)][s.height] = e
    BY <2>1, <2>2, LedgerGrown
  <2> QED BY <2>3 DEF h, c, Reaches
<1> HIDE DEF b, sig, e, h, t, c, R
<1>7. /\ Extends(L, K)
      /\ Len(K[c]) \in Nat /\ Len(s.ledger) = h - 1
      /\ BlockOK(M, K, b)
  <2>1. Extends(L, K) /\ M \subseteq M
    BY <1>6 DEF GrowsBy
  <2>2. Len(s.ledger) = h - 1
    BY <1>1, <1>3, NodeHeights DEF h
  <2>3. Len(K[c]) \in Nat
    BY <1>1, <2>1 DEF Extends
  <2>4. BlockOK(M, K, b)
    BY <1>5, <2>1, BlockGrows
  <2> QED BY <2>1, <2>2, <2>3, <2>4
<1>8. PoolsOK(n, s, M, K)
  <2>1. M \subseteq M
    OBVIOUS
  <2> QED BY <1>1, <1>7, <2>1, PoolsFollow
<1>9. /\ Executed(s, t, e)
      /\ \A m \in t.out : m \in s.out \/ (m.type \in {"CSB", "Accept", "Commit"} /\ MsgOK(M, K, m))
      /\ s.out \subseteq t.out
      /\ PoolsOK(n, t, M, K)
  <2>1. IsState(s) /\ h \in Nat \ {0}
    BY <1>1, <1>3 DEF NodeOK
  <2>2. CASE c \in IShards
    <3>1. b.type \in {"Inner", "IAccept", "ICommit"}
      BY <1>5, <2>2 DEF BlockOK
    <3>2. /\ Executed(s, t, e)
          /\ t.out = s.out \cup IfProposer(n, s, Answers(b, sig) \cup CrossShardBlockMsgs(b, sig, Related[c]))
          /\ IPools(s, t, b)
      <4>1. s.block.type \in {"Inner", "IAccept", "ICommit"} /\ ChainOf(n) \in IShards
        BY <2>2, <3>1 DEF b, c
      <4> QED BY <2>1, <4>1, IExecuted DEF b, sig, e, t, c
    <3>3. \A m \in t.out : m \in s.out \/ (m.type \in {"CSB", "Accept", "Commit"} /\ MsgOK(M, K, m))
      <4>1. \A m \in CrossShardBlockMsgs(b, sig, Related[c]) : m.type = "CSB" /\ MsgOK(M, K, m)
        BY <1>1, <1>2, <1>4, <1>6, <1>7, <2>1, BlocksSent
      <4>2. \A m \in Answers(b, sig) : m.type = "Accept" /\ MsgOK(M, K, m)
        <5>1. CASE b.type = "IAccept"
          BY <1>1, <1>2, <1>4, <1>5, <1>6, <1>7, <2>1, <5>1, AnswersSent
        <5>2. CASE b.type # "IAccept"
          BY <5>2 DEF Answers
        <5> QED BY <5>1, <5>2
      <4> QED BY <3>2, <4>1, <4>2 DEF IfProposer
    <3>4. PoolsOK(n, t, M, K)
      <4>1. c \notin BShards /\ IPoolsOK(c, s, M, K)
        BY <1>1, <1>8, <2>2, Neighbours DEF PoolsOK, c
      <4>2. Len(t.ledger) = h /\ K[c][h].block = b /\ e.block = b
        BY <1>2, <1>6, <3>2 DEF Executed
      <4>3. IPoolsOK(c, t, M, K)
        BY <1>5, <1>7, <2>1, <2>2, <3>1, <3>2, <4>1, <4>2, IPoolsExecuted
      <4> QED BY <4>1, <4>3 DEF PoolsOK, c
    <3> QED BY <3>2, <3>3, <3>4
  <2>3. CASE c \notin IShards
    <3>1. b.type \in {"Inner", "Cross", "BCommit"} /\ c \in BShards
      BY <1>1, <1>5, <2>3, Neighbours DEF BlockOK
    <3> DEFINE sent == CASE b.type = "Inner" -> {}
                         [] b.type = "Cross" -> CrossShardBlockMsgs(b, sig, Related[c])
                         [] b.type = "BCommit" -> MessageCommits(s.pending, sig, Related[c])
    <3>2. /\ Executed(s, t, e)
          /\ t.out = s.out \cup IfProposer(n, s, sent)
          /\ BPools(s, t, b)
      <4>1. s.block.type \in {"Inner", "Cross", "BCommit"} /\ ChainOf(n) \notin IShards
        BY <2>3, <3>1 DEF b, c
      <4> QED BY <2>1, <4>1, BExecuted DEF b, sig, e, t, c
    <3>3. \A m \in sent : m.type \in {"CSB", "Commit"} /\ MsgOK(M, K, m)
      <4>1. CASE b.type = "Inner"
        BY <4>1
      <4>2. CASE b.type = "Cross"
        <5>1. sent = CrossShardBlockMsgs(b, sig, Related[c])
          BY <4>2
        <5>2. \A m \in CrossShardBlockMsgs(b, sig, Related[c]) : m.type = "CSB" /\ MsgOK(M, K, m)
          BY <1>1, <1>2, <1>4, <1>6, <1>7, <2>1, BlocksSent
        <5> QED BY <5>1, <5>2
      <4>3. CASE b.type = "BCommit"
        <5>1. s.pending = b.hash /\ s.pending # None
          BY <1>1, <1>3, <4>3, PendingIsDecided DEF b, h
        <5>2. b.hash[1] = c
          <6>1. OpenAfter(K, c, Len(s.ledger), s.pending)
            BY <1>8, <3>1 DEF PoolsOK, BPoolsOK, c
          <6> QED BY <5>1, <6>1, OpenIsOwn
        <5>3. sent = MessageCommits(b.hash, sig, Related[c])
          BY <4>3, <5>1
        <5>4. \A m \in MessageCommits(b.hash, sig, Related[c]) : m.type = "Commit" /\ MsgOK(M, K, m)
          BY <1>1, <1>2, <1>4, <1>6, <1>7, <2>1, <4>3, <5>2, DecisionsSent
        <5> QED BY <5>3, <5>4
      <4> QED BY <3>1, <4>1, <4>2, <4>3
    <3> HIDE DEF sent
    <3>4. \A m \in t.out : m \in s.out \/ (m.type \in {"CSB", "Accept", "Commit"} /\ MsgOK(M, K, m))
      BY <3>2, <3>3 DEF IfProposer
    <3>5. PoolsOK(n, t, M, K)
      <4>1. BPoolsOK(c, s, M, K) /\ CopiesOK(c, s, K)
        BY <1>8, <3>1 DEF PoolsOK, c
      <4>2. Len(t.ledger) = h /\ K[c][h].block = b /\ e.block = b
        BY <1>2, <1>6, <3>2 DEF Executed
      <4>3. BPoolsOK(c, t, M, K)
        BY <1>5, <1>7, <2>1, <3>1, <3>2, <4>1, <4>2, BPoolsExecuted
      <4>4. CopiesOK(c, t, K)
        <5>1. b.chain \notin Related[c] /\ t.shardHeight = s.shardHeight
          BY <1>1, <1>5, <3>1, <3>2, Neighbours DEF Executed
        <5> QED BY <3>2, <4>1, <5>1 DEF CopiesOK, BPools
      <4> QED BY <2>3, <4>3, <4>4 DEF PoolsOK, c
    <3> QED BY <3>2, <3>4, <3>5
  <2> QED BY <2>2, <2>3
<1>10. /\ R = M \cup t.out /\ M \subseteq R
       /\ \A m \in R : m \in M \/ (m.type \in {"CSB", "Accept", "Commit"} /\ MsgOK(M, K, m))
  BY <1>9 DEF M, R
<1>11. Extends(K, K)
  BY <1>6, ExtendsSelf DEF Sound
<1>12. Sound(R, K)
  <2>1. OneProposal(R) /\ OneVote(R)
    BY <1>6, <1>10 DEF Sound, OneProposal, OneVote, IsVote
  <2>2. \A m \in R \ M : MsgOK(R, K, m)
    BY <1>10, <1>11, MsgGrows
  <2>3. \A d \in Shard : \A j \in 1..Len(K[d]) : ~(j > Len(K[d]))
    BY <1>11 DEF Extends
  <2> QED BY <1>6, <1>10, <1>11, <2>1, <2>2, <2>3, SoundGrows
<1>13. RoundOK(n, t, R)
  <2>1. RoundOK(n, s, R)
    BY <1>1, <1>10, VoteSetGrows DEF NodeOK, RoundOK, Proposed
  <2> QED BY <1>9, <2>1, RoundSame DEF Executed
<1>14. PoolsOK(n, t, R, K)
  <2>1. Len(t.ledger) \in 0..Len(K[c])
    BY <1>3, <1>6, <1>7, <1>9 DEF Executed
  <2> QED BY <1>1, <1>9, <1>10, <1>11, <2>1, PoolsGrow DEF PoolsOK, c
<1>15. LedgerOK(n, t, K)
  <2>1. t.ledger = Append(s.ledger, e) /\ t.step = "Commit" /\ t.height = h
    BY <1>9 DEF Executed, h
  <2> QED BY <1>3, <1>6, <2>1 DEF LedgerOK, c
<1>16. ControlOK(n, t)
  BY <1>1, <1>3, <1>9 DEF NodeOK, ControlOK, Executed, h
<1>17. TogetherOK(n, t, K)
  <2>1. \A d \in Related[c] : Len(L[d]) \in Nat /\ Len(K[d]) \in Nat /\ Len(L[d]) <= Len(K[d])
    BY <1>1, <1>7, Neighbours DEF Extends
  <2>2. t.height = h /\ t.bseen = s.bseen /\ s.height = h
    BY <1>9 DEF Executed, h
  <2>3. /\ \A d \in Related[c] : h - 1 <= Len(L[d])
        /\ \A d \in s.bseen : d \in Related[c] /\ h <= Len(L[d])
    BY <1>1, <2>2 DEF NodeOK, TogetherOK, c
  <2>4. /\ \A d \in Related[c] : h - 1 <= Len(K[d])
        /\ \A d \in s.bseen : d \in Related[c] /\ h <= Len(K[d])
    BY <1>3, <2>1, <2>3
  <2> QED BY <2>2, <2>4 DEF TogetherOK, c
<1>18. SentOK(n, t, R)
  <2>1. t.height = s.height /\ t.step = "Commit" /\ t.create = s.create
    BY <1>9 DEF Executed
  <2>2. \A type : type \in {"Prevote", "Precommit"} => "Commit" \in AfterVote(type)
    BY DEF AfterVote
  <2>3. \A m \in R : IsVote(m) \/ m.type = "Proposal" => m \in M
    BY <1>10 DEF IsVote
  <2>4. SentOK(n, s, M)
    BY <1>1 DEF NodeOK
  <2> QED BY <2>1, <2>2, <2>3, <2>4 DEF SentOK, IsVote
<1>19. OutOK(n, t) /\ RelayOK(n, t, R)
  BY <1>1, <1>9, <1>10 DEF NodeOK, OutOK, RelayOK, Executed, IsVote
<1>20. NodeOK(n, t, R, K)
  BY <1>9, <1>13, <1>14, <1>15, <1>16, <1>17, <1>18, <1>19 DEF NodeOK, PoolsOK, Executed
<1>21. Good(n, t, N, K)
  BY <1>12, <1>20 DEF Good, R
<1>22. GrowsBy(L, K, c, t.ledger)
  BY <1>6, <1>9 DEF Executed
<1> QED BY <1>21, <1>22 DEF c, t

\* A ledger may stay as it is.
LEMMA GrowsByNothing ==
  ASSUME NEW M, NEW L, Sound(M, L), NEW c, NEW seq
  PROVE  GrowsBy(L, L, c, seq)
BY ExtendsSelf DEF Sound, GrowsBy

\* What a node of chain c has after it has executed e, from what it had.
StateOf(s) == [app |-> s.app, store |-> s.store]
Run(c, a, e) ==
  IF c \in IShards
  THEN [app   |-> ExecuteIBlock(a.app, a.store, e.block, e.ok),
        store |-> (a.store \cup CarriedBlocks({e.block})) \cup {e.block}]
  ELSE [app   |-> IF e.block.type = "Inner"
                  THEN ExecutionInnerShard(a.app, e.block.txs, KeyRange[e.block.chain]) ELSE a.app,
        store |-> a.store \cup {e.block}]

\* The node has executed nothing, or one block.
Ran(n, s, t) ==
  \/ t.ledger = s.ledger /\ StateOf(t) = StateOf(s)
  \/ \E e : t.ledger = Append(s.ledger, e) /\ StateOf(t) = Run(ChainOf(n), StateOf(s), e)

\* DoPrecommit is one run of the application, on the block of the round.
LEMMA PrecommitRan ==
  ASSUME NEW n \in Node, NEW s, NEW N, NEW L, Good(n, s, N, L), FinishPrecommit(s)
  PROVE  Ran(n, s, DoPrecommit(n, s))
<1> DEFINE c == ChainOf(n)
           b == s.block
           sig == AggregatedSig(n, s)
           e == [block |-> b, ok |-> sig.ok]
           t == DoPrecommit(n, s)
<1>1. IsState(s) /\ b # None /\ c \in Shard
  BY Nodes DEF Good, NodeOK, FinishPrecommit, FinishPrevote, FinishProposal
<1>2. BlockOK(N \cup s.out, L, b) /\ b.chain = c
  BY <1>1, RoundBlock DEF Good
<1>3. e.block = b /\ e.ok = sig.ok
  OBVIOUS
<1>4. CASE c \in IShards
  <2>1. b.type \in {"Inner", "IAccept", "ICommit"}
    BY <1>2, <1>4 DEF BlockOK
  <2>2. /\ Executed(s, t, e) /\ IPools(s, t, b)
        /\ t.app = ExecuteIBlock(s.app, s.store, b, sig.ok)
    BY <1>1, <1>4, <2>1, IExecuted
  <2> HIDE DEF b, sig, e, t, c
  <2>3. t.ledger = Append(s.ledger, e)
    BY <2>2 DEF Executed
  <2>4. t.store = (s.store \cup CarriedBlocks({b})) \cup {b}
    BY <2>2 DEF IPools
  <2>5. StateOf(t) = Run(c, StateOf(s), e)
    BY <1>3, <1>4, <2>2, <2>4 DEF StateOf, Run
  <2> QED BY <2>3, <2>5 DEF Ran, t, c
<1>5. CASE c \notin IShards
  <2>1. b.type \in {"Inner", "Cross", "BCommit"}
    BY <1>2, <1>5 DEF BlockOK
  <2>2. /\ Executed(s, t, e) /\ BPools(s, t, b)
        /\ t.app = IF b.type = "Inner" THEN ExecutionInnerShard(s.app, b.txs, KeyRange[b.chain])
                                       ELSE s.app
    BY <1>1, <1>5, <2>1, BExecuted
  <2> HIDE DEF b, sig, e, t, c
  <2>3. t.ledger = Append(s.ledger, e)
    BY <2>2 DEF Executed
  <2>4. t.store = s.store \cup {b}
    BY <2>2 DEF BPools
  <2>5. StateOf(t) = Run(c, StateOf(s), e)
    BY <1>3, <1>5, <2>2, <2>4 DEF StateOf, Run
  <2> QED BY <2>3, <2>5 DEF Ran, t, c
<1> QED BY <1>4, <1>5

\* PrecommitStep.
LEMMA PrecommitKept ==
  ASSUME NoneIsNil, NEW n \in Node, NEW s, NEW N, NEW L, Good(n, s, N, L), ~s.create
  PROVE  /\ \E K : /\ GrowsBy(L, K, ChainOf(n), PrecommitStep(n, s).ledger)
                   /\ Good(n, PrecommitStep(n, s), N, K)
         /\ Ran(n, s, PrecommitStep(n, s))
<1>1. CASE s.up /\ s.step = "Precommit" /\ FinishPrecommit(s)
  <2>1. PrecommitStep(n, s) = DoPrecommit(n, s)
    BY <1>1 DEF PrecommitStep, AtStep
  <2> QED BY <1>1, <2>1, DoPrecommitKept, PrecommitRan
<1>2. CASE ~(s.up /\ s.step = "Precommit" /\ FinishPrecommit(s))
  <2>1. PrecommitStep(n, s) = s
    BY <1>2 DEF PrecommitStep, AtStep
  <2>2. Sound(N \cup s.out, L)
    BY DEF Good
  <2>3. GrowsBy(L, L, ChainOf(n), s.ledger)
    BY <2>2, GrowsByNothing
  <2>4. Ran(n, s, s)
    BY DEF Ran
  <2> QED BY <2>1, <2>3, <2>4
<1> QED BY <1>1, <1>2

\* A node that has finished a height, with all neighbours, goes on to the next.
LEMMA HeightEntered ==
  ASSUME NEW n \in Node, NEW s, NEW M, NEW L, Sound(M, L), NodeOK(n, s, M, L), s.up,
         s.height = 0 \/ s.step = "Commit", \A d \in Related[ChainOf(n)] : s.height <= Len(L[d])
  PROVE  /\ NodeOK(n, EnterNewHeight(n, s), M, L)
         /\ EnterNewHeight(n, s).height = s.height + 1
         /\ EnterNewHeight(n, s).out = s.out /\ EnterNewHeight(n, s).ledger = s.ledger
<1> DEFINE c == ChainOf(n)
           u == [s EXCEPT !.height = @ + 1, !.step = "Propose", !.bseen = {},
                          !.relay = {m \in @ : m.height > s.height}]
           t == ClearAll(n, u)
           r == EnterNewHeight(n, s)
           new == NewVoteSet(Votes[c])
<1>1. /\ IsState(u) /\ u.height = s.height + 1 /\ u.step = "Propose" /\ u.bseen = {}
      /\ u.relay \subseteq s.relay /\ u.up = s.up /\ u.out = s.out /\ u.ledger = s.ledger
      /\ SamePools(s, u)
  BY DEF NodeOK, IsState, StateFields, SamePools
<1>2. r = [t EXCEPT !.create = IsProposer(n, t)]
  BY DEF EnterNewHeight
<1> HIDE DEF u
<1>3. /\ IsState(t) /\ t.height = u.height /\ t.step = u.step /\ t.bseen = u.bseen
      /\ t.relay = u.relay /\ t.up = u.up /\ t.out = u.out /\ t.ledger = u.ledger
      /\ SamePools(u, t)
      /\ t.proposal = None /\ t.block = None /\ t.prevotes = new /\ t.precommits = new
  BY <1>1 DEF ClearAll, IsState, StateFields, SamePools
<1> HIDE DEF t, r
<1>4. /\ IsState(r) /\ r.height = t.height /\ r.step = t.step /\ r.bseen = t.bseen
      /\ r.relay = t.relay /\ r.up = t.up /\ r.out = t.out /\ r.ledger = t.ledger
      /\ SamePools(t, r) /\ SameRound(t, r) /\ r.create = IsProposer(n, t)
  BY <1>2, <1>3 DEF IsState, StateFields, SamePools, SameRound
<1>5. /\ r.height = s.height + 1 /\ r.step = "Propose" /\ r.bseen = {}
      /\ r.relay \subseteq s.relay /\ r.up = s.up /\ r.out = s.out /\ r.ledger = s.ledger
      /\ SamePools(s, r)
      /\ r.proposal = None /\ r.block = None /\ r.prevotes = new /\ r.precommits = new
  BY <1>1, <1>3, <1>4 DEF SamePools, SameRound
<1>6. s.height \in Nat /\ Len(s.ledger) = s.height
  BY NodeHeights
<1>7. ControlOK(n, r)
  <2>1. IsProposer(n, t) = IsProposer(n, r)
    BY <1>4 DEF IsProposer
  <2>2. r.create \in BOOLEAN
    BY <1>4 DEF IsProposer
  <2> QED BY <1>4, <1>5, <1>6, <2>1, <2>2 DEF ControlOK
<1>8. RoundOK(n, r, M)
  BY <1>5, NewSetOK DEF RoundOK
<1>9. LedgerOK(n, r, L)
  BY <1>5, <1>6 DEF NodeOK, LedgerOK
<1>10. PoolsOK(n, r, M, L)
  BY <1>5, PoolsSame DEF NodeOK, PoolsOK
<1>11. TogetherOK(n, r, L)
  BY <1>5, <1>6 DEF TogetherOK
<1>12. SentOK(n, r, M)
  <2>1. ASSUME NEW m \in M, IsVote(m) \/ m.type = "Proposal", SentBy(n, m)
        PROVE  m.height <= r.height /\ m.height # r.height
    <3>1. m.height \in Nat
      BY DEF Sound, MsgOK
    <3>2. m.height <= s.height
      BY <2>1 DEF NodeOK, SentOK
    <3> QED BY <1>5, <1>6, <3>1, <3>2
  <2> QED BY <2>1, Zenon DEF SentOK
<1>13. RelayOK(n, r, M) /\ OutOK(n, r)
  BY <1>5 DEF NodeOK, RelayOK, OutOK
<1>14. NodeOK(n, r, M, L)
  BY <1>4, <1>7, <1>8, <1>9, <1>10, <1>11, <1>12, <1>13 DEF NodeOK, PoolsOK
<1> QED BY <1>5, <1>14 DEF r

\* CommitStep: the node may enter the next height.
LEMMA CommitKept ==
  ASSUME NEW n \in Node, NEW s, NEW N, NEW L, Good(n, s, N, L)
  PROVE  /\ Good(n, CommitStep(n, s), N, L)
         /\ CommitStep(n, s).ledger = s.ledger
<1> DEFINE c == ChainOf(n)
           oks == IF c \in BShards THEN IfProposer(n, s, MessageOKs(c, s.height, Related[c])) ELSE {}
           u == [s EXCEPT !.resume = TRUE,
                          !.out = IF c \in BShards
                                  THEN @ \cup IfProposer(n, s, MessageOKs(c, s.height, Related[c]))
                                  ELSE @]
           M == N \cup s.out
           R == N \cup u.out
<1> SUFFICES ASSUME s.up, s.step = "Commit", CanCommit(n, s)
             PROVE  /\ Good(n, EnterNewHeight(n, u), N, L)
                    /\ EnterNewHeight(n, u).ledger = s.ledger
  BY DEF CommitStep, AtStep, DoCommit
<1>1. Sound(M, L) /\ NodeOK(n, s, M, L) /\ c \in Shard
  BY Nodes DEF Good
<1>2. /\ IsState(u) /\ SameControl(s, u) /\ SameRound(s, u) /\ SamePools(s, u)
      /\ u.ledger = s.ledger /\ u.bseen = s.bseen /\ u.relay = s.relay
      /\ u.out = s.out \cup oks
  BY <1>1 DEF NodeOK, IsState, StateFields, SameControl, SameRound, SamePools
<1> HIDE DEF u
<1>3. R = M \cup oks /\ M \subseteq R
  BY <1>2
<1> HIDE DEF R, M
<1>4. /\ s.height \in Nat /\ s.height # 0 /\ s.height <= Len(L[c])
      /\ \A d \in Shard : Len(L[d]) \in Nat
  <2> HIDE DEF oks
  <2>1. s.height \in Nat /\ s.height # 0
    BY <1>1 DEF NodeOK, ControlOK
  <2>2. \A d \in Shard : Len(L[d]) \in Nat
    BY <1>1 DEF Sound, LedgersOK
  <2>3. Len(s.ledger) = s.height /\ Len(s.ledger) <= Len(L[c])
    BY <1>1 DEF NodeOK, LedgerOK
  <2> QED BY <2>1, <2>2, <2>3
<1>5. ASSUME NEW m \in oks PROVE m.type = "OK" /\ MsgOK(R, L, m)
  <2>1. PICK d \in Related[c] : m = [type |-> "OK", to |-> d, height |-> s.height, src |-> c]
    BY <1>5 DEF IfProposer, MessageOKs
  <2>2. d \in Shard /\ c \in Related[d]
    BY <1>1, Neighbours
  <2>3. m.type = "OK" /\ m.to = d /\ m.height = s.height /\ m.src = c
    BY <2>1
  <2> QED BY <1>4, <2>2, <2>3 DEF MsgOK, IsVote
<1> HIDE DEF oks
<1>6. Extends(L, L)
  BY <1>1, ExtendsSelf DEF Sound
<1>7. Sound(R, L)
  <2>1. OneProposal(R) /\ OneVote(R)
    BY <1>1, <1>3, <1>5 DEF Sound, OneProposal, OneVote, IsVote
  <2>2. \A m \in R \ M : MsgOK(R, L, m)
    BY <1>3, <1>5
  <2>3. \A d \in Shard : \A j \in 1..Len(L[d]) : ~(j > Len(L[d]))
    BY <1>4
  <2> QED BY <1>1, <1>3, <1>6, <2>1, <2>2, <2>3, SoundGrows
<1>8. NodeOK(n, u, R, L)
  <2>1. RoundOK(n, u, R)
    <3>1. RoundOK(n, s, R)
      BY <1>1, <1>3, VoteSetGrows DEF NodeOK, RoundOK, Proposed
    <3> QED BY <1>2, <3>1, RoundSame DEF SameControl
  <2>2. PoolsOK(n, u, R, L)
    <3>1. PoolsOK(n, s, R, L)
      BY <1>1, <1>3, <1>6, PoolsFollow
    <3> QED BY <1>2, <3>1, PoolsSame
  <2>3. ControlOK(n, u) /\ LedgerOK(n, u, L) /\ TogetherOK(n, u, L)
    BY <1>1, <1>2 DEF NodeOK, ControlOK, LedgerOK, TogetherOK, SameControl, IsProposer
  <2>4. SentOK(n, u, R)
    <3>1. \A m \in R : IsVote(m) \/ m.type = "Proposal" => m \in M
      BY <1>3, <1>5 DEF IsVote
    <3>2. SentOK(n, s, M)
      BY <1>1 DEF NodeOK
    <3> QED BY <1>2, <3>1, <3>2 DEF SentOK, SameControl
  <2>5. RelayOK(n, u, R) /\ OutOK(n, u)
    BY <1>1, <1>2, <1>3, <1>5 DEF NodeOK, RelayOK, OutOK, IsVote
  <2> QED BY <1>2, <2>1, <2>2, <2>3, <2>4, <2>5 DEF NodeOK, PoolsOK
<1>9. \A d \in Related[c] : s.height <= Len(L[d])
  <2>1. CASE c \in IShards
    BY <1>1, <2>1 DEF NodeOK, TogetherOK, CanCommit
  <2>2. CASE c \notin IShards
    <3>1. c \in BShards
      BY <1>1, <2>2, Neighbours
    <3>2. CopiesOK(c, s, L)
      BY <1>1, <3>1 DEF NodeOK
    <3>3. \A d \in Related[c] : /\ s.shardHeight[d] \in Nat /\ Len(L[d]) \in Nat
                                /\ s.shardHeight[d] <= Len(L[d])
                                /\ s.shardHeight[d] >= s.height
      BY <1>1, <1>4, <2>2, <3>2, Neighbours, PyramidAssumption DEF CopiesOK, CanCommit, BoundsOK
    <3> QED BY <1>4, <3>3
  <2> QED BY <2>1, <2>2
<1>10. /\ NodeOK(n, EnterNewHeight(n, u), R, L)
       /\ EnterNewHeight(n, u).out = u.out /\ EnterNewHeight(n, u).ledger = u.ledger
  BY <1>2, <1>7, <1>8, <1>9, HeightEntered DEF SameControl
<1> QED BY <1>2, <1>7, <1>10 DEF Good, R
-----------------------------------------------------------------------------
(* Handlers.                                                               *)

\* t has executed no block that s has not, and leads the shard no further.
Quiet(s, t) ==
  t.out = s.out /\ t.create = s.create /\ t.height = s.height /\ t.ledger = s.ledger
SameApp(s, t) == t.app = s.app /\ t.store = s.store

\* What a message does to a node before the node looks for a transition.
LEMMA Handles ==
  ASSUME NEW n, NEW s, IsState(s), s.height \in Nat, NEW m, m.height \in Nat,
         m.type \in {"Proposal", "Part", "Prevote", "Precommit", "CSB", "Accept", "Commit", "OK"}
  PROVE  LET t == Handle(n, s, m).state IN
         /\ IsState(t) /\ Quiet(s, t)
         /\ ChainOf(n) \in IShards \/ m.type # "CSB" => SameApp(s, t)
         /\ m.type = "CSB" => t = DoCrossShardBlock(n, s, m).state
<1> DEFINE t == Handle(n, s, m).state
           Done(u) == IsState(u) /\ Quiet(s, u) /\ SameApp(s, u)
<1> USE DEF IsState, StateFields, Quiet, SameApp
<1>1. CASE m.type = "CSB"
  <2>1. t = DoCrossShardBlock(n, s, m).state
    BY <1>1 DEF Handle
  <2>2. IsState(t) /\ Quiet(s, t) /\ (ChainOf(n) \in IShards => SameApp(s, t))
    BY <2>1 DEF DoCrossShardBlock, SyncIBlocks, SyncFromTo, Return, Look
  <2> QED BY <1>1, <2>1, <2>2
<1>2. CASE m.type = "Accept"
  <2>1. t = DoMessageAccept(n, s, m).state
    BY <1>2 DEF Handle
  <2> QED BY <1>2, <2>1 DEF DoMessageAccept, Return, Look
<1>3. CASE m.type = "Commit"
  <2>1. t = DoMessageCommit(n, s, m).state
    BY <1>3 DEF Handle
  <2> QED BY <1>3, <2>1 DEF DoMessageCommit, Return, Look
<1>4. CASE m.type = "OK"
  <2>1. t = DoMessageOK(n, s, m).state
    BY <1>4 DEF Handle
  <2>2. Done(AddRelayMessage(s, m))
    BY DEF AddRelayMessage
  <2>3. \A u : Done(u) => Done([u EXCEPT !.up = FALSE]) /\ Done([u EXCEPT !.bseen = @ \cup {m.src}])
    OBVIOUS
  <2>4. Done(t)
    BY <2>1, <2>2, <2>3 DEF DoMessageOK, Return, Look
  <2> QED BY <1>4, <2>4
<1>5. CASE m.type \in {"Prevote", "Precommit"} /\ ~OverTime(s, m)
  <2>1. t = DoVote(n, s, m).state
    BY <1>5 DEF Handle
  <2> QED BY <1>5, <2>1 DEF DoVote, Return, Look
<1>6. CASE m.type \in {"Proposal", "Part"} \/ (m.type \in {"Prevote", "Precommit"} /\ OverTime(s, m))
  <2>1. \/ t = s \/ t = AddRelayMessage(s, m) \/ t = AddProposal(s, m)
        \/ t = [s EXCEPT !.buffer = @ \cup {m}] \/ t = AddPart(s, m)
    <3>1. ASSUME OverTime(s, m) PROVE t = AddRelayMessage(s, m)
      <4>1. ~CanAddProposal(n, s, m) /\ ~CanBufferPart(s, m) /\ ~CanAddPart(s, m)
        BY <3>1 DEF OverTime, CanAddProposal, CanBufferPart, CanAddPart
      <4> QED BY <1>6, <3>1, <4>1 DEF Handle, Return
    <3>2. ASSUME ~OverTime(s, m), m.type = "Proposal" PROVE t \in {s, AddProposal(s, m)}
      BY <3>2 DEF Handle, Return, Look
    <3>3. ASSUME ~OverTime(s, m), m.type = "Part"
          PROVE  t \in {s, AddPart(s, m), [s EXCEPT !.buffer = @ \cup {m}]}
      BY <3>3 DEF Handle, Return, Look
    <3> HIDE DEF t
    <3> QED BY <1>6, <3>1, <3>2, <3>3
  <2>2. Done(s) /\ Done(AddRelayMessage(s, m)) /\ Done([s EXCEPT !.buffer = @ \cup {m}])
    BY DEF AddRelayMessage
  <2>3. \A u, got : Done(u) => Done(WithParts(u, got))
    BY DEF WithParts
  <2>4. Done(AddPart(s, m)) /\ Done(AddProposal(s, m))
    <3>1. Done([s EXCEPT !.proposal = m.block])
      OBVIOUS
    <3> QED BY <2>2, <2>3, <3>1 DEF AddPart, AddProposal
  <2> HIDE DEF t, Done
  <2>5. Done(t)
    BY <2>1, <2>2, <2>4
  <2> QED BY <1>6, <2>5 DEF t, Done
<1> QED BY <1>1, <1>2, <1>3, <1>4, <1>5, <1>6

\* Before the precommits of its block a node executes nothing.
LEMMA NothingExecuted ==
  ASSUME NEW n, NEW s, IsState(s), NEW t, t \in {ProposeStep(n, s), PrevoteStep(n, s)}
  PROVE  /\ IsState(t) /\ SameApp(s, t)
         /\ t.create = s.create /\ t.height = s.height /\ t.ledger = s.ledger
<1> USE DEF IsState, StateFields, SameApp
<1>1. CASE t = s
  BY <1>1
<1>2. CASE t = DoPropose(n, s)
  BY <1>2 DEF DoPropose
<1>3. CASE t = DoPrevote(n, s)
  BY <1>3 DEF DoPrevote
<1> QED BY <1>1, <1>2, <1>3 DEF ProposeStep, PrevoteStep

\* Nor does it with doCommit.
LEMMA NothingMore ==
  ASSUME NEW n, NEW s, IsState(s), NEW t, t \in {CommitStep(n, s), EnterNewHeight(n, s)}
  PROVE  IsState(t) /\ SameApp(s, t) /\ t.ledger = s.ledger
<1>1. ASSUME NEW u, IsState(u), NEW w, w = EnterNewHeight(n, u)
      PROVE  IsState(w) /\ SameApp(u, w) /\ w.ledger = u.ledger
  BY <1>1 DEF EnterNewHeight, ClearAll, IsState, StateFields, SameApp
<1>2. ASSUME NEW w, w = DoCommit(n, s)
      PROVE  IsState(w) /\ SameApp(s, w) /\ w.ledger = s.ledger
  <2> DEFINE u == [s EXCEPT !.resume = TRUE,
                            !.out = IF ChainOf(n) \in BShards
                                    THEN @ \cup IfProposer(n, s, MessageOKs(ChainOf(n), s.height, Related[ChainOf(n)]))
                                    ELSE @]
  <2>1. IsState(u) /\ SameApp(s, u) /\ u.ledger = s.ledger
    BY DEF IsState, StateFields, SameApp
  <2>2. w = EnterNewHeight(n, u)
    BY <1>2 DEF DoCommit
  <2> HIDE DEF u
  <2>3. IsState(w) /\ SameApp(u, w) /\ w.ledger = u.ledger
    BY <1>1, <2>1, <2>2
  <2> QED BY <2>1, <2>3 DEF SameApp
<1>3. t = s \/ t = DoCommit(n, s) \/ t = EnterNewHeight(n, s)
  BY DEF CommitStep
<1>4. CASE t = s
  BY <1>4 DEF SameApp
<1> QED BY <1>1, <1>2, <1>3, <1>4

\* handleStateTransition: the ledgers have at most one block more, which the
\* node has executed.
LEMMA TransitionKept ==
  ASSUME NoneIsNil, NEW n \in Node, NEW s, NEW L, Good(n, s, msgs, L), s.out = {}, ~s.create
  PROVE  /\ \E K : /\ GrowsBy(L, K, ChainOf(n), HandleStateTransition(n, s).ledger)
                   /\ Good(n, HandleStateTransition(n, s), msgs, K)
         /\ Ran(n, s, HandleStateTransition(n, s))
<1> DEFINE t == ProposeStep(n, s)
           u == PrevoteStep(n, t)
           v == PrecommitStep(n, u)
           w == CommitStep(n, v)
<1>1. Good(n, t, msgs, L)
  BY ProposeKept
<1>2. IsState(s) /\ IsState(t)
  BY <1>1 DEF Good, NodeOK
<1>3. ~t.create /\ t.ledger = s.ledger /\ StateOf(t) = StateOf(s)
  BY <1>2, NothingExecuted DEF SameApp, StateOf
<1> HIDE DEF t
<1>4. Good(n, u, msgs, L)
  BY <1>1, <1>3, PrevoteKept
<1>5. ~u.create /\ u.ledger = t.ledger /\ StateOf(u) = StateOf(t)
  BY <1>2, <1>3, NothingExecuted DEF SameApp, StateOf
<1> HIDE DEF u
<1>6. Ran(n, u, v)
  BY <1>4, <1>5, PrecommitKept
<1>7. PICK K : GrowsBy(L, K, ChainOf(n), v.ledger) /\ Good(n, v, msgs, K)
  BY <1>4, <1>5, PrecommitKept
<1> HIDE DEF v
<1>8. IsState(v)
  BY <1>7 DEF Good, NodeOK
<1>9. Good(n, w, msgs, K) /\ w.ledger = v.ledger /\ StateOf(w) = StateOf(v)
  BY <1>7, <1>8, CommitKept, NothingMore DEF SameApp, StateOf
<1>10. w = HandleStateTransition(n, s)
  BY DEF HandleStateTransition, t, u, v
<1> HIDE DEF w
<1>11. Ran(n, s, w)
  BY <1>3, <1>5, <1>6, <1>9 DEF Ran
<1> QED BY <1>7, <1>9, <1>10, <1>11

\* A message that a node receives, or takes from its relay buffer.
LEMMA DoMessageKept ==
  ASSUME NoneIsNil, NEW n \in Node, NEW s, NEW L, Sound(msgs, L), NodeOK(n, s, msgs, L),
         s.out = {}, ~s.create,
         NEW m \in msgs, m.to = ChainOf(n), m.type = "CSB" => m.height <= MaxHeight
  PROVE  /\ \E K : /\ GrowsBy(L, K, ChainOf(n), DoMessage(n, s, m).ledger)
                   /\ Good(n, DoMessage(n, s, m), msgs, K)
         /\ Ran(n, Handle(n, s, m).state, DoMessage(n, s, m))
<1> DEFINE t == Handle(n, s, m).state
<1>1. /\ IsState(s) /\ s.height \in Nat /\ m.height \in Nat
      /\ m.type \in {"Proposal", "Part", "Prevote", "Precommit", "CSB", "Accept", "Commit", "OK"}
  BY DEF NodeOK, ControlOK, Sound, MsgOK
<1>2. Quiet(s, t)
  BY <1>1, Handles
<1>3. NodeOK(n, t, msgs, L)
  BY MessageKept
<1>4. DoMessage(n, s, m) \in {t, HandleStateTransition(n, t)}
  BY DEF DoMessage, Handled
<1> HIDE DEF t
<1>5. Good(n, t, msgs, L) /\ t.out = {} /\ ~t.create
  <2>1. t.out = {} /\ ~t.create
    BY <1>2 DEF Quiet
  <2>2. msgs \cup t.out = msgs
    BY <2>1
  <2> QED BY <1>3, <2>1, <2>2 DEF Good
<1>6. CASE DoMessage(n, s, m) = t
  <2>1. Ran(n, t, t)
    BY DEF Ran
  <2>2. GrowsBy(L, L, ChainOf(n), t.ledger)
    BY GrowsByNothing
  <2> QED BY <1>5, <1>6, <2>1, <2>2 DEF t
<1>7. CASE DoMessage(n, s, m) = HandleStateTransition(n, t)
  BY <1>5, <1>7, TransitionKept DEF t
<1> QED BY <1>4, <1>6, <1>7
-----------------------------------------------------------------------------
(* The block of the proposer.                                              *)

\* Distinct shards that are as many as the neighbours of c are all of them.
LEMMA AllAnswered ==
  ASSUME NEW R, IsFiniteSet(R), NEW S, Cardinality(S) = Cardinality(R),
         \A sig \in S : sig.chain \in R,
         \A sig, tau \in S : sig.chain = tau.chain => sig = tau
  PROVE  \A d \in R : \E sig \in S : sig.chain = d
<1> DEFINE f == [sig \in S |-> sig.chain]
<1>1. f \in Injection(S, R)
  BY DEF Injection, IsInjective
<1>2. f \in Surjection(S, R)
  BY <1>1, FS_Injection
<1> QED BY <1>2 DEF Surjection

\* What a node in its height has executed.
LEMMA InHeight ==
  ASSUME NEW n \in Node, NEW s, NEW M, NEW L, Sound(M, L), NodeOK(n, s, M, L), s.step = "Propose"
  PROVE  /\ s.height \in Nat \ {0} /\ ChainOf(n) \in Shard
         /\ Len(s.ledger) = s.height - 1 /\ s.height - 1 <= Len(L[ChainOf(n)])
<1>1. s.height # 0
  BY DEF NodeOK, ControlOK
<1>2. Len(s.ledger) = s.height - 1
  BY <1>1, NodeHeights
<1> QED BY <1>1, <1>2, NodeHeights, Nodes

\* The blocks that the proposer of an I-shard may make.
LEMMA IBlockOK ==
  ASSUME NEW n \in Node, NEW s, NEW M, NEW L, Sound(M, L), NodeOK(n, s, M, L), s.step = "Propose",
         ChainOf(n) \in IShards, NEW b \in IBlocks(n, s)
  PROVE  BlockOK(M, L, b) /\ b.chain = ChainOf(n) /\ b.height = s.height
<1> DEFINE c == ChainOf(n)
<1>1. /\ s.height \in Nat \ {0} /\ c \in Shard
      /\ Len(s.ledger) = s.height - 1 /\ s.height - 1 <= Len(L[c])
  BY InHeight
<1>2. IPoolsOK(c, s, M, L)
  BY DEF NodeOK
<1>3. \/ \E csb \in s.csbPool : b = IAcceptBlock(n, s, csb)
      \/ \E order \in SetToSeqs(s.commitPool) : b = ICommitBlock(n, s, order)
      \/ b = InnerBlock(n, s)
  BY DEF IBlocks
<1>4. CASE \E csb \in s.csbPool : b = IAcceptBlock(n, s, csb)
  <2>1. PICK csb \in s.csbPool : b = IAcceptBlock(n, s, csb)
    BY <1>4
  <2>2. b.chain = c /\ b.height = s.height /\ b.type = "IAccept" /\ b.csb = csb
    BY <2>1 DEF IAcceptBlock
  <2>3. CsbOK(M, L, c, csb) /\ csb.block \notin s.store
    BY <1>2, <2>1 DEF IPoolsOK
  <2>4. FreshBlock(L, b)
    <3>1. ASSUME NEW j \in 1..(b.height - 1), L[c][j].block.type = "IAccept"
          PROVE  L[c][j].block.csb.block # b.csb.block
      BY <1>1, <1>2, <2>2, <2>3, <3>1 DEF IPoolsOK
    <3> QED BY <2>2, <3>1 DEF FreshBlock
  <2> QED BY <1>1, <2>2, <2>3, <2>4 DEF BlockOK
<1>5. CASE \E order \in SetToSeqs(s.commitPool) : b = ICommitBlock(n, s, order)
  <2>1. PICK order \in SetToSeqs(s.commitPool) : b = ICommitBlock(n, s, order)
    BY <1>5
  <2>2. b.chain = c /\ b.height = s.height /\ b.type = "ICommit" /\ b.commits = order
    BY <2>1 DEF ICommitBlock
  <2>5. Len(b.commits) \in Nat
    <3>1. IsFiniteSet(s.commitPool)
      BY <1>2 DEF IPoolsOK
    <3>2. Cardinality(s.commitPool) \in Nat
      BY <3>1, FS_CardinalityType
    <3>3. order \in [1..Cardinality(s.commitPool) -> s.commitPool]
      BY DEF SetToSeqs
    <3>4. order \in Seq(s.commitPool)
      BY <3>2, <3>3
    <3> QED BY <2>2, <3>4
  <2>3. \A k \in DOMAIN b.commits : DecisionOK(M, L, c, b.commits[k]) /\ b.commits[k].hash \notin s.committed
    <3>1. \A k \in DOMAIN order : order[k] \in s.commitPool
      BY DEF SetToSeqs
    <3> QED BY <1>2, <2>2, <3>1 DEF IPoolsOK
  <2>4. FreshBlock(L, b)
    <3>1. ASSUME NEW j \in 1..(b.height - 1), L[c][j].block.type = "ICommit",
                 NEW k \in DOMAIN L[c][j].block.commits, NEW l \in DOMAIN b.commits
          PROVE  L[c][j].block.commits[k].hash # b.commits[l].hash
      BY <1>1, <1>2, <2>2, <2>3, <3>1 DEF IPoolsOK
    <3> QED BY <2>2, <3>1 DEF FreshBlock
  <2> QED BY <1>1, <2>2, <2>3, <2>4, <2>5 DEF BlockOK
<1>6. CASE b = InnerBlock(n, s)
  <2>1. b.chain = c /\ b.height = s.height /\ b.type = "Inner"
    BY <1>6 DEF InnerBlock
  <2>2. FreshBlock(L, b)
    BY <2>1 DEF FreshBlock
  <2> QED BY <1>1, <2>1, <2>2 DEF BlockOK
<1> QED BY <1>3, <1>4, <1>5, <1>6

\* The block that the proposer of a B-shard makes.
LEMMA BBlockOK ==
  ASSUME NEW n \in Node, NEW s, NEW M, NEW L, Sound(M, L), NodeOK(n, s, M, L), s.step = "Propose",
         ChainOf(n) \in BShards, NEW b, b = BBlock(n, s)
  PROVE  BlockOK(M, L, b) /\ b.chain = ChainOf(n) /\ b.height = s.height
<1> DEFINE c == ChainOf(n)
<1>1. /\ s.height \in Nat \ {0} /\ c \in Shard /\ c \notin IShards
      /\ Len(s.ledger) = s.height - 1 /\ s.height - 1 <= Len(L[c])
  BY InHeight, Neighbours
<1>2. BPoolsOK(c, s, M, L)
  BY DEF NodeOK
<1>3. \/ b = CrossShardBlock(n, s, ReapTx(s, s.crossMempool))
      \/ b = InnerBlock(n, s)
      \/ /\ s.pending # None /\ Cardinality(s.maPool) = Cardinality(Related[c])
         /\ b = BCommitBlock(n, s)
  BY DEF BBlock
<1>4. CASE b = CrossShardBlock(n, s, ReapTx(s, s.crossMempool)) \/ b = InnerBlock(n, s)
  <2>1. b.chain = c /\ b.height = s.height /\ b.type \in {"Inner", "Cross"}
    BY <1>4 DEF InnerBlock, CrossShardBlock
  <2>2. FreshBlock(L, b)
    BY <2>1 DEF FreshBlock
  <2> QED BY <1>1, <2>1, <2>2 DEF BlockOK
<1>5. CASE /\ s.pending # None /\ Cardinality(s.maPool) = Cardinality(Related[c])
           /\ b = BCommitBlock(n, s)
  <2>1. /\ b.chain = c /\ b.height = s.height /\ b.type = "BCommit"
        /\ b.hash = s.pending /\ b.accepts = s.maPool
    BY <1>5 DEF BCommitBlock
  <2>2. \A sig \in s.maPool : AnswerOK(M, L, c, s.pending, sig)
    BY <1>2 DEF BPoolsOK
  <2>3. \A d \in Related[c] : \E sig \in s.maPool : sig.chain = d
    <3>1. \A sig \in s.maPool : sig.chain \in Related[c]
      BY <2>2 DEF AnswerOK
    <3>2. \A sig, tau \in s.maPool : sig.chain = tau.chain => sig = tau
      BY <1>2 DEF BPoolsOK
    <3>3. IsFiniteSet(Related[c])
      BY <1>1, Neighbours
    <3> QED BY <1>5, <3>1, <3>2, <3>3, AllAnswered
  <2>4. OpenAfter(L, c, s.height - 1, s.pending)
    BY <1>1, <1>2 DEF BPoolsOK
  <2>5. AcceptSetOK(M, L, b)
    BY <1>5, <2>1, <2>2, <2>3, <2>4 DEF AcceptSetOK
  <2>6. FreshBlock(L, b)
    BY <2>1 DEF FreshBlock
  <2> QED BY <1>1, <2>1, <2>5, <2>6 DEF BlockOK
<1> QED BY <1>3, <1>4, <1>5

\* createBlockAndBroadcast proposes a block with all that it needs.
LEMMA NewBlockOK ==
  ASSUME NEW n \in Node, NEW s, NEW M, NEW L, Sound(M, L), NodeOK(n, s, M, L), s.create,
         NEW b \in NewBlocks(n, s)
  PROVE  BlockOK(M, L, b) /\ b.chain = ChainOf(n) /\ b.height = s.height
<1>1. s.step = "Propose" /\ ChainOf(n) \in Shard
  BY Nodes DEF NodeOK, ControlOK
<1>2. CASE ChainOf(n) \in BShards
  BY <1>1, <1>2, BBlockOK DEF NewBlocks
<1>3. CASE ChainOf(n) \notin BShards
  <2>1. ChainOf(n) \in IShards
    BY <1>1, <1>3, Neighbours
  <2> QED BY <1>1, <1>3, <2>1, IBlockOK DEF NewBlocks
<1> QED BY <1>2, <1>3

\* The proposal and the parts of a new block.
LEMMA ProposalSent ==
  ASSUME NEW n \in Node, NEW s, NEW M, NEW L, Sound(M, L), NodeOK(n, s, M, L), s.create,
         NEW b, BlockOK(M, L, b), b.chain = ChainOf(n), b.height = s.height
  PROVE  /\ Sound(M \cup ({ProposalMsg(n, b)} \cup PartMsgs(b)), L)
         /\ \A m \in PartMsgs(b) : m.type = "Part"
<1> DEFINE p == ProposalMsg(n, b)
           Q == PartMsgs(b)
           R == M \cup ({p} \cup Q)
<1>1. p.type = "Proposal" /\ p.to = b.chain /\ p.height = b.height /\ p.from = IndexOf(n) /\ p.block = b
  BY DEF ProposalMsg
<1>2. \A m \in Q : m.type = "Part" /\ m.to = b.chain /\ m.height = b.height
  BY DEF PartMsgs
<1>3. b.chain \in Shard /\ b.height \in Nat \ {0} /\ Proposer(b.chain, b.height) = IndexOf(n)
  BY DEF NodeOK, ControlOK, IsProposer, BlockOK
<1>4. Extends(L, L)
  BY ExtendsSelf DEF Sound
<1> HIDE DEF p, Q
<1>5. \A m \in M : m.type = "Proposal" => ~(m.to = p.to /\ m.height = p.height)
  <2> SUFFICES ASSUME NEW m \in M, m.type = "Proposal", m.to = p.to, m.height = p.height
               PROVE  FALSE
    OBVIOUS
  <2>1. m.from = Proposer(m.to, m.height)
    BY DEF Sound, MsgOK
  <2>2. SentBy(n, m)
    BY <1>1, <1>3, <2>1 DEF SentBy
  <2> QED BY <1>1, <2>2 DEF NodeOK, SentOK
<1>6. OneProposal(R)
  <2>1. OneProposal(M)
    BY DEF Sound
  <2>2. \A m \in R : m.type = "Proposal" => m \in M \/ m = p
    BY <1>2
  <2>3. \A m, k \in M : m.type = "Proposal" /\ k.type = "Proposal" /\ m.to = k.to /\ m.height = k.height
                        => m.block = k.block
    BY <2>1 DEF OneProposal
  <2> QED BY <1>5, <2>2, <2>3 DEF OneProposal
<1>7. OneVote(R)
  BY <1>1, <1>2 DEF Sound, OneVote, IsVote
<1>8. ASSUME NEW m \in R \ M PROVE MsgOK(R, L, m)
  <2>1. BlockOK(R, L, b)
    BY <1>4, BlockGrows
  <2>2. CASE m = p
    BY <1>1, <1>3, <2>1, <2>2 DEF MsgOK, IsVote
  <2>3. CASE m \in Q
    BY <1>2, <1>3, <2>3 DEF MsgOK, IsVote
  <2> QED BY <2>2, <2>3
<1>9. \A d \in Shard : \A j \in 1..Len(L[d]) : ~(j > Len(L[d]))
  BY DEF Sound, LedgersOK
<1> HIDE DEF R
<1>10. M \subseteq R
  BY DEF R
<1>11. Sound(R, L)
  BY <1>4, <1>6, <1>7, <1>8, <1>9, <1>10, SoundGrows
<1> QED BY <1>2, <1>11 DEF R, p, Q

\* CreateBlockAndBroadcast: the first proposal of the height.
LEMMA CreateKept ==
  ASSUME NEW n \in Node, NEW s, NEW N, NEW L, Good(n, s, N, L), s.create,
         NEW b \in NewBlocks(n, s)
  PROVE  LET t == CreateBlockAndBroadcast(n, s, b) IN
         Good(n, t, N, L) /\ ~t.create /\ SameApp(s, t) /\ t.ledger = s.ledger
<1> DEFINE c == ChainOf(n)
           new == {ProposalMsg(n, b)} \cup PartMsgs(b)
           t == CreateBlockAndBroadcast(n, s, b)
           M == N \cup s.out
           R == N \cup t.out
<1>1. Sound(M, L) /\ NodeOK(n, s, M, L) /\ c \in Shard
  BY Nodes DEF Good
<1>2. /\ IsState(t) /\ SamePools(s, t) /\ SameApp(s, t) /\ t.ledger = s.ledger
      /\ t.height = s.height /\ t.step = s.step /\ t.up = s.up /\ ~t.create
      /\ t.bseen = s.bseen /\ t.relay = s.relay
      /\ t.prevotes = s.prevotes /\ t.precommits = s.precommits
      /\ t.proposal = b /\ t.block = b
      /\ t.out = s.out \cup new
  <2>1. IsState(s)
    BY <1>1 DEF NodeOK
  <2> HIDE DEF new
  <2>2. s.out \cup {ProposalMsg(n, b)} \cup PartMsgs(b) = s.out \cup new
    BY DEF new
  <2> QED BY <2>1, <2>2 DEF CreateBlockAndBroadcast, IsState, StateFields, SamePools, SameApp
<1>2a. t.create \in BOOLEAN
  BY <1>1 DEF CreateBlockAndBroadcast, NodeOK, IsState, StateFields
<1> HIDE DEF t
<1>3. R = M \cup new /\ M \subseteq R
  BY <1>2
<1> HIDE DEF R, M
<1>4. BlockOK(M, L, b) /\ b.chain = c /\ b.height = s.height
  BY <1>1, NewBlockOK
<1>5. /\ Sound(R, L)
      /\ \A m \in PartMsgs(b) : m.type = "Part"
  BY <1>1, <1>3, <1>4, ProposalSent
<1>6. \A m \in new : \/ m.type = "Part"
                     \/ m.type = "Proposal" /\ m.block = b /\ m.height = s.height /\ SentBy(n, m)
  BY <1>4, <1>5 DEF ProposalMsg, SentBy
<1>7. Proposed(R, b)
  <2>1. ProposalMsg(n, b) \in R
    BY <1>3
  <2>2. ProposalMsg(n, b).type = "Proposal" /\ ProposalMsg(n, b).block = b
    BY DEF ProposalMsg
  <2> QED BY <2>1, <2>2, Zenon DEF Proposed
<1> HIDE DEF new
<1>8. Extends(L, L)
  BY <1>1, ExtendsSelf DEF Sound
<1>9. NodeOK(n, t, R, L)
  <2>1. RoundOK(n, t, R)
    <3>1. /\ VoteSetOK(R, c, "Prevote", s.height, s.prevotes)
          /\ VoteSetOK(R, c, "Precommit", s.height, s.precommits)
      BY <1>1, <1>3, VoteSetGrows DEF NodeOK, RoundOK
    <3> QED BY <1>2, <1>4, <1>7, <3>1 DEF RoundOK
  <2>2. PoolsOK(n, t, R, L)
    <3>1. PoolsOK(n, s, R, L)
      BY <1>1, <1>3, <1>8, PoolsFollow
    <3> QED BY <1>2, <3>1, PoolsSame
  <2>3. ControlOK(n, t) /\ LedgerOK(n, t, L) /\ TogetherOK(n, t, L)
    BY <1>1, <1>2, <1>2a DEF NodeOK, ControlOK, LedgerOK, TogetherOK
  <2>4. SentOK(n, t, R)
    <3>1. SentOK(n, s, M) /\ s.height \in Nat
      BY <1>1 DEF NodeOK, ControlOK
    <3>2. \A m \in R : IsVote(m) => m \in M
      BY <1>3, <1>6 DEF IsVote
    <3>3. \A m \in R : m.type = "Proposal" /\ SentBy(n, m) => m.height <= s.height
      BY <1>3, <1>6, <3>1 DEF SentOK
    <3> QED BY <1>2, <3>1, <3>2, <3>3 DEF SentOK
  <2>5. RelayOK(n, t, R) /\ OutOK(n, t)
    BY <1>1, <1>2, <1>3, <1>6 DEF NodeOK, RelayOK, OutOK, IsVote
  <2> QED BY <1>2, <2>1, <2>2, <2>3, <2>4, <2>5 DEF NodeOK, PoolsOK
<1> QED BY <1>2, <1>5, <1>9 DEF Good, R, t
-----------------------------------------------------------------------------
(* Steps.                                                                  *)

\* The messages of a handler have been sent.
LEMMA OutDropped ==
  ASSUME NEW n, NEW s, NEW M, NEW L, NodeOK(n, s, M, L)
  PROVE  LET t == [s EXCEPT !.out = {}] IN
         /\ NodeOK(n, t, M, L) /\ t.out = {}
         /\ t.create = s.create /\ t.ledger = s.ledger /\ StateOf(t) = StateOf(s)
<1> DEFINE t == [s EXCEPT !.out = {}]
<1>1. /\ IsState(t) /\ SameControl(s, t) /\ SameRound(s, t) /\ SamePools(s, t)
      /\ t.ledger = s.ledger /\ t.bseen = s.bseen /\ t.relay = s.relay /\ t.out = {}
      /\ t.app = s.app /\ t.store = s.store
  BY DEF NodeOK, IsState, StateFields, SameControl, SameRound, SamePools
<1> HIDE DEF t
<1>2. RoundOK(n, t, M)
  BY <1>1, RoundSame DEF NodeOK, SameControl
<1>3. PoolsOK(n, t, M, L)
  BY <1>1, PoolsSame DEF NodeOK, PoolsOK
<1>4. ControlOK(n, t) /\ LedgerOK(n, t, L) /\ TogetherOK(n, t, L)
  BY <1>1 DEF NodeOK, ControlOK, LedgerOK, TogetherOK, SameControl, IsProposer
<1>5. SentOK(n, t, M) /\ RelayOK(n, t, M) /\ OutOK(n, t)
  BY <1>1 DEF NodeOK, SentOK, RelayOK, OutOK, SameControl
<1> QED BY <1>1, <1>2, <1>3, <1>4, <1>5 DEF NodeOK, PoolsOK, SameControl, StateOf, t

\* Node n has moved to state s, with the ledgers K.
Moved(n, s, L, K) ==
  /\ Inv(K)' /\ GrowsBy(L, K, ChainOf(n), s.ledger)
  /\ st'[n].ledger = s.ledger /\ StateOf(st'[n]) = StateOf(s)
  /\ \A m \in Node \ {n} : st'[m] = st[m]

\* A handler that was good for its node is good for all when it ends.
LEMMA Becomes ==
  ASSUME NEW n \in Node, NEW s, NEW L, Inv(L), NEW K, GrowsBy(L, K, ChainOf(n), s.ledger),
         Good(n, s, msgs, K), Len(st[n].ledger) <= Len(s.ledger), Become(n, s)
  PROVE  Moved(n, s, L, K)
<1> DEFINE c == ChainOf(n)
<1>1. PICK b \in IF s.create THEN NewBlocks(n, s) ELSE {None} :
        LET t == IF s.create THEN CreateBlockAndBroadcast(n, s, b) ELSE s IN
        /\ st' = [st EXCEPT ![n] = [t EXCEPT !.out = {}]]
        /\ msgs' = msgs \cup t.out
  BY DEF Become
<1> DEFINE t == IF s.create THEN CreateBlockAndBroadcast(n, s, b) ELSE s
           u == [t EXCEPT !.out = {}]
           R == msgs \cup t.out
<1>2. Good(n, t, msgs, K) /\ ~t.create /\ t.ledger = s.ledger /\ StateOf(t) = StateOf(s)
  <2>1. CASE s.create
    BY <1>1, <2>1, CreateKept DEF SameApp, StateOf
  <2>2. CASE ~s.create
    BY <2>2
  <2> QED BY <2>1, <2>2
<1>3. DOMAIN st = Node /\ st' = [st EXCEPT ![n] = u] /\ msgs' = R
  BY <1>1 DEF Inv
<1> HIDE DEF t
<1>4. NodeOK(n, u, R, K) /\ u.out = {} /\ ~u.create /\ u.ledger = s.ledger /\ StateOf(u) = StateOf(s)
  BY <1>2, OutDropped DEF Good
<1>5. \A m \in t.out : IsVote(m) \/ m.type = "Proposal" => SentBy(n, m)
  BY <1>2 DEF Good, NodeOK, OutOK
<1>6. Sound(R, K)
  BY <1>2 DEF Good
<1>7. msgs \subseteq R /\ \A m \in R \ msgs : m \in t.out
  OBVIOUS
<1> HIDE DEF u, R
<1>8. DOMAIN st' = Node /\ st'[n] = u /\ \A m \in Node \ {n} : st'[m] = st[m]
  BY <1>3
<1>9. Extends(L, K)
  BY DEF GrowsBy
<1>10. ASSUME NEW m \in Node PROVE NodeOK(m, st'[m], R, K) /\ st'[m].out = {} /\ ~st'[m].create
  <2>1. CASE m = n
    BY <1>4, <1>8, <2>1
  <2>2. CASE m # n
    <3>1. NodeOK(m, st[m], msgs, L) /\ st[m].out = {} /\ ~st[m].create
      BY DEF Inv
    <3>2. \A k \in R \ msgs : IsVote(k) \/ k.type = "Proposal" => ~SentBy(m, k)
      BY <1>5, <1>7, <2>2, Nodes DEF SentBy
    <3>3. NodeOK(m, st[m], R, K)
      BY <1>7, <1>9, <3>1, <3>2, NodeGrows
    <3> QED BY <1>8, <2>2, <3>1, <3>3
  <2> QED BY <2>1, <2>2
<1>11. ASSUME NEW d \in Shard PROVE \E m \in NodesOf(d) : Len(st'[m].ledger) = Len(K[d])
  <2>1. PICK m \in NodesOf(d) : Len(st[m].ledger) = Len(L[d])
    BY DEF Inv
  <2>2. m \in Node /\ ChainOf(m) = d
    BY DEF NodesOf
  <2>3. CASE m # n /\ K[d] = L[d]
    BY <1>8, <2>1, <2>2, <2>3
  <2>4. CASE d = c /\ K[d] # L[d]
    <3>1. K[c] = s.ledger
      BY <2>4 DEF GrowsBy
    <3> QED BY <1>4, <1>8, <2>4, <3>1, Nodes
  <2>5. CASE m = n /\ K[d] = L[d]
    <3>1. /\ Len(s.ledger) \in 0..Len(K[c])
      BY <1>2, <1>4, <1>6, NodeHeights DEF Good
    <3>2. Len(K[c]) \in Nat /\ Len(st[n].ledger) <= Len(s.ledger)
      BY <1>6, Nodes DEF Sound, LedgersOK
    <3>3. Len(s.ledger) = Len(K[d])
      BY <2>1, <2>2, <2>5, <3>1, <3>2
    <3> QED BY <1>4, <1>8, <2>1, <2>5, <3>3
  <2> QED BY <2>2, <2>3, <2>4, <2>5 DEF GrowsBy
<1>12. Inv(K)'
  BY <1>3, <1>6, <1>8, <1>10, <1>11 DEF Inv, NodesOf
<1> QED BY <1>4, <1>8, <1>12 DEF Moved

\* What node n is when it looks for a transition: a cross-shard block has
\* brought the copies of a B-shard up to date.
Before(n, t) ==
  /\ t.ledger = st[n].ledger
  /\ \/ StateOf(t) = StateOf(st[n])
     \/ \E m \in msgs : /\ ChainOf(n) \in BShards /\ m.to = ChainOf(n) /\ m.type = "CSB"
                        /\ m.height <= MaxHeight
                        /\ t = DoCrossShardBlock(n, st[n], m).state

\* A step of node n.
Moves(n, L, K) == \E s, t : Before(n, s) /\ Ran(n, s, t) /\ Moved(n, t, L, K)

\* The application runs only forward.
LEMMA RanOn ==
  ASSUME NEW n, NEW s, NEW t, Ran(n, s, t), NEW S, s.ledger \in Seq(S)
  PROVE  Len(s.ledger) <= Len(t.ledger)
<1>1. Len(s.ledger) \in Nat
  OBVIOUS
<1>2. CASE t.ledger = s.ledger
  BY <1>1, <1>2
<1>3. CASE \E e : t.ledger = Append(s.ledger, e)
  <2>1. PICK e : t.ledger = Append(s.ledger, e)
    BY <1>3
  <2>2. s.ledger \in Seq(S \cup {e})
    OBVIOUS
  <2>3. Len(Append(s.ledger, e)) = Len(s.ledger) + 1
    BY <2>2
  <2> QED BY <1>1, <2>1, <2>3
<1> QED BY <1>2, <1>3 DEF Ran

\* The end of a handler that has taken node n from s to t.
LEMMA MovesOn ==
  ASSUME NEW n \in Node, NEW L, Inv(L), NEW s, Before(n, s), NEW t, Ran(n, s, t), Become(n, t),
         \E K : GrowsBy(L, K, ChainOf(n), t.ledger) /\ Good(n, t, msgs, K)
  PROVE  \E K : Moves(n, L, K)
<1>1. PICK K : GrowsBy(L, K, ChainOf(n), t.ledger) /\ Good(n, t, msgs, K)
  OBVIOUS
<1>2. PICK S : st[n].ledger \in Seq(S)
  BY DEF Inv, NodeOK, LedgerOK
<1>3. Len(st[n].ledger) <= Len(t.ledger)
  BY <1>2, RanOn DEF Before
<1>4. Moved(n, t, L, K)
  BY <1>1, <1>3, Becomes
<1> QED BY <1>4 DEF Moves

\* Start.
LEMMA StartMoves ==
  ASSUME NoneIsNil, NEW n \in Node, NEW L, Inv(L), Start(n)
  PROVE  \E K : Moves(n, L, K)
<1> DEFINE s == st[n]
           t == EnterNewHeight(n, s)
<1>1. Sound(msgs, L) /\ NodeOK(n, s, msgs, L) /\ s.out = {} /\ s.height = 0 /\ s.up /\ IsState(s)
  BY DEF Inv, Start, Unlocked, NodeOK
<1>2. \A d \in Related[ChainOf(n)] : s.height <= Len(L[d])
  <2>1. \A d \in Shard : Len(L[d]) \in Nat
    BY <1>1, NodeHeights
  <2> QED BY <1>1, <2>1, Nodes, Neighbours
<1>3. NodeOK(n, t, msgs, L) /\ t.out = {} /\ t.ledger = s.ledger
  BY <1>1, <1>2, HeightEntered
<1>4. StateOf(t) = StateOf(s)
  BY <1>1, NothingMore DEF SameApp, StateOf
<1>5. Become(n, t)
  BY DEF Start
<1>6. Before(n, s) /\ Ran(n, s, t)
  BY <1>3, <1>4 DEF Before, Ran
<1> HIDE DEF t
<1>7. Good(n, t, msgs, L)
  <2>1. msgs \cup t.out = msgs
    BY <1>3
  <2> QED BY <1>1, <1>3, <2>1 DEF Good
<1>8. GrowsBy(L, L, ChainOf(n), t.ledger)
  BY <1>1, GrowsByNothing
<1> QED BY <1>5, <1>6, <1>7, <1>8, MovesOn

\* Receive.
LEMMA ReceiveMoves ==
  ASSUME NoneIsNil, NEW n \in Node, NEW L, Inv(L), NEW m \in msgs, Receive(n, m)
  PROVE  \E K : Moves(n, L, K)
<1> DEFINE s == st[n]
           h == Handle(n, s, m).state
           t == DoMessage(n, s, m)
<1>1. /\ Sound(msgs, L) /\ NodeOK(n, s, msgs, L) /\ s.out = {} /\ ~s.create
      /\ IsState(s) /\ s.height \in Nat
  BY DEF Inv, NodeOK, ControlOK
<1>2. /\ m.to = ChainOf(n) /\ m.height <= MaxHeight /\ m.height \in Nat
      /\ m.type \in {"Proposal", "Part", "Prevote", "Precommit", "CSB", "Accept", "Commit", "OK"}
  BY <1>1 DEF Receive, Sound, MsgOK
<1>3. Become(n, t)
  BY DEF Receive
<1>4. Ran(n, h, t)
  BY <1>1, <1>2, DoMessageKept
<1>5. \E K : GrowsBy(L, K, ChainOf(n), t.ledger) /\ Good(n, t, msgs, K)
  BY <1>1, <1>2, DoMessageKept
<1>6. /\ h.ledger = s.ledger
      /\ ChainOf(n) \in IShards \/ m.type # "CSB" => StateOf(h) = StateOf(s)
      /\ m.type = "CSB" => h = DoCrossShardBlock(n, s, m).state
  BY <1>1, <1>2, Handles DEF Quiet, SameApp, StateOf
<1>7. ChainOf(n) \in IShards \/ ChainOf(n) \in BShards
  BY Nodes, Neighbours
<1> HIDE DEF h, t
<1>8. Before(n, h)
  BY <1>2, <1>6, <1>7 DEF Before
<1> QED BY <1>3, <1>4, <1>5, <1>8, MovesOn

\* Replay.
LEMMA ReplayMoves ==
  ASSUME NoneIsNil, NEW n \in Node, NEW L, Inv(L), NEW m \in st[n].relay, Replay(n, m)
  PROVE  \E K : Moves(n, L, K)
<1> DEFINE s == [st[n] EXCEPT !.relay = @ \ {m}]
           h == Handle(n, s, m).state
           t == DoMessage(n, s, m)
<1>1. /\ Sound(msgs, L) /\ NodeOK(n, st[n], msgs, L) /\ st[n].out = {} /\ ~st[n].create
      /\ IsState(st[n]) /\ st[n].height \in Nat
  BY DEF Inv, NodeOK, ControlOK
<1>2. m \in msgs /\ m.to = ChainOf(n) /\ m.type # "CSB"
  BY <1>1 DEF NodeOK, RelayOK
<1>3. /\ IsState(s) /\ SameControl(st[n], s) /\ SameRound(st[n], s) /\ SamePools(st[n], s)
      /\ s.ledger = st[n].ledger /\ s.bseen = st[n].bseen /\ s.relay = st[n].relay \ {m}
      /\ s.out = {} /\ ~s.create /\ s.height \in Nat /\ StateOf(s) = StateOf(st[n])
  BY <1>1 DEF IsState, StateFields, SameControl, SameRound, SamePools, StateOf
<1> HIDE DEF s
<1>4. NodeOK(n, s, msgs, L)
  <2>1. RoundOK(n, s, msgs)
    BY <1>1, <1>3, RoundSame DEF NodeOK, SameControl
  <2>2. PoolsOK(n, s, msgs, L)
    BY <1>1, <1>3, PoolsSame DEF NodeOK, PoolsOK
  <2>3. TogetherOK(n, s, L) /\ RelayOK(n, s, msgs)
    BY <1>1, <1>3 DEF NodeOK, TogetherOK, RelayOK, SameControl
  <2> QED BY <1>1, <1>3, <2>1, <2>2, <2>3, Kept
<1>5. /\ m.height \in Nat
      /\ m.type \in {"Proposal", "Part", "Prevote", "Precommit", "CSB", "Accept", "Commit", "OK"}
  BY <1>1, <1>2 DEF Sound, MsgOK
<1>6. Become(n, t)
  BY DEF Replay, s
<1>7. Ran(n, h, t)
  BY <1>1, <1>2, <1>3, <1>4, DoMessageKept
<1>8. \E K : GrowsBy(L, K, ChainOf(n), t.ledger) /\ Good(n, t, msgs, K)
  BY <1>1, <1>2, <1>3, <1>4, DoMessageKept
<1>9. h.ledger = s.ledger /\ StateOf(h) = StateOf(s)
  BY <1>2, <1>3, <1>5, Handles DEF Quiet, SameApp, StateOf
<1> HIDE DEF h, t
<1>10. Before(n, h)
  BY <1>3, <1>9 DEF Before
<1> QED BY <1>6, <1>7, <1>8, <1>10, MovesOn

\* Resume.
LEMMA ResumeMoves ==
  ASSUME NoneIsNil, NEW n \in Node, NEW L, Inv(L), Resume(n)
  PROVE  \E K : Moves(n, L, K)
<1> DEFINE s == [st[n] EXCEPT !.resume = FALSE]
           t == HandleStateTransition(n, s)
<1>1. /\ Sound(msgs, L) /\ NodeOK(n, st[n], msgs, L) /\ st[n].out = {} /\ ~st[n].create
      /\ IsState(st[n])
  BY DEF Inv, NodeOK
<1>2. /\ IsState(s) /\ SameControl(st[n], s) /\ SameRound(st[n], s) /\ SamePools(st[n], s)
      /\ s.ledger = st[n].ledger /\ s.bseen = st[n].bseen /\ s.relay = st[n].relay
      /\ s.out = {} /\ ~s.create /\ StateOf(s) = StateOf(st[n])
  BY <1>1 DEF IsState, StateFields, SameControl, SameRound, SamePools, StateOf
<1>3. Become(n, t)
  BY DEF Resume
<1> HIDE DEF s
<1>4. NodeOK(n, s, msgs, L)
  <2>1. RoundOK(n, s, msgs)
    BY <1>1, <1>2, RoundSame DEF NodeOK, SameControl
  <2>2. PoolsOK(n, s, msgs, L)
    BY <1>1, <1>2, PoolsSame DEF NodeOK, PoolsOK
  <2>3. TogetherOK(n, s, L) /\ RelayOK(n, s, msgs)
    BY <1>1, <1>2 DEF NodeOK, TogetherOK, RelayOK, SameControl
  <2> QED BY <1>1, <1>2, <2>1, <2>2, <2>3, Kept
<1>5. Good(n, s, msgs, L)
  <2>1. msgs \cup s.out = msgs
    BY <1>2
  <2> QED BY <1>1, <1>4, <2>1 DEF Good
<1>6. Ran(n, s, t)
  BY <1>2, <1>5, TransitionKept
<1>7. \E K : GrowsBy(L, K, ChainOf(n), t.ledger) /\ Good(n, t, msgs, K)
  BY <1>2, <1>5, TransitionKept
<1> HIDE DEF t
<1>8. Before(n, s)
  BY <1>2 DEF Before
<1> QED BY <1>3, <1>6, <1>7, <1>8, MovesOn

\* Whatever a node does, the invariant holds for ledgers with at most one
\* block more.
LEMMA StepMoves ==
  ASSUME NoneIsNil, NEW n \in Node, NEW L, Inv(L), Step(n)
  PROVE  \E K : Moves(n, L, K)
<1>1. CASE Start(n)
  BY <1>1, StartMoves
<1>2. CASE \E m \in msgs : Receive(n, m)
  BY <1>2, ReceiveMoves
<1>3. CASE \E m \in st[n].relay : Replay(n, m)
  BY <1>3, ReplayMoves
<1>4. CASE Resume(n)
  BY <1>4, ResumeMoves
<1> QED BY <1>1, <1>2, <1>3, <1>4 DEF Step

\* At first all ledgers are empty.
LEMMA InitHolds ==
  ASSUME NoneIsNil, Init
  PROVE  Inv([c \in Shard |-> <<>>])
<1> DEFINE L == [c \in Shard |-> <<>>]
<1>1. \A c \in Shard : L[c] = <<>> /\ Len(L[c]) = 0 /\ 1..Len(L[c]) = {}
  OBVIOUS
<1>2. DOMAIN st = Node /\ msgs = {}
  BY DEF Init
<1> HIDE DEF L
<1>3. Sound(msgs, L)
  BY <1>1, <1>2 DEF Sound, OneProposal, OneVote, LedgersOK
<1>4. ASSUME NEW n \in Node PROVE NodeOK(n, st[n], msgs, L) /\ st[n].out = {} /\ ~st[n].create /\ Len(st[n].ledger) = 0
  <2> DEFINE c == ChainOf(n)
             s == st[n]
  <2>1. /\ IsState(s)
        /\ s.up = TRUE /\ s.height = 0 /\ s.step = "NewHeight" /\ s.create = FALSE /\ s.out = {}
        /\ s.relay = {} /\ s.proposal = None /\ s.block = None
        /\ s.prevotes = NewVoteSet(Votes[c]) /\ s.precommits = NewVoteSet(Votes[c])
        /\ s.bseen = {} /\ s.csbPool = {} /\ s.commitPool = {} /\ s.pending = None /\ s.maPool = {}
        /\ s.shardHeight = [d \in Related[c] |-> 0] /\ s.store = {} /\ s.ledger = <<>>
    <3>1. s = NewState(n)
      BY DEF Init
    <3> QED BY <3>1 DEF NewState, ClearAll, IsState, StateFields
  <2>2. c \in Shard /\ Related[c] \subseteq Shard
    BY Nodes, Neighbours
  <2> HIDE DEF s
  <2>3. Len(s.ledger) = 0 /\ 1..Len(s.ledger) = {} /\ s.ledger \in Seq({})
    BY <2>1
  <2>4. ControlOK(n, s) /\ SentOK(n, s, msgs) /\ RelayOK(n, s, msgs) /\ OutOK(n, s)
    <3>1. ControlOK(n, s)
      <4>1. s.up /\ s.up \in BOOLEAN /\ ~s.create /\ s.create \in BOOLEAN
        BY <2>1, Zenon
      <4>2. s.height \in Nat /\ s.step = "NewHeight"
        BY <2>1
      <4> QED BY <4>1, <4>2 DEF ControlOK
    <3>2. SentOK(n, s, msgs)
      BY <1>2 DEF SentOK
    <3>3. RelayOK(n, s, msgs) /\ OutOK(n, s)
      BY <2>1 DEF RelayOK, OutOK
    <3> QED BY <3>1, <3>2, <3>3
  <2>5. RoundOK(n, s, msgs)
    <3>1. /\ VoteSetOK(msgs, c, "Prevote", 0, NewVoteSet(Votes[c]))
          /\ VoteSetOK(msgs, c, "Precommit", 0, NewVoteSet(Votes[c]))
      BY <2>2, NewSetOK
    <3> QED BY <2>1, <3>1 DEF RoundOK
  <2>6. LedgerOK(n, s, L)
    BY <1>1, <2>1, <2>2, <2>3 DEF LedgerOK
  <2>7. IPoolsOK(c, s, msgs, L)
    BY <2>1, <2>3, FS_EmptySet DEF IPoolsOK
  <2>8. BPoolsOK(c, s, msgs, L)
    BY <2>1, <2>3 DEF BPoolsOK, OpenAfter
  <2>9. CopiesOK(c, s, L)
    <3>1. 0 \in 0..MaxHeight
      BY PyramidAssumption DEF BoundsOK
    <3> QED BY <1>1, <2>1, <2>2, <3>1 DEF CopiesOK
  <2>10. TogetherOK(n, s, L)
    BY <1>1, <2>1, <2>2 DEF TogetherOK
  <2> QED BY <2>1, <2>3, <2>4, <2>5, <2>6, <2>7, <2>8, <2>9, <2>10 DEF NodeOK, s
<1>5. ASSUME NEW c \in Shard PROVE \E n \in NodesOf(c) : Len(st[n].ledger) = Len(L[c])
  <2>1. PICK v \in DOMAIN Votes[c] : TRUE
    BY PeerLists, PyramidAssumption DEF TopologyOK
  <2>2. <<c, v>> \in NodesOf(c)
    BY DEF Node, NodesOf, ChainOf
  <2> QED BY <1>1, <1>4, <2>2 DEF NodesOf
<1>6. Inv(L)
  BY <1>2, <1>3, <1>4, <1>5 DEF Inv
<1> QED BY <1>6 DEF L

\* A step that changes nothing.
LEMMA InvUnchanged ==
  ASSUME NEW L, Inv(L), UNCHANGED vars
  PROVE  Inv(L)'
BY DEF Inv, vars, NodesOf

\* Every step is a move of a node.
LEMMA NextHolds ==
  ASSUME NoneIsNil, NEW L, Inv(L), [Next]_vars
  PROVE  \/ UNCHANGED vars /\ Inv(L)'
         \/ \E n \in Node : \E K : Moves(n, L, K)
<1>1. CASE UNCHANGED vars
  BY <1>1, InvUnchanged
<1>2. CASE \E n \in Node : Step(n)
  BY <1>2, StepMoves
<1> QED BY <1>1, <1>2 DEF Next, Terminated

\* The inductive invariant.
LEMMA Invariance ==
  NoneIsNil /\ Spec => []IInv
<1> SUFFICES ASSUME NoneIsNil PROVE Spec => []IInv
  OBVIOUS
<1>1. Init => IInv
  BY InitHolds DEF IInv
<1>2. IInv /\ [Next]_vars => IInv'
  <2> SUFFICES ASSUME IInv, [Next]_vars PROVE IInv'
    OBVIOUS
  <2>1. PICK L : Inv(L)
    BY DEF IInv
  <2>2. \E K : Inv(K)'
    BY <2>1, NextHolds DEF Moves, Moved
  <2> QED BY <2>2 DEF IInv
<1> QED BY <1>1, <1>2, PTL DEF Spec

(* Shards keep together: ShardsInLockStep of every state, for any number   *)
(* of shards, from the OKs and the copies of blocks that let a node leave  *)
(* a height.                                                               *)
THEOREM LockStep ==
  NoneIsNil /\ Spec => []ShardsInLockStep
<1>1. IInv => ShardsInLockStep
  <2> SUFFICES ASSUME NEW L, Inv(L), NEW n \in Node, NEW d \in Related[ChainOf(n)]
               PROVE  \E m \in NodesOf(d) : Len(st[m].ledger) >= st[n].height - 1
    BY DEF IInv, ShardsInLockStep
  <2>1. d \in Shard /\ st[n].height - 1 <= Len(L[d])
    BY Nodes, Neighbours DEF Inv, NodeOK, TogetherOK
  <2>2. PICK m \in NodesOf(d) : Len(st[m].ledger) = Len(L[d])
    BY <2>1 DEF Inv
  <2>3. st[n].height \in Nat /\ Len(L[d]) \in Nat
    BY <2>1 DEF Inv, NodeOK, ControlOK, Sound, LedgersOK
  <2> QED BY <2>1, <2>2, <2>3
<1> QED BY <1>1, Invariance, PTL

(* No panic: whatever pending blocks, answers and decisions arrive, and in *)
(* whatever order, a node that has been started never takes the block of   *)
(* its proposer for a Byzantine error.                                     *)
THEOREM NeverPanics ==
  NoneIsNil /\ Spec => []NoPanic
<1>1. IInv => NoPanic
  BY DEF IInv, Inv, NodeOK, ControlOK, NoPanic
<1> QED BY <1>1, Invariance, PTL
-----------------------------------------------------------------------------
(* What the application does.                                              *)

\* new differs from app in the accounts of the range only.
IsApp(app) == DOMAIN app = {"db", "locks", "ready"}
Outside(app, new, range) ==
  /\ IsApp(new)
  /\ \A k \in Key \ range : new.db[k] = app.db[k] /\ (IsLocked(new, k) <=> IsLocked(app, k))

\* Inner transactions stay in the range and touch no lock.
LEMMA InnerOutside ==
  ASSUME NEW app, IsApp(app), NEW txs, NEW range
  PROVE  /\ Outside(app, ExecutionInnerShard(app, txs, range), range)
         /\ ExecutionInnerShard(app, txs, range).locks = app.locks
BY DEF Outside, IsApp, IsLocked, ExecutionInnerShard

\* An accepted block locks accounts of the range only.
LEMMA AcceptOutside ==
  ASSUME NEW app, IsApp(app), NEW block, NEW hash, NEW range, NEW ok
  PROVE  Outside(app, AcceptCrossShard(app, block, hash, range, ok), range)
<1> DEFINE new == AcceptCrossShard(app, block, hash, range, ok)
           mem == Within(BlockWrites(DOMAIN app.locks, block), range)
<1>1. /\ IsApp(new) /\ new.db = app.db
      /\ new.locks = IF ok THEN SetLocks(app.locks, mem) ELSE app.locks
  BY DEF AcceptCrossShard, IsApp
<1>2. \A k \in DOMAIN mem : k \in range
  BY DEF Within
<1> HIDE DEF new, mem
<1>3. DOMAIN SetLocks(app.locks, mem) = DOMAIN app.locks \cup DOMAIN mem
  BY DEF SetLocks
<1>4. \A k : k \notin range => (k \in DOMAIN new.locks <=> k \in DOMAIN app.locks)
  BY <1>1, <1>2, <1>3
<1>5. Outside(app, new, range)
  BY <1>1, <1>4 DEF Outside, IsLocked
<1> QED BY <1>5 DEF new

\* A decision writes and unlocks accounts of the range only.
LEMMA CommitOutside ==
  ASSUME NEW app, IsApp(app), NEW block, NEW hash, NEW range, NEW commit
  PROVE  Outside(app, AcceptCommit(app, block, hash, range, commit), range)
<1> DEFINE keys == KeysOfAll(block.txs) \cap range
           new == AcceptCommit(app, block, hash, range, commit)
<1>1. \A k : k \notin range => k \notin keys
  OBVIOUS
<1>2. new \in {app, ReleaseLocks(app, keys), Unlock(app, keys)}
  BY DEF AcceptCommit
<1> HIDE DEF keys
<1>3. Outside(app, app, range)
  BY DEF Outside
<1>4. IsApp(Unlock(app, keys)) /\ Unlock(app, keys).db = app.db
      /\ DOMAIN Unlock(app, keys).locks = DOMAIN app.locks \ keys
  BY DEF Unlock, IsApp
<1>5. Outside(app, Unlock(app, keys), range)
  BY <1>1, <1>4 DEF Outside, IsLocked
<1>6. /\ IsApp(ReleaseLocks(app, keys)) /\ ReleaseLocks(app, keys).locks = Unlock(app, keys).locks
      /\ \A k \in Key \ keys : ReleaseLocks(app, keys).db[k] = app.db[k]
  BY <1>4 DEF ReleaseLocks, IsApp
<1>7. Outside(app, ReleaseLocks(app, keys), range)
  BY <1>1, <1>4, <1>6 DEF Outside, IsLocked
<1> HIDE DEF new
<1>8. Outside(app, new, range)
  BY <1>2, <1>3, <1>5, <1>7
<1> QED BY <1>8 DEF new

\* Two runs in a range are in the range.
LEMMA OutsideOnce ==
  ASSUME NEW app, NEW mid, NEW new, NEW range, Outside(app, mid, range), Outside(mid, new, range)
  PROVE  Outside(app, new, range)
BY DEF Outside

\* A set of naturals with 0 and with the successors of its elements.
LEMMA AllNaturals ==
  ASSUME NEW S, 0 \in S, \A j \in Nat : j \in S => j + 1 \in S
  PROVE  \A j \in Nat : j \in S
<1> DEFINE T == Nat \ S
<1> SUFFICES ASSUME T # {} PROVE FALSE
  OBVIOUS
<1>1. T \subseteq Nat
  OBVIOUS
<1>2. PICK j \in T : \A i \in T : ~ (<<i, j>> \in OpToRel(<, Nat))
  <2> HIDE DEF T
  <2> QED BY <1>1, NatLessThanWellFounded, WFMin
<1>3. \A i \in T : ~ (i < j)
  <2> HIDE DEF T
  <2> QED BY <1>1, <1>2, Zenon DEF OpToRel
<1>4. j \in Nat /\ j \notin S /\ j # 0
  OBVIOUS
<1>5. j - 1 \in Nat /\ (j - 1) + 1 = j /\ j - 1 < j
  BY <1>4
<1>6. j - 1 \in S
  BY <1>3, <1>5
<1> QED BY <1>4, <1>5, <1>6

\* A block of decisions changes the accounts of its shard only.
LEMMA CommitsOutside ==
  ASSUME NEW app, IsApp(app), NEW store, NEW b, Len(b.commits) \in Nat
  PROVE  Outside(app, AcceptCommitShard(app, store, b), KeyRange[b.chain])
<1> DEFINE range == KeyRange[b.chain]
           Then(a, j) == AcceptCommit(a, StoredBlock(store, b.commits[j].hash), b.commits[j].hash,
                                      range, b.commits[j].sig.ok)
           IsAfter(g, N) == g = [j \in 0..N |-> IF j = 0 THEN app ELSE Then(g[j - 1], j)]
           N == Len(b.commits)
           after == CHOOSE g : IsAfter(g, N)
           S == {j \in Nat : \E g : IsAfter(g, j)}
           R == {j \in Nat : j <= N => Outside(app, after[j], range)}
<1>1. AcceptCommitShard(app, store, b) = after[N]
  BY DEF AcceptCommitShard
<1>2. \A a, j : IsApp(a) => Outside(a, Then(a, j), range)
  BY CommitOutside
<1> HIDE DEF Then, after, range, N
<1>3. \A j \in Nat : j \in S
  <2>1. 0 \in S
    <3> DEFINE g == [j \in 0..0 |-> app]
    <3>1. g = [j \in 0..0 |-> IF j = 0 THEN app ELSE Then(g[j - 1], j)]
      OBVIOUS
    <3> QED BY <3>1
  <2>2. ASSUME NEW k \in Nat, k \in S PROVE k + 1 \in S
    <3>1. PICK g : IsAfter(g, k)
      BY <2>2
    <3> DEFINE f == [j \in 0..(k + 1) |-> IF j <= k THEN g[j] ELSE Then(g[k], j)]
    <3>2. \A j \in 0..k : g[j] = IF j = 0 THEN app ELSE Then(g[j - 1], j)
      BY <3>1
    <3>3. \A j \in 0..(k + 1) : f[j] = IF j = 0 THEN app ELSE Then(f[j - 1], j)
      <4> SUFFICES ASSUME NEW j \in 0..(k + 1) PROVE f[j] = IF j = 0 THEN app ELSE Then(f[j - 1], j)
        OBVIOUS
      <4>1. CASE j = 0
        BY <3>2, <4>1
      <4>2. CASE j # 0 /\ j <= k
        <5>1. j \in 0..k /\ j - 1 \in 0..(k + 1) /\ j - 1 <= k
          BY <4>2
        <5> QED BY <3>2, <4>2, <5>1
      <4>3. CASE j = k + 1
        <5>1. j - 1 = k /\ k \in 0..(k + 1) /\ ~(j <= k) /\ j # 0
          BY <4>3
        <5> QED BY <4>3, <5>1
      <4> QED BY <4>1, <4>2, <4>3
    <3>4. f = [j \in 0..(k + 1) |-> IF j = 0 THEN app ELSE Then(f[j - 1], j)]
      <4> DEFINE h == [j \in 0..(k + 1) |-> IF j = 0 THEN app ELSE Then(f[j - 1], j)]
      <4>1. \A j \in 0..(k + 1) : f[j] = h[j]
        BY <3>3
      <4>2. DOMAIN f = 0..(k + 1) /\ DOMAIN h = 0..(k + 1) /\ f = [j \in DOMAIN f |-> f[j]]
        OBVIOUS
      <4> QED BY <4>1
    <3>5. k + 1 \in Nat /\ IsAfter(f, k + 1)
      BY <3>4
    <3> HIDE DEF f, IsAfter
    <3> QED BY <3>5
  <2> HIDE DEF S
  <2> QED BY <2>1, <2>2, AllNaturals
<1>4. N \in Nat /\ \E g : IsAfter(g, N)
  BY <1>3 DEF N
<1>5. IsAfter(after, N)
  <2> HIDE DEF IsAfter
  <2> QED BY <1>4 DEF after
<1>6. \A j \in 0..N : after[j] = IF j = 0 THEN app ELSE Then(after[j - 1], j)
  BY <1>5
<1>7. \A j \in Nat : j \in R
  <2>1. 0 \in R
    <3>1. after[0] = app
      BY <1>4, <1>6
    <3> QED BY <3>1 DEF Outside
  <2>2. ASSUME NEW k \in Nat, k \in R PROVE k + 1 \in R
    <3> SUFFICES ASSUME k + 1 <= N PROVE Outside(app, after[k + 1], range)
      OBVIOUS
    <3>1. Outside(app, after[k], range)
      BY <1>4, <2>2
    <3>2. after[k + 1] = Then(after[k], k + 1)
      <4>1. k + 1 \in 0..N /\ k + 1 # 0 /\ (k + 1) - 1 = k
        BY <1>4
      <4> QED BY <1>6, <4>1
    <3>3. Outside(after[k], Then(after[k], k + 1), range)
      BY <1>2, <3>1 DEF Outside
    <3> QED BY <3>1, <3>2, <3>3, OutsideOnce
  <2> HIDE DEF R
  <2> QED BY <2>1, <2>2, AllNaturals
<1>8. Outside(app, after[N], range)
  BY <1>4, <1>7
<1> QED BY <1>1, <1>8 DEF range

\* So does every block of an I-shard,
LEMMA ExecuteOutside ==
  ASSUME NEW app, IsApp(app), NEW store, NEW b, b.type \in {"Inner", "IAccept", "ICommit"},
         b.type = "ICommit" => Len(b.commits) \in Nat, NEW isok
  PROVE  Outside(app, ExecuteIBlock(app, store, b, isok), KeyRange[b.chain])
<1>1. CASE b.type = "Inner"
  <2>1. ExecuteIBlock(app, store, b, isok) = ExecutionInnerShard(app, b.txs, KeyRange[b.chain])
    BY <1>1 DEF ExecuteIBlock
  <2> QED BY <2>1, InnerOutside
<1>2. CASE b.type = "IAccept"
  <2>1. ExecuteIBlock(app, store, b, isok) =
          AcceptCrossShard(app, b.csb.block, Hash(b.csb.block), KeyRange[b.chain], isok)
    BY <1>2 DEF ExecuteIBlock
  <2> QED BY <2>1, AcceptOutside
<1>3. CASE b.type = "ICommit"
  <2>1. ExecuteIBlock(app, store, b, isok) = AcceptCommitShard(app, store, b)
    BY <1>3 DEF ExecuteIBlock
  <2> QED BY <1>3, <2>1, CommitsOutside
<1> QED BY <1>1, <1>2, <1>3

\* and therefore all blocks that a B-shard executes on its copy.
LEMMA FromToOutside ==
  ASSUME NEW s, IsApp(s.app), NEW c, NEW k \in Nat, NEW last \in Nat, k <= last, NEW isok,
         \A j \in (k + 1)..last : StoredAt(s, c, j) # {},
         \A b \in s.store : b.chain = c => /\ b.type \in {"Inner", "IAccept", "ICommit"}
                                           /\ b.type = "ICommit" => Len(b.commits) \in Nat
  PROVE  Outside(s.app, ExecuteFromTo(s, c, k + 1, last, isok), KeyRange[c])
<1> DEFINE blockAt(j) == CHOOSE b \in StoredAt(s, c, j) : TRUE
           Then(a, j) == ExecuteIBlock(a, s.store, blockAt(j), isok)
           IsAfter(g, N) == g = [j \in ((k + 1) - 1)..N |-> IF j < k + 1 THEN s.app ELSE Then(g[j - 1], j)]
           after == CHOOSE g : IsAfter(g, last)
           S == {i \in Nat : \E g : IsAfter(g, k + i)}
           R == {i \in Nat : k + i <= last => Outside(s.app, after[k + i], KeyRange[c])}
<1>1. ExecuteFromTo(s, c, k + 1, last, isok) = after[last]
  BY DEF ExecuteFromTo
<1>2. ASSUME NEW j \in (k + 1)..last, NEW a, IsApp(a) PROVE Outside(a, Then(a, j), KeyRange[c])
  <2>1. blockAt(j) \in StoredAt(s, c, j)
    OBVIOUS
  <2>2. blockAt(j) \in s.store /\ blockAt(j).chain = c
    BY <2>1 DEF StoredAt
  <2> HIDE DEF blockAt
  <2> QED BY <1>2, <2>2, ExecuteOutside
<1> HIDE DEF blockAt, Then, after
<1>3. \A i \in Nat : i \in S
  <2>1. 0 \in S
    <3> DEFINE g == [j \in ((k + 1) - 1)..(k + 0) |-> s.app]
    <3>1. \A j \in ((k + 1) - 1)..(k + 0) : j < k + 1
      OBVIOUS
    <3>2. g = [j \in ((k + 1) - 1)..(k + 0) |-> IF j < k + 1 THEN s.app ELSE Then(g[j - 1], j)]
      BY <3>1
    <3> QED BY <3>2
  <2>2. ASSUME NEW i \in Nat, i \in S PROVE i + 1 \in S
    <3> DEFINE D == ((k + 1) - 1)..(k + i)
               E == ((k + 1) - 1)..(k + (i + 1))
    <3>1. PICK g : IsAfter(g, k + i)
      BY <2>2
    <3> DEFINE f == [j \in E |-> IF j <= k + i THEN g[j] ELSE Then(g[k + i], j)]
    <3>2. \A j \in D : g[j] = IF j < k + 1 THEN s.app ELSE Then(g[j - 1], j)
      BY <3>1
    <3>3. \A j \in E : f[j] = IF j < k + 1 THEN s.app ELSE Then(f[j - 1], j)
      <4> SUFFICES ASSUME NEW j \in E PROVE f[j] = IF j < k + 1 THEN s.app ELSE Then(f[j - 1], j)
        OBVIOUS
      <4>1. CASE j < k + 1
        <5>1. j \in D /\ j <= k + i
          BY <4>1
        <5> QED BY <3>2, <4>1, <5>1
      <4>2. CASE ~(j < k + 1) /\ j <= k + i
        <5>1. j \in D /\ j - 1 \in E /\ j - 1 <= k + i
          BY <4>2
        <5> QED BY <3>2, <4>2, <5>1
      <4>3. CASE ~(j <= k + i)
        <5>1. j - 1 = k + i /\ j - 1 \in E /\ ~(j < k + 1) /\ k + i <= k + i
          BY <4>3
        <5>2. f[j - 1] = g[k + i]
          BY <5>1
        <5>3. f[j] = Then(g[k + i], j)
          BY <4>3
        <5> QED BY <5>1, <5>2, <5>3
      <4> QED BY <4>1, <4>2, <4>3
    <3>4. f = [j \in E |-> IF j < k + 1 THEN s.app ELSE Then(f[j - 1], j)]
      <4> DEFINE h == [j \in E |-> IF j < k + 1 THEN s.app ELSE Then(f[j - 1], j)]
      <4>1. \A j \in E : f[j] = h[j]
        BY <3>3
      <4>2. DOMAIN f = E /\ DOMAIN h = E /\ f = [j \in DOMAIN f |-> f[j]]
        OBVIOUS
      <4> QED BY <4>1
    <3> HIDE DEF f
    <3>5. IsAfter(f, k + (i + 1))
      BY <3>4
    <3>6. i + 1 \in Nat
      OBVIOUS
    <3> HIDE DEF IsAfter
    <3> QED BY <3>5, <3>6
  <2> HIDE DEF S
  <2> QED BY <2>1, <2>2, AllNaturals
<1>4. \E g : IsAfter(g, last)
  <2>1. last - k \in Nat /\ k + (last - k) = last
    OBVIOUS
  <2>2. last - k \in S
    BY <1>3, <2>1
  <2> HIDE DEF IsAfter
  <2> QED BY <2>1, <2>2
<1>5. IsAfter(after, last)
  <2> HIDE DEF IsAfter
  <2> QED BY <1>4 DEF after
<1>6. \A j \in ((k + 1) - 1)..last : after[j] = IF j < k + 1 THEN s.app ELSE Then(after[j - 1], j)
  BY <1>5
<1>7. \A i \in Nat : i \in R
  <2>1. 0 \in R
    <3>1. k + 0 = k /\ k \in ((k + 1) - 1)..last /\ k < k + 1
      OBVIOUS
    <3>2. after[k + 0] = s.app
      BY <1>6, <3>1
    <3> QED BY <3>2 DEF Outside
  <2>2. ASSUME NEW i \in Nat, i \in R PROVE i + 1 \in R
    <3> SUFFICES ASSUME k + (i + 1) <= last PROVE Outside(s.app, after[k + (i + 1)], KeyRange[c])
      OBVIOUS
    <3> DEFINE j == k + (i + 1)
    <3>1. /\ j \in ((k + 1) - 1)..last /\ ~(j < k + 1) /\ j - 1 = k + i /\ j \in (k + 1)..last
          /\ k + i <= last
      OBVIOUS
    <3>2. Outside(s.app, after[k + i], KeyRange[c])
      BY <2>2, <3>1
    <3>3. after[j] = Then(after[k + i], j)
      BY <1>6, <3>1
    <3>4. IsApp(after[k + i])
      BY <3>2 DEF Outside
    <3>5. Outside(after[k + i], Then(after[k + i], j), KeyRange[c])
      BY <1>2, <3>1, <3>4
    <3> QED BY <3>2, <3>3, <3>5, OutsideOnce
  <2> HIDE DEF R
  <2> QED BY <2>1, <2>2, AllNaturals
<1>8. Outside(s.app, after[last], KeyRange[c])
  <2>1. last - k \in Nat /\ k + (last - k) = last
    OBVIOUS
  <2> QED BY <1>7, <2>1
<1> QED BY <1>1, <1>8

\* A B-shard that executes blocks of an I-shard leaves its own accounts alone.
LEMMA CopyOutside ==
  ASSUME NEW n \in Node, NEW s, NEW M, NEW L, Sound(M, L), NodeOK(n, s, M, L), IsApp(s.app),
         ChainOf(n) \in BShards,
         NEW m \in M, m.to = ChainOf(n), m.type = "CSB", m.height <= MaxHeight
  PROVE  LET t == DoCrossShardBlock(n, s, m).state IN
         \/ t.app = s.app
         \/ \E d \in Related[ChainOf(n)] : Outside(s.app, t.app, KeyRange[d])
<1> DEFINE c == ChainOf(n)
           d == m.sig.chain
           u == [s EXCEPT !.store = @ \cup {m.block}]
           w == SyncIBlocks(u, d, m.height, m.sig.ok)
           t == DoCrossShardBlock(n, s, m).state
           k == s.shardHeight[d]
           last == LastStored(u, d, k + 1, m.height)
           carried == CarriedBlocks({b \in u.store : b.chain = d /\ b.height \in (k + 1)..last})
           v == [u EXCEPT !.store = @ \cup carried]
<1>1. /\ CsbOK(M, L, c, m) /\ m.height \in Nat
      /\ c \in Shard /\ d \in Related[c] /\ d \in Shard /\ d \in IShards /\ c \notin IShards
  <2>1. CsbOK(M, L, c, m) /\ m.height \in Nat /\ c \in Shard
    BY Nodes DEF Sound, MsgOK
  <2>2. d \in Related[c]
    BY <2>1 DEF CsbOK
  <2> QED BY <2>1, <2>2, Neighbours
<1>2. t = s \/ t = w
  BY <1>1 DEF DoCrossShardBlock, Return, Look
<1>3. CASE t = s
  BY <1>3
<1>4. CASE t = w
  <2>1. NodeOK(n, w, M, L)
    BY <1>4, CrossShardBlockCollected
  <2>2. /\ IsState(u) /\ u.shardHeight = s.shardHeight /\ u.app = s.app
    BY DEF NodeOK, IsState, StateFields
  <2>3. /\ w.store = u.store \cup carried /\ v.store = u.store \cup carried
        /\ w.app = ExecuteFromTo(v, d, k + 1, last, m.sig.ok) /\ v.app = s.app
    <3> HIDE DEF u
    <3> QED BY <2>2 DEF IsState, StateFields, SyncIBlocks, SyncFromTo
  <2> HIDE DEF u, w, v, carried, t
  <2>4. \A b \in w.store : b.chain = d => InLedger(L, b) /\ b.height <= MaxHeight
    BY <1>1, <2>1 DEF NodeOK, CopiesOK
  <2>5. k \in 0..MaxHeight /\ MaxHeight \in Nat
    BY <1>1, PyramidAssumption DEF NodeOK, CopiesOK, BoundsOK
  <2>6. last \in k..MaxHeight /\ \A i \in (k + 1)..last : StoredAt(u, d, i) # {}
    <3>1. \A b \in u.store : b.chain = d => b.height \in Nat /\ b.height <= MaxHeight
      BY <2>3, <2>4 DEF InLedger
    <3> HIDE DEF d, k
    <3> QED BY <1>1, <2>5, <3>1, LastStoredIsLast
  <2>7. ASSUME NEW b \in v.store, b.chain = d
        PROVE  b.type \in {"Inner", "IAccept", "ICommit"} /\ (b.type = "ICommit" => Len(b.commits) \in Nat)
    <3>1. InLedger(L, b)
      BY <2>3, <2>4, <2>7
    <3>2. BlockOK(M, L, b)
      BY <1>1, <2>7, <3>1, LedgerBlocks DEF InLedger
    <3> QED BY <1>1, <2>7, <3>2 DEF BlockOK
  <2>8. \A j \in (k + 1)..last : StoredAt(v, d, j) # {}
    BY <2>3, <2>6 DEF StoredAt
  <2>9. k \in Nat /\ last \in Nat /\ k <= last
    BY <2>5, <2>6
  <2> HIDE DEF d, k, last
  <2>10. Outside(s.app, w.app, KeyRange[d])
    <3>1. IsApp(v.app)
      BY <2>3
    <3>2. Outside(v.app, ExecuteFromTo(v, d, k + 1, last, m.sig.ok), KeyRange[d])
      BY <2>7, <2>8, <2>9, <3>1, FromToOutside
    <3> QED BY <2>3, <3>2
  <2> QED BY <1>1, <1>4, <2>10 DEF t
<1> QED BY <1>2, <1>3, <1>4
-----------------------------------------------------------------------------
(* The state after each block.                                             *)

\* What the nodes of a shard agree on: an I-shard on all it has, a B-shard on
\* the balances of its own accounts, none of which is ever locked.
View(c, a) == IF c \in IShards THEN a ELSE RangeDB(a.app, KeyRange[c])

\* No account of a B-shard's own is locked.
OwnOK(c, a) ==
  c \notin IShards => IsApp(a.app) /\ \A k \in KeyRange[c] : ~IsLocked(a.app, k)

\* A block changes what the nodes agree on without regard to the rest.
RunView(c, v, e) ==
  IF c \in IShards THEN Run(c, v, e)
  ELSE IF e.block.type = "Inner"
  THEN [k \in KeyRange[c] |-> ExecuteTxs({}, v, e.block.txs)[k]] ELSE v

\* A[c][j] is what shard c agrees on after j blocks.
HistoryOK(L, A) ==
  \A c \in Shard : /\ A[c][0] = View(c, [app |-> NewApplication, store |-> {}])
                   /\ \A j \in 1..Len(L[c]) : A[c][j] = RunView(c, A[c][j - 1], L[c][j])

\* Every node is where its ledger puts it.
Follows(A) ==
  \A n \in Node : /\ OwnOK(ChainOf(n), StateOf(st[n]))
                  /\ View(ChainOf(n), StateOf(st[n])) = A[ChainOf(n)][Len(st[n].ledger)]

AInv == \E L, A : Inv(L) /\ HistoryOK(L, A) /\ Follows(A)

\* The view of a shard goes from block to block by itself.
LEMMA ViewRuns ==
  ASSUME NEW c \in Shard, NEW a, OwnOK(c, a), NEW e, e.block.chain = c
  PROVE  View(c, Run(c, a, e)) = RunView(c, View(c, a), e) /\ OwnOK(c, Run(c, a, e))
<1>1. CASE c \in IShards
  BY <1>1 DEF View, RunView, OwnOK
<1>2. CASE c \notin IShards /\ e.block.type # "Inner"
  BY <1>2 DEF View, RunView, OwnOK, Run
<1>3. CASE c \notin IShards /\ e.block.type = "Inner"
  <2> DEFINE range == KeyRange[c]
             txs == e.block.txs
             new == ExecutionInnerShard(a.app, txs, range)
             vals == ExecuteTxs({}, RangeDB(a.app, range), txs)
  <2>1. Run(c, a, e).app = new
    BY <1>3 DEF Run
  <2>2. IsApp(a.app) /\ \A k \in range : ~IsLocked(a.app, k)
    BY <1>3 DEF OwnOK
  <2>3. DOMAIN a.app.locks \cap range = {}
    BY <2>2 DEF IsLocked
  <2>4. range \subseteq Key
    BY PyramidAssumption DEF TopologyOK
  <2>5. new.db = [k \in Key |-> IF k \in range THEN vals[k] ELSE a.app.db[k]]
    <3> HIDE DEF range, txs
    <3>1. new.db = [k \in Key |-> IF k \in range
                                  THEN ExecuteTxs(DOMAIN a.app.locks \cap range, RangeDB(a.app, range), txs)[k]
                                  ELSE a.app.db[k]]
      BY <2>2 DEF ExecutionInnerShard, IsApp
    <3> QED BY <2>3, <3>1
  <2>6. IsApp(new) /\ new.locks = a.app.locks
    BY <2>2, InnerOutside DEF Outside
  <2> HIDE DEF new, vals
  <2>7. RangeDB(new, range) = [k \in range |-> vals[k]]
    BY <2>4, <2>5 DEF RangeDB
  <2>8. \A k \in range : ~IsLocked(new, k)
    BY <2>2, <2>6 DEF IsLocked
  <2>9. View(c, Run(c, a, e)) = RangeDB(new, range)
    BY <1>3, <2>1 DEF View
  <2>10. RunView(c, View(c, a), e) = [k \in range |-> vals[k]]
    BY <1>3 DEF View, RunView, vals
  <2> QED BY <2>1, <2>6, <2>7, <2>8, <2>9, <2>10 DEF OwnOK
<1> QED BY <1>1, <1>2, <1>3

\* The copies of other shards' accounts are not in the view.
LEMMA ViewBefore ==
  ASSUME NEW n \in Node, NEW L, Inv(L), OwnOK(ChainOf(n), StateOf(st[n])), NEW t, Before(n, t)
  PROVE  /\ View(ChainOf(n), StateOf(t)) = View(ChainOf(n), StateOf(st[n]))
         /\ OwnOK(ChainOf(n), StateOf(t))
<1> DEFINE c == ChainOf(n)
           s == st[n]
<1>1. CASE StateOf(t) = StateOf(s)
  BY <1>1
<1>2. CASE \E m \in msgs : /\ c \in BShards /\ m.to = c /\ m.type = "CSB" /\ m.height <= MaxHeight
                           /\ t = DoCrossShardBlock(n, s, m).state
  <2>1. PICK m \in msgs : /\ c \in BShards /\ m.to = c /\ m.type = "CSB" /\ m.height <= MaxHeight
                          /\ t = DoCrossShardBlock(n, s, m).state
    BY <1>2
  <2>2. c \in Shard /\ c \notin IShards
    BY <2>1, Nodes, Neighbours
  <2>3. IsApp(s.app) /\ \A k \in KeyRange[c] : ~IsLocked(s.app, k)
    BY <2>2 DEF OwnOK, StateOf
  <2>4. Sound(msgs, L) /\ NodeOK(n, s, msgs, L)
    BY DEF Inv
  <2> HIDE DEF s
  <2>5. \/ t.app = s.app
        \/ \E d \in Related[c] : Outside(s.app, t.app, KeyRange[d])
    BY <2>1, <2>3, <2>4, CopyOutside
  <2>6. CASE t.app = s.app
    BY <2>2, <2>3, <2>6 DEF View, OwnOK, StateOf, s
  <2>7. CASE \E d \in Related[c] : Outside(s.app, t.app, KeyRange[d])
    <3>1. PICK d \in Related[c] : Outside(s.app, t.app, KeyRange[d])
      BY <2>7
    <3>2. d \in Shard /\ d # c
      BY <2>1, <2>2, Neighbours
    <3>3. \A k \in KeyRange[c] : k \in Key \ KeyRange[d]
      BY <2>2, <3>2, PyramidAssumption DEF TopologyOK
    <3>4. /\ IsApp(t.app)
          /\ \A k \in KeyRange[c] : t.app.db[k] = s.app.db[k] /\ ~IsLocked(t.app, k)
      BY <2>3, <3>1, <3>3 DEF Outside
    <3>5. RangeDB(t.app, KeyRange[c]) = RangeDB(s.app, KeyRange[c])
      BY <3>4 DEF RangeDB
    <3> QED BY <2>2, <3>4, <3>5 DEF View, OwnOK, StateOf, s
  <2> QED BY <2>5, <2>6, <2>7
<1> QED BY <1>1, <1>2 DEF Before

\* The history goes on with the ledgers.
LEMMA HistoryGrows ==
  ASSUME NEW L, NEW A, HistoryOK(L, A), NEW K, NEW c, NEW seq, GrowsBy(L, K, c, seq)
  PROVE  \E B : /\ HistoryOK(K, B)
                /\ \A d \in Shard : \A j \in 0..Len(L[d]) : B[d][j] = A[d][j]
<1> DEFINE B == [d \in Shard |-> [j \in 0..Len(K[d]) |->
                   IF j <= Len(L[d]) THEN A[d][j] ELSE RunView(d, A[d][j - 1], K[d][j])]]
<1>1. ASSUME NEW d \in Shard
      PROVE  /\ Len(L[d]) \in Nat /\ Len(K[d]) \in Nat
             /\ Len(L[d]) <= Len(K[d]) /\ Len(K[d]) <= Len(L[d]) + 1
             /\ \A j \in 1..Len(L[d]) : K[d][j] = L[d][j]
  <2>1. /\ Len(L[d]) \in Nat /\ Len(K[d]) \in Nat /\ Len(L[d]) <= Len(K[d])
        /\ \A j \in 1..Len(L[d]) : K[d][j] = L[d][j]
    BY DEF GrowsBy, Extends
  <2>2. Len(K[d]) = Len(L[d]) \/ Len(K[d]) = Len(L[d]) + 1
    BY DEF GrowsBy
  <2> QED BY <2>1, <2>2
<1>2. ASSUME NEW d \in Shard, NEW j \in 0..Len(K[d])
      PROVE  B[d][j] = IF j <= Len(L[d]) THEN A[d][j] ELSE RunView(d, A[d][j - 1], K[d][j])
  OBVIOUS
<1> HIDE DEF B
<1>3. ASSUME NEW d \in Shard, NEW j \in 0..Len(L[d]) PROVE B[d][j] = A[d][j]
  <2>1. j \in 0..Len(K[d]) /\ j <= Len(L[d])
    BY <1>1
  <2> QED BY <1>2, <2>1
<1>4. ASSUME NEW d \in Shard, NEW j \in 1..Len(K[d]) PROVE B[d][j] = RunView(d, B[d][j - 1], K[d][j])
  <2>1. j - 1 \in 0..Len(L[d]) /\ j \in 0..Len(K[d])
    BY <1>1
  <2>2. B[d][j - 1] = A[d][j - 1]
    BY <1>3, <2>1
  <2>3. CASE j <= Len(L[d])
    <3>1. j \in 1..Len(L[d])
      BY <1>1, <2>3
    <3>2. A[d][j] = RunView(d, A[d][j - 1], L[d][j]) /\ K[d][j] = L[d][j]
      BY <1>1, <3>1 DEF HistoryOK
    <3> QED BY <1>2, <2>1, <2>2, <2>3, <3>2
  <2>4. CASE ~(j <= Len(L[d]))
    BY <1>2, <2>1, <2>2, <2>4
  <2> QED BY <2>3, <2>4
<1>5. ASSUME NEW d \in Shard PROVE B[d][0] = View(d, [app |-> NewApplication, store |-> {}])
  <2>1. 0 \in 0..Len(L[d])
    BY <1>1
  <2>2. B[d][0] = A[d][0]
    BY <1>3, <2>1
  <2> QED BY <2>2 DEF HistoryOK
<1>6. HistoryOK(K, B)
  BY <1>4, <1>5, Zenon DEF HistoryOK
<1> QED BY <1>3, <1>6

\* A move keeps its node on the history, which may grow by a block.
LEMMA MovesFollow ==
  ASSUME NEW L, NEW A, Inv(L), HistoryOK(L, A), Follows(A), NEW n \in Node, NEW K, Moves(n, L, K)
  PROVE  AInv'
<1> DEFINE c == ChainOf(n)
           l == Len(st[n].ledger)
<1>1. PICK s, t : Before(n, s) /\ Ran(n, s, t) /\ Moved(n, t, L, K)
  BY DEF Moves
<1>2. /\ Inv(K)' /\ GrowsBy(L, K, c, t.ledger)
      /\ st'[n].ledger = t.ledger /\ StateOf(st'[n]) = StateOf(t)
      /\ \A m \in Node \ {n} : st'[m] = st[m]
  BY <1>1 DEF Moved
<1>3. PICK B : HistoryOK(K, B) /\ \A d \in Shard : \A j \in 0..Len(L[d]) : B[d][j] = A[d][j]
  BY <1>2, HistoryGrows
<1>4. \A m \in Node : /\ ChainOf(m) \in Shard
                      /\ Len(st[m].ledger) \in 0..Len(L[ChainOf(m)])
  BY Nodes, NodeHeights DEF Inv
<1>5. /\ View(c, StateOf(s)) = A[c][l] /\ OwnOK(c, StateOf(s)) /\ s.ledger = st[n].ledger
  BY <1>1, ViewBefore DEF Follows, Before
<1>6. c \in Shard /\ l \in 0..Len(L[c]) /\ B[c][l] = A[c][l]
  BY <1>3, <1>4
<1>7. OwnOK(c, StateOf(t)) /\ View(c, StateOf(t)) = B[c][Len(t.ledger)]
  <2>1. CASE t.ledger = s.ledger /\ StateOf(t) = StateOf(s)
    BY <1>5, <1>6, <2>1
  <2>2. CASE \E e : t.ledger = Append(s.ledger, e) /\ StateOf(t) = Run(c, StateOf(s), e)
    <3>1. PICK e : t.ledger = Append(s.ledger, e) /\ StateOf(t) = Run(c, StateOf(s), e)
      BY <2>2
    <3>2. PICK S : s.ledger \in Seq(S)
      BY <1>5 DEF Inv, NodeOK, LedgerOK
    <3>3. Len(t.ledger) = l + 1 /\ t.ledger[l + 1] = e
      <4>1. s.ledger \in Seq(S \cup {e}) /\ Len(s.ledger) = l
        BY <1>5, <3>2
      <4> QED BY <3>1, <4>1, AppendProperties
    <3>4. l + 1 \in 1..Len(K[c]) /\ K[c][l + 1] = e
      <4>1. LedgerOK(n, st'[n], K)
        BY <1>2 DEF Inv, NodeOK
      <4>2. Len(t.ledger) <= Len(K[c]) /\ \A j \in 1..Len(t.ledger) : t.ledger[j] = K[c][j]
        BY <1>2, <4>1 DEF LedgerOK
      <4>3. Len(K[c]) \in Nat /\ l \in Nat
        BY <1>2, <1>6 DEF GrowsBy, Extends
      <4> QED BY <3>3, <4>2, <4>3
    <3>5. e.block.chain = c
      BY <1>2, <1>6, <3>4 DEF Inv, Sound, LedgersOK, EntryOK
    <3>6. B[c][l + 1] = RunView(c, B[c][(l + 1) - 1], K[c][l + 1])
      BY <1>3, <1>6, <3>4 DEF HistoryOK
    <3>7. (l + 1) - 1 = l
      BY <1>6
    <3> HIDE DEF c, l
    <3>8. B[c][l + 1] = RunView(c, View(c, StateOf(s)), e)
      BY <1>5, <1>6, <3>4, <3>6, <3>7
    <3> QED BY <1>5, <1>6, <3>1, <3>3, <3>5, <3>8, ViewRuns
  <2> QED BY <1>1, <2>1, <2>2 DEF Ran
<1>8. ASSUME NEW m \in Node
      PROVE  /\ OwnOK(ChainOf(m), StateOf(st'[m]))
             /\ View(ChainOf(m), StateOf(st'[m])) = B[ChainOf(m)][Len(st'[m].ledger)]
  <2>1. CASE m = n
    BY <1>2, <1>7, <2>1
  <2>2. CASE m # n
    <3>1. st'[m] = st[m]
      BY <1>2, <2>2
    <3>2. /\ OwnOK(ChainOf(m), StateOf(st[m]))
          /\ View(ChainOf(m), StateOf(st[m])) = A[ChainOf(m)][Len(st[m].ledger)]
      BY DEF Follows
    <3> QED BY <1>3, <1>4, <3>1, <3>2
  <2> QED BY <2>1, <2>2
<1>9. Follows(B)'
  BY <1>8 DEF Follows
<1> QED BY <1>2, <1>3, <1>9 DEF AInv, HistoryOK

\* At first every node has the state before the first block.
LEMMA InitFollows ==
  ASSUME NoneIsNil, Init
  PROVE  AInv
<1> DEFINE L == [c \in Shard |-> <<>>]
           new == [app |-> NewApplication, store |-> {}]
           A == [c \in Shard |-> [j \in {0} |-> View(c, new)]]
<1>1. Inv(L)
  BY InitHolds
<1>2. HistoryOK(L, A)
  BY DEF HistoryOK
<1>3. ASSUME NEW n \in Node PROVE st[n].ledger = <<>> /\ StateOf(st[n]) = new
  <2>1. st[n] = NewState(n)
    BY DEF Init
  <2> QED BY <2>1 DEF NewState, ClearAll, StateOf
<1>4. \A c \in Shard : OwnOK(c, new)
  BY DEF OwnOK, NewApplication, IsApp, IsLocked
<1>5. \A n \in Node : ChainOf(n) \in Shard
  BY Nodes
<1>6. \A c \in Shard : A[c][0] = View(c, new)
  OBVIOUS
<1> HIDE DEF L, A
<1>7. Follows(A)
  <2> HIDE DEF new
  <2> QED BY <1>3, <1>4, <1>5, <1>6 DEF Follows
<1> QED BY <1>1, <1>2, <1>7 DEF AInv

\* The inductive invariant of Agreement.
LEMMA AgreementInvariance ==
  NoneIsNil /\ Spec => []AInv
<1> SUFFICES ASSUME NoneIsNil PROVE Spec => []AInv
  OBVIOUS
<1>1. Init => AInv
  BY InitFollows
<1>2. AInv /\ [Next]_vars => AInv'
  <2> SUFFICES ASSUME AInv, [Next]_vars PROVE AInv'
    OBVIOUS
  <2>1. PICK L, A : Inv(L) /\ HistoryOK(L, A) /\ Follows(A)
    BY DEF AInv
  <2>2. CASE UNCHANGED vars /\ Inv(L)'
    <3>1. Follows(A)'
      BY <2>1, <2>2 DEF Follows, vars
    <3> QED BY <2>1, <2>2, <3>1 DEF AInv, HistoryOK
  <2>3. CASE \E n \in Node : \E K : Moves(n, L, K)
    BY <2>1, <2>3, MovesFollow
  <2> QED BY <2>1, <2>2, <2>3, NextHolds
<1> QED BY <1>1, <1>2, PTL DEF Spec

(* Agreement: the nodes of a shard execute the same blocks with the same   *)
(* codes, and after the same blocks have the same balances and locks in    *)
(* the accounts of the shard; a B-shard also when its nodes have executed  *)
(* blocks of the I-shards on their copies in different orders and to       *)
(* different heights.                                                      *)
THEOREM Agreement ==
  NoneIsNil /\ Spec => []LedgerAgreement
<1>1. AInv => LedgerAgreement
  <2> SUFFICES ASSUME NEW L, NEW A, Inv(L), HistoryOK(L, A), Follows(A),
                      NEW c \in Shard, NEW n \in NodesOf(c), NEW m \in NodesOf(c)
               PROVE  /\ \A j \in DOMAIN st[n].ledger : st[n].ledger[j].block.height = j
                      /\ \A j \in DOMAIN st[n].ledger \cap DOMAIN st[m].ledger :
                           st[n].ledger[j] = st[m].ledger[j]
                      /\ Len(st[n].ledger) = Len(st[m].ledger) =>
                           \A k \in KeyRange[c] :
                             /\ st[n].app.db[k] = st[m].app.db[k]
                             /\ IsLocked(st[n].app, k) <=> IsLocked(st[m].app, k)
    BY DEF AInv, LedgerAgreement
  <2>1. n \in Node /\ m \in Node /\ ChainOf(n) = c /\ ChainOf(m) = c
    BY DEF NodesOf
  <2>2. ASSUME NEW x \in Node, ChainOf(x) = c, NEW j \in DOMAIN st[x].ledger
        PROVE  j \in 1..Len(L[c]) /\ st[x].ledger[j] = L[c][j] /\ st[x].ledger[j].block.height = j
    <3>1. LedgerOK(x, st[x], L)
      BY DEF Inv, NodeOK
    <3>2. PICK S : st[x].ledger \in Seq(S)
      BY <3>1 DEF LedgerOK
    <3>3. DOMAIN st[x].ledger = 1..Len(st[x].ledger) /\ Len(st[x].ledger) \in Nat
      BY <3>2
    <3>4. Len(L[c]) \in Nat
      BY DEF Inv, Sound, LedgersOK
    <3>5. j \in 1..Len(L[c]) /\ st[x].ledger[j] = L[c][j]
      BY <2>2, <3>1, <3>3, <3>4 DEF LedgerOK
    <3>6. L[c][j].block.height = j
      BY <3>5, LedgerBlocks DEF Inv
    <3> QED BY <3>5, <3>6
  <2>3. ASSUME Len(st[n].ledger) = Len(st[m].ledger), NEW k \in KeyRange[c]
        PROVE  /\ st[n].app.db[k] = st[m].app.db[k]
               /\ IsLocked(st[n].app, k) <=> IsLocked(st[m].app, k)
    <3>1. View(c, StateOf(st[n])) = View(c, StateOf(st[m]))
      BY <2>1, <2>3 DEF Follows
    <3>2. OwnOK(c, StateOf(st[n])) /\ OwnOK(c, StateOf(st[m]))
      BY <2>1 DEF Follows
    <3>3. CASE c \in IShards
      <4>1. st[n].app = st[m].app
        BY <3>1, <3>3 DEF View, StateOf
      <4> QED BY <4>1
    <3>4. CASE c \notin IShards
      <4>1. RangeDB(st[n].app, KeyRange[c]) = RangeDB(st[m].app, KeyRange[c])
        BY <3>1, <3>4 DEF View, StateOf
      <4>2. st[n].app.db[k] = st[m].app.db[k]
        BY <4>1 DEF RangeDB
      <4> QED BY <3>2, <3>4, <4>2 DEF OwnOK, StateOf
    <3> QED BY <3>3, <3>4
  <2> QED BY <2>1, <2>2, <2>3
<1> QED BY <1>1, AgreementInvariance, PTL
-----------------------------------------------------------------------------
(* The refinement: an I-shard that accepts a cross-shard block votes, the  *)
(* B-shard that commits it decides, an I-shard that executes decisions     *)
(* applies them; all else stutters.                                        *)

\* I-shard i has executed the decision of block x with this code.
Applied(L, i, x, ok) ==
  \E j \in 1..Len(L[i]) : /\ L[i][j].block.type = "ICommit"
                          /\ \E k \in DOMAIN L[i][j].block.commits :
                               /\ L[i][j].block.commits[k].hash = x
                               /\ L[i][j].block.commits[k].sig.ok = ok

\* The codes that the ledgers have.
AnswersOf(L, x, i) == {ok \in BOOLEAN : Answered(L, i, x, ok)}
DecisionsOf(L, x) == {ok \in BOOLEAN : Decided(L, x, ok)}
AppliedOf(L, x, i) == {ok \in BOOLEAN : Applied(L, i, x, ok)}

\* The variables of AtomicCommit, of the state and of the ledgers.
VoteNow == [x \in CrossBlock |-> [i \in Related[x[1]] |-> VoteOf(x, i)]]
DecisionNow == [x \in CrossBlock |-> DecisionOf(x)]
AppliedNow == [x \in CrossBlock |-> [i \in Related[x[1]] |-> AppliedBy(x, i)]]

VoteIn(L) == [x \in CrossBlock |-> [i \in Related[x[1]] |-> NameOf(AnswersOf(L, x, i), "yes", "no")]]
DecisionIn(L) == [x \in CrossBlock |-> NameOf(DecisionsOf(L, x), "commit", "abort")]
AppliedIn(L) ==
  [x \in CrossBlock |-> [i \in Related[x[1]] |-> NameOf(AppliedOf(L, x, i), "commit", "abort")]]

\* A cross-shard block is of a B-shard and concerns I-shards.
LEMMA CrossBlocks ==
  ASSUME NEW x \in CrossBlock
  PROVE  /\ x[1] \in BShards /\ x[1] \in Shard
         /\ Related[x[1]] \subseteq IShards /\ Related[x[1]] \subseteq Shard
BY Neighbours, PyramidAssumption DEF CrossBlock, TopologyOK, Shard

\* The longest ledger of a shard has the entries of all.
LedgersMeet(S, L) ==
  \A c \in Shard : /\ Len(L[c]) \in Nat
                   /\ \A n \in NodesOf(c) : LedgerOK(n, S[n], L)
                   /\ \E n \in NodesOf(c) : Len(S[n].ledger) = Len(L[c])
EntriesOf(S, c) == UNION {ToSet(S[n].ledger) : n \in NodesOf(c)}
EntriesAre(E, L) ==
  \A c \in Shard : \A e : e \in E[c] <=> \E j \in 1..Len(L[c]) : e = L[c][j]

\* What the nodes of a shard have executed is the ledger of the shard.
LEMMA EntriesMet ==
  ASSUME NEW S, NEW L, LedgersMeet(S, L), NEW c \in Shard, NEW e
  PROVE  e \in EntriesOf(S, c) <=> \E j \in 1..Len(L[c]) : e = L[c][j]
<1>1. Len(L[c]) \in Nat /\ \A n \in NodesOf(c) : ChainOf(n) = c
  BY DEF LedgersMeet, NodesOf
<1>2. ASSUME NEW n \in NodesOf(c)
      PROVE  /\ Len(S[n].ledger) \in 0..Len(L[c])
             /\ e \in ToSet(S[n].ledger) <=> \E j \in 1..Len(S[n].ledger) : e = L[c][j]
  <2>1. LedgerOK(n, S[n], L) /\ ChainOf(n) = c
    BY <1>1 DEF LedgersMeet
  <2>2. PICK T : S[n].ledger \in Seq(T)
    BY <2>1 DEF LedgerOK
  <2>3. DOMAIN S[n].ledger = 1..Len(S[n].ledger) /\ Len(S[n].ledger) \in Nat
    BY <2>2
  <2>4. \A j \in 1..Len(S[n].ledger) : S[n].ledger[j] = L[c][j]
    BY <2>1 DEF LedgerOK
  <2>5. Len(S[n].ledger) <= Len(L[c])
    BY <2>1 DEF LedgerOK
  <2>6. e \in ToSet(S[n].ledger) <=> \E j \in 1..Len(S[n].ledger) : e = S[n].ledger[j]
    BY <2>3 DEF ToSet
  <2> QED BY <1>1, <2>3, <2>4, <2>5, <2>6
<1>3. ASSUME NEW n \in NodesOf(c), e \in ToSet(S[n].ledger)
      PROVE  \E j \in 1..Len(L[c]) : e = L[c][j]
  BY <1>1, <1>2, <1>3
<1>4. PICK n \in NodesOf(c) : Len(S[n].ledger) = Len(L[c])
  BY DEF LedgersMeet
<1>5. e \in ToSet(S[n].ledger) <=> \E j \in 1..Len(L[c]) : e = L[c][j]
  BY <1>2, <1>4
<1> QED BY <1>3, <1>5 DEF EntriesOf

\* The codes in the entries of a chain.
AnswerCodes(entries, x) ==
  {ok \in BOOLEAN : \E e \in entries : /\ e.block.type = "IAccept"
                                       /\ e.ok = ok /\ Hash(e.block.csb.block) = x}
AppliedCodes(entries, x) ==
  {ok \in BOOLEAN : \E e \in entries : /\ e.block.type = "ICommit"
                                       /\ \E j \in DOMAIN e.block.commits :
                                            /\ e.block.commits[j].hash = x
                                            /\ e.block.commits[j].sig.ok = ok}
DecisionCodes(entries, x) ==
  {ok \in BOOLEAN : \E e \in entries : e.block.type = "BCommit" /\ e.ok = ok /\ e.block.hash = x}

\* They are the codes that AtomicCommit sees in the ledgers.
LEMMA CodesIn ==
  ASSUME NEW E, NEW L, EntriesAre(E, L), NEW x \in CrossBlock
  PROVE  /\ \A i \in Related[x[1]] :
              /\ AnswerCodes(E[i], x) = AnswersOf(L, x, i)
              /\ AppliedCodes(E[i], x) = AppliedOf(L, x, i)
         /\ DecisionCodes(E[x[1]], x) = DecisionsOf(L, x)
<1>1. x[1] \in Shard /\ Related[x[1]] \subseteq Shard
  BY CrossBlocks
<1>2. \A c \in Shard : \A e : e \in E[c] <=> \E j \in 1..Len(L[c]) : e = L[c][j]
  BY DEF EntriesAre
<1>3. ASSUME NEW i \in Related[x[1]], NEW ok \in BOOLEAN
      PROVE  /\ (\E e \in E[i] : /\ e.block.type = "IAccept"
                                 /\ e.ok = ok /\ Hash(e.block.csb.block) = x)
                <=> Answered(L, i, x, ok)
             /\ (\E e \in E[i] : /\ e.block.type = "ICommit"
                                 /\ \E j \in DOMAIN e.block.commits :
                                      /\ e.block.commits[j].hash = x
                                      /\ e.block.commits[j].sig.ok = ok)
                <=> Applied(L, i, x, ok)
  <2>1. \A e : e \in E[i] <=> \E j \in 1..Len(L[i]) : e = L[i][j]
    BY <1>1, <1>2
  <2>2. (\E e \in E[i] : /\ e.block.type = "IAccept"
                         /\ e.ok = ok /\ Hash(e.block.csb.block) = x)
        <=> Answered(L, i, x, ok)
    BY <2>1 DEF Answered
  <2>3. (\E e \in E[i] : /\ e.block.type = "ICommit"
                         /\ \E j \in DOMAIN e.block.commits :
                              /\ e.block.commits[j].hash = x
                              /\ e.block.commits[j].sig.ok = ok)
        <=> Applied(L, i, x, ok)
    BY <2>1 DEF Applied
  <2> QED BY <2>2, <2>3
<1>4. ASSUME NEW ok \in BOOLEAN
      PROVE  (\E e \in E[x[1]] : e.block.type = "BCommit" /\ e.ok = ok /\ e.block.hash = x)
             <=> Decided(L, x, ok)
  <2>1. \A e : e \in E[x[1]] <=> \E j \in 1..Len(L[x[1]]) : e = L[x[1]][j]
    BY <1>1, <1>2
  <2> QED BY <2>1 DEF Decided
<1> QED BY <1>3, <1>4 DEF AnswersOf, AppliedOf, DecisionsOf, AnswerCodes, AppliedCodes, DecisionCodes

\* What AtomicCommit sees of the state is what it sees of the ledgers, before
\* a step and after it.
LEMMA SeenNow ==
  ASSUME NEW L, Inv(L)
  PROVE  VoteNow = VoteIn(L) /\ DecisionNow = DecisionIn(L) /\ AppliedNow = AppliedIn(L)
<1> DEFINE E == [c \in Shard |-> Entries(c)]
<1>1. EntriesAre(E, L)
  <2>1. LedgersMeet(st, L)
    BY DEF Inv, Sound, LedgersOK, NodeOK, NodesOf, LedgersMeet
  <2>2. \A c \in Shard : E[c] = EntriesOf(st, c)
    BY DEF Entries, EntriesOf
  <2> HIDE DEF E
  <2> QED BY <2>1, <2>2, EntriesMet DEF EntriesAre
<1>2. \A c \in Shard : E[c] = Entries(c)
  OBVIOUS
<1> HIDE DEF E
<1>3. ASSUME NEW x \in CrossBlock
      PROVE  /\ \A i \in Related[x[1]] : /\ VoteOf(x, i) = NameOf(AnswersOf(L, x, i), "yes", "no")
                                         /\ AppliedBy(x, i) = NameOf(AppliedOf(L, x, i), "commit", "abort")
             /\ DecisionOf(x) = NameOf(DecisionsOf(L, x), "commit", "abort")
  <2>1. E[x[1]] = Entries(x[1]) /\ \A i \in Related[x[1]] : E[i] = Entries(i)
    BY <1>2, CrossBlocks
  <2>2. ASSUME NEW i \in Related[x[1]]
        PROVE  /\ VoteOf(x, i) = NameOf(AnswersOf(L, x, i), "yes", "no")
               /\ AppliedBy(x, i) = NameOf(AppliedOf(L, x, i), "commit", "abort")
    <3>1. E[i] = Entries(i)
      BY <2>1
    <3>2. VoteOf(x, i) = NameOf(AnswerCodes(E[i], x), "yes", "no")
      BY <3>1, Zenon DEF VoteOf, Codes, AnswerCodes
    <3>3. AppliedBy(x, i) = NameOf(AppliedCodes(E[i], x), "commit", "abort")
      BY <3>1, Zenon DEF AppliedBy, Codes, AppliedCodes
    <3> QED BY <1>1, <3>2, <3>3, CodesIn
  <2>3. DecisionOf(x) = NameOf(DecisionCodes(E[x[1]], x), "commit", "abort")
    BY <2>1, Zenon DEF DecisionOf, Codes, DecisionCodes
  <2>4. DecisionOf(x) = NameOf(DecisionsOf(L, x), "commit", "abort")
    BY <1>1, <2>3, CodesIn
  <2> QED BY <2>2, <2>4
<1> QED BY <1>3, Zenon DEF VoteNow, VoteIn, DecisionNow, DecisionIn, AppliedNow, AppliedIn

\* The refinement mapping in the next state, read off its ledgers.
LEMMA SeenThen ==
  ASSUME NEW L, Inv(L)'
  PROVE  VoteNow' = VoteIn(L) /\ DecisionNow' = DecisionIn(L) /\ AppliedNow' = AppliedIn(L)
<1> DEFINE E == [c \in Shard |-> Entries(c)']
<1>1. EntriesAre(E, L)
  <2>1. LedgersMeet(st', L)
    BY DEF Inv, Sound, LedgersOK, NodeOK, NodesOf, LedgersMeet
  <2>2. \A c \in Shard : E[c] = EntriesOf(st', c)
    BY DEF Entries, EntriesOf, NodesOf
  <2> HIDE DEF E
  <2> QED BY <2>1, <2>2, EntriesMet DEF EntriesAre
<1>2. \A c \in Shard : E[c] = Entries(c)'
  OBVIOUS
<1> HIDE DEF E
<1>3. ASSUME NEW x \in CrossBlock
      PROVE  /\ \A i \in Related[x[1]] : /\ VoteOf(x, i)' = NameOf(AnswersOf(L, x, i), "yes", "no")
                                         /\ AppliedBy(x, i)' = NameOf(AppliedOf(L, x, i), "commit", "abort")
             /\ DecisionOf(x)' = NameOf(DecisionsOf(L, x), "commit", "abort")
  <2>1. E[x[1]] = Entries(x[1])' /\ \A i \in Related[x[1]] : E[i] = Entries(i)'
    BY <1>2, CrossBlocks
  <2>2. ASSUME NEW i \in Related[x[1]]
        PROVE  /\ VoteOf(x, i)' = NameOf(AnswersOf(L, x, i), "yes", "no")
               /\ AppliedBy(x, i)' = NameOf(AppliedOf(L, x, i), "commit", "abort")
    <3>1. E[i] = Entries(i)'
      BY <2>1
    <3>2. VoteOf(x, i)' = NameOf(AnswerCodes(E[i], x), "yes", "no")
      BY <3>1, Zenon DEF VoteOf, Codes, AnswerCodes
    <3>3. AppliedBy(x, i)' = NameOf(AppliedCodes(E[i], x), "commit", "abort")
      BY <3>1, Zenon DEF AppliedBy, Codes, AppliedCodes
    <3> QED BY <1>1, <3>2, <3>3, CodesIn
  <2>3. DecisionOf(x)' = NameOf(DecisionCodes(E[x[1]], x), "commit", "abort")
    BY <2>1, Zenon DEF DecisionOf, Codes, DecisionCodes
  <2>4. DecisionOf(x)' = NameOf(DecisionsOf(L, x), "commit", "abort")
    BY <1>1, <2>3, CodesIn
  <2> QED BY <2>2, <2>4
<1> QED BY <1>3, Zenon DEF VoteNow, VoteIn, DecisionNow, DecisionIn, AppliedNow, AppliedIn

\* A block has one answer from a shard and one decision, and the decision is
\* what the shards execute.
LEMMA CodeOnce ==
  ASSUME NEW M, NEW L, Sound(M, L), NEW x, NEW i \in Shard, NEW ok
  PROVE  /\ Answered(L, i, x, ok) => ok \in BOOLEAN /\ \A no : Answered(L, i, x, no) => no = ok
         /\ x[1] \in Shard /\ Decided(L, x, ok) =>
              ok \in BOOLEAN /\ \A no : Decided(L, x, no) => no = ok
         /\ i \in IShards /\ Applied(L, i, x, ok) => x[1] \in Related[i] /\ Decided(L, x, ok)
<1>1. ASSUME NEW c \in Shard, NEW j \in 1..Len(L[c])
      PROVE  L[c][j].ok \in BOOLEAN /\ L[c][j].block.chain = c /\ BlockOK(M, L, L[c][j].block)
  <2>1. EntryOK(M, c, j, L[c][j]) /\ L[c][j].block.chain = c /\ BlockOK(M, L, L[c][j].block)
    BY LedgerBlocks
  <2>2. OkFor(L[c][j].block, L[c][j].ok)
    BY <2>1, Zenon DEF EntryOK
  <2> QED BY <2>1, <2>2, Zenon DEF OkFor
<1>2. Answered(L, i, x, ok) => ok \in BOOLEAN /\ \A no : Answered(L, i, x, no) => no = ok
  BY <1>1, AnsweredOnce DEF Answered
<1>3. x[1] \in Shard /\ Decided(L, x, ok) => ok \in BOOLEAN /\ \A no : Decided(L, x, no) => no = ok
  <2> SUFFICES ASSUME x[1] \in Shard, Decided(L, x, ok)
               PROVE  ok \in BOOLEAN /\ \A no : Decided(L, x, no) => no = ok
    OBVIOUS
  <2> DEFINE c == x[1]
  <2>1. PICK j \in 1..Len(L[c]) : /\ L[c][j].block.type = "BCommit" /\ L[c][j].block.hash = x
                                  /\ L[c][j].ok = ok
    BY DEF Decided
  <2>2. ASSUME NEW no, Decided(L, x, no) PROVE no = ok
    <3>1. PICK k \in 1..Len(L[c]) : /\ L[c][k].block.type = "BCommit" /\ L[c][k].block.hash = x
                                    /\ L[c][k].ok = no
      BY <2>2 DEF Decided
    <3> HIDE DEF c
    <3>2. c \in Shard
      BY DEF c
    <3>3. j = k
      BY <2>1, <3>1, <3>2, DecidedOnce
    <3> QED BY <2>1, <3>1, <3>3
  <2>3. ok \in BOOLEAN
    BY <1>1, <2>1
  <2> QED BY <2>2, <2>3
<1>4. i \in IShards /\ Applied(L, i, x, ok) => x[1] \in Related[i] /\ Decided(L, x, ok)
  <2> SUFFICES ASSUME Applied(L, i, x, ok) PROVE x[1] \in Related[i] /\ Decided(L, x, ok)
    OBVIOUS
  <2>1. PICK j \in 1..Len(L[i]) : /\ L[i][j].block.type = "ICommit"
                                  /\ \E k \in DOMAIN L[i][j].block.commits :
                                       /\ L[i][j].block.commits[k].hash = x
                                       /\ L[i][j].block.commits[k].sig.ok = ok
    BY DEF Applied
  <2>2. PICK k \in DOMAIN L[i][j].block.commits : /\ L[i][j].block.commits[k].hash = x
                                                  /\ L[i][j].block.commits[k].sig.ok = ok
    BY <2>1
  <2>3. DecisionOK(M, L, i, L[i][j].block.commits[k])
    BY <1>1, <2>1 DEF BlockOK
  <2> QED BY <2>2, <2>3 DEF DecisionOK
<1> QED BY <1>2, <1>3, <1>4

\* No code, no name.
LEMMA NotNamed ==
  ASSUME NEW yes, NEW no
  PROVE  NameOf({}, yes, no) = "none"
BY DEF NameOf

\* One code, its name.
LEMMA Named ==
  ASSUME NEW yes, NEW no, NEW ok \in BOOLEAN
  PROVE  NameOf({ok}, yes, no) = IF ok THEN yes ELSE no
<1>1. NameOf({TRUE}, yes, no) = yes
  BY DEF NameOf
<1>2. NameOf({FALSE}, yes, no) = no
  <2>1. {FALSE} # {TRUE} /\ {FALSE} # {}
    OBVIOUS
  <2> QED BY <2>1 DEF NameOf
<1>3. ok = TRUE \/ ok = FALSE
  OBVIOUS
<1> QED BY <1>1, <1>2, <1>3

\* What AtomicCommit sees of codes of which there is at most one.
LEMMA Names ==
  ASSUME NEW M, NEW L, Sound(M, L), NEW x \in CrossBlock, NEW i \in Related[x[1]]
  PROVE  /\ VoteIn(L)[x][i] = NameOf(AnswersOf(L, x, i), "yes", "no")
         /\ DecisionIn(L)[x] = NameOf(DecisionsOf(L, x), "commit", "abort")
         /\ AppliedIn(L)[x][i] = NameOf(AppliedOf(L, x, i), "commit", "abort")
         /\ (\A ok : ~Answered(L, i, x, ok)) => VoteIn(L)[x][i] = "none"
         /\ \A ok : Answered(L, i, x, ok) => VoteIn(L)[x][i] = IF ok THEN "yes" ELSE "no"
         /\ (\A ok : ~Applied(L, i, x, ok)) => AppliedIn(L)[x][i] = "none"
         /\ \A ok : Applied(L, i, x, ok) => AppliedIn(L)[x][i] = IF ok THEN "commit" ELSE "abort"
<1>1. i \in Shard /\ i \in IShards /\ x[1] \in Shard
  BY CrossBlocks
<1>2. /\ VoteIn(L)[x][i] = NameOf(AnswersOf(L, x, i), "yes", "no")
      /\ DecisionIn(L)[x] = NameOf(DecisionsOf(L, x), "commit", "abort")
      /\ AppliedIn(L)[x][i] = NameOf(AppliedOf(L, x, i), "commit", "abort")
  BY DEF VoteIn, DecisionIn, AppliedIn
<1>3. (\A ok : ~Answered(L, i, x, ok)) => AnswersOf(L, x, i) = {}
  BY DEF AnswersOf
<1>4. (\A ok : ~Applied(L, i, x, ok)) => AppliedOf(L, x, i) = {}
  BY DEF AppliedOf
<1>5. ASSUME NEW ok, Answered(L, i, x, ok)
      PROVE  ok \in BOOLEAN /\ AnswersOf(L, x, i) = {ok}
  BY <1>1, <1>5, CodeOnce, Zenon DEF AnswersOf
<1>6. ASSUME NEW ok, Applied(L, i, x, ok)
      PROVE  ok \in BOOLEAN /\ AppliedOf(L, x, i) = {ok}
  <2>1. Decided(L, x, ok) /\ \A no : Applied(L, i, x, no) => Decided(L, x, no)
    BY <1>1, <1>6, CodeOnce
  <2>2. ok \in BOOLEAN /\ \A no : Applied(L, i, x, no) => no = ok
    BY <1>1, <2>1, CodeOnce
  <2> QED BY <1>6, <2>2, Zenon DEF AppliedOf
<1>7. \A ok : Answered(L, i, x, ok) => VoteIn(L)[x][i] = IF ok THEN "yes" ELSE "no"
  BY <1>2, <1>5, Named
<1>8. \A ok : Applied(L, i, x, ok) => AppliedIn(L)[x][i] = IF ok THEN "commit" ELSE "abort"
  BY <1>2, <1>6, Named
<1>9. /\ (\A ok : ~Answered(L, i, x, ok)) => VoteIn(L)[x][i] = "none"
      /\ (\A ok : ~Applied(L, i, x, ok)) => AppliedIn(L)[x][i] = "none"
  BY <1>2, <1>3, <1>4, NotNamed
<1> QED BY <1>2, <1>7, <1>8, <1>9

\* A block has no decision or one, never both.
LEMMA DecisionNames ==
  ASSUME NEW M, NEW L, Sound(M, L), NEW x \in CrossBlock
  PROVE  /\ (\A ok : ~Decided(L, x, ok)) => DecisionIn(L)[x] = "none"
         /\ \A ok : Decided(L, x, ok) => DecisionIn(L)[x] = IF ok THEN "commit" ELSE "abort"
<1>1. x[1] \in Shard
  BY CrossBlocks
<1>2. DecisionIn(L)[x] = NameOf(DecisionsOf(L, x), "commit", "abort")
  BY DEF DecisionIn
<1>3. (\A ok : ~Decided(L, x, ok)) => DecisionsOf(L, x) = {}
  BY DEF DecisionsOf
<1>4. ASSUME NEW ok, Decided(L, x, ok) PROVE ok \in BOOLEAN /\ DecisionsOf(L, x) = {ok}
  BY <1>1, <1>4, CodeOnce, Zenon DEF DecisionsOf
<1>5. \A ok : Decided(L, x, ok) => DecisionIn(L)[x] = IF ok THEN "commit" ELSE "abort"
  BY <1>2, <1>4, Named
<1>6. (\A ok : ~Decided(L, x, ok)) => DecisionIn(L)[x] = "none"
  BY <1>2, <1>3, NotNamed
<1> QED BY <1>5, <1>6

\* e is the entry that a step has added to the ledger of chain c.
NewEntry(L, K, c, e) == Len(K[c]) = Len(L[c]) + 1 /\ e = K[c][Len(L[c]) + 1]

IsAnswer(e, x, ok) == e.block.type = "IAccept" /\ Hash(e.block.csb.block) = x /\ e.ok = ok
IsDecision(e, x, ok) == e.block.type = "BCommit" /\ e.block.hash = x /\ e.ok = ok
Executes(e, x, ok) ==
  /\ e.block.type = "ICommit"
  /\ \E k \in DOMAIN e.block.commits : e.block.commits[k].hash = x /\ e.block.commits[k].sig.ok = ok

InChain(L, c) == {L[c][j] : j \in 1..Len(L[c])}

\* Answers and executions as entries of a chain.
LEMMA CodesInChain ==
  ASSUME NEW L, NEW x, NEW ok, NEW i
  PROVE  /\ Answered(L, i, x, ok) <=> \E e \in InChain(L, i) : IsAnswer(e, x, ok)
         /\ Applied(L, i, x, ok) <=> \E e \in InChain(L, i) : Executes(e, x, ok)
BY DEF Answered, Applied, InChain, IsAnswer, Executes

\* Decisions as entries of a chain.
LEMMA DecisionsInChain ==
  ASSUME NEW L, NEW x, NEW ok
  PROVE  Decided(L, x, ok) <=> \E e \in InChain(L, x[1]) : IsDecision(e, x, ok)
BY DEF Decided, InChain, IsDecision

\* What a new entry adds to the answers, decisions and executions.
LEMMA CodesAdded ==
  ASSUME NEW L, NEW K, NEW c \in Shard, NEW seq, GrowsBy(L, K, c, seq), NEW e, NewEntry(L, K, c, e),
         NEW x, NEW ok
  PROVE  /\ \A i \in Shard : /\ Answered(K, i, x, ok) <=> Answered(L, i, x, ok) \/ (i = c /\ IsAnswer(e, x, ok))
                             /\ Applied(K, i, x, ok) <=> Applied(L, i, x, ok) \/ (i = c /\ Executes(e, x, ok))
         /\ x[1] \in Shard => (Decided(K, x, ok) <=> Decided(L, x, ok) \/ (x[1] = c /\ IsDecision(e, x, ok)))
<1>1. ASSUME NEW i \in Shard
      PROVE  InChain(K, i) = InChain(L, i) \cup (IF i = c THEN {e} ELSE {})
  <2>1. /\ Len(L[i]) \in Nat /\ Len(K[i]) = IF i = c THEN Len(L[i]) + 1 ELSE Len(L[i])
        /\ \A j \in 1..Len(L[i]) : K[i][j] = L[i][j]
        /\ i = c => K[i][Len(L[i]) + 1] = e
    BY DEF GrowsBy, Extends, NewEntry
  <2>2. CASE i # c
    BY <2>1, <2>2 DEF InChain
  <2>3. CASE i = c
    <3>1. 1..Len(K[i]) = 1..Len(L[i]) \cup {Len(L[i]) + 1}
      BY <2>1, <2>3
    <3> QED BY <2>1, <2>3, <3>1 DEF InChain
  <2> QED BY <2>2, <2>3
<1>2. ASSUME NEW i \in Shard
      PROVE  /\ Answered(K, i, x, ok) <=> Answered(L, i, x, ok) \/ (i = c /\ IsAnswer(e, x, ok))
             /\ Applied(K, i, x, ok) <=> Applied(L, i, x, ok) \/ (i = c /\ Executes(e, x, ok))
  <2>1. \A f : f \in InChain(K, i) <=> f \in InChain(L, i) \/ (i = c /\ f = e)
    BY <1>1
  <2> QED BY <2>1, CodesInChain
<1>3. ASSUME x[1] \in Shard
      PROVE  Decided(K, x, ok) <=> Decided(L, x, ok) \/ (x[1] = c /\ IsDecision(e, x, ok))
  <2>1. \A f : f \in InChain(K, x[1]) <=> f \in InChain(L, x[1]) \/ (x[1] = c /\ f = e)
    BY <1>1, <1>3
  <2> QED BY <2>1, DecisionsInChain
<1> QED BY <1>2, <1>3

\* The mapping depends on the codes only.
LEMMA SameNames ==
  ASSUME NEW L, NEW K
  PROVE  /\ (\A x \in CrossBlock : \A i \in Related[x[1]] : \A ok \in BOOLEAN :
               Answered(K, i, x, ok) <=> Answered(L, i, x, ok)) => VoteIn(K) = VoteIn(L)
         /\ (\A x \in CrossBlock : \A ok \in BOOLEAN :
               Decided(K, x, ok) <=> Decided(L, x, ok)) => DecisionIn(K) = DecisionIn(L)
         /\ (\A x \in CrossBlock : \A i \in Related[x[1]] : \A ok \in BOOLEAN :
               Applied(K, i, x, ok) <=> Applied(L, i, x, ok)) => AppliedIn(K) = AppliedIn(L)
<1>1. ASSUME \A x \in CrossBlock : \A i \in Related[x[1]] : \A ok \in BOOLEAN :
               Answered(K, i, x, ok) <=> Answered(L, i, x, ok)
      PROVE  VoteIn(K) = VoteIn(L)
  <2>1. \A x \in CrossBlock : \A i \in Related[x[1]] : AnswersOf(K, x, i) = AnswersOf(L, x, i)
    BY <1>1 DEF AnswersOf
  <2> QED BY <2>1, Zenon DEF VoteIn
<1>2. ASSUME \A x \in CrossBlock : \A ok \in BOOLEAN : Decided(K, x, ok) <=> Decided(L, x, ok)
      PROVE  DecisionIn(K) = DecisionIn(L)
  <2>1. \A x \in CrossBlock : DecisionsOf(K, x) = DecisionsOf(L, x)
    BY <1>2 DEF DecisionsOf
  <2> QED BY <2>1, Zenon DEF DecisionIn
<1>3. ASSUME \A x \in CrossBlock : \A i \in Related[x[1]] : \A ok \in BOOLEAN :
               Applied(K, i, x, ok) <=> Applied(L, i, x, ok)
      PROVE  AppliedIn(K) = AppliedIn(L)
  <2>1. \A x \in CrossBlock : \A i \in Related[x[1]] : AppliedOf(K, x, i) = AppliedOf(L, x, i)
    BY <1>3 DEF AppliedOf
  <2> QED BY <2>1, Zenon DEF AppliedIn
<1> QED BY <1>1, <1>2, <1>3

\* The steps of AtomicCommit, on the ledgers before and after a step.
CastsVote(L, K, x, i) ==
  /\ VoteIn(L)[x][i] = "none"
  /\ \E v \in {"yes", "no"} : VoteIn(K) = [VoteIn(L) EXCEPT ![x][i] = v]
  /\ DecisionIn(K) = DecisionIn(L) /\ AppliedIn(K) = AppliedIn(L)
Decides(L, K, x) ==
  /\ DecisionIn(L)[x] = "none"
  /\ \A i \in Related[x[1]] : VoteIn(L)[x][i] # "none"
  /\ DecisionIn(K) = [DecisionIn(L) EXCEPT ![x] =
                        IF \A i \in Related[x[1]] : VoteIn(L)[x][i] = "yes" THEN "commit" ELSE "abort"]
  /\ VoteIn(K) = VoteIn(L) /\ AppliedIn(K) = AppliedIn(L)
Applies(L, K, i, xs) ==
  /\ \A x \in xs : i \in Related[x[1]] /\ AppliedIn(L)[x][i] = "none" /\ DecisionIn(L)[x] # "none"
  /\ AppliedIn(K) = [x \in CrossBlock |-> [j \in Related[x[1]] |->
                       IF x \in xs /\ j = i THEN DecisionIn(L)[x] ELSE AppliedIn(L)[x][j]]]
  /\ VoteIn(K) = VoteIn(L) /\ DecisionIn(K) = DecisionIn(L)
Stutters(L, K) == VoteIn(K) = VoteIn(L) /\ DecisionIn(K) = DecisionIn(L) /\ AppliedIn(K) = AppliedIn(L)

\* A step in which no ledger grows is a stutter.
LEMMA NoEntrySeen ==
  ASSUME NEW L, NEW K, \A d \in Shard : K[d] = L[d]
  PROVE  Stutters(L, K)
<1>1. ASSUME NEW x \in CrossBlock, NEW ok
      PROVE  /\ Decided(K, x, ok) <=> Decided(L, x, ok)
             /\ \A i \in Related[x[1]] : /\ Answered(K, i, x, ok) <=> Answered(L, i, x, ok)
                                         /\ Applied(K, i, x, ok) <=> Applied(L, i, x, ok)
  <2>1. K[x[1]] = L[x[1]] /\ \A i \in Related[x[1]] : K[i] = L[i]
    BY CrossBlocks
  <2> QED BY <2>1 DEF Decided, Answered, Applied
<1> QED BY <1>1, SameNames DEF Stutters

\* Inner blocks and cross-shard blocks are no steps of AtomicCommit.
LEMMA OtherSeen ==
  ASSUME NEW L, NEW K, NEW c \in Shard, NEW seq, GrowsBy(L, K, c, seq), NEW e, NewEntry(L, K, c, e),
         e.block.type \notin {"IAccept", "BCommit", "ICommit"}
  PROVE  Stutters(L, K)
<1>1. ASSUME NEW x \in CrossBlock, NEW ok
      PROVE  /\ Decided(K, x, ok) <=> Decided(L, x, ok)
             /\ \A i \in Related[x[1]] : /\ Answered(K, i, x, ok) <=> Answered(L, i, x, ok)
                                         /\ Applied(K, i, x, ok) <=> Applied(L, i, x, ok)
  <2>1. ~IsDecision(e, x, ok) /\ ~IsAnswer(e, x, ok) /\ ~Executes(e, x, ok)
    BY DEF IsDecision, IsAnswer, Executes
  <2> QED BY <2>1, CrossBlocks, CodesAdded
<1> QED BY <1>1, SameNames DEF Stutters

\* A function of a cross-shard block and a shard.
IsGrid(A) == A = [x \in CrossBlock |-> [i \in Related[x[1]] |-> A[x][i]]]

SetAt(A, y, c, v) == [A EXCEPT ![y][c] = v]

\* Changing a table of tables in one place.
LEMMA ExceptTwice ==
  ASSUME NEW A, NEW B, NEW y \in CrossBlock, NEW c \in Related[y[1]], NEW v, B[y][c] = v,
         IsGrid(A), IsGrid(B),
         \A x \in CrossBlock : \A i \in Related[x[1]] : i # c \/ x # y => B[x][i] = A[x][i]
  PROVE  B = SetAt(A, y, c, v)
<1>1. \A x \in CrossBlock : x # y => B[x] = A[x]
  <2> SUFFICES ASSUME NEW x \in CrossBlock, x # y PROVE B[x] = A[x]
    OBVIOUS
  <2>1. A[x] = [i \in Related[x[1]] |-> A[x][i]] /\ B[x] = [i \in Related[x[1]] |-> B[x][i]]
    BY Zenon DEF IsGrid
  <2>2. \A i \in Related[x[1]] : B[x][i] = A[x][i]
    OBVIOUS
  <2> QED BY <2>1, <2>2
<1>2. B[y] = [A[y] EXCEPT ![c] = v]
  <2>1. A[y] = [i \in Related[y[1]] |-> A[y][i]] /\ B[y] = [i \in Related[y[1]] |-> B[y][i]]
    BY Zenon DEF IsGrid
  <2> QED BY <2>1
<1>3. DOMAIN A = CrossBlock /\ DOMAIN B = CrossBlock
  BY Zenon DEF IsGrid
<1>4. A = [x \in CrossBlock |-> A[x]] /\ B = [x \in CrossBlock |-> B[x]]
  BY Zenon DEF IsGrid
<1> QED BY <1>1, <1>2, <1>3, <1>4 DEF SetAt

\* A block that accepts or refuses is a vote, the first of its shard.
LEMMA AcceptSeen ==
  ASSUME NEW M, NEW N, NEW L, NEW K, Sound(M, L), Sound(N, K),
         NEW c \in Shard, NEW seq, GrowsBy(L, K, c, seq), NEW e, NewEntry(L, K, c, e),
         e.block.type = "IAccept"
  PROVE  Stutters(L, K) \/ \E x \in CrossBlock : \E i \in Related[x[1]] : CastsVote(L, K, x, i)
<1> DEFINE y == Hash(e.block.csb.block)
           l == Len(L[c]) + 1
<1>1. l \in 1..Len(K[c]) /\ e = K[c][l] /\ Len(L[c]) \in Nat
  BY DEF NewEntry, GrowsBy, Extends
<1>2. e.block.chain = c /\ BlockOK(N, K, e.block) /\ e.ok \in BOOLEAN
  <2>1. EntryOK(N, c, l, e) /\ e.block.chain = c /\ BlockOK(N, K, e.block)
    BY <1>1, LedgerBlocks
  <2>2. OkFor(e.block, e.ok)
    BY <2>1, Zenon DEF EntryOK
  <2> QED BY <2>1, <2>2, Zenon DEF OkFor
<1>3. y[1] \in Related[c] /\ c \in Related[y[1]]
  <2>1. CsbOK(N, K, c, e.block.csb)
    BY <1>2 DEF BlockOK
  <2> QED BY <2>1, Neighbours DEF CsbOK, Hash
<1>4. Answered(K, c, y, e.ok) /\ \A ok : ~Answered(L, c, y, ok)
  <2>1. Answered(K, c, y, e.ok)
    BY <1>1 DEF Answered
  <2>2. ASSUME NEW ok, Answered(L, c, y, ok) PROVE FALSE
    <3>1. PICK j \in 1..Len(L[c]) : /\ L[c][j].block.type = "IAccept"
                                    /\ Hash(L[c][j].block.csb.block) = y
      BY <2>2 DEF Answered
    <3>2. j \in 1..Len(K[c]) /\ j # l /\ K[c][j] = L[c][j]
      BY <1>1 DEF GrowsBy, Extends, NewEntry
    <3> QED BY <1>1, <3>1, <3>2, AnsweredOnce
  <2> QED BY <2>1, <2>2
<1>5. ASSUME NEW x \in CrossBlock, NEW ok
      PROVE  /\ Decided(K, x, ok) <=> Decided(L, x, ok)
             /\ \A i \in Related[x[1]] : /\ Applied(K, i, x, ok) <=> Applied(L, i, x, ok)
                                         /\ i # c \/ x # y => (Answered(K, i, x, ok) <=> Answered(L, i, x, ok))
  BY CrossBlocks, CodesAdded DEF IsDecision, IsAnswer, Executes
<1>6. DecisionIn(K) = DecisionIn(L) /\ AppliedIn(K) = AppliedIn(L)
  BY <1>5, SameNames
<1>7. CASE y \notin CrossBlock
  <2>1. VoteIn(K) = VoteIn(L)
    BY <1>5, <1>7, SameNames
  <2> QED BY <1>6, <2>1 DEF Stutters
<1>8. CASE y \in CrossBlock
  <2> HIDE DEF y
  <2>1. /\ VoteIn(L)[y][c] = "none"
        /\ VoteIn(K)[y][c] = IF e.ok THEN "yes" ELSE "no"
    BY <1>3, <1>4, <1>8, Names
  <2>2. ASSUME NEW x \in CrossBlock, NEW i \in Related[x[1]], i # c \/ x # y
        PROVE  VoteIn(K)[x][i] = VoteIn(L)[x][i]
    <3>1. AnswersOf(K, x, i) = AnswersOf(L, x, i)
      BY <1>5, <2>2 DEF AnswersOf
    <3> QED BY <3>1, Names
  <2> DEFINE v == IF e.ok THEN "yes" ELSE "no"
  <2>3. VoteIn(K) = SetAt(VoteIn(L), y, c, v)
    <3>1. IsGrid(VoteIn(K)) /\ IsGrid(VoteIn(L))
      BY DEF VoteIn, IsGrid
    <3> HIDE DEF v
    <3>2. VoteIn(K)[y][c] = v
      BY <2>1 DEF v
    <3>3. \A x \in CrossBlock : \A i \in Related[x[1]] : i # c \/ x # y => VoteIn(K)[x][i] = VoteIn(L)[x][i]
      BY <2>2
    <3>4. c \in Related[y[1]]
      BY <1>3
    <3> DEFINE A == VoteIn(L)
               B == VoteIn(K)
    <3>5. IsGrid(A) /\ IsGrid(B) /\ B[y][c] = v
      BY <3>1, <3>2
    <3>6. \A x \in CrossBlock : \A i \in Related[x[1]] : i # c \/ x # y => B[x][i] = A[x][i]
      BY <3>3
    <3>7. B = SetAt(A, y, c, v)
      <4> HIDE DEF A, B
      <4> QED BY <1>8, <3>4, <3>5, <3>6, ExceptTwice
    <3> QED BY <3>7
  <2>4. CastsVote(L, K, y, c)
    BY <1>6, <2>1, <2>3 DEF CastsVote, SetAt
  <2> QED BY <1>3, <1>8, <2>4
<1> QED BY <1>7, <1>8

\* The last entry of a ledger.
LEMMA EntryAdded ==
  ASSUME NEW N, NEW L, NEW K, Sound(N, K), NEW c \in Shard, NEW seq, GrowsBy(L, K, c, seq),
         NEW e, NewEntry(L, K, c, e)
  PROVE  /\ Len(L[c]) \in Nat /\ Len(K[c]) = Len(L[c]) + 1 /\ e = K[c][Len(L[c]) + 1]
         /\ \A j \in 1..Len(L[c]) : K[c][j] = L[c][j]
         /\ e.block.chain = c /\ e.block.height = Len(L[c]) + 1
         /\ BlockOK(N, K, e.block) /\ OkFor(e.block, e.ok) /\ e.ok \in BOOLEAN
<1> DEFINE l == Len(L[c]) + 1
<1>1. /\ Len(L[c]) \in Nat /\ Len(K[c]) = Len(L[c]) + 1 /\ e = K[c][l]
      /\ \A j \in 1..Len(L[c]) : K[c][j] = L[c][j]
  BY DEF NewEntry, GrowsBy, Extends
<1>2. l \in 1..Len(K[c])
  BY <1>1
<1> HIDE DEF l
<1>3. EntryOK(N, c, l, e) /\ e.block.chain = c /\ e.block.height = l /\ BlockOK(N, K, e.block)
  BY <1>1, <1>2, LedgerBlocks
<1>4. OkFor(e.block, e.ok)
  BY <1>3, Zenon DEF EntryOK
<1>5. e.ok \in BOOLEAN
  BY <1>4, Zenon DEF OkFor
<1> QED BY <1>1, <1>3, <1>4, <1>5 DEF l

\* A decision comes when all shards have voted, and follows the votes.
LEMMA DecideSeen ==
  ASSUME NEW M, NEW N, NEW L, NEW K, Sound(M, L), Sound(N, K),
         NEW c \in Shard, NEW seq, GrowsBy(L, K, c, seq), NEW e, NewEntry(L, K, c, e),
         e.block.type = "BCommit", NoneIsNil
  PROVE  Stutters(L, K) \/ \E x \in CrossBlock : Decides(L, K, x)
<1> DEFINE y == e.block.hash
<1>1. /\ Len(L[c]) \in Nat /\ Len(K[c]) = Len(L[c]) + 1 /\ e = K[c][Len(L[c]) + 1]
      /\ \A j \in 1..Len(L[c]) : K[c][j] = L[c][j]
      /\ e.block.chain = c /\ BlockOK(N, K, e.block) /\ OkFor(e.block, e.ok) /\ e.ok \in BOOLEAN
  BY EntryAdded
<1>2. /\ y # None
      /\ \A sig \in e.block.accepts : AnswerOK(N, K, c, y, sig)
      /\ \A d \in Related[c] : \E sig \in e.block.accepts : sig.chain = d
      /\ y[1] = c
      /\ e.ok = (\A sig \in e.block.accepts : sig.ok)
  <2>1. AcceptSetOK(N, K, e.block)
    BY <1>1 DEF BlockOK
  <2>2. y[1] = c
    <3>1. OpenAfter(K, c, e.block.height - 1, y) /\ y # None
      BY <1>1, <2>1 DEF AcceptSetOK
    <3>2. \E j : y = <<c, j>>
      BY <3>1, Zenon DEF OpenAfter
    <3> QED BY <3>2
  <2>3. e.ok = (\A sig \in e.block.accepts : sig.ok)
    BY <1>1, Zenon DEF OkFor
  <2> QED BY <1>1, <2>1, <2>2, <2>3 DEF AcceptSetOK
<1> HIDE DEF y
<1>3. Decided(K, y, e.ok) /\ \A ok : ~Decided(L, y, ok)
  <2>1. Decided(K, y, e.ok)
    <3>1. Len(L[c]) + 1 \in 1..Len(K[y[1]]) /\ K[y[1]][Len(L[c]) + 1] = e
      BY <1>1, <1>2
    <3> QED BY <3>1, Zenon DEF Decided, y
  <2>2. ASSUME NEW ok, Decided(L, y, ok) PROVE FALSE
    <3>1. PICK j \in 1..Len(L[c]) : L[c][j].block.type = "BCommit" /\ L[c][j].block.hash = y
      BY <1>2, <2>2 DEF Decided
    <3>2. j \in 1..Len(K[c]) /\ j # Len(L[c]) + 1 /\ K[c][j] = L[c][j]
      BY <1>1
    <3>3. Len(L[c]) + 1 \in 1..Len(K[c])
      BY <1>1
    <3> QED BY <1>1, <3>1, <3>2, <3>3, DecidedOnce DEF y
  <2> QED BY <2>1, <2>2
<1>4. ASSUME NEW x \in CrossBlock, NEW ok
      PROVE  /\ x # y => (Decided(K, x, ok) <=> Decided(L, x, ok))
             /\ \A i \in Related[x[1]] : /\ Applied(K, i, x, ok) <=> Applied(L, i, x, ok)
                                         /\ Answered(K, i, x, ok) <=> Answered(L, i, x, ok)
  <2>1. ~IsAnswer(e, x, ok) /\ ~Executes(e, x, ok) /\ (x # y => ~IsDecision(e, x, ok))
    BY DEF IsDecision, IsAnswer, Executes, y
  <2> QED BY <2>1, CrossBlocks, CodesAdded
<1>5. VoteIn(K) = VoteIn(L) /\ AppliedIn(K) = AppliedIn(L)
  BY <1>4, SameNames
<1>6. CASE y \notin CrossBlock
  <2>1. DecisionIn(K) = DecisionIn(L)
    BY <1>4, <1>6, SameNames
  <2> QED BY <1>5, <2>1 DEF Stutters
<1>7. CASE y \in CrossBlock
  <2>1. /\ DecisionIn(L)[y] = "none"
        /\ DecisionIn(K)[y] = IF e.ok THEN "commit" ELSE "abort"
    BY <1>3, <1>7, DecisionNames
  <2>2. ASSUME NEW i \in Related[c]
        PROVE  \E ok \in BOOLEAN : /\ Answered(L, i, y, ok)
                                   /\ VoteIn(L)[y][i] = IF ok THEN "yes" ELSE "no"
    <3>1. PICK sig \in e.block.accepts : sig.chain = i
      BY <1>2
    <3>2. Answered(K, i, y, sig.ok)
      BY <1>2, <3>1 DEF AnswerOK
    <3>3. Answered(L, i, y, sig.ok)
      BY <1>2, <1>4, <1>7, <3>2
    <3>4. i \in Shard
      BY Neighbours
    <3>5. sig.ok \in BOOLEAN
      BY <3>3, <3>4, CodeOnce
    <3> QED BY <1>2, <1>7, <3>3, <3>5, Names
  <2>3. ASSUME NEW sig \in e.block.accepts
        PROVE  /\ sig.chain \in Related[c] /\ sig.chain \in Shard
               /\ Answered(L, sig.chain, y, sig.ok)
    <3>1. sig.chain \in Related[c] /\ Answered(K, sig.chain, y, sig.ok)
      BY <1>2 DEF AnswerOK
    <3> QED BY <1>2, <1>4, <1>7, <3>1, Neighbours
  <2>4. e.ok <=> \A i \in Related[c] : VoteIn(L)[y][i] = "yes"
    <3>1. ASSUME e.ok, NEW i \in Related[c] PROVE VoteIn(L)[y][i] = "yes"
      <4>1. PICK sig \in e.block.accepts : sig.chain = i
        BY <1>2
      <4>2. sig.ok /\ Answered(L, i, y, sig.ok)
        BY <1>2, <2>3, <3>1, <4>1
      <4> QED BY <1>2, <1>7, <4>2, Names
    <3>2. ASSUME \A i \in Related[c] : VoteIn(L)[y][i] = "yes", NEW sig \in e.block.accepts PROVE sig.ok
      <4>1. sig.chain \in Related[y[1]] /\ Answered(L, sig.chain, y, sig.ok)
        BY <1>2, <2>3
      <4>2. VoteIn(L)[y][sig.chain] = IF sig.ok THEN "yes" ELSE "no"
        BY <1>7, <4>1, Names
      <4> QED BY <1>2, <3>2, <4>1, <4>2
    <3> QED BY <1>2, <3>1, <3>2
  <2>5. DecisionIn(K) = [DecisionIn(L) EXCEPT ![y] =
                           IF \A i \in Related[y[1]] : VoteIn(L)[y][i] = "yes" THEN "commit" ELSE "abort"]
    <3> DEFINE v == IF \A i \in Related[y[1]] : VoteIn(L)[y][i] = "yes" THEN "commit" ELSE "abort"
    <3>1. DecisionIn(K)[y] = v
      BY <1>2, <2>1, <2>4
    <3>2. \A x \in CrossBlock : x # y => DecisionsOf(K, x) = DecisionsOf(L, x)
      BY <1>4 DEF DecisionsOf
    <3>3. \A x \in CrossBlock : x # y => DecisionIn(K)[x] = DecisionIn(L)[x]
      BY <3>2 DEF DecisionIn
    <3>4. /\ DecisionIn(K) = [x \in CrossBlock |-> DecisionIn(K)[x]]
          /\ DecisionIn(L) = [x \in CrossBlock |-> DecisionIn(L)[x]]
      BY DEF DecisionIn
    <3> HIDE DEF v
    <3>5. DecisionIn(K) = [DecisionIn(L) EXCEPT ![y] = v]
      BY <1>7, <3>1, <3>3, <3>4
    <3> QED BY <3>5 DEF v
  <2>6. \A i \in Related[y[1]] : VoteIn(L)[y][i] # "none"
    BY <1>2, <2>2
  <2>7. Decides(L, K, y)
    BY <1>5, <2>1, <2>5, <2>6 DEF Decides
  <2> QED BY <1>7, <2>7
<1> QED BY <1>6, <1>7

\* A block of decisions executes what was decided, each for the first time.
LEMMA CommitSeen ==
  ASSUME NEW M, NEW N, NEW L, NEW K, Sound(M, L), Sound(N, K),
         NEW c \in Shard, NEW seq, GrowsBy(L, K, c, seq), NEW e, NewEntry(L, K, c, e),
         e.block.type = "ICommit"
  PROVE  \/ Stutters(L, K)
         \/ \E xs \in SUBSET CrossBlock : Applies(L, K, c, xs) /\ xs # {}
<1> DEFINE Dealt(x) == \E k \in DOMAIN e.block.commits : e.block.commits[k].hash = x
           xs == {x \in CrossBlock : Dealt(x)}
<1>1. /\ Len(L[c]) \in Nat /\ Len(K[c]) = Len(L[c]) + 1 /\ e = K[c][Len(L[c]) + 1]
      /\ \A j \in 1..Len(L[c]) : K[c][j] = L[c][j]
      /\ e.block.chain = c /\ BlockOK(N, K, e.block)
  BY EntryAdded
<1>2. /\ c \in IShards
      /\ \A k \in DOMAIN e.block.commits : DecisionOK(N, K, c, e.block.commits[k])
  <2>1. c \in IShards
    BY <1>1 DEF BlockOK
  <2> QED BY <1>1, <2>1 DEF BlockOK
<1>3. ASSUME NEW x \in CrossBlock, NEW ok
      PROVE  /\ Decided(K, x, ok) <=> Decided(L, x, ok)
             /\ \A i \in Related[x[1]] :
                  /\ Answered(K, i, x, ok) <=> Answered(L, i, x, ok)
                  /\ Applied(K, i, x, ok) <=> Applied(L, i, x, ok) \/ (i = c /\ Executes(e, x, ok))
  <2>1. ~IsAnswer(e, x, ok) /\ ~IsDecision(e, x, ok)
    BY DEF IsDecision, IsAnswer
  <2>2. x[1] \in Shard /\ Related[x[1]] \subseteq Shard
    BY CrossBlocks
  <2>3. Decided(K, x, ok) <=> Decided(L, x, ok)
    BY <2>1, <2>2, CodesAdded
  <2>4. ASSUME NEW i \in Related[x[1]]
        PROVE  /\ Answered(K, i, x, ok) <=> Answered(L, i, x, ok)
               /\ Applied(K, i, x, ok) <=> Applied(L, i, x, ok) \/ (i = c /\ Executes(e, x, ok))
    <3>1. i \in Shard
      BY <2>2
    <3> QED BY <2>1, <3>1, CodesAdded
  <2> QED BY <2>3, <2>4
<1>4. VoteIn(K) = VoteIn(L) /\ DecisionIn(K) = DecisionIn(L)
  BY <1>3, SameNames
<1>5. ASSUME NEW x \in CrossBlock, Dealt(x)
      PROVE  /\ c \in Related[x[1]]
             /\ AppliedIn(L)[x][c] = "none"
             /\ \E ok \in BOOLEAN : /\ DecisionIn(L)[x] = IF ok THEN "commit" ELSE "abort"
                                    /\ AppliedIn(K)[x][c] = IF ok THEN "commit" ELSE "abort"
  <2>1. PICK k \in DOMAIN e.block.commits : e.block.commits[k].hash = x
    BY <1>5
  <2> DEFINE ok == e.block.commits[k].sig.ok
  <2>2. DecisionOK(N, K, c, e.block.commits[k])
    BY <1>2
  <2>3. x[1] \in Related[c] /\ Decided(K, x, ok)
    BY <2>1, <2>2 DEF DecisionOK
  <2>4. c \in Related[x[1]] /\ x[1] \in Shard
    BY <2>3, Neighbours
  <2>5. Executes(e, x, ok)
    BY <2>1 DEF Executes
  <2> HIDE DEF ok
  <2>6. Applied(K, c, x, ok) /\ Decided(L, x, ok)
    BY <1>3, <2>3, <2>4, <2>5
  <2>7. ASSUME NEW no, Applied(L, c, x, no) PROVE FALSE
    <3>1. PICK j \in 1..Len(L[c]) : /\ L[c][j].block.type = "ICommit"
                                    /\ \E l \in DOMAIN L[c][j].block.commits : L[c][j].block.commits[l].hash = x
      BY <2>7 DEF Applied
    <3>2. PICK l \in DOMAIN L[c][j].block.commits : L[c][j].block.commits[l].hash = x
      BY <3>1
    <3>3. j \in 1..Len(K[c]) /\ j # Len(L[c]) + 1 /\ K[c][j] = L[c][j] /\ Len(L[c]) + 1 \in 1..Len(K[c])
      BY <1>1
    <3>4. /\ K[c][j].block.type = "ICommit" /\ K[c][Len(L[c]) + 1].block.type = "ICommit"
          /\ l \in DOMAIN K[c][j].block.commits /\ k \in DOMAIN K[c][Len(L[c]) + 1].block.commits
          /\ K[c][j].block.commits[l].hash = K[c][Len(L[c]) + 1].block.commits[k].hash
      BY <1>1, <2>1, <3>1, <3>2, <3>3
    <3> QED BY <3>3, <3>4, AppliedOnce
  <2>8. ok \in BOOLEAN
    BY <2>4, <2>6, CodeOnce
  <2>9. AppliedIn(L)[x][c] = "none"
    BY <2>4, <2>7, Names
  <2>10. AppliedIn(K)[x][c] = IF ok THEN "commit" ELSE "abort"
    BY <2>4, <2>6, Names
  <2>11. DecisionIn(L)[x] = IF ok THEN "commit" ELSE "abort"
    BY <2>6, DecisionNames
  <2> QED BY <2>4, <2>8, <2>9, <2>10, <2>11
<1>6. ASSUME NEW x \in CrossBlock, NEW i \in Related[x[1]], ~(x \in xs /\ i = c)
      PROVE  AppliedIn(K)[x][i] = AppliedIn(L)[x][i]
  <2>1. \A ok : ~(i = c /\ Executes(e, x, ok))
    BY <1>6 DEF Executes
  <2>2. AppliedOf(K, x, i) = AppliedOf(L, x, i)
    BY <1>3, <2>1 DEF AppliedOf
  <2> QED BY <2>2, Names
<1> HIDE DEF Dealt
<1>7. CASE xs = {}
  <2>1. \A x \in CrossBlock : \A i \in Related[x[1]] : AppliedIn(K)[x][i] = AppliedIn(L)[x][i]
    BY <1>6, <1>7
  <2>2. IsGrid(AppliedIn(K)) /\ IsGrid(AppliedIn(L))
    BY DEF IsGrid, AppliedIn
  <2>3. AppliedIn(K) = AppliedIn(L)
    BY <2>1, <2>2, Zenon DEF IsGrid
  <2> QED BY <1>4, <2>3 DEF Stutters
<1>8. CASE xs # {}
  <2>1. \A x \in xs : c \in Related[x[1]] /\ AppliedIn(L)[x][c] = "none" /\ DecisionIn(L)[x] # "none"
    BY <1>5
  <2>2. ASSUME NEW x \in CrossBlock, NEW i \in Related[x[1]]
        PROVE  AppliedIn(K)[x][i] = IF x \in xs /\ i = c THEN DecisionIn(L)[x] ELSE AppliedIn(L)[x][i]
    <3>1. CASE x \in xs /\ i = c
      <4>1. AppliedIn(K)[x][c] = DecisionIn(L)[x]
        BY <1>5, <3>1
      <4> QED BY <3>1, <4>1
    <3>2. CASE ~(x \in xs /\ i = c)
      BY <1>6, <3>2
    <3> QED BY <3>1, <3>2
  <2>3. AppliedIn(K) = [x \in CrossBlock |-> [i \in Related[x[1]] |-> AppliedIn(K)[x][i]]]
    BY DEF AppliedIn
  <2> HIDE DEF xs
  <2>4. AppliedIn(K) = [x \in CrossBlock |-> [j \in Related[x[1]] |->
                          IF x \in xs /\ j = c THEN DecisionIn(L)[x] ELSE AppliedIn(L)[x][j]]]
    BY <2>2, <2>3, Zenon
  <2>5. Applies(L, K, c, xs)
    BY <1>4, <2>1, <2>4 DEF Applies
  <2>6. xs \subseteq CrossBlock
    BY DEF xs
  <2> QED BY <1>8, <2>5, <2>6
<1> QED BY <1>7, <1>8

\* An entry that a ledger grows by is a step of AtomicCommit.
LEMMA LedgersRefine ==
  ASSUME NoneIsNil, NEW M, NEW N, NEW L, NEW K, Sound(M, L), Sound(N, K),
         NEW c \in Shard, NEW seq, GrowsBy(L, K, c, seq)
  PROVE  \/ Stutters(L, K)
         \/ \E x \in CrossBlock : \E i \in Related[x[1]] : CastsVote(L, K, x, i)
         \/ \E x \in CrossBlock : Decides(L, K, x)
         \/ \E xs \in SUBSET CrossBlock : Applies(L, K, c, xs) /\ xs # {}
<1>1. CASE K[c] = L[c]
  <2>1. \A d \in Shard : K[d] = L[d]
    BY <1>1 DEF GrowsBy
  <2> QED BY <2>1, NoEntrySeen
<1>2. CASE K[c] # L[c]
  <2> DEFINE e == K[c][Len(L[c]) + 1]
  <2>1. NewEntry(L, K, c, e)
    BY <1>2 DEF GrowsBy, NewEntry
  <2> HIDE DEF e
  <2>2. CASE e.block.type = "IAccept"
    BY <2>1, <2>2, AcceptSeen
  <2>3. CASE e.block.type = "BCommit"
    BY <2>1, <2>3, DecideSeen
  <2>4. CASE e.block.type = "ICommit"
    BY <2>1, <2>4, CommitSeen
  <2>5. CASE e.block.type \notin {"IAccept", "BCommit", "ICommit"}
    BY <2>1, <2>5, OtherSeen
  <2> QED BY <2>2, <2>3, <2>4, <2>5
<1> QED BY <1>1, <1>2

\* Init implements that of AtomicCommit.
LEMMA InitRefines ==
  ASSUME NoneIsNil, Init
  PROVE  Commitment!Init
<1> DEFINE L == [c \in Shard |-> <<>>]
<1>1. Inv(L)
  BY InitHolds
<1>2. VoteNow = VoteIn(L) /\ DecisionNow = DecisionIn(L) /\ AppliedNow = AppliedIn(L)
  BY <1>1, SeenNow
<1>3. ASSUME NEW x \in CrossBlock
      PROVE  /\ NameOf(DecisionsOf(L, x), "commit", "abort") = "none"
             /\ \A i \in Related[x[1]] : /\ NameOf(AnswersOf(L, x, i), "yes", "no") = "none"
                                         /\ NameOf(AppliedOf(L, x, i), "commit", "abort") = "none"
  <2>1. \A c \in Shard : 1..Len(L[c]) = {}
    OBVIOUS
  <2> HIDE DEF L
  <2>2. DecisionsOf(L, x) = {} /\ \A i \in Related[x[1]] : AnswersOf(L, x, i) = {} /\ AppliedOf(L, x, i) = {}
    BY <2>1, CrossBlocks DEF DecisionsOf, AnswersOf, AppliedOf, Decided, Answered, Applied
  <2> QED BY <2>2, NotNamed
<1> HIDE DEF L
<1>4. /\ VoteNow = [x \in CrossBlock |-> [i \in Related[x[1]] |-> "none"]]
      /\ DecisionNow = [x \in CrossBlock |-> "none"]
      /\ AppliedNow = [x \in CrossBlock |-> [i \in Related[x[1]] |-> "none"]]
  BY <1>2, <1>3, Zenon DEF VoteIn, DecisionIn, AppliedIn
<1>5. [x \in CrossBlock |-> [i \in [y \in CrossBlock |-> Related[y[1]]][x] |-> "none"]]
      = [x \in CrossBlock |-> [i \in Related[x[1]] |-> "none"]]
  OBVIOUS
<1> QED BY <1>4, <1>5 DEF Commitment!Init, VoteNow, DecisionNow, AppliedNow

\* Every step implements one of AtomicCommit, or a stutter.
LEMMA NextRefines ==
  ASSUME NoneIsNil, IInv, [Next]_vars
  PROVE  [Commitment!Next]_(Commitment!vars)
<1> DEFINE P == [x \in CrossBlock |-> Related[x[1]]]
<1>1. PICK L : Inv(L)
  BY DEF IInv
<1>2. VoteNow = VoteIn(L) /\ DecisionNow = DecisionIn(L) /\ AppliedNow = AppliedIn(L)
  BY <1>1, SeenNow
<1>3. SUFFICES Commitment!Next \/ (VoteNow' = VoteNow /\ DecisionNow' = DecisionNow /\ AppliedNow' = AppliedNow)
  BY DEF Commitment!vars, VoteNow, DecisionNow, AppliedNow
<1>4. CASE Inv(L)'
  BY <1>2, <1>4, SeenThen
<1>5. CASE \E n \in Node : \E K : Moves(n, L, K)
  <2>1. PICK n \in Node : \E K, seq : Inv(K)' /\ GrowsBy(L, K, ChainOf(n), seq)
    BY <1>5 DEF Moves, Moved
  <2>2. PICK K, seq : Inv(K)' /\ GrowsBy(L, K, ChainOf(n), seq)
    BY <2>1
  <2>3. VoteNow' = VoteIn(K) /\ DecisionNow' = DecisionIn(K) /\ AppliedNow' = AppliedIn(K)
    BY <2>2, SeenThen
  <2> DEFINE c == ChainOf(n)
  <2>4. c \in Shard /\ Sound(msgs, L) /\ Sound(msgs', K)
    BY <1>1, <2>2, Nodes DEF Inv
  <2>5. CASE Stutters(L, K)
    BY <1>2, <2>3, <2>5 DEF Stutters
  <2>6. CASE \E x \in CrossBlock : \E i \in Related[x[1]] : CastsVote(L, K, x, i)
    <3>1. PICK x \in CrossBlock : \E i \in Related[x[1]] : CastsVote(L, K, x, i)
      BY <2>6
    <3>2. PICK i \in Related[x[1]] : CastsVote(L, K, x, i)
      BY <3>1
    <3>3. Commitment!CastVote(x, i)
      BY <1>2, <2>3, <3>2 DEF Commitment!CastVote, CastsVote, VoteNow, DecisionNow, AppliedNow
    <3> QED BY <3>2, <3>3 DEF Commitment!Next
  <2>7. CASE \E x \in CrossBlock : Decides(L, K, x)
    <3>1. PICK x \in CrossBlock : Decides(L, K, x)
      BY <2>7
    <3>2. Commitment!Decide(x)
      BY <1>2, <2>3, <3>1 DEF Commitment!Decide, Decides, VoteNow, DecisionNow, AppliedNow
    <3> QED BY <3>1, <3>2 DEF Commitment!Next
  <2>8. CASE \E xs \in SUBSET CrossBlock : Applies(L, K, c, xs) /\ xs # {}
    <3>1. PICK xs \in SUBSET CrossBlock : Applies(L, K, c, xs) /\ xs # {}
      BY <2>8
    <3>2. Commitment!Apply(c, xs)
      BY <1>2, <2>3, <3>1 DEF Commitment!Apply, Applies, VoteNow, DecisionNow, AppliedNow
    <3>3. c \in Commitment!Shards
      BY <3>1 DEF Applies, Commitment!Shards
    <3> QED BY <3>1, <3>2, <3>3 DEF Commitment!Next
  <2> QED BY <2>2, <2>4, <2>5, <2>6, <2>7, <2>8, LedgersRefine
<1> QED BY <1>1, <1>4, <1>5, NextHolds

(* Atomic commitment: the four blocks of Pyramid implement AtomicCommit,   *)
(* with any number of cross-shard blocks under way, with nodes at different*)
(* heights and with messages late, out of order, more than once or never   *)
(* (createIBlockTxs, createBBlockTxs, processIBlock, processBBlock).       *)
THEOREM Refinement ==
  NoneIsNil /\ Spec => ImplementsAtomicCommit
<1> SUFFICES ASSUME NoneIsNil PROVE Spec => ImplementsAtomicCommit
  OBVIOUS
<1>1. Init => Commitment!Init
  BY InitRefines
<1>2. IInv /\ [Next]_vars => [Commitment!Next]_(Commitment!vars)
  BY NextRefines
<1>3. Spec => []IInv
  BY Invariance
<1> QED BY <1>1, <1>2, <1>3, PTL DEF Spec, ImplementsAtomicCommit, Commitment!Spec

Promise == INSTANCE AtomicCommitProofs WITH
  Block <- CrossBlock,
  Parties <- [x \in CrossBlock |-> Related[x[1]]],
  vote <- [x \in CrossBlock |-> [i \in Related[x[1]] |-> VoteOf(x, i)]],
  decision <- [x \in CrossBlock |-> DecisionOf(x)],
  applied <- [x \in CrossBlock |-> [i \in Related[x[1]] |-> AppliedBy(x, i)]]

(* All or nothing: the I-shards of a cross-shard block execute the same    *)
(* decision, and commit only what all of them have accepted.               *)
THEOREM PyramidAllOrNothing ==
  NoneIsNil /\ Spec => []Promise!AllOrNothing
<1>1. Promise!Spec => []Promise!AllOrNothing
  BY Promise!Atomicity
<1>2. Commitment!Spec => Promise!Spec
  <2>1. Commitment!Init => Promise!Init
    BY DEF Commitment!Init, Promise!Init
  <2>2. [Commitment!Next]_(Commitment!vars) => [Promise!Next]_(Promise!vars)
    BY DEF Commitment!Next, Promise!Next, Commitment!vars, Promise!vars,
       Commitment!CastVote, Promise!CastVote, Commitment!Decide, Promise!Decide,
       Commitment!Apply, Promise!Apply, Commitment!Shards, Promise!Shards
  <2> QED BY <2>1, <2>2, PTL DEF Commitment!Spec, Promise!Spec
<1> QED BY <1>1, <1>2, Refinement, PTL DEF ImplementsAtomicCommit
=============================================================================
