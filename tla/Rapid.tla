------------------------------- MODULE Rapid -------------------------------
(***************************************************************************)
(* The Rapid baseline (rapid/), seen from its shards.  Rapid commits       *)
(* cross-shard blocks with the four blocks of Pyramid, B-shards without    *)
(* accounts of their own.  Module Pyramid has the nodes, votes and values; *)
(* here a shard agrees on a block in one step, and the heights have no     *)
(* bound, so that what must happen in the end can be stated:               *)
(*   - a shard makes a block from the pools of its proposer, executes it,  *)
(*     and waits (step "Commit") for its neighbours;                       *)
(*   - a B-shard goes on when it has executed the blocks of its I-shards   *)
(*     on its copy of their accounts, an I-shard when its B-shards went on;*)
(*   - messages between shards arrive at any time.                         *)
(* A message that arrives again changes nothing, as its answer, decision   *)
(* or block is there: what is on the way is read off from what its sender  *)
(* has done and its receiver has not.                                      *)
(*                                                                         *)
(* A transaction is the set of accounts it reads and writes.  Whether the  *)
(* balances cover it is a choice made with the block (FillData).  A lock   *)
(* keeps the block it was set for instead of the value to be written.      *)
(***************************************************************************)
EXTENDS Integers, Sequences, FiniteSetsExt, SequencesExt

CONSTANTS
  IShards, BShards,  \* chain ids
  Related,           \* Related[c]: RelatedShards of chain c
  KeyRange,          \* KeyRange[i]: the accounts of I-shard i
  CrossTxs,          \* CrossTxs[b]: the cross-shard mempool of B-shard b at first
  MaxBlockTxNum,
  None

Shard == IShards \cup BShards

ASSUME TopologyAssumption ==
  /\ IShards \cap BShards = {}
  /\ \A c \in Shard : Related[c] # {} /\ Related[c] \subseteq (IF c \in IShards THEN BShards ELSE IShards)
  /\ \A c, d \in Shard : c \in Related[d] <=> d \in Related[c]
  /\ \A i, j \in IShards : i # j => KeyRange[i] \cap KeyRange[j] = {}

\* ValidateTx: a B-shard takes transactions on the accounts of its I-shards.
ValidateTx(b, tx) == tx \subseteq UNION {KeyRange[i] : i \in Related[b]}

ASSUME MempoolAssumption ==
  /\ MaxBlockTxNum \in Nat \ {0}
  /\ \A b \in BShards : \A tx \in ToSet(CrossTxs[b]) : ValidateTx(b, tx)

\* The cross-shard blocks: <<b, k>> is the k-th one of B-shard b.
CrossBlock == UNION {{b} \X (1..Len(CrossTxs[b])) : b \in BShards}
ChainOf(x) == x[1]

VARIABLES
  height,      \* height[c]: heights relative to the lowest of them
  step,        \* step[c]: "Propose" or "Commit"
  mempool,     \* mempool[b]: cross_shard_mempool
  pending,     \* pending[b]: pendingCrossShardBlockHash, None if maCount is -1
  maPool,      \* maPool[b]: the I-shards whose MessageAccept has arrived
  csbPool,     \* csbPool[i]: crossShardBlockPool
  commitPool,  \* commitPool[i]: the blocks whose MessageCommit has arrived
  locks,       \* locks[c]: LockedKeys of the application
  last,        \* last[i]: the last block of I-shard i
  synced,      \* synced[b]: the I-shards whose last block b has executed
  block,       \* block[x]: the transactions of x and which of them are good
  vote,        \* vote[x][i]: the answer of i in its block that accepts x
  decision,    \* decision[x]: what the block of b that commits x says
  applied      \* applied[x][i]: the decision that i has executed

pools == <<mempool, pending, maPool, csbPool, commitPool>>
ledgers == <<block, vote, decision, applied>>
vars == <<height, step, pools, locks, last, synced, ledgers>>
-----------------------------------------------------------------------------
(* The application.                                                        *)

KeysOf(x) == UNION ToSet(block[x].txs)
CheckLock(lk, tx) == tx \cap DOMAIN lk = {}

\* PreExecutionI: refused if an account of the block is locked.
PreExecutionI(lk, x) == KeysOf(x) \cap DOMAIN lk = {}

\* AcceptCrossShard in shard i, or in the copy of a B-shard: the accounts of
\* i are locked, except for transactions that meet a lock.
AcceptCrossShard(lk, x, i, ifcommit) ==
  LET run == {block[x].txs[j] : j \in {k \in block[x].good : CheckLock(lk, block[x].txs[k])}}
      writeSet == IF ifcommit THEN (UNION run) \cap KeyRange[i] ELSE {}
  IN  [k \in DOMAIN lk \cup writeSet |-> IF k \in DOMAIN lk THEN lk[k] ELSE x]

\* Faulty variant: only a commit takes the locks away.
AcceptCommitShardKeeps(lk, xs, i) ==
  LET keys == (UNION {KeysOf(x) : x \in {y \in xs : decision[y] = "commit"}}) \cap KeyRange[i]
  IN  [k \in DOMAIN lk \ keys |-> lk[k]]

\* AcceptCommitShard: releaseLock or undoLock of the accounts of the blocks.
AcceptCommitShard(lk, xs, i) ==
  LET keys == (UNION {KeysOf(x) : x \in xs}) \cap KeyRange[i]
  IN  [k \in DOMAIN lk \ keys |-> lk[k]]

\* ReapTx of the cross-shard mempool.
ReapTx(b) ==
  LET free == SelectSeq(mempool[b], LAMBDA tx : CheckLock(locks[b], tx))
  IN  SubSeq(free, 1, Min({MaxBlockTxNum, Len(free)}))
-----------------------------------------------------------------------------
(* Messages that arrive.                                                   *)

\* CrossShardBlock at an I-shard that has not stored the block.
ReceiveCrossShardBlock(i, x) ==
  /\ i \in Related[ChainOf(x)]
  /\ block[x] # None /\ vote[x][i] = "none" /\ x \notin csbPool[i]
  /\ csbPool' = [csbPool EXCEPT ![i] = @ \cup {x}]
  /\ UNCHANGED <<height, step, mempool, pending, maPool, commitPool, locks, last, synced, ledgers>>

\* MessageAccept for the block that is pending.
ReceiveMessageAccept(b, i) ==
  /\ i \in Related[b]
  /\ pending[b] # None /\ vote[pending[b]][i] # "none" /\ i \notin maPool[b]
  /\ maPool' = [maPool EXCEPT ![b] = @ \cup {i}]
  /\ UNCHANGED <<height, step, mempool, pending, csbPool, commitPool, locks, last, synced, ledgers>>

\* MessageCommit for a block that is not in committed.
ReceiveMessageCommit(i, x) ==
  /\ i \in Related[ChainOf(x)]
  /\ decision[x] # "none" /\ applied[x][i] = "none" /\ x \notin commitPool[i]
  /\ commitPool' = [commitPool EXCEPT ![i] = @ \cup {x}]
  /\ UNCHANGED <<height, step, mempool, pending, maPool, csbPool, locks, last, synced, ledgers>>

\* Faulty variant: decisions are not executed on the copy.
ExecuteIBlockCopy(lk, i) ==
  IF last[i].type = "IAccept" THEN AcceptCrossShard(lk, last[i].block, i, last[i].ok) ELSE lk

\* processIBlock on the copy that a B-shard has of the accounts of i.
ExecuteIBlock(lk, i) ==
  CASE last[i].type = "Inner" -> lk
    [] last[i].type = "IAccept" -> AcceptCrossShard(lk, last[i].block, i, last[i].ok)
    [] last[i].type = "ICommit" -> AcceptCommitShard(lk, last[i].blocks, i)

\* CrossShardBlock at a B-shard: the block of an I-shard is executed.
ReceiveIBlock(b, i) ==
  /\ i \in Related[b] \ synced[b]
  /\ locks' = [locks EXCEPT ![b] = ExecuteIBlock(@, i)]
  /\ synced' = [synced EXCEPT ![b] = @ \cup {i}]
  /\ UNCHANGED <<height, step, pools, last, ledgers>>
-----------------------------------------------------------------------------
(* Blocks: createIBlockTxs, createBBlockTxs and, once the shard has agreed,*)
(* processIBlock and processBBlock.                                        *)

\* The shard has executed its block; an I-shard sends it to its B-shards.
FinishIBlock(i, b) ==
  /\ step[i] = "Propose"
  /\ step' = [step EXCEPT ![i] = "Commit"]
  /\ last' = [last EXCEPT ![i] = b]
  /\ synced' = [d \in BShards |-> synced[d] \ {i}]
  /\ UNCHANGED <<height, mempool, pending, maPool, block, decision>>

FinishBBlock(b) ==
  /\ step[b] = "Propose"
  /\ step' = [step EXCEPT ![b] = "Commit"]
  /\ UNCHANGED <<height, csbPool, commitPool, locks, last, synced, vote, applied>>

\* IAccept: a cross-shard block is voted on before anything else is done.
AcceptBlock(i) ==
  \E x \in csbPool[i] :
    LET ok == PreExecutionI(locks[i], x) IN
    /\ FinishIBlock(i, [type |-> "IAccept", block |-> x, ok |-> ok])
    /\ vote' = [vote EXCEPT ![x][i] = IF ok THEN "yes" ELSE "no"]
    /\ locks' = [locks EXCEPT ![i] = AcceptCrossShard(@, x, i, ok)]
    /\ csbPool' = [csbPool EXCEPT ![i] = @ \ {x}]
    /\ UNCHANGED <<commitPool, applied>>

\* ICommit: all decisions that have arrived.
CommitBlock(i) ==
  /\ csbPool[i] = {} /\ commitPool[i] # {}
  /\ FinishIBlock(i, [type |-> "ICommit", blocks |-> commitPool[i]])
  /\ applied' = [x \in CrossBlock |-> [j \in Related[ChainOf(x)] |->
                   IF j = i /\ x \in commitPool[i] THEN decision[x] ELSE applied[x][j]]]
  /\ locks' = [locks EXCEPT ![i] = AcceptCommitShard(@, commitPool[i], i)]
  /\ commitPool' = [commitPool EXCEPT ![i] = {}]
  /\ UNCHANGED <<csbPool, vote>>

\* Inner: the transactions of the shard itself touch no locked account.
InnerBlock(i) ==
  /\ csbPool[i] = {} /\ commitPool[i] = {}
  /\ FinishIBlock(i, [type |-> "Inner"])
  /\ UNCHANGED <<csbPool, commitPool, locks, vote, applied>>

\* Cross: FillData runs the transactions, some of which may fail.
CrossShardBlock(b) ==
  /\ pending[b] = None /\ ReapTx(b) # <<>>
  /\ FinishBBlock(b)
  /\ LET x == <<b, 1 + Cardinality({y \in CrossBlock : ChainOf(y) = b /\ block[y] # None})>> IN
     /\ x \in CrossBlock
     /\ \E good \in SUBSET DOMAIN ReapTx(b) : block' = [block EXCEPT ![x] = [txs |-> ReapTx(b), good |-> good]]
     /\ pending' = [pending EXCEPT ![b] = x]
  /\ maPool' = [maPool EXCEPT ![b] = {}]
  /\ UNCHANGED <<mempool, decision>>

\* The code of the prevotes on a BCommit block, and so of the precommits.
\* (Faulty variant first: one answer is enough.)
PrevoteOKAny(x) == \E i \in Related[ChainOf(x)] : vote[x][i] = "yes"
PrevoteOK(x) == \A i \in Related[ChainOf(x)] : vote[x][i] = "yes"

\* Faulty variant of UpdateMempool: only a commit removes transactions.
UpdateMempoolCommitted(pool, x) ==
  IF PrevoteOK(x) THEN SelectSeq(pool, LAMBDA tx : tx \notin ToSet(block[x].txs)) ELSE pool

\* The transactions leave the mempool with either decision.
UpdateMempool(pool, x) == SelectSeq(pool, LAMBDA tx : tx \notin ToSet(block[x].txs))

\* BCommit: all answers have arrived.
DecideBlock(b) ==
  /\ pending[b] # None /\ maPool[b] = Related[b]
  /\ FinishBBlock(b)
  /\ decision' = [decision EXCEPT ![pending[b]] = IF PrevoteOK(pending[b]) THEN "commit" ELSE "abort"]
  /\ mempool' = [mempool EXCEPT ![b] = UpdateMempool(@, pending[b])]
  /\ pending' = [pending EXCEPT ![b] = None]
  /\ maPool' = [maPool EXCEPT ![b] = {}]
  /\ UNCHANGED block

\* Inner, without transactions.
EmptyBlock(b) ==
  /\ pending[b] = None => ReapTx(b) = <<>>
  /\ pending[b] # None => maPool[b] # Related[b]
  /\ FinishBBlock(b)
  /\ UNCHANGED <<mempool, pending, maPool, block, decision>>
-----------------------------------------------------------------------------
(* The next height.                                                        *)

\* The height of the last block of an I-shard.
LastHeight(i) == IF step[i] = "Commit" THEN height[i] ELSE height[i] - 1

\* doCommit: b has left the height of i, and its proposer has sent MessageOK.
MessageOK(b, i) == height[b] > height[i]

\* Faulty variant: one of the neighbours is enough.
CanCommitAny(c) ==
  IF c \in IShards THEN \E b \in Related[c] : MessageOK(b, c)
  ELSE \E i \in Related[c] : i \in synced[c] /\ LastHeight(i) >= height[c]

\* Faulty variant: a B-shard waits for a block beyond its height.
CanCommitBeyond(c) ==
  IF c \in IShards THEN \A b \in Related[c] : MessageOK(b, c)
  ELSE \A i \in Related[c] : i \in synced[c] /\ LastHeight(i) > height[c]

\* bcount is 0: the MessageOK of each B-shard has come; or shardHeight is the
\* height, for each I-shard.
CanCommit(c) ==
  IF c \in IShards THEN \A b \in Related[c] : MessageOK(b, c)
  ELSE \A i \in Related[c] : i \in synced[c] /\ LastHeight(i) >= height[c]

\* enterNewHeight.  Only differences of heights are compared:
\* they are moved so that the lowest is 0.
EnterNewHeight(c) ==
  /\ step[c] = "Commit" /\ CanCommit(c)
  /\ step' = [step EXCEPT ![c] = "Propose"]
  /\ LET next == [height EXCEPT ![c] = @ + 1]
         low  == Min({next[d] : d \in Shard})
     IN  height' = [d \in Shard |-> next[d] - low]
  /\ UNCHANGED <<pools, locks, last, synced, ledgers>>
-----------------------------------------------------------------------------
Init ==
  /\ height = [c \in Shard |-> 0]
  /\ step = [c \in Shard |-> "Propose"]
  /\ mempool = CrossTxs
  /\ pending = [b \in BShards |-> None]
  /\ maPool = [b \in BShards |-> {}]
  /\ csbPool = [i \in IShards |-> {}]
  /\ commitPool = [i \in IShards |-> {}]
  /\ locks = [c \in Shard |-> <<>>]
  /\ last = [i \in IShards |-> [type |-> "Inner"]]
  /\ synced = [b \in BShards |-> Related[b]]
  /\ block = [x \in CrossBlock |-> None]
  /\ vote = [x \in CrossBlock |-> [i \in Related[ChainOf(x)] |-> "none"]]
  /\ decision = [x \in CrossBlock |-> "none"]
  /\ applied = [x \in CrossBlock |-> [i \in Related[ChainOf(x)] |-> "none"]]

MakeBlock(c) ==
  IF c \in IShards THEN AcceptBlock(c) \/ CommitBlock(c) \/ InnerBlock(c)
                   ELSE CrossShardBlock(c) \/ DecideBlock(c) \/ EmptyBlock(c)

Next ==
  \/ \E i \in IShards : \E x \in CrossBlock : ReceiveCrossShardBlock(i, x) \/ ReceiveMessageCommit(i, x)
  \/ \E b \in BShards : \E i \in IShards : ReceiveMessageAccept(b, i) \/ ReceiveIBlock(b, i)
  \/ \E c \in Shard : MakeBlock(c) \/ EnterNewHeight(c)

\* Every message arrives, a shard whose validators are all up agrees on its
\* block, and a handler that is called goes on to the next height.
Fairness ==
  /\ \A i \in IShards : \A x \in CrossBlock :
       WF_vars(ReceiveCrossShardBlock(i, x)) /\ WF_vars(ReceiveMessageCommit(i, x))
  /\ \A b \in BShards : \A i \in IShards :
       WF_vars(ReceiveMessageAccept(b, i)) /\ WF_vars(ReceiveIBlock(b, i))
  /\ \A c \in Shard : WF_vars(MakeBlock(c)) /\ WF_vars(EnterNewHeight(c))

Safety == Init /\ [][Next]_vars
Spec == Safety /\ Fairness
-----------------------------------------------------------------------------
(* Properties.                                                             *)

TypeOK ==
  /\ height \in [Shard -> Nat]
  /\ step \in [Shard -> {"Propose", "Commit"}]
  /\ \A b \in BShards : /\ pending[b] \in CrossBlock \cup {None}
                        /\ maPool[b] \subseteq Related[b] /\ synced[b] \subseteq Related[b]
  /\ \A i \in IShards : csbPool[i] \cup commitPool[i] \subseteq CrossBlock
  /\ \A c \in Shard : \A k \in DOMAIN locks[c] : locks[c][k] \in CrossBlock
  /\ \A x \in CrossBlock :
       /\ vote[x] \in [Related[ChainOf(x)] -> {"none", "yes", "no"}]
       /\ decision[x] \in {"none", "commit", "abort"}
       /\ applied[x] \in [Related[ChainOf(x)] -> {"none", "commit", "abort"}]

\* Shards that are related stay together: a B-shard is at the height of its
\* I-shards, or one further and then they have their block; so that a shard
\* never needs more than the last block of another (doCommit, MessageOK).
NeighboursInLockStep ==
  \A b \in BShards : \A i \in Related[b] :
    \/ height[b] = height[i]
    \/ height[b] = height[i] + 1 /\ step[i] = "Commit"

\* An I-shard holds a lock only on an account of its own, for a block that it
\* has accepted and whose decision it has not yet executed.
LocksAreOwned ==
  /\ TypeOK
  /\ \A i \in IShards : \A k \in DOMAIN locks[i] :
       LET x == locks[i][k] IN
       k \in KeyRange[i] \cap KeysOf(x) /\ vote[x][i] = "yes" /\ applied[x][i] = "none"

\* Every cross-shard block is decided and the decision executed by all its
\* I-shards, although new cross-shard blocks go before decisions
\* (createIBlockTxs) and every shard waits for its neighbours at each height.
EveryBlockDecided ==
  \A x \in CrossBlock :
    block[x] # None ~> \A i \in Related[ChainOf(x)] : applied[x][i] # "none"

\* No account stays locked, in the I-shards and in the copies of the B-shards.
LocksReleased == \A c \in Shard : []<>(locks[c] = <<>>)

\* No transaction stays in a mempool: locks in the copy of a B-shard hold it
\* back only for a time (ReapTx, CheckLock).
EveryTransactionDecided == \A b \in BShards : <>(mempool[b] = <<>>)

Commitment == INSTANCE AtomicCommit WITH
  Block <- CrossBlock, Parties <- [x \in CrossBlock |-> Related[ChainOf(x)]]

\* The four blocks carry out atomic commitment, with any number of
\* cross-shard blocks under way and in any order of messages.
ImplementsAtomicCommit == Commitment!Spec
=============================================================================
