----------------------------- MODULE RapidProofs -----------------------------
(***************************************************************************)
(* Proofs for Rapid, for any shards and relations between them, accounts,  *)
(* transactions and size of blocks: the neighbours stay in lock step, the  *)
(* locks have an owner, and the four blocks carry out atomic commitment.   *)
(*                                                                         *)
(* Both need to know that a message is never acted upon twice: a pool      *)
(* holds a cross-shard block only while its answer or its decision is open.*)
(* The number of a new cross-shard block is fresh as the blocks of a       *)
(* B-shard are numbered without a gap.                                     *)
(***************************************************************************)
EXTENDS Rapid, FiniteSetTheorems, WellFoundedInduction, TLAPS

\* The blocks that B-shard b has made.
Made(b) == {y \in CrossBlock : ChainOf(y) = b /\ block[y] # None}

\* TypeOK with the domains of all functions.
WellTyped ==
  /\ height \in [Shard -> Nat]
  /\ step \in [Shard -> {"Propose", "Commit"}]
  /\ pending \in [BShards -> CrossBlock \cup {None}]
  /\ maPool \in [BShards -> SUBSET IShards] /\ synced \in [BShards -> SUBSET IShards]
  /\ \A b \in BShards : maPool[b] \subseteq Related[b] /\ synced[b] \subseteq Related[b]
  /\ csbPool \in [IShards -> SUBSET CrossBlock] /\ commitPool \in [IShards -> SUBSET CrossBlock]
  /\ locks = [c \in Shard |-> locks[c]]
  /\ last = [i \in IShards |-> last[i]]
  /\ \A i \in IShards :
       /\ last[i].type \in {"Inner", "IAccept", "ICommit"}
       /\ last[i].type = "IAccept" =>
            last[i].block \in CrossBlock /\ last[i].ok \in BOOLEAN
  /\ block = [x \in CrossBlock |-> block[x]]
  /\ vote = [x \in CrossBlock |-> vote[x]]
  /\ applied = [x \in CrossBlock |-> applied[x]]
  /\ decision \in [CrossBlock -> {"none", "commit", "abort"}]
  /\ \A x \in CrossBlock :
       /\ vote[x] \in [Related[ChainOf(x)] -> {"none", "yes", "no"}]
       /\ applied[x] \in [Related[ChainOf(x)] -> {"none", "commit", "abort"}]

\* A cross-shard block waits in a pool of i only while i has not answered,
\* and a decision only while i has not executed it.
PoolsAreOpen ==
  \A i \in IShards :
    /\ \A x \in csbPool[i] :
         i \in Related[ChainOf(x)] /\ block[x] # None /\ vote[x][i] = "none"
    /\ \A x \in commitPool[i] :
         i \in Related[ChainOf(x)] /\ decision[x] # "none" /\ applied[x][i] = "none"

\* The pending block of a B-shard is one of its own and undecided, and the
\* answers counted are answers to it.
PendingIsOpen ==
  \A b \in BShards : pending[b] # None =>
    /\ ChainOf(pending[b]) = b /\ decision[pending[b]] = "none"
    /\ \A i \in maPool[b] : vote[pending[b]][i] # "none"

\* The life of a cross-shard block: made, answered by all, decided, executed.
PhasesInOrder ==
  \A x \in CrossBlock :
    /\ decision[x] # "none" => block[x] # None
    /\ \A i \in Related[ChainOf(x)] :
         /\ vote[x][i] # "none" => block[x] # None
         /\ decision[x] # "none" => vote[x][i] # "none"
         /\ applied[x][i] # "none" => decision[x] # "none"

\* The transactions that FillData found good are transactions of the block.
GoodInBlock ==
  \A x \in CrossBlock : block[x] # None => block[x].good \subseteq DOMAIN block[x].txs

\* The blocks of a B-shard are numbered without a gap.
NumberedInOrder ==
  \A b \in BShards : \E n \in Nat : Made(b) = {<<b, j>> : j \in 1..n}

\* LocksAreOwned without TypeOK, and the copies lock for some block.
LocksHeld ==
  /\ \A c \in Shard : \A k \in DOMAIN locks[c] : locks[c][k] \in CrossBlock
  /\ \A i \in IShards : \A k \in DOMAIN locks[i] :
       /\ k \in KeyRange[i] /\ k \in KeysOf(locks[i][k])
       /\ i \in Related[ChainOf(locks[i][k])]
       /\ vote[locks[i][k]][i] = "yes" /\ applied[locks[i][k]][i] = "none"

IInv ==
  /\ WellTyped /\ PoolsAreOpen /\ PendingIsOpen /\ PhasesInOrder
  /\ GoodInBlock /\ NumberedInOrder /\ LocksHeld /\ NeighboursInLockStep
-----------------------------------------------------------------------------
(* The operators of the model.                                             *)

\* A set of natural numbers has a least element: Min in EnterNewHeight is
\* one of the heights.
LEMMA MinIsLeast ==
  ASSUME NEW S \in SUBSET Nat, S # {}
  PROVE  Min(S) \in S /\ \A y \in S : Min(S) <= y
<1>1. PICK x \in S : \A y \in S : ~ (<<y, x>> \in OpToRel(<, Nat))
  BY NatLessThanWellFounded, WFMin
<1>2. \A y \in S : ~ (y < x)
  BY <1>1, Zenon DEF OpToRel
<1>3. \A y \in S : x <= y
  BY <1>2
<1> QED BY <1>3 DEF Min

\* What the shards are.
LEMMA ShardFacts ==
  /\ Shard = IShards \cup BShards /\ IShards \cap BShards = {}
  /\ \A b \in BShards : Related[b] # {} /\ Related[b] \subseteq IShards
  /\ \A i \in IShards : Related[i] # {} /\ Related[i] \subseteq BShards
  /\ \A b \in BShards : \A i \in IShards : i \in Related[b] <=> b \in Related[i]
BY TopologyAssumption DEF Shard

LEMMA ChainFacts ==
  /\ \A x \in CrossBlock : ChainOf(x) \in BShards
  /\ \A b, n : ChainOf(<<b, n>>) = b
BY DEF CrossBlock, ChainOf

\* The first n blocks of a B-shard are n blocks.
LEMMA CountOfFirst ==
  ASSUME NEW b, NEW n \in Nat
  PROVE  Cardinality({<<b, j>> : j \in 1..n}) = n
<1> DEFINE S == {<<b, j>> : j \in 1..n}
           f == [j \in 1..n |-> <<b, j>>]
<1>1. f \in Bijection(1..n, S)
  BY DEF Bijection, Injection, Surjection, IsInjective
<1>2. IsFiniteSet(1..n) /\ Cardinality(1..n) = n
  BY FS_Interval
<1>3. ExistsBijection(1..n, S)
  BY <1>1 DEF ExistsBijection
<1> QED BY <1>2, <1>3, FS_Bijection

\* AcceptCrossShard keeps the locks it meets; the new ones are on accounts of
\* the shard that the block uses, and are set only if the shard said yes.
LEMMA AcceptCrossShardLocks ==
  ASSUME NEW lk, NEW x, NEW i, NEW ok \in BOOLEAN
  PROVE  \A k \in DOMAIN AcceptCrossShard(lk, x, i, ok) :
           \/ k \in DOMAIN lk /\ AcceptCrossShard(lk, x, i, ok)[k] = lk[k]
           \/ /\ AcceptCrossShard(lk, x, i, ok)[k] = x
              /\ ok /\ k \in KeyRange[i]
              /\ block[x].good \subseteq DOMAIN block[x].txs => k \in KeysOf(x)
<1> DEFINE run == {block[x].txs[j] : j \in {k \in block[x].good : CheckLock(lk, block[x].txs[k])}}
           writeSet == IF ok THEN (UNION run) \cap KeyRange[i] ELSE {}
<1>1. AcceptCrossShard(lk, x, i, ok)
        = [k \in DOMAIN lk \cup writeSet |-> IF k \in DOMAIN lk THEN lk[k] ELSE x]
  BY DEF AcceptCrossShard
<1>2. \A k \in writeSet :
        /\ ok /\ k \in KeyRange[i]
        /\ block[x].good \subseteq DOMAIN block[x].txs => k \in KeysOf(x)
  BY DEF KeysOf, ToSet
<1> QED BY <1>1, <1>2

\* AcceptCommitShard takes away the locks on the accounts of the blocks.
LEMMA AcceptCommitShardLocks ==
  ASSUME NEW lk, NEW xs, NEW i
  PROVE  LET new == AcceptCommitShard(lk, xs, i) IN
         \A k \in DOMAIN new :
           /\ k \in DOMAIN lk /\ new[k] = lk[k]
           /\ \A x \in xs : ~(k \in KeyRange[i] /\ k \in KeysOf(x))
BY DEF AcceptCommitShard
-----------------------------------------------------------------------------
(* The inductive invariant.                                                *)

LEMMA InitIInv == Init => IInv
<1> SUFFICES ASSUME Init PROVE IInv
  OBVIOUS
<1> USE ShardFacts, ChainFacts
<1>1. WellTyped
  BY DEF Init, WellTyped
<1>2. PoolsAreOpen /\ PendingIsOpen /\ GoodInBlock
  BY DEF Init, PoolsAreOpen, PendingIsOpen, GoodInBlock
<1>3. PhasesInOrder
  BY DEF Init, PhasesInOrder
<1>4. NumberedInOrder
  <2>1. \A b \in BShards : Made(b) = {<<b, j>> : j \in 1..0}
    BY DEF Init, Made
  <2> QED BY <2>1 DEF NumberedInOrder
<1>5. LocksHeld
  BY DEF Init, LocksHeld
<1>6. NeighboursInLockStep
  BY DEF Init, NeighboursInLockStep
<1> QED BY <1>1, <1>2, <1>3, <1>4, <1>5, <1>6 DEF IInv

\* What an action that changes neither pools nor locks nor ledgers keeps.
LEMMA UnchangedPools ==
  ASSUME IInv, UNCHANGED <<pools, locks, ledgers>>
  PROVE  /\ PoolsAreOpen' /\ PendingIsOpen' /\ PhasesInOrder'
         /\ GoodInBlock' /\ NumberedInOrder' /\ LocksHeld'
<1>1. /\ PoolsAreOpen /\ PendingIsOpen /\ PhasesInOrder
      /\ GoodInBlock /\ NumberedInOrder /\ LocksHeld
  BY DEF IInv
<1>2. /\ UNCHANGED <<mempool, pending, maPool, csbPool, commitPool>>
      /\ UNCHANGED locks
      /\ UNCHANGED <<block, vote, decision, applied>>
  BY DEF pools, ledgers
<1>3. PoolsAreOpen' /\ PendingIsOpen'
  BY <1>1, <1>2 DEF PoolsAreOpen, PendingIsOpen
<1>4. PhasesInOrder' /\ GoodInBlock'
  BY <1>1, <1>2 DEF PhasesInOrder, GoodInBlock
<1>5. NumberedInOrder'
  BY <1>1, <1>2 DEF NumberedInOrder, Made
<1>6. LocksHeld'
  BY <1>1, <1>2 DEF LocksHeld, KeysOf
<1> QED BY <1>3, <1>4, <1>5, <1>6

LEMMA ReceiveCrossShardBlockIInv ==
  ASSUME IInv, NEW i \in IShards, NEW x \in CrossBlock, ReceiveCrossShardBlock(i, x)
  PROVE  IInv'
<1> USE DEF IInv, ReceiveCrossShardBlock, ledgers
<1>1. WellTyped'
  BY DEF WellTyped
<1>2. PoolsAreOpen'
  <2>1. csbPool \in [IShards -> SUBSET CrossBlock]
    BY DEF WellTyped
  <2> QED BY <2>1 DEF PoolsAreOpen
<1>3. PendingIsOpen' /\ PhasesInOrder'
  BY DEF PendingIsOpen, PhasesInOrder
<1>4. GoodInBlock' /\ NumberedInOrder'
  BY DEF GoodInBlock, NumberedInOrder, Made
<1>5. LocksHeld' /\ NeighboursInLockStep'
  BY DEF LocksHeld, KeysOf, NeighboursInLockStep
<1> QED BY <1>1, <1>2, <1>3, <1>4, <1>5

LEMMA ReceiveMessageAcceptIInv ==
  ASSUME IInv, NEW b \in BShards, NEW i \in IShards, ReceiveMessageAccept(b, i)
  PROVE  IInv'
<1> USE DEF IInv, ReceiveMessageAccept, ledgers
<1>1. WellTyped'
  BY DEF WellTyped
<1>2. PendingIsOpen'
  <2>1. maPool \in [BShards -> SUBSET IShards]
    BY DEF WellTyped
  <2> QED BY <2>1 DEF PendingIsOpen
<1>3. PoolsAreOpen' /\ PhasesInOrder'
  BY DEF PoolsAreOpen, PhasesInOrder
<1>4. GoodInBlock' /\ NumberedInOrder'
  BY DEF GoodInBlock, NumberedInOrder, Made
<1>5. LocksHeld' /\ NeighboursInLockStep'
  BY DEF LocksHeld, KeysOf, NeighboursInLockStep
<1> QED BY <1>1, <1>2, <1>3, <1>4, <1>5

LEMMA ReceiveMessageCommitIInv ==
  ASSUME IInv, NEW i \in IShards, NEW x \in CrossBlock, ReceiveMessageCommit(i, x)
  PROVE  IInv'
<1> USE DEF IInv, ReceiveMessageCommit, ledgers
<1>1. WellTyped'
  BY DEF WellTyped
<1>2. PoolsAreOpen'
  <2>1. commitPool \in [IShards -> SUBSET CrossBlock]
    BY DEF WellTyped
  <2> QED BY <2>1 DEF PoolsAreOpen
<1>3. PendingIsOpen' /\ PhasesInOrder'
  BY DEF PendingIsOpen, PhasesInOrder
<1>4. GoodInBlock' /\ NumberedInOrder'
  BY DEF GoodInBlock, NumberedInOrder, Made
<1>5. LocksHeld' /\ NeighboursInLockStep'
  BY DEF LocksHeld, KeysOf, NeighboursInLockStep
<1> QED BY <1>1, <1>2, <1>3, <1>4, <1>5

\* The copy of a B-shard locks for cross-shard blocks.
LEMMA ExecuteIBlockLocks ==
  ASSUME IInv, NEW b \in BShards, NEW i \in IShards,
         NEW k \in DOMAIN ExecuteIBlock(locks[b], i)
  PROVE  ExecuteIBlock(locks[b], i)[k] \in CrossBlock
<1> USE DEF IInv
<1>1. \A l \in DOMAIN locks[b] : locks[b][l] \in CrossBlock
  BY ShardFacts DEF LocksHeld
<1>2. CASE last[i].type = "Inner"
  BY <1>1, <1>2 DEF ExecuteIBlock
<1>3. CASE last[i].type = "ICommit"
  <2>1. ExecuteIBlock(locks[b], i) = AcceptCommitShard(locks[b], last[i].blocks, i)
    BY <1>3 DEF ExecuteIBlock
  <2> QED BY <1>1, <2>1, AcceptCommitShardLocks
<1>4. CASE last[i].type = "IAccept"
  <2>1. ExecuteIBlock(locks[b], i) = AcceptCrossShard(locks[b], last[i].block, i, last[i].ok)
    BY <1>4 DEF ExecuteIBlock
  <2>2. last[i].block \in CrossBlock /\ last[i].ok \in BOOLEAN
    BY <1>4 DEF WellTyped
  <2> QED BY <1>1, <2>1, <2>2, AcceptCrossShardLocks
<1> QED BY <1>2, <1>3, <1>4 DEF WellTyped

LEMMA ReceiveIBlockIInv ==
  ASSUME IInv, NEW b \in BShards, NEW i \in IShards, ReceiveIBlock(b, i)
  PROVE  IInv'
<1> USE DEF IInv, ReceiveIBlock, ledgers, pools
<1>1. WellTyped'
  <2>1. /\ synced' \in [BShards -> SUBSET IShards]
        /\ \A d \in BShards : synced'[d] \subseteq Related[d]
        /\ locks' = [c \in Shard |-> locks'[c]]
    BY DEF WellTyped
  <2> QED BY <2>1 DEF WellTyped
<1>2. PoolsAreOpen' /\ PendingIsOpen'
  BY DEF PoolsAreOpen, PendingIsOpen
<1>3. PhasesInOrder' /\ GoodInBlock'
  BY DEF PhasesInOrder, GoodInBlock
<1>4. NumberedInOrder'
  BY DEF NumberedInOrder, Made
<1>5. LocksHeld'
  <2>1. locks = [c \in Shard |-> locks[c]]
    BY DEF WellTyped
  <2>2. \A c \in Shard : locks'[c] = IF c = b THEN ExecuteIBlock(locks[b], i) ELSE locks[c]
    BY <2>1
  <2>3. b \in Shard /\ b \notin IShards /\ IShards \subseteq Shard
    BY ShardFacts
  <2>4. \A c \in Shard : \A k \in DOMAIN locks'[c] : locks'[c][k] \in CrossBlock
    BY <2>2, <2>3, ExecuteIBlockLocks DEF LocksHeld
  <2> QED BY <2>2, <2>3, <2>4 DEF LocksHeld, KeysOf
<1>6. NeighboursInLockStep'
  BY DEF NeighboursInLockStep
<1> QED BY <1>1, <1>2, <1>3, <1>4, <1>5, <1>6

\* A block of an I-shard leaves the heights, and the I-shard is at its end.
LEMMA FinishIBlockLockStep ==
  ASSUME IInv, NEW i \in IShards, NEW b, FinishIBlock(i, b)
  PROVE  NeighboursInLockStep'
<1>1. step \in [Shard -> {"Propose", "Commit"}] /\ height \in [Shard -> Nat]
  BY DEF IInv, WellTyped
<1> QED BY <1>1, ShardFacts DEF IInv, FinishIBlock, NeighboursInLockStep

LEMMA FinishBBlockLockStep ==
  ASSUME IInv, NEW b \in BShards, FinishBBlock(b)
  PROVE  NeighboursInLockStep'
<1>1. step \in [Shard -> {"Propose", "Commit"}] /\ height \in [Shard -> Nat]
  BY DEF IInv, WellTyped
<1> QED BY <1>1, ShardFacts DEF IInv, FinishBBlock, NeighboursInLockStep

LEMMA AcceptBlockIInv ==
  ASSUME IInv, NEW i \in IShards, AcceptBlock(i)
  PROVE  IInv'
<1> USE DEF IInv
<1> DEFINE ok(x) == PreExecutionI(locks[i], x)
<1>1. PICK x \in csbPool[i] :
        /\ FinishIBlock(i, [type |-> "IAccept", block |-> x, ok |-> ok(x)])
        /\ vote' = [vote EXCEPT ![x][i] = IF ok(x) THEN "yes" ELSE "no"]
        /\ locks' = [locks EXCEPT ![i] = AcceptCrossShard(@, x, i, ok(x))]
        /\ csbPool' = [csbPool EXCEPT ![i] = @ \ {x}]
        /\ UNCHANGED <<commitPool, applied>>
  BY DEF AcceptBlock
<1>2. ok(x) \in BOOLEAN
  BY DEF PreExecutionI
<1> HIDE DEF ok
\* The shard has not answered before, and so it has not executed a decision.
<1>3. /\ x \in CrossBlock /\ i \in Related[ChainOf(x)]
      /\ block[x] # None /\ vote[x][i] = "none" /\ applied[x][i] = "none" /\ decision[x] = "none"
  <2>1. csbPool \in [IShards -> SUBSET CrossBlock]
    BY DEF WellTyped
  <2> QED BY <2>1 DEF PoolsAreOpen, PhasesInOrder
<1>4. \A y \in CrossBlock : \A j \in Related[ChainOf(y)] :
        vote'[y][j] = IF y = x /\ j = i THEN IF ok(x) THEN "yes" ELSE "no" ELSE vote[y][j]
  BY <1>1, <1>3 DEF WellTyped
<1>5. WellTyped'
  <2>1. last' = [j \in IShards |-> last'[j]] /\ vote' = [y \in CrossBlock |-> vote'[y]]
    BY <1>1, <1>3 DEF WellTyped, FinishIBlock
  <2>2. \A j \in IShards :
          /\ last'[j].type \in {"Inner", "IAccept", "ICommit"}
          /\ last'[j].type = "IAccept" => last'[j].block \in CrossBlock /\ last'[j].ok \in BOOLEAN
    BY <1>1, <1>2, <1>3 DEF WellTyped, FinishIBlock
  <2>3. \A y \in CrossBlock : vote'[y] \in [Related[ChainOf(y)] -> {"none", "yes", "no"}]
    BY <1>1, <1>3 DEF WellTyped
  <2>4. /\ step' \in [Shard -> {"Propose", "Commit"}] /\ synced' \in [BShards -> SUBSET IShards]
        /\ \A b \in BShards : synced'[b] \subseteq Related[b]
        /\ csbPool' \in [IShards -> SUBSET CrossBlock]
        /\ locks' = [c \in Shard |-> locks'[c]]
    BY <1>1 DEF WellTyped, FinishIBlock
  <2> QED BY <1>1, <2>1, <2>2, <2>3, <2>4 DEF WellTyped, FinishIBlock
<1>6. PoolsAreOpen'
  <2>1. csbPool \in [IShards -> SUBSET CrossBlock] /\ commitPool \in [IShards -> SUBSET CrossBlock]
    BY DEF WellTyped
  <2> QED BY <1>1, <1>4, <2>1 DEF PoolsAreOpen, FinishIBlock
<1>7. PendingIsOpen'
  <2>1. \A b \in BShards : maPool[b] \subseteq Related[b] /\ pending[b] \in CrossBlock \cup {None}
    BY DEF WellTyped
  <2> QED BY <1>1, <1>4, <2>1 DEF PendingIsOpen, FinishIBlock
<1>8. PhasesInOrder'
  BY <1>1, <1>3, <1>4 DEF PhasesInOrder, FinishIBlock
<1>9. GoodInBlock' /\ NumberedInOrder'
  BY <1>1 DEF FinishIBlock, GoodInBlock, NumberedInOrder, Made
<1>10. LocksHeld'
  <2>1. \A c \in Shard : locks'[c] = IF c = i THEN AcceptCrossShard(locks[i], x, i, ok(x)) ELSE locks[c]
    BY <1>1 DEF WellTyped
  <2>2. i \in Shard /\ IShards \subseteq Shard
    BY ShardFacts
  <2>3. \A k \in DOMAIN locks'[i] :
          \/ k \in DOMAIN locks[i] /\ locks'[i][k] = locks[i][k]
          \/ locks'[i][k] = x /\ ok(x) /\ k \in KeyRange[i] /\ k \in KeysOf(x)
    BY <1>2, <1>3, <2>1, <2>2, AcceptCrossShardLocks DEF GoodInBlock
  <2>4. \A c \in Shard : \A k \in DOMAIN locks'[c] : locks'[c][k] \in CrossBlock
    BY <1>3, <2>1, <2>2, <2>3 DEF LocksHeld
  <2>5. \A y : KeysOf(y)' = KeysOf(y)
    BY <1>1 DEF KeysOf, FinishIBlock
  <2>6. \A k \in DOMAIN locks'[i] :
          /\ k \in KeyRange[i] /\ k \in KeysOf(locks'[i][k])
          /\ i \in Related[ChainOf(locks'[i][k])]
          /\ vote'[locks'[i][k]][i] = "yes" /\ applied'[locks'[i][k]][i] = "none"
    BY <1>1, <1>3, <1>4, <2>2, <2>3 DEF LocksHeld
  <2>7. \A j \in IShards \ {i} : \A k \in DOMAIN locks'[j] :
          /\ k \in KeyRange[j] /\ k \in KeysOf(locks'[j][k])
          /\ j \in Related[ChainOf(locks'[j][k])]
          /\ vote'[locks'[j][k]][j] = "yes" /\ applied'[locks'[j][k]][j] = "none"
    BY <1>1, <1>4, <2>1, <2>2 DEF LocksHeld
  <2> QED BY <2>4, <2>5, <2>6, <2>7 DEF LocksHeld
<1>11. NeighboursInLockStep'
  BY <1>1, FinishIBlockLockStep
<1> QED BY <1>5, <1>6, <1>7, <1>8, <1>9, <1>10, <1>11

LEMMA CommitBlockIInv ==
  ASSUME IInv, NEW i \in IShards, CommitBlock(i)
  PROVE  IInv'
<1> USE DEF IInv
<1>1. /\ FinishIBlock(i, [type |-> "ICommit", blocks |-> commitPool[i]])
      /\ applied' = [x \in CrossBlock |-> [j \in Related[ChainOf(x)] |->
                       IF j = i /\ x \in commitPool[i] THEN decision[x] ELSE applied[x][j]]]
      /\ locks' = [locks EXCEPT ![i] = AcceptCommitShard(@, commitPool[i], i)]
      /\ commitPool' = [commitPool EXCEPT ![i] = {}]
      /\ UNCHANGED <<csbPool, vote>>
  BY DEF CommitBlock
<1>2. \A x \in CrossBlock : \A j \in Related[ChainOf(x)] :
        applied'[x][j] = IF j = i /\ x \in commitPool[i] THEN decision[x] ELSE applied[x][j]
  BY <1>1
<1>3. WellTyped'
  <2>1. last' = [j \in IShards |-> last'[j]] /\ applied' = [y \in CrossBlock |-> applied'[y]]
    BY <1>1 DEF WellTyped, FinishIBlock
  <2>2. \A j \in IShards :
          /\ last'[j].type \in {"Inner", "IAccept", "ICommit"}
          /\ last'[j].type = "IAccept" => last'[j].block \in CrossBlock /\ last'[j].ok \in BOOLEAN
    BY <1>1 DEF WellTyped, FinishIBlock
  <2>3. \A y \in CrossBlock : applied'[y] \in [Related[ChainOf(y)] -> {"none", "commit", "abort"}]
    <3>1. decision \in [CrossBlock -> {"none", "commit", "abort"}]
      BY DEF WellTyped
    <3>2. \A y \in CrossBlock : applied[y] \in [Related[ChainOf(y)] -> {"none", "commit", "abort"}]
      BY DEF WellTyped
    <3> QED BY <1>1, <3>1, <3>2
  <2>4. /\ step' \in [Shard -> {"Propose", "Commit"}] /\ synced' \in [BShards -> SUBSET IShards]
        /\ \A b \in BShards : synced'[b] \subseteq Related[b]
        /\ commitPool' \in [IShards -> SUBSET CrossBlock]
        /\ locks' = [c \in Shard |-> locks'[c]]
    BY <1>1 DEF WellTyped, FinishIBlock
  <2> QED BY <1>1, <2>1, <2>2, <2>3, <2>4 DEF WellTyped, FinishIBlock
<1>4. PoolsAreOpen'
  <2>1. csbPool \in [IShards -> SUBSET CrossBlock] /\ commitPool \in [IShards -> SUBSET CrossBlock]
    BY DEF WellTyped
  <2> QED BY <1>1, <1>2, <2>1 DEF PoolsAreOpen, FinishIBlock
<1>5. PendingIsOpen'
  BY <1>1 DEF PendingIsOpen, FinishIBlock
<1>6. PhasesInOrder'
  <2>1. \A x \in commitPool[i] : decision[x] # "none"
    BY DEF PoolsAreOpen
  <2> QED BY <1>1, <1>2, <2>1 DEF PhasesInOrder, FinishIBlock
<1>7. GoodInBlock' /\ NumberedInOrder'
  BY <1>1 DEF FinishIBlock, GoodInBlock, NumberedInOrder, Made
<1>8. LocksHeld'
  <2>1. \A c \in Shard : locks'[c] = IF c = i THEN AcceptCommitShard(locks[i], commitPool[i], i) ELSE locks[c]
    BY <1>1 DEF WellTyped
  <2>2. i \in Shard /\ IShards \subseteq Shard
    BY ShardFacts
  <2>3. \A k \in DOMAIN locks'[i] :
          /\ k \in DOMAIN locks[i] /\ locks'[i][k] = locks[i][k]
          /\ \A x \in commitPool[i] : ~(k \in KeyRange[i] /\ k \in KeysOf(x))
    BY <2>1, <2>2, AcceptCommitShardLocks
  <2>4. \A c \in Shard : \A k \in DOMAIN locks'[c] : locks'[c][k] \in CrossBlock
    BY <2>1, <2>2, <2>3 DEF LocksHeld
  <2>5. \A y : KeysOf(y)' = KeysOf(y)
    BY <1>1 DEF KeysOf, FinishIBlock
  \* A lock that stays is for a block whose decision is not executed now.
  <2>6. \A k \in DOMAIN locks'[i] :
          /\ k \in KeyRange[i] /\ k \in KeysOf(locks'[i][k])
          /\ i \in Related[ChainOf(locks'[i][k])]
          /\ vote'[locks'[i][k]][i] = "yes" /\ applied'[locks'[i][k]][i] = "none"
    BY <1>1, <1>2, <2>2, <2>3 DEF LocksHeld
  <2>7. \A j \in IShards \ {i} : \A k \in DOMAIN locks'[j] :
          /\ k \in KeyRange[j] /\ k \in KeysOf(locks'[j][k])
          /\ j \in Related[ChainOf(locks'[j][k])]
          /\ vote'[locks'[j][k]][j] = "yes" /\ applied'[locks'[j][k]][j] = "none"
    BY <1>1, <1>2, <2>1, <2>2 DEF LocksHeld
  <2> QED BY <2>4, <2>5, <2>6, <2>7 DEF LocksHeld
<1>9. NeighboursInLockStep'
  BY <1>1, FinishIBlockLockStep
<1> QED BY <1>3, <1>4, <1>5, <1>6, <1>7, <1>8, <1>9

LEMMA InnerBlockIInv ==
  ASSUME IInv, NEW i \in IShards, InnerBlock(i)
  PROVE  IInv'
<1> USE DEF IInv, InnerBlock
<1>1. WellTyped'
  <2>1. last' = [j \in IShards |-> last'[j]]
    BY DEF WellTyped, FinishIBlock
  <2>2. \A j \in IShards :
          /\ last'[j].type \in {"Inner", "IAccept", "ICommit"}
          /\ last'[j].type = "IAccept" => last'[j].block \in CrossBlock /\ last'[j].ok \in BOOLEAN
    BY DEF WellTyped, FinishIBlock
  <2>3. /\ step' \in [Shard -> {"Propose", "Commit"}] /\ synced' \in [BShards -> SUBSET IShards]
        /\ \A b \in BShards : synced'[b] \subseteq Related[b]
    BY DEF WellTyped, FinishIBlock
  <2> QED BY <2>1, <2>2, <2>3 DEF WellTyped, FinishIBlock
<1>2. UNCHANGED <<pools, locks, ledgers>>
  BY DEF FinishIBlock, pools, ledgers
<1>3. PoolsAreOpen' /\ PendingIsOpen' /\ PhasesInOrder' /\ GoodInBlock' /\ NumberedInOrder' /\ LocksHeld'
  BY <1>2, UnchangedPools
<1>4. NeighboursInLockStep'
  BY FinishIBlockLockStep
<1> QED BY <1>1, <1>2, <1>3, <1>4

\* The number of a new cross-shard block is not in use.
LEMMA NewBlockIsFresh ==
  ASSUME IInv, NEW b \in BShards, NEW x \in CrossBlock,
         x = <<b, 1 + Cardinality({y \in CrossBlock : ChainOf(y) = b /\ block[y] # None})>>
  PROVE  /\ ChainOf(x) = b /\ block[x] = None
         /\ \E n \in Nat : Made(b) \cup {x} = {<<b, j>> : j \in 1..n}
<1>1. PICK n \in Nat : Made(b) = {<<b, j>> : j \in 1..n}
  BY DEF IInv, NumberedInOrder
<1>2. x = <<b, 1 + n>>
  BY <1>1, CountOfFirst DEF Made
<1>3. ChainOf(x) = b
  BY <1>2, ChainFacts
<1>4. x \notin Made(b)
  BY <1>1, <1>2
<1>5. Made(b) \cup {x} = {<<b, j>> : j \in 1..(n + 1)}
  BY <1>1, <1>2
<1> QED BY <1>3, <1>4, <1>5 DEF Made

LEMMA CrossShardBlockIInv ==
  ASSUME IInv, NEW b \in BShards, CrossShardBlock(b)
  PROVE  IInv'
<1> USE DEF IInv
<1> DEFINE x == <<b, 1 + Cardinality({y \in CrossBlock : ChainOf(y) = b /\ block[y] # None})>>
           txs == ReapTx(b)
<1>1. PICK good \in SUBSET DOMAIN txs :
        /\ x \in CrossBlock
        /\ block' = [block EXCEPT ![x] = [txs |-> txs, good |-> good]]
        /\ pending' = [pending EXCEPT ![b] = x]
        /\ maPool' = [maPool EXCEPT ![b] = {}]
        /\ FinishBBlock(b)
        /\ UNCHANGED <<mempool, decision>>
  BY DEF CrossShardBlock
<1>2. x \in CrossBlock /\ ChainOf(x) = b /\ block[x] = None
  BY <1>1, NewBlockIsFresh
<1>3. \E n \in Nat : Made(b) \cup {x} = {<<b, j>> : j \in 1..n}
  BY <1>1, NewBlockIsFresh
<1> HIDE DEF x, txs
<1>4. \A y \in CrossBlock : block'[y] = IF y = x THEN [txs |-> txs, good |-> good] ELSE block[y]
  BY <1>1, <1>2 DEF WellTyped
<1>5. UNCHANGED <<height, csbPool, commitPool, locks, last, synced, vote, applied, decision>>
  BY <1>1 DEF FinishBBlock
<1>6. decision[x] = "none" /\ \A i \in Related[b] : vote[x][i] = "none"
  BY <1>2 DEF PhasesInOrder
<1>7. WellTyped'
  <2>1. /\ step' \in [Shard -> {"Propose", "Commit"}]
        /\ pending' \in [BShards -> CrossBlock \cup {None}]
        /\ maPool' \in [BShards -> SUBSET IShards]
        /\ \A d \in BShards : maPool'[d] \subseteq Related[d]
    BY <1>1, <1>2 DEF WellTyped, FinishBBlock
  <2>2. block' = [y \in CrossBlock |-> block'[y]]
    BY <1>1, <1>2 DEF WellTyped
  <2> QED BY <1>5, <2>1, <2>2 DEF WellTyped
<1>8. PoolsAreOpen'
  <2>1. csbPool \in [IShards -> SUBSET CrossBlock]
    BY DEF WellTyped
  <2> QED BY <1>2, <1>4, <1>5, <2>1 DEF PoolsAreOpen
<1>9. PendingIsOpen'
  <2>1. pending \in [BShards -> CrossBlock \cup {None}] /\ maPool \in [BShards -> SUBSET IShards]
    BY DEF WellTyped
  <2> QED BY <1>1, <1>2, <1>5, <1>6, <2>1 DEF PendingIsOpen
<1>10. PhasesInOrder'
  BY <1>2, <1>4, <1>5, <1>6 DEF PhasesInOrder
<1>11. GoodInBlock'
  BY <1>1, <1>4 DEF GoodInBlock
<1>12. NumberedInOrder'
  <2>1. \A d \in BShards \ {b} : Made(d)' = Made(d)
    BY <1>2, <1>4 DEF Made
  <2>2. Made(b)' = Made(b) \/ Made(b)' = Made(b) \cup {x}
    BY <1>2, <1>4 DEF Made
  <2> QED BY <1>3, <2>1, <2>2 DEF NumberedInOrder
\* A lock is for a block that was answered, and so made before.
<1>13. LocksHeld'
  <2>1. \A y \in CrossBlock : y # x => KeysOf(y)' = KeysOf(y)
    BY <1>4 DEF KeysOf
  <2>2. \A i \in IShards : \A k \in DOMAIN locks[i] : locks[i][k] \in CrossBlock /\ locks[i][k] # x
    BY <1>2, <1>6, ShardFacts DEF LocksHeld
  <2> QED BY <1>5, <2>1, <2>2 DEF LocksHeld
<1>14. NeighboursInLockStep'
  BY <1>1, FinishBBlockLockStep
<1> QED BY <1>7, <1>8, <1>9, <1>10, <1>11, <1>12, <1>13, <1>14

LEMMA DecideBlockIInv ==
  ASSUME IInv, NEW b \in BShards, DecideBlock(b)
  PROVE  IInv'
<1> USE DEF IInv
<1> DEFINE x == pending[b]
           d == IF PrevoteOK(x) THEN "commit" ELSE "abort"
<1>1. /\ x # None /\ maPool[b] = Related[b] /\ FinishBBlock(b)
      /\ decision' = [decision EXCEPT ![x] = d]
      /\ pending' = [pending EXCEPT ![b] = None]
      /\ maPool' = [maPool EXCEPT ![b] = {}]
      /\ UNCHANGED block
  BY DEF DecideBlock
<1>2. d \in {"commit", "abort"}
  OBVIOUS
\* The block is answered by all, and so it was made.
<1>3. x \in CrossBlock /\ ChainOf(x) = b /\ decision[x] = "none"
  BY <1>1 DEF PendingIsOpen, WellTyped
<1>4. \A i \in Related[b] : vote[x][i] # "none"
  BY <1>1 DEF PendingIsOpen
<1>5. block[x] # None
  BY <1>3, <1>4, ShardFacts DEF PhasesInOrder
<1> HIDE DEF d
<1>6. \A y \in CrossBlock : decision'[y] = IF y = x THEN d ELSE decision[y]
  BY <1>1, <1>3 DEF WellTyped
<1>7. UNCHANGED <<height, csbPool, commitPool, locks, last, synced, block, vote, applied>>
  BY <1>1 DEF FinishBBlock
<1>8. WellTyped'
  <2>1. /\ step' \in [Shard -> {"Propose", "Commit"}]
        /\ pending' \in [BShards -> CrossBlock \cup {None}]
        /\ maPool' \in [BShards -> SUBSET IShards]
        /\ \A c \in BShards : maPool'[c] \subseteq Related[c]
    BY <1>1 DEF WellTyped, FinishBBlock
  <2>2. decision' \in [CrossBlock -> {"none", "commit", "abort"}]
    BY <1>1, <1>2, <1>3 DEF WellTyped
  <2> QED BY <1>7, <2>1, <2>2 DEF WellTyped
<1>9. PoolsAreOpen'
  <2>1. commitPool \in [IShards -> SUBSET CrossBlock]
    BY DEF WellTyped
  <2> QED BY <1>2, <1>6, <1>7, <2>1 DEF PoolsAreOpen
<1>10. PendingIsOpen'
  <2>1. pending \in [BShards -> CrossBlock \cup {None}] /\ maPool \in [BShards -> SUBSET IShards]
    BY DEF WellTyped
  <2> QED BY <1>1, <1>3, <1>6, <1>7, <2>1 DEF PendingIsOpen
<1>11. PhasesInOrder'
  BY <1>2, <1>3, <1>4, <1>5, <1>6, <1>7 DEF PhasesInOrder
<1>12. GoodInBlock' /\ NumberedInOrder' /\ LocksHeld'
  BY <1>7 DEF GoodInBlock, NumberedInOrder, Made, LocksHeld, KeysOf
<1>13. NeighboursInLockStep'
  BY <1>1, FinishBBlockLockStep
<1> QED BY <1>8, <1>9, <1>10, <1>11, <1>12, <1>13

LEMMA EmptyBlockIInv ==
  ASSUME IInv, NEW b \in BShards, EmptyBlock(b)
  PROVE  IInv'
<1>1. FinishBBlock(b) /\ UNCHANGED <<mempool, pending, maPool, block, decision>>
  BY DEF EmptyBlock
<1>2. UNCHANGED <<pools, locks, ledgers>> /\ UNCHANGED <<height, last, synced>>
  BY <1>1 DEF FinishBBlock, pools, ledgers
<1>3. WellTyped'
  <2>1. step' \in [Shard -> {"Propose", "Commit"}]
    BY <1>1 DEF FinishBBlock, IInv, WellTyped
  <2> QED BY <1>2, <2>1 DEF IInv, WellTyped, pools, ledgers
<1> QED BY <1>1, <1>2, <1>3, UnchangedPools, FinishBBlockLockStep DEF IInv

\* A B-shard that goes on is at the height of I-shards that have their block;
\* an I-shard that goes on is one behind its B-shards.
LEMMA EnterNewHeightIInv ==
  ASSUME IInv, NEW c \in Shard, EnterNewHeight(c)
  PROVE  IInv'
<1> DEFINE next == [height EXCEPT ![c] = @ + 1]
           low  == Min({next[d] : d \in Shard})
<1>1. /\ step[c] = "Commit" /\ CanCommit(c)
      /\ step' = [step EXCEPT ![c] = "Propose"]
      /\ height' = [d \in Shard |-> next[d] - low]
      /\ UNCHANGED <<pools, locks, last, synced, ledgers>>
  BY DEF EnterNewHeight
<1>2. height \in [Shard -> Nat] /\ step \in [Shard -> {"Propose", "Commit"}]
  BY DEF IInv, WellTyped
<1>3. next \in [Shard -> Nat]
  BY <1>2
<1>4. low \in Nat /\ \A d \in Shard : low <= next[d]
  <2>1. {next[d] : d \in Shard} \in SUBSET Nat /\ {next[d] : d \in Shard} # {}
    BY <1>3
  <2> QED BY <2>1, MinIsLeast
<1> HIDE DEF low
<1>5. WellTyped'
  <2>1. height' \in [Shard -> Nat] /\ step' \in [Shard -> {"Propose", "Commit"}]
    BY <1>1, <1>2, <1>3, <1>4
  <2> QED BY <1>1, <2>1 DEF IInv, WellTyped, pools, ledgers
<1>6. NeighboursInLockStep'
  <2> SUFFICES ASSUME NEW b \in BShards, NEW i \in Related[b]
               PROVE  \/ height'[b] = height'[i]
                      \/ height'[b] = height'[i] + 1 /\ step'[i] = "Commit"
    BY DEF NeighboursInLockStep
  <2>1. i \in IShards /\ b \in Related[i] /\ b \in Shard /\ i \in Shard /\ b # i
    BY ShardFacts
  <2>2. \/ height[b] = height[i]
        \/ height[b] = height[i] + 1 /\ step[i] = "Commit"
    BY DEF IInv, NeighboursInLockStep
  <2>3. /\ height'[b] = (IF b = c THEN height[b] + 1 ELSE height[b]) - low
        /\ height'[i] = (IF i = c THEN height[i] + 1 ELSE height[i]) - low
        /\ step'[i] = IF i = c THEN "Propose" ELSE step[i]
    BY <1>1, <1>2, <2>1
  <2>4. height[b] \in Nat /\ height[i] \in Nat
    BY <1>2, <2>1
  <2>5. CASE b = c
    <3>1. LastHeight(i) >= height[b]
      BY <1>1, <2>1, <2>5, ShardFacts DEF CanCommit
    <3> QED BY <1>4, <2>1, <2>2, <2>3, <2>4, <2>5, <3>1 DEF LastHeight
  <2>6. CASE i = c
    <3>1. height[b] > height[i]
      BY <1>1, <2>1, <2>6 DEF CanCommit, MessageOK
    <3> QED BY <1>4, <2>1, <2>2, <2>3, <2>4, <2>6, <3>1
  <2>7. CASE b # c /\ i # c
    BY <1>4, <2>2, <2>3, <2>4, <2>7
  <2> QED BY <2>5, <2>6, <2>7
<1> QED BY <1>1, <1>5, <1>6, UnchangedPools DEF IInv

LEMMA NextIInv == IInv /\ [Next]_vars => IInv'
<1> SUFFICES ASSUME IInv, [Next]_vars PROVE IInv'
  OBVIOUS
<1>1. CASE \E i \in IShards : \E x \in CrossBlock : ReceiveCrossShardBlock(i, x) \/ ReceiveMessageCommit(i, x)
  BY <1>1, ReceiveCrossShardBlockIInv, ReceiveMessageCommitIInv
<1>2. CASE \E b \in BShards : \E i \in IShards : ReceiveMessageAccept(b, i) \/ ReceiveIBlock(b, i)
  BY <1>2, ReceiveMessageAcceptIInv, ReceiveIBlockIInv
<1>3. CASE \E c \in Shard : MakeBlock(c)
  <2>1. PICK c \in Shard : MakeBlock(c)
    BY <1>3
  <2>2. CASE c \in IShards
    BY <2>1, <2>2, AcceptBlockIInv, CommitBlockIInv, InnerBlockIInv DEF MakeBlock
  <2>3. CASE c \notin IShards
    <3>1. c \in BShards
      BY <2>3, ShardFacts
    <3> QED BY <2>1, <2>3, <3>1, CrossShardBlockIInv, DecideBlockIInv, EmptyBlockIInv DEF MakeBlock
  <2> QED BY <2>2, <2>3
<1>4. CASE \E c \in Shard : EnterNewHeight(c)
  BY <1>4, EnterNewHeightIInv
<1>5. CASE UNCHANGED vars
  <2>1. UNCHANGED <<pools, locks, ledgers>> /\ UNCHANGED <<height, step, last, synced>>
    BY <1>5 DEF vars
  <2>2. WellTyped'
    BY <2>1 DEF IInv, WellTyped, pools, ledgers
  <2>3. NeighboursInLockStep'
    BY <2>1 DEF IInv, NeighboursInLockStep
  <2> QED BY <2>1, <2>2, <2>3, UnchangedPools DEF IInv
<1> QED BY <1>1, <1>2, <1>3, <1>4, <1>5 DEF Next

LEMMA Invariance == Safety => []IInv
BY InitIInv, NextIInv, PTL DEF Safety
-----------------------------------------------------------------------------
(* What the invariant says of the system.                                  *)

\* Related shards are never more than one height apart, whatever the order in
\* which blocks and MessageOK arrive (doCommit, enterNewHeight).
THEOREM LockStep == Safety => []NeighboursInLockStep
<1>1. IInv => NeighboursInLockStep
  BY DEF IInv
<1> QED BY <1>1, Invariance, PTL

\* Every lock of an I-shard belongs to a cross-shard block that the shard has
\* accepted and whose decision it has not executed (AcceptCrossShard,
\* AcceptCommitShard); the variables keep their types.
THEOREM LockOwners == Safety => []LocksAreOwned
<1>1. IInv => TypeOK
  BY DEF IInv, WellTyped, LocksHeld, TypeOK
<1>2. IInv => LocksAreOwned
  BY <1>1 DEF IInv, LocksHeld, LocksAreOwned
<1> QED BY <1>2, Invariance, PTL
-----------------------------------------------------------------------------
(* The refinement: an I-shard that accepts casts its vote, a B-shard that  *)
(* commits decides, an I-shard that commits applies; all else stutters.    *)

LEMMA InitRefines == Init => Commitment!Init
BY DEF Init, Commitment!Init

LEMMA AcceptBlockRefines ==
  ASSUME IInv, NEW i \in IShards, AcceptBlock(i)
  PROVE  Commitment!Next
<1>1. PICK x \in csbPool[i] :
        /\ \E v \in {"yes", "no"} : vote' = [vote EXCEPT ![x][i] = v]
        /\ UNCHANGED <<decision, applied>>
  BY DEF AcceptBlock, FinishIBlock
<1>2. csbPool \in [IShards -> SUBSET CrossBlock]
  BY DEF IInv, WellTyped
<1>3. x \in CrossBlock /\ i \in Related[ChainOf(x)] /\ vote[x][i] = "none"
  BY <1>2 DEF IInv, PoolsAreOpen
<1> QED BY <1>1, <1>3 DEF Commitment!Next, Commitment!CastVote

LEMMA DecideBlockRefines ==
  ASSUME IInv, NEW b \in BShards, DecideBlock(b)
  PROVE  Commitment!Next
<1> DEFINE x == pending[b]
<1>1. /\ x # None /\ maPool[b] = Related[b]
      /\ decision' = [decision EXCEPT ![x] = IF PrevoteOK(x) THEN "commit" ELSE "abort"]
      /\ UNCHANGED <<vote, applied>>
  BY DEF DecideBlock, FinishBBlock
<1>2. pending \in [BShards -> CrossBlock \cup {None}]
  BY DEF IInv, WellTyped
<1>3. x \in CrossBlock /\ ChainOf(x) = b /\ decision[x] = "none" /\ \A i \in Related[b] : vote[x][i] # "none"
  BY <1>1, <1>2 DEF IInv, PendingIsOpen
<1> HIDE DEF x
<1>4. Commitment!Decide(x)
  BY <1>1, <1>3 DEF Commitment!Decide, PrevoteOK
<1> QED BY <1>3, <1>4 DEF Commitment!Next

LEMMA CommitBlockRefines ==
  ASSUME IInv, NEW i \in IShards, CommitBlock(i)
  PROVE  Commitment!Next
<1>1. /\ commitPool[i] # {}
      /\ applied' = [x \in CrossBlock |-> [j \in Related[ChainOf(x)] |->
                       IF j = i /\ x \in commitPool[i] THEN decision[x] ELSE applied[x][j]]]
      /\ UNCHANGED <<vote, decision>>
  BY DEF CommitBlock, FinishIBlock
<1>2. commitPool[i] \in SUBSET CrossBlock
  BY DEF IInv, WellTyped
<1>3. \A x \in commitPool[i] : i \in Related[ChainOf(x)] /\ decision[x] # "none" /\ applied[x][i] = "none"
  BY DEF IInv, PoolsAreOpen
<1>4. Commitment!Apply(i, commitPool[i])
  BY <1>1, <1>2, <1>3 DEF Commitment!Apply
<1>5. i \in Commitment!Shards
  BY <1>1, <1>2, <1>3 DEF Commitment!Shards
<1> QED BY <1>2, <1>4, <1>5 DEF Commitment!Next

LEMMA NextRefines == IInv /\ [Next]_vars => [Commitment!Next]_(Commitment!vars)
<1> SUFFICES ASSUME IInv, [Next]_vars
             PROVE  Commitment!Next \/ UNCHANGED <<vote, decision, applied>>
  BY DEF Commitment!vars
<1>1. CASE \E i \in IShards : \E x \in CrossBlock : ReceiveCrossShardBlock(i, x) \/ ReceiveMessageCommit(i, x)
  BY <1>1 DEF ReceiveCrossShardBlock, ReceiveMessageCommit, ledgers
<1>2. CASE \E b \in BShards : \E i \in IShards : ReceiveMessageAccept(b, i) \/ ReceiveIBlock(b, i)
  BY <1>2 DEF ReceiveMessageAccept, ReceiveIBlock, ledgers
<1>3. CASE \E c \in Shard : MakeBlock(c)
  <2>1. PICK c \in Shard : MakeBlock(c)
    BY <1>3
  <2>2. CASE c \in IShards
    <3>1. InnerBlock(c) => UNCHANGED <<vote, decision, applied>>
      BY DEF InnerBlock, FinishIBlock
    <3> QED BY <2>1, <2>2, <3>1, AcceptBlockRefines, CommitBlockRefines DEF MakeBlock
  <2>3. CASE c \notin IShards
    <3>1. c \in BShards
      BY <2>3, ShardFacts
    <3>2. CrossShardBlock(c) \/ EmptyBlock(c) => UNCHANGED <<vote, decision, applied>>
      BY DEF CrossShardBlock, EmptyBlock, FinishBBlock
    <3> QED BY <2>1, <2>3, <3>1, <3>2, DecideBlockRefines DEF MakeBlock
  <2> QED BY <2>2, <2>3
<1>4. CASE \E c \in Shard : EnterNewHeight(c)
  BY <1>4 DEF EnterNewHeight, ledgers
<1>5. CASE UNCHANGED vars
  BY <1>5 DEF vars, ledgers
<1> QED BY <1>1, <1>2, <1>3, <1>4, <1>5 DEF Next

\* The four blocks of Rapid carry out atomic commitment, with any number of
\* cross-shard blocks under way and messages in any order (createIBlockTxs,
\* createBBlockTxs, processIBlock, processBBlock).
THEOREM Refinement == Safety => ImplementsAtomicCommit
BY InitRefines, NextRefines, Invariance, PTL DEF Safety, ImplementsAtomicCommit, Commitment!Spec

Promise == INSTANCE AtomicCommitProofs WITH
  Block <- CrossBlock, Parties <- [x \in CrossBlock |-> Related[ChainOf(x)]]

\* The I-shards of a cross-shard block execute the same decision, and commit
\* only what all of them have accepted: Rapid keeps what AtomicCommit promises.
THEOREM RapidAllOrNothing == Safety => []Promise!AllOrNothing
<1>1. Promise!Spec => []Promise!AllOrNothing
  BY Promise!Atomicity
<1>2. Commitment!Spec => Promise!Spec
  <2>1. Commitment!Init => Promise!Init
    BY DEF Commitment!Init, Promise!Init
  <2>2. [Commitment!Next]_(Commitment!vars) => [Promise!Next]_(Promise!vars)
    BY DEF Commitment!Next, Promise!Next, Commitment!vars, Promise!vars,
       Commitment!CastVote, Promise!CastVote, Commitment!Decide, Promise!Decide,
       Commitment!Apply, Promise!Apply, Commitment!Shards, Promise!Shards
  <2> QED BY <2>1, <2>2, PTL DEF Commitment!Spec, Promise!Spec
<1> QED BY <1>1, <1>2, Refinement, PTL DEF ImplementsAtomicCommit
=============================================================================
