------------------------------ MODULE Minibank ------------------------------
(***************************************************************************)
(* The minibank application (melete/abci/minibank) under the commitment    *)
(* protocol: what the shards execute, on which values, and what they store.*)
(*                                                                         *)
(* All nodes of a shard are in the same state, see Melete, so a shard has  *)
(* one database, db[s], of the accounts of its KeyRangeTree.  An account   *)
(* that is not stored has InitBalance (MemoryDB.Get).  The vote of an      *)
(* I-shard and the certificate of a C-shard are what the majority sends.   *)
(* Blocks, cross-shard data and votes are values: encodings are left out,  *)
(* and so are LockedKeys, which nothing fills.                             *)
(***************************************************************************)
EXTENDS Naturals, Sequences, FiniteSets, TLC, SequencesExt, FiniteSetsExt

CONSTANTS
  IShards, CShards,   \* chain ids
  Related,            \* Related[s]: RelatedShards
  Order,              \* the C-shards as sortShards orders them
  KeyRange,           \* KeyRange[s]: the accounts of KeyRangeMap[s]
  CrossTx, InnerTx,   \* CrossTx[c], InnerTx[s]: what the mempools may hold
  MaxCross, MaxInner, \* bounds: cross-shard and inner transactions of a block
  MaxHeight,          \* bound: heights
  InitBalance,
  Wrap,               \* 2^32: balances are uint32
  None

Shard == IShards \cup CShards
Key == UNION {KeyRange[s] : s \in Shard}

Related2Level(c) == (UNION {Related[i] : i \in Related[c]}) \ {c}
CNeighbours(s) == IF s \in CShards THEN {s} \cup Related2Level(s) ELSE Related[s]
INeighbours(s) == IF s \in CShards THEN {s} \cup Related[s] ELSE {s}
SortShards(S) == SelectSeq(Order, LAMBDA c : c \in S)

\* createKeyRangeTree: a C-shard also holds the accounts of its I-shards.
KeyRangeTree(s) == UNION {KeyRange[d] : d \in INeighbours(s)}

ASSUME BankAssumption ==
  /\ ToSet(Order) = CShards /\ Len(Order) = Cardinality(CShards)
  /\ \A s, t \in Shard : s # t => KeyRange[s] \cap KeyRange[t] = {}
  /\ \A c \in CShards : Related[c] \subseteq IShards /\ Related[c] # {}
  /\ \A c, d \in Shard : c \in Related[d] <=> d \in Related[c]

VARIABLES db,       \* db[s][k]: stored balance, or None
          blocks,   \* blocks[s][h]: the block of shard s at height h
          votes,    \* votes[i][h]: the commit status vote of I-shard i
          outputs,  \* outputs[c]: preExecutionOutputList of the current block
          height,   \* heights that the shard has executed
          panicked  \* shards whose Execution met an error

vars == <<db, blocks, votes, outputs, height, panicked>>
-----------------------------------------------------------------------------
(* Databases.  A transaction sees the values it can Get, the accounts it   *)
(* finds with Has, and the accounts it may Set without an error.           *)

Empty == [k \in {} |-> 0]

\* MemoryDB.Get: the writes of earlier transactions, then the store.
Get(disk, mem, k) ==
  IF k \in DOMAIN mem THEN mem[k] ELSE IF disk[k] # None THEN disk[k] ELSE InitBalance

RangeDB(disk, mem, range) ==
  [vals |-> [k \in range |-> Get(disk, mem, k)],
   has  |-> {k \in range : k \in DOMAIN mem \/ disk[k] # None},
   own  |-> range]

CrossShardDB(data) == [vals |-> data, has |-> DOMAIN data, own |-> Key]

\* RangeDB.Write: the accounts of the range go to the store.
Write(disk, mem, range) ==
  [k \in DOMAIN disk |-> IF k \in DOMAIN mem \cap range THEN mem[k] ELSE disk[k]]
-----------------------------------------------------------------------------
(* Transactions.                                                           *)

\* getRWSet: what a transaction reads and writes.  It decodes an insert as a
\* transfer, which has the account in the same field.
KeysOf(tx) == IF tx.type = "transfer" THEN ToSet(tx.from) \cup ToSet(tx.to) ELSE {tx.account}

SumOf(money) == FoldLeft(LAMBDA sum, x : (sum + x) % Wrap, 0, money)

ValidateTransferTx(tx) ==
  /\ Len(tx.from) = Len(tx.fromMoney) /\ Len(tx.to) = Len(tx.toMoney)
  /\ tx.from # <<>> /\ tx.to # <<>>
  /\ SumOf(tx.fromMoney) = SumOf(tx.toMoney)

Failed == [ok |-> FALSE, reads |-> Empty, writes |-> Empty]

\* Faulty variant: a sum that stays below 2^32.
CreditSaturating(balance, money) ==
  IF balance + money >= Wrap THEN Wrap - 1 ELSE balance + money

Credit(balance, money) == (balance + money) % Wrap

\* doTransfer: all balances are read before the first is set, debits are set
\* before credits, and of an account listed twice the last Set counts.
DoTransfer(tx, view) ==
  LET lastOf(list, k) == SelectLastInSeq(list, LAMBDA x : x = k)
      enough == \A j \in DOMAIN tx.from : view.vals[tx.from[j]] >= tx.fromMoney[j]
      balance(k) ==
        IF k \in ToSet(tx.to) THEN Credit(view.vals[k], tx.toMoney[lastOf(tx.to, k)])
        ELSE view.vals[k] - tx.fromMoney[lastOf(tx.from, k)]
  IN  IF ValidateTransferTx(tx) /\ KeysOf(tx) \subseteq DOMAIN view.vals /\ enough
      THEN [ok |-> TRUE, reads |-> [k \in KeysOf(tx) |-> view.vals[k]],
            writes |-> [k \in KeysOf(tx) |-> balance(k)]]
      ELSE Failed

\* doInsert: Has leaves nothing in the read set.
DoInsert(tx, view) ==
  IF tx.account \in view.own \ view.has
  THEN [ok |-> TRUE, reads |-> Empty, writes |-> tx.account :> tx.money]
  ELSE Failed

Execute(tx, view) == IF tx.type = "transfer" THEN DoTransfer(tx, view) ELSE DoInsert(tx, view)

\* The transactions one after the other; CommitWrite keeps the writes of
\* those that succeed.
RunTxs(disk, range, txs) ==
  FoldLeft(LAMBDA mem, tx : Execute(tx, RangeDB(disk, mem, range)).writes @@ mem, Empty, txs)
-----------------------------------------------------------------------------
(* PreExecutionC: the C-shard runs its cross-shard transactions and puts   *)
(* the values they read into the block.                                    *)

PreExecutionC(disk, range, txs) ==
  LET step(acc, tx) ==
        LET r == Execute(tx, RangeDB(disk, acc.mem, range)) IN
        [mem |-> r.writes @@ acc.mem,
         datas |-> Append(acc.datas, [ok |-> r.ok, data |-> r.reads]),
         outputs |-> Append(acc.outputs, r.writes)]
  IN  FoldLeft(step, [mem |-> Empty, datas |-> <<>>, outputs |-> <<>>], txs)
-----------------------------------------------------------------------------
(* PreExecutionI: the votes of an I-shard on the blocks of its C-shards.   *)
(* A dependency graph maps an account to the vote on its last writer.      *)

\* Faulty variant: blocks of other C-shards are not looked at.
DependenciesHoldInBlock(keys, dg, before) == \A k \in keys \cap DOMAIN dg : dg[k]

\* A transaction may read what accepted transactions of its block wrote,
\* and nothing that an earlier block writes.
DependenciesHold(keys, dg, before) ==
  \A k \in keys : IF k \in DOMAIN dg THEN dg[k] ELSE k \notin before

\* The first pass over one block.
DependencyVotes(block, before) ==
  LET step(acc, tx) ==
        LET ok == DependenciesHold(KeysOf(tx), acc.dg, before) IN
        [dg |-> [k \in KeysOf(tx) |-> ok] @@ acc.dg, bv |-> Append(acc.bv, ok)]
  IN  FoldLeft(step, [dg |-> Empty, bv |-> <<>>], block.cross).bv

\* Faulty variant: the values are compared with the store, without the
\* writes of the earlier transactions of the block.
FreshInStore(disk, mem, data, range) ==
  \A k \in DOMAIN data \cap range : Get(disk, Empty, k) = data[k]

\* The values of this shard's accounts are the ones the block carries.
Fresh(disk, mem, data, range) ==
  \A k \in DOMAIN data \cap range : Get(disk, mem, k) = data[k]

\* The second pass (preExecutionBFunc).  A transaction that the C-shard
\* itself has refused is voted for, so that it leaves the mempool.
ExecutionVotes(disk, range, block, bv) ==
  LET step(acc, j) ==
        LET d == block.datas[j]
            r == Execute(block.cross[j], CrossShardDB(d.data))
            holds == \A k \in DOMAIN d.data \cap DOMAIN acc.dg : acc.dg[k]
            keep(vote) == [acc EXCEPT !.bv = Append(@, vote)]
        IN  IF ~bv[j] THEN keep(FALSE)
            ELSE IF ~d.ok THEN keep(TRUE)
            ELSE IF ~Fresh(disk, acc.mem, d.data, range) \/ ~r.ok THEN keep(FALSE)
            ELSE [mem |-> IF holds THEN r.writes @@ acc.mem ELSE acc.mem,
                  dg |-> [k \in DOMAIN r.writes |-> holds] @@ acc.dg,
                  bv |-> Append(acc.bv, holds)]
  IN  FoldLeftDomain(step, [mem |-> Empty, dg |-> Empty, bv |-> <<>>], block.cross).bv

\* blockOf[c]: the block of C-shard c.
PreExecutionI(i, disk, blockOf) ==
  LET order == SortShards(Related[i])
      before(j) == UNION {UNION {KeysOf(tx) : tx \in ToSet(blockOf[order[m]].cross)} : m \in 1..(j - 1)}
      votesOn(j) == ExecutionVotes(disk, KeyRangeTree(i), blockOf[order[j]],
                                   DependencyVotes(blockOf[order[j]], before(j)))
  IN  [c \in Related[i] |-> votesOn(CHOOSE j \in DOMAIN order : order[j] = c)]
-----------------------------------------------------------------------------
(* Execution of a height.                                                  *)

\* executionAllBlocks: And over the I-shards of the C-shard.
CommitStatus(c, h) ==
  [j \in DOMAIN blocks[c][h].cross |-> \A i \in Related[c] : votes[i][h][c][j]]

Skips(d, committed) == ~d.ok \/ ~committed

\* executionC for one block: a node of the C-shard that made the block uses
\* the kept outputs, every other node runs the transaction on the data of
\* the block and panics if it fails.
ExecutionC(s, c, h) ==
  LET block == blocks[c][h]
      step(acc, j) ==
        LET d == block.datas[j]
            r == Execute(block.cross[j], CrossShardDB(d.data))
        IN  IF Skips(d, CommitStatus(c, h)[j]) THEN acc
            ELSE IF s = c /\ Len(outputs[c]) >= j THEN [acc EXCEPT !.mem = outputs[c][j] @@ @]
            ELSE [mem |-> r.writes @@ acc.mem, panic |-> acc.panic \/ ~r.ok]
  IN  FoldLeftDomain(step, [mem |-> Empty, panic |-> FALSE], block.cross)

\* Execution: cross-shard writes block by block, then the inner blocks, each
\* on the accounts of its own shard.
Execution(s, h) ==
  LET order == SortShards(CNeighbours(s))
      results == [c \in CNeighbours(s) |-> ExecutionC(s, c, h)]
      stored == FoldLeft(LAMBDA disk, c : Write(disk, results[c].mem, KeyRangeTree(s)),
                         db[s], order)
      inner(d) == RunTxs(stored, KeyRange[d], blocks[d][h].inner)
      mems == [d \in INeighbours(s) |-> inner(d)]
  IN  [disk |-> [k \in DOMAIN stored |->
                   LET d == CHOOSE d \in INeighbours(s) : k \in KeyRange[d] IN
                   IF k \in DOMAIN mems[d] THEN mems[d][k] ELSE stored[k]],
       panic |-> \E c \in CNeighbours(s) : results[c].panic]
-----------------------------------------------------------------------------
Init ==
  /\ db = [s \in Shard |-> [k \in KeyRangeTree(s) |-> None]]
  /\ blocks = [s \in Shard |-> <<>>]
  /\ votes = [i \in IShards |-> <<>>]
  /\ outputs = [c \in CShards |-> <<>>]
  /\ height = [s \in Shard |-> 0]
  /\ panicked = {}

\* The shard's block of the height it works on is there.
HasBlock(s, h) == Len(blocks[s]) >= h
HasVote(i, h) == Len(votes[i]) >= h

\* createBlockAndBroadcast, and doPropose of the other nodes, which repeat
\* PreExecutionC and keep the same outputs.
CreateBlock(s) ==
  /\ s \notin panicked
  /\ height[s] < MaxHeight /\ ~HasBlock(s, height[s] + 1)
  /\ \E inner \in BoundedSeq(InnerTx[s], MaxInner) :
       IF s \in IShards
       THEN /\ blocks' = [blocks EXCEPT ![s] = Append(@, [cross |-> <<>>, datas |-> <<>>, inner |-> inner])]
            /\ UNCHANGED outputs
       ELSE \E cross \in BoundedSeq(CrossTx[s], MaxCross) :
              LET r == PreExecutionC(db[s], KeyRangeTree(s), cross) IN
              /\ blocks' = [blocks EXCEPT ![s] =
                              Append(@, [cross |-> cross, datas |-> r.datas, inner |-> inner])]
              /\ outputs' = [outputs EXCEPT ![s] = r.outputs]
  /\ UNCHANGED <<db, votes, height, panicked>>

\* doCSA.
Accept(i) ==
  LET h == height[i] + 1 IN
  /\ i \notin panicked
  /\ HasBlock(i, h) /\ ~HasVote(i, h)
  /\ \A c \in Related[i] : HasBlock(c, h)
  /\ votes' = [votes EXCEPT ![i] =
                 Append(@, PreExecutionI(i, db[i], [c \in Related[i] |-> blocks[c][h]]))]
  /\ UNCHANGED <<db, blocks, outputs, height, panicked>>

\* doCSC_C and doCSC_I: Execution, then Commit drops the kept outputs.
CommitHeight(s) ==
  LET h == height[s] + 1
      result == Execution(s, h)
  IN
  /\ s \notin panicked
  /\ \A d \in CNeighbours(s) \cup INeighbours(s) : HasBlock(d, h)
  /\ \A c \in CNeighbours(s) : \A i \in Related[c] : HasVote(i, h)
  /\ IF result.panic
     THEN panicked' = panicked \cup {s} /\ UNCHANGED <<db, outputs, height>>
     ELSE /\ db' = [db EXCEPT ![s] = result.disk]
          /\ outputs' = IF s \in CShards THEN [outputs EXCEPT ![s] = <<>>] ELSE outputs
          /\ height' = [height EXCEPT ![s] = h]
          /\ UNCHANGED panicked
  /\ UNCHANGED <<blocks, votes>>

Finished == \A s \in Shard : height[s] = MaxHeight

Next ==
  \/ \E s \in Shard : CreateBlock(s)
  \/ \E i \in IShards : Accept(i)
  \/ \E s \in Shard : CommitHeight(s)
  \/ Finished /\ UNCHANGED vars

Spec == Init /\ [][Next]_vars
-----------------------------------------------------------------------------
(* Properties.                                                             *)

\* Balances are uint32 and only those of the shard's accounts; a shard is at
\* most one block, and an I-shard one vote, ahead of what it has executed.
TypeOK ==
  /\ \A s \in Shard : db[s] \in [KeyRangeTree(s) -> (0..(Wrap - 1)) \cup {None}]
  /\ \A s \in Shard : Len(blocks[s]) \in {height[s], height[s] + 1}
  /\ \A i \in IShards : Len(votes[i]) \in height[i]..Len(blocks[i])
  /\ panicked \subseteq Shard

\* The transactions of C-shard c at height h that the protocol commits.
CommittedTxs(c, h) ==
  LET cross == blocks[c][h].cross
      indices == SelectSeq([j \in DOMAIN cross |-> j],
                           LAMBDA j : blocks[c][h].datas[j].ok /\ CommitStatus(c, h)[j])
  IN  [m \in DOMAIN indices |-> cross[indices[m]]]

\* One bank with all accounts: the committed transactions of each C-shard in
\* turn, then the inner ones, each on the balances it finds.
SerialHeight(disk, h) ==
  LET runC(d, c) == Write(d, RunTxs(d, KeyRangeTree(c), CommittedTxs(c, h)), Key)
      runI(d, s) == Write(d, RunTxs(d, KeyRange[s], blocks[s][h].inner), Key)
      shards == SetToSeq(Shard)
  IN  FoldLeft(runI, FoldLeft(runC, disk, Order), shards)

InitDisk == [k \in Key |-> None]

Complete(h) == (\A s \in Shard : HasBlock(s, h)) /\ \A i \in IShards : HasVote(i, h)

SerialDisk(h) == FoldLeft(SerialHeight, InitDisk, [j \in 1..h |-> j])

\* The C-shards of a height execute in parallel, on values read before the
\* conflicts of the height were known, and shards store different accounts;
\* yet each shard has for its accounts what one bank would have that runs
\* the committed transactions one after the other.  (So shards that hold the
\* same account agree on it.)  And a transaction that is committed succeeds
\* when it is executed, or executionC would panic.
ExecutionIsSerial ==
  /\ TypeOK /\ panicked = {}
  /\ \A s \in Shard : Complete(height[s]) =>
       \A k \in KeyRangeTree(s) : db[s][k] = SerialDisk(height[s])[k]

Owner(k) == CHOOSE s \in Shard : k \in KeyRange[s]

OnlyTransfers ==
  \A s \in Shard : \A h \in DOMAIN blocks[s] :
    \A t \in ToSet(blocks[s][h].cross) \cup ToSet(blocks[s][h].inner) : t.type = "transfer"

\* Transfers neither make nor lose money, in the arithmetic of uint32: after
\* each height the balances add up to what they were at the start.
MoneyConserved ==
  OnlyTransfers /\ (\A s, t \in Shard : height[s] = height[t]) =>
    MapThenSumSet(LAMBDA k : Get(db[Owner(k)], Empty, k), Key) % Wrap
      = (Cardinality(Key) * InitBalance) % Wrap

\* No needless abort: an I-shard refuses transactions of a block only if the
\* block touches an account that the block of an earlier C-shard touches
\* (PreExecutionI: the data of a block of this height is never stale).
RefusedOnlyInConflict ==
  \A i \in IShards : \A h \in DOMAIN votes[i] : \A c \in Related[i] :
    (\E j \in DOMAIN votes[i][h][c] : ~votes[i][h][c][j]) =>
      \E m, n \in DOMAIN Order :
        /\ m < n /\ Order[n] = c /\ Order[m] \in Related[i]
        /\ \E t \in ToSet(blocks[c][h].cross), u \in ToSet(blocks[Order[m]][h].cross) :
             KeysOf(t) \cap KeysOf(u) # {}
=============================================================================
