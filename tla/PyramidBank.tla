---------------------------- MODULE PyramidBank ----------------------------
(***************************************************************************)
(* The minibank application of Pyramid (pyramid/abci/minibank): what a     *)
(* node does with the blocks that consensus gives to it.                   *)
(*                                                                         *)
(* The state of the application of a node has three parts:                 *)
(*   db     the balances in DBConn; an account that is not stored has      *)
(*          initBalance, as MemoryDB.Get answers                           *)
(*   locks  LockedKeys: the accounts that an accepted cross-shard block    *)
(*          will write, with the value it will write                       *)
(*   ready  the hashes of the accepted blocks, whose state in the block    *)
(*          store is "ok"                                                  *)
(* Transactions and cross-shard data are values; encodings are left out.   *)
(***************************************************************************)
EXTENDS Naturals, Sequences, TLC, SequencesExt

CONSTANTS Key,           \* accounts
          InitBalance,   \* initBalance
          Wrap           \* 2^32: balances are uint32

NewApplication == [db |-> [k \in Key |-> InitBalance], locks |-> <<>>, ready |-> {}]

\* getRWSet and appendRWSet: the accounts a transfer reads and writes.
KeysOf(tx) == ToSet(tx.from) \cup ToSet(tx.to)
KeysOfAll(txs) == UNION {KeysOf(tx) : tx \in ToSet(txs)}

IsLocked(app, k) == k \in DOMAIN app.locks

\* CheckLock: no account of the transaction is locked.
CheckLock(locked, tx) == KeysOf(tx) \cap locked = {}

SumOf(money) == FoldLeft(LAMBDA sum, x : (sum + x) % Wrap, 0, money)

ValidateTransferTx(tx) ==
  /\ Len(tx.from) = Len(tx.fromMoney) /\ Len(tx.to) = Len(tx.toMoney)
  /\ tx.from # <<>> /\ tx.to # <<>>
  /\ SumOf(tx.fromMoney) = SumOf(tx.toMoney)

\* The balances are read before the first is set, debits are set before
\* credits, and of an account listed twice the last Set counts.
LastOf(list, k) == SelectLastInSeq(list, LAMBDA x : x = k)
NewBalance(tx, vals, k) ==
  IF k \in ToSet(tx.to) THEN (vals[k] + tx.toMoney[LastOf(tx.to, k)]) % Wrap
  ELSE vals[k] - tx.fromMoney[LastOf(tx.from, k)]

\* doTransfer on the balances vals of the accounts the transaction may touch:
\* whether it succeeds, and what it then sets.
TransferOK(locked, tx, vals) ==
  /\ ValidateTransferTx(tx)
  /\ CheckLock(locked, tx)
  /\ KeysOf(tx) \subseteq DOMAIN vals
  /\ \A j \in DOMAIN tx.from : vals[tx.from[j]] >= tx.fromMoney[j]

DoTransfer(locked, tx, vals) ==
  IF TransferOK(locked, tx, vals) THEN [k \in KeysOf(tx) |-> NewBalance(tx, vals, k)] ELSE <<>>

\* RangeDB over a MemoryDB: the accounts of the range.
RangeDB(app, range) == [k \in range |-> app.db[k]]

\* The transactions one after the other on the balances of a range: those that
\* fail leave nothing.
ExecuteTxs(locked, vals, txs) ==
  FoldLeft(LAMBDA db, tx : DoTransfer(locked, tx, db) @@ db, vals, txs)

\* ExecutionInnerShard: what the transactions have written is stored.
ExecutionInnerShard(app, txs, range) ==
  LET new == ExecuteTxs(DOMAIN app.locks \cap range, RangeDB(app, range), txs) IN
  [app EXCEPT !.db = [k \in Key |-> IF k \in range THEN new[k] ELSE @[k]]]

\* The entry of a transaction in the cross-shard data of its block.
DataOf(locked, tx, vals) ==
  IF TransferOK(locked, tx, vals) THEN [ok |-> TRUE, data |-> [k \in KeysOf(tx) |-> vals[k]]]
  ELSE [ok |-> FALSE, data |-> <<>>]

FillOne(locked, acc, tx) ==
  [db    |-> DoTransfer(locked, tx, acc.db) @@ acc.db,
   datas |-> Append(acc.datas, DataOf(locked, tx, acc.db))]

\* FillData: a B-shard runs its cross-shard transactions on its copy of the
\* accounts and puts what each of them read into the block.
FillData(app, txs, range) ==
  FoldLeft(LAMBDA acc, tx : FillOne(DOMAIN app.locks, acc, tx),
           [db |-> RangeDB(app, range), datas |-> <<>>], txs).datas

\* PreExecutionI: a block that touches a locked account is refused.  The
\* loop that compares the data of the block with the database runs over
\* BodyTxs, of which a cross-shard block has none: it refuses nothing.
PreExecutionI(app, block) == \A k \in KeysOfAll(block.txs) : ~IsLocked(app, k)

\* What the transactions of a block write, on the data the block carries.
BlockWrites(locked, block) ==
  FoldLeftDomain(LAMBDA mem, j :
                   IF block.datas[j].ok
                   THEN DoTransfer(locked, block.txs[j], block.datas[j].data) @@ mem ELSE mem,
                 <<>>, block.txs)

Within(mem, range) == [k \in DOMAIN mem \cap range |-> mem[k]]

\* setLock: a lock that is there stays.
SetLocks(locks, new) ==
  [k \in DOMAIN locks \cup DOMAIN new |-> IF k \in DOMAIN locks THEN locks[k] ELSE new[k]]

\* AcceptCrossShard: the accounts of the shard that the block writes are
\* locked with their new values.
AcceptCrossShard(app, block, hash, range, ifcommit) ==
  [app EXCEPT !.locks = IF ifcommit THEN SetLocks(@, Within(BlockWrites(DOMAIN @, block), range)) ELSE @,
              !.ready = @ \cup {hash}]

\* releaseLock and undoLock of the accounts in keys.
Unlock(app, keys) ==
  [app EXCEPT !.locks = [k \in DOMAIN @ \ keys |-> @[k]]]

\* Faulty variant: the locks go, the values are not stored.
ReleaseLocksUnwritten(app, keys) == Unlock(app, keys)

ReleaseLocks(app, keys) ==
  [Unlock(app, keys) EXCEPT
    !.db = [k \in Key |-> IF k \in keys /\ IsLocked(app, k) THEN app.locks[k] ELSE @[k]]]

\* AcceptCommitShard for one cross-shard block: nothing for a block that was
\* not accepted here.  An abort drops the locks of the block's accounts,
\* whichever block they were set for.
AcceptCommit(app, block, hash, range, commit) ==
  LET keys == KeysOfAll(block.txs) \cap range IN
  IF hash \notin app.ready THEN app
  ELSE IF commit THEN ReleaseLocks(app, keys)
  ELSE Unlock(app, keys)
=============================================================================
