------------------------------- MODULE Mempool -------------------------------
(***************************************************************************)
(* A mempool of Melete: the list txs and the index txsMap, each safe for   *)
(* concurrent use, without a lock around both.  Adders are the goroutines  *)
(* that call AddTx (the importer, one for each connection); updates are    *)
(* made by the one goroutine that holds stateMtx.                          *)
(*                                                                         *)
(* An element of the list is its number in the order of PushBack, which is *)
(* also its place in the list.  Blocks come from the mempools of all       *)
(* proposers, so that an update may be for any sequence of transactions.   *)
(***************************************************************************)
EXTENDS Naturals, Sequences

CONSTANTS
  Tx,           \* transactions that pass ValidateTx
  Adder,        \* goroutines that call AddTx
  CrossShard,   \* isCrossShardMempool
  MaxAdds,      \* bound: calls of AddTx
  MaxUpdates,   \* bound: calls of Update
  MaxBlock      \* bound: transactions of a block

ASSUME MempoolAssumption ==
  CrossShard \in BOOLEAN /\ MaxAdds \in Nat /\ MaxUpdates \in Nat /\ MaxBlock \in Nat

VARIABLES value,     \* value[e]: transaction of element e
          list,      \* elements in txs
          txsMap,    \* txsMap[t]: element, or 0
          adding,    \* adding[a]: element that adder a has not yet stored, or 0
          block,     \* the update: transactions and
          status,    \* the indices whose commit bit is set
          index,     \* next transaction of the update
          pc,        \* where the update is in RemoveTx
          element,   \* the element that RemoveTx has loaded
          updates,   \* number of updates so far
          applied    \* history: transactions that updates were told to remove

vars == <<value, list, txsMap, adding, block, status, index, pc, element, updates, applied>>
updateVars == <<block, status, index, pc, element, updates, applied>>

Blocks == UNION {[1..n -> Tx] : n \in 1..MaxBlock}

Init ==
  /\ value = <<>> /\ list = {} /\ txsMap = [t \in Tx |-> 0]
  /\ adding = [a \in Adder |-> 0]
  /\ block = <<>> /\ status = {} /\ index = 1 /\ pc = "idle" /\ element = 0
  /\ updates = 0 /\ applied = {}
-----------------------------------------------------------------------------
(* AddTx: PushBack, then Store.                                            *)

PushBack(a, t) ==
  /\ adding[a] = 0
  /\ Len(value) < MaxAdds
  /\ value' = Append(value, t)
  /\ list' = list \cup {Len(value) + 1}
  /\ adding' = [adding EXCEPT ![a] = Len(value) + 1]
  /\ UNCHANGED <<txsMap, updateVars>>

Store(a) ==
  /\ adding[a] # 0
  /\ txsMap' = [txsMap EXCEPT ![value[adding[a]]] = adding[a]]
  /\ adding' = [adding EXCEPT ![a] = 0]
  /\ UNCHANGED <<value, list, updateVars>>
-----------------------------------------------------------------------------
(* Update: RemoveTx for each transaction, or, in the cross-shard mempool,  *)
(* for each one that is committed.                                         *)

\* Faulty variant: aborted transactions are removed too.
RemovesAny(j, bits) == TRUE

Removes(j, bits) == ~CrossShard \/ j \in bits

StartUpdate(txs, bits) ==
  /\ pc = "idle"
  /\ updates < MaxUpdates
  /\ block' = txs /\ status' = bits
  /\ index' = 1
  /\ pc' = "load"
  /\ updates' = updates + 1
  /\ applied' = applied \cup {txs[j] : j \in {k \in DOMAIN txs : ~CrossShard \/ k \in bits}}
  /\ UNCHANGED <<value, list, txsMap, adding, element>>

\* The next transaction of the block, or the end of the update.
GoOn ==
  IF index = Len(block)
  THEN index' = 1 /\ pc' = "idle"
  ELSE index' = index + 1 /\ pc' = "load"

\* RemoveTx: Load.
Load ==
  /\ pc = "load"
  /\ IF Removes(index, status) /\ txsMap[block[index]] # 0
     THEN element' = txsMap[block[index]] /\ pc' = "remove" /\ UNCHANGED index
     ELSE GoOn /\ UNCHANGED element
  /\ UNCHANGED <<value, list, txsMap, adding, block, status, updates, applied>>

\* RemoveTx: txs.Remove.
Remove ==
  /\ pc = "remove"
  /\ list' = list \ {element}
  /\ pc' = "delete"
  /\ UNCHANGED <<value, txsMap, adding, block, status, index, element, updates, applied>>

\* Faulty variant: the element is removed, its key stays.
DeleteNothing ==
  /\ pc = "delete"
  /\ GoOn
  /\ UNCHANGED <<value, list, txsMap, adding, block, status, element, updates, applied>>

\* RemoveTx: txsMap.Delete.
Delete ==
  /\ pc = "delete"
  /\ txsMap' = [txsMap EXCEPT ![block[index]] = 0]
  /\ GoOn
  /\ UNCHANGED <<value, list, adding, block, status, element, updates, applied>>

Next ==
  \/ \E a \in Adder : (\E t \in Tx : PushBack(a, t)) \/ Store(a)
  \/ \E txs \in Blocks : \E bits \in SUBSET (1..Len(txs)) : StartUpdate(txs, bits)
  \/ Load \/ Remove \/ Delete

Spec == Init /\ [][Next]_vars
-----------------------------------------------------------------------------
(* Properties.                                                             *)

Elements == 1..Len(value)

\* Types of the variables of the list, the index and their users.
TypeOK ==
  /\ value \in Seq(Tx)
  /\ list \subseteq Elements
  /\ txsMap \in [Tx -> Elements \cup {0}]
  /\ adding \in [Adder -> Elements \cup {0}]
  /\ block \in Seq(Tx)
  /\ status \subseteq DOMAIN block
  /\ pc \in {"idle", "load", "remove", "delete"}
  /\ index \in Nat /\ (pc # "idle" => index \in DOMAIN block)
  /\ element \in Elements \cup {0}
  /\ applied \subseteq Tx

\* The index leads to an element of the list with that transaction, except
\* between Remove and Delete, whatever adders do meanwhile.
MapIsListed ==
  \A t \in Tx : txsMap[t] # 0 =>
    /\ value[txsMap[t]] = t
    /\ txsMap[t] \in list \/ (pc = "delete" /\ block[index] = t)

\* CList.Remove gets an element that is still in the list: it never removes
\* one twice, which would panic ("Remove(e) with false head") or cut the list.
RemoveIsSafe == pc = "remove" => element \in list /\ value[element] = block[index]

\* No transaction is lost: one that was added and that no update was told to
\* remove is in the list, and the index leads to it.
Tracked ==
  \A e \in Elements :
    (\A a \in Adder : adding[a] # e) /\ value[e] \notin applied =>
      txsMap[value[e]] \in list /\ value[txsMap[value[e]]] = value[e]
=============================================================================
