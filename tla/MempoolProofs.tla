---------------------------- MODULE MempoolProofs ----------------------------
(***************************************************************************)
(* Proofs for Mempool: for any transactions, adders, blocks and number of  *)
(* calls the index leads into the list, no element is removed twice and no *)
(* transaction is lost.                                                    *)
(***************************************************************************)
EXTENDS Mempool, TLAPS

\* An element that is not stored yet is in the list, belongs to one adder,
\* and neither the index nor the update knows it.
PendingIsPrivate ==
  /\ \A a \in Adder : adding[a] # 0 =>
       /\ adding[a] \in list
       /\ \A t \in Tx : txsMap[t] # adding[a]
       /\ pc = "remove" => element # adding[a]
  /\ \A a, b \in Adder : adding[a] = adding[b] /\ adding[a] # 0 => a = b

\* RemoveTx works on a transaction that the update was told to remove.
OnlyTold ==
  /\ pc # "idle" => \A k \in DOMAIN block : ~CrossShard \/ k \in status => block[k] \in applied
  /\ pc \in {"remove", "delete"} => block[index] \in applied

MInv == TypeOK /\ MapIsListed /\ RemoveIsSafe /\ Tracked /\ PendingIsPrivate /\ OnlyTold

\* What PushBack does to the elements.
LEMMA AppendFacts ==
  ASSUME NEW S, NEW s \in Seq(S), NEW x \in S
  PROVE  /\ Append(s, x) \in Seq(S)
         /\ Len(Append(s, x)) = Len(s) + 1
         /\ \A e \in 1..Len(s) : Append(s, x)[e] = s[e]
         /\ Append(s, x)[Len(s) + 1] = x
         /\ Len(s) \in Nat
  OBVIOUS

\* The initial state satisfies the inductive invariant.
LEMMA InitMInv == Init => MInv
  BY DEF Init, MInv, TypeOK, MapIsListed, RemoveIsSafe, Tracked, PendingIsPrivate, OnlyTold, Elements

\* AddTx's first half keeps the invariant.
LEMMA PushBackStep ==
  ASSUME MInv, NEW a \in Adder, NEW t \in Tx, PushBack(a, t)
  PROVE  MInv'
<1> DEFINE n == Len(value) + 1
<1>1. /\ value' \in Seq(Tx) /\ Len(value') = n /\ Len(value) \in Nat
      /\ \A e \in Elements : value'[e] = value[e]
      /\ value'[n] = t
  BY AppendFacts DEF MInv, TypeOK, PushBack, Elements
<1>2. Elements' = Elements \cup {n} /\ n \notin Elements /\ n # 0
  BY <1>1 DEF Elements
<1>3. /\ list' = list \cup {n} /\ adding' = [adding EXCEPT ![a] = n]
      /\ txsMap' = txsMap /\ block' = block /\ status' = status /\ index' = index
      /\ pc' = pc /\ element' = element /\ applied' = applied
  BY DEF PushBack, updateVars
<1>4. TypeOK'
  BY <1>1, <1>2, <1>3 DEF MInv, TypeOK
<1>5. MapIsListed'
  BY <1>1, <1>2, <1>3 DEF MInv, TypeOK, MapIsListed
<1>6. RemoveIsSafe'
  BY <1>1, <1>2, <1>3 DEF MInv, TypeOK, RemoveIsSafe
<1>7. Tracked'
  <2> SUFFICES ASSUME NEW e \in Elements',
                      (\A b \in Adder : adding[b] # e)', (value[e] \notin applied)'
               PROVE  (txsMap[value[e]] \in list /\ value[txsMap[value[e]]] = value[e])'
    BY DEF Tracked
  <2>1. e # n
    BY <1>3 DEF MInv, TypeOK
  <2>2. e \in Elements /\ \A b \in Adder : adding[b] # e
    <3>1. e \in Elements /\ e # 0
      BY <1>1, <1>2, <2>1 DEF Elements
    <3> QED
      BY <1>3, <3>1 DEF MInv, TypeOK, PushBack
  <2>3. txsMap[value[e]] \in list /\ value[txsMap[value[e]]] = value[e]
    <3>1. value'[e] = value[e]
      BY <1>1, <2>2
    <3> QED
      BY <1>3, <2>2, <3>1 DEF MInv, Tracked
  <2>4. txsMap[value[e]] \in Elements /\ value'[e] = value[e]
    BY <1>1, <2>2, <2>3 DEF MInv, TypeOK
  <2>5. value'[txsMap[value[e]]] = value[e]
    BY <1>1, <2>3, <2>4
  <2> QED
    BY <1>3, <2>3, <2>4, <2>5
<1>8. PendingIsPrivate'
  BY <1>1, <1>2, <1>3 DEF MInv, TypeOK, PendingIsPrivate, PushBack
<1>9. OnlyTold'
  BY <1>3 DEF MInv, OnlyTold
<1> QED
  BY <1>4, <1>5, <1>6, <1>7, <1>8, <1>9 DEF MInv

\* AddTx's second half keeps the invariant.
LEMMA StoreStep ==
  ASSUME MInv, NEW a \in Adder, Store(a)
  PROVE  MInv'
<1> DEFINE e == adding[a]
<1>1. e \in Elements /\ e # 0 /\ value[e] \in Tx
  BY DEF MInv, TypeOK, Store, Elements
<1>2. /\ txsMap' = [txsMap EXCEPT ![value[e]] = e] /\ adding' = [adding EXCEPT ![a] = 0]
      /\ value' = value /\ list' = list /\ block' = block /\ status' = status
      /\ index' = index /\ pc' = pc /\ element' = element /\ applied' = applied
  BY DEF Store, updateVars
<1>3. Elements' = Elements
  BY <1>2 DEF Elements
<1>4. TypeOK'
  BY <1>1, <1>2, <1>3 DEF MInv, TypeOK
<1>5. MapIsListed'
  BY <1>1, <1>2 DEF MInv, TypeOK, MapIsListed, PendingIsPrivate
<1>6. RemoveIsSafe'
  BY <1>2 DEF MInv, RemoveIsSafe
<1>7. Tracked'
  BY <1>1, <1>2, <1>3 DEF MInv, TypeOK, Tracked, PendingIsPrivate, Elements
<1>8. PendingIsPrivate'
  BY <1>1, <1>2 DEF MInv, TypeOK, PendingIsPrivate
<1>9. OnlyTold'
  BY <1>2 DEF MInv, OnlyTold
<1> QED
  BY <1>4, <1>5, <1>6, <1>7, <1>8, <1>9 DEF MInv

\* The start of an update keeps the invariant.
LEMMA StartUpdateStep ==
  ASSUME MInv, NEW txs \in Blocks, NEW bits \in SUBSET (1..Len(txs)), StartUpdate(txs, bits)
  PROVE  MInv'
<1>1. txs \in Seq(Tx) /\ DOMAIN txs = 1..Len(txs) /\ 1 \in DOMAIN txs
  BY MempoolAssumption DEF Blocks
<1>2. /\ value' = value /\ list' = list /\ txsMap' = txsMap /\ adding' = adding
      /\ element' = element /\ block' = txs /\ status' = bits /\ index' = 1 /\ pc' = "load"
      /\ applied' = applied \cup {txs[j] : j \in {k \in DOMAIN txs : ~CrossShard \/ k \in bits}}
  BY DEF StartUpdate
<1>3. TypeOK'
  BY <1>1, <1>2 DEF MInv, TypeOK, Elements
<1>4. MapIsListed'
  BY <1>2 DEF MInv, MapIsListed, StartUpdate
<1>5. Tracked'
  BY <1>2 DEF MInv, Tracked, Elements
<1>6. RemoveIsSafe' /\ PendingIsPrivate'
  BY <1>2 DEF MInv, RemoveIsSafe, PendingIsPrivate
<1>7. OnlyTold'
  BY <1>1, <1>2 DEF OnlyTold
<1> QED
  BY <1>3, <1>4, <1>5, <1>6, <1>7 DEF MInv

\* Going on to the next transaction stays within the block.
LEMMA GoOnFacts ==
  ASSUME TypeOK, pc # "idle", GoOn
  PROVE  /\ index' \in Nat /\ pc' \in {"idle", "load"}
         /\ pc' # "idle" => index' \in DOMAIN block
  BY DEF TypeOK, GoOn

\* The steps of RemoveTx keep the invariant.
LEMMA LoadStep ==
  ASSUME MInv, Load
  PROVE  MInv'
<1>1. /\ value' = value /\ list' = list /\ txsMap' = txsMap /\ adding' = adding
      /\ block' = block /\ status' = status /\ applied' = applied /\ pc = "load"
      /\ index \in DOMAIN block /\ block[index] \in Tx
  BY DEF Load, MInv, TypeOK
<1>2. CASE Removes(index, status) /\ txsMap[block[index]] # 0
  <2>1. element' = txsMap[block[index]] /\ pc' = "remove" /\ index' = index
    BY <1>2 DEF Load
  <2>2. element' \in list /\ value[element'] = block[index]
    BY <1>1, <1>2, <2>1 DEF MInv, MapIsListed
  <2>3. TypeOK'
    BY <1>1, <2>1 DEF MInv, TypeOK, Elements
  <2>4. MapIsListed' /\ RemoveIsSafe'
    BY <1>1, <2>1, <2>2 DEF MInv, MapIsListed, RemoveIsSafe
  <2>5. Tracked' /\ PendingIsPrivate'
    BY <1>1, <2>1 DEF MInv, Tracked, PendingIsPrivate, Elements
  <2>6. OnlyTold'
    BY <1>1, <1>2, <2>1 DEF MInv, OnlyTold, Removes
  <2> QED
    BY <2>3, <2>4, <2>5, <2>6 DEF MInv
<1>3. CASE ~(Removes(index, status) /\ txsMap[block[index]] # 0)
  <2>1. element' = element /\ GoOn
    BY <1>3 DEF Load
  <2>2. index' \in Nat /\ pc' \in {"idle", "load"} /\ (pc' # "idle" => index' \in DOMAIN block)
    BY <1>1, <2>1, GoOnFacts DEF MInv
  <2>3. TypeOK'
    BY <1>1, <2>1, <2>2 DEF MInv, TypeOK, Elements
  <2>4. MapIsListed' /\ RemoveIsSafe' /\ Tracked' /\ PendingIsPrivate' /\ OnlyTold'
    BY <1>1, <2>1, <2>2
       DEF MInv, MapIsListed, RemoveIsSafe, Tracked, PendingIsPrivate, OnlyTold, Elements
  <2> QED
    BY <2>3, <2>4 DEF MInv
<1> QED
  BY <1>2, <1>3

LEMMA RemoveStep ==
  ASSUME MInv, Remove
  PROVE  MInv'
<1>1. /\ value' = value /\ list' = list \ {element} /\ txsMap' = txsMap /\ adding' = adding
      /\ block' = block /\ status' = status /\ applied' = applied /\ index' = index
      /\ element' = element /\ pc = "remove" /\ pc' = "delete"
  BY DEF Remove
<1>2. value[element] = block[index] /\ block[index] \in applied
  BY <1>1 DEF MInv, RemoveIsSafe, OnlyTold
<1>3. TypeOK'
  BY <1>1 DEF MInv, TypeOK, Elements
<1>4. MapIsListed'
  BY <1>1, <1>2 DEF MInv, MapIsListed
<1>5. Tracked'
  BY <1>1, <1>2 DEF MInv, Tracked, Elements
<1>6. PendingIsPrivate' /\ RemoveIsSafe' /\ OnlyTold'
  BY <1>1 DEF MInv, PendingIsPrivate, RemoveIsSafe, OnlyTold
<1> QED
  BY <1>3, <1>4, <1>5, <1>6 DEF MInv

LEMMA DeleteStep ==
  ASSUME MInv, Delete
  PROVE  MInv'
<1>1. /\ value' = value /\ list' = list /\ adding' = adding
      /\ block' = block /\ status' = status /\ applied' = applied
      /\ element' = element /\ pc = "delete"
      /\ txsMap' = [txsMap EXCEPT ![block[index]] = 0]
      /\ block[index] \in Tx /\ block[index] \in applied /\ 0 \notin list
  BY DEF Delete, MInv, TypeOK, OnlyTold, Elements
<1>2. index' \in Nat /\ pc' \in {"idle", "load"} /\ (pc' # "idle" => index' \in DOMAIN block)
  BY <1>1, GoOnFacts DEF MInv, Delete
<1>3. TypeOK'
  BY <1>1, <1>2 DEF MInv, TypeOK, Elements
<1>4. MapIsListed'
  BY <1>1, <1>2 DEF MInv, TypeOK, MapIsListed
<1>5. Tracked'
  BY <1>1 DEF MInv, TypeOK, Tracked, Elements
<1>6. PendingIsPrivate' /\ RemoveIsSafe' /\ OnlyTold'
  BY <1>1, <1>2 DEF MInv, TypeOK, PendingIsPrivate, RemoveIsSafe, OnlyTold
<1> QED
  BY <1>3, <1>4, <1>5, <1>6 DEF MInv

\* MInv is an inductive invariant.
THEOREM MempoolInductive == Spec => []MInv
<1>1. MInv /\ [Next]_vars => MInv'
  <2> SUFFICES ASSUME MInv, [Next]_vars PROVE MInv'
    OBVIOUS
  <2>1. CASE UNCHANGED vars
    BY <2>1 DEF vars, MInv, TypeOK, MapIsListed, RemoveIsSafe, Tracked, PendingIsPrivate, OnlyTold, Elements
  <2>2. CASE Next
    BY <2>2, PushBackStep, StoreStep, StartUpdateStep, LoadStep, RemoveStep, DeleteStep DEF Next
  <2> QED
    BY <2>1, <2>2
<1> QED
  BY InitMInv, <1>1, PTL DEF Spec

\* RemoveTx never hands CList.Remove an element that is no longer listed.
THEOREM RemovesAreSafe == Spec => []RemoveIsSafe
  BY MempoolInductive, PTL DEF MInv

\* Between updates the index leads into the list.
THEOREM MapLeadsIntoList == Spec => []MapIsListed
  BY MempoolInductive, PTL DEF MInv

\* No transaction is lost before an update is told to remove it.
THEOREM NothingIsLost == Spec => []Tracked
  BY MempoolInductive, PTL DEF MInv
=============================================================================
