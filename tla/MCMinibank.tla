----------------------------- MODULE MCMinibank -----------------------------
(***************************************************************************)
(* Two C-shards that share I-shard i1; c2 also works on i2.                *)
(***************************************************************************)
EXTENDS Minibank

MCRelated ==
  [s \in Shard |-> CASE s = "i1" -> {"c1", "c2"} [] s = "i2" -> {"c2"}
                     [] s = "c1" -> {"i1"} [] s = "c2" -> {"i1", "i2"}]

MCOrder == <<"c1", "c2">>

MCKeyRange ==
  [s \in Shard |-> CASE s = "i1" -> {"k1", "b1"} [] s = "i2" -> {"k2"}
                     [] s = "c1" -> {"a1"} [] s = "c2" -> {"a2"}]

Transfer(from, fromMoney, to, toMoney) ==
  [type |-> "transfer", from |-> from, fromMoney |-> fromMoney, to |-> to, toMoney |-> toMoney]
Insert(account, money) == [type |-> "insert", account |-> account, money |-> money]

\* The mempools hold transfers only, or accounts that are inserted in three
\* places.

\* Accounts of a transfer are different, as generateAccounts makes them.  The
\* second transfer of c2 depends on the first, and only on an account of i2.
TransferCross ==
  [c \in CShards |->
     IF c = "c1" THEN {Transfer(<<"k1">>, <<1>>, <<"a1">>, <<1>>)}
     ELSE {Transfer(<<"k1">>, <<1>>, <<"k2">>, <<1>>), Transfer(<<"k2", "a2">>, <<1, 1>>, <<"b1">>, <<2>>)}]
TransferInner ==
  [s \in Shard |-> IF s = "i1" THEN {Transfer(<<"b1">>, <<1>>, <<"k1">>, <<1>>)} ELSE {}]

\* Accounts that are inserted by both C-shards and inside i1.
InsertCross ==
  [c \in CShards |->
     IF c = "c1" THEN {Insert("k1", 2), Transfer(<<"k1">>, <<2>>, <<"a1">>, <<2>>)}
     ELSE {Insert("k1", 0)}]
InsertInner == [s \in Shard |-> IF s = "i1" THEN {Insert("k1", 1)} ELSE {}]

MCCross == [c \in CShards |-> TransferCross[c] \cup InsertCross[c]]
MCInner == [s \in Shard |-> TransferInner[s] \cup InsertInner[s]]

InBlocks(cross, inner) ==
  \A s \in Shard : \A h \in DOMAIN blocks[s] :
    /\ ToSet(blocks[s][h].inner) \subseteq inner[s]
    /\ s \in CShards => ToSet(blocks[s][h].cross) \subseteq cross[s]

OneKind == InBlocks(TransferCross, TransferInner) \/ InBlocks(InsertCross, InsertInner)

MCSpec == Init /\ [][Next /\ OneKind']_vars
=============================================================================
