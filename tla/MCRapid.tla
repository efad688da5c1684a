------------------------------ MODULE MCRapid ------------------------------
(***************************************************************************)
(* Instances of Rapid: two B-shards that share I-shards.                   *)
(***************************************************************************)
EXTENDS Rapid

\* b1 is over both I-shards, b2 over the first alone.
MeshRelated == [c \in {"b1", "b2", "i1", "i2"} |->
  [b1 |-> {"i1", "i2"}, b2 |-> {"i1"}, i1 |-> {"b1", "b2"}, i2 |-> {"b1"}][c]]
MeshKeyRange == [c \in {"i1", "i2"} |-> [i1 |-> {"a", "c"}, i2 |-> {"b"}][c]]

\* One transaction each, on a common account.
ShortCross == [c \in {"b1", "b2"} |-> [b1 |-> <<{"a", "b"}>>, b2 |-> <<{"a", "c"}>>][c]]

\* Both B-shards are over one I-shard; b1 has two transactions.
ForkRelated == [c \in {"b1", "b2", "i1"} |-> IF c = "i1" THEN {"b1", "b2"} ELSE {"i1"}]
ForkKeyRange == [c \in {"i1"} |-> {"a", "b", "c"}]
ForkCross == [c \in {"b1", "b2"} |-> [b1 |-> <<{"a", "b"}, {"b", "c"}>>, b2 |-> <<{"a", "c"}>>][c]]
=============================================================================
