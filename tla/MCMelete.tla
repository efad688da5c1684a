------------------------------ MODULE MCMelete ------------------------------
(***************************************************************************)
(* Melete with two C-shards that share an I-shard: second-level            *)
(* neighbours.  It is explored over two heights with the parts folded into *)
(* their headers, and over one height in which the block of one C-shard    *)
(* travels to its neighbours in a part of its own, the validator of the    *)
(* other starts late, and messages are duplicated.                         *)
(* Module MCMeleteGroups has the smaller topologies.                       *)
(***************************************************************************)
EXTENDS MeleteDelivery

VARIABLE parts   \* whether the block of c1 travels to its neighbours in a part

MCvars == <<parts, deliveryVars>>

AllNodes == Node

ForkRelated == [c \in {"i1", "c1", "c2"} |-> IF c = "i1" THEN {"c1", "c2"} ELSE {"i1"}]

\* A peer list of one or two validators with one Vote each, as the
\* configuration generator makes them.
ForkVotes == [c \in {"i1", "c1", "c2"} |-> [v \in 0..(IF c = "c1" THEN 1 ELSE 0) |-> 1]]

\* The answer depends on the state the blocks are executed on: the shard
\* accepts the transactions at its first height and refuses them later.
FirstHeightOnly(i, root, blocks) ==
  [d \in DOMAIN blocks |-> IF root = <<>> THEN Tx ELSE {}]

Folded(b, kind) == 0
OnePartOfC1(b, kind) == IF b.chain = "c1" /\ kind = "cross" THEN 1 ELSE 0

Parts == INSTANCE MeleteDelivery WITH PartTotal <- OnePartOfC1, MaxHeight <- 1
-----------------------------------------------------------------------------
MCInit == parts \in BOOLEAN /\ IF parts THEN Parts!DeliveryInit({<<"c2", 0>>}) ELSE DeliveryInit({})
MCNext ==
  /\ \/ ~parts /\ DeliveryNext
     \/ parts /\ Parts!DeliveryNext
     \/ parts /\ \E n \in Correct, body \in Body : Parts!DeliverAgain(n, body)
  /\ UNCHANGED parts

\* No node is owed anything for ever.
MCOwed(n) == IF parts THEN Parts!Owed(n) ELSE Owed(n)

MCSpec == MCInit /\ [][MCNext]_MCvars /\ \A n \in Correct : []<>~MCOwed(n)

\* Every correct node finishes every height, in whatever order proposals,
\* parts, votes, blocks of other shards and certificates arrive, and although
\* none is delivered again: what comes early is kept (relayMessageChannel,
\* randomHeaderBuffer, the votes before the proposal).
Progress == <>(IF parts THEN Parts!Finished ELSE Finished)
=============================================================================
