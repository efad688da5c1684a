---------------------------- MODULE AtomicCommit ----------------------------
(***************************************************************************)
(* What the two phases of Pyramid promise for a cross-shard block: every   *)
(* I-shard that takes part votes once, the block is committed if and only  *)
(* if all vote yes, and the I-shards apply the one decision, each at a     *)
(* time of its own.                                                        *)
(***************************************************************************)
CONSTANTS Block,         \* cross-shard blocks
          Parties        \* Parties[x]: the I-shards of block x

Shards == UNION {Parties[x] : x \in Block}

VARIABLES vote,      \* vote[x][i]: the answer of shard i
          decision,  \* decision[x]
          applied    \* applied[x][i]: the decision that shard i has executed

vars == <<vote, decision, applied>>

Vote == {"none", "yes", "no"}
Decision == {"none", "commit", "abort"}

Init ==
  /\ vote = [x \in Block |-> [i \in Parties[x] |-> "none"]]
  /\ decision = [x \in Block |-> "none"]
  /\ applied = [x \in Block |-> [i \in Parties[x] |-> "none"]]

CastVote(x, i) ==
  /\ vote[x][i] = "none"
  /\ \E v \in {"yes", "no"} : vote' = [vote EXCEPT ![x][i] = v]
  /\ UNCHANGED <<decision, applied>>

Decide(x) ==
  /\ decision[x] = "none"
  /\ \A i \in Parties[x] : vote[x][i] # "none"
  /\ decision' = [decision EXCEPT ![x] =
                    IF \A i \in Parties[x] : vote[x][i] = "yes" THEN "commit" ELSE "abort"]
  /\ UNCHANGED <<vote, applied>>

\* A shard may execute several decisions with one block.
Apply(i, xs) ==
  /\ \A x \in xs : i \in Parties[x] /\ applied[x][i] = "none" /\ decision[x] # "none"
  /\ applied' = [x \in Block |->
                   [j \in Parties[x] |-> IF x \in xs /\ j = i THEN decision[x] ELSE applied[x][j]]]
  /\ UNCHANGED <<vote, decision>>

Next ==
  \/ \E x \in Block : \E i \in Parties[x] : CastVote(x, i)
  \/ \E x \in Block : Decide(x)
  \/ \E i \in Shards : \E xs \in SUBSET Block : Apply(i, xs)

Spec == Init /\ [][Next]_vars
-----------------------------------------------------------------------------
TypeOK ==
  /\ DOMAIN vote = Block /\ DOMAIN applied = Block
  /\ decision \in [Block -> Decision]
  /\ \A x \in Block : vote[x] \in [Parties[x] -> Vote] /\ applied[x] \in [Parties[x] -> Decision]

\* No two shards execute different decisions, and a block is executed as
\* committed only when every shard has voted for it.
AllOrNothing ==
  \A x \in Block : \A i, j \in Parties[x] :
    applied[x][i] = "commit" => applied[x][j] # "abort" /\ vote[x][j] = "yes"
=============================================================================
