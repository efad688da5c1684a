------------------------------ MODULE MCVotes ------------------------------
(***************************************************************************)
(* The two collections of votes, one at a time: the accepts of two         *)
(* I-shards at a node of Melete, one shard of four equal validators and    *)
(* one with unequal Votes; and the votes of a Pyramid shard of four        *)
(* validators, the last of them faulty, at two nodes.                      *)
(***************************************************************************)
EXTENDS CSACollection

CONSTANTS VoteNodes, VoteHash
VARIABLES sent, sets

MCAcceptShards == {"i1", "i2"}
MCVotes == [i \in MCAcceptShards |->
              IF i = "i1" THEN [v \in 0..3 |-> 1]
                          ELSE [v \in 0..2 |-> IF v = 0 THEN 2 ELSE 1]]

Pyramid == INSTANCE VoteCollection WITH
  Nodes <- VoteNodes, Hash <- VoteHash, Votes <- [v \in 0..3 |-> 1], Faulty <- {3}

ASSUME PyramidAssumption == Pyramid!ConstantsOK

allVars == <<vars, sent, sets>>

MCInit == Init /\ Pyramid!Init

\* The other collection is as it was at first.
MCNext ==
  \/ Pyramid!Init /\ Next /\ UNCHANGED <<sent, sets>>
  \/ Init /\ Pyramid!Next /\ UNCHANGED vars

MCSpec == MCInit /\ [][MCNext]_allVars

\* Nodes of a Pyramid shard never find different majorities, and the
\* signatures they aggregate are those of more than two thirds (AddVote,
\* GetMaj23AggreSig).
VotesAreRight == Pyramid!VotesAreRight
=============================================================================
