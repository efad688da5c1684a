--------------------------- MODULE CSACollection ---------------------------
(***************************************************************************)
(* One node of a C-shard collecting the CrossShardAccept votes of the      *)
(* I-shards it bridges and turning them into a CrossShardCommit: the       *)
(* CrossShardAccepts, CrossShardAcceptFinishCounter and own                *)
(* CrossShardCommit of its HeightDataPackage.                              *)
(*                                                                         *)
(* The validators of the I-shards are arbitrary: any of them may send any  *)
(* vote, in any order, more than once, with different blocks or statuses.  *)
(***************************************************************************)
EXTENDS CSAShardSet

CONSTANTS AcceptShards,   \* RelatedShards of this C-shard
          Votes           \* Votes[i] is the Vote of each validator of shard i

ASSUME VotesAssumption ==
  /\ IsFiniteSet(AcceptShards)
  /\ DOMAIN Votes = AcceptShards
  /\ \A i \in AcceptShards : /\ IsFiniteSet(DOMAIN Votes[i])
                             /\ Votes[i] \in [DOMAIN Votes[i] -> Nat]

VARIABLES accepts,   \* CrossShardAccepts
          counter,   \* CrossShardAcceptFinishCounter
          csc        \* the CrossShardCommit made at this height, or None

vars == <<accepts, counter, csc>>

\* The votes of shard i that carry a valid signature of their validator.
CSA(i) == [index : DOMAIN Votes[i], block : Block, status : Status]

Init ==
  /\ accepts = [i \in AcceptShards |-> NewCSAShardSet(Votes[i])]
  /\ counter = 0
  /\ csc = None

\* Faulty variant: every vote for a shard with a majority is counted.
AddCrossShardAcceptRecount(i, csa) ==
  LET set == AddCSA(Votes[i], accepts[i], csa)
  IN  /\ accepts' = [accepts EXCEPT ![i] = set]
      /\ counter' = IF HasMaj23(set) /\ AddCSAReturnsNil(Votes[i], accepts[i], csa)
                      /\ counter < Cardinality(AcceptShards)
                    THEN counter + 1
                    ELSE counter
      /\ UNCHANGED csc

\* AddCrossShardAccept: the counter moves when the vote completes a majority.
AddCrossShardAccept(i, csa) ==
  LET set == AddCSA(Votes[i], accepts[i], csa)
  IN  /\ accepts' = [accepts EXCEPT ![i] = set]
      /\ counter' = IF ~HasMaj23(accepts[i]) /\ HasMaj23(set)
                      /\ AddCSAReturnsNil(Votes[i], accepts[i], csa)
                    THEN counter + 1
                    ELSE counter
      /\ UNCHANGED csc

\* Faulty variant: one I-shard too few.
FinishCrossShardProposalOneLess == counter + 1 >= Cardinality(AcceptShards)

FinishCrossShardProposal == counter >= Cardinality(AcceptShards)

\* doCSP runs once a height, when the counter has reached every I-shard:
\* GenerateCrossShardCommit takes the majority of each of them.
GenerateCrossShardCommit ==
  /\ csc = None
  /\ FinishCrossShardProposal
  /\ csc' = [i \in AcceptShards |-> GetMaj23(accepts[i])]
  /\ UNCHANGED <<accepts, counter>>

\* NextHeight after the commit clears the collection (clearCrossShardData).
NextHeight ==
  /\ csc # None
  /\ accepts' = [i \in AcceptShards |-> NewCSAShardSet(Votes[i])]
  /\ counter' = 0
  /\ csc' = None

Next ==
  \/ \E i \in AcceptShards : \E csa \in CSA(i) : AddCrossShardAccept(i, csa)
  \/ GenerateCrossShardCommit
  \/ NextHeight

Spec == Init /\ [][Next]_vars
-----------------------------------------------------------------------------
ShardSetType(votes) ==
  [seen  : [DOMAIN votes -> Block \cup {None}],
   sigs  : [Status -> SUBSET DOMAIN votes],
   power : [Status -> Nat],
   maj23 : Status \cup {None}]

TypeOK ==
  /\ accepts = [i \in AcceptShards |-> accepts[i]]
  /\ \A i \in AcceptShards : accepts[i] \in ShardSetType(Votes[i])
  /\ counter \in Nat
  /\ csc # None =>
       \A i \in AcceptShards : csc[i] \in [status : Status \cup {None}, signers : SUBSET DOMAIN Votes[i]]

\* Every vote is counted once: the power of a status is the power of the
\* validators filed under it, a validator is filed under one status only,
\* and the filed validators are the ones seen (AddCSA and its IndexSeen).
PowerCounted ==
  \A i \in AcceptShards :
    /\ \A k \in Status :
         accepts[i].power[k] = Power(Votes[i], accepts[i].sigs[k])
    /\ \A k, l \in Status : k # l => accepts[i].sigs[k] \cap accepts[i].sigs[l] = {}
    /\ \A v \in DOMAIN Votes[i] :
         accepts[i].seen[v] # None <=> \E k \in Status : v \in accepts[i].sigs[k]

\* maj23 is set exactly when some status is over two thirds, and to that one.
MajorityIsOverTwoThirds ==
  \A i \in AcceptShards : \A k \in Status :
    accepts[i].maj23 = k <=> OverTwoThirds(Votes[i], accepts[i].power[k])

\* The error "There are two 2f+1 voting sets" of AddCSA cannot be reached,
\* even if every validator votes for several statuses.
NoAmbiguity ==
  \A i \in AcceptShards : \A csa \in CSA(i) : ~Ambiguous(Votes[i], accepts[i], csa)

\* CrossShardAcceptFinishCounter is the number of I-shards with a majority.
CounterMatches ==
  counter = Cardinality({i \in AcceptShards : HasMaj23(accepts[i])})

\* The CrossShardCommit a node makes passes the power check of ValidateVote:
\* for every I-shard it has a status (never nil) and signers over two thirds,
\* although FinishCrossShardProposal looks at the counter alone.
CommitIsCertified ==
  csc # None =>
    \A i \in AcceptShards :
      /\ csc[i].status \in Status
      /\ OverTwoThirds(Votes[i], Power(Votes[i], csc[i].signers))

\* Until the height ends, a majority is never lost or replaced by another,
\* and the CrossShardCommit agrees with it.
MajorityIsStable ==
  [][ NextHeight \/ \A i \in AcceptShards :
        /\ HasMaj23(accepts[i]) => accepts'[i].maj23 = accepts[i].maj23
        /\ csc' # None => csc'[i].status = accepts[i].maj23 ]_vars
=============================================================================
