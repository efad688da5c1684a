------------------------ MODULE CSACollectionProofs ------------------------
(***************************************************************************)
(* The properties of CSACollection for any number of I-shards, validators, *)
(* Votes, blocks and commit statuses.                                      *)
(*                                                                         *)
(* The first part is about one CSAShardSet: ShardSetOK is kept by AddCSA.  *)
(* The second part is about the node: IInv is inductive.                   *)
(***************************************************************************)
EXTENDS CSACollection, VotingPowerProofs

\* The votes that AddCSA may be called with.
Vote(votes) == [index : DOMAIN votes, block : Block, status : Status]

\* What PowerCounted says of one shard.
Counted(votes, set) ==
  /\ \A k \in Status : set.power[k] = Power(votes, set.sigs[k])
  /\ \A k, l \in Status : k # l => set.sigs[k] \cap set.sigs[l] = {}
  /\ \A v \in DOMAIN votes :
       set.seen[v] # None <=> \E k \in Status : v \in set.sigs[k]

\* What MajorityIsOverTwoThirds says of one shard.
Majority(votes, set) ==
  \A k \in Status : set.maj23 = k <=> OverTwoThirds(votes, set.power[k])

ShardSetOK(votes, set) ==
  /\ set \in ShardSetType(votes)
  /\ Counted(votes, set)
  /\ Majority(votes, set)

\* The state of a shard set at the beginning of a height is consistent.
LEMMA NewSetOK ==
  ASSUME NEW votes, PeerList(votes)
  PROVE  ShardSetOK(votes, NewCSAShardSet(votes))
<1> DEFINE set == NewCSAShardSet(votes)
<1>1. set \in ShardSetType(votes)
  BY DEF NewCSAShardSet, ShardSetType
<1>2. Counted(votes, set)
  BY PowerEmpty DEF NewCSAShardSet, Counted
<1>3. \A k \in Status : k # None /\ set.maj23 = None /\ set.power[k] = 0
  BY NoneAssumption DEF NewCSAShardSet
<1>4. TotalVotes(votes) \in Nat
  BY PowerType DEF TotalVotes
<1>5. ~OverTwoThirds(votes, 0)
  BY <1>4 DEF OverTwoThirds
<1>6. Majority(votes, set)
  BY <1>3, <1>5 DEF Majority
<1> QED
  BY <1>1, <1>2, <1>6 DEF ShardSetOK

\* The fields of the set after a vote of a validator that was not seen.
LEMMA AddedFields ==
  ASSUME NEW votes, NEW set \in ShardSetType(votes), NEW csa \in Vote(votes),
         set.seen[csa.index] = None
  PROVE  LET new == AddCSA(votes, set, csa) IN
         /\ new = [seen  |-> new.seen, sigs |-> new.sigs, power |-> new.power,
                   maj23 |-> new.maj23]
         /\ new.seen  = [set.seen EXCEPT ![csa.index] = csa.block]
         /\ new.sigs  = [set.sigs EXCEPT ![csa.status] = @ \cup {csa.index}]
         /\ new.power = [set.power EXCEPT ![csa.status] = PowerWith(votes, set, csa)]
         /\ new.maj23 = IF /\ set.maj23 = None
                           /\ OverTwoThirds(votes, PowerWith(votes, set, csa))
                        THEN csa.status
                        ELSE set.maj23
BY DEF AddCSA, ShardSetType

\* The power that a new vote gives to its status is the power of the
\* validators then filed under it.
LEMMA PowerWithIsPower ==
  ASSUME NEW votes, PeerList(votes), NEW set, ShardSetOK(votes, set),
         NEW csa \in Vote(votes), set.seen[csa.index] = None
  PROVE  /\ csa.index \in DOMAIN votes /\ csa.status \in Status
         /\ \A k \in Status : csa.index \notin set.sigs[k]
         /\ set.sigs[csa.status] \cup {csa.index} \in SUBSET DOMAIN votes
         /\ PowerWith(votes, set, csa) = Power(votes, set.sigs[csa.status] \cup {csa.index})
         /\ PowerWith(votes, set, csa) \in Nat
         /\ PowerWith(votes, set, csa) >= set.power[csa.status]
<1>1. csa.index \in DOMAIN votes /\ csa.status \in Status
  BY DEF Vote
<1>2. set.sigs[csa.status] \in SUBSET DOMAIN votes
  BY <1>1 DEF ShardSetOK, ShardSetType
<1>3. \A k \in Status : csa.index \notin set.sigs[k]
  BY <1>1 DEF ShardSetOK, Counted
<1>4. set.power[csa.status] = Power(votes, set.sigs[csa.status])
  BY <1>1 DEF ShardSetOK, Counted
<1>5. Power(votes, set.sigs[csa.status] \cup {csa.index})
        = Power(votes, set.sigs[csa.status]) + votes[csa.index]
  BY <1>1, <1>2, <1>3, PowerAdd
<1>6. Power(votes, set.sigs[csa.status]) \in Nat /\ votes[csa.index] \in Nat
  BY <1>1, <1>2, PowerType DEF PeerList
<1>7. PowerWith(votes, set, csa) = set.power[csa.status] + votes[csa.index]
  BY DEF PowerWith
<1> QED
  BY <1>1, <1>2, <1>3, <1>4, <1>5, <1>6, <1>7

\* The ambiguity error of AddCSA is out of reach: the validators filed under
\* the majority and the ones of the other status would be two quorums
\* without a common validator.
LEMMA NotAmbiguous ==
  ASSUME NEW votes, PeerList(votes), NEW set, ShardSetOK(votes, set),
         NEW csa \in Vote(votes)
  PROVE  ~Ambiguous(votes, set, csa)
<1> SUFFICES ASSUME Ambiguous(votes, set, csa) PROVE FALSE
  OBVIOUS
<1> DEFINE k == set.maj23
           l == csa.status
           S == set.sigs[k]
           T == set.sigs[l] \cup {csa.index}
<1>1. /\ set.seen[csa.index] = None
      /\ OverTwoThirds(votes, PowerWith(votes, set, csa))
      /\ k # None /\ k # l
  BY DEF Ambiguous
<1>2. k \in Status
  BY <1>1 DEF ShardSetOK, ShardSetType
<1>3. /\ csa.index \in DOMAIN votes /\ l \in Status
      /\ csa.index \notin S
      /\ T \in SUBSET DOMAIN votes
      /\ PowerWith(votes, set, csa) = Power(votes, T)
  BY <1>1, <1>2, PowerWithIsPower
<1>4. S \in SUBSET DOMAIN votes
  BY <1>2 DEF ShardSetOK, ShardSetType
<1>5. OverTwoThirds(votes, Power(votes, S))
  BY <1>2 DEF ShardSetOK, Counted, Majority
<1>6. set.sigs[k] \cap set.sigs[l] = {}
  BY <1>1, <1>2, <1>3 DEF ShardSetOK, Counted
<1>7. S \cap T = {}
  BY <1>3, <1>6
<1> QED
  BY <1>1, <1>3, <1>4, <1>5, <1>7, QuorumsIntersect

\* AddCSA keeps the counting and the majority consistent, whatever vote of
\* whatever validator it is given.
LEMMA AddCSAKeepsOK ==
  ASSUME NEW votes, PeerList(votes), NEW set, ShardSetOK(votes, set),
         NEW csa \in Vote(votes)
  PROVE  ShardSetOK(votes, AddCSA(votes, set, csa))
<1>1. CASE set.seen[csa.index] # None
  BY <1>1 DEF AddCSA
<1>2. CASE set.seen[csa.index] = None
  <2> DEFINE new == AddCSA(votes, set, csa)
             v == csa.index
             l == csa.status
             p == PowerWith(votes, set, csa)
  <2>1. /\ set \in ShardSetType(votes)
        /\ v \in DOMAIN votes /\ l \in Status /\ csa.block \in Block
        /\ csa.block # None
    BY NoneAssumption DEF ShardSetOK, Vote
  <2>2. /\ \A k \in Status : v \notin set.sigs[k]
        /\ set.sigs[l] \cup {v} \in SUBSET DOMAIN votes
        /\ p = Power(votes, set.sigs[l] \cup {v})
        /\ p \in Nat /\ p >= set.power[l]
    BY <1>2, PowerWithIsPower
  <2>3. /\ new = [seen |-> new.seen, sigs |-> new.sigs, power |-> new.power,
                  maj23 |-> new.maj23]
        /\ new.seen  = [set.seen EXCEPT ![v] = csa.block]
        /\ new.sigs  = [set.sigs EXCEPT ![l] = @ \cup {v}]
        /\ new.power = [set.power EXCEPT ![l] = p]
        /\ new.maj23 = IF set.maj23 = None /\ OverTwoThirds(votes, p)
                       THEN l ELSE set.maj23
    BY <1>2, <2>1, AddedFields
  <2>4. /\ set.seen \in [DOMAIN votes -> Block \cup {None}]
        /\ set.sigs \in [Status -> SUBSET DOMAIN votes]
        /\ set.power \in [Status -> Nat]
        /\ set.maj23 \in Status \cup {None}
    BY <2>1 DEF ShardSetType
  <2> HIDE DEF new, v, l, p
  <2>5. new \in ShardSetType(votes)
    <3>1. new.seen \in [DOMAIN votes -> Block \cup {None}]
      BY <2>1, <2>3, <2>4
    <3>2. new.sigs \in [Status -> SUBSET DOMAIN votes]
      BY <2>1, <2>2, <2>3, <2>4
    <3>3. new.power \in [Status -> Nat]
      BY <2>1, <2>2, <2>3, <2>4
    <3>4. new.maj23 \in Status \cup {None}
      BY <2>1, <2>3, <2>4
    <3> QED
      BY <2>3, <3>1, <3>2, <3>3, <3>4 DEF ShardSetType
  <2>6. Counted(votes, new)
    <3>1. \A k \in Status : new.power[k] = Power(votes, new.sigs[k])
      BY <2>1, <2>2, <2>3, <2>4 DEF ShardSetOK, Counted
    <3>2. \A j, k \in Status : j # k => new.sigs[j] \cap new.sigs[k] = {}
      <4> SUFFICES ASSUME NEW j \in Status, NEW k \in Status, j # k
                   PROVE  new.sigs[j] \cap new.sigs[k] = {}
        OBVIOUS
      <4>1. set.sigs[j] \cap set.sigs[k] = {}
        BY DEF ShardSetOK, Counted
      <4>2. /\ new.sigs[j] \subseteq set.sigs[j] \cup {v}
            /\ new.sigs[k] \subseteq set.sigs[k] \cup {v}
            /\ new.sigs[j] = set.sigs[j] \/ new.sigs[k] = set.sigs[k]
        BY <2>3, <2>4
      <4> QED
        BY <2>2, <4>1, <4>2
    <3>3. \A w \in DOMAIN votes : new.seen[w] # None <=> \E k \in Status : w \in new.sigs[k]
      <4> SUFFICES ASSUME NEW w \in DOMAIN votes
                   PROVE  new.seen[w] # None <=> \E k \in Status : w \in new.sigs[k]
        OBVIOUS
      <4>1. CASE w = v
        BY <2>1, <2>3, <2>4, <4>1
      <4>2. CASE w # v
        <5>1. new.seen[w] = set.seen[w]
          BY <2>3, <2>4, <4>2
        <5>2. \A k \in Status : w \in new.sigs[k] <=> w \in set.sigs[k]
          BY <2>3, <2>4, <4>2
        <5>3. set.seen[w] # None <=> \E k \in Status : w \in set.sigs[k]
          BY DEF ShardSetOK, Counted
        <5> QED
          BY <5>1, <5>2, <5>3
      <4> QED
        BY <4>1, <4>2
    <3> QED
      BY <3>1, <3>2, <3>3 DEF Counted
  <2>7. Majority(votes, new)
    <3>1. OverTwoThirds(votes, p) => set.maj23 \in {None, l}
      BY <1>2, NotAmbiguous DEF Ambiguous, p, l, v
    <3>2. OverTwoThirds(votes, set.power[l]) => OverTwoThirds(votes, p)
      <4>1. TotalVotes(votes) \in Nat /\ set.power[l] \in Nat
        BY <2>1, <2>4, PowerType DEF TotalVotes
      <4> QED
        BY <2>2, <4>1 DEF OverTwoThirds
    <3>3. \A k \in Status : k # None
      BY NoneAssumption
    <3>4. \A k \in Status : set.maj23 = k <=> OverTwoThirds(votes, set.power[k])
      BY DEF ShardSetOK, Majority
    <3>5. new.maj23 = l <=> OverTwoThirds(votes, new.power[l])
      BY <2>1, <2>3, <2>4, <3>1, <3>2, <3>3, <3>4
    <3>6. \A k \in Status \ {l} : new.maj23 = k <=> OverTwoThirds(votes, new.power[k])
      BY <2>1, <2>3, <2>4, <3>1, <3>3, <3>4
    <3> QED
      BY <3>5, <3>6 DEF Majority
  <2> QED
    BY <2>5, <2>6, <2>7 DEF ShardSetOK, new
<1> QED
  BY <1>1, <1>2

\* AddCSA keeps a majority, and makes one only with a vote that it takes
\* without an error.
LEMMA AddCSAMajority ==
  ASSUME NEW votes, NEW set \in ShardSetType(votes), NEW csa \in Vote(votes)
  PROVE  LET new == AddCSA(votes, set, csa) IN
         /\ HasMaj23(set) => new.maj23 = set.maj23
         /\ ~HasMaj23(set) /\ HasMaj23(new) => AddCSAReturnsNil(votes, set, csa)
<1>1. CASE set.seen[csa.index] # None
  BY <1>1 DEF AddCSA, HasMaj23
<1>2. CASE set.seen[csa.index] = None
  <2> DEFINE new == AddCSA(votes, set, csa)
  <2>1. new.maj23 = IF set.maj23 = None /\ OverTwoThirds(votes, PowerWith(votes, set, csa))
                    THEN csa.status ELSE set.maj23
    BY <1>2 DEF AddCSA, ShardSetType
  <2> HIDE DEF new
  <2>2. HasMaj23(set) => new.maj23 = set.maj23
    BY <2>1 DEF HasMaj23
  <2>3. ~HasMaj23(set) => AddCSAReturnsNil(votes, set, csa)
    BY <1>2 DEF HasMaj23, AddCSAReturnsNil, Ambiguous
  <2> QED
    BY <2>2, <2>3 DEF new
<1> QED
  BY <1>1, <1>2
-----------------------------------------------------------------------------
(* The node.                                                               *)

\* The certificate of the height agrees with the majorities it was made of.
CommitAgrees ==
  csc # None =>
    \A i \in AcceptShards :
      /\ csc[i] \in [status : Status \cup {None}, signers : SUBSET DOMAIN Votes[i]]
      /\ HasMaj23(accepts[i])
      /\ csc[i].status = accepts[i].maj23

\* The inductive invariant.  CommitIsCertified alone is not inductive: that
\* the counter reaches the number of I-shards says something of each of them
\* only together with CounterMatches, which rests on ShardSetOK.
IInv ==
  /\ accepts = [i \in AcceptShards |-> accepts[i]]
  /\ \A i \in AcceptShards : ShardSetOK(Votes[i], accepts[i])
  /\ CounterMatches
  /\ CommitAgrees
  /\ CommitIsCertified

WithMajority == {i \in AcceptShards : HasMaj23(accepts[i])}

LEMMA VotesArePeerLists == \A i \in AcceptShards : PeerList(Votes[i])
BY VotesAssumption DEF PeerList

\* A fresh collection, at the start and after a commit.
LEMMA FreshCollection ==
  ASSUME NEW a, a = [i \in AcceptShards |-> NewCSAShardSet(Votes[i])]
  PROVE  /\ a = [i \in AcceptShards |-> a[i]]
         /\ \A i \in AcceptShards : ShardSetOK(Votes[i], a[i])
         /\ Cardinality({i \in AcceptShards : HasMaj23(a[i])}) = 0
<1>1. \A i \in AcceptShards : ShardSetOK(Votes[i], a[i])
  BY NewSetOK, VotesArePeerLists
<1>2. \A i \in AcceptShards : ~HasMaj23(a[i])
  BY DEF HasMaj23, NewCSAShardSet
<1>3. {i \in AcceptShards : HasMaj23(a[i])} = {}
  BY <1>2
<1> QED
  BY <1>1, <1>3, FS_EmptySet

LEMMA InitIInv == Init => IInv
<1> SUFFICES ASSUME Init PROVE IInv
  OBVIOUS
<1>1. /\ accepts = [i \in AcceptShards |-> accepts[i]]
      /\ \A i \in AcceptShards : ShardSetOK(Votes[i], accepts[i])
      /\ Cardinality({i \in AcceptShards : HasMaj23(accepts[i])}) = 0
  BY FreshCollection DEF Init
<1> QED
  BY <1>1 DEF Init, IInv, CounterMatches, CommitAgrees, CommitIsCertified

LEMMA NextHeightIInv == IInv /\ NextHeight => IInv'
<1> SUFFICES ASSUME NextHeight PROVE IInv'
  OBVIOUS
<1>1. /\ accepts' = [i \in AcceptShards |-> accepts'[i]]
      /\ \A i \in AcceptShards : ShardSetOK(Votes[i], accepts'[i])
      /\ Cardinality({i \in AcceptShards : HasMaj23(accepts'[i])}) = 0
  BY FreshCollection DEF NextHeight
<1>2. counter' = 0 /\ csc' = None
  BY DEF NextHeight
<1>3. CounterMatches'
  BY <1>1, <1>2 DEF CounterMatches, HasMaj23
<1>4. CommitAgrees' /\ CommitIsCertified'
  BY <1>2 DEF CommitAgrees, CommitIsCertified
<1>5. (\A i \in AcceptShards : ShardSetOK(Votes[i], accepts[i]))'
  BY <1>1 DEF ShardSetOK, Counted, Majority
<1> QED
  BY <1>1, <1>3, <1>4, <1>5 DEF IInv

\* When the counter has reached every I-shard, each of them has a majority.
LEMMA AllHaveMajority ==
  ASSUME IInv, FinishCrossShardProposal
  PROVE  \A i \in AcceptShards : HasMaj23(accepts[i])
<1>1. WithMajority \in SUBSET AcceptShards /\ IsFiniteSet(AcceptShards)
  BY VotesAssumption DEF WithMajority
<1>2. counter = Cardinality(WithMajority)
  BY DEF IInv, CounterMatches, WithMajority
<1>3. Cardinality(WithMajority) >= Cardinality(AcceptShards)
  BY <1>2 DEF FinishCrossShardProposal
<1> HIDE DEF WithMajority
<1>4. /\ IsFiniteSet(WithMajority)
      /\ Cardinality(WithMajority) <= Cardinality(AcceptShards)
      /\ Cardinality(AcceptShards) = Cardinality(WithMajority) => AcceptShards = WithMajority
  BY <1>1, FS_Subset
<1>5. Cardinality(WithMajority) \in Nat /\ Cardinality(AcceptShards) \in Nat
  BY <1>1, <1>4, FS_CardinalityType
<1>6. WithMajority = AcceptShards
  BY <1>3, <1>4, <1>5
<1> QED
  BY <1>6 DEF WithMajority

LEMMA GenerateIInv == IInv /\ GenerateCrossShardCommit => IInv'
<1> SUFFICES ASSUME IInv, GenerateCrossShardCommit PROVE IInv'
  OBVIOUS
<1>1. /\ FinishCrossShardProposal
      /\ csc' = [i \in AcceptShards |-> GetMaj23(accepts[i])]
      /\ accepts' = accepts /\ counter' = counter
  BY DEF GenerateCrossShardCommit
<1>2. \A i \in AcceptShards : ShardSetOK(Votes[i], accepts[i]) /\ HasMaj23(accepts[i])
  BY <1>1, AllHaveMajority DEF IInv
<1>3. ASSUME NEW i \in AcceptShards
      PROVE  /\ csc'[i] \in [status : Status \cup {None}, signers : SUBSET DOMAIN Votes[i]]
             /\ csc'[i].status \in Status
             /\ csc'[i].status = accepts'[i].maj23
             /\ OverTwoThirds(Votes[i], Power(Votes[i], csc'[i].signers))
  <2> DEFINE k == accepts[i].maj23
             S == accepts[i].sigs[k]
  <2>1. k \in Status
    BY <1>2 DEF ShardSetOK, ShardSetType, HasMaj23
  <2>2. S \in SUBSET DOMAIN Votes[i]
    BY <1>2, <2>1 DEF ShardSetOK, ShardSetType
  <2>3. OverTwoThirds(Votes[i], Power(Votes[i], S))
    BY <1>2, <2>1 DEF ShardSetOK, Majority, Counted
  <2>4. csc'[i] = [status |-> k, signers |-> S]
    BY <1>1, <1>2 DEF GetMaj23
  <2>5. accepts'[i].maj23 = k
    BY <1>1
  <2> HIDE DEF k, S
  <2>6. csc'[i].status = k /\ csc'[i].signers = S
    BY <2>4
  <2> QED
    BY <2>1, <2>2, <2>3, <2>4, <2>5, <2>6
<1>4. CommitAgrees' /\ CommitIsCertified'
  BY <1>1, <1>2, <1>3 DEF CommitAgrees, CommitIsCertified
<1>5. CounterMatches'
  BY <1>1 DEF IInv, CounterMatches, HasMaj23
<1>6. /\ (accepts = [i \in AcceptShards |-> accepts[i]])'
      /\ (\A i \in AcceptShards : ShardSetOK(Votes[i], accepts[i]))'
  BY <1>1 DEF IInv
<1> QED
  BY <1>4, <1>5, <1>6 DEF IInv

\* A vote for shard i: the other shards are untouched, and the counter moves
\* with the majority of shard i.
LEMMA AddIInv ==
  ASSUME NEW i \in AcceptShards, NEW csa \in CSA(i)
  PROVE  IInv /\ AddCrossShardAccept(i, csa) => IInv'
<1> SUFFICES ASSUME IInv, AddCrossShardAccept(i, csa) PROVE IInv'
  OBVIOUS
<1> DEFINE new == AddCSA(Votes[i], accepts[i], csa)
<1>1. /\ accepts' = [accepts EXCEPT ![i] = new]
      /\ counter' = IF ~HasMaj23(accepts[i]) /\ HasMaj23(new)
                       /\ AddCSAReturnsNil(Votes[i], accepts[i], csa)
                    THEN counter + 1 ELSE counter
      /\ csc' = csc
  BY DEF AddCrossShardAccept
<1>2. PeerList(Votes[i]) /\ csa \in Vote(Votes[i])
  BY VotesArePeerLists DEF CSA, Vote
<1>3. ShardSetOK(Votes[i], accepts[i]) /\ accepts[i] \in ShardSetType(Votes[i])
  BY DEF IInv, ShardSetOK
<1>4. ShardSetOK(Votes[i], new)
  BY <1>2, <1>3, AddCSAKeepsOK
<1>5. /\ HasMaj23(accepts[i]) => new.maj23 = accepts[i].maj23
      /\ ~HasMaj23(accepts[i]) /\ HasMaj23(new) => AddCSAReturnsNil(Votes[i], accepts[i], csa)
  BY <1>2, <1>3, AddCSAMajority
<1> HIDE DEF new
<1>6. accepts' = [j \in AcceptShards |-> IF j = i THEN new ELSE accepts[j]]
  BY <1>1 DEF IInv
<1>7. /\ (accepts = [j \in AcceptShards |-> accepts[j]])'
      /\ \A j \in AcceptShards : ShardSetOK(Votes[j], accepts'[j])
  BY <1>4, <1>6 DEF IInv
<1>8. CommitAgrees' /\ CommitIsCertified'
  BY <1>1, <1>5, <1>6 DEF IInv, CommitAgrees, CommitIsCertified, HasMaj23
<1>9. CounterMatches'
  <2>1. counter = Cardinality(WithMajority) /\ IsFiniteSet(WithMajority)
    <3>1. WithMajority \in SUBSET AcceptShards
      BY DEF WithMajority
    <3>2. IsFiniteSet(WithMajority)
      BY <3>1, VotesAssumption, FS_Subset
    <3> QED
      BY <3>2 DEF IInv, CounterMatches, WithMajority
  <2>2. CASE ~HasMaj23(accepts[i]) /\ HasMaj23(new)
    <3>1. counter' = counter + 1
      BY <1>1, <1>5, <2>2
    <3>2. WithMajority' = WithMajority \cup {i} /\ i \notin WithMajority
      BY <1>6, <2>2 DEF WithMajority, HasMaj23
    <3>3. Cardinality(WithMajority \cup {i}) = Cardinality(WithMajority) + 1
      BY <2>1, <3>2, FS_AddElement
    <3> QED
      BY <2>1, <3>1, <3>2, <3>3 DEF CounterMatches, WithMajority
  <2>3. CASE ~(~HasMaj23(accepts[i]) /\ HasMaj23(new))
    <3>1. counter' = counter
      BY <1>1, <2>3
    <3>2. HasMaj23(new) <=> HasMaj23(accepts[i])
      BY <1>5, <2>3 DEF HasMaj23
    <3>3. WithMajority' = WithMajority
      BY <1>6, <3>2 DEF WithMajority, HasMaj23
    <3> QED
      BY <2>1, <3>1, <3>3 DEF CounterMatches, WithMajority
  <2> QED
    BY <2>2, <2>3
<1> QED
  BY <1>7, <1>8, <1>9 DEF IInv

LEMMA NextIInv == IInv /\ [Next]_vars => IInv'
<1> SUFFICES ASSUME IInv, [Next]_vars PROVE IInv'
  OBVIOUS
<1>1. CASE \E i \in AcceptShards : \E csa \in CSA(i) : AddCrossShardAccept(i, csa)
  BY <1>1, AddIInv
<1>2. CASE GenerateCrossShardCommit
  BY <1>2, GenerateIInv
<1>3. CASE NextHeight
  BY <1>3, NextHeightIInv
<1>4. CASE UNCHANGED vars
  <2>1. accepts' = accepts /\ counter' = counter /\ csc' = csc
    BY <1>4 DEF vars
  <2>2. CounterMatches' /\ CommitAgrees' /\ CommitIsCertified'
    BY <2>1 DEF IInv, CounterMatches, CommitAgrees, CommitIsCertified
  <2> QED
    BY <2>1, <2>2 DEF IInv
<1> QED
  BY <1>1, <1>2, <1>3, <1>4 DEF Next

\* The inductive invariant holds in every reachable state.
THEOREM Inductive == Spec => []IInv
BY InitIInv, NextIInv, PTL DEF Spec

\* Type correctness of the collection (TypeOK), for all constants.
THEOREM TypeCorrect == Spec => []TypeOK
<1>1. IInv => TypeOK
  <2> SUFFICES ASSUME IInv PROVE TypeOK
    OBVIOUS
  <2>1. counter \in Nat
    <3>1. WithMajority \in SUBSET AcceptShards
      BY DEF WithMajority
    <3>2. IsFiniteSet(WithMajority)
      BY <3>1, VotesAssumption, FS_Subset
    <3> QED
      BY <3>2, FS_CardinalityType DEF IInv, CounterMatches, WithMajority
  <2>2. \A i \in AcceptShards : accepts[i] \in ShardSetType(Votes[i])
    BY DEF IInv, ShardSetOK
  <2> QED
    BY <2>1, <2>2 DEF IInv, TypeOK, CommitAgrees
<1> QED
  BY <1>1, Inductive, PTL

\* Every vote is counted once (PowerCounted), whatever the validators send:
\* AddCSA and IndexSeen.
THEOREM VotesAreCountedOnce == Spec => []PowerCounted
<1>1. IInv => PowerCounted
  BY DEF IInv, ShardSetOK, Counted, PowerCounted
<1> QED
  BY <1>1, Inductive, PTL

\* The majority of a shard is the status over two thirds
\* (MajorityIsOverTwoThirds): HasMaj23Flag and Maj23Key of AddCSA.
THEOREM MajorityIsRight == Spec => []MajorityIsOverTwoThirds
<1>1. IInv => MajorityIsOverTwoThirds
  BY DEF IInv, ShardSetOK, Majority, MajorityIsOverTwoThirds
<1> QED
  BY <1>1, Inductive, PTL

\* The error "There are two 2f+1 voting sets" of AddCSA is unreachable
\* (NoAmbiguity), for any Votes and however many validators are faulty.
THEOREM AmbiguityIsUnreachable == Spec => []NoAmbiguity
<1>1. IInv => NoAmbiguity
  <2> SUFFICES ASSUME IInv, NEW i \in AcceptShards, NEW csa \in CSA(i)
               PROVE  ~Ambiguous(Votes[i], accepts[i], csa)
    BY DEF NoAmbiguity
  <2>1. PeerList(Votes[i]) /\ csa \in Vote(Votes[i])
    BY VotesArePeerLists DEF CSA, Vote
  <2>2. ShardSetOK(Votes[i], accepts[i])
    BY DEF IInv
  <2> QED
    BY <2>1, <2>2, NotAmbiguous
<1> QED
  BY <1>1, Inductive, PTL

\* CrossShardAcceptFinishCounter counts each shard with a majority once
\* (CounterMatches): AddCrossShardAccept with startFlag and endFlag.
THEOREM CounterIsRight == Spec => []CounterMatches
<1>1. IInv => CounterMatches
  BY DEF IInv
<1> QED
  BY <1>1, Inductive, PTL

\* A node makes no CrossShardCommit without a majority of every I-shard
\* (CommitIsCertified): FinishCrossShardProposal, GenerateCrossShardCommit.
THEOREM CommitHasQuorums == Spec => []CommitIsCertified
<1>1. IInv => CommitIsCertified
  BY DEF IInv
<1> QED
  BY <1>1, Inductive, PTL

\* Within a height no majority is lost or replaced, and the CrossShardCommit
\* agrees with all of them (MajorityIsStable).
THEOREM MajorityNeverChanges == Spec => MajorityIsStable
<1> DEFINE Stable == \A i \in AcceptShards :
             /\ HasMaj23(accepts[i]) => accepts'[i].maj23 = accepts[i].maj23
             /\ csc' # None => csc'[i].status = accepts[i].maj23
<1>1. IInv /\ [Next]_vars => [NextHeight \/ Stable]_vars
  <2> SUFFICES ASSUME IInv, Next, ~NextHeight PROVE Stable
    OBVIOUS
  <2>1. CASE \E i \in AcceptShards : \E csa \in CSA(i) : AddCrossShardAccept(i, csa)
    <3> PICK i \in AcceptShards : \E csa \in CSA(i) : AddCrossShardAccept(i, csa)
      BY <2>1
    <3> PICK csa \in CSA(i) : AddCrossShardAccept(i, csa)
      OBVIOUS
    <3>1. /\ accepts' = [accepts EXCEPT ![i] = AddCSA(Votes[i], accepts[i], csa)]
          /\ csc' = csc
      BY DEF AddCrossShardAccept
    <3>2. csa \in Vote(Votes[i]) /\ accepts[i] \in ShardSetType(Votes[i])
      BY DEF CSA, Vote, IInv, ShardSetOK
    <3>3. HasMaj23(accepts[i]) => AddCSA(Votes[i], accepts[i], csa).maj23 = accepts[i].maj23
      BY <3>2, AddCSAMajority
    <3>4. \A j \in AcceptShards : HasMaj23(accepts[j]) => accepts'[j].maj23 = accepts[j].maj23
      BY <3>1, <3>3 DEF IInv
    <3> QED
      BY <3>1, <3>4 DEF IInv, CommitAgrees
  <2>2. CASE GenerateCrossShardCommit
    <3>1. /\ csc' = [i \in AcceptShards |-> GetMaj23(accepts[i])]
          /\ accepts' = accepts
          /\ \A i \in AcceptShards : HasMaj23(accepts[i])
      BY <2>2, AllHaveMajority DEF GenerateCrossShardCommit
    <3> QED
      BY <3>1 DEF GetMaj23
  <2> QED
    BY <2>1, <2>2 DEF Next
<1> QED
  BY <1>1, Inductive, PTL DEF Spec, MajorityIsStable
=============================================================================
