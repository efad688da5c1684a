------------------------- MODULE VotingPowerProofs -------------------------
(***************************************************************************)
(* What the protocol needs to know of voting power, for every peer list:   *)
(* the power of a set grows by the Vote of a validator that joins it, and  *)
(* two sets over two thirds have a validator in common.                    *)
(***************************************************************************)
EXTENDS VotingPower, FiniteSetTheorems, TLAPS

\* A peer list: finitely many validators with a natural number of votes.
PeerList(votes) == IsFiniteSet(DOMAIN votes) /\ votes \in [DOMAIN votes -> Nat]

\* The ballots of one validator.
Own(votes, v) == {v} \X (1..votes[v])

\* A validator has as many ballots as its Vote says.
LEMMA OwnBallots ==
  ASSUME NEW votes, PeerList(votes), NEW v \in DOMAIN votes
  PROVE  IsFiniteSet(Own(votes, v)) /\ Cardinality(Own(votes, v)) = votes[v]
<1>1. votes[v] \in Nat
  BY DEF PeerList
<1>2. IsFiniteSet(1..votes[v]) /\ Cardinality(1..votes[v]) = votes[v]
  BY <1>1, FS_Interval
<1>3. IsFiniteSet({v}) /\ Cardinality({v}) = 1
  BY FS_Singleton
<1>4. /\ IsFiniteSet({v} \X (1..votes[v]))
      /\ Cardinality({v} \X (1..votes[v])) = Cardinality({v}) * Cardinality(1..votes[v])
  BY <1>2, <1>3, FS_Product
<1> QED
  BY <1>1, <1>2, <1>3, <1>4 DEF Own

\* The ballots of a set of validators of a peer list are finitely many.
LEMMA BallotsFinite ==
  ASSUME NEW votes, PeerList(votes), NEW S \in SUBSET DOMAIN votes
  PROVE  IsFiniteSet(Ballots(votes, S))
<1> DEFINE T == {{v} \X (1..votes[v]) : v \in S}
           f == [v \in S |-> {v} \X (1..votes[v])]
<1>1. IsFiniteSet(S)
  BY FS_Subset DEF PeerList
<1>2. f \in Surjection(S, T)
  BY DEF Surjection
<1>3. IsFiniteSet(T)
  <2> HIDE DEF f, T
  <2> QED BY <1>1, <1>2, FS_Surjection
<1>4. \A X \in T : IsFiniteSet(X)
  BY OwnBallots DEF Own
<1>5. IsFiniteSet(UNION T)
  <2> HIDE DEF T
  <2> QED BY <1>3, <1>4, FS_UNION
<1> QED
  BY <1>5 DEF Ballots

\* The power of a set of validators is a natural number.
LEMMA PowerType ==
  ASSUME NEW votes, PeerList(votes), NEW S \in SUBSET DOMAIN votes
  PROVE  Power(votes, S) \in Nat
BY BallotsFinite, FS_CardinalityType DEF Power

\* No validators, no power.
LEMMA PowerEmpty ==
  ASSUME NEW votes
  PROVE  Power(votes, {}) = 0
<1>1. Ballots(votes, {}) = {}
  BY DEF Ballots
<1> QED
  BY <1>1, FS_EmptySet DEF Power

\* A validator that joins a set adds its Vote: the running totals of AddCSA,
\* AddPrevote and AddPrecommit are the power of the validators counted.
LEMMA PowerAdd ==
  ASSUME NEW votes, PeerList(votes), NEW S \in SUBSET DOMAIN votes,
         NEW v \in DOMAIN votes, v \notin S
  PROVE  Power(votes, S \cup {v}) = Power(votes, S) + votes[v]
<1> DEFINE A == Ballots(votes, S)
           B == Own(votes, v)
<1>1. Ballots(votes, S \cup {v}) = A \cup B
  BY DEF Ballots, Own
<1>2. A \cap B = {}
  BY DEF Ballots, Own
<1>3. IsFiniteSet(A)
  BY BallotsFinite
<1>4. IsFiniteSet(B) /\ Cardinality(B) = votes[v]
  BY OwnBallots
<1> HIDE DEF A, B
<1>5. /\ IsFiniteSet(A \cup B)
      /\ Cardinality(A \cup B) = Cardinality(A) + Cardinality(B) - Cardinality(A \cap B)
  BY <1>3, <1>4, FS_Union
<1>6. /\ Cardinality(A) \in Nat /\ Cardinality(B) \in Nat /\ Cardinality(A \cup B) \in Nat
      /\ Cardinality(A \cap B) = 0
  BY <1>2, <1>3, <1>4, <1>5, FS_CardinalityType, FS_EmptySet
<1>7. Cardinality(A \cup B) = Cardinality(A) + Cardinality(B)
  BY <1>5, <1>6
<1> QED
  BY <1>1, <1>4, <1>7 DEF Power, A

\* Disjoint sets of validators share the total between them.
LEMMA PowerDisjoint ==
  ASSUME NEW votes, PeerList(votes),
         NEW S \in SUBSET DOMAIN votes, NEW T \in SUBSET DOMAIN votes, S \cap T = {}
  PROVE  Power(votes, S) + Power(votes, T) <= TotalVotes(votes)
<1> DEFINE A == Ballots(votes, S)
           B == Ballots(votes, T)
           C == Ballots(votes, DOMAIN votes)
<1>1. IsFiniteSet(A) /\ IsFiniteSet(B) /\ IsFiniteSet(C)
  BY BallotsFinite
<1>2. A \cap B = {}
  BY DEF Ballots
<1>3. A \cup B \subseteq C
  BY DEF Ballots
<1> HIDE DEF A, B, C
<1>4. Cardinality(A \cup B) = Cardinality(A) + Cardinality(B) - Cardinality(A \cap B)
  BY <1>1, FS_Union
<1>5. Cardinality(A \cup B) <= Cardinality(C)
  BY <1>1, <1>3, FS_Subset
<1>6. /\ Cardinality(A) \in Nat /\ Cardinality(B) \in Nat /\ Cardinality(C) \in Nat
      /\ Cardinality({}) = 0
  BY <1>1, FS_CardinalityType, FS_EmptySet
<1>7. Cardinality(A) + Cardinality(B) <= Cardinality(C)
  BY <1>2, <1>4, <1>5, <1>6
<1> QED
  BY <1>7 DEF Power, TotalVotes, A, B, C

\* Two sets of validators over two thirds are not disjoint, with the integer
\* division of the code ("power > total*2/3") and any Votes.
THEOREM QuorumsIntersect ==
  ASSUME NEW votes, PeerList(votes),
         NEW S \in SUBSET DOMAIN votes, NEW T \in SUBSET DOMAIN votes,
         OverTwoThirds(votes, Power(votes, S)), OverTwoThirds(votes, Power(votes, T))
  PROVE  S \cap T # {}
<1> SUFFICES ASSUME S \cap T = {} PROVE FALSE
  OBVIOUS
<1>1. Power(votes, S) + Power(votes, T) <= TotalVotes(votes)
  BY PowerDisjoint
<1>2. /\ Power(votes, S) \in Nat /\ Power(votes, T) \in Nat
      /\ TotalVotes(votes) \in Nat
  BY PowerType DEF TotalVotes
<1>3. /\ Power(votes, S) > (TotalVotes(votes) * 2) \div 3
      /\ Power(votes, T) > (TotalVotes(votes) * 2) \div 3
  BY DEF OverTwoThirds
<1>4. \A p, q, t \in Nat : p + q <= t /\ p > (t * 2) \div 3 => q <= (t * 2) \div 3
  OBVIOUS
<1> QED
  BY <1>1, <1>2, <1>3, <1>4

\* Sets of validators with none in common have their powers added.
LEMMA PowerUnion ==
  ASSUME NEW votes, PeerList(votes),
         NEW S \in SUBSET DOMAIN votes, NEW T \in SUBSET DOMAIN votes, S \cap T = {}
  PROVE  Power(votes, S \cup T) = Power(votes, S) + Power(votes, T)
<1> DEFINE A == Ballots(votes, S)
           B == Ballots(votes, T)
<1>1. Ballots(votes, S \cup T) = A \cup B
  BY DEF Ballots
<1>2. A \cap B = {}
  BY DEF Ballots
<1>3. IsFiniteSet(A) /\ IsFiniteSet(B)
  BY BallotsFinite
<1> HIDE DEF A, B
<1>4. Cardinality(A \cup B) = Cardinality(A) + Cardinality(B) - Cardinality(A \cap B)
  BY <1>3, FS_Union
<1>5. Cardinality(A) \in Nat /\ Cardinality(B) \in Nat /\ Cardinality({}) = 0
  BY <1>3, FS_CardinalityType, FS_EmptySet
<1>6. Cardinality(A \cup B) = Cardinality(A) + Cardinality(B)
  <2>1. Cardinality(A \cap B) = 0
    BY <1>2, <1>5
  <2> QED BY <1>4, <1>5, <2>1
<1> QED BY <1>1, <1>6 DEF Power, A, B

\* More validators, no less power.
LEMMA PowerMonotone ==
  ASSUME NEW votes, PeerList(votes), NEW T \in SUBSET DOMAIN votes, NEW S \in SUBSET T
  PROVE  Power(votes, S) <= Power(votes, T)
<1>1. Ballots(votes, S) \subseteq Ballots(votes, T) /\ IsFiniteSet(Ballots(votes, T))
  BY BallotsFinite DEF Ballots
<1> QED BY <1>1, FS_Subset DEF Power

\* As long as the faulty validators hold less than a third of the Votes, two
\* sets over two thirds have a correct validator in common.
THEOREM QuorumsShareCorrect ==
  ASSUME NEW votes, PeerList(votes),
         NEW S \in SUBSET DOMAIN votes, NEW T \in SUBSET DOMAIN votes,
         NEW faulty \in SUBSET DOMAIN votes,
         OverTwoThirds(votes, Power(votes, S)), OverTwoThirds(votes, Power(votes, T)),
         3 * Power(votes, faulty) < TotalVotes(votes)
  PROVE  \E v \in S \cap T : v \notin faulty
<1> SUFFICES ASSUME S \cap T \subseteq faulty PROVE FALSE
  OBVIOUS
<1> DEFINE R == S \ faulty
           U == S \cap faulty
<1>1. R \in SUBSET DOMAIN votes /\ U \in SUBSET faulty /\ R \cup U = S /\ R \cap U = {} /\ R \cap T = {}
  OBVIOUS
<1>2. Power(votes, R) + Power(votes, T) <= TotalVotes(votes)
  BY <1>1, PowerDisjoint
<1>3. Power(votes, S) = Power(votes, R) + Power(votes, U)
  BY <1>1, PowerUnion
<1>4. Power(votes, U) <= Power(votes, faulty)
  BY <1>1, PowerMonotone
<1>5. /\ Power(votes, S) \in Nat /\ Power(votes, T) \in Nat /\ Power(votes, R) \in Nat
      /\ Power(votes, U) \in Nat /\ Power(votes, faulty) \in Nat /\ TotalVotes(votes) \in Nat
  BY <1>1, PowerType DEF TotalVotes
<1>6. /\ Power(votes, S) > (TotalVotes(votes) * 2) \div 3
      /\ Power(votes, T) > (TotalVotes(votes) * 2) \div 3
  BY DEF OverTwoThirds
<1>7. \A p, t \in Nat : p > (t * 2) \div 3 => 3 * p > 2 * t
  OBVIOUS
<1>8. 3 * Power(votes, S) > 2 * TotalVotes(votes) /\ 3 * Power(votes, T) > 2 * TotalVotes(votes)
  BY <1>5, <1>6, <1>7
<1> QED BY <1>2, <1>3, <1>4, <1>5, <1>8
=============================================================================
