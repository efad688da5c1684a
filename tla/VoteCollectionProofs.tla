------------------------ MODULE VoteCollectionProofs ------------------------
(***************************************************************************)
(* The properties of VoteCollection for any nodes, validators, Votes and   *)
(* hashes.  The first part is about one VoteSet: AddVote keeps the count   *)
(* of each choice equal to the power of those who voted for it.  The       *)
(* second part is about the shard: the correct validators in a count are   *)
(* those that have signed the choice, and two majorities have one of them  *)
(* in common.                                                              *)
(***************************************************************************)
EXTENDS VoteCollection, VotingPowerProofs

\* The validators whose vote for x is in the set.
Voters(set, x) == {v \in DOMAIN Votes : set.votes[v] = x}

\* What AddVote relies on: the count of a choice is the power behind it.
VoteSetOK(set) ==
  /\ set.votes \in [DOMAIN Votes -> Choices \cup {None}]
  /\ DOMAIN set.cnt \subseteq Choices
  /\ \A x \in Choices : IF x \in DOMAIN set.cnt
                        THEN set.cnt[x] = Power(Votes, Voters(set, x))
                        ELSE Voters(set, x) = {}
  /\ set.maj # None => set.maj \in DOMAIN set.cnt /\ OverTwoThirds(Votes, set.cnt[set.maj])

\* A correct validator is counted only for the choice it has signed.
CountedAsSigned ==
  \A n \in Nodes : \A v \in Correct : sets[n].votes[v] # None => sets[n].votes[v] = sent[v]

IInv ==
  /\ sent \in [Correct -> Choices \cup {None}]
  /\ sets = [n \in Nodes |-> sets[n]]
  /\ \A n \in Nodes : VoteSetOK(sets[n])
  /\ CountedAsSigned

LEMMA NewVoteSetOK ==
  ASSUME ConstantsOK
  PROVE  VoteSetOK(NewVoteSet(Votes))
<1>1. \A x \in Choices : x # None
  BY DEF ConstantsOK, Choices
<1> QED BY <1>1 DEF VoteSetOK, NewVoteSet, Voters

\* A vote that is counted is counted once, with the Vote of its validator.
LEMMA AddVoteOK ==
  ASSUME ConstantsOK, NEW set, VoteSetOK(set), NEW v \in DOMAIN Votes, NEW x \in Choices
  PROVE  LET new == AddVote(Votes, set, [from |-> v, hash |-> x[1], ok |-> x[2]]) IN
         /\ VoteSetOK(new)
         /\ \A w \in DOMAIN Votes : new.votes[w] = set.votes[w] \/ (w = v /\ new.votes[w] = x)
<1> DEFINE vote == [from |-> v, hash |-> x[1], ok |-> x[2]]
           c == CntWith(Votes, set, vote)
           new == AddVote(Votes, set, vote)
<1>1. PeerList(Votes) /\ \A y \in Choices : y # None
  BY DEF ConstantsOK, PeerList, Choices
<1>2. Choice(vote) = x /\ vote.from = v
  BY DEF Choice, Choices
<1>3. CASE set.votes[v] # None
  <2>1. new = set
    BY <1>2, <1>3 DEF AddVote
  <2> QED BY <2>1
<1>4. CASE set.votes[v] = None
  <2> HIDE DEF vote, c
  <2>1. new = [votes |-> [set.votes EXCEPT ![v] = x],
               cnt   |-> [y \in DOMAIN set.cnt \cup {x} |-> IF y = x THEN c ELSE set.cnt[y]],
               maj   |-> IF set.maj = None /\ OverTwoThirds(Votes, c) THEN x ELSE set.maj]
    BY <1>2, <1>4 DEF AddVote, c
  <2> HIDE DEF new
  <2>2. /\ new.votes = [set.votes EXCEPT ![v] = x]
        /\ new.cnt = [y \in DOMAIN set.cnt \cup {x} |-> IF y = x THEN c ELSE set.cnt[y]]
        /\ new.maj = IF set.maj = None /\ OverTwoThirds(Votes, c) THEN x ELSE set.maj
    BY <2>1
  <2>3. new.votes \in [DOMAIN Votes -> Choices \cup {None}]
    BY <2>2 DEF VoteSetOK
  <2>4. \A w \in DOMAIN Votes : new.votes[w] = IF w = v THEN x ELSE set.votes[w]
    BY <2>2 DEF VoteSetOK
  <2>5. Voters(new, x) = Voters(set, x) \cup {v} /\ v \notin Voters(set, x)
    BY <1>1, <1>4, <2>4 DEF Voters
  <2>6. \A y \in Choices \ {x} : Voters(new, y) = Voters(set, y)
    BY <1>1, <1>4, <2>4 DEF Voters
  <2>7. c = Power(Votes, Voters(new, x))
    <3>1. Power(Votes, Voters(new, x)) = Power(Votes, Voters(set, x)) + Votes[v]
      BY <1>1, <2>5, PowerAdd DEF Voters
    <3>2. CASE x \in DOMAIN set.cnt
      BY <1>2, <3>1, <3>2 DEF c, CntWith, VoteSetOK
    <3>3. CASE x \notin DOMAIN set.cnt
      <4>1. Voters(set, x) = {}
        BY <3>3 DEF VoteSetOK
      <4> QED BY <1>2, <3>1, <3>3, <4>1, PowerEmpty DEF c, CntWith
    <3> QED BY <3>2, <3>3
  <2>8. \A y \in Choices : IF y \in DOMAIN new.cnt
                           THEN new.cnt[y] = Power(Votes, Voters(new, y))
                           ELSE Voters(new, y) = {}
    BY <2>2, <2>6, <2>7 DEF VoteSetOK
  <2>9. new.maj # None => new.maj \in DOMAIN new.cnt /\ OverTwoThirds(Votes, new.cnt[new.maj])
    <3>1. CASE set.maj = None
      BY <2>2, <3>1
    <3>2. CASE set.maj # None
      <4>1. CASE set.maj = x
        \* The power behind a choice only grows.
        <5>1. OverTwoThirds(Votes, Power(Votes, Voters(set, x)))
          BY <3>2, <4>1 DEF VoteSetOK
        <5>2. Power(Votes, Voters(set, x)) <= Power(Votes, Voters(new, x))
          BY <1>1, <2>5, PowerMonotone DEF Voters
        <5>3. /\ Power(Votes, Voters(set, x)) \in Nat /\ Power(Votes, Voters(new, x)) \in Nat
              /\ TotalVotes(Votes) \in Nat
          BY <1>1, PowerType DEF Voters, TotalVotes
        <5>4. OverTwoThirds(Votes, c)
          BY <2>7, <5>1, <5>2, <5>3 DEF OverTwoThirds
        <5> QED BY <2>2, <3>2, <4>1, <5>4
      <4>2. CASE set.maj # x
        BY <2>2, <3>2, <4>2 DEF VoteSetOK
      <4> QED BY <4>1, <4>2
    <3> QED BY <3>1, <3>2
  <2>10. DOMAIN new.cnt \subseteq Choices
    BY <2>2 DEF VoteSetOK
  <2>11. VoteSetOK(new)
    BY <2>3, <2>8, <2>9, <2>10 DEF VoteSetOK
  <2> QED BY <2>4, <2>11 DEF new, vote
<1> QED BY <1>3, <1>4
-----------------------------------------------------------------------------
LEMMA InitIInv ==
  ASSUME ConstantsOK, Init
  PROVE  IInv
<1>1. sent \in [Correct -> Choices \cup {None}] /\ sets = [n \in Nodes |-> sets[n]]
  BY DEF Init
<1>2. \A n \in Nodes : VoteSetOK(sets[n])
  BY NewVoteSetOK DEF Init
<1>3. CountedAsSigned
  BY DEF Init, CountedAsSigned, NewVoteSet, Correct
<1> QED BY <1>1, <1>2, <1>3 DEF IInv

LEMMA CastIInv ==
  ASSUME ConstantsOK, IInv, NEW v \in Correct, NEW x \in Choices, Cast(v, x)
  PROVE  IInv'
<1>1. sent' \in [Correct -> Choices \cup {None}] /\ UNCHANGED sets
  BY DEF IInv, Cast
\* Nobody has a vote of a validator that has not signed one.
<1>2. CountedAsSigned'
  <2>1. sent[v] = None /\ \A w \in Correct : w # v => sent'[w] = sent[w]
    BY DEF IInv, Cast
  <2>2. CountedAsSigned
    BY DEF IInv
  <2> QED BY <1>1, <2>1, <2>2 DEF CountedAsSigned
<1>3. \A n \in Nodes : VoteSetOK(sets[n])'
  BY <1>1 DEF IInv
<1> QED BY <1>1, <1>2, <1>3 DEF IInv

LEMMA ReceiveIInv ==
  ASSUME ConstantsOK, IInv, NEW n \in Nodes, NEW v \in DOMAIN Votes, NEW x \in Choices,
         Receive(n, v, x)
  PROVE  IInv'
<1> DEFINE new == AddVote(Votes, sets[n], [from |-> v, hash |-> x[1], ok |-> x[2]])
<1>1. VoteSetOK(new) /\ \A w \in DOMAIN Votes : new.votes[w] = sets[n].votes[w] \/ (w = v /\ new.votes[w] = x)
  BY AddVoteOK DEF IInv
<1> HIDE DEF new
<1>2. UNCHANGED sent /\ sets' = [sets EXCEPT ![n] = new] /\ x \in Signed(v)
  BY DEF Receive, new
<1>3. \A m \in Nodes : sets'[m] = IF m = n THEN new ELSE sets[m]
  BY <1>2 DEF IInv
<1>4. \A m \in Nodes : VoteSetOK(sets[m])'
  BY <1>1, <1>3 DEF IInv
<1>5. CountedAsSigned'
  <2>1. v \in Correct => x = sent[v]
    BY <1>2 DEF Signed, Correct
  <2> QED BY <1>1, <1>2, <1>3, <2>1 DEF IInv, CountedAsSigned, Correct
<1>6. sets' = [m \in Nodes |-> sets'[m]]
  BY <1>2 DEF IInv
<1> QED BY <1>2, <1>4, <1>5, <1>6 DEF IInv

LEMMA NextIInv ==
  ASSUME ConstantsOK, IInv, [Next]_vars
  PROVE  IInv'
<1>1. CASE \E v \in Correct, x \in Choices : Cast(v, x)
  BY <1>1, CastIInv
<1>2. CASE \E n \in Nodes, v \in DOMAIN Votes, x \in Choices : Receive(n, v, x)
  BY <1>2, ReceiveIInv
<1>3. CASE UNCHANGED vars
  <2>1. UNCHANGED sent /\ UNCHANGED sets
    BY <1>3 DEF vars
  <2>2. \A n \in Nodes : VoteSetOK(sets[n])'
    BY <2>1 DEF IInv
  <2>3. CountedAsSigned'
    BY <2>1 DEF IInv, CountedAsSigned
  <2> QED BY <2>1, <2>2, <2>3 DEF IInv
<1> QED BY <1>1, <1>2, <1>3 DEF Next

LEMMA IInvTypeOK ==
  ASSUME ConstantsOK, IInv
  PROVE  TypeOK
<1>1. PeerList(Votes)
  BY DEF ConstantsOK, PeerList
<1>2. \A n \in Nodes : \A x \in DOMAIN sets[n].cnt : sets[n].cnt[x] \in Nat
  <2> SUFFICES ASSUME NEW n \in Nodes, NEW x \in DOMAIN sets[n].cnt PROVE sets[n].cnt[x] \in Nat
    OBVIOUS
  <2>1. sets[n].cnt[x] = Power(Votes, Voters(sets[n], x))
    BY DEF IInv, VoteSetOK
  <2>2. Voters(sets[n], x) \in SUBSET DOMAIN Votes
    BY DEF Voters
  <2> QED BY <1>1, <2>1, <2>2, PowerType
<1> QED BY <1>2 DEF IInv, VoteSetOK, TypeOK

LEMMA IInvAggregateIsQuorum ==
  ASSUME IInv
  PROVE  AggregateIsQuorum
<1> SUFFICES ASSUME NEW n \in Nodes, HasMaj23(sets[n])
             PROVE  OverTwoThirds(Votes, Power(Votes, Maj23Signers(sets[n])))
  BY DEF AggregateIsQuorum
<1>1. Maj23Signers(sets[n]) = Voters(sets[n], sets[n].maj)
  BY DEF IInv, VoteSetOK, Maj23Signers, Voters
<1> QED BY <1>1 DEF IInv, VoteSetOK, HasMaj23

\* Two majorities have a correct validator in common, and it has signed once.
LEMMA IInvMajoritiesAgree ==
  ASSUME ConstantsOK, IInv
  PROVE  MajoritiesAgree
<1> SUFFICES ASSUME 3 * Power(Votes, Faulty) < TotalVotes(Votes), NEW m \in Nodes, NEW n \in Nodes,
                    HasMaj23(sets[m]), HasMaj23(sets[n])
             PROVE  sets[m].maj = sets[n].maj
  BY DEF MajoritiesAgree
<1> DEFINE S == Maj23Signers(sets[m])
           T == Maj23Signers(sets[n])
<1>1. OverTwoThirds(Votes, Power(Votes, S)) /\ OverTwoThirds(Votes, Power(Votes, T))
  BY IInvAggregateIsQuorum DEF AggregateIsQuorum
<1>2. S \in SUBSET DOMAIN Votes /\ T \in SUBSET DOMAIN Votes /\ Faulty \in SUBSET DOMAIN Votes /\ PeerList(Votes)
  BY DEF ConstantsOK, PeerList, IInv, VoteSetOK, Maj23Signers
<1>3. PICK v \in S \cap T : v \notin Faulty
  <2> HIDE DEF S, T
  <2> QED BY <1>1, <1>2, QuorumsShareCorrect
<1>4. v \in Correct /\ sets[m].votes[v] = sets[m].maj /\ sets[n].votes[v] = sets[n].maj
  BY <1>2, <1>3 DEF Correct, Maj23Signers
<1> QED BY <1>4 DEF IInv, CountedAsSigned, HasMaj23

\* For any peer list, any faulty validators and votes in any order: the
\* majorities of two nodes agree as long as the faulty validators hold less
\* than a third of the Votes, and what a node aggregates is signed by more
\* than two thirds (AddVote, GetMaj23AggreSig).
THEOREM MajoritiesAreRight ==
  ASSUME ConstantsOK
  PROVE  Spec => []VotesAreRight
<1>1. Init => IInv
  BY InitIInv
<1>2. IInv /\ [Next]_vars => IInv'
  BY NextIInv
<1>3. IInv => VotesAreRight
  BY IInvTypeOK, IInvAggregateIsQuorum, IInvMajoritiesAgree DEF VotesAreRight
<1> QED BY <1>1, <1>2, <1>3, PTL DEF Spec
=============================================================================
