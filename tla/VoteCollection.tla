--------------------------- MODULE VoteCollection ---------------------------
(***************************************************************************)
(* The nodes of one Pyramid shard collecting the votes of one height, each *)
(* in a VoteSet of its own.  A correct validator sends one vote, the same  *)
(* to all; a faulty one sends any votes, different ones to different       *)
(* nodes.  A vote may arrive in any order and more than once.              *)
(***************************************************************************)
EXTENDS VoteSet

CONSTANTS Nodes,      \* the nodes that collect
          Votes,      \* the Vote of each validator
          Faulty,     \* validators that may send any votes
          Hash        \* block header hashes

\* What the constants are; stated as an assumption where they get values.
ConstantsOK ==
  /\ IsFiniteSet(DOMAIN Votes) /\ Votes \in [DOMAIN Votes -> Nat]
  /\ Faulty \subseteq DOMAIN Votes
  /\ None \notin Hash \X BOOLEAN

VARIABLES sent,   \* sent[v]: the choice of correct validator v, or None
          sets    \* sets[n]: the VoteSet of node n

vars == <<sent, sets>>

Choices == Hash \X BOOLEAN
Correct == DOMAIN Votes \ Faulty

Init ==
  /\ sent = [v \in Correct |-> None]
  /\ sets = [n \in Nodes |-> NewVoteSet(Votes)]

\* doPropose and doPrevote sign one vote a height.
Cast(v, x) ==
  /\ sent[v] = None
  /\ sent' = [sent EXCEPT ![v] = x]
  /\ UNCHANGED sets

\* What validator v may have signed.
Signed(v) == IF v \in Faulty THEN Choices ELSE {sent[v]} \ {None}

\* AddPrevote and AddPrecommit check the signature and call AddVote.
Receive(n, v, x) ==
  /\ x \in Signed(v)
  /\ sets' = [sets EXCEPT ![n] = AddVote(Votes, @, [from |-> v, hash |-> x[1], ok |-> x[2]])]
  /\ UNCHANGED sent

Next ==
  \/ \E v \in Correct, x \in Choices : Cast(v, x)
  \/ \E n \in Nodes, v \in DOMAIN Votes, x \in Choices : Receive(n, v, x)

Spec == Init /\ [][Next]_vars
-----------------------------------------------------------------------------
(* Properties.                                                             *)

TypeOK ==
  /\ sent \in [Correct -> Choices \cup {None}]
  /\ \A n \in Nodes :
       /\ sets[n].votes \in [DOMAIN Votes -> Choices \cup {None}]
       /\ DOMAIN sets[n].cnt \subseteq Choices
       /\ \A x \in DOMAIN sets[n].cnt : sets[n].cnt[x] \in Nat
       /\ sets[n].maj \in Choices \cup {None}

\* Two nodes never find different majorities, of hash or of code, as long as
\* the faulty validators hold less than a third of the Votes: what they sign
\* twice cannot split the shard (AddVote).
MajoritiesAgree ==
  3 * Power(Votes, Faulty) < TotalVotes(Votes) =>
    \A m, n \in Nodes :
      HasMaj23(sets[m]) /\ HasMaj23(sets[n]) => sets[m].maj = sets[n].maj

\* The signatures GetMaj23AggreSig aggregates are those of more than two
\* thirds of the Votes, counted once each whatever was sent again, although
\* no receiver of the aggregate checks that power (VerifySignatures).
AggregateIsQuorum ==
  \A n \in Nodes :
    HasMaj23(sets[n]) => OverTwoThirds(Votes, Power(Votes, Maj23Signers(sets[n])))

\* Nodes of a Pyramid shard never find different majorities, and the
\* signatures they aggregate are those of more than two thirds (AddVote,
\* GetMaj23AggreSig).
VotesAreRight == TypeOK /\ MajoritiesAgree /\ AggregateIsQuorum
=============================================================================
