------------------------ MODULE AtomicCommitProofs ------------------------
(***************************************************************************)
(* What AtomicCommit promises follows for any blocks and shards.  Pyramid  *)
(* and Rapid implement AtomicCommit, and so keep the promise.              *)
(***************************************************************************)
EXTENDS AtomicCommit, TLAPS

\* vote and applied are functions: TypeOK with the domains in the form the
\* provers use for an update.
WellTyped ==
  /\ vote = [x \in Block |-> vote[x]]
  /\ applied = [x \in Block |-> applied[x]]
  /\ decision \in [Block -> Decision]
  /\ \A x \in Block : vote[x] \in [Parties[x] -> Vote] /\ applied[x] \in [Parties[x] -> Decision]

\* A decision to commit was made with all votes yes, and votes stay.
CommitIsUnanimous ==
  \A x \in Block : decision[x] = "commit" => \A i \in Parties[x] : vote[x][i] = "yes"

\* What a shard has executed is the decision, and decisions stay.
AppliedIsDecision ==
  \A x \in Block : \A i \in Parties[x] : applied[x][i] # "none" => applied[x][i] = decision[x]

IInv == WellTyped /\ CommitIsUnanimous /\ AppliedIsDecision

LEMMA InitIInv == Init => IInv
BY DEF Init, IInv, WellTyped, CommitIsUnanimous, AppliedIsDecision, Vote, Decision

LEMMA CastVoteIInv ==
  ASSUME IInv, NEW x \in Block, NEW i \in Parties[x], CastVote(x, i)
  PROVE  IInv'
<1>1. PICK v \in {"yes", "no"} : vote' = [vote EXCEPT ![x][i] = v]
  BY DEF CastVote
<1>2. WellTyped'
  BY <1>1 DEF IInv, WellTyped, CastVote, Vote
\* A block with a vote that is missing is not decided for commit.
<1>3. CommitIsUnanimous'
  BY <1>1 DEF IInv, WellTyped, CommitIsUnanimous, CastVote
<1>4. AppliedIsDecision'
  BY DEF IInv, AppliedIsDecision, CastVote
<1> QED BY <1>2, <1>3, <1>4 DEF IInv

LEMMA DecideIInv ==
  ASSUME IInv, NEW x \in Block, Decide(x)
  PROVE  IInv'
<1>1. WellTyped'
  BY DEF IInv, WellTyped, Decide, Decision
<1>2. CommitIsUnanimous'
  BY DEF IInv, WellTyped, CommitIsUnanimous, Decide
\* Nobody has executed a block that was not decided.
<1>3. AppliedIsDecision'
  BY DEF IInv, WellTyped, AppliedIsDecision, Decide
<1> QED BY <1>1, <1>2, <1>3 DEF IInv

LEMMA ApplyIInv ==
  ASSUME IInv, NEW i \in Shards, NEW xs \in SUBSET Block, Apply(i, xs)
  PROVE  IInv'
<1>1. WellTyped'
  BY DEF IInv, WellTyped, Apply
<1>2. CommitIsUnanimous'
  BY DEF IInv, CommitIsUnanimous, Apply
<1>3. AppliedIsDecision'
  BY DEF IInv, WellTyped, AppliedIsDecision, Apply
<1> QED BY <1>1, <1>2, <1>3 DEF IInv

LEMMA NextIInv == IInv /\ [Next]_vars => IInv'
<1> SUFFICES ASSUME IInv, [Next]_vars PROVE IInv'
  OBVIOUS
<1>1. CASE \E x \in Block : \E i \in Parties[x] : CastVote(x, i)
  BY <1>1, CastVoteIInv
<1>2. CASE \E x \in Block : Decide(x)
  BY <1>2, DecideIInv
<1>3. CASE \E i \in Shards : \E xs \in SUBSET Block : Apply(i, xs)
  BY <1>3, ApplyIInv
<1>4. CASE UNCHANGED vars
  BY <1>4 DEF vars, IInv, WellTyped, CommitIsUnanimous, AppliedIsDecision
<1> QED BY <1>1, <1>2, <1>3, <1>4 DEF Next

LEMMA IInvTypeOK == IInv => TypeOK
BY DEF IInv, WellTyped, TypeOK

LEMMA IInvAllOrNothing == IInv => AllOrNothing
BY DEF IInv, WellTyped, CommitIsUnanimous, AppliedIsDecision, AllOrNothing, Decision

\* The variables of atomic commitment keep their types (Init, Next).
THEOREM TypeCorrect == Spec => []TypeOK
BY InitIInv, NextIInv, IInvTypeOK, PTL DEF Spec

\* The I-shards of a cross-shard block execute the same decision, and commit
\* only what all of them have voted for (prevote codes of a BCommit block and
\* the AcceptCommitShard of the I-shards, for which AtomicCommit stands).
THEOREM Atomicity == Spec => []AllOrNothing
BY InitIInv, NextIInv, IInvAllOrNothing, PTL DEF Spec
=============================================================================
