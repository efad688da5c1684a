------------------------------ MODULE VoteSet ------------------------------
(***************************************************************************)
(* The votes of one kind (prevotes or precommits) that a Pyramid node      *)
(* collects at one height: constypes.VoteSet.                              *)
(*                                                                         *)
(* A vote is a record with the fields from (ValidatorIndex), hash          *)
(* (BlockHeaderHash) and ok (IsOK).  Votes are counted for the pair of     *)
(* hash and code, and the first vote of a validator is the only one that   *)
(* counts.  A set is a record:                                             *)
(*   votes  the choice <<hash, ok>> of each validator, or None             *)
(*          (bitVector and votes)                                          *)
(*   cnt    blockHeaderHashCnt: the power behind each choice voted for     *)
(*   maj    the choice over two thirds (has_mj23, mj23_key, mj23_code), or *)
(*          None                                                           *)
(***************************************************************************)
EXTENDS VotingPower

CONSTANT None   \* stands for nil

Choice(vote) == <<vote.hash, vote.ok>>

NewVoteSet(power) ==
  [votes |-> [v \in DOMAIN power |-> None],
   cnt   |-> [x \in {} |-> 0],
   maj   |-> None]

HasMaj23(set) == set.maj # None

\* The power behind the choice of a vote once the vote is counted.
CntWith(power, set, vote) ==
  (IF Choice(vote) \in DOMAIN set.cnt THEN set.cnt[Choice(vote)] ELSE 0) + power[vote.from]

\* Faulty variant of AddVote: every vote is counted.
AddVoteAgain(power, set, vote) ==
  LET x == Choice(vote)  c == CntWith(power, set, vote) IN
  [votes |-> [set.votes EXCEPT ![vote.from] = x],
   cnt   |-> [y \in DOMAIN set.cnt \cup {x} |-> IF y = x THEN c ELSE set.cnt[y]],
   maj   |-> IF set.maj = None /\ OverTwoThirds(power, c) THEN x ELSE set.maj]

\* AddVote: a vote of a validator that has voted changes nothing.
AddVote(power, set, vote) ==
  LET x == Choice(vote)  c == CntWith(power, set, vote) IN
  IF set.votes[vote.from] # None
  THEN set
  ELSE [votes |-> [set.votes EXCEPT ![vote.from] = x],
        cnt   |-> [y \in DOMAIN set.cnt \cup {x} |-> IF y = x THEN c ELSE set.cnt[y]],
        maj   |-> IF set.maj = None /\ OverTwoThirds(power, c) THEN x ELSE set.maj]

\* AddVote returns an error for a second vote of a validator if it has the
\* same hash, or another code: the caller then looks for no transition.
AddVoteReturnsNil(set, vote) ==
  LET x == set.votes[vote.from] IN
  x # None => vote.hash # x[1] /\ vote.ok = x[2]

\* GetMaj23AggreSig: the validators whose signatures are aggregated.
Maj23Signers(set) == {v \in DOMAIN set.votes : set.votes[v] = set.maj}
=============================================================================
