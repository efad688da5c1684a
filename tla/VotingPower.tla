---------------------------- MODULE VotingPower ----------------------------
(***************************************************************************)
(* Voting power of a set of validators.  In the code a shard is a list of  *)
(* peers, each with a Vote, and the power of a set of peers is the sum of  *)
(* their Votes; a set is a quorum when its power is greater than two       *)
(* thirds (integer division) of the total.                                 *)
(*                                                                         *)
(* The sum is written as a number of ballots: validator v holds the        *)
(* ballots <<v, 1>> .. <<v, votes[v]>>.  It is the same number, and the    *)
(* library's facts about the cardinality of unions apply to it.            *)
(***************************************************************************)
EXTENDS Naturals, FiniteSets

\* The ballots of the validators in S; votes maps a validator to its Vote.
Ballots(votes, S) == UNION {{v} \X (1..votes[v]) : v \in S}

\* The sum of the Votes of the validators in S.
Power(votes, S) == Cardinality(Ballots(votes, S))

\* ShardVotes and TotalVotingPower: the sum over the whole peer list.
TotalVotes(votes) == Power(votes, DOMAIN votes)

\* The test "power > total*2/3" of every quorum of the protocol.
OverTwoThirds(votes, power) == power > (TotalVotes(votes) * 2) \div 3
=============================================================================
