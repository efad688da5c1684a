---------------------------- MODULE CSAShardSet ----------------------------
(***************************************************************************)
(* The collection of CrossShardAccept votes of one I-shard, as each node   *)
(* of a C-shard keeps it for the current height (CSAShardSet).             *)
(*                                                                         *)
(* A set is a record:                                                      *)
(*   seen   IndexSeen, the block hash each validator voted for, or None    *)
(*   sigs   SigMap, the validators whose vote is filed under a status      *)
(*   power  KeyVotePower, the accumulated power of a status                *)
(*   maj23  the status over two thirds (HasMaj23Flag, Maj23Key and         *)
(*          Maj23CommitStatus), or None                                    *)
(* A vote (csa) is a record with the fields index, block and status.  The  *)
(* key of SigMap and KeyVotePower is the commit status alone: the block    *)
(* hash takes no part in it.                                               *)
(***************************************************************************)
EXTENDS VotingPower

CONSTANTS Block,    \* block header hashes
          Status,   \* commit statuses, the keys of SigMap and KeyVotePower
          None      \* stands for nil

ASSUME NoneAssumption == None \notin Block /\ None \notin Status

NewCSAShardSet(votes) ==
  [seen  |-> [v \in DOMAIN votes |-> None],
   sigs  |-> [k \in Status |-> {}],
   power |-> [k \in Status |-> 0],
   maj23 |-> None]

HasMaj23(set) == set.maj23 # None

\* The power that filing csa gives to its status.
PowerWith(votes, set, csa) == set.power[csa.status] + votes[csa.index]

\* The vote would give a second status more than two thirds: AddCSA files
\* the vote, leaves the majority alone and returns an error.
Ambiguous(votes, set, csa) ==
  /\ set.seen[csa.index] = None
  /\ OverTwoThirds(votes, PowerWith(votes, set, csa))
  /\ set.maj23 \notin {None, csa.status}

\* Faulty variants of AddCSA: without IndexSeen; with a majority that a later
\* vote for another status takes away.
AddCSAUnseen(votes, set, csa) ==
  [set EXCEPT
    !.seen[csa.index]   = csa.block,
    !.sigs[csa.status]  = @ \cup {csa.index},
    !.power[csa.status] = PowerWith(votes, set, csa),
    !.maj23 = IF @ = None /\ OverTwoThirds(votes, PowerWith(votes, set, csa))
              THEN csa.status
              ELSE @]

AddCSAForgets(votes, set, csa) ==
  IF set.seen[csa.index] # None THEN set
  ELSE [AddCSAUnseen(votes, set, csa) EXCEPT
         !.maj23 = IF OverTwoThirds(votes, PowerWith(votes, set, csa))
                   THEN csa.status ELSE None]

\* AddCSA files a vote whose validator has not been seen; any later vote of
\* the same validator is dropped, whatever it says.
AddCSA(votes, set, csa) ==
  IF set.seen[csa.index] # None
  THEN set
  ELSE [set EXCEPT
         !.seen[csa.index]   = csa.block,
         !.sigs[csa.status]  = @ \cup {csa.index},
         !.power[csa.status] = PowerWith(votes, set, csa),
         !.maj23 = IF @ = None /\ OverTwoThirds(votes, PowerWith(votes, set, csa))
                   THEN csa.status
                   ELSE @]

\* AddCSA returns no error, so that the caller looks for a state transition:
\* a repeated vote for the same block is no error, one for another block is.
AddCSAReturnsNil(votes, set, csa) ==
  /\ set.seen[csa.index] \in {None, csa.block}
  /\ ~Ambiguous(votes, set, csa)

\* GetMaj23: the status and the validators whose signatures are aggregated,
\* nil and nil without a majority.
GetMaj23(set) ==
  IF HasMaj23(set)
  THEN [status |-> set.maj23, signers |-> set.sigs[set.maj23]]
  ELSE [status |-> None, signers |-> {}]
=============================================================================
