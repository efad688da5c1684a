---------------------------- MODULE MeleteProofs ----------------------------
(***************************************************************************)
(* The agreement of Melete's shards, for any topology, peer lists, bodies, *)
(* transactions and heights, with less than a third of the Votes of each   *)
(* shard faulty.                                                           *)
(*                                                                         *)
(* A handler is a composition of functions on the state of a node, so the  *)
(* inductive invariant is one predicate on a node's state, NodeOK, which   *)
(* each of these functions keeps.  It says what backs each thing the node  *)
(* has collected by messages of the set M: the ones on the network and the *)
(* ones that the handler is about to send.                                 *)
(***************************************************************************)
EXTENDS Melete, VotingPowerProofs, SequenceTheorems

\* nil is neither a commit status nor one of the records a node keeps.
NoneIsNil ==
  /\ None \notin Status
  /\ \A c, h, b, r : [chain |-> c, height |-> h, body |-> b, root |-> r] # None

\* The application answers every C-block with a commit status.
AnswersOK ==
  \A c, root, blocks : PreExecutionI(c, root, blocks) \in [DOMAIN blocks -> Status]

StateFields ==
  {"up", "height", "step", "root", "relay", "resume", "out", "proposal",
   "prevotes", "prevoteBits", "prevoteTotal", "precommits", "precommitBits", "precommitTotal",
   "csps", "csas", "counter", "cscs", "partSets", "blocks", "buffer"}
IsState(s) == DOMAIN s = StateFields
-----------------------------------------------------------------------------
(* The invariant.                                                          *)

\* A quorum of chain d has precommitted block b.
Agreed(M, d, b) ==
  Over23(d, Power(Votes[d], {v \in DOMAIN Votes[d] : PrecommitMsg(<<d, v>>, b) \in M}))

\* The validators of I-shard i that have answered C-shard d with status k.
Accepts(M, i, d, h, k) ==
  {v \in DOMAIN Votes[i] :
     \E m \in M : /\ m.type = "CSA" /\ m.to = d /\ m.accept = i
                  /\ m.index = v /\ m.height = h /\ m.status = k}
Accepted(M, i, d, h, k) == Over23(i, Power(Votes[i], Accepts(M, i, d, h, k)))

\* The votes of one kind: the counted ones are those for the proposal b, and
\* every stored vote for a block of this height has been sent.
CountOK(M, c, type, h, b, votes, bits, total) ==
  /\ DOMAIN votes = DOMAIN Votes[c]
  /\ bits = IF b = None THEN {} ELSE VotersFor(votes, b)
  /\ total = Power(Votes[c], bits)
  /\ \A v \in DOMAIN Votes[c] : votes[v] # None /\ votes[v].height = h =>
       [type |-> type, to |-> c, height |-> h, from |-> v, block |-> votes[v]] \in M

PrevotesOK(n, s, M) ==
  CountOK(M, ChainOf(n), "Prevote", s.height, s.proposal, s.prevotes, s.prevoteBits, s.prevoteTotal)
PrecommitsOK(n, s, M) ==
  CountOK(M, ChainOf(n), "Precommit", s.height, s.proposal,
          s.precommits, s.precommitBits, s.precommitTotal)

\* A block of chain d that a node has, or collects the parts of: the own
\* proposal, or a block that chain d has agreed on.
BlockOK(M, c, h, proposal, d, b) ==
  /\ b.chain = d
  /\ b.height = h
  /\ \/ d = c /\ proposal # None /\ b = proposal
     \/ Agreed(M, d, b)

BlocksOK(n, s, M) ==
  /\ DOMAIN s.partSets = Shard /\ DOMAIN s.blocks = Shard
  /\ s.proposal # None => s.proposal.chain = ChainOf(n) /\ s.proposal.height = s.height
  /\ \A d \in Shard : s.partSets[d] # None =>
       /\ DOMAIN s.partSets[d] = {"block", "kind", "got"}
       /\ BlockOK(M, ChainOf(n), s.height, s.proposal, d, s.partSets[d].block)
  /\ \A d \in Shard : s.blocks[d] # None =>
       BlockOK(M, ChainOf(n), s.height, s.proposal, d, s.blocks[d])

\* The answers of I-shard i that a node of C-shard d has collected.
SetOK(M, i, d, h, set) ==
  /\ DOMAIN set = {"seen", "sigs", "power", "maj23"}
  /\ DOMAIN set.seen = DOMAIN Votes[i] /\ DOMAIN set.power = Status
  /\ set.sigs \in [Status -> SUBSET DOMAIN Votes[i]]
  /\ \A k \in Status : /\ set.power[k] = Power(Votes[i], set.sigs[k])
                       /\ set.sigs[k] \subseteq Accepts(M, i, d, h, k)
                       /\ \A v \in set.sigs[k] : set.seen[v] # None
  /\ HasMaj23(set) => set.maj23 \in Status /\ Over23(i, set.power[set.maj23])

AcceptsOK(n, s, M) ==
  /\ DOMAIN s.csas = Related[ChainOf(n)]
  /\ \A i \in Related[ChainOf(n)] : SetOK(M, i, ChainOf(n), s.height, s.csas[i])
  /\ s.counter = Cardinality({i \in Related[ChainOf(n)] : HasMaj23(s.csas[i])})

\* A certificate has a quorum of each I-shard of its C-shard behind it.
CommitsOK(s, M) ==
  /\ DOMAIN s.cscs = Shard
  /\ \A d \in Shard : s.cscs[d] # None =>
       /\ DOMAIN s.cscs[d].commits = Related[d]
       /\ \A i \in Related[d] : Accepted(M, i, d, s.height, s.cscs[d].commits[i].status)

\* What a node of chain c has executed at height h: agreed blocks, with the
\* conjunction of the statuses that the I-shards have accepted.
EntryOK(M, c, h, e) ==
  /\ DOMAIN e.body = CNeighbours(c) \cup INeighbours(c)
  /\ DOMAIN e.status = CNeighbours(c)
  /\ \A d \in DOMAIN e.body :
       \E b : b.chain = d /\ b.height = h /\ b.body = e.body[d] /\ Agreed(M, d, b)
  /\ \A d \in DOMAIN e.status :
       \E f : /\ \A i \in Related[d] : Accepted(M, i, d, h, f[i])
              /\ e.status[d] = {t \in Tx : \A i \in Related[d] : t \in f[i]}

HistoryOK(n, s, M) ==
  /\ \E S : s.root \in Seq(S)
  /\ Len(s.root) = IF s.height = 0 THEN 0 ELSE s.height - 1
  /\ \A h \in 1..Len(s.root) : EntryOK(M, ChainOf(n), h, s.root[h])

\* The steps in which a vote of a type has been sent.
After(type) ==
  CASE type = "Prevote" -> {"Prevote", "Precommit", "CrossShardAccept", "CrossShardCommit"}
    [] type = "Precommit" -> {"Precommit", "CrossShardAccept", "CrossShardCommit"}
    [] OTHER -> {"CrossShardCommit"}

\* A node votes once a height, on each question.
OwnVotesOK(n, s, M) ==
  /\ \A m \in M : VoteOf(n, m) =>
       m.height \in 0..s.height /\ (m.height = s.height => s.step \in After(m.type))
  /\ \A m, k \in M :
       VoteOf(n, m) /\ VoteOf(n, k) /\ m.type = k.type /\ m.to = k.to /\ m.height = k.height => m = k

\* Messages of this node that are kept, and to be sent.
RelayOK(n, s, M) == s.relay \subseteq {m \in M : m.to = ChainOf(n)}
OutOK(n, s) == \A m \in s.out :
  WellFormed(m) /\ (m.type \in {"Prevote", "Precommit", "CSA"} => VoteOf(n, m))

CollectedOK(n, s, M) ==
  /\ PrevotesOK(n, s, M)
  /\ PrecommitsOK(n, s, M)
  /\ BlocksOK(n, s, M)
  /\ AcceptsOK(n, s, M)
  /\ CommitsOK(s, M)

NodeOK(n, s, M) ==
  /\ IsState(s)
  /\ s.height \in Nat
  /\ s.height = 0 => s.step = "NewHeight"
  /\ CollectedOK(n, s, M \cup s.out)
  /\ HistoryOK(n, s, M \cup s.out)
  /\ OwnVotesOK(n, s, M \cup s.out)
  /\ RelayOK(n, s, M)
  /\ OutOK(n, s)

IInv ==
  /\ \A m \in msgs : WellFormed(m)
  /\ DOMAIN st = Correct
  /\ \A n \in Correct : NodeOK(n, st[n], msgs) /\ st[n].out = {}
-----------------------------------------------------------------------------
(* Facts about the constants.                                              *)

\* The peer list of each shard.
LEMMA PeerLists ==
  ASSUME NEW c \in Shard
  PROVE  PeerList(Votes[c])
BY MeleteAssumption DEF TopologyOK, PeerList

\* The chain and the index of a node.
LEMMA Nodes ==
  ASSUME NEW n \in Correct
  PROVE  /\ ChainOf(n) \in Shard
         /\ IndexOf(n) \in DOMAIN Votes[ChainOf(n)]
         /\ n = <<ChainOf(n), IndexOf(n)>>
<1>1. n \in Node
  BY MeleteAssumption DEF BoundsOK
<1> QED BY <1>1 DEF Node, ChainOf, IndexOf

\* Neighbours are shards.
LEMMA Neighbours ==
  ASSUME NEW c \in Shard
  PROVE  /\ Related[c] \subseteq Shard /\ IsFiniteSet(Related[c])
         /\ Related2Level(c) \subseteq Shard
         /\ CNeighbours(c) \subseteq Shard /\ INeighbours(c) \subseteq Shard
<1>1. \A d \in Shard : Related[d] \subseteq Shard
  BY MeleteAssumption DEF TopologyOK, Shard
<1>2. IsFiniteSet(Related[c])
  BY <1>1, MeleteAssumption, FS_Subset DEF TopologyOK
<1>3. Related2Level(c) \subseteq Shard
  BY <1>1 DEF Related2Level
<1> QED BY <1>1, <1>2, <1>3 DEF CNeighbours, INeighbours
-----------------------------------------------------------------------------
(* Quorums.                                                                *)

\* A quorum with more validators is a quorum.
LEMMA QuorumGrows ==
  ASSUME NEW c \in Shard, NEW T \in SUBSET DOMAIN Votes[c], NEW S \in SUBSET T,
         Over23(c, Power(Votes[c], S))
  PROVE  Over23(c, Power(Votes[c], T))
<1>1. Power(Votes[c], S) <= Power(Votes[c], T)
  BY PeerLists, PowerMonotone
<1>2. /\ Power(Votes[c], S) \in Nat /\ Power(Votes[c], T) \in Nat
      /\ TotalVotes(Votes[c]) \in Nat
  BY PeerLists, PowerType DEF TotalVotes
<1>3. Power(Votes[c], S) > (TotalVotes(Votes[c]) * 2) \div 3
  BY DEF Over23, OverTwoThirds
<1>4. Power(Votes[c], T) > (TotalVotes(Votes[c]) * 2) \div 3
  BY <1>1, <1>2, <1>3
<1> QED BY <1>4 DEF Over23, OverTwoThirds

\* Two quorums of a shard share a correct node.
LEMMA CorrectInCommon ==
  ASSUME NEW c \in Shard, NEW S \in SUBSET DOMAIN Votes[c], NEW T \in SUBSET DOMAIN Votes[c],
         Over23(c, Power(Votes[c], S)), Over23(c, Power(Votes[c], T))
  PROVE  \E v \in S \cap T : <<c, v>> \in Correct
<1> DEFINE faulty == {v \in DOMAIN Votes[c] : <<c, v>> \notin Correct}
<1>1. 3 * Power(Votes[c], faulty) < TotalVotes(Votes[c])
  BY MeleteAssumption DEF FaultsOK
<1>2. faulty \in SUBSET DOMAIN Votes[c]
  OBVIOUS
<1> HIDE DEF faulty
<1>3. OverTwoThirds(Votes[c], Power(Votes[c], S)) /\ OverTwoThirds(Votes[c], Power(Votes[c], T))
  BY DEF Over23
<1>4. \E v \in S \cap T : v \notin faulty
  BY <1>1, <1>2, <1>3, PeerLists, QuorumsShareCorrect
<1> QED BY <1>4 DEF faulty

\* What is agreed or accepted stays so as messages are sent.
LEMMA AgreedGrows ==
  ASSUME NEW M, NEW N, M \subseteq N, NEW d \in Shard, NEW b, Agreed(M, d, b)
  PROVE  Agreed(N, d, b)
<1> DEFINE S == {v \in DOMAIN Votes[d] : PrecommitMsg(<<d, v>>, b) \in M}
           T == {v \in DOMAIN Votes[d] : PrecommitMsg(<<d, v>>, b) \in N}
<1>1. T \in SUBSET DOMAIN Votes[d] /\ S \in SUBSET T
  OBVIOUS
<1>2. Over23(d, Power(Votes[d], S))
  BY DEF Agreed
<1> HIDE DEF S, T
<1>3. Over23(d, Power(Votes[d], T))
  BY <1>1, <1>2, QuorumGrows
<1> QED BY <1>3 DEF Agreed, T

LEMMA AcceptedGrows ==
  ASSUME NEW M, NEW N, M \subseteq N, NEW i \in Shard, NEW d, NEW h, NEW k
  PROVE  /\ Accepts(M, i, d, h, k) \subseteq Accepts(N, i, d, h, k)
         /\ Accepted(M, i, d, h, k) => Accepted(N, i, d, h, k)
<1>1. /\ Accepts(N, i, d, h, k) \in SUBSET DOMAIN Votes[i]
      /\ Accepts(M, i, d, h, k) \in SUBSET Accepts(N, i, d, h, k)
  BY DEF Accepts
<1>2. Accepted(M, i, d, h, k) => Accepted(N, i, d, h, k)
  BY <1>1, QuorumGrows DEF Accepted
<1> QED BY <1>1, <1>2

\* No correct node has sent two votes of a type to a chain at a height.
OneVoteEach(M) ==
  \A n \in Correct : \A m, k \in M :
    VoteOf(n, m) /\ VoteOf(n, k) /\ m.type = k.type /\ m.to = k.to /\ m.height = k.height => m = k

\* So a shard agrees on one block a height,
LEMMA AgreedOnce ==
  ASSUME NEW M, OneVoteEach(M), NEW d \in Shard, NEW a, NEW b, a.height = b.height,
         Agreed(M, d, a), Agreed(M, d, b)
  PROVE  a = b
<1> DEFINE S == {v \in DOMAIN Votes[d] : PrecommitMsg(<<d, v>>, a) \in M}
           T == {v \in DOMAIN Votes[d] : PrecommitMsg(<<d, v>>, b) \in M}
<1>1. PICK v \in S \cap T : <<d, v>> \in Correct
  <2>1. S \in SUBSET DOMAIN Votes[d] /\ T \in SUBSET DOMAIN Votes[d]
    OBVIOUS
  <2>2. Over23(d, Power(Votes[d], S)) /\ Over23(d, Power(Votes[d], T))
    BY DEF Agreed
  <2> HIDE DEF S, T
  <2> QED BY <2>1, <2>2, CorrectInCommon
<1> DEFINE m == PrecommitMsg(<<d, v>>, a)
           k == PrecommitMsg(<<d, v>>, b)
<1>2. m \in M /\ k \in M
  BY <1>1
<1>3. VoteOf(<<d, v>>, m) /\ VoteOf(<<d, v>>, k) /\ m.type = k.type /\ m.to = k.to /\ m.height = k.height
  BY DEF VoteOf, PrecommitMsg, ChainOf, IndexOf
<1>4. m = k
  <2> HIDE DEF m, k
  <2> QED BY <1>1, <1>2, <1>3 DEF OneVoteEach
<1> QED BY <1>4 DEF PrecommitMsg

\* and an I-shard gives one answer to a C-shard.
LEMMA AcceptedOnce ==
  ASSUME NEW M, OneVoteEach(M), NEW i \in Shard, NEW d, NEW h, NEW k, NEW l,
         Accepted(M, i, d, h, k), Accepted(M, i, d, h, l)
  PROVE  k = l
<1>1. PICK v \in Accepts(M, i, d, h, k) \cap Accepts(M, i, d, h, l) : <<i, v>> \in Correct
  <2>1. /\ Accepts(M, i, d, h, k) \in SUBSET DOMAIN Votes[i]
        /\ Accepts(M, i, d, h, l) \in SUBSET DOMAIN Votes[i]
    BY DEF Accepts
  <2> QED BY <2>1, CorrectInCommon DEF Accepted
<1>2. PICK m \in M : /\ m.type = "CSA" /\ m.to = d /\ m.accept = i
                     /\ m.index = v /\ m.height = h /\ m.status = k
  BY <1>1 DEF Accepts
<1>3. PICK q \in M : /\ q.type = "CSA" /\ q.to = d /\ q.accept = i
                     /\ q.index = v /\ q.height = h /\ q.status = l
  BY <1>1 DEF Accepts
<1>4. VoteOf(<<i, v>>, m) /\ VoteOf(<<i, v>>, q)
  BY <1>2, <1>3 DEF VoteOf, ChainOf, IndexOf
<1>5. m = q
  BY <1>1, <1>2, <1>3, <1>4 DEF OneVoteEach
<1> QED BY <1>2, <1>3, <1>5
-----------------------------------------------------------------------------
(* What follows from the invariant.                                        *)

\* The facts of the invariant about a node between two handlers.
LEMMA AtRest ==
  ASSUME IInv, NEW n \in Correct
  PROVE  /\ IsState(st[n]) /\ st[n].height \in Nat
         /\ CollectedOK(n, st[n], msgs)
         /\ HistoryOK(n, st[n], msgs)
         /\ OwnVotesOK(n, st[n], msgs)
<1>1. NodeOK(n, st[n], msgs) /\ msgs \cup st[n].out = msgs
  BY DEF IInv
<1> QED BY <1>1 DEF NodeOK

LEMMA OneVote ==
  ASSUME IInv
  PROVE  OneVoteEach(msgs)
<1>1. \A n \in Correct : OwnVotesOK(n, st[n], msgs)
  BY AtRest
<1> QED BY <1>1 DEF OwnVotesOK, OneVoteEach

\* What a node has executed at a height.
LEMMA Executed ==
  ASSUME IInv, NEW n \in Correct, NEW h \in DOMAIN st[n].root
  PROVE  /\ h \in Nat
         /\ EntryOK(msgs, ChainOf(n), h, st[n].root[h])
         /\ DOMAIN st[n].root[h].body \subseteq Shard
         /\ DOMAIN st[n].root[h].status \subseteq Shard
<1>1. HistoryOK(n, st[n], msgs)
  BY AtRest
<1>2. PICK S : st[n].root \in Seq(S)
  BY <1>1 DEF HistoryOK
<1>3. h \in 1..Len(st[n].root) /\ h \in Nat
  BY <1>2
<1>4. EntryOK(msgs, ChainOf(n), h, st[n].root[h])
  BY <1>1, <1>3 DEF HistoryOK
<1>5. CNeighbours(ChainOf(n)) \subseteq Shard /\ INeighbours(ChainOf(n)) \subseteq Shard
  BY Nodes, Neighbours
<1> QED BY <1>3, <1>4, <1>5 DEF EntryOK

\* Two entries for the same height agree.
LEMMA EntriesAgree ==
  ASSUME NEW M, OneVoteEach(M), NEW h, NEW c \in Shard, NEW k \in Shard, NEW e, NEW f,
         EntryOK(M, c, h, e), EntryOK(M, k, h, f)
  PROVE  /\ \A d \in DOMAIN e.body \cap DOMAIN f.body : e.body[d] = f.body[d]
         /\ \A d \in DOMAIN e.status \cap DOMAIN f.status : e.status[d] = f.status[d]
<1>1. DOMAIN e.body \subseteq Shard /\ DOMAIN e.status \subseteq Shard
  BY Neighbours DEF EntryOK
<1>2. ASSUME NEW d \in DOMAIN e.body \cap DOMAIN f.body PROVE e.body[d] = f.body[d]
  <2>1. PICK a : a.height = h /\ a.body = e.body[d] /\ Agreed(M, d, a)
    BY DEF EntryOK
  <2>2. PICK b : b.height = h /\ b.body = f.body[d] /\ Agreed(M, d, b)
    BY DEF EntryOK
  <2>3. a = b
    BY <1>1, <2>1, <2>2, AgreedOnce
  <2> QED BY <2>1, <2>2, <2>3
<1>3. ASSUME NEW d \in DOMAIN e.status \cap DOMAIN f.status PROVE e.status[d] = f.status[d]
  <2>1. PICK a : /\ \A i \in Related[d] : Accepted(M, i, d, h, a[i])
                 /\ e.status[d] = {t \in Tx : \A i \in Related[d] : t \in a[i]}
    BY DEF EntryOK
  <2>2. PICK b : /\ \A i \in Related[d] : Accepted(M, i, d, h, b[i])
                 /\ f.status[d] = {t \in Tx : \A i \in Related[d] : t \in b[i]}
    BY DEF EntryOK
  <2>3. Related[d] \subseteq Shard
    BY <1>1, Neighbours
  <2>4. \A i \in Related[d] : a[i] = b[i]
    BY <2>1, <2>2, <2>3, AcceptedOnce
  <2> QED BY <2>1, <2>2, <2>4
<1> QED BY <1>2, <1>3

LEMMA InvAgreement ==
  ASSUME IInv
  PROVE  LedgerAgreement
<1> SUFFICES ASSUME NEW m \in Correct, NEW n \in Correct,
                    NEW h \in DOMAIN st[m].root \cap DOMAIN st[n].root
             PROVE  LET e == st[m].root[h]  f == st[n].root[h] IN
                    /\ \A d \in DOMAIN e.body \cap DOMAIN f.body : e.body[d] = f.body[d]
                    /\ \A d \in DOMAIN e.status \cap DOMAIN f.status : e.status[d] = f.status[d]
  BY DEF LedgerAgreement
<1>1. /\ EntryOK(msgs, ChainOf(m), h, st[m].root[h]) /\ EntryOK(msgs, ChainOf(n), h, st[n].root[h])
      /\ ChainOf(m) \in Shard /\ ChainOf(n) \in Shard
  BY Executed, Nodes
<1>2. OneVoteEach(msgs)
  BY OneVote
<1> DEFINE e == st[m].root[h]
           f == st[n].root[h]
<1> HIDE DEF e, f
<1>3. /\ \A d \in DOMAIN e.body \cap DOMAIN f.body : e.body[d] = f.body[d]
      /\ \A d \in DOMAIN e.status \cap DOMAIN f.status : e.status[d] = f.status[d]
  <2>1. EntryOK(msgs, ChainOf(m), h, e) /\ EntryOK(msgs, ChainOf(n), h, f)
    BY <1>1 DEF e, f
  <2> QED BY <1>1, <1>2, <2>1, EntriesAgree
<1> QED BY <1>3 DEF e, f

LEMMA InvVotesCounted ==
  ASSUME IInv
  PROVE  VotesCountedOnce
<1> SUFFICES ASSUME NEW n \in Correct
             PROVE  LET s == st[n]
                        Counted(b, votes) == IF b = None THEN {} ELSE VotersFor(votes, b)
                    IN  /\ s.prevoteBits = Counted(s.proposal, s.prevotes)
                        /\ s.prevoteTotal = Power(Votes[ChainOf(n)], s.prevoteBits)
                        /\ s.precommitBits = Counted(s.proposal, s.precommits)
                        /\ s.precommitTotal = Power(Votes[ChainOf(n)], s.precommitBits)
  BY DEF VotesCountedOnce
<1>1. PrevotesOK(n, st[n], msgs) /\ PrecommitsOK(n, st[n], msgs)
  BY AtRest DEF CollectedOK
<1> QED BY <1>1 DEF PrevotesOK, PrecommitsOK, CountOK

\* A committed transaction was accepted by a quorum of each I-shard.
LEMMA InvCommitted ==
  ASSUME IInv
  PROVE  CommittedByEveryShard
<1> USE DEF CommittedByEveryShard
<1> TAKE n \in Correct
<1> TAKE h \in DOMAIN st[n].root
<1> TAKE d \in DOMAIN st[n].root[h].status
<1> TAKE t \in st[n].root[h].status[d]
<1> TAKE i \in Related[d]
<1> DEFINE T == {v \in DOMAIN Votes[i] :
                   \E m \in msgs : /\ m.type = "CSA" /\ m.to = d /\ m.accept = i
                                   /\ m.index = v /\ m.height = h /\ t \in m.status}
<1>1. /\ EntryOK(msgs, ChainOf(n), h, st[n].root[h])
      /\ d \in Shard
  BY Executed
<1>2. PICK f : /\ \A j \in Related[d] : Accepted(msgs, j, d, h, f[j])
               /\ st[n].root[h].status[d] = {u \in Tx : \A j \in Related[d] : u \in f[j]}
  BY <1>1 DEF EntryOK
<1>3. i \in Shard /\ t \in f[i]
  BY <1>1, <1>2, Neighbours
<1>4. Accepts(msgs, i, d, h, f[i]) \in SUBSET T /\ T \in SUBSET DOMAIN Votes[i]
  BY <1>3 DEF Accepts
<1>5. Over23(i, Power(Votes[i], Accepts(msgs, i, d, h, f[i])))
  BY <1>2 DEF Accepted
<1> HIDE DEF T
<1>6. Over23(i, Power(Votes[i], T))
  BY <1>3, <1>4, <1>5, QuorumGrows
<1> QED BY <1>6 DEF T

\* A node has executed only blocks that a quorum of their shard precommitted.
LEMMA InvTogether ==
  ASSUME IInv
  PROVE  ShardsAdvanceTogether
<1> USE DEF ShardsAdvanceTogether
<1> TAKE n \in Correct
<1> TAKE h \in DOMAIN st[n].root
<1> TAKE d \in DOMAIN st[n].root[h].body
<1> DEFINE T == {v \in DOMAIN Votes[d] :
                   \E m \in msgs : /\ m.type = "Precommit" /\ m.to = d /\ m.from = v
                                   /\ m.height = h /\ m.block.body = st[n].root[h].body[d]}
<1>1. /\ EntryOK(msgs, ChainOf(n), h, st[n].root[h])
      /\ d \in Shard
  BY Executed
<1>2. PICK b : b.height = h /\ b.body = st[n].root[h].body[d] /\ Agreed(msgs, d, b)
  BY <1>1 DEF EntryOK
<1> DEFINE S == {v \in DOMAIN Votes[d] : PrecommitMsg(<<d, v>>, b) \in msgs}
<1>3. S \in SUBSET T /\ T \in SUBSET DOMAIN Votes[d]
  BY <1>2 DEF PrecommitMsg, ChainOf, IndexOf
<1>4. Over23(d, Power(Votes[d], S))
  BY <1>2 DEF Agreed
<1> HIDE DEF S, T
<1>5. Over23(d, Power(Votes[d], T))
  BY <1>1, <1>3, <1>4, QuorumGrows
<1> QED BY <1>5 DEF T
-----------------------------------------------------------------------------
(* Counting votes.                                                         *)

\* The votes at the beginning of a height.
LEMMA CountNone ==
  ASSUME NEW M, NEW c \in Shard, NEW type, NEW h, NEW b
  PROVE  CountOK(M, c, type, h, b, [v \in DOMAIN Votes[c] |-> None], {}, 0)
<1> DEFINE votes == [v \in DOMAIN Votes[c] |-> None]
<1>1. b # None => VotersFor(votes, b) = {}
  BY DEF VotersFor
<1>2. Power(Votes[c], {}) = 0
  BY PowerEmpty
<1> QED BY <1>1, <1>2 DEF CountOK

\* AddPrevote and AddPrecommit, of a validator that has not been counted.
LEMMA CountVote ==
  ASSUME NEW M, NEW c \in Shard, NEW type, NEW h, NEW b, NEW votes, NEW bits, NEW total,
         CountOK(M, c, type, h, b, votes, bits, total),
         NEW v \in DOMAIN Votes[c], v \notin bits, NEW x,
         x # None /\ x.height = h =>
           [type |-> type, to |-> c, height |-> h, from |-> v, block |-> x] \in M
  PROVE  CountOK(M, c, type, h, b, [votes EXCEPT ![v] = x],
                 IF b # None /\ b = x THEN bits \cup {v} ELSE bits,
                 IF b # None /\ b = x THEN total + Votes[c][v] ELSE total)
<1> DEFINE new == [votes EXCEPT ![v] = x]
           counted == b # None /\ b = x
<1>1. DOMAIN votes = DOMAIN Votes[c] /\ DOMAIN new = DOMAIN Votes[c]
  BY DEF CountOK
<1>2. new[v] = x /\ \A u \in DOMAIN Votes[c] \ {v} : new[u] = votes[u]
  BY <1>1
<1>3. bits = IF b = None THEN {} ELSE VotersFor(votes, b)
  BY DEF CountOK
<1>4. bits \in SUBSET DOMAIN Votes[c]
  BY <1>1, <1>3 DEF VotersFor
<1> HIDE DEF new
<1>5. (IF counted THEN bits \cup {v} ELSE bits) = IF b = None THEN {} ELSE VotersFor(new, b)
  <2>1. CASE b = None
    BY <1>3, <2>1
  <2>2. CASE b # None
    BY <1>1, <1>2, <1>3, <2>2 DEF VotersFor
  <2> QED BY <2>1, <2>2
<1>6. total = Power(Votes[c], bits)
  BY DEF CountOK
<1>7. (IF counted THEN total + Votes[c][v] ELSE total)
         = Power(Votes[c], IF counted THEN bits \cup {v} ELSE bits)
  BY <1>4, <1>6, PeerLists, PowerAdd
<1>8. ASSUME NEW u \in DOMAIN Votes[c], new[u] # None, new[u].height = h
      PROVE  [type |-> type, to |-> c, height |-> h, from |-> u, block |-> new[u]] \in M
  <2>1. CASE u = v
    BY <1>2, <1>8, <2>1
  <2>2. CASE u # v
    BY <1>2, <1>8, <2>2 DEF CountOK
  <2> QED BY <2>1, <2>2
<1>9. CountOK(M, c, type, h, b, new, IF counted THEN bits \cup {v} ELSE bits,
              IF counted THEN total + Votes[c][v] ELSE total)
  BY <1>1, <1>5, <1>7, <1>8 DEF CountOK
<1> QED BY <1>9 DEF new

\* reCalculatePrevotes and reCalculatePrecommits.
LEMMA CountEarly ==
  ASSUME NEW M, NEW c \in Shard, NEW type, NEW h, NEW votes, NEW bits, NEW total,
         CountOK(M, c, type, h, None, votes, bits, total), NEW x, x # None
  PROVE  CountOK(M, c, type, h, x, votes, bits \cup VotersFor(votes, x),
                 total + Power(Votes[c], VotersFor(votes, x)))
<1>1. bits = {} /\ total = 0 /\ DOMAIN votes = DOMAIN Votes[c]
  BY PowerEmpty DEF CountOK
<1>2. VotersFor(votes, x) \in SUBSET DOMAIN Votes[c]
  BY <1>1 DEF VotersFor
<1>3. Power(Votes[c], VotersFor(votes, x)) \in Nat
  BY <1>2, PeerLists, PowerType
<1> QED BY <1>1, <1>3 DEF CountOK

\* More messages, other proposals aside.
LEMMA CountGrows ==
  ASSUME NEW M, NEW N, M \subseteq N, NEW c, NEW type, NEW h, NEW b, NEW votes, NEW bits, NEW total,
         CountOK(M, c, type, h, b, votes, bits, total)
  PROVE  CountOK(N, c, type, h, b, votes, bits, total)
BY DEF CountOK
-----------------------------------------------------------------------------
(* What is sent later does not take away what backs a node's state.        *)

LEMMA CollectedGrows ==
  ASSUME NEW n \in Correct, NEW s, NEW M, NEW N, M \subseteq N, CollectedOK(n, s, M)
  PROVE  CollectedOK(n, s, N)
<1> DEFINE c == ChainOf(n)
<1>1. c \in Shard /\ Related[c] \subseteq Shard
  BY Nodes, Neighbours
<1> HIDE DEF c
<1>2. PrevotesOK(n, s, N) /\ PrecommitsOK(n, s, N)
  BY CountGrows DEF CollectedOK, PrevotesOK, PrecommitsOK
<1>3. BlocksOK(n, s, N)
  <2>1. BlocksOK(n, s, M)
    BY DEF CollectedOK
  <2>2. \A d \in Shard : \A b : BlockOK(M, c, s.height, s.proposal, d, b)
                             => BlockOK(N, c, s.height, s.proposal, d, b)
    BY AgreedGrows DEF BlockOK
  <2> QED BY <2>1, <2>2 DEF BlocksOK, c
<1>4. AcceptsOK(n, s, N)
  <2>1. AcceptsOK(n, s, M)
    BY DEF CollectedOK
  <2>2. ASSUME NEW i \in Related[c], SetOK(M, i, c, s.height, s.csas[i])
        PROVE  SetOK(N, i, c, s.height, s.csas[i])
    <3>1. \A k : Accepts(M, i, c, s.height, k) \subseteq Accepts(N, i, c, s.height, k)
      BY <1>1, AcceptedGrows
    <3> QED BY <2>2, <3>1 DEF SetOK
  <2> QED BY <2>1, <2>2 DEF AcceptsOK, c
<1>5. CommitsOK(s, N)
  <2>1. CommitsOK(s, M)
    BY DEF CollectedOK
  <2>2. \A d \in Shard : Related[d] \subseteq Shard
    BY Neighbours
  <2> QED BY <2>1, <2>2, AcceptedGrows DEF CommitsOK
<1> QED BY <1>2, <1>3, <1>4, <1>5 DEF CollectedOK

LEMMA EntryGrows ==
  ASSUME NEW c \in Shard, NEW h, NEW e, NEW M, NEW N, M \subseteq N, EntryOK(M, c, h, e)
  PROVE  EntryOK(N, c, h, e)
<1>1. /\ DOMAIN e.body = CNeighbours(c) \cup INeighbours(c)
      /\ DOMAIN e.status = CNeighbours(c)
      /\ DOMAIN e.body \subseteq Shard /\ DOMAIN e.status \subseteq Shard
      /\ \A d \in Shard : Related[d] \subseteq Shard
  BY Neighbours DEF EntryOK
<1>2. ASSUME NEW d \in DOMAIN e.body
      PROVE  \E b : b.chain = d /\ b.height = h /\ b.body = e.body[d] /\ Agreed(N, d, b)
  BY <1>1, AgreedGrows DEF EntryOK
<1>3. ASSUME NEW d \in DOMAIN e.status
      PROVE  \E f : /\ \A i \in Related[d] : Accepted(N, i, d, h, f[i])
                    /\ e.status[d] = {t \in Tx : \A i \in Related[d] : t \in f[i]}
  <2>1. PICK f : /\ \A i \in Related[d] : Accepted(M, i, d, h, f[i])
                 /\ e.status[d] = {t \in Tx : \A i \in Related[d] : t \in f[i]}
    BY DEF EntryOK
  <2>2. \A i \in Related[d] : Accepted(N, i, d, h, f[i])
    BY <1>1, <2>1, AcceptedGrows
  <2> QED BY <2>1, <2>2
<1> QED BY <1>1, <1>2, <1>3 DEF EntryOK

LEMMA HistoryGrows ==
  ASSUME NEW n \in Correct, NEW s, NEW M, NEW N, M \subseteq N, HistoryOK(n, s, M)
  PROVE  HistoryOK(n, s, N)
BY Nodes, EntryGrows DEF HistoryOK

\* Messages that are not votes of node n do not matter to its own votes.
LEMMA OwnVotesGrow ==
  ASSUME NEW n, NEW s, NEW M, NEW O, OwnVotesOK(n, s, M), \A m \in O : ~VoteOf(n, m)
  PROVE  OwnVotesOK(n, s, M \cup O)
BY DEF OwnVotesOK
-----------------------------------------------------------------------------
(* A function changes some of the fields of a state.                       *)

SameControl(s, t) ==
  /\ IsState(t) /\ t.height = s.height /\ t.step = s.step /\ t.root = s.root
  /\ t.relay = s.relay /\ t.out = s.out
SamePrevotes(s, t) ==
  t.prevotes = s.prevotes /\ t.prevoteBits = s.prevoteBits /\ t.prevoteTotal = s.prevoteTotal
SamePrecommits(s, t) ==
  /\ t.precommits = s.precommits /\ t.precommitBits = s.precommitBits
  /\ t.precommitTotal = s.precommitTotal
SameBlocks(s, t) == t.proposal = s.proposal /\ t.partSets = s.partSets /\ t.blocks = s.blocks
SameAccepts(s, t) == t.csas = s.csas /\ t.counter = s.counter
SameCollected(s, t) ==
  /\ SamePrevotes(s, t) /\ SamePrecommits(s, t) /\ SameBlocks(s, t)
  /\ SameAccepts(s, t) /\ t.cscs = s.cscs

LEMMA ControlKept ==
  ASSUME NEW n, NEW s, NEW t, NEW M, NodeOK(n, s, M), SameControl(s, t),
         CollectedOK(n, t, M \cup s.out)
  PROVE  NodeOK(n, t, M)
<1>1. HistoryOK(n, t, M \cup t.out)
  BY DEF NodeOK, SameControl, HistoryOK
<1>2. OwnVotesOK(n, t, M \cup t.out)
  BY DEF NodeOK, SameControl, OwnVotesOK
<1>3. RelayOK(n, t, M) /\ OutOK(n, t)
  BY DEF NodeOK, SameControl, RelayOK, OutOK
<1>4. IsState(t) /\ t.height \in Nat /\ t.out = s.out /\ (t.height = 0 => t.step = "NewHeight")
  BY DEF NodeOK, SameControl
<1> QED BY <1>1, <1>2, <1>3, <1>4 DEF NodeOK

LEMMA CollectedKept ==
  ASSUME NEW n, NEW s, NEW t, NEW M, CollectedOK(n, s, M), t.height = s.height
  PROVE  /\ t.proposal = s.proposal /\ SamePrevotes(s, t) => PrevotesOK(n, t, M)
         /\ t.proposal = s.proposal /\ SamePrecommits(s, t) => PrecommitsOK(n, t, M)
         /\ SameBlocks(s, t) => BlocksOK(n, t, M)
         /\ SameAccepts(s, t) => AcceptsOK(n, t, M)
         /\ t.cscs = s.cscs => CommitsOK(t, M)
         /\ SameCollected(s, t) => CollectedOK(n, t, M)
<1>1. t.proposal = s.proposal /\ SamePrevotes(s, t) => PrevotesOK(n, t, M)
  BY DEF CollectedOK, SamePrevotes, PrevotesOK
<1>2. t.proposal = s.proposal /\ SamePrecommits(s, t) => PrecommitsOK(n, t, M)
  BY DEF CollectedOK, SamePrecommits, PrecommitsOK
<1>3. SameBlocks(s, t) => BlocksOK(n, t, M)
  BY DEF CollectedOK, SameBlocks, BlocksOK
<1>4. SameAccepts(s, t) => AcceptsOK(n, t, M)
  BY DEF CollectedOK, SameAccepts, AcceptsOK
<1>5. t.cscs = s.cscs => CommitsOK(t, M)
  BY DEF CollectedOK, CommitsOK
<1>6. SameCollected(s, t) => CollectedOK(n, t, M)
  BY <1>1, <1>2, <1>3, <1>4, <1>5 DEF SameCollected, SameBlocks, CollectedOK
<1> QED BY <1>1, <1>2, <1>3, <1>4, <1>5, <1>6
-----------------------------------------------------------------------------
(* AddX.                                                                   *)

\* AddPrevote of a validator that has not been counted.
LEMMA PrevoteAdded ==
  ASSUME NEW n \in Correct, NEW s, NEW N, IsState(s), CollectedOK(n, s, N),
         NEW m, m.from \in DOMAIN Votes[ChainOf(n)], m.from \notin s.prevoteBits,
         m.block # None /\ m.block.height = s.height =>
           PrevoteMsg(<<ChainOf(n), m.from>>, m.block) \in N
  PROVE  /\ SameControl(s, AddPrevote(n, s, m))
         /\ CollectedOK(n, AddPrevote(n, s, m), N)
<1> DEFINE t == AddPrevote(n, s, m)
           c == ChainOf(n)
           counted == s.proposal # None /\ s.proposal = m.block
<1>1. /\ SameControl(s, t) /\ SamePrecommits(s, t) /\ SameBlocks(s, t)
      /\ SameAccepts(s, t) /\ t.cscs = s.cscs
  BY DEF IsState, StateFields, AddPrevote, SameControl, SamePrecommits, SameBlocks, SameAccepts
<1>2. /\ t.prevotes = [s.prevotes EXCEPT ![m.from] = m.block]
      /\ t.prevoteBits = IF counted THEN s.prevoteBits \cup {m.from} ELSE s.prevoteBits
      /\ t.prevoteTotal = IF counted THEN s.prevoteTotal + Votes[c][m.from] ELSE s.prevoteTotal
  BY DEF IsState, StateFields, AddPrevote
<1> HIDE DEF t
<1>3. CollectedOK(n, s, N) /\ PrevotesOK(n, s, N) /\ c \in Shard
  BY Nodes DEF CollectedOK
<1>4. PrevotesOK(n, t, N)
  <2>1. m.block # None /\ m.block.height = s.height =>
          [type |-> "Prevote", to |-> c, height |-> s.height, from |-> m.from, block |-> m.block]
            \in N
    <3>1. PrevoteMsg(<<c, m.from>>, m.block)
            = [type |-> "Prevote", to |-> c, height |-> m.block.height, from |-> m.from, block |-> m.block]
      <4> HIDE DEF c
      <4> QED BY DEF PrevoteMsg, ChainOf, IndexOf
    <3> QED BY <3>1, Zenon
  <2>2. CountOK(N, c, "Prevote", s.height, s.proposal, s.prevotes, s.prevoteBits, s.prevoteTotal)
    BY <1>3 DEF PrevotesOK
  <2>3. CountOK(N, c, "Prevote", s.height, s.proposal, [s.prevotes EXCEPT ![m.from] = m.block],
                IF counted THEN s.prevoteBits \cup {m.from} ELSE s.prevoteBits,
                IF counted THEN s.prevoteTotal + Votes[c][m.from] ELSE s.prevoteTotal)
    BY <1>3, <2>1, <2>2, CountVote
  <2>4. CountOK(N, c, "Prevote", s.height, s.proposal, t.prevotes, t.prevoteBits, t.prevoteTotal)
    BY <1>2, <2>3, Zenon
  <2>5. t.height = s.height /\ t.proposal = s.proposal
    BY <1>1 DEF SameControl, SameBlocks
  <2> QED BY <2>4, <2>5 DEF PrevotesOK
<1>5. CollectedOK(n, t, N)
  BY <1>1, <1>3, <1>4, CollectedKept DEF CollectedOK, SameBlocks, SameControl
<1> QED BY <1>1, <1>5 DEF t

\* AddPrecommit of a validator that has not been counted.
LEMMA PrecommitAdded ==
  ASSUME NEW n \in Correct, NEW s, NEW N, IsState(s), CollectedOK(n, s, N),
         NEW m, m.from \in DOMAIN Votes[ChainOf(n)], m.from \notin s.precommitBits,
         m.block # None /\ m.block.height = s.height =>
           PrecommitMsg(<<ChainOf(n), m.from>>, m.block) \in N
  PROVE  /\ SameControl(s, AddPrecommit(n, s, m))
         /\ CollectedOK(n, AddPrecommit(n, s, m), N)
<1> DEFINE t == AddPrecommit(n, s, m)
           c == ChainOf(n)
           counted == s.proposal # None /\ s.proposal = m.block
<1>1. /\ SameControl(s, t) /\ SamePrevotes(s, t) /\ SameBlocks(s, t)
      /\ SameAccepts(s, t) /\ t.cscs = s.cscs
  BY DEF IsState, StateFields, AddPrecommit, SameControl, SamePrevotes, SameBlocks, SameAccepts
<1>2. /\ t.precommits = [s.precommits EXCEPT ![m.from] = m.block]
      /\ t.precommitBits = IF counted THEN s.precommitBits \cup {m.from} ELSE s.precommitBits
      /\ t.precommitTotal = IF counted THEN s.precommitTotal + Votes[c][m.from] ELSE s.precommitTotal
  BY DEF IsState, StateFields, AddPrecommit
<1> HIDE DEF t
<1>3. CollectedOK(n, s, N) /\ PrecommitsOK(n, s, N) /\ c \in Shard
  BY Nodes DEF CollectedOK
<1>4. PrecommitsOK(n, t, N)
  <2>1. m.block # None /\ m.block.height = s.height =>
          [type |-> "Precommit", to |-> c, height |-> s.height, from |-> m.from, block |-> m.block]
            \in N
    <3>1. PrecommitMsg(<<c, m.from>>, m.block)
            = [type |-> "Precommit", to |-> c, height |-> m.block.height, from |-> m.from, block |-> m.block]
      <4> HIDE DEF c
      <4> QED BY DEF PrecommitMsg, ChainOf, IndexOf
    <3> QED BY <3>1, Zenon
  <2>2. CountOK(N, c, "Precommit", s.height, s.proposal, s.precommits, s.precommitBits, s.precommitTotal)
    BY <1>3 DEF PrecommitsOK
  <2>3. CountOK(N, c, "Precommit", s.height, s.proposal, [s.precommits EXCEPT ![m.from] = m.block],
                IF counted THEN s.precommitBits \cup {m.from} ELSE s.precommitBits,
                IF counted THEN s.precommitTotal + Votes[c][m.from] ELSE s.precommitTotal)
    BY <1>3, <2>1, <2>2, CountVote
  <2>4. CountOK(N, c, "Precommit", s.height, s.proposal, t.precommits, t.precommitBits, t.precommitTotal)
    BY <1>2, <2>3, Zenon
  <2>5. t.height = s.height /\ t.proposal = s.proposal
    BY <1>1 DEF SameControl, SameBlocks
  <2> QED BY <2>4, <2>5 DEF PrecommitsOK
<1>5. CollectedOK(n, t, N)
  BY <1>1, <1>3, <1>4, CollectedKept DEF CollectedOK, SameBlocks, SameControl
<1> QED BY <1>1, <1>5 DEF t

\* What OpenPartSet changes.
LEMMA Opened ==
  ASSUME NEW s, IsState(s), DOMAIN s.partSets = Shard, DOMAIN s.blocks = Shard,
         NEW b, b.chain \in Shard, NEW kind
  PROVE  LET t == OpenPartSet(s, b, kind)  d == b.chain IN
         /\ SameControl(s, t) /\ SamePrevotes(s, t) /\ SamePrecommits(s, t)
         /\ SameAccepts(s, t) /\ t.cscs = s.cscs /\ t.proposal = s.proposal
         /\ DOMAIN t.partSets = Shard /\ DOMAIN t.blocks = Shard
         /\ DOMAIN t.partSets[d] = {"block", "kind", "got"} /\ t.partSets[d].block = b
         /\ t.blocks[d] \in {b, s.blocks[d]}
         /\ \A e \in Shard \ {d} : t.partSets[e] = s.partSets[e] /\ t.blocks[e] = s.blocks[e]
<1> DEFINE t == OpenPartSet(s, b, kind)
           d == b.chain
           got == {p.index : p \in {q \in s.buffer : q.block = b /\ q.kind = kind}}
<1>1. t = [s EXCEPT !.partSets[d] = [block |-> b, kind |-> kind, got |-> got],
                    !.blocks[d] = IF got = 1..PartTotal(b, kind) THEN b ELSE @]
  BY DEF OpenPartSet
<1> HIDE DEF got, t
<1>2. /\ SameControl(s, t) /\ SamePrevotes(s, t) /\ SamePrecommits(s, t)
      /\ SameAccepts(s, t) /\ t.cscs = s.cscs /\ t.proposal = s.proposal
  BY <1>1 DEF IsState, StateFields, SameControl, SamePrevotes, SamePrecommits, SameAccepts
<1>3. /\ t.partSets = [s.partSets EXCEPT ![d] = [block |-> b, kind |-> kind, got |-> got]]
      /\ t.blocks = [s.blocks EXCEPT ![d] = IF got = 1..PartTotal(b, kind) THEN b ELSE @]
  BY <1>1 DEF IsState, StateFields
<1>4. /\ DOMAIN t.partSets = Shard /\ DOMAIN t.blocks = Shard
      /\ t.partSets[d] = [block |-> b, kind |-> kind, got |-> got]
      /\ t.blocks[d] \in {b, s.blocks[d]}
      /\ \A e \in Shard \ {d} : t.partSets[e] = s.partSets[e] /\ t.blocks[e] = s.blocks[e]
  BY <1>3
<1>5. DOMAIN t.partSets[d] = {"block", "kind", "got"} /\ t.partSets[d].block = b
  BY <1>4
<1> QED BY <1>2, <1>4, <1>5 DEF t

\* A block or part set that is replaced by one that is backed.
LEMMA BlocksKept ==
  ASSUME NEW n, NEW s, NEW t, NEW N, BlocksOK(n, s, N), t.height = s.height,
         \/ t.proposal = s.proposal
         \/ s.proposal = None /\ t.proposal.chain = ChainOf(n) /\ t.proposal.height = s.height,
         NEW d \in Shard, NEW b, BlockOK(N, ChainOf(n), s.height, t.proposal, d, b),
         DOMAIN t.partSets = Shard, DOMAIN t.blocks = Shard,
         DOMAIN t.partSets[d] = {"block", "kind", "got"}, t.partSets[d].block = b,
         t.blocks[d] \in {b, s.blocks[d]},
         \A e \in Shard \ {d} : t.partSets[e] = s.partSets[e] /\ t.blocks[e] = s.blocks[e]
  PROVE  BlocksOK(n, t, N)
<1> DEFINE c == ChainOf(n)
           h == s.height
<1> HIDE DEF c
<1>1. \A e, x : BlockOK(N, c, h, s.proposal, e, x) => BlockOK(N, c, h, t.proposal, e, x)
  BY DEF BlockOK
<1>2. t.proposal # None => t.proposal.chain = c /\ t.proposal.height = h
  BY DEF BlocksOK, c
<1>3. ASSUME NEW e \in Shard, t.partSets[e] # None
      PROVE  /\ DOMAIN t.partSets[e] = {"block", "kind", "got"}
             /\ BlockOK(N, c, h, t.proposal, e, t.partSets[e].block)
  <2>1. CASE e = d
    BY <2>1 DEF c
  <2>2. CASE e # d
    <3>1. t.partSets[e] = s.partSets[e]
      BY <2>2
    <3>2. /\ DOMAIN s.partSets[e] = {"block", "kind", "got"}
          /\ BlockOK(N, c, h, s.proposal, e, s.partSets[e].block)
      BY <1>3, <3>1 DEF BlocksOK, c
    <3> QED BY <1>1, <3>1, <3>2
  <2> QED BY <2>1, <2>2
<1>4. ASSUME NEW e \in Shard, t.blocks[e] # None
      PROVE  BlockOK(N, c, h, t.proposal, e, t.blocks[e])
  <2>1. CASE t.blocks[e] = s.blocks[e]
    <3>1. BlockOK(N, c, h, s.proposal, e, s.blocks[e])
      BY <1>4, <2>1 DEF BlocksOK, c
    <3> QED BY <1>1, <2>1, <3>1
  <2>2. CASE t.blocks[e] # s.blocks[e]
    <3>1. e = d /\ t.blocks[e] = b
      BY <2>2
    <3> QED BY <3>1 DEF c
  <2> QED BY <2>1, <2>2
<1> QED BY <1>2, <1>3, <1>4 DEF BlocksOK, c

LEMMA ProposalAdded ==
  ASSUME NEW n \in Correct, NEW s, NEW M, NodeOK(n, s, M),
         NEW m, m.type = "Proposal", WellFormed(m), CanAddProposal(n, s, m)
  PROVE  NodeOK(n, AddProposal(n, s, m), M)
<1> DEFINE t == AddProposal(n, s, m)
           c == ChainOf(n)
           u == OpenPartSet(s, m.block, "full")
           pv == VotersFor(s.prevotes, m.block)
           pc == VotersFor(s.precommits, m.block)
           N == M \cup s.out
<1>1. /\ c \in Shard /\ IsState(s) /\ CollectedOK(n, s, N) /\ BlocksOK(n, s, N)
      /\ DOMAIN s.partSets = Shard /\ DOMAIN s.blocks = Shard
  BY Nodes DEF NodeOK, CollectedOK, BlocksOK
<1>2. /\ s.proposal = None /\ m.block.chain = c /\ m.block.height = s.height /\ m.block # None
  BY DEF CanAddProposal, WellFormed
<1>3. /\ SameControl(s, u) /\ SamePrevotes(s, u) /\ SamePrecommits(s, u)
      /\ SameAccepts(s, u) /\ u.cscs = s.cscs /\ u.proposal = s.proposal
      /\ DOMAIN u.partSets = Shard /\ DOMAIN u.blocks = Shard
      /\ DOMAIN u.partSets[c] = {"block", "kind", "got"} /\ u.partSets[c].block = m.block
      /\ u.blocks[c] \in {m.block, s.blocks[c]}
      /\ \A e \in Shard \ {c} : u.partSets[e] = s.partSets[e] /\ u.blocks[e] = s.blocks[e]
  BY <1>1, <1>2, Opened
<1> HIDE DEF u
<1>4. t = [u EXCEPT !.proposal = m.block,
                    !.prevoteBits = @ \cup pv,
                    !.prevoteTotal = @ + Power(Votes[c], pv),
                    !.precommitBits = @ \cup pc,
                    !.precommitTotal = @ + Power(Votes[c], pc)]
  BY DEF AddProposal, u
<1> HIDE DEF t, pv, pc
<1>5. /\ IsState(t) /\ SameControl(u, t) /\ SameAccepts(u, t) /\ t.cscs = u.cscs /\ t.proposal = m.block
      /\ t.partSets = u.partSets /\ t.blocks = u.blocks
  BY <1>3, <1>4 DEF IsState, StateFields, SameControl, SameAccepts
<1>6. /\ t.prevotes = u.prevotes /\ t.prevoteBits = u.prevoteBits \cup pv
      /\ t.prevoteTotal = u.prevoteTotal + Power(Votes[c], pv)
      /\ t.precommits = u.precommits /\ t.precommitBits = u.precommitBits \cup pc
      /\ t.precommitTotal = u.precommitTotal + Power(Votes[c], pc)
  BY <1>3, <1>4 DEF IsState, StateFields, SameControl
<1>7. SameControl(s, t) /\ SameAccepts(s, t) /\ t.cscs = s.cscs
  BY <1>3, <1>5 DEF SameControl, SameAccepts
<1>8. BlocksOK(n, t, N)
  <2>1. BlockOK(N, c, s.height, t.proposal, c, m.block)
    BY <1>2, <1>5 DEF BlockOK
  <2>2. t.height = s.height
    BY <1>7 DEF SameControl
  <2>3. /\ DOMAIN t.partSets = Shard /\ DOMAIN t.blocks = Shard
        /\ DOMAIN t.partSets[c] = {"block", "kind", "got"} /\ t.partSets[c].block = m.block
        /\ t.blocks[c] \in {m.block, s.blocks[c]}
        /\ \A e \in Shard \ {c} : t.partSets[e] = s.partSets[e] /\ t.blocks[e] = s.blocks[e]
    BY <1>3, <1>5
  <2> QED BY <1>1, <1>2, <1>5, <2>1, <2>2, <2>3, BlocksKept
<1>9. PrevotesOK(n, t, N)
  <2>1. CountOK(N, c, "Prevote", s.height, None, s.prevotes, s.prevoteBits, s.prevoteTotal)
    BY <1>1, <1>2 DEF CollectedOK, PrevotesOK
  <2>2. CountOK(N, c, "Prevote", s.height, m.block, s.prevotes,
                s.prevoteBits \cup pv, s.prevoteTotal + Power(Votes[c], pv))
    BY <1>1, <1>2, <2>1, CountEarly DEF pv
  <2>3. /\ t.height = s.height /\ t.prevotes = s.prevotes /\ t.prevoteBits = s.prevoteBits \cup pv
        /\ t.prevoteTotal = s.prevoteTotal + Power(Votes[c], pv)
    BY <1>3, <1>6, <1>7 DEF SamePrevotes, SameControl
  <2> QED BY <1>5, <2>2, <2>3 DEF PrevotesOK
<1>10. PrecommitsOK(n, t, N)
  <2>1. CountOK(N, c, "Precommit", s.height, None, s.precommits, s.precommitBits, s.precommitTotal)
    BY <1>1, <1>2 DEF CollectedOK, PrecommitsOK
  <2>2. CountOK(N, c, "Precommit", s.height, m.block, s.precommits,
                s.precommitBits \cup pc, s.precommitTotal + Power(Votes[c], pc))
    BY <1>1, <1>2, <2>1, CountEarly DEF pc
  <2>3. /\ t.height = s.height /\ t.precommits = s.precommits /\ t.precommitBits = s.precommitBits \cup pc
        /\ t.precommitTotal = s.precommitTotal + Power(Votes[c], pc)
    BY <1>3, <1>6, <1>7 DEF SamePrecommits, SameControl
  <2> QED BY <1>5, <2>2, <2>3 DEF PrecommitsOK
<1>11. CollectedOK(n, t, N)
  <2>1. AcceptsOK(n, t, N) /\ CommitsOK(t, N)
    BY <1>1, <1>7, CollectedKept DEF SameControl
  <2> QED BY <1>8, <1>9, <1>10, <2>1 DEF CollectedOK
<1> QED BY <1>7, <1>11, ControlKept DEF t

\* A part that waits for its part set.
LEMMA PartBuffered ==
  ASSUME NEW n \in Correct, NEW s, NEW M, NodeOK(n, s, M), NEW m
  PROVE  NodeOK(n, [s EXCEPT !.buffer = @ \cup {m}], M)
<1> DEFINE t == [s EXCEPT !.buffer = @ \cup {m}]
<1>1. SameControl(s, t) /\ SameCollected(s, t)
  BY DEF NodeOK, IsState, StateFields, SameControl, SameCollected, SamePrevotes, SamePrecommits,
         SameBlocks, SameAccepts
<1> HIDE DEF t
<1>2. CollectedOK(n, t, M \cup s.out)
  BY <1>1, CollectedKept DEF NodeOK, SameControl
<1>3. NodeOK(n, t, M)
  BY <1>1, <1>2, ControlKept
<1> QED BY <1>3 DEF t

LEMMA PartAdded ==
  ASSUME NEW n \in Correct, NEW s, NEW M, NodeOK(n, s, M),
         NEW m, m.type = "Part", WellFormed(m), CanAddPart(s, m)
  PROVE  NodeOK(n, AddPart(s, m), M)
<1> DEFINE t == AddPart(s, m)
           d == m.block.chain
           ps == s.partSets[d]
           got == ps.got \cup {m.index}
           N == M \cup s.out
<1>1. /\ d \in Shard /\ IsState(s) /\ CollectedOK(n, s, N) /\ BlocksOK(n, s, N)
      /\ DOMAIN s.partSets = Shard /\ DOMAIN s.blocks = Shard
  BY DEF NodeOK, CollectedOK, BlocksOK, WellFormed
<1>2. /\ ps # None /\ m.block = ps.block
      /\ DOMAIN ps = {"block", "kind", "got"}
      /\ BlockOK(N, ChainOf(n), s.height, s.proposal, d, m.block)
  BY <1>1 DEF CanAddPart, InPartSet, BlocksOK
<1> HIDE DEF got
<1>3. t = [s EXCEPT !.partSets[d].got = got, !.blocks[d] = IF got = 1..PartTotal(m.block, m.kind) THEN m.block ELSE @]
  BY DEF AddPart, got
<1> HIDE DEF t
<1>4. /\ SameControl(s, t) /\ SamePrevotes(s, t) /\ SamePrecommits(s, t)
      /\ SameAccepts(s, t) /\ t.cscs = s.cscs /\ t.proposal = s.proposal
  BY <1>1, <1>3 DEF IsState, StateFields, SameControl, SamePrevotes, SamePrecommits, SameAccepts
<1>5. /\ t.partSets = [s.partSets EXCEPT ![d] = [ps EXCEPT !.got = got]]
      /\ t.blocks = [s.blocks EXCEPT ![d] = IF got = 1..PartTotal(m.block, m.kind) THEN m.block ELSE @]
  BY <1>1, <1>3 DEF IsState, StateFields
<1>6. /\ DOMAIN t.partSets = Shard /\ DOMAIN t.blocks = Shard
      /\ t.partSets[d] = [ps EXCEPT !.got = got]
      /\ t.blocks[d] \in {m.block, s.blocks[d]}
      /\ \A e \in Shard \ {d} : t.partSets[e] = s.partSets[e] /\ t.blocks[e] = s.blocks[e]
  BY <1>1, <1>5
<1>7. DOMAIN t.partSets[d] = {"block", "kind", "got"} /\ t.partSets[d].block = m.block
  BY <1>2, <1>6
<1>8. t.height = s.height
  BY <1>4 DEF SameControl
<1>9. BlocksOK(n, t, N)
  BY <1>1, <1>2, <1>4, <1>6, <1>7, <1>8, BlocksKept
<1>10. CollectedOK(n, t, N)
  <2>1. PrevotesOK(n, t, N) /\ PrecommitsOK(n, t, N) /\ AcceptsOK(n, t, N) /\ CommitsOK(t, N)
    BY <1>1, <1>4, <1>8, CollectedKept
  <2> QED BY <1>9, <2>1 DEF CollectedOK
<1> QED BY <1>4, <1>10, ControlKept DEF t

LEMMA CSPAdded ==
  ASSUME NEW n \in Correct, NEW s, NodeOK(n, s, msgs),
         NEW m, m.type = "CSP", WellFormed(m), CanAddCSP(s, m)
  PROVE  NodeOK(n, AddCrossShardProposal(s, m), msgs)
<1> DEFINE t == AddCrossShardProposal(s, m)
           u == OpenPartSet(s, m.block, m.kind)
           d == m.block.chain
           N == msgs \cup s.out
<1>1. /\ d \in Shard /\ IsState(s) /\ CollectedOK(n, s, N) /\ BlocksOK(n, s, N)
      /\ DOMAIN s.partSets = Shard /\ DOMAIN s.blocks = Shard
      /\ m.block.height = s.height
  BY DEF NodeOK, CollectedOK, BlocksOK, WellFormed, CanAddCSP
<1>2. Agreed(N, d, m.block)
  <2> DEFINE T == {v \in DOMAIN Votes[d] : PrecommitMsg(<<d, v>>, m.block) \in N}
  <2>1. m.signers \in SUBSET T /\ T \in SUBSET DOMAIN Votes[d]
    BY DEF CanAddCSP
  <2>2. Over23(d, Power(Votes[d], m.signers))
    BY DEF CanAddCSP
  <2> HIDE DEF T
  <2>3. Over23(d, Power(Votes[d], T))
    BY <1>1, <2>1, <2>2, QuorumGrows
  <2> QED BY <2>3 DEF Agreed, T
<1>3. /\ SameControl(s, u) /\ SamePrevotes(s, u) /\ SamePrecommits(s, u)
      /\ SameAccepts(s, u) /\ u.cscs = s.cscs /\ u.proposal = s.proposal
      /\ DOMAIN u.partSets = Shard /\ DOMAIN u.blocks = Shard
      /\ DOMAIN u.partSets[d] = {"block", "kind", "got"} /\ u.partSets[d].block = m.block
      /\ u.blocks[d] \in {m.block, s.blocks[d]}
      /\ \A e \in Shard \ {d} : u.partSets[e] = s.partSets[e] /\ u.blocks[e] = s.blocks[e]
  BY <1>1, Opened
<1> HIDE DEF u
<1>4. t = [u EXCEPT !.csps = @ \cup {d}]
  BY DEF AddCrossShardProposal, u
<1> HIDE DEF t
<1>5. /\ SameControl(u, t) /\ SameCollected(u, t)
  BY <1>3, <1>4 DEF IsState, StateFields, SameControl, SameCollected, SamePrevotes, SamePrecommits,
                    SameBlocks, SameAccepts
<1>6. SameControl(s, t) /\ t.height = s.height
  BY <1>3, <1>5 DEF SameControl
<1>7. CollectedOK(n, u, N)
  <2>1. u.height = s.height
    BY <1>3 DEF SameControl
  <2>2. BlockOK(N, ChainOf(n), s.height, u.proposal, d, m.block)
    BY <1>1, <1>2 DEF BlockOK
  <2>3. BlocksOK(n, u, N)
    BY <1>1, <1>3, <2>1, <2>2, BlocksKept
  <2>4. PrevotesOK(n, u, N) /\ PrecommitsOK(n, u, N) /\ AcceptsOK(n, u, N) /\ CommitsOK(u, N)
    BY <1>1, <1>3, <2>1, CollectedKept
  <2> QED BY <2>3, <2>4 DEF CollectedOK
<1>8. CollectedOK(n, t, N)
  <2>1. t.height = u.height
    BY <1>5 DEF SameControl
  <2> QED BY <1>5, <1>7, <2>1, CollectedKept
<1> QED BY <1>6, <1>8, ControlKept DEF t

\* AddCSA: one more answer of I-shard i.
LEMMA AnswerAdded ==
  ASSUME NEW M, NEW i \in Shard, NEW d, NEW h, NEW set, SetOK(M, i, d, h, set), None \notin Status,
         NEW m \in M, m.type = "CSA", m.to = d, m.accept = i, m.height = h, WellFormed(m)
  PROVE  LET new == AddCSA(Votes[i], set, m) IN
         /\ SetOK(M, i, d, h, new)
         /\ HasMaj23(set) => HasMaj23(new)
         /\ ~HasMaj23(set) /\ HasMaj23(new) => AddCSAReturnsNil(Votes[i], set, m)
<1> DEFINE new == AddCSA(Votes[i], set, m)
           v == m.index
           l == m.status
           p == PowerWith(Votes[i], set, m)
<1>1. CASE set.seen[v] # None
  BY <1>1 DEF AddCSA
<1>2. CASE set.seen[v] = None
  <2>1. v \in DOMAIN Votes[i] /\ l \in Status /\ m.block # None
    BY DEF WellFormed
  <2>2. /\ DOMAIN set = {"seen", "sigs", "power", "maj23"}
        /\ DOMAIN set.seen = DOMAIN Votes[i] /\ DOMAIN set.power = Status
        /\ set.sigs \in [Status -> SUBSET DOMAIN Votes[i]]
    BY DEF SetOK
  <2>3. p = set.power[l] + Votes[i][v]
    BY DEF PowerWith
  <2> HIDE DEF p
  <2>4. new = [set EXCEPT !.seen[v] = m.block, !.sigs[l] = @ \cup {v}, !.power[l] = p,
                          !.maj23 = IF @ = None /\ OverTwoThirds(Votes[i], p) THEN l ELSE @]
    BY <1>2 DEF AddCSA, p
  <2> HIDE DEF new
  <2>5. /\ DOMAIN new = {"seen", "sigs", "power", "maj23"}
        /\ new.seen = [set.seen EXCEPT ![v] = m.block]
        /\ new.sigs = [set.sigs EXCEPT ![l] = @ \cup {v}]
        /\ new.power = [set.power EXCEPT ![l] = p]
        /\ new.maj23 = IF set.maj23 = None /\ OverTwoThirds(Votes[i], p) THEN l ELSE set.maj23
    BY <2>2, <2>4
  <2>6. /\ set.sigs[l] \in SUBSET DOMAIN Votes[i] /\ v \notin set.sigs[l]
        /\ set.power[l] = Power(Votes[i], set.sigs[l])
    BY <1>2, <2>1, <2>2 DEF SetOK
  <2>7. p = Power(Votes[i], set.sigs[l] \cup {v})
    BY <2>1, <2>3, <2>6, PeerLists, PowerAdd
  <2>8. p \in Nat /\ set.power[l] \in Nat /\ p >= set.power[l]
    <3>1. set.sigs[l] \cup {v} \in SUBSET DOMAIN Votes[i] /\ set.sigs[l] \in SUBSET (set.sigs[l] \cup {v})
      BY <2>1, <2>6
    <3>2. p \in Nat /\ set.power[l] \in Nat
      BY <2>6, <2>7, <3>1, PeerLists, PowerType
    <3>3. Power(Votes[i], set.sigs[l]) <= Power(Votes[i], set.sigs[l] \cup {v})
      BY <3>1, PeerLists, PowerMonotone
    <3> QED BY <2>6, <2>7, <3>2, <3>3
  <2>9. /\ DOMAIN new.seen = DOMAIN Votes[i] /\ DOMAIN new.power = Status
        /\ new.sigs \in [Status -> SUBSET DOMAIN Votes[i]]
    BY <2>1, <2>2, <2>5, <2>6
  <2>10. ASSUME NEW k \in Status
         PROVE  /\ new.power[k] = Power(Votes[i], new.sigs[k])
                /\ new.sigs[k] \subseteq Accepts(M, i, d, h, k)
                /\ \A u \in new.sigs[k] : new.seen[u] # None
    <3>1. /\ set.power[k] = Power(Votes[i], set.sigs[k])
          /\ set.sigs[k] \subseteq Accepts(M, i, d, h, k)
          /\ set.sigs[k] \subseteq DOMAIN Votes[i]
          /\ \A u \in set.sigs[k] : set.seen[u] # None
      BY <2>2 DEF SetOK
    <3>2. \A u \in DOMAIN Votes[i] : set.seen[u] # None \/ u = v => new.seen[u] # None
      BY <2>1, <2>2, <2>5
    <3>3. CASE k = l
      <4>1. new.power[k] = p /\ new.sigs[k] = set.sigs[l] \cup {v}
        BY <2>1, <2>2, <2>5, <3>3
      <4>2. v \in Accepts(M, i, d, h, l)
        BY <2>1 DEF Accepts
      <4>3. \A u \in new.sigs[k] : new.seen[u] # None
        BY <2>1, <3>1, <3>2, <3>3, <4>1
      <4> QED BY <2>7, <3>1, <3>3, <4>1, <4>2, <4>3
    <3>4. CASE k # l
      <4>1. new.power[k] = set.power[k] /\ new.sigs[k] = set.sigs[k]
        BY <2>1, <2>2, <2>5, <3>4
      <4> QED BY <3>1, <3>2, <4>1
    <3> QED BY <3>3, <3>4
  <2>11. HasMaj23(new) => new.maj23 \in Status /\ Over23(i, new.power[new.maj23])
    <3>1. new.power[l] = p /\ \A k \in Status \ {l} : new.power[k] = set.power[k]
      BY <2>1, <2>2, <2>5
    <3>2. CASE set.maj23 = None
      BY <2>1, <2>5, <3>1, <3>2 DEF HasMaj23, Over23
    <3>3. CASE set.maj23 # None
      <4>1. new.maj23 = set.maj23 /\ set.maj23 \in Status /\ Over23(i, set.power[set.maj23])
        BY <2>5, <3>3 DEF SetOK, HasMaj23
      <4>2. CASE set.maj23 = l
        <5>1. TotalVotes(Votes[i]) \in Nat
          BY PeerLists, PowerType DEF TotalVotes
        <5>2. set.power[l] > (TotalVotes(Votes[i]) * 2) \div 3
          BY <4>1, <4>2 DEF Over23, OverTwoThirds
        <5>3. p > (TotalVotes(Votes[i]) * 2) \div 3
          BY <2>8, <5>1, <5>2
        <5> QED BY <3>1, <4>1, <4>2, <5>3 DEF Over23, OverTwoThirds
      <4>3. CASE set.maj23 # l
        BY <3>1, <4>1, <4>3
      <4> QED BY <4>2, <4>3
    <3> QED BY <3>2, <3>3
  <2>12. HasMaj23(set) => HasMaj23(new)
    BY <2>5 DEF HasMaj23
  <2>13. ~HasMaj23(set) => AddCSAReturnsNil(Votes[i], set, m)
    BY <1>2 DEF HasMaj23, AddCSAReturnsNil, Ambiguous
  <2>14. SetOK(M, i, d, h, new)
    BY <2>5, <2>9, <2>10, <2>11 DEF SetOK
  <2> QED BY <2>12, <2>13, <2>14 DEF new
<1> QED BY <1>1, <1>2

LEMMA CSAAdded ==
  ASSUME NoneIsNil, NEW n \in Correct, NEW s, NEW M, NodeOK(n, s, M),
         NEW m \in M, m.type = "CSA", WellFormed(m), m.to = ChainOf(n), CanAddCSA(n, s, m)
  PROVE  NodeOK(n, AddCrossShardAccept(s, m), M)
<1> DEFINE t == AddCrossShardAccept(s, m)
           c == ChainOf(n)
           i == m.accept
           old == s.csas[i]
           new == AddCSA(Votes[i], old, m)
           inc == ~HasMaj23(old) /\ HasMaj23(new) /\ CSAReturnsNil(s, m)
           N == M \cup s.out
           Has(csas) == {j \in Related[c] : HasMaj23(csas[j])}
<1>1. /\ IsState(s) /\ CollectedOK(n, s, N) /\ AcceptsOK(n, s, N)
      /\ i \in Related[c] /\ i \in Shard /\ m.height = s.height
      /\ IsFiniteSet(Related[c])
  BY Nodes, Neighbours DEF NodeOK, CollectedOK, CanAddCSA
<1>2. /\ DOMAIN s.csas = Related[c]
      /\ \A j \in Related[c] : SetOK(N, j, c, s.height, s.csas[j])
      /\ s.counter = Cardinality(Has(s.csas))
  BY <1>1 DEF AcceptsOK
<1>3. /\ SetOK(N, i, c, s.height, new)
      /\ HasMaj23(old) => HasMaj23(new)
      /\ ~HasMaj23(old) /\ HasMaj23(new) => CSAReturnsNil(s, m)
  <2>1. m \in N /\ SetOK(N, i, c, s.height, old) /\ None \notin Status
    BY <1>1, <1>2 DEF NoneIsNil
  <2> QED BY <1>1, <2>1, AnswerAdded DEF CSAReturnsNil
<1> HIDE DEF new
<1>4. t = [s EXCEPT !.csas[i] = new, !.counter = IF inc THEN @ + 1 ELSE @]
  BY DEF AddCrossShardAccept, new
<1> HIDE DEF t, inc
<1>5. /\ SameControl(s, t) /\ SamePrevotes(s, t) /\ SamePrecommits(s, t) /\ SameBlocks(s, t)
      /\ t.cscs = s.cscs
      /\ t.csas = [s.csas EXCEPT ![i] = new]
      /\ t.counter = IF inc THEN s.counter + 1 ELSE s.counter
  BY <1>1, <1>4 DEF IsState, StateFields, SameControl, SamePrevotes, SamePrecommits, SameBlocks
<1>6. /\ DOMAIN t.csas = Related[c] /\ t.csas[i] = new
      /\ \A j \in Related[c] \ {i} : t.csas[j] = s.csas[j]
  BY <1>1, <1>2, <1>5
<1>7. t.counter = Cardinality(Has(t.csas))
  <2>1. IsFiniteSet(Has(s.csas))
    BY <1>1, FS_Subset
  <2>2. CASE ~HasMaj23(old) /\ HasMaj23(new)
    <3>1. inc /\ i \notin Has(s.csas) /\ Has(t.csas) = Has(s.csas) \cup {i}
      BY <1>1, <1>3, <1>6, <2>2 DEF inc
    <3>2. Cardinality(Has(s.csas) \cup {i}) = Cardinality(Has(s.csas)) + 1
      <4> HIDE DEF Has
      <4> QED BY <2>1, <3>1, FS_AddElement
    <3> QED BY <1>2, <1>5, <3>1, <3>2
  <2>3. CASE ~(~HasMaj23(old) /\ HasMaj23(new))
    <3>1. ~inc /\ Has(t.csas) = Has(s.csas)
      BY <1>1, <1>3, <1>6, <2>3 DEF inc
    <3> QED BY <1>2, <1>5, <3>1
  <2> QED BY <2>2, <2>3
<1>8. AcceptsOK(n, t, N)
  <2>1. t.height = s.height
    BY <1>5 DEF SameControl
  <2>2. \A j \in Related[c] : SetOK(N, j, c, t.height, t.csas[j])
    BY <1>2, <1>3, <1>6, <2>1
  <2> QED BY <1>6, <1>7, <2>2 DEF AcceptsOK
<1>9. CollectedOK(n, t, N)
  <2>1. t.height = s.height /\ t.proposal = s.proposal
    BY <1>5 DEF SameControl, SameBlocks
  <2>2. PrevotesOK(n, t, N) /\ PrecommitsOK(n, t, N) /\ BlocksOK(n, t, N) /\ CommitsOK(t, N)
    BY <1>1, <1>5, <2>1, CollectedKept
  <2> QED BY <1>8, <2>2 DEF CollectedOK
<1> QED BY <1>5, <1>9, ControlKept DEF t

\* A function that also sends messages.
LEMMA SentKept ==
  ASSUME NEW n \in Correct, NEW s, NEW t, NEW M, NEW O, NodeOK(n, s, M), IsState(t),
         t.height = s.height, t.root = s.root, t.relay = s.relay, t.out = s.out \cup O,
         t.step = s.step \/ s.step # "NewHeight",
         \A m \in O : WellFormed(m) /\ (m.type \in {"Prevote", "Precommit", "CSA"} => VoteOf(n, m)),
         OwnVotesOK(n, t, M \cup s.out \cup O), CollectedOK(n, t, M \cup s.out \cup O)
  PROVE  NodeOK(n, t, M)
<1>1. M \cup t.out = M \cup s.out \cup O /\ M \cup s.out \subseteq M \cup t.out
  OBVIOUS
<1>2. HistoryOK(n, t, M \cup t.out)
  <2>1. HistoryOK(n, s, M \cup t.out)
    BY <1>1, HistoryGrows DEF NodeOK
  <2> QED BY <2>1 DEF HistoryOK
<1>3. RelayOK(n, t, M) /\ OutOK(n, t)
  BY DEF NodeOK, RelayOK, OutOK
<1>4. OwnVotesOK(n, t, M \cup t.out) /\ CollectedOK(n, t, M \cup t.out)
  BY <1>1
<1>5. t.height \in Nat /\ (t.height = 0 => t.step = "NewHeight")
  BY DEF NodeOK
<1> QED BY <1>2, <1>3, <1>4, <1>5 DEF NodeOK

LEMMA CSCAdded ==
  ASSUME NEW n \in Correct, NEW s, NodeOK(n, s, msgs),
         NEW m, m.type = "CSC", WellFormed(m), CanAddCSC(n, s, m)
  PROVE  NodeOK(n, AddCrossShardCommit(n, s, m), msgs)
<1> DEFINE t == AddCrossShardCommit(n, s, m)
           c == ChainOf(n)
           d == m.csc.upper
           N == msgs \cup s.out
           O == IF c \in IShards THEN CSCMsgs(m.height, m.csc, Related[c] \ {d}) ELSE {}
<1>1. /\ c \in Shard /\ d \in Shard /\ IsState(s) /\ CollectedOK(n, s, N) /\ m.height = s.height
      /\ Related[d] \subseteq Shard /\ m.height \in Nat
  <2>1. c \in Shard /\ Related[c] \subseteq Shard /\ Related2Level(c) \subseteq Shard
    BY Nodes, Neighbours
  <2>2. d \in Shard /\ m.height = s.height
    BY <2>1 DEF CanAddCSC
  <2>3. Related[d] \subseteq Shard
    BY <2>2, Neighbours
  <2> QED BY <2>1, <2>2, <2>3 DEF NodeOK, WellFormed
<1>2. t = [s EXCEPT !.cscs[d] = m.csc, !.out = @ \cup O]
  <2>1. CASE c \in IShards
    BY <2>1 DEF AddCrossShardCommit
  <2>2. CASE c \notin IShards
    <3>1. t = [s EXCEPT !.cscs[d] = m.csc, !.out = @]
      BY <2>2 DEF AddCrossShardCommit
    <3>2. O = {}
      BY <2>2
    <3>3. s.out \cup O = s.out
      BY <3>2
    <3> HIDE DEF t, O
    <3> QED BY <3>1, <3>3
  <2> QED BY <2>1, <2>2
<1>3. \A k \in O : k.type = "CSC" /\ k.height \in Nat
  BY <1>1 DEF CSCMsgs
<1> HIDE DEF t, O
<1>4. /\ IsState(t) /\ t.height = s.height /\ t.root = s.root /\ t.relay = s.relay
      /\ t.step = s.step /\ t.out = s.out \cup O /\ t.cscs = [s.cscs EXCEPT ![d] = m.csc]
      /\ SamePrevotes(s, t) /\ SamePrecommits(s, t) /\ SameBlocks(s, t) /\ SameAccepts(s, t)
  BY <1>1, <1>2 DEF IsState, StateFields, SamePrevotes, SamePrecommits, SameBlocks, SameAccepts
<1>5. \A k \in O : WellFormed(k) /\ k.type \notin {"Prevote", "Precommit", "CSA"} /\ ~VoteOf(n, k)
  BY <1>3 DEF WellFormed, VoteOf
<1>6. OwnVotesOK(n, t, N \cup O)
  <2>1. OwnVotesOK(n, s, N \cup O)
    BY <1>5, OwnVotesGrow DEF NodeOK
  <2> QED BY <1>4, <2>1 DEF OwnVotesOK
<1>7. \A i \in Related[d] : Accepted(N, i, d, s.height, m.csc.commits[i].status)
  <2> TAKE i \in Related[d]
  <2> DEFINE k == m.csc.commits[i].status
             S == m.csc.commits[i].signers
  <2>1. ValidateVote(m.csc, m.height, i)
    BY DEF CanAddCSC
  <2>2. /\ S \in SUBSET Accepts(N, i, d, s.height, k)
        /\ Accepts(N, i, d, s.height, k) \in SUBSET DOMAIN Votes[i]
    <3>1. ASSUME NEW v \in S PROVE v \in Accepts(N, i, d, s.height, k)
      <4> DEFINE x == CSAMsg(<<i, v>>, d, s.height, m.csc.block, k)
      <4>1. v \in DOMAIN Votes[i] /\ x \in N
        BY <1>1, <2>1 DEF ValidateVote
      <4>2. /\ x.type = "CSA" /\ x.to = d /\ x.accept = i
            /\ x.index = v /\ x.height = s.height /\ x.status = k
        BY DEF CSAMsg, ChainOf, IndexOf
      <4> HIDE DEF x
      <4> QED BY <4>1, <4>2 DEF Accepts
    <3> QED BY <3>1 DEF Accepts
  <2>3. Over23(i, Power(Votes[i], S))
    BY <2>1 DEF ValidateVote
  <2> QED BY <1>1, <2>2, <2>3, QuorumGrows DEF Accepted
<1>8. CommitsOK(t, N)
  <2>1. CommitsOK(s, N) /\ DOMAIN m.csc.commits = Related[d]
    BY <1>1 DEF CollectedOK, CanAddCSC
  <2>2. DOMAIN t.cscs = Shard /\ t.cscs[d] = m.csc /\ \A e \in Shard \ {d} : t.cscs[e] = s.cscs[e]
    BY <1>1, <1>4, <2>1 DEF CommitsOK
  <2> QED BY <1>4, <1>7, <2>1, <2>2 DEF CommitsOK
<1>9. CollectedOK(n, t, N \cup O)
  <2>1. t.proposal = s.proposal
    BY <1>4 DEF SameBlocks
  <2>2. PrevotesOK(n, t, N) /\ PrecommitsOK(n, t, N) /\ BlocksOK(n, t, N) /\ AcceptsOK(n, t, N)
    BY <1>1, <1>4, <2>1, CollectedKept
  <2>3. CollectedOK(n, t, N)
    BY <1>8, <2>2 DEF CollectedOK
  <2> QED BY <2>3, CollectedGrows
<1> QED BY <1>4, <1>5, <1>6, <1>9, SentKept DEF t

\* Early messages are kept.
LEMMA RelayAdded ==
  ASSUME NEW n \in Correct, NEW s, NEW M, NodeOK(n, s, M), NEW m \in M, m.to = ChainOf(n)
  PROVE  NodeOK(n, AddRelayMessage(s, m), M)
<1> DEFINE t == AddRelayMessage(s, m)
<1>1. /\ IsState(t) /\ t.height = s.height /\ t.root = s.root /\ t.step = s.step /\ t.out = s.out
      /\ t.relay = s.relay \cup {m} /\ SameCollected(s, t)
  BY DEF NodeOK, IsState, StateFields, AddRelayMessage, SameCollected, SamePrevotes, SamePrecommits,
         SameBlocks, SameAccepts
<1> HIDE DEF t
<1>2. CollectedOK(n, t, M \cup t.out)
  BY <1>1, CollectedKept DEF NodeOK
<1>3. HistoryOK(n, t, M \cup t.out) /\ OwnVotesOK(n, t, M \cup t.out)
  BY <1>1 DEF NodeOK, HistoryOK, OwnVotesOK
<1>4. RelayOK(n, t, M) /\ OutOK(n, t)
  BY <1>1 DEF NodeOK, RelayOK, OutOK
<1> QED BY <1>1, <1>2, <1>3, <1>4 DEF NodeOK, t
-----------------------------------------------------------------------------
(* The steps of a height.                                                  *)

\* The votes that a step sends are the first ones of their types.
LEMMA OwnVotesNext ==
  ASSUME NEW n, NEW s, NEW t, NEW M, NEW O, OwnVotesOK(n, s, M),
         s.height \in Nat, t.height = s.height,
         \A type : s.step \in After(type) => t.step \in After(type),
         \A m \in O : VoteOf(n, m) =>
           m.height = s.height /\ s.step \notin After(m.type) /\ t.step \in After(m.type),
         \A m, k \in O : VoteOf(n, m) /\ VoteOf(n, k) /\ m.type = k.type /\ m.to = k.to => m = k
  PROVE  OwnVotesOK(n, t, M \cup O)
<1>1. ASSUME NEW m \in M \cup O, VoteOf(n, m)
      PROVE  m.height \in 0..t.height /\ (m.height = t.height => t.step \in After(m.type))
  BY <1>1 DEF OwnVotesOK
<1>2. ASSUME NEW m \in M, NEW k \in O, VoteOf(n, m), VoteOf(n, k)
      PROVE  ~(m.type = k.type /\ m.height = k.height)
  BY <1>2 DEF OwnVotesOK
<1>3. ASSUME NEW m \in M \cup O, NEW k \in M \cup O, VoteOf(n, m), VoteOf(n, k),
             m.type = k.type, m.to = k.to, m.height = k.height
      PROVE  m = k
  <2>1. CASE m \in M /\ k \in M
    BY <1>3, <2>1 DEF OwnVotesOK
  <2>2. CASE m \in O /\ k \in O
    BY <1>3, <2>2
  <2>3. CASE (m \in M /\ k \in O) \/ (m \in O /\ k \in M)
    BY <1>2, <1>3, <2>3
  <2> QED BY <1>3, <2>1, <2>2, <2>3
<1> QED BY <1>1, <1>3 DEF OwnVotesOK

LEMMA AfterNext ==
  /\ \A type : "Propose" \notin After(type)
  /\ \A type : "Prevote" \in After(type) => "Precommit" \in After(type)
  /\ \A type : "Precommit" \in After(type) => "CrossShardAccept" \in After(type)
  /\ \A type : "CrossShardAccept" \in After(type) => "CrossShardCommit" \in After(type)
  /\ "Prevote" \in After("Prevote")
  /\ "Prevote" \notin After("Precommit") /\ "Precommit" \in After("Precommit")
  /\ "CrossShardAccept" \notin After("CSA") /\ "CrossShardCommit" \in After("CSA")
BY DEF After

\* A node has not counted itself before it votes.
LEMMA OwnVoteIsNew ==
  ASSUME NEW n \in Correct, NEW s, NEW M, NodeOK(n, s, M), s.proposal # None
  PROVE  /\ s.step = "Propose" => IndexOf(n) \notin s.prevoteBits
         /\ s.step = "Prevote" => IndexOf(n) \notin s.precommitBits
<1> DEFINE c == ChainOf(n)
           v == IndexOf(n)
           N == M \cup s.out
           x(type) == [type |-> type, to |-> c, height |-> s.height, from |-> v, block |-> s.proposal]
<1>1. /\ v \in DOMAIN Votes[c] /\ s.height \in Nat
      /\ s.proposal.height = s.height
      /\ CountOK(N, c, "Prevote", s.height, s.proposal, s.prevotes, s.prevoteBits, s.prevoteTotal)
      /\ CountOK(N, c, "Precommit", s.height, s.proposal, s.precommits, s.precommitBits, s.precommitTotal)
  BY Nodes DEF NodeOK, CollectedOK, BlocksOK, PrevotesOK, PrecommitsOK
<1>2. /\ v \in s.prevoteBits => x("Prevote") \in N
      /\ v \in s.precommitBits => x("Precommit") \in N
  BY <1>1 DEF CountOK, VotersFor
<1>3. ASSUME NEW type \in {"Prevote", "Precommit"}
      PROVE  VoteOf(n, x(type)) /\ x(type).height = s.height /\ x(type).type = type
  BY DEF VoteOf
<1> HIDE DEF x
<1>4. \A type \in {"Prevote", "Precommit"} : x(type) \in N => s.step \in After(type)
  <2>1. OwnVotesOK(n, s, N)
    BY DEF NodeOK
  <2> QED BY <1>1, <1>3, <2>1 DEF OwnVotesOK
<1> QED BY <1>2, <1>4, AfterNext

LEMMA ProposeKept ==
  ASSUME NEW n \in Correct, NEW s, NEW M, NodeOK(n, s, M), s.step = "Propose", FinishProposal(n, s)
  PROVE  NodeOK(n, DoPropose(n, s), M)
<1> DEFINE c == ChainOf(n)
           b == s.blocks[c]
           m == PrevoteMsg(n, b)
           N == M \cup s.out
           u == AddPrevote(n, s, m)
<1>1. /\ c \in Shard /\ IndexOf(n) \in DOMAIN Votes[c] /\ n = <<c, IndexOf(n)>>
      /\ IsState(s) /\ s.height \in Nat /\ CollectedOK(n, s, N)
      /\ s.proposal # None /\ b # None
  BY Nodes DEF NodeOK, FinishProposal
<1>2. b.height = s.height
  BY <1>1 DEF CollectedOK, BlocksOK, BlockOK
<1>3. CASE b.root # s.root
  <2> DEFINE t == [s EXCEPT !.up = FALSE]
  <2>1. SameControl(s, t) /\ SameCollected(s, t)
    BY <1>1 DEF IsState, StateFields, SameControl, SameCollected, SamePrevotes, SamePrecommits,
                SameBlocks, SameAccepts
  <2>2. DoPropose(n, s) = t
    BY <1>3 DEF DoPropose
  <2> HIDE DEF t
  <2>3. CollectedOK(n, t, N)
    BY <1>1, <2>1, CollectedKept DEF SameControl
  <2> QED BY <2>1, <2>2, <2>3, ControlKept
<1>4. CASE b.root = s.root
  <2>1. /\ m.type = "Prevote" /\ m.height = s.height /\ m.from = IndexOf(n) /\ m.to = c /\ m.block = b
        /\ m = [type |-> m.type, to |-> m.to, height |-> m.height, from |-> m.from, block |-> m.block]
    BY <1>2 DEF PrevoteMsg
  <2>2. WellFormed(m) /\ VoteOf(n, m)
    <3> HIDE DEF m
    <3> QED BY <1>1, <2>1 DEF WellFormed, VoteOf
  <2>3. m = PrevoteMsg(<<c, m.from>>, m.block)
    BY <1>1, <2>1
  <2> DEFINE t == [u EXCEPT !.out = @ \cup {m}, !.step = NextStep[@]]
  <2>4. DoPropose(n, s) = t
    BY <1>4 DEF DoPropose
  <2> HIDE DEF m
  <2>5. CollectedOK(n, s, N \cup {m})
    BY <1>1, CollectedGrows
  <2>6. SameControl(s, u) /\ CollectedOK(n, u, N \cup {m})
    <3>1. m.from \notin s.prevoteBits /\ m.from \in DOMAIN Votes[c]
      BY <1>1, <2>1, OwnVoteIsNew
    <3>2. PrevoteMsg(<<c, m.from>>, m.block) \in N \cup {m}
      BY <2>3, Zenon
    <3> QED BY <1>1, <2>5, <3>1, <3>2, PrevoteAdded
  <2> HIDE DEF u
  <2>7. /\ IsState(t) /\ t.height = s.height /\ t.root = s.root /\ t.relay = s.relay
        /\ t.out = s.out \cup {m} /\ t.step = "Prevote" /\ SameCollected(u, t)
    BY <2>6 DEF IsState, StateFields, SameControl, SameCollected, SamePrevotes, SamePrecommits,
                SameBlocks, SameAccepts, NextStep
  <2> HIDE DEF t
  <2>8. CollectedOK(n, t, N \cup {m})
    BY <2>6, <2>7, CollectedKept DEF SameControl
  <2>9. OwnVotesOK(n, t, N \cup {m})
    <3>1. OwnVotesOK(n, s, N)
      BY DEF NodeOK
    <3>2. \A type : s.step \in After(type) => t.step \in After(type)
      BY AfterNext
    <3>3. m.height = s.height /\ s.step \notin After(m.type) /\ t.step \in After(m.type)
      BY <2>1, <2>7, AfterNext
    <3>4. \A k \in {m} : k = m
      OBVIOUS
    <3> QED BY <1>1, <2>7, <3>1, <3>2, <3>3, <3>4, OwnVotesNext
  <2>10. NodeOK(n, t, M)
    <3>1. \A k \in {m} :
            WellFormed(k) /\ (k.type \in {"Prevote", "Precommit", "CSA"} => VoteOf(n, k))
      BY <2>2, Zenon
    <3> DEFINE O == {m}
    <3>2. t.out = s.out \cup O /\ OwnVotesOK(n, t, M \cup s.out \cup O) /\ CollectedOK(n, t, M \cup s.out \cup O)
      BY <2>7, <2>8, <2>9
    <3> HIDE DEF O
    <3>3. \A k \in O : WellFormed(k) /\ (k.type \in {"Prevote", "Precommit", "CSA"} => VoteOf(n, k))
      BY <3>1 DEF O
    <3> QED BY <2>7, <3>2, <3>3, SentKept
  <2> QED BY <2>4, <2>10
<1> QED BY <1>3, <1>4

LEMMA PrevoteKept ==
  ASSUME NEW n \in Correct, NEW s, NEW M, NodeOK(n, s, M), s.step = "Prevote", FinishProposal(n, s)
  PROVE  NodeOK(n, DoPrevote(n, s), M)
<1> DEFINE c == ChainOf(n)
           b == s.blocks[c]
           m == PrecommitMsg(n, b)
           N == M \cup s.out
           u == AddPrecommit(n, s, m)
           t == [u EXCEPT !.out = @ \cup {m}, !.step = NextStep[@]]
<1>1. /\ c \in Shard /\ IndexOf(n) \in DOMAIN Votes[c] /\ n = <<c, IndexOf(n)>>
      /\ IsState(s) /\ s.height \in Nat /\ CollectedOK(n, s, N)
      /\ s.proposal # None /\ b # None
  BY Nodes DEF NodeOK, FinishProposal
<1>2. b.height = s.height
  BY <1>1 DEF CollectedOK, BlocksOK, BlockOK
<1>3. /\ m.type = "Precommit" /\ m.height = s.height /\ m.from = IndexOf(n) /\ m.to = c /\ m.block = b
      /\ m = [type |-> m.type, to |-> m.to, height |-> m.height, from |-> m.from, block |-> m.block]
  BY <1>2 DEF PrecommitMsg
<1>4. WellFormed(m) /\ VoteOf(n, m)
  <2> HIDE DEF m
  <2> QED BY <1>1, <1>3 DEF WellFormed, VoteOf
<1>5. m = PrecommitMsg(<<c, m.from>>, m.block)
  BY <1>1, <1>3
<1>6. DoPrevote(n, s) = t
  BY DEF DoPrevote
<1> HIDE DEF m
<1>7. SameControl(s, u) /\ CollectedOK(n, u, N \cup {m})
  <2>1. m.from \notin s.precommitBits /\ m.from \in DOMAIN Votes[c]
    BY <1>1, <1>3, OwnVoteIsNew
  <2>2. PrecommitMsg(<<c, m.from>>, m.block) \in N \cup {m}
    BY <1>5, Zenon
  <2>3. CollectedOK(n, s, N \cup {m})
    BY <1>1, CollectedGrows
  <2> QED BY <1>1, <2>1, <2>2, <2>3, PrecommitAdded
<1> HIDE DEF u
<1>8. /\ IsState(t) /\ t.height = s.height /\ t.root = s.root /\ t.relay = s.relay
      /\ t.out = s.out \cup {m} /\ t.step = "Precommit" /\ SameCollected(u, t)
  BY <1>7 DEF IsState, StateFields, SameControl, SameCollected, SamePrevotes, SamePrecommits,
              SameBlocks, SameAccepts, NextStep
<1> HIDE DEF t
<1>9. CollectedOK(n, t, N \cup {m})
  BY <1>7, <1>8, CollectedKept DEF SameControl
<1>10. OwnVotesOK(n, t, N \cup {m})
  <2>1. OwnVotesOK(n, s, N)
    BY DEF NodeOK
  <2>2. \A type : s.step \in After(type) => t.step \in After(type)
    BY <1>8, AfterNext
  <2>3. m.height = s.height /\ s.step \notin After(m.type) /\ t.step \in After(m.type)
    BY <1>3, <1>8, AfterNext
  <2>4. \A k \in {m} : k = m
    OBVIOUS
  <2> QED BY <1>1, <1>8, <2>1, <2>2, <2>3, <2>4, OwnVotesNext
<1>11. NodeOK(n, t, M)
  <2>1. \A k \in {m} :
            WellFormed(k) /\ (k.type \in {"Prevote", "Precommit", "CSA"} => VoteOf(n, k))
    BY <1>4, Zenon
  <2> DEFINE O == {m}
  <2>2. t.out = s.out \cup O /\ OwnVotesOK(n, t, M \cup s.out \cup O) /\ CollectedOK(n, t, M \cup s.out \cup O)
    BY <1>8, <1>9, <1>10
  <2> HIDE DEF O
  <2>3. \A k \in O : WellFormed(k) /\ (k.type \in {"Prevote", "Precommit", "CSA"} => VoteOf(n, k))
    BY <2>1 DEF O
  <2> QED BY <1>8, <2>2, <2>3, SentKept
<1> QED BY <1>6, <1>11

\* A step that sends no vote.
LEMMA StepKept ==
  ASSUME NEW n \in Correct, NEW s, NEW t, NEW M, NEW O, NodeOK(n, s, M), IsState(t),
         t.height = s.height, t.root = s.root, t.relay = s.relay, t.out = s.out \cup O,
         t.step = s.step \/ s.step # "NewHeight",
         \A m \in O : WellFormed(m) /\ m.type \notin {"Prevote", "Precommit", "CSA"},
         \A type : s.step \in After(type) => t.step \in After(type),
         CollectedOK(n, t, M \cup s.out)
  PROVE  NodeOK(n, t, M)
<1>1. CollectedOK(n, t, M \cup s.out \cup O)
  BY CollectedGrows
<1>2. \A m \in O : ~VoteOf(n, m)
  BY DEF VoteOf
<1>3. OwnVotesOK(n, t, M \cup s.out \cup O)
  BY <1>2, OwnVotesNext DEF NodeOK
<1>4. \A m \in O : WellFormed(m) /\ (m.type \in {"Prevote", "Precommit", "CSA"} => VoteOf(n, m))
  OBVIOUS
<1> QED BY <1>1, <1>3, <1>4, SentKept

LEMMA PrecommitKept ==
  ASSUME NEW n \in Correct, NEW s, NEW M, NodeOK(n, s, M), s.step = "Precommit", FinishProposal(n, s)
  PROVE  NodeOK(n, DoPrecommit(n, s), M)
<1> DEFINE c == ChainOf(n)
           b == s.blocks[c]
           kind == IF c \in IShards THEN "full" ELSE "cross"
           dests == IF c \in IShards THEN Related[c] ELSE Related[c] \cup Related2Level(c)
           N == M \cup s.out
           Q == CSPMsgs(b, kind, s.precommitBits, dests) \cup PartMsgs(b, kind, dests)
           O == IF IsProposer(n, s) THEN Q ELSE {}
           t == DoPrecommit(n, s)
<1>1. /\ c \in Shard /\ IsState(s) /\ s.height \in Nat /\ CollectedOK(n, s, N) /\ b # None
  BY Nodes DEF NodeOK, FinishProposal
<1>2. b.height = s.height /\ b.chain = c
  BY <1>1 DEF CollectedOK, BlocksOK, BlockOK
<1>3. \A m \in O : WellFormed(m) /\ m.type \notin {"Prevote", "Precommit", "CSA"}
  <2>1. \A m \in CSPMsgs(b, kind, s.precommitBits, dests) :
          m.type = "CSP" /\ m.block = b /\ m.height = b.height
    BY DEF CSPMsgs
  <2>2. \A m \in PartMsgs(b, kind, dests) : m.type = "Part" /\ m.block = b /\ m.height = b.height
    BY DEF PartMsgs
  <2> HIDE DEF b, kind, dests
  <2> QED BY <1>1, <1>2, <2>1, <2>2 DEF WellFormed
<1>4. t = [s EXCEPT !.csps = @ \cup {c}, !.out = @ \cup O, !.step = NextStep[@]]
  <2>1. CASE IsProposer(n, s)
    <3>1. t = [s EXCEPT !.csps = @ \cup {c},
                        !.out = @ \cup CSPMsgs(b, kind, s.precommitBits, dests) \cup PartMsgs(b, kind, dests),
                        !.step = NextStep[@]]
      BY <2>1 DEF DoPrecommit
    <3>2. s.out \cup CSPMsgs(b, kind, s.precommitBits, dests) \cup PartMsgs(b, kind, dests) = s.out \cup O
      BY <2>1
    <3> HIDE DEF t, O
    <3> QED BY <3>1, <3>2
  <2>2. CASE ~IsProposer(n, s)
    <3>1. t = [s EXCEPT !.csps = @ \cup {c}, !.out = @, !.step = NextStep[@]]
      BY <2>2 DEF DoPrecommit
    <3>2. s.out \cup O = s.out
      BY <2>2
    <3> HIDE DEF t, O
    <3> QED BY <3>1, <3>2
  <2> QED BY <2>1, <2>2
<1> HIDE DEF t, O
<1>5. /\ IsState(t) /\ t.height = s.height /\ t.root = s.root /\ t.relay = s.relay
      /\ t.out = s.out \cup O /\ t.step = "CrossShardAccept" /\ SameCollected(s, t)
  BY <1>1, <1>4 DEF IsState, StateFields, SameCollected, SamePrevotes, SamePrecommits,
              SameBlocks, SameAccepts, NextStep
<1>6. CollectedOK(n, t, N)
  BY <1>1, <1>5, CollectedKept
<1>7. \A type : s.step \in After(type) => t.step \in After(type)
  BY <1>5, AfterNext
<1> QED BY <1>3, <1>5, <1>6, <1>7, StepKept DEF t

LEMMA CSAKept ==
  ASSUME AnswersOK, NEW n \in Correct, NEW s, NEW M, NodeOK(n, s, M), s.step = "CrossShardAccept",
         FinishCrossShardAccept(n, s)
  PROVE  NodeOK(n, DoCSA(n, s), M)
<1> DEFINE c == ChainOf(n)
           blocks == [d \in Related[c] |-> s.blocks[d]]
           votes == PreExecutionI(c, s.root, blocks)
           x(d) == CSAMsg(n, d, s.height, blocks[d], votes[d])
           O == {x(d) : d \in Related[c]}
           N == M \cup s.out
           t == DoCSA(n, s)
<1>1. /\ c \in Shard /\ IndexOf(n) \in DOMAIN Votes[c]
      /\ IsState(s) /\ s.height \in Nat /\ CollectedOK(n, s, N)
      /\ \A d \in Related[c] : blocks[d] # None
  BY Nodes DEF NodeOK, FinishCrossShardAccept
<1>2. \A d \in Related[c] : votes[d] \in Status
  <2>1. DOMAIN blocks = Related[c]
    OBVIOUS
  <2>2. votes \in [DOMAIN blocks -> Status]
    BY DEF AnswersOK
  <2> HIDE DEF blocks, votes
  <2> QED BY <2>1, <2>2
<1>3. t = [s EXCEPT !.out = @ \cup O, !.step = NextStep[@]]
  BY DEF DoCSA
<1> HIDE DEF t, blocks, votes
<1>4. ASSUME NEW d
      PROVE  /\ x(d).type = "CSA" /\ x(d).to = d /\ x(d).accept = c /\ x(d).index = IndexOf(n)
             /\ x(d).height = s.height /\ x(d).block = blocks[d] /\ x(d).status = votes[d]
  BY DEF CSAMsg
<1> HIDE DEF x
<1>5. \A m \in O : /\ WellFormed(m) /\ VoteOf(n, m) /\ m.height = s.height /\ m.type = "CSA"
                   /\ \E d \in Related[c] : m.to = d /\ m = x(d)
  BY <1>1, <1>2, <1>4 DEF WellFormed, VoteOf
<1> HIDE DEF O
<1>6. /\ IsState(t) /\ t.height = s.height /\ t.root = s.root /\ t.relay = s.relay
      /\ t.out = s.out \cup O /\ t.step = "CrossShardCommit" /\ SameCollected(s, t)
  BY <1>1, <1>3 DEF IsState, StateFields, SameCollected, SamePrevotes, SamePrecommits,
              SameBlocks, SameAccepts, NextStep
<1>7. CollectedOK(n, t, N \cup O)
  <2>1. CollectedOK(n, t, N)
    BY <1>1, <1>6, CollectedKept
  <2> QED BY <2>1, CollectedGrows
<1>8. OwnVotesOK(n, t, N \cup O)
  <2>1. OwnVotesOK(n, s, N)
    BY DEF NodeOK
  <2>2. \A type : s.step \in After(type) => t.step \in After(type)
    BY <1>6, AfterNext
  <2>3. \A m \in O : m.height = s.height /\ s.step \notin After(m.type) /\ t.step \in After(m.type)
    BY <1>5, <1>6, AfterNext
  <2>4. \A m, k \in O : m.to = k.to => m = k
    BY <1>5
  <2> QED BY <1>1, <1>6, <2>1, <2>2, <2>3, <2>4, OwnVotesNext
<1>9. NodeOK(n, t, M)
  BY <1>5, <1>6, <1>7, <1>8, SentKept
<1> QED BY <1>9 DEF t

LEMMA CSPKept ==
  ASSUME NEW n \in Correct, NEW s, NEW M, NodeOK(n, s, M), s.step = "CrossShardAccept",
         FinishCrossShardProposal(n, s)
  PROVE  NodeOK(n, DoCSP(n, s), M)
<1> DEFINE c == ChainOf(n)
           csc == GenerateCrossShardCommit(n, s)
           N == M \cup s.out
           O == IF IsProposer(n, s) THEN CSCMsgs(s.height, csc, Related[c]) ELSE {}
           t == DoCSP(n, s)
<1>1. /\ c \in Shard /\ IsState(s) /\ s.height \in Nat /\ CollectedOK(n, s, N)
      /\ Related[c] \subseteq Shard /\ IsFiniteSet(Related[c])
      /\ s.counter >= Cardinality(Related[c])
  BY Nodes, Neighbours DEF NodeOK, FinishCrossShardProposal
<1>2. \A i \in Related[c] : HasMaj23(s.csas[i]) /\ SetOK(N, i, c, s.height, s.csas[i])
  <2> DEFINE S == {i \in Related[c] : HasMaj23(s.csas[i])}
  <2>1. /\ s.counter = Cardinality(S)
        /\ \A i \in Related[c] : SetOK(N, i, c, s.height, s.csas[i])
    BY <1>1 DEF CollectedOK, AcceptsOK
  <2>2. S \in SUBSET Related[c]
    OBVIOUS
  <2>3. S = Related[c]
    <3> HIDE DEF S
    <3>1. IsFiniteSet(S) /\ Cardinality(S) <= Cardinality(Related[c])
      BY <1>1, <2>2, FS_Subset
    <3>2. Cardinality(S) \in Nat /\ Cardinality(Related[c]) \in Nat
      BY <1>1, <3>1, FS_CardinalityType
    <3>3. Cardinality(S) = Cardinality(Related[c])
      BY <1>1, <2>1, <3>1, <3>2
    <3> QED BY <1>1, <2>2, <3>3, FS_Subset
  <2> QED BY <2>1, <2>3
<1>3. /\ csc.upper = c /\ DOMAIN csc.commits = Related[c]
      /\ \A i \in Related[c] : csc.commits[i] = GetMaj23(s.csas[i])
  BY DEF GenerateCrossShardCommit
<1>4. ASSUME NEW i \in Related[c]
      PROVE  Accepted(N, i, c, s.height, csc.commits[i].status)
  <2> DEFINE set == s.csas[i]
             k == set.maj23
  <2>1. /\ k \in Status /\ Over23(i, Power(Votes[i], set.sigs[k]))
        /\ set.sigs[k] \subseteq Accepts(N, i, c, s.height, k)
    <3>1. SetOK(N, i, c, s.height, set) /\ HasMaj23(set)
      BY <1>2
    <3> HIDE DEF set
    <3>2. k \in Status /\ Over23(i, set.power[k])
      BY <3>1 DEF SetOK
    <3>3. /\ set.power[k] = Power(Votes[i], set.sigs[k])
          /\ set.sigs[k] \subseteq Accepts(N, i, c, s.height, k)
      BY <3>1, <3>2 DEF SetOK
    <3> QED BY <3>2, <3>3
  <2>2. csc.commits[i].status = k
    <3>1. csc.commits[i] = GetMaj23(set) /\ HasMaj23(set)
      BY <1>2, <1>3
    <3> HIDE DEF csc, set
    <3>2. csc.commits[i] = [status |-> set.maj23, signers |-> set.sigs[set.maj23]]
      BY <3>1 DEF GetMaj23
    <3> QED BY <3>2
  <2>3. Accepts(N, i, c, s.height, k) \in SUBSET DOMAIN Votes[i]
    BY DEF Accepts
  <2> HIDE DEF set, k, csc
  <2>4. Accepted(N, i, c, s.height, k)
    BY <1>1, <2>1, <2>3, QuorumGrows DEF Accepted
  <2> QED BY <2>2, <2>4
<1>5. \A m \in O : WellFormed(m) /\ m.type \notin {"Prevote", "Precommit", "CSA"}
  <2>1. \A m \in O : m.type = "CSC" /\ m.height = s.height
    BY DEF CSCMsgs
  <2> HIDE DEF O
  <2> QED BY <1>1, <2>1 DEF WellFormed
<1>6. t = [s EXCEPT !.cscs[c] = csc, !.out = @ \cup O, !.step = NextStep[@]]
  <2>1. CASE IsProposer(n, s)
    BY <2>1 DEF DoCSP
  <2>2. CASE ~IsProposer(n, s)
    <3>1. t = [s EXCEPT !.cscs[c] = csc, !.out = @, !.step = NextStep[@]]
      BY <2>2 DEF DoCSP
    <3>2. s.out \cup O = s.out
      BY <2>2
    <3> HIDE DEF t, O, csc
    <3> QED BY <3>1, <3>2
  <2> QED BY <2>1, <2>2
<1> HIDE DEF t, O, csc
<1>7. /\ IsState(t) /\ t.height = s.height /\ t.root = s.root /\ t.relay = s.relay
      /\ t.out = s.out \cup O /\ t.step = "CrossShardCommit" /\ t.cscs = [s.cscs EXCEPT ![c] = csc]
      /\ SamePrevotes(s, t) /\ SamePrecommits(s, t) /\ SameBlocks(s, t) /\ SameAccepts(s, t)
  BY <1>1, <1>6 DEF IsState, StateFields, SamePrevotes, SamePrecommits, SameBlocks, SameAccepts, NextStep
<1>8. CommitsOK(t, N)
  <2>1. CommitsOK(s, N)
    BY <1>1 DEF CollectedOK
  <2>2. DOMAIN t.cscs = Shard /\ t.cscs[c] = csc /\ \A e \in Shard \ {c} : t.cscs[e] = s.cscs[e]
    BY <1>1, <1>7, <2>1 DEF CommitsOK
  <2> QED BY <1>3, <1>4, <1>7, <2>1, <2>2 DEF CommitsOK
<1>9. CollectedOK(n, t, N)
  <2>1. t.proposal = s.proposal
    BY <1>7 DEF SameBlocks
  <2>2. PrevotesOK(n, t, N) /\ PrecommitsOK(n, t, N) /\ BlocksOK(n, t, N) /\ AcceptsOK(n, t, N)
    BY <1>1, <1>7, <2>1, CollectedKept
  <2> QED BY <1>8, <2>2 DEF CollectedOK
<1>10. \A type : s.step \in After(type) => t.step \in After(type)
  BY <1>7, AfterNext
<1> QED BY <1>5, <1>7, <1>9, <1>10, StepKept DEF t
-----------------------------------------------------------------------------
(* The beginning of a height.                                              *)

\* What a node has collected at the beginning of a height.
Fresh(n, t) ==
  /\ IsState(t) /\ t.proposal = None
  /\ t.prevotes = [v \in DOMAIN Votes[ChainOf(n)] |-> None] /\ t.prevoteBits = {} /\ t.prevoteTotal = 0
  /\ t.precommits = [v \in DOMAIN Votes[ChainOf(n)] |-> None]
  /\ t.precommitBits = {} /\ t.precommitTotal = 0
  /\ t.csas = [i \in Related[ChainOf(n)] |-> NewCSAShardSet(Votes[i])] /\ t.counter = 0
  /\ t.cscs = [d \in Shard |-> None]
  /\ t.partSets = [d \in Shard |-> None] /\ t.blocks = [d \in Shard |-> None]

LEMMA Cleared ==
  ASSUME NEW n, NEW s, IsState(s)
  PROVE  Fresh(n, ClearAll(n, s)) /\ SameControl(s, ClearAll(n, s))
<1> DEFINE p == [s EXCEPT !.proposal = None]
           q == ClearVotes(n, p)
           t == ClearCrossShardData(n, q)
<1>1. SameControl(s, p) /\ p.proposal = None
  BY DEF IsState, StateFields, SameControl
<1> HIDE DEF p
<1>2. /\ SameControl(p, q) /\ q.proposal = None
      /\ q.prevotes = [v \in DOMAIN Votes[ChainOf(n)] |-> None] /\ q.prevoteBits = {} /\ q.prevoteTotal = 0
      /\ q.precommits = [v \in DOMAIN Votes[ChainOf(n)] |-> None]
      /\ q.precommitBits = {} /\ q.precommitTotal = 0
  BY <1>1 DEF IsState, StateFields, SameControl, ClearVotes
<1> HIDE DEF q
<1>3. /\ SameControl(q, t) /\ t.proposal = None /\ SamePrevotes(q, t) /\ SamePrecommits(q, t)
      /\ t.csas = [i \in Related[ChainOf(n)] |-> NewCSAShardSet(Votes[i])] /\ t.counter = 0
      /\ t.cscs = [d \in Shard |-> None]
      /\ t.partSets = [d \in Shard |-> None] /\ t.blocks = [d \in Shard |-> None]
  BY <1>2 DEF IsState, StateFields, SameControl, SamePrevotes, SamePrecommits, ClearCrossShardData
<1> HIDE DEF t
<1>4. SameControl(s, t)
  BY <1>1, <1>2, <1>3 DEF SameControl
<1>5. Fresh(n, t)
  BY <1>2, <1>3 DEF SameControl, SamePrevotes, SamePrecommits, Fresh
<1>6. ClearAll(n, s) = t
  BY DEF ClearAll, t, q, p
<1> QED BY <1>4, <1>5, <1>6

LEMMA NewSetIsOK ==
  ASSUME NEW M, NEW i \in Shard, NEW d, NEW h
  PROVE  SetOK(M, i, d, h, NewCSAShardSet(Votes[i])) /\ ~HasMaj23(NewCSAShardSet(Votes[i]))
BY PowerEmpty DEF SetOK, NewCSAShardSet, HasMaj23

LEMMA FreshIsOK ==
  ASSUME NEW n \in Correct, NEW t, NEW M, Fresh(n, t)
  PROVE  CollectedOK(n, t, M)
<1> DEFINE c == ChainOf(n)
<1>1. c \in Shard /\ Related[c] \subseteq Shard
  BY Nodes, Neighbours
<1>2. PrevotesOK(n, t, M)
  BY <1>1, CountNone DEF Fresh, PrevotesOK
<1>3. PrecommitsOK(n, t, M)
  BY <1>1, CountNone DEF Fresh, PrecommitsOK
<1>4. BlocksOK(n, t, M)
  BY DEF Fresh, BlocksOK
<1>5. AcceptsOK(n, t, M)
  <2>1. DOMAIN t.csas = Related[c] /\ \A i \in Related[c] : t.csas[i] = NewCSAShardSet(Votes[i])
    BY DEF Fresh
  <2>2. \A i \in Related[c] : SetOK(M, i, c, t.height, t.csas[i]) /\ ~HasMaj23(t.csas[i])
    BY <1>1, <2>1, NewSetIsOK
  <2>3. {i \in Related[c] : HasMaj23(t.csas[i])} = {}
    BY <2>2
  <2>4. t.counter = Cardinality({i \in Related[c] : HasMaj23(t.csas[i])})
    BY <2>3, FS_EmptySet DEF Fresh
  <2> QED BY <2>1, <2>2, <2>4 DEF AcceptsOK
<1>6. CommitsOK(t, M)
  BY DEF Fresh, CommitsOK
<1> QED BY <1>2, <1>3, <1>4, <1>5, <1>6 DEF CollectedOK

\* createBlockAndBroadcast at the beginning of a height.
LEMMA CreateKept ==
  ASSUME NoneIsNil, NEW n \in Correct, NEW s, NEW M, NodeOK(n, s, M), Fresh(n, s), NEW body
  PROVE  NodeOK(n, CreateBlockAndBroadcast(n, s, body), M)
<1> DEFINE c == ChainOf(n)
           b == [chain |-> c, height |-> s.height, body |-> body, root |-> s.root]
           N == M \cup s.out
           O == {ProposalMsg(c, IndexOf(n), b)} \cup PartMsgs(b, "full", {c})
           ps == [block |-> b, kind |-> "full", got |-> 1..PartTotal(b, "full")]
           t == CreateBlockAndBroadcast(n, s, body)
<1>1. /\ c \in Shard /\ IsState(s) /\ s.height \in Nat /\ CollectedOK(n, s, N)
      /\ b # None /\ b.chain = c /\ b.height = s.height
  BY Nodes DEF NodeOK, NoneIsNil
<1>2. \A m \in O : WellFormed(m) /\ m.type \notin {"Prevote", "Precommit", "CSA"}
  <2> HIDE DEF b
  <2>1. \A m \in O : m.type \in {"Proposal", "Part"} /\ m.block = b /\ m.height = b.height
    BY DEF ProposalMsg, PartMsgs
  <2> HIDE DEF O
  <2> QED BY <1>1, <2>1 DEF WellFormed
<1>3. DOMAIN ps = {"block", "kind", "got"} /\ ps.block = b
  <2> HIDE DEF b
  <2> QED OBVIOUS
<1>4. t = [s EXCEPT !.proposal = b, !.blocks[c] = b, !.partSets[c] = ps, !.out = @ \cup O]
  <2>1. t = [s EXCEPT !.proposal = b, !.blocks[c] = b, !.partSets[c] = ps,
                      !.out = @ \cup {ProposalMsg(c, IndexOf(n), b)} \cup PartMsgs(b, "full", {c})]
    BY DEF CreateBlockAndBroadcast
  <2>2. s.out \cup {ProposalMsg(c, IndexOf(n), b)} \cup PartMsgs(b, "full", {c}) = s.out \cup O
    OBVIOUS
  <2> HIDE DEF t, b, O, ps
  <2> QED BY <2>1, <2>2
<1> HIDE DEF t, b, O, ps
<1>5. /\ IsState(t) /\ t.height = s.height /\ t.root = s.root /\ t.relay = s.relay /\ t.step = s.step
      /\ t.out = s.out \cup O /\ t.proposal = b
      /\ SamePrevotes(s, t) /\ SamePrecommits(s, t) /\ SameAccepts(s, t) /\ t.cscs = s.cscs
      /\ t.blocks = [s.blocks EXCEPT ![c] = b] /\ t.partSets = [s.partSets EXCEPT ![c] = ps]
  BY <1>1, <1>4 DEF IsState, StateFields, SamePrevotes, SamePrecommits, SameAccepts
<1>6. PrevotesOK(n, t, N) /\ PrecommitsOK(n, t, N)
  BY <1>1, <1>5, CountNone
     DEF Fresh, SamePrevotes, SamePrecommits, PrevotesOK, PrecommitsOK
<1>7. BlocksOK(n, t, N)
  <2>1. BlocksOK(n, s, N) /\ s.proposal = None /\ DOMAIN s.blocks = Shard /\ DOMAIN s.partSets = Shard
    BY <1>1 DEF CollectedOK, BlocksOK, Fresh
  <2>2. /\ DOMAIN t.partSets = Shard /\ DOMAIN t.blocks = Shard
        /\ t.partSets[c] = ps /\ t.blocks[c] = b
        /\ \A e \in Shard \ {c} : t.partSets[e] = s.partSets[e] /\ t.blocks[e] = s.blocks[e]
    BY <1>1, <1>5, <2>1
  <2>3. BlockOK(N, c, s.height, t.proposal, c, b)
    BY <1>1, <1>5 DEF BlockOK
  <2>4. DOMAIN t.partSets[c] = {"block", "kind", "got"} /\ t.partSets[c].block = b
    BY <1>3, <2>2
  <2> QED BY <1>1, <1>5, <2>1, <2>2, <2>3, <2>4, BlocksKept
<1>8. CollectedOK(n, t, N)
  <2>1. AcceptsOK(n, t, N) /\ CommitsOK(t, N)
    BY <1>1, <1>5, CollectedKept
  <2> QED BY <1>6, <1>7, <2>1 DEF CollectedOK
<1>9. \A type : s.step \in After(type) => t.step \in After(type)
  BY <1>5
<1> QED BY <1>2, <1>5, <1>8, <1>9, StepKept DEF t

\* A node that has executed its height.
Recorded(n, s, M) ==
  /\ IsState(s) /\ s.height \in Nat /\ RelayOK(n, s, M) /\ OutOK(n, s)
  /\ \E S : s.root \in Seq(S)
  /\ Len(s.root) = s.height
  /\ \A h \in 1..Len(s.root) : EntryOK(M \cup s.out, ChainOf(n), h, s.root[h])
  /\ OwnVotesOK(n, s, M \cup s.out)

\* enterNewHeight, from a state whose height has been executed.
LEMMA EnterOpens ==
  ASSUME NEW n \in Correct, NEW s, NEW M, Recorded(n, s, M)
  PROVE  LET t == [ClearAll(n, s) EXCEPT !.height = s.height + 1, !.step = "Propose",
                                         !.relay = {m \in @ : m.height > s.height}]
         IN  NodeOK(n, t, M) /\ Fresh(n, t)
<1> DEFINE u == ClearAll(n, s)
           t == [u EXCEPT !.height = s.height + 1, !.step = "Propose",
                          !.relay = {m \in @ : m.height > s.height}]
           N == M \cup s.out
<1>0. /\ IsState(s) /\ s.height \in Nat /\ RelayOK(n, s, M) /\ OutOK(n, s)
      /\ (\E S : s.root \in Seq(S)) /\ Len(s.root) = s.height
      /\ \A h \in 1..Len(s.root) : EntryOK(N, ChainOf(n), h, s.root[h])
      /\ OwnVotesOK(n, s, N)
  BY DEF Recorded
<1>1. Fresh(n, u) /\ SameControl(s, u)
  BY <1>0, Cleared
<1> HIDE DEF u
<1>2. /\ IsState(t) /\ t.height = s.height + 1 /\ t.step = "Propose" /\ t.root = s.root
      /\ t.out = s.out /\ t.relay \subseteq s.relay
  BY <1>0, <1>1 DEF SameControl, IsState, StateFields
<1>3. Fresh(n, t)
  <2>1. /\ SamePrevotes(u, t) /\ SamePrecommits(u, t) /\ SameBlocks(u, t) /\ SameAccepts(u, t)
        /\ t.cscs = u.cscs
    BY <1>1 DEF SameControl, IsState, StateFields, SamePrevotes, SamePrecommits, SameBlocks, SameAccepts
  <2> HIDE DEF t
  <2> QED BY <1>1, <1>2, <2>1 DEF Fresh, SamePrevotes, SamePrecommits, SameBlocks, SameAccepts
<1> HIDE DEF t
<1>5. NodeOK(n, t, M)
  <2>1. CollectedOK(n, t, M \cup t.out)
    BY <1>3, FreshIsOK
  <2>2. HistoryOK(n, t, M \cup t.out)
    <3>1. Len(t.root) = IF t.height = 0 THEN 0 ELSE t.height - 1
      BY <1>0, <1>2
    <3>2. \A h \in 1..Len(t.root) : EntryOK(M \cup t.out, ChainOf(n), h, t.root[h])
      BY <1>0, <1>2
    <3>3. \E S : t.root \in Seq(S)
      BY <1>0, <1>2
    <3> QED BY <3>1, <3>2, <3>3 DEF HistoryOK
  <2>3. OwnVotesOK(n, t, M \cup t.out)
    <3>1. \A m \in N : VoteOf(n, m) => m.height \in 0..t.height /\ m.height # t.height
      BY <1>0, <1>2 DEF OwnVotesOK
    <3> QED BY <1>0, <1>2, <3>1 DEF OwnVotesOK
  <2>4. RelayOK(n, t, M) /\ OutOK(n, t)
    BY <1>0, <1>2 DEF RelayOK, OutOK
  <2>5. t.height \in Nat /\ t.height # 0
    BY <1>0, <1>2
  <2> QED BY <1>2, <2>1, <2>2, <2>3, <2>4, <2>5 DEF NodeOK
<1> QED BY <1>3, <1>5 DEF t, u

LEMMA EnterKept ==
  ASSUME NoneIsNil, NEW n \in Correct, NEW s, NEW M, NEW body, Recorded(n, s, M)
  PROVE  NodeOK(n, EnterNewHeight(n, s, body), M)
BY EnterOpens, CreateKept DEF EnterNewHeight
-----------------------------------------------------------------------------
(* The end of a height.                                                    *)

\* A node that has finished the precommits has an agreed proposal.
LEMMA FinishedIsAgreed ==
  ASSUME NEW n \in Correct, NEW s, NEW M, NodeOK(n, s, M), FinishPrecommit(n, s)
  PROVE  Agreed(M \cup s.out, ChainOf(n), s.proposal)
<1> DEFINE c == ChainOf(n)
           N == M \cup s.out
           T == {v \in DOMAIN Votes[c] : PrecommitMsg(<<c, v>>, s.proposal) \in N}
<1>1. /\ c \in Shard /\ s.proposal # None /\ s.proposal.height = s.height
      /\ CountOK(N, c, "Precommit", s.height, s.proposal, s.precommits, s.precommitBits, s.precommitTotal)
      /\ Over23(c, s.precommitTotal)
  BY Nodes DEF NodeOK, CollectedOK, PrecommitsOK, BlocksOK, FinishPrecommit, FinishPrevote, FinishProposal
<1>2. s.precommitBits = VotersFor(s.precommits, s.proposal) /\ DOMAIN s.precommits = DOMAIN Votes[c]
  BY <1>1 DEF CountOK
<1>3. ASSUME NEW v \in s.precommitBits PROVE v \in T
  <2>1. v \in DOMAIN Votes[c] /\ s.precommits[v] = s.proposal
    BY <1>2, <1>3 DEF VotersFor
  <2>2. [type |-> "Precommit", to |-> c, height |-> s.height, from |-> v, block |-> s.proposal] \in N
    BY <1>1, <2>1 DEF CountOK
  <2>3. PrecommitMsg(<<c, v>>, s.proposal)
          = [type |-> "Precommit", to |-> c, height |-> s.proposal.height, from |-> v, block |-> s.proposal]
    <3> HIDE DEF c
    <3> QED BY DEF PrecommitMsg, ChainOf, IndexOf
  <2> QED BY <1>1, <2>1, <2>2, <2>3
<1>4. s.precommitBits \in SUBSET T /\ T \in SUBSET DOMAIN Votes[c]
  BY <1>3
<1>5. Over23(c, Power(Votes[c], s.precommitBits))
  BY <1>1 DEF CountOK
<1> HIDE DEF T
<1>6. Over23(c, Power(Votes[c], T))
  BY <1>1, <1>4, <1>5, QuorumGrows
<1> QED BY <1>6 DEF T, Agreed

\* What a node executes.
LEMMA ExecutionIsOK ==
  ASSUME NEW n \in Correct, NEW s, NEW M, NodeOK(n, s, M),
         \/ ChainOf(n) \in IShards /\ FinishCrossShardCommit_I(n, s)
         \/ ChainOf(n) \in CShards /\ FinishCrossShardCommit_B(n, s)
  PROVE  EntryOK(M \cup s.out, ChainOf(n), s.height, ExecutionAllBlocks(n, s))
<1> DEFINE c == ChainOf(n)
           N == M \cup s.out
           e == ExecutionAllBlocks(n, s)
<1>1. /\ CollectedOK(n, s, N) /\ c \in Shard /\ FinishPrecommit(n, s)
      /\ CNeighbours(c) \subseteq Shard /\ INeighbours(c) \subseteq Shard
  BY Nodes, Neighbours
     DEF NodeOK, FinishCrossShardCommit_I, FinishCrossShardCommit_B, FinishCrossShardAccept,
         FinishCrossShardProposal
<1>2. /\ \A d \in CNeighbours(c) \cup INeighbours(c) : s.blocks[d] # None
      /\ \A d \in CNeighbours(c) : s.cscs[d] # None
  <2>1. CASE c \in IShards /\ FinishCrossShardCommit_I(n, s)
    <3>1. c \notin CShards
      BY <2>1, MeleteAssumption DEF TopologyOK
    <3>2. CNeighbours(c) = Related[c] /\ INeighbours(c) = {c}
      BY <3>1 DEF CNeighbours, INeighbours
    <3> QED BY <2>1, <3>2 DEF FinishCrossShardCommit_I, FinishCrossShardAccept
  <2>2. CASE c \in CShards /\ FinishCrossShardCommit_B(n, s)
    <3>1. CNeighbours(c) = {c} \cup Related2Level(c) /\ INeighbours(c) = {c} \cup Related[c]
      BY <2>2 DEF CNeighbours, INeighbours
    <3> QED BY <2>2, <3>1 DEF FinishCrossShardCommit_B
  <2> QED BY <2>1, <2>2
<1>3. /\ DOMAIN e.body = CNeighbours(c) \cup INeighbours(c)
      /\ DOMAIN e.status = CNeighbours(c)
      /\ \A d \in DOMAIN e.body : e.body[d] = s.blocks[d].body
      /\ \A d \in DOMAIN e.status : e.status[d] = CommitStatus(s.cscs[d])
  BY DEF ExecutionAllBlocks
<1> HIDE DEF e
<1>4. ASSUME NEW d \in DOMAIN e.body
      PROVE  \E b : b.chain = d /\ b.height = s.height /\ b.body = e.body[d] /\ Agreed(N, d, b)
  <2>1. BlockOK(N, c, s.height, s.proposal, d, s.blocks[d])
    BY <1>1, <1>2, <1>3 DEF CollectedOK, BlocksOK
  <2>2. Agreed(N, c, s.proposal)
    BY <1>1, FinishedIsAgreed
  <2> QED BY <1>3, <2>1, <2>2 DEF BlockOK
<1>5. ASSUME NEW d \in DOMAIN e.status
      PROVE  \E f : /\ \A i \in Related[d] : Accepted(N, i, d, s.height, f[i])
                    /\ e.status[d] = {t \in Tx : \A i \in Related[d] : t \in f[i]}
  <2> DEFINE f == [i \in Related[d] |-> s.cscs[d].commits[i].status]
  <2>1. /\ DOMAIN s.cscs[d].commits = Related[d]
        /\ \A i \in Related[d] : Accepted(N, i, d, s.height, s.cscs[d].commits[i].status)
    BY <1>1, <1>2, <1>3 DEF CollectedOK, CommitsOK
  <2>2. \A i \in Related[d] : f[i] = s.cscs[d].commits[i].status
    OBVIOUS
  <2> HIDE DEF f
  <2>3. e.status[d] = {t \in Tx : \A i \in Related[d] : t \in f[i]}
    BY <1>3, <2>1, <2>2 DEF CommitStatus
  <2>4. \A i \in Related[d] : Accepted(N, i, d, s.height, f[i])
    BY <2>1, <2>2
  <2> QED BY <2>3, <2>4
<1>6. EntryOK(N, c, s.height, e)
  BY <1>3, <1>4, <1>5 DEF EntryOK
<1> QED BY <1>6 DEF e

LEMMA ExecutionRecorded ==
  ASSUME NEW n \in Correct, NEW s, NEW M, NodeOK(n, s, M),
         s.step = "CrossShardCommit",
         \/ ChainOf(n) \in IShards /\ FinishCrossShardCommit_I(n, s)
         \/ ChainOf(n) \in CShards /\ FinishCrossShardCommit_B(n, s)
  PROVE  Recorded(n, [s EXCEPT !.root = Append(@, ExecutionAllBlocks(n, s)), !.resume = TRUE], M)
<1> DEFINE e == ExecutionAllBlocks(n, s)
           N == M \cup s.out
           u == [s EXCEPT !.root = Append(@, e), !.resume = TRUE]
<1>1. EntryOK(N, ChainOf(n), s.height, e)
  BY ExecutionIsOK
<1>2. u = [s EXCEPT !.root = Append(@, ExecutionAllBlocks(n, s)), !.resume = TRUE]
  OBVIOUS
<1> HIDE DEF e
<1>3. /\ IsState(u) /\ u.height = s.height /\ u.height \in Nat /\ u.step = s.step
      /\ u.relay = s.relay /\ u.out = s.out /\ u.root = Append(s.root, e)
  BY DEF NodeOK, IsState, StateFields
<1> HIDE DEF u
<1>4. PICK S : s.root \in Seq(S)
  BY DEF NodeOK, HistoryOK
<1>5. /\ Len(s.root) = s.height - 1 /\ s.height \in Nat /\ s.height # 0
      /\ \A h \in 1..Len(s.root) : EntryOK(N, ChainOf(n), h, s.root[h])
  BY DEF NodeOK, HistoryOK
<1>6. /\ u.root \in Seq(S \cup {e}) /\ Len(u.root) = Len(s.root) + 1
      /\ \A h \in 1..Len(s.root) : u.root[h] = s.root[h]
      /\ u.root[Len(s.root) + 1] = e
  <2>1. s.root \in Seq(S \cup {e})
    BY <1>4, SeqMonotonic
  <2> QED BY <1>3, <2>1, AppendProperties
<1>7. Len(u.root) = u.height
  BY <1>3, <1>5, <1>6
<1>8. \A h \in 1..Len(u.root) : EntryOK(M \cup u.out, ChainOf(n), h, u.root[h])
  <2> TAKE h \in 1..Len(u.root)
  <2>1. CASE h = s.height
    BY <1>1, <1>3, <1>5, <1>6, <2>1
  <2>2. CASE h # s.height
    <3>1. h \in 1..Len(s.root)
      BY <1>3, <1>5, <1>7, <2>2
    <3> QED BY <1>3, <1>5, <1>6, <3>1
  <2> QED BY <2>1, <2>2
<1>9. RelayOK(n, u, M) /\ OutOK(n, u) /\ OwnVotesOK(n, u, M \cup u.out)
  BY <1>3 DEF NodeOK, RelayOK, OutOK, OwnVotesOK
<1>10. Recorded(n, u, M)
  <2>1. \E Q : u.root \in Seq(Q)
    BY <1>6
  <2> QED BY <1>3, <1>7, <1>8, <1>9, <2>1 DEF Recorded
<1> QED BY <1>2, <1>10

LEMMA CommitKept ==
  ASSUME NoneIsNil, NEW n \in Correct, NEW s, NEW M, NodeOK(n, s, M), NEW body,
         s.step = "CrossShardCommit",
         \/ ChainOf(n) \in IShards /\ FinishCrossShardCommit_I(n, s)
         \/ ChainOf(n) \in CShards /\ FinishCrossShardCommit_B(n, s)
  PROVE  NodeOK(n, DoCSC(n, s, body), M)
BY ExecutionRecorded, EnterKept DEF DoCSC
-----------------------------------------------------------------------------
(* A handler.                                                              *)

LEMMA CrossShardStepKept ==
  ASSUME AnswersOK, NEW n \in Correct, NEW s, NEW M, NodeOK(n, s, M)
  PROVE  NodeOK(n, CrossShardStep(n, s), M)
<1>1. CASE AtStep(s, "CrossShardAccept") /\ ChainOf(n) \in IShards /\ FinishCrossShardAccept(n, s)
  <2>1. CrossShardStep(n, s) = DoCSA(n, s)
    BY <1>1 DEF CrossShardStep
  <2>2. NodeOK(n, DoCSA(n, s), M)
    BY <1>1, CSAKept DEF AtStep
  <2> QED BY <2>1, <2>2
<1>2. CASE /\ ~(AtStep(s, "CrossShardAccept") /\ ChainOf(n) \in IShards /\ FinishCrossShardAccept(n, s))
           /\ AtStep(s, "CrossShardAccept") /\ ChainOf(n) \in CShards /\ FinishCrossShardProposal(n, s)
  <2>1. CrossShardStep(n, s) = DoCSP(n, s)
    BY <1>2 DEF CrossShardStep
  <2>2. NodeOK(n, DoCSP(n, s), M)
    BY <1>2, CSPKept DEF AtStep
  <2> QED BY <2>1, <2>2
<1>3. CASE /\ ~(AtStep(s, "CrossShardAccept") /\ ChainOf(n) \in IShards /\ FinishCrossShardAccept(n, s))
           /\ ~(AtStep(s, "CrossShardAccept") /\ ChainOf(n) \in CShards /\ FinishCrossShardProposal(n, s))
  BY <1>3 DEF CrossShardStep
<1> QED BY <1>1, <1>2, <1>3

\* handleStateTransition keeps the invariant of its node.
LEMMA TransitionKept ==
  ASSUME NoneIsNil, AnswersOK, NEW n \in Correct, NEW s, NEW M, NodeOK(n, s, M), NEW body
  PROVE  NodeOK(n, HandleStateTransition(n, s, body), M)
<1> DEFINE p == ProposeStep(n, s)
           q == PrevoteStep(n, p)
           r == PrecommitStep(n, q)
           t == CrossShardStep(n, r)
<1>1. NodeOK(n, p, M)
  BY ProposeKept DEF ProposeStep, AtStep
<1> HIDE DEF p
<1>2. NodeOK(n, q, M)
  BY <1>1, PrevoteKept DEF PrevoteStep, AtStep, FinishPrevote
<1> HIDE DEF q
<1>3. NodeOK(n, r, M)
  BY <1>2, PrecommitKept DEF PrecommitStep, AtStep, FinishPrecommit, FinishPrevote
<1> HIDE DEF r
<1>4. NodeOK(n, t, M)
  BY <1>3, CrossShardStepKept
<1> HIDE DEF t
<1>5. NodeOK(n, CommitStep(n, t, body), M)
  <2> DEFINE ready == /\ AtStep(t, "CrossShardCommit")
                      /\ \/ ChainOf(n) \in IShards /\ FinishCrossShardCommit_I(n, t)
                         \/ ChainOf(n) \in CShards /\ FinishCrossShardCommit_B(n, t)
  <2>1. CASE ready
    <3>1. CommitStep(n, t, body) = DoCSC(n, t, body)
      BY <2>1 DEF CommitStep
    <3>2. NodeOK(n, DoCSC(n, t, body), M)
      BY <1>4, <2>1, CommitKept DEF AtStep
    <3> QED BY <3>1, <3>2
  <2>2. CASE ~ready
    <3>1. CommitStep(n, t, body) = t
      BY <2>2 DEF CommitStep
    <3> QED BY <1>4, <3>1
  <2> QED BY <2>1, <2>2
<1>6. HandleStateTransition(n, s, body) = CommitStep(n, t, body)
  BY DEF HandleStateTransition, t, r, q, p
<1> QED BY <1>5, <1>6

\* AddX keeps the invariant of the node, for every message of its shard.
LEMMA MessageKept ==
  ASSUME NoneIsNil, NEW n \in Correct, NEW s, NodeOK(n, s, msgs),
         NEW m \in msgs, WellFormed(m), m.to = ChainOf(n)
  PROVE  NodeOK(n, AddMessage(n, s, m).state, msgs)
<1> DEFINE c == ChainOf(n)
           r == AddMessage(n, s, m)
<1>1. /\ s.height \in Nat /\ m.height \in Nat /\ IsState(s) /\ CollectedOK(n, s, msgs \cup s.out)
      /\ m \in msgs \cup s.out
  BY DEF NodeOK, WellFormed
<1>2. CASE OverTime(s, m)
  <2>1. r.state = AddRelayMessage(s, m)
    <3>1. m.height # s.height
      BY <1>1, <1>2 DEF OverTime
    <3> QED BY <1>2, <3>1 DEF AddMessage, Error, Nil, CanAddProposal, CanBufferPart, CanAddPart, CanAddPrevote,
              CanAddPrecommit, CanAddCSP, CanAddCSA, CanAddCSC
  <2> QED BY <2>1, RelayAdded
<1>3. CASE m.type = "Proposal" /\ CanAddProposal(n, s, m)
  <2>1. ~OverTime(s, m)
    BY <1>1, <1>3 DEF OverTime, CanAddProposal
  <2>2. r.state = AddProposal(n, s, m)
    BY <1>3, <2>1 DEF AddMessage, Nil
  <2> QED BY <1>3, <2>2, ProposalAdded
<1>4. CASE m.type = "Part" /\ CanBufferPart(s, m)
  <2>1. ~OverTime(s, m) /\ ~CanAddPart(s, m)
    BY <1>1, <1>4 DEF OverTime, CanBufferPart, CanAddPart
  <2>2. r.state = [s EXCEPT !.buffer = @ \cup {m}]
    BY <1>4, <2>1 DEF AddMessage, Error
  <2> QED BY <2>2, PartBuffered
<1>5. CASE m.type = "Part" /\ CanAddPart(s, m)
  <2>1. ~OverTime(s, m) /\ ~CanBufferPart(s, m)
    BY <1>1, <1>5 DEF OverTime, CanBufferPart, CanAddPart
  <2>2. r.state = AddPart(s, m)
    BY <1>5, <2>1 DEF AddMessage, Nil
  <2> QED BY <1>5, <2>2, PartAdded
<1>6. CASE m.type = "Prevote" /\ CanAddPrevote(s, m)
  <2>1. ~OverTime(s, m)
    BY <1>1, <1>6 DEF OverTime, CanAddPrevote
  <2>2. r.state = AddPrevote(n, s, m)
    BY <1>6, <2>1 DEF AddMessage, Nil
  <2>3. /\ m.from \in DOMAIN Votes[c] /\ m.from \notin s.prevoteBits /\ m.height = s.height
        /\ m = [type |-> "Prevote", to |-> c, height |-> m.height, from |-> m.from, block |-> m.block]
    BY <1>6 DEF WellFormed, CanAddPrevote
  <2>4. m.block # None /\ m.block.height = s.height => m = PrevoteMsg(<<c, m.from>>, m.block)
    <3>1. PrevoteMsg(<<c, m.from>>, m.block)
            = [type |-> "Prevote", to |-> c, height |-> m.block.height, from |-> m.from, block |-> m.block]
      <4> HIDE DEF c
      <4> QED BY DEF PrevoteMsg, ChainOf, IndexOf
    <3> QED BY <2>3, <3>1, Zenon
  <2>5. SameControl(s, AddPrevote(n, s, m)) /\ CollectedOK(n, AddPrevote(n, s, m), msgs \cup s.out)
    BY <1>1, <2>3, <2>4, PrevoteAdded
  <2> QED BY <2>2, <2>5, ControlKept
<1>7. CASE m.type = "Precommit" /\ CanAddPrecommit(s, m)
  <2>1. ~OverTime(s, m)
    BY <1>1, <1>7 DEF OverTime, CanAddPrecommit
  <2>2. r.state = AddPrecommit(n, s, m)
    BY <1>7, <2>1 DEF AddMessage, Nil
  <2>3. /\ m.from \in DOMAIN Votes[c] /\ m.from \notin s.precommitBits /\ m.height = s.height
        /\ m = [type |-> "Precommit", to |-> c, height |-> m.height, from |-> m.from, block |-> m.block]
    BY <1>7 DEF WellFormed, CanAddPrecommit
  <2>4. m.block # None /\ m.block.height = s.height => m = PrecommitMsg(<<c, m.from>>, m.block)
    <3>1. PrecommitMsg(<<c, m.from>>, m.block)
            = [type |-> "Precommit", to |-> c, height |-> m.block.height, from |-> m.from, block |-> m.block]
      <4> HIDE DEF c
      <4> QED BY DEF PrecommitMsg, ChainOf, IndexOf
    <3> QED BY <2>3, <3>1, Zenon
  <2>5. SameControl(s, AddPrecommit(n, s, m)) /\ CollectedOK(n, AddPrecommit(n, s, m), msgs \cup s.out)
    BY <1>1, <2>3, <2>4, PrecommitAdded
  <2> QED BY <2>2, <2>5, ControlKept
<1>8. CASE m.type = "CSP" /\ CanAddCSP(s, m)
  <2>1. ~OverTime(s, m)
    BY <1>1, <1>8 DEF OverTime, CanAddCSP
  <2>2. r.state = AddCrossShardProposal(s, m)
    BY <1>8, <2>1 DEF AddMessage, Nil
  <2> QED BY <1>8, <2>2, CSPAdded
<1>9. CASE m.type = "CSA" /\ CanAddCSA(n, s, m)
  <2>1. ~OverTime(s, m)
    BY <1>1, <1>9 DEF OverTime, CanAddCSA
  <2>2. r.state = AddCrossShardAccept(s, m)
    BY <1>9, <2>1 DEF AddMessage
  <2> QED BY <1>9, <2>2, CSAAdded
<1>10. CASE m.type = "CSC" /\ CanAddCSC(n, s, m)
  <2>1. ~OverTime(s, m)
    BY <1>1, <1>10 DEF OverTime, CanAddCSC
  <2>2. r.state = AddCrossShardCommit(n, s, m)
    BY <1>10, <2>1 DEF AddMessage, Nil
  <2> QED BY <1>10, <2>2, CSCAdded
<1>11. CASE /\ ~OverTime(s, m)
            /\ ~(m.type = "Proposal" /\ CanAddProposal(n, s, m))
            /\ ~(m.type = "Part" /\ CanBufferPart(s, m))
            /\ ~(m.type = "Part" /\ CanAddPart(s, m))
            /\ ~(m.type = "Prevote" /\ CanAddPrevote(s, m))
            /\ ~(m.type = "Precommit" /\ CanAddPrecommit(s, m))
            /\ ~(m.type = "CSP" /\ CanAddCSP(s, m))
            /\ ~(m.type = "CSA" /\ CanAddCSA(n, s, m))
            /\ ~(m.type = "CSC" /\ CanAddCSC(n, s, m))
  <2>1. r.state = s
    BY <1>11 DEF AddMessage, Error
  <2> QED BY <2>1
<1> QED BY <1>2, <1>3, <1>4, <1>5, <1>6, <1>7, <1>8, <1>9, <1>10, <1>11

LEMMA HandlerKept ==
  ASSUME NoneIsNil, AnswersOK, NEW n \in Correct, NEW s, NodeOK(n, s, msgs),
         NEW m \in msgs, WellFormed(m), m.to = ChainOf(n), NEW body
  PROVE  NodeOK(n, DoMessage(n, s, m, body), msgs)
BY MessageKept, TransitionKept DEF DoMessage, Handled
-----------------------------------------------------------------------------
(* The actions.                                                            *)

\* The end of a handler: the other nodes see messages that are not votes in
\* their names.
LEMMA BecomeKept ==
  ASSUME IInv, NEW n \in Correct, NEW s, NodeOK(n, s, msgs),
         st' = [st EXCEPT ![n] = [s EXCEPT !.out = {}]], msgs' = msgs \cup s.out
  PROVE  IInv'
<1> DEFINE t == [s EXCEPT !.out = {}]
<1>1. /\ SameCollected(s, t) /\ IsState(t) /\ t.height = s.height /\ t.step = s.step
      /\ t.root = s.root /\ t.relay = s.relay /\ t.out = {}
  BY DEF NodeOK, IsState, StateFields, SameCollected, SamePrevotes, SamePrecommits, SameBlocks, SameAccepts
<1>2. st' = [st EXCEPT ![n] = t] /\ msgs' = msgs \cup s.out /\ msgs' \cup t.out = msgs'
  BY <1>1
<1> HIDE DEF t
<1>3. DOMAIN st' = Correct /\ st'[n] = t /\ \A k \in Correct : k # n => st'[k] = st[k]
  BY <1>2 DEF IInv
<1>4. \A m \in msgs' : WellFormed(m)
  BY <1>2 DEF IInv, NodeOK, OutOK
<1>5. NodeOK(n, t, msgs')
  <2>1. CollectedOK(n, s, msgs') /\ HistoryOK(n, s, msgs') /\ OwnVotesOK(n, s, msgs')
    BY <1>2 DEF NodeOK
  <2>2. CollectedOK(n, t, msgs')
    BY <1>1, <2>1, CollectedKept
  <2>3. HistoryOK(n, t, msgs') /\ OwnVotesOK(n, t, msgs')
    BY <1>1, <2>1 DEF HistoryOK, OwnVotesOK
  <2>4. RelayOK(n, t, msgs') /\ OutOK(n, t)
    BY <1>1, <1>2 DEF NodeOK, RelayOK, OutOK
  <2>5. t.height \in Nat /\ (t.height = 0 => t.step = "NewHeight")
    BY <1>1 DEF NodeOK
  <2> QED BY <1>1, <1>2, <2>2, <2>3, <2>4, <2>5 DEF NodeOK
<1>6. ASSUME NEW k \in Correct, k # n
      PROVE  NodeOK(k, st[k], msgs') /\ st[k].out = {}
  <2>1. /\ NodeOK(k, st[k], msgs) /\ st[k].out = {}
        /\ msgs \cup st[k].out = msgs /\ msgs' \cup st[k].out = msgs'
    BY DEF IInv
  <2>2. \A m \in s.out : ~VoteOf(k, m)
    <3>1. \A m \in s.out : m.type \in {"Prevote", "Precommit", "CSA"} => VoteOf(n, m)
      BY DEF NodeOK, OutOK
    <3>2. n = <<ChainOf(n), IndexOf(n)>> /\ k = <<ChainOf(k), IndexOf(k)>>
      BY Nodes
    <3>3. ChainOf(n) # ChainOf(k) \/ IndexOf(n) # IndexOf(k)
      BY <1>6, <3>2
    <3> QED BY <3>1, <3>3 DEF VoteOf
  <2>3. CollectedOK(k, st[k], msgs) /\ HistoryOK(k, st[k], msgs) /\ OwnVotesOK(k, st[k], msgs)
    BY <2>1 DEF NodeOK
  <2>4. CollectedOK(k, st[k], msgs') /\ HistoryOK(k, st[k], msgs')
    BY <1>2, <2>3, CollectedGrows, HistoryGrows
  <2>5. OwnVotesOK(k, st[k], msgs')
    BY <1>2, <2>2, <2>3, OwnVotesGrow
  <2>6. RelayOK(k, st[k], msgs') /\ OutOK(k, st[k])
    BY <1>2, <2>1 DEF NodeOK, RelayOK
  <2> QED BY <2>1, <2>4, <2>5, <2>6 DEF NodeOK
<1>7. \A k \in Correct : NodeOK(k, st'[k], msgs') /\ st'[k].out = {}
  BY <1>1, <1>3, <1>5, <1>6
<1> QED BY <1>3, <1>4, <1>7 DEF IInv

\* A change of the relayed messages or of the flag resume.
LEMMA DroppedKept ==
  ASSUME NEW n \in Correct, NEW s, NEW t, NEW M, NodeOK(n, s, M), IsState(t),
         SameCollected(s, t), t.height = s.height, t.step = s.step, t.root = s.root,
         t.relay \subseteq s.relay, t.out = s.out
  PROVE  NodeOK(n, t, M)
<1>1. CollectedOK(n, t, M \cup t.out)
  BY CollectedKept DEF NodeOK
<1>2. HistoryOK(n, t, M \cup t.out) /\ OwnVotesOK(n, t, M \cup t.out)
  BY DEF NodeOK, HistoryOK, OwnVotesOK
<1>3. RelayOK(n, t, M) /\ OutOK(n, t)
  BY DEF NodeOK, RelayOK, OutOK
<1>4. t.height \in Nat /\ (t.height = 0 => t.step = "NewHeight")
  BY DEF NodeOK
<1> QED BY <1>1, <1>2, <1>3, <1>4 DEF NodeOK

LEMMA StartKept ==
  ASSUME NoneIsNil, IInv, NEW n \in Correct, NEW body, Start(n, body)
  PROVE  IInv'
<1> DEFINE s == st[n]
<1>1. NodeOK(n, s, msgs) /\ s.height = 0 /\ s.out = {} /\ msgs \cup s.out = msgs
  BY DEF IInv, Start
<1>2. Recorded(n, s, msgs)
  BY <1>1 DEF NodeOK, HistoryOK, Recorded
<1>3. NodeOK(n, EnterNewHeight(n, s, body), msgs)
  <2> HIDE DEF s
  <2> QED BY <1>2, EnterKept
<1> QED BY <1>3, BecomeKept DEF Start, Become

LEMMA ReceiveKept ==
  ASSUME NoneIsNil, AnswersOK, IInv, NEW n \in Correct, NEW body, NEW m \in msgs, Receive(n, m, body)
  PROVE  IInv'
<1>1. NodeOK(n, st[n], msgs) /\ WellFormed(m) /\ m.to = ChainOf(n)
  BY DEF IInv, Receive
<1>2. NodeOK(n, DoMessage(n, st[n], m, body), msgs)
  BY <1>1, HandlerKept
<1>3. Become(n, DoMessage(n, st[n], m, body))
  BY DEF Receive
<1> QED BY <1>2, <1>3, BecomeKept DEF Become

LEMMA ReplayKept ==
  ASSUME NoneIsNil, AnswersOK, IInv, NEW n \in Correct, NEW body, NEW m \in st[n].relay, Replay(n, m, body)
  PROVE  IInv'
<1> DEFINE t == [st[n] EXCEPT !.relay = @ \ {m}]
<1>1. NodeOK(n, st[n], msgs) /\ m \in msgs /\ WellFormed(m) /\ m.to = ChainOf(n)
  BY DEF IInv, NodeOK, RelayOK
<1>2. NodeOK(n, t, msgs)
  <2>1. /\ IsState(t) /\ SameCollected(st[n], t) /\ t.height = st[n].height /\ t.step = st[n].step
        /\ t.root = st[n].root /\ t.relay \subseteq st[n].relay /\ t.out = st[n].out
    BY <1>1 DEF NodeOK, IsState, StateFields, SameCollected, SamePrevotes, SamePrecommits, SameBlocks, SameAccepts
  <2> HIDE DEF t
  <2> QED BY <1>1, <2>1, DroppedKept
<1>3. Become(n, DoMessage(n, t, m, body))
  BY DEF Replay
<1> HIDE DEF t
<1>4. NodeOK(n, DoMessage(n, t, m, body), msgs)
  BY <1>1, <1>2, HandlerKept
<1> QED BY <1>3, <1>4, BecomeKept DEF Become

LEMMA ResumeKept ==
  ASSUME NoneIsNil, AnswersOK, IInv, NEW n \in Correct, NEW body, Resume(n, body)
  PROVE  IInv'
<1> DEFINE t == [st[n] EXCEPT !.resume = FALSE]
<1>1. NodeOK(n, st[n], msgs)
  BY DEF IInv
<1>2. NodeOK(n, t, msgs)
  <2>1. /\ IsState(t) /\ SameCollected(st[n], t) /\ t.height = st[n].height /\ t.step = st[n].step
        /\ t.root = st[n].root /\ t.relay \subseteq st[n].relay /\ t.out = st[n].out
    BY <1>1 DEF NodeOK, IsState, StateFields, SameCollected, SamePrevotes, SamePrecommits, SameBlocks, SameAccepts
  <2> HIDE DEF t
  <2> QED BY <1>1, <2>1, DroppedKept
<1>3. Become(n, HandleStateTransition(n, t, body))
  BY DEF Resume
<1> HIDE DEF t
<1>4. NodeOK(n, HandleStateTransition(n, t, body), msgs)
  BY <1>2, TransitionKept
<1> QED BY <1>3, <1>4, BecomeKept DEF Become

\* A node before Start.
LEMMA NewStateIsOK ==
  ASSUME NEW n \in Correct
  PROVE  NodeOK(n, NewState(n), FaultyMsg) /\ NewState(n).out = {}
<1> DEFINE r == [up |-> TRUE, height |-> 0, step |-> "NewHeight", root |-> <<>>,
                 relay |-> {}, resume |-> FALSE, out |-> {},
                 proposal |-> None, prevotes |-> None, prevoteBits |-> {}, prevoteTotal |-> 0,
                 precommits |-> None, precommitBits |-> {}, precommitTotal |-> 0,
                 csps |-> {}, csas |-> None, counter |-> 0, cscs |-> None,
                 partSets |-> None, blocks |-> None, buffer |-> {}]
           t == ClearAll(n, r)
<1>1. /\ IsState(r) /\ r.height = 0 /\ r.step = "NewHeight" /\ r.root = <<>> /\ r.relay = {} /\ r.out = {}
  BY DEF IsState, StateFields
<1>2. NewState(n) = t
  BY DEF NewState
<1> HIDE DEF r
<1>3. Fresh(n, t) /\ SameControl(r, t)
  BY <1>1, Cleared
<1> HIDE DEF t
<1>4. /\ IsState(t) /\ t.height = 0 /\ t.step = "NewHeight" /\ t.root = <<>> /\ t.relay = {} /\ t.out = {}
  BY <1>1, <1>3 DEF SameControl
<1>5. CollectedOK(n, t, FaultyMsg \cup t.out)
  BY <1>3, FreshIsOK
<1>6. HistoryOK(n, t, FaultyMsg \cup t.out)
  <2>1. t.root \in Seq({}) /\ Len(t.root) = 0
    BY <1>4
  <2> QED BY <1>4, <2>1 DEF HistoryOK
<1>7. OwnVotesOK(n, t, FaultyMsg \cup t.out)
  <2>1. \A m \in FaultyMsg \cup t.out : ~VoteOf(n, m)
    BY <1>4, MeleteAssumption DEF FaultsOK
  <2> QED BY <2>1 DEF OwnVotesOK
<1>8. RelayOK(n, t, FaultyMsg) /\ OutOK(n, t)
  BY <1>4 DEF RelayOK, OutOK
<1> QED BY <1>2, <1>4, <1>5, <1>6, <1>7, <1>8 DEF NodeOK

LEMMA InitIsOK ==
  ASSUME Init
  PROVE  IInv
<1>1. DOMAIN st = Correct /\ msgs = FaultyMsg /\ \A n \in Correct : st[n] = NewState(n)
  BY DEF Init
<1>2. \A m \in msgs : WellFormed(m)
  BY <1>1, MeleteAssumption DEF FaultsOK
<1> QED BY <1>1, <1>2, NewStateIsOK DEF IInv

LEMMA NextKept ==
  ASSUME NoneIsNil, AnswersOK, IInv, [Next]_vars
  PROVE  IInv'
<1>1. CASE UNCHANGED vars
  BY <1>1 DEF vars, IInv, NodeOK, CollectedOK, HistoryOK
<1>2. CASE \E n \in Correct : Step(n)
  <2>1. PICK n \in Correct, body \in Body : Start(n, body) \/ Handle(n, body)
    BY <1>2 DEF Step
  <2>2. CASE Start(n, body)
    BY <2>2, StartKept
  <2>3. CASE \E m \in msgs : Receive(n, m, body)
    BY <2>3, ReceiveKept
  <2>4. CASE \E m \in st[n].relay : Replay(n, m, body)
    BY <2>4, ReplayKept
  <2>5. CASE Resume(n, body)
    BY <2>5, ResumeKept
  <2> QED BY <2>1, <2>2, <2>3, <2>4, <2>5 DEF Handle
<1>3. CASE Terminated
  BY <1>1, <1>3 DEF Terminated
<1> QED BY <1>1, <1>2, <1>3 DEF Next

\* What a node has collected, executed and sent is backed by the messages on
\* the network, in every reachable state.
THEOREM Backed ==
  ASSUME NoneIsNil, AnswersOK
  PROVE  Spec => []IInv
<1>1. Init => IInv
  BY InitIsOK
<1>2. IInv /\ [Next]_vars => IInv'
  BY NextKept
<1> QED BY <1>1, <1>2, PTL DEF Spec

\* Atomic commitment across shards: what two correct nodes, of the same or
\* of different shards, have executed at a height (ExecutionAllBlocks) is the
\* same block with the same commit status.
THEOREM Agreement ==
  ASSUME NoneIsNil, AnswersOK
  PROVE  Spec => []LedgerAgreement
<1>1. IInv => LedgerAgreement
  BY InvAgreement
<1> QED BY <1>1, Backed, PTL

\* AddPrevote, AddPrecommit and the recalculations of AddProposal count every
\* vote once, in whatever order the proposal and the votes arrive.
THEOREM CountedOnce ==
  ASSUME NoneIsNil, AnswersOK
  PROVE  Spec => []VotesCountedOnce
<1>1. IInv => VotesCountedOnce
  BY InvVotesCounted
<1> QED BY <1>1, Backed, PTL

\* A transaction that a node has committed (CommitStatus) was accepted by
\* more than two thirds of each I-shard of its C-shard.
THEOREM CommittedByAll ==
  ASSUME NoneIsNil, AnswersOK
  PROVE  Spec => []CommittedByEveryShard
<1>1. IInv => CommittedByEveryShard
  BY InvCommitted
<1> QED BY <1>1, Backed, PTL

\* A node leaves a height only after a quorum of each shard of its
\* neighbourhood has precommitted the block it has executed.
THEOREM AdvanceTogether ==
  ASSUME NoneIsNil, AnswersOK
  PROVE  Spec => []ShardsAdvanceTogether
<1>1. IInv => ShardsAdvanceTogether
  BY InvTogether
<1> QED BY <1>1, Backed, PTL
-----------------------------------------------------------------------------
(* Agreed blocks.                                                          *)

\* The blocks that a node works with have been agreed on.
LEMMA InvUsed ==
  ASSUME IInv
  PROVE  UsedBlocksAreAgreed
<1> SUFFICES ASSUME NEW n \in Correct, NEW d \in Shard, st[n].blocks[d] # None,
                    d # ChainOf(n) \/ FinishPrecommit(n, st[n])
             PROVE  Over23(d, Power(Votes[d], Precommitted(d, st[n].blocks[d])))
  BY DEF UsedBlocksAreAgreed
<1>1. NodeOK(n, st[n], msgs) /\ msgs \cup st[n].out = msgs
  BY DEF IInv
<1>2. BlockOK(msgs, ChainOf(n), st[n].height, st[n].proposal, d, st[n].blocks[d])
  BY <1>1 DEF NodeOK, CollectedOK, BlocksOK
<1>3. FinishPrecommit(n, st[n]) => Agreed(msgs, ChainOf(n), st[n].proposal)
  BY <1>1, FinishedIsAgreed
<1>4. Agreed(msgs, d, st[n].blocks[d])
  BY <1>2, <1>3 DEF BlockOK
<1> QED BY <1>4 DEF Agreed, Precommitted

\* No node votes on, or executes, a block that was not agreed: see
\* UsedBlocksAreAgreed.
THEOREM BlocksAgreed ==
  ASSUME NoneIsNil, AnswersOK
  PROVE  Spec => []UsedBlocksAreAgreed
<1>1. IInv => UsedBlocksAreAgreed
  BY InvUsed
<1> QED BY <1>1, Backed, PTL
-----------------------------------------------------------------------------
(* No missed transition.                                                   *)

\* A step of the node is finished.
Ready(n, s) ==
  \/ AtStep(s, "Propose") /\ FinishProposal(n, s)
  \/ AtStep(s, "Prevote") /\ FinishPrevote(n, s)
  \/ AtStep(s, "Precommit") /\ FinishPrecommit(n, s)
  \/ AtStep(s, "CrossShardAccept") /\ ChainOf(n) \in IShards /\ FinishCrossShardAccept(n, s)
  \/ AtStep(s, "CrossShardAccept") /\ ChainOf(n) \in CShards /\ FinishCrossShardProposal(n, s)
  \/ /\ AtStep(s, "CrossShardCommit")
     /\ \/ ChainOf(n) \in IShards /\ FinishCrossShardCommit_I(n, s)
        \/ ChainOf(n) \in CShards /\ FinishCrossShardCommit_B(n, s)

\* What Ready depends on.
SameProgress(s, t) ==
  /\ t.up = s.up /\ t.step = s.step /\ t.height = s.height /\ t.resume = s.resume
  /\ t.proposal = s.proposal /\ t.blocks = s.blocks
  /\ t.prevoteTotal = s.prevoteTotal /\ t.precommitTotal = s.precommitTotal
  /\ t.csps = s.csps /\ t.counter = s.counter /\ t.cscs = s.cscs

\* A node that is ready is still in its handler, or the first proposer.
Watched(n, s) ==
  \/ s.resume
  \/ s.height = 1 /\ s.step = "Propose" /\ IsProposer(n, s)
  \/ ~Ready(n, s)

LEMMA WatchedKept ==
  ASSUME NEW n, NEW s, NEW t, SameProgress(s, t), Watched(n, s)
  PROVE  Watched(n, t)
<1>1. /\ FinishProposal(n, t) <=> FinishProposal(n, s)
      /\ FinishPrevote(n, t) <=> FinishPrevote(n, s)
      /\ FinishPrecommit(n, t) <=> FinishPrecommit(n, s)
  BY DEF SameProgress, FinishProposal, FinishPrevote, FinishPrecommit
<1>2. /\ FinishCrossShardAccept(n, t) <=> FinishCrossShardAccept(n, s)
      /\ FinishCrossShardProposal(n, t) <=> FinishCrossShardProposal(n, s)
  BY <1>1 DEF SameProgress, FinishCrossShardAccept, FinishCrossShardProposal
<1>3. /\ FinishCrossShardCommit_I(n, t) <=> FinishCrossShardCommit_I(n, s)
      /\ FinishCrossShardCommit_B(n, t) <=> FinishCrossShardCommit_B(n, s)
  BY <1>2 DEF SameProgress, FinishCrossShardCommit_I, FinishCrossShardCommit_B
<1>4. \A step : AtStep(t, step) <=> AtStep(s, step)
  BY DEF SameProgress, AtStep
<1>5. Ready(n, t) <=> Ready(n, s)
  BY <1>1, <1>2, <1>3, <1>4 DEF Ready
<1>6. IsProposer(n, t) <=> IsProposer(n, s)
  BY DEF SameProgress, IsProposer
<1> QED BY <1>5, <1>6 DEF SameProgress, Watched

\* handleStateTransition does nothing in a node that is not ready,
LEMMA NotReady ==
  ASSUME NEW n, NEW s, ~Ready(n, s), NEW body
  PROVE  HandleStateTransition(n, s, body) = s
<1>1. ProposeStep(n, s) = s /\ PrevoteStep(n, s) = s /\ PrecommitStep(n, s) = s
  BY DEF Ready, ProposeStep, PrevoteStep, PrecommitStep
<1>2. CrossShardStep(n, s) = s /\ CommitStep(n, s, body) = s
  BY DEF Ready, CrossShardStep, CommitStep
<1> QED BY <1>1, <1>2 DEF HandleStateTransition

\* enterNewHeight leaves the flag resume.
LEMMA ResumeIsKept ==
  ASSUME NEW n, NEW s, IsState(s), NEW body
  PROVE  LET t == EnterNewHeight(n, s, body) IN
         /\ t.resume = s.resume /\ t.height = s.height + 1 /\ t.step = "Propose"
         /\ ~IsProposer(n, t) => t.proposal = None
<1> DEFINE u == ClearAll(n, s)
           t == [u EXCEPT !.height = s.height + 1, !.step = "Propose",
                          !.relay = {m \in @ : m.height > s.height}]
<1>1. IsState(u) /\ u.resume = s.resume /\ u.proposal = None
  <2> DEFINE p == [s EXCEPT !.proposal = None]
             q == ClearVotes(n, p)
  <2>1. IsState(p) /\ p.resume = s.resume /\ p.proposal = None
    BY DEF IsState, StateFields
  <2> HIDE DEF p
  <2>2. IsState(q) /\ q.resume = s.resume /\ q.proposal = None
    BY <2>1 DEF IsState, StateFields, ClearVotes
  <2> HIDE DEF q
  <2>3. LET r == ClearCrossShardData(n, q) IN IsState(r) /\ r.resume = s.resume /\ r.proposal = None
    BY <2>2 DEF IsState, StateFields, ClearCrossShardData
  <2>4. u = ClearCrossShardData(n, q)
    BY DEF ClearAll, p, q
  <2> QED BY <2>3, <2>4
<1>2. EnterNewHeight(n, s, body) = IF IsProposer(n, t) THEN CreateBlockAndBroadcast(n, t, body) ELSE t
  BY DEF EnterNewHeight
<1> HIDE DEF u
<1>3. IsState(t) /\ t.resume = s.resume /\ t.height = s.height + 1 /\ t.step = "Propose" /\ t.proposal = None
  BY <1>1 DEF IsState, StateFields
<1> HIDE DEF t
<1>4. LET b == CreateBlockAndBroadcast(n, t, body) IN
      b.resume = s.resume /\ b.height = s.height + 1 /\ b.step = "Propose"
  BY <1>3 DEF IsState, StateFields, CreateBlockAndBroadcast
<1>5. IsProposer(n, CreateBlockAndBroadcast(n, t, body)) <=> IsProposer(n, t)
  BY <1>3, <1>4 DEF IsProposer
<1> QED BY <1>2, <1>3, <1>4, <1>5

\* and leaves a node that is not ready, or that has entered a new height.
LEMMA TransitionEnds ==
  ASSUME NEW n, NEW s, IsState(s), NEW body
  PROVE  LET t == HandleStateTransition(n, s, body) IN t.resume \/ ~Ready(n, t)
<1> DEFINE p == ProposeStep(n, s)
           q == PrevoteStep(n, p)
           r == PrecommitStep(n, q)
           t == CrossShardStep(n, r)
           u == CommitStep(n, t, body)
<1>1. IsState(p) /\ ~(AtStep(p, "Propose") /\ FinishProposal(n, p))
  <2>1. CASE AtStep(s, "Propose") /\ FinishProposal(n, s)
    <3>1. p = DoPropose(n, s)
      BY <2>1 DEF ProposeStep
    <3>2. LET a == AddPrevote(n, s, PrevoteMsg(n, s.blocks[ChainOf(n)])) IN
          IsState(a) /\ a.step = "Propose"
      BY <2>1 DEF AtStep, IsState, StateFields, AddPrevote
    <3>3. IsState(p) /\ (p.up = FALSE \/ p.step = "Prevote")
      BY <2>1, <3>1, <3>2 DEF AtStep, IsState, StateFields, DoPropose, NextStep
    <3> QED BY <3>3 DEF AtStep
  <2>2. CASE ~(AtStep(s, "Propose") /\ FinishProposal(n, s))
    BY <2>2 DEF ProposeStep
  <2> QED BY <2>1, <2>2
<1> HIDE DEF p
<1>2. /\ IsState(q) /\ (q = p \/ q.step = "Precommit")
      /\ ~(AtStep(q, "Prevote") /\ FinishPrevote(n, q))
  <2>1. CASE AtStep(p, "Prevote") /\ FinishPrevote(n, p)
    <3>1. q = DoPrevote(n, p)
      BY <2>1 DEF PrevoteStep
    <3>2. LET a == AddPrecommit(n, p, PrecommitMsg(n, p.blocks[ChainOf(n)])) IN
          IsState(a) /\ a.step = "Prevote"
      BY <1>1, <2>1 DEF AtStep, IsState, StateFields, AddPrecommit
    <3>3. IsState(q) /\ q.step = "Precommit"
      BY <3>1, <3>2 DEF IsState, StateFields, DoPrevote, NextStep
    <3> QED BY <3>3 DEF AtStep
  <2>2. CASE ~(AtStep(p, "Prevote") /\ FinishPrevote(n, p))
    BY <1>1, <2>2 DEF PrevoteStep
  <2> QED BY <2>1, <2>2
<1> HIDE DEF q
<1>3. /\ IsState(r) /\ (r = q \/ r.step = "CrossShardAccept")
      /\ ~(AtStep(r, "Precommit") /\ FinishPrecommit(n, r))
  <2>1. CASE AtStep(q, "Precommit") /\ FinishPrecommit(n, q)
    <3>1. r = DoPrecommit(n, q)
      BY <2>1 DEF PrecommitStep
    <3>2. IsState(r) /\ r.step = "CrossShardAccept"
      BY <1>2, <2>1, <3>1 DEF AtStep, IsState, StateFields, DoPrecommit, NextStep
    <3> QED BY <3>2 DEF AtStep
  <2>2. CASE ~(AtStep(q, "Precommit") /\ FinishPrecommit(n, q))
    BY <1>2, <2>2 DEF PrecommitStep
  <2> QED BY <2>1, <2>2
<1> HIDE DEF r
<1>4. /\ IsState(t) /\ (t = r \/ t.step = "CrossShardCommit")
      /\ ~(AtStep(t, "CrossShardAccept") /\ ChainOf(n) \in IShards /\ FinishCrossShardAccept(n, t))
      /\ ~(AtStep(t, "CrossShardAccept") /\ ChainOf(n) \in CShards /\ FinishCrossShardProposal(n, t))
  <2>1. CASE AtStep(r, "CrossShardAccept") /\ t = DoCSA(n, r)
    <3>1. IsState(t) /\ t.step = "CrossShardCommit"
      BY <1>3, <2>1 DEF AtStep, IsState, StateFields, DoCSA, NextStep
    <3> QED BY <3>1 DEF AtStep
  <2>2. CASE AtStep(r, "CrossShardAccept") /\ t = DoCSP(n, r)
    <3>1. IsState(t) /\ t.step = "CrossShardCommit"
      BY <1>3, <2>2 DEF AtStep, IsState, StateFields, DoCSP, NextStep
    <3> QED BY <3>1 DEF AtStep
  <2>3. CASE /\ ~(AtStep(r, "CrossShardAccept") /\ ChainOf(n) \in IShards /\ FinishCrossShardAccept(n, r))
             /\ ~(AtStep(r, "CrossShardAccept") /\ ChainOf(n) \in CShards /\ FinishCrossShardProposal(n, r))
    BY <1>3, <2>3 DEF CrossShardStep
  <2> QED BY <2>1, <2>2, <2>3 DEF CrossShardStep
<1>5. ~Ready(n, t) \/ AtStep(t, "CrossShardCommit")
  BY <1>1, <1>2, <1>3, <1>4 DEF Ready, AtStep
<1> HIDE DEF t
<1>6. u.resume \/ ~Ready(n, u)
  <2> DEFINE ready == /\ AtStep(t, "CrossShardCommit")
                      /\ \/ ChainOf(n) \in IShards /\ FinishCrossShardCommit_I(n, t)
                         \/ ChainOf(n) \in CShards /\ FinishCrossShardCommit_B(n, t)
  <2>1. CASE ready
    <3> DEFINE x == [t EXCEPT !.root = Append(@, ExecutionAllBlocks(n, t)), !.resume = TRUE]
    <3>1. u = EnterNewHeight(n, x, body)
      BY <2>1 DEF CommitStep, DoCSC
    <3>2. IsState(x) /\ x.resume = TRUE
      BY <1>4 DEF IsState, StateFields
    <3> HIDE DEF x
    <3> QED BY <3>1, <3>2, ResumeIsKept
  <2>2. CASE ~ready
    <3>1. u = t
      BY <2>2 DEF CommitStep
    <3>2. ~Ready(n, t)
      BY <1>5, <2>2 DEF Ready, AtStep
    <3> QED BY <3>1, <3>2
  <2> QED BY <2>1, <2>2
<1>7. HandleStateTransition(n, s, body) = u
  BY DEF HandleStateTransition, t, r, q, p
<1> QED BY <1>6, <1>7

\* A message after which the node does not look for a transition changes
\* nothing that a transition depends on.
LEMMA UnseenKept ==
  ASSUME NEW n, NEW s, IsState(s), s.height \in Nat, NEW m, m.height \in Nat,
         ~AddMessage(n, s, m).look
  PROVE  SameProgress(s, AddMessage(n, s, m).state)
<1> DEFINE r == AddMessage(n, s, m)
<1>1. CASE OverTime(s, m)
  <2>1. m.height # s.height
    BY <1>1 DEF OverTime
  <2>2. r.state = AddRelayMessage(s, m)
    BY <1>1, <2>1 DEF AddMessage, Error, Nil, CanAddProposal, CanBufferPart, CanAddPart, CanAddPrevote,
              CanAddPrecommit, CanAddCSP, CanAddCSA, CanAddCSC
  <2>3. SameProgress(s, AddRelayMessage(s, m))
    BY DEF IsState, StateFields, AddRelayMessage, SameProgress
  <2> QED BY <2>2, <2>3
<1>2. CASE m.type = "Proposal" /\ CanAddProposal(n, s, m)
  <2>1. ~OverTime(s, m)
    BY <1>2 DEF OverTime, CanAddProposal
  <2>2. r.look = TRUE
    BY <1>2, <2>1 DEF AddMessage, Nil
  <2> QED BY <2>2
<1>3. CASE m.type = "Part" /\ CanBufferPart(s, m)
  <2>1. ~OverTime(s, m) /\ ~CanAddPart(s, m)
    BY <1>3 DEF OverTime, CanBufferPart, CanAddPart
  <2>2. r.state = [s EXCEPT !.buffer = @ \cup {m}]
    BY <1>3, <2>1 DEF AddMessage, Error
  <2>3. SameProgress(s, [s EXCEPT !.buffer = @ \cup {m}])
    BY DEF IsState, StateFields, SameProgress
  <2> QED BY <2>2, <2>3
<1>4. CASE m.type = "Part" /\ CanAddPart(s, m)
  <2>1. ~OverTime(s, m) /\ ~CanBufferPart(s, m)
    BY <1>4 DEF OverTime, CanBufferPart, CanAddPart
  <2>2. r.look = TRUE
    BY <1>4, <2>1 DEF AddMessage, Nil
  <2> QED BY <2>2
<1>5. CASE m.type = "Prevote" /\ CanAddPrevote(s, m)
  <2>1. ~OverTime(s, m)
    BY <1>5 DEF OverTime, CanAddPrevote
  <2>2. r.look = TRUE
    BY <1>5, <2>1 DEF AddMessage, Nil
  <2> QED BY <2>2
<1>6. CASE m.type = "Precommit" /\ CanAddPrecommit(s, m)
  <2>1. ~OverTime(s, m)
    BY <1>6 DEF OverTime, CanAddPrecommit
  <2>2. r.look = TRUE
    BY <1>6, <2>1 DEF AddMessage, Nil
  <2> QED BY <2>2
<1>7. CASE m.type = "CSP" /\ CanAddCSP(s, m)
  <2>1. ~OverTime(s, m)
    BY <1>7 DEF OverTime, CanAddCSP
  <2>2. r.look = TRUE
    BY <1>7, <2>1 DEF AddMessage, Nil
  <2> QED BY <2>2
<1>8. CASE m.type = "CSA" /\ CanAddCSA(n, s, m)
  <2>1. ~OverTime(s, m)
    BY <1>8 DEF OverTime, CanAddCSA
  <2>2. r = [state |-> AddCrossShardAccept(s, m), look |-> CSAReturnsNil(s, m)]
    BY <1>8, <2>1 DEF AddMessage
  <2>3. ~CSAReturnsNil(s, m)
    BY <2>2
  <2>4. SameProgress(s, AddCrossShardAccept(s, m))
    BY <2>3 DEF IsState, StateFields, AddCrossShardAccept, SameProgress
  <2> QED BY <2>2, <2>4
<1>9. CASE m.type = "CSC" /\ CanAddCSC(n, s, m)
  <2>1. ~OverTime(s, m)
    BY <1>9 DEF OverTime, CanAddCSC
  <2>2. r.look = TRUE
    BY <1>9, <2>1 DEF AddMessage, Nil
  <2> QED BY <2>2
<1>10. CASE /\ ~OverTime(s, m)
            /\ ~(m.type = "Proposal" /\ CanAddProposal(n, s, m))
            /\ ~(m.type = "Part" /\ CanBufferPart(s, m))
            /\ ~(m.type = "Part" /\ CanAddPart(s, m))
            /\ ~(m.type = "Prevote" /\ CanAddPrevote(s, m))
            /\ ~(m.type = "Precommit" /\ CanAddPrecommit(s, m))
            /\ ~(m.type = "CSP" /\ CanAddCSP(s, m))
            /\ ~(m.type = "CSA" /\ CanAddCSA(n, s, m))
            /\ ~(m.type = "CSC" /\ CanAddCSC(n, s, m))
  <2>1. r.state = s
    BY <1>10 DEF AddMessage, Error
  <2> QED BY <2>1 DEF SameProgress
<1> QED BY <1>1, <1>2, <1>3, <1>4, <1>5, <1>6, <1>7, <1>8, <1>9, <1>10

LEMMA HandledIsWatched ==
  ASSUME NoneIsNil, NEW n \in Correct, NEW s, NodeOK(n, s, msgs), Watched(n, s),
         NEW m \in msgs, WellFormed(m), m.to = ChainOf(n), NEW body
  PROVE  Watched(n, DoMessage(n, s, m, body))
<1> DEFINE r == AddMessage(n, s, m)
<1>1. NodeOK(n, r.state, msgs)
  BY MessageKept
<1>2. IsState(r.state) /\ IsState(s) /\ s.height \in Nat /\ m.height \in Nat
  BY <1>1 DEF NodeOK, WellFormed
<1>3. CASE r.look
  <2>1. DoMessage(n, s, m, body) = HandleStateTransition(n, r.state, body)
    BY <1>3 DEF DoMessage, Handled
  <2> QED BY <1>2, <2>1, TransitionEnds DEF Watched
<1>4. CASE ~r.look
  <2>1. DoMessage(n, s, m, body) = r.state
    BY <1>4 DEF DoMessage, Handled
  <2>2. SameProgress(s, r.state)
    BY <1>2, <1>4, UnseenKept
  <2> QED BY <2>1, <2>2, WatchedKept
<1> QED BY <1>3, <1>4

\* No transition is missed, for the induction (handleStateTransition).
WatchedInv == \A n \in Correct : Watched(n, st[n])

LEMMA BecomeWatched ==
  ASSUME IInv, WatchedInv, NEW n \in Correct, NEW s, IsState(s), Watched(n, s),
         st' = [st EXCEPT ![n] = [s EXCEPT !.out = {}]]
  PROVE  WatchedInv'
<1>1. SameProgress(s, [s EXCEPT !.out = {}])
  BY DEF IsState, StateFields, SameProgress
<1>2. Watched(n, [s EXCEPT !.out = {}])
  BY <1>1, WatchedKept
<1>3. \A k \in Correct : st'[k] = IF k = n THEN [s EXCEPT !.out = {}] ELSE st[k]
  BY DEF IInv
<1>4. \A k \in Correct : Watched(k, st'[k])
  BY <1>2, <1>3 DEF WatchedInv
<1>5. WatchedInv' = \A k \in Correct : Watched(k, st'[k])
  BY DEF WatchedInv
<1> QED BY <1>4, <1>5

LEMMA NextWatched ==
  ASSUME NoneIsNil, AnswersOK, IInv, WatchedInv, [Next]_vars
  PROVE  WatchedInv'
<1>1. CASE UNCHANGED vars
  BY <1>1 DEF vars, WatchedInv, Watched
<1>2. CASE \E n \in Correct : Step(n)
  <2>1. PICK n \in Correct, body \in Body : Start(n, body) \/ Handle(n, body)
    BY <1>2 DEF Step
  <2>2. NodeOK(n, st[n], msgs) /\ IsState(st[n]) /\ Watched(n, st[n])
    BY DEF IInv, NodeOK, WatchedInv
  <2>3. CASE Start(n, body)
    <3> DEFINE t == EnterNewHeight(n, st[n], body)
    <3>1. st[n].height = 0 /\ st' = [st EXCEPT ![n] = [t EXCEPT !.out = {}]]
      BY <2>3 DEF Start, Become
    <3>2. /\ t.height = st[n].height + 1 /\ t.step = "Propose"
          /\ ~IsProposer(n, t) => t.proposal = None
      BY <2>2, ResumeIsKept
    <3>3. Watched(n, t)
      <4>1. t.height = 1
        BY <3>1, <3>2
      <4>2. ~IsProposer(n, t) => ~Ready(n, t)
        BY <3>2 DEF Ready, AtStep, FinishProposal
      <4> QED BY <3>2, <4>1, <4>2 DEF Watched
    <3>4. IsState(t)
      <4> DEFINE s == st[n]
      <4>1. s.height = 0 /\ msgs \cup s.out = msgs /\ NodeOK(n, s, msgs)
        BY <2>2, <3>1 DEF IInv
      <4>2. Recorded(n, s, msgs)
        BY <4>1 DEF NodeOK, HistoryOK, Recorded
      <4> HIDE DEF s
      <4>3. NodeOK(n, EnterNewHeight(n, s, body), msgs)
        BY <4>2, EnterKept
      <4> QED BY <4>3 DEF NodeOK, s
    <3> QED BY <3>1, <3>3, <3>4, BecomeWatched
  <2>4. CASE \E m \in msgs : Receive(n, m, body)
    <3>1. PICK m \in msgs : Receive(n, m, body)
      BY <2>4
    <3> DEFINE t == DoMessage(n, st[n], m, body)
    <3>2. WellFormed(m) /\ m.to = ChainOf(n) /\ st' = [st EXCEPT ![n] = [t EXCEPT !.out = {}]]
      BY <3>1 DEF Receive, Become, IInv
    <3>3. Watched(n, t) /\ NodeOK(n, t, msgs)
      BY <2>2, <3>2, HandledIsWatched, HandlerKept
    <3> QED BY <3>2, <3>3, BecomeWatched DEF NodeOK
  <2>5. CASE \E m \in st[n].relay : Replay(n, m, body)
    <3>1. PICK m \in st[n].relay : Replay(n, m, body)
      BY <2>5
    <3> DEFINE s == [st[n] EXCEPT !.relay = @ \ {m}]
               t == DoMessage(n, s, m, body)
    <3>2. /\ m \in msgs /\ WellFormed(m) /\ m.to = ChainOf(n)
          /\ st' = [st EXCEPT ![n] = [t EXCEPT !.out = {}]]
      BY <2>2, <3>1 DEF Replay, Become, IInv, NodeOK, RelayOK
    <3>3. SameProgress(st[n], s)
      BY <2>2 DEF IsState, StateFields, SameProgress
    <3>4. NodeOK(n, s, msgs)
      <4>1. /\ IsState(s) /\ SameCollected(st[n], s) /\ s.height = st[n].height /\ s.step = st[n].step
            /\ s.root = st[n].root /\ s.relay \subseteq st[n].relay /\ s.out = st[n].out
        BY <2>2 DEF IsState, StateFields, SameCollected, SamePrevotes, SamePrecommits, SameBlocks, SameAccepts
      <4> HIDE DEF s
      <4> QED BY <2>2, <4>1, DroppedKept
    <3> HIDE DEF s
    <3>5. Watched(n, s)
      BY <2>2, <3>3, WatchedKept
    <3>6. Watched(n, t) /\ NodeOK(n, t, msgs)
      BY <3>2, <3>4, <3>5, HandledIsWatched, HandlerKept
    <3> QED BY <3>2, <3>6, BecomeWatched DEF NodeOK
  <2>6. CASE Resume(n, body)
    <3> DEFINE s == [st[n] EXCEPT !.resume = FALSE]
               t == HandleStateTransition(n, s, body)
    <3>1. st' = [st EXCEPT ![n] = [t EXCEPT !.out = {}]]
      BY <2>6 DEF Resume, Become
    <3>2. NodeOK(n, s, msgs)
      <4>1. /\ IsState(s) /\ SameCollected(st[n], s) /\ s.height = st[n].height /\ s.step = st[n].step
            /\ s.root = st[n].root /\ s.relay \subseteq st[n].relay /\ s.out = st[n].out
        BY <2>2 DEF IsState, StateFields, SameCollected, SamePrevotes, SamePrecommits, SameBlocks, SameAccepts
      <4> HIDE DEF s
      <4> QED BY <2>2, <4>1, DroppedKept
    <3> HIDE DEF s
    <3>3. NodeOK(n, t, msgs) /\ IsState(s)
      BY <3>2, TransitionKept DEF NodeOK
    <3>4. Watched(n, t)
      BY <3>3, TransitionEnds DEF Watched
    <3> QED BY <3>1, <3>3, <3>4, BecomeWatched DEF NodeOK
  <2> QED BY <2>1, <2>3, <2>4, <2>5, <2>6 DEF Handle
<1>3. CASE Terminated
  BY <1>1, <1>3 DEF Terminated
<1> QED BY <1>1, <1>2, <1>3 DEF Next

\* handleStateTransition leaves no finished step behind: when stateMtx is
\* free, no step of a node can be taken, but for the first proposer of a shard.
THEOREM NothingMissed ==
  ASSUME NoneIsNil, AnswersOK
  PROVE  Spec => []NoMissedTransition
<1>1. Init => WatchedInv
  <2> SUFFICES ASSUME Init, NEW n \in Correct PROVE Watched(n, st[n])
    BY DEF WatchedInv
  <2>1. st[n] = NewState(n) /\ NodeOK(n, NewState(n), FaultyMsg)
    BY NewStateIsOK DEF Init
  <2>2. st[n].step = "NewHeight"
    BY <2>1 DEF NewState, ClearAll, ClearVotes, ClearCrossShardData
  <2> QED BY <2>2 DEF Watched, Ready, AtStep
<1>2. IInv /\ WatchedInv /\ [Next]_vars => WatchedInv'
  BY NextWatched
<1>3. WatchedInv => NoMissedTransition
  BY NotReady DEF WatchedInv, Watched, NoMissedTransition, Unlocked
<1> QED BY <1>1, <1>2, <1>3, Backed, PTL DEF Spec
-----------------------------------------------------------------------------
(* One state for a shard.                                                  *)
(*                                                                         *)
(* A block names the roots that it was built on, and a node panics over a  *)
(* block with other roots than its own.  Unless a validator sends such a   *)
(* block, what a block was built on is a history of agreed entries, and    *)
(* there is one such history.                                              *)

\* What ExecutionAllBlocks makes, as a function of its fields.
IsEntry(e) ==
  e = [body |-> [d \in DOMAIN e.body |-> e.body[d]], status |-> [d \in DOMAIN e.status |-> e.status[d]]]

\* A history of chain c up to height h.
Built(M, c, h, root) ==
  /\ \E S : root \in Seq(S)
  /\ Len(root) = h - 1
  /\ \A j \in 1..Len(root) : EntryOK(M, c, j, root[j]) /\ IsEntry(root[j])
BlockBuilt(M, b) == Built(M, b.chain, b.height, b.root)

MsgsBuilt(M) == \A m \in M : m.type \in {"Proposal", "Part", "CSP"} => BlockBuilt(M, m.block)

\* A node is up, and has blocks that are built on such histories.
Sound(s, N) ==
  /\ s.up
  /\ \A j \in 1..Len(s.root) : IsEntry(s.root[j])
  /\ \A d \in Shard : /\ s.partSets[d] # None => BlockBuilt(N, s.partSets[d].block)
                      /\ s.blocks[d] # None => BlockBuilt(N, s.blocks[d])
SoundOK(s, M) == Sound(s, M \cup s.out) /\ MsgsBuilt(M \cup s.out)

LEMMA BuiltGrows ==
  ASSUME NEW M, NEW N, M \subseteq N, NEW c \in Shard, NEW h, NEW root, Built(M, c, h, root)
  PROVE  Built(N, c, h, root)
BY EntryGrows DEF Built

LEMMA EntryOnce ==
  ASSUME NEW M, OneVoteEach(M), NEW c \in Shard, NEW h, NEW e, NEW f,
         EntryOK(M, c, h, e), EntryOK(M, c, h, f), IsEntry(e), IsEntry(f)
  PROVE  e = f
<1>1. DOMAIN e.body = DOMAIN f.body /\ DOMAIN e.status = DOMAIN f.status
  BY DEF EntryOK
<1>2. /\ \A d \in DOMAIN e.body \cap DOMAIN f.body : e.body[d] = f.body[d]
      /\ \A d \in DOMAIN e.status \cap DOMAIN f.status : e.status[d] = f.status[d]
  BY EntriesAgree
<1>3. /\ [d \in DOMAIN e.body |-> e.body[d]] = [d \in DOMAIN f.body |-> f.body[d]]
      /\ [d \in DOMAIN e.status |-> e.status[d]] = [d \in DOMAIN f.status |-> f.status[d]]
  BY <1>1, <1>2
<1> QED BY <1>3, Zenon DEF IsEntry

LEMMA BuiltOnce ==
  ASSUME NEW M, OneVoteEach(M), NEW c \in Shard, NEW h, NEW p, NEW q,
         Built(M, c, h, p), Built(M, c, h, q)
  PROVE  p = q
<1>1. PICK S : p \in Seq(S)
  BY DEF Built
<1>2. PICK T : q \in Seq(T)
  BY DEF Built
<1>3. p \in Seq(S \cup T) /\ q \in Seq(S \cup T) /\ Len(p) = Len(q)
  BY <1>1, <1>2, SeqMonotonic DEF Built
<1>4. ASSUME NEW j \in 1..Len(p) PROVE p[j] = q[j]
  <2>1. EntryOK(M, c, j, p[j]) /\ EntryOK(M, c, j, q[j]) /\ IsEntry(p[j]) /\ IsEntry(q[j])
    BY <1>3 DEF Built
  <2> QED BY <2>1, EntryOnce, Zenon
<1> QED BY <1>3, <1>4, SeqEqual

\* Messages that a handler sends leave the rest as it is.
LEMMA SoundSent ==
  ASSUME NEW s, NEW t, NEW M, NEW O, SoundOK(s, M),
         \A d \in Shard : s.partSets[d] # None => s.partSets[d].block.chain \in Shard,
         \A d \in Shard : s.blocks[d] # None => s.blocks[d].chain \in Shard,
         \A m \in M \cup s.out : m.type \in {"Proposal", "Part", "CSP"} => m.block.chain \in Shard,
         t.up = s.up, t.root = s.root, t.partSets = s.partSets, t.blocks = s.blocks,
         t.out = s.out \cup O,
         \A m \in O : m.type \in {"Proposal", "Part", "CSP"} =>
           BlockBuilt(M \cup s.out, m.block) /\ m.block.chain \in Shard
  PROVE  SoundOK(t, M)
<1> DEFINE K == M \cup s.out
           N == M \cup t.out
<1>1. K \subseteq N /\ N = K \cup O
  OBVIOUS
<1>2. Sound(s, K) /\ MsgsBuilt(K)
  BY DEF SoundOK
<1> HIDE DEF K, N
<1>3. \A b : b.chain \in Shard /\ BlockBuilt(K, b) => BlockBuilt(N, b)
  BY <1>1, BuiltGrows DEF BlockBuilt
<1>4. Sound(t, N)
  BY <1>2, <1>3 DEF Sound
<1>5. MsgsBuilt(N)
  <2> SUFFICES ASSUME NEW m \in N, m.type \in {"Proposal", "Part", "CSP"}
               PROVE  BlockBuilt(N, m.block)
    BY DEF MsgsBuilt
  <2>1. BlockBuilt(K, m.block) /\ m.block.chain \in Shard
    BY <1>1, <1>2 DEF MsgsBuilt, K
  <2> QED BY <1>3, <2>1
<1> QED BY <1>4, <1>5 DEF SoundOK, N

\* The chains of blocks and messages, from the other invariant.
LEMMA ChainsKnown ==
  ASSUME NEW n, NEW s, NodeOK(n, s, msgs), \A m \in msgs : WellFormed(m)
  PROVE  /\ \A d \in Shard : s.partSets[d] # None => s.partSets[d].block.chain = d
         /\ \A d \in Shard : s.blocks[d] # None => s.blocks[d].chain = d /\ s.blocks[d].height = s.height
         /\ \A m \in msgs \cup s.out : m.type \in {"Proposal", "Part", "CSP"} => m.block.chain \in Shard
<1>1. /\ \A d \in Shard : s.partSets[d] # None => s.partSets[d].block.chain = d
      /\ \A d \in Shard : s.blocks[d] # None => s.blocks[d].chain = d /\ s.blocks[d].height = s.height
  BY DEF NodeOK, CollectedOK, BlocksOK, BlockOK
<1>2. \A m \in msgs \cup s.out : m.type \in {"Proposal", "Part", "CSP"} => m.block.chain \in Shard
  BY DEF NodeOK, OutOK, WellFormed
<1> QED BY <1>1, <1>2

\* A block of a message takes the place of another.
LEMMA SoundReplaced ==
  ASSUME NEW s, NEW t, NEW M, SoundOK(s, M), t.up = s.up, t.root = s.root, t.out = s.out,
         NEW d \in Shard, NEW b, BlockBuilt(M \cup s.out, b),
         t.partSets[d].block = b, t.blocks[d] \in {b, s.blocks[d]},
         \A e \in Shard \ {d} : t.partSets[e] = s.partSets[e] /\ t.blocks[e] = s.blocks[e]
  PROVE  SoundOK(t, M)
<1> DEFINE N == M \cup s.out
<1>1. Sound(s, N) /\ MsgsBuilt(N) /\ M \cup t.out = N
  BY DEF SoundOK
<1> HIDE DEF N
<1>2. Sound(t, N)
  BY <1>1 DEF Sound, N
<1> QED BY <1>1, <1>2 DEF SoundOK

\* The two invariants of a node in a handler.
Fine(n, s) == NodeOK(n, s, msgs) /\ SoundOK(s, msgs)

\* A function that sends messages without a new block.
LEMMA FineSent ==
  ASSUME IInv, NEW n, NEW s, NEW t, NEW O, Fine(n, s), NodeOK(n, t, msgs),
         t.up = s.up, t.root = s.root, t.partSets = s.partSets, t.blocks = s.blocks,
         t.out = s.out \cup O,
         \A m \in O : m.type \in {"Proposal", "Part", "CSP"} =>
           BlockBuilt(msgs \cup s.out, m.block) /\ m.block.chain \in Shard
  PROVE  Fine(n, t)
<1>1. NodeOK(n, s, msgs) /\ SoundOK(s, msgs) /\ \A m \in msgs : WellFormed(m)
  BY DEF Fine, IInv
<1>2. /\ \A d \in Shard : s.partSets[d] # None => s.partSets[d].block.chain \in Shard
      /\ \A d \in Shard : s.blocks[d] # None => s.blocks[d].chain \in Shard
      /\ \A m \in msgs \cup s.out : m.type \in {"Proposal", "Part", "CSP"} => m.block.chain \in Shard
  BY <1>1, ChainsKnown
<1>3. SoundOK(t, msgs)
  BY <1>1, <1>2, SoundSent
<1> QED BY <1>3 DEF Fine

LEMMA FineSame ==
  ASSUME IInv, NEW n, NEW s, NEW t, Fine(n, s), NodeOK(n, t, msgs),
         t.up = s.up, t.root = s.root, t.partSets = s.partSets, t.blocks = s.blocks, t.out = s.out
  PROVE  Fine(n, t)
<1>1. Sound(s, msgs \cup s.out) /\ MsgsBuilt(msgs \cup s.out)
  BY DEF Fine, SoundOK
<1>2. Sound(t, msgs \cup s.out)
  BY <1>1 DEF Sound
<1> QED BY <1>1, <1>2 DEF Fine, SoundOK

\* AddX.
LEMMA MessageFine ==
  ASSUME NoneIsNil, IInv, NEW n \in Correct, NEW s, Fine(n, s), NEW m \in msgs, m.to = ChainOf(n)
  PROVE  Fine(n, AddMessage(n, s, m).state)
<1> DEFINE r == AddMessage(n, s, m)
           N == msgs \cup s.out
<1>1. /\ NodeOK(n, s, msgs) /\ IsState(s) /\ s.height \in Nat /\ SoundOK(s, msgs)
      /\ DOMAIN s.partSets = Shard /\ DOMAIN s.blocks = Shard
      /\ WellFormed(m) /\ m.height \in Nat
  BY DEF Fine, NodeOK, CollectedOK, BlocksOK, IInv, WellFormed
<1>2. NodeOK(n, r.state, msgs)
  BY <1>1, MessageKept
<1>3. m.type \in {"Proposal", "Part", "CSP"} => m.block.chain \in Shard /\ BlockBuilt(N, m.block)
  BY <1>1 DEF WellFormed, SoundOK, MsgsBuilt
<1> DEFINE Same == LET t == r.state IN
             t.up = s.up /\ t.root = s.root /\ t.partSets = s.partSets /\ t.blocks = s.blocks /\ t.out = s.out
<1>4. Same => Fine(n, r.state)
  BY <1>2, FineSame
<1> DEFINE Replaced == LET t == r.state  d == m.block.chain IN
             /\ t.up = s.up /\ t.root = s.root /\ t.out = s.out
             /\ t.partSets[d].block = m.block /\ t.blocks[d] \in {m.block, s.blocks[d]}
             /\ \A e \in Shard \ {d} : t.partSets[e] = s.partSets[e] /\ t.blocks[e] = s.blocks[e]
<1>5. m.type \in {"Proposal", "Part", "CSP"} /\ Replaced => Fine(n, r.state)
  <2> SUFFICES ASSUME m.type \in {"Proposal", "Part", "CSP"}, Replaced
               PROVE  Fine(n, r.state)
    OBVIOUS
  <2> DEFINE t == r.state
             d == m.block.chain
             b == m.block
  <2>1. /\ t.up = s.up /\ t.root = s.root /\ t.out = s.out
        /\ t.partSets[d].block = b /\ t.blocks[d] \in {b, s.blocks[d]}
        /\ \A e \in Shard \ {d} : t.partSets[e] = s.partSets[e] /\ t.blocks[e] = s.blocks[e]
    OBVIOUS
  <2>2. d \in Shard /\ BlockBuilt(msgs \cup s.out, b) /\ SoundOK(s, msgs) /\ NodeOK(n, t, msgs)
    BY <1>1, <1>2, <1>3
  <2> HIDE DEF t, d, b, Replaced, Same, r
  <2>3. SoundOK(t, msgs)
    BY <2>1, <2>2, SoundReplaced
  <2>4. Fine(n, t)
    BY <2>2, <2>3 DEF Fine
  <2> QED BY <2>4 DEF t
<1>6. CASE OverTime(s, m)
  <2>1. r.state = AddRelayMessage(s, m)
    <3>1. m.height # s.height
      BY <1>1, <1>6 DEF OverTime
    <3> QED BY <1>6, <3>1 DEF AddMessage, Error, Nil, CanAddProposal, CanBufferPart, CanAddPart, CanAddPrevote,
              CanAddPrecommit, CanAddCSP, CanAddCSA, CanAddCSC
  <2>2. Same
    BY <1>1, <2>1 DEF IsState, StateFields, AddRelayMessage
  <2> QED BY <1>4, <2>2
<1>7. CASE m.type = "Proposal" /\ CanAddProposal(n, s, m)
  <2>1. ~OverTime(s, m)
    BY <1>1, <1>7 DEF OverTime, CanAddProposal
  <2>2. r.state = AddProposal(n, s, m)
    BY <1>7, <2>1 DEF AddMessage, Nil
  <2> DEFINE u == OpenPartSet(s, m.block, "full")
  <2>3. u.up = s.up
    BY <1>1 DEF IsState, StateFields, OpenPartSet
  <2>4. /\ SameControl(s, u)
        /\ u.partSets[m.block.chain].block = m.block
        /\ u.blocks[m.block.chain] \in {m.block, s.blocks[m.block.chain]}
        /\ \A e \in Shard \ {m.block.chain} : u.partSets[e] = s.partSets[e] /\ u.blocks[e] = s.blocks[e]
    BY <1>1, <1>3, <1>7, Opened
  <2>5. LET t == AddProposal(n, s, m) IN
        t.up = u.up /\ t.root = u.root /\ t.out = u.out /\ t.partSets = u.partSets /\ t.blocks = u.blocks
    <3> DEFINE pv == VotersFor(s.prevotes, m.block)
               pc == VotersFor(s.precommits, m.block)
               t == AddProposal(n, s, m)
    <3>1. t = [u EXCEPT !.proposal = m.block,
                        !.prevoteBits = @ \cup pv,
                        !.prevoteTotal = @ + Power(Votes[ChainOf(n)], pv),
                        !.precommitBits = @ \cup pc,
                        !.precommitTotal = @ + Power(Votes[ChainOf(n)], pc)]
      BY DEF AddProposal
    <3> HIDE DEF u, t, pv, pc
    <3>2. t.up = u.up /\ t.root = u.root /\ t.out = u.out /\ t.partSets = u.partSets /\ t.blocks = u.blocks
      BY <2>4, <3>1 DEF SameControl, IsState, StateFields
    <3> QED BY <3>2 DEF t
  <2> HIDE DEF u
  <2>6. Replaced
    BY <2>2, <2>3, <2>4, <2>5 DEF SameControl
  <2> QED BY <1>5, <1>7, <2>6
<1>8. CASE m.type = "Part" /\ CanBufferPart(s, m)
  <2>1. ~OverTime(s, m) /\ ~CanAddPart(s, m)
    BY <1>1, <1>8 DEF OverTime, CanBufferPart, CanAddPart
  <2>2. r.state = [s EXCEPT !.buffer = @ \cup {m}]
    BY <1>8, <2>1 DEF AddMessage, Error
  <2>3. Same
    BY <1>1, <2>2 DEF IsState, StateFields
  <2> QED BY <1>4, <2>3
<1>9. CASE m.type = "Part" /\ CanAddPart(s, m)
  <2> DEFINE d == m.block.chain
             ps == s.partSets[d]
             got == ps.got \cup {m.index}
  <2>1. ~OverTime(s, m) /\ ~CanBufferPart(s, m)
    BY <1>1, <1>9 DEF OverTime, CanBufferPart, CanAddPart
  <2>2. r.state = AddPart(s, m)
    BY <1>9, <2>1 DEF AddMessage, Nil
  <2>3. d \in Shard /\ ps # None /\ m.block = ps.block /\ DOMAIN ps = {"block", "kind", "got"}
    BY <1>1, <1>3, <1>9 DEF CanAddPart, InPartSet, NodeOK, CollectedOK, BlocksOK
  <2> HIDE DEF got
  <2>4. r.state = [s EXCEPT !.partSets[d].got = got, !.blocks[d] = IF got = 1..PartTotal(m.block, m.kind) THEN m.block ELSE @]
    BY <2>2 DEF AddPart, got
  <2>5. LET t == r.state IN
        /\ t.up = s.up /\ t.root = s.root /\ t.out = s.out
        /\ t.partSets = [s.partSets EXCEPT ![d] = [ps EXCEPT !.got = got]]
        /\ t.blocks = [s.blocks EXCEPT ![d] = IF got = 1..PartTotal(m.block, m.kind) THEN m.block ELSE @]
    BY <1>1, <2>4 DEF IsState, StateFields
  <2>6. Replaced
    BY <1>1, <2>3, <2>5
  <2> QED BY <1>5, <1>9, <2>6
<1>10. CASE m.type = "Prevote" /\ CanAddPrevote(s, m)
  <2>1. ~OverTime(s, m)
    BY <1>1, <1>10 DEF OverTime, CanAddPrevote
  <2>2. r.state = AddPrevote(n, s, m)
    BY <1>10, <2>1 DEF AddMessage, Nil
  <2>3. Same
    BY <1>1, <2>2 DEF IsState, StateFields, AddPrevote
  <2> QED BY <1>4, <2>3
<1>11. CASE m.type = "Precommit" /\ CanAddPrecommit(s, m)
  <2>1. ~OverTime(s, m)
    BY <1>1, <1>11 DEF OverTime, CanAddPrecommit
  <2>2. r.state = AddPrecommit(n, s, m)
    BY <1>11, <2>1 DEF AddMessage, Nil
  <2>3. Same
    BY <1>1, <2>2 DEF IsState, StateFields, AddPrecommit
  <2> QED BY <1>4, <2>3
<1>12. CASE m.type = "CSP" /\ CanAddCSP(s, m)
  <2>1. ~OverTime(s, m)
    BY <1>1, <1>12 DEF OverTime, CanAddCSP
  <2>2. r.state = AddCrossShardProposal(s, m)
    BY <1>12, <2>1 DEF AddMessage, Nil
  <2> DEFINE u == OpenPartSet(s, m.block, m.kind)
  <2>3. u.up = s.up
    BY <1>1 DEF IsState, StateFields, OpenPartSet
  <2>4. /\ SameControl(s, u)
        /\ u.partSets[m.block.chain].block = m.block
        /\ u.blocks[m.block.chain] \in {m.block, s.blocks[m.block.chain]}
        /\ \A e \in Shard \ {m.block.chain} : u.partSets[e] = s.partSets[e] /\ u.blocks[e] = s.blocks[e]
    BY <1>1, <1>3, <1>12, Opened
  <2>5. r.state = [u EXCEPT !.csps = @ \cup {m.block.chain}]
    BY <2>2 DEF AddCrossShardProposal
  <2> HIDE DEF u
  <2>6. LET t == r.state IN
        t.up = u.up /\ t.root = u.root /\ t.out = u.out /\ t.partSets = u.partSets /\ t.blocks = u.blocks
    BY <2>4, <2>5 DEF SameControl, IsState, StateFields
  <2>7. Replaced
    BY <2>3, <2>4, <2>6 DEF SameControl
  <2> QED BY <1>5, <1>12, <2>7
<1>13. CASE m.type = "CSA" /\ CanAddCSA(n, s, m)
  <2>1. ~OverTime(s, m)
    BY <1>1, <1>13 DEF OverTime, CanAddCSA
  <2>2. r.state = AddCrossShardAccept(s, m)
    BY <1>13, <2>1 DEF AddMessage
  <2>3. Same
    BY <1>1, <2>2 DEF IsState, StateFields, AddCrossShardAccept
  <2> QED BY <1>4, <2>3
<1>14. CASE m.type = "CSC" /\ CanAddCSC(n, s, m)
  <2> DEFINE O == IF ChainOf(n) \in IShards
                  THEN CSCMsgs(m.height, m.csc, Related[ChainOf(n)] \ {m.csc.upper}) ELSE {}
  <2>1. ~OverTime(s, m)
    BY <1>1, <1>14 DEF OverTime, CanAddCSC
  <2>2. r.state = AddCrossShardCommit(n, s, m)
    BY <1>14, <2>1 DEF AddMessage, Nil
  <2>3. \A q \in O : q.type = "CSC"
    BY DEF CSCMsgs
  <2>4. LET t == r.state IN
        /\ t.up = s.up /\ t.root = s.root /\ t.partSets = s.partSets /\ t.blocks = s.blocks
        /\ t.out = s.out \cup O
    BY <1>1, <2>2 DEF IsState, StateFields, AddCrossShardCommit
  <2> HIDE DEF O
  <2> QED BY <1>2, <2>3, <2>4, FineSent
<1>15. CASE /\ ~OverTime(s, m)
            /\ ~(m.type = "Proposal" /\ CanAddProposal(n, s, m))
            /\ ~(m.type = "Part" /\ CanBufferPart(s, m))
            /\ ~(m.type = "Part" /\ CanAddPart(s, m))
            /\ ~(m.type = "Prevote" /\ CanAddPrevote(s, m))
            /\ ~(m.type = "Precommit" /\ CanAddPrecommit(s, m))
            /\ ~(m.type = "CSP" /\ CanAddCSP(s, m))
            /\ ~(m.type = "CSA" /\ CanAddCSA(n, s, m))
            /\ ~(m.type = "CSC" /\ CanAddCSC(n, s, m))
  <2>1. r.state = s
    BY <1>15 DEF AddMessage, Error
  <2> QED BY <2>1
<1> QED BY <1>6, <1>7, <1>8, <1>9, <1>10, <1>11, <1>12, <1>13, <1>14, <1>15

\* A vote is in the name of one node, so the votes that a handler is about to
\* send are as single as those on the network.
LEMMA OneVoteSent ==
  ASSUME IInv, NEW n \in Correct, NEW s, NodeOK(n, s, msgs)
  PROVE  OneVoteEach(msgs \cup s.out)
<1> SUFFICES ASSUME NEW k \in Correct, NEW m \in msgs \cup s.out, NEW q \in msgs \cup s.out,
                    VoteOf(k, m), VoteOf(k, q), m.type = q.type, m.to = q.to, m.height = q.height
             PROVE  m = q
  BY DEF OneVoteEach
<1>1. CASE k = n
  BY <1>1 DEF NodeOK, OwnVotesOK
<1>2. CASE k # n
  <2>1. \A p \in s.out : p.type \in {"Prevote", "Precommit", "CSA"} => VoteOf(n, p)
    BY DEF NodeOK, OutOK
  <2>2. n = <<ChainOf(n), IndexOf(n)>> /\ k = <<ChainOf(k), IndexOf(k)>>
    BY Nodes
  <2>3. ChainOf(n) # ChainOf(k) \/ IndexOf(n) # IndexOf(k)
    BY <1>2, <2>2
  <2>4. \A p \in s.out : ~VoteOf(k, p)
    BY <2>1, <2>3 DEF VoteOf
  <2>5. OneVoteEach(msgs)
    BY OneVote
  <2> QED BY <2>4, <2>5 DEF OneVoteEach
<1> QED BY <1>1, <1>2

\* The history of a node in a height.
LEMMA RootBuilt ==
  ASSUME NEW n, NEW s, Fine(n, s), s.height # 0
  PROVE  Built(msgs \cup s.out, ChainOf(n), s.height, s.root)
BY DEF Fine, NodeOK, HistoryOK, SoundOK, Sound, Built

\* doPropose: the block is built on the history of the node.
LEMMA ProposeFine ==
  ASSUME IInv, NEW n \in Correct, NEW s, Fine(n, s), s.step = "Propose", FinishProposal(n, s)
  PROVE  Fine(n, DoPropose(n, s))
<1> DEFINE c == ChainOf(n)
           b == s.blocks[c]
           N == msgs \cup s.out
           m == PrevoteMsg(n, b)
           t == DoPropose(n, s)
<1>1. /\ NodeOK(n, s, msgs) /\ SoundOK(s, msgs) /\ IsState(s) /\ s.height # 0
      /\ c \in Shard /\ b # None /\ \A p \in msgs : WellFormed(p)
  BY Nodes DEF Fine, NodeOK, IInv, FinishProposal
<1>2. b.chain = c /\ b.height = s.height
  BY <1>1, ChainsKnown
<1>3. Built(N, c, s.height, b.root)
  BY <1>1, <1>2 DEF SoundOK, Sound, BlockBuilt
<1>4. Built(N, c, s.height, s.root)
  BY <1>1, RootBuilt
<1>5. OneVoteEach(N)
  BY <1>1, OneVoteSent
<1> HIDE DEF N
<1>6. b.root = s.root
  <2> HIDE DEF b
  <2> QED BY <1>1, <1>3, <1>4, <1>5, BuiltOnce
<1>7. t = [AddPrevote(n, s, m) EXCEPT !.out = @ \cup {m}, !.step = NextStep[@]]
  BY <1>6 DEF DoPropose
<1>8. m.type = "Prevote"
  BY DEF PrevoteMsg
<1>9. NodeOK(n, t, msgs)
  BY <1>1, ProposeKept
<1> HIDE DEF m, t, b
<1>10. LET u == AddPrevote(n, s, m) IN
       /\ IsState(u) /\ u.up = s.up /\ u.root = s.root /\ u.partSets = s.partSets /\ u.blocks = s.blocks
       /\ u.out = s.out
  BY <1>1 DEF IsState, StateFields, AddPrevote
<1>11. /\ t.up = s.up /\ t.root = s.root /\ t.partSets = s.partSets /\ t.blocks = s.blocks
       /\ t.out = s.out \cup {m}
  BY <1>7, <1>10 DEF IsState, StateFields
<1> DEFINE O == {m}
<1>12. \A p \in O : p.type = "Prevote"
  BY <1>8
<1>13. t.out = s.out \cup O
  BY <1>11
<1> HIDE DEF O
<1> QED BY <1>9, <1>11, <1>12, <1>13, FineSent DEF t

LEMMA PrevoteFine ==
  ASSUME IInv, NEW n \in Correct, NEW s, Fine(n, s), s.step = "Prevote", FinishProposal(n, s)
  PROVE  Fine(n, DoPrevote(n, s))
<1> DEFINE m == PrecommitMsg(n, s.blocks[ChainOf(n)])
           t == DoPrevote(n, s)
<1>1. NodeOK(n, s, msgs) /\ IsState(s)
  BY DEF Fine, NodeOK
<1>2. t = [AddPrecommit(n, s, m) EXCEPT !.out = @ \cup {m}, !.step = NextStep[@]]
  BY DEF DoPrevote
<1>3. m.type = "Precommit"
  BY DEF PrecommitMsg
<1>4. NodeOK(n, t, msgs)
  BY <1>1, PrevoteKept
<1> HIDE DEF m, t
<1>5. LET u == AddPrecommit(n, s, m) IN
      /\ IsState(u) /\ u.up = s.up /\ u.root = s.root /\ u.partSets = s.partSets /\ u.blocks = s.blocks
      /\ u.out = s.out
  BY <1>1 DEF IsState, StateFields, AddPrecommit
<1>6. /\ t.up = s.up /\ t.root = s.root /\ t.partSets = s.partSets /\ t.blocks = s.blocks
      /\ t.out = s.out \cup {m}
  BY <1>2, <1>5 DEF IsState, StateFields
<1> DEFINE O == {m}
<1>7. \A p \in O : p.type = "Precommit"
  BY <1>3
<1>8. t.out = s.out \cup O
  BY <1>6
<1> HIDE DEF O
<1> QED BY <1>4, <1>6, <1>7, <1>8, FineSent DEF t

\* doPrecommit: the proposer sends a block that it has.
LEMMA PrecommitFine ==
  ASSUME IInv, NEW n \in Correct, NEW s, Fine(n, s), s.step = "Precommit", FinishProposal(n, s)
  PROVE  Fine(n, DoPrecommit(n, s))
<1> DEFINE c == ChainOf(n)
           b == s.blocks[c]
           kind == IF c \in IShards THEN "full" ELSE "cross"
           dests == IF c \in IShards THEN Related[c] ELSE Related[c] \cup Related2Level(c)
           csps == CSPMsgs(b, kind, s.precommitBits, dests)
           parts == PartMsgs(b, kind, dests)
           O == IF IsProposer(n, s) THEN csps \cup parts ELSE {}
           t == DoPrecommit(n, s)
<1>1. /\ NodeOK(n, s, msgs) /\ SoundOK(s, msgs) /\ IsState(s)
      /\ c \in Shard /\ b # None /\ \A p \in msgs : WellFormed(p)
  BY Nodes DEF Fine, NodeOK, IInv, FinishProposal
<1>2. b.chain = c /\ BlockBuilt(msgs \cup s.out, b)
  BY <1>1, ChainsKnown DEF SoundOK, Sound
<1>3. NodeOK(n, t, msgs)
  BY <1>1, PrecommitKept
<1>4. \A m \in csps \cup parts : m.block = b
  BY DEF CSPMsgs, PartMsgs
<1>5. t = [s EXCEPT !.csps = @ \cup {c},
                    !.out = IF IsProposer(n, s) THEN @ \cup csps \cup parts ELSE @,
                    !.step = NextStep[@]]
  BY DEF DoPrecommit
<1> HIDE DEF t, b, csps, parts
<1>6. /\ t.up = s.up /\ t.root = s.root /\ t.partSets = s.partSets /\ t.blocks = s.blocks
      /\ t.out = s.out \cup O
  BY <1>1, <1>5 DEF IsState, StateFields
<1>7. \A m \in O : BlockBuilt(msgs \cup s.out, m.block) /\ m.block.chain \in Shard
  BY <1>1, <1>2, <1>4
<1> HIDE DEF O
<1> QED BY <1>3, <1>6, <1>7, FineSent DEF t

\* doCSA and doCSP send no block.
LEMMA CrossShardFine ==
  ASSUME AnswersOK, IInv, NEW n \in Correct, NEW s, Fine(n, s)
  PROVE  Fine(n, CrossShardStep(n, s))
<1>1. NodeOK(n, s, msgs) /\ IsState(s)
  BY DEF Fine, NodeOK
<1>2. NodeOK(n, CrossShardStep(n, s), msgs)
  BY <1>1, CrossShardStepKept
<1>3. CASE CrossShardStep(n, s) = DoCSA(n, s)
  <2> DEFINE t == DoCSA(n, s)
             x(d) == CSAMsg(n, d, s.height, [e \in Related[ChainOf(n)] |-> s.blocks[e]][d],
                            PreExecutionI(ChainOf(n), s.root,
                                          [e \in Related[ChainOf(n)] |-> s.blocks[e]])[d])
             O == {x(d) : d \in Related[ChainOf(n)]}
  <2>1. t = [s EXCEPT !.out = @ \cup O, !.step = NextStep[@]]
    BY DEF DoCSA
  <2>2. \A m \in O : m.type = "CSA"
    <3>1. \A d : x(d).type = "CSA"
      BY DEF CSAMsg
    <3> HIDE DEF x
    <3> QED BY <3>1
  <2> HIDE DEF t, O
  <2>3. /\ t.up = s.up /\ t.root = s.root /\ t.partSets = s.partSets /\ t.blocks = s.blocks
        /\ t.out = s.out \cup O
    BY <1>1, <2>1 DEF IsState, StateFields
  <2>4. NodeOK(n, t, msgs)
    BY <1>2, <1>3 DEF t
  <2> QED BY <1>3, <2>2, <2>3, <2>4, FineSent DEF t
<1>4. CASE CrossShardStep(n, s) = DoCSP(n, s)
  <2> DEFINE t == DoCSP(n, s)
             csc == GenerateCrossShardCommit(n, s)
             C == CSCMsgs(s.height, csc, Related[ChainOf(n)])
             O == IF IsProposer(n, s) THEN C ELSE {}
  <2>1. t = [s EXCEPT !.cscs[ChainOf(n)] = csc,
                      !.out = IF IsProposer(n, s) THEN @ \cup C ELSE @,
                      !.step = NextStep[@]]
    BY DEF DoCSP
  <2>2. \A m \in C : m.type = "CSC"
    BY DEF CSCMsgs
  <2> HIDE DEF t, C, csc
  <2>3. /\ t.up = s.up /\ t.root = s.root /\ t.partSets = s.partSets /\ t.blocks = s.blocks
        /\ t.out = s.out \cup O
    BY <1>1, <2>1 DEF IsState, StateFields
  <2>4. NodeOK(n, t, msgs)
    BY <1>2, <1>4 DEF t
  <2>5. \A m \in O : m.type = "CSC"
    BY <2>2
  <2> HIDE DEF O
  <2> QED BY <1>4, <2>3, <2>4, <2>5, FineSent DEF t
<1>5. CASE CrossShardStep(n, s) = s
  BY <1>5
<1> QED BY <1>3, <1>4, <1>5 DEF CrossShardStep

\* createBlockAndBroadcast: the new block is built on the history.
LEMMA CreateFine ==
  ASSUME NoneIsNil, IInv, NEW n \in Correct, NEW s, NodeOK(n, s, msgs), Fresh(n, s), NEW body,
         SoundOK(s, msgs), s.height # 0
  PROVE  Fine(n, CreateBlockAndBroadcast(n, s, body))
<1> DEFINE c == ChainOf(n)
           b == [chain |-> c, height |-> s.height, body |-> body, root |-> s.root]
           N == msgs \cup s.out
           O == {ProposalMsg(c, IndexOf(n), b)} \cup PartMsgs(b, "full", {c})
           ps == [block |-> b, kind |-> "full", got |-> 1..PartTotal(b, "full")]
           u == [s EXCEPT !.proposal = b, !.blocks[c] = b, !.partSets[c] = ps]
           t == CreateBlockAndBroadcast(n, s, body)
<1>1. /\ c \in Shard /\ IsState(s) /\ Fine(n, s)
      /\ DOMAIN s.blocks = Shard /\ DOMAIN s.partSets = Shard /\ \A m \in msgs : WellFormed(m)
  BY Nodes DEF NodeOK, CollectedOK, BlocksOK, Fine, IInv
<1>2. b.chain = c /\ BlockBuilt(N, b)
  BY <1>1, RootBuilt DEF BlockBuilt
<1>3. \A m \in O : m.block = b
  <2> HIDE DEF b
  <2> QED BY DEF ProposalMsg, PartMsgs
<1>4. t = [s EXCEPT !.proposal = b, !.blocks[c] = b, !.partSets[c] = ps,
                    !.out = @ \cup {ProposalMsg(c, IndexOf(n), b)} \cup PartMsgs(b, "full", {c})]
  BY DEF CreateBlockAndBroadcast
<1>5. NodeOK(n, t, msgs)
  BY CreateKept
<1>6. ps.block = b
  <2> HIDE DEF b
  <2> QED OBVIOUS
<1>7. s.out \cup {ProposalMsg(c, IndexOf(n), b)} \cup PartMsgs(b, "full", {c}) = s.out \cup O
  OBVIOUS
<1> HIDE DEF t, b, ps, O
<1>8. /\ t.up = s.up /\ t.root = s.root /\ t.out = s.out \cup O
      /\ t.blocks = [s.blocks EXCEPT ![c] = b] /\ t.partSets = [s.partSets EXCEPT ![c] = ps]
  BY <1>1, <1>4, <1>7 DEF IsState, StateFields
<1>9. /\ u.up = s.up /\ u.root = s.root /\ u.out = s.out
      /\ u.blocks = [s.blocks EXCEPT ![c] = b] /\ u.partSets = [s.partSets EXCEPT ![c] = ps]
  BY <1>1 DEF IsState, StateFields
<1> HIDE DEF u
<1>10. /\ u.partSets[c].block = b /\ u.blocks[c] \in {b, s.blocks[c]}
       /\ \A e \in Shard \ {c} : u.partSets[e] = s.partSets[e] /\ u.blocks[e] = s.blocks[e]
  BY <1>1, <1>6, <1>9
<1>11. SoundOK(u, msgs)
  <2>1. c \in Shard /\ BlockBuilt(msgs \cup s.out, b) /\ u.up = s.up /\ u.root = s.root /\ u.out = s.out
    BY <1>1, <1>2, <1>9
  <2>2. /\ u.partSets[c].block = b /\ u.blocks[c] \in {b, s.blocks[c]}
        /\ \A e \in Shard \ {c} : u.partSets[e] = s.partSets[e] /\ u.blocks[e] = s.blocks[e]
    BY <1>10
  <2>3. SoundOK(s, msgs)
    OBVIOUS
  <2> HIDE DEF c, N
  <2> QED BY <2>1, <2>2, <2>3, SoundReplaced
<1>12. /\ \A d \in Shard : u.partSets[d] # None => u.partSets[d].block.chain \in Shard
       /\ \A d \in Shard : u.blocks[d] # None => u.blocks[d].chain \in Shard
       /\ \A m \in msgs \cup u.out : m.type \in {"Proposal", "Part", "CSP"} => m.block.chain \in Shard
  BY <1>1, <1>5, <1>8, <1>9, ChainsKnown
<1>13. \A m \in O : BlockBuilt(msgs \cup u.out, m.block) /\ m.block.chain \in Shard
  BY <1>1, <1>2, <1>3, <1>9
<1>14. SoundOK(t, msgs)
  <2>1. /\ t.up = u.up /\ t.root = u.root /\ t.partSets = u.partSets /\ t.blocks = u.blocks
        /\ t.out = u.out \cup O
    BY <1>8, <1>9
  <2> QED BY <1>11, <1>12, <1>13, <2>1, SoundSent
<1> QED BY <1>5, <1>14 DEF Fine, t

LEMMA ClearedUp ==
  ASSUME NEW n, NEW s, IsState(s)
  PROVE  ClearAll(n, s).up = s.up
<1> DEFINE p == [s EXCEPT !.proposal = None]
           q == ClearVotes(n, p)
           u == ClearAll(n, s)
<1>1. IsState(p) /\ p.up = s.up
  BY DEF IsState, StateFields
<1>2. u = ClearCrossShardData(n, q)
  BY DEF ClearAll
<1> HIDE DEF p, u
<1>3. IsState(q) /\ q.up = p.up
  BY <1>1 DEF ClearVotes, IsState, StateFields
<1> HIDE DEF q
<1>4. u.up = q.up
  BY <1>2, <1>3 DEF ClearCrossShardData, IsState, StateFields
<1> QED BY <1>1, <1>3, <1>4 DEF u

\* enterNewHeight.
LEMMA EnterFine ==
  ASSUME NoneIsNil, IInv, NEW n \in Correct, NEW s, NEW body, Recorded(n, s, msgs),
         s.up, \A j \in 1..Len(s.root) : IsEntry(s.root[j]), MsgsBuilt(msgs \cup s.out)
  PROVE  Fine(n, EnterNewHeight(n, s, body))
<1> DEFINE u == ClearAll(n, s)
           t == [u EXCEPT !.height = s.height + 1, !.step = "Propose",
                          !.relay = {m \in @ : m.height > s.height}]
<1>1. IsState(s) /\ s.height \in Nat
  BY DEF Recorded
<1>2. u.up = s.up
  BY <1>1, ClearedUp
<1>3. Fresh(n, u) /\ SameControl(s, u)
  BY <1>1, Cleared
<1>4. EnterNewHeight(n, s, body) = IF IsProposer(n, t) THEN CreateBlockAndBroadcast(n, t, body) ELSE t
  BY DEF EnterNewHeight
<1> HIDE DEF u
<1>5. /\ t.up = s.up /\ t.root = s.root /\ t.out = s.out /\ t.height = s.height + 1
      /\ t.partSets = u.partSets /\ t.blocks = u.blocks
  BY <1>2, <1>3 DEF SameControl, IsState, StateFields
<1> HIDE DEF t
<1>6. \A d \in Shard : t.partSets[d] = None /\ t.blocks[d] = None
  BY <1>3, <1>5 DEF Fresh
<1>7. SoundOK(t, msgs)
  BY <1>5, <1>6 DEF SoundOK, Sound
<1>8. t.height # 0
  BY <1>1, <1>5
<1>9. NodeOK(n, t, msgs) /\ Fresh(n, t)
  BY EnterOpens DEF t, u
<1>10. Fine(n, t)
  BY <1>7, <1>9 DEF Fine
<1> QED BY <1>4, <1>7, <1>8, <1>9, <1>10, CreateFine

\* doCSC.
LEMMA CommitFine ==
  ASSUME NoneIsNil, IInv, NEW n \in Correct, NEW s, Fine(n, s), NEW body,
         s.step = "CrossShardCommit",
         \/ ChainOf(n) \in IShards /\ FinishCrossShardCommit_I(n, s)
         \/ ChainOf(n) \in CShards /\ FinishCrossShardCommit_B(n, s)
  PROVE  Fine(n, DoCSC(n, s, body))
<1> DEFINE e == ExecutionAllBlocks(n, s)
           u == [s EXCEPT !.root = Append(@, e), !.resume = TRUE]
<1>1. NodeOK(n, s, msgs) /\ IsState(s) /\ Sound(s, msgs \cup s.out) /\ MsgsBuilt(msgs \cup s.out)
  BY DEF Fine, NodeOK, SoundOK
<1>2. Recorded(n, u, msgs)
  BY <1>1, ExecutionRecorded
<1>3. IsEntry(e)
  BY DEF IsEntry, ExecutionAllBlocks
<1>4. DoCSC(n, s, body) = EnterNewHeight(n, u, body)
  BY DEF DoCSC
<1> HIDE DEF e
<1>5. u.up = s.up /\ u.out = s.out /\ u.root = Append(s.root, e)
  BY <1>1 DEF IsState, StateFields
<1> HIDE DEF u
<1>6. PICK S : s.root \in Seq(S)
  BY <1>1 DEF NodeOK, HistoryOK
<1>7. \A j \in 1..Len(u.root) : IsEntry(u.root[j])
  <2>1. s.root \in Seq(S \cup {e})
    BY <1>6, SeqMonotonic
  <2>2. /\ Len(u.root) = Len(s.root) + 1 /\ Len(s.root) \in Nat
        /\ \A j \in 1..Len(s.root) : u.root[j] = s.root[j]
        /\ u.root[Len(s.root) + 1] = e
    BY <1>5, <2>1, AppendProperties
  <2> TAKE j \in 1..Len(u.root)
  <2>3. j \in 1..Len(s.root) \/ j = Len(s.root) + 1
    BY <2>2
  <2> QED BY <1>1, <1>3, <2>2, <2>3 DEF Sound
<1>8. Fine(n, EnterNewHeight(n, u, body))
  BY <1>1, <1>2, <1>5, <1>7, EnterFine DEF Sound
<1> QED BY <1>4, <1>8

LEMMA TransitionFine ==
  ASSUME NoneIsNil, AnswersOK, IInv, NEW n \in Correct, NEW s, Fine(n, s), NEW body
  PROVE  Fine(n, HandleStateTransition(n, s, body))
<1> DEFINE p == ProposeStep(n, s)
           q == PrevoteStep(n, p)
           r == PrecommitStep(n, q)
           t == CrossShardStep(n, r)
<1>1. Fine(n, p)
  BY ProposeFine DEF ProposeStep, AtStep
<1> HIDE DEF p
<1>2. Fine(n, q)
  BY <1>1, PrevoteFine DEF PrevoteStep, AtStep, FinishPrevote
<1> HIDE DEF q
<1>3. Fine(n, r)
  BY <1>2, PrecommitFine DEF PrecommitStep, AtStep, FinishPrecommit, FinishPrevote
<1> HIDE DEF r
<1>4. Fine(n, t)
  BY <1>3, CrossShardFine
<1> HIDE DEF t
<1>5. Fine(n, CommitStep(n, t, body))
  <2> DEFINE ready == /\ AtStep(t, "CrossShardCommit")
                      /\ \/ ChainOf(n) \in IShards /\ FinishCrossShardCommit_I(n, t)
                         \/ ChainOf(n) \in CShards /\ FinishCrossShardCommit_B(n, t)
  <2>1. CASE ready
    <3>1. CommitStep(n, t, body) = DoCSC(n, t, body)
      BY <2>1 DEF CommitStep
    <3>2. Fine(n, DoCSC(n, t, body))
      BY <1>4, <2>1, CommitFine DEF AtStep
    <3> QED BY <3>1, <3>2
  <2>2. CASE ~ready
    <3>1. CommitStep(n, t, body) = t
      BY <2>2 DEF CommitStep
    <3> QED BY <1>4, <3>1
  <2> QED BY <2>1, <2>2
<1>6. HandleStateTransition(n, s, body) = CommitStep(n, t, body)
  BY DEF HandleStateTransition, t, r, q, p
<1> QED BY <1>5, <1>6

LEMMA HandlerFine ==
  ASSUME NoneIsNil, AnswersOK, IInv, NEW n \in Correct, NEW s, Fine(n, s),
         NEW m \in msgs, m.to = ChainOf(n), NEW body
  PROVE  Fine(n, DoMessage(n, s, m, body))
BY MessageFine, TransitionFine DEF DoMessage, Handled

\* Every node is up, and every block on the network and in a node was built
\* on the history of its chain.
SoundInv == MsgsBuilt(msgs) /\ \A n \in Correct : Sound(st[n], msgs)

LEMMA RestIsFine ==
  ASSUME IInv, SoundInv, NEW n \in Correct
  PROVE  Fine(n, st[n])
<1>1. NodeOK(n, st[n], msgs) /\ st[n].out = {} /\ msgs \cup st[n].out = msgs
  BY DEF IInv
<1>2. Sound(st[n], msgs) /\ MsgsBuilt(msgs)
  BY DEF SoundInv
<1> QED BY <1>1, <1>2 DEF Fine, SoundOK

LEMMA BecomeSound ==
  ASSUME IInv, SoundInv, NEW n \in Correct, NEW s, Fine(n, s),
         st' = [st EXCEPT ![n] = [s EXCEPT !.out = {}]], msgs' = msgs \cup s.out
  PROVE  SoundInv'
<1>1. /\ Sound(s, msgs') /\ MsgsBuilt(msgs') /\ IsState(s) /\ DOMAIN st = Correct
  BY DEF Fine, SoundOK, NodeOK, IInv
<1> DEFINE t == [s EXCEPT !.out = {}]
<1>2. t.up = s.up /\ t.root = s.root /\ t.partSets = s.partSets /\ t.blocks = s.blocks
  BY <1>1 DEF IsState, StateFields
<1>3. st' = [st EXCEPT ![n] = t]
  OBVIOUS
<1> HIDE DEF t
<1>4. st'[n] = t /\ \A k \in Correct \ {n} : st'[k] = st[k]
  BY <1>1, <1>3
<1>5. Sound(t, msgs')
  BY <1>1, <1>2 DEF Sound
<1>6. ASSUME NEW k \in Correct \ {n} PROVE Sound(st[k], msgs')
  <2> DEFINE r == st[k]
             N == msgs'
  <2>1. /\ NodeOK(k, r, msgs) /\ Sound(r, msgs) /\ \A m \in msgs : WellFormed(m)
    BY DEF IInv, SoundInv
  <2>2. msgs \subseteq N
    OBVIOUS
  <2> HIDE DEF r, N
  <2>3. /\ \A d \in Shard : r.partSets[d] # None => r.partSets[d].block.chain = d
        /\ \A d \in Shard : r.blocks[d] # None => r.blocks[d].chain = d
    BY <2>1, ChainsKnown
  <2>4. \A b : b.chain \in Shard /\ BlockBuilt(msgs, b) => BlockBuilt(N, b)
    BY <2>2, BuiltGrows DEF BlockBuilt
  <2>5. \A d \in Shard : /\ r.partSets[d] # None => BlockBuilt(N, r.partSets[d].block)
                         /\ r.blocks[d] # None => BlockBuilt(N, r.blocks[d])
    BY <2>1, <2>3, <2>4 DEF Sound
  <2>6. Sound(r, N)
    BY <2>1, <2>5 DEF Sound
  <2> QED BY <2>6 DEF r, N
<1>7. \A k \in Correct : Sound(st'[k], msgs')
  BY <1>4, <1>5, <1>6
<1> QED BY <1>1, <1>7 DEF SoundInv

LEMMA NextSound ==
  ASSUME NoneIsNil, AnswersOK, IInv, SoundInv, [Next]_vars
  PROVE  SoundInv'
<1>1. CASE UNCHANGED vars
  BY <1>1 DEF vars, SoundInv
<1>2. CASE \E n \in Correct : Step(n)
  <2>1. PICK n \in Correct, body \in Body : Start(n, body) \/ Handle(n, body)
    BY <1>2 DEF Step
  <2>2. Fine(n, st[n]) /\ NodeOK(n, st[n], msgs) /\ IsState(st[n]) /\ msgs \cup st[n].out = msgs
    BY RestIsFine DEF Fine, NodeOK, IInv
  <2>3. CASE Start(n, body)
    <3>1. Recorded(n, st[n], msgs)
      BY <2>2, <2>3 DEF Start, NodeOK, HistoryOK, Recorded
    <3>2. /\ st[n].up /\ \A j \in 1..Len(st[n].root) : IsEntry(st[n].root[j])
          /\ MsgsBuilt(msgs \cup st[n].out)
      BY <2>2 DEF SoundInv, Sound
    <3>3. Fine(n, EnterNewHeight(n, st[n], body))
      BY <3>1, <3>2, EnterFine
    <3> QED BY <2>3, <3>3, BecomeSound DEF Start, Become
  <2>4. CASE \E m \in msgs : Receive(n, m, body)
    <3>1. PICK m \in msgs : Receive(n, m, body)
      BY <2>4
    <3>2. Become(n, DoMessage(n, st[n], m, body)) /\ m.to = ChainOf(n)
      BY <3>1 DEF Receive
    <3>3. Fine(n, DoMessage(n, st[n], m, body))
      BY <2>2, <3>2, HandlerFine
    <3> QED BY <3>2, <3>3, BecomeSound DEF Become
  <2>5. CASE \E m \in st[n].relay : Replay(n, m, body)
    <3>1. PICK m \in st[n].relay : Replay(n, m, body)
      BY <2>5
    <3> DEFINE t == [st[n] EXCEPT !.relay = @ \ {m}]
    <3>2. m \in msgs /\ m.to = ChainOf(n)
      BY <2>2, <3>1 DEF NodeOK, RelayOK
    <3>3. /\ IsState(t) /\ SameCollected(st[n], t) /\ t.height = st[n].height /\ t.step = st[n].step
          /\ t.root = st[n].root /\ t.relay \subseteq st[n].relay /\ t.out = st[n].out /\ t.up = st[n].up
      BY <2>2 DEF IsState, StateFields, SameCollected, SamePrevotes, SamePrecommits, SameBlocks, SameAccepts
    <3>4. Become(n, DoMessage(n, t, m, body))
      BY <3>1 DEF Replay
    <3> HIDE DEF t
    <3>5. NodeOK(n, t, msgs)
      BY <2>2, <3>3, DroppedKept
    <3>6. Fine(n, t)
      BY <2>2, <3>3, <3>5, FineSame DEF SameCollected, SameBlocks
    <3>7. Fine(n, DoMessage(n, t, m, body))
      BY <3>2, <3>6, HandlerFine
    <3> QED BY <3>4, <3>7, BecomeSound DEF Become
  <2>6. CASE Resume(n, body)
    <3> DEFINE t == [st[n] EXCEPT !.resume = FALSE]
    <3>1. /\ IsState(t) /\ SameCollected(st[n], t) /\ t.height = st[n].height /\ t.step = st[n].step
          /\ t.root = st[n].root /\ t.relay \subseteq st[n].relay /\ t.out = st[n].out /\ t.up = st[n].up
      BY <2>2 DEF IsState, StateFields, SameCollected, SamePrevotes, SamePrecommits, SameBlocks, SameAccepts
    <3>2. Become(n, HandleStateTransition(n, t, body))
      BY <2>6 DEF Resume
    <3> HIDE DEF t
    <3>3. NodeOK(n, t, msgs)
      BY <2>2, <3>1, DroppedKept
    <3>4. Fine(n, t)
      BY <2>2, <3>1, <3>3, FineSame DEF SameCollected, SameBlocks
    <3>5. Fine(n, HandleStateTransition(n, t, body))
      BY <3>4, TransitionFine
    <3> QED BY <3>2, <3>5, BecomeSound DEF Become
  <2> QED BY <2>1, <2>3, <2>4, <2>5, <2>6 DEF Handle
<1>3. CASE Terminated
  BY <1>1, <1>3 DEF Terminated
<1> QED BY <1>1, <1>2, <1>3 DEF Next

\* No correct node meets a block whose state or receipts differ from its own
\* (the panics of doPropose), as long as the faulty validators send no blocks
\* of their own; they may be silent, and vote on and answer what they like.
THEOREM NeverPanics ==
  ASSUME NoneIsNil, AnswersOK, \A m \in FaultyMsg : m.type \notin {"Proposal", "Part", "CSP"}
  PROVE  Spec => []NoPanic
<1>1. Init => SoundInv
  <2> SUFFICES ASSUME Init PROVE SoundInv
    OBVIOUS
  <2>1. msgs = FaultyMsg /\ \A n \in Correct : st[n] = NewState(n)
    BY DEF Init
  <2>2. ASSUME NEW n \in Correct PROVE Sound(st[n], msgs)
    <3> DEFINE r == [up |-> TRUE, height |-> 0, step |-> "NewHeight", root |-> <<>>,
                     relay |-> {}, resume |-> FALSE, out |-> {},
                     proposal |-> None, prevotes |-> None, prevoteBits |-> {}, prevoteTotal |-> 0,
                     precommits |-> None, precommitBits |-> {}, precommitTotal |-> 0,
                     csps |-> {}, csas |-> None, counter |-> 0, cscs |-> None,
                     partSets |-> None, blocks |-> None, buffer |-> {}]
               t == ClearAll(n, r)
    <3>1. IsState(r) /\ r.up = TRUE /\ r.root = <<>>
      BY DEF IsState, StateFields
    <3>2. NewState(n) = t
      BY DEF NewState
    <3> HIDE DEF r
    <3>3. Fresh(n, t) /\ SameControl(r, t) /\ t.up = r.up
      BY <3>1, Cleared, ClearedUp
    <3> HIDE DEF t
    <3>4. t.up /\ Len(t.root) = 0
      BY <3>1, <3>3 DEF SameControl
    <3>5. \A d \in Shard : t.partSets[d] = None /\ t.blocks[d] = None
      BY <3>3 DEF Fresh
    <3> QED BY <2>1, <3>2, <3>4, <3>5 DEF Sound
  <2> QED BY <2>1, <2>2 DEF SoundInv, MsgsBuilt
<1>2. IInv /\ SoundInv /\ [Next]_vars => SoundInv'
  BY NextSound
<1>3. SoundInv => NoPanic
  BY DEF SoundInv, Sound, NoPanic
<1>4. Spec => []IInv
  BY Backed
<1> QED BY <1>1, <1>2, <1>3, <1>4, PTL DEF Spec
-----------------------------------------------------------------------------
(* The certified blocks of a node's own shard.                             *)
(*                                                                         *)
(* A node takes a cross-shard proposal for the chain in its header, its    *)
(* own chain included.  No code sends one to the shard it comes from, and  *)
(* as long as no faulty validator does, a node whose own chain is in csps  *)
(* has an agreed proposal.                                                 *)

ToNeighbours(M) == \A m \in M : m.type = "CSP" => m.to # m.block.chain

CSPsOK(n, s, M) ==
  /\ s.csps \subseteq Shard
  /\ ChainOf(n) \in s.csps => s.proposal # None /\ Agreed(M, ChainOf(n), s.proposal)

Certified(n, s) ==
  NodeOK(n, s, msgs) /\ ToNeighbours(msgs \cup s.out) /\ CSPsOK(n, s, msgs \cup s.out)

\* A function that certifies no other proposal.
LEMMA CertifiedSame ==
  ASSUME NEW n \in Correct, NEW s, NEW t, NEW O, Certified(n, s), NodeOK(n, t, msgs),
         t.out = s.out \cup O, ToNeighbours(O),
         t.csps \subseteq Shard, ChainOf(n) \in t.csps => ChainOf(n) \in s.csps,
         t.proposal = s.proposal \/ s.proposal = None
  PROVE  Certified(n, t)
<1>1. ChainOf(n) \in Shard
  BY Nodes
<1>2. ToNeighbours(msgs \cup t.out)
  BY DEF Certified, ToNeighbours
<1>3. ASSUME ChainOf(n) \in t.csps
      PROVE  t.proposal # None /\ Agreed(msgs \cup t.out, ChainOf(n), t.proposal)
  <2>1. s.proposal # None /\ Agreed(msgs \cup s.out, ChainOf(n), s.proposal) /\ t.proposal = s.proposal
    BY <1>3 DEF Certified, CSPsOK
  <2>2. msgs \cup s.out \subseteq msgs \cup t.out
    OBVIOUS
  <2> QED BY <1>1, <2>1, <2>2, AgreedGrows
<1> QED BY <1>2, <1>3 DEF Certified, CSPsOK

\* What AddX may do.
LEMMA Added ==
  ASSUME NEW n, NEW s, NEW m, m.height \in Nat, s.height \in Nat
  PROVE  LET t == AddMessage(n, s, m).state IN
         \/ t = s
         \/ t = AddRelayMessage(s, m)
         \/ t = [s EXCEPT !.buffer = @ \cup {m}]
         \/ t = AddPart(s, m)
         \/ t = AddPrevote(n, s, m)
         \/ t = AddPrecommit(n, s, m)
         \/ t = AddCrossShardAccept(s, m)
         \/ CanAddProposal(n, s, m) /\ t = AddProposal(n, s, m)
         \/ m.type = "CSP" /\ t = AddCrossShardProposal(s, m)
         \/ t = AddCrossShardCommit(n, s, m)
<1> DEFINE t == AddMessage(n, s, m).state
<1>1. CASE OverTime(s, m)
  <2>1. m.height # s.height
    BY <1>1 DEF OverTime
  <2>2. t = AddRelayMessage(s, m)
    BY <1>1, <2>1 DEF AddMessage, Error, Nil, CanAddProposal, CanBufferPart, CanAddPart, CanAddPrevote,
              CanAddPrecommit, CanAddCSP, CanAddCSA, CanAddCSC
  <2> QED BY <2>2
<1>2. CASE m.type = "Proposal" /\ CanAddProposal(n, s, m) /\ ~OverTime(s, m)
  BY <1>2 DEF AddMessage, Nil
<1>3. CASE m.type = "Part" /\ CanBufferPart(s, m) /\ ~OverTime(s, m)
  <2>1. ~CanAddPart(s, m)
    BY <1>3 DEF CanBufferPart, CanAddPart
  <2> QED BY <1>3, <2>1 DEF AddMessage, Error
<1>4. CASE m.type = "Part" /\ CanAddPart(s, m) /\ ~OverTime(s, m)
  <2>1. ~CanBufferPart(s, m)
    BY <1>4 DEF CanBufferPart, CanAddPart
  <2> QED BY <1>4, <2>1 DEF AddMessage, Nil
<1>5. CASE m.type = "Prevote" /\ CanAddPrevote(s, m) /\ ~OverTime(s, m)
  BY <1>5 DEF AddMessage, Nil
<1>6. CASE m.type = "Precommit" /\ CanAddPrecommit(s, m) /\ ~OverTime(s, m)
  BY <1>6 DEF AddMessage, Nil
<1>7. CASE m.type = "CSP" /\ CanAddCSP(s, m) /\ ~OverTime(s, m)
  BY <1>7 DEF AddMessage, Nil
<1>8. CASE m.type = "CSA" /\ CanAddCSA(n, s, m) /\ ~OverTime(s, m)
  BY <1>8 DEF AddMessage
<1>9. CASE m.type = "CSC" /\ CanAddCSC(n, s, m) /\ ~OverTime(s, m)
  BY <1>9 DEF AddMessage, Nil
<1>10. CASE /\ ~OverTime(s, m)
            /\ ~(m.type = "Proposal" /\ CanAddProposal(n, s, m))
            /\ ~(m.type = "Part" /\ CanBufferPart(s, m))
            /\ ~(m.type = "Part" /\ CanAddPart(s, m))
            /\ ~(m.type = "Prevote" /\ CanAddPrevote(s, m))
            /\ ~(m.type = "Precommit" /\ CanAddPrecommit(s, m))
            /\ ~(m.type = "CSP" /\ CanAddCSP(s, m))
            /\ ~(m.type = "CSA" /\ CanAddCSA(n, s, m))
            /\ ~(m.type = "CSC" /\ CanAddCSC(n, s, m))
  BY <1>10 DEF AddMessage, Error
<1> QED BY <1>1, <1>2, <1>3, <1>4, <1>5, <1>6, <1>7, <1>8, <1>9, <1>10

LEMMA MessageCertified ==
  ASSUME NoneIsNil, IInv, NEW n \in Correct, NEW s, Certified(n, s), NEW m \in msgs, m.to = ChainOf(n)
  PROVE  Certified(n, AddMessage(n, s, m).state)
<1> DEFINE t == AddMessage(n, s, m).state
           O == IF ChainOf(n) \in IShards
                THEN CSCMsgs(m.height, m.csc, Related[ChainOf(n)] \ {m.csc.upper}) ELSE {}
<1>1. /\ NodeOK(n, s, msgs) /\ IsState(s) /\ WellFormed(m) /\ (m.type = "CSP" => m.block.chain # ChainOf(n))
      /\ m.height \in Nat /\ s.height \in Nat /\ s.csps \subseteq Shard
      /\ m.type = "CSP" => m.block.chain \in Shard
  BY DEF Certified, CSPsOK, ToNeighbours, NodeOK, IInv, WellFormed
<1>2. NodeOK(n, t, msgs)
  BY <1>1, MessageKept
<1>3. ToNeighbours(O) /\ ToNeighbours({})
  BY DEF CSCMsgs, ToNeighbours
<1> DEFINE Quiet(u) == u.out = s.out /\ u.csps = s.csps /\ u.proposal = s.proposal
<1>4. /\ Quiet(s) /\ Quiet(AddRelayMessage(s, m)) /\ Quiet([s EXCEPT !.buffer = @ \cup {m}])
      /\ Quiet(AddPart(s, m)) /\ Quiet(AddPrevote(n, s, m)) /\ Quiet(AddPrecommit(n, s, m))
      /\ Quiet(AddCrossShardAccept(s, m))
  BY <1>1 DEF IsState, StateFields, AddRelayMessage, AddPart, AddPrevote, AddPrecommit, AddCrossShardAccept
<1>5. CASE Quiet(t)
  <2> HIDE DEF t
  <2>1. t.out = s.out \cup {}
    BY <1>5
  <2> QED BY <1>1, <1>2, <1>3, <1>5, <2>1, CertifiedSame DEF t
<1>6. CASE CanAddProposal(n, s, m) /\ t = AddProposal(n, s, m)
  <2> DEFINE u == OpenPartSet(s, m.block, "full")
             pv == VotersFor(s.prevotes, m.block)
             pc == VotersFor(s.precommits, m.block)
  <2>1. IsState(u) /\ u.out = s.out /\ u.csps = s.csps
    BY <1>1 DEF IsState, StateFields, OpenPartSet
  <2>2. t = [u EXCEPT !.proposal = m.block,
                      !.prevoteBits = @ \cup pv,
                      !.prevoteTotal = @ + Power(Votes[ChainOf(n)], pv),
                      !.precommitBits = @ \cup pc,
                      !.precommitTotal = @ + Power(Votes[ChainOf(n)], pc)]
    BY <1>6 DEF AddProposal
  <2> HIDE DEF t, u, pv, pc
  <2>3. t.out = s.out \cup {} /\ t.csps = s.csps
    BY <2>1, <2>2 DEF IsState, StateFields
  <2>4. s.proposal = None
    BY <1>6 DEF CanAddProposal
  <2> QED BY <1>1, <1>2, <1>3, <2>3, <2>4, CertifiedSame DEF t
<1>7. CASE m.type = "CSP" /\ t = AddCrossShardProposal(s, m)
  <2> DEFINE u == OpenPartSet(s, m.block, m.kind)
  <2>1. IsState(u) /\ u.out = s.out /\ u.csps = s.csps /\ u.proposal = s.proposal
    BY <1>1 DEF IsState, StateFields, OpenPartSet
  <2>2. t = [u EXCEPT !.csps = @ \cup {m.block.chain}]
    BY <1>7 DEF AddCrossShardProposal
  <2> HIDE DEF t, u
  <2>3. t.out = s.out \cup {} /\ t.csps = s.csps \cup {m.block.chain} /\ t.proposal = s.proposal
    BY <2>1, <2>2 DEF IsState, StateFields
  <2>4. t.csps \subseteq Shard /\ (ChainOf(n) \in t.csps => ChainOf(n) \in s.csps)
    BY <1>1, <1>7, <2>3
  <2> QED BY <1>2, <1>3, <2>3, <2>4, CertifiedSame DEF t
<1>8. CASE t = AddCrossShardCommit(n, s, m)
  <2>1. t = [s EXCEPT
              !.cscs[m.csc.upper] = m.csc,
              !.out = IF ChainOf(n) \in IShards
                      THEN @ \cup CSCMsgs(m.height, m.csc, Related[ChainOf(n)] \ {m.csc.upper})
                      ELSE @]
    BY <1>8 DEF AddCrossShardCommit
  <2> HIDE DEF t
  <2>2. t.out = s.out \cup O /\ t.csps = s.csps /\ t.proposal = s.proposal
    BY <1>1, <2>1 DEF IsState, StateFields
  <2> HIDE DEF O
  <2> QED BY <1>1, <1>2, <1>3, <2>2, CertifiedSame DEF t
<1>9. \/ Quiet(t)
      \/ CanAddProposal(n, s, m) /\ t = AddProposal(n, s, m)
      \/ m.type = "CSP" /\ t = AddCrossShardProposal(s, m)
      \/ t = AddCrossShardCommit(n, s, m)
  <2> HIDE DEF Quiet
  <2> QED BY <1>1, <1>4, Added
<1> QED BY <1>5, <1>6, <1>7, <1>8, <1>9

\* doPropose and doPrevote.
LEMMA ProposeCertified ==
  ASSUME NEW n \in Correct, NEW s, Certified(n, s), s.step = "Propose", FinishProposal(n, s)
  PROVE  Certified(n, DoPropose(n, s))
<1> DEFINE m == PrevoteMsg(n, s.blocks[ChainOf(n)])
           u == AddPrevote(n, s, m)
           v == [u EXCEPT !.out = @ \cup {m}, !.step = NextStep[@]]
           t == DoPropose(n, s)
<1>1. NodeOK(n, s, msgs) /\ IsState(s) /\ s.csps \subseteq Shard
  BY DEF Certified, CSPsOK, NodeOK
<1>2. NodeOK(n, t, msgs)
  BY <1>1, ProposeKept
<1>3. t = [s EXCEPT !.up = FALSE] \/ t = v
  BY DEF DoPropose
<1>4. m.type = "Prevote"
  BY DEF PrevoteMsg
<1> HIDE DEF m, t
<1>5. IsState(u) /\ u.out = s.out /\ u.csps = s.csps /\ u.proposal = s.proposal
  BY <1>1 DEF IsState, StateFields, AddPrevote
<1> HIDE DEF u
<1>6. v.out = s.out \cup {m} /\ v.csps = s.csps /\ v.proposal = s.proposal
  BY <1>5 DEF IsState, StateFields
<1>7. ToNeighbours({}) /\ ToNeighbours({m})
  BY <1>4 DEF ToNeighbours
<1> HIDE DEF v
<1>8. CASE t = [s EXCEPT !.up = FALSE]
  <2>1. t.out = s.out \cup {} /\ t.csps = s.csps /\ t.proposal = s.proposal
    BY <1>1, <1>8 DEF IsState, StateFields
  <2> QED BY <1>1, <1>2, <1>7, <2>1, CertifiedSame DEF t
<1>9. CASE t = v
  BY <1>1, <1>2, <1>6, <1>7, <1>9, CertifiedSame DEF t
<1> QED BY <1>3, <1>8, <1>9

LEMMA PrevoteCertified ==
  ASSUME NEW n \in Correct, NEW s, Certified(n, s), s.step = "Prevote", FinishProposal(n, s)
  PROVE  Certified(n, DoPrevote(n, s))
<1> DEFINE m == PrecommitMsg(n, s.blocks[ChainOf(n)])
           u == AddPrecommit(n, s, m)
           t == DoPrevote(n, s)
<1>1. NodeOK(n, s, msgs) /\ IsState(s) /\ s.csps \subseteq Shard
  BY DEF Certified, CSPsOK, NodeOK
<1>2. NodeOK(n, t, msgs)
  BY <1>1, PrevoteKept
<1>3. t = [u EXCEPT !.out = @ \cup {m}, !.step = NextStep[@]]
  BY DEF DoPrevote
<1>4. m.type = "Precommit"
  BY DEF PrecommitMsg
<1> HIDE DEF m, t
<1>5. IsState(u) /\ u.out = s.out /\ u.csps = s.csps /\ u.proposal = s.proposal
  BY <1>1 DEF IsState, StateFields, AddPrecommit
<1> HIDE DEF u
<1>6. t.out = s.out \cup {m} /\ t.csps = s.csps /\ t.proposal = s.proposal
  BY <1>1, <1>3, <1>5 DEF IsState, StateFields
<1>7. ToNeighbours({m})
  BY <1>4 DEF ToNeighbours
<1> QED BY <1>1, <1>2, <1>6, <1>7, CertifiedSame DEF t

\* doPrecommit: the node has an agreed proposal, and its own shard is none
\* of the neighbours.
LEMMA PrecommitCertified ==
  ASSUME IInv, NEW n \in Correct, NEW s, Certified(n, s), s.step = "Precommit", FinishPrecommit(n, s)
  PROVE  Certified(n, DoPrecommit(n, s))
<1> DEFINE c == ChainOf(n)
           b == s.blocks[c]
           kind == IF c \in IShards THEN "full" ELSE "cross"
           dests == IF c \in IShards THEN Related[c] ELSE Related[c] \cup Related2Level(c)
           certs == CSPMsgs(b, kind, s.precommitBits, dests)
           parts == PartMsgs(b, kind, dests)
           O == IF IsProposer(n, s) THEN certs \cup parts ELSE {}
           t == DoPrecommit(n, s)
<1>1. /\ NodeOK(n, s, msgs) /\ IsState(s) /\ s.csps \subseteq Shard /\ ToNeighbours(msgs \cup s.out)
      /\ c \in Shard /\ b # None /\ s.proposal # None /\ \A p \in msgs : WellFormed(p)
  BY Nodes DEF Certified, CSPsOK, NodeOK, IInv, FinishPrecommit, FinishPrevote, FinishProposal
<1>2. b.chain = c
  BY <1>1, ChainsKnown
<1>3. NodeOK(n, t, msgs)
  BY <1>1, PrecommitKept DEF FinishPrecommit, FinishPrevote
<1>4. c \notin dests
  BY <1>1, MeleteAssumption DEF TopologyOK, Shard, Related2Level
<1>5. Agreed(msgs \cup s.out, c, s.proposal)
  BY <1>1, FinishedIsAgreed
<1>6. t = [s EXCEPT !.csps = @ \cup {c},
                    !.out = IF IsProposer(n, s) THEN @ \cup certs \cup parts ELSE @,
                    !.step = NextStep[@]]
  BY DEF DoPrecommit
<1> HIDE DEF t, b, dests, kind
<1>7. \A m \in certs \cup parts : m.type = "CSP" => m.to # m.block.chain
  BY <1>2, <1>4 DEF CSPMsgs, PartMsgs
<1> HIDE DEF certs, parts
<1>8. t.csps = s.csps \cup {c} /\ t.proposal = s.proposal /\ t.out = s.out \cup O
  BY <1>1, <1>6 DEF IsState, StateFields
<1>9. ToNeighbours(msgs \cup t.out)
  BY <1>1, <1>7, <1>8 DEF ToNeighbours
<1>10. msgs \cup s.out \subseteq msgs \cup t.out
  BY <1>8
<1>11. Agreed(msgs \cup t.out, c, t.proposal)
  BY <1>1, <1>5, <1>8, <1>10, AgreedGrows
<1>12. CSPsOK(n, t, msgs \cup t.out)
  BY <1>1, <1>8, <1>11 DEF CSPsOK
<1> QED BY <1>3, <1>9, <1>12 DEF Certified, t

\* doCSA and doCSP.
LEMMA CrossShardCertified ==
  ASSUME AnswersOK, NEW n \in Correct, NEW s, Certified(n, s)
  PROVE  Certified(n, CrossShardStep(n, s))
<1>1. NodeOK(n, s, msgs) /\ IsState(s) /\ s.csps \subseteq Shard
  BY DEF Certified, CSPsOK, NodeOK
<1>2. NodeOK(n, CrossShardStep(n, s), msgs)
  BY <1>1, CrossShardStepKept
<1>3. CASE CrossShardStep(n, s) = DoCSA(n, s)
  <2> DEFINE t == DoCSA(n, s)
             x(d) == CSAMsg(n, d, s.height, [e \in Related[ChainOf(n)] |-> s.blocks[e]][d],
                            PreExecutionI(ChainOf(n), s.root,
                                          [e \in Related[ChainOf(n)] |-> s.blocks[e]])[d])
             O == {x(d) : d \in Related[ChainOf(n)]}
  <2>1. t = [s EXCEPT !.out = @ \cup O, !.step = NextStep[@]]
    BY DEF DoCSA
  <2>2. \A m \in O : m.type = "CSA"
    <3>1. \A d : x(d).type = "CSA"
      BY DEF CSAMsg
    <3> HIDE DEF x
    <3> QED BY <3>1
  <2> HIDE DEF t, O
  <2>3. t.out = s.out \cup O /\ t.csps = s.csps /\ t.proposal = s.proposal
    BY <1>1, <2>1 DEF IsState, StateFields
  <2>4. NodeOK(n, t, msgs) /\ ToNeighbours(O)
    BY <1>2, <1>3, <2>2 DEF t, ToNeighbours
  <2> QED BY <1>1, <1>3, <2>3, <2>4, CertifiedSame DEF t
<1>4. CASE CrossShardStep(n, s) = DoCSP(n, s)
  <2> DEFINE t == DoCSP(n, s)
             csc == GenerateCrossShardCommit(n, s)
             C == CSCMsgs(s.height, csc, Related[ChainOf(n)])
             O == IF IsProposer(n, s) THEN C ELSE {}
  <2>1. t = [s EXCEPT !.cscs[ChainOf(n)] = csc,
                      !.out = IF IsProposer(n, s) THEN @ \cup C ELSE @,
                      !.step = NextStep[@]]
    BY DEF DoCSP
  <2>2. \A m \in C : m.type = "CSC"
    BY DEF CSCMsgs
  <2> HIDE DEF t, C, csc
  <2>3. t.out = s.out \cup O /\ t.csps = s.csps /\ t.proposal = s.proposal
    BY <1>1, <2>1 DEF IsState, StateFields
  <2>4. NodeOK(n, t, msgs) /\ ToNeighbours(O)
    BY <1>2, <1>4, <2>2 DEF t, ToNeighbours
  <2> HIDE DEF O
  <2> QED BY <1>1, <1>4, <2>3, <2>4, CertifiedSame DEF t
<1>5. CASE CrossShardStep(n, s) = s
  BY <1>5
<1> QED BY <1>3, <1>4, <1>5 DEF CrossShardStep

LEMMA ClearedCSPs ==
  ASSUME NEW n, NEW s, IsState(s)
  PROVE  ClearAll(n, s).csps = {}
<1> DEFINE p == [s EXCEPT !.proposal = None]
           q == ClearVotes(n, p)
           u == ClearAll(n, s)
<1>1. IsState(p)
  BY DEF IsState, StateFields
<1>2. u = ClearCrossShardData(n, q)
  BY DEF ClearAll
<1> HIDE DEF p, u
<1>3. IsState(q)
  BY <1>1 DEF ClearVotes, IsState, StateFields
<1> HIDE DEF q
<1>4. u.csps = {}
  BY <1>2, <1>3 DEF ClearCrossShardData, IsState, StateFields
<1> QED BY <1>4 DEF u

\* enterNewHeight: no chain is certified in a new height.
LEMMA EnterCertified ==
  ASSUME NoneIsNil, NEW n \in Correct, NEW s, NEW body, Recorded(n, s, msgs),
         ToNeighbours(msgs \cup s.out)
  PROVE  Certified(n, EnterNewHeight(n, s, body))
<1> DEFINE u == ClearAll(n, s)
           t == [u EXCEPT !.height = s.height + 1, !.step = "Propose",
                          !.relay = {m \in @ : m.height > s.height}]
           c == ChainOf(n)
           b == [chain |-> c, height |-> t.height, body |-> body, root |-> t.root]
           O == {ProposalMsg(c, IndexOf(n), b)} \cup PartMsgs(b, "full", {c})
           r == CreateBlockAndBroadcast(n, t, body)
           e == EnterNewHeight(n, s, body)
<1>1. IsState(s)
  BY DEF Recorded
<1>2. IsState(u) /\ u.csps = {} /\ u.out = s.out
  BY <1>1, Cleared, ClearedCSPs DEF SameControl
<1>3. e = IF IsProposer(n, t) THEN r ELSE t
  BY DEF EnterNewHeight
<1>4. NodeOK(n, e, msgs)
  BY EnterKept
<1>5. r = [t EXCEPT !.proposal = b, !.blocks[c] = b,
                    !.partSets[c] = [block |-> b, kind |-> "full", got |-> 1..PartTotal(b, "full")],
                    !.out = @ \cup {ProposalMsg(c, IndexOf(n), b)} \cup PartMsgs(b, "full", {c})]
  BY DEF CreateBlockAndBroadcast
<1>6. \A m \in O : m.type # "CSP"
  <2> HIDE DEF b
  <2> QED BY DEF ProposalMsg, PartMsgs
<1> HIDE DEF u, b, e
<1>7. IsState(t) /\ t.csps = {} /\ t.out = s.out
  BY <1>2 DEF IsState, StateFields
<1> HIDE DEF t, r
<1>8. r.csps = {} /\ r.out = s.out \cup {ProposalMsg(c, IndexOf(n), b)} \cup PartMsgs(b, "full", {c})
  BY <1>5, <1>7 DEF IsState, StateFields
<1>9. r.out = s.out \cup O
  BY <1>8
<1> HIDE DEF O
<1>10. e.csps = {} /\ e.out \subseteq s.out \cup O
  BY <1>3, <1>7, <1>8, <1>9
<1>11. ToNeighbours(msgs \cup e.out)
  BY <1>6, <1>10 DEF ToNeighbours
<1> QED BY <1>4, <1>10, <1>11 DEF Certified, CSPsOK, e

\* doCSC.
LEMMA CommitCertified ==
  ASSUME NoneIsNil, NEW n \in Correct, NEW s, Certified(n, s), NEW body,
         s.step = "CrossShardCommit",
         \/ ChainOf(n) \in IShards /\ FinishCrossShardCommit_I(n, s)
         \/ ChainOf(n) \in CShards /\ FinishCrossShardCommit_B(n, s)
  PROVE  Certified(n, DoCSC(n, s, body))
<1> DEFINE e == ExecutionAllBlocks(n, s)
           u == [s EXCEPT !.root = Append(@, e), !.resume = TRUE]
<1>1. NodeOK(n, s, msgs) /\ IsState(s) /\ ToNeighbours(msgs \cup s.out)
  BY DEF Certified, NodeOK
<1>2. Recorded(n, u, msgs)
  BY <1>1, ExecutionRecorded
<1>3. DoCSC(n, s, body) = EnterNewHeight(n, u, body)
  BY DEF DoCSC
<1> HIDE DEF e
<1>4. u.out = s.out
  BY <1>1 DEF IsState, StateFields
<1> HIDE DEF u
<1> QED BY <1>1, <1>2, <1>3, <1>4, EnterCertified

LEMMA TransitionCertified ==
  ASSUME NoneIsNil, AnswersOK, IInv, NEW n \in Correct, NEW s, Certified(n, s), NEW body
  PROVE  Certified(n, HandleStateTransition(n, s, body))
<1> DEFINE p == ProposeStep(n, s)
           q == PrevoteStep(n, p)
           r == PrecommitStep(n, q)
           t == CrossShardStep(n, r)
<1>1. Certified(n, p)
  BY ProposeCertified DEF ProposeStep, AtStep
<1> HIDE DEF p
<1>2. Certified(n, q)
  BY <1>1, PrevoteCertified DEF PrevoteStep, AtStep, FinishPrevote
<1> HIDE DEF q
<1>3. Certified(n, r)
  BY <1>2, PrecommitCertified DEF PrecommitStep, AtStep
<1> HIDE DEF r
<1>4. Certified(n, t)
  BY <1>3, CrossShardCertified
<1> HIDE DEF t
<1>5. Certified(n, CommitStep(n, t, body))
  <2> DEFINE ready == /\ AtStep(t, "CrossShardCommit")
                      /\ \/ ChainOf(n) \in IShards /\ FinishCrossShardCommit_I(n, t)
                         \/ ChainOf(n) \in CShards /\ FinishCrossShardCommit_B(n, t)
  <2>1. CASE ready
    <3>1. CommitStep(n, t, body) = DoCSC(n, t, body)
      BY <2>1 DEF CommitStep
    <3>2. Certified(n, DoCSC(n, t, body))
      BY <1>4, <2>1, CommitCertified DEF AtStep
    <3> QED BY <3>1, <3>2
  <2>2. CASE ~ready
    <3>1. CommitStep(n, t, body) = t
      BY <2>2 DEF CommitStep
    <3> QED BY <1>4, <3>1
  <2> QED BY <2>1, <2>2
<1>6. HandleStateTransition(n, s, body) = CommitStep(n, t, body)
  BY DEF HandleStateTransition, t, r, q, p
<1> QED BY <1>5, <1>6

LEMMA HandlerCertified ==
  ASSUME NoneIsNil, AnswersOK, IInv, NEW n \in Correct, NEW s, Certified(n, s),
         NEW m \in msgs, m.to = ChainOf(n), NEW body
  PROVE  Certified(n, DoMessage(n, s, m, body))
BY MessageCertified, TransitionCertified DEF DoMessage, Handled

\* No block comes back to its own shard, and a certified proposal has a quorum.
CertifiedInv == ToNeighbours(msgs) /\ \A n \in Correct : CSPsOK(n, st[n], msgs)

LEMMA RestIsCertified ==
  ASSUME IInv, CertifiedInv, NEW n \in Correct
  PROVE  Certified(n, st[n])
<1>1. NodeOK(n, st[n], msgs) /\ st[n].out = {} /\ msgs \cup st[n].out = msgs
  BY DEF IInv
<1> QED BY <1>1 DEF CertifiedInv, Certified

LEMMA BecomeCertified ==
  ASSUME IInv, CertifiedInv, NEW n \in Correct, NEW s, Certified(n, s),
         st' = [st EXCEPT ![n] = [s EXCEPT !.out = {}]], msgs' = msgs \cup s.out
  PROVE  CertifiedInv'
<1>1. ToNeighbours(msgs') /\ CSPsOK(n, s, msgs') /\ IsState(s) /\ DOMAIN st = Correct /\ msgs \subseteq msgs'
  BY DEF Certified, NodeOK, IInv
<1> DEFINE t == [s EXCEPT !.out = {}]
<1>2. t.csps = s.csps /\ t.proposal = s.proposal
  BY <1>1 DEF IsState, StateFields
<1>3. st' = [st EXCEPT ![n] = t]
  OBVIOUS
<1> HIDE DEF t
<1>4. st'[n] = t /\ \A k \in Correct \ {n} : st'[k] = st[k]
  BY <1>1, <1>3
<1>5. CSPsOK(n, t, msgs')
  BY <1>1, <1>2 DEF CSPsOK
<1>6. ASSUME NEW k \in Correct \ {n} PROVE CSPsOK(k, st[k], msgs')
  <2> DEFINE r == st[k]
             N == msgs'
  <2>1. CSPsOK(k, r, msgs) /\ ChainOf(k) \in Shard /\ msgs \subseteq N
    BY <1>1, Nodes DEF CertifiedInv
  <2> HIDE DEF r, N
  <2>2. CSPsOK(k, r, N)
    BY <2>1, AgreedGrows DEF CSPsOK
  <2> QED BY <2>2 DEF r, N
<1>7. \A k \in Correct : CSPsOK(k, st'[k], msgs')
  BY <1>4, <1>5, <1>6
<1> QED BY <1>1, <1>7 DEF CertifiedInv

\* Part of a state of which neither a certificate nor a message is.
LEMMA CertifiedQuiet ==
  ASSUME NEW n \in Correct, NEW s, NEW t, Certified(n, s), NodeOK(n, t, msgs),
         t.out = s.out, t.csps = s.csps, t.proposal = s.proposal
  PROVE  Certified(n, t)
BY DEF Certified, CSPsOK

LEMMA NextCertified ==
  ASSUME NoneIsNil, AnswersOK, IInv, CertifiedInv, [Next]_vars
  PROVE  CertifiedInv'
<1>1. CASE UNCHANGED vars
  BY <1>1 DEF vars, CertifiedInv
<1>2. CASE \E n \in Correct : Step(n)
  <2>1. PICK n \in Correct, body \in Body : Start(n, body) \/ Handle(n, body)
    BY <1>2 DEF Step
  <2>2. Certified(n, st[n]) /\ NodeOK(n, st[n], msgs) /\ IsState(st[n]) /\ msgs \cup st[n].out = msgs
    BY RestIsCertified DEF Certified, NodeOK, IInv
  <2>3. CASE Start(n, body)
    <3>1. Recorded(n, st[n], msgs)
      BY <2>2, <2>3 DEF Start, NodeOK, HistoryOK, Recorded
    <3>2. ToNeighbours(msgs \cup st[n].out)
      BY <2>2 DEF CertifiedInv
    <3>3. Certified(n, EnterNewHeight(n, st[n], body))
      BY <3>1, <3>2, EnterCertified
    <3> QED BY <2>3, <3>3, BecomeCertified DEF Start, Become
  <2>4. CASE \E m \in msgs : Receive(n, m, body)
    <3>1. PICK m \in msgs : Receive(n, m, body)
      BY <2>4
    <3>2. Become(n, DoMessage(n, st[n], m, body)) /\ m.to = ChainOf(n)
      BY <3>1 DEF Receive
    <3>3. Certified(n, DoMessage(n, st[n], m, body))
      BY <2>2, <3>2, HandlerCertified
    <3> QED BY <3>2, <3>3, BecomeCertified DEF Become
  <2>5. CASE \E m \in st[n].relay : Replay(n, m, body)
    <3>1. PICK m \in st[n].relay : Replay(n, m, body)
      BY <2>5
    <3> DEFINE t == [st[n] EXCEPT !.relay = @ \ {m}]
    <3>2. m \in msgs /\ m.to = ChainOf(n)
      BY <2>2, <3>1 DEF NodeOK, RelayOK
    <3>3. /\ IsState(t) /\ SameCollected(st[n], t) /\ t.height = st[n].height /\ t.step = st[n].step
          /\ t.root = st[n].root /\ t.relay \subseteq st[n].relay /\ t.out = st[n].out
          /\ t.csps = st[n].csps /\ t.proposal = st[n].proposal
      BY <2>2 DEF IsState, StateFields, SameCollected, SamePrevotes, SamePrecommits, SameBlocks, SameAccepts
    <3>4. Become(n, DoMessage(n, t, m, body))
      BY <3>1 DEF Replay
    <3> HIDE DEF t
    <3>5. NodeOK(n, t, msgs)
      BY <2>2, <3>3, DroppedKept
    <3>6. Certified(n, t)
      BY <2>2, <3>3, <3>5, CertifiedQuiet
    <3>7. Certified(n, DoMessage(n, t, m, body))
      BY <3>2, <3>6, HandlerCertified
    <3> QED BY <3>4, <3>7, BecomeCertified DEF Become
  <2>6. CASE Resume(n, body)
    <3> DEFINE t == [st[n] EXCEPT !.resume = FALSE]
    <3>1. /\ IsState(t) /\ SameCollected(st[n], t) /\ t.height = st[n].height /\ t.step = st[n].step
          /\ t.root = st[n].root /\ t.relay \subseteq st[n].relay /\ t.out = st[n].out
          /\ t.csps = st[n].csps /\ t.proposal = st[n].proposal
      BY <2>2 DEF IsState, StateFields, SameCollected, SamePrevotes, SamePrecommits, SameBlocks, SameAccepts
    <3>2. Become(n, HandleStateTransition(n, t, body))
      BY <2>6 DEF Resume
    <3> HIDE DEF t
    <3>3. NodeOK(n, t, msgs)
      BY <2>2, <3>1, DroppedKept
    <3>4. Certified(n, t)
      BY <2>2, <3>1, <3>3, CertifiedQuiet
    <3>5. Certified(n, HandleStateTransition(n, t, body))
      BY <3>4, TransitionCertified
    <3> QED BY <3>2, <3>5, BecomeCertified DEF Become
  <2> QED BY <2>1, <2>3, <2>4, <2>5, <2>6 DEF Handle
<1>3. CASE Terminated
  BY <1>1, <1>3 DEF Terminated
<1> QED BY <1>1, <1>2, <1>3 DEF Next

LEMMA InitCertified ==
  ASSUME \A m \in FaultyMsg : m.type = "CSP" => m.to # m.block.chain, Init
  PROVE  CertifiedInv
<1>1. msgs = FaultyMsg /\ \A n \in Correct : st[n] = NewState(n)
  BY DEF Init
<1>2. ASSUME NEW n \in Correct PROVE st[n].csps = {}
  <2> DEFINE r == [up |-> TRUE, height |-> 0, step |-> "NewHeight", root |-> <<>>,
                   relay |-> {}, resume |-> FALSE, out |-> {},
                   proposal |-> None, prevotes |-> None, prevoteBits |-> {}, prevoteTotal |-> 0,
                   precommits |-> None, precommitBits |-> {}, precommitTotal |-> 0,
                   csps |-> {}, csas |-> None, counter |-> 0, cscs |-> None,
                   partSets |-> None, blocks |-> None, buffer |-> {}]
  <2>1. IsState(r)
    BY DEF IsState, StateFields
  <2>2. NewState(n) = ClearAll(n, r)
    BY DEF NewState
  <2> HIDE DEF r
  <2> QED BY <1>1, <2>1, <2>2, ClearedCSPs
<1> QED BY <1>1, <1>2 DEF CertifiedInv, ToNeighbours, CSPsOK

\* A block that a node has for a chain whose precommits it has checked, its
\* own included, was agreed on.
LEMMA InvCertified ==
  ASSUME IInv, CertifiedInv
  PROVE  BlocksAreAgreed
<1> SUFFICES ASSUME NEW n \in Correct, NEW d \in st[n].csps, st[n].blocks[d] # None
             PROVE  Agreed(msgs, d, st[n].blocks[d])
  BY DEF BlocksAreAgreed, Agreed, Precommitted
<1>1. NodeOK(n, st[n], msgs) /\ msgs \cup st[n].out = msgs /\ CSPsOK(n, st[n], msgs)
  BY DEF IInv, CertifiedInv
<1>2. d \in Shard
  BY <1>1 DEF CSPsOK
<1>3. BlockOK(msgs, ChainOf(n), st[n].height, st[n].proposal, d, st[n].blocks[d])
  BY <1>1, <1>2 DEF NodeOK, CollectedOK, BlocksOK
<1> QED BY <1>1, <1>3 DEF BlockOK, CSPsOK

\* No node collects, votes on, executes or passes by a block that was not
\* agreed (AddCrossShardProposal, doCSA, doCSP, executionAllBlocks), as long
\* as no faulty validator sends a shard its own block as a cross-shard
\* proposal: the code does not refuse one.
THEOREM CertifiedBlocks ==
  ASSUME NoneIsNil, AnswersOK, \A m \in FaultyMsg : m.type = "CSP" => m.to # m.block.chain
  PROVE  Spec => []OnlyAgreedBlocks
<1>1. Init => CertifiedInv
  BY InitCertified
<1>2. IInv /\ CertifiedInv /\ [Next]_vars => CertifiedInv'
  BY NextCertified
<1>3. IInv /\ CertifiedInv => OnlyAgreedBlocks
  BY InvCertified, InvUsed, InvTogether DEF OnlyAgreedBlocks
<1> QED BY <1>1, <1>2, <1>3, Backed, PTL DEF Spec
=============================================================================
