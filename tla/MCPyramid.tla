----------------------------- MODULE MCPyramid -----------------------------
(***************************************************************************)
(* Pyramid with two B-shards that share an I-shard: a fork, and a mesh     *)
(* with a second I-shard.  Module MCPyramidGroups has the smaller          *)
(* topologies.                                                             *)
(***************************************************************************)
EXTENDS Pyramid

\* A peer list of k validators with one Vote each.
Equal(k) == [v \in 0..(k - 1) |-> 1]

\* A transfer from account x to account y.
Transfer(x, y) == [from |-> <<x>>, fromMoney |-> <<1>>, to |-> <<y>>, toMoney |-> <<1>>]

\* Two B-shards over one I-shard, each with a transaction on account a.
ForkRelated == [c \in {"b1", "b2", "i1"} |-> IF c = "i1" THEN {"b1", "b2"} ELSE {"i1"}]
ForkVotes == [c \in {"b1", "b2", "i1"} |-> IF c = "i1" THEN Equal(2) ELSE Equal(1)]
ForkKeyRange == [c \in {"b1", "b2", "i1"} |-> IF c = "i1" THEN {"a", "b", "c"} ELSE {}]
ForkInner == [c \in {"b1", "b2", "i1"} |-> <<>>]
ForkCross == [c \in {"b1", "b2", "i1"} |->
  [b1 |-> <<Transfer("a", "b")>>, b2 |-> <<Transfer("a", "c")>>, i1 |-> <<>>][c]]

\* Two I-shards.  The transaction of b1 is between both and the one of b2 in
\* the first: each of them may find the accounts locked by the other.
MeshRelated == [c \in {"b1", "b2", "i1", "i2"} |->
  [b1 |-> {"i1", "i2"}, b2 |-> {"i1"}, i1 |-> {"b1", "b2"}, i2 |-> {"b1"}][c]]
MeshVotes == [c \in {"b1", "b2", "i1", "i2"} |-> IF c = "b2" THEN Equal(2) ELSE Equal(1)]
MeshKeyRange == [c \in {"b1", "b2", "i1", "i2"} |-> [b1 |-> {}, b2 |-> {}, i1 |-> {"a", "c"}, i2 |-> {"b"}][c]]
MeshInner == [c \in {"b1", "b2", "i1", "i2"} |-> <<>>]
MeshCross == [c \in {"b1", "b2", "i1", "i2"} |->
  [b1 |-> <<Transfer("a", "b")>>, b2 |-> <<Transfer("a", "c")>>,
   i1 |-> <<>>, i2 |-> <<>>][c]]

StartedSpec == StartedInit /\ [][Next]_vars

\* Fewer interleavings for the larger topologies.  The messages of the two
\* phases arrive at any time at which a node waits for other shards: a node
\* reads its pools only when it makes a block.  Everything else (a node that
\* holds stateMtx; a vote, a block of an I-shard, an OK) goes first, in one
\* order.
Prompt(n) ==
  {m \in msgs : /\ m.to = ChainOf(n) /\ m.height <= MaxHeight
                /\ \/ m.type \in {"Proposal", "Part", "Prevote", "Precommit", "OK"} /\ m.height >= st[n].height
                   \/ m.type = "CSB" /\ ChainOf(n) \in BShards}
Busy(n) ==
  \/ st[n].height <= MaxHeight /\ ~Unlocked(n)
  \/ Unlocked(n) /\ \E m \in Prompt(n) : DoMessage(n, st[n], m) # st[n]

FirstStep(n) ==
  /\ n = CHOOSE k \in Node : Busy(k)
  /\ \/ /\ Unlocked(n)
        /\ Receive(n, CHOOSE m \in Prompt(n) : DoMessage(n, st[n], m) # st[n])
     \/ \E m \in st[n].relay : Replay(n, m)
     \/ Resume(n)

CrossStep(n) ==
  /\ st[n].step = "Commit" \/ \A k \in Node : ~Busy(k)
  /\ \E m \in msgs \ Prompt(n) : Receive(n, m)

PromptNext ==
  \/ \E n \in Node : Busy(n) /\ FirstStep(n)
  \/ \E n \in Node : CrossStep(n)
  \/ Terminated

PromptSpec == StartedInit /\ [][PromptNext]_vars
=============================================================================
