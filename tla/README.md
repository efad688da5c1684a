# A TLA+ development of Melete

Melete is a sharded ledger.  *I-shards* own accounts; a *C-shard* bridges the
I-shards it is related to and proposes the transactions between them.  Every
shard agrees on one block a height, and neighbouring shards then commit the
cross-shard part of their blocks together.  The repository also has the two
protocols that Melete is compared with, Pyramid and Rapid: their *B-shards* keep
a copy of the accounts of their I-shards and commit in two phases, with locks.
This directory holds TLA+ models of the code, the TLC configurations that check
them and machine-checked proofs.
`PROJECT.json` lists components, runs, the source lines of every definition, the
hazards and the theorems.

## The system

| Component | State | Operations | Hard behaviour | What makes it correct |
|---|---|---|---|---|
| Consensus (`melete/consensus`) | height, step, last roots, kept messages; per height: proposal, votes, part sets, blocks, cross-shard proposals, accepts, certificates | `Start`, `Receive` of six message types and parts, `handleStateTransition`, `enterNewHeight` | any order of messages, duplicates, early messages of later heights, handlers that run through several heights, faulty validators | votes counted once; no finished step left waiting; only agreed blocks used; all nodes execute the same blocks with the same commit status; progress |
| Accept collection (`constypes/cas_set.go`) | votes seen, power and signatures by status, majority | `AddCSA`, `GetMaj23` | contradictory votes, unequal Votes | one majority at most, exact counter, certificates of complete majorities |
| Messages, blocks, part sets (`constypes/vote.go`, `melete/types`) | - | encode, sign, validate; split and reassemble | parts before their header, two versions of a C-block | a reassembled block is the proposed one |
| Bit vectors (`utils/bit-vector.go`) | bits in bytes | `SetIndex`, `And`, `Or`, `Not`, `Sub`, `Byte`, ... | sizes that differ or are no multiple of 8 | operations agree with the set of their bits |
| Application (`melete/abci/minibank`) | accounts, uncommitted writes | `PreExecutionC`, `PreExecutionI`, `Execution`, `Commit` | stale reads, dependencies between transactions, 32-bit sums | an accepted transaction is executed on the values it was accepted with |
| Mempools (`melete/mempool`) | list and map of transactions | `AddTx`, `ReapTx`, `Update` | two non-atomic updates, duplicates | nothing is lost before it is committed or kept afterwards |
| Network (`utils/p2p`) | a cached connection per peer | `SendToShard`, `TcpDial`, `handleConnection` | broken connections, retries, goroutines that dial at once | nothing twice, goroutines end, loss only with a connection |
| List (`libs/clist`) | linked elements, wait groups | `PushBack`, `Remove`, `NextWait`, `FrontWait`, ... | readers without the lock between the assignments of a writer | nothing skipped, no lost wake-up, no panic |
| Helpers (`RangeTree`, `crypto/merkle`, `types/block-part.go`) | ranges; parts | `AddRange`, `DeleteRange`, `Search`; proofs; `AddPart` | boundaries, long sequences, damaged and duplicate parts | agree with a reference definition; a completed block is the announced one |
| Pyramid (`pyramid`) | as Melete; pools of cross-shard blocks, answers and decisions; locks; the copies of a B-shard | eight message types, five kinds of blocks, `SyncIBlocks` | four blocks in several shards for one transaction, late results, locks of several blocks | atomic commitment, locks owned and released, copies exact, heights end |
| Rapid (`rapid`) | as Pyramid | as Pyramid | as Pyramid | as Pyramid; every block and transaction is decided |

The components interact as follows.  The receiver calls `Receive` of the
consensus or of a mempool, each in its own goroutine; the consensus serialises
its handlers with `stateMtx`, asks the application synchronously, reaps and
updates the mempools, and sends through the sender without waiting for an
answer.  Nodes share nothing but messages.

## Modules

* `VotingPower` - the power of a set of validators and the quorum test.  A sum
  of Votes is written as a number of ballots, so that the library's facts about
  cardinality apply.
* `CSAShardSet` - the data type of `cas_set.go` as operators; extends
  `VotingPower`.
* `CSACollection` - one C-shard node and its accept votes as a state machine:
  `AddCrossShardAccept`, `GenerateCrossShardCommit`, `NextHeight`.  The senders
  are unconstrained: any validator may send any vote, repeatedly.
* `Melete` - the protocol with all nodes.  `st[n]` is the `ConsensusState` and
  `HeightDataPackage` of node `n`; fields and operators have the names of the
  code.  A handler is a function from the node's state to its new state, as it
  runs under the mutex, with the messages it sends in the field `out`.  It uses
  the operators of `CSAShardSet`.  `MeleteDelivery` - the same on a network that
  owes each message to each receiver once.
* `BitVector` - the operations on bit vectors and two vectors in use.
* `Minibank` - the application of all shards under the order in which the
  protocol calls it: `CreateBlock`, `Accept`, `CommitHeight`.
* `Mempool` - one mempool with concurrent calls of `AddTx` and its updates.
* `CList` - the list under the mempools, assignment by assignment, with
  goroutines that walk along it.
* `VoteSet` - Pyramid's set of votes of one kind as operators; extends
  `VotingPower`.  `VoteCollection` - the nodes of a shard that fill one each.
* `PyramidBank` - Pyramid's application as operators on balances and locks.
* `Pyramid` - the consensus of Pyramid with all nodes; uses `VoteSet` and
  `PyramidBank`.  `PyramidDelivery` - the same on a network that delivers every
  message once.
* `Rapid` - the shards of Rapid, each agreeing on a block in one step.
* `AtomicCommit` - what the two phases promise: the abstract specification that
  `Pyramid` and `Rapid` implement.
* `P2P` - sender, connections, receivers.
* `RangeTree` - the tree of key ranges.
* `Merkle` - roots and proofs; `PartSet` - the collection of a block in parts,
  on top of it.
* `VotingPowerProofs`, `CSACollectionProofs`, `MempoolProofs`,
  `AtomicCommitProofs`, `VoteCollectionProofs`, `RapidProofs`, `MeleteProofs`,
  `PyramidProofs` - theorems.
* `MCMelete`, `MCPyramid`, `MCPyramidDelivery`, `MCRapid`, `MCMinibank` -
  instances: topologies, peer lists, answers of the application, transactions.
* `MCMeleteGroups`, `MCPyramidGroups` - several smaller topologies, of which one is
  chosen at the start and explored, also with faulty validators.
* `MCData` (on `MCVotes`), `MCConcurrent` - the data structures of the protocols
  and what goroutines share, one at a time: one of the components moves and the
  others are as they were at first.  They have no state in common, so that
  interleaving their steps would show nothing more.

### How `Melete` corresponds to the code

The actions are `Start`, `Receive` (a message of any type reaches `doMessage`),
`Replay` and `Resume`.  The last two are the rest of a handler that entered a
new height: `enterNewRound` replays the kept messages one by one and
`handleStateTransition` then goes on.  Until both are done `Unlocked` is false
and the node receives nothing, so they are no additional freedom except that the
messages sent so far are already on their way, which the `go` statements of the
code allow as well, and that kept messages are replayed in any order.

`AddMessage` dispatches like `doMessage` and says whether the node then looks for a
state transition.  `CanAddX` is the conjunction of the early returns of `AddX`; `AddX` is its
effect.  `DoX` is a step of the height with everything it stores and sends.
`HandleStateTransition` is the recursion of the code unrolled over the five
steps.

Abstractions: a hash is the value it is the hash of.  A signature cannot be
forged, and an aggregated signature is valid when every signer has sent the vote
it aggregates.  The state and receipts of the application are a function of the
sequence of executed entries (`root`): which blocks, by chain, with which commit
status.  The application's vote is the parameter `PreExecutionI`, the contents
reaped from the mempools a member of `Body`.  `Round` is always 0 in the code and
left out; `PassStep` caches conditions that stay true within a height and is left
out.  Encoding, logging, block times and the store are left out.

The network is the set of messages ever sent.  A message may be delivered any
number of times, at any time, or never.  Faulty validators are modelled by the
messages they put on the network (`FaultyMsg`); every receiver may get them at
any time or never, which includes sending to some nodes only.  The parts of a part
set (`PartTotal`) may differ by block and by kind, with or without the inner
transactions.

`MeleteDelivery` adds what each node has been delivered.  A message is recorded
when `Receive` hands it to `doMessage`, also if the handler drops it, and is owed
to nobody afterwards: a message that is dropped although it is needed later stops
the system, and `Progress` fails.  A duplicate (`DeliverAgain`) may still come, but
nobody can count on it.  Messages of heights that a node has finished are left out, as every
handler returns on them.

### How `Minibank` corresponds to the code

The nodes of a shard have executed the same blocks (`LedgerAgreement` of
`Melete`), so a shard has one database here.  `CreateBlock` is the making of a
block with `PreExecutionC`, and the C-shard's other nodes, which repeat it and
keep the same outputs; `Accept` is `PreExecutionI` on the blocks of the related
C-shards; `CommitHeight` is `Execution` and `Commit`.  Their guards ask for the
blocks and votes that the protocol has collected before it calls the
application.  The blocks of a height run in parallel goroutines in the code, on
separate `MemoryDB`s and disjoint accounts; the model computes their results and
applies them in the order of the code.

A database view (`RangeDB`, `CrossShardDB`) is a record: the balances `Get`
returns, the accounts `Has` finds, the accounts `Set` allows.  A failed
transaction has empty reads and writes.  `MemoryDB.Get` keeps values it has read
in memory; they equal the store and are left out.  `LockedKeys` is never filled.

Three facts about the code are visible in the model.  The hash of a block is
kept from before its cross-shard data is set, so the C-shard's nodes do find
their kept outputs and only the other shards execute again.  The second
dependency check in `PreExecutionI` cannot refuse: only transactions that
succeeded are in its graph.  `ValidateTransferTx` accepts an account listed
twice, of which the last `Set` counts, so that `MoneyConserved` holds for
transfers between different accounts, which is what the importer makes.

### How `Mempool` corresponds to the code

`AddTx` is `PushBack` and then `Store`, `RemoveTx` is `Load`, `Remove` and
`Delete`, as the list and the map have a lock each and none around both.
Updates come from the goroutine that holds `stateMtx`, so one runs at a time.
The transactions of an update are arbitrary, because blocks come from other
proposers' mempools too.  A list element is its number; the links are in
`CList`, and its three panics are the removal of an element that is not there.

What the properties do not say, because the code does not do it: a transaction
that is submitted twice, or applied between `PushBack` and `Store`, stays in the
list without an index entry, is never removed and may be proposed again.

### How `CList` corresponds to the code

`PushBack` and `Remove` hold the lock of the list; each assignment to an element
has the element's own lock and is a step.  The operation in progress is `op`.
Goroutines (`Walk`) call `FrontWait`/`BackWait` and `NextWait`/`PrevWait` and may
read between any two of those steps.  The mempools of this repository only call
`PushBack`, `Front`, `Next` and `Remove`; the waiting calls are the contract of
the library.  `DetachPrev` is called after `Remove`, as its comment asks.

### How `VoteCollection` corresponds to the code

Votes count for the pair of hash and code, and the first vote of a validator is
the one that counts (`AddVote`).  A correct validator signs one vote a height
(`Cast`); a faulty one sends anything to anybody.

### How `Pyramid` corresponds to the code

`st[n]` is the state of a node: `ConsensusState`, `HeightDataPackage`, block
store and application.  As in `Melete` a handler is a function from state to
state that runs under `stateMtx`, `HandleStateTransition` is the recursion
unrolled over the steps, and `Replay` and `Resume` are the rest of a handler that
entered a new height.  `Handle` dispatches on the message like `doMessage`:
proposal, part, prevote, precommit, cross-shard block (`CSB`), `Accept`, `Commit`,
`OK`.  `ValidBlock` is the check of a proposal for which the code panics.

`PyramidBank` keeps the values that locks hold, and 32-bit balances (`Wrap`).
`SyncIBlocks` executes the blocks of an I-shard on the copy of a B-shard in the
order of their heights, with the locks of all its I-shards in one map, as the
code does.

Abstractions: chain and height stand for the hash of a block, since all
validators of `Pyramid` are correct and a proposer makes one block a height
(faulty votes are in `VoteCollection`).  An aggregated signature is valid if its
signers have sent the vote.  The choice of a cross-shard block from the pool,
random in the code, is arbitrary.  The mempools start with fixed transactions.

`PyramidDelivery` adds what each node has been delivered, and each message is
delivered once, whether the handler uses it or not: one that drops a message that
would be needed later stops the system.

### How `Rapid` corresponds to the code

Rapid's code is nearly that of Pyramid; its B-shards have no accounts.  Here the
agreement of a shard on a block is one step (`AcceptBlock`, `CommitBlock`,
`InnerBlock`; `CrossShardBlock`, `DecideBlock`, `EmptyBlock`), which is what
`LedgerAgreement` of `Pyramid` allows.  In exchange heights have no bound: only
their differences are compared, so they are kept relative to the lowest, and
what must happen in the end can be stated.  Whether balances cover a transaction
is a choice, and a lock keeps its block instead of a value.

### The refinement

`AtomicCommit` has a vote of each shard, one decision and its execution for each
cross-shard block.  In `Rapid` these are variables.  In `Pyramid` they are read
off the ledgers of the nodes: the vote of a shard is the code with which its
nodes executed the `IAccept` block, the decision the code of the `BCommit` block,
the execution the `ICommit` block of the shard; two nodes that disagreed would
give the value "both", which is no step of `AtomicCommit`.  The mapping covers
the cross-shard blocks whose four heights fit below `MaxHeight`.

### How `P2P` corresponds to the code

`TcpDial` is two steps: finding or making the connection under `connMapLock`
(`Dial`), and the write after it (`Write`), followed by `Retry`.  A message and
peer have a goroutine each.  `ReadLine` is a turn of the loop in
`handleConnection`.  TCP is external: `Break` may happen to a connection at any
time, after which lines on the way are lost from some point on, one of them cut
off, and writes fail.  The code keeps a broken connection in `connMap`; so what
is sent to that peer afterwards is lost, which `SendsEnd` excepts.

### How `RangeTree`, `Merkle` and `PartSet` correspond to the code

The tree is a nested record and its operations are recursive operators with the
bounds as arguments, as in the code; a panic is a key outside the keys.  The
history variable `covered` is the reference: the set of keys added and not
deleted.  Hashes are terms, so that two inputs have one hash only if they are
equal.  A block has three sections and a header with their roots, which
`fillHeader` computes once; its bytes are cut by `SplitByteArray`.  Parts reach
the validator in any order, also twice, damaged, of another block, and before
the proposal, which may announce another hash.

## Runs

| Run | Instance | Shows |
|---|---|---|
| `melete` | five topologies: an I-shard of three, two heights, from before `Start`; a C- and an I-shard of two, from before `Start`; a C-shard of one on two I-shards of two, which refuse part of its blocks; Votes 4,2,1, where the proposer (2) sends two blocks and votes for both; an I-shard of Votes 2,2,1, the last one faulty, and a C-shard of two | `Safety` of `Melete` in each of them: votes counted once in every order, no missed transition, only agreed blocks, one ledger, committed only with a quorum of each I-shard; without faulty validators no panic and no deadlock |
| `melete_fork` | two C-shards (of two and one) on an I-shard of one: two heights, in which the application's answer changes with the height, or one height in which the block of the first C-shard, without its inner transactions, travels to the neighbours in a part of its own, the other C-shard is started late, and messages are duplicated | the parts of `Safety` one by one with second-level neighbours; every height ends (`Progress`), with certificates that are passed on and messages that come once: before the start, of later heights, parts before their header and votes before the proposal |
| `minibank` | two C-shards on a common I-shard, one also on a second, balances modulo 3: two cross-shard and one inner transfer a block, two heights; or one account inserted in three places | parallel execution equals a serial one, committed transactions succeed, transfers conserve money, refusals only in conflicts |
| `data` | accepts of I-shards of Votes 1,1,1,1 and 2,1,1, two blocks, two statuses; votes at two Pyramid nodes, four validators of which one is faulty; bit vectors of up to 5 bits in elements of 3; ranges over six keys; three blocks in one to four parts, with and without their body | counting, single and stable majorities, the counter, certificates, aggregates of more than two thirds; bit operations; search, order and depth of the range tree; parts in place, the announced block or none |
| `bitvector_or` | bit vectors as in `data` | violation: `Or` drops bits of a longer argument |
| `concurrent` | a mempool with two transactions, two adders, three additions and two updates; a list of up to four elements with a walker in each direction; two peers, one added twice, and the node itself, two messages, two retries | index and list agree, no element removed twice, nothing lost; links, no panic, nothing skipped, no lost wake-up; one connection a peer, no duplicates, goroutines end, messages arrive |
| `pyramid` | four topologies: an I-shard of three, two heights, with parts, from before `Start`; a B-shard of one on two I-shards (of two and one), one cross-shard transaction; a B- and an I-shard of two with inner transactions on the same accounts, both through four heights; a B-shard of one on an I-shard of Votes 3,1, two heights | the same ledgers, balances and locks in every order, lock step, locks owned, committed blocks applied, no block taken for Byzantine, the copy of a single I-shard exact, no deadlock (`ShardsAreSafe`, `DecisionsAreApplied`) |
| `pyramid_mesh` | two B-shards, one over two I-shards and one over the first, five heights | the ledgers implement `AtomicCommit`; one ledger a shard, lock step, no panic, although one B-shard aborts |
| `pyramid_delivery` | a B- and an I-shard of two, three heights; a B-shard of one on an I-shard of Votes 3,1, two heights; every message once | every height ends |
| `pyramid_undo` | two B-shards compete for an account of an I-shard of two | violation, see the findings |
| `rapid` | the topology of `pyramid_mesh`, one transaction each | neighbours within a height, locks owned, `AtomicCommit` implemented |
| `rapid_live` | two B-shards on one I-shard, three transactions on common accounts | every block and transaction decided, locks released |

Each property has a mutant in `PROJECT.json`, a variant of a definition with a
plausible slip (the operators called *Faulty variant*), that violates it.

Bounds.  `MaxHeight` is 2 where something could survive a height or arrive
early: a node at height 1 then meets messages of height 2, and data cleared
after height 1 is used again.  A `PartTotal` of 1 lets parts and headers arrive in
either order; one of 0 folds the parts into their header where the
interleavings of the cross-shard messages matter.  Shards have one to three
validators; unequal Votes give the quorum structure of larger shards, such as
quorums that share only one validator.  With Votes 3,1 the second validator is not
needed for a quorum and lags behind, which is the only way for an OK to arrive at
a node before its height: where every vote is needed all OKs are in time.
`melete_fork` and the last three topologies of `melete` begin in the state in
which every node has been started and no message has arrived (`StartedInit`),
which `Spec` reaches; in `melete_fork` the validator of one C-shard may be started
later, so that what comes before has to be kept.

In the runs of Pyramid with a B-shard, except the first topology of
`pyramid_delivery`, every node has been started too (`StartedInit`), and in all of
them parts are folded into proposals.  Four heights are
one cross-shard block from proposal to execution, and five let the second
B-shard be a height later.  `pyramid_mesh` also orders what does not matter
(`PromptSpec`): a node reads its pools only when it makes a block, so messages
of the two phases arrive at any time at which it waits for other shards, while
votes, blocks of I-shards and OKs go first in one order.  `rapid` asks the same
question with all interleavings of the shards and no bound on the heights; only
the number of transactions is bounded there.

Four elements of a list let one be removed between two others while a walker
stands on each.  Six keys give trees of three levels, in which the cases of
`DeleteRange` (left, right, both sides, nothing left) all occur below the root.
The part sizes give one to four parts, around the powers of two, and
`MaxBuffer = 1` one early part of each kind.  For the sender two retries stand for
five: no retry finds a new connection.

In `minibank` the modulus 3 stands for 2^32 with a start of 1: one credit
more wraps around.  The transfers of the two C-shards touch the same account,
the second transfer of `c2` depends on its first through an account that only
one of its I-shards has, and two heights let stored balances be read again.
For the mempool three additions of two transactions give a duplicate beside a
different transaction, and two updates a removal of what was removed before; the
cross-shard variant is checked, as the other is the case of all bits set.

Deadlock is checked in every run but `concurrent`, where the calls, elements and
messages are bounded, after which nothing is left to do; a finished instance of a
protocol stutters (`Terminated`, `Silent`).  With a
faulty validator a shard may really stop, as there is no round change, and the two
topologies with one may stutter at any time.

Fairness.  `MeleteDelivery` and `PyramidDelivery` say that again and again node n
is owed nothing (`[]<>~Owed(n)`): it has been started, its handler has finished,
and it has handled every message that was sent to it, once.  `Owed` is the enabling
condition of these steps written out (duplicates excepted), and up to `MaxHeight`
there are only finitely many of them, so this is their weak fairness.  A message
that a handler has dropped is not owed again, whatever it could do later.  The code
justifies this in a run without failures: the operating system schedules
goroutines, `Receive` blocks only on the mutex, and TCP delivers.  Nothing more is
assumed; in particular nothing is sent twice.  If a connection is lost the
assumption is false and the code does stop.  `Rapid` has weak
fairness for each message, for the block of each shard and for the next height.
No choice among the kinds of blocks is fair: which one a shard makes follows from
its pools.  `P2P` has weak fairness of the goroutines, but none of `Break`, `Listen`
or a new message; `CList` of the operation that holds the lock and of the walkers.

Findings.

* `bitvector_or`: the comment of `Or` (`utils/bit-vector.go:128`) says that the
  smaller vector is padded with zeroes; with a longer argument the code drops the
  argument's additional elements.  The protocol only uses `And`.
* `pyramid_undo`: the abort of a block drops the locks on its accounts even if
  another accepted block has set them; that block's commit then writes nothing
  (`pyramid/abci/minibank/application.go:142`).  Within the four
  heights of one cross-shard block it does not happen (`CommittedWritesApplied` in
  `DecisionsAreApplied`).  Several B-shards are not needed: a B-shard over two
  I-shards may start its next block before an I-shard has executed the decision on
  the last one, because its copy does not hold the second I-shard's locks (see
  below), and an abort of the next block that is executed first, in the same
  block of decisions, drops them.

More facts are visible in the models, and limit what their properties say.
A B-shard keeps the locks of all its I-shards in one map: when two I-shards accept
the same block, the acceptance of the second fails on the locks of the first in
the copy, and the second I-shard's accounts are never written there (line 461), so
that `SyncedCopies` is stated for a single I-shard.  The comparison of a block's
data with the database runs over the inner transactions, of which a cross-shard
block has none (line 341), so that stale data is accepted.  And the reader of a
connection goes to the next turn when it has read no byte, before it looks at the
error (`utils/p2p/receiver.go:72`), so that it spins on a connection that was
closed; `ReadLine` has no step there.  `Start` does not look for a state transition:
a proposer that is alone in its shard waits for a message to make it look.
Melete keeps the messages that come before `Start` and handles them then; Pyramid
stores the blocks of the neighbours and does not look at them again, so that a
B-shard of one validator whose first blocks came too early never begins.  The
topologies with such a B-shard therefore begin after `Start`.  Blocks that a B-shard
executes together get the code of the last message (`pyramid/consensus/main.go:347`);
the model does so too, but all blocks of I-shards in the runs have the code OK.  And
an I-shard prefers new cross-shard blocks to decisions, so that blocks without end
would keep decisions waiting; the runs of Rapid have finitely many.

Rapid's application has the same lines as Pyramid's.  Atomic commitment of votes
and decisions holds in spite of them: they are about values.

## Proofs

Assumptions on the constants.  `VotesAssumption` (finitely many I-shards and
validators, Votes are natural numbers), `NoneAssumption` (nil is no block and no
status), `MempoolAssumption` and the assumptions of `Rapid` say what kind of values
they are.  `MeleteAssumption` says in addition that relatedness is symmetric and
joins I- with C-shards, as the configuration builds it (`TopologyOK`), and what
faulty validators can do (`FaultsOK`): they hold less than a third of the Votes of
each shard, send messages that decode (`WellFormed`), and cannot sign for
correct ones.  TLC evaluates all of these on the instances.  The theorems of
`MeleteProofs` have two more hypotheses, true of the instances: nil is no status
and no block (`NoneIsNil`), and the application answers each C-block with a set
of transactions (`AnswersOK`).

* `VotingPowerProofs`: a validator that joins a set adds its Vote (`PowerAdd`),
  disjoint sets share the total (`PowerDisjoint`), and so two sets over two
  thirds intersect (`QuorumsIntersect`), with the integer division of the code;
  if the faulty ones have less than a third, they share one that is not faulty
  (`QuorumsShareCorrect`).

* `CSACollectionProofs`: `AddCSA` keeps `ShardSetOK`, that is, the counting and
  the majority of one shard are consistent.  The step that needs thought is the
  majority: a second status over two thirds would give two disjoint quorums.
  For the node the inductive invariant is `IInv`: each shard set is consistent,
  the counter is the number of shards with a majority, and a certificate agrees
  with them.  `CommitIsCertified` is not inductive alone, since
  `FinishCrossShardProposal` tests only the counter: a subset of the I-shards
  that has as many elements as all of them is all of them.  From `IInv` follow
  the invariants of accept collection in the run `data`, two more that the run
  does not repeat (`TypeOK`, `MajorityIsOverTwoThirds`) and, as an action property,
  `MajorityIsStable`.

* `VoteCollectionProofs`: the same for Pyramid's sets of votes, filled by several
  nodes from the same validators.  Two nodes that find majorities find the same
  one, because a validator in both quorums is correct and signs one vote, and an
  aggregate has only signers that voted for it.  The invariant ties the stored votes
  of each node to what correct validators have signed (`CountedAsSigned`).

* `MempoolProofs`: `RemoveIsSafe`, `MapIsListed` and `Tracked` for any adders,
  transactions and bounds.  The inductive invariant `MInv` adds two parts.
  `PendingIsPrivate`: an element that its adder has not stored yet is listed,
  belongs to that adder alone, and neither the index nor an update knows it;
  without it `Store` could bring back an element that was removed.
  `OnlyTold`: the element an update is about to remove is of a transaction it
  was told to remove, which is what `Tracked` needs when it is taken out.

* `AtomicCommitProofs` (no assumptions): `AllOrNothing` for any blocks and shards.
  The inductive invariant says that a decision to commit was unanimous, which
  stays true because votes stay, and that whatever a shard has executed is the
  decision, which stays true because decisions stay.

* `RapidProofs`: `NeighboursInLockStep`, `LocksAreOwned`, and that `Rapid` implements
  `AtomicCommit` (`Refinement`), from which `AllOrNothing` carries over
  (`RapidAllOrNothing`).  None of these is inductive.  `IInv` says what the pools
  hold: a cross-shard block waits in the pool of an I-shard only until that shard
  answers, a decision only until it is executed (`PoolsAreOpen`); the pending
  block of a B-shard is undecided and the answers counted are answers to it
  (`PendingIsOpen`); a block is made, answered, decided and executed in this order
  (`PhasesInOrder`), and its number has not been used (`NumberedInOrder`).  So a
  shard votes or executes once, which is what the steps of `AtomicCommit` ask, and
  a decision is taken when all have voted.  A lock belongs to a block that was
  accepted and not executed (`LocksHeld`).

* `MeleteProofs`: the safety of the main protocol, for any topology, Votes, bodies,
  transactions and number of heights, with faulty validators.
  - `Backed` is the inductive invariant `IInv`.  It says of each thing that a node
    has collected which messages back it: a counted vote was sent; a block of
    another shard has a quorum of precommits (`BlockOK`), a status its accepts
    (`SetOK`), a certificate a quorum of each I-shard (`CommitsOK`), an executed
    height both (`EntryOK`); and a correct validator has sent one vote of a kind
    and height, and only in the steps after it (`OwnVotesOK`).  A handler passes
    through several steps before its messages are on the network, so `NodeOK` is a
    predicate on a node's state and a set of messages, the sent ones and those of
    `out`, and each function that a handler is composed of has a lemma that it
    keeps `NodeOK`.  As messages are only added, what backed something once
    backs it for good (`CollectedGrows`, `HistoryGrows`).
  - `Agreement` is `LedgerAgreement`: two quorums at the same height share a correct
    validator, which has sent one precommit, so that they are for one block
    (`AgreedOnce`), and likewise for the statuses (`AcceptedOnce`).
    `CountedOnce`, `CommittedByAll`, `BlocksAgreed` and `AdvanceTogether` follow from
    `IInv` as well.
  - `NothingMissed` is `NoMissedTransition`.  Its invariant `WatchedInv` says that a
    node whose step is finished is in the middle of a handler, or the first
    proposer.  The argument is that `HandleStateTransition` ends in a state in which
    no step is finished (`TransitionEnds`) and that a message which does not lead to
    it finishes none (`UnseenKept`).
  - `NeverPanics` is `NoPanic`, under the hypothesis that faulty validators send no
    blocks; they may vote as they like.  `SoundInv`: every block on the network, in
    a part set or collected was built on an agreed history of its chain, and there
    is one such history of each length (`BuiltOnce`), which is the node's own.
  - `CertifiedBlocks` is `OnlyAgreedBlocks`, under the hypothesis that faulty
    validators send no shard its own block as a cross-shard proposal.  The
    hypothesis is needed by the first part of the property, `BlocksAreAgreed`:
    `AddCrossShardProposal` does not ask whether the sender is another shard, and the
    code would then hold a block of its own shard in `csps` that is replaced
    by the proposal, which is not agreed yet.  The other two parts hold without it
    (`BlocksAgreed`, `AdvanceTogether`).

* `PyramidProofs`: the shards of Pyramid, for any topology, Votes, accounts, transactions
  and number of heights.  The shards are finitely many and own accounts
  (`TopologyOK`); the theorems have the hypothesis that nil is not a pair
  (`NoneIsNil`), since hashes and the choices of votes are pairs and nil stands for
  a missing one.
  - The witness of the inductive invariant `IInv` is a ledger for each shard, as far
    as some node of the shard has executed it; it grows by the steps.  `Inv(L)` says
    of each message, pool and entry what backs it: a block is one its proposer could
    make (`BlockOK`), an entry has a quorum of precommits (`EntryOK`), an answer
    or decision is an entry of the ledger of the shard that gave it (`AnswerOK`,
    `DecisionOK`), and what waits in a pool has not been dealt with by the shard
    (`IPoolsOK`, `BPoolsOK`).  As in `MeleteProofs` the invariant of a node is a
    predicate on its state and the messages (`NodeOK`), and each function that a
    handler is composed of has a lemma that it keeps it.
  - `LockStep` is `ShardsInLockStep`: an OK of height h and a copy of block h
    are evidence that the ledger of the sender has reached h (`TogetherOK`), whether
    it is counted at once, for the current height, or after it was kept.
  - `NeverPanics` is `NoPanic`: the proposer and the nodes that check its block have
    executed the same ledger, and the ledger decides which cross-shard block is
    open (`OpenAfter`).
  - `Agreement` is `LedgerAgreement`.  A second witness gives each shard the state
    after each block (`HistoryOK`), and every node is where its ledger puts it
    (`Follows`).  For an I-shard the state is all that the application keeps; for
    a B-shard it is the balances of its own accounts, as the copies of nodes may
    differ (`View`): blocks of an I-shard change and lock its accounts only, in
    whatever order and with whatever codes a copy executes them.
  - `Refinement` is `ImplementsAtomicCommit`.  The mapping is read off the ledgers, so
    that only `DoPrecommit` at the first node of a shard is not a stutter
    (`SeenThen`, `NoEntrySeen`).  `AcceptSeen`, `DecideSeen` and `CommitSeen` show that the
    new entry is a step of `AtomicCommit`: no block is accepted or executed twice by a
    shard (`FreshBlock`), the B-shard decides its open block when it has the answer of
    each I-shard, and the code of the decision follows from the answers in the
    block (`OkFor`).  `PyramidAllOrNothing` carries `AllOrNothing` over.

Only model-checked.

* Of `Pyramid`: `SyncedCopies`, `LocksAreOwned` and `CommittedWritesApplied`.  They hold
  in the instances of `pyramid`, but not in general: see the findings and what
  follows them.
* `Minibank`, `RangeTree`, `Merkle`, `PartSet` and `BitVector`: what their folds and
  recursive definitions compute needs induction over data, which is out of the
  prover's reach.  `PyramidProofs` uses of the folds of `PyramidBank` only
  that equal arguments give equal results, and where the results go.
* `P2P` and `CList` (`SentOnce`, `ListIsRight`), and the type invariants of `Melete` and
  `Pyramid`.
* Liveness (`Progress`, `EveryHeightEnds` and those of `Rapid`, `CList` and `P2P`), and
  `ENABLED`, on which deadlock freedom depends.

## Not modelled

The importers make test data.  The database under the block store, the block log,
configuration files, start-up and command lines are I/O, and the key-value
databases are taken over from Tendermint.  BLS signatures are arithmetic out of
reach; what the code needs of them is an abstraction of every model.  Protobuf
code is generated.  `ValidateBasic` and the encodings of messages, transactions and
receipts are left out.

Lost messages and crashes are not actions of the consensus models: the code
neither sends again nor recovers, so that the safety properties cover them (a
message may never arrive, a node may never move) and progress is not promised.
Connections that break are in `P2P`.

## Plan

Done: accept collection, consensus, bit vectors, application, mempool and its
list, Pyramid, Rapid, atomic commitment and its refinements, the network layer,
range tree, Merkle trees and part sets; the proofs of the three protocols.  Next,
in this order:

1. Proofs: `Linked` and `NoPanic` of `CList`; `NoDuplicates` and `OneConnection` of
   `P2P`; `TypeOK` of `Melete`.
2. `Melete` with `Minibank` as its application, and `Melete` shown to implement
   an atomic commitment in one phase.
