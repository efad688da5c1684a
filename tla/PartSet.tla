------------------------------ MODULE PartSet ------------------------------
(***************************************************************************)
(* How a validator collects a block (types/block-part.go with the AddPart  *)
(* of consensus/height_datas.go, alike in Melete, Pyramid and Rapid).  The *)
(* proposer cuts the bytes of its block into parts, each with its Merkle   *)
(* proof; they arrive in any order, more than once, before or after the    *)
(* proposal, and among parts of other blocks and parts that were damaged.  *)
(*                                                                         *)
(* A block has three sections (Body, Relation and CrossShardBody) and a    *)
(* header with a root for each, which is empty until the block is hashed.  *)
(* The shard of the proposer gets the block as it was made; related shards *)
(* get one without its body, which must have the same hash.  The header of *)
(* a proposal has the total, the root and the height of the part set, and  *)
(* the hash of the block: a faulty proposer announces that of another one. *)
(* Numbers are in brackets so that bytes can be compared with roots.       *)
(***************************************************************************)
EXTENDS Merkle, FiniteSets

CONSTANTS Sections,  \* sections of the block that is proposed
          Other,     \* another block
          Chain, Height,
          PartSize,  \* values of MaxPartSize
          MaxBuffer  \* bound: parts that wait for the proposal

\* What the constants are; stated as an assumption where they get values.
ConstantsOK == PartSize \subseteq Nat \ {0} /\ MaxBuffer \in Nat

VARIABLES sent,     \* what was sent: [hash, block, parts, proposal, wire], or Nil
          partSet,  \* Nil before the proposal
          buffer,   \* randomHeaderBuffer
          block     \* the block that was collected

vars == <<sent, partSet, buffer, block>>

NewBlock(chain, height, sections) ==
  [chain |-> chain, height |-> height, roots |-> <<<<>>, <<>>, <<>>>>, sections |-> sections]

\* Hash of a section: of its transactions, data or references.
SectionHash(b, k) == HashFromByteSlices(b.sections[k])

\* A root that is there is kept.
fillHeader(b) ==
  [b EXCEPT !.roots = [k \in 1..3 |-> IF b.roots[k] = <<>> THEN SectionHash(b, k) ELSE b.roots[k]]]

HeaderHash(b) == HashFromByteSlices(<<<<b.chain>>, <<b.height>>>> \o b.roots)

Hash(b) == HeaderHash(fillHeader(b))

\* The block that a C-shard sends to its related shards.
WithoutBody(b) == [fillHeader(b) EXCEPT !.sections[1] = <<>>]

ProtoBytes(b) ==
  <<<<b.chain>>, <<b.height>>>> \o b.roots
    \o [k \in 1..3 |-> <<Len(b.sections[k])>>] \o FlattenSeq(b.sections)

WellFormed(bz) ==
  /\ Len(bz) >= 8 /\ \A j \in {1, 2, 6, 7, 8} : Len(bz[j]) = 1
  /\ Len(bz) = 8 + bz[6][1] + bz[7][1] + bz[8][1]

NewBlockFromBytes(bz) ==
  LET end(k) == 8 + bz[6][1] + (IF k > 1 THEN bz[7][1] ELSE 0) + (IF k > 2 THEN bz[8][1] ELSE 0) IN
  IF ~WellFormed(bz) THEN Nil
  ELSE [chain |-> bz[1][1], height |-> bz[2][1], roots |-> SubSeq(bz, 3, 5),
        sections |-> [k \in 1..3 |-> SubSeq(bz, end(k) - bz[5 + k][1] + 1, end(k))]]

SplitByteArray(data, size) ==
  [j \in 1..((Len(data) + size - 1) \div size) |->
     SubSeq(data, (j - 1) * size + 1, IF j * size > Len(data) THEN Len(data) ELSE j * size)]
-----------------------------------------------------------------------------
(* The proposer: PartSetFromBlock.                                         *)

PartsOf(b, size) ==
  LET bzList == SplitByteArray(ProtoBytes(b), size)
      proofs == ProofsFromByteSlices(bzList)
  IN  [j \in DOMAIN bzList |-> [chain |-> b.chain, height |-> b.height, bytes |-> bzList[j], proof |-> proofs[j]]]

HeaderOf(b, size) ==
  LET bzList == SplitByteArray(ProtoBytes(b), size)
  IN  [chain |-> b.chain, height |-> b.height, total |-> Len(bzList), root |-> HashFromByteSlices(bzList)]

\* A part of which one field was replaced.
Damaged(parts) ==
  LET numbers == 0..(Cardinality(parts) + 1) IN
  {[p EXCEPT !.proof.index = k] : p \in parts, k \in numbers}
    \cup {[p EXCEPT !.proof.total = k] : p \in parts, k \in numbers}
    \cup {[p EXCEPT !.height = @ + 1] : p \in parts} \cup {[p EXCEPT !.chain = @ + 1] : p \in parts}
    \cup {[p EXCEPT !.bytes = q.bytes] : p \in parts, q \in parts}
    \cup {[p EXCEPT !.proof.aunts = q.proof.aunts] : p \in parts, q \in parts}

\* Block b, whose hash is hash, announced as that of block claim, and all
\* that may arrive.
Sent(b, size, hash, claim) ==
  LET parts == PartsOf(b, size)
  IN  [hash |-> hash, block |-> b, parts |-> parts,
       proposal |-> [header |-> HeaderOf(b, size), blockHeaderHash |-> claim],
       wire |-> Range(parts) \cup Range(PartsOf(Other, size)) \cup Damaged(Range(parts))]
-----------------------------------------------------------------------------
(* The validator.                                                          *)

NewPartSet(header, headerHash) ==
  [header |-> header, parts |-> [i \in 0..(header.total - 1) |-> Nil], count |-> 0,
   blockHeaderHash |-> headerHash]

\* Part.ValidateBasic, when the message arrives.
ValidateBasicPart(p) == p.bytes # <<>> /\ ValidateBasicProof(p.proof)

\* Part.Verify.
VerifyPart(p, header) ==
  /\ VerifyProof(p.proof, header.root, p.bytes)
  /\ p.proof.total = header.total /\ p.chain = header.chain

Duplicated(ps, p) == p.proof.index < ps.header.total /\ ps.parts[p.proof.index] # Nil

\* PartSet.AddPart.
AddPart(ps, p) ==
  IF ~Duplicated(ps, p) /\ ps.header.height = p.height /\ VerifyPart(p, ps.header)
  THEN [ps EXCEPT !.parts[p.proof.index] = p, !.count = @ + 1]
  ELSE ps

IsComplete(ps) == ps.header.total = ps.count

\* The bytes of the parts, in their order.
Join(ps) ==
  LET held == SelectSeq([j \in 1..ps.header.total |-> ps.parts[j - 1]], LAMBDA p : p # Nil)
  IN  FlattenSeq([j \in DOMAIN held |-> held[j].bytes])

\* GenBlock; Nil for an error.
GenBlock(ps) ==
  LET b == NewBlockFromBytes(Join(ps)) IN
  IF /\ b # Nil
     /\ b.chain = ps.header.chain /\ b.height = ps.header.height
     /\ Hash(b) = ps.blockHeaderHash
  THEN fillHeader(b) ELSE Nil

\* addInnerPart with a part set, on [partSet, block].
Collect(s, p) ==
  LET ps == AddPart(s.partSet, p)  b == GenBlock(ps) IN
  [partSet |-> ps,
   block |-> IF ps # s.partSet /\ IsComplete(ps) /\ b # Nil THEN b ELSE s.block]

\* A part arrives: addInnerPart.
ReceivePart(p) ==
  /\ ValidateBasicPart(p) /\ p.height = Height /\ p.chain = Chain
  /\ IF partSet = Nil
     THEN /\ Len(buffer) < MaxBuffer
          /\ buffer' = Append(buffer, p)
          /\ UNCHANGED <<partSet, block>>
     ELSE LET s == Collect([partSet |-> partSet, block |-> block], p) IN
          partSet' = s.partSet /\ block' = s.block /\ UNCHANGED buffer
  /\ UNCHANGED sent

\* The proposal arrives: AddProposal opens the part set and adds the parts
\* that have waited.
ReceiveProposal ==
  /\ partSet = Nil
  /\ LET opened == NewPartSet(sent.proposal.header, sent.proposal.blockHeaderHash)
         s == FoldLeft(Collect, [partSet |-> opened, block |-> block], buffer)
     IN  partSet' = s.partSet /\ block' = s.block
  /\ UNCHANGED <<sent, buffer>>
-----------------------------------------------------------------------------
Init == sent = Nil /\ partSet = Nil /\ buffer = <<>> /\ block = Nil

\* The proposer makes a block and sends it, with a claim about its hash.
Propose ==
  /\ sent = Nil
  /\ \E sections \in Sections, size \in PartSize :
       LET b == NewBlock(Chain, Height, sections) IN
       \E form \in {b, WithoutBody(b)}, claim \in {Hash(b), Hash(Other)} :
         sent' = Sent(form, size, Hash(b), claim)
  /\ UNCHANGED <<partSet, buffer, block>>

Next ==
  \/ Propose
  \/ sent # Nil /\ (ReceiveProposal \/ \E p \in sent.wire : ReceivePart(p))

Spec == Init /\ [][Next]_vars
-----------------------------------------------------------------------------
(* Properties.                                                             *)

Held == {i \in DOMAIN partSet.parts : partSet.parts[i] # Nil}

\* count is the number of parts that are there.
TypeOK ==
  /\ Len(buffer) <= MaxBuffer
  /\ partSet # Nil => partSet.count = Cardinality(Held)

\* The recursive and the iterative computation give the same root.
HashesAgree ==
  sent # Nil =>
  LET bzList == [j \in DOMAIN sent.parts |-> sent.parts[j].bytes]
  IN  HashFromByteSlices(bzList) = HashFromByteSlicesIterative(bzList)

\* A part that was accepted has the bytes of its place in the proposer's
\* block, whatever was damaged on the way.
PartsInPlace ==
  partSet # Nil => \A i \in Held : partSet.parts[i].bytes = sent.parts[i + 1].bytes

\* A complete part set gives the block that was sent, with or without its
\* body, if the hash of the whole block was announced, and none otherwise.
BlockIsProposed ==
  partSet # Nil /\ IsComplete(partSet) =>
    block = IF sent.proposal.blockHeaderHash = sent.hash THEN fillHeader(sent.block) ELSE Nil

\* Nothing that has arrived keeps a genuine part out: a block that is sent
\* honestly can always be completed.
GenuinePartsAccepted ==
  partSet # Nil =>
    \A j \in DOMAIN sent.parts :
      j - 1 \in Held \/ AddPart(partSet, sent.parts[j]).parts[j - 1] = sent.parts[j]
=============================================================================
