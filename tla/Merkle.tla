------------------------------- MODULE Merkle -------------------------------
(***************************************************************************)
(* Merkle trees and inclusion proofs (crypto/merkle).  A hash is the term  *)
(* it is computed from: two inputs have the same hash only if they are the *)
(* same, and a leaf is never taken for an inner node (the prefixes of      *)
(* hash.go).  A hash of wrong length is Nil, which equals no hash.         *)
(***************************************************************************)
EXTENDS Integers, Sequences, SequencesExt

CONSTANT Nil

emptyHash == <<0>>
leafHash(leaf) == <<0, leaf>>
innerHash(left, right) == <<1, left, right>>

\* The largest power of two below length.
getSplitPoint(length) ==
  LET k == CHOOSE k \in {2 ^ e : e \in 0..length} : k <= length /\ length < 2 * k
  IN  IF k = length THEN k \div 2 ELSE k

Left(items) == SubSeq(items, 1, getSplitPoint(Len(items)))
Right(items) == SubSeq(items, getSplitPoint(Len(items)) + 1, Len(items))

RECURSIVE HashFromByteSlices(_)
HashFromByteSlices(items) ==
  CASE Len(items) = 0 -> emptyHash
    [] Len(items) = 1 -> leafHash(items[1])
    [] OTHER -> innerHash(HashFromByteSlices(Left(items)), HashFromByteSlices(Right(items)))

\* One pass of the loop: neighbours are hashed together, the last one of an
\* odd number goes up as it is.
Pass(hashes) ==
  [j \in 1..((Len(hashes) + 1) \div 2) |->
     IF 2 * j <= Len(hashes) THEN innerHash(hashes[2 * j - 1], hashes[2 * j]) ELSE hashes[2 * j - 1]]

RECURSIVE Passes(_)
Passes(hashes) ==
  CASE Len(hashes) = 0 -> emptyHash
    [] Len(hashes) = 1 -> hashes[1]
    [] OTHER -> Passes(Pass(hashes))

HashFromByteSlicesIterative(items) == Passes([j \in DOMAIN items |-> leafHash(items[j])])
-----------------------------------------------------------------------------
(* Proofs.  Indices count from 0, as in the code.                          *)

\* trailsFromByteSlices and FlattenAunts: the hashes beside the way from each
\* leaf to the root.
RECURSIVE trailsFromByteSlices(_)
trailsFromByteSlices(items) ==
  IF Len(items) <= 1 THEN [j \in DOMAIN items |-> <<>>]
  ELSE LET left == Left(items)  right == Right(items)
           lefts == trailsFromByteSlices(left)  rights == trailsFromByteSlices(right)
       IN  [j \in DOMAIN lefts |-> Append(lefts[j], HashFromByteSlices(right))]
             \o [j \in DOMAIN rights |-> Append(rights[j], HashFromByteSlices(left))]

ProofsFromByteSlices(items) ==
  LET trails == trailsFromByteSlices(items) IN
  [j \in DOMAIN items |->
     [total |-> Len(items), index |-> j - 1, leafHash |-> leafHash(items[j]), aunts |-> trails[j]]]

RECURSIVE computeHashFromAunts(_, _, _, _)
computeHashFromAunts(index, total, hash, innerHashes) ==
  IF index >= total \/ index < 0 \/ total <= 0 THEN Nil
  ELSE IF total = 1 THEN IF innerHashes = <<>> THEN hash ELSE Nil
  ELSE IF innerHashes = <<>> THEN Nil
  ELSE LET numLeft == getSplitPoint(total)
           aunt == Last(innerHashes)
           left == computeHashFromAunts(index, numLeft, hash, Front(innerHashes))
           right == computeHashFromAunts(index - numLeft, total - numLeft, hash, Front(innerHashes))
       IN  IF index < numLeft THEN IF left = Nil THEN Nil ELSE innerHash(left, aunt)
           ELSE IF right = Nil THEN Nil ELSE innerHash(aunt, right)

\* Faulty variant: the leaf is not compared.
VerifyProofAnyLeaf(proof, rootHash, leaf) ==
  /\ proof.total >= 0 /\ proof.index >= 0
  /\ computeHashFromAunts(proof.index, proof.total, proof.leafHash, proof.aunts) = rootHash

\* Proof.Verify.
VerifyProof(proof, rootHash, leaf) ==
  /\ proof.total >= 0 /\ proof.index >= 0
  /\ proof.leafHash = leafHash(leaf)
  /\ computeHashFromAunts(proof.index, proof.total, proof.leafHash, proof.aunts) = rootHash

\* Proof.ValidateBasic; the lengths of hashes hold for every term.
ValidateBasicProof(proof) == proof.total >= 0 /\ proof.index >= 0
=============================================================================
