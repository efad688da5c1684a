------------------------------- MODULE MCData -------------------------------
(***************************************************************************)
(* The data structures of the protocols, one at a time: the collections of *)
(* votes of module MCVotes; two bit vectors; a tree of key ranges; and a   *)
(* block of nine to eleven bytes that is collected in one to four parts.   *)
(***************************************************************************)
EXTENDS MCVotes, Naturals, Sequences

CONSTANTS Width, MaxBits, MaxKey, Nil, Chain, Height, PartSize, MaxBuffer

VARIABLES a, b,                            \* bit vectors
          tree, covered,                   \* range tree
          proposed, partSet, buffer, block \* part set

Bits == INSTANCE BitVector
Ranges == INSTANCE RangeTree
Parts == INSTANCE PartSet WITH
  sent <- proposed,
  Sections <- {<<<<<<1>>>>, <<>>, <<>>>>, <<<<>>, <<<<1>>>>, <<<<1>>, <<1>>>>>>,
               <<<<<<1>>, <<2>>>>, <<>>, <<<<1>>>>>>},
  Other <- [chain |-> Chain, height |-> Height, roots |-> <<<<>>, <<>>, <<>>>>,
            sections |-> <<<<<<2>>>>, <<>>, <<<<1>>>>>>]

ASSUME DataAssumption == Bits!ConstantsOK /\ Ranges!ConstantsOK /\ Parts!ConstantsOK

dataVars == <<a, b, tree, covered, proposed, partSet, buffer, block>>

DataInit == MCInit /\ Bits!Init /\ Ranges!Init /\ Parts!Init

\* The others are as they were at first, the vectors empty.
NoBits == {a, b} = {Bits!NewBitVector(0)}

DataNext ==
  \/ /\ NoBits /\ Ranges!Init /\ Parts!Init
     /\ MCNext /\ UNCHANGED dataVars
  \/ /\ MCInit /\ Ranges!Init /\ Parts!Init
     /\ Bits!Next /\ UNCHANGED <<allVars, tree, covered, proposed, partSet, buffer, block>>
  \/ /\ MCInit /\ NoBits /\ Parts!Init
     /\ Ranges!Next /\ UNCHANGED <<allVars, a, b, proposed, partSet, buffer, block>>
  \/ /\ MCInit /\ NoBits /\ Ranges!Init
     /\ Parts!Next /\ UNCHANGED <<allVars, a, b, tree, covered>>

DataSpec == DataInit /\ [][DataNext]_<<allVars, dataVars>>
-----------------------------------------------------------------------------
(* The properties of BitVector, RangeTree and PartSet.                     *)

\* A vector survives being sent as bytes, and And, Sub and Not do to its bits
\* what they say, whatever the sizes (Byte, NewBitArrayFromByte, And, Sub, Not).
BitsAreRight ==
  /\ Bits!TypeOK /\ Bits!SentUnchanged
  /\ Bits!AndIsConjunction /\ Bits!SubIsDifference /\ Bits!NotIsComplement

\* After any additions and deletions Search finds exactly the keys that were
\* added and not deleted, Range lists them in order, no operation has panicked
\* and the depths are right (AddRange, DeleteRange, Search, Range).
RangesAreRight ==
  /\ Ranges!TypeOK /\ Ranges!SearchIsMembership
  /\ Ranges!RangesAreOrdered /\ Ranges!DepthIsHeight

\* A part that was accepted has the bytes of its place, whatever was damaged,
\* nothing that has arrived keeps a genuine part out, and a complete part set
\* gives the block that was announced, or none; the recursive and the iterative
\* root agree (AddPart, Part.Verify, GenBlock, HashFromByteSlices).
PartsAreRight ==
  /\ Parts!TypeOK /\ Parts!HashesAgree
  /\ Parts!PartsInPlace /\ Parts!GenuinePartsAccepted /\ Parts!BlockIsProposed
=============================================================================
