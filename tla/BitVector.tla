----------------------------- MODULE BitVector -----------------------------
(***************************************************************************)
(* utils.BitVector: the votes of an aggregated signature and the commit    *)
(* status of a C-block are vectors of this type, sent as bytes.            *)
(*                                                                         *)
(* A vector is a record of its number of bits and its elements.  An        *)
(* element is the set of its bits that are 1; it has Width bits, which is  *)
(* 8 in the code.  The last element may have bits beyond the size.         *)
(***************************************************************************)
EXTENDS Naturals, FiniteSets, Sequences

CONSTANTS Width,    \* bits of an element
          MaxBits   \* bound: the largest vector of the model

\* What the constants are; stated as an assumption where they get values.
ConstantsOK == Width \in Nat \ {0} /\ MaxBits \in Nat

Element == SUBSET (0..(Width - 1))
ElementsFor(bits) == (bits + Width - 1) \div Width
Smaller(x, y) == IF x < y THEN x ELSE y
Larger(x, y) == IF x > y THEN x ELSE y

NewBitVector(bits) == [bits |-> bits, elems |-> [e \in 1..ElementsFor(bits) |-> {}]]

GetIndex(bv, i) == i < bv.bits /\ (i % Width) \in bv.elems[(i \div Width) + 1]

\* SetIndex changes nothing beyond the size (and returns false).
SetIndex(bv, i, v) ==
  IF i >= bv.bits THEN bv
  ELSE [bv EXCEPT !.elems[(i \div Width) + 1] =
          IF v THEN @ \cup {i % Width} ELSE @ \ {i % Width}]

\* copyBits: another size, the elements that fit, zeroes for the rest.
CopyBits(bv, bits) ==
  [bits  |-> bits,
   elems |-> [e \in 1..ElementsFor(bits) |->
                IF e <= Len(bv.elems) THEN bv.elems[e] ELSE {}]]

And(x, y) ==
  LET c == CopyBits(x, Smaller(x.bits, y.bits)) IN
  [c EXCEPT !.elems = [e \in DOMAIN c.elems |-> c.elems[e] \cap y.elems[e]]]

\* Or works on the elements both vectors have.
Or(x, y) ==
  LET c       == CopyBits(x, Larger(x.bits, y.bits))
      smaller == Smaller(Len(x.elems), Len(y.elems))
  IN  [c EXCEPT !.elems = [e \in DOMAIN c.elems |->
         IF e <= smaller THEN c.elems[e] \cup y.elems[e] ELSE c.elems[e]]]

\* Not flips whole elements, the bits beyond the size too.
Not(x) == [x EXCEPT !.elems = [e \in DOMAIN x.elems |-> (0..(Width - 1)) \ x.elems[e]]]

Sub(x, y) ==
  LET smaller == Smaller(Len(x.elems), Len(y.elems)) IN
  [x EXCEPT !.elems = [e \in DOMAIN x.elems |->
     IF e <= smaller THEN x.elems[e] \ y.elems[e] ELSE x.elems[e]]]

CountNoneZero(bv) == Cardinality({i \in 0..(bv.bits - 1) : GetIndex(bv, i)})

\* Byte: the number of useless bits of the last element, then the elements.
Byte(bv) == <<Width * Len(bv.elems) - bv.bits>> \o bv.elems

\* Faulty variant: the useless bits of the last element count as bits.
NewBitArrayFromByteAllBits(buf) ==
  IF Len(buf) = 0 THEN NewBitVector(0)
  ELSE [bits |-> (Len(buf) - 1) * Width, elems |-> Tail(buf)]

NewBitArrayFromByte(buf) ==
  IF Len(buf) = 0 THEN NewBitVector(0)
  ELSE [bits |-> (Len(buf) - 1) * Width - buf[1], elems |-> Tail(buf)]
-----------------------------------------------------------------------------
(* Two vectors in use: bits are set and cleared, and vectors replaced by   *)
(* the result of an operation or sent to another node as bytes.            *)

VARIABLES a, b

vars == <<a, b>>

Init == \E i, j \in 0..MaxBits : a = NewBitVector(i) /\ b = NewBitVector(j)

SetA == \E i \in 0..MaxBits, v \in BOOLEAN : a' = SetIndex(a, i, v) /\ b' = b
SetB == \E i \in 0..MaxBits, v \in BOOLEAN : b' = SetIndex(b, i, v) /\ a' = a
Negate == a' = Not(a) /\ b' = b
Intersect == a' = And(a, b) /\ b' = b
Subtract == a' = Sub(a, b) /\ b' = b
Unite == a' = Or(a, b) /\ b' = b
Send == b' = NewBitArrayFromByte(Byte(a)) /\ a' = a

Next == SetA \/ SetB \/ Negate \/ Intersect \/ Subtract \/ Unite \/ Send

Spec == Init /\ [][Next]_vars
-----------------------------------------------------------------------------
Index == 0..MaxBits

TypeOK ==
  \A bv \in {a, b} : bv.bits \in 0..MaxBits /\ bv.elems \in [1..ElementsFor(bv.bits) -> Element]

\* A vector survives being sent: a node that receives the aggregated votes
\* or a commit status works on the vector the sender had, whatever was done
\* to it before (Byte, NewBitArrayFromByte).
SentUnchanged == \A bv \in {a, b} : NewBitArrayFromByte(Byte(bv)) = bv

\* And, which combines the commit statuses of several I-shards, commits
\* exactly the transactions that both vectors commit, also for vectors of
\* different sizes and whatever the bits beyond the size are.
AndIsConjunction ==
  /\ And(a, b).bits = Smaller(a.bits, b.bits)
  /\ \A i \in Index : GetIndex(And(a, b), i) <=> GetIndex(a, i) /\ GetIndex(b, i)

\* "The output is the same as bA, regardless of o's size": Sub clears the
\* bits of the other vector, provided that one is clean beyond its size.
Clean(bv) == \A e \in DOMAIN bv.elems : \A i \in bv.elems[e] : (e - 1) * Width + i < bv.bits
SubIsDifference ==
  /\ Sub(a, b).bits = a.bits
  /\ Clean(b) => \A i \in Index : GetIndex(Sub(a, b), i) <=> GetIndex(a, i) /\ ~GetIndex(b, i)

\* Not complements every bit of the vector, and twice gives it back.
NotIsComplement ==
  /\ \A i \in Index : i < a.bits => (GetIndex(Not(a), i) <=> ~GetIndex(a, i))
  /\ CountNoneZero(Not(a)) = a.bits - CountNoneZero(a)
  /\ Not(Not(a)) = a

\* The comment of Or: the smaller vector is padded with zeroes, so that a
\* bit of the result is set when it is set in either vector.
OrIsDisjunction ==
  Clean(a) /\ Clean(b) =>
    \A i \in Index : GetIndex(Or(a, b), i) <=> GetIndex(a, i) \/ GetIndex(b, i)
=============================================================================
