----------------------------- MODULE RangeTree -----------------------------
(***************************************************************************)
(* The tree of key ranges by which a node decides whether an account is    *)
(* its own (utils/RangeTree.go).  Keys are numbers, ordered like the       *)
(* strings of the code; a range contains its lower bound and not its upper.*)
(*                                                                         *)
(* A node keeps one key, its ukey: the upper bound of the range it spans   *)
(* if it is a left child or the root, the lower bound if it is a right     *)
(* child.  The other bound is known to its ancestors, and every operation  *)
(* carries both down the tree.  A node is a record; its children are a     *)
(* pair, or the empty sequence in a leaf.                                  *)
(***************************************************************************)
EXTENDS Integers, Sequences, SequencesExt

CONSTANTS MaxKey, \* the largest key
          Nil

\* What the constants are; stated as an assumption where they get values.
ConstantsOK == MaxKey \in Nat

VARIABLES tree,     \* [start, end, root]
          covered   \* history: the keys of the ranges added and not deleted

vars == <<tree, covered>>

Key == 0..MaxKey
Panic == -1  \* the ukey of the node at which an operation panics

NewRangeTreeLeaf(ukey) == [ukey |-> ukey, children |-> <<>>, depth |-> 0]
IsLeaf(t) == t.children = <<>>
Node(ukey, left, right, depth) == [ukey |-> ukey, children |-> <<left, right>>, depth |-> depth]

strInRange(s, u, v) == u <= s /\ s <= v
strInRangeRightOpen(s, u, v) == u <= s /\ s < v

DepthOver(left, right) == (IF left.depth > right.depth THEN left.depth ELSE right.depth) + 1
-----------------------------------------------------------------------------
(* AddRange.                                                               *)

\* The deferred function of AddRange: two leaves that touch become one.
Settle(t) ==
  LET left == t.children[1]  right == t.children[2] IN
  IF IsLeaf(left) /\ IsLeaf(right) /\ left.ukey = right.ukey
  THEN NewRangeTreeLeaf(t.ukey)
  ELSE [t EXCEPT !.depth = DepthOver(left, right)]

\* Case 6: a range between the children goes below the shallower one.
InsertBetween(left, right, rangeLow, rangeHigh) ==
  IF left.depth < right.depth
  THEN <<Node(rangeHigh, left, NewRangeTreeLeaf(rangeLow), left.depth + 1), right>>
  ELSE <<left, Node(rangeLow, NewRangeTreeLeaf(rangeHigh), right, right.depth + 1)>>

\* The end of case 1: one child grows over the gap.
Bridge(left, right) ==
  IF left.depth < right.depth THEN <<[left EXCEPT !.ukey = right.ukey], right>>
                              ELSE <<left, [right EXCEPT !.ukey = left.ukey]>>

RECURSIVE NodeAddRange(_, _, _, _, _)
NodeAddRange(t, low, rangeLow, rangeHigh, high) ==
  IF IsLeaf(t) THEN t
  ELSE
    LET left == t.children[1]
        right == t.children[2]
        lowIn(u, v) == strInRange(rangeLow, u, v)
        highIn(u, v) == strInRange(rangeHigh, u, v)
        children ==
          IF lowIn(low, left.ukey) /\ highIn(right.ukey, high)
          THEN Bridge(NodeAddRange(left, low, rangeLow, left.ukey, left.ukey),
                      NodeAddRange(right, right.ukey, right.ukey, rangeHigh, high))
          ELSE IF lowIn(low, left.ukey) /\ highIn(low, left.ukey)
          THEN <<NodeAddRange(left, low, rangeLow, rangeHigh, left.ukey), right>>
          ELSE IF lowIn(right.ukey, high) /\ highIn(right.ukey, high)
          THEN <<left, NodeAddRange(right, right.ukey, rangeLow, rangeHigh, high)>>
          ELSE IF lowIn(left.ukey, right.ukey) /\ highIn(right.ukey, high)
          THEN <<left, NodeAddRange([right EXCEPT !.ukey = rangeLow], rangeLow, rangeLow, rangeHigh, high)>>
          ELSE IF lowIn(low, left.ukey) /\ highIn(left.ukey, right.ukey)
          THEN <<NodeAddRange([left EXCEPT !.ukey = rangeHigh], low, rangeLow, rangeHigh, rangeHigh), right>>
          ELSE IF lowIn(left.ukey, right.ukey) /\ highIn(left.ukey, right.ukey)
          THEN InsertBetween(left, right, rangeLow, rangeHigh)
          ELSE <<[left EXCEPT !.ukey = Panic], right>>
    IN  Settle([t EXCEPT !.children = children])

\* RangeTree.AddRange on tree t.
AddRange(t, rangeLow, rangeHigh) ==
  IF rangeHigh < rangeLow THEN t
  ELSE IF t.root = Nil
  THEN [start |-> rangeLow, end |-> rangeHigh, root |-> NewRangeTreeLeaf(rangeHigh)]
  ELSE IF rangeHigh < t.start
  THEN [t EXCEPT !.start = rangeLow,
                 !.root = Node(t.end, NewRangeTreeLeaf(rangeHigh), [@ EXCEPT !.ukey = t.start], @.depth + 1)]
  ELSE IF rangeLow > t.end
  THEN [t EXCEPT !.end = rangeHigh,
                 !.root = Node(rangeHigh, @, NewRangeTreeLeaf(rangeLow), @.depth + 1)]
  ELSE
    LET start == IF rangeLow < t.start THEN rangeLow ELSE t.start
        end == IF rangeHigh > t.end THEN rangeHigh ELSE t.end
        root == IF rangeHigh > t.end THEN [t.root EXCEPT !.ukey = rangeHigh] ELSE t.root
    IN  [start |-> start, end |-> end, root |-> NodeAddRange(root, start, rangeLow, rangeHigh, end)]
-----------------------------------------------------------------------------
(* DeleteRange.  The result on a node is the node that takes its place and *)
(* the range that it spans.                                                *)

Result(node, low, high) == [node |-> node, low |-> low, high |-> high]

\* A leaf loses one end of its range, or splits.
DeleteFromLeaf(t, low, rangeLow, rangeHigh, high) ==
  IF rangeHigh = high
  THEN Result(IF t.ukey = high THEN [t EXCEPT !.ukey = rangeLow] ELSE t, low, rangeLow)
  ELSE IF rangeLow = low
  THEN Result(IF t.ukey = low THEN [t EXCEPT !.ukey = rangeHigh] ELSE t, rangeHigh, high)
  ELSE Result(Node(t.ukey, NewRangeTreeLeaf(rangeLow), NewRangeTreeLeaf(rangeHigh), t.depth + 1), low, high)

\* Faulty variant: the child keeps the key it had below its parent.
PromoteAsIs(child, isLeft, wasLeft, leftRange, rightRange) ==
  IF wasLeft THEN Result(child, leftRange, child.ukey) ELSE Result(child, child.ukey, rightRange)

\* The child that is left takes the place of its parent, and the key that
\* goes with that place.
Promote(child, isLeft, wasLeft, leftRange, rightRange) ==
  IF wasLeft
  THEN IF isLeft THEN Result(child, leftRange, child.ukey)
                 ELSE Result([child EXCEPT !.ukey = leftRange], leftRange, child.ukey)
  ELSE IF isLeft THEN Result([child EXCEPT !.ukey = rightRange], child.ukey, rightRange)
                 ELSE Result(child, child.ukey, rightRange)

RECURSIVE NodeDeleteRange(_, _, _, _, _)
NodeDeleteRange(t, low, rangeLow, rangeHigh, high) ==
  IF rangeLow = low /\ rangeHigh = high THEN Result(Nil, low, high)
  ELSE IF rangeLow = rangeHigh THEN Result(t, low, high)
  ELSE IF IsLeaf(t) THEN DeleteFromLeaf(t, low, rangeLow, rangeHigh, high)
  ELSE
    LET left == t.children[1]
        right == t.children[2]
        lowIn(u, v) == strInRange(rangeLow, u, v)
        highIn(u, v) == strInRange(rangeHigh, u, v)
        keepLeft == Result(left, low, left.ukey)
        keepRight == Result(right, right.ukey, high)
        dropLeft(h) == NodeDeleteRange(left, low, rangeLow, h, left.ukey)
        dropRight(l) == NodeDeleteRange(right, right.ukey, l, rangeHigh, high)
        both ==
          IF lowIn(low, left.ukey) /\ highIn(right.ukey, high) THEN <<dropLeft(left.ukey), dropRight(right.ukey)>>
          ELSE IF lowIn(low, left.ukey) /\ highIn(low, left.ukey) THEN <<dropLeft(rangeHigh), keepRight>>
          ELSE IF lowIn(right.ukey, high) /\ highIn(right.ukey, high) THEN <<keepLeft, dropRight(rangeLow)>>
          ELSE IF lowIn(left.ukey, right.ukey) /\ highIn(right.ukey, high) THEN <<keepLeft, dropRight(right.ukey)>>
          ELSE IF lowIn(low, left.ukey) /\ highIn(left.ukey, right.ukey) THEN <<dropLeft(left.ukey), keepRight>>
          ELSE <<keepLeft, keepRight>>
        newLeft == both[1].node
        newRight == both[2].node
        leftRange == both[1].low
        rightRange == both[2].high
        isLeft == t.ukey = high
    IN  IF newLeft = Nil /\ newRight = Nil THEN Result(Nil, leftRange, rightRange)
        ELSE IF ~isLeft /\ t.ukey # low THEN Result([t EXCEPT !.ukey = Panic], low, high)
        ELSE IF newRight = Nil THEN Promote(newLeft, isLeft, TRUE, leftRange, rightRange)
        ELSE IF newLeft = Nil THEN Promote(newRight, isLeft, FALSE, leftRange, rightRange)
        ELSE Result(Node(IF isLeft THEN rightRange ELSE leftRange, newLeft, newRight,
                         DepthOver(newLeft, newRight)), leftRange, rightRange)

\* RangeTree.DeleteRange on tree t.
DeleteRange(t, rangeLow, rangeHigh) ==
  IF rangeHigh < rangeLow \/ t.root = Nil THEN t
  ELSE IF rangeHigh < t.start \/ rangeLow > t.end THEN t
  ELSE
    LET from == IF rangeLow < t.start THEN t.start ELSE rangeLow
        to == IF rangeHigh > t.end THEN t.end ELSE rangeHigh
        result == NodeDeleteRange(t.root, t.start, from, to, t.end)
    IN  [start |-> result.low, end |-> result.high, root |-> result.node]
-----------------------------------------------------------------------------
(* Search, Range and Add.                                                  *)

RECURSIVE NodeSearch(_, _, _, _)
NodeSearch(t, p, low, high) ==
  IF IsLeaf(t) THEN strInRangeRightOpen(p, low, high)
  ELSE IF p < t.children[1].ukey THEN NodeSearch(t.children[1], p, low, t.children[1].ukey)
  ELSE p >= t.children[2].ukey /\ NodeSearch(t.children[2], p, t.children[2].ukey, high)

Search(t, p) == t.root # Nil /\ NodeSearch(t.root, p, t.start, t.end)

RECURSIVE NodeRange(_, _, _)
NodeRange(t, start, end) ==
  IF IsLeaf(t) THEN <<<<start, end>>>>
  ELSE NodeRange(t.children[1], start, t.children[1].ukey) \o NodeRange(t.children[2], t.children[2].ukey, end)

RangeOf(t) == IF t.root = Nil THEN <<>> ELSE NodeRange(t.root, t.start, t.end)

NewRangeTree == [start |-> 0, end |-> 0, root |-> Nil]

\* AddRange for every pair of a sequence: Add and NewRangeTreeFromString.
AddAll(t, pairs) == FoldLeft(LAMBDA acc, pair : AddRange(acc, pair[1], pair[2]), t, pairs)
-----------------------------------------------------------------------------
Keys(rangeLow, rangeHigh) == {p \in Key : strInRangeRightOpen(p, rangeLow, rangeHigh)}

Init == tree = NewRangeTree /\ covered = {}

DoAddRange(rangeLow, rangeHigh) ==
  /\ tree' = AddRange(tree, rangeLow, rangeHigh)
  /\ covered' = covered \cup Keys(rangeLow, rangeHigh)

DoDeleteRange(rangeLow, rangeHigh) ==
  /\ tree' = DeleteRange(tree, rangeLow, rangeHigh)
  /\ covered' = covered \ Keys(rangeLow, rangeHigh)

\* Add of a tree that was read from a string of two ranges.
DoAdd(first, second) ==
  LET other == AddAll(NewRangeTree, <<first, second>>) IN
  /\ tree' = AddAll(tree, RangeOf(other))
  /\ covered' = covered \cup Keys(first[1], first[2]) \cup Keys(second[1], second[2])

Next ==
  \/ \E rangeLow, rangeHigh \in Key : DoAddRange(rangeLow, rangeHigh) \/ DoDeleteRange(rangeLow, rangeHigh)
  \/ \E first, second \in Key \X Key : 
       first[1] < first[2] /\ first[2] < second[1] /\ second[1] < second[2] /\ DoAdd(first, second)

Spec == Init /\ [][Next]_vars
-----------------------------------------------------------------------------
(* Properties.                                                             *)

RECURSIVE Nodes(_)
Nodes(t) == {t} \cup (IF IsLeaf(t) THEN {} ELSE Nodes(t.children[1]) \cup Nodes(t.children[2]))
AllNodes == IF tree.root = Nil THEN {} ELSE Nodes(tree.root)

\* The bounds of the tree and the keys of its nodes are keys, so no operation
\* has panicked.
TypeOK == tree.start \in Key /\ tree.end \in Key /\ \A t \in AllNodes : t.ukey \in Key

\* Search finds exactly the keys of the ranges that were added and not deleted
\* since, whatever shape the additions and deletions have given the tree.
SearchIsMembership == \A p \in Key : Search(tree, p) <=> p \in covered

\* Range lists the ranges in order and without overlap, and they are the same
\* keys: a tree that is added to another hands on all of its keys.
RangesAreOrdered ==
  LET ranges == RangeOf(tree) IN
  /\ UNION {Keys(ranges[j][1], ranges[j][2]) : j \in DOMAIN ranges} = covered
  /\ \A j \in DOMAIN ranges : j > 1 => ranges[j - 1][2] <= ranges[j][1]

\* The depths by which AddRange decides where a range goes are the heights of
\* the subtrees.
DepthIsHeight ==
  \A t \in AllNodes : t.depth = IF IsLeaf(t) THEN 0 ELSE DepthOver(t.children[1], t.children[2])
=============================================================================
