------------------------------- MODULE CList -------------------------------
(***************************************************************************)
(* The linked list under the mempools (libs/clist).  PushBack and Remove   *)
(* hold the lock of the list, but goroutines walk along the elements       *)
(* without it: a walker sees the links between any two assignments of an   *)
(* operation, which are therefore steps of their own.                      *)
(*                                                                         *)
(* Elements are numbered in the order in which they are pushed.  The two   *)
(* directions of the links are alike: dir is "next" or "prev".  A wait     *)
(* group is named by its owner, its direction and a number that grows when *)
(* the code makes a new one; released holds those that are Done.  A wait   *)
(* channel is closed exactly where its wait group is Done, and is left out.*)
(***************************************************************************)
EXTENDS Naturals, Sequences, FiniteSets, Functions, TLC

CONSTANTS Walker,    \* goroutines that walk the list
          Dir,       \* Dir[w]: the direction in which w walks
          MaxElems,  \* bound: elements pushed
          Nil

\* What the constants are; stated as an assumption where they get values.
ConstantsOK ==
  Dir \in [Walker -> {"next", "prev"}] /\ MaxElems \in Nat /\ Nil \notin 1..MaxElems

VARIABLES head, tail, len,
          listWg,    \* the number of the list's wait group
          elem,      \* elem[e]: links, wait groups and removed
          released,  \* wait groups that are Done
          panicked,  \* Done was called on a wait group that is Done
          op,        \* the operation that holds l.mtx
          contents,  \* history: the elements that are in the list
          walker     \* walker[w]: what goroutine w is doing

links == <<elem, released, panicked>>
vars == <<head, tail, len, listWg, links, op, contents, walker>>

Free == [name |-> "free"]
Elem == DOMAIN elem
-----------------------------------------------------------------------------
(* CElement.                                                               *)

NewElement ==
  [next |-> Nil, prev |-> Nil, wg |-> [next |-> 1, prev |-> 1],
   removed |-> FALSE, lastIn |-> {}]

WgOf(e, dir) == <<e, dir, elem[e].wg[dir]>>

\* wg.Done for each of the groups.
Done(groups) ==
  /\ released' = released \cup groups
  /\ panicked' = (panicked \/ groups \cap released # {})

\* Faulty variant: the wait group is used again.
SetLinkReuses(e, dir, new) ==
  /\ elem' = [elem EXCEPT ![e][dir] = new]
  /\ Done(IF elem[e][dir] = Nil /\ new # Nil THEN {WgOf(e, dir)} ELSE {})

\* SetNext and SetPrev: a link that goes needs a new wait group, and one that
\* comes releases those who wait.
SetLink(e, dir, new) ==
  /\ elem' = [elem EXCEPT ![e][dir] = new,
                          ![e].wg[dir] = IF elem[e][dir] # Nil /\ new = Nil THEN @ + 1 ELSE @]
  /\ Done(IF elem[e][dir] = Nil /\ new # Nil THEN {WgOf(e, dir)} ELSE {})

\* Faulty variant: nobody is woken up.
SetRemovedQuiet(e) ==
  /\ elem' = [elem EXCEPT ![e].removed = TRUE,
                          ![e].lastIn = {dir \in {"next", "prev"} : elem[e][dir] = Nil}]
  /\ Done({})

\* SetRemoved.  lastIn is history: the ends of the list at which e was.
SetRemoved(e) ==
  LET ends == {dir \in {"next", "prev"} : elem[e][dir] = Nil} IN
  /\ elem' = [elem EXCEPT ![e].removed = TRUE, ![e].lastIn = ends]
  /\ Done({WgOf(e, dir) : dir \in ends})

\* DetachPrev, which the contract of Remove asks of its caller; the mempools
\* leave it out.
DetachPrev(e) ==
  /\ elem[e].removed /\ elem[e].prev # Nil
  /\ elem' = [elem EXCEPT ![e].prev = Nil]
  /\ UNCHANGED <<head, tail, len, listWg, released, panicked, op, contents, walker>>
-----------------------------------------------------------------------------
(* PushBack.                                                               *)

PushBack ==
  /\ op = Free /\ Cardinality(Elem) < MaxElems
  /\ LET e == Cardinality(Elem) + 1 IN
     /\ elem' = elem @@ (e :> NewElement)
     /\ Done(IF len = 0 THEN {<<Nil, "list", listWg>>} ELSE {})
     /\ len' = len + 1
     /\ IF tail = Nil
        THEN head' = e /\ tail' = e /\ contents' = Append(contents, e) /\ UNCHANGED op
        ELSE op' = [name |-> "SetPrev", e |-> e] /\ UNCHANGED <<head, tail, contents>>
  /\ UNCHANGED <<listWg, walker>>

PushBackSetPrev ==
  /\ op.name = "SetPrev"
  /\ SetLink(op.e, "prev", tail)
  /\ op' = [op EXCEPT !.name = "SetNext"]
  /\ UNCHANGED <<head, tail, len, listWg, contents, walker>>

PushBackSetNext ==
  /\ op.name = "SetNext"
  /\ SetLink(tail, "next", op.e)
  /\ tail' = op.e
  /\ contents' = Append(contents, op.e)
  /\ op' = Free
  /\ UNCHANGED <<head, len, listWg, walker>>
-----------------------------------------------------------------------------
(* Remove, of an element of the list: see module Mempool.                  *)

Remove(e) ==
  /\ op = Free
  /\ e \in Range(contents)
  /\ listWg' = IF len = 1 THEN listWg + 1 ELSE listWg
  /\ len' = len - 1
  /\ IF elem[e].prev = Nil
     THEN head' = elem[e].next /\ UNCHANGED links
     ELSE SetLink(elem[e].prev, "next", elem[e].next) /\ UNCHANGED head
  /\ op' = [name |-> "Unlink", e |-> e, prev |-> elem[e].prev, next |-> elem[e].next]
  /\ contents' = SelectSeq(contents, LAMBDA x : x # e)
  /\ UNCHANGED <<tail, walker>>

RemoveUnlink ==
  /\ op.name = "Unlink"
  /\ IF op.next = Nil
     THEN tail' = op.prev /\ UNCHANGED links
     ELSE SetLink(op.next, "prev", op.prev) /\ UNCHANGED tail
  /\ op' = [op EXCEPT !.name = "SetRemoved"]
  /\ UNCHANGED <<head, len, listWg, contents, walker>>

RemoveSetRemoved ==
  /\ op.name = "SetRemoved"
  /\ SetRemoved(op.e)
  /\ op' = Free
  /\ UNCHANGED <<head, tail, len, listWg, contents, walker>>
-----------------------------------------------------------------------------
(* Walkers.                                                                *)

\* FrontWait and BackWait, one turn of the loop.
EndWait(w) ==
  LET end == IF Dir[w] = "next" THEN head ELSE tail IN
  /\ walker[w].pc = "start" /\ op = Free
  /\ walker' = [walker EXCEPT ![w] = IF end # Nil THEN [pc |-> "at", e |-> end]
                                     ELSE [pc |-> "wait", e |-> Nil, wg |-> <<Nil, "list", listWg>>]]
  /\ UNCHANGED <<head, tail, len, listWg, links, op, contents>>

\* Faulty variant: from an element that was removed to the last one.
LinkWaitJumps(w) ==
  LET e == walker[w].e  next == IF elem[e].removed /\ tail # Nil THEN tail ELSE elem[e][Dir[w]] IN
  /\ walker[w].pc = "at"
  /\ walker' = [walker EXCEPT ![w] = IF next # Nil THEN [pc |-> "at", e |-> next]
                                     ELSE IF elem[e].removed THEN [pc |-> "start", e |-> e]
                                     ELSE [pc |-> "wait", e |-> e, wg |-> WgOf(e, Dir[w])]]
  /\ UNCHANGED <<head, tail, len, listWg, links, op, contents>>

\* NextWait and PrevWait, one turn of the loop; after nil the walker starts
\* again at the end of the list.
LinkWait(w) ==
  LET e == walker[w].e  next == elem[e][Dir[w]] IN
  /\ walker[w].pc = "at"
  /\ walker' = [walker EXCEPT ![w] = IF next # Nil THEN [pc |-> "at", e |-> next]
                                     ELSE IF elem[e].removed THEN [pc |-> "start", e |-> e]
                                     ELSE [pc |-> "wait", e |-> e, wg |-> WgOf(e, Dir[w])]]
  /\ UNCHANGED <<head, tail, len, listWg, links, op, contents>>

\* wg.Wait returns.
Wake(w) ==
  /\ walker[w].pc = "wait" /\ walker[w].wg \in released
  /\ walker' = [walker EXCEPT ![w] = IF @.e = Nil THEN [pc |-> "start", e |-> Nil]
                                     ELSE [pc |-> "at", e |-> @.e]]
  /\ UNCHANGED <<head, tail, len, listWg, links, op, contents>>
-----------------------------------------------------------------------------
Init ==
  /\ head = Nil /\ tail = Nil /\ len = 0
  /\ listWg = 1
  /\ elem = <<>>
  /\ released = {}
  /\ panicked = FALSE
  /\ op = Free
  /\ contents = <<>>
  /\ walker = [w \in Walker |-> [pc |-> "start", e |-> Nil]]

\* The rest of an operation that has begun.
Continue == PushBackSetPrev \/ PushBackSetNext \/ RemoveUnlink \/ RemoveSetRemoved

Walk(w) == EndWait(w) \/ LinkWait(w) \/ Wake(w)

Next ==
  \/ PushBack \/ Continue
  \/ \E e \in Elem : Remove(e) \/ DetachPrev(e)
  \/ \E w \in Walker : Walk(w)

\* A goroutine that can run does; nobody has to push or to remove.
Spec == Init /\ [][Next]_vars /\ WF_vars(Continue) /\ \A w \in Walker : WF_vars(Walk(w))
-----------------------------------------------------------------------------
(* Properties.                                                             *)

TypeOK ==
  /\ len \in 0..MaxElems
  /\ {head, tail} \subseteq Elem \cup {Nil}
  /\ \A e \in Elem : elem[e].next \in Elem \cup {Nil} /\ elem[e].prev \in Elem \cup {Nil}
  /\ \A w \in Walker : walker[w].pc \in {"start", "at", "wait"} /\ walker[w].e \in Elem \cup {Nil}

\* When no operation is under way the links lead through the elements of the
\* list in the order of the pushes, in both directions, and len counts them.
Linked ==
  op = Free =>
    LET at(j) == IF j \in DOMAIN contents THEN contents[j] ELSE Nil IN
    /\ len = Len(contents) /\ head = at(1) /\ tail = at(Len(contents))
    /\ \A j \in DOMAIN contents : /\ elem[contents[j]].next = at(j + 1)
                                  /\ elem[contents[j]].prev = at(j - 1)
                                  /\ ~elem[contents[j]].removed

\* No wait group is Done twice, and no channel closed twice: both panic.
NoPanic == ~panicked

\* A goroutine that walks towards the end never passes over an element of the
\* list, even from an element that was removed under it.
NothingSkipped ==
  [][\A w \in Walker :
       /\ Dir[w] = "next" /\ walker[w].pc = "at" /\ walker'[w].pc = "at"
       /\ walker'[w].e # walker[w].e
       => \A e \in Range(contents) : ~(walker[w].e < e /\ e < walker'[w].e)]_vars

\* NextWait returns nil only for an element that was the tail when it was
\* removed.
NilOnlyAtTail ==
  [][\A w \in Walker :
       /\ Dir[w] = "next" /\ walker[w].pc = "at" /\ walker'[w].pc = "start"
       => "next" \in elem[walker[w].e].lastIn]_vars

\* Whoever waits does not do so for ever at an element that has a neighbour or
\* is removed, nor for the first element of a list that has one.
WaitersWake ==
  \A w \in Walker :
    []<>~(/\ walker[w].pc = "wait"
          /\ IF walker[w].e = Nil THEN head # Nil
             ELSE elem[walker[w].e][Dir[w]] # Nil \/ elem[walker[w].e].removed)
=============================================================================
