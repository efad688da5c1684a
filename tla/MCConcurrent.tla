---------------------------- MODULE MCConcurrent ----------------------------
(***************************************************************************)
(* What goroutines share outside the consensus, one at a time: a mempool   *)
(* with two adders; the list under the mempools, along which one goroutine *)
(* walks forwards and one backwards; and the connections of a sender to    *)
(* two peers, one of which is added twice, and to the node itself, as      *)
(* createP2p adds them.                                                    *)
(***************************************************************************)
EXTENDS Mempool

CONSTANTS Nil, MaxElems, None, Retries, MaxSends

VARIABLES head, tail, len, listWg, elem, released, panicked, op, contents, walker,
          listening, shardMap, added, started, sent, connMap, broken, wire, reader, task, received

Walkers == {"w1", "w2"}
List == INSTANCE CList WITH
  Walker <- Walkers, Dir <- [w \in Walkers |-> IF w = "w1" THEN "next" ELSE "prev"]
Peers == {"p1", "p2"}
Net == INSTANCE P2P WITH Peer <- Peers, Self <- "self", Added <- <<"p1", "self", "p2", "p1">>

ASSUME ConcurrentAssumption == List!ConstantsOK /\ Net!ConstantsOK

listVars == <<head, tail, len, listWg, elem, released, panicked, op, contents, walker>>
netVars == <<listening, shardMap, added, started, sent, connMap, broken, wire, reader, task, received>>
allVars == <<vars, listVars, netVars>>

MCInit == Init /\ List!Init /\ Net!Init

\* The other two are as they were at first.
MCNext ==
  \/ List!Init /\ Net!Init /\ Next /\ UNCHANGED <<listVars, netVars>>
  \/ Init /\ Net!Init /\ List!Next /\ UNCHANGED <<vars, netVars>>
  \/ Init /\ List!Init /\ Net!Next /\ UNCHANGED <<vars, listVars>>

Tasks == (1..MaxSends) \X (1..4)
Conns == Peers \X (1..MaxSends + 1)

\* The fairness of CList and of P2P, while they are the one in use.
MCSpec ==
  /\ MCInit /\ [][MCNext]_allVars
  /\ WF_listVars(Net!Init /\ List!Continue)
  /\ \A w \in Walkers : WF_listVars(Net!Init /\ List!Walk(w))
  /\ \A t \in Tasks : WF_netVars(t \in DOMAIN task /\ Net!Goroutine(t))
  /\ \A c \in Conns : WF_netVars(c \in DOMAIN wire /\ Net!ReadLine(c))
-----------------------------------------------------------------------------
(* The properties of CList and P2P.                                        *)

\* Between two operations the links lead through the elements in order, and
\* no wait group is Done twice, which panics (SetNext, SetRemoved).
ListIsRight == List!TypeOK /\ List!Linked /\ List!NoPanic

\* A goroutine that walks towards the end passes over no element, and NextWait
\* returns nil only for one that was removed as the tail.
WalkIsComplete == List!NothingSkipped /\ List!NilOnlyAtTail

\* Whoever waits goes on when there is something to see (NextWait, FrontWait).
WaitersWake == List!WaitersWake

\* A peer gets a message at most once, and goroutines that send to the same
\* peer share one connection (TcpDial, AddPeer).
SentOnce == Net!TypeOK /\ Net!NoDuplicates /\ Net!OneConnection

\* Every send ends, with the message delivered unless the dial has failed or
\* the connection is broken (TcpDial, handleConnection).
SendsEnd == Net!SendsEnd
=============================================================================
