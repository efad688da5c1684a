-------------------------------- MODULE P2P --------------------------------
(***************************************************************************)
(* The network layer of a node (utils/p2p): its Sender, with a cached TCP  *)
(* connection per peer and a goroutine per message and peer, and the       *)
(* Receivers of its peers, with a goroutine per connection.                *)
(*                                                                         *)
(* A message is a number; a shard is a list of peers.  TCP is external: a  *)
(* connection carries lines in order until it breaks (the peer stops, the  *)
(* network fails, or the deadline of half an hour has passed); then what   *)
(* is on the way may be lost from any point on, and a line cut off.  A     *)
(* connection that is broken makes every later Write fail.                 *)
(***************************************************************************)
EXTENDS Integers, Sequences, FiniteSets, SequencesExt, TLC

CONSTANTS Peer,      \* addresses of the other nodes
          Self,      \* MyIP
          Added,     \* the peers in the order of the calls of AddPeer
          Retries,   \* 5: the depth that Send passes to TcpDial
          MaxSends,  \* bound: messages
          None

\* What the constants are; stated as an assumption where they get values.
ConstantsOK ==
  /\ Self \notin Peer
  /\ Added \in Seq(Peer \cup {Self})
  /\ Retries \in Nat /\ MaxSends \in Nat

VARIABLES listening,  \* the peers whose Receiver has been started
          shardMap,   \* the list of peers of the shard
          added,      \* the number of calls of AddPeer so far
          started,    \* Sender.Start has been called
          sent,       \* messages given to SendToShard
          connMap,    \* connMap[p]: the cached connection, or None
          broken,     \* the connections that have broken
          wire,       \* wire[c]: messages on the way, a line each
          reader,     \* reader[c]: "run" or "end", of handleConnection
          task,       \* task[<<m, j>>]: the goroutine that sends m to the j-th peer
          received    \* received[p]: what the reactor of p has got

vars == <<listening, shardMap, added, started, sent, connMap, broken, wire, reader, task, received>>

\* A line that was cut off.
Cut == 0

\* A connection is known by the peer and the number of the dial.
Conn == DOMAIN wire
DialedTo(p) == {c \in Conn : c[1] = p}
-----------------------------------------------------------------------------
(* The Sender.                                                             *)

\* Faulty variant: a peer of two shards is listed twice.
WithPeerAgain(list, p) == Append(list, p)

\* AddPeer
WithPeer(list, p) == IF p \in ToSet(list) THEN list ELSE Append(list, p)

AddPeer ==
  /\ added < Len(Added)
  /\ added' = added + 1
  /\ shardMap' = WithPeer(shardMap, Added[added + 1])
  /\ UNCHANGED <<listening, started, sent, connMap, broken, wire, reader, task, received>>

\* The connections after dialing the peers ps.
Dial(ps) ==
  LET new(p) == <<p, Cardinality(DialedTo(p)) + 1>> IN
  /\ connMap' = [p \in Peer |-> IF p \in ps THEN new(p) ELSE connMap[p]]
  /\ wire' = [c \in {new(p) : p \in ps} |-> <<>>] @@ wire
  /\ reader' = [c \in {new(p) : p \in ps} |-> "run"] @@ reader

\* Start dials the peers that listen; it holds connMapLock.
StartSender ==
  /\ ~started /\ added = Len(Added)
  /\ started' = TRUE
  /\ Dial({p \in ToSet(shardMap) \cap listening : connMap[p] = None})
  /\ UNCHANGED <<listening, shardMap, added, sent, broken, task, received>>

\* SendToShard: a goroutine for each peer in the list but the node itself.
SendToShard ==
  /\ started /\ sent < MaxSends
  /\ sent' = sent + 1
  /\ task' = [t \in {<<sent', j>> : j \in {k \in DOMAIN shardMap : shardMap[k] # Self}} |->
                [pc |-> "dial", depth |-> Retries, conn |-> None]] @@ task
  /\ UNCHANGED <<listening, shardMap, added, started, connMap, broken, wire, reader, received>>

PeerOf(t) == shardMap[t[2]]

\* TcpDial up to the release of connMapLock.  A dial that fails is not tried
\* again.
TcpDial(t) ==
  LET p == PeerOf(t) IN
  /\ task[t].pc = "dial"
  /\ \/ /\ connMap[p] # None
        /\ task' = [task EXCEPT ![t].pc = "write", ![t].conn = connMap[p]]
        /\ UNCHANGED <<connMap, wire, reader>>
     \/ /\ connMap[p] = None /\ p \in listening
        /\ Dial({p})
        /\ task' = [task EXCEPT ![t].pc = "write", ![t].conn = <<p, Cardinality(DialedTo(p)) + 1>>]
     \/ /\ connMap[p] = None /\ p \notin listening
        /\ task' = [task EXCEPT ![t].pc = "failed"]
        /\ UNCHANGED <<connMap, wire, reader>>
  /\ UNCHANGED <<listening, shardMap, added, started, sent, broken, received>>

\* Faulty variant: the depth stays.
RetryForever(r) == [r EXCEPT !.pc = "dial", !.conn = None]

\* TcpDial after a Write that failed: again, with the same connection.
Retry(r) ==
  IF r.depth = 0 THEN [r EXCEPT !.pc = "failed"]
  ELSE [r EXCEPT !.pc = "dial", !.depth = @ - 1, !.conn = None]

Write(t) ==
  /\ task[t].pc = "write"
  /\ LET c == task[t].conn IN
     IF c \in broken
     THEN task' = [task EXCEPT ![t] = Retry(@)] /\ UNCHANGED wire
     ELSE /\ wire' = [wire EXCEPT ![c] = Append(@, t[1])]
          /\ task' = [task EXCEPT ![t].pc = "done"]
  /\ UNCHANGED <<listening, shardMap, added, started, sent, connMap, broken, reader, received>>
-----------------------------------------------------------------------------
(* The Receivers, and TCP.                                                 *)

\* Receiver.Start
Listen(p) ==
  /\ p \notin listening
  /\ listening' = listening \cup {p}
  /\ UNCHANGED <<shardMap, added, started, sent, connMap, broken, wire, reader, task, received>>

\* handleConnection, one turn of the loop.  A whole line goes to the reactor;
\* an error with a part of a line ends the goroutine and closes the
\* connection.  An error without a byte does not: the loop goes round.
ReadLine(c) ==
  /\ reader[c] = "run" /\ wire[c] # <<>>
  /\ wire' = [wire EXCEPT ![c] = Tail(@)]
  /\ IF Head(wire[c]) # Cut
     THEN /\ received' = [received EXCEPT ![c[1]] = Append(@, Head(wire[c]))]
          /\ UNCHANGED <<reader, broken>>
     ELSE /\ reader' = [reader EXCEPT ![c] = "end"]
          /\ broken' = broken \cup {c}
          /\ UNCHANGED received
  /\ UNCHANGED <<listening, shardMap, added, started, sent, connMap, task>>

\* External: the connection breaks; what follows a line is lost.
Break(c) ==
  /\ c \notin broken
  /\ broken' = broken \cup {c}
  /\ \E k \in 0..Len(wire[c]) :
       \/ wire' = [wire EXCEPT ![c] = SubSeq(@, 1, k)]
       \/ k < Len(wire[c]) /\ wire' = [wire EXCEPT ![c] = Append(SubSeq(@, 1, k), Cut)]
  /\ UNCHANGED <<listening, shardMap, added, started, sent, connMap, reader, task, received>>
-----------------------------------------------------------------------------
Init ==
  /\ listening = {}
  /\ shardMap = <<>>
  /\ added = 0
  /\ started = FALSE
  /\ sent = 0
  /\ connMap = [p \in Peer |-> None]
  /\ broken = {}
  /\ wire = <<>>
  /\ reader = <<>>
  /\ task = <<>>
  /\ received = [p \in Peer |-> <<>>]

Goroutine(t) == TcpDial(t) \/ Write(t)

Next ==
  \/ AddPeer \/ StartSender \/ SendToShard
  \/ \E t \in DOMAIN task : Goroutine(t)
  \/ \E p \in Peer : Listen(p)
  \/ \E c \in Conn : ReadLine(c) \/ Break(c)

\* The goroutines run.  Nothing else has to happen.
Spec ==
  /\ Init /\ [][Next]_vars
  /\ \A t \in (1..MaxSends) \X (1..Len(Added)) : WF_vars(t \in DOMAIN task /\ Goroutine(t))
  /\ \A c \in Peer \X (1..MaxSends + 1) : WF_vars(c \in Conn /\ ReadLine(c))
-----------------------------------------------------------------------------
(* Properties.                                                             *)

TypeOK ==
  /\ listening \subseteq Peer
  /\ shardMap \in Seq(Peer \cup {Self})
  /\ sent \in 0..MaxSends
  /\ connMap \in [Peer -> Conn \cup {None}]
  /\ broken \subseteq Conn /\ DOMAIN reader = Conn
  /\ \A t \in DOMAIN task : /\ task[t].pc \in {"dial", "write", "done", "failed"}
                            /\ task[t].depth \in 0..Retries
                            /\ task[t].conn \in Conn \cup {None}

\* A peer gets a message at most once, although TcpDial writes a message up
\* to Retries + 1 times and AddPeer may be called for a peer again.
NoDuplicates == \A p \in Peer : IsInjective(received[p])

\* Goroutines that send to the same peer at the same time share one
\* connection (connMapLock is held while dialing).
OneConnection == \A p \in Peer : Cardinality(DialedTo(p)) <= 1

\* Every goroutine ends, as the number of retries is bounded, and then its
\* message has reached the peer, except for a peer that does not
\* listen when it is dialed or whose connection breaks.
SendsEnd ==
  []<>(\A t \in DOMAIN task :
         /\ task[t].pc \in {"done", "failed"}
         /\ \/ t[1] \in ToSet(received[PeerOf(t)])
            \/ task[t].pc = "failed" /\ task[t].conn = None
            \/ DialedTo(PeerOf(t)) \cap broken # {})
=============================================================================
