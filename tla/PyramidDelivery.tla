-------------------------- MODULE PyramidDelivery --------------------------
(***************************************************************************)
(* Pyramid on a network that delivers each message to each receiver once:  *)
(* nothing in the code sends a message again, or asks for one, and a       *)
(* message that a handler drops is gone.                                   *)
(***************************************************************************)
EXTENDS Pyramid

VARIABLE delivered   \* delivered[n]: the messages that node n has handled

deliveryVars == <<st, msgs, delivered>>

DeliveryInit == Init /\ delivered = [n \in Node |-> {}]
DeliveryStartedInit == StartedInit /\ delivered = [n \in Node |-> {}]

\* A proposer holds its own proposal and a voter its own vote: SendToShard
\* leaves out the sender.
FromSelf(n, m) == m.type \in {"Proposal", "Prevote", "Precommit"} /\ m.from = IndexOf(n)

Undelivered(n) ==
  {m \in msgs \ delivered[n] :
     m.to = ChainOf(n) /\ m.height <= MaxHeight /\ ~FromSelf(n, m)}

Deliver(n) ==
  /\ Unlocked(n)
  /\ \E m \in Undelivered(n) :
       /\ Become(n, DoMessage(n, st[n], m))
       /\ delivered' = [delivered EXCEPT ![n] = @ \cup {m}]

Internal(n) ==
  /\ \/ Start(n)
     \/ \E m \in st[n].relay : Replay(n, m)
     \/ Resume(n)
  /\ UNCHANGED delivered

\* Node n can take a step: ENABLED (Deliver(n) \/ Internal(n)), written out.
\* The handlers of a node run to their end, every node is started, and the
\* connections deliver what was sent.  So \A n \in Node : []<>~Owed(n) is fair:
\* a node takes only finitely many of these steps, and the formula is their
\* weak fairness.
Owed(n) ==
  \/ Unlocked(n) /\ (st[n].height = 0 \/ Undelivered(n) # {})
  \/ st[n].up /\ st[n].height <= MaxHeight /\ (st[n].resume \/ Pending(st[n]) # {})

\* Nobody has anything to do: the system has stopped, or has finished.
Silent == (\A n \in Node : ~Owed(n)) /\ UNCHANGED deliveryVars

DeliveryNext ==
  \/ \E n \in Node : Deliver(n) \/ Internal(n)
  \/ Silent
=============================================================================
