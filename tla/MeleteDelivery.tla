--------------------------- MODULE MeleteDelivery ---------------------------
(***************************************************************************)
(* Melete on a network that owes each message to each receiver once: a     *)
(* message is sent once, nobody asks for it again, and when the handler    *)
(* drops it, it is gone.                                                   *)
(***************************************************************************)
EXTENDS Melete

VARIABLE delivered   \* delivered[n]: messages of the current and later heights
                     \* that node n has handled

deliveryVars == <<st, msgs, delivered>>

\* No message has arrived, and all but the late nodes have been started.
DeliveryInit(late) ==
  \E bodies \in [Correct \ late -> Body] :
    LET started(n) == EnterNewHeight(n, NewState(n), bodies[n]) IN
    /\ st = [n \in Correct |-> IF n \in late THEN NewState(n) ELSE [started(n) EXCEPT !.out = {}]]
    /\ msgs = FaultyMsg \cup UNION {started(n).out : n \in Correct \ late}
    /\ delivered = [n \in Correct |-> {}]

\* Send leaves out the sender's own address: a proposer has its own proposal
\* and parts, and a voter its own vote.
FromSelf(n, m) ==
  \/ m.type \in {"Proposal", "Prevote", "Precommit"} /\ m.from = IndexOf(n)
  \/ m.type = "Part" /\ m.to = m.block.chain /\ Proposer(m.to, m.height) = IndexOf(n)

\* What the network still has for node n.  A message of a finished height is
\* left out: every AddX compares the heights first and does nothing.
Undelivered(n) ==
  {m \in msgs \ delivered[n] :
     m.to = ChainOf(n) /\ m.height \in st[n].height..MaxHeight /\ ~FromSelf(n, m)}

\* Of the handled messages those of finished heights need not be remembered.
Remember(n, S) == delivered' = [delivered EXCEPT ![n] = {m \in S : m.height >= st'[n].height}]

\* Receive hands the message to doMessage, whether it is used or not.
Deliver(n, body) ==
  /\ Unlocked(n)
  /\ \E m \in Undelivered(n) :
       /\ \E s \in {DoMessage(n, st[n], m, body)} : Become(n, s)
       /\ Remember(n, delivered[n] \cup {m})

\* A message that was handled before may come again, but is never owed.
DeliverAgain(n, body) ==
  /\ Unlocked(n)
  /\ \E m \in delivered[n] :
       \E s \in {DoMessage(n, st[n], m, body)} : Become(n, s)
  /\ Remember(n, delivered[n])

\* A late node starts, or a handler that entered a height goes on.
Internal(n, body) ==
  /\ Start(n, body) \/ (\E m \in st[n].relay : Replay(n, m, body)) \/ Resume(n, body)
  /\ Remember(n, delivered[n])

\* Node n has to be started, or has a message to get or a handler to finish.
\* The connections deliver what was sent and handlers run to their end.  So
\* \A n \in Correct : []<>~Owed(n) is fair: a node gets only finitely many
\* messages up to MaxHeight, and the formula is weak fairness of these steps.
Owed(n) ==
  /\ st[n].up
  /\ \/ st[n].height = 0
     \/ Undelivered(n) # {}
     \/ st[n].height <= MaxHeight /\ ~Unlocked(n)

\* Nobody has anything to do: the system has stopped, or has finished.
Silent == (\A n \in Correct : ~Owed(n)) /\ UNCHANGED deliveryVars

DeliveryNext ==
  \/ \E n \in Correct, body \in Body : Deliver(n, body) \/ Internal(n, body)
  \/ Silent
=============================================================================
