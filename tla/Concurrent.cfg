CONSTANTS
  Tx = {t1, t2}
  Adder = {a1, a2}
  CrossShard = TRUE
  MaxAdds = 3
  MaxUpdates = 2
  MaxBlock = 2
  Nil = Nil
  MaxElems = 4
  None = None
  Retries = 2
  MaxSends = 2
SPECIFICATION MCSpec
INVARIANTS MapIsListed RemoveIsSafe Tracked ListIsRight SentOnce
PROPERTIES WalkIsComplete WaitersWake SendsEnd
CHECK_DEADLOCK FALSE
