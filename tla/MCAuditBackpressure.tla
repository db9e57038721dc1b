------------------------- MODULE MCAuditBackpressure -------------------------
(* The backpressure manager with one slot and a queue of two: four entries  *)
(* fill both and leave one to be refused.                                  *)
EXTENDS AuditBackpressure, TLC

CONSTANTS e1, e2, e3, e4

FourEntries == {e1, e2, e3, e4}

\* Entries differ by nothing but their arrival: they are named in that order.
Arrivals == <<e1, e2, e3, e4>>

InOrder ==
    \A i, j \in 1..Len(Arrivals) :
        (i < j /\ stage[Arrivals[i]] = "new") => stage[Arrivals[j]] = "new"

MCSpec == Init /\ [][Next /\ InOrder']_vars /\ LoopFairness
=============================================================================
