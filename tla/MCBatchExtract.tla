--------------------------- MODULE MCBatchExtract ---------------------------
(***************************************************************************)
(* Two requests of one model hour and one of another.  To keep the run     *)
(* small no more than MaxBad requests have failed, are failing, are        *)
(* damaged or have recovery files at a time.  Where a step may fail, the   *)
(* one that does not stays possible: a fair behaviour is never cut short.  *)
(***************************************************************************)
EXTENDS BatchExtract
CONSTANTS a, b, c, g1, g2,
  MaxBad      \* bound: requests in trouble at a time

MCGroupOf == [i \in Items |-> IF i = c THEN g2 ELSE g1]

Failing(i) ==
  \E g \in Groups : item[g] = i /\ at[g] \in Undoing /\ why[g] # "cancelled"
FewBad ==
  Cardinality({i \in Items : \/ status[i] = "failed" \/ saved[i] # {}
                             \/ status[i] = "completed" /\ good[i] = NoPair
                             \/ Failing(i)}) <= MaxBad

MCSpec ==
  /\ Init /\ [][Next /\ FewBad']_vars
  /\ WF_vars(Return) /\ \A g \in Groups : WF_vars(GroupStep(g))
=============================================================================
