------------------------------ MODULE RangePlan ------------------------------
(***************************************************************************)
(* The planning of a subset of a GRIB file in                              *)
(* src/sharpmod/models/model_transport.py: from the byte spans an          *)
(* inventory gives for the selected messages (plan_ranges) to the ranges   *)
(* that workers fetch (parallelize_range_plan), one turn of a loop a step. *)
(* The ranges of a plan are the Fragments of RangeTransfer.                *)
(*                                                                         *)
(* A plan is a set of ranges; the lists of the code are kept sorted.       *)
(***************************************************************************)
EXTENDS Integers, FiniteSets, Functions

CONSTANTS
  Requests,      (* sets of rows [start, end] of an inventory               *)
  NoEnd,         (* the end of a message that has none                      *)
  MaxGap,        (* max_gap                                                 *)
  SparePercent,  (* max_overhead_ratio, in percent                          *)
  Workers,       (* target                                                  *)
  MinPart        (* min_part_bytes                                          *)

PlanAssumption ==
  /\ \A request \in Requests :
       IsFiniteSet(request) /\ \A row \in request : row.start \in Int /\ row.end \in Int \cup {NoEnd}
  /\ NoEnd \notin Int
  /\ MaxGap \in Nat /\ SparePercent \in Nat
  /\ Workers \in Nat \ {0} /\ MinPart \in Nat \ {0}

VARIABLES
  rows,          (* what the inventory says of the selected messages        *)
  phase,         (* the loop that runs                                      *)
  todo,          (* rows or ranges the loop has yet to look at              *)
  plan,          (* ranges it has made: grouped, exact, planned, plan       *)
  spare,         (* overhead: bytes nobody selected                         *)
  limit          (* overhead_limit                                          *)

vars == <<rows, phase, todo, plan, spare, limit>>

-----------------------------------------------------------------------------
Bytes(r) == r.end - r.start + 1

IsFirst(r, ranges) == r \in ranges /\ \A s \in ranges : r.start <= s.start
IsLast(r, ranges) == r \in ranges /\ \A s \in ranges : s.start <= r.start

With(r, last) == (plan \ {last}) \cup {r}

-----------------------------------------------------------------------------
\* _collapse_contiguous refuses a row without an end, and after its loop a range
\* that ends before it starts, or that there is none.
Invalid ==
  \/ \E row \in todo : row.end = NoEnd \/ row.start < 0
  \/ todo = {} /\ (plan = {} \/ \E r \in plan : r.end < r.start)

Refuse ==
  /\ phase = "grouping" /\ Invalid
  /\ phase' = "refused"
  /\ UNCHANGED <<rows, todo, plan, spare, limit>>

\* Plausible bug: of two rows with one start the one that is read last counts.
GroupLast ==
  /\ phase = "grouping" /\ ~Invalid
  /\ \E row \in todo :
       /\ todo' = todo \ {row}
       /\ plan' = {r \in plan : r.start # row.start} \cup {row}
  /\ UNCHANGED <<rows, phase, spare, limit>>

\* Rows with one start are one message, which ends where the farthest of them does.
Group ==
  /\ phase = "grouping" /\ ~Invalid
  /\ \E row \in todo :
       /\ todo' = todo \ {row}
       /\ \/ /\ \A r \in plan : r.start # row.start
             /\ plan' = plan \cup {row}
          \/ \E r \in plan :
               /\ r.start = row.start
               /\ plan' = IF r.end < row.end THEN With(row, r) ELSE plan
  /\ UNCHANGED <<rows, phase, spare, limit>>

Grouped ==
  /\ phase = "grouping" /\ todo = {} /\ ~Invalid
  /\ todo' = plan /\ plan' = {}
  /\ phase' = "collapsing"
  /\ UNCHANGED <<rows, spare, limit>>

\* The next range joins the last one if it touches or overlaps it.
Collapse ==
  /\ phase = "collapsing"
  /\ \E item \in todo :
       /\ IsFirst(item, todo)
       /\ todo' = todo \ {item}
       /\ \/ plan = {} /\ plan' = {item}
          \/ \E last \in plan :
               /\ IsLast(last, plan)
               /\ plan' =
                    IF item.start > last.end + 1 THEN plan \cup {item}
                    ELSE IF item.end > last.end
                      THEN With([start |-> last.start, end |-> item.end], last)
                      ELSE plan
  /\ UNCHANGED <<rows, phase, spare, limit>>

\* plan_ranges has the exact ranges and what it may spend on the gaps between them.
Budget ==
  /\ phase = "collapsing" /\ todo = {}
  /\ limit' = (SumFunction([r \in plan |-> Bytes(r)]) * SparePercent) \div 100
  /\ todo' = plan /\ plan' = {}
  /\ phase' = "merging"
  /\ UNCHANGED <<rows, spare>>

\* Plausible bug: every gap has the whole budget.
AffordableAlone(gap) == gap <= MaxGap /\ gap <= limit

\* A gap is fetched if it is small and the plan has not spent its budget.
Affordable(gap) == gap <= MaxGap /\ spare + gap <= limit

Gap(last, item) == item.start - last.end - 1

\* The next range is reached over the gap before it, or begins anew.
Merge ==
  /\ phase = "merging"
  /\ \E item \in todo :
       /\ IsFirst(item, todo)
       /\ todo' = todo \ {item}
       /\ \/ /\ \A last \in plan : IsLast(last, plan) => ~Affordable(Gap(last, item))
             /\ plan' = plan \cup {item}
             /\ UNCHANGED spare
          \/ \E last \in plan :
               /\ IsLast(last, plan) /\ Affordable(Gap(last, item))
               /\ plan' = With([start |-> last.start, end |-> item.end], last)
               /\ spare' = spare + Gap(last, item)
  /\ UNCHANGED <<rows, phase, limit>>

Merged ==
  /\ phase = "merging" /\ todo = {}
  /\ phase' = "splitting"
  /\ UNCHANGED <<rows, todo, plan, spare, limit>>

\* parallelize_range_plan: the range to be split, the last one of the largest.
Splittable == {r \in plan : Bytes(r) >= 2 * MinPart}

IsLargest(r) ==
  /\ r \in Splittable
  /\ \A s \in Splittable :
       Bytes(s) < Bytes(r) \/ (Bytes(s) = Bytes(r) /\ s.start <= r.start)

Split ==
  /\ phase = "splitting" /\ Cardinality(plan) < Workers
  /\ \E r \in plan :
       LET splitAt == r.start + (Bytes(r) \div 2) - 1 IN
       /\ IsLargest(r)
       /\ plan' = (plan \ {r}) \cup {[start |-> r.start, end |-> splitAt],
                                     [start |-> splitAt + 1, end |-> r.end]}
  /\ UNCHANGED <<rows, phase, todo, spare, limit>>

Finish ==
  /\ phase = "splitting" /\ (Cardinality(plan) >= Workers \/ Splittable = {})
  /\ phase' = "planned"
  /\ UNCHANGED <<rows, todo, plan, spare, limit>>

-----------------------------------------------------------------------------
Init ==
  /\ rows \in Requests
  /\ phase = "grouping"
  /\ todo = rows /\ plan = {}
  /\ spare = 0 /\ limit = 0

Next ==
  \/ Refuse \/ Group \/ Grouped \/ Collapse \/ Budget
  \/ Merge \/ Merged \/ Split \/ Finish

Spec == Init /\ [][Next]_vars

-----------------------------------------------------------------------------
(* Properties.                                                             *)

Holds(ranges, b) == \E r \in ranges : r.start <= b /\ b <= r.end

Selected(b) == \E row \in rows : row.end # NoEnd /\ row.start <= b /\ b <= row.end

\* A plan has every byte of the selected messages, and no byte twice, however the
\* inventory orders, repeats, nests or overlaps them and however often the plan is
\* split, or fragments would be missing from the file put together from them.
PlanIsExact ==
  phase = "planned" =>
    /\ \A row \in rows : \A b \in row.start .. row.end : Holds(plan, b)
    /\ \A r, s \in plan : r = s \/ r.end < s.start \/ s.end < r.start

Fetched == UNION {r.start .. r.end : r \in plan}

\* The bytes nobody selected are within the budget, which is of the whole plan; and
\* only a selection of enough large messages is cut into parts below the minimum.
PlanIsWithinBudget ==
  phase = "planned" =>
    /\ Cardinality({b \in Fetched : ~Selected(b)}) = spare
    /\ spare * 100 <= SparePercent * Cardinality({b \in Fetched : Selected(b)})
    /\ \A r \in plan : Bytes(r) < MinPart => \E row \in rows : row.start = r.start
=============================================================================
