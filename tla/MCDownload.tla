----------------------------- MODULE MCDownload -----------------------------
(***************************************************************************)
(* Downloads side by side for TLC: the plan of a subset, the transfer of   *)
(* its ranges, and the update of the application, which ends the work the  *)
(* frontend holds.  Each behaviour is one of one of them.                  *)
(***************************************************************************)
EXTENDS MCRangeTransfer, RangeDownload, Integers, TLC

CONSTANTS
  Requests, Top, NoEnd, MaxGap, SparePercent, Workers, MinPart,
  Soundings, ViewIds, SoundingOf, o1, o2, v1, v2, MAX_OPEN, None, MaxPending, MaxEdits

VARIABLES
  part,         (* the module the behaviour is one of                       *)
  rows, phase, ahead, plan, spare, limit,
  open, activeId, views, pendingChanges, status, installReview, soundingWorkChanged,
  update, reviewedViews, original, instance, edits, unseen, drafted

planVars == <<rows, phase, ahead, plan, spare, limit>>
workVars ==
  <<open, activeId, views, pendingChanges, status, installReview, soundingWorkChanged,
    update, reviewedViews, original, instance, edits, unseen, drafted>>

\* Up to three messages in a file of Top + 1 bytes, in any order and arrangement.
Rows ==
  {row \in [start : 0 .. Top, end : (-1 .. Top) \cup {NoEnd}] :
     row.end = NoEnd \/ row.end >= row.start - 1}
MCRequests == {{}} \cup {{p, q, r} : p, q, r \in Rows}

MCSoundingOf == v1 :> o1 @@ v2 :> o2

Plan == INSTANCE RangePlan WITH todo <- ahead
Work == INSTANCE SoundingWork

ASSUME RequestsAssumption == Plan!PlanAssumption
ASSUME WorkAssumption == Work!SoundingAssumption

MCInit ==
  /\ part \in {"transfer", "plan", "work"}
  /\ DownloadInit /\ Plan!Init /\ Work!Init
  /\ part # "plan" => rows = {}
  /\ part # "transfer" =>
       object = CHOOSE o \in [Urls -> Versions] : \A u \in Urls : UrlOf[o[u]] = u

\* Bounds: views change once a check for updates has found one and a bridge was seen
\* up, and one recalculation is under way at a time.
FewTroubles ==
  /\ edits > 0 => instance /\ update /\ status # "checking"
  /\ \A v, w \in ViewIds : original[v] # None /\ original[w] # None => v = w

TransferStep == part = "transfer" /\ DownloadNext /\ UNCHANGED <<part, planVars, workVars>>
PlanStep == part = "plan" /\ Plan!Next /\ UNCHANGED <<part, downloadVars, workVars>>
WorkStep ==
  part = "work" /\ Work!Next /\ FewTroubles' /\ UNCHANGED <<part, downloadVars, planVars>>

\* The fairness of FairSpec of RangeTransfer.
MCSpec ==
  /\ MCInit /\ [][TransferStep \/ PlanStep \/ WorkStep]_<<part, downloadVars, planVars, workVars>>
  /\ WF_vars(part = "transfer" /\ Coordinating) /\ WF_vars(part = "transfer" /\ Watch)
  /\ \A w \in Worker : WF_vars(part = "transfer" /\ Working(w))

\* RangePlan: a plan has every selected byte and no byte twice, and what nobody selected
\* is within the budget.
PlanIsSound == Plan!PlanIsExact /\ Plan!PlanIsWithinBudget

\* SoundingWork: work leaves with its sounding if the user confirmed that one.
LocalWorkIsKept == Work!LocalWorkIsKept

\* SoundingWork: the application goes down for an update only with work reviewed.
InstallIsReviewed == Work!InstallIsReviewed
=============================================================================
