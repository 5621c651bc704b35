---------------------------- MODULE BridgeService ----------------------------
(***************************************************************************)
(* What the bridge process promises its parent (the "Bridge protocol" of   *)
(* docs/frontend/DATA_CONTRACTS.md, as server.py keeps it): a request is   *)
(* refused at once or taken, a taken request is answered once, and it is   *)
(* answered "cancelled" only after somebody cancelled it.                  *)
(***************************************************************************)
EXTENDS Naturals, Sequences, FiniteSets

CONSTANTS
  Jobs,        (* wire ids of ordinary requests                             *)
  Pings,       (* wire ids answered outside the pool                        *)
  MaxAdmitted  (* ordinary requests open at once                            *)

VARIABLES
  serving,    (* frames are still read                                      *)
  open,       (* ordinary requests taken and not answered                   *)
  cancelled,  (* requests somebody cancelled                                *)
  answer      (* the frames written for each id, in order                   *)

vars == <<serving, open, cancelled, answer>>

Init ==
  /\ serving = TRUE
  /\ open = {}
  /\ cancelled = {}
  /\ answer = [i \in Jobs \cup Pings |-> <<>>]

Unseen(i) == i \notin open /\ answer[i] = <<>>

Say(i, kind) == answer' = [answer EXCEPT ![i] = <<kind>>]

\* hello and progress are answered as they are read.
Ping(i) ==
  /\ serving /\ Unseen(i)
  /\ \E kind \in {"result", "error"} : Say(i, kind)
  /\ UNCHANGED <<serving, open, cancelled>>

\* An ordinary request is refused: malformed, or the backend is busy.
Refuse(j) ==
  /\ serving /\ Unseen(j)
  /\ \E kind \in {"busy", "error"} : Say(j, kind)
  /\ UNCHANGED <<serving, open, cancelled>>

Take(j) ==
  /\ serving /\ Unseen(j)
  /\ Cardinality(open) < MaxAdmitted
  /\ open' = open \cup {j}
  /\ UNCHANGED <<serving, cancelled, answer>>

Cancel(S) ==
  /\ cancelled' = cancelled \cup S
  /\ UNCHANGED <<serving, open, answer>>

Answer(j, kind) ==
  /\ j \in open
  /\ answer[j] = <<>>
  /\ kind = "cancelled" => j \in cancelled
  /\ open' = open \ {j}
  /\ Say(j, kind)
  /\ UNCHANGED <<serving, cancelled>>

Close ==
  /\ serving' = FALSE
  /\ UNCHANGED <<open, cancelled, answer>>

Next ==
  \/ \E i \in Pings : Ping(i)
  \/ \E j \in Jobs : Refuse(j) \/ Take(j)
  \/ \E j \in Jobs, kind \in {"result", "error", "cancelled"} : Answer(j, kind)
  \/ \E S \in SUBSET Jobs : Cancel(S)
  \/ Close

Spec == Init /\ [][Next]_vars
=============================================================================
