--------------------------- MODULE DownloadService ---------------------------
(***************************************************************************)
(* What a resumable download promises its caller (download_herbie_subset   *)
(* of model_transfer.py; "Download, resume, validate, and atomically       *)
(* assemble GRIB ranges", says download_ranges): the output appears once,  *)
(* as a whole, and is one version of the object, one that its server had   *)
(* while the call was under way, whatever earlier calls have left behind;  *)
(* a call that returns without an error has the output, one that fails has *)
(* not, and a call is cancelled only by its user.                          *)
(***************************************************************************)

CONSTANTS
  Urls,       (* servers                                                    *)
  Versions,   (* the objects they have over time                            *)
  UrlOf,      (* the server of each                                         *)
  Absent      (* no call                                                    *)

VARIABLES
  object,     (* the version each server has now                            *)
  url,        (* the server the call under way asks                         *)
  served,     (* the versions it has had since the call began               *)
  cancelled,  (* the user stops the call                                    *)
  output,     (* the versions in the output, {} while there is none         *)
  outcome,    (* what the call is about to return                           *)
  spoilt      (* a process died while it removed what it had kept           *)

call == <<url, served, cancelled, outcome>>
vars == <<object, call, output, spoilt>>

Init ==
  /\ object \in {o \in [Urls -> Versions] : \A u \in Urls : UrlOf[o[u]] = u}
  /\ url = Absent /\ served = {} /\ cancelled = FALSE /\ outcome = "none"
  /\ output = {} /\ spoilt = FALSE

UnderWay == url # Absent

Start(u) ==
  /\ ~UnderWay /\ output = {}
  /\ url' = u /\ served' = {object[u]}
  /\ UNCHANGED <<object, cancelled, output, outcome, spoilt>>

Cancel ==
  /\ UnderWay /\ ~cancelled /\ cancelled' = TRUE
  /\ UNCHANGED <<object, url, served, output, outcome, spoilt>>

\* A server replaces its object.
Replace(v) ==
  /\ object' = [object EXCEPT ![UrlOf[v]] = v]
  /\ served' = IF url = UrlOf[v] THEN served \cup {v} ELSE served
  /\ UNCHANGED <<url, cancelled, output, outcome, spoilt>>

\* The output appears under its name.
Appear ==
  /\ UnderWay /\ outcome = "none" /\ output = {}
  /\ \/ \E v \in served : output' = {v}
     \/ spoilt /\ output' \in SUBSET Versions /\ output' # {}
  /\ UNCHANGED <<object, call, spoilt>>

\* The call has its result.
Report(how) ==
  /\ UnderWay /\ outcome = "none" /\ outcome' = how
  /\ how = "done" => output # {}
  /\ how = "cancelled" => cancelled
  /\ how \in {"changed", "unavailable"} => output = {}
  /\ UNCHANGED <<object, url, served, cancelled, output, spoilt>>

Over == url' = Absent /\ served' = {} /\ cancelled' = FALSE /\ outcome' = "none"

Return == outcome # "none" /\ Over /\ UNCHANGED <<object, output, spoilt>>

\* The process dies, at a bad moment perhaps.
Die == UnderWay /\ Over /\ spoilt' \in {spoilt, TRUE} /\ UNCHANGED <<object, output>>

Next ==
  \/ \E u \in Urls : Start(u)
  \/ Cancel \/ Appear \/ Return \/ Die
  \/ \E v \in Versions : Replace(v)
  \/ \E how \in {"done", "cancelled", "changed", "unavailable"} : Report(how)

\* Most steps of a transfer are none of the service, and asked for first.
Spec == Init /\ [][UNCHANGED vars \/ Next]_vars
=============================================================================
