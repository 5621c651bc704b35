---------------------------- MODULE RangeDownload ----------------------------
(***************************************************************************)
(* RangeTransfer with a history variable: the versions the server of a     *)
(* call has had since the call began.  With it the transfer implements     *)
(* DownloadService.                                                        *)
(***************************************************************************)
EXTENDS RangeTransfer

VARIABLE
  served        (* history: what the server of the call has served          *)

downloadVars == <<vars, served>>

\* Whatever happens, what the server has now is among it.
Witnessed == served' = IF url' = Absent THEN {} ELSE served \cup {object'[url']}

DownloadInit == Init /\ served = {}
DownloadNext == Next /\ Witnessed

DownloadSpec == DownloadInit /\ [][DownloadNext]_downloadVars

-----------------------------------------------------------------------------
\* What the call is about to return; a failure of several workers is none yet.
Outcome ==
  CASE stage # "returning" \/ (error \in {"changed", "unavailable"} /\ asked > 1) -> "none"
    [] stage = "returning" /\ error = "none" -> "done"
    [] OTHER -> error

Service == INSTANCE DownloadService WITH outcome <- Outcome, spoilt <- torn > 0

\* Each step of a transfer is one of the service or none of its business: what it
\* publishes is a version its server had during this call, and what it returns is true
\* (Store::open, Transfer::run, requests.rs, Store::assemble, download_with_reader).
DownloadContract == Service!Spec
=============================================================================
