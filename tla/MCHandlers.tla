----------------------------- MODULE MCHandlers -----------------------------
(***************************************************************************)
(* What handlers on the threads of the pool share, side by side for TLC:   *)
(* the flights of bridge/fields.py, the locks of hrrr_field.py and the     *)
(* session of opened soundings.  Each behaviour is one of one of them.     *)
(***************************************************************************)
EXTENDS FieldAcquisition, TLC

CONSTANTS
  FetchFrames, Capacity,
  Handlers, Soundings, drag, edited, other, Plain, MaxEntries, MaxViews

VARIABLES
  part,         (* the module the behaviour is one of                       *)
  fetchPc, fetchFrame, fetchStop, lock, flight, users, holder, cache,
  fresh, entries, cacheLock, renderLock, artist, views, data, images, at, of, view, doomed

fetchVars == <<fetchPc, fetchFrame, fetchStop, lock, flight, users, holder, cache>>
sessionVars ==
  <<fresh, entries, cacheLock, renderLock, artist, views, data, images, at, of, view, doomed>>

Fetch == INSTANCE FieldFetch
  WITH pc <- fetchPc, frame <- fetchFrame, stop <- fetchStop, Frames <- FetchFrames

\* A drag ends in an edited sounding, which may be asked for as such.
Resolved == [k \in {drag, edited, other} |-> IF k = drag THEN edited ELSE k]

Session == INSTANCE SoundingSession
  WITH Keys <- DOMAIN Resolved, ResolvedKey <- Resolved, pc <- at, key <- view

ASSUME FetchesAssumption == Fetch!FetchAssumption
ASSUME SessionsAssumption == Session!SessionAssumption

MCInit ==
  /\ part \in {"flights", "fetch", "session"}
  /\ Init /\ Fetch!Init /\ Session!Init
  /\ part # "flights" => frame = [c \in Callers |-> CHOOSE k \in Frames : TRUE]
  /\ part # "fetch" => fetchFrame = [c \in Callers |-> CHOOSE k \in FetchFrames : TRUE]

FlightStep == part = "flights" /\ Next /\ UNCHANGED <<part, fetchVars, sessionVars>>
FetchStep == part = "fetch" /\ Fetch!Next /\ UNCHANGED <<part, vars, sessionVars>>
SessionStep == part = "session" /\ Session!Next /\ UNCHANGED <<part, vars, fetchVars>>

MCSpec ==
  /\ MCInit /\ [][FlightStep \/ FetchStep \/ SessionStep]_<<part, vars, fetchVars, sessionVars>>
  /\ \A c \in Callers : WF_vars(part = "flights" /\ Call(c))

\* FieldAcquisition: every call ends.
FlightCallsEnd == part = "flights" => CallsEnd

\* FieldFetch: threads that want one frame never repeat its download at the same time.
OneFetchPerFrame == Fetch!OneFetchPerFrame

\* SoundingSession: the images of views on disk are those that are remembered, and only
\* an eviction takes an image from a request that has seen it.
ImagesAreKept == Session!ViewsAreOnDisk /\ Session!LostByEvictionOnly
=============================================================================
