----------------------------- MODULE FieldFetch -----------------------------
(***************************************************************************)
(* fetch_field of src/sharpmod/providers/hrrr_field_fetch.py with          *)
(* _singleflight_field of hrrr_field.py: threads of one process that want  *)
(* a rendered map frame.  One of them at a time looks it up and, if need   *)
(* be, downloads it, under a lock that is made for the frame by the first  *)
(* of them and forgotten by the last; each may be cancelled.  Rasters and  *)
(* "not published" answers are kept in a bounded memory cache.             *)
(*                                                                         *)
(* A caller is one call of fetch_field; a lock is named after the caller   *)
(* that made it.                                                           *)
(***************************************************************************)
EXTENDS Naturals, FiniteSets

CONSTANTS
  Callers,    (* calls of fetch_field                                       *)
  Frames,     (* cache keys: product, run, hour and size                    *)
  Capacity,   (* _CACHE_MAX_ENTRIES                                         *)
  None        (* no caller                                                  *)

\* What the proofs need of the constants.
FetchAssumption == None \notin Callers /\ IsFiniteSet(Callers)

VARIABLES
  pc,         (* where each caller is                                       *)
  frame,      (* the frame it wants                                         *)
  stop,       (* callers whose should_cancel has become true                *)
  lock,       (* the lock it works with                                     *)
  flight,     (* _FLIGHTS: the lock of each frame, None if it has no entry  *)
  users,      (* _FLIGHTS: the count of its users                           *)
  holder,     (* who holds each lock                                        *)
  cache       (* _CACHE                                                     *)

vars == <<pc, frame, stop, lock, flight, users, holder, cache>>

-----------------------------------------------------------------------------
Goto(c, place) == pc' = [pc EXCEPT ![c] = place]

\* The cached rasters: one within FRAME_CACHE_TTL_S, and one that is kept although
\* it is older or was invalidated.
Rasters == {"fresh", "expired"}

\* An entry is put into the cache, which forgets another one when it is full.
Put(k, value) ==
  IF cache[k] = "none" /\ Cardinality({f \in Frames : cache[f] # "none"}) >= Capacity
    THEN \E oldest \in {f \in Frames : cache[f] # "none"} :
           cache' = [cache EXCEPT ![oldest] = "none", ![k] = value]
    ELSE cache' = [cache EXCEPT ![k] = value]

Stop(c) ==
  /\ c \notin stop /\ pc[c] # "over"
  /\ stop' = stop \cup {c}
  /\ UNCHANGED <<pc, frame, lock, flight, users, holder, cache>>

\* Time passes, or invalidate_frame and clear_cache are called.
Lapse(k) ==
  /\ \/ cache[k] = "fresh" /\ cache' = [cache EXCEPT ![k] = "expired"]
     \/ cache[k] = "unpublished" /\ cache' = [cache EXCEPT ![k] = "lapsed"]
     \/ cache[k] \in {"unpublished", "lapsed"} /\ cache' = [cache EXCEPT ![k] = "none"]
     \/ cache' = [f \in Frames |-> "none"]
  /\ UNCHANGED <<pc, frame, stop, lock, flight, users, holder>>

-----------------------------------------------------------------------------
(* _singleflight_field.                                                    *)

\* Under _FLIGHTS_LOCK: the lock of the frame, or a new one, gets a user more.
Enter(c) ==
  LET k == frame[c] IN
  /\ pc[c] = "start"
  /\ IF flight[k] = None
       THEN /\ flight' = [flight EXCEPT ![k] = c]
            /\ lock' = [lock EXCEPT ![c] = c]
       ELSE /\ lock' = [lock EXCEPT ![c] = flight[k]]
            /\ UNCHANGED flight
  /\ users' = [users EXCEPT ![k] = @ + 1]
  /\ Goto(c, "waiting")
  /\ UNCHANGED <<frame, stop, holder, cache>>

Acquire(c) ==
  /\ pc[c] = "waiting" /\ holder[lock[c]] = None
  /\ holder' = [holder EXCEPT ![lock[c]] = c]
  /\ Goto(c, "holding")
  /\ UNCHANGED <<frame, stop, lock, flight, users, cache>>

\* acquire(timeout=0.1) failed and the call has been cancelled.
GiveUp(c) ==
  /\ pc[c] = "waiting" /\ holder[lock[c]] # None /\ c \in stop
  /\ Goto(c, "leaving")
  /\ UNCHANGED <<frame, stop, lock, flight, users, holder, cache>>

Release(c) ==
  /\ pc[c] = "releasing"
  /\ holder' = [holder EXCEPT ![lock[c]] = None]
  /\ Goto(c, "leaving")
  /\ UNCHANGED <<frame, stop, lock, flight, users, cache>>

\* Plausible bug: whoever leaves forgets the lock.
LeaveAlways(c) ==
  LET k == frame[c] IN
  /\ pc[c] = "leaving"
  /\ flight' = [flight EXCEPT ![k] = None]
  /\ users' = [users EXCEPT ![k] = 0]
  /\ Goto(c, "over")
  /\ UNCHANGED <<frame, stop, lock, holder, cache>>

\* The finally block: the last user forgets the lock.
Leave(c) ==
  LET k == frame[c] IN
  /\ pc[c] = "leaving"
  /\ IF users[k] <= 1
       THEN /\ flight' = [flight EXCEPT ![k] = None]
            /\ users' = [users EXCEPT ![k] = 0]
       ELSE /\ flight' = [flight EXCEPT ![k] = lock[c]]
            /\ users' = [users EXCEPT ![k] = @ - 1]
  /\ Goto(c, "over")
  /\ UNCHANGED <<frame, stop, lock, holder, cache>>

-----------------------------------------------------------------------------
(* _fetch_resolved_field, while the lock is held.                          *)

\* A stop, the memory cache, then the disk.
LookUp(c) ==
  LET k == frame[c] IN
  /\ pc[c] = "holding"
  /\ IF c \in stop \/ cache[k] \in {"unpublished", "fresh"}
       THEN Goto(c, "releasing")
       ELSE \E next \in {"fetching", "storing"} : Goto(c, next)
  /\ UNCHANGED <<frame, stop, lock, flight, users, holder, cache>>

\* The download and the drawing: a frame, or a failure or stop that leaves no trace.
Fetch(c) ==
  /\ pc[c] = "fetching"
  /\ \E next \in {"storing", "releasing"} : Goto(c, next)
  /\ UNCHANGED <<frame, stop, lock, flight, users, holder, cache>>

\* HrrrFieldUnavailable is remembered, unless an older raster would be lost by it.
NotPublished(c) ==
  LET k == frame[c] IN
  /\ pc[c] = "fetching"
  /\ IF cache[k] \in Rasters THEN UNCHANGED cache ELSE Put(k, "unpublished")
  /\ Goto(c, "releasing")
  /\ UNCHANGED <<frame, stop, lock, flight, users, holder>>

Store(c) ==
  /\ pc[c] = "storing"
  /\ Put(frame[c], "fresh")
  /\ Goto(c, "releasing")
  /\ UNCHANGED <<frame, stop, lock, flight, users, holder>>

-----------------------------------------------------------------------------
Init ==
  /\ pc = [c \in Callers |-> "start"]
  /\ frame \in [Callers -> Frames]
  /\ stop = {}
  /\ lock = [c \in Callers |-> None]
  /\ flight = [k \in Frames |-> None]
  /\ users = [k \in Frames |-> 0]
  /\ holder = [c \in Callers |-> None]
  /\ cache = [k \in Frames |-> "none"]

Call(c) ==
  \/ Enter(c) \/ Acquire(c) \/ GiveUp(c) \/ Release(c) \/ Leave(c)
  \/ LookUp(c) \/ Fetch(c) \/ NotPublished(c) \/ Store(c)

Next ==
  \/ \E c \in Callers : Stop(c) \/ Call(c)
  \/ \E k \in Frames : Lapse(k)

Spec == Init /\ [][Next]_vars

-----------------------------------------------------------------------------
(* Properties.                                                             *)

Inside == {"waiting", "holding", "fetching", "storing", "releasing", "leaving"}
Working == {"holding", "fetching", "storing", "releasing"}

\* The values each variable ranges over.
TypeOK ==
  /\ pc \in [Callers -> Inside \cup {"start", "over"}]
  /\ frame \in [Callers -> Frames]
  /\ stop \subseteq Callers
  /\ lock \in [Callers -> Callers \cup {None}]
  /\ flight \in [Frames -> Callers \cup {None}]
  /\ users \in [Frames -> Nat]
  /\ holder \in [Callers -> Callers \cup {None}]
  /\ cache \in [Frames -> Rasters \cup {"none", "unpublished", "lapsed"}]

\* Threads that want one frame never repeat its download at the same time, whoever
\* gives up, fails or returns meanwhile (hrrr_field.py 776-785); and when all are
\* gone nothing of it is left in the registry.
OneFetchPerFrame ==
  /\ \A c, d \in Callers :
       pc[c] \in Working /\ pc[d] \in Working /\ frame[c] = frame[d] => c = d
  /\ \A k \in Frames :
       flight[k] # None => \E c \in Callers : frame[c] = k /\ pc[c] \in Inside
=============================================================================
