-------------------------- MODULE FieldAcquisition --------------------------
(***************************************************************************)
(* The shared cold acquisitions of map fields of                           *)
(* src/sharpmod/bridge/fields.py: worker threads of the bridge that want   *)
(* the same frame at the same time, its raster or its contour lines, share *)
(* one download and decode, and each of them may be cancelled alone.       *)
(*                                                                         *)
(* A caller is one call of grid() or contours().  A flight is named after  *)
(* its owner.  Each section under _FLIGHT_LOCK and each operation of the   *)
(* future is one step.                                                     *)
(***************************************************************************)
EXTENDS Naturals

CONSTANTS
  Callers,    (* calls of grid() or contours()                              *)
  Stoppable,  (* the ones whose request carries a cancellation token        *)
  Frames,     (* model, product, run and hour                               *)
  None        (* no flight                                                  *)

ASSUME FieldAssumption ==
  Stoppable \subseteq Callers /\ None \notin Callers

VARIABLES
  pc,         (* where each caller is                                       *)
  frame,      (* the frame it wants                                         *)
  stop,       (* callers whose cancellation event is set                    *)
  joined,     (* the flight it owns or waits for                            *)
  result,     (* what its call returned or raised                           *)
  flights,    (* _FLIGHTS                                                   *)
  future,     (* the future of each flight                                  *)
  consumers,  (* the consumers of each flight                               *)
  disk        (* frames with all their files in the disk cache              *)

vars == <<pc, frame, stop, joined, result, flights, future, consumers, disk>>

-----------------------------------------------------------------------------
Goto(c, place) == pc' = [pc EXCEPT ![c] = place]
End(c, how) == result' = [result EXCEPT ![c] = how] /\ Goto(c, "leaving")

\* Plausible bug: the owner's stop alone ends a load others wait for.
StoppedWithOwner(f) == f \in stop

\* Every consumer of the flight has been stopped.
Stopped(f) == consumers[f] \subseteq stop

Stop(c) ==
  /\ c \in Stoppable \ stop /\ pc[c] # "over"
  /\ stop' = stop \cup {c}
  /\ UNCHANGED <<pc, frame, joined, result, flights, future, consumers, disk>>

\* The disk cache drops a frame (age, size, storage.clear).
Evict(k) ==
  /\ k \in disk
  /\ disk' = disk \ {k}
  /\ UNCHANGED <<pc, frame, stop, joined, result, flights, future, consumers>>

\* The first read of the cache, and _acquire up to its lock.  The one file this
\* call wants may be there without the others.
Ask(c) ==
  /\ pc[c] = "start"
  /\ \/ /\ result' = [result EXCEPT ![c] = "ready"] /\ Goto(c, "over")
     \/ /\ frame[c] \notin disk /\ c \in stop
        /\ result' = [result EXCEPT ![c] = "cancelled"] /\ Goto(c, "over")
     \/ /\ frame[c] \notin disk /\ c \notin stop
        /\ Goto(c, "asking") /\ UNCHANGED result
  /\ UNCHANGED <<frame, stop, joined, flights, future, consumers, disk>>

Flying(k) == flights[k] # None /\ ~Stopped(flights[k])

\* Nobody loads the frame for somebody who still wants it: the caller owns a
\* flight of its own.
Own(c) ==
  /\ pc[c] = "asking" /\ ~Flying(frame[c])
  /\ flights' = [flights EXCEPT ![frame[c]] = c]
  /\ joined' = [joined EXCEPT ![c] = c]
  /\ consumers' = [consumers EXCEPT ![c] = {c}]
  /\ future' = [future EXCEPT ![c] = "pending"]
  /\ Goto(c, "owning")
  /\ UNCHANGED <<frame, stop, result, disk>>

\* Somebody does: the caller becomes a consumer of that flight.
Join(c) ==
  LET f == flights[frame[c]] IN
  /\ pc[c] = "asking" /\ Flying(frame[c])
  /\ joined' = [joined EXCEPT ![c] = f]
  /\ consumers' = [consumers EXCEPT ![f] = @ \cup {c}]
  /\ Goto(c, "joined")
  /\ UNCHANGED <<frame, stop, result, flights, future, disk>>

-----------------------------------------------------------------------------
(* The owner.                                                              *)

\* The cache is read again: the frame may have been written meanwhile.
Reread(c) ==
  /\ pc[c] = "owning"
  /\ Goto(c, IF frame[c] \in disk THEN "produced" ELSE "producing")
  /\ UNCHANGED <<frame, stop, joined, flights, consumers, future, result, disk>>

\* _produce: download, decode and write, unless nobody wants the frame any more.
\* The write may come to nothing.
Produce(c) ==
  /\ pc[c] = "producing"
  /\ \/ Goto(c, "produced") /\ disk' \in {disk, disk \cup {frame[c]}}
     \/ Goto(c, "failed") /\ UNCHANGED disk
     \/ Stopped(c) /\ Goto(c, "stopped") /\ UNCHANGED disk
  /\ UNCHANGED <<frame, stop, joined, flights, consumers, future, result>>

Verdict == [place \in {"produced", "failed", "stopped"} |->
              CASE place = "produced" -> "ready"
                [] place = "failed" -> "failed"
                [] place = "stopped" -> "cancelled"]

\* Plausible bug: a failure is not handed to the ones who wait.
SettleResultOnly(c) ==
  /\ pc[c] \in DOMAIN Verdict
  /\ future' = IF pc[c] = "produced" THEN [future EXCEPT ![c] = "ready"] ELSE future
  /\ End(c, Verdict[pc[c]])
  /\ UNCHANGED <<frame, stop, joined, flights, consumers, disk>>

\* set_result or set_exception.
Settle(c) ==
  /\ pc[c] \in DOMAIN Verdict
  /\ future' = [future EXCEPT ![c] = Verdict[pc[c]]]
  /\ End(c, Verdict[pc[c]])
  /\ UNCHANGED <<frame, stop, joined, flights, consumers, disk>>

-----------------------------------------------------------------------------
(* A caller that waits.                                                    *)

Settled(f) == future[f] # "pending"

\* cancellation.check, once per 0.1 s.
Poll(c) ==
  /\ pc[c] = "joined"
  /\ \/ c \in stop /\ End(c, "cancelled")
     \/ c \notin stop /\ Goto(c, "waiting") /\ UNCHANGED result
  /\ UNCHANGED <<frame, stop, joined, flights, consumers, future, disk>>

\* result(timeout=0.1) has an answer.
Deliver(c) ==
  /\ pc[c] = "waiting" /\ Settled(joined[c])
  /\ End(c, future[joined[c]])
  /\ UNCHANGED <<frame, stop, joined, flights, consumers, future, disk>>

\* It has none within 0.1 s.
TimesOut(c) ==
  /\ pc[c] = "waiting" /\ ~Settled(joined[c])
  /\ Goto(c, "timedout")
  /\ UNCHANGED <<frame, stop, joined, flights, consumers, future, result, disk>>

\* The except clause takes a timeout of the load itself for what it is by asking
\* whether the flight is done, by now.
AfterTimeout(c) ==
  /\ pc[c] = "timedout"
  /\ \/ Settled(joined[c]) /\ End(c, "timeout")
     \/ ~Settled(joined[c]) /\ Goto(c, "joined") /\ UNCHANGED result
  /\ UNCHANGED <<frame, stop, joined, flights, consumers, future, disk>>

\* Plausible bug: the owner removes whatever flight the frame has now.
LeaveAny(c) ==
  /\ pc[c] = "leaving"
  /\ consumers' = [consumers EXCEPT ![joined[c]] = @ \ {c}]
  /\ flights' = IF joined[c] = c THEN [flights EXCEPT ![frame[c]] = None] ELSE flights
  /\ Goto(c, "over")
  /\ UNCHANGED <<frame, stop, joined, result, future, disk>>

\* Plausible bug: a flight that was stopped stays.
LeaveUnlessStopped(c) ==
  /\ pc[c] = "leaving"
  /\ consumers' = [consumers EXCEPT ![joined[c]] = @ \ {c}]
  /\ flights' = IF flights[frame[c]] = c /\ c \notin stop
                THEN [flights EXCEPT ![frame[c]] = None] ELSE flights
  /\ Goto(c, "over")
  /\ UNCHANGED <<frame, stop, joined, result, future, disk>>

\* The finally block.
Leave(c) ==
  /\ pc[c] = "leaving"
  /\ consumers' = [consumers EXCEPT ![joined[c]] = @ \ {c}]
  /\ flights' = IF flights[frame[c]] = c THEN [flights EXCEPT ![frame[c]] = None] ELSE flights
  /\ Goto(c, "over")
  /\ UNCHANGED <<frame, stop, joined, result, future, disk>>

-----------------------------------------------------------------------------
Init ==
  /\ pc = [c \in Callers |-> "start"]
  /\ frame \in [Callers -> Frames]
  /\ stop = {}
  /\ joined = [c \in Callers |-> None]
  /\ result = [c \in Callers |-> "none"]
  /\ flights = [k \in Frames |-> None]
  /\ future = [c \in Callers |-> "none"]
  /\ consumers = [c \in Callers |-> {}]
  /\ disk \in SUBSET Frames

Call(c) == Ask(c) \/ Own(c) \/ Join(c) \/ Reread(c) \/ Produce(c) \/ Settle(c) \/ Poll(c)
             \/ Deliver(c) \/ TimesOut(c) \/ AfterTimeout(c) \/ Leave(c)

Next ==
  \/ \E c \in Callers : Stop(c) \/ Call(c)
  \/ \E k \in Frames : Evict(k)

Spec == Init /\ [][Next]_vars

\* Threads run, and a download or a decode ends, one way or the other.
FairSpec == Spec /\ \A c \in Callers : WF_vars(Call(c))

-----------------------------------------------------------------------------
(* The acquisitions are shared loads as LoadService has them: a flight is  *)
(* the load of its owner, and a caller is with it until the finally block. *)

Of(c) == IF pc[c] \in {"start", "asking", "over"} THEN None ELSE joined[c]

Service == INSTANCE LoadService WITH
  Calls   <- Callers,
  Keys    <- Frames,
  Stored  <- TRUE,
  Polled  <- TRUE,
  wants   <- frame,
  stopped <- stop,
  of      <- [c \in Callers |-> Of(c)],
  load    <- future,
  reply   <- result

\* Each step of an acquisition is one of the service or none of its business: a wanted
\* load is shared, given up with its last caller only, and every caller gets the result
\* of its own flight, or is cancelled by its own request (_acquire).
LoadContract == Service!Spec

-----------------------------------------------------------------------------
(* Properties.                                                             *)

Places == {"start", "asking", "owning", "producing", "produced", "failed", "stopped", "joined",
           "waiting", "timedout", "leaving", "over"}

\* The values each variable ranges over.
TypeOK ==
  /\ pc \in [Callers -> Places]
  /\ frame \in [Callers -> Frames]
  /\ stop \subseteq Stoppable
  /\ joined \in [Callers -> Callers \cup {None}]
  /\ result \in [Callers -> {"none", "ready", "failed", "cancelled", "timeout"}]
  /\ flights \in [Frames -> Callers \cup {None}]
  /\ future \in [Callers -> {"none", "pending", "ready", "failed", "cancelled"}]
  /\ consumers \in [Callers -> SUBSET Callers]
  /\ disk \subseteq Frames

\* A call is cancelled only if its own request was, although it shares its load
\* with calls that are (_acquire, stopped).
OnlyTheStoppedAreCancelled == \A c \in Callers : result[c] = "cancelled" => c \in stop

\* The calls that work at a load somebody wants.
Working(f) == pc[f] \in {"owning", "producing"} /\ ~Stopped(f)

\* Callers of one frame share one load; a second one runs only beside a load that
\* everybody has given up (_acquire's owner, and the identity test of its finally).
WantedLoadIsShared ==
  \A f, g \in Callers : Working(f) /\ Working(g) /\ frame[f] = frame[g] => f = g

\* A registered flight has an owner that will settle and remove it, so that none
\* is left when the calls are over.
FlightsAreOwned == \A k \in Frames : flights[k] # None => pc[flights[k]] # "over"

\* A flight is there for all callers of its frame, and for as long as one works on it, and
\* nobody pays for the stop of another one.
FlightsAreSound == OnlyTheStoppedAreCancelled /\ WantedLoadIsShared /\ FlightsAreOwned

\* Every call ends, also the ones without a token, which only the load can end.
CallsEnd == \A c \in Callers : <>(pc[c] = "over")
=============================================================================
