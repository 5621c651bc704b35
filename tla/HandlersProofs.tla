--------------------------- MODULE HandlersProofs ---------------------------
(***************************************************************************)
(* Proofs about what handlers on the threads of the pool share, for any    *)
(* number of callers, frames, handlers and soundings.                      *)
(*                                                                         *)
(* FieldAcquisition: a caller in a flight is one of its consumers; a       *)
(* flight whose load has noticed that it is unwanted keeps stopped         *)
(* consumers only, because nobody joins a flight that all have given up;   *)
(* and the flight that somebody wants is the one that is registered for    *)
(* its frame.                                                              *)
(*                                                                         *)
(* FieldFetch, as MCHandlers instantiates it: all who are inside for one   *)
(* frame share the lock that the registry has, who works holds it, and the *)
(* registry counts them, so that only the last one forgets the lock.       *)
(*                                                                         *)
(* SoundingSession: a sounding that is put out does not come back, who     *)
(* works on the images of a sounding has its lock, and the images of one   *)
(* that is open are those it remembers and the one about to be.            *)
(***************************************************************************)
EXTENDS MCHandlers, FoldTheorems

-----------------------------------------------------------------------------
(* FieldAcquisition.                                                       *)

OwnerPlaces == {"owning", "producing", "produced", "failed", "stopped"}
FlightPlaces == OwnerPlaces \cup {"joined", "waiting", "timedout", "leaving"}

\* A caller in a flight is a consumer of it, and the flight has been started.
Consuming ==
  \A c \in Callers : pc[c] \in FlightPlaces =>
    /\ joined[c] \in Callers
    /\ c \in consumers[joined[c]]
    /\ pc[joined[c]] \notin {"start", "asking"}

\* The one that loads is the one the flight is named after.
OwnersLead == \A c \in Callers : pc[c] \in OwnerPlaces => joined[c] = c

\* A load that was found unwanted stays unwanted.
StoppedIsFinal ==
  \A f \in Callers : pc[f] = "stopped" \/ future[f] = "cancelled" => Stopped(f)

\* What is registered for a frame is a flight for it whose owner is still at work,
\* or about to remove it.
Registered ==
  \A k \in Frames : flights[k] # None =>
    /\ pc[flights[k]] \in OwnerPlaces \cup {"leaving"}
    /\ joined[flights[k]] = flights[k]
    /\ frame[flights[k]] = k

\* A load that somebody wants is the registered one.
WantedIsRegistered == \A f \in Callers : Working(f) => flights[frame[f]] = f

IInv ==
  /\ TypeOK
  /\ Consuming
  /\ OwnersLead
  /\ StoppedIsFinal
  /\ OnlyTheStoppedAreCancelled
  /\ Registered
  /\ WantedIsRegistered

-----------------------------------------------------------------------------
LEMMA InitIInv == Init => IInv
BY FieldAssumption DEF FieldAssumption, Init, IInv, TypeOK, Places, Consuming, OwnersLead,
   StoppedIsFinal, OnlyTheStoppedAreCancelled, Registered, WantedIsRegistered, Working, Stopped,
   OwnerPlaces, FlightPlaces

-----------------------------------------------------------------------------
(* One lemma per part of the invariant, with one step per action.          *)

LEMMA TypeStep == TypeOK /\ Consuming /\ [Next]_vars => TypeOK'
<1> SUFFICES ASSUME TypeOK, Consuming, [Next]_vars PROVE TypeOK'
  OBVIOUS
<1> USE FieldAssumption DEF FieldAssumption, Goto, End, TypeOK, Places, Consuming, FlightPlaces, OwnerPlaces
<1>1. ASSUME NEW c \in Callers, Stop(c) PROVE TypeOK'
  BY <1>1 DEF Stop
<1>2. ASSUME NEW c \in Callers, Ask(c) PROVE TypeOK'
  BY <1>2 DEF Ask
<1>3. ASSUME NEW c \in Callers, Own(c) PROVE TypeOK'
  BY <1>3 DEF Own, Flying
<1>4. ASSUME NEW c \in Callers, Join(c) PROVE TypeOK'
  BY <1>4 DEF Join, Flying
<1>5. ASSUME NEW c \in Callers, Reread(c) PROVE TypeOK'
  BY <1>5 DEF Reread
<1>6. ASSUME NEW c \in Callers, Produce(c) PROVE TypeOK'
  BY <1>6 DEF Produce
<1>7. ASSUME NEW c \in Callers, Settle(c) PROVE TypeOK'
  BY <1>7 DEF Settle, Verdict
<1>8. ASSUME NEW c \in Callers, Poll(c) PROVE TypeOK'
  BY <1>8 DEF Poll
<1>9. ASSUME NEW c \in Callers, Deliver(c) PROVE TypeOK'
  BY <1>9 DEF Deliver, Settled
<1>10. ASSUME NEW c \in Callers, TimesOut(c) PROVE TypeOK'
  BY <1>10 DEF TimesOut, Settled
<1>11. ASSUME NEW c \in Callers, AfterTimeout(c) PROVE TypeOK'
  BY <1>11 DEF AfterTimeout, Settled
<1>12. ASSUME NEW c \in Callers, Leave(c) PROVE TypeOK'
  BY <1>12 DEF Leave
<1>13. ASSUME NEW k \in Frames, Evict(k) PROVE TypeOK'
  BY <1>13 DEF Evict
<1>14. CASE UNCHANGED vars
  BY <1>14 DEF vars
<1> QED
  BY <1>1, <1>2, <1>3, <1>4, <1>5, <1>6, <1>7, <1>8, <1>9, <1>10, <1>11, <1>12, <1>13, <1>14
     DEF Next, Call

\* Joining a flight, and leaving one, touch no other consumer.
LEMMA ConsumingStep == TypeOK /\ Consuming /\ Registered /\ [Next]_vars => Consuming'
<1> SUFFICES ASSUME TypeOK, Consuming, Registered, [Next]_vars PROVE Consuming'
  OBVIOUS
<1> USE FieldAssumption DEF FieldAssumption, Goto, End, TypeOK, Places, Consuming, Registered, FlightPlaces, OwnerPlaces
<1>1. ASSUME NEW c \in Callers, Stop(c) PROVE Consuming'
  BY <1>1 DEF Stop
<1>2. ASSUME NEW c \in Callers, Ask(c) PROVE Consuming'
  BY <1>2 DEF Ask
<1>3. ASSUME NEW c \in Callers, Own(c) PROVE Consuming'
  BY <1>3 DEF Own, Flying
<1>4. ASSUME NEW c \in Callers, Join(c) PROVE Consuming'
  BY <1>4 DEF Join, Flying
<1>5. ASSUME NEW c \in Callers, Reread(c) PROVE Consuming'
  BY <1>5 DEF Reread
<1>6. ASSUME NEW c \in Callers, Produce(c) PROVE Consuming'
  BY <1>6 DEF Produce
<1>7. ASSUME NEW c \in Callers, Settle(c) PROVE Consuming'
  BY <1>7 DEF Settle, Verdict
<1>8. ASSUME NEW c \in Callers, Poll(c) PROVE Consuming'
  BY <1>8 DEF Poll
<1>9. ASSUME NEW c \in Callers, Deliver(c) PROVE Consuming'
  BY <1>9 DEF Deliver, Settled
<1>10. ASSUME NEW c \in Callers, TimesOut(c) PROVE Consuming'
  BY <1>10 DEF TimesOut, Settled
<1>11. ASSUME NEW c \in Callers, AfterTimeout(c) PROVE Consuming'
  BY <1>11 DEF AfterTimeout, Settled
<1>12. ASSUME NEW c \in Callers, Leave(c) PROVE Consuming'
  BY <1>12 DEF Leave
<1>13. ASSUME NEW k \in Frames, Evict(k) PROVE Consuming'
  BY <1>13 DEF Evict
<1>14. CASE UNCHANGED vars
  BY <1>14 DEF vars
<1> QED
  BY <1>1, <1>2, <1>3, <1>4, <1>5, <1>6, <1>7, <1>8, <1>9, <1>10, <1>11, <1>12, <1>13, <1>14
     DEF Next, Call

LEMMA OwnersLeadStep == TypeOK /\ OwnersLead /\ [Next]_vars => OwnersLead'
<1> SUFFICES ASSUME TypeOK, OwnersLead, [Next]_vars PROVE OwnersLead'
  OBVIOUS
<1> USE FieldAssumption DEF FieldAssumption, Goto, End, TypeOK, Places, OwnersLead, OwnerPlaces
<1>1. ASSUME NEW c \in Callers, Stop(c) PROVE OwnersLead'
  BY <1>1 DEF Stop
<1>2. ASSUME NEW c \in Callers, Ask(c) PROVE OwnersLead'
  BY <1>2 DEF Ask
<1>3. ASSUME NEW c \in Callers, Own(c) PROVE OwnersLead'
  BY <1>3 DEF Own, Flying
<1>4. ASSUME NEW c \in Callers, Join(c) PROVE OwnersLead'
  BY <1>4 DEF Join, Flying
<1>5. ASSUME NEW c \in Callers, Reread(c) PROVE OwnersLead'
  BY <1>5 DEF Reread
<1>6. ASSUME NEW c \in Callers, Produce(c) PROVE OwnersLead'
  BY <1>6 DEF Produce
<1>7. ASSUME NEW c \in Callers, Settle(c) PROVE OwnersLead'
  BY <1>7 DEF Settle, Verdict
<1>8. ASSUME NEW c \in Callers, Poll(c) PROVE OwnersLead'
  BY <1>8 DEF Poll
<1>9. ASSUME NEW c \in Callers, Deliver(c) PROVE OwnersLead'
  BY <1>9 DEF Deliver, Settled
<1>10. ASSUME NEW c \in Callers, TimesOut(c) PROVE OwnersLead'
  BY <1>10 DEF TimesOut, Settled
<1>11. ASSUME NEW c \in Callers, AfterTimeout(c) PROVE OwnersLead'
  BY <1>11 DEF AfterTimeout, Settled
<1>12. ASSUME NEW c \in Callers, Leave(c) PROVE OwnersLead'
  BY <1>12 DEF Leave
<1>13. ASSUME NEW k \in Frames, Evict(k) PROVE OwnersLead'
  BY <1>13 DEF Evict
<1>14. CASE UNCHANGED vars
  BY <1>14 DEF vars
<1> QED
  BY <1>1, <1>2, <1>3, <1>4, <1>5, <1>6, <1>7, <1>8, <1>9, <1>10, <1>11, <1>12, <1>13, <1>14
     DEF Next, Call

\* Nobody joins a flight that was found unwanted.
LEMMA StoppedStep == TypeOK /\ Consuming /\ OwnersLead /\ StoppedIsFinal /\ Registered /\ [Next]_vars => StoppedIsFinal'
<1> SUFFICES ASSUME TypeOK, Consuming, OwnersLead, StoppedIsFinal, Registered, [Next]_vars PROVE StoppedIsFinal'
  OBVIOUS
<1> USE FieldAssumption DEF FieldAssumption, Goto, End, TypeOK, Places, Consuming, OwnersLead, StoppedIsFinal, Registered, Stopped, FlightPlaces, OwnerPlaces
<1>1. ASSUME NEW c \in Callers, Stop(c) PROVE StoppedIsFinal'
  BY <1>1 DEF Stop
<1>2. ASSUME NEW c \in Callers, Ask(c) PROVE StoppedIsFinal'
  BY <1>2 DEF Ask
<1>3. ASSUME NEW c \in Callers, Own(c) PROVE StoppedIsFinal'
  BY <1>3 DEF Own, Flying
<1>4. ASSUME NEW c \in Callers, Join(c) PROVE StoppedIsFinal'
  BY <1>4 DEF Join, Flying
<1>5. ASSUME NEW c \in Callers, Reread(c) PROVE StoppedIsFinal'
  BY <1>5 DEF Reread
<1>6. ASSUME NEW c \in Callers, Produce(c) PROVE StoppedIsFinal'
  BY <1>6 DEF Produce
<1>7. ASSUME NEW c \in Callers, Settle(c) PROVE StoppedIsFinal'
  BY <1>7 DEF Settle, Verdict
<1>8. ASSUME NEW c \in Callers, Poll(c) PROVE StoppedIsFinal'
  BY <1>8 DEF Poll
<1>9. ASSUME NEW c \in Callers, Deliver(c) PROVE StoppedIsFinal'
  BY <1>9 DEF Deliver, Settled
<1>10. ASSUME NEW c \in Callers, TimesOut(c) PROVE StoppedIsFinal'
  BY <1>10 DEF TimesOut, Settled
<1>11. ASSUME NEW c \in Callers, AfterTimeout(c) PROVE StoppedIsFinal'
  BY <1>11 DEF AfterTimeout, Settled
<1>12. ASSUME NEW c \in Callers, Leave(c) PROVE StoppedIsFinal'
  BY <1>12 DEF Leave
<1>13. ASSUME NEW k \in Frames, Evict(k) PROVE StoppedIsFinal'
  BY <1>13 DEF Evict
<1>14. CASE UNCHANGED vars
  BY <1>14 DEF vars
<1> QED
  BY <1>1, <1>2, <1>3, <1>4, <1>5, <1>6, <1>7, <1>8, <1>9, <1>10, <1>11, <1>12, <1>13, <1>14
     DEF Next, Call

\* A caller that is told so is a consumer of a flight whose consumers are stopped.
LEMMA CancelledStep == TypeOK /\ Consuming /\ OwnersLead /\ StoppedIsFinal /\ OnlyTheStoppedAreCancelled /\ [Next]_vars => OnlyTheStoppedAreCancelled'
<1> SUFFICES ASSUME TypeOK, Consuming, OwnersLead, StoppedIsFinal, OnlyTheStoppedAreCancelled, [Next]_vars PROVE OnlyTheStoppedAreCancelled'
  OBVIOUS
<1> USE FieldAssumption DEF FieldAssumption, Goto, End, TypeOK, Places, Consuming, OwnersLead, StoppedIsFinal, Stopped,
     OnlyTheStoppedAreCancelled, FlightPlaces, OwnerPlaces
<1>1. ASSUME NEW c \in Callers, Stop(c) PROVE OnlyTheStoppedAreCancelled'
  BY <1>1 DEF Stop
<1>2. ASSUME NEW c \in Callers, Ask(c) PROVE OnlyTheStoppedAreCancelled'
  BY <1>2 DEF Ask
<1>3. ASSUME NEW c \in Callers, Own(c) PROVE OnlyTheStoppedAreCancelled'
  BY <1>3 DEF Own, Flying
<1>4. ASSUME NEW c \in Callers, Join(c) PROVE OnlyTheStoppedAreCancelled'
  BY <1>4 DEF Join, Flying
<1>5. ASSUME NEW c \in Callers, Reread(c) PROVE OnlyTheStoppedAreCancelled'
  BY <1>5 DEF Reread
<1>6. ASSUME NEW c \in Callers, Produce(c) PROVE OnlyTheStoppedAreCancelled'
  BY <1>6 DEF Produce
<1>7. ASSUME NEW c \in Callers, Settle(c) PROVE OnlyTheStoppedAreCancelled'
  BY <1>7 DEF Settle, Verdict
<1>8. ASSUME NEW c \in Callers, Poll(c) PROVE OnlyTheStoppedAreCancelled'
  BY <1>8 DEF Poll
<1>9. ASSUME NEW c \in Callers, Deliver(c) PROVE OnlyTheStoppedAreCancelled'
  BY <1>9 DEF Deliver, Settled
<1>10. ASSUME NEW c \in Callers, TimesOut(c) PROVE OnlyTheStoppedAreCancelled'
  BY <1>10 DEF TimesOut, Settled
<1>11. ASSUME NEW c \in Callers, AfterTimeout(c) PROVE OnlyTheStoppedAreCancelled'
  BY <1>11 DEF AfterTimeout, Settled
<1>12. ASSUME NEW c \in Callers, Leave(c) PROVE OnlyTheStoppedAreCancelled'
  BY <1>12 DEF Leave
<1>13. ASSUME NEW k \in Frames, Evict(k) PROVE OnlyTheStoppedAreCancelled'
  BY <1>13 DEF Evict
<1>14. CASE UNCHANGED vars
  BY <1>14 DEF vars
<1> QED
  BY <1>1, <1>2, <1>3, <1>4, <1>5, <1>6, <1>7, <1>8, <1>9, <1>10, <1>11, <1>12, <1>13, <1>14
     DEF Next, Call

LEMMA RegisteredStep == TypeOK /\ Registered /\ [Next]_vars => Registered'
<1> SUFFICES ASSUME TypeOK, Registered, [Next]_vars PROVE Registered'
  OBVIOUS
<1> USE FieldAssumption DEF FieldAssumption, Goto, End, TypeOK, Places, Registered, OwnerPlaces
<1>1. ASSUME NEW c \in Callers, Stop(c) PROVE Registered'
  BY <1>1 DEF Stop
<1>2. ASSUME NEW c \in Callers, Ask(c) PROVE Registered'
  BY <1>2 DEF Ask
<1>3. ASSUME NEW c \in Callers, Own(c) PROVE Registered'
  BY <1>3 DEF Own, Flying
<1>4. ASSUME NEW c \in Callers, Join(c) PROVE Registered'
  BY <1>4 DEF Join, Flying
<1>5. ASSUME NEW c \in Callers, Reread(c) PROVE Registered'
  BY <1>5 DEF Reread
<1>6. ASSUME NEW c \in Callers, Produce(c) PROVE Registered'
  BY <1>6 DEF Produce
<1>7. ASSUME NEW c \in Callers, Settle(c) PROVE Registered'
  BY <1>7 DEF Settle, Verdict
<1>8. ASSUME NEW c \in Callers, Poll(c) PROVE Registered'
  BY <1>8 DEF Poll
<1>9. ASSUME NEW c \in Callers, Deliver(c) PROVE Registered'
  BY <1>9 DEF Deliver, Settled
<1>10. ASSUME NEW c \in Callers, TimesOut(c) PROVE Registered'
  BY <1>10 DEF TimesOut, Settled
<1>11. ASSUME NEW c \in Callers, AfterTimeout(c) PROVE Registered'
  BY <1>11 DEF AfterTimeout, Settled
<1>12. ASSUME NEW c \in Callers, Leave(c) PROVE Registered'
  BY <1>12 DEF Leave
<1>13. ASSUME NEW k \in Frames, Evict(k) PROVE Registered'
  BY <1>13 DEF Evict
<1>14. CASE UNCHANGED vars
  BY <1>14 DEF vars
<1> QED
  BY <1>1, <1>2, <1>3, <1>4, <1>5, <1>6, <1>7, <1>8, <1>9, <1>10, <1>11, <1>12, <1>13, <1>14
     DEF Next, Call

\* A flight is replaced only when nobody wants it, and removed by its owner alone.
LEMMA WantedStep == TypeOK /\ Consuming /\ OwnersLead /\ WantedIsRegistered /\ [Next]_vars => WantedIsRegistered'
<1> SUFFICES ASSUME TypeOK, Consuming, OwnersLead, WantedIsRegistered, [Next]_vars PROVE WantedIsRegistered'
  OBVIOUS
<1> USE FieldAssumption DEF FieldAssumption, Goto, End, TypeOK, Places, Consuming, OwnersLead, WantedIsRegistered, Working,
     Stopped, FlightPlaces, OwnerPlaces
<1>1. ASSUME NEW c \in Callers, Stop(c) PROVE WantedIsRegistered'
  BY <1>1 DEF Stop
<1>2. ASSUME NEW c \in Callers, Ask(c) PROVE WantedIsRegistered'
  BY <1>2 DEF Ask
<1>3. ASSUME NEW c \in Callers, Own(c) PROVE WantedIsRegistered'
  BY <1>3 DEF Own, Flying
<1>4. ASSUME NEW c \in Callers, Join(c) PROVE WantedIsRegistered'
  BY <1>4 DEF Join, Flying
<1>5. ASSUME NEW c \in Callers, Reread(c) PROVE WantedIsRegistered'
  BY <1>5 DEF Reread
<1>6. ASSUME NEW c \in Callers, Produce(c) PROVE WantedIsRegistered'
  BY <1>6 DEF Produce
<1>7. ASSUME NEW c \in Callers, Settle(c) PROVE WantedIsRegistered'
  BY <1>7 DEF Settle, Verdict
<1>8. ASSUME NEW c \in Callers, Poll(c) PROVE WantedIsRegistered'
  BY <1>8 DEF Poll
<1>9. ASSUME NEW c \in Callers, Deliver(c) PROVE WantedIsRegistered'
  BY <1>9 DEF Deliver, Settled
<1>10. ASSUME NEW c \in Callers, TimesOut(c) PROVE WantedIsRegistered'
  BY <1>10 DEF TimesOut, Settled
<1>11. ASSUME NEW c \in Callers, AfterTimeout(c) PROVE WantedIsRegistered'
  BY <1>11 DEF AfterTimeout, Settled
<1>12. ASSUME NEW c \in Callers, Leave(c) PROVE WantedIsRegistered'
  BY <1>12 DEF Leave
<1>13. ASSUME NEW k \in Frames, Evict(k) PROVE WantedIsRegistered'
  BY <1>13 DEF Evict
<1>14. CASE UNCHANGED vars
  BY <1>14 DEF vars
<1> QED
  BY <1>1, <1>2, <1>3, <1>4, <1>5, <1>6, <1>7, <1>8, <1>9, <1>10, <1>11, <1>12, <1>13, <1>14
     DEF Next, Call

LEMMA IInvStep == IInv /\ [Next]_vars => IInv'
BY TypeStep, ConsumingStep, OwnersLeadStep, StoppedStep, CancelledStep, RegisteredStep,
   WantedStep
   DEF IInv

LEMMA Invariance == Spec => []IInv
BY InitIInv, IInvStep, PTL DEF Spec

-----------------------------------------------------------------------------
\* The variables of the acquisition keep their types (fields.py, _acquire).
THEOREM TypeCorrect == Spec => []TypeOK
<1>1. IInv => TypeOK
  BY DEF IInv
<1> QED
  BY <1>1, Invariance, PTL

\* A call of fields.grid is cancelled only if its own request was, however many calls
\* share its load and whoever of them, the owner included, is cancelled.  Two loads of one
\* frame never run at once while both are wanted: each would be the one that _FLIGHTS
\* holds for the frame.  Whatever _FLIGHTS holds has an owner that has not returned.
THEOREM LoadsAreShared == Spec => []FlightsAreSound
<1>1. IInv => OnlyTheStoppedAreCancelled
  BY DEF IInv
<1>2. IInv => WantedLoadIsShared
  BY DEF IInv, WantedIsRegistered, WantedLoadIsShared
<1>3. IInv => FlightsAreOwned
  BY DEF IInv, Registered, FlightsAreOwned, OwnerPlaces
<1> QED
  BY <1>1, <1>2, <1>3, Invariance, PTL DEF FlightsAreSound

-----------------------------------------------------------------------------
(* FieldAcquisition implements LoadService.                                *)

\* What each place of a caller says of its flight and its result, who is a consumer of
\* a flight, and that the flight somebody wants is registered until it is settled.
Flights ==
  /\ \A c \in Callers : pc[c] \in {"start", "asking"} => joined[c] = None /\ future[c] = "none"
  /\ \A c \in Callers : future[c] = "pending" <=> pc[c] \in OwnerPlaces
  /\ \A c \in Callers : joined[c] # None => future[joined[c]] # "none"
  /\ \A c \in Callers : result[c] = "none" <=> pc[c] \notin {"leaving", "over"}
  /\ \A f, c \in Callers : c \in consumers[f] => joined[c] = f /\ pc[c] \in FlightPlaces
  /\ \A f \in Callers : future[f] = "pending" /\ ~Stopped(f) => flights[frame[f]] = f

LEMMA FlightsStep == IInv /\ Flights /\ [Next]_vars => Flights'
<1> SUFFICES ASSUME IInv, Flights, [Next]_vars PROVE Flights'
  OBVIOUS
<1> None \notin Callers /\ TypeOK
  BY FieldAssumption DEF FieldAssumption, IInv
<1> USE DEF Flights, OwnerPlaces, FlightPlaces
<1>1. ASSUME NEW c \in Callers, Stop(c) PROVE Flights'
  BY <1>1 DEF Stop, Stopped
<1>2. ASSUME NEW c \in Callers, Ask(c) PROVE Flights'
  BY <1>2 DEF TypeOK, Ask, Goto, Stopped
<1>3. ASSUME NEW c \in Callers, Own(c) PROVE Flights'
  <2>1. /\ pc[c] = "asking" /\ frame[c] \in Frames /\ ~Flying(frame[c])
        /\ flights' = [flights EXCEPT ![frame[c]] = c] /\ joined' = [joined EXCEPT ![c] = c]
        /\ consumers' = [consumers EXCEPT ![c] = {c}] /\ future' = [future EXCEPT ![c] = "pending"]
        /\ pc' = [pc EXCEPT ![c] = "owning"] /\ UNCHANGED <<frame, stop, result>>
    BY <1>3 DEF TypeOK, Own, Goto
  <2>2. \A f \in Callers : future'[f] = "pending" /\ ~Stopped(f)' => flights'[frame'[f]] = f
    BY <2>1 DEF TypeOK, Flying, Stopped
  <2>3. \A f, d \in Callers : d \in consumers'[f] => joined'[d] = f /\ pc'[d] \in FlightPlaces
    BY <2>1 DEF TypeOK
  <2>4. \A d \in Callers : joined'[d] # None => future'[joined'[d]] # "none"
    BY <2>1 DEF TypeOK
  <2> QED BY <2>1, <2>2, <2>3, <2>4 DEF TypeOK
<1>4. ASSUME NEW c \in Callers, Join(c) PROVE Flights'
  <2> DEFINE f == flights[frame[c]]
  <2>1. f \in Callers /\ frame[f] = frame[c] /\ future[f] # "none"
    BY <1>4 DEF IInv, TypeOK, Registered, Join, Flying
  <2>2. /\ pc[c] = "asking" /\ joined' = [joined EXCEPT ![c] = f]
        /\ consumers' = [consumers EXCEPT ![f] = @ \cup {c}]
        /\ pc' = [pc EXCEPT ![c] = "joined"] /\ UNCHANGED <<frame, stop, result, flights, future>>
    BY <1>4 DEF Join, Goto
  <2> HIDE DEF f
  <2>3. \A g \in Callers : future'[g] = "pending" /\ ~Stopped(g)' => flights'[frame'[g]] = g
    BY <2>1, <2>2 DEF TypeOK, Stopped, f
  <2> QED BY <2>1, <2>2, <2>3 DEF TypeOK
<1>5. ASSUME NEW c \in Callers, Reread(c) \/ Produce(c) PROVE Flights'
  BY <1>5 DEF TypeOK, Reread, Produce, Goto, Stopped
<1>6. ASSUME NEW c \in Callers, Settle(c) PROVE Flights'
  <2>1. /\ pc[c] \in OwnerPlaces /\ pc' = [pc EXCEPT ![c] = "leaving"]
        /\ UNCHANGED <<frame, stop, joined, flights, consumers>>
        /\ \E how \in {"ready", "failed", "cancelled"} :
             future' = [future EXCEPT ![c] = how] /\ result' = [result EXCEPT ![c] = how]
    BY <1>6 DEF Settle, Verdict, End, Goto
  <2> QED BY <2>1 DEF TypeOK, Stopped
<1>7. ASSUME NEW c \in Callers, Poll(c) \/ Deliver(c) \/ TimesOut(c) \/ AfterTimeout(c) PROVE Flights'
  <2>1. joined[c] \in Callers /\ pc[c] \in {"joined", "waiting", "timedout"}
    BY <1>7 DEF IInv, Consuming, Poll, Deliver, TimesOut, AfterTimeout
  <2>2. /\ UNCHANGED <<frame, stop, joined, flights, consumers, future>>
        /\ \/ /\ pc' = [pc EXCEPT ![c] = "leaving"]
              /\ \E how : how # "none" /\ result' = [result EXCEPT ![c] = how]
           \/ /\ \E place \in {"joined", "waiting", "timedout"} : pc' = [pc EXCEPT ![c] = place]
              /\ UNCHANGED result
    BY <1>7, <2>1 DEF Poll, Deliver, TimesOut, AfterTimeout, End, Goto
  <2> QED BY <2>1, <2>2 DEF TypeOK, Stopped
<1>8. ASSUME NEW c \in Callers, Leave(c) PROVE Flights'
  <2>1. /\ pc[c] = "leaving" /\ joined[c] \in Callers /\ pc' = [pc EXCEPT ![c] = "over"]
        /\ consumers' = [consumers EXCEPT ![joined[c]] = @ \ {c}]
        /\ UNCHANGED <<frame, stop, joined, result, future>>
    BY <1>8 DEF IInv, Consuming, Leave, Goto
  <2>2. \A f \in Callers : future[f] = "pending" /\ flights[frame[f]] = f => flights'[frame[f]] = f
    BY <1>8, <2>1 DEF TypeOK, Leave
  <2>3. \A f \in Callers : ~Stopped(f)' => ~Stopped(f)
    BY <2>1 DEF TypeOK, Stopped
  <2>4. \A f, d \in Callers : d \in consumers'[f] => joined'[d] = f /\ pc'[d] \in FlightPlaces
    BY <2>1 DEF TypeOK
  <2> QED BY <2>1, <2>2, <2>3, <2>4 DEF TypeOK
<1>9. CASE UNCHANGED vars \/ \E k \in Frames : Evict(k)
  BY <1>9 DEF vars, Evict, Stopped
<1> QED BY <1>1, <1>2, <1>3, <1>4, <1>5, <1>6, <1>7, <1>8, <1>9 DEF Next, Call

\* Somebody who was not stopped is with a flight if it is not stopped.
LEMMA WantedMeans ==
  ASSUME IInv, Flights, NEW f \in Callers
  PROVE  (\E c \in Callers : Of(c) = f /\ c \notin stop) <=> ~Stopped(f)
<1>1. ASSUME NEW c \in Callers PROVE Of(c) = f <=> c \in consumers[f]
  BY FieldAssumption DEF IInv, TypeOK, Consuming, Flights, FlightPlaces, OwnerPlaces,
         Places, Of,
     FieldAssumption
<1>2. consumers[f] \subseteq Callers
  BY DEF IInv, TypeOK
<1> QED BY <1>1, <1>2 DEF Stopped

\* A step of one caller, as the service sees it.
CallerMoves(c) ==
  /\ UNCHANGED <<frame, stop>>
  /\ \A d \in Callers \ {c} : Of(d)' = Of(d) /\ result'[d] = result[d] /\ future'[d] = future[d]
Serves == [Service!Next]_(Service!vars)

LEMMA SameOf ==
  ASSUME NEW c \in Callers, pc'[c] = pc[c], joined'[c] = joined[c]
  PROVE  Of(c)' = Of(c)
BY DEF Of

LEMMA Unseen ==
  ASSUME UNCHANGED <<frame, stop, future, result>>, \A c \in Callers : Of(c)' = Of(c)
  PROVE  Serves
BY DEF Serves, Service!vars

\* A call gets its answer and is with the same load as before.
LEMMA Answers ==
  ASSUME IInv, NEW c \in Callers, CallerMoves(c), UNCHANGED future, Of(c)' = Of(c), result[c] = "none",
         NEW how, result' = [result EXCEPT ![c] = how],
         \/ Of(c) = None /\ how = "ready"
         \/ c \in stop /\ how = "cancelled"
         \/ Of(c) # None /\ how = future[Of(c)] /\ how \in {"ready", "failed"}
         \/ Of(c) # None /\ how = "timeout" /\ future[Of(c)] # "pending"
  PROVE  Serves
<1>1. /\ UNCHANGED <<frame, stop, future>>
      /\ \A d \in Callers : Of(d)' = Of(d)
  BY DEF CallerMoves
<1>2. Of(c) # None => Of(c) \in Callers
  BY DEF IInv, TypeOK, Of
<1>3. Service!Find(c) \/ Service!Cancel(c) \/ Service!Deliver(c) \/ Service!Late(c)
  BY <1>1, <1>2 DEF Service!Find, Service!Cancel, Service!Deliver, Service!Late,
         Service!Asking,
     Service!Waiting
<1> QED BY <1>3 DEF Serves, Service!Next, Service!Call

\* Each step of an acquisition is one of the service.
LEMMA CallServes ==
  ASSUME IInv, Flights, NEW c \in Callers, Call(c)
  PROVE  Serves
<1>n. None \notin Callers /\ TypeOK
  BY FieldAssumption DEF FieldAssumption, IInv
<1>m. ASSUME \A d \in Callers \ {c} :
                pc'[d] = pc[d] /\ joined'[d] = joined[d] /\ result'[d] = result[d] /\ future'[d] = future[d],
             UNCHANGED <<frame, stop>>
      PROVE  CallerMoves(c)
  BY <1>m, SameOf DEF CallerMoves
<1>1. CASE Ask(c)
  <2>1. /\ Of(c) = None /\ Of(c)' = None /\ result[c] = "none" /\ UNCHANGED future /\ CallerMoves(c)
    BY <1>1, <1>m, <1>n DEF TypeOK, Flights, Ask, Goto, Of
  <2>2. CASE UNCHANGED result
    BY <2>1, <2>2, Unseen DEF CallerMoves
  <2>3. CASE result' = [result EXCEPT ![c] = "ready"]
    BY <2>1, <2>3, Answers
  <2>4. CASE c \in stop /\ result' = [result EXCEPT ![c] = "cancelled"]
    BY <2>1, <2>4, Answers
  <2> QED BY <1>1, <2>2, <2>3, <2>4 DEF Ask
<1>2. CASE Own(c)
  <2>1. /\ Of(c) = None /\ Of(c)' = c /\ result[c] = "none" /\ UNCHANGED result /\ CallerMoves(c)
        /\ future[c] = "none" /\ future' = [future EXCEPT ![c] = "pending"]
    BY <1>2, <1>m, <1>n DEF TypeOK, Flights, Own, Goto, Of
  <2>2. ASSUME NEW f \in Callers, future[f] = "pending", frame[f] = frame[c]
        PROVE  ~\E d \in Callers : Of(d) = f /\ d \notin stop
    <3>1. Stopped(f)
      BY <1>2, <1>n, <2>2 DEF Flights, Own, Flying
    <3> QED BY <3>1, WantedMeans
  <2>3. Service!Begin(c)
    BY <2>1, <2>2 DEF CallerMoves, Service!Begin, Service!Asking, Service!Wanted
  <2> QED BY <2>3 DEF Serves, Service!Next, Service!Call
<1>3. CASE Join(c)
  <2> DEFINE f == flights[frame[c]]
  <2>1. f \in Callers /\ frame[f] = frame[c] /\ ~Stopped(f) /\ future[f] # "none"
    BY <1>3, <1>n DEF IInv, TypeOK, Registered, Flights, Join, Flying
  <2>2. /\ Of(c) = None /\ Of(c)' = f /\ result[c] = "none" /\ UNCHANGED <<result, future>>
        /\ CallerMoves(c)
    BY <1>3, <1>m, <1>n DEF TypeOK, Flights, Join, Goto, Of
  <2>3. future[f] \in {"pending", "ready", "failed"}
    BY <1>n, <2>1 DEF IInv, TypeOK, StoppedIsFinal
  <2>4. \E d \in Callers : Of(d) = f /\ d \notin stop
    BY <2>1, WantedMeans
  <2> HIDE DEF f
  <2>5. Service!Join(c, f)
    BY <2>1, <2>2, <2>3, <2>4 DEF CallerMoves, Service!Join, Service!Asking, Service!Wanted
  <2> QED BY <2>1, <2>5 DEF Serves, Service!Next, Service!Call
<1>4. CASE Reread(c) \/ Produce(c) \/ TimesOut(c)
  <2>1. UNCHANGED <<frame, stop, future, result>> /\ \A d \in Callers : Of(d)' = Of(d)
    BY <1>4, <1>n DEF TypeOK, Reread, Produce, TimesOut, Goto, Of
  <2> QED BY <2>1, Unseen
<1>5. CASE Settle(c)
  <2>1. /\ Of(c) = c /\ Of(c)' = c /\ result[c] = "none" /\ future[c] = "pending" /\ CallerMoves(c)
    BY <1>5, <1>m, <1>n DEF IInv, TypeOK, OwnersLead, OwnerPlaces, Flights, Settle, Verdict,
           End, Goto, Of
  <2>2. /\ \E how \in {"ready", "failed", "cancelled"} :
             future' = [future EXCEPT ![c] = how] /\ result' = [result EXCEPT ![c] = how]
        /\ future'[c] = "cancelled" => pc[c] = "stopped"
    BY <1>5, <1>n DEF TypeOK, Settle, Verdict, End
  <2>3. pc[c] = "stopped" => ~\E d \in Callers : Of(d) = c /\ d \notin stop
    BY WantedMeans DEF IInv, StoppedIsFinal
  <2>4. PICK how \in {"ready", "failed", "cancelled"} :
          future' = [future EXCEPT ![c] = how] /\ result' = [result EXCEPT ![c] = how]
    BY <2>2
  <2>5. how = "cancelled" => ~\E d \in Callers : Of(d) = c /\ d \notin stop
    BY <1>n, <2>2, <2>3, <2>4 DEF TypeOK
  <2>6. Service!End(c, how)
    BY <1>n, <2>1, <2>4 DEF CallerMoves, Service!End, Service!Waiting
  <2>7. Service!Complete(c) \/ Service!Fail(c) \/ Service!GiveUp(c)
    BY <2>4, <2>5, <2>6 DEF Service!Complete, Service!Fail, Service!GiveUp, Service!Wanted
  <2> QED BY <2>7 DEF Serves, Service!Next, Service!Load
<1>6. CASE Poll(c) \/ Deliver(c) \/ AfterTimeout(c)
  <2>1. /\ Of(c) = joined[c] /\ joined[c] \in Callers /\ result[c] = "none"
        /\ c \in consumers[joined[c]] /\ future[joined[c]] # "none"
    BY <1>6, <1>n DEF IInv, Consuming, FlightPlaces, Flights, Poll, Deliver, AfterTimeout,
           Of
  <2>2. Of(c)' = Of(c) /\ UNCHANGED future /\ CallerMoves(c)
    BY <1>6, <1>m, <1>n, <2>1 DEF TypeOK, Poll, Deliver, AfterTimeout, End, Goto, Of
  <2>3. CASE UNCHANGED result
    BY <2>2, <2>3, Unseen DEF CallerMoves
  <2>4. CASE c \in stop /\ result' = [result EXCEPT ![c] = "cancelled"]
    BY <2>1, <2>2, <2>4, Answers
  <2>5. CASE future[joined[c]] # "pending" /\ result' = [result EXCEPT ![c] = "timeout"]
    BY <1>n, <2>1, <2>2, <2>5, Answers
  <2>6. CASE future[joined[c]] # "pending" /\ result' = [result EXCEPT ![c] = future[joined[c]]]
    <3>1. future[joined[c]] \in {"ready", "failed", "cancelled"}
      BY <1>n, <2>1, <2>6 DEF TypeOK
    <3>2. future[joined[c]] = "cancelled" => c \in stop
      BY <2>1 DEF IInv, StoppedIsFinal, Stopped
    <3> QED BY <1>n, <2>1, <2>2, <2>6, <3>1, <3>2, Answers
  <2> QED BY <1>6, <2>3, <2>4, <2>5, <2>6 DEF Poll, Deliver, AfterTimeout, Settled, End
<1>7. CASE Leave(c)
  <2>1. /\ Of(c) # None /\ Of(c)' = None /\ result[c] # "none" /\ UNCHANGED <<result, future>>
        /\ CallerMoves(c)
    BY <1>7, <1>m, <1>n DEF IInv, TypeOK, Consuming, FlightPlaces, Flights, Leave, Goto, Of
  <2>2. Service!Leave(c)
    BY <2>1 DEF CallerMoves, Service!Leave
  <2> QED BY <2>2 DEF Serves, Service!Next, Service!Call
<1> QED BY <1>1, <1>2, <1>3, <1>4, <1>5, <1>6, <1>7 DEF Call

\* Acquisitions implement the shared loads of LoadService: callers of a frame share a
\* load while one of them wants it, it is given up with its last caller only, and
\* each gets the result of its own flight or is cancelled by its own request.
THEOREM AcquisitionsKeepContract == Spec => LoadContract
<1>1. Init => Flights /\ Service!Init
  <2> SUFFICES ASSUME Init PROVE Flights /\ Service!Init
    OBVIOUS
  <2>1. Flights
    BY FieldAssumption DEF Init, Flights, OwnerPlaces, FieldAssumption
  <2>2. \A c \in Callers : Of(c) = None
    BY DEF Init, Of
  <2> QED BY <2>1, <2>2 DEF Init, Service!Init
<1>2. IInv /\ Flights /\ [Next]_vars => [Service!Next]_(Service!vars)
  <2> SUFFICES ASSUME IInv, Flights, [Next]_vars PROVE Serves
    BY DEF Serves
  <2>1. ASSUME NEW c \in Callers, Stop(c) PROVE Serves
    <3>1. stop' = stop \cup {c} /\ UNCHANGED <<frame, future, result>> /\ \A d \in Callers : Of(d)' = Of(d)
      BY <2>1 DEF Stop, Of
    <3>2. Service!Stop(c)
      BY <3>1 DEF Service!Stop
    <3> QED BY <3>2 DEF Serves, Service!Next, Service!Call
  <2>2. CASE UNCHANGED vars \/ \E k \in Frames : Evict(k)
    <3>1. UNCHANGED <<frame, stop, future, result>> /\ \A d \in Callers : Of(d)' = Of(d)
      BY <2>2 DEF vars, Evict, Of
    <3> QED BY <3>1, Unseen
  <2> QED BY <2>1, <2>2, CallServes DEF Next
<1> QED BY <1>1, <1>2, FlightsStep, Invariance, PTL DEF Spec, LoadContract, Service!Spec

-----------------------------------------------------------------------------
(* FieldFetch.                                                             *)

\* The finite sets of FieldFetch are those of this module.
LEMMA SameFiniteSets == ASSUME NEW S PROVE Fetch!IsFiniteSet(S) => IsFiniteSet(S)
BY DEF Fetch!IsFiniteSet, IsFiniteSet

\* The callers inside for a frame.
InsideOf(k) == {c \in Callers : fetchPc[c] \in Fetch!Inside /\ fetchFrame[c] = k}

\* The registry has the lock its users work with.
Shared ==
  \A c \in Callers : fetchPc[c] \in Fetch!Inside => lock[c] \in Callers /\ flight[fetchFrame[c]] = lock[c]

\* Who works holds the lock.
Held == \A c \in Callers : fetchPc[c] \in Fetch!Working => holder[lock[c]] = c

\* The registry counts the users and forgets a lock that has none.
Counted ==
  \A k \in FetchFrames :
    /\ users[k] = Cardinality(InsideOf(k))
    /\ flight[k] # None => users[k] > 0

FetchInv == Fetch!TypeOK /\ Shared /\ Held /\ Counted

-----------------------------------------------------------------------------
(* The type invariant.                                                     *)

\* Putting something into the cache leaves a cache.
LEMMA PutType ==
  ASSUME Fetch!TypeOK, NEW k \in FetchFrames, NEW value \in {"fresh", "unpublished"}, Fetch!Put(k, value)
  PROVE  cache' \in [FetchFrames -> Fetch!Rasters \cup {"none", "unpublished", "lapsed"}]
<1>1. CASE cache' = [cache EXCEPT ![k] = value]
  BY <1>1 DEF Fetch!TypeOK, Fetch!Rasters
<1>2. CASE \E oldest \in FetchFrames : cache' = [cache EXCEPT ![oldest] = "none", ![k] = value]
  BY <1>2 DEF Fetch!TypeOK, Fetch!Rasters
<1> QED BY <1>1, <1>2 DEF Fetch!Put

\* Every step preserves the type invariant.
LEMMA FetchTypeStep ==
  ASSUME Fetch!TypeOK, [Fetch!Next]_(Fetch!vars)
  PROVE  Fetch!TypeOK'
<1>1. ASSUME NEW c \in Callers, Fetch!Stop(c) PROVE Fetch!TypeOK'
  BY <1>1 DEF Fetch!TypeOK, Fetch!Stop
<1>2. ASSUME NEW c \in Callers, Fetch!Enter(c) PROVE Fetch!TypeOK'
  BY <1>2 DEF Fetch!TypeOK, Fetch!Enter, Fetch!Goto, Fetch!Inside
<1>3. ASSUME NEW c \in Callers, Fetch!Acquire(c) PROVE Fetch!TypeOK'
  BY <1>3 DEF Fetch!TypeOK, Fetch!Acquire, Fetch!Goto, Fetch!Inside
<1>4. ASSUME NEW c \in Callers, Fetch!GiveUp(c) PROVE Fetch!TypeOK'
  BY <1>4 DEF Fetch!TypeOK, Fetch!GiveUp, Fetch!Goto, Fetch!Inside
<1>5. ASSUME NEW c \in Callers, Fetch!Release(c) PROVE Fetch!TypeOK'
  BY <1>5 DEF Fetch!TypeOK, Fetch!Release, Fetch!Goto, Fetch!Inside
<1>6. ASSUME NEW c \in Callers, Fetch!Leave(c) PROVE Fetch!TypeOK'
  BY <1>6 DEF Fetch!TypeOK, Fetch!Leave, Fetch!Goto, Fetch!Inside
<1>7. ASSUME NEW c \in Callers, Fetch!LookUp(c) PROVE Fetch!TypeOK'
  BY <1>7 DEF Fetch!TypeOK, Fetch!LookUp, Fetch!Goto, Fetch!Inside
<1>8. ASSUME NEW c \in Callers, Fetch!Fetch(c) PROVE Fetch!TypeOK'
  BY <1>8 DEF Fetch!TypeOK, Fetch!Fetch, Fetch!Goto, Fetch!Inside
<1>9. ASSUME NEW c \in Callers, Fetch!NotPublished(c) PROVE Fetch!TypeOK'
  <2>1. cache' \in [FetchFrames -> Fetch!Rasters \cup {"none", "unpublished", "lapsed"}]
    BY <1>9, PutType DEF Fetch!TypeOK, Fetch!NotPublished
  <2> QED BY <1>9, <2>1 DEF Fetch!TypeOK, Fetch!NotPublished, Fetch!Goto, Fetch!Inside
<1>10. ASSUME NEW c \in Callers, Fetch!Store(c) PROVE Fetch!TypeOK'
  <2>1. cache' \in [FetchFrames -> Fetch!Rasters \cup {"none", "unpublished", "lapsed"}]
    BY <1>10, PutType DEF Fetch!TypeOK, Fetch!Store
  <2> QED BY <1>10, <2>1 DEF Fetch!TypeOK, Fetch!Store, Fetch!Goto, Fetch!Inside
<1>11. ASSUME NEW k \in FetchFrames, Fetch!Lapse(k) PROVE Fetch!TypeOK'
  BY <1>11 DEF Fetch!TypeOK, Fetch!Lapse, Fetch!Rasters
<1>12. CASE UNCHANGED Fetch!vars
  BY <1>12 DEF Fetch!TypeOK, Fetch!vars
<1> QED
  BY <1>1, <1>2, <1>3, <1>4, <1>5, <1>6, <1>7, <1>8, <1>9, <1>10, <1>11, <1>12
     DEF Fetch!Next, Fetch!Call

-----------------------------------------------------------------------------
(* The registry and its locks.                                             *)

\* A step inside changes who is inside for no frame.
LEMMA StillInside ==
  ASSUME Fetch!TypeOK, NEW c \in Callers, NEW place \in Fetch!Inside,
         fetchPc[c] \in Fetch!Inside, Fetch!Goto(c, place), UNCHANGED fetchFrame
  PROVE  \A k \in FetchFrames : InsideOf(k)' = InsideOf(k)
  BY DEF Fetch!TypeOK, Fetch!Goto, InsideOf

\* A step that keeps the registry and who is inside keeps the count.
LEMMA CountKept ==
  ASSUME Counted, \A k \in FetchFrames : InsideOf(k)' = InsideOf(k), UNCHANGED <<flight, users>>
  PROVE  Counted'
  BY DEF Counted

\* Entering preserves the invariant: a new lock is made only if nobody is inside.
LEMMA EnterStep ==
  ASSUME Fetch!FetchAssumption, FetchInv, NEW c \in Callers, Fetch!Enter(c)
  PROVE  Shared' /\ Held' /\ Counted'
<1>0. PICK k \in FetchFrames : k = fetchFrame[c]
  BY DEF FetchInv, Fetch!TypeOK
<1>1. k = fetchFrame[c] /\ c \notin InsideOf(k) /\ fetchPc' = [fetchPc EXCEPT ![c] = "waiting"]
  BY <1>0 DEF FetchInv, Fetch!TypeOK, Fetch!Enter, Fetch!Goto, InsideOf, Fetch!Inside
<1>2. Shared'
  <2> SUFFICES ASSUME NEW d \in Callers, fetchPc'[d] \in Fetch!Inside
               PROVE  lock'[d] \in Callers /\ flight'[fetchFrame'[d]] = lock'[d]
    BY DEF Shared
  <2>1. CASE d = c
    BY <2>1, <1>1 DEF FetchInv, Fetch!TypeOK, Fetch!Enter
  <2>2. CASE d # c /\ fetchFrame[d] = k
    <3>1. flight[k] = lock[d] /\ lock[d] \in Callers
      BY <2>2, <1>1 DEF FetchInv, Fetch!TypeOK, Shared
    <3> QED BY <3>1, <2>2 DEF FetchInv, Fetch!TypeOK, Fetch!Enter, Fetch!FetchAssumption
  <2>3. CASE d # c /\ fetchFrame[d] # k
    <3>1. flight[fetchFrame[d]] = lock[d] /\ lock[d] \in Callers
      BY <2>3, <1>1 DEF FetchInv, Fetch!TypeOK, Shared
    <3> QED BY <1>1, <2>3, <3>1 DEF FetchInv, Fetch!TypeOK, Fetch!Enter
  <2> QED BY <2>1, <2>2, <2>3
<1>3. Held'
  BY <1>1 DEF FetchInv, Fetch!TypeOK, Held, Fetch!Enter, Fetch!Working
<1>4. Counted'
  <2>1. InsideOf(k)' = InsideOf(k) \cup {c}
    BY <1>1 DEF FetchInv, Fetch!TypeOK, Fetch!Enter, InsideOf, Fetch!Inside
  <2>2. \A f \in FetchFrames \ {k} : InsideOf(f)' = InsideOf(f)
    BY <1>1 DEF FetchInv, Fetch!TypeOK, Fetch!Enter, InsideOf, Fetch!Inside
  <2>3. IsFiniteSet(InsideOf(k))
    BY SameFiniteSets, FS_Subset DEF Fetch!FetchAssumption, InsideOf
  <2>4. Cardinality(InsideOf(k)') = Cardinality(InsideOf(k)) + 1
    BY <1>1, <2>1, <2>3, FS_AddElement
  <2>5. users' = [users EXCEPT ![k] = @ + 1] /\ \A f \in FetchFrames \ {k} : flight'[f] = flight[f]
    BY <1>1 DEF FetchInv, Fetch!TypeOK, Fetch!Enter
  <2>6. users[k] \in Nat
    BY <1>1 DEF FetchInv, Fetch!TypeOK
  <2>7. users'[k] = Cardinality(InsideOf(k)') /\ users'[k] > 0
    BY <1>1, <2>4, <2>5, <2>6 DEF FetchInv, Fetch!TypeOK, Counted
  <2>8. \A f \in FetchFrames \ {k} : users'[f] = Cardinality(InsideOf(f)') /\ (flight'[f] # None => users'[f] > 0)
    BY <1>1, <2>2, <2>5 DEF FetchInv, Fetch!TypeOK, Counted
  <2> QED BY <2>7, <2>8 DEF Counted
<1> QED BY <1>2, <1>3, <1>4

\* Leaving preserves the invariant: the lock is forgotten only by its last user.
LEMMA LeaveStep ==
  ASSUME Fetch!FetchAssumption, FetchInv, NEW c \in Callers, Fetch!Leave(c)
  PROVE  Shared' /\ Held' /\ Counted'
<1>0. PICK k \in FetchFrames : k = fetchFrame[c]
  BY DEF FetchInv, Fetch!TypeOK
<1>1. k = fetchFrame[c] /\ c \in InsideOf(k) /\ fetchPc' = [fetchPc EXCEPT ![c] = "over"] /\ users[k] \in Nat
  BY <1>0 DEF FetchInv, Fetch!TypeOK, Fetch!Leave, Fetch!Goto, InsideOf, Fetch!Inside
<1>2. IsFiniteSet(InsideOf(k))
  BY SameFiniteSets, FS_Subset DEF Fetch!FetchAssumption, InsideOf
<1>3. InsideOf(k)' = InsideOf(k) \ {c}
  BY <1>1 DEF FetchInv, Fetch!TypeOK, Fetch!Leave, InsideOf, Fetch!Inside
<1>4. \A f \in FetchFrames \ {k} : InsideOf(f)' = InsideOf(f)
  BY <1>1 DEF FetchInv, Fetch!TypeOK, Fetch!Leave, InsideOf, Fetch!Inside
<1>5. Cardinality(InsideOf(k)') = users[k] - 1
  BY <1>1, <1>2, <1>3, FS_RemoveElement DEF FetchInv, Counted
<1>6. Cardinality(InsideOf(k)') \in Nat /\ IsFiniteSet(InsideOf(k)')
  BY <1>2, <1>3, FS_RemoveElement, FS_CardinalityType
<1>7. Held'
  BY <1>1 DEF FetchInv, Fetch!TypeOK, Held, Fetch!Leave, Fetch!Working
<1>8. CASE users[k] <= 1
  <2>1. InsideOf(k)' = {}
    BY <1>5, <1>6, <1>8, <1>1, FS_EmptySet
  <2>2. flight' = [flight EXCEPT ![k] = None] /\ users' = [users EXCEPT ![k] = 0]
    BY <1>1, <1>8 DEF Fetch!Leave
  <2>3. Shared'
    <3> SUFFICES ASSUME NEW d \in Callers, fetchPc'[d] \in Fetch!Inside
                 PROVE  lock'[d] \in Callers /\ flight'[fetchFrame'[d]] = lock'[d]
      BY DEF Shared
    <3>1. d # c /\ fetchPc[d] \in Fetch!Inside
      BY <1>1 DEF FetchInv, Fetch!TypeOK, Fetch!Inside
    <3>2. fetchFrame[d] # k
      BY <2>1, <1>1 DEF InsideOf, Fetch!Leave
    <3> QED BY <3>1, <3>2, <2>2 DEF FetchInv, Fetch!TypeOK, Shared, Fetch!Leave
  <2>4. Counted'
    <3>1. users'[k] = Cardinality(InsideOf(k)') /\ flight'[k] = None
      BY <1>1, <2>1, <2>2, FS_EmptySet DEF FetchInv, Fetch!TypeOK
    <3>2. \A f \in FetchFrames \ {k} : users'[f] = Cardinality(InsideOf(f)') /\ (flight'[f] # None => users'[f] > 0)
      BY <1>1, <1>4, <2>2 DEF FetchInv, Fetch!TypeOK, Counted
    <3> QED BY <3>1, <3>2 DEF Counted
  <2> QED BY <1>7, <2>3, <2>4
<1>9. CASE users[k] > 1
  <2>1. flight[k] = lock[c]
    BY <1>1 DEF FetchInv, Shared, InsideOf
  <2>2. flight' = flight /\ users' = [users EXCEPT ![k] = @ - 1]
    BY <1>1, <1>9, <2>1 DEF FetchInv, Fetch!TypeOK, Fetch!Leave
  <2>3. Shared'
    BY <1>1, <2>2 DEF FetchInv, Fetch!TypeOK, Shared, Fetch!Leave, Fetch!Inside
  <2>4. Counted'
    <3>1. users'[k] = Cardinality(InsideOf(k)') /\ users'[k] > 0
      BY <1>1, <1>5, <1>9, <2>2 DEF FetchInv, Fetch!TypeOK
    <3>2. \A f \in FetchFrames \ {k} : users'[f] = Cardinality(InsideOf(f)') /\ (flight'[f] # None => users'[f] > 0)
      BY <1>1, <1>4, <2>2 DEF FetchInv, Fetch!TypeOK, Counted
    <3> QED BY <3>1, <3>2 DEF Counted
  <2> QED BY <1>7, <2>3, <2>4
<1> QED BY <1>1, <1>8, <1>9

\* The steps of a caller under its lock, and its ways there and back.
LEMMA InsideStep ==
  ASSUME Fetch!FetchAssumption, FetchInv, NEW c \in Callers,
         \/ Fetch!Acquire(c) \/ Fetch!GiveUp(c) \/ Fetch!Release(c)
         \/ Fetch!LookUp(c) \/ Fetch!Fetch(c) \/ Fetch!NotPublished(c) \/ Fetch!Store(c)
  PROVE  Shared' /\ Held' /\ Counted'
<1>1. UNCHANGED <<fetchFrame, lock, flight, users>>
  BY DEF Fetch!Acquire, Fetch!GiveUp, Fetch!Release, Fetch!LookUp, Fetch!Fetch,
         Fetch!NotPublished, Fetch!Store
<1>2. fetchPc[c] \in Fetch!Inside /\ \E place \in Fetch!Inside : Fetch!Goto(c, place)
  BY DEF Fetch!Acquire, Fetch!GiveUp, Fetch!Release, Fetch!LookUp, Fetch!Fetch,
         Fetch!NotPublished, Fetch!Store, Fetch!Inside
<1>3. Counted'
  BY <1>1, <1>2, StillInside, CountKept DEF FetchInv
<1>4. Shared'
  BY <1>1, <1>2 DEF FetchInv, Fetch!TypeOK, Shared, Fetch!Goto
<1>5. lock[c] \in Callers
  BY <1>2 DEF FetchInv, Shared
<1>6. CASE Fetch!Acquire(c)
  <2> SUFFICES ASSUME NEW d \in Callers, fetchPc'[d] \in Fetch!Working PROVE holder'[lock'[d]] = d
    BY <1>3, <1>4 DEF Held
  <2>1. CASE d = c
    BY <1>1, <1>5, <1>6, <2>1 DEF FetchInv, Fetch!TypeOK, Fetch!Acquire
  <2>2. CASE d # c
    <3>1. fetchPc[d] \in Fetch!Working /\ holder[lock[d]] = d
      BY <1>6, <2>2 DEF FetchInv, Fetch!TypeOK, Held, Fetch!Acquire, Fetch!Goto
    <3>2. lock[d] # lock[c]
      BY <1>6, <3>1 DEF Fetch!Acquire, Fetch!FetchAssumption
    <3> QED BY <1>1, <1>6, <3>1, <3>2 DEF FetchInv, Fetch!TypeOK, Fetch!Acquire
  <2> QED BY <2>1, <2>2
<1>7. CASE Fetch!Release(c)
  <2> SUFFICES ASSUME NEW d \in Callers, fetchPc'[d] \in Fetch!Working PROVE holder'[lock'[d]] = d
    BY <1>3, <1>4 DEF Held
  <2>1. d # c /\ fetchPc[d] \in Fetch!Working /\ holder[lock[d]] = d
    BY <1>7 DEF FetchInv, Fetch!TypeOK, Held, Fetch!Release, Fetch!Goto, Fetch!Working
  <2>2. holder[lock[c]] = c
    BY <1>7 DEF FetchInv, Held, Fetch!Release, Fetch!Working
  <2> QED BY <1>1, <1>7, <2>1, <2>2 DEF FetchInv, Fetch!TypeOK, Fetch!Release
<1>8. CASE Fetch!GiveUp(c) \/ Fetch!LookUp(c) \/ Fetch!Fetch(c) \/ Fetch!NotPublished(c) \/ Fetch!Store(c)
  <2>1. UNCHANGED holder /\ (fetchPc[c] \in Fetch!Working \/ fetchPc'[c] \notin Fetch!Working)
    BY <1>8 DEF FetchInv, Fetch!TypeOK, Fetch!GiveUp, Fetch!LookUp, Fetch!Fetch,
           Fetch!NotPublished, Fetch!Store, Fetch!Goto, Fetch!Working
  <2>2. \A d \in Callers \ {c} : fetchPc'[d] = fetchPc[d]
    BY <1>2 DEF FetchInv, Fetch!TypeOK, Fetch!Goto
  <2> QED BY <1>1, <1>3, <1>4, <2>1, <2>2 DEF FetchInv, Held
<1> QED BY <1>3, <1>4, <1>6, <1>7, <1>8

\* The registry, the locks and the type invariant together are inductive.
LEMMA FetchInductive ==
  ASSUME Fetch!FetchAssumption, FetchInv, [Fetch!Next]_(Fetch!vars)
  PROVE  FetchInv'
<1>1. Fetch!TypeOK'
  BY FetchTypeStep DEF FetchInv
<1>2. ASSUME NEW c \in Callers, Fetch!Call(c) PROVE Shared' /\ Held' /\ Counted'
  BY <1>2, EnterStep, LeaveStep, InsideStep DEF Fetch!Call
<1>3. CASE UNCHANGED <<fetchPc, fetchFrame, lock, flight, users, holder>>
  BY <1>1, <1>3 DEF FetchInv, Shared, Held, Counted, InsideOf
<1>4. CASE \E c \in Callers : Fetch!Stop(c)
  BY <1>3, <1>4 DEF Fetch!Stop
<1>5. CASE \E k \in FetchFrames : Fetch!Lapse(k)
  BY <1>3, <1>5 DEF Fetch!Lapse
<1> QED BY <1>1, <1>2, <1>3, <1>4, <1>5 DEF FetchInv, Fetch!Next, Fetch!vars

\* At most one caller of a frame is at work, and a lock in the registry has a user:
\* from the invariant that all who are inside share the lock the registry has, that
\* who works holds it, and that the registry counts them.
THEOREM FetchesAreShared == MCSpec => []OneFetchPerFrame
<1>1. MCInit => FetchInv
  <2> SUFFICES ASSUME Fetch!Init PROVE FetchInv
    BY DEF MCInit
  <2>1. Fetch!TypeOK
    BY DEF Fetch!Init, Fetch!TypeOK, Fetch!Inside, Fetch!Rasters
  <2>2. Shared /\ Held
    BY DEF Fetch!Init, Shared, Held, Fetch!Inside, Fetch!Working
  <2>3. \A k \in FetchFrames : InsideOf(k) = {} /\ users[k] = 0 /\ flight[k] = None
    BY DEF Fetch!Init, InsideOf, Fetch!Inside
  <2>4. Counted
    BY <2>3, FS_EmptySet DEF Counted
  <2> QED BY <2>1, <2>2, <2>4 DEF FetchInv
<1>2. FetchInv /\ [FlightStep \/ FetchStep \/ SessionStep]_<<part, vars, fetchVars, sessionVars>> => FetchInv'
  <2>1. ASSUME FetchInv, [FlightStep \/ FetchStep \/ SessionStep]_<<part, vars, fetchVars, sessionVars>>
        PROVE  [Fetch!Next]_(Fetch!vars)
    BY <2>1 DEF FlightStep, FetchStep, SessionStep, fetchVars, Fetch!vars
  <2> QED BY <2>1, FetchesAssumption, FetchInductive
<1>3. FetchInv => OneFetchPerFrame
  <2> SUFFICES ASSUME FetchInv PROVE Fetch!OneFetchPerFrame
    BY DEF OneFetchPerFrame
  <2>1. ASSUME NEW c \in Callers, NEW d \in Callers,
               fetchPc[c] \in Fetch!Working, fetchPc[d] \in Fetch!Working, fetchFrame[c] = fetchFrame[d]
        PROVE  c = d
    <3>1. lock[c] = lock[d]
      BY <2>1 DEF FetchInv, Shared, Fetch!Inside, Fetch!Working
    <3> QED BY <2>1, <3>1 DEF FetchInv, Held
  <2>2. ASSUME NEW k \in FetchFrames, flight[k] # None
        PROVE  \E c \in Callers : fetchFrame[c] = k /\ fetchPc[c] \in Fetch!Inside
    <3>1. Cardinality(InsideOf(k)) # 0
      BY <2>2 DEF FetchInv, Fetch!TypeOK, Counted
    <3>2. InsideOf(k) # {}
      BY <3>1, FS_EmptySet
    <3> QED BY <3>2 DEF InsideOf
  <2> QED BY <2>1, <2>2 DEF Fetch!OneFetchPerFrame
<1> QED BY <1>1, <1>2, <1>3, PTL DEF MCSpec

-----------------------------------------------------------------------------
(* SoundingSession.                                                        *)

Names == {drag, edited, other} \cup {Plain}
Holding == {"checking", "asking", "drawing", "placing", "remembering", "reading", "missed"}
SessionPlaces == Holding \cup {"idle", "opening", "listing", "removing", "locking"}

SessionType ==
  /\ fresh \subseteq Soundings /\ entries \in Seq(Soundings)
  /\ renderLock \in [Soundings -> Handlers \cup {None}]
  /\ views \in [Soundings -> Seq(DOMAIN Resolved)]
  /\ images \subseteq Soundings \X Names /\ doomed \subseteq Soundings \X Names
  /\ at \in [Handlers -> SessionPlaces]
  /\ of \in [Handlers -> Soundings \cup {None}] /\ view \in [Handlers -> Names]
  /\ \A h \in Handlers : at[h] # "idle" => of[h] \in Soundings
  /\ \A h \in Handlers : at[h] \in {"placing", "remembering"} => view[h] # Plain

Listed == Session!ToSet(entries)

\* Soundings that nobody has put in the session yet: their ids are used once.
Young == fresh \cup {of[h] : h \in {g \in Handlers : at[g] = "opening"}}

Alive == Young \cup Listed

\* A sounding is young, or open, or it has been put out and does not come back.
Lives ==
  /\ Session!IsInjective(entries) /\ Young \cap Listed = {}
  /\ \A g, h \in Handlers : at[g] = "opening" /\ at[h] = "opening" /\ of[g] = of[h] => g = h
  /\ \A h \in Handlers : at[h] = "opening" => of[h] \notin fresh
  /\ \A h \in Handlers : at[h] \in Holding \cup {"locking"} => of[h] \notin Young
  /\ \A h \in Handlers : at[h] \in {"listing", "removing"} => of[h] \notin Alive
  /\ \A i \in doomed : i[1] \notin Alive
  /\ \A i \in images : i[1] \notin Young
  /\ \A s \in Young : views[s] = <<>>

\* Who is at work on the images of a sounding has its lock, and nobody else.
Locked ==
  /\ \A h \in Handlers : at[h] \in Holding => renderLock[of[h]] = h
  /\ \A s \in Soundings : renderLock[s] # None => at[renderLock[s]] \in Holding /\ of[renderLock[s]] = s

OnDisk(s) == {i \in images : i[1] = s /\ i[2] # Plain}
Known(s) == {<<s, Resolved[k]>> : k \in Session!ToSet(views[s])}
Awaited(s) ==
  {<<s, Resolved[view[h]]>> : h \in {g \in Handlers : at[g] = "remembering" /\ of[g] = s}}

\* The images of a sounding that has not been put out are those it remembers, and the
\* one that is about to be remembered.
Remembered == \A s \in Alive : OnDisk(s) = Known(s) \cup Awaited(s)

\* What a request has found stays until it is read.
Found(h) ==
  at[h] = "reading" /\ of[h] \in Alive =>
    /\ Session!Image(h) \in images
    /\ view[h] # Plain => view[h] \in Session!ToSet(views[of[h]])
FoundStays == \A h \in Handlers : Found(h) /\ (at[h] = "missed" => of[h] \notin Alive)

SessionInv == SessionType /\ Lives /\ Locked /\ Remembered /\ FoundStays

\* What the operators of sequences do to the elements of one.
LEMMA RemoveFirstSet ==
  ASSUME NEW S, NEW seq \in Seq(S), NEW x \in S
  PROVE  /\ Session!RemoveFirst(seq, x) \in Seq(S)
         /\ Session!ToSet(Session!RemoveFirst(seq, x)) \cup {x} = Session!ToSet(seq) \cup {x}
         /\ Session!IsInjective(seq) =>
              /\ Session!IsInjective(Session!RemoveFirst(seq, x))
              /\ x \notin Session!ToSet(Session!RemoveFirst(seq, x))
<1> DEFINE I == {i \in 1 .. Len(seq) : seq[i] = x}
           rest == Session!RemoveFirst(seq, x)
<1>1. CASE I = {}
  <2>1. rest = seq
    BY <1>1 DEF Session!RemoveFirst
  <2> QED BY <1>1, <2>1 DEF Session!ToSet
<1>2. CASE I # {}
  <2>1. rest = Without(seq, Session!Min(I))
    BY <1>2 DEF Session!RemoveFirst, Session!SelectInSeq, Session!RemoveAt, Without
  <2>2. Session!Min(I) \in I
    <3>1. I \subseteq Nat
      OBVIOUS
    <3> HIDE DEF I
    <3> QED BY <1>2, <3>1, LeastNumber DEF Session!Min
  <2>3. PICK i \in 1 .. Len(seq) : seq[i] = x /\ rest = Without(seq, i)
    BY <2>1, <2>2
  <2> HIDE DEF rest
  <2>4. /\ rest \in Seq(S)
        /\ Elements(rest) \cup {seq[i]} = Elements(seq)
        /\ IsInjective(seq) => IsInjective(rest) /\ seq[i] \notin Elements(rest)
    <3>1. rest = Without(seq, i)
      BY <2>3
    <3> HIDE DEF I
    <3> QED BY <3>1, WithoutOne
  <2>5. Session!IsInjective(seq) = IsInjective(seq) /\ Session!IsInjective(rest) = IsInjective(rest)
    BY DEF Session!IsInjective, IsInjective
  <2> QED BY <2>3, <2>4, <2>5 DEF Session!ToSet, Elements, rest
<1> QED BY <1>1, <1>2

LEMMA ToEndSet ==
  ASSUME NEW S, NEW seq \in Seq(S), NEW x \in S
  PROVE  /\ Session!ToEnd(seq, x) \in Seq(S)
         /\ Session!ToSet(Session!ToEnd(seq, x)) = Session!ToSet(seq) \cup {x}
         /\ Session!IsInjective(seq) => Session!IsInjective(Session!ToEnd(seq, x))
<1> DEFINE rest == Session!RemoveFirst(seq, x)
<1>1. /\ rest \in Seq(S) /\ Session!ToSet(rest) \cup {x} = Session!ToSet(seq) \cup {x}
      /\ Session!IsInjective(seq) => Session!IsInjective(rest) /\ x \notin Session!ToSet(rest)
  BY RemoveFirstSet
<1> HIDE DEF rest
<1>2. Session!ToEnd(seq, x) = Append(rest, x)
  BY DEF Session!ToEnd, rest
<1>3. /\ Append(rest, x) \in Seq(S) /\ Len(Append(rest, x)) = Len(rest) + 1
      /\ \A i \in 1 .. Len(rest) : Append(rest, x)[i] = rest[i]
      /\ Append(rest, x)[Len(rest) + 1] = x
  BY <1>1, AppendProperties
<1>4. Session!ToSet(Append(rest, x)) = Session!ToSet(rest) \cup {x}
  BY <1>1, <1>3 DEF Session!ToSet
<1>5. ASSUME Session!IsInjective(rest), x \notin Session!ToSet(rest) PROVE Session!IsInjective(Append(rest, x))
  BY <1>1, <1>3, <1>5 DEF Session!IsInjective, Session!ToSet
<1> QED BY <1>1, <1>2, <1>3, <1>4, <1>5

LEMMA ToEndTwice ==
  ASSUME NEW S, NEW seq \in Seq(S), NEW x \in S, NEW y \in S
  PROVE  /\ Session!ToEnd(Session!ToEnd(seq, x), y) \in Seq(S)
         /\ Session!ToSet(Session!ToEnd(Session!ToEnd(seq, x), y)) = Session!ToSet(seq) \cup {x, y}
<1> DEFINE first == Session!ToEnd(seq, x)
<1>1. first \in Seq(S) /\ Session!ToSet(first) = Session!ToSet(seq) \cup {x}
  BY ToEndSet
<1> HIDE DEF first
<1>2. /\ Session!ToEnd(first, y) \in Seq(S)
      /\ Session!ToSet(Session!ToEnd(first, y)) = Session!ToSet(first) \cup {y}
  <2>1. first \in Seq(S)
    BY <1>1
  <2> QED BY <2>1, ToEndSet
<1> QED BY <1>1, <1>2 DEF first

LEMMA TailSet ==
  ASSUME NEW S, NEW seq \in Seq(S), seq # <<>>
  PROVE  /\ Head(seq) \in Session!ToSet(seq) /\ Session!ToSet(Tail(seq)) \subseteq Session!ToSet(seq)
         /\ Session!IsInjective(seq) =>
              /\ Session!ToSet(Tail(seq)) = Session!ToSet(seq) \ {Head(seq)}
              /\ Session!IsInjective(Tail(seq))
<1>1. /\ Tail(seq) \in Seq(S) /\ Len(Tail(seq)) = Len(seq) - 1 /\ Len(seq) \in Nat \ {0}
      /\ \A i \in 1 .. Len(Tail(seq)) : Tail(seq)[i] = seq[i + 1]
      /\ Head(seq) = seq[1]
  BY HeadTailProperties
<1>2. DOMAIN seq = 1 .. Len(seq) /\ DOMAIN Tail(seq) = 1 .. Len(seq) - 1
  BY <1>1
<1>3. Session!IsInjective(seq) => \A i, j \in 1 .. Len(seq) : seq[i] = seq[j] => i = j
  BY <1>2 DEF Session!IsInjective
<1>4. Session!IsInjective(seq) => Session!IsInjective(Tail(seq))
  BY <1>1, <1>2, <1>3 DEF Session!IsInjective
<1>5. Head(seq) \in Session!ToSet(seq)
  BY <1>1, <1>2 DEF Session!ToSet
<1>6. ASSUME NEW x \in Session!ToSet(Tail(seq)) PROVE x \in Session!ToSet(seq) /\ (Session!IsInjective(seq) => x # Head(seq))
  <2>1. PICK i \in 1 .. Len(seq) - 1 : x = Tail(seq)[i]
    BY <1>2 DEF Session!ToSet
  <2>2. i + 1 \in 1 .. Len(seq) /\ x = seq[i + 1] /\ i + 1 # 1
    BY <1>1, <2>1
  <2> QED BY <1>1, <1>2, <1>3, <2>2 DEF Session!ToSet
<1>7. ASSUME NEW x \in Session!ToSet(seq), x # Head(seq) PROVE x \in Session!ToSet(Tail(seq))
  <2>1. PICK i \in 1 .. Len(seq) : x = seq[i]
    BY <1>2 DEF Session!ToSet
  <2>2. i - 1 \in 1 .. Len(seq) - 1 /\ Tail(seq)[i - 1] = x
    BY <1>1, <1>7, <2>1
  <2> QED BY <1>2, <2>2 DEF Session!ToSet
<1> QED BY <1>4, <1>5, <1>6, <1>7

LEMMA SplitSet ==
  ASSUME NEW S, NEW seq \in Seq(S), NEW n \in 0 .. Len(seq)
  PROVE  Session!ToSet(seq) = Session!ToSet(SubSeq(seq, 1, n)) \cup Session!ToSet(SubSeq(seq, n + 1, Len(seq)))
<1> DEFINE a == SubSeq(seq, 1, n)
           b == SubSeq(seq, n + 1, Len(seq))
<1>1. /\ a \in Seq(S) /\ Len(a) = n /\ \A j \in 1 .. n : a[j] = seq[j]
      /\ b \in Seq(S) /\ Len(b) = Len(seq) - n
      /\ \A j \in 1 .. Len(seq) - n : b[j] = seq[j + n]
      /\ Len(seq) \in Nat
  OBVIOUS
<1> HIDE DEF a, b
<1>2. DOMAIN seq = 1 .. Len(seq) /\ DOMAIN a = 1 .. n /\ DOMAIN b = 1 .. Len(seq) - n
  BY <1>1
<1>3. ASSUME NEW i \in 1 .. Len(seq) PROVE seq[i] \in Session!ToSet(a) \cup Session!ToSet(b)
  <2>1. CASE i =< n
    BY <1>1, <1>2, <2>1 DEF Session!ToSet
  <2>2. CASE ~(i =< n)
    <3>1. i - n \in 1 .. Len(seq) - n /\ i - n + n = i
      BY <1>1, <2>2
    <3> QED BY <1>1, <1>2, <3>1 DEF Session!ToSet
  <2> QED BY <2>1, <2>2
<1>4. \A j \in 1 .. n : j \in 1 .. Len(seq)
  BY <1>1
<1>5. \A j \in 1 .. Len(seq) - n : j + n \in 1 .. Len(seq)
  BY <1>1
<1>6. Session!ToSet(a) \subseteq Session!ToSet(seq)
  BY <1>1, <1>2, <1>4 DEF Session!ToSet
<1>7. Session!ToSet(b) \subseteq Session!ToSet(seq)
  <2>1. \A j \in 1 .. Len(seq) - n : \E i \in 1 .. Len(seq) : b[j] = seq[i]
    BY <1>1, <1>5
  <2> QED BY <1>2, <2>1 DEF Session!ToSet
<1> QED BY <1>2, <1>3, <1>6, <1>7 DEF Session!ToSet, a, b

-----------------------------------------------------------------------------
LEMMA ResolvedKeys ==
  /\ Resolved \in [DOMAIN Resolved -> DOMAIN Resolved]
  /\ \A k \in DOMAIN Resolved : Resolved[Resolved[k]] = Resolved[k]
  /\ DOMAIN Resolved = {drag, edited, other} /\ Plain \notin DOMAIN Resolved
BY SessionsAssumption DEF Resolved, Session!SessionAssumption

LEMMA SessionTypeStep ==
  ASSUME SessionType, Locked, Session!Next
  PROVE  SessionType'
<1> PICK h \in Handlers : Session!Open(h) \/ Session!Draw(h)
  BY DEF Session!Next
<1> USE DEF SessionType, SessionPlaces, Holding, Session!Goto, Session!End, Names
<1>a. None \notin Handlers
  BY SessionsAssumption DEF Session!SessionAssumption
<1>1. ASSUME NEW s \in Soundings, Session!Write(h, s) PROVE SessionType'
  BY <1>1 DEF Session!Write
<1>2. CASE Session!Abandon(h)
  BY <1>2 DEF Session!Abandon
<1>3. CASE Session!Register(h)
  <2> DEFINE all == Append(entries, of[h])
  <2>0. of[h] \in Soundings /\ entries \in Seq(Soundings)
    BY <1>3 DEF Session!Register
  <2>1. all \in Seq(Soundings) /\ all # <<>>
    BY <2>0, AppendProperties
  <2>2. Head(all) \in Soundings /\ Tail(all) \in Seq(Soundings)
    BY <2>1, HeadTailProperties
  <2> HIDE DEF all
  <2>3. /\ entries' \in {all, Tail(all)}
        /\ \/ of' = [of EXCEPT ![h] = None] /\ at' = [at EXCEPT ![h] = "idle"]
           \/ of' = [of EXCEPT ![h] = Head(all)] /\ at' = [at EXCEPT ![h] = "listing"]
    BY <1>3 DEF Session!Register, all
  <2> QED BY <1>3, <2>1, <2>2, <2>3 DEF Session!Register
<1>4. CASE Session!List(h)
  BY <1>4 DEF Session!List
<1>5. CASE Session!RemoveImage(h)
  BY <1>5 DEF Session!RemoveImage
<1>6. CASE Session!Added(h)
  BY <1>6 DEF Session!Added
<1>7. ASSUME NEW s \in Soundings, NEW k \in DOMAIN Resolved \cup {Plain}, Session!Get(h, s, k) PROVE SessionType'
  BY <1>7, ToEndSet, ResolvedKeys DEF Session!Get
<1>8. CASE Session!Lock(h)
  BY <1>8 DEF Session!Lock
<1>9. CASE Session!Check(h)
  BY <1>9 DEF Session!Check
<1>10. CASE Session!AskWorker(h)
  BY <1>10 DEF Session!AskWorker
<1>11. CASE Session!NoData(h)
  BY <1>11 DEF Session!NoData
<1>b. ASSUME at[h] # "idle" PROVE Session!Image(h) \in Soundings \X Names
  BY <1>b, ResolvedKeys DEF Session!Image, Session!Name
<1>12. CASE Session!Drawn(h)
  BY <1>12, <1>b DEF Session!Drawn
<1>13. CASE Session!DrawFails(h)
  BY <1>13, <1>b DEF Session!DrawFails
<1>14. CASE Session!Place(h)
  BY <1>14, <1>b DEF Session!Place
<1>15. CASE Session!Refuse(h)
  BY <1>15 DEF Session!Refuse
<1>16. CASE Session!Remember(h)
  <2> DEFINE recent == Session!Recent(h)
             kept == SubSeq(recent, Session!Surplus(recent) + 1, Len(recent))
  <2>1. /\ of[h] \in Soundings /\ view[h] \in DOMAIN Resolved
        /\ views[of[h]] \in Seq(DOMAIN Resolved) /\ Resolved[view[h]] \in DOMAIN Resolved
    BY <1>16, ResolvedKeys DEF Session!Remember
  <2>2. recent \in Seq(DOMAIN Resolved)
    BY <2>1, ToEndSet DEF Session!Recent
  <2> HIDE DEF recent
  <2>3. kept \in Seq(DOMAIN Resolved)
    BY <2>2, SessionsAssumption DEF Session!Surplus, Session!SessionAssumption
  <2>4. views' = [views EXCEPT ![of[h]] = kept] /\ images' \subseteq images
    BY <1>16 DEF Session!Remember, recent
  <2> HIDE DEF kept
  <2>5. views' \in [Soundings -> Seq(DOMAIN Resolved)] /\ images' \subseteq Soundings \X Names
    BY <2>1, <2>3, <2>4
  <2> QED BY <1>16, <2>5 DEF Session!Remember
<1>17. CASE Session!Read(h)
  <2>1. CASE view[h] = Plain
    BY <1>17, <2>1 DEF Session!Read
  <2>2. CASE view[h] # Plain
    <3>1. Session!ToEnd(views[of[h]], view[h]) \in Seq(DOMAIN Resolved)
      BY <1>17, <2>2, ToEndSet, ResolvedKeys DEF Session!Read
    <3> QED BY <1>17, <2>2, <3>1 DEF Session!Read
  <2> QED BY <2>1, <2>2
<1>18. CASE Session!Miss(h)
  BY <1>18 DEF Session!Miss
<1>19. CASE Session!Raise(h)
  BY <1>19 DEF Session!Raise
<1> QED BY <1>1, <1>2, <1>3, <1>4, <1>5, <1>6, <1>7, <1>8, <1>9, <1>10, <1>11, <1>12, <1>13,
           <1>14,
           <1>15, <1>16, <1>17, <1>18, <1>19 DEF Session!Open, Session!Draw

\* Steps that neither open a sounding nor put one out.
LEMMA LivesKept ==
  ASSUME SessionType, Lives, NEW h \in Handlers,
         UNCHANGED <<fresh, doomed>>, Listed' = Listed, Session!IsInjective(entries'),
         \A g \in Handlers \ {h} : at'[g] = at[g] /\ of'[g] = of[g],
         at[h] # "opening", at'[h] \notin {"opening", "listing", "removing"},
         at'[h] \in Holding \cup {"locking"} => of'[h] \notin Young,
         \A i \in images' : i \in images \/ (i[1] = of[h] /\ of[h] \notin Young),
         \A s \in Soundings : views'[s] = views[s] \/ s \notin Young
  PROVE  Lives'
<1>1. Young' = Young
  BY DEF Young
<1>2. Young \subseteq Soundings
  BY DEF Young, SessionType
<1> QED BY <1>1, <1>2 DEF Lives, Alive

LEMMA LivesStep ==
  ASSUME SessionType, Lives, Session!Next
  PROVE  Lives'
<1> PICK h \in Handlers : Session!Open(h) \/ Session!Draw(h)
  BY DEF Session!Next
<1> USE DEF Session!Goto, Session!End
<1>t. /\ at \in [Handlers -> SessionPlaces] /\ of \in [Handlers -> Soundings \cup {None}]
      /\ renderLock \in [Soundings -> Handlers \cup {None}] /\ fresh \subseteq Soundings
      /\ views \in [Soundings -> Seq(DOMAIN Resolved)] /\ entries \in Seq(Soundings)
      /\ at[h] # "idle" => of[h] \in Soundings
  BY DEF SessionType
<1>1. ASSUME NEW s \in Soundings, Session!Write(h, s) PROVE Lives'
  <2>1. Young' = Young
    BY <1>1, <1>t DEF Session!Write, Young
  <2>2. /\ UNCHANGED <<entries, doomed, images, views>> /\ Listed' = Listed
        /\ \A g \in Handlers \ {h} : at'[g] = at[g] /\ of'[g] = of[g]
        /\ at'[h] = "opening" /\ of'[h] = s /\ s \in fresh /\ fresh' = fresh \ {s}
    BY <1>1, <1>t DEF Session!Write, Listed
  <2> QED BY <2>1, <2>2 DEF Lives, Alive, Holding
<1>2. CASE Session!Abandon(h)
  <2>1. /\ UNCHANGED <<fresh, entries, doomed, images, views>> /\ Listed' = Listed
        /\ \A g \in Handlers \ {h} : at'[g] = at[g] /\ of'[g] = of[g]
        /\ at'[h] = "idle"
    BY <1>2, <1>t DEF Session!Abandon, Listed
  <2>2. Young' \subseteq Young
    BY <2>1 DEF Young
  <2> QED BY <2>1, <2>2 DEF Lives, Alive, Holding
<1>3. CASE Session!Register(h)
  <2> DEFINE all == Append(entries, of[h])
  <2>1. /\ of[h] \in Soundings /\ at[h] = "opening" /\ of[h] \in Young
        /\ of[h] \notin Listed /\ Session!IsInjective(entries)
    BY <1>3, <1>t DEF Session!Register, Lives, Young
  <2>2. /\ all \in Seq(Soundings) /\ all # <<>> /\ Len(all) = Len(entries) + 1
        /\ \A i \in 1 .. Len(entries) : all[i] = entries[i]
        /\ all[Len(entries) + 1] = of[h]
    BY <1>t, <2>1, AppendProperties
  <2> HIDE DEF all
  <2>3. Session!ToSet(all) = Listed \cup {of[h]} /\ Session!IsInjective(all)
    <3>1. DOMAIN entries = 1 .. Len(entries) /\ DOMAIN all = 1 .. Len(entries) + 1
      BY <1>t, <2>2
    <3>2. \A i \in 1 .. Len(entries) : entries[i] # of[h]
      BY <2>1, <3>1 DEF Listed, Session!ToSet
    <3>0. Len(entries) \in Nat
      BY <1>t
    <3>3. Session!ToSet(all) = Listed \cup {of[h]}
      <4>1. \A i \in 1 .. Len(entries) + 1 : i \in 1 .. Len(entries) \/ i = Len(entries) + 1
        BY <3>0
      <4>2. 1 .. Len(entries) \subseteq 1 .. Len(entries) + 1 /\ Len(entries) + 1 \in 1 .. Len(entries) + 1
        BY <3>0
      <4> QED BY <2>2, <3>1, <4>1, <4>2 DEF Listed, Session!ToSet
    <3>4. \A i, j \in 1 .. Len(entries) : entries[i] = entries[j] => i = j
      BY <2>1, <3>1 DEF Session!IsInjective
    <3>5. \A i, j \in 1 .. Len(entries) + 1 : all[i] = all[j] => i = j
      <4>1. \A i \in 1 .. Len(entries) + 1 : i \in 1 .. Len(entries) \/ i = Len(entries) + 1
        BY <3>0
      <4> QED BY <2>2, <3>2, <3>4, <4>1
    <3> QED BY <3>1, <3>3, <3>5 DEF Session!IsInjective
  <2>4. /\ Session!ToSet(Tail(all)) = Session!ToSet(all) \ {Head(all)} /\ Session!IsInjective(Tail(all))
        /\ Head(all) \in Session!ToSet(all)
    BY <2>2, <2>3, TailSet
  <2>5. /\ UNCHANGED <<fresh, doomed, images, views>>
        /\ \A g \in Handlers \ {h} : at'[g] = at[g] /\ of'[g] = of[g]
    BY <1>3, <1>t DEF Session!Register
  <2>6. /\ Young' = Young \ {of[h]}
    <3>1. at'[h] # "opening"
      BY <1>3, <1>t DEF Session!Register
    <3>2. \A g \in Handlers : at[g] = "opening" /\ of[g] = of[h] => g = h
      BY <2>1 DEF Lives, Alive
    <3>3. of[h] \notin fresh
      BY <2>1 DEF Lives, Alive
    <3> QED BY <2>1, <2>5, <3>1, <3>2, <3>3 DEF Young
  <2>7. CASE entries' = all /\ of'[h] = None /\ at'[h] = "idle"
    <3>1. Listed' = Listed \cup {of[h]} /\ Session!IsInjective(entries')
      BY <2>3, <2>7 DEF Listed
    <3>2. \A g \in Handlers : at[g] \in {"listing", "removing"} => of[g] # of[h]
      BY <2>1 DEF Lives, Alive
    <3>3. \A i \in doomed : i[1] # of[h]
      BY <2>1 DEF Lives, Alive
    <3> QED BY <2>5, <2>6, <2>7, <3>1, <3>2, <3>3 DEF Lives, Alive, Holding
  <2>8. CASE entries' = Tail(all) /\ of'[h] = Head(all) /\ at'[h] = "listing"
    <3>1. Listed' = (Listed \cup {of[h]}) \ {Head(all)} /\ Session!IsInjective(entries')
      BY <2>3, <2>4, <2>8 DEF Listed
    <3>2. \A g \in Handlers : at[g] \in {"listing", "removing"} => of[g] # of[h]
      BY <2>1 DEF Lives, Alive
    <3>3. \A i \in doomed : i[1] # of[h]
      BY <2>1 DEF Lives, Alive
    <3>4. Head(all) \notin Young'
      BY <2>3, <2>4, <2>6 DEF Lives
    <3> QED BY <2>5, <2>6, <2>8, <3>1, <3>2, <3>3, <3>4 DEF Lives, Alive, Holding
  <2> QED BY <1>3, <1>t, <2>7, <2>8 DEF Session!Register, all
<1>4. CASE Session!List(h)
  <2>1. /\ UNCHANGED <<fresh, entries, of, images, views>> /\ Listed' = Listed
        /\ \A g \in Handlers \ {h} : at'[g] = at[g]
        /\ at[h] = "listing" /\ at'[h] = "removing" /\ \A i \in doomed' : i[1] = of[h]
    BY <1>4, <1>t DEF Session!List, Listed
  <2>2. Young' = Young
    BY <2>1 DEF Young
  <2> QED BY <2>1, <2>2 DEF Lives, Alive, Holding
<1>5. CASE Session!RemoveImage(h)
  <2>1. /\ UNCHANGED <<fresh, entries, of, at, views>> /\ Listed' = Listed
        /\ doomed' \subseteq doomed /\ images' \subseteq images
    BY <1>5 DEF Session!RemoveImage, Listed
  <2>2. Young' = Young
    BY <2>1 DEF Young
  <2> QED BY <2>1, <2>2 DEF Lives, Alive
<1>6. CASE Session!Added(h)
  <2>1. /\ UNCHANGED <<fresh, entries, doomed, images, views>> /\ Listed' = Listed
        /\ \A g \in Handlers \ {h} : at'[g] = at[g] /\ of'[g] = of[g]
        /\ at[h] = "removing" /\ at'[h] = "idle"
    BY <1>6, <1>t DEF Session!Added, Listed
  <2>2. Young' = Young
    BY <2>1 DEF Young
  <2> QED BY <2>1, <2>2 DEF Lives, Alive, Holding
<1>7. ASSUME NEW s \in Soundings, NEW k \in DOMAIN Resolved \cup {Plain}, Session!Get(h, s, k) PROVE Lives'
  <2>1. /\ UNCHANGED <<fresh, doomed, images, views>>
        /\ \A g \in Handlers \ {h} : at'[g] = at[g] /\ of'[g] = of[g]
        /\ at[h] = "idle" /\ at'[h] = "locking" /\ of'[h] = s /\ s \in Listed
        /\ entries' = Session!ToEnd(entries, s)
    BY <1>7, <1>t DEF Session!Get, Listed
  <2>2. Listed' = Listed /\ Session!IsInjective(entries')
    <3>1. /\ Session!ToSet(Session!ToEnd(entries, s)) = Session!ToSet(entries) \cup {s}
          /\ Session!IsInjective(entries) => Session!IsInjective(Session!ToEnd(entries, s))
      BY <1>t, ToEndSet
    <3> QED BY <2>1, <3>1 DEF Lives, Listed
  <2>3. s \notin Young
    BY <2>1 DEF Lives, Alive
  <2> QED BY <2>1, <2>2, <2>3, LivesKept
<1>8. ASSUME UNCHANGED <<fresh, entries, doomed>>, at[h] \in Holding \cup {"locking"},
             \A g \in Handlers \ {h} : at'[g] = at[g] /\ of'[g] = of[g],
             (at'[h] \in Holding /\ of'[h] = of[h]) \/ at'[h] = "idle",
             \A i \in images' : i \in images \/ i[1] = of[h],
             \A s \in Soundings \ {of[h]} : views'[s] = views[s]
      PROVE  Lives'
  <2>1. of[h] \notin Young /\ Listed' = Listed /\ Session!IsInjective(entries')
    BY <1>8 DEF Lives, Listed
  <2>2. /\ at[h] # "opening" /\ at'[h] \notin {"opening", "listing", "removing"}
        /\ at'[h] \in Holding \cup {"locking"} => of'[h] \notin Young
    BY <1>8, <2>1 DEF Holding
  <2> QED BY <1>8, <2>1, <2>2, LivesKept
<1>9. CASE Session!Draw(h) /\ ~\E s \in Soundings, k \in DOMAIN Resolved \cup {Plain} : Session!Get(h, s, k)
  <2> USE DEF Holding, Session!Image
  <2>1. CASE Session!Lock(h) \/ Session!Check(h) \/ Session!AskWorker(h) \/ Session!Miss(h)
    BY <1>8, <1>t, <2>1 DEF Session!Lock, Session!Check, Session!AskWorker, Session!Miss
  <2>2. CASE Session!NoData(h) \/ Session!Refuse(h) \/ Session!Raise(h)
    BY <1>8, <1>t, <2>2 DEF Session!NoData, Session!Refuse, Session!Raise
  <2>3. CASE Session!Drawn(h)
    BY <1>8, <1>t, <2>3 DEF Session!Drawn
  <2>4. CASE Session!DrawFails(h)
    BY <1>8, <1>t, <2>4 DEF Session!DrawFails
  <2>5. CASE Session!Place(h)
    BY <1>8, <1>t, <2>5 DEF Session!Place
  <2>6. CASE Session!Remember(h)
    BY <1>8, <1>t, <2>6 DEF Session!Remember
  <2>7. CASE Session!Read(h)
    BY <1>8, <1>t, <2>7 DEF Session!Read
  <2> QED BY <1>9, <2>1, <2>2, <2>3, <2>4, <2>5, <2>6, <2>7 DEF Session!Draw
<1> QED BY <1>1, <1>2, <1>3, <1>4, <1>5, <1>6, <1>7, <1>9 DEF Session!Open

LEMMA LockedStep ==
  ASSUME SessionType, Locked, Session!Next
  PROVE  Locked'
<1> PICK h \in Handlers : Session!Open(h) \/ Session!Draw(h)
  BY DEF Session!Next
<1> USE DEF Session!Goto, Session!End, Holding
<1>t. /\ at \in [Handlers -> SessionPlaces] /\ of \in [Handlers -> Soundings \cup {None}]
      /\ renderLock \in [Soundings -> Handlers \cup {None}]
      /\ \A g \in Handlers : at[g] # "idle" => of[g] \in Soundings
      /\ None \notin Handlers
  BY SessionsAssumption DEF SessionType, Session!SessionAssumption
\* What the step does to one handler and to the lock of its sounding.
<1>1. ASSUME UNCHANGED renderLock, \A g \in Handlers \ {h} : at'[g] = at[g] /\ of'[g] = of[g],
             \/ at[h] \notin Holding /\ at'[h] \notin Holding
             \/ at[h] \in Holding /\ at'[h] \in Holding /\ of'[h] = of[h]
      PROVE  Locked'
  BY <1>1, <1>t DEF Locked
<1>2. CASE Session!Open(h)
  <2>1. UNCHANGED <<renderLock>> /\ at[h] \notin Holding /\ at'[h] \notin Holding
        /\ \A g \in Handlers \ {h} : at'[g] = at[g] /\ of'[g] = of[g]
    BY <1>2, <1>t DEF Session!Open, Session!Write, Session!Abandon, Session!Register,
           Session!List,
      Session!RemoveImage, Session!Added
  <2> QED BY <1>1, <2>1
<1>3. ASSUME NEW s \in Soundings, NEW k \in DOMAIN Resolved \cup {Plain}, Session!Get(h, s, k) PROVE Locked'
  <2>1. UNCHANGED <<renderLock>> /\ at[h] \notin Holding /\ at'[h] \notin Holding
        /\ \A g \in Handlers \ {h} : at'[g] = at[g] /\ of'[g] = of[g]
    BY <1>3, <1>t DEF Session!Get
  <2> QED BY <1>1, <2>1
<1>4. CASE Session!Lock(h)
  BY <1>4, <1>t DEF Session!Lock, Locked
<1>5. ASSUME at[h] \in Holding, renderLock' = [renderLock EXCEPT ![of[h]] = None],
             of' = [of EXCEPT ![h] = None], at' = [at EXCEPT ![h] = "idle"]
      PROVE  Locked'
  <2>1. of[h] \in Soundings /\ renderLock[of[h]] = h
    BY <1>5, <1>t DEF Locked
  <2>2. \A g \in Handlers \ {h} : at[g] \in Holding => of[g] # of[h]
    BY <1>5, <2>1 DEF Locked
  <2>3. \A s \in Soundings \ {of[h]} : renderLock[s] # h
    BY <1>t, <2>1 DEF Locked
  <2>4. at'[h] = "idle" /\ \A g \in Handlers \ {h} : at'[g] = at[g] /\ of'[g] = of[g]
    BY <1>5, <1>t
  <2>5. renderLock'[of[h]] = None /\ \A s \in Soundings \ {of[h]} : renderLock'[s] = renderLock[s]
    BY <1>5, <1>t, <2>1
  <2>6. ASSUME NEW g \in Handlers, at'[g] \in Holding PROVE renderLock'[of'[g]] = g
    <3>1. g # h /\ at[g] \in Holding /\ of'[g] = of[g]
      BY <2>4, <2>6
    <3> QED BY <1>t, <2>2, <2>5, <3>1 DEF Locked
  <2>7. ASSUME NEW s \in Soundings, renderLock'[s] # None
        PROVE  at'[renderLock'[s]] \in Holding /\ of'[renderLock'[s]] = s
    <3>1. s # of[h] /\ renderLock'[s] = renderLock[s] /\ renderLock[s] \in Handlers \ {h}
      BY <1>t, <2>3, <2>5, <2>7
    <3> QED BY <2>4, <2>7, <3>1 DEF Locked
  <2> QED BY <2>6, <2>7 DEF Locked
<1>6. CASE Session!Check(h) \/ Session!AskWorker(h) \/ Session!Drawn(h) \/ Session!Place(h) \/ Session!Miss(h)
  <2>1. UNCHANGED <<renderLock>> /\ UNCHANGED <<of>> /\ at[h] \in Holding /\ at'[h] \in Holding
        /\ \A g \in Handlers \ {h} : at'[g] = at[g]
    BY <1>6, <1>t DEF Session!Check, Session!AskWorker, Session!Drawn, Session!Place,
           Session!Miss
  <2> QED BY <1>1, <2>1
<1>7. CASE Session!NoData(h) \/ Session!DrawFails(h) \/ Session!Refuse(h) \/ Session!Remember(h)
           \/ Session!Read(h) \/ Session!Raise(h)
  BY <1>5, <1>7 DEF Session!NoData, Session!DrawFails, Session!Refuse, Session!Remember,
         Session!Read, Session!Raise
<1> QED BY <1>2, <1>3, <1>4, <1>6, <1>7 DEF Session!Draw

\* Nobody becomes young, and who is put in the session has been.
LEMMA AliveShrinks ==
  ASSUME SessionType, Session!Next
  PROVE  Alive' \subseteq Alive
<1> PICK h \in Handlers : Session!Open(h) \/ Session!Draw(h)
  BY DEF Session!Next
<1> USE DEF Session!Goto, Session!End
<1>t. /\ at \in [Handlers -> SessionPlaces] /\ of \in [Handlers -> Soundings \cup {None}]
      /\ entries \in Seq(Soundings)
      /\ at[h] # "idle" => of[h] \in Soundings
  BY DEF SessionType
<1>1. ASSUME Listed' \subseteq Listed, fresh' \subseteq fresh, at'[h] # "opening",
             \A g \in Handlers \ {h} : at'[g] = at[g] /\ of'[g] = of[g]
      PROVE  Alive' \subseteq Alive
  BY <1>1 DEF Alive, Young
<1>2. ASSUME NEW s \in Soundings, Session!Write(h, s) PROVE Alive' \subseteq Alive
  BY <1>2, <1>t DEF Session!Write, Alive, Young, Listed
<1>3. CASE Session!Abandon(h) \/ Session!List(h) \/ Session!Added(h)
  BY <1>1, <1>3, <1>t DEF Session!Abandon, Session!List, Session!Added, Listed
<1>4. CASE Session!RemoveImage(h)
  BY <1>4 DEF Session!RemoveImage, Alive, Young, Listed
<1>5. CASE Session!Register(h)
  <2> DEFINE all == Append(entries, of[h])
  <2>1. of[h] \in Young /\ of[h] \in Soundings
    BY <1>5, <1>t DEF Session!Register, Young
  <2>2. /\ all \in Seq(Soundings) /\ all # <<>> /\ Len(all) = Len(entries) + 1
        /\ \A i \in 1 .. Len(entries) : all[i] = entries[i]
        /\ all[Len(entries) + 1] = of[h]
    BY <1>t, <2>1, AppendProperties
  <2> HIDE DEF all
  <2>3. Session!ToSet(all) = Listed \cup {of[h]}
    <3>0. Len(entries) \in Nat
      BY <1>t
    <3>1. DOMAIN entries = 1 .. Len(entries) /\ DOMAIN all = 1 .. Len(entries) + 1
      BY <1>t, <2>2
    <3>2. \A i \in 1 .. Len(entries) + 1 : i \in 1 .. Len(entries) \/ i = Len(entries) + 1
      BY <3>0
    <3>3. 1 .. Len(entries) \subseteq 1 .. Len(entries) + 1 /\ Len(entries) + 1 \in 1 .. Len(entries) + 1
      BY <3>0
    <3> QED BY <2>2, <3>1, <3>2, <3>3 DEF Listed, Session!ToSet
  <2>4. Session!ToSet(Tail(all)) \subseteq Session!ToSet(all)
    BY <2>2, TailSet
  <2>5. entries' \in {all, Tail(all)}
    BY <1>5 DEF Session!Register, all
  <2>6. Listed' \subseteq Listed \cup {of[h]}
    BY <2>3, <2>4, <2>5 DEF Listed
  <2>7. /\ fresh' = fresh /\ at'[h] # "opening"
        /\ \A g \in Handlers \ {h} : at'[g] = at[g] /\ of'[g] = of[g]
    BY <1>5, <1>t DEF Session!Register
  <2> QED BY <2>1, <2>6, <2>7 DEF Alive, Young
<1>6. ASSUME NEW s \in Soundings, NEW k \in DOMAIN Resolved \cup {Plain}, Session!Get(h, s, k) PROVE Alive' \subseteq Alive
  <2>1. Session!ToSet(Session!ToEnd(entries, s)) = Session!ToSet(entries) \cup {s}
    BY <1>t, ToEndSet
  <2>2. Listed' = Listed
    BY <1>6, <2>1 DEF Session!Get, Listed
  <2> QED BY <1>1, <1>6, <1>t, <2>2 DEF Session!Get
<1>7. CASE Session!Lock(h) \/ Session!Check(h) \/ Session!AskWorker(h) \/ Session!Drawn(h) \/ Session!Place(h) \/ Session!Miss(h)
  BY <1>1, <1>7, <1>t DEF Session!Lock, Session!Check, Session!AskWorker, Session!Drawn,
         Session!Place, Session!Miss, Listed
<1>8. CASE Session!NoData(h) \/ Session!DrawFails(h) \/ Session!Refuse(h) \/ Session!Remember(h)
           \/ Session!Read(h) \/ Session!Raise(h)
  BY <1>1, <1>8, <1>t DEF Session!NoData, Session!DrawFails, Session!Refuse,
         Session!Remember, Session!Read,
    Session!Raise, Listed
<1> QED BY <1>2, <1>3, <1>4, <1>5, <1>6, <1>7, <1>8 DEF Session!Open, Session!Draw

\* Steps that leave the views of soundings and their images as they are.
LEMMA RememberedKept ==
  ASSUME Remembered, FoundStays, NEW h \in Handlers, Alive' \subseteq Alive,
         \A g \in Handlers \ {h} : at'[g] = at[g] /\ of'[g] = of[g] /\ view'[g] = view[g],
         at[h] # "remembering", at'[h] # "remembering",
         \A i \in images : i[1] \in Alive' => i \in images',
         \A i \in images' : i \in images \/ i[2] = Plain,
         \A s \in Alive' : Session!ToSet(views'[s]) = Session!ToSet(views[s]),
         Found(h)', at'[h] = "missed" => of'[h] \notin Alive'
  PROVE  Remembered' /\ FoundStays'
<1>1. \A s \in Alive' : Awaited(s)' = Awaited(s)
  BY DEF Awaited
<1>2. \A s \in Alive' : Known(s)' = Known(s)
  BY DEF Known
<1>3. \A s \in Alive' : OnDisk(s)' = OnDisk(s)
  BY DEF OnDisk
<1>4. Remembered'
  BY <1>1, <1>2, <1>3 DEF Remembered
<1>5. ASSUME NEW g \in Handlers \ {h}, at'[g] = "reading", of'[g] \in Alive'
      PROVE  Session!Image(g)' \in images' /\ (view'[g] # Plain => view'[g] \in Session!ToSet(views'[of'[g]]))
  <2>1. /\ Session!Image(g) \in images /\ of[g] \in Alive' /\ of'[g] = of[g] /\ view'[g] = view[g]
        /\ view[g] # Plain => view[g] \in Session!ToSet(views[of[g]])
    BY <1>5 DEF FoundStays, Found
  <2>2. Session!Image(g)' = Session!Image(g) /\ Session!Image(g)[1] = of[g]
    BY <2>1 DEF Session!Image, Session!Name
  <2> QED BY <2>1, <2>2
<1>6. \A g \in Handlers \ {h} : at'[g] = "missed" => of'[g] \notin Alive'
  BY DEF FoundStays
<1>7. \A g \in Handlers \ {h} : Found(g)'
  BY <1>5 DEF Found
<1> QED BY <1>4, <1>6, <1>7 DEF FoundStays

LEMMA AliveType == SessionType => Alive \subseteq Soundings
<1> SUFFICES ASSUME SessionType PROVE Young \subseteq Soundings /\ Listed \subseteq Soundings
  BY DEF Alive
<1>1. Young \subseteq Soundings
  BY DEF SessionType, Young
<1>2. Listed \subseteq Soundings
  BY DEF SessionType, Listed, Session!ToSet
<1> QED BY <1>1, <1>2

LEMMA RememberStep ==
  ASSUME SessionType, Lives, Locked, Remembered, FoundStays, Alive' \subseteq Alive,
         NEW h \in Handlers, Session!Place(h) \/ Session!Remember(h)
  PROVE  Remembered' /\ FoundStays'
<1> USE DEF Session!Goto, Session!End
\* Both as they are before the step.
<1> PICK s, path : s = of[h] /\ path = <<of[h], Resolved[view[h]]>>
  OBVIOUS
<1>t. /\ at \in [Handlers -> SessionPlaces] /\ of \in [Handlers -> Soundings \cup {None}]
      /\ view \in [Handlers -> Names] /\ views \in [Soundings -> Seq(DOMAIN Resolved)]
      /\ s \in Soundings /\ at[h] \in {"placing", "remembering"} /\ view[h] # Plain
      /\ view[h] \in DOMAIN Resolved /\ Resolved[view[h]] \in DOMAIN Resolved /\ Resolved[view[h]] # Plain
      /\ Session!Image(h) = path
  BY ResolvedKeys DEF SessionType, Session!Place, Session!Remember, Names, Session!Image,
         Session!Name
<1>1. \A g \in Handlers \ {h} : at[g] \in Holding => of[g] # s
  BY <1>t DEF Locked, Holding
<1>2. \A g \in Handlers \ {h} : at'[g] = at[g] /\ of'[g] = of[g] /\ view'[g] = view[g]
  BY <1>t DEF Session!Place, Session!Remember
<1>3. at'[h] \in {"remembering", "idle"}
  BY <1>t DEF Session!Place, Session!Remember
<1>4. \A i \in Soundings \X Names : i[1] # s => (i \in images' <=> i \in images)
  BY <1>t DEF Session!Place, Session!Remember
<1>5. \A x \in Soundings \ {s} : views'[x] = views[x]
  BY <1>t DEF Session!Place, Session!Remember
<1>6. images \subseteq Soundings \X Names /\ images' \subseteq Soundings \X Names
  BY <1>t, ResolvedKeys DEF SessionType, Session!Place, Session!Remember, Names
<1>7. ASSUME NEW x \in Alive' \ {s} PROVE OnDisk(x)' = Known(x)' \cup Awaited(x)'
  <2>1. x \in Soundings /\ x \in Alive
    BY <1>7, AliveType
  <2>2. OnDisk(x)' = OnDisk(x)
    BY <1>4, <1>6, <1>7 DEF OnDisk
  <2>3. Known(x)' = Known(x)
    BY <1>5, <1>7, <2>1 DEF Known
  <2>4. Awaited(x)' = Awaited(x)
    <3>1. at[h] = "remembering" => of[h] # x
      BY <1>7
    <3>2. at'[h] = "remembering" => of'[h] # x
      BY <1>7, <1>t DEF Session!Place, Session!Remember
    <3> QED BY <1>2, <3>1, <3>2 DEF Awaited
  <2> QED BY <2>1, <2>2, <2>3, <2>4 DEF Remembered
<1>8. ASSUME s \in Alive' PROVE OnDisk(s)' = Known(s)' \cup Awaited(s)'
  <2>1. OnDisk(s) = Known(s) \cup Awaited(s)
    BY <1>8 DEF Remembered
  <2>2. CASE Session!Place(h)
    <3>1. images' = images \cup {path} /\ of' = of /\ view' = view /\ views' = views
          /\ at[h] = "placing" /\ at'[h] = "remembering"
      BY <1>t, <2>2 DEF Session!Place
    <3>2. OnDisk(s)' = OnDisk(s) \cup {path}
      BY <1>t, <3>1 DEF OnDisk
    <3>3. Known(s)' = Known(s)
      BY <3>1 DEF Known
    <3>4. Awaited(s)' = Awaited(s) \cup {path}
      BY <1>2, <3>1 DEF Awaited
    <3> QED BY <2>1, <3>2, <3>3, <3>4
  <2>3. CASE Session!Remember(h)
    <3> DEFINE recent == Session!Recent(h)
               cut == Session!Surplus(recent)
               old == SubSeq(recent, 1, cut)
               kept == SubSeq(recent, cut + 1, Len(recent))
               Shown(seq) == {Resolved[k] : k \in Session!ToSet(seq)}
    <3>1. /\ recent \in Seq(DOMAIN Resolved)
          /\ Session!ToSet(recent) = Session!ToSet(views[s]) \cup {view[h], Resolved[view[h]]}
      BY <1>t, ToEndTwice DEF Session!Recent
    <3> HIDE DEF recent
    <3>2. cut \in 0 .. Len(recent)
      BY <3>1, SessionsAssumption DEF Session!Surplus, Session!SessionAssumption
    <3> HIDE DEF cut
    <3>3. Session!ToSet(recent) = Session!ToSet(old) \cup Session!ToSet(kept)
      BY <3>1, <3>2, SplitSet
    <3>4. /\ views' = [views EXCEPT ![s] = kept]
          /\ images' = images \ ({s} \X (Shown(old) \ Shown(kept)))
          /\ at[h] = "remembering" /\ at'[h] = "idle"
      BY <1>t, <2>3 DEF Session!Remember, recent, cut
    <3> HIDE DEF old, kept
    <3>5. Awaited(s) = {path} /\ Awaited(s)' = {}
      BY <1>1, <1>2, <3>4 DEF Awaited, Holding
    <3>6. OnDisk(s) = {<<s, n>> : n \in Shown(recent)}
      <4>1. Shown(recent) = {Resolved[k] : k \in Session!ToSet(views[s])} \cup {Resolved[view[h]]}
        BY <1>t, <3>1, ResolvedKeys
      <4> QED BY <2>1, <3>5, <4>1 DEF Known
    <3>7. OnDisk(s)' = OnDisk(s) \ ({s} \X (Shown(old) \ Shown(kept)))
      BY <3>4 DEF OnDisk
    <3>8. Shown(recent) = Shown(old) \cup Shown(kept)
      BY <3>3
    <3>9. Known(s)' = {<<s, n>> : n \in Shown(kept)}
      <4>1. views'[s] = kept
        BY <1>t, <3>4
      <4> QED BY <4>1 DEF Known
    <3> HIDE DEF Shown
    <3> QED BY <3>5, <3>6, <3>7, <3>8, <3>9
  <2> QED BY <2>2, <2>3
<1>9. Remembered'
  BY <1>7, <1>8 DEF Remembered
<1>10. ASSUME NEW g \in Handlers, at'[g] \in {"reading", "missed"}, of'[g] \in Alive'
       PROVE  Found(g)' /\ at'[g] # "missed"
  <2>1. g # h /\ at[g] = at'[g] /\ of[g] = of'[g] /\ of[g] \in Alive /\ of[g] # s /\ of[g] \in Soundings
    BY <1>1, <1>2, <1>3, <1>10 DEF Holding, SessionType
  <2>2. Session!Image(g)' = Session!Image(g) /\ Session!Image(g)[1] = of[g]
    BY <1>2, <2>1 DEF Session!Image, Session!Name
  <2>3. at[g] # "missed" /\ Found(g)
    BY <2>1 DEF FoundStays
  <2>4. Session!Image(g) \in images' /\ views'[of[g]] = views[of[g]]
    BY <1>4, <1>5, <1>6, <1>10, <2>1, <2>2, <2>3 DEF Found
  <2> QED BY <1>2, <2>1, <2>2, <2>3, <2>4 DEF Found
<1> QED BY <1>9, <1>10 DEF FoundStays, Found

LEMMA RememberedStep ==
  ASSUME SessionType, Lives, Locked, Remembered, FoundStays, Session!Next
  PROVE  Remembered' /\ FoundStays'
<1> PICK h \in Handlers : Session!Open(h) \/ Session!Draw(h)
  BY DEF Session!Next
<1> USE DEF Session!Goto, Session!End
<1>t. /\ at \in [Handlers -> SessionPlaces] /\ of \in [Handlers -> Soundings \cup {None}]
      /\ view \in [Handlers -> Names] /\ views \in [Soundings -> Seq(DOMAIN Resolved)]
      /\ images \subseteq Soundings \X Names
      /\ at[h] # "idle" => of[h] \in Soundings
  BY DEF SessionType
<1>a. Alive' \subseteq Alive
  BY AliveShrinks
<1>1. ASSUME UNCHANGED <<views, view>>, \A g \in Handlers \ {h} : at'[g] = at[g] /\ of'[g] = of[g],
             at[h] \notin {"remembering"}, at'[h] \notin {"remembering", "reading", "missed"},
             \A i \in images : i[1] \in Alive' => i \in images',
             \A i \in images' : i \in images \/ i[2] = Plain
      PROVE  Remembered' /\ FoundStays'
  BY <1>1, <1>a, RememberedKept DEF Found
<1>2. ASSUME NEW s \in Soundings, Session!Write(h, s) PROVE Remembered' /\ FoundStays'
  BY <1>1, <1>2, <1>t DEF Session!Write
<1>3. CASE Session!Abandon(h) \/ Session!List(h) \/ Session!Added(h)
  BY <1>1, <1>3, <1>t DEF Session!Abandon, Session!List, Session!Added
<1>4. CASE Session!Register(h)
  BY <1>1, <1>4, <1>t DEF Session!Register
<1>5. CASE Session!RemoveImage(h)
  BY <1>1, <1>5, <1>a DEF Session!RemoveImage, Lives
<1>6. ASSUME NEW s \in Soundings, NEW k \in DOMAIN Resolved \cup {Plain}, Session!Get(h, s, k)
      PROVE  Remembered' /\ FoundStays'
  <2>1. /\ UNCHANGED <<views, images>>
        /\ \A g \in Handlers \ {h} : at'[g] = at[g] /\ of'[g] = of[g] /\ view'[g] = view[g]
        /\ at[h] = "idle" /\ at'[h] = "locking"
    BY <1>6, <1>t DEF Session!Get
  <2> QED BY <1>a, <2>1, RememberedKept DEF Found
<1>7. CASE Session!Lock(h) \/ Session!AskWorker(h)
  BY <1>1, <1>7, <1>t DEF Session!Lock, Session!AskWorker
<1>8. CASE Session!Check(h)
  <2>1. /\ UNCHANGED <<views, images, view, of>>
        /\ \A g \in Handlers \ {h} : at'[g] = at[g]
        /\ at[h] = "checking" /\ at'[h] \in {"reading", "asking"}
        /\ at'[h] = "reading" => Session!Kept(h)
    BY <1>8, <1>t DEF Session!Check
  <2>2. Session!Image(h)' = Session!Image(h)
    BY <2>1 DEF Session!Image, Session!Name
  <2>3. Found(h)'
    BY <2>1, <2>2 DEF Found, Session!Kept
  <2> QED BY <1>a, <2>1, <2>3, RememberedKept
<1>9. CASE Session!NoData(h) \/ Session!Refuse(h) \/ Session!Raise(h) \/ Session!DrawFails(h)
  <2>1. /\ UNCHANGED <<views>>
        /\ \A g \in Handlers \ {h} : at'[g] = at[g] /\ of'[g] = of[g] /\ view'[g] = view[g]
        /\ at[h] # "remembering" /\ at'[h] = "idle"
        /\ images' = images \/ (view[h] = Plain /\ images' = images \cup {Session!Image(h)})
    BY <1>9, <1>t DEF Session!NoData, Session!Refuse, Session!Raise, Session!DrawFails
  <2>2. \A i \in images' : i \in images \/ i[2] = Plain
    BY <2>1 DEF Session!Image, Session!Name
  <2> QED BY <1>a, <2>1, <2>2, RememberedKept DEF Found
<1>10. CASE Session!Drawn(h)
  <2>1. /\ UNCHANGED <<views, view, of>>
        /\ \A g \in Handlers \ {h} : at'[g] = at[g]
        /\ at[h] = "drawing" /\ at'[h] \in {"reading", "placing"}
        /\ images' = images \/ (view[h] = Plain /\ images' = images \cup {Session!Image(h)})
        /\ at'[h] = "reading" => view[h] = Plain /\ Session!Image(h) \in images'
    BY <1>10, <1>t DEF Session!Drawn
  <2>2. \A i \in images' : i \in images \/ i[2] = Plain
    BY <2>1 DEF Session!Image, Session!Name
  <2>3. Session!Image(h)' = Session!Image(h)
    BY <2>1 DEF Session!Image, Session!Name
  <2>4. Found(h)'
    BY <2>1, <2>3 DEF Found
  <2> QED BY <1>a, <2>1, <2>2, <2>4, RememberedKept
<1>11. CASE Session!Read(h)
  <2>1. /\ UNCHANGED <<images>>
        /\ \A g \in Handlers \ {h} : at'[g] = at[g] /\ of'[g] = of[g] /\ view'[g] = view[g]
        /\ at[h] = "reading" /\ at'[h] = "idle"
        /\ views' = IF view[h] = Plain THEN views
                    ELSE [views EXCEPT ![of[h]] = Session!ToEnd(views[of[h]], view[h])]
    BY <1>11, <1>t DEF Session!Read
  <2>2. ASSUME NEW s \in Alive' PROVE Session!ToSet(views'[s]) = Session!ToSet(views[s])
    <3>1. s \in Soundings
      BY <1>a, <2>2, AliveType
    <3>2. CASE view[h] = Plain \/ s # of[h]
      BY <1>t, <2>1, <3>1, <3>2
    <3>3. CASE view[h] # Plain /\ s = of[h]
      <4>1. view[h] \in Session!ToSet(views[s])
        BY <1>a, <2>1, <2>2, <3>3 DEF FoundStays, Found
      <4>2. view[h] \in DOMAIN Resolved
        BY <1>t, <3>3, ResolvedKeys DEF Names
      <4>3. views'[s] = Session!ToEnd(views[s], view[h]) /\ views[s] \in Seq(DOMAIN Resolved)
        BY <1>t, <2>1, <3>1, <3>3
      <4>4. Session!ToSet(views'[s]) = Session!ToSet(views[s]) \cup {view[h]}
        BY <4>2, <4>3, ToEndSet
      <4> QED BY <4>1, <4>4
    <3> QED BY <3>2, <3>3
  <2> QED BY <1>a, <2>1, <2>2, RememberedKept DEF Found
<1>12. CASE Session!Miss(h)
  <2>1. /\ UNCHANGED <<views, images, view, of>>
        /\ \A g \in Handlers \ {h} : at'[g] = at[g]
        /\ at[h] = "reading" /\ at'[h] = "missed" /\ Session!Image(h) \notin images
    BY <1>12, <1>t DEF Session!Miss
  <2>2. of'[h] \notin Alive'
    BY <1>a, <2>1 DEF FoundStays, Found
  <2> QED BY <1>a, <2>1, <2>2, RememberedKept DEF Found
<1>13. CASE Session!Place(h) \/ Session!Remember(h)
  BY <1>13, <1>a, RememberStep
<1> QED BY <1>2, <1>3, <1>4, <1>5, <1>6, <1>7, <1>8, <1>9, <1>10, <1>11, <1>12, <1>13
        DEF Session!Open, Session!Draw

\* The images of an open sounding are those it remembers and what a request has found
\* on disk is lost by an eviction only, for any number of handlers, soundings and
\* remembered views: ids are used once, so that a sounding that is put out never comes
\* back; who changes its images holds its lock; between the image put in place and the
\* key remembered they differ by that one image.
THEOREM OpenImagesAreKept == MCSpec => []ImagesAreKept
<1>1. MCInit => SessionInv
  <2> SUFFICES ASSUME Session!Init PROVE SessionInv
    BY DEF MCInit
  <2> USE DEF Session!Init
  <2>1. SessionType
    BY ResolvedKeys, SessionsAssumption DEF SessionType, SessionPlaces, Holding, Names,
           Session!SessionAssumption
  <2>2. Listed = {} /\ Young = Soundings
    BY DEF Listed, Session!ToSet, Young
  <2>3. Session!IsInjective(entries)
    BY DEF Session!IsInjective
  <2>4. Lives
    BY <2>2, <2>3 DEF Lives, Alive, Holding
  <2>5. Locked
    BY DEF Locked, Holding
  <2>6. \A s \in Soundings : OnDisk(s) = {} /\ Known(s) = {} /\ Awaited(s) = {}
    BY DEF OnDisk, Known, Awaited, Session!ToSet
  <2>7. Remembered
    BY <2>2, <2>6 DEF Remembered, Alive
  <2>8. FoundStays
    BY DEF FoundStays, Found
  <2> QED BY <2>1, <2>4, <2>5, <2>7, <2>8 DEF SessionInv
<1>2. SessionInv /\ [FlightStep \/ FetchStep \/ SessionStep]_<<part, vars, fetchVars, sessionVars>> => SessionInv'
  <2> SUFFICES ASSUME SessionInv, [FlightStep \/ FetchStep \/ SessionStep]_<<part, vars, fetchVars, sessionVars>>
               PROVE  SessionInv'
    OBVIOUS
  <2>1. CASE Session!Next
    BY <2>1, SessionTypeStep, LivesStep, LockedStep, RememberedStep DEF SessionInv
  <2>2. CASE UNCHANGED sessionVars
    <3>1. UNCHANGED <<fresh, entries, cacheLock, renderLock, artist, views, data, images, at, of, view, doomed>>
      BY <2>2 DEF sessionVars
    <3> QED BY <3>1 DEF SessionInv, SessionType, Lives, Locked, Remembered, FoundStays,
                   Found, Alive, Young,
              Listed, OnDisk, Known, Awaited, Session!Image, Session!Name
  <2> QED BY <2>1, <2>2 DEF FlightStep, FetchStep, SessionStep
<1>3. SessionInv => ImagesAreKept
  <2> SUFFICES ASSUME SessionInv PROVE Session!ViewsAreOnDisk /\ Session!LostByEvictionOnly
    BY DEF ImagesAreKept
  <2>1. ASSUME NEW s \in Listed, renderLock[s] = None
        PROVE  {i \in images : i[1] = s /\ i[2] # Plain} = {<<s, Resolved[k]>> : k \in Session!ToSet(views[s])}
    <3>1. Awaited(s) = {}
      BY <2>1, SessionsAssumption DEF SessionInv, Locked, Awaited, Holding,
             Session!SessionAssumption
    <3> QED BY <2>1, <3>1 DEF SessionInv, Remembered, Alive, OnDisk, Known
  <2>2. Session!ViewsAreOnDisk
    BY <2>1 DEF Session!ViewsAreOnDisk, Listed
  <2>3. Session!LostByEvictionOnly
    BY DEF SessionInv, FoundStays, Alive, Listed, Session!LostByEvictionOnly
  <2> QED BY <2>2, <2>3
<1> QED BY <1>1, <1>2, <1>3, PTL DEF MCSpec
=============================================================================
