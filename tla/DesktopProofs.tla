---------------------------- MODULE DesktopProofs ----------------------------
(***************************************************************************)
(* Proofs about what is between the frontend and the bridge, as MCDesktop  *)
(* composes it: the supervisor, the router, the download of the last hour  *)
(* and the gate of status checks.                                          *)
(*                                                                         *)
(* The supervisor has one child, and what it publishes is what its current *)
(* lifecycle does, for any number of requests, restarts, crashes and       *)
(* children.  What makes it so is Slot: the child in the slot is the one   *)
(* the lifecycle of the current epoch attached and has not let go of yet,  *)
(* so that a lifecycle of an older epoch finds nothing of its own there.   *)
(*                                                                         *)
(* The supervisor implements SupervisorService, and the router is right    *)
(* over every supervisor that does.                                        *)
(***************************************************************************)
EXTENDS MCDesktop, FiniteSetTheorems, TLAPS

\* A lifecycle that has a child.
Attached == {"greet", "hello", "greeted", "up", "losing"}
Event == {"exited", "eof", "corrupt", "pingfailed"}

\* The epochs are counted by the calls of restart and by the shutdown.
Called == {c \in Restarters : restarter[c] # "idle"}
Budget == epoch <= Cardinality(Called) + (IF shutting THEN 1 ELSE 0)

\* A generation that is named somewhere exists.
Named ==
  /\ status = "up" => upGen # 0
  /\ \A r \in Requests : req[r] \in {"send", "sent", "late"} => target[r] # 0
  /\ \A e \in Epochs : at[e] \in Attached => mine[e] # 0

\* No lifecycle is ahead of the epoch, and a shutdown leaves none of it.
Ahead ==
  /\ \A e \in Epochs : e > epoch \/ ~started => at[e] = "none"
  /\ shutting => at[epoch] = "none"
  /\ started /\ ~shutting => at[epoch] # "none"
  /\ shutting <=> shutter # "idle"

\* Every child belongs to one lifecycle, and no generation is used again.
Owned ==
  /\ \A e \in Epochs : mine[e] <= generation
  /\ \A e, f \in Epochs : e # f /\ mine[e] = mine[f] => mine[e] = 0
  /\ child <= generation
  /\ \A g \in inFlight : g <= generation

\* The slot is of the current lifecycle.
Slot == ~shutting => child = (IF at[epoch] \in Attached THEN mine[epoch] ELSE 0)

\* The two halves of NoStrayProcess.  The second one needs no more: what Slot says of
\* the lifecycle of the current epoch is the rest.
ChildHeld ==
  \A g \in Gens : proc[g] = "running" => g = child \/ (shutter = "waiting" /\ g = taken)
LooseInHand == \A e \in Epochs : loose[e] = "running" => at[e] = "launched"

IInv == /\ TypeOK /\ Budget /\ Named /\ Ahead /\ Owned /\ Slot
        /\ ChildHeld /\ LooseInHand /\ StatusIsOfTheLifecycle /\ PingFlagIsHonest

-----------------------------------------------------------------------------
(* The pieces the actions are built from.                                  *)

LEMMA EmitTyped ==
  ASSUME TypeOK, NEW g \in Gens, NEW e \in Event, Emit(g, e)
  PROVE  events' \in [Gens -> Seq(Event)]
<1>1. Append(events[g], e) \in Seq(Event) /\ events[g] \in Seq(Event)
  BY DEF TypeOK, Event
<1> QED BY <1>1 DEF TypeOK, Event, Emit

LEMMA GotoTyped ==
  ASSUME TypeOK, NEW e \in Epochs, NEW pc \in Places, Goto(e, pc)
  PROVE  at' \in [Epochs -> Places]
BY DEF TypeOK, Goto

LEMMA LeaveTyped ==
  ASSUME TypeOK, NEW e \in Epochs, NEW pc \in Places, Leave(e, pc)
  PROVE  at' \in [Epochs -> Places] /\ events' \in [Gens -> Seq(Event)]
<1>1. <<>> \in Seq(Event)
  OBVIOUS
<1> QED BY <1>1 DEF TypeOK, Leave, Goto, Event

LEMMA KillTyped ==
  ASSUME TypeOK, NEW g, Kill(g)
  PROVE  proc' \in [Gens -> {"none", "running", "killing", "exited", "reaped"}]
BY DEF TypeOK, Kill

LEMMA DropTyped ==
  ASSUME TypeOK, NEW g, DropChild(g) \/ KillSlot
  PROVE  /\ child' \in Gens \cup {0}
         /\ proc' \in [Gens -> {"none", "running", "killing", "exited", "reaped"}]
BY KillTyped DEF TypeOK, DropChild, KillSlot

LEMMA TransitionTyped ==
  ASSUME TypeOK, NEW s \in {"starting", "up", "restarting", "unavailable"},
         NEW g \in Gens \cup {0}, Transition(s, g)
  PROVE  /\ status' \in {"starting", "up", "restarting", "unavailable"}
         /\ upGen' \in Gens \cup {0}
         /\ changed' \subseteq Requests
BY DEF TypeOK, Transition

LEMMA ResolveTyped ==
  ASSUME TypeOK, NEW settled, NEW kind \in {"good", "bad"}, Resolve(settled, kind)
  PROVE  /\ pending' \subseteq Callers \X Gens
         /\ answer' \in [Requests -> {"none", "good", "bad", "timeout", "closed"}]
         /\ hello' \in [Gens -> {"none", "good", "bad"}]
         /\ ping' \in [Gens -> {"none", "due", "sent", "good", "bad"}]
BY DEF TypeOK, Resolve

LEMMA SendTyped ==
  ASSUME TypeOK, NEW c \in Callers, NEW g \in Gens, Send(c, g) \/ SendFails(g)
  PROVE  pending' \subseteq Callers \X Gens
BY DEF TypeOK, Send, SendFails

\* A step of a lifecycle moves the lifecycle and nothing else of at.
LEMMA GotoMoves ==
  ASSUME TypeOK, NEW e \in Epochs, NEW pc, Goto(e, pc) \/ Leave(e, pc)
  PROVE  at'[e] = pc /\ \A f \in Epochs \ {e} : at'[f] = at[f]
BY DEF TypeOK, Goto, Leave

\* Letting go of a child never starts a process.
LEMMA DropEnds ==
  ASSUME TypeOK, NEW g, DropChild(g) \/ KillSlot
  PROVE  /\ \A h \in Gens : proc'[h] = "running" => proc[h] = "running"
         /\ child' # child => /\ child' = 0
                              /\ \A h \in Gens : proc'[h] = "running" => h # child
BY DEF TypeOK, DropChild, KillSlot, Kill

-----------------------------------------------------------------------------
\* The end of a process that is no child concerns nobody: it is like a stutter.
Idle == UNCHANGED <<gateVars, innerVars, at, mine, seen, procVars, callVars, userVars>>

LEMMA LooseEndsIdly ==
  /\ \A e \in Epochs : LooseEnds(e) => Idle
  /\ UNCHANGED vars => Idle
BY DEF LooseEnds, Idle, vars, lifeVars

-----------------------------------------------------------------------------
(* The type invariant; the counts that keep epoch and generations in their *)
(* ranges are part of it.                                                  *)

LEMMA TypeAttach ==
  ASSUME TypeOK, NEW e \in Epochs, Launch(e) \/ Attach(e) \/ LaunchFails(e)
  PROVE  TypeOK'
<1>1. CASE Attach(e) /\ (epoch # e \/ shutting)
  <2>1. at' \in [Epochs -> Places]
    BY <1>1, GotoTyped DEF Attach, Places
  <2>2. loose' \in [Epochs -> {"none", "running", "killing"}]
    BY <1>1 DEF TypeOK, Attach
  <2> QED
    BY <1>1, <2>1, <2>2 DEF TypeOK, Attach, attachRest, gateVars, callVars, userVars
<1>2. CASE Attach(e) /\ ~(epoch # e \/ shutting)
  <2>1. at' \in [Epochs -> Places]
    BY <1>2, GotoTyped DEF Attach, Adopt, Places
  <2>2. /\ generation' \in Gens \cup {0} /\ child' \in Gens \cup {0} /\ reading' \subseteq Gens
        /\ mine' \in [Epochs -> Gens \cup {0}]
        /\ loose' \in [Epochs -> {"none", "running", "killing"}]
        /\ proc' \in [Gens -> {"none", "running", "killing", "exited", "reaped"}]
    <3>1. PICK g \in Gens : /\ generation' = g /\ child' = g
                           /\ proc' = [proc EXCEPT ![g] = "running"]
                           /\ reading' = reading \cup {g}
                           /\ mine' = [mine EXCEPT ![e] = g]
                           /\ loose' = [loose EXCEPT ![e] = "none"]
      BY <1>2 DEF Attach, Adopt
    <3> QED BY <3>1 DEF TypeOK
  <2>3. UNCHANGED attachRest
    BY <1>2 DEF Attach
  <2> QED BY <2>1, <2>2, <2>3 DEF TypeOK, attachRest, gateVars, callVars, userVars
<1>3. CASE LaunchFails(e)
  <2>1. at' \in [Epochs -> Places]
    BY <1>3, GotoTyped DEF LaunchFails, Places
  <2> QED
    BY <1>3, <2>1 DEF TypeOK, LaunchFails, gateVars, innerVars, procVars, callVars, userVars
<1>4. CASE Launch(e)
  <2>1. at' \in [Epochs -> Places]
    BY <1>4, GotoTyped DEF Launch, Places
  <2>2. loose' \in [Epochs -> {"none", "running", "killing"}]
    BY <1>4 DEF TypeOK, Launch
  <2> QED
    BY <1>4, <2>1, <2>2
    DEF TypeOK, Launch, gateVars, innerVars, procVars, callVars, userVars
<1> QED BY <1>1, <1>2, <1>3, <1>4

LEMMA TypeGreet ==
  ASSUME TypeOK, Named, NEW e \in Epochs,
         Greet(e) \/ TakeHello(e) \/ TakeEarlyEvent(e) \/ ExitedBeforeHello(e)
           \/ HelloTimesOut(e) \/ CancelEarly(e)
  PROVE  TypeOK'
<1>1. CASE Greet(e)
  <2>1. at' \in [Epochs -> Places]
    BY <1>1, GotoTyped DEF Greet, Places
  <2>2. pending' \subseteq Callers \X Gens
    <3>1. mine[e] \in Gens
      BY <1>1 DEF TypeOK, Named, Attached, Greet
    <3> QED BY <1>1, <3>1 DEF TypeOK, Greet, Send, SendFails, Callers
  <2> QED BY <1>1, <2>1, <2>2 DEF TypeOK, Greet, gateVars, innerRest, procVars, callVars,
                 userVars
<1>2. ASSUME NEW pc \in Places, Leave(e, pc) \/ (Goto(e, pc) /\ UNCHANGED events)
      PROVE  at' \in [Epochs -> Places] /\ events' \in [Gens -> Seq(Event)]
  BY <1>2, LeaveTyped, GotoTyped DEF TypeOK, Event
<1>3. ASSUME EndHello(e) PROVE hello' \in [Gens -> {"none", "good", "bad"}]
  BY <1>3 DEF TypeOK, EndHello
<1>4. ASSUME DropChild(mine[e]) \/ UNCHANGED <<child, proc>>
      PROVE  /\ child' \in Gens \cup {0}
             /\ proc' \in [Gens -> {"none", "running", "killing", "exited", "reaped"}]
  BY <1>4, DropTyped DEF TypeOK
<1>5. CASE TakeHello(e)
  <2>1. \E pc \in Places : Leave(e, pc) \/ (Goto(e, pc) /\ UNCHANGED events)
    BY <1>5 DEF TakeHello, Places
  <2>2. DropChild(mine[e]) \/ UNCHANGED <<child, proc>>
    BY <1>5 DEF TakeHello
  <2> QED
    BY <1>5, <1>2, <1>3, <1>4, <2>1, <2>2
    DEF TypeOK, TakeHello, gateVars, innerRest, afterHello, userVars, Event
<1>6. CASE TakeEarlyEvent(e)
  <2>1. DropChild(mine[e]) \/ UNCHANGED <<child, proc>>
    BY <1>6 DEF TakeEarlyEvent
  <2>2. hello' \in [Gens -> {"none", "good", "bad"}]
    BY <1>6, <1>3 DEF TypeOK, TakeEarlyEvent
  <2>3. at' \in [Epochs -> Places] /\ events' \in [Gens -> Seq(Event)]
    <3>1. CASE Leave(e, "crashed")
      BY <3>1, <1>2 DEF Places
    <3>2. CASE UNCHANGED at /\ events' = [events EXCEPT ![mine[e]] = Tail(@)]
                /\ events[mine[e]] # <<>>
      <4>1. \A s \in Seq(Event) : s # <<>> => Tail(s) \in Seq(Event)
        OBVIOUS
      <4> QED BY <3>2, <4>1 DEF TypeOK, Event
    <3> QED BY <1>6, <3>1, <3>2 DEF TakeEarlyEvent
  <2>4. seen' \in [Epochs -> SUBSET {"exited", "eof"}]
    <3>1. CASE UNCHANGED seen
      BY <3>1 DEF TypeOK
    <3>2. CASE \E event \in {"exited", "eof"} : seen' = [seen EXCEPT ![e] = @ \cup {event}]
      <4>1. PICK event \in {"exited", "eof"} : seen' = [seen EXCEPT ![e] = @ \cup {event}]
        BY <3>2
      <4>2. seen[e] \cup {event} \in SUBSET {"exited", "eof"}
        BY DEF TypeOK
      <4>3. seen \in [Epochs -> SUBSET {"exited", "eof"}]
        BY DEF TypeOK
      <4> QED BY <4>1, <4>2, <4>3, Zenon
    <3> QED BY <1>6, <3>1, <3>2 DEF TakeEarlyEvent
  <2> QED
    BY <1>6, <1>4, <2>1, <2>2, <2>3, <2>4
    DEF TypeOK, TakeEarlyEvent, gateVars, innerRest, afterHello, userVars, Event
<1>7. CASE ExitedBeforeHello(e)
  BY SMTT(20), <1>7, <1>2, <1>3, <1>4
  DEF TypeOK, ExitedBeforeHello, gateVars, innerRest, afterHello, userVars, Event, Places
<1>8. CASE HelloTimesOut(e)
  BY SMTT(20), <1>8, <1>2, <1>3, <1>4
  DEF TypeOK, HelloTimesOut, gateVars, innerRest, afterHello, userVars, Event, Places
<1>9. CASE CancelEarly(e)
  BY <1>9, <1>2, <1>3, <1>4
  DEF TypeOK, CancelEarly, gateVars, innerVars, afterHello, userVars, Event, Places
<1> QED BY <1>1, <1>5, <1>6, <1>7, <1>8, <1>9

LEMMA TypeUp ==
  ASSUME SupervisorAssumption, TypeOK, NEW e \in Epochs,
         GoUp(e) \/ LoseUpChild(e) \/ DropLost(e) \/ CancelUp(e) \/ RecordCrash(e)
           \/ EndBackoff(e) \/ GoUnavailable(e)
  PROVE  TypeOK'
<1>1. ASSUME NEW pc \in Places, Leave(e, pc) \/ (Goto(e, pc) /\ UNCHANGED events)
      PROVE  at' \in [Epochs -> Places] /\ events' \in [Gens -> Seq(Event)]
  BY <1>1, LeaveTyped, GotoTyped DEF TypeOK, Event
<1>2. ASSUME NEW s \in {"starting", "up", "restarting", "unavailable"}, NEW g \in Gens \cup {0},
             Transition(s, g) \/ UNCHANGED gateVars
      PROVE  /\ status' \in {"starting", "up", "restarting", "unavailable"}
             /\ upGen' \in Gens \cup {0} /\ changed' \subseteq Requests
  BY <1>2, TransitionTyped DEF TypeOK, gateVars
<1>3. CASE GoUp(e)
  <2>1. \E pc \in Places : Leave(e, pc) \/ (Goto(e, pc) /\ UNCHANGED events)
    BY <1>3 DEF GoUp, Places
  <2>2. mine[e] \in Gens \cup {0} /\ (Transition("up", mine[e]) \/ UNCHANGED gateVars)
    BY <1>3 DEF TypeOK, GoUp
  <2> QED BY <1>3, <1>1, <1>2, <2>1, <2>2 DEF TypeOK, GoUp, innerVars, callVars, userVars,
                 Event
<1>4. CASE LoseUpChild(e)
  <2>1. \E pc \in Places : Leave(e, pc)
    BY <1>4 DEF LoseUpChild, Places
  <2>2. /\ pending' \subseteq Callers \X Gens
        /\ answer' \in [Requests -> {"none", "good", "bad", "timeout", "closed"}]
        /\ hello' \in [Gens -> {"none", "good", "bad"}]
        /\ ping' \in [Gens -> {"none", "due", "sent", "good", "bad"}]
    <3>1. CASE UNCHANGED <<pending, answer, hello, ping>>
      BY <3>1 DEF TypeOK
    <3>2. CASE Resolve(PendingOf(mine[e]), "bad")
      BY <3>2, ResolveTyped
    <3> QED BY <1>4, <3>1, <3>2 DEF LoseUpChild
  <2> QED
    BY <1>4, <1>1, <2>1, <2>2 DEF TypeOK, LoseUpChild, gateVars, innerRest, userVars, Event
<1>5. CASE DropLost(e)
  BY <1>5, GotoTyped, DropTyped
  DEF TypeOK, DropLost, gateVars, innerRest, callVars, userVars, Places
<1>6. CASE CancelUp(e)
  BY <1>6, <1>1 DEF TypeOK, CancelUp, gateVars, innerVars, callVars, userVars, Event, Places
<1>7. CASE RecordCrash(e)
  <2>1. \E pc \in Places : Goto(e, pc)
    BY <1>7 DEF RecordCrash, Places
  <2>2. \E s \in {"starting", "up", "restarting", "unavailable"}, g \in Gens \cup {0} :
           Transition(s, g) \/ UNCHANGED gateVars
    BY <1>7 DEF RecordCrash
  <2>3. crashes' \in Nat /\ seen' \in [Epochs -> SUBSET {"exited", "eof"}]
    <3>1. crashes \in Nat /\ seen \in [Epochs -> SUBSET {"exited", "eof"}]
      BY DEF TypeOK
    <3> QED BY <1>7, <3>1 DEF RecordCrash
  <2>4. at' \in [Epochs -> Places]
    BY <2>1, GotoTyped
  <2> QED BY <1>7, <1>2, <2>2, <2>3, <2>4 DEF TypeOK, RecordCrash, procVars, callVars,
                 userVars
<1>8. CASE EndBackoff(e)
  <2>1. \E pc \in Places : Goto(e, pc)
    BY <1>8 DEF EndBackoff, Places
  <2>2. at' \in [Epochs -> Places]
    BY <2>1, GotoTyped
  <2> QED
    BY <1>8, <1>2, <2>2 DEF TypeOK, EndBackoff, innerVars, procVars, callVars, userVars
<1>9. CASE GoUnavailable(e)
  <2>1. at' \in [Epochs -> Places]
    BY <1>9, GotoTyped DEF GoUnavailable, Places
  <2>2. /\ child' \in Gens \cup {0}
        /\ proc' \in [Gens -> {"none", "running", "killing", "exited", "reaped"}]
    BY <1>9, DropTyped DEF TypeOK, GoUnavailable
  <2>3. Transition("unavailable", 0) \/ UNCHANGED gateVars
    BY <1>9 DEF GoUnavailable
  <2> QED BY <1>9, <1>2, <2>1, <2>2, <2>3 DEF TypeOK, GoUnavailable, innerRest, callVars,
                 userVars
<1> QED BY <1>3, <1>4, <1>5, <1>6, <1>7, <1>8, <1>9

LEMMA TypeChild ==
  ASSUME TypeOK, NEW g \in Gens, Child(g)
  PROVE  TypeOK'
<1>1. CASE Exits(g)
  BY <1>1 DEF TypeOK, Exits, childRest, gateVars, innerRest, lifeVars, userVars, callVars
<1>2. CASE WatchExit(g)
  <2>1. events' \in [Gens -> Seq(Event)]
    BY <1>2, EmitTyped DEF WatchExit, Event
  <2>2. proc' \in [Gens -> {"none", "running", "killing", "exited", "reaped"}]
    BY <1>2 DEF TypeOK, WatchExit
  <2>3. UNCHANGED <<childRest, pending, reading, callVars>>
    BY <1>2 DEF WatchExit
  <2> QED
    BY <2>1, <2>2, <2>3
    DEF TypeOK, childRest, gateVars, innerRest, lifeVars, userVars, callVars, Event
<1>3. CASE Route(g) \/ RouteNull(g)
  <2>1. \E kind \in {"good", "bad"} : \E settled : Resolve(settled, kind)
    BY <1>3 DEF Route, RouteNull
  <2> QED
    BY <1>3, <2>1, ResolveTyped
    DEF TypeOK, Route, RouteNull, childRest, gateVars, innerRest, lifeVars, userVars,
           procVars
<1>4. CASE ReaderEnds(g)
  <2>1. events' \in [Gens -> Seq(Event)]
    BY <1>4, EmitTyped DEF ReaderEnds, Event
  <2> QED
    BY <1>4, <2>1
    DEF TypeOK, ReaderEnds, childRest, gateVars, innerRest, lifeVars, userVars, callVars,
           Event
<1> QED BY <1>1, <1>2, <1>3, <1>4 DEF Child

LEMMA TypeRequest ==
  ASSUME TypeOK, Named, NEW r \in Requests, Request(r)
  PROVE  TypeOK'
<1> USE DEF TypeOK, AskTo, callerRest, lifeVars, userVars
<1>1. CASE ReadGate(r)
  <2>1. /\ req' \in [Requests -> {"start", "wait", "send", "sent", "late", "done"}]
        /\ target' \in [Requests -> Gens \cup {0}]
        /\ answer' \in [Requests -> {"none", "good", "bad", "timeout", "closed"}]
        /\ changed' \subseteq Requests
    BY ZenonT(30), <1>1 DEF ReadGate
  <2>2. UNCHANGED <<callerRest, inFlight, pending, events, hello, ping>>
    BY <1>1 DEF ReadGate
  <2> QED BY <2>1, <2>2
<1>2. CASE SendRequest(r)
  <2>1. target[r] \in Gens
    BY <1>2 DEF Named, SendRequest
  <2>2. /\ pending' \subseteq Callers \X Gens
        /\ req' \in [Requests -> {"start", "wait", "send", "sent", "late", "done"}]
    <3>1. r \in Callers /\ (Send(r, target[r]) \/ SendFails(target[r]))
      BY <1>2 DEF SendRequest, Callers
    <3>2. pending' \subseteq Callers \X Gens
      BY <2>1, <3>1, SendTyped
    <3> QED BY <1>2, <3>2 DEF SendRequest
  <2>3. UNCHANGED <<callerRest, changed, inFlight, events, hello, ping, target, answer>>
    BY <1>2 DEF SendRequest
  <2> QED BY <2>2, <2>3
<1>3. CASE SendRejected(r)
  BY <1>3 DEF SendRejected
<1>4. CASE WaitTimesOut(r)
  BY <1>4 DEF WaitTimesOut
<1>5. CASE TakeReply(r)
  BY <1>5 DEF TakeReply
<1>6. CASE Elapse(r)
  BY <1>6 DEF Elapse
<1>7. CASE OnRequestTimeout(r)
  <2>1. target[r] \in Gens
    BY <1>7 DEF Named, OnRequestTimeout
  <2>2. /\ pending' \subseteq Callers \X Gens /\ inFlight' \subseteq Gens
        /\ req' \in [Requests -> {"start", "wait", "send", "sent", "late", "done"}]
        /\ answer' \in [Requests -> {"none", "good", "bad", "timeout", "closed"}]
        /\ ping' \in [Gens -> {"none", "due", "sent", "good", "bad"}]
    <3>1. /\ pending' \subseteq Callers \X Gens
          /\ req' \in [Requests -> {"start", "wait", "send", "sent", "late", "done"}]
          /\ answer' \in [Requests -> {"none", "good", "bad", "timeout", "closed"}]
      BY <1>7 DEF OnRequestTimeout
    <3>2. CASE UNCHANGED <<inFlight, ping>>
      BY <3>1, <3>2
    <3>3. CASE /\ inFlight' = inFlight \cup {target[r]}
               /\ \/ UNCHANGED ping
                  \/ ping' = [ping EXCEPT ![target[r]] = "due"]
      <4>1. inFlight' \subseteq Gens
        BY <2>1, <3>3
      <4>2. ping' \in [Gens -> {"none", "due", "sent", "good", "bad"}]
        BY <2>1, <3>3
      <4> QED BY <3>1, <4>1, <4>2
    <3>4. CASE child = target[r] /\ status = "up"
      <4>1. /\ inFlight' = inFlight \cup {target[r]}
            /\ ping' = IF target[r] \in inFlight THEN ping
                       ELSE [ping EXCEPT ![target[r]] = "due"]
        BY <1>7, <3>4 DEF OnRequestTimeout
      <4> QED BY <3>3, <4>1, Zenon
    <3>5. CASE ~(child = target[r] /\ status = "up")
      <4>1. UNCHANGED <<inFlight, ping>>
        BY <1>7, <3>5 DEF OnRequestTimeout
      <4> QED BY <3>2, <4>1
    <3> QED BY <3>4, <3>5
  <2>3. UNCHANGED <<callerRest, changed, events, hello, target>>
    BY <1>7 DEF OnRequestTimeout
  <2> QED BY <2>2, <2>3
<1> QED BY <1>1, <1>2, <1>3, <1>4, <1>5, <1>6, <1>7 DEF Request

LEMMA TypePing ==
  ASSUME TypeOK, NEW g \in Gens, Ping(g)
  PROVE  TypeOK'
<1> USE DEF TypeOK, callerRest, lifeVars, userVars
<1>1. CASE SendPing(g)
  <2>1. "ping" \in Callers /\ (Send("ping", g) \/ SendFails(g))
    BY <1>1 DEF SendPing, Callers
  <2>2. pending' \subseteq Callers \X Gens
    BY <2>1, SendTyped
  <2>3. PICK pc \in {"sent", "none"} : ping' = [ping EXCEPT ![g] = pc]
    BY <1>1, Zenon DEF SendPing
  <2>4. UNCHANGED <<callerRest, changed, inFlight, events, hello, req, target, answer>>
    BY <1>1 DEF SendPing
  <2> QED BY <2>2, <2>3, <2>4
<1>2. CASE PingTimesOut(g)
  BY <1>2 DEF PingTimesOut
<1>3. CASE JudgePing(g)
  <2>1. events' \in [Gens -> Seq(Event)]
    BY <1>3, EmitTyped DEF JudgePing, Event
  <2>2. inFlight' \subseteq Gens
    BY <1>3 DEF JudgePing
  <2>3. ping' \in [Gens -> {"none", "due", "sent", "good", "bad"}]
    BY <1>3 DEF JudgePing
  <2>4. UNCHANGED <<callerRest, changed, pending, hello, req, target, answer>>
    BY <1>3 DEF JudgePing
  <2> QED BY <2>1, <2>2, <2>3, <2>4 DEF Event
<1> QED BY <1>1, <1>2, <1>3 DEF Ping

\* A restarter that comes to its call is one more.
LEMMA OneMoreCalled ==
  ASSUME SupervisorAssumption, TypeOK, NEW c \in Restarters, NEW pc, pc # "idle",
         restarter[c] = "idle", RestartTo(c, pc)
  PROVE  /\ Cardinality(Called) \in Nat
         /\ Cardinality(Called') = Cardinality(Called) + 1
         /\ Cardinality(Called') <= Cardinality(Restarters)
         /\ Cardinality(Restarters) \in Nat
<1>1. Called' = Called \cup {c} /\ c \notin Called /\ Called' \subseteq Restarters
  BY DEF TypeOK, Called, RestartTo
<1>2. IsFiniteSet(Called) /\ IsFiniteSet(Called')
  BY <1>1, FS_Subset DEF SupervisorAssumption
<1>3. Cardinality(Called') = Cardinality(Called) + 1
  BY <1>1, <1>2, FS_AddElement
<1>4. /\ Cardinality(Called) \in Nat /\ Cardinality(Restarters) \in Nat
      /\ Cardinality(Called') <= Cardinality(Restarters)
  BY <1>1, <1>2, FS_Subset, FS_CardinalityType DEF SupervisorAssumption
<1> QED BY <1>3, <1>4

\* There are never more calls than callers.
LEMMA CalledBound ==
  ASSUME SupervisorAssumption
  PROVE  /\ Cardinality(Called) \in Nat /\ Cardinality(Restarters) \in Nat
         /\ Cardinality(Called) <= Cardinality(Restarters)
<1>1. Called \subseteq Restarters
  BY DEF Called
<1> QED BY <1>1, FS_Subset, FS_CardinalityType DEF SupervisorAssumption

\* A step that neither begins an epoch nor ends a call keeps the count.
LEMMA BudgetKept ==
  ASSUME Budget, UNCHANGED <<epoch, shutting, restarter>>
  PROVE  Budget'
BY DEF Budget, Called

LEMMA TypeStart ==
  ASSUME TypeOK, Budget, Start
  PROVE  TypeOK' /\ Budget'
<1>1. at' \in [Epochs -> Places]
  BY GotoTyped DEF TypeOK, Start, Places
<1>2. /\ status' \in {"starting", "up", "restarting", "unavailable"}
      /\ upGen' \in Gens \cup {0} /\ changed' \subseteq Requests
  BY TransitionTyped DEF Start
<1>3. started' \in BOOLEAN
  BY Zenon DEF Start
<1>4. UNCHANGED <<epoch, shutting, generation, child, inFlight, pending, crashes, mine, loose,
                  seen, procVars, callVars, userVars>>
  BY DEF Start
<1>5. TypeOK'
  BY <1>1, <1>2, <1>3, <1>4 DEF TypeOK, procVars, callVars, userVars
<1>6. UNCHANGED <<epoch, shutting, restarter>>
  BY <1>4 DEF userVars
<1> QED BY <1>5, <1>6, BudgetKept

LEMMA TypeRestarting ==
  ASSUME SupervisorAssumption, TypeOK, Budget, NEW c \in Restarters, Restarting(c)
  PROVE  TypeOK' /\ Budget'
<1>1. CASE Restart(c) /\ ~shutting
  <2>1. RestartTo(c, "holding") /\ restarter[c] = "idle" /\ epoch' = epoch + 1 /\ UNCHANGED shutting
    BY <1>1 DEF Restart
  <2>2. Cardinality(Called') = Cardinality(Called) + 1
    BY <2>1, OneMoreCalled
  <2>3. Budget'
    BY <1>1, <2>1, <2>2, CalledBound DEF Budget, TypeOK, Epochs
  <2>4. epoch' \in Epochs
    <3>1. epoch \in Nat
      BY CalledBound DEF TypeOK, Epochs
    <3>2. /\ Cardinality(Called) \in Nat /\ Cardinality(Restarters) \in Nat
          /\ Cardinality(Called) + 1 <= Cardinality(Restarters)
      BY <2>1, OneMoreCalled
    <3>3. epoch <= Cardinality(Called)
      BY <1>1, <3>1, <3>2 DEF Budget
    <3> QED BY <2>1, <3>1, <3>2, <3>3 DEF Epochs
  <2>5. at' \in [Epochs -> Places]
    BY <1>1, <2>1, <2>4, GotoTyped DEF Restart, Places
  <2>6. /\ status' \in {"starting", "up", "restarting", "unavailable"}
        /\ upGen' \in Gens \cup {0} /\ changed' \subseteq Requests
    BY <1>1, TransitionTyped DEF Restart
  <2>7. /\ pending' \subseteq Callers \X Gens
        /\ answer' \in [Requests -> {"none", "good", "bad", "timeout", "closed"}]
        /\ hello' \in [Gens -> {"none", "good", "bad"}]
        /\ ping' \in [Gens -> {"none", "due", "sent", "good", "bad"}]
    BY <1>1, ResolveTyped DEF Restart
  <2>8. /\ child' \in Gens \cup {0}
        /\ proc' \in [Gens -> {"none", "running", "killing", "exited", "reaped"}]
    BY <1>1, DropTyped DEF Restart
  <2>9. started' \in BOOLEAN /\ crashes' \in Nat
    <3>1. started' = TRUE /\ crashes' = 0
      BY <1>1 DEF Restart
    <3> QED BY <3>1
  <2>10. restarter' \in [Restarters -> {"idle", "holding", "joined", "done"}]
    BY <2>1 DEF TypeOK, RestartTo
  <2>11. UNCHANGED <<shutting, generation, inFlight, mine, loose, seen, reading, events, req,
                     target, shutter, taken>>
    BY <1>1 DEF Restart
  <2> QED
    BY <2>3, <2>4, <2>5, <2>6, <2>7, <2>8, <2>9, <2>10, <2>11 DEF TypeOK
<1>2. ASSUME NEW pc \in {"joined", "done"}, RestartTo(c, pc), UNCHANGED restartRest
      PROVE  TypeOK' /\ Budget'
  <2>1. restarter' \in [Restarters -> {"idle", "holding", "joined", "done"}]
    BY <1>2 DEF TypeOK, RestartTo
  <2>2. TypeOK'
    BY <1>2, <2>1 DEF TypeOK, restartRest, gateVars, innerVars, lifeVars, procVars, callVars
  <2>3. UNCHANGED <<epoch, shutting>>
    BY <1>2 DEF restartRest, innerVars
  <2>4. CASE restarter[c] = "idle"
    <3>1. Cardinality(Called') = Cardinality(Called) + 1
      BY <1>2, <2>4, OneMoreCalled
    <3>2. epoch \in Nat /\ Cardinality(Called) \in Nat
      BY CalledBound DEF TypeOK, Epochs
    <3>3. Budget'
      BY <2>3, <3>1, <3>2 DEF Budget
    <3> QED BY <2>2, <3>3
  <2>5. CASE restarter[c] # "idle"
    <3>1. Called' = Called
      BY <1>2, <2>5 DEF TypeOK, Called, RestartTo
    <3> QED BY <2>2, <2>3, <3>1 DEF Budget
  <2> QED BY <2>4, <2>5
<1>3. CASE Restart(c) /\ shutting
  <2>1. RestartTo(c, "done") /\ UNCHANGED restartRest
    BY <1>3
    DEF Restart, restartRest, gateVars, innerVars, lifeVars, procVars, callVars
  <2> QED BY <1>2, <2>1
<1>4. CASE Join(c) \/ JoinEnds(c) \/ RestartEnds(c) \/ RestartGivesUp(c)
  BY <1>2, <1>4 DEF Join, JoinEnds, RestartEnds, RestartGivesUp
<1> QED BY <1>1, <1>3, <1>4 DEF Restarting

LEMMA TypeShutdown ==
  ASSUME SupervisorAssumption, TypeOK, Budget, Ahead, Shutdown
  PROVE  TypeOK' /\ Budget'
<1> USE DEF shutdownRest, gateVars, lifeVars, callVars
<1>1. CASE BeginShutdown
  <2>1. ~shutting /\ shutting' = TRUE /\ epoch' = epoch + 1 /\ UNCHANGED restarter
    BY <1>1 DEF Ahead, BeginShutdown
  <2>2. Called' = Called
    BY <2>1 DEF Called
  <2>3. epoch' \in Epochs /\ Budget'
    BY <2>1, <2>2, CalledBound DEF Budget, TypeOK, Epochs
  <2>4. taken' \in Gens \cup {0} /\ shutter' = "begun" /\ UNCHANGED <<shutdownRest, child, proc, pending>>
    BY <1>1 DEF TypeOK, BeginShutdown
  <2> QED BY <2>1, <2>3, <2>4 DEF TypeOK
<1>2. CASE AskShutdown
  <2>1. pending' \subseteq Callers \X Gens
    <3>1. CASE taken = 0
      BY <1>2, <3>1 DEF TypeOK, AskShutdown
    <3>2. CASE taken # 0
      <4>1. taken \in Gens /\ "shutdown" \in Callers
        BY <3>2 DEF TypeOK, Callers
      <4> QED BY <1>2, <3>2, <4>1, SendTyped DEF AskShutdown
    <3> QED BY <3>1, <3>2
  <2>2. shutter' = "asked" /\ UNCHANGED <<shutdownRest, epoch, shutting, child, proc, taken>>
    BY <1>2 DEF AskShutdown
  <2> QED BY <2>1, <2>2, BudgetKept DEF TypeOK
<1>3. CASE TakeChild
  BY <1>3, BudgetKept DEF TypeOK, TakeChild
<1>4. CASE ShutdownExit \/ ShutdownGivesUp
  BY <1>4, BudgetKept DEF TypeOK, ShutdownExit, ShutdownGivesUp
<1>5. CASE ShutdownKills
  <2>1. proc' \in [Gens -> {"none", "running", "killing", "exited", "reaped"}]
    BY <1>5, KillTyped DEF ShutdownKills
  <2> QED BY <1>5, <2>1, BudgetKept DEF TypeOK, ShutdownKills
<1> QED BY <1>1, <1>2, <1>3, <1>4, <1>5 DEF Shutdown

\* Every step keeps the types and the count of the epochs.
LEMMA TypeStep ==
  ASSUME SupervisorAssumption, TypeOK, Budget, Named, Ahead, [Next]_vars
  PROVE  TypeOK' /\ Budget'
<1>1. ASSUME NEW e \in Epochs, Lifecycle(e) PROVE TypeOK' /\ Budget'
  <2>1. TypeOK'
    BY <1>1, TypeAttach, TypeGreet, TypeUp DEF Lifecycle
  <2>2. UNCHANGED <<epoch, shutting, restarter>>
    BY <1>1
    DEF Lifecycle, Launch, LaunchFails, Attach, attachRest, Greet, TakeHello,
           TakeEarlyEvent,
        ExitedBeforeHello, HelloTimesOut, CancelEarly, GoUp, LoseUpChild, DropLost, CancelUp,
        RecordCrash, EndBackoff, GoUnavailable, innerVars, innerRest, userVars
  <2> QED BY <2>1, <2>2, BudgetKept
<1>2. ASSUME NEW g \in Gens, Child(g) PROVE TypeOK' /\ Budget'
  <2>1. UNCHANGED <<epoch, shutting, restarter>>
    BY <1>2
    DEF Child, Exits, WatchExit, Route, RouteNull, ReaderEnds, childRest, innerRest,
           userVars
  <2> QED BY <1>2, <2>1, TypeChild, BudgetKept
<1>3. ASSUME NEW g \in Gens, Ping(g) PROVE TypeOK' /\ Budget'
  <2>1. UNCHANGED <<epoch, shutting, restarter>>
    BY <1>3 DEF Ping, SendPing, PingTimesOut, JudgePing, callerRest, userVars
  <2> QED BY <1>3, <2>1, TypePing, BudgetKept
<1>4. ASSUME NEW r \in Requests, Request(r) PROVE TypeOK' /\ Budget'
  <2>1. UNCHANGED <<epoch, shutting, restarter>>
    BY <1>4
    DEF Request, ReadGate, SendRequest, SendRejected, WaitTimesOut, TakeReply, Elapse,
        OnRequestTimeout, callerRest, userVars
  <2> QED BY <1>4, <2>1, TypeRequest, BudgetKept
<1>5. CASE (\E e \in Epochs : LooseEnds(e)) \/ UNCHANGED vars
  <2>1. Idle
    BY <1>5, LooseEndsIdly
  <2>2. loose' \in [Epochs -> {"none", "running", "killing"}]
    <3>1. loose \in [Epochs -> {"none", "running", "killing"}]
      BY DEF TypeOK
    <3>2. \/ UNCHANGED loose
          \/ \E e \in Epochs : loose' = [loose EXCEPT ![e] = "none"]
      BY <1>5 DEF LooseEnds, vars, lifeVars
    <3> QED BY <3>1, <3>2
  <2> QED
    BY <2>1, <2>2, BudgetKept
    DEF TypeOK, Idle, gateVars, innerVars, procVars, callVars, userVars
<1> QED
  BY <1>1, <1>2, <1>3, <1>4, <1>5, TypeStart, TypeRestarting, TypeShutdown DEF Next

-----------------------------------------------------------------------------
(* The lifecycle of epoch e, as the rest of the supervisor sees it: it     *)
(* works, lets go of its child, attaches a child or publishes what it is   *)
(* doing.  Only the current lifecycle does the last two.                   *)

Cancelled(e) == e # epoch \/ shutting

Works(e) ==
  /\ UNCHANGED <<child, proc, mine, generation, status, upGen>>
  /\ \/ at[e] = "launch" /\ at'[e] \in {"launched", "unusable"}
     \/ at[e] = "greet" /\ at'[e] = "hello"
     \/ at[e] = "hello" /\ at'[e] \in {"hello", "greeted"}
     \/ at[e] = "up" /\ at'[e] = "losing"
     \/ at'[e] = "over" /\ (Cancelled(e) \/ (at[e] = "greeted" /\ child # mine[e]))

LetsGo(e) ==
  /\ at[e] \in {"hello", "losing"} /\ at'[e] \in {"unusable", "crashed"}
  /\ DropChild(mine[e])
  /\ UNCHANGED <<mine, generation, status, upGen>>

Attaches(e) ==
  /\ at[e] = "launched" /\ at'[e] = "greet" /\ ~Cancelled(e)
  /\ generation' = generation + 1 /\ generation' \in Gens
  /\ child' = generation'
  /\ proc' = [proc EXCEPT ![generation'] = "running"]
  /\ mine' = [mine EXCEPT ![e] = generation']
  /\ UNCHANGED <<status, upGen>>

Publishes(e) ==
  /\ e = epoch
  /\ UNCHANGED <<mine, generation>>
  /\ \/ /\ at[e] = "greeted" /\ at'[e] = "up"
        /\ child = mine[e] /\ status' = "up" /\ upGen' = mine[e]
        /\ UNCHANGED <<child, proc>>
     \/ /\ at[e] = "crashed" /\ at'[e] = "over" /\ status' = "unavailable" /\ upGen' = 0
        /\ UNCHANGED <<child, proc>>
     \/ /\ at[e] = "crashed" /\ at'[e] = "backoff" /\ status' = "restarting" /\ upGen' = 0
        /\ UNCHANGED <<child, proc>>
     \/ /\ at[e] = "backoff" /\ at'[e] = "launch" /\ status' = "starting" /\ upGen' = 0
        /\ UNCHANGED <<child, proc>>
     \/ /\ at[e] = "unusable" /\ at'[e] = "over" /\ status' = "unavailable" /\ upGen' = 0
        /\ KillSlot

\* What no step of a lifecycle does.
Reserved(e) ==
  /\ UNCHANGED <<epoch, started, shutting, inFlight, req, target, shutter, taken>>
  /\ \A f \in Epochs \ {e} : at'[f] = at[f]
  /\ \A f \in Epochs \ {e} : loose'[f] = loose[f]
  /\ loose'[e] = "running" =>
       at'[e] = "launched" \/ (loose[e] = "running" /\ at[e] # "launched")
  /\ at[e] # "none"
  /\ \A g \in Gens : ping'[g] = "none" => ping[g] = "none"

\* What is failed is not forgotten.
LEMMA ResolveAnswers ==
  ASSUME TypeOK, NEW settled, NEW kind \in {"good", "bad"}, Resolve(settled, kind)
  PROVE  \A g \in Gens : ping'[g] = "none" => ping[g] = "none"
BY DEF TypeOK, Resolve

LEMMA LifecycleViewed ==
  ASSUME TypeOK, NEW e \in Epochs, Lifecycle(e)
  PROVE  Reserved(e) /\ (Works(e) \/ LetsGo(e) \/ Attaches(e) \/ Publishes(e))
<1> USE GotoMoves DEF Reserved, gateVars, innerVars, innerRest, lifeVars, procVars, callVars,
                      userVars, afterHello
<1>0. loose \in [Epochs -> {"none", "running", "killing"}]
  BY DEF TypeOK
<1>1. CASE Attach(e) /\ (epoch # e \/ shutting)
  BY <1>0, <1>1 DEF Attach, attachRest, Works, Cancelled
<1>2. CASE Attach(e) /\ ~(epoch # e \/ shutting)
  <2>1. Reserved(e)
    BY <1>0, <1>2 DEF Attach, Adopt, attachRest
  <2>2. Attaches(e)
    BY <1>2 DEF Attach, Adopt, attachRest, Attaches, Cancelled
  <2> QED BY <2>1, <2>2
<1>17. CASE Launch(e)
  BY <1>0, <1>17 DEF Launch, Works
<1>3. CASE LaunchFails(e)
  BY <1>3 DEF LaunchFails, Works
<1>4. CASE Greet(e)
  BY <1>4 DEF Greet, Works
<1>5. CASE TakeHello(e)
  BY <1>5 DEF TakeHello, Works, LetsGo
<1>6. CASE TakeEarlyEvent(e)
  <2>1. CASE Leave(e, "crashed") /\ DropChild(mine[e])
    BY <1>6, <2>1 DEF TakeEarlyEvent, LetsGo
  <2>2. CASE UNCHANGED <<at, child, proc>>
    BY <1>6, <2>2 DEF TakeEarlyEvent, Works
  <2> QED BY <1>6, <2>1, <2>2 DEF TakeEarlyEvent
<1>7. CASE ExitedBeforeHello(e)
  BY <1>7 DEF ExitedBeforeHello, LetsGo
<1>8. CASE HelloTimesOut(e)
  BY <1>8 DEF HelloTimesOut, LetsGo
<1>9. CASE CancelEarly(e)
  BY <1>9 DEF CancelEarly, Works, Cancelled
<1>10. CASE GoUp(e)
  BY <1>10 DEF GoUp, Works, Cancelled, Publishes, Transition
<1>11. CASE LoseUpChild(e)
  <2>1. \A g \in Gens : ping'[g] = "none" => ping[g] = "none"
    BY <1>11, ResolveAnswers DEF LoseUpChild
  <2> QED BY <1>11, <2>1 DEF LoseUpChild, Works, Cancelled
<1>12. CASE DropLost(e)
  BY <1>12 DEF DropLost, LetsGo
<1>13. CASE CancelUp(e)
  BY <1>13 DEF CancelUp, Works, Cancelled
<1>14. CASE RecordCrash(e)
  BY <1>14 DEF RecordCrash, Works, Cancelled, Publishes, Transition
<1>15. CASE EndBackoff(e)
  BY <1>15 DEF EndBackoff, Works, Cancelled, Publishes, Transition
<1>16. CASE GoUnavailable(e)
  BY <1>16 DEF GoUnavailable, Works, Cancelled, Publishes, Transition
<1> QED
  BY <1>1, <1>2, <1>3, <1>4, <1>5, <1>6, <1>7, <1>8, <1>9, <1>10, <1>11, <1>12, <1>13,
     <1>14, <1>15, <1>16, <1>17 DEF Lifecycle

\* The steps of a lifecycle keep the invariant.
LEMMA LifecycleStep ==
  ASSUME IInv, NEW e \in Epochs, Lifecycle(e), TypeOK'
  PROVE  /\ Named' /\ Ahead' /\ Owned' /\ Slot'
         /\ ChildHeld' /\ StatusIsOfTheLifecycle' /\ PingFlagIsHonest'
<1> USE DEF IInv
<1>0. Reserved(e)
  BY LifecycleViewed
<1>1. e <= epoch /\ started /\ (shutting => e # epoch)
  BY <1>0 DEF Reserved, Ahead, TypeOK, Epochs
<1>2. CASE Works(e)
  <2>1. ~shutting /\ e = epoch => ~(at[e] = "greeted" /\ child # mine[e])
    BY DEF Slot, Attached
  <2>2. Named' /\ Ahead' /\ Owned'
    BY <1>0, <1>1, <1>2, <2>1
    DEF Reserved, Works, Cancelled, Named, Ahead, Owned, Attached, TypeOK
  <2>3. Slot' /\ StatusIsOfTheLifecycle'
    BY <1>0, <1>1, <1>2, <2>1
    DEF Reserved, Works, Cancelled, Slot, Attached, StatusIsOfTheLifecycle, TypeOK
  <2>4. ChildHeld' /\ PingFlagIsHonest'
    BY <1>0, <1>2 DEF Reserved, Works, ChildHeld, PingFlagIsHonest, TypeOK
  <2> QED BY <2>2, <2>3, <2>4
<1>3. CASE LetsGo(e)
  <2>1. /\ \A h \in Gens : proc'[h] = "running" => proc[h] = "running"
        /\ child' # child => /\ child' = 0
                             /\ \A h \in Gens : proc'[h] = "running" => h # child
    BY <1>3, DropEnds DEF LetsGo
  <2>2. e # epoch /\ ~shutting => child' = child
    BY <1>3 DEF LetsGo, DropChild, KillSlot, Slot, Owned, TypeOK
  <2>3. e = epoch => child' = 0
    BY <1>1, <1>3 DEF LetsGo, DropChild, KillSlot, Slot, Attached
  <2>4. Named' /\ Ahead' /\ Owned'
    BY <1>0, <1>1, <1>3, <2>1 DEF Reserved, LetsGo, Named, Ahead, Owned, Attached, TypeOK,
           Gens
  <2>5. Slot' /\ StatusIsOfTheLifecycle'
    BY <1>0, <1>1, <1>3, <2>2, <2>3
    DEF Reserved, LetsGo, Slot, Attached, StatusIsOfTheLifecycle, TypeOK
  <2>6. ChildHeld' /\ PingFlagIsHonest'
    BY <1>0, <2>1 DEF Reserved, ChildHeld, PingFlagIsHonest, TypeOK, Gens
  <2> QED BY <2>4, <2>5, <2>6
<1>4. CASE Attaches(e)
  <2>1. e = epoch /\ ~shutting /\ child = 0
    BY <1>4 DEF Attaches, Cancelled, Slot, Attached
  <2>2. generation \in Nat /\ generation' = generation + 1
    BY <1>4 DEF Attaches, TypeOK, Gens
  <2>3. mine'[e] = generation' /\ \A f \in Epochs \ {e} : mine'[f] = mine[f]
    BY <1>4 DEF Attaches, TypeOK
  <2>4. \A f \in Epochs : mine[f] \in Nat
    BY DEF TypeOK, Gens
  <2>5. Named' /\ Ahead'
    BY <1>0, <1>1, <1>4, <2>3 DEF Reserved, Attaches, Named, Ahead, Attached, TypeOK, Gens
  <2>6. Owned'
    BY <1>0, <1>4, <2>1, <2>2, <2>3, <2>4 DEF Reserved, Attaches, Owned, TypeOK, Gens
  <2>7. Slot' /\ StatusIsOfTheLifecycle'
    BY <1>0, <1>1, <1>4, <2>1, <2>3
    DEF Reserved, Attaches, Slot, Attached, StatusIsOfTheLifecycle, TypeOK
  <2>8. ChildHeld'
    BY <1>0, <1>4, <2>1 DEF Reserved, Attaches, ChildHeld, Ahead, TypeOK, Gens
  <2>9. PingFlagIsHonest'
    BY <1>0, <1>4, <2>2 DEF Reserved, Attaches, PingFlagIsHonest, Owned, TypeOK, Gens
  <2> QED BY <2>5, <2>6, <2>7, <2>8, <2>9
<1>5. CASE Publishes(e)
  <2>1. /\ \A h \in Gens : proc'[h] = "running" => proc[h] = "running"
        /\ child' # child => /\ child' = 0
                             /\ \A h \in Gens : proc'[h] = "running" => h # child
    BY <1>5, DropEnds DEF Publishes, TypeOK
  <2>2. Named' /\ Ahead'
    BY <1>0, <1>1, <1>5 DEF Reserved, Publishes, Named, Ahead, Attached, TypeOK
  <2>3. Owned'
    BY <1>0, <1>5, <2>1 DEF Reserved, Publishes, Owned, TypeOK, Gens
  <2>4. Slot' /\ StatusIsOfTheLifecycle'
    BY <1>0, <1>1, <1>5
    DEF Reserved, Publishes, Slot, Attached, StatusIsOfTheLifecycle, TypeOK, KillSlot
  <2>5. ChildHeld' /\ PingFlagIsHonest'
    BY <1>0, <2>1 DEF Reserved, ChildHeld, PingFlagIsHonest, TypeOK, Gens
  <2> QED BY <2>2, <2>3, <2>4, <2>5
<1> QED BY <1>2, <1>3, <1>4, <1>5, LifecycleViewed

-----------------------------------------------------------------------------
(* Everybody else.                                                         *)

\* Requests, pings and children change neither the slot nor the lifecycles, ...
LEMMA QuietStep ==
  ASSUME IInv,
         UNCHANGED <<status, upGen, at, mine, epoch, started, shutting, generation, child,
                     shutter, taken>>,
         \A h \in Gens : proc'[h] = "running" => proc[h] = "running"
  PROVE  Ahead' /\ Slot' /\ ChildHeld' /\ StatusIsOfTheLifecycle'
BY DEF IInv, Ahead, Slot, ChildHeld, StatusIsOfTheLifecycle

\* ... and a ping that is under way is answered, but not forgotten.
LEMMA PingKept ==
  ASSUME IInv, UNCHANGED <<child, inFlight>>,
         \A h \in Gens : proc'[h] = "running" => proc[h] = "running",
         \A g \in Gens : ping'[g] = "none" => ping[g] = "none"
  PROVE  PingFlagIsHonest'
BY DEF IInv, TypeOK, PingFlagIsHonest

LEMMA ChildStep ==
  ASSUME IInv, NEW g \in Gens, Child(g)
  PROVE  /\ Named' /\ Ahead' /\ Owned' /\ Slot'
         /\ ChildHeld' /\ StatusIsOfTheLifecycle' /\ PingFlagIsHonest'
<1>1. UNCHANGED <<status, upGen, at, mine, epoch, started, shutting, generation, child,
                  shutter, taken, inFlight, req, target>>
  BY DEF Child, Exits, WatchExit, Route, RouteNull, ReaderEnds, childRest, gateVars,
         innerRest,
         lifeVars, userVars, callVars
<1>2. \A h \in Gens : proc'[h] = "running" => proc[h] = "running"
  BY DEF IInv, TypeOK, Child, Exits, WatchExit, Route, RouteNull, ReaderEnds, procVars
<1>3. \A h \in Gens : ping'[h] = "none" => ping[h] = "none"
  <2>1. CASE Exits(g) \/ WatchExit(g) \/ ReaderEnds(g)
    BY <2>1 DEF Exits, WatchExit, ReaderEnds, callVars
  <2>2. CASE Route(g) \/ RouteNull(g)
    BY <2>2, ResolveAnswers DEF IInv, Route, RouteNull
  <2> QED BY <2>1, <2>2 DEF Child
<1>4. Named' /\ Owned'
  BY <1>1 DEF IInv, Named, Owned
<1> QED BY <1>1, <1>2, <1>3, <1>4, QuietStep, PingKept

LEMMA RequestStep ==
  ASSUME IInv, NEW r \in Requests, Request(r)
  PROVE  /\ Named' /\ Ahead' /\ Owned' /\ Slot'
         /\ ChildHeld' /\ StatusIsOfTheLifecycle' /\ PingFlagIsHonest'
<1>1. UNCHANGED <<status, upGen, at, mine, epoch, started, shutting, generation, child,
                  shutter, taken, proc>>
  BY DEF Request, ReadGate, SendRequest, SendRejected, WaitTimesOut, TakeReply, Elapse,
         OnRequestTimeout, callerRest, lifeVars, userVars
<1>2. CASE OnRequestTimeout(r)
  <2>1. Named'
    BY <1>1, <1>2 DEF IInv, TypeOK, Named, OnRequestTimeout, AskTo
  <2>2. CASE child = target[r] /\ status = "up"
    <3>1. inFlight' = inFlight \cup {child}
      BY <1>2, <2>2 DEF OnRequestTimeout
    <3>2. \A g \in inFlight' : ping'[g] = "none" => g \in inFlight /\ ping[g] = "none"
      <4>1. ping' = IF child \in inFlight THEN ping ELSE [ping EXCEPT ![child] = "due"]
        BY <1>2, <2>2 DEF OnRequestTimeout
      <4>2. child \in Gens /\ inFlight \subseteq Gens
        BY <1>2, <2>2 DEF IInv, TypeOK, Named, OnRequestTimeout
      <4> QED BY <3>1, <4>1, <4>2 DEF IInv, TypeOK
    <3>3. Owned'
      BY <1>1, <3>1 DEF IInv, Owned
    <3>4. PingFlagIsHonest'
      BY <1>1, <3>2 DEF IInv, PingFlagIsHonest
    <3> QED BY <1>1, <2>1, <3>3, <3>4, QuietStep
  <2>3. CASE ~(child = target[r] /\ status = "up")
    <3>1. UNCHANGED <<inFlight, ping>>
      BY <1>2, <2>3 DEF OnRequestTimeout
    <3>2. Owned'
      BY <1>1, <3>1 DEF IInv, Owned
    <3> QED BY <1>1, <2>1, <3>1, <3>2, QuietStep, PingKept
  <2> QED BY <2>2, <2>3
<1>3. CASE ReadGate(r) \/ SendRequest(r) \/ SendRejected(r) \/ WaitTimesOut(r)
             \/ TakeReply(r) \/ Elapse(r)
  <2>1. UNCHANGED <<inFlight, ping>>
    BY <1>3 DEF ReadGate, SendRequest, SendRejected, WaitTimesOut, TakeReply, Elapse
  <2>2. Named'
    <3>1. CASE ReadGate(r)
      BY <1>1, <3>1 DEF IInv, TypeOK, Named, ReadGate, AskTo
    <3>2. CASE SendRequest(r) \/ SendRejected(r) \/ WaitTimesOut(r) \/ TakeReply(r) \/ Elapse(r)
      BY <1>1, <3>2
      DEF IInv, TypeOK, Named, SendRequest, SendRejected, WaitTimesOut, TakeReply, Elapse,
             AskTo
    <3> QED BY <1>3, <3>1, <3>2
  <2>3. Owned'
    BY <1>1, <2>1 DEF IInv, Owned
  <2> QED BY <1>1, <2>1, <2>2, <2>3, QuietStep, PingKept
<1> QED BY <1>2, <1>3 DEF Request

LEMMA PingStep ==
  ASSUME IInv, NEW g \in Gens, Ping(g)
  PROVE  /\ Named' /\ Ahead' /\ Owned' /\ Slot'
         /\ ChildHeld' /\ StatusIsOfTheLifecycle' /\ PingFlagIsHonest'
<1>1. UNCHANGED <<status, upGen, at, mine, epoch, started, shutting, generation, child,
                  shutter, taken, proc, req, target>>
  BY DEF Ping, SendPing, PingTimesOut, JudgePing, callerRest, lifeVars, userVars
<1>2. Named'
  BY <1>1 DEF IInv, Named
<1>3. inFlight' \subseteq inFlight
  BY DEF Ping, SendPing, PingTimesOut, JudgePing
<1>4. Owned'
  BY <1>1, <1>3 DEF IInv, Owned
<1>5. PingFlagIsHonest'
  <2>1. CASE SendPing(g)
    BY <1>1, <2>1 DEF IInv, TypeOK, PingFlagIsHonest, SendPing, Send, SendFails, MaySendFail
  <2>2. CASE PingTimesOut(g)
    BY <1>1, <2>2 DEF IInv, TypeOK, PingFlagIsHonest, PingTimesOut
  <2>3. CASE JudgePing(g)
    BY <1>1, <2>3 DEF IInv, TypeOK, PingFlagIsHonest, JudgePing
  <2> QED BY <2>1, <2>2, <2>3 DEF Ping
<1> QED BY <1>1, <1>2, <1>4, <1>5, QuietStep

LEMMA StartStep ==
  ASSUME IInv, Start
  PROVE  /\ Named' /\ Ahead' /\ Owned' /\ Slot'
         /\ ChildHeld' /\ StatusIsOfTheLifecycle' /\ PingFlagIsHonest'
<1> USE DEF IInv
<1>1. /\ ~started /\ ~shutting /\ started' = TRUE /\ status' = "starting" /\ upGen' = 0
      /\ UNCHANGED <<epoch, shutting, generation, child, inFlight, mine, proc, ping, req,
                     target, shutter, taken>>
  BY DEF Start, Transition, procVars, callVars, userVars
<1>2. epoch \in Epochs /\ at'[epoch] = "launch" /\ \A f \in Epochs \ {epoch} : at'[f] = "none"
  BY DEF Start, TypeOK, Goto, Ahead
<1>3. at[epoch] = "none"
  BY <1>1, <1>2 DEF Ahead
<1>4. Named' /\ Ahead' /\ Owned'
  BY <1>1, <1>2 DEF Named, Ahead, Owned, Attached, TypeOK, Epochs
<1>5. Slot' /\ StatusIsOfTheLifecycle'
  BY <1>1, <1>2, <1>3 DEF Slot, StatusIsOfTheLifecycle, Attached
<1>6. ChildHeld' /\ PingFlagIsHonest'
  BY <1>1 DEF ChildHeld, PingFlagIsHonest
<1> QED BY <1>4, <1>5, <1>6

LEMMA RestartingStep ==
  ASSUME IInv, NEW c \in Restarters, Restarting(c), TypeOK'
  PROVE  /\ Named' /\ Ahead' /\ Owned' /\ Slot'
         /\ ChildHeld' /\ StatusIsOfTheLifecycle' /\ PingFlagIsHonest'
<1> USE DEF IInv
<1>1. CASE Restart(c) /\ ~shutting
  <2>1. /\ epoch' = epoch + 1 /\ started' = TRUE /\ status' = "starting" /\ upGen' = 0
        /\ child' = 0
        /\ UNCHANGED <<shutting, generation, inFlight, mine, req, target, shutter, taken>>
    BY <1>1 DEF Restart, Transition, KillSlot
  <2>2. epoch + 1 \in Epochs /\ epoch \in Nat
    BY <2>1 DEF TypeOK, Epochs
  <2>3. at'[epoch'] = "launch" /\ \A f \in Epochs \ {epoch'} : at'[f] = at[f]
    BY <1>1, <2>1, <2>2, GotoMoves DEF Restart
  <2>4. \A h \in Gens : proc'[h] = "running" => proc[h] = "running" /\ h # child
    BY <1>1 DEF Restart, KillSlot, Kill, TypeOK
  <2>5. Named' /\ Ahead'
    BY SMTT(20), <1>1, <2>1, <2>2, <2>3 DEF Named, Ahead, Attached, TypeOK, Epochs
  <2>6. Owned' /\ Slot' /\ StatusIsOfTheLifecycle'
    BY <2>1, <2>3 DEF Owned, Slot, StatusIsOfTheLifecycle, Attached, TypeOK, Gens
  <2>7. ChildHeld' /\ PingFlagIsHonest'
    BY <2>1, <2>4 DEF ChildHeld, PingFlagIsHonest, TypeOK, Gens
  <2> QED BY <2>5, <2>6, <2>7
<1>2. CASE (Restart(c) /\ shutting) \/ Join(c) \/ JoinEnds(c) \/ RestartEnds(c)
             \/ RestartGivesUp(c)
  <2>1. UNCHANGED <<status, upGen, at, mine, epoch, started, shutting, generation, child,
                    shutter, taken, proc, inFlight, ping, req, target>>
    BY <1>2
    DEF Restart, Join, JoinEnds, RestartEnds, RestartGivesUp, restartRest, gateVars,
           innerVars,
        lifeVars, procVars, callVars
  <2>2. Named' /\ Owned'
    BY <2>1 DEF Named, Owned
  <2> QED BY <2>1, <2>2, QuietStep, PingKept
<1> QED BY <1>1, <1>2 DEF Restarting

LEMMA ShutdownStep ==
  ASSUME IInv, Shutdown, TypeOK'
  PROVE  /\ Named' /\ Ahead' /\ Owned' /\ Slot'
         /\ ChildHeld' /\ StatusIsOfTheLifecycle' /\ PingFlagIsHonest'
<1> USE DEF IInv
<1>1. UNCHANGED <<status, upGen, at, mine, started, generation, inFlight, ping, req, target>>
  BY DEF Shutdown, BeginShutdown, AskShutdown, TakeChild, ShutdownExit, ShutdownKills,
         ShutdownGivesUp, shutdownRest, gateVars, lifeVars, callVars
<1>2. Named'
  BY <1>1 DEF Named
<1>3. /\ child' \in {child, 0} /\ shutting' /\ shutter' # "idle"
      /\ \A h \in Gens : proc'[h] = "running" => proc[h] = "running"
  BY DEF Shutdown, BeginShutdown, AskShutdown, TakeChild, ShutdownExit, ShutdownKills,
         ShutdownGivesUp, Kill, Ahead, TypeOK
<1>4. Owned' /\ Slot' /\ StatusIsOfTheLifecycle' /\ PingFlagIsHonest'
  BY <1>1, <1>3
  DEF Owned, Slot, StatusIsOfTheLifecycle, PingFlagIsHonest, TypeOK, Gens
<1>5. Ahead' /\ ChildHeld'
  <2>1. CASE BeginShutdown
    <3>1. epoch' = epoch + 1 /\ epoch' \in Epochs /\ epoch \in Nat /\ UNCHANGED <<child, proc>>
      BY <2>1 DEF BeginShutdown, TypeOK, Epochs
    <3>2. Ahead'
      BY <1>1, <1>3, <3>1 DEF Ahead, Epochs
    <3>3. ChildHeld'
      BY <2>1, <3>1 DEF BeginShutdown, ChildHeld
    <3> QED BY <3>2, <3>3
  <2>2. CASE ~BeginShutdown
    <3>1. epoch' = epoch /\ shutting' = shutting
      BY <2>2
      DEF Shutdown, AskShutdown, TakeChild, ShutdownExit, ShutdownKills, ShutdownGivesUp
    <3>2. Ahead'
      BY <1>1, <1>3, <3>1 DEF Ahead
    <3>3. ChildHeld'
      BY <2>2
      DEF Shutdown, AskShutdown, TakeChild, ShutdownExit, ShutdownKills, ShutdownGivesUp,
          ChildHeld, Kill, TypeOK, Gens
    <3> QED BY <3>2, <3>3
  <2> QED BY <2>1, <2>2
<1> QED BY <1>2, <1>3, <1>4, <1>5

-----------------------------------------------------------------------------
(* The theorems.                                                           *)

LEMMA InitIInv == ASSUME SupervisorAssumption PROVE Init => IInv
<1> SUFFICES ASSUME Init PROVE IInv
  OBVIOUS
<1> USE DEF Init
<1>1. Cardinality(Restarters) \in Nat
  BY CalledBound
<1>2. 0 \in Epochs
  BY <1>1 DEF Epochs
<1>3. TypeOK
  <2>1. started \in BOOLEAN /\ shutting \in BOOLEAN
    BY Zenon
  <2>2. events \in [Gens -> Seq({"exited", "eof", "corrupt", "pingfailed"})]
    OBVIOUS
  <2>3. at \in [Epochs -> Places] /\ seen \in [Epochs -> SUBSET {"exited", "eof"}]
    BY DEF Places
  <2> QED BY <1>2, <2>1, <2>2, <2>3 DEF TypeOK
<1>4. Budget
  <2>1. Cardinality(Called) \in Nat
    BY CalledBound
  <2> QED BY <2>1 DEF Budget
<1>5. Named /\ Ahead /\ Owned /\ Slot
  BY <1>2 DEF Named, Ahead, Owned, Slot, Attached, Epochs
<1>6. ChildHeld /\ LooseInHand /\ StatusIsOfTheLifecycle /\ PingFlagIsHonest
  BY DEF ChildHeld, LooseInHand, StatusIsOfTheLifecycle, PingFlagIsHonest
<1> QED BY <1>3, <1>4, <1>5, <1>6 DEF IInv

\* A process is launched by a lifecycle that goes on to attach, and stays with it until
\* then; no other step launches one or moves such a lifecycle.
LEMMA LooseStep ==
  ASSUME IInv, TypeOK', [Next]_vars
  PROVE  LooseInHand'
<1> USE DEF IInv, LooseInHand
<1>1. ASSUME NEW e \in Epochs, Lifecycle(e) PROVE LooseInHand'
  BY <1>1, LifecycleViewed DEF Reserved
<1>2. CASE Start
  <2>1. at[epoch] = "none" /\ Goto(epoch, "launch") /\ UNCHANGED loose /\ epoch \in Epochs
    BY <1>2 DEF Start, Ahead, TypeOK
  <2> QED BY <2>1, GotoMoves
<1>3. ASSUME NEW c \in Restarters, Restart(c), ~shutting PROVE LooseInHand'
  <2>1. epoch' = epoch + 1 /\ Goto(epoch', "launch") /\ UNCHANGED loose
    BY <1>3 DEF Restart
  <2>2. epoch' \in Epochs /\ epoch' > epoch
    BY <2>1 DEF TypeOK, Epochs
  <2>3. at[epoch'] = "none"
    BY <2>2 DEF Ahead
  <2> QED BY <2>1, <2>2, <2>3, GotoMoves
<1>4. ASSUME NEW e \in Epochs, LooseEnds(e) PROVE LooseInHand'
  BY <1>4 DEF LooseEnds, TypeOK
<1>5. ASSUME \/ \E g \in Gens : Child(g) \/ Ping(g)
             \/ \E r \in Requests : Request(r)
             \/ \E c \in Restarters : Restarting(c) /\ ~(Restart(c) /\ ~shutting)
             \/ Shutdown
             \/ UNCHANGED vars
      PROVE  UNCHANGED <<at, loose>>
  <2>1. CASE \E g \in Gens : Child(g) \/ Ping(g)
    BY <2>1 DEF Child, Exits, WatchExit, Route, RouteNull, ReaderEnds, childRest, Ping,
                SendPing, PingTimesOut, JudgePing, callerRest, lifeVars
  <2>2. CASE \E r \in Requests : Request(r)
    BY <2>2 DEF Request, ReadGate, SendRequest, SendRejected, WaitTimesOut, TakeReply,
           Elapse,
                OnRequestTimeout, callerRest, lifeVars
  <2>3. CASE \E c \in Restarters : Restarting(c) /\ ~(Restart(c) /\ ~shutting)
    BY <2>3 DEF Restarting, Restart, Join, JoinEnds, RestartEnds, RestartGivesUp,
           restartRest,
                lifeVars
  <2>4. CASE Shutdown
    BY <2>4 DEF Shutdown, BeginShutdown, AskShutdown, TakeChild, ShutdownExit,
           ShutdownKills,
                ShutdownGivesUp, shutdownRest, lifeVars
  <2>5. CASE UNCHANGED vars
    BY <2>5 DEF vars, lifeVars
  <2> QED BY <1>5, <2>1, <2>2, <2>3, <2>4, <2>5
<1> QED BY <1>1, <1>2, <1>3, <1>4, <1>5 DEF Next, Restarting

LEMMA NextIInv == ASSUME SupervisorAssumption, IInv, [Next]_vars PROVE IInv'
<1>1. TypeOK' /\ Budget'
  BY TypeStep DEF IInv
<1>0. LooseInHand'
  BY <1>1, LooseStep DEF IInv
<1>2. CASE Idle
  <2>1. UNCHANGED <<status, upGen, at, mine, epoch, started, shutting, generation, child,
                    shutter, taken, proc, inFlight, ping, req, target>>
    BY <1>2 DEF Idle, gateVars, innerVars, procVars, callVars, userVars
  <2>2. Named' /\ Owned'
    BY <2>1 DEF IInv, Named, Owned
  <2> QED BY <1>0, <1>1, <2>1, <2>2, QuietStep, PingKept DEF IInv
<1>3. CASE Next /\ ~Idle
  <2>1. /\ Named' /\ Ahead' /\ Owned' /\ Slot'
        /\ ChildHeld' /\ StatusIsOfTheLifecycle' /\ PingFlagIsHonest'
    BY <1>1, <1>3, LifecycleStep, ChildStep, RequestStep, PingStep, StartStep,
       RestartingStep, ShutdownStep, LooseEndsIdly DEF Next
  <2> QED BY <1>0, <1>1, <2>1 DEF IInv
<1> QED BY <1>2, <1>3, LooseEndsIdly

LEMMA Invariance == ASSUME SupervisorAssumption PROVE Spec => []IInv
<1>1. Init => IInv
  BY InitIInv
<1>2. IInv /\ [Next]_vars => IInv'
  BY NextIInv
<1> QED BY <1>1, <1>2, PTL DEF Spec

\* The supervisor is type correct; epochs stay within what restarts and the
\* shutdown can make of them.
THEOREM TypeCorrect == ASSUME SupervisorAssumption PROVE Spec => []TypeOK
<1>1. IInv => TypeOK
  BY DEF IInv
<1> QED BY <1>1, Invariance, PTL

\* No stray process, however launches, restarts, crashes and the shutdown meet: a child
\* that is not being killed is the one in the slot, or the one the shutdown waits for
\* (drop_child, go_unavailable, restart, finish_shutdown), and a launched process that
\* is not being killed is about to be attached, beside a child only if attach will
\* refuse and kill it.
THEOREM NeverAStrayProcess == ASSUME SupervisorAssumption PROVE Spec => []NoStrayProcess
<1>1. IInv => NoStrayProcess
  <2> SUFFICES ASSUME IInv PROVE NoStrayProcess
    OBVIOUS
  <2>1. ASSUME NEW e \in Epochs, loose[e] = "running"
        PROVE  at[e] = "launched" /\ (child # 0 => epoch # e \/ shutting)
    BY <2>1 DEF IInv, LooseInHand, Slot, Attached
  <2> QED BY <2>1 DEF IInv, ChildHeld, NoStrayProcess
<1> QED BY <1>1, Invariance, PTL

\* The published status is the one of the current lifecycle.
THEOREM StatusIsCurrent == ASSUME SupervisorAssumption PROVE Spec => []StatusIsOfTheLifecycle
<1>1. IInv => StatusIsOfTheLifecycle
  BY DEF IInv
<1> QED BY <1>1, Invariance, PTL

\* The flag of the slot is never left behind: a child that no longer answers is
\* always pinged again.
THEOREM PingsGoOn == ASSUME SupervisorAssumption PROVE Spec => []PingFlagIsHonest
<1>1. IInv => PingFlagIsHonest
  BY DEF IInv
<1> QED BY <1>1, Invariance, PTL

\* Both, as the runs check them.
THEOREM SupervisionIsTrue == ASSUME SupervisorAssumption PROVE Spec => []SupervisionIsHonest
BY StatusIsCurrent, PingsGoOn, PTL DEF SupervisionIsHonest

\* Nothing is published and no child attached once the shutdown has begun: no
\* lifecycle is the one of its epoch any more.
THEOREM SilentAfterShutdown == ASSUME SupervisorAssumption PROVE Spec => NothingAfterShutdown
<1>1. ASSUME IInv, [Next]_vars, shutting PROVE status' = status /\ child' \in {child, 0}
  <2>1. ASSUME NEW e \in Epochs, Lifecycle(e) PROVE status' = status /\ child' \in {child, 0}
    <3>1. at[e] # "none" /\ (Works(e) \/ LetsGo(e) \/ Attaches(e) \/ Publishes(e))
      BY <1>1, <2>1, LifecycleViewed DEF IInv, Reserved
    <3>2. e # epoch
      BY <1>1, <3>1 DEF IInv, Ahead
    <3> QED
      BY <1>1, <3>1, <3>2
      DEF Works, LetsGo, Attaches, Publishes, Cancelled, DropChild, KillSlot
  <2>2. ASSUME NEW g \in Gens, Child(g) \/ Ping(g) PROVE UNCHANGED <<status, child>>
    BY <2>2
    DEF Child, Exits, WatchExit, Route, RouteNull, ReaderEnds, childRest, gateVars, Ping,
        SendPing, PingTimesOut, JudgePing, callerRest
  <2>3. ASSUME NEW r \in Requests, Request(r) PROVE UNCHANGED <<status, child>>
    BY <2>3
    DEF Request, ReadGate, SendRequest, SendRejected, WaitTimesOut, TakeReply, Elapse,
        OnRequestTimeout, callerRest
  <2>4. ASSUME NEW c \in Restarters, Restarting(c) PROVE UNCHANGED <<status, child>>
    BY <1>1, <2>4
    DEF Restarting, Restart, Join, JoinEnds, RestartEnds, RestartGivesUp, restartRest,
           gateVars,
        innerVars
  <2>5. CASE Shutdown
    BY <2>5
    DEF Shutdown, BeginShutdown, AskShutdown, TakeChild, ShutdownExit, ShutdownKills,
        ShutdownGivesUp, shutdownRest, gateVars
  <2>6. CASE Idle
    BY <2>6 DEF Idle, gateVars, innerVars
  <2> QED
    BY <1>1, <2>1, <2>2, <2>3, <2>4, <2>5, <2>6, LooseEndsIdly DEF Next, Start
<1>2. IInv /\ [Next]_vars => [shutting => status' = status /\ child' \in {child, 0}]_vars
  BY <1>1
<1> QED BY <1>2, Invariance, PTL DEF Spec, NothingAfterShutdown

-----------------------------------------------------------------------------
(* The supervisor implements SupervisorService.  What its view of the      *)
(* requests needs beyond IInv: the table of pending requests holds who is  *)
(* with a child and has no answer, a request about to be sent is aimed at  *)
(* a bridge that was up, and the status between two attempts is known.     *)

\* The table of pending requests: who is with a child and has no answer is in it, once.
Registered ==
  \A r \in Requests :
    /\ \A g \in Gens : <<r, g>> \in pending <=> Held(r) /\ answer[r] = "none" /\ g = target[r]
    /\ req[r] \in {"start", "wait", "send"} => answer[r] = "none"

\* A request that is about to be sent goes to a child that was up: if it is still there,
\* the bridge is up.
Aimed ==
  /\ upGen <= generation
  /\ \A r \in Requests :
       req[r] = "send" => target[r] <= generation /\ (target[r] = child => status = "up")

\* What is published before the first launch, and while a lifecycle decides what next.
Phases ==
  /\ ~started => status = "starting"
  /\ ~shutting /\ at[epoch] \in {"crashed", "unusable"} => status \in {"starting", "up"}

ContractInv == Registered /\ Aimed /\ Phases

-----------------------------------------------------------------------------
LEMMA TableKept ==
  ASSUME Registered, UNCHANGED <<req, target, answer>>,
         \A r \in Requests, g \in Gens : <<r, g>> \in pending' <=> <<r, g>> \in pending
  PROVE  Registered'
BY DEF Registered, Held

\* Whoever is taken out of the table is answered, nobody else.
LEMMA Answered ==
  ASSUME TypeOK, Registered, NEW out \in SUBSET pending, NEW kind \in {"good", "bad"},
         Resolve(out, kind), UNCHANGED <<req, target>>
  PROVE  /\ Registered'
         /\ answer' = [r \in Requests |->
              IF Held(r) /\ answer[r] = "none" /\ <<r, target[r]>> \in out THEN kind ELSE answer[r]]
<1>1. pending' = pending \ out
  BY DEF Resolve
<1>2. \A r \in Requests, g \in Gens :
        <<r, g>> \in out => Held(r) /\ answer[r] = "none" /\ g = target[r]
  BY DEF Registered
<1>3. ASSUME NEW r \in Requests
      PROVE  (\E g \in Gens : <<r, g>> \in out) <=>
               (Held(r) /\ answer[r] = "none" /\ <<r, target[r]>> \in out)
  <2>1. <<r, target[r]>> \in out => target[r] \in Gens
    BY DEF TypeOK
  <2> QED BY <1>2, <2>1
<1>4. answer' = [r \in Requests |->
              IF Held(r) /\ answer[r] = "none" /\ <<r, target[r]>> \in out THEN kind ELSE answer[r]]
  BY <1>3 DEF Resolve
<1>5. ASSUME NEW r \in Requests, NEW g \in Gens
      PROVE  <<r, g>> \in pending' <=>
               req'[r] \in {"sent", "late"} /\ answer'[r] = "none" /\ g = target'[r]
  <2>1. answer'[r] = "none" <=>
          answer[r] = "none" /\ ~(Held(r) /\ <<r, target[r]>> \in out)
    BY <1>4
  <2>2. <<r, g>> \in pending <=> Held(r) /\ answer[r] = "none" /\ g = target[r]
    BY DEF Registered
  <2> QED BY <1>1, <1>2, <2>1, <2>2 DEF Held
<1>6. ASSUME NEW r \in Requests, req'[r] \in {"start", "wait", "send"} PROVE answer'[r] = "none"
  BY <1>4, <1>6 DEF Registered, Held
<1>7. Registered'
  BY <1>5, <1>6 DEF Registered, Held
<1> QED BY <1>4, <1>7

\* Of the requests, a lifecycle fails those of its child, all together.
Abandons(e) ==
  /\ mine[e] \in Gens
  /\ Resolve(PendingOf(mine[e]), "bad")
  /\ UNCHANGED <<req, target, generation, child, status, shutting>>

LeavesRequests ==
  /\ UNCHANGED <<req, target, answer>>
  /\ \A r \in Requests, g \in Gens : <<r, g>> \in pending' <=> <<r, g>> \in pending

LEMMA LifecycleRequests ==
  ASSUME IInv, NEW e \in Epochs, Lifecycle(e)
  PROVE  Abandons(e) \/ LeavesRequests
<1>1. CASE LoseUpChild(e)
  <2>1. mine[e] \in Gens
    BY <1>1 DEF LoseUpChild, IInv, TypeOK, Named, Attached
  <2> QED
    BY <1>1, <2>1 DEF LoseUpChild, Abandons, LeavesRequests, gateVars, innerRest
<1>2. CASE Greet(e) \/ HelloTimesOut(e)
  <2>1. "hello" \notin Requests
    BY CallerAssumption
  <2>2. \A r \in Requests, g \in Gens : <<r, g>> # <<"hello", mine[e]>>
    BY <2>1
  <2> QED
    BY <1>2, <2>2
    DEF Greet, HelloTimesOut, Send, SendFails, LeavesRequests, callVars, afterHello
<1>3. CASE ~(LoseUpChild(e) \/ Greet(e) \/ HelloTimesOut(e))
  <2>1. UNCHANGED <<req, target, answer, pending>>
    BY <1>3
    DEF Lifecycle, Launch, LaunchFails, Attach, attachRest, TakeHello, TakeEarlyEvent,
        ExitedBeforeHello, CancelEarly, GoUp, DropLost, CancelUp, RecordCrash, EndBackoff, GoUnavailable,
        innerVars, callVars, afterHello
  <2> QED BY <2>1 DEF LeavesRequests
<1> QED BY <1>1, <1>2, <1>3

\* Nobody but a request puts a request into the table.
LEMMA OthersEntries ==
  ASSUME NEW c \in {"hello", "ping", "shutdown"}, NEW h,
         \/ pending' = pending \cup {<<c, h>>}
         \/ pending' = pending \ {<<c, h>>}
         \/ pending' = pending
  PROVE  \A r \in Requests, g \in Gens : <<r, g>> \in pending' <=> <<r, g>> \in pending
<1>1. c \notin Requests
  BY CallerAssumption
<1>2. \A r \in Requests, g \in Gens : <<r, g>> # <<c, h>>
  BY <1>1
<1> QED BY <1>2

LEMMA TableChild ==
  ASSUME IInv, Registered, NEW g \in Gens, Child(g)
  PROVE  Registered'
<1>1. CASE Route(g)
  <2>1. PICK p \in PendingOf(g), kind \in {"good", "bad"} : Resolve({p}, kind)
    BY <1>1 DEF Route
  <2>2. {p} \in SUBSET pending /\ UNCHANGED <<req, target>>
    BY <1>1 DEF Route, PendingOf
  <2> QED BY <2>1, <2>2, Answered DEF IInv
<1>2. CASE RouteNull(g)
  <2>1. PendingOf(g) \in SUBSET pending /\ Resolve(PendingOf(g), "bad") /\ UNCHANGED <<req, target>>
    BY <1>2 DEF RouteNull, PendingOf
  <2> QED BY <2>1, Answered DEF IInv
<1>3. CASE Exits(g) \/ WatchExit(g) \/ ReaderEnds(g)
  <2>1. UNCHANGED <<req, target, answer, pending>>
    BY <1>3 DEF Exits, WatchExit, ReaderEnds, callVars
  <2> QED BY <2>1, TableKept
<1> QED BY <1>1, <1>2, <1>3 DEF Child

LEMMA TablePing ==
  ASSUME Registered, NEW g \in Gens, Ping(g)
  PROVE  Registered'
<1>1. UNCHANGED <<req, target, answer>>
  BY DEF Ping, SendPing, PingTimesOut, JudgePing
<1>2. \/ pending' = pending \cup {<<"ping", g>>}
      \/ pending' = pending \ {<<"ping", g>>}
      \/ pending' = pending
  BY DEF Ping, SendPing, PingTimesOut, JudgePing, Send, SendFails
<1> QED BY <1>1, <1>2, OthersEntries, TableKept

LEMMA TableRequest ==
  ASSUME IInv, Registered, NEW r \in Requests, Request(r)
  PROVE  Registered'
<1> USE DEF AskTo
<1>1. /\ req \in [Requests -> {"start", "wait", "send", "sent", "late", "done"}]
      /\ target \in [Requests -> Gens \cup {0}]
      /\ answer \in [Requests -> {"none", "good", "bad", "timeout", "closed"}]
  BY DEF IInv, TypeOK
<1>2. CASE ReadGate(r)
  <2>1. pending' = pending /\ req[r] \in {"start", "wait"}
    BY <1>2 DEF ReadGate
  <2> QED BY <1>1, <1>2, <2>1 DEF ReadGate, Registered, Held
<1>3. CASE SendRequest(r)
  <2>1. CASE Send(r, target[r]) /\ AskTo(r, "sent")
    <3>1. \A q \in Requests, g \in Gens :
            <<q, g>> \in pending' <=> <<q, g>> \in pending \/ (q = r /\ g = target[r])
      BY <2>1 DEF Send
    <3>2. UNCHANGED <<target, answer>> /\ req[r] = "send"
      BY <1>3 DEF SendRequest
    <3> QED BY <1>1, <2>1, <3>1, <3>2 DEF Registered, Held
  <2>2. CASE SendFails(target[r]) /\ AskTo(r, "wait")
    BY <1>1, <1>3, <2>2 DEF SendRequest, SendFails, Registered, Held
  <2> QED BY <1>3, <2>1, <2>2 DEF SendRequest
<1>4. CASE SendRejected(r) \/ WaitTimesOut(r) \/ TakeReply(r) \/ Elapse(r)
  BY <1>1, <1>4
  DEF SendRejected, WaitTimesOut, TakeReply, Elapse, Registered, Held
<1>5. CASE OnRequestTimeout(r)
  <2>1. /\ pending' = pending \ {<<r, target[r]>>} /\ req[r] = "late"
        /\ answer' = [answer EXCEPT ![r] = "timeout"]
        /\ req' = [req EXCEPT ![r] = "done"] /\ UNCHANGED target
    BY <1>5 DEF OnRequestTimeout
  <2>2. \A q \in Requests, g \in Gens :
          <<q, g>> \in pending' <=> <<q, g>> \in pending /\ ~(q = r /\ g = target[r])
    BY <2>1
  <2> QED BY <1>1, <2>1, <2>2 DEF Registered, Held
<1> QED BY <1>2, <1>3, <1>4, <1>5 DEF Request

LEMMA RegisteredStep ==
  ASSUME SupervisorAssumption, IInv, Registered, [Next]_vars
  PROVE  Registered'
<1>1. ASSUME NEW e \in Epochs, Lifecycle(e) PROVE Registered'
  <2>1. CASE Abandons(e)
    <3>1. PendingOf(mine[e]) \in SUBSET pending
      BY DEF PendingOf
    <3> QED BY <2>1, <3>1, Answered DEF Abandons, IInv
  <2>2. CASE LeavesRequests
    BY <2>2, TableKept DEF LeavesRequests
  <2> QED BY <1>1, <2>1, <2>2, LifecycleRequests
<1>2. CASE Start \/ Idle
  <2>1. UNCHANGED <<req, target, answer, pending>>
    BY <1>2 DEF Start, Idle, callVars, innerVars
  <2> QED BY <2>1, TableKept
<1>3. ASSUME NEW c \in Restarters, Restarting(c) PROVE Registered'
  <2>1. CASE Restart(c) /\ ~shutting
    <3>1. pending \in SUBSET pending /\ Resolve(pending, "bad") /\ UNCHANGED <<req, target>>
      BY <2>1 DEF Restart
    <3> QED BY <3>1, Answered DEF IInv
  <2>2. CASE ~(Restart(c) /\ ~shutting)
    <3>1. UNCHANGED <<req, target, answer, pending>>
      BY <1>3, <2>2
      DEF Restarting, Restart, Join, JoinEnds, RestartEnds, RestartGivesUp, restartRest,
          callVars, innerVars
    <3> QED BY <3>1, TableKept
  <2> QED BY <2>1, <2>2
<1>4. CASE Shutdown
  <2>1. UNCHANGED <<req, target, answer>>
    BY <1>4
    DEF Shutdown, BeginShutdown, AskShutdown, TakeChild, ShutdownExit, ShutdownKills,
        ShutdownGivesUp, shutdownRest, callVars
  <2>2. pending' = pending \/ pending' = pending \cup {<<"shutdown", taken>>}
    BY <1>4
    DEF Shutdown, BeginShutdown, AskShutdown, TakeChild, ShutdownExit, ShutdownKills,
        ShutdownGivesUp, Send, SendFails
  <2> QED BY <2>1, <2>2, OthersEntries, TableKept
<1> QED
  BY <1>1, <1>2, <1>3, <1>4, TableChild, TablePing, TableRequest, LooseEndsIdly DEF Next

-----------------------------------------------------------------------------
\* Requests, pings and children move neither the bridge nor its status.
LEMMA OthersAreQuiet ==
  ASSUME (\E g \in Gens : Child(g) \/ Ping(g)) \/ (\E r \in Requests : Request(r)) \/ Idle
  PROVE  UNCHANGED <<status, upGen, at, epoch, started, shutting, generation, child>>
BY DEF Child, Exits, WatchExit, Route, RouteNull, ReaderEnds, childRest, Ping, SendPing,
       PingTimesOut, JudgePing, Request, ReadGate, SendRequest, SendRejected, WaitTimesOut,
       TakeReply, Elapse, OnRequestTimeout, callerRest, Idle, gateVars, innerVars, innerRest,
       lifeVars

\* Nor do they aim a request anew, but when it reads that a bridge is up.
LEMMA AimedByTheGate ==
  ASSUME IInv, NEW q \in Requests,
         \/ \E g \in Gens : Child(g) \/ Ping(g)
         \/ \E r \in Requests : Request(r)
         \/ Idle,
         req'[q] = "send"
  PROVE  \/ req[q] = "send" /\ target'[q] = target[q]
         \/ status = "up" /\ target'[q] = upGen
<1>1. CASE (\E g \in Gens : Child(g) \/ Ping(g)) \/ Idle
  <2>1. UNCHANGED <<req, target>>
    BY <1>1 DEF Child, Exits, WatchExit, Route, RouteNull, ReaderEnds, Ping, SendPing,
                PingTimesOut, JudgePing, Idle, callVars
  <2> QED BY <2>1
<1>2. ASSUME NEW r \in Requests, Request(r)
      PROVE  \/ req[q] = "send" /\ target'[q] = target[q]
             \/ status = "up" /\ target'[q] = upGen
  <2>1. CASE ReadGate(r)
    BY <2>1 DEF ReadGate, AskTo, IInv, TypeOK
  <2>2. CASE ~ReadGate(r)
    <3>1. UNCHANGED target /\ \E pc : pc # "send" /\ AskTo(r, pc)
      BY <1>2, <2>2 DEF Request, SendRequest, SendRejected, WaitTimesOut, TakeReply, Elapse,
                        OnRequestTimeout
    <3> QED BY <3>1 DEF AskTo, IInv, TypeOK
  <2> QED BY <2>1, <2>2
<1> QED BY <1>1, <1>2

\* restart and the shutdown aim no request and start no bridge.
LEMMA ControlViewed ==
  ASSUME IInv, TypeOK', Start \/ Shutdown \/ \E c \in Restarters : Restarting(c)
  PROVE  /\ UNCHANGED <<req, target, generation>>
         /\ child' \in {child, 0}
         /\ \/ upGen' = 0 /\ status' = "starting" /\ child' = 0
            \/ UNCHANGED <<upGen, status>>
         /\ ~started' => ~started /\ UNCHANGED status
         /\ ~shutting' /\ at'[epoch'] \in {"crashed", "unusable"} => UNCHANGED <<at, epoch, status, shutting>>
<1>1. CASE Start
  <2>1. epoch \in Epochs /\ at'[epoch] = "launch" /\ child = 0
    BY <1>1 DEF Start, IInv, TypeOK, Goto, Slot, Ahead, Attached
  <2> QED BY <1>1, <2>1 DEF Start, Transition, callVars
<1>2. CASE Shutdown
  BY <1>2 DEF Shutdown, BeginShutdown, AskShutdown, TakeChild, ShutdownExit, ShutdownKills,
              ShutdownGivesUp, shutdownRest, gateVars, lifeVars, callVars, IInv, Ahead
<1>3. ASSUME NEW c \in Restarters, Restart(c), ~shutting
      PROVE  /\ UNCHANGED <<req, target, generation>>
             /\ started' /\ upGen' = 0 /\ status' = "starting" /\ child' = 0
             /\ at'[epoch'] = "launch"
  <2>1. epoch' \in Epochs /\ at' = [at EXCEPT ![epoch'] = "launch"]
    BY <1>3 DEF Restart, TypeOK, Goto
  <2>2. at'[epoch'] = "launch"
    BY <2>1 DEF IInv, TypeOK
  <2> QED BY <1>3, <2>2 DEF Restart, Transition, KillSlot
<1>4. ASSUME NEW c \in Restarters, Restarting(c), ~(Restart(c) /\ ~shutting)
      PROVE  UNCHANGED <<req, target, generation, child, upGen, status, started, at, epoch, shutting>>
  BY <1>4 DEF Restarting, Restart, Join, JoinEnds, RestartEnds, RestartGivesUp, restartRest,
              gateVars, innerVars, callVars, lifeVars
<1> QED BY <1>1, <1>2, <1>3, <1>4

LEMMA AimedStep ==
  ASSUME IInv, TypeOK', Aimed, [Next]_vars
  PROVE  Aimed'
<1> USE DEF IInv
<1>0. /\ upGen \in Nat /\ generation \in Nat /\ child \in Nat
      /\ \A r \in Requests : target[r] \in Nat /\ (req[r] = "send" => target[r] # 0)
  BY DEF TypeOK, Gens, Named
<1>1. CASE (\E g \in Gens : Child(g) \/ Ping(g)) \/ (\E r \in Requests : Request(r)) \/ Idle
  <2>1. UNCHANGED <<status, generation, child>>
    BY <1>1, OthersAreQuiet
  <2>2. UNCHANGED upGen
    BY <1>1 DEF Child, Exits, WatchExit, Route, RouteNull, ReaderEnds, childRest, Ping,
           SendPing,
       PingTimesOut, JudgePing, Request, ReadGate, SendRequest, SendRejected, WaitTimesOut,
       TakeReply, Elapse, OnRequestTimeout, callerRest, Idle, gateVars
  <2>3. ASSUME NEW q \in Requests, req'[q] = "send"
        PROVE  target'[q] <= generation' /\ (target'[q] = child' => status' = "up")
    <3>1. \/ req[q] = "send" /\ target'[q] = target[q]
          \/ status = "up" /\ target'[q] = upGen
      BY <1>1, <2>3, AimedByTheGate
    <3> QED BY <2>1, <3>1 DEF Aimed
  <2> QED BY <2>1, <2>2, <2>3 DEF Aimed
<1>2. ASSUME NEW e \in Epochs, Lifecycle(e) PROVE Aimed'
  <2>0. Reserved(e) /\ (Works(e) \/ LetsGo(e) \/ Attaches(e) \/ Publishes(e))
    BY <1>2, LifecycleViewed
  <2>1. UNCHANGED <<req, target>>
    BY <2>0 DEF Reserved
  <2>2. CASE Works(e)
    BY <2>1, <2>2 DEF Works, Aimed
  <2>3. CASE LetsGo(e)
    <3>1. UNCHANGED <<status, upGen, generation>> /\ child' \in {child, 0}
      BY <2>3 DEF LetsGo, DropChild, KillSlot
    <3> QED BY <1>0, <2>1, <3>1 DEF Aimed
  <2>4. CASE Attaches(e)
    <3>1. UNCHANGED <<status, upGen>> /\ generation' = generation + 1 /\ child' = generation + 1
      BY <2>4 DEF Attaches
    <3> QED BY <1>0, <2>1, <3>1 DEF Aimed
  <2>5. CASE Publishes(e)
    <3>1. at[epoch] \in {"greeted", "crashed", "backoff", "unusable"} /\ e = epoch /\ ~shutting
      BY <2>5 DEF Publishes, Ahead
    <3>2. \/ status' = "up" /\ upGen' = mine[e] /\ child' = child
          \/ upGen' = 0 /\ child' = 0
      BY <2>5, <3>1 DEF Publishes, Slot, Attached, KillSlot
    <3>3. mine[e] <= generation /\ UNCHANGED generation
      BY <2>5 DEF Publishes, Owned
    <3> QED BY <1>0, <2>1, <3>2, <3>3 DEF Aimed
  <2> QED BY <2>0, <2>2, <2>3, <2>4, <2>5
<1>3. CASE Start \/ Shutdown \/ \E c \in Restarters : Restarting(c)
  BY <1>0, <1>3, ControlViewed DEF Aimed
<1> QED BY <1>1, <1>2, <1>3, LooseEndsIdly DEF Next

LEMMA PhasesStep ==
  ASSUME IInv, TypeOK', Phases, [Next]_vars
  PROVE  Phases'
<1> USE DEF IInv
<1>1. CASE (\E g \in Gens : Child(g) \/ Ping(g)) \/ (\E r \in Requests : Request(r)) \/ Idle
  BY <1>1, OthersAreQuiet DEF Phases
<1>2. ASSUME NEW e \in Epochs, Lifecycle(e) PROVE Phases'
  <2>0. Reserved(e) /\ (Works(e) \/ LetsGo(e) \/ Attaches(e) \/ Publishes(e))
    BY <1>2, LifecycleViewed
  <2>1. started /\ UNCHANGED <<started, shutting, epoch>>
    BY <2>0 DEF Reserved, Ahead
  <2>2. epoch \in Epochs
    BY DEF TypeOK
  <2>3. CASE e # epoch
    <3>1. at'[epoch] = at[epoch] /\ UNCHANGED status
      BY <2>0, <2>2, <2>3 DEF Reserved, Works, LetsGo, Attaches, Publishes, Cancelled
    <3> QED BY <2>1, <3>1 DEF Phases
  <2>4. CASE e = epoch /\ ~shutting /\ at'[epoch] \in {"crashed", "unusable"}
    <3>1. at[epoch] \in {"launch", "hello", "losing"} /\ UNCHANGED status
      BY <2>0, <2>4 DEF Works, LetsGo, Attaches, Publishes
    <3>2. status \in {"starting", "up"}
      BY <2>1, <2>4, <3>1 DEF StatusIsOfTheLifecycle
    <3> QED BY <2>1, <3>1, <3>2 DEF Phases
  <2> QED BY <2>1, <2>3, <2>4 DEF Phases
<1>3. CASE Start \/ Shutdown \/ \E c \in Restarters : Restarting(c)
  BY <1>3, ControlViewed DEF Phases
<1> QED BY <1>1, <1>2, <1>3, LooseEndsIdly DEF Next

LEMMA ContractInvariance == ASSUME SupervisorAssumption PROVE Spec => [](IInv /\ ContractInv)
<1>1. Init => IInv /\ ContractInv
  <2> SUFFICES ASSUME Init PROVE IInv /\ ContractInv
    OBVIOUS
  <2>1. Registered /\ Aimed /\ Phases
    BY DEF Init, Registered, Held, Aimed, Phases
  <2> QED BY <2>1, InitIInv DEF ContractInv
<1>2. IInv /\ ContractInv /\ [Next]_vars => (IInv /\ ContractInv)'
  <2> SUFFICES ASSUME IInv, ContractInv, [Next]_vars PROVE IInv' /\ ContractInv'
    OBVIOUS
  <2>1. IInv' /\ TypeOK'
    BY NextIInv DEF IInv
  <2> QED BY <2>1, RegisteredStep, AimedStep, PhasesStep DEF ContractInv
<1> QED BY <1>1, <1>2, PTL DEF Spec

-----------------------------------------------------------------------------
(* Every step is one of SupervisorService, or none.                        *)

Serves == [Service!Next]_(Service!vars)

\* The requests of the service stay where they are, and so do its bridges.
LEMMA Stays ==
  ASSUME UNCHANGED <<req, target>> PROVE UNCHANGED <<Progress, HeldBy>>
BY DEF Progress, HeldBy, Held

LEMMA Stutters ==
  ASSUME UNCHANGED <<req, target, answer, generation, child, status, shutting>> PROVE Serves
BY Stays DEF Serves, Service!vars, Service!supervision, Service!requests

\* All that is with one child fails.
LEMMA FailsTogether ==
  ASSUME IInv, Registered, NEW g \in Gens, Resolve(PendingOf(g), "bad"),
         UNCHANGED <<req, target, generation, child, status, shutting>>
  PROVE  Serves
<1>1. PendingOf(g) \in SUBSET pending
  BY DEF PendingOf
<1>2. answer' = [r \in Requests |->
         IF Held(r) /\ answer[r] = "none" /\ <<r, target[r]>> \in PendingOf(g) THEN "bad" ELSE answer[r]]
  BY <1>1, Answered DEF IInv
<1>3. ASSUME NEW r \in Requests
      PROVE  (Held(r) /\ answer[r] = "none" /\ <<r, target[r]>> \in PendingOf(g)) <=>
               (Service!Open(r) /\ HeldBy[r] = g)
  BY DEF Registered, PendingOf, Service!Open, Progress, HeldBy
<1>4. Service!FailAll({r \in Requests : Service!Open(r) /\ HeldBy[r] = g})
  BY <1>2, <1>3 DEF Service!FailAll
<1>5. Service!Fail(g)
  BY <1>4, Stays DEF Service!Fail, Service!supervision
<1> QED BY <1>5 DEF Serves, Service!Next, Gens

LEMMA LifecycleServes ==
  ASSUME SupervisorAssumption, IInv, ContractInv, TypeOK', NEW e \in Epochs, Lifecycle(e)
  PROVE  Serves
<1> USE DEF IInv, ContractInv
<1>0. Reserved(e) /\ (Works(e) \/ LetsGo(e) \/ Attaches(e) \/ Publishes(e))
  BY LifecycleViewed
<1>1. CASE Abandons(e)
  BY <1>1, FailsTogether DEF Abandons
<1>2. CASE LeavesRequests
  <2>1. UNCHANGED Service!requests
    BY <1>2, Stays DEF LeavesRequests, Service!requests
  <2>2. UNCHANGED <<req, target, answer, shutting>>
    BY <1>0, <1>2 DEF LeavesRequests, Reserved
  <2>3. CASE Works(e)
    BY <2>2, <2>3, Stutters DEF Works
  <2>4. CASE LetsGo(e)
    <3>1. UNCHANGED <<status, generation>> /\ (child' = child \/ (child' = 0 /\ child # 0))
      BY <2>4 DEF LetsGo, DropChild, KillSlot
    <3>2. CASE child' = 0 /\ child # 0
      BY <2>1, <2>2, <3>1, <3>2
      DEF Serves, Service!Next, Service!Bridge, Service!Lose
    <3> QED BY <2>2, <3>1, <3>2, Stutters
  <2>5. CASE Attaches(e)
    <3>1. e = epoch /\ ~shutting /\ child = 0 /\ started
      BY <1>0, <2>5 DEF Attaches, Cancelled, Slot, Attached, Reserved, Ahead
    <3>2. status = "starting"
      BY <2>5, <3>1 DEF Attaches, StatusIsOfTheLifecycle
    <3>3. generation' = generation + 1 /\ child' = generation' /\ UNCHANGED status
      BY <2>5 DEF Attaches
    <3>a. generation' \in 1..MaxGen /\ generation \in Nat /\ MaxGen \in Nat
      BY <2>5 DEF Attaches, TypeOK, Gens, SupervisorAssumption
    <3>b. generation < MaxGen
      BY <3>3, <3>a
    <3>4. Service!Launch
      BY <2>1, <2>2, <3>1, <3>2, <3>3, <3>b DEF Service!Launch
    <3> QED BY <3>4 DEF Serves, Service!Next, Service!Bridge
  <2>6. CASE Publishes(e)
    <3>1. e = epoch /\ ~shutting /\ started /\ UNCHANGED generation
      BY <1>0, <2>6 DEF Publishes, Reserved, Ahead
    <3>2. CASE at[e] = "greeted"
      <4>1. status = "starting" /\ child # 0 /\ UNCHANGED child /\ status' = "up"
        BY <2>6, <3>1, <3>2 DEF Publishes, StatusIsOfTheLifecycle, Named, Attached
      <4>2. Service!GoUp
        BY <2>1, <2>2, <3>1, <4>1 DEF Service!GoUp
      <4> QED BY <4>2 DEF Serves, Service!Next, Service!Bridge
    <3>3. CASE at[e] = "crashed"
      <4>1. status \in {"starting", "up"} /\ child = 0 /\ UNCHANGED child
            /\ status' \in {"unavailable", "restarting"}
        BY <2>6, <3>1, <3>3 DEF Publishes, Phases, Slot, Attached
      <4>2. Service!Pause \/ Service!GiveUp
        BY <2>1, <2>2, <3>1, <4>1 DEF Service!Pause, Service!GiveUp
      <4> QED BY <4>2 DEF Serves, Service!Next, Service!Bridge
    <3>4. CASE at[e] = "backoff"
      <4>1. status = "restarting" /\ child = 0 /\ UNCHANGED child /\ status' = "starting"
        BY <2>6, <3>1, <3>4 DEF Publishes, StatusIsOfTheLifecycle, Slot, Attached
      <4>2. Service!TryAgain
        BY <2>1, <2>2, <3>1, <4>1 DEF Service!TryAgain
      <4> QED BY <4>2 DEF Serves, Service!Next, Service!Bridge
    <3>5. CASE at[e] = "unusable"
      <4>1. status \in {"starting", "up"} /\ child' = 0 /\ status' = "unavailable"
        BY <2>6, <3>1, <3>5 DEF Publishes, Phases, KillSlot
      <4>2. Service!GiveUp
        BY <2>1, <2>2, <3>1, <4>1 DEF Service!GiveUp
      <4> QED BY <4>2 DEF Serves, Service!Next, Service!Bridge
    <3> QED BY <2>6, <3>2, <3>3, <3>4, <3>5 DEF Publishes
  <2> QED BY <1>0, <2>3, <2>4, <2>5, <2>6
<1> QED BY <1>1, <1>2, LifecycleRequests

LEMMA ChildServes ==
  ASSUME IInv, Registered, NEW g \in Gens, Child(g)
  PROVE  Serves
<1>1. UNCHANGED <<req, target, generation, child, status, shutting>>
  BY DEF Child, Exits, WatchExit, Route, RouteNull, ReaderEnds, childRest, callVars,
         gateVars,
         innerRest
<1>2. CASE Route(g)
  <2>1. PICK p \in PendingOf(g), kind \in {"good", "bad"} : Resolve({p}, kind)
    BY <1>2 DEF Route
  <2>2. p \in pending /\ p \in Callers \X Gens
    BY DEF PendingOf, IInv, TypeOK
  <2>3. PICK c \in Callers, h \in Gens : p = <<c, h>>
    BY <2>2
  <2>4. answer' = [r \in Requests |->
          IF Held(r) /\ answer[r] = "none" /\ <<r, target[r]>> \in {p} THEN kind ELSE answer[r]]
    BY <1>1, <2>1, <2>2, Answered DEF IInv
  <2>5. CASE c \in Requests
    <3>1. Held(c) /\ answer[c] = "none" /\ h = target[c]
      BY <2>2, <2>3, <2>5 DEF Registered
    <3>2. answer' = [answer EXCEPT ![c] = kind]
      BY <2>3, <2>4, <3>1 DEF IInv, TypeOK
    <3>3. Service!Open(c)
      BY <2>5, <3>1 DEF Service!Open, Progress
    <3>4. Service!Answer(c, kind)
      BY <1>1, <3>2, <3>3, Stays DEF Service!Answer, Service!supervision
    <3> QED BY <2>5, <3>4 DEF Serves, Service!Next, Service!Request
  <2>6. CASE c \notin Requests
    <3>1. answer' = answer
      BY <2>3, <2>4, <2>6 DEF IInv, TypeOK
    <3> QED BY <1>1, <3>1, Stutters
  <2> QED BY <2>5, <2>6
<1>3. CASE RouteNull(g)
  BY <1>1, <1>3, FailsTogether DEF RouteNull
<1>4. CASE Exits(g) \/ WatchExit(g) \/ ReaderEnds(g)
  <2>1. UNCHANGED answer
    BY <1>4 DEF Exits, WatchExit, ReaderEnds, callVars
  <2> QED BY <1>1, <2>1, Stutters
<1> QED BY <1>2, <1>3, <1>4 DEF Child

LEMMA PingServes ==
  ASSUME NEW g \in Gens, Ping(g) PROVE Serves
<1>1. UNCHANGED <<req, target, answer, generation, child, status, shutting>>
  BY DEF Ping, SendPing, PingTimesOut, JudgePing, callerRest
<1> QED BY <1>1, Stutters

\* What the service sees of a step of one request.
LEMMA Progresses ==
  ASSUME TypeOK, NEW r \in Requests, NEW pc, AskTo(r, pc),
         NEW g, target' = [target EXCEPT ![r] = g]
  PROVE  /\ pc \in {"sent", "late"} =>
              /\ Progress' = [Progress EXCEPT ![r] = "sent"]
              /\ HeldBy' = [HeldBy EXCEPT ![r] = g]
         /\ pc = "done" =>
              /\ Progress' = [Progress EXCEPT ![r] = "done"]
              /\ HeldBy' = [HeldBy EXCEPT ![r] = 0]
         /\ pc \in {"wait", "send"} =>
              /\ Progress' = [Progress EXCEPT ![r] = "waiting"]
              /\ HeldBy' = [HeldBy EXCEPT ![r] = 0]
<1>1. /\ req' = [req EXCEPT ![r] = pc] /\ target \in [Requests -> Gens \cup {0}]
      /\ req \in [Requests -> {"start", "wait", "send", "sent", "late", "done"}]
  BY DEF AskTo, TypeOK
<1> QED BY <1>1 DEF Progress, HeldBy, Held

LEMMA RequestServes ==
  ASSUME IInv, ContractInv, NEW r \in Requests, Request(r)
  PROVE  Serves
<1> USE DEF IInv, ContractInv
<1>0. /\ UNCHANGED <<generation, child, status, shutting>>
      /\ UNCHANGED Service!supervision
  BY DEF Request, ReadGate, SendRequest, SendRejected, WaitTimesOut, TakeReply, Elapse,
         OnRequestTimeout, callerRest, Service!supervision
<1>1. /\ target \in [Requests -> Gens \cup {0}]
      /\ answer \in [Requests -> {"none", "good", "bad", "timeout", "closed"}]
      /\ target = [target EXCEPT ![r] = target[r]]
      /\ answer = [answer EXCEPT ![r] = answer[r]]
  BY DEF TypeOK
<1>2. /\ req[r] \in {"start", "wait", "send"} => Progress[r] = "waiting" /\ HeldBy[r] = 0
      /\ req[r] \in {"sent", "late"} => Progress[r] = "sent" /\ HeldBy[r] = target[r]
  BY DEF Progress, HeldBy, Held
<1>3. /\ Progress = [Progress EXCEPT ![r] = Progress[r]]
      /\ HeldBy = [HeldBy EXCEPT ![r] = HeldBy[r]]
  BY DEF Progress, HeldBy
<1>4. ASSUME NEW pc \in {"done", "sent", "wait", "send", "late"}, AskTo(r, pc),
             UNCHANGED <<target, answer>>,
             \/ pc = "late" /\ req[r] \in {"sent", "late"}
             \/ pc \in {"wait", "send"} /\ req[r] \in {"start", "wait", "send"}
      PROVE  Serves
  <2>1. UNCHANGED <<Progress, HeldBy>>
    BY <1>1, <1>2, <1>3, <1>4, Progresses
  <2> QED BY <1>0, <1>4, <2>1 DEF Serves, Service!vars, Service!requests
<1>5. ASSUME NEW how, AskTo(r, "done"), UNCHANGED target, answer' = [answer EXCEPT ![r] = how],
             \/ Progress[r] \in {"waiting", "sent"} /\ how = "timeout"
             \/ Progress[r] = "sent" /\ how = answer[r] /\ how # "none"
             \/ Progress[r] = "waiting" /\ status = "unavailable" /\ how = "closed"
             \/ Progress[r] = "waiting" /\ status = "up" /\ child # 0 /\ how = "bad"
      PROVE  Serves
  <2>1. Service!Done(r, how)
    BY <1>0, <1>1, <1>5, Progresses DEF Service!Done
  <2>2. Service!Expire(r) \/ Service!Return(r) \/ Service!Refuse(r) \/ Service!Reject(r)
    BY <1>5, <2>1 DEF Service!Expire, Service!Return, Service!Refuse, Service!Reject
  <2> QED BY <2>2 DEF Serves, Service!Next, Service!Request
<1>6. CASE ReadGate(r)
  <2>1. CASE status = "unavailable" /\ AskTo(r, "done") /\ answer' = [answer EXCEPT ![r] = "closed"] /\ UNCHANGED target
    BY <1>2, <1>5, <1>6, <2>1 DEF ReadGate
  <2>2. CASE AskTo(r, "wait") /\ UNCHANGED <<target, answer>>
    BY <1>4, <1>6, <2>2 DEF ReadGate
  <2>3. CASE AskTo(r, "send") /\ target' = [target EXCEPT ![r] = upGen] /\ UNCHANGED answer
    <3>1. UNCHANGED <<Progress, HeldBy>>
      BY <1>1, <1>2, <1>3, <1>6, <2>3, Progresses DEF ReadGate
    <3> QED BY <1>0, <2>3, <3>1 DEF Serves, Service!vars, Service!requests
  <2> QED BY <1>6, <2>1, <2>2, <2>3 DEF ReadGate
<1>7. CASE SendRequest(r)
  <2>1. CASE Send(r, target[r]) /\ AskTo(r, "sent")
    <3>1. req[r] = "send" /\ UNCHANGED <<target, answer>> /\ child = target[r]
      BY <1>7, <2>1 DEF SendRequest, Send, CanSend
    <3>2. status = "up" /\ child # 0
      BY <3>1 DEF Aimed, Named
    <3>3. Service!Send(r)
      BY <1>0, <1>1, <1>2, <2>1, <3>1, <3>2, Progresses DEF Service!Send
    <3> QED BY <3>3 DEF Serves, Service!Next, Service!Request
  <2>2. CASE AskTo(r, "wait")
    BY <1>4, <1>7, <2>2 DEF SendRequest
  <2> QED BY <1>7, <2>1, <2>2 DEF SendRequest
<1>8. CASE SendRejected(r)
  <2>1. status = "up" /\ child # 0
    BY <1>8 DEF SendRejected, Aimed, Named
  <2> QED BY <1>2, <1>5, <1>8, <2>1 DEF SendRejected
<1>9. CASE WaitTimesOut(r) \/ OnRequestTimeout(r)
  BY <1>2, <1>5, <1>9 DEF WaitTimesOut, OnRequestTimeout
<1>10. CASE TakeReply(r)
  BY <1>1, <1>2, <1>5, <1>10 DEF TakeReply
<1>11. CASE Elapse(r)
  BY <1>4, <1>11 DEF Elapse
<1> QED BY <1>6, <1>7, <1>8, <1>9, <1>10, <1>11 DEF Request

LEMMA ControlServes ==
  ASSUME SupervisorAssumption, IInv, ContractInv, TypeOK',
         Start \/ Shutdown \/ \E c \in Restarters : Restarting(c)
  PROVE  Serves
<1> USE DEF IInv, ContractInv
<1>1. CASE Start
  <2>1. status = "starting" /\ child' = child
    BY <1>1 DEF Start, Phases
  <2>2. UNCHANGED <<req, target, answer, generation, shutting, status>>
    BY <1>1, <2>1 DEF Start, Transition, callVars
  <2> QED BY <2>1, <2>2, Stutters
<1>2. CASE Shutdown
  <2>1. UNCHANGED <<req, target, answer, generation, status>>
    BY <1>2 DEF Shutdown, BeginShutdown, AskShutdown, TakeChild, ShutdownExit,
           ShutdownKills,
                ShutdownGivesUp, shutdownRest, gateVars, callVars
  <2>2. UNCHANGED Service!requests
    BY <2>1, Stays DEF Service!requests
  <2>3. CASE BeginShutdown
    <3>1. ~shutting
      BY <2>3 DEF BeginShutdown, Ahead
    <3>2. Service!Close
      BY <2>1, <2>2, <2>3, <3>1 DEF BeginShutdown, Service!Close
    <3> QED BY <3>2 DEF Serves, Service!Next, Service!Bridge
  <2>4. CASE TakeChild /\ child # 0
    <3>1. Service!Lose
      BY <2>1, <2>2, <2>4 DEF TakeChild, Service!Lose
    <3> QED BY <3>1 DEF Serves, Service!Next, Service!Bridge
  <2>5. CASE ~BeginShutdown /\ ~(TakeChild /\ child # 0)
    <3>1. UNCHANGED <<child, shutting>>
      BY <1>2, <2>5 DEF Shutdown, AskShutdown, TakeChild, ShutdownExit, ShutdownKills,
                        ShutdownGivesUp
    <3> QED BY <2>1, <3>1, Stutters
  <2> QED BY <2>3, <2>4, <2>5
<1>3. ASSUME NEW c \in Restarters, Restarting(c) PROVE Serves
  <2>1. CASE Restart(c) /\ ~shutting
    <3>1. /\ Resolve(pending, "bad") /\ UNCHANGED <<req, target, shutting, generation>>
          /\ child' = 0 /\ status' = "starting"
      BY <2>1 DEF Restart, KillSlot, Transition
    <3>2. answer' = [r \in Requests |->
            IF Held(r) /\ answer[r] = "none" /\ <<r, target[r]>> \in pending THEN "bad" ELSE answer[r]]
      BY <3>1, Answered
    <3>3. ASSUME NEW r \in Requests
          PROVE  (Held(r) /\ answer[r] = "none" /\ <<r, target[r]>> \in pending) <=> Service!Open(r)
      <4>1. Held(r) => target[r] \in Gens
        BY DEF TypeOK, Named, Held
      <4> QED BY <4>1 DEF Registered, Service!Open, Progress, Held
    <3>4. Service!FailAll({r \in Requests : Service!Open(r)})
      BY <3>2, <3>3 DEF Service!FailAll
    <3>5. Service!Replace
      BY <2>1, <3>1, <3>4, Stays DEF Service!Replace
    <3> QED BY <3>5 DEF Serves, Service!Next
  <2>2. CASE ~(Restart(c) /\ ~shutting)
    <3>1. UNCHANGED <<req, target, answer, generation, child, status, shutting>>
      BY <1>3, <2>2 DEF Restarting, Restart, Join, JoinEnds, RestartEnds, RestartGivesUp,
                        restartRest, gateVars, innerVars, callVars
    <3> QED BY <3>1, Stutters
  <2> QED BY <2>1, <2>2
<1> QED BY <1>1, <1>2, <1>3

LEMMA StepServes ==
  ASSUME SupervisorAssumption, IInv, ContractInv, [Next]_vars
  PROVE  Serves
<1>1. TypeOK'
  BY NextIInv DEF IInv
<1>2. CASE Idle
  <2>1. UNCHANGED <<req, target, answer, generation, child, status, shutting>>
    BY <1>2 DEF Idle, gateVars, innerVars, callVars
  <2> QED BY <2>1, Stutters
<1> QED
  BY <1>1, <1>2, LifecycleServes, ChildServes, PingServes, RequestServes, ControlServes,
     LooseEndsIdly DEF Next, ContractInv

\* What the commands see of it: the supervisor implements SupervisorService.
THEOREM SupervisorKeepsContract == ASSUME SupervisorAssumption PROVE Spec => SupervisorContract
<1>1. Init => Service!Init
  BY DEF Init, Service!Init, Progress, HeldBy, Held
<1>2. IInv /\ ContractInv /\ [Next]_vars => Serves
  BY StepServes
<1> QED BY <1>1, <1>2, ContractInvariance, PTL DEF Spec, SupervisorContract, Service!Spec,
               Serves

-----------------------------------------------------------------------------
(* The router, for any number of calls, restarts and catalogues, over any  *)
(* supervisor that keeps the promises of SupervisorService.                *)

\* No bridge before the last restart is left, or comes up again.
Replaced ==
  /\ fresh <= bridge + 1 /\ (live # 0 => live >= fresh)
  /\ \A c \in Calls : since[c] <= fresh

\* A call and a restart that are under way together have crossed.
Overlaps == Routing!Restarting => Routing!UnderWay \subseteq crossed

\* A call has no answer before its end, and is with a current bridge.
Answers ==
  \A c \in Calls :
    /\ callAt[c] = "idle" => call[c] = "waiting"
    /\ callAt[c] \in {"idle", "asking"} => got[c] = None
    /\ callAt[c] = "asking" /\ call[c] = "sent" /\ c \notin crossed => to[c] >= fresh

\* What is kept of a bridge that was replaced was stored by a call that crossed.
KeptIsCurrent ==
  \A k \in Catalogues : cache[k] # None => cache[k].bridge >= fresh \/ cache[k].by \in crossed

\* So is all that is found in a cache some restart has cleared.
ClearedIsCrossed ==
  \A r \in Restarts, k \in Catalogues :
    restart[r] = "clearing" /\ k \notin toClear[r] /\ cache[k] # None => cache[k].by \in crossed

RouterInv ==
  /\ Routing!TypeOK /\ Replaced /\ Overlaps /\ Answers
  /\ KeptIsCurrent /\ ClearedIsCrossed /\ GivenIsCurrent

-----------------------------------------------------------------------------
(* What the steps of the router change.                                    *)

\* The bridges of the supervisor move.
Moves ==
  /\ bridge' \in Routing!Bridges /\ live' \in Routing!Bridges
  /\ \/ bridge' = bridge /\ live' \in {live, 0}
     \/ bridge' = bridge + 1 /\ live' = bridge + 1
  /\ UNCHANGED <<call, to, cache, callAt, asked, got, restart, toClear, fresh, since, crossed>>

\* A call is sent to the bridge there is, or gets its reply.
Sends(c) ==
  /\ callAt[c] = "asking"
  /\ \/ live # 0 /\ call' = [call EXCEPT ![c] = "sent"] /\ to' = [to EXCEPT ![c] = live]
     \/ UNCHANGED <<call, to>>
  /\ UNCHANGED <<bridge, live, cache, callAt, asked, got, restart, toClear, fresh, since, crossed>>

\* A call ends with nothing, or with the catalogue of the bridge it was with.
Fetched(c) == [model |-> asked[c].model, bridge |-> to[c], by |-> c]
Ends(c) ==
  /\ callAt[c] = "asking" /\ callAt' = [callAt EXCEPT ![c] = "over"]
  /\ call' = [call EXCEPT ![c] = "done"] /\ to' = [to EXCEPT ![c] = 0]
  /\ \/ got' = [got EXCEPT ![c] = None] /\ cache' = cache
     \/ /\ call[c] = "sent" /\ got' = [got EXCEPT ![c] = Fetched(c)]
        /\ cache' \in {cache, [cache EXCEPT ![asked[c].catalogue] = Fetched(c)]}
  /\ UNCHANGED <<bridge, live, asked, restart, toClear, fresh, since, crossed>>

\* A call begins, and finds what is kept or asks for it.
Begins(c) ==
  /\ callAt[c] = "idle" /\ since' = [since EXCEPT ![c] = fresh]
  /\ crossed' = IF Routing!Restarting THEN crossed \cup {c} ELSE crossed
  /\ \/ /\ Routing!Served(c) /\ callAt' = [callAt EXCEPT ![c] = "over"]
        /\ got' = [got EXCEPT ![c] = cache[asked[c].catalogue]]
     \/ callAt' = [callAt EXCEPT ![c] = "asking"] /\ got' = got
  /\ UNCHANGED <<bridge, live, call, to, cache, asked, restart, toClear, fresh>>

\* A catalogue is dropped, by a restart that clears it or because it is old.
Drops(k) ==
  /\ cache' = [cache EXCEPT ![k] = None]
  /\ \/ UNCHANGED toClear
     \/ \E r \in Restarts : toClear' = [toClear EXCEPT ![r] = @ \ {k}]
  /\ UNCHANGED <<bridge, live, call, to, callAt, asked, got, restart, fresh, since, crossed>>

\* restart_backend begins, with all of its clearing to do.
BeginsToClear(r) ==
  /\ restart' = [restart EXCEPT ![r] = "clearing"]
  /\ toClear' = [toClear EXCEPT ![r] = Catalogues]
  /\ crossed' = crossed \cup Routing!UnderWay
  /\ UNCHANGED <<bridge, live, call, to, cache, callAt, asked, got, fresh, since>>

\* It has cleared all, and the supervisor replaces the bridge.
Replaces(r) ==
  /\ restart[r] = "clearing" /\ toClear[r] = {}
  /\ live' = 0 /\ fresh' = bridge + 1
  /\ restart' = [restart EXCEPT ![r] = "holding"]
  /\ UNCHANGED <<bridge, call, to, cache, callAt, asked, got, toClear, since, crossed>>

\* It is over.
Ceases(r) ==
  /\ restart[r] # "idle" /\ restart' = [restart EXCEPT ![r] = "over"]
  /\ UNCHANGED <<bridge, live, call, to, cache, callAt, asked, got, toClear, fresh, since, crossed>>

Rests ==
  UNCHANGED <<bridge, live, call, to, cache, callAt, asked, got, restart, toClear, fresh, since,
              crossed>>

RouterMoves ==
  \/ Moves \/ Rests
  \/ \E c \in Calls : Sends(c) \/ Ends(c) \/ Begins(c)
  \/ \E k \in Catalogues : Drops(k)
  \/ \E r \in Restarts : BeginsToClear(r) \/ Replaces(r) \/ Ceases(r)

LEMMA RouterViewed ==
  ASSUME Routing!RouterAssumption, Routing!TypeOK, [Routing!Next]_(Routing!vars)
  PROVE  RouterMoves
<1> USE DEF Routing!supervisor, Routing!calls, Routing!restarts, Routing!history
<1>1. CASE Routing!Bridge
  <2>1. UNCHANGED <<call, to, cache, callAt, asked, got, restart, toClear, fresh, since, crossed>>
    BY <1>1 DEF Routing!Bridge, Routing!Service!Bridge, Routing!Service!Launch,
      Routing!Service!GoUp, Routing!Service!Lose, Routing!Service!Pause, Routing!Service!TryAgain,
      Routing!Service!GiveUp, Routing!Service!Close, Routing!Service!Fail,
      Routing!Service!requests
  <2>2. CASE Routing!Service!Launch
    <3>1. bridge \in Nat /\ MaxBridges \in Nat /\ bridge < MaxBridges /\ bridge' = bridge + 1 /\ live' = bridge'
      BY <2>2 DEF Routing!Service!Launch, Routing!RouterAssumption, Routing!TypeOK,
             Routing!Bridges
    <3> QED BY <2>1, <3>1 DEF RouterMoves, Moves, Routing!Bridges
  <2>3. CASE ~Routing!Service!Launch
    <3>1. bridge' = bridge /\ live' \in {live, 0}
      BY <1>1, <2>3 DEF Routing!Bridge, Routing!Service!Bridge,
      Routing!Service!GoUp, Routing!Service!Lose, Routing!Service!Pause, Routing!Service!TryAgain,
      Routing!Service!GiveUp, Routing!Service!Close, Routing!Service!Fail,
      Routing!Service!supervision
    <3>2. bridge' \in Routing!Bridges /\ live' \in Routing!Bridges
      BY <3>1 DEF Routing!TypeOK, Routing!Bridges, Routing!RouterAssumption
    <3> QED BY <2>1, <3>1, <3>2 DEF RouterMoves, Moves
  <2> QED BY <2>2, <2>3
<1>2. ASSUME NEW c \in Calls, Routing!Ask(c) PROVE Begins(c)
  BY <1>2 DEF Routing!Ask, Routing!End, Begins
<1>3. ASSUME NEW c \in Calls, Routing!Send(c) PROVE Sends(c)
  BY <1>3 DEF Routing!Send, Routing!Service!Send, Routing!Service!Answer,
              Routing!Service!supervision, Sends
<1>4. ASSUME NEW c \in Calls, Routing!Fail(c) PROVE Ends(c)
  BY <1>4 DEF Routing!Fail, Routing!End, Routing!Service!Refuse, Routing!Service!Reject,
      Routing!Service!Expire, Routing!Service!Return, Routing!Service!Done,
      Routing!Service!supervision, Ends
<1>5. ASSUME NEW c \in Calls, Routing!Store(c) PROVE Ends(c)
  BY <1>5 DEF Routing!Store, Routing!End, Routing!Service!Return, Routing!Service!Done,
      Routing!Service!supervision, Ends, Fetched
<1>6. ASSUME NEW k \in Catalogues, Routing!Expire(k) PROVE Drops(k)
  BY <1>6 DEF Routing!Expire, Drops
<1>7. ASSUME NEW r \in Restarts, Routing!Begin(r) PROVE BeginsToClear(r)
  BY <1>7 DEF Routing!Begin, BeginsToClear
<1>8. ASSUME NEW r \in Restarts, NEW k \in Catalogues, Routing!Clear(r, k) PROVE Drops(k)
  BY <1>8 DEF Routing!Clear, Drops
<1>9. ASSUME NEW r \in Restarts, Routing!Restart(r) PROVE Replaces(r)
  BY <1>9 DEF Routing!Restart, Routing!Service!Replace, Replaces
<1>10. ASSUME NEW r \in Restarts, Routing!Join(r) \/ Routing!RestartEnds(r) PROVE Ceases(r)
  BY <1>10 DEF Routing!Join, Routing!RestartEnds, Ceases
<1>11. CASE UNCHANGED Routing!vars
  BY <1>11 DEF Routing!vars, RouterMoves, Rests
<1> QED
  BY <1>1, <1>2, <1>3, <1>4, <1>5, <1>6, <1>7, <1>8, <1>9, <1>10, <1>11
  DEF Routing!Next, RouterMoves

-----------------------------------------------------------------------------
LEMMA FetchedIsKept ==
  ASSUME Routing!RouterAssumption, Routing!TypeOK, NEW c \in Calls
  PROVE  /\ Fetched(c) \in Routing!Kept /\ Fetched(c) # None
         /\ asked[c].catalogue \in Catalogues
<1>1. Fetched(c) \in Routing!Kept /\ asked[c].catalogue \in Catalogues
  BY DEF Routing!RouterAssumption, Routing!TypeOK, Routing!Kept, Fetched
<1>2. Routing!Kept \subseteq [model : Models, bridge : Nat, by : Calls]
  BY DEF Routing!Kept, Routing!Bridges
<1>3. None \notin Routing!Kept
  BY <1>2 DEF Routing!RouterAssumption
<1> QED BY <1>1, <1>3

LEMMA RouterInit == ASSUME Routing!RouterAssumption, Routing!Init PROVE RouterInv
<1>1. Routing!TypeOK
  <2>1. 0 \in Routing!Bridges
    BY DEF Routing!RouterAssumption, Routing!Bridges
  <2> QED BY <2>1 DEF Routing!Init, Routing!Service!Init, Routing!TypeOK
<1>2. Replaced
  BY DEF Routing!Init, Routing!Service!Init, Replaced
<1>3. Overlaps
  BY DEF Routing!Init, Overlaps, Routing!UnderWay
<1>4. Answers /\ KeptIsCurrent /\ ClearedIsCrossed /\ GivenIsCurrent
  BY DEF Routing!Init, Routing!Service!Init, Answers, KeptIsCurrent, ClearedIsCrossed,
         GivenIsCurrent, Routing!GivenIsCurrent
<1> QED BY <1>1, <1>2, <1>3, <1>4 DEF RouterInv

LEMMA RouterTypes ==
  ASSUME Routing!RouterAssumption, Routing!TypeOK, RouterMoves
  PROVE  Routing!TypeOK'
<1> USE DEF Routing!TypeOK
<1>0. MaxBridges \in Nat /\ 0 \in Routing!Bridges /\ bridge \in Nat
  BY DEF Routing!RouterAssumption, Routing!Bridges
<1>1. CASE Moves \/ Rests
  BY <1>1 DEF Moves, Rests
<1>2. ASSUME NEW c \in Calls, Sends(c) PROVE Routing!TypeOK'
  BY <1>2 DEF Sends
<1>3. ASSUME NEW c \in Calls, Ends(c) PROVE Routing!TypeOK'
  <2>1. Fetched(c) \in Routing!Kept /\ asked[c].catalogue \in Catalogues
    BY FetchedIsKept
  <2>2. /\ callAt' \in [Calls -> {"idle", "asking", "over"}]
        /\ call' \in [Calls -> {"waiting", "sent", "done"}]
        /\ to' \in [Calls -> Routing!Bridges]
        /\ UNCHANGED <<bridge, live, asked, restart, toClear, fresh, since, crossed>>
    BY <1>0, <1>3 DEF Ends
  <2>3. /\ got' \in [Calls -> Routing!Kept \cup {None}]
        /\ cache' \in [Catalogues -> Routing!Kept \cup {None}]
    BY <1>3, <2>1 DEF Ends
  <2> QED BY <2>2, <2>3
<1>4. ASSUME NEW c \in Calls, Begins(c) PROVE Routing!TypeOK'
  <2>1. asked[c].catalogue \in Catalogues
    BY FetchedIsKept
  <2> QED BY <1>4, <2>1 DEF Begins
<1>5. ASSUME NEW k \in Catalogues, Drops(k) PROVE Routing!TypeOK'
  BY <1>5 DEF Drops
<1>6. ASSUME NEW r \in Restarts, BeginsToClear(r) PROVE Routing!TypeOK'
  BY <1>6 DEF BeginsToClear, Routing!UnderWay
<1>7. ASSUME NEW r \in Restarts, Replaces(r) \/ Ceases(r) PROVE Routing!TypeOK'
  BY <1>0, <1>7 DEF Replaces, Ceases
<1> QED BY <1>1, <1>2, <1>3, <1>4, <1>5, <1>6, <1>7 DEF RouterMoves

LEMMA StepReplaced ==
  ASSUME Routing!RouterAssumption, Routing!TypeOK, Replaced, RouterMoves
  PROVE  Replaced'
<1>0. /\ bridge \in Nat /\ live \in Nat /\ fresh \in Nat
      /\ \A c \in Calls : since[c] \in Nat
  BY DEF Routing!TypeOK, Routing!Bridges
<1>1. CASE Moves
  <2>1. UNCHANGED <<fresh, since>>
    BY <1>1 DEF Moves
  <2>2. fresh <= bridge' + 1 /\ (live' # 0 => live' >= fresh)
    BY <1>0, <1>1 DEF Moves, Replaced
  <2> QED BY <2>1, <2>2 DEF Replaced
<1>2. ASSUME NEW c \in Calls, Begins(c) PROVE Replaced'
  BY <1>0, <1>2 DEF Begins, Replaced, Routing!TypeOK
<1>3. ASSUME NEW r \in Restarts, Replaces(r) PROVE Replaced'
  <2>1. \A c \in Calls : since[c] <= bridge + 1
    BY <1>0 DEF Replaced
  <2> QED BY <1>0, <1>3, <2>1 DEF Replaces, Replaced
<1>4. CASE UNCHANGED <<bridge, live, fresh, since>>
  BY <1>4 DEF Replaced
<1> QED BY <1>1, <1>2, <1>3, <1>4
        DEF RouterMoves, Sends, Ends, Drops, BeginsToClear, Ceases, Rests

LEMMA StepOverlaps ==
  ASSUME Routing!TypeOK, Overlaps, RouterMoves
  PROVE  Overlaps'
<1> USE DEF Overlaps, Routing!UnderWay, Routing!Restarting, Routing!TypeOK
<1>1. ASSUME NEW c \in Calls, Ends(c) PROVE Overlaps'
  BY <1>1 DEF Ends
<1>2. ASSUME NEW c \in Calls, Begins(c) PROVE Overlaps'
  BY <1>2 DEF Begins
<1>3. ASSUME NEW r \in Restarts, BeginsToClear(r) PROVE Overlaps'
  BY <1>3 DEF BeginsToClear
<1>4. ASSUME NEW r \in Restarts, Replaces(r) \/ Ceases(r) PROVE Overlaps'
  <2>1. Routing!Restarting' => Routing!Restarting
    BY <1>4 DEF Replaces, Ceases
  <2> QED BY <1>4, <2>1 DEF Replaces, Ceases
<1>5. CASE UNCHANGED <<restart, callAt, crossed>>
  BY <1>5
<1> QED BY <1>1, <1>2, <1>3, <1>4, <1>5 DEF RouterMoves, Moves, Sends, Drops, Rests

LEMMA StepAnswers ==
  ASSUME Routing!TypeOK, Replaced, Overlaps, Answers, RouterMoves
  PROVE  Answers'
<1> USE DEF Answers, Routing!TypeOK
<1>1. ASSUME NEW c \in Calls, Sends(c) PROVE Answers'
  BY <1>1 DEF Sends, Replaced
<1>2. ASSUME NEW c \in Calls, Ends(c) PROVE Answers'
  BY <1>2 DEF Ends
<1>3. ASSUME NEW c \in Calls, Begins(c) PROVE Answers'
  BY <1>3 DEF Begins
<1>4. ASSUME NEW r \in Restarts, BeginsToClear(r) PROVE Answers'
  BY <1>4 DEF BeginsToClear
<1>5. ASSUME NEW r \in Restarts, Replaces(r) PROVE Answers'
  <2>1. \A c \in Calls : callAt[c] = "asking" => c \in crossed
    BY <1>5 DEF Replaces, Overlaps, Routing!Restarting, Routing!UnderWay
  <2> QED BY <1>5, <2>1 DEF Replaces
<1>6. CASE UNCHANGED <<call, to, callAt, got, fresh, crossed>>
  BY <1>6
<1> QED BY <1>1, <1>2, <1>3, <1>4, <1>5, <1>6 DEF RouterMoves, Moves, Drops, Ceases, Rests

LEMMA StepKept ==
  ASSUME Routing!RouterAssumption, Routing!TypeOK, Overlaps, Answers, ClearedIsCrossed,
         KeptIsCurrent, RouterMoves
  PROVE  KeptIsCurrent'
<1> USE DEF KeptIsCurrent, Routing!TypeOK
<1>1. ASSUME NEW c \in Calls, Ends(c) PROVE KeptIsCurrent'
  <2>1. call[c] = "sent" => Fetched(c).bridge >= fresh \/ Fetched(c).by \in crossed
    BY <1>1 DEF Ends, Answers, Fetched
  <2> QED BY <1>1, <2>1 DEF Ends
<1>2. ASSUME NEW r \in Restarts, Replaces(r) PROVE KeptIsCurrent'
  BY <1>2 DEF Replaces, ClearedIsCrossed
<1>3. ASSUME NEW k \in Catalogues, Drops(k) PROVE KeptIsCurrent'
  BY <1>3 DEF Drops
<1>4. CASE UNCHANGED <<cache, fresh>> /\ crossed \subseteq crossed'
  BY <1>4
<1> QED BY <1>1, <1>2, <1>3, <1>4
        DEF RouterMoves, Moves, Sends, Begins, BeginsToClear, Ceases, Rests

LEMMA StepCleared ==
  ASSUME Routing!TypeOK, Overlaps, ClearedIsCrossed, RouterMoves
  PROVE  ClearedIsCrossed'
<1> USE DEF ClearedIsCrossed, Routing!TypeOK
<1>1. ASSUME NEW c \in Calls, Ends(c) PROVE ClearedIsCrossed'
  <2>1. (\E r \in Restarts : restart[r] = "clearing") => c \in crossed
    BY <1>1 DEF Ends, Overlaps, Routing!Restarting, Routing!UnderWay
  <2> QED BY <1>1, <2>1 DEF Ends, Fetched
<1>2. ASSUME NEW k \in Catalogues, Drops(k) PROVE ClearedIsCrossed'
  BY <1>2 DEF Drops
<1>3. ASSUME NEW r \in Restarts, BeginsToClear(r) PROVE ClearedIsCrossed'
  BY <1>3 DEF BeginsToClear
<1>4. ASSUME NEW r \in Restarts, Replaces(r) \/ Ceases(r) PROVE ClearedIsCrossed'
  BY <1>4 DEF Replaces, Ceases
<1>5. CASE UNCHANGED <<cache, restart, toClear>> /\ crossed \subseteq crossed'
  BY <1>5
<1> QED BY <1>1, <1>2, <1>3, <1>4, <1>5 DEF RouterMoves, Moves, Sends, Begins, Rests

LEMMA StepGiven ==
  ASSUME Routing!RouterAssumption, Routing!TypeOK, Replaced, Answers, KeptIsCurrent,
         GivenIsCurrent, RouterMoves
  PROVE  GivenIsCurrent'
<1> USE DEF GivenIsCurrent, Routing!GivenIsCurrent, Routing!TypeOK
<1>1. ASSUME NEW c \in Calls, Ends(c) PROVE GivenIsCurrent'
  <2>1. call[c] = "sent" =>
          /\ Fetched(c).model = asked[c].model
          /\ Fetched(c).bridge >= since[c] \/ Fetched(c).by \in crossed
    <3>1. to[c] \in Nat /\ fresh \in Nat /\ since[c] \in Nat /\ since[c] <= fresh
      BY DEF Routing!Bridges, Replaced
    <3> QED BY <1>1, <3>1 DEF Ends, Answers, Fetched
  <2> QED BY <1>1, <2>1 DEF Ends
<1>2. ASSUME NEW c \in Calls, Begins(c) PROVE GivenIsCurrent'
  <2>1. asked[c].catalogue \in Catalogues
    BY FetchedIsKept
  <2>2. CASE callAt' = [callAt EXCEPT ![c] = "asking"]
    BY <1>2, <2>2 DEF Begins
  <2>3. CASE /\ Routing!Served(c) /\ callAt' = [callAt EXCEPT ![c] = "over"]
             /\ got' = [got EXCEPT ![c] = cache[asked[c].catalogue]]
    BY <1>2, <2>1, <2>3 DEF Begins, Routing!Served, KeptIsCurrent
  <2> QED BY <1>2, <2>2, <2>3 DEF Begins
<1>3. CASE UNCHANGED <<callAt, got, asked, since>> /\ crossed \subseteq crossed'
  BY <1>3
<1> QED BY <1>1, <1>2, <1>3
        DEF RouterMoves, Moves, Sends, Drops, BeginsToClear, Replaces, Ceases, Rests

LEMMA RouterInductive ==
  ASSUME Routing!RouterAssumption, RouterInv, [Routing!Next]_(Routing!vars)
  PROVE  RouterInv'
<1>1. RouterMoves
  BY RouterViewed DEF RouterInv
<1> QED
  BY <1>1, RouterTypes, StepReplaced, StepOverlaps, StepAnswers, StepKept, StepCleared,
     StepGiven
  DEF RouterInv

\* router.rs, restart_backend and the catalogues: after a restart a command gives a
\* catalogue of an earlier bridge only if the call that fetched it was under way at the
\* same time as restart_backend.
THEOREM CataloguesAreCurrent == Routing!Spec => []GivenIsCurrent
<1>1. Routing!Init => RouterInv
  BY RouterInit, DesktopAssumption
<1>2. RouterInv /\ [Routing!Next]_(Routing!vars) => RouterInv'
  BY RouterInductive, DesktopAssumption
<1>3. RouterInv => GivenIsCurrent
  BY DEF RouterInv
<1> QED BY <1>1, <1>2, <1>3, PTL DEF Routing!Spec

-----------------------------------------------------------------------------
(* LiveHistory, for hours of any number of requests.                       *)

\* The loops of a call that wait for a request, as a number.
Waiting(t) ==
  (IF loop[t][1] = "fetching" THEN 1 ELSE 0) + (IF loop[t][2] = "fetching" THEN 1 ELSE 0)

\* A call not begun has no loops; none counts more requests than it has taken.
Counted ==
  \A t \in History!Tokens :
    /\ t > token => loop[t][1] = "none"
    /\ loop[t][1] = "none" <=> loop[t][2] = "none"
    /\ loop[t][1] = "none" => done[t] = 0 /\ failed[t] = 0
    /\ loop[t][1] # "none" =>
         done[t] + Waiting(t) <= index[t] /\ failed[t] + Waiting(t) <= index[t]
    /\ index[t] <= total[t]

\* There is a call with the current token.
Running == token \in History!Tokens /\ loop[token][1] # "none"

\* It has counted all that its loops have ended, they do not end before there is
\* nothing left to take, and the page shows its numbers.
Shown ==
  Running =>
    /\ done[token] + Waiting(token) = index[token]
    /\ index[token] < total[token] => Waiting(token) = 2
    /\ progress.done = done[token] /\ progress.total = total[token]
    /\ progress.running <=> done[token] < total[token]
    /\ ~progress.stopped

\* Without one nothing is shown as running.
Still == ~Running => ~progress.running /\ (progress.stopped \/ progress.done = progress.total)

HistoryInv == History!TypeOK /\ Counted /\ Shown /\ Still

LEMMA HistoryInit == History!HistoryAssumption /\ History!Init => HistoryInv
<1> SUFFICES ASSUME History!HistoryAssumption, History!Init PROVE HistoryInv
  OBVIOUS
<1>1. History!TypeOK
  BY DEF History!HistoryAssumption, History!Init, History!TypeOK, History!IDLE_PROGRESS,
     History!Counts, History!Tokens, History!Loops
<1>2. Counted /\ ~Running
  BY DEF History!Init, Counted, Running, History!Tokens, History!Loops
<1>3. ~progress.running /\ progress.done = progress.total
  BY DEF History!Init, History!IDLE_PROGRESS
<1> QED
  BY <1>1, <1>2, <1>3 DEF HistoryInv, Shown, Still

\* Stop, and the render after another selection: no call has the new token.
LEMMA Superseded ==
  ASSUME History!HistoryAssumption, HistoryInv, History!Supersede, UNCHANGED History!calls,
         progress' \in [running : BOOLEAN, done : History!Counts, total : History!Counts,
         failed : History!Counts,
                        stopped : BOOLEAN, selection : Selections],
         selection' \in Selections, rendered' \in Selections,
         ~progress'.running, progress'.stopped \/ progress'.done = progress'.total
  PROVE  HistoryInv'
<1>1. token' \in 0 .. MaxToken /\ token' = token + 1 /\ token \in Nat
  BY DEF History!HistoryAssumption, HistoryInv, History!TypeOK, History!Supersede
<1>2. UNCHANGED <<total, index, done, failed, loop>>
  BY DEF History!calls
<1>3. History!TypeOK'
  BY <1>1, <1>2 DEF HistoryInv, History!TypeOK
<1>4. Counted'
  BY <1>1, <1>2 DEF HistoryInv, Counted, Waiting, History!Tokens
<1>5. ~Running'
  BY <1>1, <1>2 DEF HistoryInv, Counted, Running, History!Tokens
<1> QED
  BY <1>3, <1>4, <1>5 DEF HistoryInv, Shown, Still

\* A download begins.
LEMMA Begun ==
  ASSUME History!HistoryAssumption, HistoryInv, NEW n \in History!Counts, History!CacheHour(n)
  PROVE  HistoryInv'
<1>1. PICK g \in History!Tokens : g = token' /\ g = token + 1 /\ token \in Nat /\ n \in Nat
  BY DEF History!HistoryAssumption, HistoryInv, History!TypeOK, History!CacheHour,
     History!Supersede, History!Tokens, History!Counts
<1>2. /\ total' = [total EXCEPT ![g] = n]
      /\ index' = [index EXCEPT ![g] = IF n < 2 THEN n ELSE 2]
      /\ loop' = [loop EXCEPT ![g] = [i \in History!Loops |-> IF i <= n THEN "fetching" ELSE "ended"]]
      /\ UNCHANGED <<selection, rendered, done, failed>>
  BY <1>1 DEF History!CacheHour
<1>3. progress' = [running |-> n > 0, done |-> 0, total |-> n, failed |-> 0, stopped |-> FALSE,
                   selection |-> rendered]
  BY DEF History!CacheHour, History!IDLE_PROGRESS
<1>4. (IF n < 2 THEN n ELSE 2) \in History!Counts /\ 0 \in History!Counts
  BY DEF History!HistoryAssumption, History!Counts
<1>5. [i \in History!Loops |-> IF i <= n THEN "fetching" ELSE "ended"]
        \in [History!Loops -> {"none", "fetching", "ended"}]
  OBVIOUS
<1>6. /\ loop'[g][1] = (IF 1 <= n THEN "fetching" ELSE "ended")
      /\ loop'[g][2] = (IF 2 <= n THEN "fetching" ELSE "ended")
      /\ index'[g] = (IF n < 2 THEN n ELSE 2) /\ total'[g] = n
  BY <1>1, <1>2 DEF HistoryInv, History!TypeOK, History!Loops
<1>7. Waiting(g)' = IF n < 2 THEN n ELSE 2
  BY <1>1, <1>6 DEF Waiting
<1>8. done[g] = 0 /\ failed[g] = 0
  BY <1>1 DEF HistoryInv, Counted, History!Tokens
<1>9. History!TypeOK'
  <2>1. progress' \in [running : BOOLEAN, done : History!Counts, total : History!Counts, failed : History!Counts,
                       stopped : BOOLEAN, selection : Selections]
    BY <1>3, <1>4 DEF HistoryInv, History!TypeOK
  <2>2. g \in 0 .. MaxToken
    BY <1>1 DEF History!Tokens
  <2> QED
    BY <1>1, <1>2, <1>4, <1>5, <2>1, <2>2 DEF HistoryInv, History!TypeOK
<1>10. Counted'
  <2> SUFFICES ASSUME NEW t \in History!Tokens
               PROVE  /\ t > g => loop'[t][1] = "none"
                      /\ loop'[t][1] = "none" <=> loop'[t][2] = "none"
                      /\ loop'[t][1] = "none" => done'[t] = 0 /\ failed'[t] = 0
                      /\ loop'[t][1] # "none" =>
                           done'[t] + Waiting(t)' <= index'[t] /\ failed'[t] + Waiting(t)' <= index'[t]
                      /\ index'[t] <= total'[t]
    BY <1>1 DEF Counted
  <2>1. CASE t = g
    <3>1. done'[g] = 0 /\ failed'[g] = 0
      BY <1>2, <1>8
    <3>2. Waiting(g)' <= index'[g] /\ index'[g] <= total'[g] /\ Waiting(g)' \in Nat
      BY <1>1, <1>6, <1>7
    <3> QED
      BY <1>1, <1>6, <2>1, <3>1, <3>2
  <2>2. CASE t # g
    <3>1. loop'[t] = loop[t] /\ index'[t] = index[t] /\ total'[t] = total[t]
      BY <1>2, <2>2 DEF HistoryInv, History!TypeOK
    <3>2. t \in Nat
      BY DEF History!Tokens
    <3> QED
      BY <1>1, <1>2, <3>1, <3>2 DEF HistoryInv, Counted, Waiting
  <2> QED
    BY <2>1, <2>2
<1>11. Running'
  BY <1>1, <1>6 DEF Running
<1>12. Shown'
  <2>1. done'[g] = 0 /\ done'[g] + Waiting(g)' = index'[g]
    BY <1>1, <1>2, <1>6, <1>7, <1>8
  <2>2. index'[g] < total'[g] => Waiting(g)' = 2
    BY <1>1, <1>6, <1>7
  <2> QED
    BY <1>1, <1>3, <1>6, <2>1, <2>2 DEF Shown
<1> QED
  BY <1>9, <1>10, <1>11, <1>12 DEF HistoryInv, Still

\* A loop of an earlier call ends.
LEMMA Abandoned ==
  ASSUME History!HistoryAssumption, HistoryInv, NEW t \in History!Tokens,
         NEW i \in History!Loops, NEW ok \in BOOLEAN,
         History!Abandon(t, i, ok)
  PROVE  HistoryInv'
<1>1. loop[t][i] = "fetching" /\ token # t /\ token \in 0 .. MaxToken
  BY DEF History!Abandon, HistoryInv, History!TypeOK
<1>2. UNCHANGED <<token, progress, selection, rendered, total, index, done>>
  BY DEF History!Abandon
<1>3. failed' = [failed EXCEPT ![t] = IF ok THEN @ ELSE @ + 1]
  BY DEF History!Abandon, History!Count
<1>4. loop' = [loop EXCEPT ![t][i] = "ended"]
  BY DEF History!Abandon
<1>5. /\ loop'[t][i] = "ended" /\ \A j \in History!Loops : j # i => loop'[t][j] = loop[t][j]
      /\ \A u \in History!Tokens : u # t => loop'[u] = loop[u]
      /\ loop' \in [History!Tokens -> [History!Loops -> {"none", "fetching", "ended"}]]
  BY <1>1, <1>4 DEF HistoryInv, History!TypeOK
<1>6. Waiting(t)' = Waiting(t) - 1 /\ Waiting(t) \in {1, 2}
  BY <1>1, <1>5 DEF Waiting, History!Loops
<1>7. loop[t][1] # "none" /\ loop[t][2] # "none" /\ loop'[t][1] # "none" /\ loop'[t][2] # "none"
  BY <1>1, <1>5 DEF HistoryInv, Counted, History!Loops
<1>8. done[t] \in Nat /\ failed[t] \in Nat /\ index[t] \in Nat /\ total[t] \in Nat /\ MaxRequests \in Nat
      /\ total[t] <= MaxRequests
  BY DEF History!HistoryAssumption, HistoryInv, History!TypeOK, History!Counts
<1>9. /\ failed'[t] \in {failed[t], failed[t] + 1}
      /\ \A u \in History!Tokens : u # t => failed'[u] = failed[u]
  BY <1>3 DEF HistoryInv, History!TypeOK
<1>10. failed[t] + Waiting(t) <= index[t] /\ done[t] + Waiting(t) <= index[t] /\ index[t] <= total[t]
  BY <1>7 DEF HistoryInv, Counted
<1>11. History!TypeOK'
  <2>1. failed[t] + 1 \in History!Counts
    BY <1>6, <1>8, <1>10 DEF History!Counts
  <2>2. failed' \in [History!Tokens -> History!Counts]
    BY <1>3, <2>1 DEF HistoryInv, History!TypeOK
  <2> QED
    BY <1>2, <1>5, <2>2 DEF HistoryInv, History!TypeOK
<1>12. Counted'
  <2>1. failed'[t] + Waiting(t)' <= index[t] /\ done[t] + Waiting(t)' <= index[t]
    BY <1>6, <1>8, <1>9, <1>10
  <2>2. ASSUME NEW u \in History!Tokens, u # t PROVE Waiting(u)' = Waiting(u) /\ loop'[u] = loop[u] /\ failed'[u] = failed[u]
    BY <1>5, <1>9, <2>2 DEF Waiting
  <2>3. t <= token
    BY <1>1, <1>7 DEF HistoryInv, Counted, History!Tokens
  <2> QED
    BY <1>1, <1>2, <1>7, <1>10, <2>1, <2>2, <2>3 DEF HistoryInv, Counted, History!Tokens
<1>13. Shown' /\ Still'
  <2>1. Running' = Running /\ (Running => Waiting(token)' = Waiting(token))
    BY <1>1, <1>2, <1>5 DEF Running, Waiting
  <2> QED
    BY <1>2, <2>1 DEF HistoryInv, Shown, Still
<1> QED
  BY <1>11, <1>12, <1>13 DEF HistoryInv

\* A loop of the current call counts its request and takes the next one.
LEMMA Advanced ==
  ASSUME History!HistoryAssumption, HistoryInv, NEW t \in History!Tokens,
         NEW i \in History!Loops, NEW ok \in BOOLEAN,
         History!Advance(t, i, ok)
  PROVE  HistoryInv'
<1>1. loop[t][i] = "fetching" /\ token = t
  BY DEF History!Advance
<1>2. UNCHANGED <<token, selection, rendered, total>>
  BY DEF History!Advance, History!GoOn
<1>3. failed' = [failed EXCEPT ![t] = IF ok THEN @ ELSE @ + 1] /\ done' = [done EXCEPT ![t] = @ + 1]
  BY DEF History!Advance, History!GoOn, History!Count
<1>4. done[t] \in Nat /\ failed[t] \in Nat /\ index[t] \in Nat /\ total[t] \in Nat /\ MaxRequests \in Nat
      /\ total[t] <= MaxRequests
  BY DEF History!HistoryAssumption, HistoryInv, History!TypeOK, History!Counts
<1>5. loop[t][1] # "none" /\ loop[t][2] # "none" /\ Running
  BY <1>1 DEF HistoryInv, Counted, History!Loops, Running
<1>6. /\ done[t] + Waiting(t) = index[t] /\ failed[t] + Waiting(t) <= index[t]
      /\ index[t] <= total[t] /\ (index[t] < total[t] => Waiting(t) = 2)
  BY <1>1, <1>5 DEF HistoryInv, Counted, Shown
<1>7. Waiting(t) \in {1, 2}
  BY <1>1 DEF Waiting, History!Loops
<1>8. done[t] + 1 \in History!Counts /\ failed[t] + 1 \in History!Counts /\ done[t] + 1 <= total[t]
  BY <1>4, <1>6, <1>7 DEF History!Counts
<1>9. /\ done'[t] = done[t] + 1 /\ failed'[t] \in {failed[t], failed[t] + 1}
      /\ done' \in [History!Tokens -> History!Counts] /\ failed' \in [History!Tokens -> History!Counts]
      /\ \A u \in History!Tokens : u # t => done'[u] = done[u] /\ failed'[u] = failed[u]
  BY <1>3, <1>8 DEF HistoryInv, History!TypeOK
<1>10. progress' = [progress EXCEPT !.running = done'[t] < total[t], !.done = done'[t],
                      !.total = total[t], !.failed = failed'[t], !.stopped = FALSE]
  BY DEF History!Advance, History!GoOn
<1>11. /\ progress'.done = done'[t] /\ progress'.total = total[t] /\ ~progress'.stopped
       /\ progress'.running <=> done'[t] < total[t]
  BY <1>10 DEF HistoryInv, History!TypeOK
<1>12. progress' \in [running : BOOLEAN, done : History!Counts, total : History!Counts, failed : History!Counts,
                      stopped : BOOLEAN, selection : Selections]
  <2>1. total[t] \in History!Counts /\ done'[t] \in History!Counts /\ failed'[t] \in History!Counts
    BY <1>9 DEF HistoryInv, History!TypeOK
  <2>2. (done'[t] < total[t]) \in BOOLEAN
    OBVIOUS
  <2> QED
    BY <1>10, <2>1, <2>2 DEF HistoryInv, History!TypeOK
<1>13. CASE index[t] < total[t]
  <2>1. index' = [index EXCEPT ![t] = @ + 1] /\ UNCHANGED loop
    BY <1>13 DEF History!Advance, History!GoOn
  <2>2. index'[t] = index[t] + 1 /\ index' \in [History!Tokens -> History!Counts] /\ (\A u \in History!Tokens : u # t => index'[u] = index[u])
    <3>1. index[t] + 1 \in History!Counts
      BY <1>4, <1>13 DEF History!Counts
    <3> QED
      BY <2>1, <3>1 DEF HistoryInv, History!TypeOK
  <2>3. \A u \in History!Tokens : Waiting(u)' = Waiting(u)
    BY <2>1 DEF Waiting
  <2>4. History!TypeOK'
    BY <1>2, <1>9, <1>12, <2>1, <2>2 DEF HistoryInv, History!TypeOK
  <2>5. /\ done'[t] + Waiting(t)' = index'[t] /\ failed'[t] + Waiting(t)' <= index'[t]
        /\ index'[t] <= total[t] /\ Waiting(t)' = 2
    BY <1>4, <1>6, <1>7, <1>9, <1>13, <2>2, <2>3
  <2>6. Counted'
    <3>1. done'[t] + Waiting(t)' <= index'[t]
      BY <1>4, <1>9, <2>2, <2>5 DEF History!Counts
    <3>2. ASSUME NEW u \in History!Tokens, u # t
          PROVE  done'[u] = done[u] /\ failed'[u] = failed[u] /\ index'[u] = index[u] /\ loop'[u] = loop[u]
      BY <1>9, <2>1, <2>2, <3>2
    <3> QED
      BY <1>1, <1>2, <1>5, <2>1, <2>3, <2>5, <3>1, <3>2 DEF HistoryInv, Counted,
             History!Tokens
  <2>7. Shown' /\ Still'
    BY <1>1, <1>2, <1>5, <1>11, <2>1, <2>5 DEF Shown, Still, Running
  <2> QED
    BY <2>4, <2>6, <2>7 DEF HistoryInv
<1>14. CASE ~(index[t] < total[t])
  <2>1. loop' = [loop EXCEPT ![t][i] = "ended"] /\ UNCHANGED index
    BY <1>14 DEF History!Advance, History!GoOn
  <2>2. /\ loop'[t][i] = "ended" /\ \A j \in History!Loops : j # i => loop'[t][j] = loop[t][j]
        /\ \A u \in History!Tokens : u # t => loop'[u] = loop[u]
        /\ loop' \in [History!Tokens -> [History!Loops -> {"none", "fetching", "ended"}]]
    BY <1>1, <2>1 DEF HistoryInv, History!TypeOK
  <2>3. Waiting(t)' = Waiting(t) - 1 /\ \A u \in History!Tokens : u # t => Waiting(u)' = Waiting(u)
    BY <1>1, <2>2 DEF Waiting, History!Loops
  <2>4. History!TypeOK'
    BY <1>2, <1>9, <1>12, <2>1, <2>2 DEF HistoryInv, History!TypeOK
  <2>5. /\ done'[t] + Waiting(t)' = index[t] /\ failed'[t] + Waiting(t)' <= index[t]
        /\ index[t] = total[t]
    BY <1>4, <1>6, <1>7, <1>9, <1>14, <2>3
  <2>6. loop'[t][1] # "none" /\ loop'[t][2] # "none"
    BY <1>5, <2>2 DEF History!Loops
  <2>7. Counted'
    BY <1>1, <1>2, <1>9, <2>1, <2>2, <2>3, <2>5, <2>6 DEF HistoryInv, Counted,
           History!Tokens
  <2>8. Shown' /\ Still'
    BY <1>1, <1>2, <1>4, <1>11, <2>1, <2>5, <2>6 DEF Shown, Still, Running
  <2> QED
    BY <2>4, <2>7, <2>8 DEF HistoryInv
<1> QED
  BY <1>13, <1>14

LEMMA HistoryInductive == ASSUME History!HistoryAssumption, HistoryInv, [History!Next]_(History!vars) PROVE HistoryInv'
<1>1. ASSUME NEW s \in Selections, History!Select(s) PROVE HistoryInv'
  BY <1>1 DEF History!Select, History!calls, HistoryInv, History!TypeOK, Counted, Waiting,
     Running, Shown, Still
<1>2. CASE History!Stop
  <2>1. progress' = [progress EXCEPT !.running = FALSE, !.stopped = TRUE]
        /\ History!Supersede /\ UNCHANGED History!calls /\ UNCHANGED <<selection, rendered>>
    BY <1>2 DEF History!Stop
  <2> QED
    BY <2>1, Superseded DEF HistoryInv, History!TypeOK
<1>3. CASE History!Render
  <2>1. progress' = IF progress.running
                    THEN [progress EXCEPT !.running = FALSE, !.stopped = TRUE] ELSE progress
    BY <1>3 DEF History!Render
  <2>2. History!Supersede /\ UNCHANGED History!calls /\ rendered' = selection /\ selection' = selection
    BY <1>3 DEF History!Render
  <2>3. ~progress.running => progress.stopped \/ progress.done = progress.total
    <3>1. CASE Running
      <4>1. /\ done[token] + Waiting(token) = index[token]
            /\ index[token] <= total[token]
            /\ progress.done = done[token] /\ progress.total = total[token]
            /\ progress.running <=> done[token] < total[token]
        BY <3>1 DEF HistoryInv, Counted, Shown, Running
      <4>2. done[token] \in Nat /\ total[token] \in Nat /\ index[token] \in Nat
        BY <3>1 DEF HistoryInv, History!TypeOK, Running, History!Counts
      <4>3. Waiting(token) \in Nat
        BY DEF Waiting
      <4> QED
        BY <4>1, <4>2, <4>3
    <3> QED
      BY <3>1 DEF HistoryInv, Still
  <2> QED
    BY <2>1, <2>2, <2>3, Superseded DEF HistoryInv, History!TypeOK
<1>4. CASE UNCHANGED History!vars
  BY <1>4 DEF History!vars, History!calls, HistoryInv, History!TypeOK, Counted, Waiting,
     Running, Shown, Still
<1> QED
  BY <1>1, <1>2, <1>3, <1>4, Begun, Abandoned, Advanced DEF History!Next

\* Whatever the user does while requests end in any order, what the page says of a
\* download is true.
THEOREM ProgressIsTrue == MCSpec => []ProgressIsHonest
<1>1. HistoryInv => ProgressIsHonest
  <2> SUFFICES ASSUME HistoryInv PROVE ProgressIsHonest
    OBVIOUS
  <2>1. CASE Running
    <3>1. /\ token \in History!Tokens
          /\ done[token] + Waiting(token) = index[token]
          /\ index[token] <= total[token]
          /\ index[token] < total[token] => Waiting(token) = 2
          /\ progress.done = done[token] /\ progress.total = total[token]
          /\ progress.running <=> done[token] < total[token]
      BY <2>1 DEF HistoryInv, Counted, Shown, Running
    <3>2. done[token] \in Nat /\ total[token] \in Nat /\ index[token] \in Nat
      BY <3>1 DEF HistoryInv, History!TypeOK, History!Counts
    <3>3. Waiting(token) \in {0, 1,
                2} /\ (Waiting(token) # 0 => History!Fetching(token) # {})
      BY DEF Waiting, History!Fetching, History!Loops
    <3>4. progress.running => Waiting(token) # 0
      BY <3>1, <3>2, <3>3
    <3>5. ~progress.running => progress.done = progress.total
      BY <3>1, <3>2, <3>3
    <3> QED
      BY <3>1, <3>3, <3>4, <3>5 DEF ProgressIsHonest, History!ProgressIsHonest
  <2>2. CASE ~Running
    BY <2>2 DEF HistoryInv, Still, ProgressIsHonest, History!ProgressIsHonest
  <2> QED
    BY <2>1, <2>2
<1>2. MCInit => HistoryInv
  BY HistoryInit, DesktopAssumption DEF MCInit
<1>3. HistoryInv /\ [SupervisorStep \/ RouterStep \/ HistoryStep \/ CheckStep]_
                     <<part, vars, routerVars, historyVars, checkVars>> => HistoryInv'
  <2> SUFFICES ASSUME HistoryInv, [SupervisorStep \/ RouterStep \/ HistoryStep \/ CheckStep]_
                                    <<part, vars, routerVars, historyVars, checkVars>>
               PROVE  HistoryInv'
    OBVIOUS
  <2>1. [History!Next]_(History!vars)
    BY DEF SupervisorStep, RouterStep, HistoryStep, CheckStep, historyVars, History!vars,
           History!calls
  <2> QED
    BY <2>1, HistoryInductive, DesktopAssumption
<1> QED
  BY <1>1, <1>2, <1>3, PTL DEF MCSpec

-----------------------------------------------------------------------------
(* StatusChecks, for any number of callers and any limit.                  *)

\* A check is in the set from its request on until it has settled.
InTheSet == \A c \in Checkers : c \in statusChecks <=> checkAt[c] = "checking"

Waited ==
  \A c \in Checkers : checkAt[c] = "waiting" => raced[c] \cap statusChecks # {}

CheckInv ==
  Checks!TypeOK /\ InTheSet /\ Waited /\ Cardinality(statusChecks) <= Limit

LEMMA ChecksAreFinite ==
  ASSUME Checks!CheckAssumption, Checks!TypeOK
  PROVE  IsFiniteSet(statusChecks) /\ Cardinality(statusChecks) \in Nat /\ Limit \in Nat \ {0}
<1>1. IsFiniteSet(Checkers)
  BY DEF Checks!CheckAssumption, Checks!IsFiniteSet, IsFiniteSet
<1>2. IsFiniteSet(statusChecks)
  BY <1>1, FS_Subset DEF Checks!TypeOK
<1> QED
  BY <1>2, FS_CardinalityType DEF Checks!CheckAssumption

\* A call that looks at the set checks or waits.
LEMMA LooksAtTheSet ==
  ASSUME Checks!CheckAssumption, CheckInv, NEW c \in Checkers,
         checkAt[c] \in {"idle", "resumed"}, Checks!CheckOrWait(c)
  PROVE  CheckInv'
<1> USE DEF CheckInv, Checks!TypeOK
<1>1. CASE Cardinality(statusChecks) >= Limit
  <2>1. /\ checkAt' = [checkAt EXCEPT ![c] = "waiting"] /\ raced' = [raced EXCEPT ![c] = statusChecks]
        /\ statusChecks' = statusChecks
    BY <1>1 DEF Checks!CheckOrWait, Checks!Wait, Checks!Cardinality, Cardinality
  <2>2. statusChecks # {}
    BY <1>1, ChecksAreFinite, FS_EmptySet
  <2> QED
    BY <2>1, <2>2 DEF InTheSet, Waited
<1>2. CASE ~(Cardinality(statusChecks) >= Limit)
  <2>1. /\ checkAt' = [checkAt EXCEPT ![c] = "checking"] /\ raced' = [raced EXCEPT ![c] = {}]
        /\ statusChecks' = statusChecks \cup {c}
    BY <1>2 DEF Checks!CheckOrWait, Checks!Check, Checks!Cardinality, Cardinality
  <2>2. Cardinality(statusChecks') <= Limit
    <3>1. c \notin statusChecks
      BY DEF InTheSet
    <3>2. Cardinality(statusChecks \cup {c}) = Cardinality(statusChecks) + 1
      BY <3>1, ChecksAreFinite, FS_AddElement
    <3> QED
      BY <1>2, <2>1, <3>2, ChecksAreFinite
  <2>3. InTheSet' /\ Waited'
    BY <2>1 DEF InTheSet, Waited
  <2> QED
    BY <2>1, <2>2, <2>3
<1> QED
  BY <1>1, <1>2

LEMMA Settled ==
  ASSUME Checks!CheckAssumption, CheckInv, NEW c \in Checkers, Checks!Settle(c)
  PROVE  CheckInv'
<1> USE DEF CheckInv, Checks!TypeOK
<1>1. /\ checkAt[c] = "checking" /\ statusChecks' = statusChecks \ {c} /\ raced' = raced
      /\ checkAt' = [d \in Checkers |-> IF d = c THEN "over"
                                       ELSE IF checkAt[d] = "waiting" /\ c \in raced[d] THEN "resumed"
                                       ELSE checkAt[d]]
  BY DEF Checks!Settle
<1>2. Checks!TypeOK' /\ InTheSet' /\ Waited'
  BY <1>1 DEF InTheSet, Waited
<1>3. Cardinality(statusChecks \ {c}) <= Cardinality(statusChecks)
  BY ChecksAreFinite, FS_Subset
<1>4. Cardinality(statusChecks \ {c}) \in Nat
  BY ChecksAreFinite, FS_Subset, FS_CardinalityType
<1> QED
  BY <1>1, <1>2, <1>3, <1>4, ChecksAreFinite

\* client.ts, getModelStatus: however many callers are resumed by the end of one check
\* there are never more than the limit, and who waits will be resumed by a check.
THEOREM ChecksStayGated == MCSpec => []ChecksAreGated
<1>1. MCInit => CheckInv
  <2> SUFFICES ASSUME Checks!Init, Checks!CheckAssumption PROVE CheckInv
    BY DesktopAssumption DEF MCInit
  <2>1. Checks!TypeOK /\ InTheSet /\ Waited
    BY DEF Checks!Init, Checks!TypeOK, InTheSet, Waited
  <2>2. Cardinality(statusChecks) = 0
    BY FS_EmptySet DEF Checks!Init
  <2> QED
    BY <2>1, <2>2, ChecksAreFinite DEF CheckInv
<1>2. CheckInv /\ [SupervisorStep \/ RouterStep \/ HistoryStep \/ CheckStep]_
                   <<part, vars, routerVars, historyVars, checkVars>> => CheckInv'
  <2> SUFFICES ASSUME CheckInv, [SupervisorStep \/ RouterStep \/ HistoryStep \/ CheckStep]_
                                  <<part, vars, routerVars, historyVars, checkVars>>
               PROVE  CheckInv'
    OBVIOUS
  <2>1. [Checks!Next]_(Checks!vars)
    BY DEF SupervisorStep, RouterStep, HistoryStep, CheckStep, checkVars, Checks!vars
  <2>2. CASE UNCHANGED Checks!vars
    BY <2>2 DEF Checks!vars, CheckInv, Checks!TypeOK, InTheSet, Waited
  <2>3. ASSUME NEW c \in Checkers, Checks!Call(c) \/ Checks!Resume(c) PROVE CheckInv'
    BY <2>3, LooksAtTheSet, DesktopAssumption DEF Checks!Call, Checks!Resume
  <2>4. ASSUME NEW c \in Checkers, Checks!Settle(c) PROVE CheckInv'
    BY <2>4, Settled, DesktopAssumption
  <2> QED
    BY <2>1, <2>2, <2>3, <2>4 DEF Checks!Next
<1>3. CheckInv => ChecksAreGated
  BY DEF CheckInv, Waited, ChecksAreGated, Checks!ChecksAreGated, Checks!Cardinality,
         Cardinality
<1> QED
  BY <1>1, <1>2, <1>3, PTL DEF MCSpec
=============================================================================
