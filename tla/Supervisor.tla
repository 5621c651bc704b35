----------------------------- MODULE Supervisor -----------------------------
(***************************************************************************)
(* The process supervisor of src/src-tauri/src/python/supervisor: one      *)
(* Python child at a time, watched by a lifecycle task per epoch, restarted *)
(* with backoff, shared by any number of requests, and shut down with the  *)
(* application.                                                            *)
(*                                                                         *)
(* Every section of code that holds the mutex of Inner is one step; what   *)
(* runs between two such sections can interleave.  A generation names one  *)
(* child, 0 is no child; a launched process gets it when it is attached.   *)
(* Timers may fire whenever their task waits.                              *)
(*                                                                         *)
(* Inner.status and the Gate always change together (transition), so one   *)
(* variable stands for both, with the generation of Gate::Up in upGen.     *)
(* What the frames say, the delays of the backoff, the attempt counter and *)
(* the memory of timed out ids, which only serve the log and the display,  *)
(* are left out.  So are frames for callers that no longer wait: they are  *)
(* dropped.                                                                *)
(***************************************************************************)
EXTENDS Naturals, Sequences, FiniteSets, SequencesExt

CONSTANTS
  Requests,    (* calls of Supervisor::request, one frame at most each      *)
  Restarters,  (* calls of Supervisor::restart                              *)
  AppExits,    (* whether the application is closed                         *)
  MaxCrashes,  (* SupervisorConfig::max_crashes                             *)
  MaxGen       (* bound of the model: children launched                     *)

ASSUME SupervisorAssumption ==
  /\ IsFiniteSet(Requests) /\ IsFiniteSet(Restarters)
  /\ MaxCrashes \in Nat \ {0}
  /\ MaxGen \in Nat
  /\ AppExits \in BOOLEAN

ASSUME CallerAssumption == Requests \cap {"hello", "ping", "shutdown"} = {}

Gens == 1..MaxGen
\* Epochs that a lifecycle may belong to: start() and each restart() make one,
\* and begin_shutdown() makes one that has no lifecycle.
Epochs == 0..(Cardinality(Restarters) + 1)
\* Whoever may wait for a reply of a child: pending entries are pairs of one
\* of these and a generation.
Callers == Requests \cup {"hello", "ping", "shutdown"}

VARIABLES
  status,     (* Inner.status, and the kind of the Gate                     *)
  upGen,      (* the generation in Gate::Up, 0 when the gate is not up      *)
  changed,    (* requests for which gate.changed() is ready                 *)
  epoch,      (* Inner.epoch                                                *)
  started,    (* Inner.started                                              *)
  shutting,   (* Inner.shutting_down                                        *)
  generation, (* Inner.generation                                           *)
  child,      (* Inner.child: generation of the attached child              *)
  inFlight,   (* generations whose slot says ping_in_flight                 *)
  pending,    (* Inner.pending                                              *)
  crashes,    (* Inner.crashes: crashes inside the sliding window           *)
  at,         (* where the lifecycle of each epoch is                       *)
  mine,       (* the child of each lifecycle                                *)
  loose,      (* the process each lifecycle launched, while it is not a     *)
              (* child: not attached yet, or refused                        *)
  seen,       (* exited and eof of run_child                                *)
  proc,       (* the process of each generation                             *)
  reading,    (* generations whose read_frames task still reads             *)
  events,     (* ChildEvents of each child that its lifecycle has not taken *)
  hello,      (* the lifecycle's hello reply channel                        *)
  ping,       (* the liveness ping task of each child                       *)
  req,        (* where each request is                                      *)
  target,     (* the generation each request was sent to, or is about to be *)
  answer,     (* what each request got: its reply channel, then its result  *)
  restarter,  (* where each caller of restart is                            *)
  shutter,    (* where the shutdown is                                      *)
  taken       (* the child finish_shutdown took out of the slot             *)

gateVars  == <<status, upGen, changed>>
innerVars == <<epoch, started, shutting, generation, child, inFlight, pending, crashes>>
lifeVars  == <<at, mine, loose, seen>>
procVars  == <<proc, reading, events>>
callVars  == <<hello, ping, req, target, answer>>
userVars  == <<restarter, shutter, taken>>
vars == <<gateVars, innerVars, lifeVars, procVars, callVars, userVars>>

\* Inner without the slot and the pending table; the lifecycles of other epochs.
innerRest == <<epoch, started, shutting, generation, inFlight, crashes>>

-----------------------------------------------------------------------------
(* Operations on the shared state.                                         *)

\* transition: the status and the gate change together, and whoever subscribed
\* to the gate sees that it changed.
Transition(s, g) ==
  /\ status' = s
  /\ upGen' = g
  /\ changed' = changed \cup {r \in Requests : req[r] \in {"wait", "send"}}

\* The pending entries in done leave the table, and what waits for them gets
\* its reply: from the child, or a failure.  A lifecycle that has left run_child
\* has dropped its receiver.
AwaitsHello(g) == \E e \in Epochs : mine[e] = g /\ at[e] = "hello"
Resolve(done, kind) ==
  /\ pending' = pending \ done
  /\ answer' = [r \in Requests |->
                  IF \E g \in Gens : <<r, g>> \in done THEN kind ELSE answer[r]]
  /\ hello' = [g \in Gens |->
                 IF <<"hello", g>> \in done /\ AwaitsHello(g) THEN kind ELSE hello[g]]
  /\ ping' = [g \in Gens |-> IF <<"ping", g>> \in done THEN kind ELSE ping[g]]

\* What fail_pending fails for one child.
PendingOf(g) == {p \in pending : p[2] = g}

\* kill.notify_one(): watch_exit will kill the process, unless it has ended.
Kill(g) == proc' = [h \in Gens |-> IF h = g /\ proc[h] = "running" THEN "killing" ELSE proc[h]]

\* child.take() and kill.notify_one(); with the slot its stdin closes.
KillSlot == child' = 0 /\ Kill(child)

\* drop_child(g): only if g is still the current child.
DropChild(g) == IF child = g THEN KillSlot ELSE UNCHANGED <<child, proc>>

\* Plausible bug: a child is written to, whichever it is.
CanSendAny(g) == child # 0

\* send_on_child(g): the slot must still hold g, and the writer task must still
\* run; it ends at the first write to an ended process.
CanSend(g) == child = g
MaySendFail(g) == child # g \/ proc[g] \in {"exited", "reaped"}
Send(c, g) == CanSend(g) /\ pending' = pending \cup {<<c, g>>}
SendFails(g) == MaySendFail(g) /\ UNCHANGED pending

\* Events are for the lifecycle that runs the child; a send to one that has left
\* run_child, and dropped its receiver, fails unnoticed.
Emit(g, e) ==
  events' = [events EXCEPT ![g] =
               IF \E l \in Epochs : mine[l] = g /\ at[l] \in {"greet", "hello", "greeted", "up"}
                 THEN Append(@, e) ELSE @]
Goto(e, pc) == at' = [at EXCEPT ![e] = pc]
Leave(e, pc) == Goto(e, pc) /\ events' = [events EXCEPT ![mine[e]] = <<>>]
\* The handshake is over; its reply, if there is one, has been taken or is lost.
EndHello(e) == hello' = [hello EXCEPT ![mine[e]] = "none"]
afterHello == <<ping, req, target, answer>>

-----------------------------------------------------------------------------
(* The lifecycle task of epoch e.                                          *)

\* launch(): the process is there before attach takes the lock.  Its lifecycle may
\* be cancelled already, and another one may have a child.
Launch(e) ==
  /\ at[e] = "launch"
  /\ generation + 1 \in Gens
  /\ loose' = [loose EXCEPT ![e] = "running"]
  /\ Goto(e, "launched")
  /\ UNCHANGED <<gateVars, innerVars, mine, seen, procVars, callVars, userVars>>

\* The launched process becomes the current child.
Adopt(e) ==
  LET g == generation + 1 IN
  /\ g \in Gens
  /\ generation' = g
  /\ child' = g
  /\ proc' = [proc EXCEPT ![g] = "running"]
  /\ reading' = reading \cup {g}
  /\ mine' = [mine EXCEPT ![e] = g]
  /\ loose' = [loose EXCEPT ![e] = "none"]
  /\ Goto(e, "greet")

attachRest == <<gateVars, epoch, started, shutting, inFlight, crashes, pending, seen, events,
                callVars, userVars>>

\* Plausible bug: attach does not ask whether the lifecycle was cancelled.
AttachUnchecked(e) == at[e] = "launched" /\ Adopt(e) /\ UNCHANGED attachRest

\* Plausible bug: a process that is refused is left to itself.
AttachRefusedLeft(e) ==
  /\ at[e] = "launched"
  /\ IF epoch # e \/ shutting
       THEN Goto(e, "over") /\ UNCHANGED <<generation, child, proc, reading, mine, loose>>
       ELSE Adopt(e)
  /\ UNCHANGED attachRest

\* attach: the launched process is adopted, unless the lifecycle was cancelled
\* meanwhile; then it is killed.
Attach(e) ==
  /\ at[e] = "launched"
  /\ IF epoch # e \/ shutting
       THEN /\ loose' = [loose EXCEPT ![e] = "killing"]
            /\ Goto(e, "over")
            /\ UNCHANGED <<generation, child, proc, reading, mine>>
       ELSE Adopt(e)
  /\ UNCHANGED attachRest

\* launch() fails.
LaunchFails(e) ==
  /\ at[e] = "launch"
  /\ Goto(e, "unusable")
  /\ UNCHANGED <<gateVars, innerVars, mine, loose, seen, procVars, callVars, userVars>>

\* run_child sends hello; a child that is already gone is only waited for.
Greet(e) ==
  /\ at[e] = "greet"
  /\ Goto(e, "hello")
  /\ Send("hello", mine[e]) \/ SendFails(mine[e])
  /\ UNCHANGED <<gateVars, innerRest, child, mine, loose, seen, procVars, callVars, userVars>>

\* The reply to hello is ready.  The select polls it before the events and the
\* cancellation, but it may arrive, with an event behind it, between the polls, so
\* that the other branches can win over it.  An error, an unusable payload or a
\* foreign version drops the child for good.
TakeHello(e) ==
  /\ at[e] = "hello"
  /\ \/ /\ hello[mine[e]] = "good"
        /\ Goto(e, "greeted")
        /\ UNCHANGED <<events, child, proc>>
     \/ /\ hello[mine[e]] = "bad"
        /\ Leave(e, "unusable")
        /\ DropChild(mine[e])
  /\ EndHello(e)
  /\ UNCHANGED <<gateVars, innerRest, pending, mine, loose, seen, reading, afterHello,
                 userVars>>

BothSeen(e) == seen[e] = {"exited", "eof"}

\* An event of the child while hello is awaited.  drop_child follows a corrupt
\* stream at once, and is merged with it: the gate is closed to requests, and a
\* restart between the two would only leave drop_child nothing to do.
TakeEarlyEvent(e) ==
  LET event == Head(events[mine[e]]) IN
  /\ at[e] = "hello" /\ ~BothSeen(e)
  /\ events[mine[e]] # <<>>
  /\ \/ /\ event \in {"exited", "eof"}
        /\ seen' = [seen EXCEPT ![e] = @ \cup {event}]
        /\ events' = [events EXCEPT ![mine[e]] = Tail(@)]
        /\ UNCHANGED <<at, child, proc, hello>>
     \/ /\ event = "corrupt"
        /\ DropChild(mine[e])
        /\ Leave(e, "crashed") /\ EndHello(e)
        /\ UNCHANGED seen
  /\ UNCHANGED <<gateVars, innerRest, pending, mine, loose, reading, afterHello, userVars>>

\* The child exited, and its stdout is drained and hello was not answered, or the
\* grace after its exit is over: no restart loop for such a child.
ExitedBeforeHello(e) ==
  /\ at[e] = "hello"
  /\ "exited" \in seen[e]
  /\ BothSeen(e) => hello[mine[e]] = "none"
  /\ DropChild(mine[e])
  /\ Leave(e, "unusable")
  /\ EndHello(e)
  /\ UNCHANGED <<gateVars, innerRest, pending, mine, loose, seen, reading, afterHello,
                 userVars>>

\* spawn_timeout: the waiter is removed, the child is dropped.
HelloTimesOut(e) ==
  /\ at[e] = "hello"
  /\ "exited" \notin seen[e]
  /\ pending' = pending \ {<<"hello", mine[e]>>}
  /\ DropChild(mine[e])
  /\ Leave(e, "crashed")
  /\ EndHello(e)
  /\ UNCHANGED <<gateVars, innerRest, mine, loose, seen, reading, afterHello, userVars>>

\* A newer epoch ends the lifecycle while it waits for hello.
CancelEarly(e) ==
  /\ at[e] = "hello" /\ ~BothSeen(e)
  /\ epoch # e
  /\ Leave(e, "over")
  /\ EndHello(e)
  /\ UNCHANGED <<gateVars, innerVars, mine, loose, seen, proc, reading, afterHello, userVars>>

\* Plausible bug: an exit seen while hello was awaited is forgotten.
GoUpForgetful(e) ==
  /\ at[e] = "greeted"
  /\ IF epoch = e /\ child = mine[e]
       THEN Goto(e, "up") /\ Transition("up", mine[e]) /\ UNCHANGED events
       ELSE Leave(e, "over") /\ UNCHANGED gateVars
  /\ seen' = [seen EXCEPT ![e] = {}]
  /\ UNCHANGED <<innerVars, mine, loose, proc, reading, callVars, userVars>>

\* go_up.
GoUp(e) ==
  /\ at[e] = "greeted"
  /\ IF epoch = e /\ child = mine[e]
       THEN Goto(e, "up") /\ Transition("up", mine[e]) /\ UNCHANGED events
       ELSE Leave(e, "over") /\ UNCHANGED gateVars
  /\ UNCHANGED <<innerVars, mine, loose, seen, proc, reading, callVars, userVars>>

\* lose_up_child: the child of an up bridge is lost, for an event taken before
\* go_up or one that arrives now; its pending requests fail.
LoseUpChild(e) ==
  /\ at[e] = "up"
  /\ seen[e] # {} \/ events[mine[e]] # <<>>
  /\ IF epoch # e
       THEN Leave(e, "over") /\ UNCHANGED <<pending, answer, hello, ping>>
       ELSE Leave(e, "losing") /\ Resolve(PendingOf(mine[e]), "bad")
  /\ UNCHANGED <<gateVars, innerRest, child, mine, loose, seen, proc, reading, req, target,
                 userVars>>

\* The rest of lose_up_child, after the lock was released.
DropLost(e) ==
  /\ at[e] = "losing"
  /\ DropChild(mine[e])
  /\ Goto(e, "crashed")
  /\ UNCHANGED <<gateVars, innerRest, pending, mine, loose, seen, reading, events,
                 callVars, userVars>>

\* A newer epoch ends the lifecycle of an up child.
CancelUp(e) ==
  /\ at[e] = "up" /\ seen[e] = {}
  /\ epoch # e
  /\ Leave(e, "over")
  /\ UNCHANGED <<gateVars, innerVars, mine, loose, seen, proc, reading, callVars, userVars>>

\* record_crash: crashes that left the window are forgotten, this one counts;
\* the next run_child has seen no event yet.
RecordCrash(e) ==
  /\ at[e] = "crashed"
  /\ IF epoch # e
       THEN Goto(e, "over") /\ UNCHANGED <<gateVars, crashes, seen>>
       ELSE \E recent \in 0..crashes :
              /\ crashes' = recent + 1
              /\ seen' = [seen EXCEPT ![e] = {}]
              /\ IF recent + 1 >= MaxCrashes
                   THEN Goto(e, "over") /\ Transition("unavailable", 0)
                   ELSE Goto(e, "backoff") /\ Transition("restarting", 0)
  /\ UNCHANGED <<epoch, started, shutting, generation, inFlight, child, pending, mine,
                 loose, procVars, callVars, userVars>>

\* The backoff ends, by its timer or by a newer epoch; begin_attempt.
EndBackoff(e) ==
  /\ at[e] = "backoff"
  /\ IF epoch # e
       THEN Goto(e, "over") /\ UNCHANGED gateVars
       ELSE Goto(e, "launch") /\ Transition("starting", 0)
  /\ UNCHANGED <<innerVars, mine, loose, seen, procVars, callVars, userVars>>

\* Plausible bug: the fatal end of a lifecycle does not look at the epoch.
GoUnavailableUnchecked(e) ==
  /\ at[e] = "unusable"
  /\ Goto(e, "over")
  /\ KillSlot /\ Transition("unavailable", 0)
  /\ UNCHANGED <<innerRest, pending, mine, loose, seen, reading, events, callVars, userVars>>

\* Plausible bug: the fatal end of a lifecycle is not published.
GoUnavailableSilently(e) ==
  /\ at[e] = "unusable"
  /\ Goto(e, "over")
  /\ IF epoch # e THEN UNCHANGED <<child, proc>> ELSE KillSlot
  /\ UNCHANGED <<gateVars, innerRest, pending, mine, loose, seen, reading, events,
                 callVars, userVars>>

\* go_unavailable.
GoUnavailable(e) ==
  /\ at[e] = "unusable"
  /\ Goto(e, "over")
  /\ IF epoch # e
       THEN UNCHANGED <<gateVars, child, proc>>
       ELSE KillSlot /\ Transition("unavailable", 0)
  /\ UNCHANGED <<innerRest, pending, mine, loose, seen, reading, events, callVars, userVars>>

Lifecycle(e) ==
  \/ Launch(e) \/ LaunchFails(e) \/ Attach(e) \/ Greet(e) \/ TakeHello(e) \/ TakeEarlyEvent(e)
  \/ ExitedBeforeHello(e) \/ HelloTimesOut(e) \/ CancelEarly(e) \/ GoUp(e)
  \/ LoseUpChild(e) \/ DropLost(e) \/ CancelUp(e) \/ RecordCrash(e) \/ EndBackoff(e)
  \/ GoUnavailable(e)

-----------------------------------------------------------------------------
(* The child g and its I/O tasks.                                          *)

\* finish_shutdown has returned and the application has ended; what is left of
\* it are processes.
Ended == shutter = "over"

childRest == <<gateVars, innerRest, child, lifeVars, userVars>>

\* The process ends: by itself (a crash, a closed stdin, a shutdown request), or
\* because watch_exit was told to kill it.
Exits(g) ==
  /\ proc[g] \in {"running", "killing"}
  /\ proc' = [proc EXCEPT ![g] = "exited"]
  /\ UNCHANGED <<childRest, pending, reading, events, callVars>>

\* watch_exit publishes the exit and tells the lifecycle.
WatchExit(g) ==
  /\ proc[g] = "exited"
  /\ proc' = [proc EXCEPT ![g] = "reaped"]
  /\ Emit(g, "exited")
  /\ UNCHANGED <<childRest, pending, reading, callVars>>

\* read_frames and route: a reply of the child, for better or worse, reaches the
\* caller that still waits for it.
Route(g) ==
  /\ g \in reading
  /\ \E p \in PendingOf(g), kind \in {"good", "bad"} : Resolve({p}, kind)
  /\ UNCHANGED <<childRest, procVars, req, target>>

\* An error frame with id null fails whatever waits for this child.
RouteNull(g) ==
  /\ g \in reading
  /\ Resolve(PendingOf(g), "bad")
  /\ UNCHANGED <<childRest, procVars, req, target>>

\* The reader ends at a frame it cannot decode, or at the end of stdout.
ReaderEnds(g) ==
  /\ g \in reading
  /\ reading' = reading \ {g}
  /\ \E e \in {"corrupt", "eof"} : Emit(g, e)
  /\ UNCHANGED <<childRest, pending, proc, callVars>>

\* A process that is no child ends: it was killed, or the application has ended and
\* with it the process's stdin.
LooseEnds(e) ==
  /\ loose[e] = "killing" \/ (loose[e] = "running" /\ Ended)
  /\ loose' = [loose EXCEPT ![e] = "none"]
  /\ UNCHANGED <<gateVars, innerVars, at, mine, seen, procVars, callVars, userVars>>

Child(g) == Exits(g) \/ WatchExit(g) \/ Route(g) \/ RouteNull(g) \/ ReaderEnds(g)

-----------------------------------------------------------------------------
(* Supervisor::request.                                                    *)

callerRest == <<status, upGen, lifeVars, userVars, epoch, started, shutting, generation,
                child, crashes, proc, reading>>
AskTo(r, pc) == req' = [req EXCEPT ![r] = pc]

\* gate.borrow_and_update().
ReadGate(r) ==
  /\ req[r] = "start" \/ (req[r] = "wait" /\ r \in changed)
  /\ changed' = changed \ {r}
  /\ \/ /\ status = "unavailable"
        /\ AskTo(r, "done")
        /\ answer' = [answer EXCEPT ![r] = "closed"]
        /\ UNCHANGED target
     \/ /\ status = "up"
        /\ AskTo(r, "send")
        /\ target' = [target EXCEPT ![r] = upGen]
        /\ UNCHANGED answer
     \/ /\ status \in {"starting", "restarting"}
        /\ AskTo(r, "wait")
        /\ UNCHANGED <<target, answer>>
  /\ UNCHANGED <<callerRest, inFlight, pending, events, hello, ping>>

\* send_on_child for the generation the gate showed; when that child is gone
\* the request waits for the gate to change.
SendRequest(r) ==
  /\ req[r] = "send"
  /\ \/ Send(r, target[r]) /\ AskTo(r, "sent")
     \/ SendFails(target[r]) /\ AskTo(r, "wait")
  /\ UNCHANGED <<callerRest, changed, inFlight, events, hello, ping, target, answer>>

\* encode_request rejects the request: it alone fails, nothing was sent.
SendRejected(r) ==
  /\ req[r] = "send" /\ child = target[r]
  /\ AskTo(r, "done")
  /\ answer' = [answer EXCEPT ![r] = "bad"]
  /\ UNCHANGED <<callerRest, changed, inFlight, pending, events, hello, ping, target>>

\* The deadline passes while the request waits for the gate.
WaitTimesOut(r) ==
  /\ req[r] = "wait" /\ r \notin changed
  /\ AskTo(r, "done")
  /\ answer' = [answer EXCEPT ![r] = "timeout"]
  /\ UNCHANGED <<callerRest, changed, inFlight, pending, events, hello, ping, target>>

\* The reply is there: it is taken even when the deadline has passed.
TakeReply(r) ==
  /\ req[r] = "sent" /\ answer[r] # "none"
  /\ AskTo(r, "done")
  /\ UNCHANGED <<callerRest, changed, inFlight, pending, events, hello, ping, target, answer>>

\* The deadline passes without a reply; on_request_timeout has still to run.
Elapse(r) ==
  /\ req[r] = "sent" /\ answer[r] = "none"
  /\ AskTo(r, "late")
  /\ UNCHANGED <<callerRest, changed, inFlight, pending, events, hello, ping, target, answer>>

\* on_request_timeout: the waiter goes, and a liveness ping to an up child is
\* started unless one is under way.  The cancel frame it also writes changes
\* only how soon the child answers, which Route leaves open.
OnRequestTimeout(r) ==
  LET g == target[r] IN
  /\ req[r] = "late"
  /\ pending' = pending \ {<<r, g>>}
  /\ answer' = [answer EXCEPT ![r] = "timeout"]
  /\ AskTo(r, "done")
  /\ IF child = g /\ status = "up"
       THEN /\ inFlight' = inFlight \cup {g}
            /\ ping' = IF g \in inFlight THEN ping ELSE [ping EXCEPT ![g] = "due"]
       ELSE UNCHANGED <<inFlight, ping>>
  /\ UNCHANGED <<callerRest, changed, events, hello, target>>

Request(r) ==
  \/ ReadGate(r) \/ SendRequest(r) \/ SendRejected(r) \/ WaitTimesOut(r) \/ TakeReply(r)
  \/ Elapse(r) \/ OnRequestTimeout(r)

-----------------------------------------------------------------------------
(* The liveness ping of child g.                                           *)

\* ping sends hello; a child that is gone needs none.
SendPing(g) ==
  /\ ping[g] = "due"
  /\ \/ Send("ping", g) /\ ping' = [ping EXCEPT ![g] = "sent"]
     \/ SendFails(g) /\ ping' = [ping EXCEPT ![g] = "none"]
  /\ UNCHANGED <<callerRest, changed, inFlight, events, hello, req, target, answer>>

\* on_request_timeout_quiet.
PingTimesOut(g) ==
  /\ ping[g] = "sent"
  /\ pending' = pending \ {<<"ping", g>>}
  /\ ping' = [ping EXCEPT ![g] = "bad"]
  /\ UNCHANGED <<callerRest, changed, inFlight, events, hello, req, target, answer>>

\* Plausible bug: only a failed ping resets the flag of the slot.
JudgePingKeepsFlag(g) ==
  /\ ping[g] \in {"good", "bad"}
  /\ ping' = [ping EXCEPT ![g] = "none"]
  /\ IF child = g /\ ping[g] = "bad"
       THEN inFlight' = inFlight \ {g} /\ Emit(g, "pingfailed")
       ELSE UNCHANGED <<inFlight, events>>
  /\ UNCHANGED <<callerRest, changed, pending, hello, req, target, answer>>

\* The end of ping: the attached child may be pinged again, or has failed.
JudgePing(g) ==
  /\ ping[g] \in {"good", "bad"}
  /\ ping' = [ping EXCEPT ![g] = "none"]
  /\ inFlight' = IF child = g THEN inFlight \ {g} ELSE inFlight
  /\ IF child = g /\ ping[g] = "bad" THEN Emit(g, "pingfailed") ELSE UNCHANGED events
  /\ UNCHANGED <<callerRest, changed, pending, hello, req, target, answer>>

Ping(g) == SendPing(g) \/ PingTimesOut(g) \/ JudgePing(g)

-----------------------------------------------------------------------------
(* start, restart and shutdown.                                            *)

\* start: the first child, unless restart or shutdown came first.
Start ==
  /\ ~started /\ ~shutting
  /\ started' = TRUE
  /\ Transition("starting", 0)
  /\ Goto(epoch, "launch")
  /\ UNCHANGED <<epoch, shutting, generation, child, inFlight, pending, crashes, mine,
                 loose, seen,
                 procVars, callVars, userVars>>

Holding == \E c \in Restarters : restarter[c] = "holding"
RestartTo(c, pc) == restarter' = [restarter EXCEPT ![c] = pc]
restartRest == <<gateVars, innerVars, lifeVars, procVars, callVars, shutter, taken>>

\* restart with the restart lock free: everything that waits fails, the child is
\* killed, and a new epoch with a clean crash history begins.
Restart(c) ==
  /\ restarter[c] = "idle" /\ ~Holding
  /\ IF shutting
       THEN /\ RestartTo(c, "done")
            /\ UNCHANGED <<gateVars, child, pending, crashes, started, epoch, at, proc,
                           answer, hello, ping>>
       ELSE /\ RestartTo(c, "holding")
            /\ Resolve(pending, "bad")
            /\ KillSlot
            /\ crashes' = 0
            /\ started' = TRUE
            /\ epoch' = epoch + 1
            /\ Transition("starting", 0)
            /\ Goto(epoch + 1, "launch")
  /\ UNCHANGED <<shutting, generation, inFlight, mine, loose, seen, reading, events, req,
                 target,
                 shutter, taken>>

\* A call while a restart is running joins it: it waits for the lock alone.
Join(c) ==
  /\ restarter[c] = "idle" /\ Holding
  /\ RestartTo(c, "joined")
  /\ UNCHANGED restartRest
JoinEnds(c) ==
  /\ restarter[c] = "joined" /\ ~Holding
  /\ RestartTo(c, "done")
  /\ UNCHANGED restartRest

\* The gate is no longer "starting": hello succeeded or failed.
RestartEnds(c) ==
  /\ restarter[c] = "holding" /\ status # "starting"
  /\ RestartTo(c, "done")
  /\ UNCHANGED restartRest

\* restart waits no longer than spawn_timeout and one second.
RestartGivesUp(c) ==
  /\ restarter[c] = "holding" /\ status = "starting"
  /\ RestartTo(c, "done")
  /\ UNCHANGED restartRest

shutdownRest == <<gateVars, lifeVars, callVars, restarter, started, generation, inFlight,
                  crashes, reading, events>>

\* Plausible bug: shutting_down is set, and the lifecycle is not told.
BeginShutdownSameEpoch ==
  /\ AppExits /\ shutter = "idle"
  /\ shutting' = TRUE
  /\ taken' = child
  /\ shutter' = "begun"
  /\ UNCHANGED <<shutdownRest, epoch, child, proc, pending>>

\* begin_shutdown: no lifecycle may act any more.
BeginShutdown ==
  /\ AppExits /\ shutter = "idle"
  /\ shutting' = TRUE
  /\ epoch' = epoch + 1
  /\ taken' = child
  /\ shutter' = "begun"
  /\ UNCHANGED <<shutdownRest, child, proc, pending>>

\* The rest of begin_shutdown: the child that was attached is asked to exit.
AskShutdown ==
  /\ shutter = "begun"
  /\ shutter' = "asked"
  /\ IF taken = 0 THEN UNCHANGED pending ELSE Send("shutdown", taken) \/ SendFails(taken)
  /\ UNCHANGED <<shutdownRest, epoch, shutting, child, proc, taken>>

\* finish_shutdown takes the child out of the slot, if there is one.
TakeChild ==
  /\ shutter = "asked"
  /\ taken' = child
  /\ child' = 0
  /\ shutter' = IF child = 0 THEN "over" ELSE "waiting"
  /\ UNCHANGED <<shutdownRest, epoch, shutting, proc, pending>>

\* The child exits within shutdown_timeout, before the kill or after it.
ShutdownExit ==
  /\ shutter \in {"waiting", "killing"} /\ proc[taken] = "reaped"
  /\ shutter' = "over"
  /\ UNCHANGED <<shutdownRest, epoch, shutting, child, proc, pending, taken>>

\* Plausible bug: the wait for the exit ends without a kill.
ShutdownWaitsOnly ==
  /\ shutter = "waiting" /\ proc[taken] # "reaped"
  /\ shutter' = "killing"
  /\ UNCHANGED <<shutdownRest, epoch, shutting, child, proc, pending, taken>>

\* It does not: it is killed.
ShutdownKills ==
  /\ shutter = "waiting" /\ proc[taken] # "reaped"
  /\ Kill(taken)
  /\ shutter' = "killing"
  /\ UNCHANGED <<shutdownRest, epoch, shutting, child, pending, taken>>

\* Nor does the kill show within shutdown_timeout: the application goes anyway.
ShutdownGivesUp ==
  /\ shutter = "killing" /\ proc[taken] # "reaped"
  /\ shutter' = "over"
  /\ UNCHANGED <<shutdownRest, epoch, shutting, child, proc, pending, taken>>

Shutdown == BeginShutdown \/ AskShutdown \/ TakeChild \/ ShutdownExit \/ ShutdownKills
              \/ ShutdownGivesUp

-----------------------------------------------------------------------------
Init ==
  /\ status = "starting" /\ upGen = 0 /\ changed = {}
  /\ epoch = 0 /\ started = FALSE /\ shutting = FALSE
  /\ generation = 0 /\ child = 0 /\ inFlight = {} /\ pending = {} /\ crashes = 0
  /\ at = [e \in Epochs |-> "none"]
  /\ mine = [e \in Epochs |-> 0]
  /\ loose = [e \in Epochs |-> "none"]
  /\ seen = [e \in Epochs |-> {}]
  /\ proc = [g \in Gens |-> "none"]
  /\ reading = {}
  /\ events = [g \in Gens |-> <<>>]
  /\ hello = [g \in Gens |-> "none"]
  /\ ping = [g \in Gens |-> "none"]
  /\ req = [r \in Requests |-> "start"]
  /\ target = [r \in Requests |-> 0]
  /\ answer = [r \in Requests |-> "none"]
  /\ restarter = [c \in Restarters |-> "idle"]
  /\ shutter = "idle" /\ taken = 0

Restarting(c) == Restart(c) \/ Join(c) \/ JoinEnds(c) \/ RestartEnds(c) \/ RestartGivesUp(c)

Next ==
  \/ /\ ~Ended
     /\ \/ Start
        \/ \E e \in Epochs : Lifecycle(e)
        \/ \E g \in Gens : Ping(g)
        \/ \E r \in Requests : Request(r)
        \/ \E c \in Restarters : Restarting(c)
        \/ Shutdown
  \/ \E g \in Gens : Child(g)
  \/ \E e \in Epochs : LooseEnds(e)

Spec == Init /\ [][Next]_vars

\* The runtime runs every task that can go on, timers fire and a killed process
\* ends.  What a child does of its own accord, what the deadline of a request or
\* of restart() does, and whether anybody calls is left open.
Fairness ==
  /\ WF_vars(~Ended /\ Start)
  /\ \A e \in Epochs : WF_vars(~Ended /\ Lifecycle(e)) /\ WF_vars(LooseEnds(e))
  /\ \A g \in Gens :
       /\ WF_vars(WatchExit(g))
       /\ WF_vars(proc[g] = "killing" /\ Exits(g))
       /\ WF_vars(proc[g] \in {"exited", "reaped"} /\ ReaderEnds(g))
       /\ WF_vars(~Ended /\ Ping(g))
  /\ \A c \in Restarters : WF_vars(~Ended /\ (RestartEnds(c) \/ JoinEnds(c)))
  /\ WF_vars(AskShutdown \/ TakeChild \/ ShutdownExit \/ ShutdownKills)

FairSpec == Spec /\ Fairness

-----------------------------------------------------------------------------
(* Properties.                                                             *)

Places == {"none", "launch", "launched", "greet", "hello", "greeted", "up", "losing", "crashed",
           "backoff", "unusable", "over"}

\* The values each variable ranges over.
TypeOK ==
  /\ status \in {"starting", "up", "restarting", "unavailable"}
  /\ upGen \in Gens \cup {0}
  /\ changed \subseteq Requests
  /\ epoch \in Epochs
  /\ started \in BOOLEAN /\ shutting \in BOOLEAN
  /\ generation \in Gens \cup {0}
  /\ child \in Gens \cup {0}
  /\ inFlight \subseteq Gens
  /\ pending \subseteq Callers \X Gens
  /\ crashes \in Nat
  /\ at \in [Epochs -> Places]
  /\ mine \in [Epochs -> Gens \cup {0}]
  /\ loose \in [Epochs -> {"none", "running", "killing"}]
  /\ seen \in [Epochs -> SUBSET {"exited", "eof"}]
  /\ proc \in [Gens -> {"none", "running", "killing", "exited", "reaped"}]
  /\ reading \subseteq Gens
  /\ events \in [Gens -> Seq({"exited", "eof", "corrupt", "pingfailed"})]
  /\ hello \in [Gens -> {"none", "good", "bad"}]
  /\ ping \in [Gens -> {"none", "due", "sent", "good", "bad"}]
  /\ req \in [Requests -> {"start", "wait", "send", "sent", "late", "done"}]
  /\ target \in [Requests -> Gens \cup {0}]
  /\ answer \in [Requests -> {"none", "good", "bad", "timeout", "closed"}]
  /\ restarter \in [Restarters -> {"idle", "holding", "joined", "done"}]
  /\ shutter \in {"idle", "begun", "asked", "waiting", "killing", "over"}
  /\ taken \in Gens \cup {0}

\* No stray process.  A child nobody was told to kill is the one in the slot, or the
\* one finish_shutdown took out of it and waits for: no lifecycle of an older epoch,
\* no restart and no shutdown leaves another one behind (drop_child, go_unavailable,
\* restart, finish_shutdown).  Beside it there may be processes that were launched
\* and not attached yet; each is in the hands of a lifecycle that goes on to attach,
\* which takes it for the child only where there is none, and kills it otherwise.
NoStrayProcess ==
  /\ \A g \in Gens : proc[g] = "running" => g = child \/ (shutter = "waiting" /\ g = taken)
  /\ \A e \in Epochs : loose[e] = "running" =>
       /\ at[e] = "launched"
       /\ child # 0 => epoch # e \/ shutting

\* The published status is the one of the current lifecycle, whatever the ones a
\* restart cancelled still do: while it works the bridge is starting, up or
\* restarting, and once it is over the bridge is unavailable, so that it is never
\* left without a lifecycle and without the offer to restart it.
StatusIsOfTheLifecycle ==
  started /\ ~shutting =>
    LET pc == at[epoch] IN
    /\ pc \in {"launch", "launched", "greet", "hello", "greeted"} => status = "starting"
    /\ pc \in {"up", "losing"} => status = "up" /\ upGen = mine[epoch]
    /\ pc = "up" => child = mine[epoch]
    /\ pc = "backoff" => status = "restarting"
    /\ pc \in {"none", "over"} => status = "unavailable"

\* From begin_shutdown on nothing is published and no child is attached, although
\* lifecycles may still be in the middle of their work.
NothingAfterShutdown == [][shutting => status' = status /\ child' \in {child, 0}]_vars

\* The ping flag of the slot means that a ping is under way; a flag left behind
\* would end the supervision of a live child that no longer answers.
PingFlagIsHonest ==
  \A g \in inFlight : g = child /\ proc[g] = "running" => ping[g] # "none"

\* Both: what the supervisor says of its child is so.
SupervisionIsHonest == StatusIsOfTheLifecycle /\ PingFlagIsHonest

\* The requests of a child that is gone have been failed
\* (DATA_CONTRACTS.md 611: "Pending requests fail BRIDGE_CRASHED").
LostChildFailsItsRequests ==
  shutting \/ \A p \in pending : p[1] \in Requests => p[2] = child

\* What the commands see of it.  The supervisor keeps the promises of
\* SupervisorService: whatever lifecycles of old epochs, late frames and deadlines do
\* meanwhile, a request goes to a bridge that was up and is there, no bridge is
\* answered for another, and after a restart none of those it replaced answers.
Held(r) == req[r] \in {"sent", "late"}
Progress ==
  [r \in Requests |->
     IF Held(r) THEN "sent" ELSE IF req[r] = "done" THEN "done" ELSE "waiting"]
HeldBy == [r \in Requests |-> IF Held(r) THEN target[r] ELSE 0]

Service == INSTANCE SupervisorService WITH
  MaxBridges <- MaxGen,
  bridge <- generation, live <- child, phase <- status, closing <- shutting,
  call <- Progress, to <- HeldBy, reply <- answer

SupervisorContract == Service!Spec

\* No attempt lasts for ever: starting and restarting are always left.
AttemptEnds ==
  \A s \in {"starting", "restarting"} :
    (started /\ status = s) ~> (status # s \/ shutting)

\* A child that has ended does not stay published as up.
LostChildIsNoticed ==
  \A g \in Gens : proc[g] \in {"exited", "reaped"} ~> (upGen # g \/ shutting)

\* restart returns by itself, "once hello has succeeded or failed", and so does
\* every call that joined it (control.rs 15-17), without the timeout it has.
RestartReturns ==
  \A c \in Restarters :
    restarter[c] \in {"holding", "joined"} ~> (restarter[c] = "done" \/ shutting)

\* Shutting down ends every child there is, and every process that was launched to
\* be one.
ShutdownEndsTheChild ==
  shutting ~> [](/\ \A g \in Gens : proc[g] \in {"none", "exited", "reaped"}
                 /\ \A e \in Epochs : loose[e] = "none")
=============================================================================
