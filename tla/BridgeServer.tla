---------------------------- MODULE BridgeServer ----------------------------
(***************************************************************************)
(* The bridge process of src/sharpmod/bridge/server.py: one reader thread  *)
(* takes request frames from the parent, admits at most MaxAdmitted jobs   *)
(* to a pool of Workers threads, answers control frames itself, and        *)
(* cancels queued or running jobs through the registry of                  *)
(* bridge/cancellation.py.                                                 *)
(*                                                                         *)
(* A job is one wire id whose method runs on the pool; its threading.Event *)
(* is identified with the job.  The reader's handling of one frame is cut  *)
(* into steps wherever a worker thread can observe or disturb it; a done   *)
(* callback the reader runs itself is one step, because only the reader    *)
(* reads what the callback changes.                                        *)
(***************************************************************************)
EXTENDS Naturals, Sequences, FiniteSets, SequencesExt

CONSTANTS
  Jobs,         (* wire ids of requests that run on the pool                *)
  Pings,        (* wire ids of hello and soundings.progress requests        *)
  Tokens,       (* request tokens: params.request_id or "wire<id>"          *)
  Junk,         (* a token "wire<cancel id>" that belongs to no request     *)
  NoJob,        (* reader works on no job                                   *)
  Workers,      (* WORKERS                                                  *)
  MaxAdmitted,  (* MAX_ADMITTED                                             *)
  MaxEarly      (* the 64 of cancellation.cancel                            *)

ASSUME BridgeAssumption ==
  /\ IsFiniteSet(Jobs)
  /\ NoJob \notin Jobs /\ Jobs \cap Pings = {}
  /\ Junk \notin Tokens /\ "no token" \notin Tokens

ASSUME BoundAssumption ==
  /\ Workers \in Nat \ {0}
  /\ MaxAdmitted \in Nat \ {0}
  /\ MaxEarly \in Nat \ {0}

VARIABLES
  rpc,       (* where the reader thread is                                  *)
  job,       (* the job the reader is dispatching or cancelling             *)
  sweep,     (* futures the cancel sweep has still to visit                 *)
  exitCause, (* why the read loop ended                                     *)
  slots,     (* _admission: free places                                     *)
  token,     (* the token each received job carries                         *)
  active,    (* _ACTIVE: jobs whose token is registered                     *)
  early,     (* _EARLY, oldest first                                        *)
  stale,     (* tokens of _EARLY older than 30 s                            *)
  event,     (* jobs whose event is set                                     *)
  requests,  (* _requests: jobs known by wire id                            *)
  futures,   (* _futures                                                    *)
  hooked,    (* jobs whose done callback is installed                       *)
  queue,     (* the executor's work queue                                   *)
  stage,     (* progress of each job through the pool                       *)
  outcome,   (* the frame the job's worker is about to write                *)
  replies,   (* frames written for each wire id                             *)
  ran,       (* history: jobs whose handler was entered                     *)
  doomed     (* history: jobs cancelled before their handler was entered    *)

readerVars == <<rpc, job, sweep, exitCause>>
registry   == <<token, active, early, stale>>
tables     == <<requests, futures, hooked>>
pool       == <<queue, stage, outcome>>
history    == <<ran, doomed>>
vars == <<readerVars, slots, registry, event, tables, pool, replies, history>>

Ids        == Jobs \cup Pings
NoToken    == "no token"
ReplyKinds == {"result", "error", "cancelled", "busy"}
Stages     == {"none", "queued", "starting", "running", "ready", "written",
               "finished", "popped", "released", "unhooked", "done", "cancelled"}

\* Stages in which one of the pool's threads is occupied by the job.
OnWorker == {"starting", "running", "ready", "written", "finished", "popped", "released"}
Busy     == {j \in Jobs : stage[j] \in OnWorker}

\* Before the handler is entered.
Waiting  == {j \in Jobs : stage[j] \in {"none", "queued", "starting"}}

Received(i) == IF i \in Jobs THEN token[i] # NoToken ELSE replies[i] # <<>>

Reply(i, kind) == replies' = [replies EXCEPT ![i] = Append(@, kind)]
SetStage(j, to) == stage' = [stage EXCEPT ![j] = to]
Goto(to) == rpc' = to

Init ==
  /\ rpc = "idle"
  /\ job = NoJob
  /\ sweep = {}
  /\ exitCause = "none"
  /\ slots = MaxAdmitted
  /\ token = [j \in Jobs |-> NoToken]
  /\ active = {}
  /\ early = <<>>
  /\ stale = {}
  /\ event = {}
  /\ requests = {}
  /\ futures = {}
  /\ hooked = {}
  /\ queue = <<>>
  /\ stage = [j \in Jobs |-> "none"]
  /\ outcome = [j \in Jobs |-> "none"]
  /\ replies = [i \in Ids |-> <<>>]
  /\ ran = {}
  /\ doomed = {}

-----------------------------------------------------------------------------
(* The reader thread: frames that need no pool thread.                     *)

\* hello and soundings.progress run their handler on the read loop.
AnswerInline(i) ==
  /\ rpc = "idle"
  /\ ~Received(i)
  /\ \E kind \in {"result", "error"} : Reply(i, kind)
  /\ UNCHANGED <<readerVars, slots, registry, event, tables, pool, history>>

\* Unknown method, or parameters check_params refuses.
Reject(j, t) ==
  /\ rpc = "idle"
  /\ ~Received(j)
  /\ token' = [token EXCEPT ![j] = t]
  /\ Reply(j, "error")
  /\ UNCHANGED <<readerVars, slots, active, early, stale, event, tables, pool, history>>

-----------------------------------------------------------------------------
(* The reader thread: admitting a job.                                     *)

\* _admission.acquire(blocking=False).
Acquire(j, t) ==
  /\ rpc = "idle"
  /\ ~Received(j)
  /\ token' = [token EXCEPT ![j] = t]
  /\ \/ /\ slots = 0
        /\ Reply(j, "busy")
        /\ UNCHANGED <<readerVars, slots>>
     \/ /\ slots > 0
        /\ slots' = slots - 1
        /\ job' = j
        /\ Goto("acquired")
        /\ UNCHANGED <<replies, sweep, exitCause>>
  /\ UNCHANGED <<active, early, stale, event, tables, pool, history>>

TokenInUse(t) == \E k \in active : token[k] = t

EarlyWithout(t) ==
  IF t \in ToSet(early)
  THEN RemoveAt(early, CHOOSE i \in DOMAIN early : early[i] = t)
  ELSE early

\* cancellation.release removes whatever job is registered under the token.
Released(t) == {k \in active : token[k] # t}

\* Mutant of Register: a refused token keeps its place.
RegisterKeepsPlace ==
  /\ rpc = "acquired"
  /\ LET t == token[job]
     IN IF TokenInUse(t)
        THEN /\ Reply(job, "error")
             /\ job' = NoJob
             /\ Goto("idle")
             /\ UNCHANGED <<active, early, stale>>
        ELSE /\ active' = active \cup {job}
             /\ early' = EarlyWithout(t)
             /\ stale' = stale \ {t}
             /\ Goto("registered")
             /\ UNCHANGED <<replies, job>>
  /\ UNCHANGED <<slots, event, doomed, sweep, exitCause, token, tables, pool, ran>>

\* Mutant of Register: a refused token is released as if it had been taken.
RegisterReleasesToken ==
  /\ rpc = "acquired"
  /\ LET t == token[job]
     IN IF TokenInUse(t)
        THEN /\ slots' = slots + 1
             /\ active' = Released(t)
             /\ Reply(job, "error")
             /\ job' = NoJob
             /\ Goto("idle")
             /\ UNCHANGED <<early, stale>>
        ELSE /\ active' = active \cup {job}
             /\ early' = EarlyWithout(t)
             /\ stale' = stale \ {t}
             /\ Goto("registered")
             /\ UNCHANGED <<slots, replies, job>>
  /\ UNCHANGED <<event, doomed, sweep, exitCause, token, tables, pool, ran>>

\* cancellation.register, and the release of the place when it fails.
Register ==
  /\ rpc = "acquired"
  /\ LET t == token[job]
         hit == t \in ToSet(early) /\ t \notin stale
     IN \/ /\ TokenInUse(t)
           /\ slots' = slots + 1
           /\ Reply(job, "error")
           /\ job' = NoJob
           /\ Goto("idle")
           /\ UNCHANGED <<active, early, stale, event, doomed>>
        \/ /\ ~TokenInUse(t)
           /\ active' = active \cup {job}
           /\ early' = EarlyWithout(t)
           /\ stale' = stale \ {t}
           /\ event' = IF hit THEN event \cup {job} ELSE event
           /\ doomed' = IF hit THEN doomed \cup {job} ELSE doomed
           /\ Goto("registered")
           /\ UNCHANGED <<slots, replies, job>>
  /\ UNCHANGED <<sweep, exitCause, token, tables, pool, ran>>

\* _requests[id] = event; pool.submit; _futures[event] = future.
Submit ==
  /\ rpc = "registered"
  /\ requests' = requests \cup {job}
  /\ futures' = futures \cup {job}
  /\ queue' = Append(queue, job)
  /\ SetStage(job, "queued")
  /\ Goto("submitted")
  /\ UNCHANGED <<job, sweep, exitCause, slots, registry, event, hooked, outcome, replies, history>>

\* What finished() does, when the reader thread is the one that runs it.
RunCallback(j) ==
  /\ requests' = requests \ {j}
  /\ futures' = futures \ {j}
  /\ active' = Released(token[j])
  /\ slots' = slots + 1

\* Mutant of CancelQueued: the answer does not depend on Future.cancel().
CancelQueuedOrNot(j) ==
  IF stage[j] = "queued"
  THEN /\ SetStage(j, "cancelled")
       /\ RunCallback(j)
       /\ Reply(j, "cancelled")
  ELSE Reply(j, "cancelled") /\ UNCHANGED <<stage, requests, futures, active, slots>>

\* Future.cancel succeeds on a queued job: its callback answers "cancelled".
\* The work item stays in the executor's queue.
CancelQueued(j) ==
  /\ stage[j] = "queued"
  /\ SetStage(j, "cancelled")
  /\ RunCallback(j)
  /\ Reply(j, "cancelled")

\* add_done_callback: a job that is already over has its callback run here.
Hook ==
  /\ rpc = "submitted"
  /\ hooked' = hooked \cup {job}
  /\ Goto("hooked")
  /\ IF stage[job] = "unhooked"
     THEN RunCallback(job) /\ SetStage(job, "done")
     ELSE UNCHANGED <<requests, futures, active, slots, stage>>
  /\ UNCHANGED <<job, sweep, exitCause, token, early, stale, event, queue, outcome, replies, history>>

\* "if event.is_set(): future.cancel()".
CancelIfSet ==
  /\ rpc = "hooked"
  /\ job' = NoJob
  /\ Goto("idle")
  /\ \/ job \in event /\ CancelQueued(job)
     \/ /\ ~(job \in event /\ stage[job] = "queued")
        /\ UNCHANGED <<stage, requests, futures, active, slots, replies>>
  /\ UNCHANGED <<sweep, exitCause, token, early, stale, event, hooked, queue, outcome, history>>

-----------------------------------------------------------------------------
(* The reader thread: cancel frames.                                       *)

\* Record an early cancel: a known token keeps its place, the oldest go first.
Remember(t) ==
  LET kept == IF t \in ToSet(early) /\ t # Junk THEN early ELSE Append(early, t)
  IN  IF Len(kept) > MaxEarly THEN Tail(kept) ELSE kept

\* Cancel by wire id, line 156: the target is in _requests.
CancelWire(j) ==
  /\ rpc = "idle"
  /\ j \in requests
  /\ job' = j
  /\ Goto("target")
  /\ UNCHANGED <<sweep, exitCause, slots, registry, event, tables, pool, replies, history>>

\* Cancel by a wire id that is not in _requests: treated as a token cancel.
CancelUnknownWire ==
  /\ rpc = "idle"
  /\ early' = Remember(Junk)
  /\ stale' = stale \cap ToSet(early')
  /\ sweep' = futures
  /\ Goto("sweep")
  /\ UNCHANGED <<job, exitCause, slots, token, active, event, tables, pool, replies, history>>

\* Line 157, "self._requests[target].set()": a worker's callback may have
\* removed the entry since line 156, and the KeyError ends the read loop.
SetTarget ==
  /\ rpc = "target"
  /\ job' = NoJob
  /\ \/ /\ job \in requests
        /\ event' = event \cup {job}
        /\ doomed' = IF job \in Waiting THEN doomed \cup {job} ELSE doomed
        /\ sweep' = futures
        /\ Goto("sweep")
        /\ UNCHANGED exitCause
     \/ /\ job \notin requests
        /\ exitCause' = "KeyError"
        /\ Goto("leaving")
        /\ UNCHANGED <<event, doomed, sweep>>
  /\ UNCHANGED <<slots, registry, tables, pool, replies, ran>>

\* Cancel by token: set the event of the owner, or remember the token.
CancelToken(t) ==
  LET owner == {j \in active : token[j] = t}
  IN /\ rpc = "idle"
     /\ \/ /\ owner # {}
           /\ event' = event \cup owner
           /\ doomed' = doomed \cup (owner \cap Waiting)
           /\ UNCHANGED <<early, stale>>
        \/ /\ owner = {}
           /\ early' = Remember(t)
           /\ stale' = (stale \ {t}) \cap ToSet(early')
           /\ UNCHANGED <<event, doomed>>
     /\ sweep' = futures
     /\ Goto("sweep")
     /\ UNCHANGED <<job, exitCause, slots, token, active, tables, pool, replies, ran>>

\* Mutant of Sweep: no future is cancelled.
SweepNothing(j) ==
  /\ rpc = "sweep"
  /\ j \in sweep
  /\ sweep' = sweep \ {j}
  /\ UNCHANGED <<rpc, job, exitCause, registry, event, hooked, outcome, history,
                 queue, stage, requests, futures, slots, replies>>

\* Mutant of Sweep: the scan does not look at the events.
SweepEverything(j) ==
  /\ rpc = "sweep"
  /\ j \in sweep
  /\ sweep' = sweep \ {j}
  /\ IF stage[j] = "queued" THEN CancelQueued(j)
     ELSE UNCHANGED <<stage, requests, futures, active, slots, replies>>
  /\ UNCHANGED <<rpc, job, exitCause, token, early, stale, event, hooked, queue, outcome, history>>

\* The scan after every cancel: cancel each future whose event is set.
Sweep(j) ==
  /\ rpc = "sweep"
  /\ j \in sweep
  /\ sweep' = sweep \ {j}
  /\ \/ j \in event /\ CancelQueued(j)
     \/ /\ ~(j \in event /\ stage[j] = "queued")
        /\ UNCHANGED <<stage, requests, futures, active, slots, replies>>
  /\ UNCHANGED <<rpc, job, exitCause, token, early, stale, event, hooked, queue, outcome, history>>

SweepDone ==
  /\ rpc = "sweep"
  /\ sweep = {}
  /\ Goto("idle")
  /\ UNCHANGED <<job, sweep, exitCause, slots, registry, event, tables, pool, replies, history>>

\* Thirty seconds pass for an early cancel.
Expire(t) ==
  /\ t \in ToSet(early) \ (stale \cup {Junk})
  /\ stale' = stale \cup {t}
  /\ UNCHANGED <<readerVars, slots, token, active, early, event, tables, pool, replies, history>>

-----------------------------------------------------------------------------
(* The reader thread: leaving the read loop.                               *)

\* End of the request stream, or a shutdown frame.
Leave(cause) ==
  /\ rpc = "idle"
  /\ exitCause' = cause
  /\ Goto("leaving")
  /\ UNCHANGED <<job, sweep, slots, registry, event, tables, pool, replies, history>>

\* Mutant of SetAllEvents: running jobs are not told to stop.
SetNoEvents ==
  /\ rpc = "leaving"
  /\ Goto("draining")
  /\ UNCHANGED <<job, sweep, exitCause, slots, registry, event, tables, pool, replies, history>>

\* serve()'s finally block: every known event is set.
SetAllEvents ==
  /\ rpc = "leaving"
  /\ event' = event \cup requests
  /\ doomed' = doomed \cup (requests \cap Waiting)
  /\ Goto("draining")
  /\ UNCHANGED <<job, sweep, exitCause, slots, registry, tables, pool, replies, ran>>

\* pool.shutdown(cancel_futures=True): empty the work queue ...
Drain ==
  /\ rpc = "draining"
  /\ queue # <<>>
  /\ queue' = Tail(queue)
  /\ \/ CancelQueued(Head(queue))
     \/ /\ stage[Head(queue)] = "cancelled"
        /\ UNCHANGED <<stage, requests, futures, active, slots, replies>>
  /\ UNCHANGED <<readerVars, token, early, stale, event, hooked, outcome, history>>

\* ... and wait=True: join the workers, then return.
Exit ==
  /\ rpc = "draining"
  /\ queue = <<>>
  /\ Busy = {}
  /\ Goto("exited")
  /\ UNCHANGED <<job, sweep, exitCause, slots, registry, event, tables, pool, replies, history>>

-----------------------------------------------------------------------------
(* A worker thread.                                                        *)

WorkerFrame == <<readerVars, token, early, stale, event, hooked>>

\* Take the next work item; set_running_or_notify_cancel skips a cancelled one.
Start ==
  /\ queue # <<>>
  /\ Cardinality(Busy) < Workers
  /\ queue' = Tail(queue)
  /\ stage' = IF stage[Head(queue)] = "queued"
              THEN [stage EXCEPT ![Head(queue)] = "starting"] ELSE stage
  /\ UNCHANGED <<WorkerFrame, slots, active, requests, futures, outcome, replies, history>>

\* Mutant of Enter: the scope does not check the event.
EnterUnchecked(j) ==
  /\ stage[j] = "starting"
  /\ SetStage(j, "running")
  /\ ran' = ran \cup {j}
  /\ UNCHANGED <<WorkerFrame, slots, active, requests, futures, queue, outcome, replies, doomed>>

\* cancellation.scope: check() before the handler is entered.
Enter(j) ==
  /\ stage[j] = "starting"
  /\ \/ /\ j \in event
        /\ SetStage(j, "ready")
        /\ outcome' = [outcome EXCEPT ![j] = "cancelled"]
        /\ UNCHANGED ran
     \/ /\ j \notin event
        /\ SetStage(j, "running")
        /\ ran' = ran \cup {j}
        /\ UNCHANGED outcome
  /\ UNCHANGED <<WorkerFrame, slots, active, requests, futures, queue, replies, doomed>>

\* The handler ends: by itself, or at one of its cancellation checks; a
\* result is dropped for the cancellation error if the event is set by now.
HandlerEnds(j) ==
  /\ stage[j] = "running"
  /\ SetStage(j, "ready")
  /\ \E kind \in {"error"} \cup (IF j \in event THEN {"cancelled"} ELSE {"result"}) :
        outcome' = [outcome EXCEPT ![j] = kind]
  /\ UNCHANGED <<WorkerFrame, slots, active, requests, futures, queue, replies, history>>

\* Mutant of WriteReply: a cancelled job ends without an answer.
WriteReplyUnlessCancelled(j) ==
  /\ stage[j] = "ready"
  /\ SetStage(j, "written")
  /\ IF outcome[j] = "cancelled" THEN UNCHANGED replies ELSE Reply(j, outcome[j])
  /\ UNCHANGED <<WorkerFrame, slots, active, requests, futures, queue, outcome, history>>

WriteReply(j) ==
  /\ stage[j] = "ready"
  /\ SetStage(j, "written")
  /\ Reply(j, outcome[j])
  /\ UNCHANGED <<WorkerFrame, slots, active, requests, futures, queue, outcome, history>>

\* future.set_result: the worker runs the callback if it is installed.
SetResult(j) ==
  /\ stage[j] = "written"
  /\ SetStage(j, IF j \in hooked THEN "finished" ELSE "unhooked")
  /\ UNCHANGED <<WorkerFrame, slots, active, requests, futures, queue, outcome, replies, history>>

\* finished(), on the worker: the three updates the reader can tell apart.
PopRequest(j) ==
  /\ stage[j] = "finished"
  /\ SetStage(j, "popped")
  /\ requests' = requests \ {j}
  /\ futures' = futures \ {j}
  /\ UNCHANGED <<WorkerFrame, slots, active, queue, outcome, replies, history>>

ReleaseToken(j) ==
  /\ stage[j] = "popped"
  /\ SetStage(j, "released")
  /\ active' = Released(token[j])
  /\ UNCHANGED <<WorkerFrame, slots, requests, futures, queue, outcome, replies, history>>

ReleaseSlot(j) ==
  /\ stage[j] = "released"
  /\ SetStage(j, "done")
  /\ slots' = slots + 1
  /\ UNCHANGED <<WorkerFrame, active, requests, futures, queue, outcome, replies, history>>

-----------------------------------------------------------------------------
\* The process is gone.
Gone == rpc = "exited" /\ UNCHANGED vars

\* The parent may send any frame it has not sent, cancel anything, or leave.
Frame ==
  \/ \E i \in Pings : AnswerInline(i)
  \/ \E j \in Jobs, t \in Tokens : Reject(j, t) \/ Acquire(j, t)
  \/ \E j \in Jobs : CancelWire(j)
  \/ CancelUnknownWire
  \/ \E t \in Tokens : CancelToken(t)
  \/ \E cause \in {"EOF", "shutdown"} : Leave(cause)

\* The rest of the handling of a frame: the reader runs it without waiting.
ReaderStep ==
  \/ Register \/ Submit \/ Hook \/ CancelIfSet
  \/ SetTarget \/ (\E j \in Jobs : Sweep(j)) \/ SweepDone
  \/ SetAllEvents \/ Drain \/ Exit

Bookkeeping(j) ==
  \/ Enter(j) \/ WriteReply(j) \/ SetResult(j)
  \/ PopRequest(j) \/ ReleaseToken(j) \/ ReleaseSlot(j)

WorkerStep(j) == Bookkeeping(j) \/ HandlerEnds(j)

Next ==
  \/ Frame
  \/ ReaderStep
  \/ Start
  \/ \E j \in Jobs : WorkerStep(j)
  \/ \E t \in Tokens : Expire(t)
  \/ Gone

Spec == Init /\ [][Next]_vars

\* Threads are scheduled.  A handler may run for ever, but it stops at a check
\* once its event is set (cancellation.check in the handlers and the provider).
FairSpec ==
  /\ Spec
  /\ WF_vars(ReaderStep)
  /\ WF_vars(Start)
  /\ \A j \in Jobs : WF_vars(Bookkeeping(j)) /\ WF_vars(j \in event /\ HandlerEnds(j))

\* Every handler ends: each provider call has a timeout.
HandlersEnd == \A j \in Jobs : WF_vars(HandlerEnds(j))

-----------------------------------------------------------------------------
(* Correctness.                                                            *)

TypeOK ==
  /\ rpc \in {"idle", "acquired", "registered", "submitted", "hooked", "target",
             "sweep", "leaving", "draining", "exited"}
  /\ job \in Jobs \cup {NoJob}
  /\ rpc \in {"acquired", "registered", "submitted", "hooked", "target"} => job \in Jobs
  /\ sweep \subseteq Jobs
  /\ exitCause \in {"none", "EOF", "shutdown", "KeyError"}
  /\ slots \in Nat
  /\ token \in [Jobs -> Tokens \cup {NoToken}]
  /\ active \subseteq Jobs
  /\ early \in Seq(Tokens \cup {Junk})
  /\ stale \subseteq Tokens
  /\ event \subseteq Jobs
  /\ requests \subseteq Jobs
  /\ futures \subseteq Jobs
  /\ hooked \subseteq Jobs
  /\ queue \in Seq(Jobs)
  /\ stage \in [Jobs -> Stages]
  /\ outcome \in [Jobs -> {"none", "result", "error", "cancelled"}]
  /\ \A j \in Jobs : stage[j] = "ready" => outcome[j] \in ReplyKinds
  /\ replies \in [Ids -> Seq(ReplyKinds)]
  /\ ran \subseteq Jobs
  /\ doomed \subseteq Jobs

\* The jobs that hold a place of the admission semaphore.
Dispatching == IF rpc \in {"acquired", "registered"} THEN {job} ELSE {}
Holding == Dispatching \cup {j \in Jobs : stage[j] \notin {"none", "done", "cancelled"}}

\* Admission is conserved: the free places and the jobs that hold one always
\* add up to MAX_ADMITTED, on every path a job takes out of the pool (server.py
\* 172-193); a place lost would end as "busy" for ever, one given back twice
\* would raise from the BoundedSemaphore.
AdmissionConserved == slots + Cardinality(Holding) = MaxAdmitted

\* No wire id is ever answered twice, although the worker, the reader's cancel
\* sweep, the done callback and the drain on shutdown can all answer a job.
OneReply == \A i \in Ids : Len(replies[i]) <= 1

\* Why OneReply holds: only a job that is still to be answered can be on its way
\* to the pool, in it, or being dispatched.
Unanswered ==
  /\ \A j \in Jobs : token[j] = NoToken => stage[j] = "none" /\ replies[j] = <<>>
  /\ rpc \in {"acquired", "registered"} =>
       token[job] # NoToken /\ stage[job] = "none" /\ replies[job] = <<>>
  /\ \A j \in Jobs : stage[j] \in {"queued", "starting", "running", "ready"} => replies[j] = <<>>

\* A cancelled job whose handler was not entered yet never enters it
\* (DATA_CONTRACTS.md: cancellation stops queued work before it starts).
CancelledNeverRuns == doomed \cap ran = {}

\* As long as a submitted job is unanswered a cancel by token or by wire id
\* still finds it: no other job's release removes its registration.
StillCancellable ==
  \A j \in Jobs : stage[j] \in {"queued", "starting", "running", "ready"}
                    => j \in active \cap requests \cap futures

\* A cancel reaches its job until the answer, and takes effect if it came in time.
CancelsAreHonoured == CancelledNeverRuns /\ StillCancellable

\* main(): "Serve requests until EOF or shutdown": the read loop ends for no
\* other reason (server.py 253).
ServesUntilEofOrShutdown == exitCause \in {"none", "EOF", "shutdown"}

\* Every request the reader took is answered, if handlers end.
EveryRequestAnswered == HandlersEnd => \A j \in Jobs : Received(j) ~> replies[j] # <<>>

\* Once the read loop ends the process exits, even when a handler would never
\* end by itself: the finally block of serve() reaches every running job.
LeavingEndsInExit == rpc = "leaving" ~> rpc = "exited"

\* A cancelled job that still sits in the queue leaves it, although the handlers
\* that keep the pool busy may never end.
QueuedCancelAnswered ==
  \A j \in Jobs : (stage[j] = "queued" /\ j \in event)
                    ~> (stage[j] # "queued" \/ rpc = "exited")

-----------------------------------------------------------------------------
(* The bridge implements the request contract of BridgeService.            *)

Service == INSTANCE BridgeService WITH
  serving   <- rpc \notin {"leaving", "draining", "exited"},
  open      <- {j \in Jobs : Received(j) /\ replies[j] = <<>>},
  cancelled <- event,
  answer    <- replies

\* Every step of the bridge is a step of the contract or invisible to it: one
\* answer per request, "cancelled" only to requests somebody cancelled, at most
\* MaxAdmitted jobs open, none taken once the read loop has ended.
ServiceContract == Service!Spec
=============================================================================
