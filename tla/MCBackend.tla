----------------------------- MODULE MCBackend -----------------------------
(***************************************************************************)
(* What must happen in the end, in the bridge process and in the           *)
(* supervisor that runs it: BridgeServer and Supervisor side by side, for  *)
(* TLC.  Each behaviour is one of one of them.                             *)
(***************************************************************************)
EXTENDS Naturals

CONSTANTS
  Jobs, Pings, Tokens, Junk, NoJob, Workers, MaxAdmitted, MaxEarly,
  Requests, Restarters, AppExits, MaxCrashes, MaxGen,
  Joiners        (* callers of restart that come while another one is at it  *)

VARIABLES
  part,         (* the module the behaviour is one of                       *)
  rpc, job, sweep, exitCause, slots, token, active, early, stale, event, requests,
  futures, hooked, queue, stage, outcome, replies, ran, doomed,
  status, upGen, changed, epoch, started, shutting, generation, child, inFlight,
  pending, crashes, at, mine, loose, seen, proc, reading, events, hello, ping, req, target,
  answer, restarter, shutter, taken

bridgeVars ==
  <<rpc, job, sweep, exitCause, slots, token, active, early, stale, event, requests,
    futures, hooked, queue, stage, outcome, replies, ran, doomed>>
supervisorVars ==
  <<status, upGen, changed, epoch, started, shutting, generation, child, inFlight,
    pending, crashes, at, mine, loose, seen, proc, reading, events, hello, ping, req, target,
    answer, restarter, shutter, taken>>

Bridge == INSTANCE BridgeServer
Supervision == INSTANCE Supervisor

Init == part \in {"bridge", "supervisor"} /\ Bridge!Init /\ Supervision!Init

\* Two requests never carry the same token.
OwnTokens == \A i, j \in Jobs : token[i] = token[j] => i = j \/ token[i] = Bridge!NoToken

BridgeStep == part = "bridge" /\ Bridge!Next /\ OwnTokens' /\ UNCHANGED <<part, supervisorVars>>
\* AttemptsEnd says nothing of what the application leaves behind when it exits, so
\* that it does so only where nobody has joined a restart.
JoinersJoin ==
  \A c \in Joiners : restarter[c] # "holding" /\ (shutting => restarter[c] = "idle")

SupervisorStep ==
  part = "supervisor" /\ Supervision!Next /\ JoinersJoin' /\ UNCHANGED <<part, bridgeVars>>

\* The fairness of FairSpec of BridgeServer.
BridgeFairness ==
  /\ WF_bridgeVars(part = "bridge" /\ Bridge!ReaderStep)
  /\ WF_bridgeVars(part = "bridge" /\ Bridge!Start)
  /\ \A j \in Jobs :
       /\ WF_bridgeVars(part = "bridge" /\ Bridge!Bookkeeping(j))
       /\ WF_bridgeVars(part = "bridge" /\ j \in event /\ Bridge!HandlerEnds(j))

\* The fairness of FairSpec of Supervisor.
Supervises == part = "supervisor" /\ ~Supervision!Ended

SupervisorFairness ==
  /\ WF_supervisorVars(Supervises /\ Supervision!Start)
  /\ \A e \in Supervision!Epochs :
       /\ WF_supervisorVars(Supervises /\ Supervision!Lifecycle(e))
       /\ WF_supervisorVars(part = "supervisor" /\ Supervision!LooseEnds(e))
  /\ \A g \in Supervision!Gens :
       /\ WF_supervisorVars(Supervision!WatchExit(g))
       /\ WF_supervisorVars(proc[g] = "killing" /\ Supervision!Exits(g))
       /\ WF_supervisorVars(proc[g] \in {"exited", "reaped"} /\ Supervision!ReaderEnds(g))
       /\ WF_supervisorVars(Supervises /\ Supervision!Ping(g))
  /\ \A c \in Restarters :
       WF_supervisorVars(Supervises /\ (Supervision!RestartEnds(c) \/ Supervision!JoinEnds(c)))
  /\ WF_supervisorVars(part = "supervisor" /\ (\/ Supervision!AskShutdown \/ Supervision!TakeChild
                                               \/ Supervision!ShutdownExit \/ Supervision!ShutdownKills))

Spec ==
  /\ Init /\ [][BridgeStep \/ SupervisorStep]_<<part, bridgeVars, supervisorVars>>
  /\ BridgeFairness /\ SupervisorFairness

-----------------------------------------------------------------------------
(* The properties, as BridgeServer and Supervisor state them.              *)

\* Every request the reader took is answered, if handlers end.
EveryRequestAnswered == Bridge!EveryRequestAnswered

\* The bridge process exits once its read loop has ended.
LeavingEndsInExit == Bridge!LeavingEndsInExit

\* A cancelled job leaves the queue although the running handlers may never end.
QueuedCancelAnswered == Bridge!QueuedCancelAnswered

\* From begin_shutdown on nothing is published and no child is attached, and shutting
\* down ends every child there is.
ShutdownIsFinal == Supervision!NothingAfterShutdown /\ Supervision!ShutdownEndsTheChild

\* A child that has ended does not stay published as up.
LostChildIsNoticed == Supervision!LostChildIsNoticed

\* Starting and restarting are always left, and so restart returns by itself, and
\* every call that joined it.
AttemptsEnd == Supervision!AttemptEnds /\ Supervision!RestartReturns
=============================================================================
