------------------------------- MODULE Router -------------------------------
(***************************************************************************)
(* The catalogues the router keeps (backend/router.rs, map_ops.rs,         *)
(* sounding_ops.rs, reports_ops.rs) and restart_backend, which clears      *)
(* them one by one and then has the supervisor start another bridge.       *)
(*                                                                         *)
(* The supervisor is what it promises its callers: SupervisorService, each *)
(* call of a command being one of its requests.  Supervisor implements it. *)
(***************************************************************************)
EXTENDS Naturals

CONSTANTS
  Calls,        (* calls of the commands                                    *)
  Restarts,     (* calls of restart_backend                                 *)
  Catalogues,   (* the caches                                               *)
  Models,       (* whose catalogue it is, where it is one of a model        *)
  Asks,         (* what is asked for: a catalogue, its model, or one run's  *)
  Expiring,     (* catalogues that are kept for MODELS_TTL                  *)
  None,
  AppExits,     (* whether the application is closed                        *)
  MaxBridges    (* bound: bridges started                                   *)

VARIABLES
  bridge, live, phase, closing,   (* the bridges, as SupervisorService has them *)
  call, to, reply,                (* and what it does for each call             *)
  cache,        (* what is kept of each catalogue                           *)
  at,           (* where each call is                                       *)
  asked,        (* what it asks for                                         *)
  got,          (* the answer of each call                                  *)
  restart,      (* where each call of restart_backend is                    *)
  toClear,      (* the caches it has yet to clear                           *)
  (* history *)
  fresh,        (* the first bridge since the last restart                  *)
  since,        (* "fresh" when a call began                                *)
  crossed       (* calls that a restart overlapped                          *)

supervisor == <<bridge, live, phase, closing, call, to, reply>>
calls == <<at, asked, got>>
restarts == <<restart, toClear>>
history == <<fresh, since, crossed>>
vars == <<supervisor, cache, calls, restarts, history>>

Service == INSTANCE SupervisorService WITH Requests <- Calls

RouterAssumption ==
  /\ None \notin [model : Models, bridge : Nat, by : Calls]
  /\ Asks \subseteq [catalogue : Catalogues, model : Models, timed : BOOLEAN]
  /\ Expiring \subseteq Catalogues /\ MaxBridges \in Nat

Bridges == 0 .. MaxBridges
\* A catalogue is known by its model, the bridge it is from and the call it came by.
Kept == [model : Models, bridge : Bridges, by : Calls]

TypeOK ==
  /\ bridge \in Bridges /\ live \in Bridges /\ to \in [Calls -> Bridges]
  /\ call \in [Calls -> {"waiting", "sent", "done"}]
  /\ cache \in [Catalogues -> Kept \cup {None}]
  /\ at \in [Calls -> {"idle", "asking", "over"}]
  /\ asked \in [Calls -> Asks]
  /\ got \in [Calls -> Kept \cup {None}]
  /\ restart \in [Restarts -> {"idle", "clearing", "holding", "over"}]
  /\ toClear \in [Restarts -> SUBSET Catalogues]
  /\ fresh \in Nat /\ since \in [Calls -> Nat] /\ crossed \in SUBSET Calls

Init ==
  /\ Service!Init
  /\ cache = [k \in Catalogues |-> None]
  /\ at = [c \in Calls |-> "idle"]
  /\ asked \in [Calls -> Asks]
  /\ got = [c \in Calls |-> None]
  /\ restart = [r \in Restarts |-> "idle"] /\ toClear = [r \in Restarts |-> {}]
  /\ fresh = 0 /\ since = [c \in Calls |-> 0] /\ crossed = {}

-----------------------------------------------------------------------------
(* The supervisor.                                                         *)

\* Its bridges come and go by themselves, and the catalogues stay.
Bridge ==
  /\ Service!Bridge \/ \E g \in 1..MaxBridges : Service!Fail(g)
  /\ UNCHANGED <<cache, calls, restarts, history>>

\* A call is sent to a bridge, and answered by it.
Send(c) ==
  /\ at[c] = "asking"
  /\ Service!Send(c) \/ \E kind \in {"good", "bad"} : Service!Answer(c, kind)
  /\ UNCHANGED <<cache, calls, restarts, history>>

-----------------------------------------------------------------------------
(* A command that asks for a catalogue.                                    *)

Restarting == \E r \in Restarts : restart[r] \in {"clearing", "holding"}

End(c, answer) ==
  /\ at' = [at EXCEPT ![c] = "over"] /\ got' = [got EXCEPT ![c] = answer]
  /\ UNCHANGED <<asked, restarts, fresh>>

\* Whether what is kept is what is asked for.
Served(c) ==
  LET kept == cache[asked[c].catalogue]
  IN ~asked[c].timed /\ kept # None /\ kept.model = asked[c].model

Ask(c) ==
  /\ at[c] = "idle"
  /\ since' = [since EXCEPT ![c] = fresh]
  /\ crossed' = IF Restarting THEN crossed \cup {c} ELSE crossed
  /\ IF Served(c)
     THEN End(c, cache[asked[c].catalogue])
     ELSE at' = [at EXCEPT ![c] = "asking"] /\ UNCHANGED <<asked, got, restarts, fresh>>
  /\ UNCHANGED <<supervisor, cache>>

\* No bridge to be had or none in time, a request that cannot be sent, a deadline, an
\* error, or a reply that is rejected.
Fail(c) ==
  /\ at[c] = "asking" /\ End(c, None)
  /\ Service!Refuse(c) \/ Service!Reject(c) \/ Service!Expire(c) \/ Service!Return(c)
  /\ UNCHANGED <<cache, since, crossed>>

\* The reply is kept, unless it is for one run only, and given.
Store(c) ==
  LET catalogue == [model |-> asked[c].model, bridge |-> to[c], by |-> c] IN
  /\ at[c] = "asking" /\ reply[c] = "good" /\ Service!Return(c)
  /\ End(c, catalogue)
  /\ cache' = IF asked[c].timed THEN cache
              ELSE [cache EXCEPT ![asked[c].catalogue] = catalogue]
  /\ UNCHANGED <<since, crossed>>

\* at.elapsed() reaches MODELS_TTL.
Expire(k) ==
  /\ k \in Expiring /\ cache[k] # None /\ cache' = [cache EXCEPT ![k] = None]
  /\ UNCHANGED <<supervisor, calls, restarts, history>>

-----------------------------------------------------------------------------
(* restart_backend.                                                        *)

UnderWay == {c \in Calls : at[c] = "asking"}

\* Plausible bug: a catalogue that expires by itself is not cleared.
BeginLazily(r) ==
  /\ restart[r] = "idle" /\ restart' = [restart EXCEPT ![r] = "clearing"]
  /\ toClear' = [toClear EXCEPT ![r] = Catalogues \ Expiring]
  /\ crossed' = crossed \cup UnderWay
  /\ UNCHANGED <<supervisor, cache, calls, fresh, since>>

Begin(r) ==
  /\ restart[r] = "idle" /\ restart' = [restart EXCEPT ![r] = "clearing"]
  /\ toClear' = [toClear EXCEPT ![r] = Catalogues]
  /\ crossed' = crossed \cup UnderWay
  /\ UNCHANGED <<supervisor, cache, calls, fresh, since>>

\* Each cache has a lock of its own.
Clear(r, k) ==
  /\ restart[r] = "clearing" /\ k \in toClear[r]
  /\ cache' = [cache EXCEPT ![k] = None]
  /\ toClear' = [toClear EXCEPT ![r] = @ \ {k}]
  /\ UNCHANGED <<supervisor, calls, restart, history>>

\* Supervisor::restart: another bridge, of the MaxBridges there are.
Restart(r) ==
  /\ restart[r] = "clearing" /\ toClear[r] = {}
  /\ \A s \in Restarts : restart[s] # "holding"
  /\ bridge < MaxBridges /\ Service!Replace
  /\ fresh' = bridge + 1
  /\ restart' = [restart EXCEPT ![r] = "holding"]
  /\ UNCHANGED <<cache, calls, toClear, since, crossed>>

\* A restart that is under way is joined, and an application that closes gets none.
Join(r) ==
  /\ restart[r] = "clearing" /\ toClear[r] = {}
  /\ closing \/ \E s \in Restarts : restart[s] = "holding"
  /\ restart' = [restart EXCEPT ![r] = "over"]
  /\ UNCHANGED <<supervisor, cache, calls, toClear, history>>

\* The bridge has answered hello, or is given up.
RestartEnds(r) ==
  /\ restart[r] = "holding" /\ restart' = [restart EXCEPT ![r] = "over"]
  /\ UNCHANGED <<supervisor, cache, calls, toClear, history>>

-----------------------------------------------------------------------------
Next ==
  \/ Bridge
  \/ \E c \in Calls : Ask(c) \/ Send(c) \/ Fail(c) \/ Store(c)
  \/ \E k \in Catalogues : Expire(k)
  \/ \E r \in Restarts :
       \/ Begin(r) \/ Restart(r) \/ Join(r) \/ RestartEnds(r)
       \/ \E k \in Catalogues : Clear(r, k)

Spec == Init /\ [][Next]_vars

-----------------------------------------------------------------------------
\* A command gives the catalogue it was asked for, and none of a bridge the user had
\* replaced before the command was given.  The exception is one that was fetched while
\* restart_backend was at work, by a call that stored it in a cache already cleared.
GivenIsCurrent ==
  \A c \in Calls : at[c] = "over" /\ got[c] # None =>
    /\ got[c].model = asked[c].model
    /\ got[c].bridge >= since[c] \/ got[c].by \in crossed
=============================================================================
