-------------------------- MODULE SupervisorService --------------------------
(***************************************************************************)
(* What the supervisor promises the commands that use it (router.rs calls  *)
(* request and restart of supervisor/mod.rs; "Process lifecycle" of        *)
(* docs/frontend/DATA_CONTRACTS.md): one bridge at a time, numbered in the *)
(* order of their start; a request waits until a bridge is up, is sent to  *)
(* one bridge at most, and returns once; a restart ends what is with the   *)
(* bridge it replaces; after the application began to close no bridge is   *)
(* started and nothing is published.                                       *)
(***************************************************************************)
EXTENDS Naturals

CONSTANTS
  Requests,    (* calls of request                                          *)
  AppExits,    (* whether the application is closed                         *)
  MaxBridges   (* bound of the model: bridges started                       *)

VARIABLES
  bridge,      (* the latest bridge                                         *)
  live,        (* the bridge there is, 0 if none                            *)
  phase,       (* the status that is published                              *)
  closing,     (* the application closes                                    *)
  call,        (* whether each request waits, is with a bridge, or is done  *)
  to,          (* the bridge it is with, 0 if none                          *)
  reply        (* what it got                                               *)

supervision == <<bridge, live, phase, closing>>
requests == <<call, to, reply>>
vars == <<supervision, requests>>

Init ==
  /\ bridge = 0 /\ live = 0 /\ phase = "starting" /\ closing = FALSE
  /\ call = [r \in Requests |-> "waiting"]
  /\ to = [r \in Requests |-> 0]
  /\ reply = [r \in Requests |-> "none"]

-----------------------------------------------------------------------------
(* Bridges.                                                                *)

Launch ==
  /\ ~closing /\ phase = "starting" /\ live = 0
  /\ bridge < MaxBridges /\ bridge' = bridge + 1 /\ live' = bridge'
  /\ UNCHANGED <<phase, closing, requests>>

\* The bridge has answered hello.
GoUp ==
  /\ ~closing /\ phase = "starting" /\ live # 0
  /\ phase' = "up"
  /\ UNCHANGED <<bridge, live, closing, requests>>

\* The bridge is lost, or let go of; what is with it may still be answered.
Lose ==
  /\ live # 0 /\ live' = 0
  /\ UNCHANGED <<bridge, phase, closing, requests>>

\* A lost bridge is replaced, after a pause.
Pause ==
  /\ ~closing /\ phase \in {"starting", "up"} /\ live = 0
  /\ phase' = "restarting"
  /\ UNCHANGED <<bridge, live, closing, requests>>

TryAgain ==
  /\ ~closing /\ phase = "restarting" /\ live = 0
  /\ phase' = "starting"
  /\ UNCHANGED <<bridge, live, closing, requests>>

\* No bridge can be had, until a restart.
GiveUp ==
  /\ ~closing /\ phase \in {"starting", "up"}
  /\ phase' = "unavailable" /\ live' = 0
  /\ UNCHANGED <<bridge, closing, requests>>

\* Who is with a bridge and has no answer yet.
Open(r) == call[r] = "sent" /\ reply[r] = "none"

FailAll(S) == reply' = [r \in Requests |-> IF r \in S THEN "bad" ELSE reply[r]]

\* A restart: all that is with a bridge fails, and none of it is answered later.
Replace ==
  /\ ~closing
  /\ phase' = "starting" /\ live' = 0
  /\ FailAll({r \in Requests : Open(r)})
  /\ UNCHANGED <<bridge, closing, call, to>>

Close ==
  /\ AppExits /\ ~closing /\ closing' = TRUE
  /\ UNCHANGED <<bridge, live, phase, requests>>

-----------------------------------------------------------------------------
(* Requests.                                                               *)

Done(r, how) ==
  /\ call' = [call EXCEPT ![r] = "done"]
  /\ to' = [to EXCEPT ![r] = 0]
  /\ reply' = [reply EXCEPT ![r] = how]
  /\ UNCHANGED supervision

Refuse(r) == call[r] = "waiting" /\ phase = "unavailable" /\ Done(r, "closed")

\* The request cannot be put in a frame.
Reject(r) == call[r] = "waiting" /\ phase = "up" /\ live # 0 /\ Done(r, "bad")

Send(r) ==
  /\ call[r] = "waiting" /\ phase = "up" /\ live # 0
  /\ call' = [call EXCEPT ![r] = "sent"]
  /\ to' = [to EXCEPT ![r] = live]
  /\ UNCHANGED <<supervision, reply>>

Answer(r, kind) ==
  /\ Open(r)
  /\ reply' = [reply EXCEPT ![r] = kind]
  /\ UNCHANGED <<supervision, call, to>>

\* Everything that is with one bridge fails.
Fail(g) ==
  /\ FailAll({r \in Requests : Open(r) /\ to[r] = g})
  /\ UNCHANGED <<supervision, call, to>>

Return(r) == call[r] = "sent" /\ reply[r] # "none" /\ Done(r, reply[r])

\* The deadline of the request.
Expire(r) == call[r] \in {"waiting", "sent"} /\ Done(r, "timeout")

-----------------------------------------------------------------------------
Bridge == Launch \/ GoUp \/ Lose \/ Pause \/ TryAgain \/ GiveUp \/ Close

Request(r) ==
  \/ Refuse(r) \/ Reject(r) \/ Send(r) \/ Expire(r) \/ Return(r)
  \/ \E kind \in {"good", "bad"} : Answer(r, kind)

Next ==
  \/ Bridge \/ Replace
  \/ \E g \in 1..MaxBridges : Fail(g)
  \/ \E r \in Requests : Request(r)

Spec == Init /\ [][Next]_vars
=============================================================================
