----------------------------- MODULE LoadService -----------------------------
(***************************************************************************)
(* What the shared loads of the bridge promise the calls that share them,  *)
(* the leases of model_hour_cache.py and the acquisitions of fields.py ("any *)
(* consumer can stop waiting without cancelling the other consumers'       *)
(* transfer", says lease()): calls that want the same at the same time share *)
(* one load; a load is given up when all its calls have been stopped and not *)
(* before; a call gets the value or the failure of its own load, and is    *)
(* cancelled only if it was stopped itself; a value stays open as long as a *)
(* call has it.                                                            *)
(*                                                                         *)
(* A load is named after the call that began it.                           *)
(***************************************************************************)

CONSTANTS
  Calls,     (* calls that want a value                                     *)
  Keys,      (* what can be wanted                                          *)
  None,      (* no load                                                     *)
  Stored,    (* whether values are found without a load, too                *)
  Polled     (* whether a call may be late for the end of its load          *)

VARIABLES
  wants,     (* what each call wants                                        *)
  stopped,   (* calls that were stopped                                     *)
  of,        (* the load a call is with, until it leaves                    *)
  load,      (* what became of each load                                    *)
  reply      (* what a call got                                             *)

vars == <<wants, stopped, of, load, reply>>

Init ==
  /\ wants \in [Calls -> Keys]
  /\ stopped = {}
  /\ of = [c \in Calls |-> None]
  /\ load = [f \in Calls |-> "none"]
  /\ reply = [c \in Calls |-> "none"]

\* A call that has no load yet, or waits for its load.
Asking(c) == of[c] = None /\ reply[c] = "none"
Waiting(c) == of[c] # None /\ reply[c] = "none"

\* Somebody who was not stopped is with the load.
Wanted(f) == \E c \in Calls : of[c] = f /\ c \notin stopped

-----------------------------------------------------------------------------
(* Calls.                                                                  *)

Stop(c) ==
  /\ stopped' = stopped \cup {c}
  /\ UNCHANGED <<wants, of, load, reply>>

Find(c) ==
  /\ Stored /\ Asking(c)
  /\ reply' = [reply EXCEPT ![c] = "ready"]
  /\ UNCHANGED <<wants, stopped, of, load>>

\* A load begins only where there is none that somebody wants.
Begin(c) ==
  /\ Asking(c) /\ load[c] = "none"
  /\ \A f \in Calls : load[f] = "pending" /\ wants[f] = wants[c] => ~Wanted(f)
  /\ of' = [of EXCEPT ![c] = c]
  /\ load' = [load EXCEPT ![c] = "pending"]
  /\ UNCHANGED <<wants, stopped, reply>>

\* The call is with a load for what it wants: one that somebody wants, or one whose
\* value is kept.
Join(c, f) ==
  /\ Asking(c) /\ wants[f] = wants[c]
  /\ load[f] = "ready" \/ (load[f] \in {"pending", "failed"} /\ Wanted(f))
  /\ of' = [of EXCEPT ![c] = f]
  /\ UNCHANGED <<wants, stopped, load, reply>>

\* The value, or the failure, of the call's own load.
Deliver(c) ==
  /\ Waiting(c) /\ load[of[c]] \in {"ready", "failed"}
  /\ reply' = [reply EXCEPT ![c] = load[of[c]]]
  /\ UNCHANGED <<wants, stopped, of, load>>

Late(c) ==
  /\ Polled /\ Waiting(c) /\ load[of[c]] # "pending"
  /\ reply' = [reply EXCEPT ![c] = "timeout"]
  /\ UNCHANGED <<wants, stopped, of, load>>

\* At any time, also while the call uses the value.
Cancel(c) ==
  /\ c \in stopped
  /\ Asking(c) \/ (of[c] # None /\ reply[c] \in {"none", "ready"})
  /\ reply' = [reply EXCEPT ![c] = "cancelled"]
  /\ UNCHANGED <<wants, stopped, of, load>>

\* The call is done with the value, or has none.
Leave(c) ==
  /\ of[c] # None /\ reply[c] # "none"
  /\ of' = [of EXCEPT ![c] = None]
  /\ UNCHANGED <<wants, stopped, load, reply>>

-----------------------------------------------------------------------------
(* Loads.                                                                  *)

\* A load comes to its end; who began it may know at once.
End(f, how) ==
  /\ load[f] = "pending"
  /\ load' = [load EXCEPT ![f] = how]
  /\ \/ UNCHANGED reply
     \/ of[f] = f /\ Waiting(f) /\ reply' = [reply EXCEPT ![f] = how]
  /\ UNCHANGED <<wants, stopped, of>>

Complete(f) == End(f, "ready")
Fail(f) == End(f, "failed")
GiveUp(f) == ~Wanted(f) /\ End(f, "cancelled")

\* Values nobody has are closed.
Idle == {f \in Calls : load[f] = "ready" /\ \A c \in Calls : of[c] # f}

Close(S) ==
  /\ S # {}
  /\ load' = [f \in Calls |-> IF f \in S THEN "closed" ELSE load[f]]
  /\ UNCHANGED <<wants, stopped, of, reply>>

-----------------------------------------------------------------------------
Call(c) ==
  \/ Stop(c) \/ Find(c) \/ Begin(c) \/ (\E f \in Calls : Join(c, f))
  \/ Deliver(c) \/ Late(c) \/ Cancel(c) \/ Leave(c)

Load(f) == Complete(f) \/ Fail(f) \/ GiveUp(f)

Next ==
  \/ \E c \in Calls : Call(c) \/ Load(c)
  \/ \E S \in SUBSET Idle : Close(S)

\* Most steps of a component that shares loads are none of the service, and asked for first.
Spec == Init /\ [][UNCHANGED vars \/ Next]_vars
=============================================================================
