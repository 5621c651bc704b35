---------------------------- MODULE StatusChecks ----------------------------
(***************************************************************************)
(* Checks whether a forecast hour exists (BackendClient.getModelStatus of  *)
(* lib/backend/client.ts): no more than Limit at a time, so that the       *)
(* bridge keeps half of its workers for what the user waits for.           *)
(*                                                                         *)
(* A check is the promise of its caller.  Whoever waits has raced the      *)
(* checks it found, and is resumed some time after one of them settled.    *)
(***************************************************************************)
EXTENDS Naturals, FiniteSets

CONSTANTS
  Callers,      (* calls of getModelStatus                                  *)
  Limit         (* of checks under way                                      *)

VARIABLES
  at,           (* where each call is                                       *)
  statusChecks, (* this.statusChecks                                        *)
  raced         (* what each waiting call has raced                         *)

vars == <<at, statusChecks, raced>>

CheckAssumption == IsFiniteSet(Callers) /\ Limit \in Nat \ {0}

TypeOK ==
  /\ at \in [Callers -> {"idle", "waiting", "resumed", "checking", "over"}]
  /\ statusChecks \in SUBSET Callers
  /\ raced \in [Callers -> SUBSET Callers]

Init ==
  /\ at = [c \in Callers |-> "idle"]
  /\ statusChecks = {}
  /\ raced = [c \in Callers |-> {}]

\* await Promise.race(this.statusChecks)
Wait(c) ==
  /\ at' = [at EXCEPT ![c] = "waiting"] /\ raced' = [raced EXCEPT ![c] = statusChecks]
  /\ UNCHANGED statusChecks

Check(c) ==
  /\ at' = [at EXCEPT ![c] = "checking"] /\ statusChecks' = statusChecks \cup {c}
  /\ raced' = [raced EXCEPT ![c] = {}]

\* The condition of the loop.
CheckOrWait(c) == IF Cardinality(statusChecks) >= Limit THEN Wait(c) ELSE Check(c)

Call(c) == at[c] = "idle" /\ CheckOrWait(c)

\* Plausible bug: who was resumed does not look again.
ResumeOnce(c) == at[c] = "resumed" /\ Check(c)

Resume(c) == at[c] = "resumed" /\ CheckOrWait(c)

\* The reply, the error or the deadline of a check; the set forgets it before those
\* who raced it go on.
Settle(c) ==
  /\ at[c] = "checking"
  /\ statusChecks' = statusChecks \ {c}
  /\ at' = [d \in Callers |-> IF d = c THEN "over"
                              ELSE IF at[d] = "waiting" /\ c \in raced[d] THEN "resumed"
                              ELSE at[d]]
  /\ UNCHANGED raced

Next == \E c \in Callers : Call(c) \/ Resume(c) \/ Settle(c)

Spec == Init /\ [][Next]_vars

-----------------------------------------------------------------------------
\* However many settle and resume together there are at most Limit checks, and nobody
\* waits without a check under way whose end will resume it.
ChecksAreGated ==
  /\ Cardinality(statusChecks) <= Limit
  /\ \A c \in Callers : at[c] = "waiting" => raced[c] \cap statusChecks # {}
=============================================================================
