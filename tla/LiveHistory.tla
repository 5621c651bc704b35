----------------------------- MODULE LiveHistory -----------------------------
(***************************************************************************)
(* The download of the last hour of live weather                           *)
(* (features/tracking/useLiveHistory.ts): two loops work off one list of   *)
(* requests until they are done, the user stops them, the layers change,   *)
(* or the download is begun again.                                         *)
(*                                                                         *)
(* A call of cacheHour is named after its token.  A turn of the event loop *)
(* is one step: from one await of a loop to the next, an action of the     *)
(* user, the effect of a render.                                           *)
(***************************************************************************)
EXTENDS Integers

CONSTANTS
  Selections,   (* what the layers of all panels ask for                    *)
  MaxRequests,  (* bound: requests of an hour                               *)
  MaxToken      (* bound: downloads begun or stopped                        *)

VARIABLES
  generation,   (* generation.current                                       *)
  progress,     (* storedProgress, which the page shows                     *)
  selection,    (* of the stores                                            *)
  rendered,     (* the selection of the last render                         *)
  total,        (* requests.length of each call                             *)
  index,        (* the next request of each call                            *)
  done, failed, (* requests of each call that ended, those that failed      *)
  at            (* where the two loops of each call are                     *)

calls == <<total, index, done, failed, at>>
vars == <<generation, progress, selection, rendered, calls>>

HistoryAssumption == MaxRequests \in Nat /\ MaxToken \in Nat

Tokens == 1 .. MaxToken
Counts == 0 .. MaxRequests
Loops == {1, 2}

TypeOK ==
  /\ generation \in 0 .. MaxToken
  /\ progress \in [running : BOOLEAN, done : Counts, total : Counts, failed : Counts,
                   stopped : BOOLEAN, selection : Selections]
  /\ selection \in Selections /\ rendered \in Selections
  /\ total \in [Tokens -> Counts] /\ index \in [Tokens -> Counts]
  /\ done \in [Tokens -> Counts] /\ failed \in [Tokens -> Counts]
  /\ at \in [Tokens -> [Loops -> {"none", "fetching", "ended"}]]

IDLE_PROGRESS(s) ==
  [running |-> FALSE, done |-> 0, total |-> 0, failed |-> 0, stopped |-> FALSE, selection |-> s]

Init ==
  /\ generation = 0
  /\ selection \in Selections /\ rendered = selection
  /\ progress = IDLE_PROGRESS(selection)
  /\ total = [t \in Tokens |-> 0] /\ index = total /\ done = total /\ failed = total
  /\ at = [t \in Tokens |-> [i \in Loops |-> "none"]]

-----------------------------------------------------------------------------
\* Layers, products or the nearest radar change; the page is rendered later.
Select(s) ==
  /\ selection' = s
  /\ UNCHANGED <<generation, progress, rendered, calls>>

\* generation.current++: the loops of all calls so far are to end.
Supersede == generation < MaxToken /\ generation' = generation + 1

\* The effect of the selection before is cleaned up.
Render ==
  /\ rendered # selection /\ rendered' = selection
  /\ Supersede
  /\ progress' = IF progress.running
                 THEN [progress EXCEPT !.running = FALSE, !.stopped = TRUE] ELSE progress
  /\ UNCHANGED <<selection, calls>>

Stop ==
  /\ Supersede
  /\ progress' = [progress EXCEPT !.running = FALSE, !.stopped = TRUE]
  /\ UNCHANGED <<selection, rendered, calls>>

\* cacheHour: each loop takes its first request at once, if there is one.
CacheHour(n) ==
  /\ Supersede
  /\ total' = [total EXCEPT ![generation'] = n]
  /\ index' = [index EXCEPT ![generation'] = IF n < 2 THEN n ELSE 2]
  /\ at' = [at EXCEPT ![generation'] = [i \in Loops |-> IF i <= n THEN "fetching" ELSE "ended"]]
  /\ progress' = [IDLE_PROGRESS(rendered) EXCEPT !.running = n > 0, !.total = n]
  /\ UNCHANGED <<selection, rendered, done, failed>>

-----------------------------------------------------------------------------
(* One turn of download(), at the end of a request.                        *)

Count(t, ok) == failed' = [failed EXCEPT ![t] = IF ok THEN @ ELSE @ + 1]

\* The call was stopped or superseded while the loop waited.
Abandon(t, i, ok) ==
  /\ at[t][i] = "fetching" /\ generation # t
  /\ Count(t, ok)
  /\ at' = [at EXCEPT ![t][i] = "ended"]
  /\ UNCHANGED <<generation, progress, selection, rendered, total, index, done>>

\* The request is counted and shown, and the next one is taken.
GoOn(t, i, ok) ==
  /\ Count(t, ok)
  /\ done' = [done EXCEPT ![t] = @ + 1]
  /\ progress' = [progress EXCEPT !.running = done'[t] < total[t], !.done = done'[t],
                                  !.total = total[t], !.failed = failed'[t], !.stopped = FALSE]
  /\ IF index[t] < total[t]
     THEN index' = [index EXCEPT ![t] = @ + 1] /\ UNCHANGED at
     ELSE at' = [at EXCEPT ![t][i] = "ended"] /\ UNCHANGED index
  /\ UNCHANGED <<generation, selection, rendered, total>>

\* Plausible bug: the token is looked at before a request and not after it.
AdvanceUnchecked(t, i, ok) == at[t][i] = "fetching" /\ GoOn(t, i, ok)

Advance(t, i, ok) == at[t][i] = "fetching" /\ generation = t /\ GoOn(t, i, ok)

-----------------------------------------------------------------------------
Next ==
  \/ \E s \in Selections : Select(s)
  \/ Render \/ Stop
  \/ \E n \in Counts : CacheHour(n)
  \/ \E t \in Tokens, i \in Loops, ok \in BOOLEAN : Abandon(t, i, ok) \/ Advance(t, i, ok)

Spec == Init /\ [][Next]_vars

-----------------------------------------------------------------------------
Fetching(t) == {i \in Loops : at[t][i] = "fetching"}

\* What the page shows is what happens: a download shown as running has a request
\* under way, which will bring it further; all that ended are counted, and one that
\* neither runs nor was stopped is complete.  Loops of earlier calls, which may
\* end their last requests at any time, change nothing.
ProgressIsHonest ==
  /\ progress.running =>
       /\ generation \in Tokens /\ Fetching(generation) # {}
       /\ progress.done = done[generation] /\ progress.total = total[generation]
  /\ progress.running \/ progress.stopped \/ progress.done = progress.total
=============================================================================
