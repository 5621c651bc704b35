---------------------------- MODULE BatchExtract ----------------------------
(***************************************************************************)
(* A batch job of point soundings (analysis/batch_extract.py): requests    *)
(* that share a model hour form a group, a pool runs the groups, and every *)
(* request publishes a pair of files (an .npz archive and a .json sidecar, *)
(* tools/era5_extract.py) and a record in a manifest that is replaced      *)
(* after every change.  A job may be cancelled, its process may die, and   *)
(* a later run of the same job resumes what the manifest and the files     *)
(* still vouch for.                                                        *)
(*                                                                         *)
(* The bytes of a file are named after the run that wrote them: a request  *)
(* is extracted at most once in a run, and pair_generation is fresh for    *)
(* every extraction.  The manifest in memory and the one on disk differ    *)
(* only inside one locked section, so there is one of them here.           *)
(***************************************************************************)
EXTENDS Naturals, FiniteSets

CONSTANTS
  Items,      \* the requests of the job
  Groups,     \* the model hours they are of
  GroupOf,    \* the model hour of a request
  Workers,    \* max_workers: threads of the pool
  MaxRuns,    \* bound: runs of the job
  Damaged     \* bytes no run wrote

ASSUME BatchAssumption ==
  /\ GroupOf \in [Items -> Groups]
  /\ \A g \in Groups : \E i \in Items : GroupOf[i] = g
  /\ Workers \in Nat \ {0}
  /\ MaxRuns \in Nat
  /\ Damaged \notin Nat

VARIABLES
  phase,      \* "idle", "running", "returned": whether run() is under way
  runs,       \* runs started so far; the generation of the current one
  resuming,   \* the parameter resume of the current run
  cancelled,  \* _cancel_event, or the callback given by the caller
  status,     \* the status of a request in the manifest
  digest,     \* the artifacts of a request in the manifest
  npz,        \* the archive of a request on disk
  json,       \* its sidecar on disk, which the batch marks after extraction
  at,         \* where the thread of a group is
  todo,       \* the requests the group has still to do
  item,       \* the request the group is working on
  staged,     \* the copies in the staging directory of that request
  why,        \* how the write of the pair failed; "kept": so did the undoing
  saved,      \* history: copies in staging directories nobody removes
  good        \* history: the pair last published to the end

vars == <<phase, runs, resuming, cancelled, status, digest, npz, json, at,
          todo, item, staged, why, saved, good>>

Bytes == Nat \cup {Damaged}               \* 0: there is no such file
Sidecar == [gen : Bytes, marked : BOOLEAN]
NoSidecar == [gen |-> 0, marked |-> FALSE]
Pair == [npz : Bytes, json : Sidecar]
NoPair == [npz |-> 0, json |-> NoSidecar]
PairOf(i) == [npz |-> npz[i], json |-> json[i]]

Final == {"completed", "failed", "cancelled"}
Publishing == {"npz", "json", "check"}
Undoing == {"undo_json", "undo_npz", "cleanup"}
Places == {"submitted", "lease", "next", "extract", "stage", "mark", "hash",
           "done"} \cup Publishing \cup Undoing

TypeOK ==
  /\ phase \in {"idle", "running", "returned"}
  /\ runs \in Nat
  /\ resuming \in BOOLEAN /\ cancelled \in BOOLEAN
  /\ status \in [Items -> {"none", "pending", "running"} \cup Final]
  /\ digest \in [Items -> Pair] /\ good \in [Items -> Pair]
  /\ npz \in [Items -> Bytes] /\ json \in [Items -> Sidecar]
  /\ at \in [Groups -> Places]
  /\ todo \in [Groups -> SUBSET Items]
  /\ \A g \in Groups, i \in Items : i \in todo[g] => GroupOf[i] = g
  /\ item \in [Groups -> Items]
  /\ staged \in [Groups -> Pair]
  /\ why \in [Groups -> {"failed", "cancelled", "kept"}]
  /\ saved \in [Items -> SUBSET Pair]

NoItem == [g \in Groups |-> CHOOSE i \in Items : GroupOf[i] = g]

Init ==
  /\ phase = "idle" /\ runs = 0 /\ resuming = FALSE /\ cancelled = FALSE
  /\ status = [i \in Items |-> "none"]
  /\ digest = [i \in Items |-> NoPair] /\ good = [i \in Items |-> NoPair]
  /\ npz = [i \in Items |-> 0] /\ json = [i \in Items |-> NoSidecar]
  /\ at = [g \in Groups |-> "done"]
  /\ todo = [g \in Groups |-> {}]
  /\ item = NoItem
  /\ staged = [g \in Groups |-> NoPair]
  /\ why = [g \in Groups |-> "failed"]
  /\ saved = [i \in Items |-> {}]

-----------------------------------------------------------------------------
(* One run of the job.                                                     *)

\* Plausible bug: the files are only looked for.
ResumableByName(i) == status[i] = "completed" /\ npz[i] # 0 /\ json[i].gen # 0

\* A request whose record says completed and whose two files have the bytes
\* of the recorded digests (_is_resumable).
Resumable(i) ==
  /\ status[i] = "completed"
  /\ npz[i] # 0 /\ json[i].gen # 0
  /\ digest[i] = PairOf(i)

\* run() up to the pool: the cancel of an earlier run is cleared, the manifest
\* is rebuilt from the old one and written, the groups are submitted.
Start(resume) ==
  /\ phase # "running" /\ runs < MaxRuns
  /\ phase' = "running" /\ runs' = runs + 1
  /\ resuming' = resume /\ cancelled' = FALSE
  /\ LET kept == {i \in Items : resume /\ Resumable(i)}
     IN /\ status' = [i \in Items |->
                        IF i \in kept THEN "completed" ELSE "pending"]
        /\ digest' = [i \in Items |-> IF i \in kept THEN digest[i] ELSE NoPair]
  /\ at' = [g \in Groups |-> "submitted"]
  /\ UNCHANGED <<npz, json, todo, item, staged, why, saved, good>>

\* cancel(), or the caller's callback turning true.
Cancel ==
  /\ ~cancelled
  /\ cancelled' = TRUE
  /\ UNCHANGED <<phase, runs, resuming, status, digest, npz, json, at, todo,
                 item, staged, why, saved, good>>

Pending(g) == {i \in Items : GroupOf[i] = g /\ status[i] # "completed"}
Active == {g \in Groups : at[g] \notin {"submitted", "done"}}

\* Plausible bug: those completed before are marked too.
MarkAllOver(S, st) ==
  status' = [i \in Items |-> IF i \in S THEN st ELSE status[i]]

\* The requests of a group that are not completed get one final status
\* (_mark_group_failure).
MarkAll(S, st) ==
  status' = [i \in Items |->
               IF i \in S /\ status[i] # "completed" THEN st ELSE status[i]]

\* Plausible bug: a group that finds the job cancelled is forgotten.
BeginUnlessCancelled(g) ==
  /\ phase = "running" /\ at[g] = "submitted" /\ ~cancelled
  /\ Cardinality(Active) < Workers
  /\ todo' = [todo EXCEPT ![g] = Pending(g)]
  /\ at' = [at EXCEPT ![g] = "lease"]
  /\ UNCHANGED <<phase, runs, resuming, cancelled, status, digest, npz, json,
                 item, staged, why, saved, good>>

\* A thread of the pool takes a group and looks at what is pending in it.
Begin(g) ==
  /\ phase = "running" /\ at[g] = "submitted"
  /\ Cardinality(Active) < Workers
  /\ IF Pending(g) = {} \/ cancelled
     THEN /\ MarkAll(Pending(g), "cancelled")
          /\ at' = [at EXCEPT ![g] = "done"] /\ UNCHANGED todo
     ELSE /\ todo' = [todo EXCEPT ![g] = Pending(g)]
          /\ at' = [at EXCEPT ![g] = "lease"] /\ UNCHANGED status
  /\ UNCHANGED <<phase, runs, resuming, cancelled, digest, npz, json, item,
                 staged, why, saved, good>>

\* The group leases its model hour: it has it, or the load failed, or the load
\* found the job cancelled.
Lease(g) ==
  /\ at[g] = "lease"
  /\ \/ at' = [at EXCEPT ![g] = "next"] /\ UNCHANGED status
     \/ \E st \in {"failed", "cancelled"} :
          /\ st = "cancelled" => cancelled
          /\ MarkAll(todo[g], st)
          /\ at' = [at EXCEPT ![g] = "done"]
  /\ UNCHANGED <<phase, runs, resuming, cancelled, digest, npz, json, todo,
                 item, staged, why, saved, good>>

\* The loop over the pending requests: the end, a cancel, or the next one.
NextItem(g) ==
  /\ at[g] = "next"
  /\ \/ /\ todo[g] = {} \/ cancelled
        /\ MarkAll(todo[g], "cancelled")
        /\ at' = [at EXCEPT ![g] = "done"] /\ UNCHANGED <<todo, item>>
     \/ /\ ~cancelled
        /\ \E i \in todo[g] :
             /\ item' = [item EXCEPT ![g] = i]
             /\ todo' = [todo EXCEPT ![g] = @ \ {i}]
             /\ status' = [status EXCEPT ![i] = "running"]
        /\ at' = [at EXCEPT ![g] = "extract"]
  /\ UNCHANGED <<phase, runs, resuming, cancelled, digest, npz, json,
                 staged, why, saved, good>>

\* Plausible bug: a cancelled request ends the loop and the rest stays pending.
RecordOneOnly(g, st) ==
  /\ status' = [status EXCEPT ![item[g]] = st]
  /\ at' = [at EXCEPT ![g] = IF st = "cancelled" THEN "done" ELSE "next"]

\* A request that failed is recorded and the loop goes on; one that was
\* cancelled takes the rest of the group with it.
Record(g, st) ==
  /\ IF st = "cancelled"
     THEN MarkAll(todo[g] \cup {item[g]}, st)
     ELSE status' = [status EXCEPT ![item[g]] = st]
  /\ at' = [at EXCEPT ![g] = IF st = "cancelled" THEN "done" ELSE "next"]

\* Decoding, interpolation and quality control before anything is written.
Extract(g) ==
  /\ at[g] = "extract"
  /\ \/ at' = [at EXCEPT ![g] = "stage"] /\ UNCHANGED status
     \/ Record(g, "failed")
     \/ cancelled /\ Record(g, "cancelled")
  /\ UNCHANGED <<phase, runs, resuming, cancelled, digest, npz, json, todo,
                 item, staged, why, saved, good>>

-----------------------------------------------------------------------------
(* The pair of files (_atomic_write_sounding_pair).                        *)

\* The new pair is written and validated in a directory of its own, and the
\* files that are there are copied beside it.
Stage(g) ==
  /\ at[g] = "stage"
  /\ \/ /\ staged' = [staged EXCEPT ![g] = PairOf(item[g])]
        /\ at' = [at EXCEPT ![g] = "npz"] /\ UNCHANGED status
     \/ Record(g, "failed") /\ UNCHANGED staged
  /\ UNCHANGED <<phase, runs, resuming, cancelled, digest, npz, json, todo,
                 item, why, saved, good>>

\* The archive is renamed into place, then the sidecar.
PublishNpz(g) ==
  /\ at[g] = "npz"
  /\ npz' = [npz EXCEPT ![item[g]] = runs]
  /\ at' = [at EXCEPT ![g] = "json"]
  /\ UNCHANGED <<phase, runs, resuming, cancelled, status, digest, json, todo,
                 item, staged, why, saved, good>>

PublishJson(g) ==
  /\ at[g] = "json"
  /\ json' = [json EXCEPT ![item[g]] = [gen |-> runs, marked |-> FALSE]]
  /\ at' = [at EXCEPT ![g] = "check"]
  /\ UNCHANGED <<phase, runs, resuming, cancelled, status, digest, npz, todo,
                 item, staged, why, saved, good>>

\* No cancel so far: the staging directory goes, the pair stays.
Keep(g) ==
  /\ at[g] = "check"
  /\ staged' = [staged EXCEPT ![g] = NoPair]
  /\ good' = [good EXCEPT ![item[g]] = PairOf(item[g])]
  /\ at' = [at EXCEPT ![g] = "mark"]
  /\ UNCHANGED <<phase, runs, resuming, cancelled, status, digest, npz, json,
                 todo, item, why, saved>>

\* A rename fails, or a cancel is seen before one or at the end: what was
\* published is undone, the sidecar first.
Undo(g) ==
  /\ at[g] \in Publishing
  /\ \E st \in {"failed", "cancelled"} :
       /\ IF st = "cancelled" THEN cancelled ELSE at[g] # "check"
       /\ why' = [why EXCEPT ![g] = st]
  /\ \/ at[g] = "check" /\ at' = [at EXCEPT ![g] = "undo_json"]
     \/ at[g] = "json" /\ at' = [at EXCEPT ![g] = "undo_npz"]
     \/ at[g] = "npz" /\ at' = [at EXCEPT ![g] = "cleanup"]
  /\ UNCHANGED <<phase, runs, resuming, cancelled, status, digest, npz, json,
                 todo, item, staged, saved, good>>

\* The copy is renamed back, or the new file is removed if there was none.  When
\* that fails the staging directory is kept.
UndoJson(g) ==
  /\ at[g] = "undo_json"
  /\ \/ /\ json' = [json EXCEPT ![item[g]] = staged[g].json]
        /\ staged' = [staged EXCEPT ![g].json = NoSidecar]
        /\ UNCHANGED why
     \/ why' = [why EXCEPT ![g] = "kept"] /\ UNCHANGED <<json, staged>>
  /\ at' = [at EXCEPT ![g] = "undo_npz"]
  /\ UNCHANGED <<phase, runs, resuming, cancelled, status, digest, npz, todo,
                 item, saved, good>>

\* Plausible bug: the new archive is removed, the copy of the old one forgotten.
UndoNpzRemoves(g) ==
  /\ at[g] = "undo_npz"
  /\ npz' = [npz EXCEPT ![item[g]] = 0]
  /\ staged' = [staged EXCEPT ![g].npz = 0]
  /\ at' = [at EXCEPT ![g] = "cleanup"]
  /\ UNCHANGED <<phase, runs, resuming, cancelled, status, digest, json, todo,
                 item, why, saved, good>>

UndoNpz(g) ==
  /\ at[g] = "undo_npz"
  /\ \/ /\ npz' = [npz EXCEPT ![item[g]] = staged[g].npz]
        /\ staged' = [staged EXCEPT ![g].npz = 0]
        /\ UNCHANGED why
     \/ why' = [why EXCEPT ![g] = "kept"] /\ UNCHANGED <<npz, staged>>
  /\ at' = [at EXCEPT ![g] = "cleanup"]
  /\ UNCHANGED <<phase, runs, resuming, cancelled, status, digest, json, todo,
                 item, saved, good>>

\* The writer raises; the staging directory goes, unless something could not be
\* undone: then the request has failed, whatever the first reason was.
Cleanup(g) ==
  /\ at[g] = "cleanup"
  /\ staged' = [staged EXCEPT ![g] = NoPair]
  /\ IF why[g] = "kept"
     THEN /\ saved' = [saved EXCEPT ![item[g]] = @ \cup {staged[g]}]
          /\ Record(g, "failed")
     ELSE Record(g, why[g]) /\ UNCHANGED saved
  /\ why' = [why EXCEPT ![g] = "failed"]
  /\ UNCHANGED <<phase, runs, resuming, cancelled, digest, npz, json, todo,
                 item, good>>

\* The batch adds its two fields to the sidecar, which keeps its generation.
Mark(g) ==
  /\ at[g] = "mark"
  /\ \/ /\ json' = [json EXCEPT ![item[g]].marked = TRUE]
        /\ good' = [good EXCEPT ![item[g]].json.marked = TRUE]
        /\ at' = [at EXCEPT ![g] = "hash"] /\ UNCHANGED status
     \/ Record(g, "failed") /\ UNCHANGED <<json, good>>
  /\ UNCHANGED <<phase, runs, resuming, cancelled, digest, npz, todo, item,
                 staged, why, saved>>

\* Both files are hashed, and the request is completed with their digests.
Complete(g) ==
  /\ at[g] = "hash"
  /\ \/ /\ digest' = [digest EXCEPT ![item[g]] = PairOf(item[g])]
        /\ Record(g, "completed")
     \/ Record(g, "failed") /\ UNCHANGED digest
  /\ UNCHANGED <<phase, runs, resuming, cancelled, npz, json, todo, item,
                 staged, why, saved, good>>

\* Something in the loop raises that is not the fault of one request (a report
\* of progress): every request of the group that is not completed has failed.
GroupFails(g) ==
  /\ at[g] = "next"
  /\ MarkAll({i \in Items : GroupOf[i] = g}, "failed")
  /\ at' = [at EXCEPT ![g] = "done"]
  /\ UNCHANGED <<phase, runs, resuming, cancelled, digest, npz, json, todo,
                 item, staged, why, saved, good>>

-----------------------------------------------------------------------------
(* The end of a run.                                                       *)

\* What the threads had in their variables is gone.
Forget ==
  /\ todo' = [g \in Groups |-> {}] /\ item' = NoItem
  /\ why' = [g \in Groups |-> "failed"]

\* Every future is done: the summary is counted and the result returned.
Return ==
  /\ phase = "running" /\ \A g \in Groups : at[g] = "done"
  /\ phase' = "returned"
  /\ Forget
  /\ UNCHANGED <<runs, resuming, cancelled, status, digest, npz, json, at,
                 staged, saved, good>>

\* The process dies: the manifest and the files stay, and a staging directory
\* in which the copies are stays too.
Crash ==
  /\ phase = "running"
  /\ phase' = "idle"
  /\ at' = [g \in Groups |-> "done"]
  /\ staged' = [g \in Groups |-> NoPair]
  /\ saved' = [i \in Items |-> saved[i] \cup
                 {staged[g] : g \in {h \in Groups : /\ item[h] = i
                                                    /\ staged[h] # NoPair}}]
  /\ Forget
  /\ UNCHANGED <<runs, resuming, cancelled, status, digest, npz, json, good>>

\* Between two runs somebody removes or rewrites a file.
Damage(i) ==
  /\ phase # "running" /\ good[i] # NoPair
  /\ phase' = "idle"
  /\ \E b \in {0, Damaged} :
       \/ npz' = [npz EXCEPT ![i] = b] /\ UNCHANGED json
       \/ json' = [json EXCEPT ![i] = [gen |-> b, marked |-> FALSE]]
          /\ UNCHANGED npz
  /\ good' = [good EXCEPT ![i] = NoPair]
  /\ UNCHANGED <<runs, resuming, cancelled, status, digest, at, todo, item,
                 staged, why, saved>>

GroupStep(g) ==
  \/ Begin(g) \/ Lease(g) \/ NextItem(g) \/ Extract(g) \/ Stage(g)
  \/ PublishNpz(g) \/ PublishJson(g) \/ Keep(g) \/ Undo(g) \/ UndoJson(g)
  \/ UndoNpz(g) \/ Cleanup(g) \/ Mark(g) \/ Complete(g) \/ GroupFails(g)

Next ==
  \/ \E resume \in BOOLEAN : Start(resume)
  \/ Cancel \/ Return \/ Crash
  \/ \E i \in Items : Damage(i)
  \/ \E g \in Groups : GroupStep(g)

Spec == Init /\ [][Next]_vars

\* The threads of the pool go on; run() waits for them and returns.
FairSpec ==
  /\ Spec
  /\ WF_vars(Return)
  /\ \A g \in Groups : WF_vars(GroupStep(g))

-----------------------------------------------------------------------------
(* Properties.                                                             *)

\* A completed record vouches for the pair that is on disk: both files are of
\* one extraction, the sidecar has the fields of the batch, and the digests are
\* theirs.  It holds after a crash too; a file changed between two runs is
\* found out when the next run starts (_is_resumable).
CompletedIsWhole ==
  \A i \in Items :
    status[i] = "completed" /\ (phase # "idle" \/ good[i] # NoPair) =>
      /\ digest[i] = PairOf(i)
      /\ npz[i] = json[i].gen /\ json[i].gen # 0 /\ json[i].marked

\* Until a new pair is whole the files of the last whole one exist: in place, in
\* the staging directory of the writer, or in one that a crash or a failed
\* rollback left behind (_atomic_write_sounding_pair).
Copies(i) ==
  {PairOf(i)} \cup saved[i] \cup
  {staged[g] : g \in {h \in Groups : item[h] = i}}
OldPairRecoverable ==
  \A i \in Items :
    good[i] # NoPair =>
      /\ \E c \in Copies(i) : c.npz = good[i].npz
      /\ \E c \in Copies(i) : c.json = good[i].json

\* A result accounts for every request of the job; one is cancelled only if a
\* cancel was asked for (BatchRunResult).
ResultAccounts ==
  /\ phase = "returned" => \A i \in Items : status[i] \in Final
  /\ \A i \in Items : phase = "running" /\ status[i] = "cancelled" => cancelled

\* A completed request whose files nobody touched is never extracted again,
\* whatever fails beside it, unless a run is told not to resume.
CompletedStays ==
  [][\A i \in Items :
       /\ status[i] = "completed" /\ status'[i] # "completed"
       /\ good[i] # NoPair
       => runs' # runs /\ ~resuming']_vars

\* A run ends: it returns, or its process dies.
RunEnds == phase = "running" ~> phase # "running"
=============================================================================
