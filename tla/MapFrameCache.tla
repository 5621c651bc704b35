---------------------------- MODULE MapFrameCache ----------------------------
(***************************************************************************)
(* The disk cache of map frames of src/sharpmod/providers/hrrr_field.py    *)
(* (_prune_disk_cache, _disk_read, _disk_write), which frame_cache.py of   *)
(* src/sharpmod/bridge shares: backend processes that read, write and      *)
(* prune the files of one directory.  Threads of one process take turns    *)
(* under _DISK_LOCK; processes have no lock in common, so a writer makes   *)
(* room before it writes and prunes again after it has published a frame.  *)
(*                                                                         *)
(* The order in which a prune tries the files, oldest first, is left out:  *)
(* it tries them in any order.                                             *)
(***************************************************************************)
EXTENDS Integers, Functions

CONSTANTS
  Procs,      (* backend processes                                          *)
  Frames,     (* names of frames                                            *)
  Parts,      (* names of temporary files: as many may exist at once        *)
  Sizes,      (* sizes of frames                                            *)
  Max,        (* MAX_MAP_DISK_BYTES                                         *)
  None        (* no file                                                    *)

Names == Frames \cup Parts

MapAssumption == Frames \cap Parts = {} /\ Sizes \subseteq Nat /\ Max \in Nat

VARIABLES
  pc,         (* where each process is                                      *)
  work,       (* what it does: the task a prune is for ("reserve" before    *)
              (* and "reconcile" after a write, or "read"), the frame, the  *)
              (* size of its payload and its temporary file                 *)
  scan,       (* its prune: the sizes the scan found of the files it may    *)
              (* remove, the ones of them past their age, and total         *)
  files,      (* the sizes of the files of the directory, by name           *)
  aged,       (* files past their age: MAX_MAP_DISK_AGE_SECONDS, or an hour *)
              (* for a temporary one                                        *)
  owing,      (* history: who lost the prune after a frame it published     *)
  covers      (* history: whose loss the running prune makes up for         *)

vars == <<pc, work, scan, files, aged, owing, covers>>

-----------------------------------------------------------------------------
NoFiles == [n \in {} |-> 0]
NoWork == [task |-> "none", frame |-> None, size |-> 0, part |-> None]
NoScan == [left |-> NoFiles, expired |-> {}, total |-> 0]

Goto(p, place) == pc' = [pc EXCEPT ![p] = place]
Start(p, place, w) == Goto(p, place) /\ work' = [work EXCEPT ![p] = w]
Return(p) == Start(p, "idle", NoWork) /\ scan' = [scan EXCEPT ![p] = NoScan]

\* The directory without a file, and with one.
Without(n) == Restrict(files, DOMAIN files \ {n})
With(n, bytes) == [m \in DOMAIN files \cup {n} |-> IF m = n THEN bytes ELSE files[m]]

\* The history of a prune that could not do its work.
Spoilt(p) ==
  /\ owing' = IF work[p].task = "reconcile" THEN owing \cup {p} ELSE owing
  /\ covers' = [q \in Procs |-> IF q = p THEN {} ELSE covers[q] \ {p}]

Age(n) ==
  /\ n \in DOMAIN files \ aged
  /\ aged' = aged \cup {n}
  /\ UNCHANGED <<pc, work, scan, files, owing, covers>>

-----------------------------------------------------------------------------
(* The operations begin.                                                   *)

\* _disk_write of a payload that is not larger than the cache: it makes room first.
Write(p) ==
  /\ pc[p] = "idle"
  /\ \E f \in Frames, s \in {b \in Sizes : b <= Max} :
       Start(p, "pruning", [task |-> "reserve", frame |-> f, size |-> s, part |-> None])
  /\ UNCHANGED <<scan, files, aged, owing, covers>>

\* _disk_read; it prunes first if the last such prune is a minute old, and so does
\* cached_hours before it looks.
Read(p) ==
  /\ pc[p] = "idle"
  /\ \E place \in {"pruning", "reading"} : Start(p, place, [NoWork EXCEPT !.task = "read"])
  /\ UNCHANGED <<scan, files, aged, owing, covers>>

-----------------------------------------------------------------------------
(* _prune_disk_cache.                                                      *)

\* The scan of the directory, in one step.  The frame to be written does not count
\* but its payload does; young temporary files count and are protected.
Scan(p) ==
  LET w == work[p]
      reserves == w.task = "reserve"
      found == DOMAIN files \ (IF reserves THEN {w.frame} ELSE {})
  IN
  /\ pc[p] = "pruning"
  /\ scan' = [scan EXCEPT ![p] =
       [left |-> Restrict(files, found \ (Parts \ aged)),
        expired |-> found \cap aged,
        total |-> (IF reserves THEN w.size ELSE 0) + SumFunctionOnSet(files, found)]]
  /\ covers' = [covers EXCEPT ![p] = IF reserves THEN {} ELSE owing]
  /\ Goto(p, "evicting")
  /\ UNCHANGED <<work, files, aged, owing>>

\* The scan raises an OSError: a write ends here, a read goes on.
ScanFails(p) ==
  /\ pc[p] = "pruning"
  /\ IF work[p].task = "read"
       THEN Goto(p, "reading") /\ scan' = [scan EXCEPT ![p] = NoScan] /\ UNCHANGED work
       ELSE Return(p)
  /\ Spoilt(p)
  /\ UNCHANGED <<files, aged>>

\* The files the loop tries next.
Candidates(p) ==
  {n \in DOMAIN scan[p].left : n \in scan[p].expired \/ scan[p].total > Max}

Tried(p, n) == Restrict(scan[p].left, DOMAIN scan[p].left \ {n})

\* A file is removed, whatever it has become since the scan.
Evict(p) ==
  /\ pc[p] = "evicting"
  /\ \E n \in Candidates(p) \cap DOMAIN files :
       /\ files' = Without(n)
       /\ aged' = aged \ {n}
       /\ scan' = [scan EXCEPT ![p].left = Tried(p, n), ![p].total = @ - scan[p].left[n]]
  /\ UNCHANGED <<pc, work, owing, covers>>

\* A file that another process has removed is an OSError: it still counts.
Missing(p) ==
  /\ pc[p] = "evicting"
  /\ \E n \in Candidates(p) \ DOMAIN files : scan' = [scan EXCEPT ![p].left = Tried(p, n)]
  /\ UNCHANGED <<pc, work, files, aged, owing, covers>>

\* A locked file stays and counts.
Locked(p) ==
  /\ pc[p] = "evicting"
  /\ \E n \in Candidates(p) \cap DOMAIN files : scan' = [scan EXCEPT ![p].left = Tried(p, n)]
  /\ Spoilt(p)
  /\ UNCHANGED <<pc, work, files, aged>>

\* The prune ends; a write goes on only if there is room.
Pruned(p) ==
  /\ pc[p] = "evicting" /\ Candidates(p) = {}
  /\ CASE work[p].task = "reserve" /\ scan[p].total <= Max ->
            Goto(p, "staging") /\ scan' = [scan EXCEPT ![p] = NoScan] /\ UNCHANGED work
       [] work[p].task = "read" ->
            Goto(p, "reading") /\ scan' = [scan EXCEPT ![p] = NoScan] /\ UNCHANGED work
       [] OTHER -> Return(p)
  /\ owing' = owing \ covers[p]
  /\ covers' = [covers EXCEPT ![p] = {}]
  /\ UNCHANGED <<files, aged>>

-----------------------------------------------------------------------------
(* _disk_write and _disk_read.                                             *)

\* mkstemp, and the payload is written.
Stage(p) ==
  /\ pc[p] = "staging"
  /\ \E t \in Parts \ DOMAIN files :
       files' = With(t, work[p].size) /\ work' = [work EXCEPT ![p].part = t]
  /\ Goto(p, "staged")
  /\ UNCHANGED <<scan, aged, owing, covers>>

\* Plausible bug: the frame is published and the write is over.
PublishOnly(p) ==
  LET w == work[p] IN
  /\ pc[p] = "staged" /\ w.part \in DOMAIN files
  /\ files' = Restrict(With(w.frame, w.size), (DOMAIN files \cup {w.frame}) \ {w.part})
  /\ aged' = aged \ {w.part, w.frame}
  /\ Return(p)
  /\ UNCHANGED <<owing, covers>>

\* os.replace; then the frames other processes published meanwhile are reconciled.
Publish(p) ==
  LET w == work[p] IN
  /\ pc[p] = "staged" /\ w.part \in DOMAIN files
  /\ files' = Restrict(With(w.frame, w.size), (DOMAIN files \cup {w.frame}) \ {w.part})
  /\ aged' = aged \ {w.part, w.frame}
  /\ Start(p, "pruning", [NoWork EXCEPT !.task = "reconcile"])
  /\ UNCHANGED <<scan, owing, covers>>

\* The disk is full, the target is open, or the temporary file has been removed.
WriteFails(p) ==
  /\ pc[p] = "staged"
  /\ files' = Without(work[p].part)
  /\ aged' = aged \ {work[p].part}
  /\ Return(p)
  /\ UNCHANGED <<owing, covers>>

\* The frame is read, if there is one, and its time of use set if that succeeds.
Touch(p) ==
  /\ pc[p] = "reading"
  /\ \E f \in Frames : aged' \in {aged, aged \ {f}}
  /\ Return(p)
  /\ UNCHANGED <<files, owing, covers>>

\* The process dies and a new one takes its place.
Crash(p) ==
  /\ pc[p] # "idle"
  /\ Return(p)
  /\ Spoilt(p)
  /\ UNCHANGED <<files, aged>>

-----------------------------------------------------------------------------
Init ==
  /\ pc = [p \in Procs |-> "idle"]
  /\ work = [p \in Procs |-> NoWork]
  /\ scan = [p \in Procs |-> NoScan]
  /\ files = NoFiles
  /\ aged = {}
  /\ owing = {}
  /\ covers = [p \in Procs |-> {}]

Next ==
  \/ \E n \in Names : Age(n)
  \/ \E p \in Procs :
       \/ Write(p) \/ Read(p)
       \/ Scan(p) \/ ScanFails(p) \/ Evict(p) \/ Missing(p) \/ Locked(p) \/ Pruned(p)
       \/ Stage(p) \/ Publish(p) \/ WriteFails(p) \/ Touch(p) \/ Crash(p)

Spec == Init /\ [][Next]_vars

-----------------------------------------------------------------------------
(* Properties.                                                             *)

\* The frames on disk are within the limit (CHANGELOG.md 992) whenever no process
\* is between publishing a frame and the end of the prune after it, however many
\* wrote at once, whatever crashed temporaries are around; if that prune crashed or
\* could not remove a file, from the end of the next complete one on.
WithinLimit ==
  owing = {} /\ (\A p \in Procs : work[p].task # "reconcile")
    => SumFunctionOnSet(files, Frames \cap DOMAIN files) <= Max
=============================================================================
