--------------------------- MODULE ModelDiskCache ---------------------------
(***************************************************************************)
(* The disk cache of model hours of src/sharpmod/models/model_disk_cache.py*)
(* as its two clients use it: the loads of the batch extractor             *)
(* (src/sharpmod/tools/batch_extract.py), which lease the directory of an  *)
(* hour while they use it and prune the cache when they are done, and the  *)
(* storage page (src/sharpmod/bridge/storage.py), which clears it.  They   *)
(* run in several processes that share nothing but the directories: a      *)
(* lease is a file that names a process id and, if it can be told, the     *)
(* birth of the process.  A look at an entry lists its lease files, then   *)
(* looks at them one by one.                                               *)
(*                                                                         *)
(* An entry holds one payload of size 1.  The order in which a prune tries *)
(* the entries, the least recently used first, is left out.                *)
(***************************************************************************)
EXTENDS Naturals, FiniteSets

CONSTANTS
  Users,      (* threads that load model hours                              *)
  Cleaners,   (* threads that clear the cache                               *)
  Pids,       (* process ids                                                *)
  PidOf,      (* the process id each thread runs under                      *)
  Dirs,       (* directories of model hours                                 *)
  Max,        (* max_bytes                                                  *)
  MaxBirths,  (* bound: once an id is that of its MaxBirths-th process, no  *)
              (* id is given to another process any more                    *)
  None        (* no directory, no thread                                    *)

Agents == Users \cup Cleaners

VARIABLES
  birth,      (* the birth of the last process with each id                 *)
  alive,      (* ids of running processes                                   *)
  hidden,     (* ids whose process cannot be told from the ones before it   *)
  dirs,       (* directories that exist                                     *)
  meta,       (* those with .cache.json                                     *)
  data,       (* those with a payload                                       *)
  old,        (* those with accessed before the cutoff                      *)
  marks,      (* lease files                                                *)
  signed,     (* those that say which process took the lease                *)
  pc,         (* where each thread is                                       *)
  dir,        (* the directory it uses, looks at or removes                 *)
  lock,       (* who holds the _lock of each process                        *)
  todo,       (* entries a prune or a clear has yet to look at              *)
  listed,     (* lease files it has listed, not looked at yet, and that are *)
              (* still there under the listed name                          *)
  free,       (* unprotected entries it may yet remove                      *)
  expired,    (* the ones of them it has to                                 *)
  heavy,      (* entries it knows with a payload                            *)
  exposed     (* history: users whose lease a prune or clear could not find *)

disk == <<dirs, meta, data, old, marks, signed>>
life == <<birth, alive, hidden>>
plan == <<todo, listed, free, expired, heavy>>
vars == <<life, disk, pc, dir, lock, plan, exposed>>

-----------------------------------------------------------------------------
Pid(a) == PidOf[a]
Goto(a, place) == pc' = [pc EXCEPT ![a] = place]
At(a, place) == pc[a] = place /\ Pid(a) \in alive
Free(a) == lock[Pid(a)] = None

MarksOf(d) == {m \in marks : m.dir = d}
MarkOf(u) == [user |-> u, dir |-> dir[u], birth |-> birth[Pid(u)]]

\* Names of lease files are never used again: a listed name that has gone is looked
\* at in vain, which changes nothing, and is left out of the list at once.
Unlisted(gone) == listed' = [a \in Agents |-> listed[a] \ gone]
Unlink(gone) == marks' = marks \ gone /\ signed' = signed \ gone /\ Unlisted(gone)

\* mkdir(parents=True) and touch.
Touched(d) ==
  /\ dirs' = dirs \cup {d}
  /\ meta' = meta \cup {d}
  /\ old' = old \ {d}

Age(d) ==
  /\ d \in meta \ old
  /\ old' = old \cup {d}
  /\ UNCHANGED <<life, dirs, meta, data, marks, signed, pc, dir, lock, plan, exposed>>

-----------------------------------------------------------------------------
(* A load: _new_download_directory and _load of the model hour cache with  *)
(* the protect_directory of the batch extractor.                           *)

\* directory_for.  A process works at an hour in one thread at a time, the one of its
\* group of requests.
Resolve(u, d) ==
  /\ At(u, "idle") /\ Free(u)
  /\ \A v \in Users : Pid(v) = Pid(u) => dir[v] # d
  /\ Touched(d)
  /\ dir' = [dir EXCEPT ![u] = d]
  /\ Goto(u, "resolved")
  /\ UNCHANGED <<life, data, marks, signed, lock, plan, exposed>>

\* Somebody has listed the lease files of d, and will miss the ones that come.
LookedAt(d) == \E a \in Agents : d \in free[a] \/ (pc[a] = "looking" /\ dir[a] = d)

\* protect: the temporary file of the marker is there, and has the name of a lease.
Begin(u) ==
  LET d == dir[u] IN
  /\ At(u, "resolved")
  /\ dirs' = dirs \cup {d}
  /\ marks' = marks \cup {MarkOf(u)}
  /\ exposed' = IF LookedAt(d) THEN exposed \cup {u} ELSE exposed
  /\ Goto(u, "begun")
  /\ UNCHANGED <<life, meta, data, old, signed, dir, lock, plan>>

\* The identity of the process is written into it, where it can be told.
Sign(u) ==
  /\ At(u, "begun") /\ MarkOf(u) \in marks \ signed
  /\ signed' = signed \cup {MarkOf(u)}
  /\ UNCHANGED <<life, dirs, meta, data, old, marks, pc, dir, lock, plan, exposed>>

\* os.replace gives it its name, and fails if somebody removed the file.  Whoever had
\* listed the file will not find it.
Commit(u) ==
  /\ At(u, "begun")
  /\ Goto(u, IF MarkOf(u) \in marks THEN "committed" ELSE "pruning")
  /\ exposed' = IF \E a \in Agents : MarkOf(u) \in listed[a] THEN exposed \cup {u} ELSE exposed
  /\ Unlisted({MarkOf(u)})
  /\ UNCHANGED <<life, disk, dir, lock, todo, free, expired, heavy>>

\* The touch of protect, under _lock.
Lease(u) ==
  /\ At(u, "committed") /\ Free(u)
  /\ Touched(dir[u])
  /\ Goto(u, "leased")
  /\ UNCHANGED <<life, data, marks, signed, dir, lock, plan, exposed>>

\* The loader puts the payload into the directory.
Load(u) ==
  /\ At(u, "leased") /\ dir[u] \in dirs
  /\ data' = data \cup {dir[u]}
  /\ Goto(u, "using")
  /\ UNCHANGED <<life, dirs, meta, old, marks, signed, dir, lock, plan, exposed>>

\* The dataset is closed or the load has failed: protect removes its marker.
Release(u) ==
  /\ At(u, "leased") \/ At(u, "using")
  /\ Unlink({MarkOf(u)})
  /\ Goto(u, "released")
  /\ UNCHANGED <<life, dirs, meta, data, old, dir, lock, todo, free, expired, heavy, exposed>>

\* protect touches the directory again if it exists.
Close(u) ==
  /\ At(u, "released")
  /\ IF dir[u] \in dirs THEN Free(u) /\ Touched(dir[u]) ELSE UNCHANGED <<dirs, meta, old>>
  /\ Goto(u, "pruning")
  /\ UNCHANGED <<life, data, marks, signed, dir, lock, plan, exposed>>

-----------------------------------------------------------------------------
(* prune, and clear of the storage page.                                   *)

\* prune takes the lock and lists the metadata files.
BeginPrune(u) ==
  /\ Free(u)
  /\ lock' = [lock EXCEPT ![Pid(u)] = u]
  /\ todo' = [todo EXCEPT ![u] = meta]
  /\ dir' = [dir EXCEPT ![u] = None]
  /\ exposed' = exposed \ {u}
  /\ Goto(u, "working")
  /\ UNCHANGED <<life, disk, listed, free, expired, heavy>>

\* The extractor prunes before its first load ...
Startup(u) ==
  /\ Pid(u) \in alive /\ \A v \in Users : Pid(v) = Pid(u) => pc[v] = "idle"
  /\ BeginPrune(u)

\* ... and after each.
Prune(u) == At(u, "pruning") /\ BeginPrune(u)

\* storage.clear lists them with a lock of its own.
Clear(c) ==
  /\ c \in Cleaners /\ At(c, "idle")
  /\ todo' = [todo EXCEPT ![c] = meta]
  /\ Goto(c, "working")
  /\ UNCHANGED <<life, disk, dir, lock, listed, free, expired, heavy, exposed>>

\* Plausible bug: a lease is kept while any process has its process id.
ActiveByPid(m) == Pid(m.user) \in alive

\* _lease_is_active: the process is running, and it is the one that took the lease
\* unless that cannot be known.
Active(m) ==
  /\ Pid(m.user) \in alive
  /\ m \notin signed \/ Pid(m.user) \in hidden \/ m.birth = birth[Pid(m.user)]

\* One entry of _entries: its age and its size, and the names of its lease files.
\* Metadata that cannot be read any more count as old.
List(a, d) ==
  /\ At(a, "working") /\ d \in todo[a]
  /\ todo' = [todo EXCEPT ![a] = @ \ {d}]
  /\ expired' = [expired EXCEPT ![a] = IF d \in meta \ old THEN @ ELSE @ \cup {d}]
  /\ heavy' = [heavy EXCEPT ![a] = IF d \in data THEN @ \cup {d} ELSE @]
  /\ listed' = [listed EXCEPT ![a] = MarksOf(d)]
  /\ dir' = [dir EXCEPT ![a] = d]
  /\ Goto(a, "looking")
  /\ UNCHANGED <<life, disk, lock, free, exposed>>

\* _is_protected removes the lapsed leases it meets ...
RemoveLapsed(a, m) ==
  /\ At(a, "looking") \/ At(a, "checking")
  /\ m \in listed[a] /\ ~Active(m)
  /\ Unlink({m})
  /\ UNCHANGED <<life, dirs, meta, data, old, pc, dir, lock, todo, free, expired, heavy, exposed>>

Back(a) == Goto(a, "working") /\ dir' = [dir EXCEPT ![a] = None]

\* Plausible bug: an entry past its age is removed although it is leased.
SpareYoung(a, m) ==
  /\ At(a, "looking") \/ At(a, "checking")
  /\ m \in listed[a] /\ Active(m)
  /\ listed' = [listed EXCEPT ![a] = {}]
  /\ free' = [free EXCEPT ![a] = @ \ {dir[a]}]
  /\ Back(a)
  /\ UNCHANGED <<life, disk, lock, todo, expired, heavy, exposed>>

\* ... until it meets an active one, for which the entry stays ...
Spare(a, m) ==
  /\ At(a, "looking") \/ At(a, "checking")
  /\ m \in listed[a] /\ Active(m)
  /\ listed' = [listed EXCEPT ![a] = {}]
  /\ free' = [free EXCEPT ![a] = @ \ {dir[a]}]
  /\ expired' = [expired EXCEPT ![a] = @ \ {dir[a]}]
  /\ Back(a)
  /\ UNCHANGED <<life, disk, lock, todo, heavy, exposed>>

\* ... or has met none: the entry may go, and one that a clear deletes goes now.
Pass(a) ==
  /\ listed[a] = {}
  /\ \/ /\ At(a, "looking")
        /\ free' = [free EXCEPT ![a] = @ \cup {dir[a]}]
        /\ Back(a)
     \/ At(a, "checking") /\ Goto(a, "emptying") /\ UNCHANGED <<dir, free>>
  /\ UNCHANGED <<life, disk, lock, todo, listed, expired, heavy, exposed>>

\* All entries have been looked at.
Chooses(a) == At(a, "working") /\ todo[a] = {}

\* What a prune removes next: the expired entries, then any while the rest is too
\* large; and a clear, all of them.
Candidates(a) ==
  CASE a \in Cleaners -> free[a]
    [] expired[a] # {} -> expired[a]
    [] Cardinality(heavy[a]) > Max -> free[a]
    [] OTHER -> {}

\* An entry that stays is not tried again, or once more if it was tried for its age.
Keep(a, d) ==
  /\ IF d \in expired[a] /\ a \in Users
       THEN expired' = [expired EXCEPT ![a] = @ \ {d}] /\ UNCHANGED free
       ELSE /\ free' = [free EXCEPT ![a] = @ \ {d}]
            /\ expired' = [expired EXCEPT ![a] = @ \ {d}]
  /\ Back(a)
  /\ UNCHANGED heavy

\* A clear deletes what is still managed, and looks at its leases once more: delete.
Delete(c, d) ==
  /\ c \in Cleaners /\ Chooses(c) /\ d \in Candidates(c) \cap meta
  /\ listed' = [listed EXCEPT ![c] = MarksOf(d)]
  /\ dir' = [dir EXCEPT ![c] = d]
  /\ Goto(c, "checking")
  /\ UNCHANGED <<life, disk, lock, todo, free, expired, heavy, exposed>>

Remove(u, d) ==
  /\ u \in Users /\ Chooses(u) /\ d \in Candidates(u)
  /\ dir' = [dir EXCEPT ![u] = d]
  /\ Goto(u, "emptying")
  /\ UNCHANGED <<life, disk, lock, plan, exposed>>

\* rmtree removes what it finds in the directory ...
Empty(a) ==
  LET d == dir[a] IN
  /\ At(a, "emptying")
  /\ meta' = meta \ {d} /\ data' = data \ {d} /\ old' = old \ {d}
  /\ Unlink(MarksOf(d))
  /\ Goto(a, "emptied")
  /\ UNCHANGED <<life, dirs, dir, lock, todo, free, expired, heavy, exposed>>

\* ... or some of it, and then meets a file that is open or stays for another reason ...
EmptySome(a) ==
  LET d == dir[a] IN
  /\ At(a, "emptying") /\ d \in dirs
  /\ meta' \in {meta, meta \ {d}} /\ old' = old \cap meta'
  /\ data' \in {data, data \ {d}}
  /\ \E gone \in SUBSET MarksOf(d) : Unlink(gone)
  /\ Keep(a, d)
  /\ UNCHANGED <<life, dirs, lock, todo, exposed>>

\* ... and then the directory, unless something new is in it.
Rmdir(a) ==
  LET d == dir[a] IN
  /\ At(a, "emptied")
  /\ IF d \notin meta \cup data /\ MarksOf(d) = {}
       THEN /\ dirs' = dirs \ {d}
            /\ free' = [free EXCEPT ![a] = @ \ {d}]
            /\ expired' = [expired EXCEPT ![a] = @ \ {d}]
            /\ heavy' = [heavy EXCEPT ![a] = @ \ {d}]
            /\ Back(a)
       ELSE Keep(a, d) /\ UNCHANGED dirs
  /\ UNCHANGED <<life, meta, data, old, marks, signed, lock, todo, listed, exposed>>

\* The prune or clear is over; delete raises a ValueError for an entry that has gone.
Finish(a) ==
  /\ Chooses(a)
  /\ \/ Candidates(a) = {}
     \/ a \in Cleaners /\ Candidates(a) \ meta # {}
  /\ lock' = IF a \in Users THEN [lock EXCEPT ![Pid(a)] = None] ELSE lock
  /\ free' = [free EXCEPT ![a] = {}]
  /\ expired' = [expired EXCEPT ![a] = {}]
  /\ heavy' = [heavy EXCEPT ![a] = {}]
  /\ Goto(a, "idle")
  /\ UNCHANGED <<life, disk, dir, todo, listed, exposed>>

-----------------------------------------------------------------------------
(* Processes die, and their ids are given to others.                       *)

Die(p) ==
  LET gone(a) == Pid(a) = p
      Reset(f, v) == [a \in Agents |-> IF gone(a) THEN v ELSE f[a]]
  IN
  /\ p \in alive
  /\ alive' = alive \ {p} /\ hidden' = hidden \ {p}
  /\ pc' = Reset(pc, "idle") /\ dir' = Reset(dir, None)
  /\ todo' = Reset(todo, {}) /\ listed' = Reset(listed, {}) /\ free' = Reset(free, {})
  /\ expired' = Reset(expired, {}) /\ heavy' = Reset(heavy, {})
  /\ lock' = [lock EXCEPT ![p] = None]
  /\ exposed' = {u \in exposed : ~gone(u)}
  /\ UNCHANGED <<birth, disk>>

Spawn(p) ==
  /\ p \notin alive /\ \A q \in Pids : birth[q] < MaxBirths
  /\ alive' = alive \cup {p}
  /\ birth' = [birth EXCEPT ![p] = @ + 1]
  /\ UNCHANGED <<hidden, disk, pc, dir, lock, plan, exposed>>

\* The birth of a process can be told, or it cannot: the process belongs to somebody
\* else or is just ending, the system does not say, or the lease file with which to
\* compare it is gone before it is read.
Hide(p) ==
  /\ p \in alive
  /\ hidden' = IF p \in hidden THEN hidden \ {p} ELSE hidden \cup {p}
  /\ UNCHANGED <<birth, alive, disk, pc, dir, lock, plan, exposed>>

-----------------------------------------------------------------------------
Init ==
  /\ birth = [p \in Pids |-> 1] /\ alive = Pids /\ hidden = {}
  /\ dirs = {} /\ meta = {} /\ data = {} /\ old = {} /\ marks = {} /\ signed = {}
  /\ pc = [a \in Agents |-> "idle"] /\ dir = [a \in Agents |-> None]
  /\ lock = [p \in Pids |-> None]
  /\ todo = [a \in Agents |-> {}] /\ listed = [a \in Agents |-> {}] /\ free = [a \in Agents |-> {}]
  /\ expired = [a \in Agents |-> {}] /\ heavy = [a \in Agents |-> {}]
  /\ exposed = {}

Next ==
  \/ \E d \in Dirs : Age(d)
  \/ \E u \in Users :
       \/ \E d \in Dirs : Resolve(u, d)
       \/ Begin(u) \/ Sign(u) \/ Commit(u) \/ Lease(u) \/ Load(u) \/ Release(u) \/ Close(u)
       \/ Startup(u) \/ Prune(u)
       \/ \E d \in Dirs : Remove(u, d)
  \/ \E c \in Cleaners : Clear(c) \/ \E d \in Dirs : Delete(c, d)
  \/ \E a \in Agents :
       \/ \E d \in Dirs : List(a, d)
       \/ \E m \in listed[a] : RemoveLapsed(a, m) \/ Spare(a, m)
       \/ Pass(a) \/ Empty(a) \/ EmptySome(a) \/ Rmdir(a) \/ Finish(a)
  \/ \E p \in Pids : Die(p) \/ Spawn(p) \/ Hide(p)

Spec == Init /\ [][Next]_vars

-----------------------------------------------------------------------------
(* Properties.                                                             *)

Leasing(u) == pc[u] \in {"committed", "leased", "using"}
Leased(u) == MarkOf(u) \in marks

\* A lease keeps a directory and its payload for as long as the dataset is in use,
\* whoever prunes, clears, dies or is born meanwhile.  Two leases are not safe: one that
\* began when a prune or a clear had listed the lease files of the directory, and one
\* whose file got its name (os.replace, 81) after it was listed under the temporary
\* name and before it was looked at (356-360, 326-328).  The prune misses both.
LeasesHold ==
  \A u \in Users \ exposed :
    /\ Leasing(u) => Leased(u)
    /\ pc[u] = "using" => dir[u] \in data

\* An entry is spared for the sake of somebody who uses it: not for a process that
\* died, nor for one that was given its process id, if the lease and the process say
\* who they are (model_disk_cache.py 337-348).  If one of them does not, a running
\* process with the id protects the entry, "until those sessions exit" (345-346).
OnlyUsersProtect ==
  [][\A a \in Agents :
       LET d == dir[a] IN
       pc[a] \in {"looking", "checking"} /\ pc'[a] = "working" /\ d \notin free'[a]
         => \/ \E u \in Users : dir[u] = d /\ (pc[u] = "begun" \/ Leasing(u))
            \/ \E m \in MarksOf(d) :
                 Pid(m.user) \in alive /\ (m \notin signed \/ Pid(m.user) \in hidden)]_vars

\* What the docstring of protect says: "Prevent pruning while a worker or decoded
\* dataset uses a directory" (model_disk_cache.py 183).
LeasedIsKept == \A u \in Users : pc[u] = "using" => Leased(u) /\ dir[u] \in data
=============================================================================
