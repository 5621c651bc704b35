---------------------------- MODULE RangeTransfer ----------------------------
(***************************************************************************)
(* The resumable download of byte ranges:                                  *)
(* src/rust/sharpmod-rs/src/range_transfer.rs with its disk.rs and         *)
(* requests.rs, the transports of range_bindings.rs, and the caller of     *)
(* src/sharpmod/models/model_transfer.py, which tries again with a single  *)
(* worker.                                                                 *)
(*                                                                         *)
(* The fragments of one output file are kept in a directory beside it,     *)
(* with a manifest that names the object they are of, so that a later call *)
(* resumes a transfer that was cancelled, failed or died with its process. *)
(* Bytes are abstracted to the version of the object they were read from.  *)
(***************************************************************************)
EXTENDS Naturals, FiniteSets

CONSTANTS
  Urls,         (* mirrors a caller may name for the one output file        *)
  Versions,     (* the objects the servers have served over time            *)
  UrlOf,        (* the server of each                                       *)
  Header,       (* the size, ETag and Last-Modified it is served with       *)
  Weak,         (* the ETags that start with W/                             *)
  Absent,       (* a header that is not sent                                *)
  Fragments,    (* the indices of the plan                                  *)
  Size,         (* chunks in a fragment                                     *)
  MaxWorkers,   (* workers the caller asks for                              *)
  Retries,      (* Options.retries                                          *)
  MaxChanges,   (* bound: objects that are replaced                         *)
  MaxCrashes,   (* bound: process deaths                                    *)
  MaxTorn       (* bound: those of them that cut remove_dir_all short       *)

Nothing == [size |-> Absent, etag |-> Absent, modified |-> Absent]

\* Identity::matches: whatever is expected is what is there.
Matches(expected, actual) ==
  /\ expected # Nothing
  /\ \A field \in DOMAIN Nothing : expected[field] \in {Absent, actual[field]}

\* Two versions of an object differ in a header that the earlier one carried:
\* without it nothing a client does can tell them apart.
ASSUME RangeAssumption ==
  /\ UrlOf \in [Versions -> Urls] /\ Absent \notin Urls
  /\ \A v, w \in Versions :
       UrlOf[v] = UrlOf[w] /\ v # w => ~Matches(Header[v], Header[w])
  /\ \A v \in Versions : Header[v] # Nothing
  /\ MaxWorkers \in Nat \ {0} /\ Size \in Nat \ {0} /\ Retries \in Nat
  /\ MaxTorn \in Nat /\ MaxCrashes \in Nat /\ MaxChanges \in Nat
  /\ Fragments \subseteq Nat \ {0} /\ Fragments # {} /\ IsFiniteSet(Fragments)

VARIABLES
  object,       (* external: the version each server has now                *)
  manifest,     (* manifest.json: url and identity                          *)
  files,        (* fragments with a .part file                              *)
  size,         (* its length                                               *)
  from,         (* the versions its bytes were read from                    *)
  output,       (* the versions in the assembled file, {} while it is none  *)
  stage,        (* where the call is                                        *)
  url,          (* its object                                               *)
  asked,        (* the workers it asked for                                 *)
  workers,      (* metrics.worker_count                                     *)
  known,        (* the identity of the manifest in memory                   *)
  probed,       (* what the identity probe of this transfer has found       *)
  after,        (* what a removal of the directory is followed by           *)
  todo,         (* incomplete fragments nobody has taken yet                *)
  at,           (* where each worker is                                     *)
  item,         (* the fragment it has taken                                *)
  condition,    (* the If-Range of its request                              *)
  source,       (* the version that answers it                              *)
  tries,        (* attempts that failed                                     *)
  fault,        (* the error the worker ends with                           *)
  cancelled,    (* the caller's hook                                        *)
  stop,         (* Transfer.stop                                            *)
  closed,       (* the transport after close_active                         *)
  error,        (* what the transfer ends with                              *)
  changes, crashes, torn

caller == <<stage, url, asked, cancelled>>
disk   == <<manifest, files, size, from, output>>
memory == <<workers, known, probed, after>>
pool   == <<todo, at, item, condition, source, tries, fault>>
ending == <<stop, closed, error>>
count  == <<changes, crashes, torn>>
vars   == <<object, caller, disk, memory, pool, ending, count>>

Worker == 1 .. MaxWorkers
NoManifest == [url |-> Absent, known |-> Nothing]

-----------------------------------------------------------------------------
(* Identities.                                                             *)

\* Identity::if_range: a weak ETag cannot protect bytes.
IfRange(identity) ==
  IF identity.etag \in Weak \cup {Absent} THEN identity.modified ELSE identity.etag

\* external: the server holds a condition against the object it has now.
Honoured(c, v) == c = Absent \/ c \in {Header[v].etag, Header[v].modified}

-----------------------------------------------------------------------------
(* The call and the directory.                                             *)

Resting ==
  /\ workers = 1 /\ known = Nothing /\ probed = Nothing /\ after = "none"
  /\ todo = {} /\ at = [w \in Worker |-> "over"] /\ item = [w \in Worker |-> 0]
  /\ condition = [w \in Worker |-> Absent] /\ source = [w \in Worker |-> Absent]
  /\ tries = [w \in Worker |-> 0] /\ fault = [w \in Worker |-> "none"]
  /\ stop = FALSE /\ closed = FALSE /\ error = "none"

Init ==
  /\ object \in {o \in [Urls -> Versions] : \A u \in Urls : UrlOf[o[u]] = u}
  /\ manifest = NoManifest /\ files = {} /\ output = {}
  /\ size = [f \in Fragments |-> 0] /\ from = [f \in Fragments |-> {}]
  /\ stage = "idle" /\ url = Absent /\ asked = MaxWorkers /\ cancelled = FALSE
  /\ Resting
  /\ changes = 0 /\ crashes = 0 /\ torn = 0

\* The state a process, or a new Transfer, starts with.
Afresh ==
  /\ workers' = 1 /\ known' = Nothing /\ probed' = Nothing /\ after' = "none"
  /\ todo' = {} /\ at' = [w \in Worker |-> "over"] /\ item' = [w \in Worker |-> 0]
  /\ condition' = [w \in Worker |-> Absent] /\ source' = [w \in Worker |-> Absent]
  /\ tries' = [w \in Worker |-> 0] /\ fault' = [w \in Worker |-> "none"]
  /\ stop' = FALSE /\ closed' = FALSE /\ error' = "none"

\* download_herbie_subset, with an output file that is not there yet: one that
\* is there is returned as it is.
Start(u) ==
  /\ stage = "idle" /\ output = {}
  /\ stage' = "open" /\ url' = u /\ asked' = MaxWorkers /\ cancelled' = FALSE
  /\ UNCHANGED <<object, disk, memory, pool, ending, count>>

Cancel ==
  /\ stage # "idle" /\ ~cancelled
  /\ cancelled' = TRUE
  /\ UNCHANGED <<object, stage, url, asked, disk, memory, pool, ending, count>>

AtMost(n) == IF n <= Cardinality(Fragments) THEN n ELSE Cardinality(Fragments)

\* Plausible bug: the manifest is trusted whatever URL it names.
OpenAny ==
  /\ stage = "open"
  /\ workers' = AtMost(asked)
  /\ stage' = "opened" /\ known' = manifest.known /\ after' = "none"
  /\ UNCHANGED <<object, url, asked, cancelled, disk, probed, pool, ending, count>>

\* Store::open: the fragments of another object are removed.
Open ==
  /\ stage = "open"
  /\ workers' = AtMost(asked)
  /\ IF manifest.url \in {Absent, url}
     THEN stage' = "opened" /\ known' = manifest.known /\ after' = "none"
     ELSE stage' = "removing" /\ known' = Nothing /\ after' = "opened"
  /\ UNCHANGED <<object, url, asked, cancelled, disk, probed, pool, ending, count>>

\* remove_dir_all unlinks one entry after the other, in no particular order.
Unlink ==
  /\ stage = "removing"
  /\ \/ /\ manifest # NoManifest /\ manifest' = NoManifest
        /\ UNCHANGED <<files, size, from>>
     \/ \E f \in files :
          /\ files' = files \ {f}
          /\ size' = [size EXCEPT ![f] = 0] /\ from' = [from EXCEPT ![f] = {}]
          /\ UNCHANGED manifest
  /\ UNCHANGED <<object, caller, output, memory, pool, ending, count>>

Incomplete == {f \in Fragments : size[f] # Size}

\* With an identity written down, the fragments' sizes are read and the workers
\* start on the incomplete ones.
Fetch(identity, n) ==
  /\ known' = identity /\ manifest' = [url |-> url, known |-> identity]
  /\ stage' = "fetching" /\ workers' = n /\ after' = "none"
  /\ todo' = Incomplete
  /\ at' = [w \in Worker |-> IF w <= n THEN "pull" ELSE "over"]

Removed ==
  /\ stage = "removing" /\ manifest = NoManifest /\ files = {}
  /\ stage' = after /\ after' = "none"
  /\ UNCHANGED <<object, url, asked, cancelled, disk, workers, known, probed, pool, ending, count>>

\* Plausible bug: where no byte is missing nothing is asked.
OpenedIfWhole ==
  /\ stage = "opened"
  /\ IF Incomplete # {} /\ (workers > 1 \/ (files # {} /\ known # Nothing))
     THEN stage' = "probing" /\ UNCHANGED <<manifest, known, workers, after, todo, at>>
     ELSE Fetch(known, workers)
  /\ UNCHANGED <<object, url, asked, cancelled, files, size, from, output, probed,
                 item, condition, source, tries, fault, ending, count>>

\* Without workers to coordinate, fragments of no known object are kept.
Opened ==
  /\ stage = "opened"
  /\ IF workers > 1 \/ (files # {} /\ known # Nothing)
     THEN stage' = "probing" /\ UNCHANGED <<manifest, known, workers, after, todo, at>>
     ELSE Fetch(known, workers)
  /\ UNCHANGED <<object, url, asked, cancelled, files, size, from, output, probed,
                 item, condition, source, tries, fault, ending, count>>

Abandon(how) == error' = how /\ stage' = "ended"

\* The one-byte request for the object's identity, with its retries.  Fragments
\* of another object, or of no known one, are removed first.
Probe ==
  /\ stage = "probing"
  /\ LET now == Header[object[url]]
     IN /\ probed' = now
        /\ workers' = IF IfRange(now) = Absent THEN 1 ELSE workers
        /\ IF files # {} /\ ~Matches(known, now)
           THEN stage' = "removing" /\ after' = "marking"
           ELSE stage' = "marking" /\ UNCHANGED after
  /\ UNCHANGED <<object, url, asked, cancelled, disk, known, pool, ending, count>>

ProbeFails ==
  /\ stage = "probing" /\ Abandon("unavailable")
  /\ UNCHANGED <<object, url, asked, cancelled, disk, memory, pool, stop, closed, count>>

ProbeStops ==
  /\ stage = "probing" /\ cancelled /\ Abandon("cancelled")
  /\ stop' = TRUE
  /\ UNCHANGED <<object, url, asked, cancelled, disk, memory, pool, closed, count>>

Mark ==
  /\ stage = "marking" /\ Fetch(probed, workers)
  /\ UNCHANGED <<object, url, asked, cancelled, files, size, from, output, probed,
                 item, condition, source, tries, fault, ending, count>>

-----------------------------------------------------------------------------
(* The workers.                                                            *)

Goto(w, place) == at' = [at EXCEPT ![w] = place]

\* The request of a worker, its condition and its answer are locals of it.
Forget(w) ==
  /\ condition' = [condition EXCEPT ![w] = Absent]
  /\ source' = [source EXCEPT ![w] = Absent]

\* An error ends the worker; the flag is set before the queue is locked.
Fail(w, how) ==
  /\ fault' = [fault EXCEPT ![w] = how] /\ stop' = TRUE
  /\ Goto(w, "failing") /\ Forget(w)
  /\ item' = [item EXCEPT ![w] = 0] /\ tries' = [tries EXCEPT ![w] = 0]

\* Transfer.check
Stopping == stop \/ cancelled

Take(w) ==
  /\ stage = "fetching" /\ at[w] = "pull"
  /\ IF error # "none" \/ stop \/ todo = {}
     THEN Goto(w, "over") /\ UNCHANGED <<todo, item>>
     ELSE \E f \in todo :
            /\ \A g \in todo : f <= g
            /\ todo' = todo \ {f} /\ item' = [item EXCEPT ![w] = f]
            /\ Goto(w, "ask")
  /\ UNCHANGED <<object, caller, disk, memory, condition, source, tries, fault, ending, count>>

\* One attempt: the bytes that are missing, of the object in the manifest.
Ask(w) ==
  /\ at[w] = "ask"
  /\ IF Stopping THEN Fail(w, "cancelled")
     ELSE /\ Goto(w, "wait")
          /\ condition' = [condition EXCEPT ![w] = IfRange(known)]
          /\ UNCHANGED <<item, source, tries, fault, stop>>
  /\ UNCHANGED <<object, caller, disk, memory, todo, closed, error, count>>

\* A 206 answer of a version the manifest allows pins that version before its
\* first byte is written.
Answer(w) ==
  /\ at[w] = "wait"
  /\ LET v == object[url] IN
       /\ Honoured(condition[w], v)
       /\ known = Nothing \/ Matches(known, Header[v])
       /\ known' = Header[v] /\ manifest' = [url |-> url, known |-> Header[v]]
       /\ files' = files \cup {item[w]}
       /\ source' = [source EXCEPT ![w] = v] /\ Goto(w, "body")
  /\ UNCHANGED <<object, caller, size, from, output, workers, probed, after, todo, item,
                 condition, tries, fault, ending, count>>

\* A 200 to a conditional request, or a 206 of another object.
Changed(w) ==
  /\ at[w] = "wait"
  /\ LET v == object[url] IN
       \/ ~Honoured(condition[w], v)
       \/ known # Nothing /\ ~Matches(known, Header[v])
  /\ Fail(w, "changed")
  /\ UNCHANGED <<object, caller, disk, memory, todo, closed, error, count>>

\* A chunk is written, and the call looks whether to stop.
Chunk(w) ==
  /\ at[w] = "body" /\ size[item[w]] < Size
  /\ size' = [size EXCEPT ![item[w]] = @ + 1]
  /\ from' = [from EXCEPT ![item[w]] = @ \cup {source[w]}]
  /\ IF Stopping THEN Fail(w, "cancelled")
     ELSE UNCHANGED <<at, item, condition, source, tries, fault, stop>>
  /\ UNCHANGED <<object, caller, manifest, files, output, memory, todo, closed, error, count>>

\* The body ends where the fragment does.
Complete(w) ==
  /\ at[w] = "body" /\ size[item[w]] = Size
  /\ Goto(w, "pull") /\ Forget(w)
  /\ item' = [item EXCEPT ![w] = 0] /\ tries' = [tries EXCEPT ![w] = 0]
  /\ UNCHANGED <<object, caller, disk, memory, todo, fault, ending, count>>

\* More than was asked for: the fragment is of no use.
Overlong(w) ==
  /\ at[w] = "body" /\ Fail(w, "unavailable")
  /\ files' = files \ {item[w]}
  /\ size' = [size EXCEPT ![item[w]] = 0] /\ from' = [from EXCEPT ![item[w]] = {}]
  /\ UNCHANGED <<object, caller, manifest, output, memory, todo, closed, error, count>>

\* A status that is no answer, or a range that was not asked for.
Refused(w) ==
  /\ at[w] = "wait" /\ Fail(w, "unavailable")
  /\ UNCHANGED <<object, caller, disk, memory, todo, closed, error, count>>

\* 429, 5xx, a network error, a body that ends early: what was written stays and
\* the next attempt asks for the rest.
Transient(w) ==
  /\ at[w] = "wait" \/ (at[w] = "body" /\ size[item[w]] < Size)
  /\ \/ stop /\ Fail(w, "cancelled")
     \/ ~stop /\ tries[w] = Retries /\ Fail(w, "unavailable")
     \/ /\ ~stop /\ tries[w] # Retries
        /\ tries' = [tries EXCEPT ![w] = @ + 1]
        /\ Goto(w, "ask") /\ Forget(w) /\ UNCHANGED <<item, fault, stop>>
  /\ UNCHANGED <<object, caller, disk, memory, todo, closed, error, count>>

\* A closed transport ends what is under way, and what starts after it.
Interrupted(w) ==
  /\ at[w] \in {"wait", "body"} /\ closed
  /\ Fail(w, "cancelled")
  /\ UNCHANGED <<object, caller, disk, memory, todo, closed, error, count>>

\* Plausible bug: the first error reported is the one that counts.
ReportFirst(w) ==
  /\ at[w] = "failing"
  /\ error' = IF error = "none" THEN fault[w] ELSE error
  /\ closed' = TRUE /\ Goto(w, "over")
  /\ UNCHANGED <<object, caller, disk, memory, todo, item, condition, source, tries, fault,
                 stop, count>>

\* Under the lock of the queue: a changed object outranks every error, and any
\* error the cancellations it causes in other workers.
Report(w) ==
  /\ at[w] = "failing"
  /\ error' = IF error \in {"none", "cancelled"} \/ fault[w] = "changed"
              THEN fault[w] ELSE error
  /\ closed' = TRUE /\ Goto(w, "over")
  /\ UNCHANGED <<object, caller, disk, memory, todo, item, condition, source, tries, fault,
                 stop, count>>

\* Plausible bug: a stop does not reach the requests under way.
WatchOnly ==
  /\ stage \in {"opened", "probing", "removing", "marking", "fetching", "published"}
  /\ Stopping /\ ~stop
  /\ stop' = TRUE
  /\ UNCHANGED <<object, caller, disk, memory, pool, closed, error, count>>

\* The monitor thread, every 50 ms.
Watch ==
  /\ stage \in {"opened", "probing", "removing", "marking", "fetching", "published"}
  /\ Stopping /\ ~closed
  /\ stop' = TRUE /\ closed' = TRUE
  /\ UNCHANGED <<object, caller, disk, memory, pool, error, count>>

-----------------------------------------------------------------------------
(* The end of a transfer.                                                  *)

\* With the workers joined the fragments are put together.
Assemble ==
  /\ stage = "fetching" /\ \A w \in Worker : at[w] = "over"
  /\ \/ /\ error # "none" /\ stage' = "ended"
        /\ UNCHANGED <<output, error, stop>>
     \/ /\ error = "none" /\ Stopping /\ Abandon("cancelled")
        /\ stop' = TRUE /\ UNCHANGED output
     \/ /\ error = "none" /\ ~Stopping /\ Incomplete # {} /\ Abandon("unavailable")
        /\ UNCHANGED <<output, stop>>
     \/ /\ error = "none" /\ ~Stopping /\ Incomplete = {}
        /\ output' = UNION {from[f] : f \in Fragments} /\ stage' = "published"
        /\ UNCHANGED <<error, stop>>
  /\ UNCHANGED <<object, url, asked, cancelled, manifest, files, size, from, memory, pool,
                 closed, count>>

\* A Stop received since then takes the result from the caller, not the file.
Publish ==
  /\ stage = "published"
  /\ error' = IF Stopping THEN "cancelled" ELSE "none"
  /\ stop' = Stopping
  /\ stage' = "removing" /\ after' = "returning"
  /\ UNCHANGED <<object, url, asked, cancelled, disk, workers, known, probed, pool, closed, count>>

\* The fragments of a changed object are removed, all others kept.
Ended ==
  /\ stage = "ended"
  /\ IF error = "changed" THEN stage' = "removing" /\ after' = "returning"
                          ELSE stage' = "returning" /\ UNCHANGED after
  /\ UNCHANGED <<object, url, asked, cancelled, disk, workers, known, probed, pool, ending, count>>

\* What several workers could not fetch one worker tries once more.
Return ==
  /\ stage = "returning" /\ Afresh
  /\ IF error \in {"changed", "unavailable"} /\ asked > 1
     THEN stage' = "open" /\ asked' = 1 /\ UNCHANGED <<url, cancelled>>
     ELSE stage' = "idle" /\ asked' = MaxWorkers /\ url' = Absent /\ cancelled' = FALSE
  /\ UNCHANGED <<object, disk, count>>

\* external: the process dies; the directory stays as it is.
Crash ==
  /\ stage # "idle" /\ crashes < MaxCrashes
  /\ stage = "removing" => torn < MaxTorn
  /\ crashes' = crashes + 1
  /\ torn' = IF stage = "removing" THEN torn + 1 ELSE torn
  /\ stage' = "idle" /\ asked' = MaxWorkers /\ url' = Absent /\ cancelled' = FALSE /\ Afresh
  /\ UNCHANGED <<object, disk, changes>>

\* external: a server replaces its object.
Replace(v) ==
  /\ changes < MaxChanges /\ object[UrlOf[v]] # v
  /\ object' = [object EXCEPT ![UrlOf[v]] = v] /\ changes' = changes + 1
  /\ UNCHANGED <<caller, disk, memory, pool, ending, crashes, torn>>

-----------------------------------------------------------------------------
Asked(w) == Answer(w) \/ Changed(w) \/ Chunk(w) \/ Complete(w) \/ Overlong(w)
            \/ Refused(w) \/ Transient(w)
Working(w) == Take(w) \/ Ask(w) \/ Interrupted(w) \/ Report(w)
Coordinating ==
  \/ Open \/ Unlink \/ Removed \/ Opened \/ ProbeStops \/ Mark
  \/ Assemble \/ Publish \/ Ended \/ Return

Next ==
  \/ \E u \in Urls : Start(u)
  \/ Cancel \/ Coordinating \/ Probe \/ ProbeFails \/ Watch \/ Crash
  \/ \E w \in Worker : Asked(w) \/ Working(w)
  \/ \E v \in Versions : Replace(v)

Spec == Init /\ [][Next]_vars

\* The threads of the process run; a server need not answer.
FairSpec ==
  /\ Spec /\ WF_vars(Coordinating) /\ WF_vars(Watch)
  /\ \A w \in Worker : WF_vars(Working(w))

-----------------------------------------------------------------------------
(* Properties.                                                             *)

Identities == {Nothing} \cup {Header[v] : v \in Versions}
Conditions == {Absent} \cup {IfRange(i) : i \in Identities}

\* Every variable has its values.
CallType ==
  /\ stage \in {"idle", "open", "opened", "removing", "probing", "marking", "fetching",
                "published", "ended", "returning"}
  /\ url \in Urls \cup {Absent} /\ (stage # "idle" => url \in Urls)
  /\ asked \in Worker /\ cancelled \in BOOLEAN
  /\ workers \in Worker /\ known \in Identities /\ probed \in Identities
  /\ after \in {"none", "opened", "marking", "returning"}
  /\ stage = "removing" => after # "none"

DiskType ==
  /\ object \in [Urls -> Versions] /\ \A u \in Urls : UrlOf[object[u]] = u
  /\ manifest \in [url : Urls \cup {Absent}, known : Identities]
  /\ files \subseteq Fragments
  /\ size \in [Fragments -> 0 .. Size] /\ from \in [Fragments -> SUBSET Versions]
  /\ output \subseteq Versions

PoolType ==
  /\ todo \subseteq Fragments
  /\ at \in [Worker -> {"over", "pull", "ask", "wait", "body", "failing"}]
  /\ item \in [Worker -> Fragments \cup {0}]
  /\ \A w \in Worker : at[w] \in {"ask", "wait", "body"} => item[w] # 0
  /\ \A w \in Worker : at[w] = "body" => source[w] \in Versions
  /\ condition \in [Worker -> Conditions]
  /\ source \in [Worker -> Versions \cup {Absent}]
  /\ tries \in [Worker -> 0 .. Retries]
  /\ fault \in [Worker -> {"none", "cancelled", "changed", "unavailable"}]

EndType ==
  /\ stop \in BOOLEAN /\ closed \in BOOLEAN
  /\ error \in {"none", "cancelled", "changed", "unavailable"}
  /\ changes \in 0 .. MaxChanges /\ crashes \in 0 .. MaxCrashes /\ torn \in 0 .. MaxTorn

\* A worker has work only while the pool runs.
PoolIsJoined == \A w \in Worker : at[w] # "over" => stage = "fetching"

TypeOK == CallType /\ DiskType /\ PoolType /\ EndType /\ PoolIsJoined

\* The assembled file is of one version of one object, however often the
\* transfer was resumed, the object replaced or the mirror switched, and
\* whichever workers fetched it.
OutputIsOneVersion == torn = 0 => \A v, w \in output : v = w

\* The same without the exception: CHANGELOG.md:4756 says HTTP partial content,
\* entity tags and file size are validated before a resumed download is
\* published.
ResumedIsValidated == \A v, w \in output : v = w

\* The order in which failing workers report does not matter: a transfer whose
\* worker met another object says so, so that its fragments are removed; one
\* that merely was stopped by a failing peer is never taken for a cancellation
\* by the user, which would suppress the second try.
WorstErrorWins ==
  /\ stage \in {"ended", "returning"} =>
       /\ (\E w \in Worker : fault[w] = "changed") => error = "changed"
       /\ error = "cancelled" => cancelled

\* A cancelled call returns, even if the server never answers again: requests
\* under way are closed, and so are those sent while they were being closed.
CancelEnds == (cancelled /\ stage # "idle") ~> (stage = "idle")
=============================================================================
