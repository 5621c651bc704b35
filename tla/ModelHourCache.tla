--------------------------- MODULE ModelHourCache ---------------------------
(***************************************************************************)
(* The lease cache of decoded forecast hours of                            *)
(* src/sharpmod/models/model_hour_cache.py, as the bridge uses it: worker  *)
(* threads lease an hour by key, concurrent leases of one hour share one   *)
(* load, a user may stop his own request, the cache keeps few entries, and *)
(* the storage page may clear it at any moment.                            *)
(*                                                                         *)
(* A consumer is one call of lease(); it may come to the lock for the first *)
(* time at any moment.  A flight and the entry it loads are named after    *)
(* the consumer that leads it; every flight has a directory of its own     *)
(* (sounding_cache.py 80-82).  Each section under the condition lock is    *)
(* one step.  flight.abandoned latches a condition that cannot turn false  *)
(* here (nobody joins a stopped flight, and a stop is for ever), so it is  *)
(* no variable of its own.                                                 *)
(***************************************************************************)
EXTENDS Naturals, Sequences, FiniteSets, SequencesExt

CONSTANTS
  Consumers,   (* calls of lease()                                          *)
  Stoppable,   (* the ones that pass a cancelled callback                   *)
  Keys,        (* forecast hours                                            *)
  None,        (* no flight                                                 *)
  MaxEntries,  (* max_entries                                               *)
  MaxClears    (* bound of the model: calls of storage.clear                *)

ASSUME HourCacheAssumption ==
  /\ IsFiniteSet(Consumers) /\ Stoppable \subseteq Consumers
  /\ None \notin Consumers /\ Keys # {}
ASSUME HourCacheBounds ==
  /\ MaxEntries \in Nat \ {0}
  /\ MaxClears \in Nat

VARIABLES
  pc,         (* where each consumer is, on its way through lease()         *)
  key,        (* the hour it wants                                          *)
  stop,       (* consumers whose cancelled() is true                        *)
  joined,     (* the flight it leads or joined                              *)
  held,       (* the entry it found in the cache or got from its flight     *)
  cancelled,  (* consumers whose lease raised DownloadCancelled             *)
  entries,    (* _entries, least recently used first                        *)
  inflight,   (* _inflight                                                  *)
  load,       (* progress of each flight                                    *)
  failure,    (* flight.error                                               *)
  waiting,    (* flight.consumers                                           *)
  overtaken,  (* flights whose generation is not the current one            *)
  leases,     (* entry.leases                                               *)
  stale,      (* entries with entry.stale                                   *)
  disposed,   (* entries with entry.disposed                                *)
  downloads,  (* _downloads: flights whose directory is registered          *)
  gone,       (* flights whose dataset is closed and whose files are removed *)
  background, (* _background_loads                                          *)
  clears      (* calls of storage.clear so far                              *)

callVars   == <<pc, key, stop, joined, held, cancelled>>
flightVars == <<inflight, load, failure, waiting, overtaken>>
entryVars  == <<entries, leases, stale, disposed>>
diskVars   == <<downloads, gone>>
vars == <<callVars, flightVars, entryVars, diskVars, background, clears>>

-----------------------------------------------------------------------------
(* Shared operations.                                                      *)

Goto(c, place) == pc' = [pc EXCEPT ![c] = place]
To(f, stage) == load' = [load EXCEPT ![f] = stage]

\* flight.done, and flight.entry: the load has published an entry.
Done(f) == load[f] \in {"closing", "over"}
Published(f) == Done(f) /\ failure[f] = "none"

\* _stopped: no consumer is left that still wants the flight.
Stopped(f) == waiting[f] \subseteq stop

\* _entries without what it has for a key, if anything.
Without(seq, k) ==
  IF \E i \in DOMAIN seq : key[seq[i]] = k
    THEN RemoveAt(seq, CHOOSE i \in DOMAIN seq : key[seq[i]] = k)
    ELSE seq

\* _make_room_locked: the oldest entries leave until one more fits.
Surplus == IF Len(entries) < MaxEntries THEN 0 ELSE Len(entries) - MaxEntries + 1
Victims == ToSet(SubSeq(entries, 1, Surplus))
Kept == SubSeq(entries, Surplus + 1, Len(entries))

\* _take_for_disposal_locked, for entries that have just become stale: disposed
\* at once, or by the end of their last lease.
Disposable(S) == {e \in S : leases[e] = 0}

\* Plausible bug: only the end of a lease disposes of a stale entry.
EvictUnlessLeased(S) ==
  /\ stale' = stale \cup S
  /\ UNCHANGED disposed

Evict(S) ==
  /\ stale' = stale \cup S
  /\ disposed' = disposed \cup Disposable(S)

\* protected_directories: loading, leased or closing.
Protected(f) == ~Published(f) \/ leases[f] > 0 \/ f \in disposed

-----------------------------------------------------------------------------
(* lease(), under the condition lock.                                      *)

\* The user stops a request.  (A stop after its end shows nowhere.)
Stop(c) ==
  /\ c \in Stoppable \ stop /\ pc[c] \notin {"leaving", "left"}
  /\ stop' = stop \cup {c}
  /\ UNCHANGED <<pc, key, joined, held, cancelled, flightVars, entryVars, diskVars, background,
                 clears>>

\* A stopped request asks for nothing more.
Decline(c) ==
  /\ pc[c] = "looking" /\ c \in stop
  /\ cancelled' = cancelled \cup {c}
  /\ Goto(c, "left")
  /\ UNCHANGED <<key, stop, joined, held, flightVars, entryVars, diskVars, background, clears>>

Looking(c) == pc[c] = "looking" /\ c \notin stop
Cached(k) == {e \in ToSet(entries) : key[e] = k}
Flying(k) == inflight[k] # None /\ ~Stopped(inflight[k])

\* The hour is cached: one more lease, and it is the youngest entry now.
Hit(c) ==
  /\ Looking(c)
  /\ \E e \in Cached(key[c]) :
       /\ leases' = [leases EXCEPT ![e] = @ + 1]
       /\ entries' = Append(Without(entries, key[e]), e)
       /\ held' = [held EXCEPT ![c] = e]
  /\ Goto(c, "ready")
  /\ UNCHANGED <<key, stop, joined, cancelled, flightVars, stale, disposed, diskVars, background,
                 clears>>

\* Plausible bug: a consumer joins a flight that everybody else has given up.
JoinAny(c) ==
  LET f == inflight[key[c]] IN
  /\ Looking(c) /\ Cached(key[c]) = {} /\ f # None
  /\ waiting' = [waiting EXCEPT ![f] = @ \cup {c}]
  /\ joined' = [joined EXCEPT ![c] = f]
  /\ Goto(c, "awaiting")
  /\ UNCHANGED <<key, stop, held, cancelled, inflight, load, failure, overtaken, entryVars,
                 diskVars, background, clears>>

\* The hour is being loaded for somebody who still wants it.
Join(c) ==
  LET f == inflight[key[c]] IN
  /\ Looking(c) /\ Cached(key[c]) = {} /\ Flying(key[c])
  /\ waiting' = [waiting EXCEPT ![f] = @ \cup {c}]
  /\ joined' = [joined EXCEPT ![c] = f]
  /\ Goto(c, "awaiting")
  /\ UNCHANGED <<key, stop, held, cancelled, inflight, load, failure, overtaken, entryVars,
                 diskVars, background, clears>>

\* Nobody loads it: the consumer leads a flight, in the background if it can be
\* stopped, and room is made.  While another background load runs it waits.
Lead(c) ==
  /\ Looking(c) /\ Cached(key[c]) = {} /\ ~Flying(key[c])
  /\ c \in Stoppable => background = 0
  /\ inflight' = [inflight EXCEPT ![key[c]] = c]
  /\ waiting' = [waiting EXCEPT ![c] = {c}]
  /\ joined' = [joined EXCEPT ![c] = c]
  /\ To(c, "start")
  /\ background' = IF c \in Stoppable THEN background + 1 ELSE background
  /\ Evict(Victims)
  /\ entries' = Kept
  /\ Goto(c, "awaiting")
  /\ UNCHANGED <<key, stop, held, cancelled, failure, overtaken, leases, diskVars, clears>>

-----------------------------------------------------------------------------
(* _load of flight f, on a thread of its own or on its leader's.           *)

loadRest == <<callVars, waiting, overtaken, leases, background, clears>>

\* Plausible bug: a flight that ends takes whatever flight its key has.
LandAny(f) == inflight' = [inflight EXCEPT ![key[f]] = None]

\* The flight is no longer to be found by its key.
Land(f) == inflight' = [k \in Keys |-> IF inflight[k] = f THEN None ELSE inflight[k]]

\* The thread of a background load cannot be started.
ThreadFails(f) ==
  /\ load[f] = "start" /\ f \in Stoppable
  /\ failure' = [failure EXCEPT ![f] = "error"]
  /\ To(f, "over")
  /\ Land(f)
  /\ background' = background - 1
  /\ UNCHANGED <<callVars, waiting, overtaken, entryVars, diskVars, clears>>

\* A flight everybody left loads nothing; else it gets its directory.
Prepare(f) ==
  /\ load[f] = "start"
  /\ \/ /\ Stopped(f)
        /\ failure' = [failure EXCEPT ![f] = "cancelled"]
        /\ To(f, "failed")
        /\ UNCHANGED downloads
     \/ /\ ~Stopped(f)
        /\ failure' = [failure EXCEPT ![f] = "error"]
        /\ To(f, "failed")
        /\ UNCHANGED downloads
     \/ /\ ~Stopped(f)
        /\ downloads' = downloads \cup {f}
        /\ To(f, "fetching")
        /\ UNCHANGED failure
  /\ UNCHANGED <<loadRest, inflight, entries, stale, disposed, gone>>

\* The loader: it returns a dataset, fails, or sees at a check that it is not
\* wanted any more.
Fetch(f) ==
  /\ load[f] = "fetching"
  /\ \/ To(f, "fetched") /\ UNCHANGED failure
     \/ To(f, "failing") /\ failure' = [failure EXCEPT ![f] = "error"]
     \/ /\ Stopped(f)
        /\ To(f, "failing")
        /\ failure' = [failure EXCEPT ![f] = "cancelled"]
  /\ UNCHANGED <<loadRest, inflight, entries, stale, disposed, diskVars>>

\* Where a flight is once it is done: a background load has still to give its
\* place back.
Landing(f) == IF f \in Stoppable THEN "closing" ELSE "over"

\* Plausible bug: the entry is published with the lease of its leader alone.
PublishOneLease(f) ==
  /\ load[f] = "fetched"
  /\ leases' = [leases EXCEPT ![f] = 1]
  /\ IF f \notin overtaken /\ ~Stopped(f)
       THEN /\ Evict(Victims)
            /\ entries' = Append(Without(Kept, key[f]), f)
       ELSE /\ stale' = stale \cup {f}
            /\ disposed' = IF waiting[f] = {} THEN disposed \cup {f} ELSE disposed
            /\ UNCHANGED entries
  /\ To(f, Landing(f))
  /\ Land(f)
  /\ UNCHANGED <<callVars, failure, waiting, overtaken, diskVars, background, clears>>

\* Plausible bug: a load that finishes after clear() is cached all the same.
PublishOvertaken(f) ==
  /\ load[f] = "fetched"
  /\ leases' = [leases EXCEPT ![f] = Cardinality(waiting[f])]
  /\ Evict(Victims)
  /\ entries' = Append(Without(Kept, key[f]), f)
  /\ To(f, Landing(f))
  /\ Land(f)
  /\ UNCHANGED <<callVars, failure, waiting, overtaken, diskVars, background, clears>>

\* The end of _load: the entry is leased to everyone who waits, and cached unless
\* the cache was cleared or everyone left meanwhile.
Publish(f) ==
  /\ load[f] = "fetched"
  /\ leases' = [leases EXCEPT ![f] = Cardinality(waiting[f])]
  /\ IF f \notin overtaken /\ ~Stopped(f)
       THEN /\ Evict(Victims)
            /\ entries' = Append(Without(Kept, key[f]), f)
       ELSE /\ stale' = stale \cup {f}
            /\ disposed' = IF waiting[f] = {} THEN disposed \cup {f} ELSE disposed
            /\ UNCHANGED entries
  /\ To(f, Landing(f))
  /\ Land(f)
  /\ UNCHANGED <<callVars, failure, waiting, overtaken, diskVars, background, clears>>

\* A failed load removes what it has, and then says so.
Discard(f) ==
  /\ load[f] = "failing"
  /\ gone' = gone \cup {f}
  /\ downloads' = downloads \ {f}
  /\ To(f, "failed")
  /\ UNCHANGED <<loadRest, inflight, failure, entries, stale, disposed>>

Fail(f) ==
  /\ load[f] = "failed"
  /\ To(f, Landing(f))
  /\ Land(f)
  /\ UNCHANGED <<loadRest, failure, entries, stale, disposed, diskVars>>

\* The background load gives its place back.
Finish(f) ==
  /\ load[f] = "closing"
  /\ To(f, "over")
  /\ background' = background - 1
  /\ UNCHANGED <<callVars, inflight, failure, waiting, overtaken, entryVars, diskVars, clears>>

Load(f) ==
  ThreadFails(f) \/ Prepare(f) \/ Fetch(f) \/ Publish(f) \/ Discard(f) \/ Fail(f) \/ Finish(f)

-----------------------------------------------------------------------------
(* lease(), from the flight to the end.                                    *)

consumerRest == <<key, stop, joined, flightVars, diskVars, background, clears>>
End(c, how) ==
  /\ cancelled' = IF how = "cancelled" THEN cancelled \cup {c} ELSE cancelled
  /\ Goto(c, "leaving")

\* The flight is done, or the consumer was stopped and waits no longer.
Await(c) ==
  LET f == joined[c] IN
  /\ pc[c] = "awaiting"
  /\ \/ /\ Published(f)
        /\ held' = [held EXCEPT ![c] = f]
        /\ Goto(c, "ready")
        /\ UNCHANGED cancelled
     \/ /\ Done(f) /\ failure[f] # "none"
        /\ End(c, failure[f])
        /\ UNCHANGED held
     \/ /\ ~Done(f) /\ c \in stop
        /\ End(c, "cancelled")
        /\ UNCHANGED held
  /\ UNCHANGED <<consumerRest, entryVars>>

\* The last look at cancelled() before the entry is handed out.
Receive(c) ==
  /\ pc[c] = "ready"
  /\ \/ c \in stop /\ End(c, "cancelled")
     \/ c \notin stop /\ Goto(c, "using") /\ UNCHANGED cancelled
  /\ UNCHANGED <<consumerRest, held, entryVars>>

\* The caller is done with the dataset.
Return(c) ==
  /\ pc[c] = "using"
  /\ End(c, "ok")
  /\ UNCHANGED <<consumerRest, held, entryVars>>

\* Plausible bug: a failure of the caller disposes of the entry at once.
RaiseAndDispose(c) ==
  LET e == held[c] IN
  /\ pc[c] = "using"
  /\ IF c \in stop
       THEN End(c, "cancelled") /\ UNCHANGED <<entries, stale, disposed>>
       ELSE /\ End(c, "error")
            /\ IF e \in ToSet(entries)
                 THEN entries' = Without(entries, key[e]) /\ stale' = stale \cup {e}
                 ELSE UNCHANGED <<entries, stale>>
            /\ disposed' = disposed \cup {e}
  /\ UNCHANGED <<consumerRest, held, leases>>

\* The caller raises: unless it was stopped, the entry is suspect and leaves the
\* cache.
Raise(c) ==
  LET e == held[c] IN
  /\ pc[c] = "using"
  /\ IF c \in stop
       THEN End(c, "cancelled") /\ UNCHANGED <<entries, stale>>
       ELSE /\ End(c, "error")
            /\ IF e \in ToSet(entries)
                 THEN entries' = Without(entries, key[e]) /\ stale' = stale \cup {e}
                 ELSE UNCHANGED <<entries, stale>>
  /\ UNCHANGED <<consumerRest, held, leases, disposed>>

\* The entry a leaving consumer has a lease on: the one it got, or the one its
\* flight has published although it was stopped before it looked.
LeasedBy(c) ==
  IF held[c] # None THEN {held[c]}
  ELSE IF joined[c] # None /\ Published(joined[c]) THEN {joined[c]} ELSE {}

\* The finally block: the lease is given back, and a stale entry is disposed of by
\* its last one.
Leave(c) ==
  /\ pc[c] = "leaving"
  /\ waiting' = [f \in Consumers |-> waiting[f] \ {c}]
  /\ leases' = [e \in Consumers |->
                  IF e \in LeasedBy(c) /\ leases[e] > 0 THEN leases[e] - 1 ELSE leases[e]]
  /\ disposed' = disposed \cup {e \in stale \cap LeasedBy(c) : leases[e] <= 1}
  /\ Goto(c, "left")
  /\ UNCHANGED <<key, stop, joined, held, cancelled, inflight, load, failure, overtaken,
                 entries, stale, diskVars, background, clears>>

\* _dispose_entries, outside the lock, on the thread that took the entry: nothing
\* this thread does next depends on it.
Dispose(e) ==
  /\ e \in disposed \ gone
  /\ gone' = gone \cup {e}
  /\ downloads' = downloads \ {e}
  /\ UNCHANGED <<callVars, flightVars, entryVars, background, clears>>

\* storage.clear of the models: clear(), and then, still under the lock, every file
\* of a registered directory that is not protected.
Clear ==
  LET idle == Disposable(ToSet(entries)) IN
  /\ clears < MaxClears
  /\ clears' = clears + 1
  /\ overtaken' = overtaken \cup {f \in Consumers : load[f] # "none" /\ ~Done(f)}
  /\ entries' = <<>>
  /\ Evict(ToSet(entries))
  /\ gone' = gone \cup idle \cup {f \in downloads : ~Protected(f) /\ f \notin idle}
  /\ downloads' = downloads \ idle
  /\ UNCHANGED <<callVars, inflight, load, failure, waiting, leases, background>>

-----------------------------------------------------------------------------
Init ==
  /\ pc = [c \in Consumers |-> "looking"]
  /\ key \in [Consumers -> Keys]
  /\ stop = {}
  /\ joined = [c \in Consumers |-> None]
  /\ held = [c \in Consumers |-> None]
  /\ cancelled = {}
  /\ entries = <<>>
  /\ inflight = [k \in Keys |-> None]
  /\ load = [f \in Consumers |-> "none"]
  /\ failure = [f \in Consumers |-> "none"]
  /\ waiting = [f \in Consumers |-> {}]
  /\ overtaken = {}
  /\ leases = [e \in Consumers |-> 0]
  /\ stale = {} /\ disposed = {}
  /\ downloads = {} /\ gone = {}
  /\ background = 0 /\ clears = 0

Lease(c) ==
  \/ Decline(c) \/ Hit(c) \/ Join(c) \/ Lead(c)
  \/ Await(c) \/ Receive(c) \/ Return(c) \/ Raise(c) \/ Leave(c)

Next ==
  \/ \E c \in Consumers : Stop(c) \/ Lease(c) \/ Load(c) \/ Dispose(c)
  \/ Clear

Spec == Init /\ [][Next]_vars

-----------------------------------------------------------------------------
(* The cache implements the shared loads of LoadService: its flights are   *)
(* the loads, and a call is with its flight, or with the entry it has      *)
(* found, until its lease is over.                                         *)

Of(c) ==
  IF pc[c] = "left" THEN None
  ELSE IF held[c] # None THEN held[c] ELSE joined[c]

Progress(f) ==
  CASE load[f] = "none" -> "none"
    [] load[f] \notin {"none", "closing", "over"} -> "pending"
    [] Done(f) /\ failure[f] = "none" -> IF f \in gone THEN "closed" ELSE "ready"
    [] Done(f) /\ failure[f] = "error" -> "failed"
    [] Done(f) /\ failure[f] = "cancelled" -> "cancelled"

Reply(c) ==
  CASE pc[c] \in {"looking", "awaiting", "ready"} -> "none"
    [] pc[c] = "using" -> "ready"
    [] pc[c] \in {"leaving", "left"} ->
         IF c \in cancelled THEN "cancelled" ELSE IF held[c] # None THEN "ready" ELSE "failed"

Service == INSTANCE LoadService WITH
  Calls   <- Consumers,
  Stored  <- FALSE,
  Polled  <- FALSE,
  wants   <- key,
  stopped <- stop,
  of      <- [c \in Consumers |-> Of(c)],
  load    <- [f \in Consumers |-> Progress(f)],
  reply   <- [c \in Consumers |-> Reply(c)]

\* Each step of the cache is one of the service or none of its business: a wanted load
\* is shared, given up with its last call only, and its value open while a call has it
\* (lease, _load, _stopped, clear, _dispose_entries).
LoadContract == Service!Spec

-----------------------------------------------------------------------------
(* Properties.                                                             *)

\* The values each variable ranges over.
TypeOK ==
  /\ pc \in [Consumers -> {"looking", "awaiting", "ready", "using", "leaving", "left"}]
  /\ key \in [Consumers -> Keys]
  /\ stop \subseteq Stoppable
  /\ joined \in [Consumers -> Consumers \cup {None}]
  /\ held \in [Consumers -> Consumers \cup {None}]
  /\ cancelled \subseteq Consumers
  /\ entries \in Seq(Consumers)
  /\ inflight \in [Keys -> Consumers \cup {None}]
  /\ load \in [Consumers -> {"none", "start", "fetching", "fetched", "failing", "failed",
                             "closing", "over"}]
  /\ failure \in [Consumers -> {"none", "error", "cancelled"}]
  /\ waiting \in [Consumers -> SUBSET Consumers]
  /\ overtaken \subseteq Consumers
  /\ leases \in [Consumers -> Nat]
  /\ stale \subseteq Consumers /\ disposed \subseteq Consumers
  /\ downloads \subseteq Consumers /\ gone \subseteq Consumers
  /\ background \in Nat /\ clears \in Nat

\* A dataset is open and its files are there as long as somebody uses it, whoever
\* else stops, fails, evicts it or clears the cache meanwhile (lease, _load,
\* clear, _take_for_disposal_locked).
LeasedIsOpen ==
  \A c \in Consumers :
    \A e \in LeasedBy(c) : pc[c] \in {"awaiting", "ready", "using"} => e \notin disposed \cup gone

\* The lease count of an entry is the number of consumers that will give a lease
\* back: the ones that hold it and the waiters, stopped or not, that the finished
\* load has reserved it for; max(0, leases - 1) never hides a miscount.
LeasesCountHolders ==
  \A e \in Consumers :
    leases[e] = Cardinality({c \in Consumers : e \in LeasedBy(c) /\ pc[c] # "left"})

\* Both of it: who holds a lease is counted, and what is leased is there (lease, _load).
LeasesAreKept == LeasedIsOpen /\ LeasesCountHolders

\* A consumer is told "cancelled" only if it asked for it itself, although it
\* shares its load with others that stop (lease, _stopped).
OnlyTheStoppedAreCancelled ==
  cancelled \subseteq stop

\* Concurrent requests of one hour share one load: a second one runs only beside
\* loads that everybody has given up.
WantedLoadIsShared ==
  \A f, g \in Consumers :
    /\ f # g /\ key[f] = key[g]
    /\ load[f] # "none" /\ ~Done(f) /\ ~Stopped(f)
    /\ load[g] # "none" /\ ~Done(g)
    => Stopped(g)

\* Consumers of one hour share a load, and pay for no stop of another one.
SharingIsFair == OnlyTheStoppedAreCancelled /\ WantedLoadIsShared

\* What is cached may be handed out: no load that was running when the cache was
\* cleared is inserted afterwards, no hour is there twice, no insertion has
\* overflowed the cache.
CachedIsFresh ==
  /\ ToSet(entries) \cap (stale \cup overtaken \cup disposed) = {}
  /\ Len(entries) <= MaxEntries
  /\ \A i, j \in 1..Len(entries) : key[entries[i]] = key[entries[j]] => i = j

\* lease() of c is over, or the condition variable holds it: for its flight, or for
\* the place of a background load.  Lease(c) is disabled in no other states.
Rests(c) ==
  \/ pc[c] = "left"
  \/ pc[c] = "awaiting" /\ c \notin stop /\ ~Done(joined[c])
  \/ /\ Looking(c) /\ Cached(key[c]) = {} /\ ~Flying(key[c])
     /\ c \in Stoppable /\ background > 0

\* Every step of the model is one that cannot be undone, so what runs comes to
\* rest, and nothing is left behind there: no request waits for a load that is over
\* or for a background place that was not given back, no lease is kept by a user
\* that failed or a waiter that was stopped, and every dataset that is in the cache
\* no more is closed and removed.
NothingIsLeftBehind ==
  /\ \A f \in Consumers : load[f] \in {"none", "over"}
  /\ disposed \subseteq gone
  /\ \A c \in Consumers : Rests(c)
  => /\ \A c \in Consumers : pc[c] = "left" /\ leases[c] = 0
     /\ \A e \in Consumers : Published(e) => e \in ToSet(entries) \cup gone
=============================================================================
