# A TLA+ model of SHARPpy Reimagined

SHARPpy Reimagined is a desktop program for atmospheric soundings and weather
maps. A Tauri application (Rust, `src/src-tauri`) shows a TypeScript frontend
(`src/frontend`) and supervises one Python process, the *bridge*
(`src/sharpmod/bridge`), which downloads, decodes and analyses weather data with
the help of a Rust extension (`src/rust`). This directory models the part of it
whose correctness depends on order: the processes, threads, locks, caches,
cancellations and restarts. Meteorology, drawing and layout are not modelled.

TLC checks each module on small instances, TLAPS proves what matters most for
all values of the constants. `PROJECT.json` maps each definition to the lines it
translates.

## 1. Inventory

How the parts interact:

    frontend --commands--> router --requests--> supervisor --frames--> bridge server
                                                   |                      |  pool of 8 threads
                                        starts, kills, restarts           v
                                                                   handlers (soundings, maps, storage)
                                                                     |          |            |
                                                            model hour cache  field        storage page
                                                                     |        acquisition     |
                                                                range plan and  |          clears all caches
                                                                   transfer     v             |
                                                                     |      disk caches <-----+
                                                                  servers       ^
                                                                                |
                                              batch extractor (processes of its own), other bridges

| Part | State | Operations | What is hard | What makes it correct |
|---|---|---|---|---|
| Supervisor (`src-tauri/src/python/supervisor`) | one `Inner` behind a mutex: status, epoch, generation, child slot, pending requests, crash window; a watch channel (`Gate`) | start, request, restart, shutdown; per epoch a lifecycle task that launches, greets, watches, backs off | a lifecycle of an old epoch works on while a new one starts; a child dies between two locked sections; deadlines and replies race | never two children; the status is the one of the current lifecycle; requests of a lost child fail; every attempt, restart and shutdown ends |
| Bridge server (`bridge/server.py`, `cancellation.py`) | admission semaphore, tables by wire id and by token, executor queue, early cancels | read a frame, admit, submit, cancel by id or token, run, done callback, leave, drain | done callbacks run on worker threads while the reader dispatches; a cancel may overtake its request | one answer per request; places are conserved; what was cancelled in time never runs; the process exits when its input ends |
| Model hour cache (`models/model_hour_cache.py`) | entries with lease counts, flights with consumers, directories, a count of background loads | lease, join, load, publish, evict, fail, clear, dispose | a lease is reserved for a waiter that may be stopping; clear during a load; two ways to close an entry | nothing leased is closed; leases are given back once; a stopped request harms no other |
| Field acquisition (`bridge/fields.py`) | flights by frame with a future and consumers | ask, join or lead, produce, settle, wait with polls, leave | all consumers stop while another call arrives; a wait times out as the load ends | one wanted load per frame; only the stopped are cancelled; consumers get the result |
| Range transfer (`rust/sharpmod-rs/src/range_transfer*`) | a directory of fragments and a manifest beside the output; a queue of fragments, a stop flag, a transport that can be closed | open, probe, reset, fetch by several workers, retry, assemble, publish, resume | resumes after cancel, failure and crash; the object is replaced; workers fail in any order | the file is of one version of one object; the right error wins; a cancelled call returns |
| Desktop router (`src-tauri/src/backend`) | catalogues, each behind a lock of its own, cached until a restart (one of them for a time) | one method per command; `restart_backend` | a reply of the old bridge arrives after a restart cleared the cache; a restart joins another one; the bridge is replaced after a crash, which clears nothing | a command gives the catalogue it was asked for; only a call that crossed a restart may leave one of an older bridge |
| Map field fetch (`providers/hrrr_field_fetch.py`, `_singleflight_field` of `hrrr_field.py`) | a lock per frame with a count of its users; a bounded memory cache with "not published" answers | fetch, give up, lapse | a call that gives up while it waits for a lock others hold or wait for | one lookup or download per frame at a time; no lock is left when all are gone |
| Transfer planning (`models/model_transport.py`) | none | collapse, merge, split byte ranges | inventories repeat, nest and overlap messages | the plan has each selected byte once and little else |
| Batch extraction (`analysis/batch_extract.py`, `tools/era5_extract.py`) | a manifest, a pair of files per request, a pool of threads, a cancel flag | run, resume, publish, undo, cancel | two files are replaced one after the other; the process dies or is cancelled between them; files change between runs | a completed record vouches for a whole pair; the last whole pair is not lost; a run accounts for all requests |
| Model disk cache (`models/model_disk_cache.py`) | directories with metadata and lease markers, shared by processes | protect, touch, annotate, pin, prune, clear | prune and protect in different processes; leases of dead processes and of reused process ids | a leased entry is not removed; a dead process protects nothing |
| Map frame disk cache (`providers/hrrr_field.py`, `bridge/frame_cache.py`) | files with a budget of bytes and age | read, write, prune | several backend processes write at once; files that cannot be removed | the budget holds once the prunes after the writes have ended |
| Sounding session (`bridge/sounding_cache.py`, `sounding_open.py`, `sounding_view.py`) | open soundings by id, least recently used first, their files and remembered views | open, render, view, evict | files of an evicted sounding are in use; several keys show one image | an image is lost by eviction only; the images on disk are those remembered |
| Live cache and storage page (`bridge/live_cache.py`, `storage.py`) | replies on disk; a scan of all caches | call; usage, clear | a list of files that is old when it is used | nothing in use is deleted; budgets hold |
| Render worker (`bridge/render_client.py`) | one subprocess, a queue of replies | render, stop, close | a late reply, a dead worker | a reply goes to its request |
| Browser bridge (`bridge/browser.py`) | none of its own | one HTTP request per thread | shares the caches with the desktop | as the caches |
| Frontend: sounding work (`stores/soundingStore.ts`, `updateStore.ts`, `features/sounding/useSoundingView.ts`) | open soundings and edited views in memory, changes that wait for a confirmation, the state of an update | open, close, edit, recalculate, confirm, check for updates, download, install | work goes on while an update downloads; an edit is made while another one is recalculated; one confirmation for a queue of changes | work is lost by what the user confirmed only; what an update ends has been reviewed |
| Frontend: live history (`features/tracking/useLiveHistory.ts`) | a token, the progress shown, two loops per download | download the last hour, stop, change layers | loops of a stopped download end their last requests beside those of the next one | what the page shows of a download is true |
| Frontend: status checks (`lib/backend/client.ts`) | the set of checks under way | ask whether an hour exists, wait for a free place | the end of one check resumes all who wait | status checks stay below a limit; none waits for a check that is over |
| Frontend: the rest | query cache, other stores, playback, start-up watch | user actions, replies, timers | turns of the event loop between an await and its continuation | as the parts above |
| Providers, analysis, rendering | none, or a small cache under one lock | computations and I/O | little of it is concurrent | numerical results, out of scope |

## 2. Modules

| Module | Models | Rests on |
|---|---|---|
| `BridgeService` | the request contract of the bridge: abstract specification | |
| `BridgeServer` | the bridge process; implements `BridgeService` | `BridgeService` |
| `SupervisorService` | what the supervisor promises the commands that use it: abstract specification | |
| `Supervisor` | the supervisor, its children and its callers; implements `SupervisorService` | `SupervisorService` |
| `Router` | the catalogues of the router and `restart_backend`, over any supervisor that keeps its promises | `SupervisorService` |
| `LiveHistory` | the download of the last hour of live weather | |
| `StatusChecks` | the gate of status checks | |
| `SoundingWork` | open soundings, their edits, and the update that ends the application | |
| `LoadService` | what shared loads promise the calls that share them: abstract specification | |
| `ModelHourCache` | leases and shared loads of decoded forecast hours; implements `LoadService` | `LoadService` |
| `FieldAcquisition` | shared cold loads of map fields; implements `LoadService` | `LoadService` |
| `FieldFetch` | the locks and the memory cache of `fetch_field` | |
| `SoundingSession` | open soundings, their images and views, the client of the render worker | |
| `RangePlan` | the plan of the byte ranges of a download | |
| `DownloadService` | what a resumable download promises its caller: abstract specification | |
| `RangeTransfer` | resumable downloads | |
| `RangeDownload` | the same with a history of what the server had; implements `DownloadService` | `RangeTransfer`, `DownloadService` |
| `BatchExtract` | a batch job, its manifest and pairs of files over several runs | |
| `ModelDiskCache` | leases, prunes and clears of model hours by several processes | |
| `MapFrameCache` | the budget of map frames written by several processes | |
| `MCBridgeServer`, `MCSupervisor`, `MCModelHourCache`, `MCRangeTransfer`, `MCBatchExtract`, `MCModelDiskCache` | symmetry sets, functions as constants, bounds for TLC | the module of that name |
| `MCBackend` | `BridgeServer` or `Supervisor`, with fairness | both |
| `MCDesktop` | `Supervisor`, `Router`, `LiveHistory` or `StatusChecks` | the four |
| `MCHandlers` | `FieldAcquisition`, `FieldFetch` or `SoundingSession` | the three |
| `MCDownload` | `RangePlan`, `RangeTransfer` (as `RangeDownload`) or `SoundingWork` | the three |
| `MCDiskCaches` | `ModelDiskCache` or `MapFrameCache` | both |
| `BridgeServerProofs`, `ModelHourCacheProofs`, `BatchExtractProofs` | theorems about one component | the module of that name |
| `DesktopProofs`, `HandlersProofs`, `DownloadProofs`, `DiskCachesProofs` | theorems about the components side by side | the `MC` module of that name |
| `FoldTheorems` | lemmas about sums over finite sets, and sequences | library theorems |

`MCBackend`, `MCDesktop`, `MCHandlers`, `MCDownload` and `MCDiskCaches` let one run
of TLC check modules that belong together: the first state chooses one of them, and
the behaviour is one of that module. They are no
composition: the modules do not act on each other. Where they meet in the
program, one module has of the other what it needs: the router an instance of
`SupervisorService`, which `Supervisor` is proved to implement, the supervisor a
child that may answer or end at any time, a transfer the set of fragments a plan
consists of, an acquisition a disk cache whose frames come and go.

In all of them a section of code under a lock is one step, and so is a stretch
no other thread can observe; the steps of one thread are its places (`rpc`,
`stage`, `pc`, `at`). A definition called "Plausible bug" or "Mutant" is never
part of a next-state relation: it is the variant that the property named in
`PROJECT.json` has to catch.

### BridgeServer

A job is a wire id whose method runs on the pool; its event is identified with
it. `rpc` is where the reader thread is: `Acquire`, `Register`, `Submit`, `Hook`
and `CancelIfSet` are the steps of admitting a request (`_dispatch`, server.py
172-194); `CancelWire`, `SetTarget`, `CancelUnknownWire`, `CancelToken`, `Sweep`
and `SweepDone` those of a cancel frame (154-166); `Leave`, `SetAllEvents`,
`Drain` and `Exit` the end of `serve()`. `stage[j]` takes a job through the pool:
`Start`, `Enter`, `HandlerEnds`, `WriteReply`, `SetResult`, then the done callback
in three steps, because it takes three locks one after the other (`PopRequest`,
`ReleaseToken`, `ReleaseSlot`). What a handler computes is its outcome. Early
cancels are a sequence of at most `MaxEarly` tokens that may turn stale. The
executor and the future of the Python library are external, translated from how
the code uses them: a future that runs cannot be cancelled, a callback installed
after the end runs at once.

### Supervisor

One step per section that holds the mutex of `Inner`. A lifecycle task is a place
per epoch (`at`). It launches a process (`Launch`, launcher.rs), which `attach` makes
the current child (`Adopt`) or refuses and kills if the lifecycle was cancelled
meanwhile (`Attach`); until then, and after a refusal, the process is no child but runs
(`loose`), beside the one of another lifecycle if it must be. `NoStrayProcess` says of
both kinds that somebody keeps them. A child is a generation with its process (`proc`), its reader task
(`reading`) and its events (`events`), which the lifecycle takes in order.
`pending` are pairs of a caller and the generation it waits for. Restarts
(`restarter`), requests (`req`, `target`, `answer`), liveness pings (`ping`,
`inFlight`) and the shutdown (`shutter`, `taken`) have their own places. Timers
may fire whenever their task waits. The sliding window of crashes is their number;
a crash may leave it.

What its callers see of this is `SupervisorService`: bridges with numbers, a
published phase, and for each request whether it waits, is with a bridge or is over
(`Launch`, `GoUp`, `Lose`, `Pause`, `TryAgain`, `GiveUp`, `Replace`, `Close`; `Send`,
`Answer`, `Fail`, `Return`, `Expire`, `Refuse`, `Reject`). It says that a request is sent
once, to the bridge that is up at that moment, that it is answered by nothing that comes
after a restart, and that an application that closes starts and publishes nothing.
`SupervisorContract` maps the child in the slot to the live bridge and an entry of
the table of pending requests to a request that is with a bridge; epochs, lifecycles,
processes and pipes are hidden. It does not promise that a lost bridge fails what is
with it, because the code does not keep that (F5).

### Router

A call is one command that asks for a catalogue: `Ask` looks in the cache; what is not
there is a request of the `SupervisorService` (`Send`) that ends in an answer that is
kept and given (`Store`) or in none (`Fail`). Each catalogue has a lock of its own, so
`restart_backend` clears them one by one (`Begin`, `Clear`) before it has the
supervisor start another bridge (`Restart`, the `Replace` of the service) or joins one
who does (`Join`), and waits for its hello (`RestartEnds`). All that bridges do by
themselves is `Bridge`: they are lost, replaced and given up as the service allows,
and nothing is cleared. A catalogue is known by its model, its bridge and the
call it came by. `fresh`, `since` and `crossed` are history: the first bridge since the
last restart, the one when a call began, and the calls that were under way while a
restart was.

### SoundingWork

A turn of the event loop is one step; what an `await` separates are the steps of a
recalculation (`original` is the view it began with), of a check for updates, of a
download and of an installation. Views are known by a stamp, which is the identity of
the object in the store, and by whether they hold work. `ApplyChanges` is the loop over
the opens and closes that wait for a confirmation: `after[i]` is the store after turn
`i`, `Turn` is one turn, `Discard` says that the confirmation is good for the first.
`unseen` and `drafted` are history: the views and the other work made since the user
last approved to lose what there was.

### LiveHistory and StatusChecks

`LiveHistory` names each call of `cacheHour` after its token. A loop takes a request
and waits; at its end it finds the token current (`Advance`) or not (`Abandon`). The
effect of a render (`Render`) is a step of its own after the selection changed. In
`StatusChecks` a call looks at the set of checks, joins it or races all it found
(`CheckOrWait`); the end of one removes it from the set and resumes all who raced it,
some time later, when they look again.

### ModelHourCache

A consumer is one call of `lease()`. A flight and the entry it loads are named
after the consumer that leads it. `Join`, `Lead`, `Publish`, `Land` and the
operators around them are shared by the steps `Lease`, `Load`, `Dispose`, `Stop`
and `Clear`, as the code shares its `_locked` methods. Foreground loads run on the
thread of their leader, background loads on one of their own. Every load has a
directory of its own, as the bridge creates them (sounding_cache.py 80-82).

`LoadService` is what the cache has in common with `FieldAcquisition`, without its
locks, places and tables: a call begins a load only where nobody wants one of the same
(`Begin`), joins one that is wanted or whose value is kept (`Join`), gets the value or
the failure of that load (`Deliver`), and is cancelled only if it was stopped
(`Cancel`); a load is given up when all its calls have been stopped (`GiveUp`), and a
value is closed when no call has it (`Close`). In `LoadContract` a call is with the
flight it joined or the entry it leased until its lease is over (`Of`), and a flight and
its entry are one load (`Progress`). Values are found by way of an entry only and no
call is late (`Stored` and `Polled` are false).

### FieldAcquisition

A caller is one call of `fields.grid` or `fields.contours`, a flight is named after
its owner. Each section under `_FLIGHT_LOCK` and each operation on the future is a
step; so `wait`, `timed out` and `done()` are three, and the owner's `set_result`
may fall between them. The disk cache is the set of frames it holds; it may lose
one at any time.

In its `LoadContract` a flight is the load of its owner, the future is what became of
it and the result of a call its reply. A frame may come from the disk without a load
(`Stored`), and a call that polls may be late for the end of its load (`Polled`, the
result `timeout`).

### RangeTransfer

Bytes are abstracted to the version of the object they were read from: `from[f]` is
the set of versions in fragment `f`, `size[f]` its length in chunks. A version has
a server and headers (size, ETag, Last-Modified; some may be absent). The
assumption `RangeAssumption` says what the protocol can rely on: the headers the
earlier of two versions carries tell it from the later. `stage` takes the call
through `Open`, `Unlink`/`Removed`, `Opened`, `Probe`, `Mark`, `Assemble`,
`Publish`, `Ended` and `Return`, which is the second try with one worker of
model_transfer.py 120-146. `at[w]` takes a worker through `Take`, `Ask`, `Answer` or
`Changed`, `Chunk`, `Complete`, and `Fail` followed by `Report`. A crash may happen
anywhere and loses the memory but not the directory; `torn` counts the ones that
cut a removal short. `Watch` is the monitor thread. The concurrent decoder
(`reader.rs`), byte counters and failing file operations are left out.

`DownloadService` is what `download_herbie_subset` promises, without fragments, probes or
workers: the output appears once (`Appear`) and is one version, one that its server had
while the call was under way; a call that returns without an error has the output, one
that returns a changed object or a failure has none, and only a stopped call is
cancelled (`Report`). A process that dies may leave what spoils later outputs
(`Die`, `spoilt`). `RangeDownload` adds the history variable `served`, the versions
the server of a call has had since it began; the call has its result where `stage` is
"returning", unless the second try follows (`Outcome`), and is `spoilt` from the first
torn removal on. That a whole set of fragments of an earlier call is not published
without asking the server is part of it (`Opened`): with nothing left to fetch, it is the
probe alone that finds the object replaced.

### RangePlan

Each turn of a loop is a step, `phase` is the loop. `Group` consolidates rows with
one start (`_collapse_contiguous`, model_transport.py 89-109), `Collapse` joins
what touches (111-116), `Merge` reaches over gaps within the budget (`plan_ranges`,
136-145), `Split` halves the largest range (`parallelize_range_plan`, 207-222).
`todo` is what the loop has yet to read, `plan` what it has made. Rows are
integers or have no end; a ratio is in percent.

### FieldFetch

A caller is one call of `fetch_field`; a lock is named after the caller that made
it. `Enter`, `Acquire`, `GiveUp`, `Release` and `Leave` are the sections of
`_singleflight_field` (hrrr_field.py 787-808), `LookUp`, `Fetch`, `Store` and
`NotPublished` what happens under the lock. A download is an outcome: a raster, "not
published", a failure or a stop.

### SoundingSession

A handler is a thread that serves one request after the other. The sounding cache
holds its lock while it removes the files of an evicted sounding, file by file
(`List`, `RemoveImage`), so another handler may draw or read meanwhile. `Get`,
`Lock`, `Check`, `AskWorker`, `Drawn`, `Place`, `Remember`, `Read` and `Miss` are an
image or a view on its way, with the lock of its sounding and then the one of the
client of the render worker. A drag has a key of its own and the key of the edits
it ends in (`ResolvedKey`), and both name one image.

### BatchExtract

A thread of the pool is a group of requests that share a model hour; `at` is where
it is. Bytes are named after the run that wrote them, so that a pair is whole if
archive and sidecar have one number. `Stage`, `PublishNpz`, `PublishJson`, `Keep`,
`UndoJson`, `UndoNpz` and `Cleanup` are `_atomic_write_sounding_pair`, one step per
file operation; `Mark` is the second write of the sidecar and `Record` the hashing
and the manifest. `Crash` may come between any two steps; `Damage` changes files
between two runs; `Start` resumes what `Resumable` still accepts. `saved` and `good`
are history variables.

### ModelDiskCache and MapFrameCache

Threads with a process id share directories and nothing else. A lease is a file whose
name has a process id and which says, if it can, which process that is: `Begin` creates
it under a temporary name that is one of a lease too, `Sign` writes the birth of the
process into it, `Commit` gives it its last name, `Lease` touches the directory
after it. `signed` has the files that say so; a file may remain without, as those of
older versions do. A prune or a clear lists the lease files of an entry (`List`) and
then looks at one after the other: a lapsed one is removed (`RemoveLapsed`), an active
one keeps the entry (`Spare`), and a name that has gone meanwhile counts as no lease
(`Unlisted`). If none was active (`Pass`) the entry is free and may be removed (`Remove`, or
`Delete` with a second look; `Empty`, `Rmdir`). `Die` and `Spawn` end a process
and give its id to another one, and `Hide` makes it one whose birth cannot be told
(`_process_info` returns no identity): a lease with its number is active then,
whoever took it, and so is a file that is not signed.

The history variable `exposed` has the users whose lease a prune or a clear could not
find: one that began when the lease files of the directory had been listed, and one
whose file was listed under its temporary name and renamed before it was looked
at. `LeasesHold` is about the others. The second kind is an interleaving of two steps of
`protect` with two of `_is_protected`, and as real as the first; both are F7.
`OnlyUsersProtect` says for whom an entry is spared: for a thread at work in it, or for
the sake of a number in use where nobody can tell whose it is.

For map frames a write makes room, writes a temporary file, publishes it and
prunes again; a scan is one step, the removals are one step each. `owing` and
`covers` are history: a process whose prune after a write was cut short or
could not remove a file owes one, and the next prune that begins and completes makes
up for it.

## 3. Runs

A run lasts up to four minutes with two workers of TLC. Deadlock is checked in
`bridge_safety` and `bridge_crash`, where the model ends in a step of its own; in the
other runs all calls, jobs or plans may be over (`CHECK_DEADLOCK FALSE`).

| Run | Instance | Question |
|---|---|---|
| `bridge_safety` | 3 jobs, 1 ping, 2 tokens, 2 workers, 2 places, 1 early cancel | Are places conserved, requests answered once, cancelled jobs never run, and is the abstract contract implemented? |
| `bridge_crash` | 1 job | (violated) Does the read loop end for EOF and shutdown only? |
| `supervisor_safety` | supervisor: 1 request, 1 restart, 2 children, gives up at the first crash; router: 2 calls, 2 restarts, 2 catalogues, 2 bridges; history: up to 3 requests, 2 downloads or stops, 2 selections; status: 4 calls, limit 2 | Is no process left to itself, launched, refused or attached, is the status the one of the current lifecycle, do its callers see what `SupervisorService` promises? Are catalogues of the bridge of the last restart, is the progress shown true, are status checks below their limit? |
| `backend_live` | bridge: 2 jobs with tokens of their own, 1 worker, 2 places; supervisor: 1 restart and a call that joins it, 1 child, the application exits | Is every request answered if handlers end, does a queued cancelled job leave even if they do not, does the process exit? Do attempts, restarts and the shutdown end, are dead children noticed? |
| `supervisor_stuck` | 1 request | (violated) Are the requests of a lost child failed? |
| `hour_cache` | 3 consumers (2 stoppable), 2 hours, 1 entry, 1 clear, or 1 load that fails by itself if all want one hour | Are leases counted right, nothing leased closed, nothing left behind, and are loads shared as `LoadService` says? |
| `handlers` | acquisition: 3 calls (2 stoppable), 1 frame; fetch: 3 calls, 2 frames, memory for 1; session: 2 handlers, 2 soundings, room for 1, 3 keys, 2 remembered | Is one load shared as `LoadService` says, are only the stopped cancelled, does every call end; are images lost by eviction only? |
| `range_transfer` | 2 mirrors, 3 versions, 2 fragments of 2 chunks, 2 workers, 1 retry, 1 replacement, 1 crash; plans: up to 3 messages in a file of 8 bytes; work: 3 soundings, 2 of them with a view, 2 open at once, 2 changes that wait, 2 edits | Is the plan exact and within its budget, is the output one version that the server had during the call, as `DownloadService` says, does the right error win, does a cancelled call return; is work lost only where the user confirmed it, and does an update end reviewed work only? |
| `range_torn` | the same transfer | (violated) Is it of one version even if a crash tore a removal? |
| `batch_extract` | 3 requests of 2 hours, 1 thread, 2 runs, 1 request in trouble at a time | Does a completed record vouch for a whole pair, is the last pair kept, does a run account for all and end? |
| `disk_caches` | hours: 2 runs of the extractor, 1 cleaner in the bridge, 1 directory, no room, an id reused once, by a process that can be told from the first or cannot, with two threads at work then and three before; frames: 2 processes, 2 frames of size 1, limit 1, 2 temporary names, 1 frame past its age and 1 lost prune at a time | Do leases hold, do only users protect, does the budget hold? |
| `disk_lease` | the hours without the cleaner | (violated) Does a lease keep its directory while somebody is about to remove it? |

### Why the bounds are enough

- Bridge: two tokens for three jobs make two jobs compete for one token, and two
  places for three jobs make one wait or be refused. A callback, a sweep and
  an admission involve one reader and two workers at most. One early cancel lets a
  second one push it out.
- Supervisor: `MaxGen` bounds the children launched, so that an old child and a
  new one coexist; a third epoch would only repeat what two do. A process is launched
  only while another generation is left for it (`Launch`), so that `Attach` is never
  cut short by the bound. In `supervisor_safety`
  the first crash gives up (`MaxCrashes = 1`) and no application exits; `backend_live` has
  the back-off after a crash (`MaxCrashes = 2`) and the shutdown, which
  `SupervisorKeepsContract` covers for all values.
  `backend_live` has one child: its properties are of one lifecycle, restart and shutdown at
  a time.
  Its second caller of restart only joins the first one (`Joiners`), and no application
  exits then: `AttemptsEnd` says nothing of calls that the exit cuts off. The
  two jobs of the bridge part have tokens of their own there; `bridge_safety` has
  the clash of tokens.
- Router: two calls let one store what it fetched before the restart while the other
  one asks after it; two restarts let one join the other; with two catalogues one is
  clear while the other is not. The second bridge is that of a restart or of a crash.
  The calls ask for the list of models, or one for the map catalogue of `m1` and the
  other for another one; two restarts meet only in the first case (`RouterStep`), because the
  second one is about what a call finds in the cache. Restarts are interchangeable.
- History: three requests for two loops let one loop take a second request; two
  tokens make loops of an old download end beside those of a new one, or a stop.
- Status checks: two over the limit, so that two are resumed by one end.
- Work: one more sounding than may be open, a sounding without a view, a queue with a
  second change behind the one that is confirmed. `FewTroubles` has edits begin when a
  check for updates has found one and a bridge has been seen, and has one
  recalculation under way at a time; the proofs make no use of it.
- Hour cache: with one entry every second hour evicts; three consumers make a
  leader, a waiter and a newcomer of one hour, or users of two. A load fails by itself
  only where all want one hour and nothing is cleared (`FewFailures`): a failure is of
  interest to those who share the load and to the next one who asks for the hour.
- Fields: a leader, a waiter and a newcomer. Frames do not interact, but in the memory
  cache of `FieldFetch`, which has two for one place.
- Session: the second sounding puts the first one out; a drag, its edited sounding
  and another view are one more than are remembered.
- Plans: three rows are enough for a nested, a repeated and a separate message, with
  two gaps that compete for the budget; the limits (gap 1, 40 percent, parts of 2)
  make each of them bite and be kept within 8 bytes.
- Batch: two requests of one group let one fail, or be cancelled, beside one that
  is done; the second group runs before or after it. Two runs are what a resume
  takes. Groups share no file and no request, and the theorems are for any pool.
- Disk caches: one who looks and one who leases are the race of interest; a
  directory with room for nothing is always a candidate. One reuse makes a live
  process with the number of a dead one. `FewAtWork` keeps the births of processes that
  were there from the start in sight, where it makes no difference if they are not, and
  has at most two threads at work once an id was used again: a lease of the old or the
  new process and one who looks are two. The proofs make no use of it. For frames, two writers overshoot a limit of one.
- Range transfer: two fragments for two workers let one finish or fail while
  the other is in a body; two chunks let a fragment be resumed in its middle; a
  replacement and a crash, with the second try with one worker, give the chain
  write, crash, replace, resume. The mirror serves an object with the same headers
  as the first server's, so that only the URL tells them apart.

### Fairness

- Bridge: the reader goes on inside a frame, worker threads take jobs from the
  queue and run callbacks, a handler that was told to stop does so at its next check
  (`cancellation.scope`). That handlers end by themselves is not assumed but for
  `EveryRequestAnswered`, whose premise is `HandlersEnd`: every provider call
  has a timeout. Nobody has to send frames.
- Supervisor: Tokio runs tasks that are ready, timers fire, a killed process
  ends, attached or not, and the pipe of an ended process reaches its end. A process
  that is launched when the application exits ends too, because its stdin does
  (`LeavingEndsInExit` says so of the bridge). That a child answers is
  not assumed: deadlines stand for it.
- Batch: every thread of the pool goes on and `run()` returns when they are done; a
  crash may end it instead.
- Fields: threads run, a download or a decode ends one way or the other.
- Range transfer: the threads of the process and its monitor run. A server need not
  answer (`Asked` is not fair), so that `CancelEnds` rests on `close_active` alone.
- Hour cache: its steps cannot be undone in a finite instance, so its eventual
  properties are stated as the invariant `NothingIsLeftBehind` of the states in
  which every lease and load rests (`Rests`); no fairness is needed.

### What the runs found

- **F1** (`bridge_crash`): a cancel by wire id tests `_requests` and then indexes it;
  the done callback of a worker may remove the entry between the two, and the
  `KeyError` ends the read loop, and with it the process.
- **F4** (`range_torn`): `remove_dir_all` unlinks the manifest and the fragments in
  no particular order. A crash that leaves fragments without manifest lets the next
  call with one worker take them as fragments of no known object and complete
  them with bytes of another version.
- **F5** (`supervisor_stuck`): pending requests of a lost child are failed in one
  locked section, its slot is emptied in the next; a request registered between them
  waits for its own deadline.
- **F7** (`disk_lease`): `prune` reads all leases and removes trees afterwards; `protect`
  writes its marker without a lock both processes know. A lease put down between the
  two goes with its directory, and the load continues without one. The look itself
  has the same gap: it lists names and then looks at each, so a marker that is
  renamed from its temporary name in between (model_disk_cache.py 81) is not found under the old one
  (326-328) and not listed under the new one (356-359). The trace goes through the second.

Other runs state the same properties as far as they hold (`DownloadContract`
allows more once a directory was torn, `LeasesHold` the users `exposed` to a prune that could not find their
lease). `CancelledNeverRuns`, which is one half of `CancelsAreHonoured`, speaks of cancels that reach
a job's event: an early cancel that expired or was pushed out does not.

## 4. Proofs

All theorems hold for any values of the constants that satisfy the named
assumptions, which TLC evaluates in the runs. Each names the invariant it needs
besides the property, because hardly one of the properties is inductive by itself.
Every safety invariant and every action property of the passing runs has a
theorem, and so has every refinement. A theorem about `MCSpec` is one about the component in its composition; it
rests on the same fact about the component's own `Spec`.

### `BridgeServerProofs` (assumes `BridgeAssumption`, `BoundAssumption`: finitely many jobs, none of them a ping, positive bounds)

- `TypeCorrect`: the type invariant, in it that the semaphore never goes below zero.
- `AnsweredAtMostOnce`: `Spec => []OneReply`. `OneReply` alone is not inductive:
  the step that writes a reply must know that none is there. `Unanswered` says that
  a job on its way to the pool, in it or being dispatched has no reply and that
  one nobody received has neither stage nor reply.
- `AdmissionIsConserved`: free places and jobs that hold one add up to
  `MaxAdmitted`; each step takes a place for one job, gives one back or
  leaves both sides alone (`PlaceTaken`, `PlaceGiven`, `PlaceKept`).
- `CancelsHonoured`: `Spec => []CancelsAreHonoured`, that what was cancelled in time never
  runs and that a cancel finds every job until its answer. `Registrations`: a
  token and a wire id lead to one job each, and a job's registrations stay until the
  job itself gives them up; so no sweep, refused registration or callback takes away
  what a later cancel needs. `Cancels`: the event of a job cancelled in time is set.
- `BridgeKeepsContract`: the refinement, `Spec => ServiceContract`. Initial states map to
  initial states, and each step of the bridge is one step of `BridgeService` or a
  stutter (`ContractTake`, `ContractAnswer` and so on, a lemma per abstract action). The
  mapping needs that an open request holds a place, that "cancelled" is only
  written for a job somebody cancelled, and that what the drain finds in the queue has
  been cancelled (`Contract`).

### `DesktopProofs` (assumes `SupervisorAssumption`, `CallerAssumption`, `DesktopAssumption`)

- Supervisor: `TypeCorrect`, `NeverAStrayProcess` (`NoStrayProcess`), `SupervisionIsTrue`
  (`SupervisionIsHonest`, whose halves are `StatusIsCurrent` and `PingsGoOn`: the status is
  the one of the lifecycle, the ping flag is never left behind) and `SilentAfterShutdown`
  (`NothingAfterShutdown`, one of the two halves of `ShutdownIsFinal`), for any callers,
  crashes and children. The heart is `Slot`: the child in the slot is the one the
  lifecycle of the current epoch attached and has not let go of. A lifecycle of an
  older epoch owns another child (`Owned`), and finds nothing of its own in the slot.
  A process that is launched and no child yet is in the hands of the lifecycle that
  launched it (`LooseInHand`), and while a lifecycle of the current epoch has not
  attached, the slot is empty: so the process is adopted where there is no other
  child, or killed.
- Supervisor: `SupervisorKeepsContract`, the refinement `Spec => SupervisorContract`:
  each step of a lifecycle, a child, a ping, a request, a restart or the
  shutdown is one step of `SupervisorService` or a stutter (`LifecycleServes`,
  `ChildServes`, `PingServes`, `RequestServes`, `ControlServes`). Besides the invariant above
  the mapping needs that the table of pending requests has who is with a child and
  has no answer, once (`Registered`), so that what empties the table fails those and no
  others; that a request about to be sent is aimed at a child that was up, and finds
  either that child or none (`Aimed`); and what is published between two attempts
  (`Phases`).
- Router: `CataloguesAreCurrent` (`GivenIsCurrent`), over any supervisor that keeps the
  promises of `SupervisorService`, `Supervisor` among them. A call under way that no restart
  crossed is with a bridge of the last restart or later (`Answers`). What is
  kept of a bridge that was replaced was stored by a call that crossed the
  restart (`KeptIsCurrent`), and so was all that is found in a cache some restart has
  cleared (`ClearedIsCrossed`).
- Live history: `ProgressIsTrue` (`ProgressIsHonest`). Requests that are done and
  those the two loops wait for are all that were taken (`Counted`), so that a download
  whose last request ends is complete, whichever loop sees it.
- Status checks: `ChecksStayGated` (`ChecksAreGated`), for any number of callers. Who waits
  has raced a check that is in the set, because its end resumes all who raced it.

### `ModelHourCacheProofs` (assumes `HourCacheAssumption`, `HourCacheBounds`)

- `TypeCorrect`, `LeasesKept` (`LeasesAreKept`), `LoadsAreShared` (`SharingIsFair`: only the
  stopped are cancelled, a wanted load is shared) and `CacheIsFresh` (`CachedIsFresh`),
  for any consumers, hours and size of the cache. One invariant for
  all: a flight everyone has given up stays so, because nobody joins it (`Failures`);
  hence the flight somebody wants is the registered one of its hour, which is not
  cached meanwhile (`Registered`), and what it publishes replaces nothing
  (`CacheShape`). An entry counts the consumers that hold it or wait for the flight
  that published it, and one that was disposed of has none (`Disposal`).
- `NothingStays` (`NothingIsLeftBehind`): where all leases and loads rest, no lease is left
  and no decoded hour lies on disk outside the cache. A published entry is cached
  or was given up (`Accounted`), and one that was given up goes with its last lease;
  leases are counted (`LeasesCountHolders`), so no holder means none; and a flight somebody
  waits for has a load that is not at rest.
- `CacheKeepsContract`, the refinement `Spec => LoadContract`: `CallServes`, `LeadServes`,
  `LoadServes` and `CloseServes` map the steps of a lease, a load and the
  disposal. The mapping needs that "somebody wants the load" means the same in the cache,
  which counts waiters, and in the service, which looks at who is with the load
  (`WantedMeans`); that nobody is with an entry that has no lease, so that only idle
  values are closed (`NobodyHas`); and that who was cancelled is on its way out
  (`CancelledLeave`).

### `HandlersProofs` (assumes `FieldAssumption`, `FetchesAssumption`, `SessionsAssumption`)

- Acquisitions: `TypeCorrect` and `LoadsAreShared` (`FlightsAreSound`: only the stopped are
  cancelled, a wanted load is shared, a flight has its owner).
  The invariant adds that a caller in a flight is a consumer of it, that a load
  found unwanted stays so because nobody joins it, that a registered flight is
  one of its frame with its owner still there, and that a wanted load is
  registered.
- Acquisitions: `AcquisitionsKeepContract`, the refinement `Spec => LoadContract`. `Flights`
  says what each place of a caller tells of its flight and its result, that who is
  counted as a consumer is with the flight, and that a flight somebody wants is
  registered until it is settled, so that no caller begins a second one.
- Map field fetch: `FetchesAreShared` (`OneFetchPerFrame`), for any number of
  callers and frames. Two callers of a frame exclude each other because both work
  with the registered lock (`Shared`) and hold it while they work (`Held`); the
  registered lock is not forgotten under them because its count is the number of
  callers inside (`Counted`), an argument about cardinalities.
- Sounding session: `OpenImagesAreKept` (`ImagesAreKept`). A sounding put out does not come
  back (`Lives`), who works on the images of one has its lock (`Locked`), and the images of
  an open one are those of the keys it remembers and the one about to be
  remembered (`Remembered`).

### `DownloadProofs` (assumes `RangeAssumption`, `RequestsAssumption`, `WorkAssumption`)

- Transfer: `TypeCorrect`: types, and that no worker outlives its transfer.
- Transfer: `ResumedOutputIsOneVersion` (`OutputIsOneVersion`). The output is of one
  version because all fragments are of the object the manifest names (`Named`), at
  every moment at which a crash may hand the directory to the next call. To
  keep that, the manifest in memory must be the one on disk (`InStep`), a
  probe must have checked what it is about to write down (`Prepared`), a body under
  way must be of the manifest's object when another worker's answer is accepted
  (`Bodies`), no fragment may be with two workers (`Shares`), and bytes may only
  exist with a file (`Kept`). `Named` and `Prepared` hold until a crash cuts a removal
  short, which is exactly what `range_torn` shows.
- Transfer: `TransfersKeepContract` (`DownloadContract`), a refinement: each step of
  `RangeDownload` is one of `DownloadService` or a stutter (`StepServes`). `Assemble` is
  `Appear`: its fragments are of one object because of the invariant above, and of one the
  server had during this call because fragments are handed to workers only when there
  are none, or a probe of this call has found their object (`Checked`, with `Named`); what
  a worker reads is of its own request (`Vouched`). There is an output to
  appear since a fragment that has bytes has a version (`Written`). `Removed` or `Ended` is
  `Report`: what the call says of its output (`Results`) and of a cancel (`WorstErrorWins`)
  is true, and no stop is left over from an earlier call (`Heeded`).
  `OutputIsOneVersion` follows from the contract; it stays the theorem above, on which
  the refinement rests.
- Transfer: `WorstErrorIsReported` (`WorstErrorWins`). A worker that failed has raised the
  flag, one that is over has had its say, and the flag is raised for a reason
  (`Reported`); so it makes no difference in which order workers report.
- Plan: `PlansAreExact` (`PlanIsExact`), and with the budget `PlansAreSound`
  (`PlanIsSound`), for any rows, gap, budget, workers and
  minimum, thus for inventories no test has. The invariant is one for all loops:
  what was read of `todo` is covered by `plan` (`Covered`), and depending on the
  phase rows are kept by start (`Reading`), or ranges apart, in order and behind those
  to come (`Ranging`). For the budget, `spare` is counted: it is the number of bytes of
  the plan nobody selected (`Counted`), an argument about sums of sizes and
  cardinalities of sets of bytes with the lemmas of `FoldTheorems`.
- Work: `UpdatesAreReviewed` (`InstallIsReviewed`) and `WorkIsKept` (`LocalWorkIsKept`), for any
  soundings, views and queued changes. A view set since the approval of a download is
  newer than the one reviewed (`Reviewed`), so that `UnreviewedWork` cannot miss it.
  That the loop over the changes discards what the dialog named and nothing else
  is an induction over its turns: `TurnKeeps` for one, `LoopKeeps` for all.

### `BatchExtractProofs` (assumes `BatchAssumption`)

- `TypeCorrect`, `CompletedPairsAreWhole` (`CompletedIsWhole`) and `CompletedRecordsStay`
  (`CompletedStays`), for any requests, groups, pool and number of runs. A
  thread works on requests of its group only (`OwnItems`, `AtWork`), which separates
  the threads; each place of a thread knows what it has established of its pair
  (`Stages`); a digest on record is of a whole pair and, but for damage, of the one on disk
  (`DigestsAreWhole`, `DigestsMatch`). `batch_extract` runs one thread at a time
  (`Workers = 1`): that two threads do not disturb each other is by this proof.
- `ResultsAccount` (`ResultAccounts`): while a run is under way every record of a group
  is of a request still to do, the one its thread is at, or accounted for (`Accounts`).
- `OldPairsRecoverable` (`OldPairRecoverable`): at every step of the writer, of its
  rollback and after a crash there each half of the last whole pair is in place or in its
  copy (`NpzKept`, `JsonKept`), which of the two depends on the place of the thread.

### `DiskCachesProofs` (assumes `FramesAssumption`)

- Hours: `LeasesAreHeld` (`LeasesHold`) and `OnlyUsersAreProtected` (`OnlyUsersProtect`), for
  any threads, processes and directories. While the file of a lease lies in a directory
  whoever looks at the directory still has it before him, so that nobody finds it free, and
  only directories found free are emptied (`Holding`, `Held`). A file of a running
  process is of a thread of it that uses the directory, and none is of a process yet to
  be born (`MarksOfUsers`); what else spares an entry is a file without a birth or a
  process without one (`SparedIsLeased`).
- Frames: `FramesAreWithinLimit` (`WithinLimit`), for any backends, frames and sizes. What a
  prune adds up is at least what is there of what it found (`Sound`), and if
  the frames exceed the limit, a process that has published one is yet to scan or has
  scanned and nothing came between; or one has lost its prune, and so it is with whoever
  makes up for that (`Owed`).

### `FoldTheorems`

Lemmas about `SumFunctionOnSet` of the community modules: the sum of a set without one
element, of two sets apart, of a part, and of functions that agree. The provers cannot
instantiate the induction theorems of the library, which take an operator; these
facts are proved instead from a smallest counterexample, which exists because the finite
subsets of a set are well founded under inclusion (`SmallestSubset`). `LeastNumber`
does the same for a set of numbers and serves the recursive function of `SoundingWork`.

### Only model-checked

- Liveness, which is out of the prover's reach: `EveryRequestAnswered`,
  `LeavingEndsInExit`, `QueuedCancelAnswered`, `LostChildIsNoticed`, `AttemptsEnd`,
  `FlightCallsEnd`, `CancelEnds`, `RunEnds`, and the half of `ShutdownIsFinal` that says that
  the child ends.
- The counterexamples of the four runs that end in one: a theorem cannot say that
  something can happen.

## 5. Plan

Done: all modules of section 2 with their runs, and a theorem for each safety
invariant and action property a passing run checks, the refinements of `BridgeService`,
`SupervisorService`, `LoadService` and `DownloadService` among them. `FieldFetch` implements no `LoadService`: its
calls share a lock and the frame the first one leaves in memory, and each downloads for
itself if it finds none. Left:

1. Pins and annotations in `ModelDiskCache` (a lost pin), the live cache and the
   measuring scan of the storage page.
2. Playback of live history in the frontend.
3. Type correctness of the modules that have it only as a part of a larger
   invariant of a proof (`Router`, `LiveHistory`, `RangePlan`, `SoundingSession`) as theorems of
   their own.

## 6. Not modelled

Analysis, decoding and drawing (floating point, no control of interest); vendored,
generated and packaging code; the wording of errors and logs; the validation of
parameters beyond accepted or rejected; metrics and progress counters. Each
part is listed in `PROJECT.json` with the reason.

Within the modelled parts:

- `MapFrameCache`: the order of eviction (any order is allowed, the code's is one of
  them), what frames contain, the listing of cached hours; sizes are equal in the run.
- `ModelDiskCache`: pins, annotations and the listing for the user; an entry has
  one payload; lease files whose name has no process id (lines 333-335), which nothing in
  the code makes.
- `BatchExtract`: a manifest that cannot be written, the parsing of a job, reading
  results back (`load_batch_result`); decoding and quality control are an outcome.
- `SoundingSession`: observed, reanalysis and file soundings, which register in the
  same way; the collection under `Entry.lock`; a file that cannot be removed; the pipe
  to the render worker, which is an outcome.
- `RangePlan`: the end offsets of eccodes inventories (`inclusive_end_bytes`), metrics.
- `Router`: commands that keep nothing; deadlines are failures; the limits of the
  supervisor's own restarts (`Supervisor` has them).
- `SoundingWork`: what a view shows, which is its stamp and whether it is work; work
  done while the installer already starts is lost, and nothing is said of it; a sounding
  opened on a new bridge before its first health report is closed with those of the old
  one, as the code does.
- `LiveHistory`: playback, preloading of radar tilts, `trimLiveCache`.
- `StatusChecks`: a check that timed out at the router may still occupy a worker of the
  bridge; the limit is one of promises (client.ts 103), and so is `ChecksAreGated`.
- `FieldAcquisition` has the waiter whose wait times out as the load ends: `flight.done()`
  then makes it raise its own timeout although a result is there (fields.py 130, result
  `timeout`). No property forbids it; the call fails and may be repeated.
- Two oddities no property is about: frames are marked as managed with `contours-v1`
  (hrrr_field.py 588), those of pressure are written as `contours-v2` (frame_cache.py 18), and `touch` reads the
  metadata of an entry before it takes the lock (model_disk_cache.py 141).
- A disagreement of words: docs/frontend/ARCHITECTURE.md 469 says that the open list
  keeps its entries when the bridge is replaced, BackendProvider.tsx 66 closes all. The
  model follows the code.
