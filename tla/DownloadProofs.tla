--------------------------- MODULE DownloadProofs ---------------------------
(***************************************************************************)
(* Proofs about a download.  RangeTransfer, for any mirrors, versions,     *)
(* fragments and number of workers: type correctness, that the assembled   *)
(* file is of one version of one object, what a transfer says of its       *)
(* failures, and that it implements DownloadService.  RangePlan, for any   *)
(* inventory, budget and number of workers: a plan is exact, because the   *)
(* loops keep every byte in a range that is still to be looked at or       *)
(* already made, and within its budget, because spare is the number of     *)
(* its bytes nobody selected.  SoundingWork, for any soundings and views:  *)
(* confirmations discard what they named, and an update ends with          *)
(* reviewed work only.                                                     *)
(*                                                                         *)
(* A frame lemma names the actions that touch the variables of one part of *)
(* the invariant; the step lemma of that part then has one step for each.  *)
(***************************************************************************)
EXTENDS MCDownload, FoldTheorems

-----------------------------------------------------------------------------
(* The values of the constants.                                            *)

\* Store::open never starts more workers than there are fragments.
LEMMA AtMostType == \A n \in Worker : AtMost(n) \in Worker
<1>1. Cardinality(Fragments) \in Nat /\ Cardinality(Fragments) # 0
  BY FS_CardinalityType, FS_EmptySet, RangeAssumption DEF RangeAssumption
<1>2. QED BY <1>1, RangeAssumption DEF RangeAssumption, AtMost, Worker

\* What manifest.json may hold.
Manifests == [url : Urls \cup {Absent}, known : Identities]

\* The constants are in the sets the type invariant is made of.
LEMMA Values ==
  /\ MaxWorkers \in Worker /\ 1 \in Worker
  /\ Nothing \in Identities
  /\ \A v \in Versions : Header[v] \in Identities /\ UrlOf[v] \in Urls
  /\ Absent \in Conditions /\ \A i \in Identities : IfRange(i) \in Conditions
  /\ NoManifest \in Manifests
  /\ \A u \in Urls, i \in Identities : [url |-> u, known |-> i] \in Manifests
BY RangeAssumption DEF RangeAssumption, Worker, Identities, NoManifest, Manifests,
       Conditions

-----------------------------------------------------------------------------
(* Type correctness.                                                       *)

\* The initial states have their types.
LEMMA TypeInit == Init => TypeOK
<1> SUFFICES ASSUME Init PROVE TypeOK
  OBVIOUS
<1> USE Values, RangeAssumption DEF RangeAssumption, Init, Resting
<1>1. CallType BY DEF CallType
<1>2. DiskType BY DEF DiskType, Manifests
<1>3. PoolType BY DEF PoolType
<1>4. EndType
  <2>1. 0 \in 0 .. MaxChanges /\ 0 \in 0 .. MaxCrashes /\ 0 \in 0 .. MaxTorn
    OBVIOUS
  <2>2. QED BY <2>1 DEF EndType
<1>5. PoolIsJoined BY DEF PoolIsJoined
<1>6. QED BY <1>1, <1>2, <1>3, <1>4, <1>5 DEF TypeOK

\* What moves the call and what it keeps in memory.
LEMMA CallFrame == [Next]_vars =>
  \/ \E u \in Urls : Start(u)
  \/ Cancel \/ Open \/ Removed \/ Opened \/ Probe \/ ProbeFails \/ ProbeStops \/ Mark
  \/ \E w \in Worker : Answer(w)
  \/ Assemble \/ Publish \/ Ended \/ Return \/ Crash
  \/ UNCHANGED <<caller, memory>>
BY DEF Next, vars, Coordinating, Asked, Working, Unlink, Take, Ask, Changed, Chunk,
       Complete,
       Overlong, Refused, Transient, Interrupted, Report, Watch, Replace

\* What touches the directory, the output file or the servers.
LEMMA DiskFrame == [Next]_vars =>
  \/ Unlink \/ Opened \/ Mark \/ Assemble
  \/ \E w \in Worker : Answer(w) \/ Chunk(w) \/ Overlong(w)
  \/ \E v \in Versions : Replace(v)
  \/ UNCHANGED <<object, disk>>
BY DEF Next, vars, Coordinating, Asked, Working, disk, Start, Cancel, Open, Removed, Probe,
       ProbeFails, ProbeStops, Take, Ask, Changed, Complete, Refused, Transient, Interrupted,
       Report, Watch, Publish, Ended, Return, Crash

\* What moves a worker.
LEMMA PoolFrame == [Next]_vars =>
  \/ Opened \/ Mark \/ Return \/ Crash
  \/ \E w \in Worker :
       \/ Take(w) \/ Ask(w) \/ Answer(w) \/ Changed(w) \/ Chunk(w) \/ Complete(w)
       \/ Overlong(w) \/ Refused(w) \/ Transient(w) \/ Interrupted(w) \/ Report(w)
  \/ UNCHANGED pool
BY DEF Next, vars, Coordinating, Asked, Working, Start, Cancel, Open, Unlink, Removed,
       Probe,
       ProbeFails, ProbeStops, Watch, Assemble, Publish, Ended, Replace

\* What raises a flag, records an error or counts.
LEMMA EndFrame == [Next]_vars =>
  \/ ProbeFails \/ ProbeStops \/ Watch \/ Assemble \/ Publish \/ Return \/ Crash
  \/ \E w \in Worker :
       \/ Ask(w) \/ Changed(w) \/ Chunk(w) \/ Overlong(w) \/ Refused(w) \/ Transient(w)
       \/ Interrupted(w) \/ Report(w)
  \/ \E v \in Versions : Replace(v)
  \/ UNCHANGED <<ending, count>>
BY DEF Next, vars, Coordinating, Asked, Working, Start, Cancel, Open, Unlink, Removed,
       Opened,
       Probe, Mark, Take, Answer, Complete, Ended

\* The call keeps its type.
LEMMA CallStep == TypeOK /\ [Next]_vars => CallType'
<1> SUFFICES ASSUME TypeOK, [Next]_vars PROVE CallType'
  OBVIOUS
<1> USE Values DEF TypeOK, CallType, DiskType, PoolIsJoined, caller, memory
<1>1. ASSUME NEW u \in Urls, Start(u) PROVE CallType'
  BY <1>1 DEF Start
<1>2. CASE Cancel
  BY <1>2 DEF Cancel
<1>3. CASE Open
  BY <1>3, AtMostType DEF Open
<1>4. CASE Removed
  BY <1>4 DEF Removed
<1>5. CASE Opened
  BY <1>5 DEF Opened, Fetch, Incomplete
<1>6. CASE Probe
  BY <1>6 DEF Probe
<1>7. CASE ProbeFails
  BY <1>7 DEF ProbeFails, Abandon
<1>8. CASE ProbeStops
  BY <1>8 DEF ProbeStops, Abandon
<1>9. CASE Mark
  BY <1>9 DEF Mark, Fetch, Incomplete
<1>10. ASSUME NEW w \in Worker, Answer(w) PROVE CallType'
  BY <1>10 DEF Answer
<1>11. CASE Assemble
  BY <1>11 DEF Assemble, Abandon
<1>12. CASE Publish
  BY <1>12 DEF Publish, Stopping
<1>13. CASE Ended
  BY <1>13 DEF Ended
<1>14. CASE Return
  BY <1>14 DEF Return, Afresh
<1>15. CASE Crash
  BY <1>15 DEF Crash, Afresh
<1>16. CASE UNCHANGED <<caller, memory>>
  BY <1>16
<1>17. QED
  BY <1>1, <1>2, <1>3, <1>4, <1>5, <1>6, <1>7, <1>8, <1>9, <1>10, <1>11, <1>12, <1>13,
     <1>14, <1>15, <1>16, CallFrame

\* The directory keeps its type.
LEMMA DiskStep == TypeOK /\ [Next]_vars => DiskType'
<1> SUFFICES ASSUME TypeOK, [Next]_vars PROVE DiskType'
  OBVIOUS
<1> USE Values, RangeAssumption DEF RangeAssumption, TypeOK, CallType, DiskType, PoolType,
        PoolIsJoined, Manifests, disk
<1>1. CASE Unlink
  <2>1. size' \in [Fragments -> 0 .. Size] BY <1>1 DEF Unlink
  <2>2. from' \in [Fragments -> SUBSET Versions] BY <1>1 DEF Unlink
  <2>3. manifest' \in Manifests /\ files' \subseteq Fragments BY <1>1 DEF Unlink
  <2>4. UNCHANGED <<object, output>> BY <1>1 DEF Unlink
  <2>5. QED BY <2>1, <2>2, <2>3, <2>4
<1>2. CASE Opened
  BY <1>2 DEF Opened, Fetch, Incomplete
<1>3. CASE Mark
  BY <1>3 DEF Mark, Fetch, Incomplete
<1>4. CASE Assemble
  BY <1>4 DEF Assemble, Abandon
<1>5. ASSUME NEW w \in Worker, Answer(w) PROVE DiskType'
  <2>1. stage = "fetching" /\ url \in Urls /\ item[w] \in Fragments BY <1>5 DEF Answer
  <2>2. object[url] \in Versions BY <2>1
  <2>3. manifest' \in Manifests BY <1>5, <2>1, <2>2 DEF Answer
  <2>4. files' \subseteq Fragments BY <1>5, <2>1 DEF Answer
  <2>5. UNCHANGED <<object, size, from, output>> BY <1>5 DEF Answer
  <2>6. QED BY <2>3, <2>4, <2>5
<1>6. ASSUME NEW w \in Worker, Chunk(w) PROVE DiskType'
  <2>1. item[w] \in Fragments /\ source[w] \in Versions BY <1>6 DEF Chunk
  <2>2. size' \in [Fragments -> 0 .. Size]
    <3>1. size[item[w]] \in 0 .. Size /\ size[item[w]] < Size BY <1>6, <2>1 DEF Chunk
    <3>2. size[item[w]] + 1 \in 0 .. Size BY <3>1
    <3>3. size' = [size EXCEPT ![item[w]] = size[item[w]] + 1] BY <1>6, <2>1 DEF Chunk
    <3>4. QED BY <3>2, <3>3
  <2>3. from' \in [Fragments -> SUBSET Versions] BY ZenonT(30), <1>6, <2>1 DEF Chunk
  <2>4. UNCHANGED <<object, manifest, files, output>> BY <1>6 DEF Chunk
  <2>5. QED BY <2>2, <2>3, <2>4
<1>7. ASSUME NEW w \in Worker, Overlong(w) PROVE DiskType'
  <2>1. size' \in [Fragments -> 0 .. Size] BY <1>7 DEF Overlong
  <2>2. from' \in [Fragments -> SUBSET Versions] BY <1>7 DEF Overlong
  <2>3. files' \subseteq Fragments /\ UNCHANGED <<object, manifest, output>>
    BY <1>7 DEF Overlong
  <2>4. QED BY <2>1, <2>2, <2>3
<1>8. ASSUME NEW v \in Versions, Replace(v) PROVE DiskType'
  BY <1>8 DEF Replace
<1>9. CASE UNCHANGED <<object, disk>>
  BY <1>9
<1>10. QED
  BY <1>1, <1>2, <1>3, <1>4, <1>5, <1>6, <1>7, <1>8, <1>9, DiskFrame

\* The workers keep theirs.
LEMMA PoolStep == TypeOK /\ [Next]_vars => PoolType'
<1> SUFFICES ASSUME TypeOK, [Next]_vars PROVE PoolType'
  OBVIOUS
<1> USE Values, RangeAssumption DEF RangeAssumption, TypeOK, CallType, DiskType, PoolType,
        PoolIsJoined, pool, Goto, Forget, Fail
<1>1. CASE Opened
  <2>1. at' \in [Worker -> {"over", "pull"}] \/ UNCHANGED at BY <1>1 DEF Opened, Fetch
  <2>2. todo' \subseteq Fragments BY <1>1 DEF Opened, Fetch, Incomplete
  <2>3. UNCHANGED <<item, condition, source, tries, fault>> BY <1>1 DEF Opened
  <2>4. QED BY <2>1, <2>2, <2>3
<1>2. CASE Mark
  BY <1>2 DEF Mark, Fetch, Incomplete
<1>3. CASE Return
  BY <1>3 DEF Return, Afresh
<1>4. CASE Crash
  BY <1>4 DEF Crash, Afresh
<1>5. ASSUME NEW w \in Worker, Take(w) PROVE PoolType'
  <2>1. CASE error # "none" \/ stop \/ todo = {}
    BY <1>5, <2>1 DEF Take
  <2>2. CASE ~(error # "none" \/ stop \/ todo = {})
    <3>1. PICK f \in todo : todo' = todo \ {f} /\ item' = [item EXCEPT ![w] = f]
                            /\ at' = [at EXCEPT ![w] = "ask"]
      BY <1>5, <2>2 DEF Take
    <3>2. UNCHANGED <<condition, source, tries, fault>> BY <1>5 DEF Take
    <3>3. f \in Fragments /\ f # 0 BY <3>1
    <3>4. item' \in [Worker -> Fragments \cup {0}] BY <3>1, <3>3
    <3>5. \A x \in Worker : at'[x] \in {"ask", "wait", "body"} => item'[x] # 0 BY <3>1, <3>3
    <3>6. QED BY <3>1, <3>2, <3>4, <3>5
  <2>3. QED BY <2>1, <2>2
<1>6. ASSUME NEW w \in Worker, Ask(w) PROVE PoolType'
  BY <1>6 DEF Ask
<1>7. ASSUME NEW w \in Worker, Answer(w) PROVE PoolType'
  BY <1>7 DEF Answer
<1>8. ASSUME NEW w \in Worker, Changed(w) PROVE PoolType'
  BY <1>8 DEF Changed
<1>9. ASSUME NEW w \in Worker, Chunk(w) PROVE PoolType'
  BY <1>9 DEF Chunk
<1>10. ASSUME NEW w \in Worker, Complete(w) PROVE PoolType'
  BY <1>10 DEF Complete
<1>11. ASSUME NEW w \in Worker, Overlong(w) PROVE PoolType'
  BY <1>11 DEF Overlong
<1>12. ASSUME NEW w \in Worker, Refused(w) PROVE PoolType'
  BY <1>12 DEF Refused
<1>13. ASSUME NEW w \in Worker, Transient(w) PROVE PoolType'
  BY <1>13 DEF Transient
<1>14. ASSUME NEW w \in Worker, Interrupted(w) PROVE PoolType'
  <2>1. UNCHANGED todo /\ Fail(w, "cancelled") BY <1>14 DEF Interrupted
  <2>2. at' \in [Worker -> {"over", "pull", "ask", "wait", "body", "failing"}] BY <2>1
  <2>3. \A x \in Worker : at'[x] \in {"ask", "wait", "body"} => item'[x] # 0 BY <2>1
  <2>4. \A x \in Worker : at'[x] = "body" => source'[x] \in Versions BY <2>1
  <2>5. item' \in [Worker -> Fragments \cup {0}] /\ tries' \in [Worker -> 0 .. Retries] BY <2>1
  <2>6. condition' \in [Worker -> Conditions] /\ source' \in [Worker -> Versions \cup {Absent}]
    BY <2>1
  <2>7. fault' \in [Worker -> {"none", "cancelled", "changed", "unavailable"}] BY <2>1
  <2>8. todo' \subseteq Fragments BY <2>1
  <2>9. QED BY <2>2, <2>3, <2>4, <2>5, <2>6, <2>7, <2>8
<1>15. ASSUME NEW w \in Worker, Report(w) PROVE PoolType'
  BY <1>15 DEF Report
<1>16. CASE UNCHANGED pool
  BY <1>16
<1>17. QED
  BY <1>1, <1>2, <1>3, <1>4, <1>5, <1>6, <1>7, <1>8, <1>9, <1>10, <1>11, <1>12, <1>13,
     <1>14, <1>15, <1>16, PoolFrame

\* Flags, error and counters keep theirs.
LEMMA EndStep == TypeOK /\ [Next]_vars => EndType'
<1> SUFFICES ASSUME TypeOK, [Next]_vars PROVE EndType'
  OBVIOUS
<1> USE RangeAssumption DEF RangeAssumption, TypeOK, PoolType, EndType, ending, count, Fail
<1>1. CASE ProbeFails
  BY <1>1 DEF ProbeFails, Abandon
<1>2. CASE ProbeStops
  BY <1>2 DEF ProbeStops, Abandon
<1>3. CASE Watch
  BY <1>3 DEF Watch
<1>4. CASE Assemble
  BY <1>4 DEF Assemble, Abandon
<1>5. CASE Publish
  BY <1>5 DEF Publish, Stopping
<1>6. CASE Return
  BY <1>6 DEF Return, Afresh
<1>7. CASE Crash
  <2>1. stop' = FALSE /\ closed' = FALSE /\ error' = "none" /\ UNCHANGED changes
    BY <1>7 DEF Crash, Afresh
  <2>2. crashes' \in 0 .. MaxCrashes BY <1>7 DEF Crash
  <2>3. torn' \in 0 .. MaxTorn BY <1>7 DEF Crash
  <2>4. QED BY <2>1, <2>2, <2>3
<1>8. ASSUME NEW w \in Worker, Ask(w) PROVE EndType'
  BY <1>8 DEF Ask
<1>9. ASSUME NEW w \in Worker, Changed(w) PROVE EndType'
  BY <1>9 DEF Changed
<1>10. ASSUME NEW w \in Worker, Chunk(w) PROVE EndType'
  BY <1>10 DEF Chunk
<1>11. ASSUME NEW w \in Worker, Overlong(w) PROVE EndType'
  BY <1>11 DEF Overlong
<1>12. ASSUME NEW w \in Worker, Refused(w) PROVE EndType'
  BY <1>12 DEF Refused
<1>13. ASSUME NEW w \in Worker, Transient(w) PROVE EndType'
  BY <1>13 DEF Transient
<1>14. ASSUME NEW w \in Worker, Interrupted(w) PROVE EndType'
  BY <1>14 DEF Interrupted
<1>15. ASSUME NEW w \in Worker, Report(w) PROVE EndType'
  BY <1>15 DEF Report
<1>16. ASSUME NEW v \in Versions, Replace(v) PROVE EndType'
  BY <1>16 DEF Replace
<1>17. CASE UNCHANGED <<ending, count>>
  BY <1>17
<1>18. QED
  BY <1>1, <1>2, <1>3, <1>4, <1>5, <1>6, <1>7, <1>8, <1>9, <1>10, <1>11, <1>12, <1>13,
     <1>14, <1>15, <1>16, <1>17, EndFrame

\* What moves the call or a worker.
LEMMA JoinFrame == [Next]_vars =>
  \/ \E u \in Urls : Start(u)
  \/ Open \/ Removed \/ Opened \/ Probe \/ ProbeFails \/ ProbeStops \/ Mark
  \/ \E w \in Worker :
       \/ Take(w) \/ Ask(w) \/ Answer(w) \/ Changed(w) \/ Chunk(w) \/ Complete(w)
       \/ Overlong(w) \/ Refused(w) \/ Transient(w) \/ Interrupted(w) \/ Report(w)
  \/ Assemble \/ Publish \/ Ended \/ Return \/ Crash
  \/ UNCHANGED <<stage, at>>
BY DEF Next, vars, Coordinating, Asked, Working, caller, pool, Cancel, Unlink, Watch,
       Replace

\* A call leaves `fetching` when all workers are over, and starts them in it.
LEMMA JoinStep == TypeOK /\ [Next]_vars => PoolIsJoined'
<1> SUFFICES ASSUME TypeOK, [Next]_vars PROVE PoolIsJoined'
  OBVIOUS
<1> USE DEF TypeOK, PoolType, PoolIsJoined, caller, pool, Goto, Fail
<1>1. ASSUME NEW u \in Urls, Start(u) PROVE PoolIsJoined'
  BY <1>1 DEF Start
<1>2. CASE Open
  BY <1>2 DEF Open
<1>3. CASE Removed
  BY <1>3 DEF Removed
<1>4. CASE Opened
  BY <1>4 DEF Opened, Fetch
<1>5. CASE Probe
  BY <1>5 DEF Probe
<1>6. CASE ProbeFails
  BY <1>6 DEF ProbeFails, Abandon
<1>7. CASE ProbeStops
  BY <1>7 DEF ProbeStops, Abandon
<1>8. CASE Mark
  BY <1>8 DEF Mark, Fetch
<1>9. ASSUME NEW w \in Worker, Take(w) PROVE PoolIsJoined'
  BY <1>9 DEF Take
<1>10. ASSUME NEW w \in Worker, Ask(w) PROVE PoolIsJoined'
  BY <1>10 DEF Ask
<1>11. ASSUME NEW w \in Worker, Answer(w) PROVE PoolIsJoined'
  BY <1>11 DEF Answer
<1>12. ASSUME NEW w \in Worker, Changed(w) PROVE PoolIsJoined'
  BY <1>12 DEF Changed
<1>13. ASSUME NEW w \in Worker, Chunk(w) PROVE PoolIsJoined'
  BY <1>13 DEF Chunk
<1>14. ASSUME NEW w \in Worker, Complete(w) PROVE PoolIsJoined'
  BY <1>14 DEF Complete
<1>15. ASSUME NEW w \in Worker, Overlong(w) PROVE PoolIsJoined'
  BY <1>15 DEF Overlong
<1>16. ASSUME NEW w \in Worker, Refused(w) PROVE PoolIsJoined'
  BY <1>16 DEF Refused
<1>17. ASSUME NEW w \in Worker, Transient(w) PROVE PoolIsJoined'
  BY <1>17 DEF Transient
<1>18. ASSUME NEW w \in Worker, Interrupted(w) PROVE PoolIsJoined'
  BY <1>18 DEF Interrupted
<1>19. ASSUME NEW w \in Worker, Report(w) PROVE PoolIsJoined'
  BY <1>19 DEF Report
<1>20. CASE Assemble
  BY <1>20 DEF Assemble, Abandon
<1>21. CASE Publish
  BY <1>21 DEF Publish
<1>22. CASE Ended
  BY <1>22 DEF Ended
<1>23. CASE Return
  BY <1>23 DEF Return, Afresh
<1>24. CASE Crash
  BY <1>24 DEF Crash, Afresh
<1>25. CASE UNCHANGED <<stage, at>>
  BY <1>25
<1>26. QED
  BY <1>1, <1>2, <1>3, <1>4, <1>5, <1>6, <1>7, <1>8, <1>9, <1>10, <1>11, <1>12, <1>13,
     <1>14, <1>15, <1>16, <1>17, <1>18, <1>19, <1>20, <1>21, <1>22, <1>23, <1>24, <1>25,
     JoinFrame

\* Every step keeps the type invariant.
LEMMA TypeStep == TypeOK /\ [Next]_vars => TypeOK'
BY CallStep, DiskStep, PoolStep, EndStep, JoinStep DEF TypeOK

\* Every variable has its values, and no worker outlives its transfer: a
\* Transfer joins its threads before it looks at the fragments.
THEOREM TypeCorrect == Spec => []TypeOK
<1>1. Init => TypeOK BY TypeInit
<1>2. TypeOK /\ [Next]_vars => TypeOK' BY TypeStep
<1>3. QED BY <1>1, <1>2, PTL DEF Spec

-----------------------------------------------------------------------------
(* The output is of one version.  The property is not inductive: it rests  *)
(* on the manifest naming the object all fragments are of, at every moment *)
(* at which a crash may leave the directory to the next call.              *)

\* A fragment without a file has no bytes.
Kept == \A f \in Fragments : f \notin files => from[f] = {}

\* The manifest of a version.
Ident(v) == [url |-> UrlOf[v], known |-> Header[v]]

\* The manifest never lags behind the fragments: disk.rs writes the identity
\* before the first byte, and a reset removes all there is.
Named == stage # "removing" => \A f \in Fragments : \A v \in from[f] : manifest = Ident(v)

\* What the probe has found may be written down: the fragments that are left
\* are of that object.
Prepared == stage = "marking" =>
  \A f \in Fragments : \A v \in from[f] : Ident(v) = [url |-> url, known |-> probed]

\* The manifest in memory is the one on disk.
InStep ==
  /\ stage = "fetching" => manifest = [url |-> url, known |-> known]
  /\ stage \in {"opened", "probing"} => manifest.known = known /\ manifest.url \in {Absent, url}
  /\ stage = "removing" /\ after = "opened" => known = Nothing

\* Where a worker has a fragment.
Busy == {"ask", "wait", "body"}

\* No fragment is with two workers, or with one and in the queue.
Shares ==
  /\ \A w, x \in Worker : w # x /\ at[w] \in Busy /\ at[x] \in Busy => item[w] # item[x]
  /\ \A w \in Worker : at[w] \in Busy => item[w] \notin todo

\* The body a worker reads is of the object the manifest names.
Bodies == \A w \in Worker : at[w] = "body" => manifest = Ident(source[w]) /\ item[w] \in files

\* Unless a crash cut a removal short.
Resumable == torn = 0 => Named /\ Prepared

\* The inductive invariant.
Consistent == TypeOK /\ Kept /\ InStep /\ Shares /\ Bodies /\ Resumable /\ OutputIsOneVersion

\* A manifest names one version, and admits no other of its server.
LEMMA OfOneObject ==
  /\ \A v, w \in Versions : UrlOf[v] = UrlOf[w] /\ Matches(Header[v], Header[w]) => v = w
  /\ \A v \in Versions : Matches(Header[v], Header[v])
  /\ \A v, w \in Versions : Ident(v) = Ident(w) => v = w
<1>1. \A v, w \in Versions : UrlOf[v] = UrlOf[w] /\ Matches(Header[v], Header[w]) => v = w
  BY RangeAssumption DEF RangeAssumption
<1>2. \A v \in Versions : Matches(Header[v], Header[v])
  BY RangeAssumption DEF RangeAssumption, Matches
<1>3. \A v, w \in Versions : Ident(v) = Ident(w) => UrlOf[v] = UrlOf[w] /\ Header[v] = Header[w]
  BY DEF Ident
<1>4. QED BY <1>1, <1>2, <1>3

\* What touches the fragments.
LEMMA KeptFrame == [Next]_vars =>
  \/ Unlink
  \/ \E w \in Worker : Answer(w) \/ Chunk(w) \/ Overlong(w)
  \/ UNCHANGED <<files, from>>
BY DiskFrame DEF disk, Opened, Mark, Assemble, Replace

\* Bytes are written to, and removed with, a file.
LEMMA KeptStep == Consistent /\ [Next]_vars => Kept'
<1> SUFFICES ASSUME Consistent, [Next]_vars PROVE Kept'
  OBVIOUS
<1> USE DEF Consistent, TypeOK, PoolType, DiskType, Kept, disk
<1>1. CASE Unlink
  BY <1>1 DEF Unlink
<1>2. ASSUME NEW w \in Worker, Answer(w) PROVE Kept'
  BY <1>2 DEF Answer
<1>3. ASSUME NEW w \in Worker, Chunk(w) PROVE Kept'
  <2>1. item[w] \in files BY <1>3 DEF Chunk, Bodies
  <2>2. from' = [from EXCEPT ![item[w]] = from[item[w]] \cup {source[w]}] /\ UNCHANGED files
    BY <1>3 DEF Chunk
  <2>3. QED BY <2>1, <2>2
<1>4. ASSUME NEW w \in Worker, Overlong(w) PROVE Kept'
  BY <1>4 DEF Overlong
<1>5. CASE UNCHANGED <<files, from>>
  BY <1>5
<1>6. QED
  BY <1>1, <1>2, <1>3, <1>4, <1>5, KeptFrame

\* What touches a manifest or moves the call.
LEMMA InStepFrame == [Next]_vars =>
  \/ \E u \in Urls : Start(u)
  \/ Open \/ Unlink \/ Removed \/ Opened \/ Probe \/ ProbeFails \/ ProbeStops \/ Mark
  \/ \E w \in Worker : Answer(w)
  \/ Assemble \/ Publish \/ Ended \/ Return \/ Crash
  \/ UNCHANGED <<stage, url, known, after, manifest>>
BY DEF Next, vars, Coordinating, Asked, Working, caller, disk, memory, Cancel, Take, Ask,
       Changed, Chunk, Complete, Overlong, Refused, Transient, Interrupted, Report, Watch, Replace

\* The manifests in memory and on disk change together.
LEMMA InStepStep == Consistent /\ [Next]_vars => InStep'
<1> SUFFICES ASSUME Consistent, [Next]_vars PROVE InStep'
  OBVIOUS
<1> USE DEF Consistent, TypeOK, CallType, InStep, caller, memory, disk, NoManifest
<1>1. ASSUME NEW u \in Urls, Start(u) PROVE InStep'
  BY <1>1 DEF Start
<1>2. CASE Open
  BY <1>2 DEF Open
<1>3. CASE Unlink
  BY <1>3 DEF Unlink
<1>4. CASE Removed
  BY <1>4 DEF Removed
<1>5. CASE Opened
  BY <1>5 DEF Opened, Fetch
<1>6. CASE Probe
  BY <1>6 DEF Probe
<1>7. CASE ProbeFails
  BY <1>7 DEF ProbeFails, Abandon
<1>8. CASE ProbeStops
  BY <1>8 DEF ProbeStops, Abandon
<1>9. CASE Mark
  BY <1>9 DEF Mark, Fetch
<1>10. ASSUME NEW w \in Worker, Answer(w) PROVE InStep'
  <2>1. stage = "fetching" BY <1>10 DEF Answer, PoolIsJoined
  <2>2. QED BY <1>10, <2>1 DEF Answer
<1>11. CASE Assemble
  BY <1>11 DEF Assemble, Abandon
<1>12. CASE Publish
  BY <1>12 DEF Publish
<1>13. CASE Ended
  BY <1>13 DEF Ended
<1>14. CASE Return
  BY <1>14 DEF Return, Afresh
<1>15. CASE Crash
  BY <1>15 DEF Crash, Afresh
<1>16. CASE UNCHANGED <<stage, url, known, after, manifest>>
  BY <1>16
<1>17. QED
  BY <1>1, <1>2, <1>3, <1>4, <1>5, <1>6, <1>7, <1>8, <1>9, <1>10, <1>11, <1>12, <1>13,
     <1>14, <1>15, <1>16, InStepFrame

\* The queue gives each fragment to one worker.
LEMMA SharesStep == Consistent /\ [Next]_vars => Shares'
<1> SUFFICES ASSUME Consistent, [Next]_vars PROVE Shares'
  OBVIOUS
<1> USE DEF Consistent, TypeOK, PoolType, PoolIsJoined, Shares, Busy, pool, Goto, Fail
<1>1. CASE Opened
  BY <1>1 DEF Opened, Fetch
<1>2. CASE Mark
  BY <1>2 DEF Mark, Fetch
<1>3. CASE Return
  BY <1>3 DEF Return, Afresh
<1>4. CASE Crash
  BY <1>4 DEF Crash, Afresh
<1>5. ASSUME NEW w \in Worker, Take(w) PROVE Shares'
  <2>1. CASE error # "none" \/ stop \/ todo = {}
    BY <1>5, <2>1 DEF Take
  <2>2. CASE ~(error # "none" \/ stop \/ todo = {})
    <3>1. PICK f \in todo : todo' = todo \ {f} /\ item' = [item EXCEPT ![w] = f]
                            /\ at' = [at EXCEPT ![w] = "ask"]
      BY <1>5, <2>2 DEF Take
    <3>2. QED BY <3>1
  <2>3. QED BY <2>1, <2>2
<1>6. ASSUME NEW w \in Worker, Ask(w) PROVE Shares'
  BY <1>6 DEF Ask
<1>7. ASSUME NEW w \in Worker, Answer(w) PROVE Shares'
  BY <1>7 DEF Answer
<1>8. ASSUME NEW w \in Worker, Changed(w) PROVE Shares'
  BY <1>8 DEF Changed
<1>9. ASSUME NEW w \in Worker, Chunk(w) PROVE Shares'
  BY <1>9 DEF Chunk
<1>10. ASSUME NEW w \in Worker, Complete(w) PROVE Shares'
  BY <1>10 DEF Complete
<1>11. ASSUME NEW w \in Worker, Overlong(w) PROVE Shares'
  BY <1>11 DEF Overlong
<1>12. ASSUME NEW w \in Worker, Refused(w) PROVE Shares'
  BY <1>12 DEF Refused
<1>13. ASSUME NEW w \in Worker, Transient(w) PROVE Shares'
  BY <1>13 DEF Transient
<1>14. ASSUME NEW w \in Worker, Interrupted(w) PROVE Shares'
  BY <1>14 DEF Interrupted
<1>15. ASSUME NEW w \in Worker, Report(w) PROVE Shares'
  BY <1>15 DEF Report
<1>16. CASE UNCHANGED pool
  BY <1>16
<1>17. QED
  BY <1>1, <1>2, <1>3, <1>4, <1>5, <1>6, <1>7, <1>8, <1>9, <1>10, <1>11, <1>12, <1>13,
     <1>14, <1>15, <1>16, PoolFrame

\* What moves a worker or touches the fragments.
LEMMA BodiesFrame == [Next]_vars =>
  \/ Unlink \/ Opened \/ Mark \/ Return \/ Crash
  \/ \E w \in Worker :
       \/ Take(w) \/ Ask(w) \/ Answer(w) \/ Changed(w) \/ Chunk(w) \/ Complete(w)
       \/ Overlong(w) \/ Refused(w) \/ Transient(w) \/ Interrupted(w) \/ Report(w)
  \/ UNCHANGED <<at, item, source, manifest, files>>
BY PoolFrame, DiskFrame DEF pool, disk, Assemble, Replace

\* An answer that is accepted beside a body under way is of the same version.
LEMMA BodiesStep == Consistent /\ [Next]_vars => Bodies'
<1> SUFFICES ASSUME Consistent, [Next]_vars PROVE Bodies'
  OBVIOUS
<1> USE DEF Consistent, TypeOK, PoolType, PoolIsJoined, Bodies, pool, disk, Goto, Forget,
       Fail
<1>1. CASE Unlink
  BY <1>1 DEF Unlink
<1>2. CASE Opened
  BY <1>2 DEF Opened, Fetch
<1>3. CASE Mark
  BY <1>3 DEF Mark, Fetch
<1>4. CASE Return
  BY <1>4 DEF Return, Afresh
<1>5. CASE Crash
  BY <1>5 DEF Crash, Afresh
<1>6. ASSUME NEW w \in Worker, Take(w) PROVE Bodies'
  BY <1>6 DEF Take
<1>7. ASSUME NEW w \in Worker, Ask(w) PROVE Bodies'
  BY <1>7 DEF Ask
<1>8. ASSUME NEW w \in Worker, Answer(w) PROVE Bodies'
  <2> DEFINE v == object[url]
  <2>1. stage = "fetching" /\ url \in Urls /\ item[w] \in Fragments
    BY <1>8 DEF Answer, CallType
  <2>2. v \in Versions /\ UrlOf[v] = url BY <2>1 DEF DiskType
  <2>3. manifest' = Ident(v) /\ item[w] \in files' /\ files \subseteq files'
    BY <1>8, <2>2 DEF Answer, Ident
  <2>4. at' = [at EXCEPT ![w] = "body"] /\ source' = [source EXCEPT ![w] = v] /\ UNCHANGED item
    BY <1>8 DEF Answer
  <2>5. ASSUME NEW x \in Worker, x # w, at[x] = "body" PROVE manifest' = Ident(source[x])
    <3>1. source[x] \in Versions /\ UrlOf[source[x]] = url /\ Header[source[x]] = known
      BY <2>1, <2>5 DEF InStep, Ident
    <3>2. Matches(known, Header[v])
      BY <1>8, <3>1, OfOneObject, RangeAssumption DEF Answer, RangeAssumption
    <3>3. QED BY <2>2, <2>3, <3>1, <3>2, OfOneObject
  <2>6. QED BY <2>3, <2>4, <2>5
<1>9. ASSUME NEW w \in Worker, Changed(w) PROVE Bodies'
  BY <1>9 DEF Changed
<1>10. ASSUME NEW w \in Worker, Chunk(w) PROVE Bodies'
  BY <1>10 DEF Chunk
<1>11. ASSUME NEW w \in Worker, Complete(w) PROVE Bodies'
  BY <1>11 DEF Complete
<1>12. ASSUME NEW w \in Worker, Overlong(w) PROVE Bodies'
  <2>1. \A x \in Worker : x # w /\ at[x] = "body" => item[x] # item[w]
    BY <1>12 DEF Overlong, Shares, Busy
  <2>2. UNCHANGED manifest /\ files' = files \ {item[w]} BY <1>12 DEF Overlong
  <2>3. at' = [at EXCEPT ![w] = "failing"] BY <1>12 DEF Overlong
  <2>4. \A x \in Worker : x # w => item'[x] = item[x] /\ source'[x] = source[x]
    BY <1>12 DEF Overlong
  <2>5. QED BY <2>1, <2>2, <2>3, <2>4
<1>13. ASSUME NEW w \in Worker, Refused(w) PROVE Bodies'
  BY <1>13 DEF Refused
<1>14. ASSUME NEW w \in Worker, Transient(w) PROVE Bodies'
  BY <1>14 DEF Transient
<1>15. ASSUME NEW w \in Worker, Interrupted(w) PROVE Bodies'
  BY <1>15 DEF Interrupted
<1>16. ASSUME NEW w \in Worker, Report(w) PROVE Bodies'
  BY <1>16 DEF Report
<1>17. CASE UNCHANGED <<at, item, source, manifest, files>>
  BY <1>17
<1>18. QED
  BY <1>1, <1>2, <1>3, <1>4, <1>5, <1>6, <1>7, <1>8, <1>9, <1>10, <1>11, <1>12, <1>13,
     <1>14, <1>15, <1>16, <1>17, BodiesFrame

\* A directory that is not torn never was, and no crash found it in removal.
LEMMA TornBefore ==
  Consistent /\ [Next]_vars /\ torn' = 0 => torn = 0 /\ (Crash => stage # "removing")
<1> SUFFICES ASSUME Consistent, [Next]_vars, torn' = 0
             PROVE torn = 0 /\ (Crash => stage # "removing")
  OBVIOUS
<1>1. torn \in Nat BY RangeAssumption DEF RangeAssumption, Consistent, TypeOK, EndType
<1>2. CASE Crash BY <1>1, <1>2 DEF Crash
<1>3. CASE ~Crash
  <2>1. UNCHANGED torn
    BY <1>3 DEF Next, vars, count, Coordinating, Asked, Working, Start, Cancel, Open,
           Unlink,
       Removed, Opened, Probe, ProbeFails, ProbeStops, Mark, Take, Ask, Answer, Changed, Chunk,
       Complete, Overlong, Refused, Transient, Interrupted, Report, Watch, Assemble, Publish,
       Ended, Return, Replace
  <2>2. QED BY <1>3, <2>1
<1>4. QED BY <1>2, <1>3

\* What touches a manifest or bytes, or moves the call.
LEMMA NamedFrame == [Next]_vars =>
  \/ \E u \in Urls : Start(u)
  \/ Open \/ Unlink \/ Removed \/ Opened \/ Probe \/ ProbeFails \/ ProbeStops \/ Mark
  \/ \E w \in Worker : Answer(w) \/ Chunk(w) \/ Overlong(w)
  \/ Assemble \/ Publish \/ Ended \/ Return \/ Crash
  \/ UNCHANGED <<stage, url, probed, manifest, from>>
BY DEF Next, vars, Coordinating, Asked, Working, caller, disk, memory, Cancel, Take, Ask,
       Changed, Complete, Refused, Transient, Interrupted, Report, Watch, Replace

\* The manifest goes on naming the object of all fragments.
LEMMA NamedStep == Consistent /\ [Next]_vars /\ torn' = 0 => Named'
<1> SUFFICES ASSUME Consistent, [Next]_vars, torn' = 0 PROVE Named'
  OBVIOUS
<1>t. torn = 0 /\ (Crash => stage # "removing") BY TornBefore
<1>n. Named /\ Prepared BY <1>t DEF Consistent, Resumable
<1> USE <1>t, <1>n DEF Consistent, TypeOK, CallType, Named, caller, disk, memory
<1>1. ASSUME NEW u \in Urls, Start(u) PROVE Named'
  BY <1>1 DEF Start
<1>2. CASE Open
  BY <1>2 DEF Open
<1>3. CASE Unlink
  BY <1>3 DEF Unlink
<1>4. CASE Removed
  <2>1. \A f \in Fragments : from'[f] = {} BY <1>4 DEF Removed, Kept
  <2>2. QED BY <2>1
<1>5. CASE Opened
  <2>1. UNCHANGED from BY <1>5 DEF Opened
  <2>2. CASE UNCHANGED manifest BY <1>5, <2>1, <2>2 DEF Opened
  <2>3. CASE manifest' = [url |-> url, known |-> known]
    <3>1. ASSUME NEW f \in Fragments, NEW v \in from[f] PROVE manifest = manifest'
      <4>1. manifest = Ident(v) /\ v \in Versions BY <1>5, <3>1 DEF Opened, DiskType
      <4>2. manifest.url \in Urls /\ manifest.known = known /\ manifest.url \in {Absent, url}
        BY <1>5, <4>1, Values DEF Opened, InStep, Ident
      <4>3. manifest.url = url BY <4>2, RangeAssumption DEF RangeAssumption
      <4>4. QED BY <2>3, <4>1, <4>2, <4>3 DEF Ident
    <3>2. QED BY <1>5, <2>1, <3>1 DEF Opened
  <2>4. QED BY <1>5, <2>2, <2>3 DEF Opened, Fetch
<1>6. CASE Probe
  BY <1>6 DEF Probe
<1>7. CASE ProbeFails
  BY <1>7 DEF ProbeFails, Abandon
<1>8. CASE ProbeStops
  BY <1>8 DEF ProbeStops, Abandon
<1>9. CASE Mark
  <2>1. manifest' = [url |-> url, known |-> probed] /\ UNCHANGED from BY <1>9 DEF Mark, Fetch
  <2>2. QED BY <1>9, <2>1 DEF Mark, Prepared
<1>10. ASSUME NEW w \in Worker, Answer(w) PROVE Named'
  <2> DEFINE v == object[url]
  <2>1. stage = "fetching" /\ url \in Urls BY <1>10 DEF Answer, PoolIsJoined
  <2>2. v \in Versions /\ UrlOf[v] = url BY <2>1 DEF DiskType
  <2>3. manifest' = Ident(v) /\ UNCHANGED <<stage, from>> BY <1>10, <2>2 DEF Answer, Ident
  <2>4. ASSUME NEW f \in Fragments, NEW x \in from[f] PROVE x = v
    <3>1. x \in Versions /\ UrlOf[x] = url /\ Header[x] = known
      BY <2>1, <2>4 DEF DiskType, InStep, Ident
    <3>2. Matches(known, Header[v]) BY <1>10, <3>1, RangeAssumption DEF Answer, RangeAssumption
    <3>3. QED BY <2>2, <3>1, <3>2, OfOneObject
  <2>5. QED BY <2>3, <2>4
<1>11. ASSUME NEW w \in Worker, Chunk(w) PROVE Named'
  <2>1. stage = "fetching" /\ manifest = Ident(source[w])
    BY <1>11 DEF Chunk, PoolIsJoined, Bodies
  <2>2. from' = [from EXCEPT ![item[w]] = from[item[w]] \cup {source[w]}] /\ UNCHANGED manifest
    BY <1>11 DEF Chunk
  <2>3. \A f \in Fragments : from'[f] \subseteq from[f] \cup {source[w]} BY <2>2 DEF DiskType
  <2>4. QED BY <2>1, <2>2, <2>3
<1>12. ASSUME NEW w \in Worker, Overlong(w) PROVE Named'
  <2>1. stage = "fetching" /\ UNCHANGED manifest BY <1>12 DEF Overlong, PoolIsJoined
  <2>2. \A f \in Fragments : from'[f] \subseteq from[f] BY <1>12 DEF Overlong, DiskType
  <2>3. QED BY <2>1, <2>2
<1>13. CASE Assemble
  BY <1>13 DEF Assemble, Abandon
<1>14. CASE Publish
  BY <1>14 DEF Publish
<1>15. CASE Ended
  BY <1>15 DEF Ended
<1>16. CASE Return
  BY <1>16 DEF Return, Afresh
<1>17. CASE Crash
  BY <1>17 DEF Crash, Afresh
<1>18. CASE UNCHANGED <<stage, url, probed, manifest, from>>
  BY <1>18
<1>19. QED
  BY <1>1, <1>2, <1>3, <1>4, <1>5, <1>6, <1>7, <1>8, <1>9, <1>10, <1>11, <1>12, <1>13,
     <1>14, <1>15, <1>16, <1>17, <1>18, NamedFrame

\* The probe lets the fragments of its own object alone.
LEMMA PreparedStep == Consistent /\ [Next]_vars /\ torn' = 0 => Prepared'
<1> SUFFICES ASSUME Consistent, [Next]_vars, torn' = 0 PROVE Prepared'
  OBVIOUS
<1>t. torn = 0 /\ (Crash => stage # "removing") BY TornBefore
<1>n. Named /\ Prepared BY <1>t DEF Consistent, Resumable
<1> USE <1>t, <1>n DEF Consistent, TypeOK, CallType, Prepared, caller, disk, memory
<1>1. ASSUME NEW u \in Urls, Start(u) PROVE Prepared'
  BY <1>1 DEF Start
<1>2. CASE Open
  BY <1>2 DEF Open
<1>3. CASE Unlink
  BY <1>3 DEF Unlink
<1>4. CASE Removed
  <2>1. \A f \in Fragments : from'[f] = {} BY <1>4 DEF Removed, Kept
  <2>2. QED BY <2>1
<1>5. CASE Opened
  BY <1>5 DEF Opened, Fetch
<1>6. CASE Probe
  <2> DEFINE now == object[url]
  <2>1. now \in Versions /\ UrlOf[now] = url BY <1>6 DEF Probe, DiskType
  <2>2. probed' = Header[now] /\ UNCHANGED <<url, from>> BY <1>6 DEF Probe
  <2>3. stage' = "marking" => files = {} \/ Matches(known, Header[now]) BY <1>6 DEF Probe
  <2>4. ASSUME stage' = "marking", NEW f \in Fragments, NEW v \in from[f] PROVE v = now
    <3>1. files # {} BY <2>4 DEF Kept
    <3>2. manifest = Ident(v) /\ v \in Versions BY <1>6, <2>4 DEF Probe, Named, DiskType
    <3>3. manifest.url \in Urls /\ manifest.known = known /\ manifest.url \in {Absent, url}
      BY <1>6, <3>2, Values DEF Probe, InStep, Ident
    <3>4. manifest.url = url BY <3>3, RangeAssumption DEF RangeAssumption
    <3>5. QED BY <2>1, <2>3, <2>4, <3>1, <3>2, <3>3, <3>4, OfOneObject DEF Ident
  <2>5. QED BY <2>1, <2>2, <2>4 DEF Ident
<1>7. CASE ProbeFails
  BY <1>7 DEF ProbeFails, Abandon
<1>8. CASE ProbeStops
  BY <1>8 DEF ProbeStops, Abandon
<1>9. CASE Mark
  BY <1>9 DEF Mark, Fetch
<1>10. ASSUME NEW w \in Worker, Answer(w) PROVE Prepared'
  <2>1. stage' = "fetching" BY <1>10 DEF Answer, PoolIsJoined
  <2>2. QED BY <2>1
<1>11. ASSUME NEW w \in Worker, Chunk(w) PROVE Prepared'
  <2>1. stage' = "fetching" BY <1>11 DEF Chunk, PoolIsJoined
  <2>2. QED BY <2>1
<1>12. ASSUME NEW w \in Worker, Overlong(w) PROVE Prepared'
  <2>1. stage' = "fetching" BY <1>12 DEF Overlong, PoolIsJoined
  <2>2. QED BY <2>1
<1>13. CASE Assemble
  BY <1>13 DEF Assemble, Abandon
<1>14. CASE Publish
  BY <1>14 DEF Publish
<1>15. CASE Ended
  BY <1>15 DEF Ended
<1>16. CASE Return
  BY <1>16 DEF Return, Afresh
<1>17. CASE Crash
  BY <1>17 DEF Crash, Afresh
<1>18. CASE UNCHANGED <<stage, url, probed, manifest, from>>
  BY <1>18
<1>19. QED
  BY <1>1, <1>2, <1>3, <1>4, <1>5, <1>6, <1>7, <1>8, <1>9, <1>10, <1>11, <1>12, <1>13,
     <1>14, <1>15, <1>16, <1>17, <1>18, NamedFrame

\* Only Assemble writes the output, from fragments of the manifest's object.
LEMMA OutputStep == Consistent /\ [Next]_vars => OutputIsOneVersion'
<1> SUFFICES ASSUME Consistent, [Next]_vars, torn' = 0 PROVE \A v, w \in output' : v = w
  BY DEF OutputIsOneVersion
<1>1. torn = 0 BY TornBefore
<1>2. CASE UNCHANGED output BY <1>1, <1>2 DEF Consistent, OutputIsOneVersion
<1>3. CASE Assemble /\ output' = UNION {from[f] : f \in Fragments}
  <2>1. \A v \in output' : v \in Versions /\ manifest = Ident(v)
    BY <1>1, <1>3 DEF Assemble, Consistent, TypeOK, DiskType, Resumable, Named
  <2>2. QED BY <2>1, OfOneObject
<1>4. QED
  BY <1>2, <1>3, DiskFrame
     DEF disk, Unlink, Opened, Mark, Assemble, Answer, Chunk, Overlong, Replace

\* The invariant holds at first, and each step of a transfer keeps it.
LEMMA InitConsistent == Init => Consistent
<1> SUFFICES ASSUME Init PROVE Consistent
  OBVIOUS
<1>1. TypeOK
  BY TypeInit
<1>2. Kept /\ InStep /\ Shares /\ Bodies /\ Resumable /\ OutputIsOneVersion
  BY DEF Init, Resting, Kept, InStep, Shares, Busy, Bodies, Resumable, Named, Prepared,
         OutputIsOneVersion
<1> QED BY <1>1, <1>2 DEF Consistent

LEMMA ConsistentStep == Consistent /\ [Next]_vars => Consistent'
<1> SUFFICES ASSUME Consistent, [Next]_vars PROVE Consistent'
  OBVIOUS
<1>1. TypeOK'
  BY TypeStep DEF Consistent
<1>2. Resumable'
  BY NamedStep, PreparedStep DEF Resumable
<1> QED BY <1>1, <1>2, KeptStep, InStepStep, SharesStep, BodiesStep, OutputStep
           DEF Consistent

\* However often a transfer was cancelled, failed, or died with its process, was
\* resumed against the same server or another, with its object replaced in
\* between, by however many workers: the file it assembles is of one version of
\* one object, unless a crash cut a removal of its directory short.
THEOREM ResumedOutputIsOneVersion == Spec => []OutputIsOneVersion
<1>1. Consistent => OutputIsOneVersion
  BY DEF Consistent
<1> QED BY <1>1, InitConsistent, ConsistentStep, PTL DEF Spec

-----------------------------------------------------------------------------
(* What a transfer says of its failures.  No error of a worker is lost     *)
(* before its report, and a flag without a failure is a cancel.            *)

\* No worker of this transfer can have failed yet.
Early ==
  \/ stage \in {"idle", "open", "opened", "probing", "marking"}
  \/ stage = "removing" /\ after # "returning"

\* A worker that failed has raised the flag, and one that is over has had its say.
FaultOf(w) ==
  /\ fault[w] # "none" => at[w] \in {"failing", "over"} /\ stop
  /\ at[w] = "failing" => fault[w] # "none"
  /\ at[w] = "over" =>
       /\ fault[w] # "none" => error # "none"
       /\ fault[w] = "changed" => error = "changed"
       /\ fault[w] = "unavailable" => error \in {"changed", "unavailable"}

\* The flag is raised by a cancel or by a failure that is none.
StopHasReason ==
  stop => cancelled \/ \E w \in Worker : fault[w] \in {"changed", "unavailable"}

Reported ==
  /\ \A w \in Worker : FaultOf(w)
  /\ closed \/ error = "cancelled" => stop
  /\ StopHasReason
  /\ Early => error = "none" /\ \A w \in Worker : fault[w] = "none"
  /\ stage \in {"idle", "open"} => ~stop
  /\ stage = "published" => error = "none"

\* A worker ends with an error.
LEMMA FailReported ==
  ASSUME TypeOK, Reported, NEW w \in Worker, NEW how \in {"cancelled", "changed", "unavailable"},
         Fail(w, how), at[w] \notin {"over", "failing"},
         how = "cancelled" => Stopping \/ closed,
         UNCHANGED <<stage, after, cancelled, closed, error>>
  PROVE  Reported'
<1> USE DEF TypeOK, PoolType, EndType, Fail, Goto
<1>1. stage = "fetching" /\ fault[w] = "none"
  BY DEF PoolIsJoined, Reported, FaultOf
<1>2. /\ fault' = [fault EXCEPT ![w] = how] /\ stop' = TRUE
      /\ at' = [at EXCEPT ![w] = "failing"]
  OBVIOUS
<1>3. ASSUME NEW x \in Worker PROVE FaultOf(x)'
  BY <1>2 DEF Reported, FaultOf
<1>4. StopHasReason'
  <2>1. CASE how \in {"changed", "unavailable"}
    BY <1>2, <2>1 DEF StopHasReason
  <2>2. CASE how = "cancelled"
    <3>1. cancelled \/ \E x \in Worker : fault[x] \in {"changed", "unavailable"}
      BY <2>2 DEF Reported, StopHasReason, Stopping
    <3> QED BY <1>1, <1>2, <3>1 DEF StopHasReason
  <2> QED BY <2>1, <2>2
<1> QED BY <1>1, <1>2, <1>3, <1>4 DEF Reported, Early

\* A worker goes on, or finds nothing to do.
LEMMA QuietReported ==
  ASSUME TypeOK, Reported, NEW w \in Worker, NEW place \in {"over", "pull", "ask", "wait", "body"},
         at[w] \notin {"over", "failing"}, at' = [at EXCEPT ![w] = place],
         UNCHANGED <<stage, after, cancelled, fault, stop, closed, error>>
  PROVE  Reported'
<1>1. stage = "fetching" /\ fault[w] = "none"
  BY DEF TypeOK, PoolType, PoolIsJoined, Reported, FaultOf
<1>2. ASSUME NEW x \in Worker PROVE FaultOf(x)'
  BY <1>1 DEF TypeOK, PoolType, Reported, FaultOf
<1> QED BY <1>1, <1>2 DEF Reported, Early, StopHasReason

\* Nothing of this happens.
LEMMA SameReported ==
  ASSUME Reported, UNCHANGED <<stage, after, cancelled, fault, at, stop, closed, error>>
  PROVE  Reported'
BY DEF Reported, FaultOf, StopHasReason, Early

\* What a worker does.
LEMMA WorkerReported ==
  ASSUME TypeOK, Reported, NEW w \in Worker, Asked(w) \/ Working(w)
  PROVE  Reported'
<1> USE DEF caller, memory, ending, Goto
<1>1. CASE Take(w)
  <2>1. \E place \in {"over", "ask"} : at' = [at EXCEPT ![w] = place]
    BY <1>1 DEF Take
  <2> QED BY <1>1, <2>1, QuietReported DEF Take
<1>2. CASE Ask(w)
  BY <1>2, FailReported, QuietReported DEF Ask
<1>3. CASE Answer(w)
  BY <1>3, QuietReported DEF Answer
<1>4. CASE Changed(w)
  BY <1>4, FailReported DEF Changed
<1>5. CASE Chunk(w)
  <2>1. CASE Stopping
    BY <1>5, <2>1, FailReported DEF Chunk
  <2>2. CASE ~Stopping
    BY <1>5, <2>2, SameReported DEF Chunk
  <2> QED BY <2>1, <2>2
<1>6. CASE Complete(w)
  BY <1>6, QuietReported DEF Complete
<1>7. CASE Overlong(w)
  BY <1>7, FailReported DEF Overlong
<1>8. CASE Refused(w)
  BY <1>8, FailReported DEF Refused
<1>9. CASE Transient(w)
  <2>1. at[w] \notin {"over", "failing"} /\ UNCHANGED <<stage, after, cancelled, closed, error>>
    BY <1>9 DEF Transient
  <2>2. \/ (stop /\ Fail(w, "cancelled")) \/ Fail(w, "unavailable")
        \/ at' = [at EXCEPT ![w] = "ask"] /\ UNCHANGED <<fault, stop>>
    BY <1>9 DEF Transient
  <2> QED BY <2>1, <2>2, FailReported, QuietReported DEF Stopping
<1>10. CASE Interrupted(w)
  BY <1>10, FailReported DEF Interrupted
<1>11. CASE Report(w)
  <2>1. /\ at[w] = "failing" /\ at' = [at EXCEPT ![w] = "over"] /\ closed' = TRUE
        /\ error' = IF error \in {"none", "cancelled"} \/ fault[w] = "changed"
                    THEN fault[w] ELSE error
        /\ UNCHANGED <<stage, after, cancelled, fault, stop>>
    BY <1>11 DEF Report
  <2>2. stage = "fetching" /\ fault[w] # "none" /\ stop
    BY <2>1 DEF TypeOK, PoolType, PoolIsJoined, Reported, FaultOf
  <2>3. ASSUME NEW x \in Worker PROVE FaultOf(x)'
    BY <2>1, <2>2 DEF TypeOK, PoolType, EndType, Reported, FaultOf
  <2> QED BY <2>1, <2>2, <2>3 DEF Reported, StopHasReason, Early
<1> QED
  BY <1>1, <1>2, <1>3, <1>4, <1>5, <1>6, <1>7, <1>8, <1>9, <1>10, <1>11 DEF Asked, Working

\* A transfer starts with no failure, and with no flag.
LEMMA AfreshReported ==
  ASSUME Afresh, stage' \in {"idle", "open"}
  PROVE  Reported'
BY DEF Afresh, Reported, FaultOf, StopHasReason, Early

\* Workers start when nothing has failed yet.
LEMMA FetchReported ==
  ASSUME TypeOK, Reported, Early, NEW identity, NEW n, Fetch(identity, n),
         UNCHANGED <<cancelled, fault, stop, closed, error>>
  PROVE  Reported'
<1>1. stage' = "fetching" /\ \A w \in Worker : at'[w] \in {"over", "pull"}
  BY DEF Fetch
<1>2. error = "none" /\ \A w \in Worker : fault[w] = "none"
  BY DEF Reported
<1> QED BY <1>1, <1>2 DEF Reported, FaultOf, StopHasReason, Early

\* The call moves on while its workers are over.
LEMMA MoveReported ==
  ASSUME TypeOK, Reported, UNCHANGED <<cancelled, fault, at, stop, closed, error>>,
         Early' => Early \/ (error = "none" /\ \A w \in Worker : fault[w] = "none"),
         stage' \in {"idle", "open"} => ~stop, stage' = "published" => error = "none"
  PROVE  Reported'
BY DEF Reported, FaultOf, StopHasReason

\* What the coordinating thread does.
LEMMA CallReported ==
  ASSUME TypeOK, Reported, Coordinating \/ Probe \/ ProbeFails
  PROVE  Reported'
<1> USE DEF caller, memory, pool, ending
<1>1. CASE Open
  <2>1. Early BY <1>1 DEF Open, Early
  <2> QED BY <1>1, <2>1, MoveReported DEF Open
<1>2. CASE Unlink
  BY <1>2, SameReported DEF Unlink
<1>3. CASE Removed
  <2>1. stage' # "published" /\ stage' \notin {"idle", "open"} /\ (Early' => Early)
    BY <1>3 DEF Removed, Early, TypeOK, CallType
  <2> QED BY <1>3, <2>1, MoveReported DEF Removed
<1>4. CASE Opened
  <2>1. Early BY <1>4 DEF Opened, Early
  <2>2. CASE Fetch(known, workers)
    BY <1>4, <2>1, <2>2, FetchReported DEF Opened
  <2>3. CASE stage' = "probing" /\ UNCHANGED <<manifest, known, workers, after, todo, at>>
    BY <1>4, <2>1, <2>3, MoveReported DEF Opened
  <2> QED BY <1>4, <2>2, <2>3 DEF Opened
<1>5. CASE ProbeStops
  <2>1. Early BY <1>5 DEF ProbeStops, Early
  <2>2. \A w \in Worker : fault[w] = "none" BY <2>1 DEF Reported
  <2> QED
    BY <1>5, <2>2 DEF ProbeStops, Abandon, Reported, FaultOf, StopHasReason, Early
<1>6. CASE Mark
  <2>1. Early BY <1>6 DEF Mark, Early
  <2> QED BY <1>6, <2>1, FetchReported DEF Mark
<1>7. CASE Assemble
  <2>1. stage = "fetching" /\ UNCHANGED <<cancelled, fault, at, closed>>
    BY <1>7 DEF Assemble
  <2>2. \A w \in Worker : at[w] = "over"
    BY <1>7 DEF Assemble
  <2>3. CASE error # "none" /\ stage' = "ended" /\ UNCHANGED <<error, stop>>
    BY <2>1, <2>3, MoveReported DEF Early
  <2>4. CASE /\ error = "none" /\ stage' \in {"ended", "published"}
             /\ \/ Stopping /\ error' = "cancelled" /\ stop' = TRUE /\ stage' = "ended"
                \/ error' = "unavailable" /\ stop' = stop /\ stage' = "ended"
                \/ error' = "none" /\ stop' = stop
    <3>1. \A w \in Worker : fault[w] = "none"
      BY <2>2, <2>4 DEF Reported, FaultOf
    <3>2. stop => cancelled
      BY <3>1 DEF Reported, StopHasReason
    <3> QED
      BY <2>1, <2>4, <3>1, <3>2
      DEF Reported, FaultOf, StopHasReason, Early, Stopping
  <2> QED BY <1>7, <2>3, <2>4 DEF Assemble, Abandon
<1>8. CASE Publish
  <2>1. error = "none" /\ \A w \in Worker : at[w] = "over"
    BY <1>8 DEF Publish, Reported, TypeOK, PoolIsJoined
  <2>2. \A w \in Worker : fault[w] = "none"
    BY <2>1 DEF Reported, FaultOf
  <2>3. stop => cancelled
    BY <2>2 DEF Reported, StopHasReason
  <2> QED
    BY <1>8, <2>2, <2>3
    DEF Publish, Reported, FaultOf, StopHasReason, Early, Stopping, TypeOK, EndType
<1>9. CASE Ended
  <2>1. stage' # "published" /\ stage' \notin {"idle", "open"} /\ ~Early'
    BY <1>9 DEF Ended, Early
  <2> QED BY <1>9, <2>1, MoveReported DEF Ended
<1>10. CASE Return
  BY <1>10, AfreshReported DEF Return
<1>11. CASE Probe
  <2>1. Early BY <1>11 DEF Probe, Early
  <2> QED BY <1>11, <2>1, MoveReported DEF Probe
<1>12. CASE ProbeFails
  <2>1. Early BY <1>12 DEF ProbeFails, Early
  <2>2. \A w \in Worker : fault[w] = "none" BY <2>1 DEF Reported
  <2> QED
    BY <1>12, <2>2 DEF ProbeFails, Abandon, Reported, FaultOf, StopHasReason, Early
<1> QED
  BY <1>1, <1>2, <1>3, <1>4, <1>5, <1>6, <1>7, <1>8, <1>9, <1>10, <1>11, <1>12
  DEF Coordinating

LEMMA ReportedStep ==
  ASSUME TypeOK, Reported, [Next]_vars
  PROVE  Reported'
<1> USE DEF caller, memory, pool, ending
<1>1. ASSUME NEW u \in Urls, Start(u) PROVE Reported'
  <2>1. /\ stage = "idle" /\ stage' = "open" /\ UNCHANGED <<fault, at, stop, closed, error>>
        /\ ~stop
    BY <1>1 DEF Start, Reported
  <2> QED BY <2>1 DEF Reported, FaultOf, StopHasReason, Early
<1>2. CASE Cancel
  BY <1>2 DEF Cancel, Reported, FaultOf, StopHasReason, Early
<1>3. CASE Watch
  <2>1. stop' = TRUE /\ UNCHANGED <<stage, after, cancelled, fault, at, error>>
    BY <1>3 DEF Watch
  <2>2. StopHasReason'
    BY <1>3, <2>1 DEF Watch, Stopping, Reported, StopHasReason
  <2>3. stage \notin {"idle", "open"}
    BY <1>3 DEF Watch
  <2> QED BY <2>1, <2>2, <2>3 DEF Reported, FaultOf, Early
<1>4. CASE Crash
  BY <1>4, AfreshReported DEF Crash
<1>5. ASSUME NEW v \in Versions, Replace(v) PROVE Reported'
  BY <1>5, SameReported DEF Replace
<1>6. CASE UNCHANGED vars
  BY <1>6, SameReported DEF vars
<1> QED
  BY <1>1, <1>2, <1>3, <1>4, <1>5, <1>6, WorkerReported, CallReported DEF Next

\* With every worker over, the worst fault has reached the error.
LEMMA ReportedSuffices == TypeOK /\ Reported => WorstErrorWins
<1> SUFFICES ASSUME TypeOK, Reported, stage \in {"ended", "returning"}
             PROVE  /\ (\E w \in Worker : fault[w] = "changed") => error = "changed"
                    /\ error = "cancelled" => cancelled
  BY DEF WorstErrorWins
<1>1. \A w \in Worker : at[w] = "over"
  BY DEF TypeOK, PoolIsJoined
<1>2. ASSUME error = "cancelled" PROVE cancelled
  <2>1. stop
    BY <1>2 DEF Reported
  <2>2. \A w \in Worker : fault[w] \notin {"changed", "unavailable"}
    BY <1>1, <1>2 DEF Reported, FaultOf
  <2> QED BY <2>1, <2>2 DEF Reported, StopHasReason
<1> QED BY <1>1, <1>2 DEF Reported, FaultOf

\* A changed object is what the transfer reports, whichever worker reports last, and
\* it reports a cancel only of a call that was cancelled.
THEOREM WorstErrorIsReported == Spec => []WorstErrorWins
<1>1. Init => Reported
  BY DEF Init, Resting, Reported, FaultOf, StopHasReason, Early
<1>2. TypeOK /\ Reported /\ [Next]_vars => Reported'
  BY ReportedStep
<1> QED BY <1>1, <1>2, ReportedSuffices, TypeCorrect, PTL DEF Spec

-----------------------------------------------------------------------------
(* The transfer implements DownloadService.  What it publishes was served  *)
(* while the call was under way, because fragments of earlier calls are    *)
(* only used once a probe of this call has found their object still there. *)

\* A call has a server, and has seen what that server serves; so is what its workers read.
Vouched ==
  /\ stage = "idle" <=> url = Absent
  /\ served \subseteq Versions /\ (url = Absent => served = {})
  /\ url # Absent => object[url] \in served
  /\ \A w \in Worker : at[w] = "body" => source[w] \in served

\* The identity about to be written down is of a version this call has seen, and so are
\* the fragments its workers add to.
Marking == stage = "marking" \/ (stage = "removing" /\ after = "marking")
Checked == torn = 0 =>
  /\ Marking => \E v \in served : Ident(v) = [url |-> url, known |-> probed]
  /\ stage = "fetching" => \A f \in Fragments : from[f] \subseteq served

\* Bytes have come from somewhere.
Written == \A f \in Fragments : size[f] # 0 => from[f] # {}

\* The output appears at the end of a call, and what the call says of it is true.
Finished == stage = "returning" \/ (stage = "removing" /\ after = "returning")
Results ==
  /\ output # {} => stage \in {"idle", "published"} \/ Finished
  /\ stage = "ended" => error # "none"
  /\ stage = "published" => output # {}
  /\ Finished =>
       /\ error = "none" => output # {}
       /\ error \in {"changed", "unavailable"} => output = {}

ServiceInv == Vouched /\ Checked /\ Written /\ Results

-----------------------------------------------------------------------------
\* Who starts to read a body, and where a call begins and ends.
Others ==
  /\ UNCHANGED url /\ (stage' = "idle" <=> stage = "idle")
  /\ \A w \in Worker : at'[w] = "body" => at[w] = "body" /\ source'[w] = source[w]

LEMMA VouchedFrame == ASSUME TypeOK, Next PROVE
  \/ \E u \in Urls : Start(u)
  \/ Return \/ Crash
  \/ \E w \in Worker : Answer(w)
  \/ Others
<1> USE DEF Others
<1>1. ASSUME NEW w \in Worker, Asked(w) \/ Working(w), ~Answer(w) PROVE Others
  <2>1. UNCHANGED <<stage, url>>
    BY <1>1 DEF Asked, Working, Take, Ask, Changed, Chunk, Complete, Overlong, Refused,
           Transient, Interrupted, Report, caller
  <2>2. \/ UNCHANGED <<at, source>>
        \/ \E place \in {"over", "pull", "ask", "wait", "failing"} :
             at' = [at EXCEPT ![w] = place] /\ source' \in {source, [source EXCEPT ![w] = Absent]}
    BY <1>1 DEF Asked, Working, Take, Ask, Changed, Chunk, Complete, Overlong, Refused,
           Transient, Interrupted, Report, Goto, Fail, Forget
  <2> QED BY <2>1, <2>2 DEF TypeOK, PoolType
<1>2. CASE Opened \/ Mark
  <2>1. /\ UNCHANGED url /\ stage # "idle" /\ stage' # "idle" /\ UNCHANGED source
        /\ \/ UNCHANGED at
           \/ \E n : at' = [w \in Worker |-> IF w <= n THEN "pull" ELSE "over"]
    BY <1>2 DEF Opened, Mark, Fetch
  <2> QED BY <2>1
<1>3. CASE \/ Cancel \/ Open \/ Unlink \/ Removed \/ Probe \/ ProbeFails \/ ProbeStops
           \/ Watch \/ Assemble \/ Publish \/ Ended
  BY <1>3 DEF Cancel, Open, Unlink, Removed, Probe, ProbeFails, ProbeStops, Watch, Assemble,
         Publish, Ended, Abandon, caller, pool, TypeOK, CallType
<1>4. ASSUME NEW v \in Versions, Replace(v) PROVE Others
  BY <1>4 DEF Replace, caller, pool
<1> QED BY <1>1, <1>2, <1>3, <1>4 DEF Next, Coordinating

\* A call goes on seeing what its server serves (Transfer::run, requests.rs).
LEMMA VouchedStep == Consistent /\ Vouched /\ DownloadNext => Vouched'
<1> SUFFICES ASSUME Consistent, Vouched, Next, Witnessed PROVE Vouched'
  BY DEF DownloadNext
<1>0. TypeOK /\ TypeOK'
  BY TypeStep DEF Consistent
<1>1. ASSUME NEW u \in Urls, Start(u) PROVE Vouched'
  <2>1. u # Absent /\ \A w \in Worker : at[w] # "body"
    BY <1>0, <1>1, RangeAssumption DEF Start, TypeOK, PoolIsJoined, RangeAssumption
  <2>2. /\ stage' = "open" /\ url' = u /\ UNCHANGED <<object, at>>
        /\ served = {} /\ object[u] \in Versions
    BY <1>0, <1>1 DEF Start, Vouched, TypeOK, DiskType, pool
  <2> QED BY <2>1, <2>2 DEF Vouched, Witnessed
<1>2. ASSUME UNCHANGED url, stage' = "idle" <=> stage = "idle",
             \A w \in Worker : at'[w] = "body" => source'[w] \in served \cup {object'[url]}
      PROVE  Vouched'
  <2>1. url # Absent => object'[url] \in Versions
    BY <1>0, <1>2 DEF TypeOK, CallType, DiskType
  <2>2. url = Absent => \A w \in Worker : at'[w] # "body"
    BY <1>0, <1>2 DEF Vouched, TypeOK, PoolIsJoined
  <2> QED BY <1>2, <2>1, <2>2 DEF Vouched, Witnessed
<1>3. CASE Return \/ Crash
  <2>1. /\ \A w \in Worker : at'[w] = "over"
        /\ \/ stage' = "idle" /\ url' = Absent
           \/ stage # "idle" /\ stage' = "open" /\ UNCHANGED url
    BY <1>3 DEF Return, Crash, Afresh
  <2>2. CASE stage' = "idle" /\ url' = Absent
    BY <2>1, <2>2 DEF Vouched, Witnessed
  <2> QED BY <1>2, <2>1, <2>2
<1>4. ASSUME NEW w \in Worker, Answer(w) PROVE Vouched'
  <2>1. /\ UNCHANGED <<object, url, stage>>
        /\ at' = [at EXCEPT ![w] = "body"] /\ source' = [source EXCEPT ![w] = object[url]]
    BY <1>4 DEF Answer, caller, Goto
  <2> QED BY <1>0, <1>2, <2>1 DEF Vouched, TypeOK, PoolType
<1>5. CASE Others
  BY <1>2, <1>5 DEF Vouched, Others
<1> QED BY <1>0, <1>1, <1>3, <1>4, <1>5, VouchedFrame
\* What writes down an identity, hands the fragments to workers or adds to them.
LEMMA CheckedFrame == Next =>
  \/ \E u \in Urls : Start(u)
  \/ Open \/ Removed \/ Opened \/ Probe \/ ProbeFails \/ ProbeStops \/ Mark
  \/ \E w \in Worker : Chunk(w) \/ Overlong(w)
  \/ Assemble \/ Publish \/ Ended \/ Return \/ Crash
  \/ Unlink
  \/ UNCHANGED <<stage, url, probed, after, from>>
BY DEF Next, Coordinating, Asked, Working, caller, disk, memory, Cancel, Take, Ask, Answer,
       Changed, Complete, Refused, Transient, Interrupted, Report, Watch, Replace

\* Fragments of earlier calls are used after a probe of this one (Transfer::run).
LEMMA CheckedStep == Consistent /\ Vouched /\ Checked /\ DownloadNext => Checked'
<1> SUFFICES ASSUME Consistent, Vouched, Checked, Next, Witnessed, torn' = 0
             PROVE  /\ Marking' => \E v \in served' : Ident(v) = [url |-> url', known |-> probed']
                    /\ stage' = "fetching" => \A f \in Fragments : from'[f] \subseteq served'
  BY DEF DownloadNext, Checked, Ident
<1>t. torn = 0 /\ TypeOK /\ TypeOK'
  BY TornBefore, TypeStep DEF Consistent
<1>n. Named /\ Prepared /\ Kept
  BY <1>t DEF Consistent, Resumable
<1>g. url' = url => served \subseteq served'
  BY DEF Vouched, Witnessed
<1> USE <1>t DEF TypeOK, CallType, caller, memory, disk
<1>1. ASSUME NEW u \in Urls, Start(u) PROVE ~Marking' /\ stage' # "fetching"
  BY <1>1 DEF Start, Marking
<1>2. CASE Open
  BY <1>2 DEF Open, Marking
<1>3. CASE Removed
  BY <1>3, <1>g DEF Removed, Marking, Checked
<1>4. CASE Unlink
  BY <1>4, <1>g DEF Unlink, Marking, Checked
<1>5. CASE Opened
  <2>1. ~Marking' /\ UNCHANGED from
    BY <1>5 DEF Opened, Fetch, Marking
  <2>2. ASSUME stage' = "fetching", NEW f \in Fragments, NEW v \in from[f] PROVE FALSE
    <3>1. files # {} /\ stage = "opened"
      BY <1>5, <1>n, <2>2 DEF Opened, Kept
    <3>2. known = Nothing
      BY <1>5, <2>2, <3>1 DEF Opened
    <3>3. manifest = Ident(v) /\ v \in Versions /\ manifest.known = known
      BY <1>n, <2>2, <3>1 DEF Named, DiskType, Consistent, InStep
    <3> QED BY <3>2, <3>3, RangeAssumption DEF Ident, RangeAssumption
  <2> QED BY <2>1, <2>2
<1>6. CASE Probe
  <2> DEFINE now == object[url]
  <2>1. now \in served /\ now \in Versions /\ UrlOf[now] = url
    BY <1>6, RangeAssumption DEF Probe, Vouched, DiskType, RangeAssumption
  <2>2. probed' = Header[now] /\ UNCHANGED url /\ stage' # "fetching"
    BY <1>6 DEF Probe
  <2> QED BY <1>g, <2>1, <2>2 DEF Ident
<1>7. CASE ProbeFails \/ ProbeStops
  BY <1>7 DEF ProbeFails, ProbeStops, Abandon, Marking
<1>8. CASE Mark
  <2>1. stage = "marking" /\ ~Marking' /\ UNCHANGED <<url, from>>
    BY <1>8 DEF Mark, Fetch, Marking
  <2>2. PICK x \in served : Ident(x) = [url |-> url, known |-> probed]
    BY <2>1 DEF Checked, Marking
  <2>3. ASSUME NEW f \in Fragments, NEW v \in from[f] PROVE v = x
    BY <1>n, <2>1, <2>2, OfOneObject DEF Prepared, DiskType, Vouched
  <2> QED BY <1>g, <2>1, <2>3
<1>9. ASSUME NEW w \in Worker, Chunk(w)
      PROVE  ~Marking' /\ UNCHANGED url /\ \A f \in Fragments : from'[f] \subseteq served'
  <2>1. stage = "fetching" /\ UNCHANGED <<stage, url>> /\ source[w] \in served
    BY <1>9 DEF Chunk, PoolIsJoined, Vouched
  <2>2. from' = [from EXCEPT ![item[w]] = from[item[w]] \cup {source[w]}]
    BY <1>9 DEF Chunk
  <2> QED BY <1>g, <2>1, <2>2 DEF Checked, Marking, DiskType
<1>10. ASSUME NEW w \in Worker, Overlong(w)
       PROVE  ~Marking' /\ UNCHANGED url /\ \A f \in Fragments : from'[f] \subseteq served'
  <2>1. stage = "fetching" /\ UNCHANGED <<stage, url>>
    BY <1>10 DEF Overlong, PoolIsJoined
  <2>2. from' = [from EXCEPT ![item[w]] = {}]
    BY <1>10 DEF Overlong
  <2> QED BY <1>g, <2>1, <2>2 DEF Checked, Marking, DiskType
<1>11. CASE Assemble \/ Publish \/ Ended
  BY <1>11 DEF Assemble, Publish, Ended, Abandon, Marking
<1>12. CASE Return \/ Crash
  BY <1>12 DEF Return, Crash, Afresh, Marking
<1>13. CASE UNCHANGED <<stage, url, probed, after, from>>
  BY <1>13, <1>g DEF Checked, Marking
<1> QED
  BY <1>1, <1>2, <1>3, <1>4, <1>5, <1>6, <1>7, <1>8, <1>9, <1>10, <1>11, <1>12, <1>13,
     CheckedFrame

\* A fragment that has grown has the version it was read from (requests.rs).
LEMMA WrittenStep == TypeOK /\ Written /\ Next => Written'
<1> SUFFICES ASSUME TypeOK, Written, Next PROVE Written'
  OBVIOUS
<1> USE DEF TypeOK, DiskType, Written
<1>1. CASE Unlink
  BY <1>1 DEF Unlink
<1>2. ASSUME NEW w \in Worker, Chunk(w) PROVE Written'
  <2>1. from' = [from EXCEPT ![item[w]] = from[item[w]] \cup {source[w]}]
    BY <1>2 DEF Chunk
  <2>2. size' = [size EXCEPT ![item[w]] = size[item[w]] + 1]
    BY <1>2 DEF Chunk
  <2> QED BY <2>1, <2>2
<1>3. ASSUME NEW w \in Worker, Overlong(w) PROVE Written'
  BY <1>3 DEF Overlong
<1>4. CASE UNCHANGED <<size, from>>
  BY <1>4
<1>5. \/ Unlink \/ (\E w \in Worker : Chunk(w) \/ Overlong(w)) \/ UNCHANGED <<size, from>>
  BY DiskFrame DEF Opened, Mark, Assemble, Answer, Replace, disk
<1> QED BY <1>1, <1>2, <1>3, <1>4, <1>5

\* What ends a call, and what it comes to (Store::assemble, download_with_reader).
LEMMA ResultsFrame == Next =>
  \/ \E u \in Urls : Start(u)
  \/ Open \/ Removed \/ Opened \/ Probe \/ ProbeFails \/ ProbeStops \/ Mark
  \/ Assemble \/ Publish \/ Ended \/ Return \/ Crash
  \/ \E w \in Worker : Report(w)
  \/ UNCHANGED <<stage, after, error, output>>
BY DEF Next, Coordinating, Asked, Working, caller, disk, memory, ending, Cancel, Unlink,
       Take,
       Ask, Answer, Changed, Chunk, Complete, Overlong, Refused, Transient, Interrupted, Watch,
       Replace, Fail

LEMMA ResultsStep == TypeOK /\ Written /\ Results /\ Next => Results'
<1> SUFFICES ASSUME TypeOK, Written, Results, Next PROVE Results'
  OBVIOUS
<1> USE DEF TypeOK, CallType, Results, Finished, caller, disk, memory, ending
<1>1. ASSUME NEW u \in Urls, Start(u) PROVE Results'
  BY <1>1 DEF Start
<1>2. CASE Open \/ Opened \/ Probe \/ ProbeFails \/ ProbeStops \/ Mark
  <2>1. /\ UNCHANGED output /\ output = {}
        /\ \/ stage' \in {"opened", "probing", "marking", "fetching"}
           \/ stage' = "removing" /\ after' # "returning"
           \/ stage' = "ended" /\ error' # "none"
    BY <1>2 DEF Open, Opened, Probe, ProbeFails, ProbeStops, Mark, Fetch, Abandon
  <2> QED BY <2>1
<1>3. CASE Removed
  BY <1>3 DEF Removed
<1>4. CASE Assemble
  <2>1. output = {} /\ stage' \in {"ended", "published"}
    BY <1>4 DEF Assemble, Abandon
  <2>2. ASSUME stage' = "ended" PROVE UNCHANGED output /\ error' # "none"
    BY <1>4, <2>2 DEF Assemble, Abandon
  <2>3. ASSUME stage' = "published" PROVE output' # {}
    <3>1. Incomplete = {} /\ output' = UNION {from[f] : f \in Fragments}
      BY <1>4, <2>3 DEF Assemble, Abandon
    <3>2. PICK f \in Fragments : TRUE
      BY RangeAssumption DEF RangeAssumption
    <3>3. size[f] = Size /\ Size # 0
      BY <3>1, RangeAssumption DEF Incomplete, RangeAssumption
    <3>4. PICK v : v \in from[f]
      BY <3>3 DEF Written
    <3> QED BY <3>1, <3>4
  <2> QED BY <2>1, <2>2, <2>3
<1>5. CASE Publish
  BY <1>5 DEF Publish
<1>6. CASE Ended
  BY <1>6 DEF Ended
<1>7. CASE Return \/ Crash
  BY <1>7 DEF Return, Crash, Afresh
<1>8. ASSUME NEW w \in Worker, Report(w) PROVE Results'
  BY <1>8 DEF Report, PoolIsJoined
<1>9. CASE UNCHANGED <<stage, after, error, output>>
  BY <1>9
<1> QED
  BY <1>1, <1>2, <1>3, <1>4, <1>5, <1>6, <1>7, <1>8, <1>9, ResultsFrame

-----------------------------------------------------------------------------
\* A call begins without the Stop of an earlier one.
Heeded == url = Absent => ~cancelled

LEMMA HeededStep == TypeOK /\ Vouched /\ Heeded /\ Next => Heeded'
<1> SUFFICES ASSUME TypeOK, Vouched, Heeded, Next PROVE Heeded'
  OBVIOUS
<1> USE DEF Heeded, TypeOK, CallType
<1>1. \/ \E u \in Urls : Start(u)
      \/ Cancel \/ Return \/ Crash
      \/ UNCHANGED <<url, cancelled>>
  BY CallFrame DEF Open, Removed, Opened, Probe, ProbeFails, ProbeStops, Mark, Answer,
         Assemble,
         Publish, Ended, caller
<1>2. CASE \E u \in Urls : Start(u)
  BY <1>2 DEF Start
<1>3. CASE Return \/ Crash
  BY <1>3 DEF Return, Crash
<1>4. CASE UNCHANGED <<url, cancelled>>
  BY <1>4
<1>5. CASE Cancel
  BY <1>5 DEF Cancel, Vouched
<1> QED BY <1>1, <1>2, <1>3, <1>4, <1>5

Invariants == Consistent /\ Reported /\ ServiceInv /\ Heeded

LEMMA ServiceInvariance == DownloadSpec => []Invariants
<1>1. DownloadInit => Invariants
  <2> SUFFICES ASSUME Init, served = {} PROVE Invariants
    BY DEF DownloadInit
  <2>1. Consistent
    BY InitConsistent
  <2>2. Reported
    BY DEF Init, Resting, Reported, FaultOf, StopHasReason, Early
  <2>3. ServiceInv
    BY DEF Init, Resting, ServiceInv, Vouched, Checked, Marking, Written, Results, Finished
  <2> QED BY <2>1, <2>2, <2>3 DEF Invariants, Init, Heeded
<1>2. Invariants /\ [DownloadNext]_downloadVars => Invariants'
  <2> SUFFICES ASSUME Invariants, [DownloadNext]_downloadVars PROVE Invariants'
    OBVIOUS
  <2>0. TypeOK /\ [Next]_vars
    BY DEF Invariants, Consistent, DownloadNext, downloadVars
  <2>1. Consistent' /\ Reported'
    BY <2>0, ConsistentStep, ReportedStep DEF Invariants
  <2>2. CASE DownloadNext
    BY <2>0, <2>1, <2>2, VouchedStep, CheckedStep, WrittenStep, ResultsStep,
       HeededStep
    DEF Invariants, ServiceInv, DownloadNext
  <2>3. CASE UNCHANGED downloadVars
    BY <2>1, <2>3
    DEF Invariants, ServiceInv, downloadVars, vars, caller, disk, memory, pool, ending,
           count,
        Vouched, Checked, Marking, Written, Results, Finished, Ident, Heeded
  <2> QED BY <2>2, <2>3
<1> QED BY <1>1, <1>2, PTL DEF DownloadSpec

-----------------------------------------------------------------------------
\* A call that is not about to return has no outcome.
LEMMA NoOutcome ==
  /\ stage # "returning" => Outcome = "none"
  /\ stage' # "returning" => Outcome' = "none"
BY DEF Outcome

\* What the service does not see.
LEMMA Unseen ==
  ASSUME TypeOK, Vouched, Witnessed, UNCHANGED <<object, url, cancelled, output, torn>>,
         stage = "returning" <=> stage' = "returning",
         UNCHANGED <<error, asked>> \/ stage # "returning"
  PROVE  UNCHANGED Service!vars
<1>1. UNCHANGED served
  BY DEF Vouched, Witnessed
<1>2. UNCHANGED Outcome
  BY DEF Outcome
<1> QED BY <1>1, <1>2 DEF Service!vars, Service!call

\* A call has its result.
LEMMA Concludes ==
  ASSUME TypeOK, Vouched, Results', WorstErrorWins', Witnessed,
         UNCHANGED <<object, url, cancelled, output, torn, error, asked>>,
         url # Absent, stage # "returning", stage' = "returning"
  PROVE  Service!Next \/ UNCHANGED Service!vars
<1>1. UNCHANGED served /\ Outcome = "none"
  BY DEF Vouched, Witnessed, Outcome
<1>2. CASE Outcome' = "none"
  BY <1>1, <1>2 DEF Service!vars, Service!call
<1>3. CASE Outcome' # "none"
  <2>1. Outcome' = IF error = "none" THEN "done" ELSE error
    BY <1>3 DEF Outcome
  <2>2. Outcome' \in {"done", "cancelled", "changed", "unavailable"}
    BY <2>1 DEF TypeOK, EndType
  <2>3. /\ Outcome' = "done" => output # {}
        /\ Outcome' = "cancelled" => cancelled
        /\ Outcome' \in {"changed", "unavailable"} => output = {}
    BY <2>1 DEF TypeOK, EndType, Results, Finished, WorstErrorWins
  <2>4. Service!Report(Outcome')
    BY <1>1, <2>3 DEF Service!Report, Service!UnderWay
  <2> QED BY <2>2, <2>4 DEF Service!Next
<1> QED BY <1>2, <1>3

\* The fragments are put together: all of them are of one version this call has seen.
LEMMA AssembleServes ==
  ASSUME Consistent, ServiceInv, ServiceInv', Assemble, Witnessed
  PROVE  Service!Next \/ UNCHANGED Service!vars
<1>0. TypeOK /\ stage = "fetching" /\ stage' \in {"ended", "published"}
  BY DEF Consistent, Assemble, Abandon
<1>1. UNCHANGED <<object, url, cancelled, torn>>
  BY DEF Assemble, count
<1>2. UNCHANGED served /\ url # Absent
  BY <1>0, <1>1 DEF ServiceInv, Vouched, Witnessed
<1>3. CASE UNCHANGED output
  BY <1>0, <1>1, <1>3, Unseen DEF ServiceInv
<1>4. CASE output' = UNION {from[f] : f \in Fragments} /\ stage' = "published"
  <2>1. output = {} /\ output' # {} /\ Outcome = "none" /\ Outcome' = "none"
    BY <1>0, <1>4, NoOutcome DEF ServiceInv, Results, Finished
  <2>2. output' \in SUBSET Versions
    BY <1>0, <1>4 DEF TypeOK, DiskType
  <2>3. ASSUME torn = 0 PROVE \E v \in served : output' = {v}
    <3>1. Named /\ \A f \in Fragments : from[f] \subseteq served
      BY <1>0, <2>3 DEF Consistent, Resumable, ServiceInv, Checked
    <3>2. \A v \in output' : v \in served /\ v \in Versions /\ manifest = Ident(v)
      BY <1>0, <1>4, <2>2, <3>1 DEF Named
    <3>3. \A v, w \in output' : v = w
      BY <3>2, OfOneObject
    <3>4. PICK v : v \in output'
      BY <2>1
    <3> QED BY <3>2, <3>3, <3>4
  <2>4. torn = 0 \/ torn > 0
    BY <1>0, RangeAssumption DEF TypeOK, EndType, RangeAssumption
  <2>5. Service!Appear
    BY <1>1, <1>2, <2>1, <2>2, <2>3, <2>4 DEF Service!Appear, Service!UnderWay, Service!call
  <2> QED BY <2>5 DEF Service!Next
<1> QED BY <1>3, <1>4 DEF Assemble

\* The call ends, or tries once more.
LEMMA EndServes ==
  ASSUME TypeOK, Vouched, Return \/ Crash, Witnessed
  PROVE  Service!Next \/ UNCHANGED Service!vars
<1>1. CASE Crash
  <2>1. /\ url # Absent /\ url' = Absent /\ served' = {} /\ cancelled' = FALSE
        /\ Outcome' = "none" /\ UNCHANGED <<object, output>>
    BY <1>1 DEF Crash, Vouched, Witnessed, Outcome, disk
  <2>2. (torn' > 0) \in {torn > 0, TRUE}
    <3>1. CASE stage = "removing"
      <4>1. torn \in Nat /\ torn' = torn + 1
        BY <1>1, <3>1, RangeAssumption DEF Crash, TypeOK, EndType, RangeAssumption
      <4>2. (torn' > 0) = TRUE
        BY <4>1
      <4> QED BY <4>2
    <3>2. CASE stage # "removing"
      BY <1>1, <3>2 DEF Crash
    <3> QED BY <3>1, <3>2
  <2>3. Service!Die
    BY <2>1, <2>2 DEF Service!Die, Service!Over, Service!UnderWay
  <2> QED BY <2>3 DEF Service!Next
<1>2. CASE Return
  <2>1. stage = "returning" /\ stage' # "returning" /\ UNCHANGED <<object, output, torn>>
    BY <1>2 DEF Return, disk, count
  <2>2. CASE error \in {"changed", "unavailable"} /\ asked > 1
    <3>1. UNCHANGED <<url, cancelled>> /\ Outcome = "none" /\ Outcome' = "none"
      BY <1>2, <2>1, <2>2 DEF Return, Outcome
    <3>2. UNCHANGED served
      BY <2>1, <3>1 DEF Vouched, Witnessed
    <3> QED BY <2>1, <3>1, <3>2 DEF Service!vars, Service!call
  <2>3. CASE ~(error \in {"changed", "unavailable"} /\ asked > 1)
    <3>1. url' = Absent /\ cancelled' = FALSE /\ served' = {}
      BY <1>2, <2>3 DEF Return, Witnessed
    <3>2. Outcome # "none" /\ Outcome' = "none"
      BY <2>1, <2>3 DEF Outcome, TypeOK, EndType
    <3>3. Service!Return
      BY <2>1, <3>1, <3>2 DEF Service!Return, Service!Over
    <3> QED BY <3>3 DEF Service!Next
  <2> QED BY <2>2, <2>3
<1> QED BY <1>1, <1>2

\* Everything else.
LEMMA StepServes ==
  ASSUME Invariants, Invariants', WorstErrorWins', DownloadNext
  PROVE  Service!Next \/ UNCHANGED Service!vars
<1>0. TypeOK /\ Vouched /\ Witnessed /\ Next /\ Results'
  BY DEF Invariants, Consistent, ServiceInv, DownloadNext
<1> USE DEF caller, disk, memory, pool, ending, count
<1>1. ASSUME NEW u \in Urls, Start(u) PROVE Service!Next
  <2>1. /\ url = Absent /\ served = {} /\ url' = u /\ served' = {object[u]} /\ output = {}
        /\ UNCHANGED <<object, output, torn>> /\ ~cancelled /\ cancelled' = FALSE
    BY <1>0, <1>1, RangeAssumption
    DEF Start, Vouched, Witnessed, RangeAssumption, Invariants, Heeded
  <2>2. Outcome = "none" /\ Outcome' = "none"
    BY <1>1, NoOutcome DEF Start
  <2>3. UNCHANGED <<cancelled, Outcome, torn>>
    BY <1>0, <2>1, <2>2 DEF TypeOK, CallType
  <2>4. Service!Start(u)
    BY <2>1, <2>2, <2>3 DEF Service!Start, Service!UnderWay
  <2> QED BY <2>4 DEF Service!Next
<1>2. CASE Cancel
  <2>1. /\ url # Absent /\ ~cancelled /\ cancelled' = TRUE
        /\ UNCHANGED <<object, url, output, stage, error, asked, torn>>
    BY <1>0, <1>2 DEF Cancel, Vouched
  <2>2. UNCHANGED <<served, Outcome>>
    BY <1>0, <2>1 DEF Vouched, Witnessed, Outcome
  <2>3. Service!Cancel
    BY <2>1, <2>2 DEF Service!Cancel, Service!UnderWay
  <2> QED BY <2>3 DEF Service!Next
<1>3. ASSUME NEW v \in Versions, Replace(v) PROVE Service!Next
  <2>1. /\ object' = [object EXCEPT ![UrlOf[v]] = v]
        /\ UNCHANGED <<url, output, stage, error, asked, cancelled, torn>>
    BY <1>3 DEF Replace
  <2>2. served' = IF url = UrlOf[v] THEN served \cup {v} ELSE served
    <3>1. UrlOf[v] \in Urls /\ Absent \notin Urls
      BY RangeAssumption DEF RangeAssumption
    <3>2. CASE url = Absent
      BY <1>0, <2>1, <3>1, <3>2 DEF Vouched, Witnessed
    <3>3. CASE url # Absent /\ url = UrlOf[v]
      BY <1>0, <2>1, <3>3 DEF Witnessed, TypeOK, DiskType, CallType
    <3>4. CASE url # Absent /\ url # UrlOf[v]
      BY <1>0, <2>1, <3>4 DEF Vouched, Witnessed, TypeOK, DiskType, CallType
    <3> QED BY <3>2, <3>3, <3>4
  <2>3. UNCHANGED Outcome
    BY <2>1 DEF Outcome
  <2>4. Service!Replace(v)
    BY <2>1, <2>2, <2>3 DEF Service!Replace
  <2> QED BY <2>4 DEF Service!Next
<1>4. CASE Assemble
  BY <1>0, <1>4, AssembleServes DEF Invariants
<1>5. CASE Return \/ Crash
  BY <1>0, <1>5, EndServes
<1>6. CASE Removed \/ Ended
  <2>1. UNCHANGED <<object, url, cancelled, output, torn, error, asked>> /\ stage # "returning"
    BY <1>6 DEF Removed, Ended
  <2>2. url # Absent
    BY <1>0, <1>6 DEF Removed, Ended, Vouched
  <2> QED BY <1>0, <2>1, <2>2, Concludes, Unseen
<1>7. CASE Open \/ Unlink \/ Opened \/ Probe \/ ProbeFails \/ ProbeStops \/ Mark \/ Publish
  <2>1. /\ UNCHANGED <<object, url, cancelled, output, torn>>
        /\ stage # "returning" /\ stage' # "returning"
    BY <1>7 DEF Open, Unlink, Opened, Probe, ProbeFails, ProbeStops, Mark, Publish, Fetch,
           Abandon
  <2> QED BY <1>0, <2>1, Unseen
<1>8. CASE Watch
  <2>1. UNCHANGED <<object, url, cancelled, output, torn, stage, error, asked>>
    BY <1>8 DEF Watch
  <2> QED BY <1>0, <2>1, Unseen
<1>9. ASSUME NEW w \in Worker, Asked(w) \/ Working(w) PROVE UNCHANGED Service!vars
  <2>1. UNCHANGED <<object, url, cancelled, output, torn, stage>>
    BY <1>9 DEF Asked, Working, Take, Ask, Answer, Changed, Chunk, Complete, Overlong,
           Refused,
           Transient, Interrupted, Report
  <2>2. at[w] # "over"
    BY <1>9 DEF Asked, Working, Take, Ask, Answer, Changed, Chunk, Complete, Overlong,
           Refused,
           Transient, Interrupted, Report
  <2>3. stage = "fetching"
    BY <1>0, <2>2 DEF TypeOK, PoolIsJoined
  <2> QED BY <1>0, <2>1, <2>3, Unseen
<1> QED
  BY <1>0, <1>1, <1>2, <1>3, <1>4, <1>5, <1>6, <1>7, <1>8, <1>9 DEF Next, Coordinating

\* However a transfer was resumed, retried, cancelled or interrupted: what appears under
\* the name of its output is one version of the object, which the server had while the
\* call was under way; with a result the output is there, with a failure it is not, and
\* only its user cancels a call.
THEOREM TransfersKeepContract == DownloadSpec => DownloadContract
<1>1. DownloadInit => Service!Init
  BY DEF DownloadInit, Init, Resting, Service!Init, Outcome
<1>2. Invariants => WorstErrorWins
  BY ReportedSuffices DEF Invariants, Consistent
<1>3. Invariants /\ Invariants' /\ WorstErrorWins' /\ [DownloadNext]_downloadVars
        => [UNCHANGED Service!vars \/ Service!Next]_(Service!vars)
  <2> SUFFICES ASSUME Invariants, Invariants', WorstErrorWins', [DownloadNext]_downloadVars
               PROVE  Service!Next \/ UNCHANGED Service!vars
    OBVIOUS
  <2>1. CASE UNCHANGED downloadVars
    BY <2>1 DEF downloadVars, vars, caller, disk, count, ending, Service!vars, Service!call,
           Outcome
  <2> QED BY <2>1, StepServes
<1> QED
  BY <1>1, <1>2, <1>3, ServiceInvariance, PTL DEF DownloadSpec, DownloadContract,
         Service!Spec

-----------------------------------------------------------------------------
(* The plan.                                                               *)

Phases == {"grouping", "refused", "collapsing", "merging", "splitting", "planned"}

IsRange(r) == r.start \in Int /\ r.end \in Int

\* Ranges that do not share a byte.
Apart(ranges) == \A r, s \in ranges : r = s \/ r.end < s.start \/ s.end < r.start

Sound(ranges) == \A r \in ranges : IsRange(r) /\ r.start <= r.end

\* Ranges that are made end before those to come start.
Behind == \A p \in plan, t \in ahead : p.end < t.start

\* No byte of a row that has an end is lost.
Covered ==
  \A row \in rows : IsRange(row) =>
    \A b \in row.start .. row.end : Plan!Holds(plan \cup ahead, b)

\* What the rows are while they are read.
Reading ==
  /\ \A row \in ahead : row \in rows
  /\ \A r \in plan : IsRange(r)
  /\ \A row \in rows : IsRange(row) \/ row \in ahead

\* What the ranges are afterwards.
Ranging ==
  /\ \A row \in rows : IsRange(row)
  /\ Sound(plan) /\ Sound(ahead) /\ Apart(plan)
  /\ phase = "collapsing" =>
       /\ \A s, t \in ahead : s # t => s.start # t.start
       /\ \A p \in plan, t \in ahead : p.start < t.start
  /\ phase = "merging" => Apart(ahead) /\ Behind
  /\ phase \in {"splitting", "planned"} => ahead = {}

PlanInv ==
  /\ phase \in Phases /\ rows \in Requests
  /\ phase \in {"grouping", "refused"} \/ Ranging
  /\ phase = "grouping" => Reading /\ \A r, s \in plan : r # s => r.start # s.start
  /\ Covered

-----------------------------------------------------------------------------
\* A step that keeps every byte in some range keeps the bytes of the rows.
LEMMA KeepsCover ==
  ASSUME Covered, rows' = rows,
         \A b \in Int : Plan!Holds(plan \cup ahead, b) => Plan!Holds(plan' \cup ahead', b)
  PROVE  Covered'
<1> SUFFICES ASSUME NEW row \in rows, IsRange(row), NEW b \in row.start .. row.end
             PROVE  Plan!Holds(plan' \cup ahead', b)
  BY DEF Covered
<1>1. b \in Int
  BY DEF IsRange
<1>2. Plan!Holds(plan \cup ahead, b)
  BY DEF Covered
<1> QED BY <1>1, <1>2

\* Grouping keeps what the rows cover, and one range for each start.
LEMMA GroupStep ==
  ASSUME Plan!PlanAssumption, PlanInv, Plan!Group
  PROVE  PlanInv'
<1> USE DEF PlanInv, Plan!Group, Reading, Plan!Invalid
<1>1. PICK row \in ahead :
        /\ ahead' = ahead \ {row}
        /\ \/ /\ \A r \in plan : r.start # row.start
              /\ plan' = plan \cup {row}
           \/ \E r \in plan :
                /\ r.start = row.start
                /\ plan' = IF r.end < row.end THEN Plan!With(row, r) ELSE plan
  OBVIOUS
<1>2. IsRange(row) /\ row \in rows
  BY <1>1 DEF IsRange, Plan!PlanAssumption
<1>3. phase' = "grouping" /\ rows' = rows
  OBVIOUS
<1>4. CASE (\A r \in plan : r.start # row.start) /\ plan' = plan \cup {row}
  <2>1. Reading'
    BY <1>1, <1>2, <1>3, <1>4 DEF IsRange
  <2>2. \A r, s \in plan' : r # s => r.start # s.start
    BY <1>4
  <2>3. plan' \cup ahead' = plan \cup ahead
    BY <1>1, <1>4
  <2>4. Covered'
    BY <1>3, <2>3, KeepsCover
  <2> QED BY <1>3, <2>1, <2>2, <2>4 DEF Phases
<1>5. ASSUME NEW r \in plan, r.start = row.start,
             plan' = IF r.end < row.end THEN Plan!With(row, r) ELSE plan
      PROVE  PlanInv'
  <2>1. Reading'
    BY <1>1, <1>2, <1>3, <1>5 DEF IsRange, Plan!With
  <2>2. \A p, s \in plan' : p # s => p.start # s.start
    BY <1>5 DEF Plan!With
  <2>3. IsRange(r)
    BY <1>5
  <2>4. \A b \in Int : Plan!Holds(plan \cup ahead, b) => Plan!Holds(plan' \cup ahead', b)
    <3> TAKE b \in Int
    <3> HAVE Plan!Holds(plan \cup ahead, b)
    <3>1. PICK s \in plan \cup ahead : s.start <= b /\ b <= s.end
      BY DEF Plan!Holds
    <3>2. CASE s # row /\ s # r
      BY <1>1, <1>5, <3>1, <3>2 DEF Plan!Holds, Plan!With
    <3>3. CASE r.end < row.end /\ s \in {row, r}
      <4>1. row \in plan'
        BY <1>5, <3>3 DEF Plan!With
      <4>2. row.start <= b /\ b <= row.end
        BY <1>2, <1>5, <2>3, <3>1, <3>3 DEF IsRange
      <4> QED BY <4>1, <4>2 DEF Plan!Holds
    <3>4. CASE ~(r.end < row.end) /\ s \in {row, r}
      <4>1. r \in plan'
        BY <1>5, <3>4
      <4>2. r.start <= b /\ b <= r.end
        BY <1>2, <1>5, <2>3, <3>1, <3>4 DEF IsRange
      <4> QED BY <4>1, <4>2 DEF Plan!Holds
    <3> QED BY <3>2, <3>3, <3>4
  <2>5. Covered'
    BY <1>3, <2>4, KeepsCover
  <2> QED BY <1>3, <2>1, <2>2, <2>5 DEF Phases
<1> QED BY <1>1, <1>4, <1>5

\* The ranges that grouping ends with are sound and start at places of their own.
LEMMA GroupedStep ==
  ASSUME PlanInv, Plan!Grouped
  PROVE  PlanInv'
<1> USE DEF PlanInv, Plan!Grouped, Reading, Plan!Invalid
<1>1. Ranging'
  BY DEF Ranging, Sound, Apart, IsRange
<1>2. Covered'
  BY DEF Covered, Plan!Holds
<1> QED BY <1>1, <1>2 DEF Phases

\* Of ranges that are apart the last one ends last.
LEMMA LastEndsLast ==
  ASSUME NEW ranges, Sound(ranges), Apart(ranges), NEW last, Plan!IsLast(last, ranges)
  PROVE  \A p \in ranges : p # last => p.end < last.start
BY DEF Sound, Apart, Plan!IsLast, IsRange

\* Collapsing keeps what the ranges cover.
LEMMA CollapseStep ==
  ASSUME PlanInv, Plan!Collapse
  PROVE  PlanInv'
<1> USE DEF PlanInv, Plan!Collapse
<1>1. PICK head \in ahead :
        /\ Plan!IsFirst(head, ahead)
        /\ ahead' = ahead \ {head}
        /\ \/ plan = {} /\ plan' = {head}
           \/ \E last \in plan :
                /\ Plan!IsLast(last, plan)
                /\ plan' = IF head.start > last.end + 1 THEN plan \cup {head}
                           ELSE IF head.end > last.end
                             THEN Plan!With([start |-> last.start, end |-> head.end], last)
                             ELSE plan
  OBVIOUS
<1>2. /\ phase = "collapsing" /\ phase' = "collapsing" /\ rows' = rows
      /\ Ranging /\ IsRange(head) /\ head.start <= head.end
  BY <1>1 DEF Ranging, Sound
<1>3. \A t \in ahead' : t \in ahead /\ head.start < t.start
  BY <1>1, <1>2 DEF Plan!IsFirst, Ranging, Sound, IsRange
<1>4. ASSUME Sound(plan'), Apart(plan'), \A p \in plan', t \in ahead' : p.start < t.start,
             \A b \in Int : Plan!Holds(plan \cup ahead, b) => Plan!Holds(plan' \cup ahead', b)
      PROVE  PlanInv'
  <2>1. Ranging'
    BY <1>1, <1>2, <1>4 DEF Ranging, Sound
  <2>2. Covered'
    BY <1>2, <1>4, KeepsCover
  <2> QED BY <1>2, <2>1, <2>2 DEF Phases
<1>5. CASE plan = {} /\ plan' = {head}
  <2>1. Sound(plan') /\ Apart(plan') /\ \A p \in plan', t \in ahead' : p.start < t.start
    BY <1>2, <1>3, <1>5 DEF Sound, Apart
  <2>2. plan' \cup ahead' = plan \cup ahead
    BY <1>1, <1>5
  <2> QED BY <1>4, <2>1, <2>2
<1>6. ASSUME NEW last \in plan, Plan!IsLast(last, plan),
             plan' = IF head.start > last.end + 1 THEN plan \cup {head}
                     ELSE IF head.end > last.end
                       THEN Plan!With([start |-> last.start, end |-> head.end], last)
                       ELSE plan
      PROVE  PlanInv'
  <2>1. \A p \in plan : p # last => p.end < last.start
    BY <1>2, <1>6, LastEndsLast DEF Ranging
  <2>2. IsRange(last) /\ last.start <= last.end /\ last.start < head.start
    BY <1>1, <1>2, <1>6 DEF Ranging, Sound
  <2>3. \A p \in plan : IsRange(p) /\ p.start <= p.end /\ p.start < head.start
    BY <1>1, <1>2 DEF Ranging, Sound
  <2>4. CASE head.start > last.end + 1
    <3>1. plan' = plan \cup {head} /\ plan' \cup ahead' = plan \cup ahead
      BY <1>1, <1>6, <2>4
    <3>2. \A p \in plan : p.end < head.start
      BY <1>2, <2>1, <2>2, <2>3, <2>4 DEF IsRange
    <3>3. Sound(plan') /\ Apart(plan')
      BY <1>2, <3>1, <3>2 DEF Ranging, Sound, Apart
    <3>4. \A p \in plan', t \in ahead' : p.start < t.start
      BY <1>1, <1>2, <1>3, <3>1 DEF Ranging
    <3> QED BY <1>4, <3>1, <3>3, <3>4
  <2>5. CASE ~(head.start > last.end + 1) /\ head.end > last.end
    <3> DEFINE joined == [start |-> last.start, end |-> head.end]
    <3>1. plan' = (plan \ {last}) \cup {joined}
      BY <1>6, <2>5 DEF Plan!With
    <3>2. IsRange(joined) /\ joined.start = last.start /\ joined.end = head.end
      BY <1>2, <2>2 DEF IsRange
    <3>3. joined.start <= joined.end /\ joined.start < head.start
      BY <1>2, <2>2, <3>2 DEF IsRange
    <3> HIDE DEF joined
    <3>4. Sound(plan') /\ Apart(plan')
      BY <1>2, <2>1, <3>1, <3>2, <3>3 DEF Ranging, Sound, Apart
    <3>5. \A p \in plan', t \in ahead' : p.start < t.start
      BY <1>1, <1>2, <1>3, <1>6, <3>1, <3>2 DEF Ranging
    <3>6. ASSUME NEW b \in Int, Plan!Holds(plan \cup ahead, b)
          PROVE  Plan!Holds(plan' \cup ahead', b)
      <4>1. PICK s \in plan \cup ahead : s.start <= b /\ b <= s.end
        BY <3>6 DEF Plan!Holds
      <4>2. CASE s \in {last, head}
        BY <1>2, <2>2, <2>5, <3>1, <3>2, <4>1, <4>2 DEF Plan!Holds, IsRange
      <4>3. CASE s \notin {last, head}
        BY <1>1, <3>1, <4>1, <4>3 DEF Plan!Holds
      <4> QED BY <4>2, <4>3
    <3> QED BY <1>4, <3>4, <3>5, <3>6
  <2>6. CASE ~(head.start > last.end + 1) /\ ~(head.end > last.end)
    <3>1. plan' = plan
      BY <1>6, <2>6
    <3>2. \A p \in plan', t \in ahead' : p.start < t.start
      BY <1>1, <1>2, <1>3, <3>1 DEF Ranging
    <3>3. ASSUME NEW b \in Int, Plan!Holds(plan \cup ahead, b)
          PROVE  Plan!Holds(plan' \cup ahead', b)
      <4>1. PICK s \in plan \cup ahead : s.start <= b /\ b <= s.end
        BY <3>3 DEF Plan!Holds
      <4>2. CASE s = head
        BY <1>2, <1>6, <2>2, <2>6, <3>1, <4>1, <4>2 DEF Plan!Holds, IsRange
      <4>3. CASE s # head
        BY <1>1, <3>1, <4>1, <4>3 DEF Plan!Holds
      <4> QED BY <4>2, <4>3
    <3> QED BY <1>2, <1>4, <3>1, <3>2, <3>3 DEF Ranging
  <2> QED BY <2>4, <2>5, <2>6
<1> QED BY <1>1, <1>5, <1>6

\* The exact ranges become those to be merged.
LEMMA BudgetStep ==
  ASSUME PlanInv, Plan!Budget
  PROVE  PlanInv'
<1> USE DEF PlanInv, Plan!Budget
<1>1. Ranging'
  BY DEF Ranging, Sound, Apart, Behind
<1>2. Covered'
  BY DEF Covered, Plan!Holds
<1> QED BY <1>1, <1>2 DEF Phases

\* Merging keeps what the ranges cover, and those to come beyond those made.
LEMMA MergeStep ==
  ASSUME PlanInv, Plan!Merge
  PROVE  PlanInv'
<1> USE DEF PlanInv, Plan!Merge
<1>1. PICK head \in ahead :
        /\ Plan!IsFirst(head, ahead)
        /\ ahead' = ahead \ {head}
        /\ \/ plan' = plan \cup {head}
           \/ \E last \in plan :
                /\ Plan!IsLast(last, plan)
                /\ plan' = Plan!With([start |-> last.start, end |-> head.end], last)
  OBVIOUS
<1>2. /\ phase = "merging" /\ phase' = "merging" /\ rows' = rows
      /\ Ranging /\ IsRange(head) /\ head.start <= head.end
  BY <1>1 DEF Ranging, Sound
<1>3. \A t \in ahead' : t \in ahead /\ head.end < t.start
  BY <1>1, <1>2 DEF Plan!IsFirst, Ranging, Sound, Apart, IsRange
<1>4. \A p \in plan : IsRange(p) /\ p.start <= p.end /\ p.end < head.start
  BY <1>1, <1>2 DEF Ranging, Sound, Behind
<1>5. ASSUME Sound(plan'), Apart(plan'), \A p \in plan', t \in ahead' : p.end < t.start,
             \A b \in Int : Plan!Holds(plan \cup ahead, b) => Plan!Holds(plan' \cup ahead', b)
      PROVE  PlanInv'
  <2>1. Ranging'
    BY <1>1, <1>2, <1>5 DEF Ranging, Sound, Apart, Behind
  <2>2. Covered'
    BY <1>2, <1>5, KeepsCover
  <2> QED BY <1>2, <2>1, <2>2 DEF Phases
<1>6. CASE plan' = plan \cup {head}
  <2>1. Sound(plan') /\ Apart(plan')
    BY <1>2, <1>4, <1>6 DEF Ranging, Sound, Apart
  <2>2. \A p \in plan', t \in ahead' : p.end < t.start
    BY <1>1, <1>2, <1>3, <1>6 DEF Ranging, Behind
  <2>3. plan' \cup ahead' = plan \cup ahead
    BY <1>1, <1>6
  <2> QED BY <1>5, <2>1, <2>2, <2>3
<1>7. ASSUME NEW last \in plan, Plan!IsLast(last, plan),
             plan' = Plan!With([start |-> last.start, end |-> head.end], last)
      PROVE  PlanInv'
  <2> DEFINE joined == [start |-> last.start, end |-> head.end]
  <2>1. plan' = (plan \ {last}) \cup {joined}
    BY <1>7 DEF Plan!With
  <2>2. IsRange(joined) /\ joined.start = last.start /\ joined.end = head.end
    BY <1>2, <1>4 DEF IsRange
  <2>3. joined.start <= joined.end
    BY <1>2, <1>4, <2>2 DEF IsRange
  <2> HIDE DEF joined
  <2>4. \A p \in plan : p # last => p.end < joined.start
    BY <1>2, <1>7, <2>2, LastEndsLast DEF Ranging
  <2>5. Sound(plan') /\ Apart(plan')
    BY <1>2, <2>1, <2>2, <2>3, <2>4 DEF Ranging, Sound, Apart
  <2>6. \A p \in plan', t \in ahead' : p.end < t.start
    BY <1>1, <1>2, <1>3, <2>1, <2>2 DEF Ranging, Behind
  <2>7. ASSUME NEW b \in Int, Plan!Holds(plan \cup ahead, b)
        PROVE  Plan!Holds(plan' \cup ahead', b)
    <3>1. PICK s \in plan \cup ahead : s.start <= b /\ b <= s.end
      BY <2>7 DEF Plan!Holds
    <3>2. CASE s \in {last, head}
      BY <1>2, <1>4, <1>7, <2>1, <2>2, <3>1, <3>2 DEF Plan!Holds, IsRange
    <3>3. CASE s \notin {last, head}
      BY <1>1, <2>1, <3>1, <3>3 DEF Plan!Holds
    <3> QED BY <3>2, <3>3
  <2> QED BY <1>5, <2>5, <2>6, <2>7
<1> QED BY <1>1, <1>6, <1>7

\* The halves of a range are apart and are all of it.
LEMMA SplitStep ==
  ASSUME Plan!PlanAssumption, PlanInv, Plan!Split
  PROVE  PlanInv'
<1> USE DEF PlanInv, Plan!Split
<1>1. PICK r \in plan :
        /\ Plan!IsLargest(r)
        /\ plan' = (plan \ {r}) \cup
                     {[start |-> r.start, end |-> r.start + (Plan!Bytes(r) \div 2) - 1],
                      [start |-> r.start + (Plan!Bytes(r) \div 2) - 1 + 1, end |-> r.end]}
  OBVIOUS
<1>2. /\ phase = "splitting" /\ phase' = "splitting" /\ rows' = rows
      /\ ahead = {} /\ ahead' = {} /\ Ranging /\ IsRange(r) /\ r.start <= r.end
  BY <1>1 DEF Ranging, Sound
<1>3. Plan!Bytes(r) >= 2
  BY <1>1, <1>2 DEF Plan!IsLargest, Plan!Splittable, Plan!Bytes, IsRange,
         Plan!PlanAssumption
<1>4. PICK half \in Int : half = Plan!Bytes(r) \div 2
  BY <1>2 DEF Plan!Bytes, IsRange
<1>5. 1 <= half /\ half < Plan!Bytes(r)
  BY <1>2, <1>3, <1>4 DEF Plan!Bytes, IsRange
<1>6. PICK low : low = [start |-> r.start, end |-> r.start + half - 1]
  OBVIOUS
<1>7. PICK high : high = [start |-> r.start + half - 1 + 1, end |-> r.end]
  OBVIOUS
<1>8. /\ IsRange(low) /\ IsRange(high)
      /\ low.start = r.start /\ low.start <= low.end /\ low.end = high.start - 1
      /\ high.start <= high.end /\ high.end = r.end
  BY <1>2, <1>5, <1>6, <1>7 DEF IsRange, Plan!Bytes
<1>9. plan' = (plan \ {r}) \cup {low, high}
  BY <1>1, <1>4, <1>6, <1>7
<1>10. Sound(plan')
  BY <1>2, <1>8, <1>9 DEF Ranging, Sound
<1>11. Apart(plan')
  <2>1. \A p \in plan \ {r} : IsRange(p) /\ (p.end < r.start \/ r.end < p.start)
    BY <1>1, <1>2 DEF Ranging, Apart, Sound
  <2>2. \A p \in plan \ {r} :
          /\ p.end < low.start \/ low.end < p.start
          /\ p.end < high.start \/ high.end < p.start
    BY <1>2, <1>8, <2>1 DEF IsRange
  <2>3. low.end < high.start
    BY <1>8 DEF IsRange
  <2>4. \A p, q \in plan \ {r} : p = q \/ p.end < q.start \/ q.end < p.start
    BY <1>2 DEF Ranging, Apart
  <2> QED BY <1>9, <2>2, <2>3, <2>4 DEF Apart
<1>12. Ranging'
  BY <1>2, <1>10, <1>11 DEF Ranging, Sound
<1>13. Covered'
  <2>1. ASSUME NEW b \in Int, Plan!Holds(plan, b)
        PROVE  Plan!Holds(plan', b)
    <3>1. PICK s \in plan : s.start <= b /\ b <= s.end
      BY <2>1 DEF Plan!Holds
    <3>2. CASE s = r /\ b <= low.end
      BY <1>8, <1>9, <3>1, <3>2 DEF Plan!Holds
    <3>3. CASE s = r /\ ~(b <= low.end)
      BY <1>8, <1>9, <3>1, <3>3 DEF Plan!Holds, IsRange
    <3>4. CASE s # r
      BY <1>9, <3>1, <3>4 DEF Plan!Holds
    <3> QED BY <3>2, <3>3, <3>4
  <2>2. plan \cup ahead = plan /\ plan' \cup ahead' = plan'
    BY <1>2
  <2> QED BY <1>2, <2>1, <2>2, KeepsCover
<1> QED BY <1>2, <1>12, <1>13 DEF Phases

\* The invariant is inductive.
LEMMA PlanInvariance == ASSUME Plan!PlanAssumption PROVE Plan!Spec => []PlanInv
<1>1. Plan!Init => PlanInv
  BY DEF Plan!PlanAssumption, Plan!Init, PlanInv, Phases, Reading, Covered, Plan!Holds
<1>2. PlanInv /\ [Plan!Next]_(Plan!vars) => PlanInv'
  <2> SUFFICES ASSUME PlanInv, [Plan!Next]_(Plan!vars) PROVE PlanInv'
    OBVIOUS
  <2>1. CASE Plan!Refuse
    BY <2>1 DEF PlanInv, Plan!Refuse, Phases, Covered, Plan!Holds
  <2>2. CASE Plan!Merged
    BY <2>2 DEF PlanInv, Plan!Merged, Phases, Covered, Plan!Holds, Ranging
  <2>3. CASE Plan!Finish
    BY <2>3 DEF PlanInv, Plan!Finish, Phases, Covered, Plan!Holds, Ranging
  <2>4. CASE UNCHANGED Plan!vars
    BY <2>4 DEF PlanInv, Plan!vars, Covered, Plan!Holds, Ranging, Reading, Behind
  <2> QED
    BY <2>1, <2>2, <2>3, <2>4, GroupStep, GroupedStep, CollapseStep, BudgetStep, MergeStep,
       SplitStep DEF Plan!Next
<1> QED BY <1>1, <1>2, PTL DEF Plan!Spec

-----------------------------------------------------------------------------
LEMMA PlanInvIsExact == PlanInv => Plan!PlanIsExact
<1> SUFFICES ASSUME PlanInv, phase = "planned" PROVE Plan!PlanIsExact
  BY DEF Plan!PlanIsExact
<1>1. Ranging /\ ahead = {} /\ Covered
  BY DEF PlanInv, Ranging
<1>2. plan \cup ahead = plan
  BY <1>1
<1> QED BY <1>1, <1>2 DEF Plan!PlanIsExact, Ranging, Apart, Covered

\* Whatever an inventory lists, the ranges that are fetched have every byte of the
\* selected messages and none twice: plan_ranges and parallelize_range_plan are exact.
THEOREM PlansAreExact == ASSUME Plan!PlanAssumption PROVE Plan!Spec => []Plan!PlanIsExact
BY PlanInvIsExact, PlanInvariance, PTL

-----------------------------------------------------------------------------
(* The bytes of a plan.                                                    *)

Octets(ranges) == UNION {r.start .. r.end : r \in ranges}

\* All bytes of the ranges made and to come, and the selected ones among them.
Whole == Octets(plan \cup ahead)
Chosen == Octets(rows)

RowStarts == {row.start : row \in rows}

\* The plan keeps count of the bytes nobody selected, which are within the budget, and
\* a range below the minimum starts with a message.
Counted ==
  /\ IsFiniteSet(plan) /\ IsFiniteSet(ahead)
  /\ phase = "grouping" => plan \subseteq rows
  /\ phase \in {"grouping", "collapsing"} => spare = 0
  /\ phase = "collapsing" => Whole = Chosen
  /\ phase \in {"merging", "splitting", "planned"} =>
       /\ IsFiniteSet(Whole) /\ Chosen \subseteq Whole
       /\ spare \in Nat /\ limit \in Nat
       /\ spare = Cardinality(Whole \ Chosen)
       /\ spare <= limit /\ limit * 100 <= SparePercent * Cardinality(Chosen)
  /\ phase \in {"collapsing", "merging"} => \A r \in plan \cup ahead : r.start \in RowStarts
  /\ phase \in {"splitting", "planned"} =>
       \A r \in plan : r.start \in RowStarts \/ Plan!Bytes(r) >= MinPart

-----------------------------------------------------------------------------
LEMMA OctetOf == \A ranges, b : b \in Octets(ranges) <=> \E r \in ranges : b \in r.start .. r.end
BY DEF Octets

\* Two sets of octets side by side.
LEMMA CountApart ==
  ASSUME NEW S, NEW T, IsFiniteSet(S), IsFiniteSet(T), S \cap T = {}
  PROVE  /\ IsFiniteSet(S \cup T) /\ Cardinality(S \cup T) = Cardinality(S) + Cardinality(T)
         /\ Cardinality(S) \in Nat /\ Cardinality(T) \in Nat
<1>1. Cardinality(S \cap T) = 0
  BY FS_EmptySet
<1>2. Cardinality(S) \in Nat /\ Cardinality(T) \in Nat
  BY FS_CardinalityType
<1>3. /\ IsFiniteSet(S \cup T)
      /\ Cardinality(S \cup T) = Cardinality(S) + Cardinality(T) - Cardinality(S \cap T)
  BY FS_Union
<1> QED BY <1>1, <1>2, <1>3

\* The bytes of ranges that are apart add up to their octets.
LEMMA SumOfApart ==
  ASSUME NEW R, IsFiniteSet(R), Sound(R), Apart(R), NEW f, \A r \in R : f[r] = Plan!Bytes(r)
  PROVE  /\ IsFiniteSet(Octets(R)) /\ Cardinality(Octets(R)) \in Nat
         /\ SumFunctionOnSet(f, R) = Cardinality(Octets(R))
<1> DEFINE Good(s) == /\ IsFiniteSet(Octets(s)) /\ Cardinality(Octets(s)) \in Nat
                      /\ SumFunctionOnSet(f, s) = Cardinality(Octets(s))
           Bad == {s \in SUBSET R : ~Good(s)}
<1> SUFFICES ASSUME Bad # {} PROVE FALSE
  OBVIOUS
<1>0. Bad \subseteq SUBSET R
  OBVIOUS
<1>1. PICK s \in Bad : \A y \in Bad : y \subseteq s => y = s
  <2> HIDE DEF Bad
  <2> QED BY <1>0, SmallestOfFinite
<1>2. s \in SUBSET R /\ ~Good(s)
  BY <1>1
<1>3. s # {}
  <2>1. Octets({}) = {}
    BY DEF Octets
  <2> QED BY <1>2, <2>1, SumEmpty, FS_EmptySet
<1>4. PICK x \in s : TRUE
  BY <1>3
<1>5. IsFiniteSet(s)
  BY <1>2, FS_Subset
<1> DEFINE rest == s \ {x}
<1>6. Good(rest)
  <2>1. rest \in SUBSET R /\ rest \subseteq s /\ rest # s
    BY <1>2, <1>4
  <2> HIDE DEF Good, rest
  <2> QED BY <1>1, <2>1
<1>7. IsRange(x) /\ x.start <= x.end
  BY <1>2, <1>4 DEF Sound
<1>8. IsFiniteSet(x.start .. x.end) /\ Cardinality(x.start .. x.end) = x.end - x.start + 1
  <2>1. x.start \in Int /\ x.end \in Int /\ ~(x.start > x.end)
    BY <1>7 DEF IsRange
  <2>2. PICK a \in Int, b \in Int : a = x.start /\ b = x.end
    BY <2>1
  <2>3. IsFiniteSet(a .. b) /\ Cardinality(a .. b) = IF a > b THEN 0 ELSE b - a + 1
    BY FS_Interval
  <2> QED BY <2>1, <2>2, <2>3
<1>9. Octets(rest) \cap (x.start .. x.end) = {}
  <2>1. ASSUME NEW b, b \in Octets(rest), b \in x.start .. x.end PROVE FALSE
    <3>1. PICK r \in rest : b \in r.start .. r.end
      BY <2>1, OctetOf
    <3>2. r \in R /\ x \in R /\ r # x
      BY <1>2, <1>4
    <3>3. IsRange(r) /\ (r.end < x.start \/ x.end < r.start)
      BY <3>2 DEF Sound, Apart
    <3> QED BY <1>7, <2>1, <3>1, <3>3 DEF IsRange
  <2> QED BY <2>1
<1>10. Octets(s) = Octets(rest) \cup (x.start .. x.end)
  <2>1. \A b : b \in Octets(s) <=> b \in Octets(rest) \/ b \in x.start .. x.end
    BY <1>4, OctetOf
  <2> HIDE DEF rest
  <2> QED BY <2>1
<1> DEFINE U == Octets(rest)
           X == x.start .. x.end
<1>11. /\ IsFiniteSet(U \cup X) /\ Cardinality(U \cup X) = Cardinality(U) + Cardinality(X)
       /\ Cardinality(U) \in Nat /\ Cardinality(X) \in Nat
  <2>1. IsFiniteSet(U) /\ IsFiniteSet(X) /\ U \cap X = {}
    BY <1>6, <1>8, <1>9
  <2> HIDE DEF U, X
  <2> QED BY <2>1, CountApart
<1>12. SumFunctionOnSet(f, s) = f[x] + SumFunctionOnSet(f, rest)
  <2>1. \A r \in s : f[r] \in Nat
    <3>1. \A r \in s : r \in R /\ IsRange(r) /\ r.start <= r.end
      BY <1>2 DEF Sound
    <3> QED BY <3>1 DEF IsRange, Plan!Bytes
  <2> QED BY <1>4, <1>5, <2>1, SumRemove
<1>13. f[x] = Cardinality(X)
  BY <1>2, <1>4, <1>8 DEF Plan!Bytes
<1>14. SumFunctionOnSet(f, rest) = Cardinality(U)
  BY <1>6
<1>15. Octets(s) = U \cup X
  BY <1>10
<1>16. Good(s)
  <2> HIDE DEF U, X, rest
  <2>1. Cardinality(X) + Cardinality(U) = Cardinality(U) + Cardinality(X)
    BY <1>11
  <2> QED BY <1>11, <1>12, <1>13, <1>14, <1>15, <2>1
<1> QED BY <1>2, <1>16

\* Ranges that together have the same octets.
LEMMA SameOctets ==
  ASSUME NEW R, NEW Q, \A b : (\E r \in R : b \in r.start .. r.end) <=> (\E r \in Q : b \in r.start .. r.end)
  PROVE  Octets(R) = Octets(Q)
<1>1. \A b : b \in Octets(R) <=> b \in Octets(Q)
  BY OctetOf
<1> QED BY <1>1

LEMMA GroupCounted ==
  ASSUME PlanInv, Counted, Plan!Group
  PROVE  Counted'
<1> USE DEF Plan!Group, Plan!Invalid
<1>1. PICK row \in ahead :
        /\ ahead' = ahead \ {row}
        /\ \/ plan' = plan \cup {row}
           \/ \E r \in plan : plan' = IF r.end < row.end THEN Plan!With(row, r) ELSE plan
  OBVIOUS
<1>2. phase = "grouping" /\ phase' = "grouping" /\ UNCHANGED <<rows, spare, limit>>
  OBVIOUS
<1>3. row \in rows /\ plan \subseteq rows
  BY <1>1, <1>2 DEF PlanInv, Reading, Counted
<1>4. IsFiniteSet(ahead')
  BY <1>1, FS_RemoveElement DEF Counted
<1>5. IsFiniteSet(plan') /\ plan' \subseteq rows
  <2>1. IsFiniteSet(plan \cup {row})
    BY FS_AddElement DEF Counted
  <2>2. plan' \subseteq plan \cup {row}
    BY <1>1 DEF Plan!With
  <2> QED BY <1>3, <2>1, <2>2, FS_Subset
<1> QED BY <1>2, <1>4, <1>5 DEF Counted

LEMMA GroupedCounted ==
  ASSUME PlanInv, Counted, Plan!Grouped
  PROVE  Counted'
<1> USE DEF Plan!Grouped
<1>1. /\ phase = "grouping" /\ phase' = "collapsing" /\ ahead = {} /\ ahead' = plan /\ plan' = {}
      /\ UNCHANGED <<rows, spare, limit>>
  OBVIOUS
<1>2. IsFiniteSet(plan') /\ IsFiniteSet(ahead') /\ spare' = 0
  BY <1>1, FS_EmptySet DEF Counted
<1>3. plan \subseteq rows
  BY <1>1 DEF Counted
<1>4. \A row \in rows : IsRange(row)
  BY <1>1 DEF PlanInv, Reading
<1>5. Octets(plan) = Octets(rows)
  <2>1. ASSUME NEW b, NEW row \in rows, b \in row.start .. row.end
        PROVE  \E r \in plan : b \in r.start .. r.end
    <3>1. Plan!Holds(plan \cup ahead, b)
      BY <1>4, <2>1 DEF PlanInv, Covered
    <3>2. PICK r \in plan : r.start <= b /\ b <= r.end
      BY <1>1, <3>1 DEF Plan!Holds
    <3>3. IsRange(r) /\ b \in Int
      BY <1>3, <1>4, <2>1 DEF IsRange
    <3> QED BY <3>2, <3>3 DEF IsRange
  <2>2. \A b : (\E r \in plan : b \in r.start .. r.end) <=> (\E r \in rows : b \in r.start .. r.end)
    BY <1>3, <2>1
  <2> QED BY <2>2, SameOctets
<1>6. Whole' = Chosen'
  <2>1. plan' \cup ahead' = plan
    BY <1>1
  <2> QED BY <1>1, <1>5, <2>1 DEF Whole, Chosen
<1>7. \A r \in plan' \cup ahead' : r.start \in RowStarts'
  BY <1>1, <1>3 DEF RowStarts
<1> QED BY <1>1, <1>2, <1>6, <1>7 DEF Counted

LEMMA CollapseCounted ==
  ASSUME PlanInv, Counted, Plan!Collapse
  PROVE  Counted'
<1> USE DEF Plan!Collapse
<1>1. PICK head \in ahead :
        /\ Plan!IsFirst(head, ahead)
        /\ ahead' = ahead \ {head}
        /\ \/ plan = {} /\ plan' = {head}
           \/ \E last \in plan :
                /\ Plan!IsLast(last, plan)
                /\ plan' = IF head.start > last.end + 1 THEN plan \cup {head}
                           ELSE IF head.end > last.end
                             THEN Plan!With([start |-> last.start, end |-> head.end], last)
                             ELSE plan
  OBVIOUS
<1>2. /\ phase = "collapsing" /\ phase' = "collapsing" /\ UNCHANGED <<rows, spare, limit>>
      /\ Ranging /\ IsRange(head) /\ head.start <= head.end
  BY <1>1 DEF Ranging, Sound, PlanInv
<1>3. IsFiniteSet(ahead') /\ spare' = 0 /\ head.start \in RowStarts
  BY <1>1, <1>2, FS_RemoveElement DEF Counted
<1>4. ASSUME IsFiniteSet(plan'), \A r \in plan' : r.start \in RowStarts,
             \A b : (\E r \in plan' \cup ahead' : b \in r.start .. r.end)
                      <=> (\E r \in plan \cup ahead : b \in r.start .. r.end)
      PROVE  Counted'
  <2>1. Octets(plan' \cup ahead') = Octets(plan \cup ahead)
    BY <1>4, SameOctets
  <2>2. Whole' = Chosen'
    BY <1>2, <2>1 DEF Counted, Whole, Chosen
  <2>3. \A r \in plan' \cup ahead' : r.start \in RowStarts'
    BY <1>1, <1>2, <1>4 DEF Counted, RowStarts
  <2> QED BY <1>2, <1>3, <1>4, <2>2, <2>3 DEF Counted
<1>5. CASE plan' \cup ahead' = plan \cup ahead /\ (plan' = {head} \/ plan' = plan \cup {head})
  <2>1. IsFiniteSet(plan')
    <3>1. IsFiniteSet(plan \cup {head})
      BY FS_AddElement DEF Counted
    <3>2. plan' \subseteq plan \cup {head}
      BY <1>5
    <3> QED BY <3>1, <3>2, FS_Subset
  <2>2. \A r \in plan' : r.start \in RowStarts
    BY <1>2, <1>3, <1>5 DEF Counted
  <2> QED BY <1>4, <1>5, <2>1, <2>2
<1>6. ASSUME NEW last \in plan, Plan!IsLast(last, plan),
             plan' = IF head.start > last.end + 1 THEN plan \cup {head}
                     ELSE IF head.end > last.end
                       THEN Plan!With([start |-> last.start, end |-> head.end], last)
                       ELSE plan
      PROVE  Counted'
  <2>1. IsRange(last) /\ last.start <= last.end /\ last.start < head.start
    BY <1>1, <1>2, <1>6 DEF Ranging, Sound
  <2>2. CASE head.start > last.end + 1
    <3>1. plan' = plan \cup {head} /\ plan' \cup ahead' = plan \cup ahead
      BY <1>1, <1>6, <2>2
    <3> QED BY <1>5, <3>1
  <2>3. CASE ~(head.start > last.end + 1) /\ head.end > last.end
    <3> DEFINE joined == [start |-> last.start, end |-> head.end]
    <3>1. plan' = (plan \ {last}) \cup {joined}
      BY <1>6, <2>3 DEF Plan!With
    <3>2. joined.start = last.start /\ joined.end = head.end
      OBVIOUS
    <3> HIDE DEF joined
    <3>3. IsFiniteSet(plan')
      <4>1. IsFiniteSet(plan \ {last})
        BY FS_RemoveElement DEF Counted
      <4> QED BY <3>1, <4>1, FS_AddElement
    <3>4. \A r \in plan' : r.start \in RowStarts
      BY <1>2, <1>6, <3>1, <3>2 DEF Counted
    <3>5. \A b : b \in joined.start .. joined.end <=> b \in last.start .. last.end \/ b \in head.start .. head.end
      BY <1>2, <2>1, <2>3, <3>2 DEF IsRange
    <3>6. \A b : (\E r \in plan' \cup ahead' : b \in r.start .. r.end)
                   <=> (\E r \in plan \cup ahead : b \in r.start .. r.end)
      BY <1>1, <1>6, <3>1, <3>5
    <3> QED BY <1>4, <3>3, <3>4, <3>6
  <2>4. CASE ~(head.start > last.end + 1) /\ ~(head.end > last.end)
    <3>1. plan' = plan
      BY <1>6, <2>4
    <3>2. \A b : b \in head.start .. head.end => b \in last.start .. last.end
      BY <1>2, <2>1, <2>4 DEF IsRange
    <3>3. \A b : (\E r \in plan' \cup ahead' : b \in r.start .. r.end)
                   <=> (\E r \in plan \cup ahead : b \in r.start .. r.end)
      BY <1>1, <1>6, <3>1, <3>2
    <3> QED BY <1>2, <1>4, <3>1, <3>3 DEF Counted
  <2> QED BY <2>2, <2>3, <2>4
<1>7. CASE plan = {} /\ plan' = {head}
  <2>1. plan' \cup ahead' = plan \cup ahead
    BY <1>1, <1>7
  <2> QED BY <1>5, <1>7, <2>1
<1> QED BY <1>1, <1>6, <1>7

\* The budget is a share of the selected bytes.
LEMMA BudgetCounted ==
  ASSUME Plan!PlanAssumption, PlanInv, Counted, Plan!Budget
  PROVE  Counted'
<1> USE DEF Plan!Budget
<1> DEFINE f == [r \in plan |-> Plan!Bytes(r)]
           chosen == Cardinality(Octets(plan))
<1>1. /\ phase = "collapsing" /\ phase' = "merging" /\ ahead = {} /\ ahead' = plan /\ plan' = {}
      /\ UNCHANGED <<rows, spare>>
      /\ limit' = (Plan!SumFunction(f) * SparePercent) \div 100
  OBVIOUS
<1>2. Ranging /\ IsFiniteSet(plan) /\ spare' = 0
  BY <1>1 DEF PlanInv, Counted
<1>3. /\ IsFiniteSet(Octets(plan)) /\ chosen \in Nat /\ SumFunctionOnSet(f, plan) = chosen
  <2>1. \A r \in plan : f[r] = Plan!Bytes(r)
    OBVIOUS
  <2>2. Sound(plan) /\ Apart(plan)
    BY <1>2 DEF Ranging
  <2> HIDE DEF f
  <2> QED BY <1>2, <2>1, <2>2, SumOfApart
<1>4. Plan!SumFunction(f) = chosen
  <2>1. Plan!SumFunction(f) = SumFunctionOnSet(f, DOMAIN f)
    BY DEF Plan!SumFunction, Plan!SumFunctionOnSet, Plan!FoldFunctionOnSet,
           Plan!MapThenFoldSet,
           SumFunctionOnSet, FoldFunctionOnSet, MapThenFoldSet
  <2>2. DOMAIN f = plan
    OBVIOUS
  <2> HIDE DEF f
  <2> QED BY <1>3, <2>1, <2>2
<1>5. Octets(plan) = Chosen
  <2>1. plan \cup ahead = plan
    BY <1>1
  <2> QED BY <1>1, <2>1 DEF Counted, Whole
<1>6. Whole' = Chosen /\ Chosen' = Chosen
  <2>1. plan' \cup ahead' = plan
    BY <1>1
  <2> QED BY <1>1, <1>5, <2>1 DEF Whole, Chosen
<1>7. Cardinality(Whole' \ Chosen') = 0
  <2>1. Whole' \ Chosen' = {}
    BY <1>6
  <2> QED BY <2>1, FS_EmptySet
<1> HIDE DEF f, chosen
<1>8. limit' \in Nat /\ limit' * 100 <= SparePercent * chosen
  <2>1. SparePercent \in Nat
    BY DEF Plan!PlanAssumption
  <2>2. PICK x \in Nat : x = chosen * SparePercent /\ x = SparePercent * chosen
    BY <1>3, <2>1
  <2>3. limit' = x \div 100
    BY <1>1, <1>4, <2>2
  <2> QED BY <2>2, <2>3
<1>9. limit' * 100 <= SparePercent * Cardinality(Chosen')
  BY <1>5, <1>6, <1>8 DEF chosen
<1>10. \A r \in plan' \cup ahead' : r.start \in RowStarts'
  BY <1>1 DEF Counted, RowStarts
<1>11. IsFiniteSet(plan') /\ IsFiniteSet(ahead') /\ IsFiniteSet(Whole') /\ Chosen' \subseteq Whole'
  BY <1>1, <1>2, <1>3, <1>5, <1>6, FS_EmptySet
<1>12. 0 <= limit'
  BY <1>8
<1> QED BY <1>1, <1>2, <1>7, <1>8, <1>9, <1>10, <1>11, <1>12 DEF Counted

\* A gap that is fetched has bytes of no range, thus of no message.
LEMMA MergeCounted ==
  ASSUME PlanInv, Counted, Plan!Merge
  PROVE  Counted'
<1> USE DEF Plan!Merge
<1>1. PICK head \in ahead :
        /\ Plan!IsFirst(head, ahead)
        /\ ahead' = ahead \ {head}
        /\ \/ plan' = plan \cup {head} /\ UNCHANGED spare
           \/ \E last \in plan :
                /\ Plan!IsLast(last, plan) /\ Plan!Affordable(Plan!Gap(last, head))
                /\ plan' = Plan!With([start |-> last.start, end |-> head.end], last)
                /\ spare' = spare + Plan!Gap(last, head)
  OBVIOUS
<1>2. /\ phase = "merging" /\ phase' = "merging" /\ UNCHANGED <<rows, limit>>
      /\ Ranging /\ IsRange(head) /\ head.start <= head.end
  BY <1>1 DEF Ranging, Sound, PlanInv
<1>3. IsFiniteSet(ahead') /\ head.start \in RowStarts
  BY <1>1, <1>2, FS_RemoveElement DEF Counted
<1>4. /\ IsFiniteSet(Whole) /\ Chosen \subseteq Whole /\ spare \in Nat /\ limit \in Nat
      /\ spare = Cardinality(Whole \ Chosen)
      /\ spare <= limit /\ limit * 100 <= SparePercent * Cardinality(Chosen)
      /\ Chosen' = Chosen /\ RowStarts' = RowStarts
  BY <1>2 DEF Counted, Chosen, RowStarts
<1>5. CASE plan' = plan \cup {head} /\ UNCHANGED spare
  <2>1. plan' \cup ahead' = plan \cup ahead
    BY <1>1, <1>5
  <2>2. Whole' = Whole
    BY <2>1 DEF Whole
  <2>3. IsFiniteSet(plan')
    BY <1>5, FS_AddElement DEF Counted
  <2>4. \A r \in plan' \cup ahead' : r.start \in RowStarts'
    BY <1>2, <1>4, <2>1 DEF Counted
  <2> QED BY <1>2, <1>3, <1>4, <1>5, <2>2, <2>3, <2>4 DEF Counted
<1>6. ASSUME NEW last \in plan, Plan!IsLast(last, plan), Plan!Affordable(Plan!Gap(last, head)),
             plan' = Plan!With([start |-> last.start, end |-> head.end], last),
             spare' = spare + Plan!Gap(last, head)
      PROVE  Counted'
  <2> DEFINE joined == [start |-> last.start, end |-> head.end]
             gap == (last.end + 1) .. (head.start - 1)
             extra == Whole \ Chosen
  <2>1. plan' = (plan \ {last}) \cup {joined}
    BY <1>6 DEF Plan!With
  <2>2. joined.start = last.start /\ joined.end = head.end
    OBVIOUS
  <2> HIDE DEF joined
  <2>3. /\ IsRange(last) /\ last.start <= last.end /\ last.end < head.start
        /\ \A p \in plan : p # last => IsRange(p) /\ p.end < last.start
        /\ \A t \in ahead : IsRange(t) /\ head.start <= t.start
    <3>1. \A p \in plan : p # last => p.end < last.start
      BY <1>2, <1>6, LastEndsLast DEF Ranging
    <3> QED BY <1>1, <1>2, <1>6, <3>1 DEF Ranging, Sound, Behind, Plan!IsFirst
  <2>4. IsFiniteSet(gap) /\ Cardinality(gap) = Plan!Gap(last, head) /\ Plan!Gap(last, head) \in Nat
    <3>1. PICK a \in Int, z \in Int : a = last.end + 1 /\ z = head.start - 1
      BY <1>2, <2>3 DEF IsRange
    <3>2. Plan!Gap(last, head) = z - a + 1 /\ z - a + 1 \in Nat /\ (a > z => z - a + 1 = 0)
      BY <1>2, <2>3, <3>1 DEF IsRange, Plan!Gap
    <3>3. IsFiniteSet(a .. z) /\ Cardinality(a .. z) = IF a > z THEN 0 ELSE z - a + 1
      BY FS_Interval
    <3>4. gap = a .. z
      BY <3>1
    <3> QED BY <3>2, <3>3, <3>4
  <2>5. \A b : b \in joined.start .. joined.end
               <=> b \in last.start .. last.end \/ b \in gap \/ b \in head.start .. head.end
    BY <1>2, <2>2, <2>3 DEF IsRange
  <2>6. ASSUME NEW b, b \in gap, NEW r \in plan \cup ahead, b \in r.start .. r.end PROVE FALSE
    <3>1. CASE r \in ahead
      BY <2>3, <2>6, <3>1 DEF IsRange
    <3>2. CASE r \in plan /\ r # last
      BY <2>3, <2>6, <3>2 DEF IsRange
    <3>3. CASE r = last
      BY <2>3, <2>6, <3>3 DEF IsRange
    <3> QED BY <3>1, <3>2, <3>3
  <2> HIDE DEF gap
  <2>7. \A b : b \in Whole' <=> b \in Whole \/ b \in gap
    <3>1. \A b : (\E r \in plan' \cup ahead' : b \in r.start .. r.end)
                   <=> (\E r \in plan \cup ahead : b \in r.start .. r.end) \/ b \in gap
      BY <1>1, <1>6, <2>1, <2>5
    <3> QED BY <3>1, OctetOf DEF Whole
  <2>8. Whole \cap gap = {}
    BY <2>6, OctetOf DEF Whole
  <2>9. Whole' = Whole \cup gap
    BY <2>7
  <2>10. Whole' \ Chosen' = extra \cup gap /\ extra \cap gap = {}
    BY <1>4, <2>8, <2>9
  <2>11. IsFiniteSet(extra)
    BY <1>4, FS_Difference
  <2>12. /\ IsFiniteSet(extra \cup gap)
         /\ Cardinality(extra \cup gap) = Cardinality(extra) + Cardinality(gap)
    <3> HIDE DEF extra
    <3> QED BY <2>4, <2>10, <2>11, CountApart
  <2>13. spare' \in Nat /\ spare' = Cardinality(Whole' \ Chosen')
    <3>1. Cardinality(extra) = spare
      BY <1>4
    <3> HIDE DEF extra
    <3>2. PICK gained \in Nat : gained = Plan!Gap(last, head)
      BY <2>4
    <3>3. Cardinality(extra \cup gap) = spare + gained
      BY <2>4, <2>12, <3>1, <3>2
    <3>4. Cardinality(Whole' \ Chosen') = spare + gained
      BY <2>10, <3>3
    <3>5. spare' = spare + gained /\ spare' \in Nat
      BY <1>4, <1>6, <3>2
    <3> QED BY <3>4, <3>5
  <2>14. spare' <= limit'
    BY <1>2, <1>6 DEF Plan!Affordable
  <2>15. IsFiniteSet(Whole') /\ Chosen' \subseteq Whole'
    <3>1. IsFiniteSet(Whole \cup gap)
      BY <1>4, <2>4, FS_Union
    <3> QED BY <1>4, <2>9, <3>1
  <2>16. IsFiniteSet(plan')
    <3>1. IsFiniteSet(plan \ {last})
      BY FS_RemoveElement DEF Counted
    <3> QED BY <2>1, <3>1, FS_AddElement
  <2>17. \A r \in plan' \cup ahead' : r.start \in RowStarts'
    BY <1>1, <1>2, <1>4, <1>6, <2>1, <2>2 DEF Counted
  <2>18. limit' \in Nat /\ limit' * 100 <= SparePercent * Cardinality(Chosen')
    BY <1>2, <1>4
  <2> QED BY <1>2, <1>3, <2>13, <2>14, <2>15, <2>16, <2>17, <2>18 DEF Counted
<1> QED BY <1>1, <1>5, <1>6

LEMMA SplitCounted ==
  ASSUME Plan!PlanAssumption, PlanInv, Counted, Plan!Split
  PROVE  Counted'
<1> USE DEF Plan!Split
<1>1. PICK r \in plan :
        /\ Plan!IsLargest(r)
        /\ plan' = (plan \ {r}) \cup
                     {[start |-> r.start, end |-> r.start + (Plan!Bytes(r) \div 2) - 1],
                      [start |-> r.start + (Plan!Bytes(r) \div 2) - 1 + 1, end |-> r.end]}
  OBVIOUS
<1>2. /\ phase = "splitting" /\ phase' = "splitting" /\ UNCHANGED <<rows, spare, limit>>
      /\ ahead = {} /\ ahead' = {} /\ Ranging /\ IsRange(r) /\ r.start <= r.end
  BY <1>1 DEF Ranging, Sound, PlanInv
<1>3. Plan!Bytes(r) >= 2 * MinPart /\ MinPart \in Nat \ {0} /\ Plan!Bytes(r) \in Int
  BY <1>1, <1>2 DEF Plan!IsLargest, Plan!Splittable, Plan!Bytes, IsRange,
         Plan!PlanAssumption
<1>4. PICK half \in Int : half = Plan!Bytes(r) \div 2
  BY <1>3
<1>5. MinPart <= half /\ MinPart <= Plan!Bytes(r) - half
  BY <1>3, <1>4
<1>6. PICK low : low = [start |-> r.start, end |-> r.start + half - 1]
  OBVIOUS
<1>7. PICK high : high = [start |-> r.start + half - 1 + 1, end |-> r.end]
  OBVIOUS
<1>8. /\ IsRange(low) /\ IsRange(high)
      /\ low.start = r.start /\ low.end = high.start - 1 /\ high.end = r.end
      /\ low.start <= low.end /\ high.start <= high.end
      /\ Plan!Bytes(low) >= MinPart /\ Plan!Bytes(high) >= MinPart
  BY <1>2, <1>3, <1>5, <1>6, <1>7 DEF IsRange, Plan!Bytes
<1>9. plan' = (plan \ {r}) \cup {low, high}
  BY <1>1, <1>4, <1>6, <1>7
<1>10. IsFiniteSet(plan') /\ IsFiniteSet(ahead')
  <2>1. IsFiniteSet(plan \ {r})
    BY FS_RemoveElement DEF Counted
  <2>2. IsFiniteSet((plan \ {r}) \cup {low})
    BY <2>1, FS_AddElement
  <2>3. IsFiniteSet(((plan \ {r}) \cup {low}) \cup {high})
    BY <2>2, FS_AddElement
  <2>4. plan' = ((plan \ {r}) \cup {low}) \cup {high}
    BY <1>9
  <2> QED BY <1>2, <2>3, <2>4, FS_EmptySet
<1>11. Whole' = Whole
  <2>1. \A b : b \in r.start .. r.end <=> b \in low.start .. low.end \/ b \in high.start .. high.end
    BY <1>2, <1>8 DEF IsRange
  <2>2. \A b : (\E s \in plan' \cup ahead' : b \in s.start .. s.end)
                 <=> (\E s \in plan \cup ahead : b \in s.start .. s.end)
    BY <1>1, <1>2, <1>9, <2>1
  <2> QED BY <2>2, SameOctets DEF Whole
<1>12. \A s \in plan' : s.start \in RowStarts' \/ Plan!Bytes(s) >= MinPart
  BY <1>2, <1>8, <1>9 DEF Counted, RowStarts
<1>13. Chosen' = Chosen
  BY <1>2 DEF Chosen
<1> QED BY <1>2, <1>10, <1>11, <1>12, <1>13 DEF Counted

LEMMA CountInvariance == ASSUME Plan!PlanAssumption PROVE Plan!Spec => [](PlanInv /\ Counted)
<1>1. Plan!Init => Counted
  BY FS_EmptySet DEF Plan!PlanAssumption, Plan!Init, Counted, Plan!IsFiniteSet, IsFiniteSet
<1>2. PlanInv /\ Counted /\ [Plan!Next]_(Plan!vars) => Counted'
  <2> SUFFICES ASSUME PlanInv, Counted, [Plan!Next]_(Plan!vars) PROVE Counted'
    OBVIOUS
  <2>1. CASE Plan!Refuse
    BY <2>1 DEF Plan!Refuse, Counted
  <2>2. CASE Plan!Merged
    <3>1. /\ phase = "merging" /\ phase' = "splitting" /\ ahead = {}
          /\ UNCHANGED <<rows, ahead, plan, spare, limit>>
      BY <2>2 DEF Plan!Merged
    <3>2. Whole' = Whole /\ Chosen' = Chosen /\ RowStarts' = RowStarts
      BY <3>1 DEF Whole, Chosen, RowStarts
    <3> QED BY <3>1, <3>2 DEF Counted
  <2>3. CASE Plan!Finish
    <3>1. /\ phase = "splitting" /\ phase' = "planned"
          /\ UNCHANGED <<rows, ahead, plan, spare, limit>>
      BY <2>3 DEF Plan!Finish
    <3>2. Whole' = Whole /\ Chosen' = Chosen /\ RowStarts' = RowStarts
      BY <3>1 DEF Whole, Chosen, RowStarts
    <3> QED BY <3>1, <3>2 DEF Counted
  <2>4. CASE UNCHANGED Plan!vars
    <3>1. UNCHANGED <<phase, rows, ahead, plan, spare, limit>>
      BY <2>4 DEF Plan!vars
    <3>2. Whole' = Whole /\ Chosen' = Chosen /\ RowStarts' = RowStarts
      BY <3>1 DEF Whole, Chosen, RowStarts
    <3> QED BY <3>1, <3>2 DEF Counted
  <2> QED
    BY <2>1, <2>2, <2>3, <2>4, GroupCounted, GroupedCounted, CollapseCounted, BudgetCounted,
       MergeCounted, SplitCounted DEF Plan!Next
<1> QED BY <1>1, <1>2, PlanInvariance, PTL DEF Plan!Spec

\* The behaviours of the instance that TLC checks are some of the module's.
LEMMA PlanOfInstance == MCSpec => Plan!Spec
<1>1. MCInit => Plan!Init
  BY DEF MCInit
<1>2. [TransferStep \/ PlanStep \/ WorkStep]_<<part, downloadVars, planVars, workVars>> => [Plan!Next]_(Plan!vars)
  <2> SUFFICES ASSUME [TransferStep \/ PlanStep \/ WorkStep]_<<part, downloadVars, planVars, workVars>>
               PROVE  Plan!Next \/ UNCHANGED Plan!vars
    OBVIOUS
  <2>1. PlanStep \/ UNCHANGED planVars
    BY DEF TransferStep, WorkStep
  <2>2. UNCHANGED planVars => UNCHANGED Plan!vars
    BY DEF planVars, Plan!vars
  <2> QED BY <2>1, <2>2 DEF PlanStep
<1> QED BY <1>1, <1>2, PTL DEF MCSpec, Plan!Spec

\* The plan of any inventory is exact, and what nobody selected is within one budget for
\* all gaps: the plan counts each byte it fetches beyond those of the messages.
THEOREM PlansAreSound == MCSpec => []PlanIsSound
<1>1. PlanInv => Plan!PlanIsExact
  BY PlanInvIsExact
<1>2. Plan!PlanAssumption /\ PlanInv /\ Counted => Plan!PlanIsWithinBudget
  <2> SUFFICES ASSUME Plan!PlanAssumption, PlanInv, Counted, phase = "planned"
               PROVE  Plan!PlanIsWithinBudget
    BY DEF Plan!PlanIsWithinBudget
  <2>1. Ranging /\ ahead = {} /\ plan \cup ahead = plan
    BY DEF PlanInv, Ranging
  <2>2. \A b \in Plan!Fetched : b \in Whole
    BY <2>1 DEF Plan!Fetched, Whole, Octets
  <2>3. \A b \in Whole : b \in Plan!Fetched
    BY <2>1 DEF Plan!Fetched, Whole, Octets
  <2>4. \A row \in rows : IsRange(row) /\ row.end # NoEnd
    BY <2>1 DEF Ranging, IsRange, Plan!PlanAssumption
  <2>5. ASSUME NEW b \in Whole PROVE Plan!Selected(b) <=> b \in Chosen
    <3>1. b \in Int
      <4>1. PICK r \in plan : b \in r.start .. r.end
        BY <2>1, OctetOf DEF Whole
      <4>2. IsRange(r)
        BY <2>1 DEF Ranging, Sound
      <4> QED BY <4>1, <4>2 DEF IsRange
    <3>2. \A row \in rows : (b \in row.start .. row.end) <=> (row.start <= b /\ b <= row.end)
      BY <2>4, <3>1 DEF IsRange
    <3> QED BY <2>4, <3>2, OctetOf DEF Plan!Selected, Chosen
  <2>6. /\ IsFiniteSet(Whole) /\ Chosen \subseteq Whole /\ spare \in Nat /\ limit \in Nat
        /\ spare = Cardinality(Whole \ Chosen)
        /\ spare <= limit /\ limit * 100 <= SparePercent * Cardinality(Chosen)
    BY DEF Counted
  <2>7. {b \in Plan!Fetched : ~Plan!Selected(b)} = Whole \ Chosen
    BY <2>2, <2>3, <2>5
  <2>8. {b \in Plan!Fetched : Plan!Selected(b)} = Chosen
    BY <2>2, <2>3, <2>5, <2>6
  <2>9. \A S : Plan!Cardinality(S) = Cardinality(S)
    BY DEF Plan!Cardinality, Cardinality
  <2>10. Plan!Cardinality({b \in Plan!Fetched : ~Plan!Selected(b)}) = spare
    BY <2>6, <2>7, <2>9
  <2>11. spare * 100 <= SparePercent * Plan!Cardinality({b \in Plan!Fetched : Plan!Selected(b)})
    <3>1. PICK n \in Nat : n = Cardinality(Chosen)
      BY <2>6, FS_Subset, FS_CardinalityType
    <3>2. SparePercent \in Nat
      BY DEF Plan!PlanAssumption
    <3>3. PICK most \in Nat : most = SparePercent * n
      BY <3>2
    <3>4. spare * 100 <= most
      BY <2>6, <3>1, <3>3
    <3> QED BY <2>8, <2>9, <3>1, <3>3, <3>4
  <2>12. \A r \in plan : Plan!Bytes(r) < MinPart => \E row \in rows : row.start = r.start
    <3> SUFFICES ASSUME NEW r \in plan, Plan!Bytes(r) < MinPart PROVE \E row \in rows : row.start = r.start
      OBVIOUS
    <3>1. IsRange(r) /\ MinPart \in Nat
      BY <2>1 DEF Ranging, Sound, Plan!PlanAssumption
    <3>2. ~(Plan!Bytes(r) >= MinPart)
      BY <3>1 DEF Plan!Bytes, IsRange
    <3> QED BY <3>2 DEF Counted, RowStarts
  <2> QED BY <2>10, <2>11, <2>12 DEF Plan!PlanIsWithinBudget
<1> QED BY <1>1, <1>2, CountInvariance, PlanOfInstance, RequestsAssumption, PTL
           DEF PlanIsSound

-----------------------------------------------------------------------------
(* The work the frontend holds.                                            *)

\* What the loop makes of a store, turn by turn.
Turns(stores, first, queue, discard) ==
  stores = [i \in 0 .. Len(queue) |->
             IF i = 0 THEN first
             ELSE Work!Turn(stores[i - 1], queue[i], Work!Discard(discard, i))]

LEMMA TurnsExist ==
  ASSUME NEW first, NEW S, NEW queue \in Seq(S), NEW discard
  PROVE  \E stores : Turns(stores, first, queue, discard)
<1> DEFINE Val(h, i) == IF i = 0 THEN first
                        ELSE Work!Turn(h[i - 1], queue[i], Work!Discard(discard, i))
           Upto(h, n) == h = [i \in 0 .. n |-> Val(h, i)]
           Bad == {n \in 0 .. Len(queue) : ~\E h : Upto(h, n)}
<1>1. Len(queue) \in Nat
  OBVIOUS
<1>2. CASE Bad = {}
  <2>1. PICK h : Upto(h, Len(queue))
    BY <1>1, <1>2
  <2> QED BY <2>1 DEF Turns
<1>3. CASE Bad # {}
  <2>1. PICK n \in Bad : \A m \in Bad : n =< m
    <3>1. Bad \subseteq Nat
      OBVIOUS
    <3> HIDE DEF Bad
    <3> QED BY <1>3, <3>1, LeastNumber
  <2>2. n \in 0 .. Len(queue) /\ ~\E h : Upto(h, n)
    BY <2>1
  <2>3. n # 0
    <3>1. ASSUME n = 0 PROVE Upto([i \in 0 .. n |-> first], n)
      BY <3>1
    <3> QED BY <2>2, <3>1
  <2>4. n - 1 \in 0 .. Len(queue) /\ ~(n =< n - 1)
    BY <1>1, <2>2, <2>3
  <2>5. PICK h : Upto(h, n - 1)
    BY <2>1, <2>4
  <2> DEFINE g == [i \in 0 .. n |-> IF i = n THEN Val(h, n) ELSE h[i]]
  <2>6. ASSUME NEW i \in 0 .. n PROVE g[i] = Val(g, i)
    <3>1. CASE i = n
      <4>1. g[i - 1] = h[i - 1]
        BY <2>2, <2>3, <3>1
      <4> QED BY <2>3, <3>1, <4>1
    <3>2. CASE i # n
      <4>1. i \in 0 .. n - 1 /\ g[i] = h[i]
        BY <2>2, <3>2
      <4>2. h[i] = Val(h, i)
        BY <2>5, <4>1
      <4>3. i # 0 => g[i - 1] = h[i - 1]
        BY <2>2, <4>1
      <4> HIDE DEF g
      <4> QED BY <4>1, <4>2, <4>3
    <3> QED BY <3>1, <3>2
  <2>7. Upto(g, n)
    <3>1. g = [i \in 0 .. n |-> g[i]]
      OBVIOUS
    <3> HIDE DEF g, Val
    <3> QED BY <2>6, <3>1
  <2> QED BY <2>2, <2>7
<1> QED BY <1>2, <1>3

\* A sequence without the first of some element, if it has one.
LEMMA FirstIsRemoved ==
  ASSUME NEW S, NEW seq \in Seq(S), NEW x
  PROVE  /\ Work!RemoveFirst(seq, x) \in Seq(S)
         /\ \A y \in Elements(seq) : y # x => y \in Elements(Work!RemoveFirst(seq, x))
<1> DEFINE I == {i \in 1 .. Len(seq) : seq[i] = x}
           rest == Work!RemoveFirst(seq, x)
<1>1. CASE I = {}
  BY <1>1 DEF Work!RemoveFirst
<1>2. CASE I # {}
  <2>1. rest = Without(seq, Work!Min(I))
    BY <1>2 DEF Work!RemoveFirst, Work!SelectInSeq, Work!RemoveAt, Without
  <2>2. Work!Min(I) \in I
    <3>1. I \subseteq Nat
      OBVIOUS
    <3> HIDE DEF I
    <3> QED BY <1>2, <3>1, LeastNumber DEF Work!Min
  <2>3. PICK i \in 1 .. Len(seq) : seq[i] = x /\ rest = Without(seq, i)
    BY <2>1, <2>2
  <2> HIDE DEF rest
  <2>4. rest \in Seq(S) /\ Elements(rest) \cup {seq[i]} = Elements(seq)
    <3> HIDE DEF I
    <3> QED BY <2>3, WithoutOne
  <2> QED BY <2>3, <2>4 DEF rest
<1> QED BY <1>1, <1>2

\* One turn loses no work but that of the sounding it was to discard, and changes no
\* view of a sounding that stays.
Store(Looks) ==
  [open : Seq(Soundings), activeId : Soundings \cup {None}, views : [ViewIds -> Looks],
   pending : Seq(Work!Changes)]

Keeps(old, new, gone, discard) ==
  /\ \A s \in Elements(old.open) :
       s \in Elements(new.open)
       \/ (s = gone /\ (discard \/ ~Work!soundingHasWork(old.views, s)))
  /\ \A v \in ViewIds :
       new.views[v] = old.views[v]
       \/ (new.views[v] = Work!INITIAL_VIEW /\ SoundingOf[v] \notin Elements(new.open))

LEMMA TurnKeeps ==
  ASSUME NEW Looks, Work!INITIAL_VIEW \in Looks,
         NEW store \in Store(Looks), NEW change \in Work!Changes, NEW discard \in BOOLEAN,
         NEW next, next = Work!Turn(store, change, discard),
         NEW gone, gone = Work!removalCandidate(store.open, store.views, change)
  PROVE  next \in Store(Looks) /\ Keeps(store, next, gone, discard)
<1> DEFINE kept == Work!RemoveFirst(store.open, gone)
           rest == Work!RemoveFirst(kept, change.id)
           opened == IF change.kind = "open" THEN <<change.id>> \o rest ELSE kept
           active == IF change.kind = "open" THEN change.id
                     ELSE IF store.activeId # change.id THEN store.activeId
                     ELSE IF opened = <<>> THEN None ELSE Head(opened)
           seen == [v \in ViewIds |->
                      IF SoundingOf[v] \in Work!ToSet(opened) THEN store.views[v]
                      ELSE Work!INITIAL_VIEW]
           waits == store.pending # <<>> \/ (Work!soundingHasWork(store.views, gone) /\ ~discard)
<1>1. /\ store.open \in Seq(Soundings) /\ store.activeId \in Soundings \cup {None}
      /\ store.views \in [ViewIds -> Looks] /\ store.pending \in Seq(Work!Changes)
      /\ change.id \in Soundings
  BY DEF Store, Work!Changes
<1>2. next = IF waits THEN [store EXCEPT !.pending = Append(@, change)]
             ELSE [open |-> opened, activeId |-> active, views |-> seen, pending |-> <<>>]
  BY DEF Work!Turn
<1>3. CASE waits
  <2> HIDE DEF waits
  <2>1. next = [store EXCEPT !.pending = Append(store.pending, change)]
    BY <1>2, <1>3
  <2>2. Append(store.pending, change) \in Seq(Work!Changes)
    BY <1>1, AppendProperties
  <2>3. next \in Store(Looks) /\ next.open = store.open /\ next.views = store.views
    BY <1>1, <2>1, <2>2 DEF Store
  <2>4. \A s \in Elements(store.open) : s \in Elements(next.open)
    BY <2>3
  <2>5. \A v \in ViewIds : next.views[v] = store.views[v]
    BY <2>3
  <2> QED BY <2>3, <2>4, <2>5 DEF Keeps
<1>4. CASE ~waits
  <2>1. /\ kept \in Seq(Soundings)
        /\ \A s \in Elements(store.open) : s # gone => s \in Elements(kept)
    BY <1>1, FirstIsRemoved
  <2>2. discard \/ ~Work!soundingHasWork(store.views, gone)
    BY <1>4
  <2>3. next = [open |-> opened, activeId |-> active, views |-> seen, pending |-> <<>>]
    <3> HIDE DEF waits, opened, active, seen
    <3> QED BY <1>2, <1>4
  <2> HIDE DEF kept
  <2>4. /\ rest \in Seq(Soundings)
        /\ \A s \in Elements(kept) : s # change.id => s \in Elements(rest)
    BY <1>1, <2>1, FirstIsRemoved
  <2> HIDE DEF rest
  <2>5. opened \in Seq(Soundings) /\ \A s \in Elements(kept) : s \in Elements(opened)
    <3>1. CASE change.kind = "open"
      <4>1. <<change.id>> \in Seq(Soundings) /\ Len(<<change.id>>) = 1 /\ <<change.id>>[1] = change.id
        BY <1>1
      <4>2. PICK one : one = <<change.id>>
        OBVIOUS
      <4>3. /\ one \o rest \in Seq(Soundings) /\ Len(one \o rest) = Len(one) + Len(rest)
            /\ \A j \in 1 .. Len(one \o rest) :
                 (one \o rest)[j] = IF j =< Len(one) THEN one[j] ELSE rest[j - Len(one)]
        BY <2>4, <4>1, <4>2, ConcatProperties
      <4>4. PICK whole : whole = one \o rest
        OBVIOUS
      <4>5. /\ whole \in Seq(Soundings) /\ Len(whole) = 1 + Len(rest)
            /\ whole[1] = change.id /\ \A j \in 1 .. Len(rest) : whole[j + 1] = rest[j]
        BY <2>4, <4>1, <4>2, <4>3, <4>4
      <4>6. change.id \in Elements(whole) /\ \A s \in Elements(rest) : s \in Elements(whole)
        <5>1. 1 \in DOMAIN whole /\ \A j \in DOMAIN rest : j + 1 \in DOMAIN whole /\ whole[j + 1] = rest[j]
          BY <2>4, <4>5
        <5> QED BY <4>5, <5>1 DEF Elements
      <4> QED BY <2>4, <3>1, <4>2, <4>4, <4>5, <4>6
    <3> QED BY <2>1, <3>1
  <2> HIDE DEF opened
  <2>6. active \in Soundings \cup {None}
    BY <1>1, <2>5
  <2> HIDE DEF active
  <2>7. seen \in [ViewIds -> Looks]
    BY <1>1
  <2>8. \A v \in ViewIds : seen[v] = store.views[v]
                            \/ (seen[v] = Work!INITIAL_VIEW /\ SoundingOf[v] \notin Elements(opened))
    <3>1. Work!ToSet(opened) = Elements(opened)
      BY DEF Elements, Work!ToSet
    <3>2. \A v \in ViewIds : seen[v] = IF SoundingOf[v] \in Work!ToSet(opened) THEN store.views[v]
                                       ELSE Work!INITIAL_VIEW
      OBVIOUS
    <3> HIDE DEF seen
    <3> QED BY <3>1, <3>2
  <2> HIDE DEF seen
  <2>9. <<>> \in Seq(Work!Changes)
    OBVIOUS
  <2>10. next \in Store(Looks) /\ next.open = opened /\ next.views = seen
    BY <2>3, <2>5, <2>6, <2>7, <2>9 DEF Store
  <2>11. \A s \in Elements(store.open) :
            s \in Elements(next.open)
            \/ (s = gone /\ (discard \/ ~Work!soundingHasWork(store.views, s)))
    BY <2>1, <2>2, <2>5, <2>10
  <2> QED BY <2>8, <2>10, <2>11 DEF Keeps
<1> QED BY <1>3, <1>4

\* The loop keeps the work of every sounding that is open but the one it may discard,
\* and every view it does not forget.
KeepsAll(old, new, queue, discard) ==
  /\ \A v \in ViewIds : new.views[v] \in {old.views[v], Work!INITIAL_VIEW}
  /\ \A s \in Elements(old.open) :
       \/ s \in Elements(new.open)
       \/ ~Work!soundingHasWork(old.views, s)
       \/ /\ discard /\ queue # <<>>
          /\ s = Work!removalCandidate(old.open, old.views, queue[1])

LEMMA LoopKeeps ==
  ASSUME NEW Looks, Work!INITIAL_VIEW \in Looks,
         NEW first \in Store(Looks), first.pending = <<>>,
         NEW queue \in Seq(Work!Changes), NEW discard \in BOOLEAN,
         NEW stores, Turns(stores, first, queue, discard),
         NEW left, left = stores[Len(queue)]
  PROVE  left \in Store(Looks) /\ KeepsAll(first, left, queue, discard)
<1> DEFINE gone == Work!removalCandidate(first.open, first.views, queue[1])
           spared(s) == /\ Work!soundingHasWork(first.views, s)
                        /\ discard /\ queue # <<>> => s # gone
           Good(i) == /\ stores[i] \in Store(Looks)
                      /\ \A v \in ViewIds : stores[i].views[v] \in {first.views[v], Work!INITIAL_VIEW}
                      /\ \A s \in Elements(first.open) : spared(s) =>
                           /\ s \in Elements(stores[i].open)
                           /\ \A v \in ViewIds : SoundingOf[v] = s => stores[i].views[v] = first.views[v]
           Bad == {i \in 0 .. Len(queue) : ~Good(i)}
<1>1. Len(queue) \in Nat
  OBVIOUS
<1>2. stores[0] = first
  BY <1>1 DEF Turns
<1>3. Good(0)
  BY <1>2
<1>4. ASSUME NEW i \in 1 .. Len(queue), Good(i - 1) PROVE Good(i)
  <2> DEFINE old == stores[i - 1]
             new == stores[i]
             consent == Work!Discard(discard, i)
             out == Work!removalCandidate(old.open, old.views, queue[i])
  <2>1. new = Work!Turn(old, queue[i], consent)
    BY <1>1 DEF Turns
  <2>2. old \in Store(Looks) /\ queue[i] \in Work!Changes /\ consent \in BOOLEAN
    <3>1. consent \in BOOLEAN
      BY DEF Work!Discard
    <3> HIDE DEF consent
    <3>2. queue[i] \in Work!Changes
      OBVIOUS
    <3> QED BY <1>4, <3>1, <3>2
  <2> HIDE DEF old, new, consent, out
  <2>3. out = Work!removalCandidate(old.open, old.views, queue[i])
    BY DEF out
  <2>4. new \in Store(Looks) /\ Keeps(old, new, out, consent)
    BY <2>1, <2>2, <2>3, TurnKeeps
  <2>5. \A v \in ViewIds : new.views[v] \in {first.views[v], Work!INITIAL_VIEW}
    <3>1. \A v \in ViewIds : old.views[v] \in {first.views[v], Work!INITIAL_VIEW}
      BY <1>4 DEF old
    <3> QED BY <2>4, <3>1 DEF Keeps
  <2>6. ASSUME NEW s \in Elements(first.open), spared(s)
        PROVE  /\ s \in Elements(new.open)
               /\ \A v \in ViewIds : SoundingOf[v] = s => new.views[v] = first.views[v]
    <3>1. /\ s \in Elements(old.open)
          /\ \A v \in ViewIds : SoundingOf[v] = s => old.views[v] = first.views[v]
      BY <1>4, <2>6 DEF old
    <3>2. Work!soundingHasWork(first.views, s)
      BY <2>6
    <3>3. Work!soundingHasWork(old.views, s)
      BY <3>1, <3>2 DEF Work!soundingHasWork
    <3>4. s \in Elements(new.open)
      <4>1. CASE consent
        <5>1. discard /\ i = 1
          BY <4>1 DEF consent, Work!Discard
        <5>2. old = first /\ queue # <<>> /\ out = gone
          BY <1>2, <5>1 DEF old, out
        <5>3. s # gone
          BY <2>6, <5>1, <5>2
        <5> QED BY <2>4, <3>1, <5>2, <5>3 DEF Keeps
      <4>2. CASE ~consent
        BY <2>4, <3>1, <3>3, <4>2 DEF Keeps
      <4> QED BY <4>1, <4>2
    <3> QED BY <2>4, <3>1, <3>4 DEF Keeps
  <2> QED BY <2>4, <2>5, <2>6 DEF new
<1>5. CASE Bad # {}
  <2>1. PICK i \in Bad : \A j \in Bad : i =< j
    <3>1. Bad \subseteq Nat
      OBVIOUS
    <3> HIDE DEF Bad
    <3> QED BY <1>5, <3>1, LeastNumber
  <2>2. i \in 0 .. Len(queue) /\ ~Good(i)
    BY <2>1
  <2> HIDE DEF Good
  <2>3. i \in 1 .. Len(queue)
    BY <1>1, <1>3, <2>2
  <2>4. i - 1 \in 0 .. Len(queue) /\ ~(i =< i - 1)
    BY <1>1, <2>3
  <2>5. Good(i - 1)
    BY <2>1, <2>4
  <2> QED BY <1>4, <2>2, <2>3, <2>5
<1>6. CASE Bad = {}
  <2>1. Good(Len(queue))
    <3> HIDE DEF Good
    <3> QED BY <1>1, <1>6
  <2>2. /\ left \in Store(Looks)
        /\ \A v \in ViewIds : left.views[v] \in {first.views[v], Work!INITIAL_VIEW}
        /\ \A s \in Elements(first.open) : spared(s) => s \in Elements(left.open)
    BY <2>1
  <2> HIDE DEF gone
  <2>3. \A s \in Elements(first.open) :
              \/ s \in Elements(left.open)
              \/ ~Work!soundingHasWork(first.views, s)
              \/ discard /\ queue # <<>> /\ s = gone
    BY <2>2
  <2> QED BY <2>2, <2>3 DEF gone, KeepsAll
<1> QED BY <1>5, <1>6

-----------------------------------------------------------------------------
\* The store has views of its kind only, and none is newer than the last edit.
StoreType ==
  /\ open \in Seq(Soundings) /\ activeId \in Soundings \cup {None}
  /\ views \in [ViewIds -> Work!View] /\ pendingChanges \in Seq(Work!Changes)
  /\ edits \in 0 .. MaxEdits

Dated(vs) == vs \in [ViewIds -> Work!View] /\ \A v \in ViewIds : vs[v].stamp =< edits

\* What was done since the last approval is known while the update downloads: work
\* that is no view is noted, and a view is newer than the one that was reviewed.
Reviewed ==
  status = "downloading" =>
    /\ drafted => soundingWorkChanged
    /\ \A v \in ViewIds : v \in unseen /\ views[v].work => reviewedViews[v].stamp < views[v].stamp

WorkInv == StoreType /\ Dated(views) /\ Dated(reviewedViews) /\ Reviewed

LEMMA InitialView == Work!SoundingAssumption => Work!INITIAL_VIEW \in Work!View /\ Work!INITIAL_VIEW.stamp = 0
BY DEF Work!SoundingAssumption, Work!INITIAL_VIEW, Work!View

LEMMA ChangesKeep ==
  ASSUME Work!SoundingAssumption, StoreType, NEW queue \in Seq(Work!Changes), NEW discard \in BOOLEAN,
         Work!ApplyChanges(queue, discard)
  PROVE  /\ open' \in Seq(Soundings) /\ activeId' \in Soundings \cup {None}
         /\ views' \in [ViewIds -> Work!View] /\ pendingChanges' \in Seq(Work!Changes)
         /\ \A v \in ViewIds : views'[v] \in {views[v], Work!INITIAL_VIEW}
         /\ \A s \in Elements(open) :
              \/ s \in Elements(open')
              \/ ~Work!soundingHasWork(views, s)
              \/ /\ discard /\ queue # <<>>
                 /\ s = Work!removalCandidate(open, views, queue[1])
<1> DEFINE first == [open |-> open, activeId |-> activeId, views |-> views, pending |-> <<>>]
           stores == CHOOSE h : Turns(h, first, queue, discard)
<1>1. Turns(stores, first, queue, discard)
  BY TurnsExist
<1>2. /\ open' = stores[Len(queue)].open /\ activeId' = stores[Len(queue)].activeId
      /\ views' = stores[Len(queue)].views /\ pendingChanges' = stores[Len(queue)].pending
  BY DEF Work!ApplyChanges, Turns
<1>3. first \in Store(Work!View) /\ first.pending = <<>> /\ first.open = open /\ first.views = views
  BY DEF StoreType, Store
<1> HIDE DEF first, stores
<1>4. PICK left : left = stores[Len(queue)]
  OBVIOUS
<1>5. left \in Store(Work!View) /\ KeepsAll(first, left, queue, discard)
  BY <1>1, <1>3, <1>4, InitialView, LoopKeeps
<1>6. open' = left.open /\ activeId' = left.activeId /\ views' = left.views /\ pendingChanges' = left.pending
  BY <1>2, <1>4
<1>7. /\ left.open \in Seq(Soundings) /\ left.activeId \in Soundings \cup {None}
      /\ left.views \in [ViewIds -> Work!View] /\ left.pending \in Seq(Work!Changes)
  BY <1>5 DEF Store
<1> QED BY <1>3, <1>5, <1>6, <1>7 DEF KeepsAll

\* Views that are forgotten with their sounding hold no work.
LEMMA ForgetStep ==
  ASSUME Work!SoundingAssumption, WorkInv,
         open' \in Seq(Soundings), activeId' \in Soundings \cup {None},
         views' \in [ViewIds -> Work!View], pendingChanges' \in Seq(Work!Changes),
         \A v \in ViewIds : views'[v] \in {views[v], Work!INITIAL_VIEW},
         UNCHANGED <<status, soundingWorkChanged, reviewedViews, edits, unseen, drafted>>
  PROVE  WorkInv'
<1>1. StoreType'
  BY DEF WorkInv, StoreType
<1>2. Dated(views)'
  <2>1. \A v \in ViewIds : views'[v].stamp =< edits
    BY InitialView DEF WorkInv, Dated, StoreType, Work!SoundingAssumption
  <2> QED BY <2>1 DEF Dated
<1>3. Dated(reviewedViews)'
  BY DEF WorkInv, Dated
<1>4. Reviewed'
  <2>1. ~Work!INITIAL_VIEW.work
    BY DEF Work!INITIAL_VIEW
  <2>2. \A v \in ViewIds : views'[v].work => views'[v] = views[v]
    BY <2>1
  <2> QED BY <2>2 DEF WorkInv, Reviewed
<1> QED BY <1>1, <1>2, <1>3, <1>4 DEF WorkInv

\* A view that is set is newer than all there are.
LEMMA ViewStep ==
  ASSUME Work!SoundingAssumption, WorkInv, NEW v \in ViewIds, NEW work \in BOOLEAN, Work!SetView(v, work),
         UNCHANGED <<open, activeId, pendingChanges, status, soundingWorkChanged, reviewedViews, drafted>>
  PROVE  WorkInv'
<1>1. CASE SoundingOf[v] \in Work!ToSet(open)
  <2>1. PICK new : new = [stamp |-> edits + 1, work |-> work]
    OBVIOUS
  <2>2. /\ edits < MaxEdits /\ edits' = edits + 1
        /\ views' = [views EXCEPT ![v] = new] /\ unseen' = unseen \cup {v}
    BY <1>1, <2>1 DEF Work!SetView
  <2>3. edits \in Nat /\ MaxEdits \in Nat
    BY DEF WorkInv, StoreType, Work!SoundingAssumption
  <2>4. new \in Work!View /\ new.stamp = edits + 1
    BY <2>1, <2>2, <2>3 DEF Work!View
  <2>5. /\ views' \in [ViewIds -> Work!View] /\ views'[v] = new
        /\ \A x \in ViewIds : x # v => views'[x] = views[x]
    BY <2>2, <2>4 DEF WorkInv, StoreType
  <2>6. StoreType'
    BY <2>2, <2>3, <2>5 DEF WorkInv, StoreType
  <2>7. \A x \in ViewIds : views[x].stamp \in Nat /\ reviewedViews[x].stamp \in Nat
    BY <2>3 DEF WorkInv, Dated, Work!View
  <2>8. Dated(views)'
    BY <2>2, <2>3, <2>4, <2>5, <2>7 DEF WorkInv, Dated
  <2>9. Dated(reviewedViews)'
    BY <2>2, <2>3, <2>7 DEF WorkInv, Dated
  <2>10. reviewedViews[v].stamp < views'[v].stamp
    BY <2>3, <2>4, <2>5, <2>7 DEF WorkInv, Dated
  <2>11. Reviewed'
    BY <2>2, <2>5, <2>10 DEF WorkInv, Reviewed
  <2> QED BY <2>6, <2>8, <2>9, <2>11 DEF WorkInv
<1>2. CASE SoundingOf[v] \notin Work!ToSet(open)
  <2>1. UNCHANGED <<views, edits, unseen>>
    BY <1>2 DEF Work!SetView
  <2> QED BY <2>1 DEF WorkInv, StoreType, Dated, Reviewed
<1> QED BY <1>1, <1>2

\* A step of the update leaves the soundings alone, and a review begins the count anew.
LEMMA UpdateStep ==
  ASSUME Work!SoundingAssumption, WorkInv,
         UNCHANGED <<open, activeId, views, pendingChanges, edits>>,
         Dated(reviewedViews'),
         \/ status' # "downloading"
         \/ /\ UNCHANGED <<status, reviewedViews, unseen>>
            /\ (status = "downloading" /\ drafted' => soundingWorkChanged')
         \/ unseen' = {} /\ drafted' = FALSE
  PROVE  WorkInv'
<1>1. StoreType' /\ Dated(views)'
  BY DEF WorkInv, StoreType, Dated
<1>2. Dated(reviewedViews)'
  BY DEF Dated
<1>3. Reviewed'
  BY DEF WorkInv, Reviewed
<1> QED BY <1>1, <1>2, <1>3 DEF WorkInv

\* The calls of the store, the edits and what is done of the update.
Calls ==
  \/ \E s \in Soundings : Work!Add(s) \/ Work!Close(s)
  \/ \E discard \in BOOLEAN : Work!ResolveDiscard(discard)

LEMMA CallsStep ==
  ASSUME Work!SoundingAssumption, WorkInv, Calls
  PROVE  WorkInv'
<1>1. ASSUME NEW queue \in Seq(Work!Changes), NEW discard \in BOOLEAN, Work!ApplyChanges(queue, discard)
      PROVE  WorkInv'
  <2>1. UNCHANGED <<status, soundingWorkChanged, reviewedViews, edits, unseen, drafted>>
    BY <1>1 DEF Work!ApplyChanges, Work!updateVars, Work!history
  <2>2. /\ open' \in Seq(Soundings) /\ activeId' \in Soundings \cup {None}
        /\ views' \in [ViewIds -> Work!View] /\ pendingChanges' \in Seq(Work!Changes)
        /\ \A v \in ViewIds : views'[v] \in {views[v], Work!INITIAL_VIEW}
    BY <1>1, ChangesKeep DEF WorkInv
  <2> QED BY <2>1, <2>2, ForgetStep
<1>2. pendingChanges \in Seq(Work!Changes)
  BY DEF WorkInv, StoreType
<1>3. ASSUME NEW s \in Soundings, NEW kind \in {"open", "close"}
      PROVE  Append(pendingChanges, [kind |-> kind, id |-> s]) \in Seq(Work!Changes)
  <2>1. [kind |-> kind, id |-> s] \in Work!Changes
    BY DEF Work!Changes
  <2> QED BY <1>2, <2>1, AppendProperties
<1>4. ASSUME NEW s \in Soundings, Work!Add(s) PROVE WorkInv'
  BY <1>1, <1>3, <1>4 DEF Work!Add
<1>5. ASSUME NEW s \in Soundings, Work!Close(s) PROVE WorkInv'
  BY <1>1, <1>3, <1>5 DEF Work!Close
<1>6. ASSUME NEW discard \in BOOLEAN, Work!ResolveDiscard(discard) PROVE WorkInv'
  <2>1. pendingChanges # <<>> /\ Tail(pendingChanges) \in Seq(Work!Changes)
    BY <1>2, <1>6 DEF Work!ResolveDiscard
  <2> QED BY <1>1, <1>2, <1>6, <2>1 DEF Work!ResolveDiscard
<1> QED BY <1>4, <1>5, <1>6 DEF Calls

LEMMA SoundingStep ==
  ASSUME Work!SoundingAssumption, WorkInv, [Work!Next]_(Work!vars)
  PROVE  WorkInv'
<1> USE DEF Work!storeVars, Work!updateVars, Work!history
<1>1. CASE Calls
  BY <1>1, CallsStep
<1>2. ASSUME NEW s \in Soundings, Work!SetActive(s) PROVE WorkInv'
  BY <1>2 DEF Work!SetActive, WorkInv, StoreType, Dated, Reviewed
<1>3. CASE Work!BridgeUp
  <2>1. UNCHANGED <<status, soundingWorkChanged, reviewedViews, edits, unseen, drafted>>
    BY <1>3 DEF Work!BridgeUp
  <2>2. CASE UNCHANGED <<open, activeId, views, pendingChanges>>
    BY <2>1, <2>2 DEF WorkInv, StoreType, Dated, Reviewed
  <2>3. CASE /\ open' = <<>> /\ activeId' = None /\ pendingChanges' = <<>>
             /\ views' = [v \in ViewIds |-> Work!INITIAL_VIEW]
    <3>1. /\ open' \in Seq(Soundings) /\ activeId' \in Soundings \cup {None}
          /\ pendingChanges' \in Seq(Work!Changes)
      BY <2>3
    <3>2. views' \in [ViewIds -> Work!View] /\ \A v \in ViewIds : views'[v] = Work!INITIAL_VIEW
      BY <2>3, InitialView
    <3> QED BY <2>1, <3>1, <3>2, ForgetStep
  <2> QED BY <1>3, <2>2, <2>3 DEF Work!BridgeUp
<1>4. ASSUME NEW v \in ViewIds, Work!Draft(v) \/ Work!BeginEdit(v) PROVE WorkInv'
  <2>1. /\ UNCHANGED <<open, activeId, views, pendingChanges, edits, status, reviewedViews, unseen>>
        /\ soundingWorkChanged' = (soundingWorkChanged \/ status = "downloading")
    BY <1>4 DEF Work!Draft, Work!BeginEdit, Work!noteSoundingWork
  <2>2. Dated(reviewedViews') /\ (status = "downloading" /\ drafted' => soundingWorkChanged')
    BY <2>1 DEF WorkInv, Dated
  <2> QED BY <2>1, <2>2, UpdateStep
<1>5. ASSUME NEW v \in ViewIds, Work!EditSucceeds(v) PROVE WorkInv'
  <2>1. UNCHANGED <<open, activeId, pendingChanges, status, soundingWorkChanged, reviewedViews, drafted>>
    BY <1>5 DEF Work!EditSucceeds
  <2>2. CASE Work!SetView(v, TRUE)
    BY <2>1, <2>2, ViewStep
  <2>3. CASE UNCHANGED <<views, edits, unseen>>
    BY <2>1, <2>3 DEF WorkInv, StoreType, Dated, Reviewed
  <2> QED BY <1>5, <2>2, <2>3 DEF Work!EditSucceeds
<1>6. ASSUME NEW v \in ViewIds, Work!EditFails(v) PROVE WorkInv'
  BY <1>6 DEF Work!EditFails, WorkInv, StoreType, Dated, Reviewed
<1>7. ASSUME NEW v \in ViewIds, NEW work \in BOOLEAN, Work!UpdateView(v, work) PROVE WorkInv'
  BY <1>7, ViewStep DEF Work!UpdateView
<1>8. CASE Work!CheckBegins \/ Work!CheckEnds \/ Work!Install \/ Work!ReviewRefused \/ Work!InstallFails
  <2>1. /\ UNCHANGED <<open, activeId, views, pendingChanges, edits, reviewedViews>>
        /\ status' # "downloading"
    BY <1>8 DEF Work!CheckBegins, Work!CheckEnds, Work!Install, Work!ReviewRefused,
           Work!InstallFails, Work!Becomes
  <2>2. Dated(reviewedViews')
    BY <2>1 DEF WorkInv, Dated
  <2> QED BY <2>1, <2>2, UpdateStep
<1>9. CASE Work!ReviewApproved
  <2>1. /\ UNCHANGED <<open, activeId, views, pendingChanges, edits>>
        /\ unseen' = {} /\ drafted' = FALSE /\ reviewedViews' \in {views, reviewedViews}
    BY <1>9 DEF Work!ReviewApproved, Work!Becomes, Work!InstallBegins
  <2>2. Dated(reviewedViews')
    BY <2>1 DEF WorkInv, Dated
  <2> QED BY <2>1, <2>2, UpdateStep
<1>10. CASE Work!DownloadEnds \/ Work!DownloadFails
  <2>1. /\ UNCHANGED <<open, activeId, views, pendingChanges, edits>>
        /\ status' # "downloading" /\ reviewedViews' = [v \in ViewIds |-> Work!INITIAL_VIEW]
    BY <1>10 DEF Work!DownloadEnds, Work!DownloadFails, Work!DownloadOver, Work!Becomes,
           Work!InstallBegins
  <2>2. Dated(reviewedViews')
    <3>1. edits \in Nat /\ edits' = edits
      BY <2>1 DEF WorkInv, StoreType
    <3> QED BY <2>1, <3>1, InitialView DEF Dated
  <2> QED BY <2>1, <2>2, UpdateStep
<1>11. CASE UNCHANGED Work!vars
  <2>1. UNCHANGED <<open, activeId, views, pendingChanges, status, soundingWorkChanged, reviewedViews, edits, unseen, drafted>>
    BY <1>11 DEF Work!vars
  <2> QED BY <2>1 DEF WorkInv, StoreType, Dated, Reviewed
<1> QED
  BY <1>1, <1>2, <1>3, <1>4, <1>5, <1>6, <1>7, <1>8, <1>9, <1>10, <1>11 DEF Work!Next, Calls

LEMMA WorkInvariance == Work!SoundingAssumption => (Work!Spec => []WorkInv)
<1> SUFFICES ASSUME Work!SoundingAssumption PROVE Work!Spec => []WorkInv
  OBVIOUS
<1>1. Work!Init => WorkInv
  <2> SUFFICES ASSUME Work!Init PROVE WorkInv
    OBVIOUS
  <2> USE DEF Work!Init
  <2>1. StoreType
    <3>1. <<>> \in Seq(Soundings) /\ <<>> \in Seq(Work!Changes) /\ 0 \in 0 .. MaxEdits
      BY DEF Work!SoundingAssumption
    <3> QED BY <3>1, InitialView DEF StoreType
  <2>2. Dated(views) /\ Dated(reviewedViews)
    BY InitialView DEF Dated
  <2> QED BY <2>1, <2>2 DEF WorkInv, Reviewed
<1>2. WorkInv /\ [Work!Next]_(Work!vars) => WorkInv'
  BY SoundingStep
<1> QED BY <1>1, <1>2, PTL DEF Work!Spec

\* The behaviours of the instance that TLC checks are some of the module's.
LEMMA WorkOfInstance == MCSpec => Work!Spec
<1>1. MCInit => Work!Init
  BY DEF MCInit
<1>2. [TransferStep \/ PlanStep \/ WorkStep]_<<part, downloadVars, planVars, workVars>> => [Work!Next]_(Work!vars)
  <2> SUFFICES ASSUME [TransferStep \/ PlanStep \/ WorkStep]_<<part, downloadVars, planVars, workVars>>
               PROVE  Work!Next \/ UNCHANGED Work!vars
    OBVIOUS
  <2>1. WorkStep \/ UNCHANGED workVars
    BY DEF TransferStep, PlanStep
  <2>2. UNCHANGED workVars => UNCHANGED Work!vars
    BY DEF workVars, Work!vars, Work!storeVars, Work!updateVars, Work!history
  <2> QED BY <2>1, <2>2 DEF WorkStep
<1> QED BY <1>1, <1>2, PTL DEF MCSpec, Work!Spec

\* The update ends the application with reviewed work only, however work and download
\* take turns: UnreviewedWork sees all that was done since the last approval.
THEOREM UpdatesAreReviewed == MCSpec => InstallIsReviewed
<1> DEFINE Step == status # "installing" /\ status' = "installing" =>
                     /\ ~drafted'
                     /\ \A v \in ViewIds : views[v].work => v \notin unseen'
<1>1. WorkInv /\ [Work!Next]_(Work!vars) => [Step]_(Work!vars)
  <2> SUFFICES ASSUME WorkInv, Work!Next, status # "installing", status' = "installing"
               PROVE  /\ ~drafted'
                      /\ \A v \in ViewIds : views[v].work => v \notin unseen'
    BY DEF Work!vars
  <2>1. Work!ReviewApproved \/ Work!DownloadEnds
    BY DEF Work!Next, Work!Add, Work!Close, Work!SetActive, Work!ResolveDiscard,
           Work!ApplyChanges,
           Work!BridgeUp, Work!Draft, Work!BeginEdit, Work!EditSucceeds, Work!EditFails, Work!UpdateView,
           Work!noteSoundingWork, Work!CheckBegins, Work!CheckEnds, Work!Install, Work!ReviewRefused,
           Work!DownloadFails, Work!InstallFails, Work!Becomes, Work!updateVars
  <2>2. CASE Work!ReviewApproved
    BY <2>2 DEF Work!ReviewApproved
  <2>3. CASE Work!DownloadEnds
    <3>1. /\ status = "downloading" /\ UNCHANGED <<unseen, drafted>> /\ ~Work!UnreviewedWork
      BY <2>3 DEF Work!DownloadEnds, Work!DownloadOver, Work!Becomes, Work!history
    <3>2. ~soundingWorkChanged /\ \A v \in ViewIds : views[v].work => views[v] = reviewedViews[v]
      BY <3>1 DEF Work!UnreviewedWork
    <3>3. ~drafted
      BY <3>1, <3>2 DEF WorkInv, Reviewed
    <3>4. ASSUME NEW v \in ViewIds, views[v].work, v \in unseen PROVE FALSE
      <4>1. reviewedViews[v].stamp < views[v].stamp /\ views[v] = reviewedViews[v]
        BY <3>1, <3>2, <3>4 DEF WorkInv, Reviewed
      <4>2. views[v].stamp \in Int
        BY DEF WorkInv, Dated, Work!View
      <4> QED BY <4>1, <4>2
    <3> QED BY <3>1, <3>3, <3>4
  <2> QED BY <2>1, <2>2, <2>3
<1>2. MCSpec => [][Step]_(Work!vars)
  BY <1>1, WorkInvariance, WorkOfInstance, WorkAssumption, PTL DEF Work!Spec
<1> QED BY <1>2 DEF InstallIsReviewed, Work!InstallIsReviewed

\* Whatever waits behind a confirmation, the loop over the changes discards the work of
\* the sounding the dialog named and of no other.
THEOREM WorkIsKept == MCSpec => LocalWorkIsKept
<1> DEFINE Step == \A s \in Soundings :
                     s \in Work!ToSet(open) /\ s \notin Work!ToSet(open') /\ Work!soundingHasWork(views, s)
                       => \/ Work!BridgeUp
                          \/ Work!ResolveDiscard(TRUE) /\ s = Work!pendingDiscardSounding
<1>1. WorkInv /\ [Work!Next]_(Work!vars) => [Step]_(Work!vars)
  <2> SUFFICES ASSUME WorkInv, Work!Next, NEW s \in Soundings,
                      s \in Work!ToSet(open), s \notin Work!ToSet(open'), Work!soundingHasWork(views, s)
               PROVE  \/ Work!BridgeUp
                      \/ Work!ResolveDiscard(TRUE) /\ s = Work!pendingDiscardSounding
    BY DEF Work!vars
  <2>1. s \in Elements(open) /\ s \notin Elements(open')
    BY DEF Work!ToSet, Elements
  <2>2. Work!SoundingAssumption /\ StoreType
    BY WorkAssumption DEF WorkInv
  <2>3. pendingChanges \in Seq(Work!Changes)
    BY DEF WorkInv, StoreType
  <2>4. ASSUME NEW queue \in Seq(Work!Changes), Work!ApplyChanges(queue, FALSE) PROVE FALSE
    BY <2>1, <2>2, <2>4, ChangesKeep
  <2>5. ASSUME NEW t \in Soundings, NEW kind \in {"open", "close"}
        PROVE  Append(pendingChanges, [kind |-> kind, id |-> t]) \in Seq(Work!Changes)
    <3>1. [kind |-> kind, id |-> t] \in Work!Changes
      BY DEF Work!Changes
    <3> QED BY <2>3, <3>1, AppendProperties
  <2>6. ASSUME NEW t \in Soundings, Work!Add(t) PROVE FALSE
    BY <2>4, <2>5, <2>6 DEF Work!Add
  <2>7. ASSUME NEW t \in Soundings, Work!Close(t) PROVE FALSE
    BY <2>4, <2>5, <2>7 DEF Work!Close
  <2>8. ASSUME Work!ResolveDiscard(FALSE) PROVE FALSE
    <3>1. pendingChanges # <<>> /\ Tail(pendingChanges) \in Seq(Work!Changes)
      BY <2>3, <2>8 DEF Work!ResolveDiscard
    <3> QED BY <2>4, <2>8, <3>1 DEF Work!ResolveDiscard
  <2>9. ASSUME Work!ResolveDiscard(TRUE) PROVE s = Work!pendingDiscardSounding
    <3>1. pendingChanges # <<>> /\ Work!ApplyChanges(pendingChanges, TRUE)
      BY <2>9 DEF Work!ResolveDiscard
    <3>2. s = Work!removalCandidate(open, views, pendingChanges[1])
      BY <2>1, <2>2, <2>3, <3>1, ChangesKeep
    <3> QED BY <2>3, <3>1, <3>2 DEF Work!pendingDiscardSounding
  <2>10. open' # open
    BY <2>1
  <2>11. \/ \E t \in Soundings : Work!Add(t) \/ Work!Close(t)
         \/ Work!ResolveDiscard(TRUE) \/ Work!ResolveDiscard(FALSE)
         \/ Work!BridgeUp
    BY <2>10 DEF Work!Next, Work!SetActive, Work!Draft, Work!BeginEdit, Work!EditSucceeds,
           Work!EditFails,
           Work!UpdateView, Work!SetView, Work!noteSoundingWork, Work!CheckBegins, Work!CheckEnds, Work!Install,
           Work!ReviewRefused, Work!ReviewApproved, Work!InstallBegins, Work!DownloadEnds, Work!DownloadOver,
           Work!DownloadFails, Work!InstallFails, Work!Becomes, Work!storeVars
  <2> QED BY <2>6, <2>7, <2>8, <2>9, <2>11
<1>2. MCSpec => [][Step]_(Work!vars)
  BY <1>1, WorkInvariance, WorkOfInstance, WorkAssumption, PTL DEF Work!Spec
<1> QED BY <1>2 DEF LocalWorkIsKept, Work!LocalWorkIsKept
=============================================================================
