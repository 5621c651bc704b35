------------------------- MODULE BatchExtractProofs -------------------------
(***************************************************************************)
(* What a record of the manifest vouches for, for any job, any pool and    *)
(* any number of runs.  The invariant says what each step of a thread has  *)
(* established (Stages), that the threads keep to the requests of their    *)
(* own group (OwnItems) and never touch one that is completed (AtWork),    *)
(* and that a recorded digest is always one of a whole pair, whatever has  *)
(* become of the files (DigestsAreWhole).  On top of it stand what the     *)
(* records account for while a run is under way (Accounts) and where each  *)
(* half of the last whole pair is at every step of its writer (Kept).      *)
(***************************************************************************)
EXTENDS BatchExtract, TLAPS

Busy == {"extract", "stage", "mark", "hash"} \cup Publishing \cup Undoing

\* A thread works on requests of its own group.
OwnItems == \A g \in Groups : GroupOf[item[g]] = g

\* Threads run only in a run; the request a thread has in hand is recorded as
\* running, and it and the ones still to do are not completed.
AtWorkOf(g) ==
  /\ at[g] # "done" => phase = "running"
  /\ at[g] \in Busy => status[item[g]] = "running" /\ item[g] \notin todo[g]
  /\ at[g] \notin {"submitted", "done"} =>
       \A i \in todo[g] : status[i] # "completed"
AtWork == \A g \in Groups : AtWorkOf(g)

\* How far the pair of a thread is.
StageOf(g) ==
  /\ at[g] \in {"json", "check", "mark", "hash"} => npz[item[g]] = runs
  /\ at[g] \in {"check", "mark", "hash"} => json[item[g]].gen = runs
  /\ at[g] = "hash" => json[item[g]].marked
Stages == (phase = "running" => runs # 0) /\ \A g \in Groups : StageOf(g)

\* The digests of a completed record are those of a whole pair, ...
WholeOf(i) ==
  status[i] = "completed" =>
    /\ digest[i].npz = digest[i].json.gen /\ digest[i].npz # 0
    /\ digest[i].json.marked
DigestsAreWhole == \A i \in Items : WholeOf(i)

\* ... and of the pair on disk, unless somebody changed it since the run.
MatchOf(i) ==
  status[i] = "completed" /\ (phase # "idle" \/ good[i] # NoPair) =>
    digest[i] = PairOf(i)
DigestsMatch == \A i \in Items : MatchOf(i)

IInv == TypeOK /\ OwnItems /\ AtWork /\ Stages /\ DigestsAreWhole /\ DigestsMatch


LEMMA NoItemIsOwn ==
  /\ NoItem \in [Groups -> Items]
  /\ \A g \in Groups : GroupOf[NoItem[g]] = g
<1>1. ASSUME NEW g \in Groups
      PROVE  LET i == CHOOSE i \in Items : GroupOf[i] = g
             IN i \in Items /\ GroupOf[i] = g
  BY BatchAssumption
<1> QED BY <1>1 DEF NoItem

LEMMA NothingIsTyped ==
  /\ 0 \in Bytes /\ NoSidecar \in Sidecar /\ NoPair \in Pair
  /\ \A b \in {0, Damaged} : b \in Bytes /\ [gen |-> b, marked |-> FALSE] \in Sidecar
BY DEF Bytes, NoSidecar, Sidecar, NoPair, Pair

LEMMA InitIInv == Init => IInv
<1> USE DEF Init
<1>1. Init => TypeOK
  <2>1. ASSUME Init PROVE /\ at \in [Groups -> Places]
                          /\ status \in [Items -> {"none", "pending", "running"} \cup Final]
    BY <2>1 DEF Places
  <2>2. ASSUME Init PROVE /\ digest \in [Items -> Pair] /\ good \in [Items -> Pair]
                          /\ npz \in [Items -> Bytes] /\ json \in [Items -> Sidecar]
                          /\ staged \in [Groups -> Pair]
    BY <2>2, NothingIsTyped
  <2>3. ASSUME Init PROVE \A g \in Groups, i \in Items : i \in todo[g] => GroupOf[i] = g
    BY <2>3
  <2>4. ASSUME Init PROVE resuming \in BOOLEAN /\ cancelled \in BOOLEAN
    BY <2>4, Zenon
  <2>5. ASSUME Init
        PROVE  /\ phase \in {"idle", "running", "returned"} /\ runs \in Nat
               /\ todo \in [Groups -> SUBSET Items] /\ item \in [Groups -> Items]
               /\ why \in [Groups -> {"failed", "cancelled", "kept"}]
               /\ saved \in [Items -> SUBSET Pair]
    BY <2>5, NoItemIsOwn
  <2> QED BY <2>1, <2>2, <2>3, <2>4, <2>5, Zenon DEF TypeOK
<1>2. Init => OwnItems
  BY NoItemIsOwn DEF OwnItems
<1>3. Init => AtWork /\ Stages /\ DigestsAreWhole /\ DigestsMatch
  BY DEF AtWork, AtWorkOf, Stages, StageOf, DigestsAreWhole, WholeOf, DigestsMatch,
         MatchOf, Busy, Publishing, Undoing
<1> QED BY <1>1, <1>2, <1>3 DEF IInv

-----------------------------------------------------------------------------
(* The types.                                                              *)

\* The types of the pieces the actions are built from.
LEMMA PairsAreTyped ==
  ASSUME TypeOK, NEW i \in Items
  PROVE  PairOf(i) \in Pair
BY DEF TypeOK, PairOf, Pair

LEMMA MarkAllTyped ==
  ASSUME TypeOK, NEW S, NEW st \in Final, MarkAll(S, st)
  PROVE  status' \in [Items -> {"none", "pending", "running"} \cup Final]
BY DEF TypeOK, MarkAll

LEMMA RecordTyped ==
  ASSUME TypeOK, NEW g \in Groups, NEW st \in Final, Record(g, st)
  PROVE  /\ status' \in [Items -> {"none", "pending", "running"} \cup Final]
         /\ at' \in [Groups -> Places]
<1>1. CASE st = "cancelled"
  BY <1>1, MarkAllTyped DEF Record, TypeOK, Places
<1>2. CASE st # "cancelled"
  BY <1>2 DEF Record, TypeOK, Places
<1> QED BY <1>1, <1>2

LEMMA TypeRun ==
  ASSUME TypeOK, NEW resume \in BOOLEAN, Start(resume) \/ Cancel \/ Return
  PROVE  TypeOK'
<1> USE DEF TypeOK
<1>1. CASE Start(resume)
  <2>1. status' \in [Items -> {"none", "pending", "running"} \cup Final]
    BY <1>1 DEF Start, Final
  <2>2. digest' \in [Items -> Pair]
    BY <1>1, NothingIsTyped DEF Start
  <2>3. at' \in [Groups -> Places]
    BY <1>1 DEF Start, Places
  <2>4. runs' \in Nat /\ phase' \in {"idle", "running", "returned"}
    BY <1>1 DEF Start
  <2>5. resuming' \in BOOLEAN /\ cancelled' \in BOOLEAN
    BY <1>1, Zenon DEF Start
  <2> QED BY <1>1, <2>1, <2>2, <2>3, <2>4, <2>5 DEF Start
<1>2. CASE Cancel
  BY <1>2 DEF Cancel
<1>3. CASE Return
  BY <1>3, NoItemIsOwn DEF Return, Forget
<1> QED BY <1>1, <1>2, <1>3

LEMMA TypeTrouble ==
  ASSUME TypeOK, Crash \/ \E i \in Items : Damage(i)
  PROVE  TypeOK'
<1> USE DEF TypeOK
<1>1. CASE Crash
  <2>1. saved' \in [Items -> SUBSET Pair]
    BY <1>1 DEF Crash
  <2>2. staged' \in [Groups -> Pair] /\ at' \in [Groups -> Places]
    BY <1>1, NothingIsTyped DEF Crash, Places
  <2> QED BY <1>1, <2>1, <2>2, NoItemIsOwn DEF Crash, Forget
<1>2. ASSUME NEW i \in Items, Damage(i) PROVE TypeOK'
  <2>1. good' \in [Items -> Pair]
    BY <1>2, NothingIsTyped DEF Damage
  <2>2. PICK b \in {0, Damaged} :
          \/ npz' = [npz EXCEPT ![i] = b] /\ UNCHANGED json
          \/ json' = [json EXCEPT ![i] = [gen |-> b, marked |-> FALSE]] /\ UNCHANGED npz
    BY <1>2 DEF Damage
  <2>3. b \in Bytes /\ [gen |-> b, marked |-> FALSE] \in Sidecar
    BY NothingIsTyped
  <2>4. npz' \in [Items -> Bytes] /\ json' \in [Items -> Sidecar]
    <3>1. CASE npz' = [npz EXCEPT ![i] = b] /\ UNCHANGED json
      BY <2>3, <3>1
    <3>2. CASE json' = [json EXCEPT ![i] = [gen |-> b, marked |-> FALSE]] /\ UNCHANGED npz
      BY <2>3, <3>2
    <3> QED BY <2>2, <3>1, <3>2
  <2> QED BY <1>2, <2>1, <2>4 DEF Damage
<1> QED BY <1>1, <1>2

LEMMA TypeLoop ==
  ASSUME TypeOK, NEW g \in Groups,
         Begin(g) \/ Lease(g) \/ NextItem(g) \/ Extract(g) \/ GroupFails(g)
  PROVE  TypeOK'
<1> USE DEF TypeOK
<1>1. CASE Begin(g)
  <2>1. CASE Pending(g) = {} \/ cancelled
    BY <1>1, <2>1, MarkAllTyped DEF Begin, Final, Places
  <2>2. CASE ~(Pending(g) = {} \/ cancelled)
    BY <1>1, <2>2 DEF Begin, Places, Pending
  <2> QED BY <2>1, <2>2
<1>2. CASE Lease(g)
  BY <1>2, MarkAllTyped DEF Lease, Final, Places
<1>3. CASE NextItem(g)
  <2>1. status' \in [Items -> {"none", "pending", "running"} \cup Final]
    BY <1>3, MarkAllTyped DEF NextItem, Final
  <2>2. at' \in [Groups -> Places]
    BY <1>3 DEF NextItem, Places
  <2>3. CASE UNCHANGED <<todo, item>>
    BY <1>3, <2>1, <2>2, <2>3 DEF NextItem
  <2>4. ASSUME NEW i \in todo[g], item' = [item EXCEPT ![g] = i],
               todo' = [todo EXCEPT ![g] = @ \ {i}]
        PROVE  TypeOK'
    <3>1. todo' \in [Groups -> SUBSET Items] /\ item' \in [Groups -> Items]
      BY <2>4
    <3>2. \A h \in Groups, j \in Items : j \in todo'[h] => GroupOf[j] = h
      BY <2>4
    <3> QED BY <1>3, <2>1, <2>2, <3>1, <3>2 DEF NextItem
  <2> QED BY <1>3, <2>1, <2>2, <2>3, <2>4 DEF NextItem
<1>4. CASE Extract(g)
  BY <1>4, RecordTyped DEF Extract, Final, Places
<1>5. CASE GroupFails(g)
  BY <1>5, MarkAllTyped DEF GroupFails, Final, Places
<1> QED BY <1>1, <1>2, <1>3, <1>4, <1>5

LEMMA TypePair ==
  ASSUME TypeOK, NEW g \in Groups,
         Stage(g) \/ PublishNpz(g) \/ PublishJson(g) \/ Keep(g) \/ Mark(g) \/ Complete(g)
  PROVE  TypeOK'
<1> USE DEF TypeOK
<1>i. item[g] \in Items /\ PairOf(item[g]) \in Pair
  BY PairsAreTyped
<1>1. CASE Stage(g)
  <2>1. staged' \in [Groups -> Pair]
    BY <1>1, <1>i DEF Stage
  <2>2. /\ status' \in [Items -> {"none", "pending", "running"} \cup Final]
        /\ at' \in [Groups -> Places]
    BY <1>1, RecordTyped DEF Stage, Final, Places, Publishing
  <2> QED BY <1>1, <2>1, <2>2 DEF Stage
<1>2. CASE PublishNpz(g)
  BY <1>2, <1>i DEF PublishNpz, Bytes, Places, Publishing
<1>3. CASE PublishJson(g)
  <2>1. json' \in [Items -> Sidecar]
    BY <1>3, <1>i DEF PublishJson, Bytes, Sidecar
  <2> QED BY <1>3, <2>1 DEF PublishJson, Places, Publishing
<1>4. CASE Keep(g)
  <2>1. staged' \in [Groups -> Pair] /\ good' \in [Items -> Pair]
    BY <1>4, <1>i, NothingIsTyped DEF Keep
  <2> QED BY <1>4, <2>1 DEF Keep, Places
<1>5. CASE Mark(g)
  <2>1. json' \in [Items -> Sidecar] /\ good' \in [Items -> Pair]
    <3>1. [json[item[g]] EXCEPT !.marked = TRUE] \in Sidecar
      BY ZenonT(30), <1>i DEF Sidecar
    <3>2. [good[item[g]] EXCEPT !.json.marked = TRUE] \in Pair
      <4>1. good[item[g]] \in Pair /\ good[item[g]].json \in Sidecar
        BY <1>i DEF Pair
      <4>2. [good[item[g]].json EXCEPT !.marked = TRUE] \in Sidecar
        BY <4>1 DEF Sidecar
      <4> QED BY <4>1, <4>2 DEF Pair
    <3>3. \/ UNCHANGED <<json, good>>
          \/ /\ json' = [json EXCEPT ![item[g]] = [json[item[g]] EXCEPT !.marked = TRUE]]
             /\ good' = [good EXCEPT ![item[g]] = [good[item[g]] EXCEPT !.json.marked = TRUE]]
      BY <1>5 DEF Mark
    <3>4. json' \in [Items -> Sidecar]
      BY <1>i, <3>1, <3>3
    <3>5. good' \in [Items -> Pair]
      BY <1>i, <3>2, <3>3
    <3> QED BY <3>4, <3>5
  <2>2. /\ status' \in [Items -> {"none", "pending", "running"} \cup Final]
        /\ at' \in [Groups -> Places]
    BY <1>5, RecordTyped DEF Mark, Final, Places
  <2> QED BY <1>5, <2>1, <2>2 DEF Mark
<1>6. CASE Complete(g)
  <2>1. digest' \in [Items -> Pair]
    BY <1>6, <1>i DEF Complete
  <2>2. /\ status' \in [Items -> {"none", "pending", "running"} \cup Final]
        /\ at' \in [Groups -> Places]
    BY <1>6, RecordTyped DEF Complete, Final
  <2> QED BY <1>6, <2>1, <2>2 DEF Complete
<1> QED BY <1>1, <1>2, <1>3, <1>4, <1>5, <1>6

LEMMA TypeUndo ==
  ASSUME TypeOK, NEW g \in Groups,
         Undo(g) \/ UndoJson(g) \/ UndoNpz(g) \/ Cleanup(g)
  PROVE  TypeOK'
<1> USE DEF TypeOK
<1>i. item[g] \in Items /\ staged[g] \in Pair
  OBVIOUS
<1>1. CASE Undo(g)
  <2>1. why' \in [Groups -> {"failed", "cancelled", "kept"}]
    BY <1>1 DEF Undo
  <2>2. at' \in [Groups -> Places]
    BY <1>1 DEF Undo, Places, Undoing
  <2> QED BY <1>1, <2>1, <2>2 DEF Undo
<1>2. CASE UndoJson(g)
  <2>1. json' \in [Items -> Sidecar]
    BY <1>2, <1>i DEF UndoJson, Pair
  <2>2. [staged[g] EXCEPT !.json = NoSidecar] \in Pair
    BY <1>i, NothingIsTyped DEF Pair
  <2>3. staged' \in [Groups -> Pair]
    BY <1>2, <2>2 DEF UndoJson
  <2> QED BY <1>2, <2>1, <2>3 DEF UndoJson, Places, Undoing
<1>3. CASE UndoNpz(g)
  <2>1. npz' \in [Items -> Bytes]
    BY <1>3, <1>i DEF UndoNpz, Pair
  <2>2. [staged[g] EXCEPT !.npz = 0] \in Pair
    BY <1>i, NothingIsTyped DEF Pair
  <2>3. staged' \in [Groups -> Pair]
    BY <1>3, <2>2 DEF UndoNpz
  <2> QED BY <1>3, <2>1, <2>3 DEF UndoNpz, Places, Undoing
<1>4. CASE Cleanup(g)
  <2>1. /\ status' \in [Items -> {"none", "pending", "running"} \cup Final]
        /\ at' \in [Groups -> Places]
    BY <1>4, RecordTyped DEF Cleanup, Final
  <2>2. saved' \in [Items -> SUBSET Pair]
    BY <1>4, <1>i DEF Cleanup
  <2>3. staged' \in [Groups -> Pair]
    BY <1>4, NothingIsTyped DEF Cleanup
  <2> QED BY <1>4, <2>1, <2>2, <2>3 DEF Cleanup
<1> QED BY <1>1, <1>2, <1>3, <1>4

LEMMA TypeStep == TypeOK /\ [Next]_vars => TypeOK'
<1> SUFFICES ASSUME TypeOK, [Next]_vars PROVE TypeOK'
  OBVIOUS
<1>1. CASE \E resume \in BOOLEAN : Start(resume)
  BY <1>1, TypeRun
<1>2. CASE Cancel \/ Return
  BY <1>2, TypeRun
<1>3. CASE Crash \/ \E i \in Items : Damage(i)
  BY <1>3, TypeTrouble
<1>4. CASE \E g \in Groups : GroupStep(g)
  BY <1>4, TypeLoop, TypePair, TypeUndo DEF GroupStep
<1>5. CASE UNCHANGED vars
  BY <1>5 DEF vars, TypeOK
<1> QED BY <1>1, <1>2, <1>3, <1>4, <1>5 DEF Next

\* Type correctness of the job.
THEOREM TypeCorrect == Spec => []TypeOK
<1>1. Init => TypeOK
  BY InitIInv DEF IInv
<1> QED BY <1>1, TypeStep, PTL DEF Spec

-----------------------------------------------------------------------------
(* What a record vouches for.                                              *)

LEMMA OwnItemsStep == TypeOK /\ OwnItems /\ [Next]_vars => OwnItems'
<1> SUFFICES ASSUME TypeOK, OwnItems, [Next]_vars, NEW h \in Groups
             PROVE  GroupOf[item'[h]] = h
  BY DEF OwnItems
<1>1. CASE \E g \in Groups : NextItem(g)
  BY <1>1 DEF NextItem, TypeOK, OwnItems
<1>2. CASE Return \/ Crash
  BY <1>2, NoItemIsOwn DEF Return, Crash, Forget
<1>3. CASE UNCHANGED item
  BY <1>3 DEF OwnItems
<1>4. (\E g \in Groups : NextItem(g)) \/ Return \/ Crash \/ UNCHANGED item
  BY DEF Next, vars, GroupStep, Start, Cancel, Damage, Begin, Lease, Extract, Stage,
         PublishNpz, PublishJson, Keep, Undo, UndoJson, UndoNpz, Cleanup, Mark,
         Complete, GroupFails
<1> QED BY <1>1, <1>2, <1>3, <1>4

\* A step of a thread changes records of its own group only.
LEMMA OwnRecords ==
  ASSUME TypeOK, OwnItems, NEW g \in Groups, GroupStep(g),
         NEW i \in Items, GroupOf[i] # g
  PROVE  /\ status'[i] = status[i] /\ digest'[i] = digest[i]
         /\ npz'[i] = npz[i] /\ json'[i] = json[i] /\ good'[i] = good[i]
<1>1. \A st \in Final : Record(g, st) => status'[i] = status[i]
  BY DEF Record, MarkAll, TypeOK, OwnItems
<1>2. \A st \in Final : MarkAll(todo[g], st) => status'[i] = status[i]
  BY DEF MarkAll, TypeOK
<1>3. status'[i] = status[i]
  BY <1>1, <1>2
  DEF GroupStep, Final, Begin, Lease, NextItem, Extract, Stage, PublishNpz, PublishJson,
      Keep, Undo, UndoJson, UndoNpz, Cleanup, Mark, Complete, GroupFails, MarkAll,
      Pending, TypeOK, OwnItems
<1>4. digest'[i] = digest[i] /\ npz'[i] = npz[i] /\ json'[i] = json[i] /\ good'[i] = good[i]
  BY DEF GroupStep, Begin, Lease, NextItem, Extract, Stage, PublishNpz, PublishJson,
      Keep, Undo, UndoJson, UndoNpz, Cleanup, Mark, Complete, GroupFails, TypeOK, OwnItems
<1> QED BY <1>3, <1>4

\* ... and leaves the other threads alone.
LEMMA OwnThread ==
  ASSUME TypeOK, NEW g \in Groups, GroupStep(g), NEW h \in Groups, h # g
  PROVE  /\ at'[h] = at[h] /\ item'[h] = item[h] /\ todo'[h] = todo[h]
         /\ phase' = phase /\ runs' = runs
BY DEF GroupStep, Begin, Lease, NextItem, Extract, Stage, PublishNpz, PublishJson,
       Keep, Undo, UndoJson, UndoNpz, Cleanup, Mark, Complete, GroupFails, Record, TypeOK

\* What a thread knows of itself and of its request after a step of its own.
Known(g) ==
  /\ AtWorkOf(g) /\ StageOf(g) /\ (phase = "running" => runs # 0)
  /\ \A i \in Items : GroupOf[i] = g => WholeOf(i) /\ MatchOf(i)

LEMMA KnownLoop ==
  ASSUME TypeOK, OwnItems, NEW g \in Groups, Known(g),
         Begin(g) \/ Lease(g) \/ NextItem(g) \/ Extract(g) \/ GroupFails(g)
  PROVE  Known(g)'
<1> USE DEF Known, AtWorkOf, StageOf, WholeOf, MatchOf, PairOf, TypeOK, OwnItems,
            Busy, Publishing, Undoing, Final
<1>1. CASE Begin(g)
  BY <1>1 DEF Begin, MarkAll, Pending
<1>2. CASE Lease(g)
  BY <1>2 DEF Lease, MarkAll
<1>3. CASE NextItem(g)
  BY <1>3 DEF NextItem, MarkAll
<1>4. CASE Extract(g)
  BY <1>4 DEF Extract, Record, MarkAll
<1>5. CASE GroupFails(g)
  BY <1>5 DEF GroupFails, MarkAll
<1> QED BY <1>1, <1>2, <1>3, <1>4, <1>5

LEMMA KnownPair ==
  ASSUME TypeOK, OwnItems, NEW g \in Groups, Known(g),
         Stage(g) \/ PublishNpz(g) \/ PublishJson(g) \/ Keep(g) \/ Mark(g) \/ Complete(g)
  PROVE  Known(g)'
<1> USE DEF Known, AtWorkOf, StageOf, WholeOf, MatchOf, PairOf, TypeOK, OwnItems,
            Busy, Publishing, Undoing, Final
<1>1. CASE Stage(g)
  BY <1>1 DEF Stage, Record, MarkAll
<1>2. CASE PublishNpz(g)
  BY <1>2 DEF PublishNpz
<1>3. CASE PublishJson(g)
  BY <1>3 DEF PublishJson
<1>4. CASE Keep(g)
  BY <1>4 DEF Keep
<1>5. CASE Mark(g)
  BY SMTT(20), <1>5 DEF Mark, Record, MarkAll, Sidecar
<1>6. CASE Complete(g)
  BY <1>6 DEF Complete, Record, MarkAll
<1> QED BY <1>1, <1>2, <1>3, <1>4, <1>5, <1>6

LEMMA KnownUndo ==
  ASSUME TypeOK, OwnItems, NEW g \in Groups, Known(g),
         Undo(g) \/ UndoJson(g) \/ UndoNpz(g) \/ Cleanup(g)
  PROVE  Known(g)'
<1> USE DEF Known, AtWorkOf, StageOf, WholeOf, MatchOf, PairOf, TypeOK, OwnItems,
            Busy, Publishing, Undoing, Final
<1>1. CASE Undo(g)
  BY <1>1 DEF Undo
<1>2. CASE UndoJson(g)
  BY <1>2 DEF UndoJson
<1>3. CASE UndoNpz(g)
  BY <1>3 DEF UndoNpz
<1>4. CASE Cleanup(g)
  BY <1>4 DEF Cleanup, Record, MarkAll
<1> QED BY <1>1, <1>2, <1>3, <1>4

\* A step of a thread keeps what every thread knows.
LEMMA KnownByAll ==
  ASSUME IInv, NEW g \in Groups, GroupStep(g)
  PROVE  AtWork' /\ Stages' /\ DigestsAreWhole' /\ DigestsMatch'
<1>1. Known(g)
  BY DEF IInv, Known, AtWork, Stages, DigestsAreWhole, DigestsMatch
<1>2. Known(g)'
  BY <1>1, KnownLoop, KnownPair, KnownUndo DEF IInv, GroupStep
<1>3. ASSUME NEW i \in Items, GroupOf[i] # g PROVE WholeOf(i)' /\ MatchOf(i)'
  <2>1. phase' = phase
    BY DEF GroupStep, Begin, Lease, NextItem, Extract, Stage, PublishNpz, PublishJson,
           Keep, Undo, UndoJson, UndoNpz, Cleanup, Mark, Complete, GroupFails
  <2>2. PairOf(i)' = PairOf(i)
    BY <1>3, OwnRecords DEF IInv, PairOf
  <2> QED
    BY <1>3, <2>1, <2>2, OwnRecords
    DEF IInv, DigestsAreWhole, DigestsMatch, WholeOf, MatchOf
<1>4. ASSUME NEW h \in Groups, h # g PROVE AtWorkOf(h)' /\ StageOf(h)'
  <2>1. item[h] \in Items /\ GroupOf[item[h]] # g
    BY <1>4 DEF IInv, TypeOK, OwnItems
  <2>2. \A i \in todo[h] : i \in Items /\ GroupOf[i] # g
    BY <1>4 DEF IInv, TypeOK
  <2>3. AtWorkOf(h)'
    BY <1>4, <2>1, <2>2, OwnThread, OwnRecords DEF IInv, AtWork, AtWorkOf
  <2>4. StageOf(h)'
    BY <1>4, <2>1, OwnThread, OwnRecords DEF IInv, Stages, StageOf
  <2> QED BY <2>3, <2>4
<1>5. phase' = "running" => runs' # 0
  BY <1>2 DEF Known
<1> QED BY <1>2, <1>3, <1>4, <1>5 DEF Known, AtWork, Stages, DigestsAreWhole, DigestsMatch

LEMMA KnownByRun ==
  ASSUME IInv, (\E resume \in BOOLEAN : Start(resume)) \/ Cancel \/ Return \/ Crash
               \/ (\E i \in Items : Damage(i)) \/ UNCHANGED vars
  PROVE  AtWork' /\ Stages' /\ DigestsAreWhole' /\ DigestsMatch'
<1> USE DEF IInv, TypeOK, AtWork, AtWorkOf, Stages, StageOf, DigestsAreWhole, WholeOf,
            DigestsMatch, MatchOf, PairOf, Busy, Publishing, Undoing
<1>1. ASSUME NEW resume \in BOOLEAN, Start(resume)
      PROVE  AtWork' /\ Stages' /\ DigestsAreWhole' /\ DigestsMatch'
  BY <1>1 DEF Start, Resumable
<1>2. CASE Cancel
  BY <1>2 DEF Cancel
<1>3. CASE Return
  BY <1>3 DEF Return
<1>4. CASE Crash
  BY <1>4 DEF Crash
<1>5. ASSUME NEW j \in Items, Damage(j)
      PROVE  AtWork' /\ Stages' /\ DigestsAreWhole' /\ DigestsMatch'
  <2>1. DigestsMatch'
    BY <1>5 DEF Damage
  <2>2. AtWork'
    BY <1>5 DEF Damage
  <2>3. Stages'
    BY <1>5 DEF Damage
  <2> QED BY <1>5, <2>1, <2>2, <2>3 DEF Damage
<1>6. CASE UNCHANGED vars
  BY <1>6 DEF vars
<1> QED BY ZenonT(30), <1>1, <1>2, <1>3, <1>4, <1>5, <1>6

LEMMA IInvStep == IInv /\ [Next]_vars => IInv'
<1> SUFFICES ASSUME IInv, [Next]_vars PROVE IInv'
  OBVIOUS
<1>1. TypeOK' /\ OwnItems'
  BY TypeStep, OwnItemsStep DEF IInv
<1>2. AtWork' /\ Stages' /\ DigestsAreWhole' /\ DigestsMatch'
  BY KnownByAll, KnownByRun DEF Next
<1> QED BY <1>1, <1>2 DEF IInv

LEMMA Invariance == Spec => []IInv
BY InitIInv, IInvStep, PTL DEF Spec

\* A completed record vouches for one whole pair on disk: while a job runs, when
\* it has returned, after a crash, and when a run resumes over damaged files.
THEOREM CompletedPairsAreWhole == Spec => []CompletedIsWhole
<1>1. IInv => CompletedIsWhole
  BY DEF IInv, CompletedIsWhole, DigestsAreWhole, DigestsMatch, WholeOf, MatchOf, PairOf
<1> QED BY <1>1, Invariance, PTL

\* Only a run that is told not to resume gives up a completed record.
THEOREM CompletedRecordsStay == Spec => CompletedStays
<1>1. ASSUME IInv, [Next]_vars, NEW i \in Items,
             status[i] = "completed", status'[i] # "completed", good[i] # NoPair
      PROVE  runs' # runs /\ ~resuming'
  <2>1. ASSUME NEW g \in Groups, GroupStep(g) PROVE FALSE
    <3>1. GroupOf[i] = g
      BY <1>1, <2>1, OwnRecords DEF IInv
    <3>2. at[g] \in Busy => item[g] # i
      BY <1>1 DEF IInv, AtWork, AtWorkOf
    <3>3. \A st \in Final : Record(g, st) /\ at[g] \in Busy => status'[i] = "completed"
      BY <1>1, <3>2 DEF Record, MarkAll, IInv, TypeOK
    <3>4. at[g] = "next" => i \notin todo[g]
      BY <1>1 DEF IInv, AtWork, AtWorkOf
    <3> QED
      BY <1>1, <2>1, <3>2, <3>3, <3>4
      DEF GroupStep, Final, Begin, Lease, NextItem, Extract, Stage, PublishNpz,
          PublishJson, Keep, Undo, UndoJson, UndoNpz, Cleanup, Mark, Complete,
          GroupFails, MarkAll, IInv, TypeOK, Busy, Publishing, Undoing
  <2>2. ASSUME NEW resume \in BOOLEAN, Start(resume) PROVE runs' # runs /\ ~resuming'
    <3>1. digest[i] = PairOf(i) /\ npz[i] # 0 /\ json[i].gen # 0
      BY <1>1 DEF IInv, DigestsAreWhole, DigestsMatch, WholeOf, MatchOf, PairOf
    <3>2. ~resume
      BY <1>1, <2>2, <3>1 DEF Start, Resumable
    <3> QED BY <2>2, <3>2 DEF Start, IInv, TypeOK
  <2>3. CASE Cancel \/ Return \/ Crash \/ (\E j \in Items : Damage(j)) \/ UNCHANGED vars
    BY <1>1, <2>3 DEF Cancel, Return, Crash, Damage, vars
  <2> QED BY <1>1, <2>1, <2>2, <2>3 DEF Next
<1>2. IInv /\ [Next]_vars =>
        [\A i \in Items :
           /\ status[i] = "completed" /\ status'[i] # "completed"
           /\ good[i] # NoPair
           => runs' # runs /\ ~resuming']_vars
  BY <1>1
<1> QED BY <1>2, Invariance, PTL DEF Spec, CompletedStays

-----------------------------------------------------------------------------
(* What a result says of every request.                                    *)

\* The records of a run say what happened to its requests: ...
AccountOf(g) ==
  /\ phase = "running" /\ at[g] # "submitted" =>
       \A i \in Items :
         GroupOf[i] = g =>
           \/ status[i] \in Final
           \/ at[g] # "done" /\ i \in todo[g]
           \/ at[g] \in Busy /\ i = item[g]
  /\ why[g] = "cancelled" => phase = "running" /\ cancelled
Accounts == ResultAccounts /\ \A g \in Groups : AccountOf(g)


\* What one thread knows of the records of its group.
Told(g) ==
  /\ AccountOf(g)
  /\ \A i \in Items :
       GroupOf[i] = g /\ phase = "running" /\ status[i] = "cancelled" => cancelled

LEMMA ToldLoop ==
  ASSUME IInv, NEW g \in Groups, Told(g),
         Begin(g) \/ Lease(g) \/ NextItem(g) \/ Extract(g) \/ GroupFails(g)
  PROVE  Told(g)'
<1> USE DEF Told, AccountOf, IInv, TypeOK, OwnItems, AtWork, AtWorkOf, Busy, Publishing,
            Undoing, Final
<1>1. CASE Begin(g)
  BY <1>1 DEF Begin, MarkAll, Pending
<1>2. CASE Lease(g)
  BY <1>2 DEF Lease, MarkAll
<1>3. CASE NextItem(g)
  BY <1>3 DEF NextItem, MarkAll
<1>4. CASE Extract(g)
  BY <1>4 DEF Extract, Record, MarkAll
<1>5. CASE GroupFails(g)
  BY <1>5 DEF GroupFails, MarkAll
<1> QED BY <1>1, <1>2, <1>3, <1>4, <1>5

LEMMA ToldPair ==
  ASSUME IInv, NEW g \in Groups, Told(g),
         \/ Stage(g) \/ PublishNpz(g) \/ PublishJson(g) \/ Keep(g) \/ Mark(g)
         \/ Complete(g) \/ Undo(g) \/ UndoJson(g) \/ UndoNpz(g) \/ Cleanup(g)
  PROVE  Told(g)'
<1> USE DEF Told, AccountOf, IInv, TypeOK, OwnItems, AtWork, AtWorkOf, Busy, Publishing,
            Undoing, Final
<1>1. CASE Stage(g)
  BY <1>1 DEF Stage, Record, MarkAll
<1>2. CASE PublishNpz(g) \/ PublishJson(g)
  BY <1>2 DEF PublishNpz, PublishJson
<1>3. CASE Keep(g)
  BY <1>3 DEF Keep
<1>4. CASE Mark(g)
  BY <1>4 DEF Mark, Record, MarkAll
<1>5. CASE Complete(g)
  BY <1>5 DEF Complete, Record, MarkAll
<1>6. CASE Undo(g)
  BY <1>6 DEF Undo
<1>7. CASE UndoJson(g) \/ UndoNpz(g)
  BY <1>7 DEF UndoJson, UndoNpz
<1>8. CASE Cleanup(g)
  BY <1>8 DEF Cleanup, Record, MarkAll
<1> QED BY <1>1, <1>2, <1>3, <1>4, <1>5, <1>6, <1>7, <1>8

\* A step of a thread leaves the reason, the staged copies and the saved copies of the
\* other groups alone, and does not touch the cancel.
LEMMA OwnCopies ==
  ASSUME TypeOK, OwnItems, NEW g \in Groups, GroupStep(g)
  PROVE  /\ \A h \in Groups \ {g} : why'[h] = why[h] /\ staged'[h] = staged[h]
         /\ \A i \in Items : GroupOf[i] # g => saved'[i] = saved[i]
         /\ cancelled' = cancelled
BY DEF GroupStep, Begin, Lease, NextItem, Extract, Stage, PublishNpz, PublishJson,
       Keep, Undo, UndoJson, UndoNpz, Cleanup, Mark, Complete, GroupFails, TypeOK, OwnItems

LEMMA AccountsStep ==
  ASSUME IInv, Accounts, [Next]_vars
  PROVE  Accounts'
<1>1. ASSUME NEW g \in Groups, GroupStep(g) PROVE Accounts'
  <2>1. Told(g)'
    BY <1>1, ToldLoop, ToldPair DEF Accounts, ResultAccounts, Told, GroupStep
  <2>2. phase' = phase
    BY <1>1 DEF GroupStep, Begin, Lease, NextItem, Extract, Stage, PublishNpz,
      PublishJson, Keep, Undo, UndoJson, UndoNpz, Cleanup, Mark, Complete, GroupFails
  <2>3. at[g] # "done"
    BY <1>1 DEF GroupStep, Begin, Lease, NextItem, Extract, Stage, PublishNpz, PublishJson,
      Keep, Undo, UndoJson, UndoNpz, Cleanup, Mark, Complete, GroupFails, Publishing
  <2>4. phase = "running"
    BY <2>3 DEF IInv, AtWork, AtWorkOf
  <2>5. ASSUME NEW h \in Groups, h # g PROVE AccountOf(h)'
    <3>1. AccountOf(h)
      BY DEF Accounts
    <3>2. /\ at'[h] = at[h] /\ item'[h] = item[h] /\ todo'[h] = todo[h]
          /\ why'[h] = why[h] /\ cancelled' = cancelled
      BY <1>1, <2>5, OwnThread, OwnCopies DEF IInv
    <3>3. \A i \in Items : GroupOf[i] = h => status'[i] = status[i]
      BY <1>1, <2>5, OwnRecords DEF IInv
    <3> QED BY <2>2, <3>1, <3>2, <3>3 DEF AccountOf
  <2>6. ASSUME NEW i \in Items, status'[i] = "cancelled" PROVE cancelled'
    <3>1. CASE GroupOf[i] = g
      BY <2>1, <2>2, <2>4, <2>6, <3>1 DEF Told
    <3>2. CASE GroupOf[i] # g
      BY <1>1, <2>4, <2>6, <3>2, OwnRecords, OwnCopies DEF IInv, Accounts, ResultAccounts
    <3> QED BY <3>1, <3>2
  <2> QED BY <2>1, <2>2, <2>4, <2>5, <2>6 DEF Accounts, ResultAccounts, Told
<1>2. ASSUME NEW resume \in BOOLEAN, Start(resume) PROVE Accounts'
  BY <1>2 DEF Start, Accounts, ResultAccounts, AccountOf, IInv, TypeOK, Final
<1>3. CASE Cancel
  BY <1>3 DEF Cancel, Accounts, ResultAccounts, AccountOf, IInv, TypeOK
<1>4. CASE Return
  <2>1. \A i \in Items : status[i] \in Final
    BY <1>4, BatchAssumption DEF Return, Accounts, AccountOf, Busy, Publishing, Undoing
  <2> QED BY <1>4, <2>1 DEF Return, Forget, Accounts, ResultAccounts, AccountOf
<1>5. CASE Crash
  BY <1>5 DEF Crash, Forget, Accounts, ResultAccounts, AccountOf
<1>6. ASSUME NEW i \in Items, Damage(i) PROVE Accounts'
  BY <1>6 DEF Damage, Accounts, ResultAccounts, AccountOf
<1>7. CASE UNCHANGED vars
  BY <1>7 DEF vars, Accounts, ResultAccounts, AccountOf
<1> QED BY <1>1, <1>2, <1>3, <1>4, <1>5, <1>6, <1>7 DEF Next

\* A result accounts for every request: a thread that is done leaves no record of its
\* group pending, and only a cancel makes one cancelled.
THEOREM ResultsAccount == Spec => []ResultAccounts
<1>1. Init => Accounts
  BY DEF Init, Accounts, ResultAccounts, AccountOf
<1>2. IInv /\ Accounts /\ [Next]_vars => Accounts'
  BY AccountsStep
<1>3. Accounts => ResultAccounts
  BY DEF Accounts
<1> QED BY <1>1, <1>2, <1>3, Invariance, PTL DEF Spec

-----------------------------------------------------------------------------
(* What is left of the last whole pair.                                    *)

\* The thread of its group works on a request and is at one of these places.
In(i, S) == item[GroupOf[i]] = i /\ at[GroupOf[i]] \in S

NpzKept(i) ==
  \/ \E p \in saved[i] : p.npz = good[i].npz
  \/ /\ npz[i] = good[i].npz
     /\ ~In(i, {"json", "check", "undo_json", "undo_npz"})
  \/ /\ staged[GroupOf[i]].npz = good[i].npz
     /\ \/ In(i, {"json", "check", "undo_json", "undo_npz"})
        \/ In(i, {"cleanup"}) /\ why[GroupOf[i]] = "kept"
JsonKept(i) ==
  \/ \E p \in saved[i] : p.json = good[i].json
  \/ json[i] = good[i].json /\ ~In(i, {"check", "undo_json"})
  \/ /\ staged[GroupOf[i]].json = good[i].json
     /\ \/ In(i, {"check", "undo_json"})
        \/ In(i, {"undo_npz", "cleanup"}) /\ why[GroupOf[i]] = "kept"
KeptOf(i) ==
  good[i] # NoPair =>
    /\ good[i].npz # 0 /\ good[i].json.gen # 0
    /\ NpzKept(i) /\ JsonKept(i)

\* The copies are those of the files a thread is about to replace, and a pair that is
\* marked or hashed is the last whole one.
CopiedOf(g) ==
  /\ at[g] = "npz" => staged[g].npz = npz[item[g]]
  /\ at[g] \in {"npz", "json"} => staged[g].json = json[item[g]]
  /\ at[g] \in {"mark", "hash"} => good[item[g]] = PairOf(item[g])

Kept == (\A i \in Items : KeptOf(i)) /\ (\A g \in Groups : CopiedOf(g))

\* What one thread leaves of the pairs of its group.
KeptBy(g) == CopiedOf(g) /\ \A i \in Items : GroupOf[i] = g => KeptOf(i)

LEMMA KeptLoop ==
  ASSUME IInv, NEW g \in Groups, KeptBy(g),
         Begin(g) \/ Lease(g) \/ NextItem(g) \/ Extract(g) \/ GroupFails(g)
  PROVE  KeptBy(g)'
<1>1. /\ at[g] \notin Publishing \cup Undoing /\ at'[g] \notin Publishing \cup Undoing
      /\ at'[g] \notin {"mark", "hash"}
      /\ UNCHANGED <<npz, json, staged, why, saved, good>>
  BY DEF Begin, Lease, NextItem, Extract, GroupFails, Record, IInv, TypeOK, Publishing,
         Undoing
<1>2. ASSUME NEW i \in Items, GroupOf[i] = g, good'[i] # NoPair
      PROVE  NpzKept(i)' /\ JsonKept(i)'
  BY <1>1, <1>2 DEF KeptBy, KeptOf, NpzKept, JsonKept, In, Publishing, Undoing
<1>3. \A i \in Items : GroupOf[i] = g => KeptOf(i)'
  BY <1>1, <1>2 DEF KeptBy, KeptOf
<1>4. CopiedOf(g)'
  BY <1>1 DEF CopiedOf, Publishing
<1> QED BY <1>3, <1>4 DEF KeptBy

LEMMA KeptPublish ==
  ASSUME IInv, NEW g \in Groups, KeptBy(g),
         Stage(g) \/ PublishNpz(g) \/ PublishJson(g) \/ Keep(g) \/ Mark(g) \/ Complete(g)
  PROVE  KeptBy(g)'
<1> DEFINE i == item[g]
<1>i. i \in Items /\ GroupOf[i] = g /\ PairOf(i).npz = npz[i] /\ PairOf(i).json = json[i]
  BY DEF IInv, TypeOK, OwnItems, PairOf
<1>u. /\ \A j \in Items \ {i} : npz'[j] = npz[j] /\ json'[j] = json[j] /\ good'[j] = good[j]
      /\ UNCHANGED <<item, why, saved>>
  BY DEF Stage, PublishNpz, PublishJson, Keep, Mark, Complete, IInv, TypeOK
<1>o. ASSUME NEW j \in Items, GroupOf[j] = g, j # i PROVE KeptOf(j)'
  BY <1>o, <1>u DEF KeptBy, KeptOf, NpzKept, JsonKept, In
<1>q. ASSUME KeptOf(i)', CopiedOf(g)' PROVE KeptBy(g)'
  BY <1>o, <1>q, <1>u DEF KeptBy
<1>1. CASE Stage(g)
  <2>1. /\ npz'[i] = npz[i] /\ json'[i] = json[i] /\ good'[i] = good[i]
        /\ at[g] = "stage"
        /\ \/ at'[g] = "next"
           \/ at'[g] = "npz" /\ staged'[g] = PairOf(i)
    BY <1>1 DEF Stage, Record, IInv, TypeOK
  <2>2. KeptOf(i)'
    BY <1>i, <1>u, <2>1 DEF KeptBy, KeptOf, NpzKept, JsonKept, In
  <2>3. CopiedOf(g)'
    BY <1>i, <1>u, <2>1 DEF CopiedOf
  <2> QED BY <1>q, <2>2, <2>3
<1>2. CASE PublishNpz(g)
  <2>1. /\ json'[i] = json[i] /\ good'[i] = good[i] /\ staged'[g] = staged[g]
        /\ at[g] = "npz" /\ at'[g] = "json"
    BY <1>2 DEF PublishNpz, IInv, TypeOK
  <2>2. KeptOf(i)'
    BY <1>i, <1>u, <2>1 DEF KeptBy, CopiedOf, KeptOf, NpzKept, JsonKept, In
  <2>3. CopiedOf(g)'
    BY <1>i, <1>u, <2>1 DEF KeptBy, CopiedOf
  <2> QED BY <1>q, <2>2, <2>3
<1>3. CASE PublishJson(g)
  <2>1. /\ npz'[i] = npz[i] /\ good'[i] = good[i] /\ staged'[g] = staged[g]
        /\ at[g] = "json" /\ at'[g] = "check"
    BY <1>3 DEF PublishJson, IInv, TypeOK
  <2>2. KeptOf(i)'
    BY <1>i, <1>u, <2>1 DEF KeptBy, CopiedOf, KeptOf, NpzKept, JsonKept, In
  <2>3. CopiedOf(g)'
    BY <2>1 DEF CopiedOf
  <2> QED BY <1>q, <2>2, <2>3
<1>4. CASE Keep(g)
  <2>1. /\ npz'[i] = npz[i] /\ json'[i] = json[i] /\ good'[i] = PairOf(i)
        /\ at[g] = "check" /\ at'[g] = "mark"
    BY <1>4, <1>i DEF Keep, IInv, TypeOK
  <2>2. npz[i] = runs /\ json[i].gen = runs /\ runs # 0
    BY <1>i, <2>1 DEF IInv, Stages, StageOf, AtWork, AtWorkOf
  <2>3. KeptOf(i)'
    BY <1>i, <1>u, <2>1, <2>2 DEF KeptOf, NpzKept, JsonKept, In
  <2>4. CopiedOf(g)'
    BY <1>i, <1>u, <2>1 DEF CopiedOf, PairOf
  <2> QED BY <1>q, <2>3, <2>4
<1>5. CASE Mark(g)
  <2>1. at[g] = "mark" /\ good[i] = PairOf(i) /\ npz'[i] = npz[i] /\ at'[g] \in {"hash", "next"}
    BY <1>5 DEF Mark, Record, IInv, TypeOK, KeptBy, CopiedOf
  <2>2. npz[i] = runs /\ json[i].gen = runs /\ runs # 0 /\ npz[i] # 0
    BY <1>i, <2>1 DEF IInv, Stages, StageOf, AtWork, AtWorkOf
  <2>3. /\ good'[i].npz = npz[i] /\ good'[i].json = json'[i] /\ json'[i].gen = runs
        /\ good'[i] = PairOf(i)'
    <3>1. CASE UNCHANGED <<json, good>>
      BY <1>i, <1>u, <2>1, <2>2, <3>1 DEF PairOf
    <3>2. CASE /\ json' = [json EXCEPT ![i].marked = TRUE]
               /\ good' = [good EXCEPT ![i].json.marked = TRUE]
      <4>1. /\ json'[i] = [json[i] EXCEPT !.marked = TRUE]
            /\ good'[i] = [good[i] EXCEPT !.json.marked = TRUE]
        BY <1>i, <3>2 DEF IInv, TypeOK
      <4>2. /\ json[i] \in Sidecar /\ good[i] \in Pair
            /\ good[i].npz = npz[i] /\ good[i].json = json[i]
        BY <1>i, <2>1 DEF IInv, TypeOK
      <4>3. json'[i] \in Sidecar /\ json'[i].gen = json[i].gen
        BY <4>1, <4>2 DEF Sidecar
      <4>4. good'[i].npz = npz[i] /\ good'[i].json = json'[i] /\ good'[i] \in Pair
        BY <4>1, <4>2, <4>3 DEF Pair
      <4>5. good'[i] = [npz |-> npz'[i], json |-> json'[i]]
        BY <2>1, <4>4 DEF Pair
      <4> QED BY <1>u, <2>2, <4>3, <4>4, <4>5 DEF PairOf
    <3> QED BY <1>5, <3>1, <3>2 DEF Mark
  <2>4. KeptOf(i)'
    BY <1>i, <1>u, <2>1, <2>2, <2>3 DEF KeptOf, NpzKept, JsonKept, In
  <2>5. CopiedOf(g)'
    BY <1>i, <1>u, <2>1, <2>3 DEF CopiedOf
  <2> QED BY <1>q, <2>4, <2>5
<1>6. CASE Complete(g)
  <2>1. /\ at[g] = "hash" /\ at'[g] = "next"
        /\ npz'[i] = npz[i] /\ json'[i] = json[i] /\ good'[i] = good[i]
    BY <1>6 DEF Complete, Record, IInv, TypeOK
  <2>2. KeptOf(i)'
    BY <1>i, <1>u, <2>1 DEF KeptBy, KeptOf, NpzKept, JsonKept, In
  <2>3. CopiedOf(g)'
    BY <2>1 DEF CopiedOf
  <2> QED BY <1>q, <2>2, <2>3
<1> QED BY <1>1, <1>2, <1>3, <1>4, <1>5, <1>6

LEMMA KeptUndo ==
  ASSUME IInv, NEW g \in Groups, KeptBy(g),
         Undo(g) \/ UndoJson(g) \/ UndoNpz(g) \/ Cleanup(g)
  PROVE  KeptBy(g)'
<1> DEFINE i == item[g]
<1>i. i \in Items /\ GroupOf[i] = g /\ staged[g] \in Pair
  BY DEF IInv, TypeOK, OwnItems
<1>u. /\ \A j \in Items \ {i} : /\ npz'[j] = npz[j] /\ json'[j] = json[j]
                                /\ saved'[j] = saved[j]
      /\ UNCHANGED <<item, good>>
  BY DEF Undo, UndoJson, UndoNpz, Cleanup, IInv, TypeOK
<1>o. ASSUME NEW j \in Items, GroupOf[j] = g, j # i PROVE KeptOf(j)'
  BY <1>o, <1>u DEF KeptBy, KeptOf, NpzKept, JsonKept, In
<1>q. ASSUME NpzKept(i)' \/ good[i] = NoPair, JsonKept(i)' \/ good[i] = NoPair, CopiedOf(g)'
      PROVE  KeptBy(g)'
  BY <1>i, <1>o, <1>q, <1>u DEF KeptBy, KeptOf
<1>k. good[i] # NoPair => NpzKept(i) /\ JsonKept(i)
  BY <1>i DEF KeptBy, KeptOf
<1>1. CASE Undo(g)
  <2>1. UNCHANGED <<npz, json, staged, saved>>
    BY <1>1 DEF Undo
  <2>2. \/ at[g] = "check" /\ at'[g] = "undo_json"
        \/ at[g] = "json" /\ at'[g] = "undo_npz"
        \/ at[g] = "npz" /\ at'[g] = "cleanup"
    BY <1>1 DEF Undo, IInv, TypeOK
  <2>3. NpzKept(i)' \/ good[i] = NoPair
    BY <1>i, <1>k, <1>u, <2>1, <2>2 DEF NpzKept, In
  <2>4. JsonKept(i)' \/ good[i] = NoPair
    BY <1>i, <1>k, <1>u, <2>1, <2>2 DEF JsonKept, In
  <2>5. CopiedOf(g)'
    BY <2>2 DEF CopiedOf
  <2> QED BY <1>q, <2>3, <2>4, <2>5
<1>2. CASE UndoJson(g)
  <2>1. /\ npz'[i] = npz[i] /\ saved'[i] = saved[i] /\ staged'[g].npz = staged[g].npz
        /\ at[g] = "undo_json" /\ at'[g] = "undo_npz"
        /\ \/ json'[i] = staged[g].json
           \/ json'[i] = json[i] /\ staged'[g] = staged[g] /\ why'[g] = "kept"
    BY <1>2, <1>i DEF UndoJson, IInv, TypeOK, Pair
  <2>3. NpzKept(i)' \/ good[i] = NoPair
    BY <1>i, <1>k, <1>u, <2>1 DEF NpzKept, In
  <2>4. JsonKept(i)' \/ good[i] = NoPair
    BY <1>i, <1>k, <1>u, <2>1 DEF JsonKept, In
  <2>5. CopiedOf(g)'
    BY <2>1 DEF CopiedOf
  <2> QED BY <1>q, <2>3, <2>4, <2>5
<1>3. CASE UndoNpz(g)
  <2>1. /\ json'[i] = json[i] /\ saved'[i] = saved[i] /\ staged'[g].json = staged[g].json
        /\ at[g] = "undo_npz" /\ at'[g] = "cleanup" /\ why'[g] \in {why[g], "kept"}
        /\ \/ npz'[i] = staged[g].npz
           \/ npz'[i] = npz[i] /\ staged'[g] = staged[g] /\ why'[g] = "kept"
    BY <1>3, <1>i DEF UndoNpz, IInv, TypeOK, Pair
  <2>3. NpzKept(i)' \/ good[i] = NoPair
    BY <1>i, <1>k, <1>u, <2>1 DEF NpzKept, In
  <2>4. JsonKept(i)' \/ good[i] = NoPair
    BY <1>i, <1>k, <1>u, <2>1 DEF JsonKept, In
  <2>5. CopiedOf(g)'
    BY <2>1 DEF CopiedOf
  <2> QED BY <1>q, <2>3, <2>4, <2>5
<1>4. CASE Cleanup(g)
  <2>1. /\ npz'[i] = npz[i] /\ json'[i] = json[i]
        /\ at[g] = "cleanup" /\ at'[g] \in {"next", "done"}
        /\ IF why[g] = "kept" THEN saved'[i] = saved[i] \cup {staged[g]}
                              ELSE saved'[i] = saved[i]
    BY <1>4, <1>i DEF Cleanup, Record, IInv, TypeOK
  <2>3. NpzKept(i)' \/ good[i] = NoPair
    BY <1>i, <1>k, <1>u, <2>1 DEF NpzKept, In
  <2>4. JsonKept(i)' \/ good[i] = NoPair
    BY <1>i, <1>k, <1>u, <2>1 DEF JsonKept, In
  <2>5. CopiedOf(g)'
    BY <2>1 DEF CopiedOf
  <2> QED BY <1>q, <2>3, <2>4, <2>5
<1> QED BY <1>1, <1>2, <1>3, <1>4

\* A crash leaves the staging directories, so every copy is a saved one then.
LEMMA KeptCrash ==
  ASSUME IInv, Kept, Crash
  PROVE  Kept'
<1>1. /\ at' = [g \in Groups |-> "done"] /\ UNCHANGED <<npz, json, good>>
      /\ \A i \in Items : saved[i] \subseteq saved'[i]
  BY DEF Crash
<1>2. ASSUME NEW i \in Items, item[GroupOf[i]] = i, staged[GroupOf[i]] # NoPair
      PROVE  staged[GroupOf[i]] \in saved'[i]
  BY <1>2, BatchAssumption DEF Crash
<1>3. ASSUME NEW i \in Items PROVE KeptOf(i)'
  <2> SUFFICES ASSUME good[i] # NoPair
               PROVE  /\ good[i].npz # 0 /\ good[i].json.gen # 0
                      /\ NpzKept(i)' /\ JsonKept(i)'
    BY <1>1 DEF KeptOf
  <2>1. good[i].npz # 0 /\ good[i].json.gen # 0 /\ NpzKept(i) /\ JsonKept(i)
    BY DEF Kept, KeptOf
  <2>2. \A S : ~In(i, S)' \/ "done" \in S
    BY <1>1, BatchAssumption DEF In
  <2>3. NpzKept(i)'
    <3>1. CASE npz[i] = good[i].npz
      BY <1>1, <3>1, BatchAssumption DEF NpzKept, In
    <3>2. CASE \E p \in saved[i] : p.npz = good[i].npz
      BY <1>1, <3>2 DEF NpzKept
    <3>3. CASE item[GroupOf[i]] = i /\ staged[GroupOf[i]].npz = good[i].npz
      <4>1. staged[GroupOf[i]] # NoPair
        BY <2>1, <3>3 DEF NoPair
      <4> QED BY <1>1, <1>2, <3>3, <4>1 DEF NpzKept
    <3> QED BY <2>1, <3>1, <3>2, <3>3 DEF NpzKept, In
  <2>4. JsonKept(i)'
    <3>1. CASE json[i] = good[i].json
      BY <1>1, <3>1, BatchAssumption DEF JsonKept, In
    <3>2. CASE \E p \in saved[i] : p.json = good[i].json
      BY <1>1, <3>2 DEF JsonKept
    <3>3. CASE item[GroupOf[i]] = i /\ staged[GroupOf[i]].json = good[i].json
      <4>1. staged[GroupOf[i]] # NoPair
        BY <2>1, <3>3 DEF NoPair, NoSidecar
      <4> QED BY <1>1, <1>2, <3>3, <4>1 DEF JsonKept
    <3> QED BY <2>1, <3>1, <3>2, <3>3 DEF JsonKept, In
  <2> QED BY <2>1, <2>3, <2>4
<1>4. \A g \in Groups : CopiedOf(g)'
  BY <1>1 DEF CopiedOf
<1> QED BY <1>3, <1>4 DEF Kept

LEMMA KeptStep ==
  ASSUME IInv, Kept, [Next]_vars
  PROVE  Kept'
<1>1. ASSUME NEW g \in Groups, GroupStep(g) PROVE Kept'
  <2>1. KeptBy(g)'
    BY <1>1, KeptLoop, KeptPublish, KeptUndo DEF Kept, KeptBy, GroupStep
  <2>2. ASSUME NEW h \in Groups, h # g PROVE CopiedOf(h)'
    <3>1. item[h] \in Items /\ GroupOf[item[h]] # g
      BY <2>2 DEF IInv, TypeOK, OwnItems
    <3>2. /\ at'[h] = at[h] /\ item'[h] = item[h] /\ staged'[h] = staged[h]
          /\ npz'[item[h]] = npz[item[h]] /\ json'[item[h]] = json[item[h]]
          /\ good'[item[h]] = good[item[h]]
      BY <1>1, <2>2, <3>1, OwnThread, OwnRecords, OwnCopies DEF IInv
    <3> QED BY <3>2 DEF Kept, CopiedOf, PairOf
  <2>3. ASSUME NEW i \in Items, GroupOf[i] # g PROVE KeptOf(i)'
    <3>1. GroupOf[i] \in Groups \ {g}
      BY <2>3, BatchAssumption
    <3>2. /\ at'[GroupOf[i]] = at[GroupOf[i]] /\ item'[GroupOf[i]] = item[GroupOf[i]]
          /\ staged'[GroupOf[i]] = staged[GroupOf[i]] /\ why'[GroupOf[i]] = why[GroupOf[i]]
          /\ npz'[i] = npz[i] /\ json'[i] = json[i] /\ good'[i] = good[i]
          /\ saved'[i] = saved[i]
      BY <1>1, <2>3, <3>1, OwnThread, OwnRecords, OwnCopies DEF IInv
    <3> QED BY <3>2 DEF Kept, KeptOf, NpzKept, JsonKept, In
  <2> QED BY <2>1, <2>2, <2>3 DEF Kept, KeptBy
<1>2. ASSUME NEW resume \in BOOLEAN, Start(resume) PROVE Kept'
  <2>1. /\ at' = [g \in Groups |-> "submitted"] /\ at = [g \in Groups |-> at[g]]
        /\ UNCHANGED <<npz, json, item, staged, why, saved, good>>
    BY <1>2 DEF Start, IInv, TypeOK
  <2>2. \A g \in Groups : at[g] = "done"
    BY <1>2 DEF Start, IInv, AtWork, AtWorkOf
  <2> QED BY <2>1, <2>2, BatchAssumption DEF Kept, KeptOf, NpzKept, JsonKept, In, CopiedOf
<1>3. CASE Return
  <2>1. \A g \in Groups : at[g] = "done"
    BY <1>3 DEF Return
  <2> QED BY <1>3, <2>1, BatchAssumption
          DEF Return, Kept, KeptOf, NpzKept, JsonKept, In, CopiedOf
<1>4. CASE Crash
  BY <1>4, KeptCrash
<1>5. ASSUME NEW i \in Items, Damage(i) PROVE Kept'
  <2>1. \A g \in Groups : at[g] = "done"
    BY <1>5 DEF Damage, IInv, AtWork, AtWorkOf
  <2>2. /\ good'[i] = NoPair
        /\ \A j \in Items \ {i} : npz'[j] = npz[j] /\ json'[j] = json[j] /\ good'[j] = good[j]
        /\ UNCHANGED <<at, item, staged, why, saved>>
    BY <1>5 DEF Damage, IInv, TypeOK
  <2> QED BY <2>1, <2>2, BatchAssumption DEF Kept, KeptOf, NpzKept, JsonKept, In, CopiedOf
<1>6. CASE Cancel \/ UNCHANGED vars
  BY <1>6 DEF Cancel, vars, Kept, KeptOf, NpzKept, JsonKept, In, CopiedOf, PairOf
<1> QED BY <1>1, <1>2, <1>3, <1>4, <1>5, <1>6 DEF Next

\* Until a new pair is whole both files of the last whole one exist, in place or as
\* a copy, at every step of the writer and of its rollback, and after a crash there.
THEOREM OldPairsRecoverable == Spec => []OldPairRecoverable
<1>1. Init => Kept
  BY DEF Init, Kept, KeptOf, CopiedOf
<1>2. IInv /\ Kept /\ [Next]_vars => Kept'
  BY KeptStep
<1>3. IInv /\ Kept => OldPairRecoverable
  <2> SUFFICES ASSUME IInv, Kept, NEW i \in Items, good[i] # NoPair
               PROVE  /\ \E p \in Copies(i) : p.npz = good[i].npz
                      /\ \E p \in Copies(i) : p.json = good[i].json
    BY DEF OldPairRecoverable
  <2>1. NpzKept(i) /\ JsonKept(i)
    BY DEF Kept, KeptOf
  <2>2. /\ PairOf(i) \in Copies(i) /\ saved[i] \subseteq Copies(i)
        /\ item[GroupOf[i]] = i => staged[GroupOf[i]] \in Copies(i)
    BY BatchAssumption DEF Copies
  <2>3. PairOf(i).npz = npz[i] /\ PairOf(i).json = json[i]
    BY DEF PairOf
  <2> QED BY <2>1, <2>2, <2>3 DEF NpzKept, JsonKept, In
<1> QED BY <1>1, <1>2, <1>3, Invariance, PTL DEF Spec
=============================================================================
