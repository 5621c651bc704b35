---------------------------- MODULE SoundingWork ----------------------------
(***************************************************************************)
(* What the frontend does with work that exists in memory only: the open   *)
(* soundings and their edited views (stores/soundingStore.ts), edits the   *)
(* bridge recalculates (features/sounding/useSoundingView.ts), and the     *)
(* update that ends the application (stores/updateStore.ts).               *)
(*                                                                         *)
(* The event loop makes a turn atomic; what an await separates are the     *)
(* steps of a recalculation, of a check for updates, of a download and of  *)
(* an installation.                                                        *)
(***************************************************************************)
EXTENDS Naturals, FiniteSets, SequencesExt

CONSTANTS
  Soundings,
  ViewIds,      (* a view per sounding and time                             *)
  SoundingOf,   (* the sounding of a view id                                *)
  MAX_OPEN,
  None,
  MaxPending,   (* bound: changes that wait for a confirmation              *)
  MaxEdits      (* bound: views set                                         *)

VARIABLES
  (* useSoundingStore *)
  open,             (* soundings, the newest first                          *)
  activeId,
  views,
  pendingChanges,   (* opens and closes behind a confirmation               *)
  (* useUpdateStore *)
  status, installReview, soundingWorkChanged,
  update,           (* there is an update                                   *)
  reviewedViews,    (* of resolveInstallReview, while it downloads          *)
  (* the rest *)
  original,         (* per view: the view a recalculation began with        *)
  instance,         (* BackendProvider has seen a bridge up                 *)
  edits,            (* views set so far: the identity of the next one       *)
  (* history *)
  unseen,           (* views set since the user last approved to lose work  *)
  drafted           (* other work was noted since                           *)

storeVars == <<open, activeId, views, pendingChanges>>
updateVars == <<status, installReview, soundingWorkChanged, update, reviewedViews>>
history == <<unseen, drafted>>
vars == <<storeVars, updateVars, original, instance, edits, history>>

\* A view no edit was made in, which is no object of the store.
INITIAL_VIEW == [stamp |-> 0, work |-> FALSE]
View == [stamp : 0 .. MaxEdits, work : BOOLEAN]
Changes == [kind : {"open", "close"}, id : Soundings]

SoundingAssumption ==
  /\ IsFiniteSet(Soundings) /\ None \notin Soundings
  /\ SoundingOf \in [ViewIds -> Soundings]
  /\ MAX_OPEN \in Nat \ {0} /\ MaxPending \in Nat /\ MaxEdits \in Nat

Statuses ==
  {"idle", "checking", "current", "available", "reviewing", "downloading", "installing", "error"}

Init ==
  /\ open = <<>> /\ activeId = None /\ pendingChanges = <<>>
  /\ views = [v \in ViewIds |-> INITIAL_VIEW]
  /\ status = "idle" /\ installReview = None /\ soundingWorkChanged = FALSE /\ update = FALSE
  /\ reviewedViews = views /\ unseen = {} /\ drafted = FALSE
  /\ original = [v \in ViewIds |-> None]
  /\ instance = FALSE /\ edits = 0

-----------------------------------------------------------------------------
(* The store of soundings.                                                 *)

\* hasLocalWork, over the times of a sounding.
soundingHasWork(vs, s) == \E v \in ViewIds : SoundingOf[v] = s /\ vs[v].work

\* The sounding a change closes: the one named, or to make room the oldest without
\* work, and if there is none the oldest.
removalCandidate(opened, vs, change) ==
  LET others == RemoveFirst(opened, change.id)
      unedited == {i \in DOMAIN others : ~soundingHasWork(vs, others[i])}
  IN IF change.kind = "close" THEN IF change.id \in ToSet(opened) THEN change.id ELSE None
     ELSE IF Len(others) < MAX_OPEN THEN None
     ELSE others[IF unedited = {} THEN Len(others) ELSE Max(unedited)]

\* The sounding the dialog asks about.
pendingDiscardSounding ==
  IF pendingChanges = <<>> THEN None
  ELSE removalCandidate(open, views, Head(pendingChanges))

\* One turn of the loop: the change is carried out, or it waits, and all behind it.
Turn(store, change, discard) ==
  LET gone == removalCandidate(store.open, store.views, change)
      kept == RemoveFirst(store.open, gone)
      opened == IF change.kind = "open" THEN <<change.id>> \o RemoveFirst(kept, change.id) ELSE kept
  IN IF store.pending # <<>> \/ (soundingHasWork(store.views, gone) /\ ~discard)
     THEN [store EXCEPT !.pending = Append(@, change)]
     ELSE [open |-> opened,
           activeId |-> IF change.kind = "open" THEN change.id
                        ELSE IF store.activeId # change.id THEN store.activeId
                        ELSE IF opened = <<>> THEN None ELSE Head(opened),
           views |-> [v \in ViewIds |->
                        IF SoundingOf[v] \in ToSet(opened) THEN store.views[v] ELSE INITIAL_VIEW],
           pending |-> <<>>]

\* Plausible bug: one confirmation does for all changes that wait.
DiscardAll(discard, i) == discard

\* A confirmation is good for the first change.
Discard(discard, i) == discard /\ i = 1

\* The store after each turn of the loop, from the first to the last.
ApplyChanges(changes, discard) ==
  LET after[i \in 0 .. Len(changes)] ==
        IF i = 0 THEN [open |-> open, activeId |-> activeId, views |-> views, pending |-> <<>>]
        ELSE Turn(after[i - 1], changes[i], Discard(discard, i))
      store == after[Len(changes)]
  IN /\ open' = store.open /\ activeId' = store.activeId
     /\ views' = store.views /\ pendingChanges' = store.pending
     /\ UNCHANGED <<updateVars, original, instance, edits, history>>

\* A sounding the bridge has opened joins the list (useOpenSounding).
Add(s) ==
  /\ Len(pendingChanges) < MaxPending
  /\ ApplyChanges(Append(pendingChanges, [kind |-> "open", id |-> s]), FALSE)

Close(s) ==
  LET change == [kind |-> "close", id |-> s]
  IN /\ s \in ToSet(open) /\ Len(pendingChanges) < MaxPending
     /\ change \notin ToSet(pendingChanges)
     /\ ApplyChanges(Append(pendingChanges, change), FALSE)

\* The answer of the dialog: the first change is confirmed, or dropped.
ResolveDiscard(discard) ==
  /\ pendingChanges # <<>>
  /\ ApplyChanges(IF discard THEN pendingChanges ELSE Tail(pendingChanges), discard)

SetActive(s) ==
  /\ s \in ToSet(open) /\ activeId' = s
  /\ UNCHANGED <<open, views, pendingChanges, updateVars, original, instance, edits, history>>

\* setView: late views of closed soundings are ignored.
SetView(v, work) ==
  IF SoundingOf[v] \in ToSet(open)
  THEN /\ edits < MaxEdits /\ edits' = edits + 1
       /\ views' = [views EXCEPT ![v] = [stamp |-> edits', work |-> work]]
       /\ unseen' = unseen \cup {v}
  ELSE UNCHANGED <<views, edits, unseen>>

\* The health of the bridge names a process not seen before; if it is not the first
\* one, it knows none of these soundings.
BridgeUp ==
  /\ instance' = TRUE
  /\ IF ~instance THEN UNCHANGED storeVars
     ELSE /\ open' = <<>> /\ activeId' = None /\ pendingChanges' = <<>>
          /\ views' = [v \in ViewIds |-> INITIAL_VIEW]
  /\ UNCHANGED <<updateVars, original, edits, history>>

-----------------------------------------------------------------------------
(* Work on the view of the active sounding.                                *)

Shown(v) == SoundingOf[v] = activeId

\* noteSoundingWork: only a download under way is interested.
noteSoundingWork ==
  /\ soundingWorkChanged' = (soundingWorkChanged \/ status = "downloading")
  /\ drafted' = TRUE
  /\ UNCHANGED <<status, installReview, update, reviewedViews, unseen>>

\* A value is typed, or a point is dragged.
Draft(v) ==
  /\ Shown(v) /\ original[v] = None
  /\ noteSoundingWork
  /\ UNCHANGED <<storeVars, original, instance, edits>>

\* Undo, redo, another chart; an option may be the last work taken back.
UpdateView(v, work) ==
  /\ Shown(v) /\ original[v] = None
  /\ SetView(v, work)
  /\ UNCHANGED <<open, activeId, pendingChanges, updateVars, original, instance, drafted>>

\* onMutate and mutationFn: edits are sent to be recalculated.
BeginEdit(v) ==
  /\ Shown(v) /\ original[v] = None
  /\ original' = [original EXCEPT ![v] = views[v]]
  /\ noteSoundingWork
  /\ UNCHANGED <<storeVars, instance, edits>>

\* onSuccess: only the view the edits were made in takes them.
EditSucceeds(v) ==
  /\ original[v] # None
  /\ original' = [original EXCEPT ![v] = None]
  /\ IF views[v] = original[v] THEN SetView(v, TRUE) ELSE UNCHANGED <<views, edits, unseen>>
  /\ UNCHANGED <<open, activeId, pendingChanges, updateVars, instance, drafted>>

EditFails(v) ==
  /\ original[v] # None
  /\ original' = [original EXCEPT ![v] = None]
  /\ UNCHANGED <<storeVars, updateVars, instance, edits, history>>

-----------------------------------------------------------------------------
(* The update.                                                             *)

busy == status \in {"checking", "reviewing", "downloading", "installing"}

\* A part of the update store changes, and nothing else.
Becomes(new, review) ==
  /\ status' = new /\ installReview' = review
  /\ UNCHANGED <<storeVars, original, instance, edits>>

CheckBegins ==
  /\ ~busy /\ Becomes("checking", installReview)
  /\ UNCHANGED <<soundingWorkChanged, update, reviewedViews, history>>

CheckEnds ==
  /\ status = "checking"
  /\ \/ Becomes("available", installReview) /\ update' = TRUE
     \/ Becomes("current", installReview) /\ update' = FALSE
     \/ /\ Becomes("error", installReview) \/ Becomes(IF update THEN "available" ELSE "idle", installReview)
        /\ UNCHANGED update
  /\ UNCHANGED <<soundingWorkChanged, reviewedViews, history>>

\* install: the button asks for a review first.
Install ==
  /\ update /\ ~busy /\ Becomes("reviewing", "download")
  /\ UNCHANGED <<soundingWorkChanged, update, reviewedViews, history>>

ReviewRefused ==
  /\ status = "reviewing" /\ Becomes("available", None)
  /\ UNCHANGED <<soundingWorkChanged, update, reviewedViews, history>>

\* The end of resolveInstallReview: preferences are saved, the installer is started.
InstallBegins == Becomes("installing", None) \/ Becomes("error", None)

\* The user has seen what will be lost.
ReviewApproved ==
  /\ status = "reviewing"
  /\ unseen' = {} /\ drafted' = FALSE
  /\ IF installReview = "download"
     THEN Becomes("downloading", None) /\ reviewedViews' = views /\ soundingWorkChanged' = FALSE
     ELSE InstallBegins /\ UNCHANGED <<reviewedViews, soundingWorkChanged>>
  /\ UNCHANGED update

\* Work there is now that nobody saw when the download was approved.
UnreviewedWork ==
  soundingWorkChanged \/ \E v \in ViewIds : views[v].work /\ views[v] # reviewedViews[v]

\* The download is over, and with it the variables of its turn.
DownloadOver ==
  /\ status = "downloading" /\ reviewedViews' = [v \in ViewIds |-> INITIAL_VIEW]
  /\ UNCHANGED <<soundingWorkChanged, update, history>>

\* Plausible bug: the approval of the download is taken for all that comes after.
DownloadEndsApproved == DownloadOver /\ InstallBegins

DownloadEnds ==
  /\ DownloadOver
  /\ IF UnreviewedWork THEN Becomes("reviewing", "install") ELSE InstallBegins

DownloadFails == DownloadOver /\ Becomes("error", None)

\* The installer does not start.
InstallFails ==
  /\ status = "installing" /\ Becomes("error", None)
  /\ UNCHANGED <<soundingWorkChanged, update, reviewedViews, history>>

-----------------------------------------------------------------------------
Next ==
  \/ \E s \in Soundings : Add(s) \/ Close(s) \/ SetActive(s)
  \/ \E discard \in BOOLEAN : ResolveDiscard(discard)
  \/ BridgeUp
  \/ \E v \in ViewIds :
       \/ Draft(v) \/ BeginEdit(v) \/ EditSucceeds(v) \/ EditFails(v)
       \/ \E work \in BOOLEAN : UpdateView(v, work)
  \/ CheckBegins \/ CheckEnds \/ Install \/ ReviewRefused \/ ReviewApproved
  \/ DownloadEnds \/ DownloadFails \/ InstallFails

Spec == Init /\ [][Next]_vars

-----------------------------------------------------------------------------
\* The store: at most MAX_OPEN soundings, one of them active, views of these only,
\* and a change waits only while there is a sounding to ask about.
StoreIsSound ==
  /\ Len(open) <= MAX_OPEN /\ IsInjective(open)
  /\ IF open = <<>> THEN activeId = None ELSE activeId \in ToSet(open)
  /\ \A v \in ViewIds : SoundingOf[v] \notin ToSet(open) => views[v] = INITIAL_VIEW
  /\ pendingChanges # <<>> => pendingDiscardSounding # None

\* Work leaves with its sounding only if the user has confirmed to discard that one,
\* or with the bridge that had it: however many opens and closes wait, a
\* confirmation is good for the sounding the dialog named.
LocalWorkIsKept ==
  [][\A s \in Soundings :
       s \in ToSet(open) /\ s \notin ToSet(open') /\ soundingHasWork(views, s)
         => \/ BridgeUp
            \/ ResolveDiscard(TRUE) /\ s = pendingDiscardSounding]_vars

\* The application goes down for an update only with work the user has seen in the
\* last review, although a download gives time to do more.
InstallIsReviewed ==
  [][status # "installing" /\ status' = "installing" =>
       /\ ~drafted'
       /\ \A v \in ViewIds : views[v].work => v \notin unseen']_vars
=============================================================================
