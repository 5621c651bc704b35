--------------------------- MODULE SoundingSession ---------------------------
(***************************************************************************)
(* The soundings a bridge process has open, and their images:              *)
(* SoundingCache of src/sharpmod/bridge/sounding_cache.py, the opening of  *)
(* a model sounding (sounding_open.py), its image (soundings.py) and its   *)
(* edited views (sounding_view.py), drawn one at a time by the client of   *)
(* the render worker (render_client.py).                                   *)
(*                                                                         *)
(* A handler is a thread that serves one request after the other.  What    *)
(* the worker draws is abstracted to the file it puts in place, or none.   *)
(***************************************************************************)
EXTENDS Naturals, Sequences, FiniteSets, SequencesExt

CONSTANTS
  Handlers,     (* threads of the pool                                      *)
  Soundings,    (* ids that new_id returns                                  *)
  Keys,         (* _render_key of the views that are asked for              *)
  ResolvedKey,  (* resolved_key: the key once a drag has become edits       *)
  Plain,        (* the image of soundings.render, which is no view          *)
  None,
  MaxEntries,   (* max_entries                                              *)
  MaxViews      (* MAX_CACHED_VIEWS                                         *)

SessionAssumption ==
  /\ None \notin Handlers
  /\ Plain \notin Keys /\ ResolvedKey \in [Keys -> Keys]
  /\ MaxEntries \in Nat /\ MaxViews \in Nat

VARIABLES
  fresh,        (* ids that new_id has yet to return                        *)
  entries,      (* SoundingCache._entries, the least recently used first    *)
  cacheLock,    (* the handler that holds SoundingCache._lock               *)
  renderLock,   (* the handler that holds render_lock of an entry           *)
  artist,       (* the handler that holds RenderClient._lock                *)
  views,        (* view_renders: keys, the least recently used first        *)
  data,         (* soundings whose data file is on disk                     *)
  images,       (* images on disk: pairs of a sounding and a name           *)
  pc,           (* where each handler is                                    *)
  of,           (* the sounding of its request                              *)
  key,          (* the view it asks for, or Plain                           *)
  doomed        (* files that _remove_files has listed                      *)

vars ==
  <<fresh, entries, cacheLock, renderLock, artist, views, data, images, pc, of, key, doomed>>

Name(k) == IF k = Plain THEN Plain ELSE ResolvedKey[k]

Goto(h, place) == pc' = [pc EXCEPT ![h] = place]

\* OrderedDict.move_to_end of a key that may be new.
ToEnd(seq, x) == Append(RemoveFirst(seq, x), x)

-----------------------------------------------------------------------------
(* Opening.                                                                *)

\* extract has written the file of a new sounding.
Write(h, s) ==
  /\ pc[h] = "idle"
  /\ s \in fresh /\ fresh' = fresh \ {s}
  /\ data' = data \cup {s}
  /\ of' = [of EXCEPT ![h] = s]
  /\ Goto(h, "opening")
  /\ UNCHANGED <<entries, cacheLock, renderLock, artist, views, images, key, doomed>>

\* open_model removes what a failed open leaves.
Abandon(h) ==
  /\ pc[h] = "opening"
  /\ data' = data \ {of[h]}
  /\ of' = [of EXCEPT ![h] = None]
  /\ Goto(h, "idle")
  /\ UNCHANGED <<fresh, entries, cacheLock, renderLock, artist, views, images, key, doomed>>

\* add: the new entry may put the least recently used one out.
Register(h) ==
  LET all == Append(entries, of[h]) IN
  /\ pc[h] = "opening" /\ cacheLock = None
  /\ IF Len(all) <= MaxEntries
       THEN /\ entries' = all
            /\ of' = [of EXCEPT ![h] = None]
            /\ Goto(h, "idle")
            /\ UNCHANGED cacheLock
       ELSE /\ entries' = Tail(all)
            /\ of' = [of EXCEPT ![h] = Head(all)]
            /\ cacheLock' = h
            /\ Goto(h, "listing")
  /\ UNCHANGED <<fresh, renderLock, artist, views, data, images, key, doomed>>

\* _remove_files lists the files before it removes the first.
List(h) ==
  /\ pc[h] = "listing"
  /\ doomed' = {i \in images : i[1] = of[h]}
  /\ data' = data \ {of[h]}
  /\ Goto(h, "removing")
  /\ UNCHANGED <<fresh, entries, cacheLock, renderLock, artist, views, images, of, key>>

RemoveImage(h) ==
  /\ pc[h] = "removing"
  /\ \E i \in doomed :
       /\ doomed' = doomed \ {i}
       /\ images' = images \ {i}
  /\ UNCHANGED <<fresh, entries, cacheLock, renderLock, artist, views, data, pc, of, key>>

Added(h) ==
  /\ pc[h] = "removing" /\ doomed = {}
  /\ cacheLock' = None
  /\ of' = [of EXCEPT ![h] = None]
  /\ Goto(h, "idle")
  /\ UNCHANGED <<fresh, entries, renderLock, artist, views, data, images, key, doomed>>

-----------------------------------------------------------------------------
(* Drawing.                                                                *)

\* get, for an image or a view of a sounding that is open.
Get(h, s, k) ==
  /\ pc[h] = "idle" /\ cacheLock = None
  /\ s \in ToSet(entries)
  /\ entries' = ToEnd(entries, s)
  /\ of' = [of EXCEPT ![h] = s]
  /\ key' = [key EXCEPT ![h] = k]
  /\ Goto(h, "locking")
  /\ UNCHANGED <<fresh, cacheLock, renderLock, artist, views, data, images, doomed>>

\* Plausible bug: the images of a sounding are drawn without its lock.
LockNothing(h) ==
  /\ pc[h] = "locking"
  /\ Goto(h, "checking")
  /\ UNCHANGED <<fresh, entries, cacheLock, renderLock, artist, views, data, images, of, key, doomed>>

Lock(h) ==
  /\ pc[h] = "locking" /\ renderLock[of[h]] = None
  /\ renderLock' = [renderLock EXCEPT ![of[h]] = h]
  /\ Goto(h, "checking")
  /\ UNCHANGED <<fresh, entries, cacheLock, artist, views, data, images, of, key, doomed>>

Image(h) == <<of[h], Name(key[h])>>

\* An image that has been drawn, and for a view one that is remembered, is read.
Kept(h) ==
  /\ Image(h) \in images
  /\ key[h] = Plain \/ key[h] \in ToSet(views[of[h]])

Check(h) ==
  /\ pc[h] = "checking"
  /\ Goto(h, IF Kept(h) THEN "reading" ELSE "asking")
  /\ UNCHANGED <<fresh, entries, cacheLock, renderLock, artist, views, data, images, of, key, doomed>>

\* The request ends, with its answer or with RENDER_FAILED.
End(h) ==
  /\ renderLock' = [renderLock EXCEPT ![of[h]] = None]
  /\ of' = [of EXCEPT ![h] = None]
  /\ key' = [key EXCEPT ![h] = Plain]
  /\ Goto(h, "idle")

\* render of the client sends the request to a worker, which opens the data file.
AskWorker(h) ==
  /\ pc[h] = "asking" /\ artist = None /\ of[h] \in data
  /\ artist' = h
  /\ Goto(h, "drawing")
  /\ UNCHANGED <<fresh, entries, cacheLock, renderLock, views, data, images, of, key, doomed>>

NoData(h) ==
  /\ pc[h] = "asking" /\ artist = None /\ of[h] \notin data
  /\ End(h)
  /\ UNCHANGED <<fresh, entries, cacheLock, artist, views, data, images, doomed>>

\* The worker renames a plain image into place, a view into a directory of the request.
Drawn(h) ==
  /\ pc[h] = "drawing"
  /\ artist' = None
  /\ \/ /\ key[h] = Plain
        /\ images' = images \cup {Image(h)}
        /\ Goto(h, "reading")
     \/ /\ key[h] # Plain
        /\ Goto(h, "placing")
        /\ UNCHANGED images
  /\ UNCHANGED <<fresh, entries, cacheLock, renderLock, views, data, of, key, doomed>>

\* The worker answers with an error, dies, or is stopped at the deadline, when it
\* may just have put a plain image in place.
DrawFails(h) ==
  /\ pc[h] = "drawing"
  /\ artist' = None
  /\ \/ UNCHANGED images
     \/ key[h] = Plain /\ images' = images \cup {Image(h)}
  /\ End(h)
  /\ UNCHANGED <<fresh, entries, cacheLock, views, data, doomed>>

\* temporary.replace(out), or the image is refused as too large or no PNG.
Place(h) ==
  /\ pc[h] = "placing"
  /\ images' = images \cup {Image(h)}
  /\ Goto(h, "remembering")
  /\ UNCHANGED <<fresh, entries, cacheLock, renderLock, artist, views, data, of, key, doomed>>

Refuse(h) ==
  /\ pc[h] = "placing"
  /\ End(h)
  /\ UNCHANGED <<fresh, entries, cacheLock, artist, views, data, images, doomed>>

\* The keys that are remembered after a view was drawn, and those given up for them.
Recent(h) == ToEnd(ToEnd(views[of[h]], key[h]), ResolvedKey[key[h]])
Surplus(seq) == IF Len(seq) > MaxViews THEN Len(seq) - MaxViews ELSE 0

\* Plausible bug: an image goes with the first of its keys.
RememberAlone(h) ==
  LET recent == Recent(h)
      old == SubSeq(recent, 1, Surplus(recent))
  IN
  /\ pc[h] = "remembering"
  /\ views' = [views EXCEPT ![of[h]] = SubSeq(recent, Surplus(recent) + 1, Len(recent))]
  /\ images' = images \ {<<of[h], ResolvedKey[k]>> : k \in ToSet(old)}
  /\ End(h)
  /\ UNCHANGED <<fresh, entries, cacheLock, artist, data, doomed>>

\* The image of a key that is forgotten is removed unless another key shows it.
Remember(h) ==
  LET recent == Recent(h)
      old == SubSeq(recent, 1, Surplus(recent))
      kept == SubSeq(recent, Surplus(recent) + 1, Len(recent))
      Names(seq) == {ResolvedKey[k] : k \in ToSet(seq)}
  IN
  /\ pc[h] = "remembering"
  /\ views' = [views EXCEPT ![of[h]] = kept]
  /\ images' = images \ ({of[h]} \X (Names(old) \ Names(kept)))
  /\ End(h)
  /\ UNCHANGED <<fresh, entries, cacheLock, artist, data, doomed>>

Read(h) ==
  /\ pc[h] = "reading" /\ Image(h) \in images
  /\ views' = IF key[h] = Plain THEN views
              ELSE [views EXCEPT ![of[h]] = ToEnd(views[of[h]], key[h])]
  /\ End(h)
  /\ UNCHANGED <<fresh, entries, cacheLock, artist, data, images, doomed>>

\* read_bytes finds no file: the request ends with INTERNAL.
Miss(h) ==
  /\ pc[h] = "reading" /\ Image(h) \notin images
  /\ Goto(h, "missed")
  /\ UNCHANGED <<fresh, entries, cacheLock, renderLock, artist, views, data, images, of, key, doomed>>

Raise(h) ==
  /\ pc[h] = "missed"
  /\ End(h)
  /\ UNCHANGED <<fresh, entries, cacheLock, artist, views, data, images, doomed>>

-----------------------------------------------------------------------------
Init ==
  /\ fresh = Soundings
  /\ entries = <<>> /\ cacheLock = None /\ artist = None
  /\ renderLock = [s \in Soundings |-> None]
  /\ views = [s \in Soundings |-> <<>>]
  /\ data = {} /\ images = {} /\ doomed = {}
  /\ pc = [h \in Handlers |-> "idle"]
  /\ of = [h \in Handlers |-> None]
  /\ key = [h \in Handlers |-> Plain]

Open(h) ==
  \/ \E s \in Soundings : Write(h, s)
  \/ Abandon(h) \/ Register(h) \/ List(h) \/ RemoveImage(h) \/ Added(h)

Draw(h) ==
  \/ \E s \in Soundings, k \in Keys \cup {Plain} : Get(h, s, k)
  \/ Lock(h) \/ Check(h) \/ AskWorker(h) \/ NoData(h) \/ Drawn(h) \/ DrawFails(h)
  \/ Place(h) \/ Refuse(h) \/ Remember(h) \/ Read(h) \/ Miss(h) \/ Raise(h)

Next == \E h \in Handlers : Open(h) \/ Draw(h)

Spec == Init /\ [][Next]_vars

-----------------------------------------------------------------------------
(* Properties.                                                             *)

\* While nobody draws an open sounding, the images of its views on disk are those of
\* the keys it remembers, no more and no fewer: several keys may show one image, which
\* must last as long as the last of them and not beyond.
ViewsAreOnDisk ==
  \A s \in ToSet(entries) : renderLock[s] = None =>
    {i \in images : i[1] = s /\ i[2] # Plain} = {<<s, ResolvedKey[k]>> : k \in ToSet(views[s])}

\* An image that a request has seen on disk is lost to it only if the sounding has
\* been put out of the session meanwhile, never by another request that draws it.
LostByEvictionOnly == \A h \in Handlers : pc[h] = "missed" => of[h] \notin ToSet(entries)
=============================================================================
