---------------------------- MODULE MCDiskCaches ----------------------------
(***************************************************************************)
(* The disk caches of model hours and of map frames side by side, for TLC. *)
(* Each behaviour is one of one of them.                                   *)
(***************************************************************************)
EXTENDS MCModelDiskCache, TLC

CONSTANTS Procs, Frames, Parts, Sizes, MaxMapBytes

VARIABLES
  part,         (* the module the behaviour is one of                       *)
  mapPc, work, scan, files, aged, owing, covers

mapVars == <<mapPc, work, scan, files, aged, owing, covers>>

Maps == INSTANCE MapFrameCache WITH pc <- mapPc, Max <- MaxMapBytes

ASSUME FramesAssumption == Maps!MapAssumption

MCInit == part \in {"models", "maps"} /\ Init /\ Maps!Init

\* Bounds: who a process is cannot be told only of one that was given a used id, as it
\* makes no difference for another one; and three threads are at work at once only
\* while no id has been given to another process.
Reborn == {p \in Pids : birth[p] > 1}
AtWork == {a \in Agents : pc[a] # "idle"}
FewAtWork == hidden \subseteq Reborn /\ (Reborn = {} \/ Cardinality(AtWork) <= 2)
ModelStep == part = "models" /\ Next /\ FewAtWork' /\ UNCHANGED <<part, mapVars>>

\* Bounds: one frame past its age, and one process whose prune was lost, at a time.
FewTroubles == Cardinality(Frames \cap aged) <= 1 /\ Cardinality(owing) <= 1
MapStep == part = "maps" /\ Maps!Next /\ FewTroubles' /\ UNCHANGED <<part, vars>>

MCSpec == MCInit /\ [][ModelStep \/ MapStep]_<<part, vars, mapVars>>

\* The runs of the extractor are alike, and so are processes, frames and parts.
Swapped == u1 :> u2 @@ u2 :> u1 @@ extractor1 :> extractor2 @@ extractor2 :> extractor1

Interchangeable ==
  {Swapped} \cup {p @@ f @@ t : p \in Permutations(Procs), f \in Permutations(Frames),
                               t \in Permutations(Parts)}

\* MapFrameCache: the frames on disk are within the limit once all prunes have ended.
WithinLimit == Maps!WithinLimit
=============================================================================
