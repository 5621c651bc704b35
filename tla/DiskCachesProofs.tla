-------------------------- MODULE DiskCachesProofs --------------------------
(***************************************************************************)
(* Proofs about the disk caches.  Of model hours, for any number of        *)
(* threads, processes and directories: a lease that everybody could find   *)
(* keeps its directory, and only a lease of a running process spares one.  *)
(*                                                                         *)
(* The first goes from the user of a directory to everybody else: while    *)
(* its lease file lies there, whoever looks at the directory has the file  *)
(* before it, so nobody finds the directory free, and only a directory     *)
(* found free is ever emptied.  The second goes the other way, from a      *)
(* lease file to its user: the file of the running process is there only   *)
(* as long as its thread uses the directory, and no file is one of a       *)
(* process that is yet to be born.                                         *)
(*                                                                         *)
(* Of map frames, for any number of backends, frames and sizes: they are   *)
(* within the limit when nobody is at work.  What a prune adds up is at    *)
(* least what is there of what it found (Sound); and whenever frames       *)
(* exceed the limit somebody is yet to scan, or has scanned and nothing    *)
(* came between (Owed).                                                    *)
(***************************************************************************)
EXTENDS MCDiskCaches, FoldTheorems, TLAPS

\* Where a thread can be.
Places == {"idle", "resolved", "begun", "committed", "leased", "using", "released",
           "pruning", "working", "looking", "checking", "emptying", "emptied"}

\* The values of the variables.
TypeOK ==
  /\ birth \in [Pids -> Nat \ {0}] /\ alive \subseteq Pids
  /\ pc \in [Agents -> Places]
  /\ dir \in [Agents -> Dirs \cup {None}]
  /\ todo \in [Agents -> SUBSET Dirs]
  /\ free \in [Agents -> SUBSET Dirs]
  /\ expired \in [Agents -> SUBSET Dirs]
  /\ meta \subseteq Dirs
  /\ marks \subseteq [user : Users, dir : Dirs, birth : Nat]
  /\ listed \in [Agents -> SUBSET marks]

\* A thread that works at a directory has one.
Placed(a) == pc[a] \notin {"idle", "pruning", "working"} => dir[a] \in Dirs

\* A thread that does something is one of a running process.
Running == \A a \in Agents : pc[a] # "idle" => Pid(a) \in alive

\* A prune or a clear empties only what it had found free, and its expired entries are
\* free, except the one it looks at.
RemovesFree(a) ==
  /\ \A d \in expired[a] : d \in free[a] \/ (pc[a] = "looking" /\ d = dir[a])
  /\ pc[a] \in {"checking", "emptying", "emptied"} => dir[a] \in free[a]

\* The lease files before a thread are those of the directory it looks at.
Looks(a) == \A m \in listed[a] : pc[a] \in {"looking", "checking"} /\ m.dir = dir[a]

\* What the two proofs share.
Base == TypeOK /\ Running /\ \A a \in Agents : Placed(a) /\ RemovesFree(a) /\ Looks(a)

\* The lease of a user that everybody could find: its file is there, whoever looks at
\* the directory has it before him, and nobody finds the directory free.
Inside(u) == pc[u] \in {"begun", "committed", "leased", "using"}
Held(u) ==
  /\ MarkOf(u) \in marks
  /\ \A a \in Agents : /\ dir[u] \notin free[a]
                       /\ pc[a] = "looking" /\ dir[a] = dir[u] => MarkOf(u) \in listed[a]
  /\ pc[u] = "using" => dir[u] \in data
Holding == \A u \in Users \ exposed : Inside(u) => Held(u)

\* A lease file is not one of a process that is yet to be born, and one of the process
\* that runs is of a thread of it that uses the directory.
OfItsUser(m) ==
  /\ Pid(m.user) \in Pids /\ m.birth <= birth[Pid(m.user)]
  /\ Pid(m.user) \in alive /\ m.birth = birth[Pid(m.user)]
       => Inside(m.user) /\ dir[m.user] = m.dir
MarksOfUsers == \A m \in marks : OfItsUser(m)

-----------------------------------------------------------------------------
\* Every step keeps the types, and what a thread may empty.
LEMMA BaseStep == Base /\ [Next]_vars => Base'
<1> SUFFICES ASSUME Base, [Next]_vars PROVE Base'
  OBVIOUS
<1> USE DEF Base, Places, TypeOK, Running, Placed, RemovesFree, Looks, Pid, Goto, At, life,
       disk, plan
<1>1. CASE UNCHANGED vars
  BY <1>1 DEF vars
<1>2. ASSUME NEW d \in Dirs, Age(d) PROVE Base'
  BY <1>2 DEF Age
<1>3. ASSUME NEW u \in Users, NEW d \in Dirs, Resolve(u, d) PROVE Base'
  <2>1. u \in Agents
    BY DEF Agents
  <2>2. TypeOK'
    BY <1>3, <2>1 DEF Resolve, Touched
  <2>3. Running'
    BY <1>3, <2>1 DEF Resolve, Touched
  <2>4. \A x \in Agents : Placed(x)' /\ RemovesFree(x)'
    BY <1>3, <2>1 DEF Resolve, Touched
  <2>5. \A x \in Agents : Looks(x)'
    BY <1>3, <2>1 DEF Resolve, Touched
  <2> QED
    BY <2>2, <2>3, <2>4, <2>5
<1>4. ASSUME NEW u \in Users, Begin(u) PROVE Base'
  <2>1. u \in Agents
    BY DEF Agents
  <2>2. TypeOK'
    BY <1>4, <2>1 DEF Begin, MarkOf
  <2>3. Running'
    BY <1>4, <2>1 DEF Begin, MarkOf
  <2>4. \A x \in Agents : Placed(x)' /\ RemovesFree(x)'
    BY <1>4, <2>1 DEF Begin, MarkOf
  <2>5. \A x \in Agents : Looks(x)'
    BY <1>4, <2>1 DEF Begin, MarkOf
  <2> QED
    BY <2>2, <2>3, <2>4, <2>5
<1>5. ASSUME NEW u \in Users, Sign(u) PROVE Base'
  <2>1. u \in Agents
    BY DEF Agents
  <2>2. TypeOK'
    BY <1>5, <2>1 DEF Sign
  <2>3. Running'
    BY <1>5, <2>1 DEF Sign
  <2>4. \A x \in Agents : Placed(x)' /\ RemovesFree(x)'
    BY <1>5, <2>1 DEF Sign
  <2>5. \A x \in Agents : Looks(x)'
    BY <1>5, <2>1 DEF Sign
  <2> QED
    BY <2>2, <2>3, <2>4, <2>5
<1>6. ASSUME NEW u \in Users, Commit(u) PROVE Base'
  <2>1. u \in Agents
    BY DEF Agents
  <2>2. TypeOK'
    BY <1>6, <2>1 DEF Commit, Unlisted
  <2>3. Running'
    BY <1>6, <2>1 DEF Commit, Unlisted
  <2>4. \A x \in Agents : Placed(x)' /\ RemovesFree(x)'
    BY <1>6, <2>1 DEF Commit, Unlisted
  <2>5. \A x \in Agents : Looks(x)'
    BY <1>6, <2>1 DEF Commit, Unlisted
  <2> QED
    BY <2>2, <2>3, <2>4, <2>5
<1>7. ASSUME NEW u \in Users, Lease(u) PROVE Base'
  <2>1. u \in Agents
    BY DEF Agents
  <2>2. TypeOK'
    BY <1>7, <2>1 DEF Lease, Touched
  <2>3. Running'
    BY <1>7, <2>1 DEF Lease, Touched
  <2>4. \A x \in Agents : Placed(x)' /\ RemovesFree(x)'
    BY <1>7, <2>1 DEF Lease, Touched
  <2>5. \A x \in Agents : Looks(x)'
    BY <1>7, <2>1 DEF Lease, Touched
  <2> QED
    BY <2>2, <2>3, <2>4, <2>5
<1>8. ASSUME NEW u \in Users, Load(u) PROVE Base'
  <2>1. u \in Agents
    BY DEF Agents
  <2>2. TypeOK'
    BY <1>8, <2>1 DEF Load
  <2>3. Running'
    BY <1>8, <2>1 DEF Load
  <2>4. \A x \in Agents : Placed(x)' /\ RemovesFree(x)'
    BY <1>8, <2>1 DEF Load
  <2>5. \A x \in Agents : Looks(x)'
    BY <1>8, <2>1 DEF Load
  <2> QED
    BY <2>2, <2>3, <2>4, <2>5
<1>9. ASSUME NEW u \in Users, Release(u) PROVE Base'
  <2>1. u \in Agents
    BY DEF Agents
  <2>2. TypeOK'
    BY <1>9, <2>1 DEF Release, Unlink, Unlisted
  <2>3. Running'
    BY <1>9, <2>1 DEF Release, Unlink, Unlisted
  <2>4. \A x \in Agents : Placed(x)' /\ RemovesFree(x)'
    BY <1>9, <2>1 DEF Release, Unlink, Unlisted
  <2>5. \A x \in Agents : Looks(x)'
    BY <1>9, <2>1 DEF Release, Unlink, Unlisted
  <2> QED
    BY <2>2, <2>3, <2>4, <2>5
<1>10. ASSUME NEW u \in Users, Close(u) PROVE Base'
  <2>1. u \in Agents
    BY DEF Agents
  <2>2. TypeOK'
    BY <1>10, <2>1 DEF Close, Touched
  <2>3. Running'
    BY <1>10, <2>1 DEF Close, Touched
  <2>4. \A x \in Agents : Placed(x)' /\ RemovesFree(x)'
    BY <1>10, <2>1 DEF Close, Touched
  <2>5. \A x \in Agents : Looks(x)'
    BY <1>10, <2>1 DEF Close, Touched
  <2> QED
    BY <2>2, <2>3, <2>4, <2>5
<1>11. ASSUME NEW u \in Users, Startup(u) PROVE Base'
  <2>1. u \in Agents
    BY DEF Agents
  <2>2. TypeOK'
    BY <1>11, <2>1 DEF Startup, BeginPrune
  <2>3. Running'
    BY <1>11, <2>1 DEF Startup, BeginPrune
  <2>4. \A x \in Agents : Placed(x)' /\ RemovesFree(x)'
    BY <1>11, <2>1 DEF Startup, BeginPrune
  <2>5. \A x \in Agents : Looks(x)'
    BY <1>11, <2>1 DEF Startup, BeginPrune
  <2> QED
    BY <2>2, <2>3, <2>4, <2>5
<1>12. ASSUME NEW u \in Users, Prune(u) PROVE Base'
  <2>1. u \in Agents
    BY DEF Agents
  <2>2. TypeOK'
    BY <1>12, <2>1 DEF Prune, BeginPrune
  <2>3. Running'
    BY <1>12, <2>1 DEF Prune, BeginPrune
  <2>4. \A x \in Agents : Placed(x)' /\ RemovesFree(x)'
    BY <1>12, <2>1 DEF Prune, BeginPrune
  <2>5. \A x \in Agents : Looks(x)'
    BY <1>12, <2>1 DEF Prune, BeginPrune
  <2> QED
    BY <2>2, <2>3, <2>4, <2>5
<1>13. ASSUME NEW u \in Users, NEW d \in Dirs, Remove(u, d) PROVE Base'
  <2>1. u \in Agents
    BY DEF Agents
  <2>2. TypeOK'
    BY <1>13, <2>1 DEF Remove, Chooses, Candidates
  <2>3. Running'
    BY <1>13, <2>1 DEF Remove, Chooses, Candidates
  <2>4. \A x \in Agents : Placed(x)' /\ RemovesFree(x)'
    BY <1>13, <2>1 DEF Remove, Chooses, Candidates
  <2>5. \A x \in Agents : Looks(x)'
    BY <1>13, <2>1 DEF Remove, Chooses, Candidates
  <2> QED
    BY <2>2, <2>3, <2>4, <2>5
<1>14. ASSUME NEW c \in Cleaners, Clear(c) PROVE Base'
  <2>1. c \in Agents
    BY DEF Agents
  <2>2. TypeOK'
    BY <1>14, <2>1 DEF Clear
  <2>3. Running'
    BY <1>14, <2>1 DEF Clear
  <2>4. \A x \in Agents : Placed(x)' /\ RemovesFree(x)'
    BY <1>14, <2>1 DEF Clear
  <2>5. \A x \in Agents : Looks(x)'
    BY <1>14, <2>1 DEF Clear
  <2> QED
    BY <2>2, <2>3, <2>4, <2>5
<1>15. ASSUME NEW c \in Cleaners, NEW d \in Dirs, Delete(c, d) PROVE Base'
  <2>1. c \in Agents
    BY DEF Agents
  <2>2. TypeOK'
    BY <1>15, <2>1 DEF Delete, Chooses, Candidates, MarksOf
  <2>3. Running'
    BY <1>15, <2>1 DEF Delete, Chooses, Candidates, MarksOf
  <2>4. \A x \in Agents : Placed(x)' /\ RemovesFree(x)'
    BY <1>15, <2>1 DEF Delete, Chooses, Candidates, MarksOf
  <2>5. \A x \in Agents : Looks(x)'
    BY <1>15, <2>1 DEF Delete, Chooses, Candidates, MarksOf
  <2> QED
    BY <2>2, <2>3, <2>4, <2>5
<1>16. ASSUME NEW a \in Agents, NEW d \in Dirs, List(a, d) PROVE Base'
  <2>1. a \in Agents
    BY DEF Agents
  <2>2. TypeOK'
    BY <1>16, <2>1 DEF List, MarksOf
  <2>3. Running'
    BY <1>16, <2>1 DEF List, MarksOf
  <2>4. \A x \in Agents : Placed(x)' /\ RemovesFree(x)'
    BY <1>16, <2>1 DEF List, MarksOf
  <2>5. \A x \in Agents : Looks(x)'
    BY <1>16, <2>1 DEF List, MarksOf
  <2> QED
    BY <2>2, <2>3, <2>4, <2>5
<1>17. ASSUME NEW a \in Agents, NEW m \in listed[a], RemoveLapsed(a, m) PROVE Base'
  <2>1. a \in Agents
    BY DEF Agents
  <2>2. TypeOK'
    BY <1>17, <2>1 DEF RemoveLapsed, Unlink, Unlisted
  <2>3. Running'
    BY <1>17, <2>1 DEF RemoveLapsed, Unlink, Unlisted
  <2>4. \A x \in Agents : Placed(x)' /\ RemovesFree(x)'
    BY <1>17, <2>1 DEF RemoveLapsed, Unlink, Unlisted
  <2>5. \A x \in Agents : Looks(x)'
    BY <1>17, <2>1 DEF RemoveLapsed, Unlink, Unlisted
  <2> QED
    BY <2>2, <2>3, <2>4, <2>5
<1>18. ASSUME NEW a \in Agents, NEW m \in listed[a], Spare(a, m) PROVE Base'
  <2>1. a \in Agents
    BY DEF Agents
  <2>2. TypeOK'
    BY <1>18, <2>1 DEF Spare, Back
  <2>3. Running'
    BY <1>18, <2>1 DEF Spare, Back
  <2>4. \A x \in Agents : Placed(x)' /\ RemovesFree(x)'
    BY <1>18, <2>1 DEF Spare, Back
  <2>5. \A x \in Agents : Looks(x)'
    BY <1>18, <2>1 DEF Spare, Back
  <2> QED
    BY <2>2, <2>3, <2>4, <2>5
<1>19. ASSUME NEW a \in Agents, Pass(a) PROVE Base'
  <2>1. a \in Agents
    BY DEF Agents
  <2>2. TypeOK'
    BY <1>19, <2>1 DEF Pass, Back
  <2>3. Running'
    BY <1>19, <2>1 DEF Pass, Back
  <2>4. \A x \in Agents : Placed(x)' /\ RemovesFree(x)'
    BY <1>19, <2>1 DEF Pass, Back
  <2>5. \A x \in Agents : Looks(x)'
    BY <1>19, <2>1 DEF Pass, Back
  <2> QED
    BY <2>2, <2>3, <2>4, <2>5
<1>20. ASSUME NEW a \in Agents, Empty(a) PROVE Base'
  <2>1. a \in Agents
    BY DEF Agents
  <2>2. TypeOK'
    BY <1>20, <2>1 DEF Empty, Unlink, Unlisted, MarksOf
  <2>3. Running'
    BY <1>20, <2>1 DEF Empty, Unlink, Unlisted, MarksOf
  <2>4. \A x \in Agents : Placed(x)' /\ RemovesFree(x)'
    BY <1>20, <2>1 DEF Empty, Unlink, Unlisted, MarksOf
  <2>5. \A x \in Agents : Looks(x)'
    BY <1>20, <2>1 DEF Empty, Unlink, Unlisted, MarksOf
  <2> QED
    BY <2>2, <2>3, <2>4, <2>5
<1>21. ASSUME NEW a \in Agents, EmptySome(a) PROVE Base'
  <2>1. a \in Agents
    BY DEF Agents
  <2>2. TypeOK'
    BY <1>21, <2>1 DEF EmptySome, Unlink, Unlisted, MarksOf, Keep, Back
  <2>3. Running'
    BY <1>21, <2>1 DEF EmptySome, Unlink, Unlisted, MarksOf, Keep, Back
  <2>4. \A x \in Agents : Placed(x)' /\ RemovesFree(x)'
    BY <1>21, <2>1 DEF EmptySome, Unlink, Unlisted, MarksOf, Keep, Back
  <2>5. \A x \in Agents : Looks(x)'
    BY <1>21, <2>1 DEF EmptySome, Unlink, Unlisted, MarksOf, Keep, Back
  <2> QED
    BY <2>2, <2>3, <2>4, <2>5
<1>22. ASSUME NEW a \in Agents, Rmdir(a) PROVE Base'
  <2>1. a \in Agents
    BY DEF Agents
  <2>2. TypeOK'
    BY <1>22, <2>1 DEF Rmdir, Keep, Back
  <2>3. Running'
    BY <1>22, <2>1 DEF Rmdir, Keep, Back
  <2>4. \A x \in Agents : Placed(x)' /\ RemovesFree(x)'
    BY <1>22, <2>1 DEF Rmdir, Keep, Back
  <2>5. \A x \in Agents : Looks(x)'
    BY <1>22, <2>1 DEF Rmdir, Keep, Back
  <2> QED
    BY <2>2, <2>3, <2>4, <2>5
<1>23. ASSUME NEW a \in Agents, Finish(a) PROVE Base'
  <2>1. a \in Agents
    BY DEF Agents
  <2>2. TypeOK'
    BY <1>23, <2>1 DEF Finish, Chooses
  <2>3. Running'
    BY <1>23, <2>1 DEF Finish, Chooses
  <2>4. \A x \in Agents : Placed(x)' /\ RemovesFree(x)'
    BY <1>23, <2>1 DEF Finish, Chooses
  <2>5. \A x \in Agents : Looks(x)'
    BY <1>23, <2>1 DEF Finish, Chooses
  <2> QED
    BY <2>2, <2>3, <2>4, <2>5
<1>24. ASSUME NEW p \in Pids, Die(p) PROVE Base'
  BY <1>24 DEF Die
<1>25. ASSUME NEW p \in Pids, Spawn(p) PROVE Base'
  BY <1>25 DEF Spawn
<1>26. ASSUME NEW p \in Pids, Hide(p) PROVE Base'
  BY <1>26 DEF Hide
<1> QED
  BY <1>1, <1>2, <1>3, <1>4, <1>5, <1>6, <1>7, <1>8, <1>9, <1>10, <1>11, <1>12, <1>13,
     <1>14, <1>15, <1>16, <1>17, <1>18, <1>19, <1>20, <1>21, <1>22, <1>23, <1>24, <1>25,
     <1>26 DEF Next

-----------------------------------------------------------------------------
\* What others do to a user inside keeps its lease: they neither find its directory
\* free, nor lose its file from before them, nor remove it or the payload.
LEMMA HeldKept ==
  ASSUME NEW u \in Users, Held(u), pc'[u] = pc[u], dir'[u] = dir[u],
         birth'[Pid(u)] = birth[Pid(u)],
         MarkOf(u) \in marks',
         \A a \in Agents : dir[u] \notin free'[a],
         \A a \in Agents : pc'[a] = "looking" /\ dir'[a] = dir[u] => MarkOf(u) \in listed'[a],
         dir[u] \in data => dir[u] \in data'
  PROVE  Held(u)'
<1>1. MarkOf(u)' = MarkOf(u)
  BY DEF MarkOf, Pid
<1> QED
  BY <1>1 DEF Held

\* The lease of a running process is active.
LEMMA HeldIsActive ==
  ASSUME Base, NEW u \in Users, Inside(u)
  PROVE  Active(MarkOf(u))
<1>1. u \in Agents /\ Pid(u) \in alive
  BY DEF Base, Running, Inside, Agents
<1> QED
  BY <1>1 DEF Active, MarkOf, Pid

\* Lease files of two users differ, and so do those of two directories.
LEMMA MarksDiffer ==
  ASSUME NEW u, NEW v, NEW d
  PROVE  /\ u # v => MarkOf(u) # MarkOf(v)
         /\ d # dir[u] => MarkOf(u) \notin MarksOf(d)
<1>1. MarkOf(u).user = u /\ MarkOf(v).user = v /\ MarkOf(u).dir = dir[u]
  BY DEF MarkOf
<1> QED
  BY <1>1 DEF MarksOf

\* A user inside whose directory nobody had listed, or had listed after its lease file
\* was there, goes on to hold it.
LEMMA HoldingStep == Base /\ Holding /\ [Next]_vars => Holding'
<1> SUFFICES ASSUME Base, Holding, [Next]_vars,
                    NEW u \in Users, u \notin exposed', Inside(u)'
             PROVE  Held(u)'
  BY DEF Holding
<1>0. u \in Agents /\ (u \notin exposed /\ Inside(u) => Held(u))
  BY DEF Agents, Holding
<1> USE DEF Base, TypeOK, Inside, Goto, At, life, disk, plan
<1>1. CASE UNCHANGED vars
  BY <1>0, <1>1, HeldKept DEF vars, Inside, Held
<1>2. ASSUME NEW v \in Users, NEW d \in Dirs, Resolve(v, d) PROVE Held(u)'
  <2>0. v \in Agents
    BY DEF Agents
  <2>1. CASE u = v
    BY <1>2, <2>0, <2>1 DEF Resolve
  <2>2. CASE u # v
    <3>1. u \notin exposed /\ pc'[u] = pc[u] /\ dir'[u] = dir[u] /\ UNCHANGED birth
      BY <1>0, <1>2, <2>0, <2>2 DEF Resolve
    <3>2. Inside(u) /\ Held(u)
      BY <1>0, <3>1
    <3>3. \A x \in Agents : dir[u] \notin free'[x]
      BY <1>2, <2>0, <3>2 DEF Held, Resolve
    <3>4. \A x \in Agents : pc'[x] = "looking" /\ dir'[x] = dir[u] => MarkOf(u) \in listed'[x]
      BY <1>2, <2>0, <2>2, <3>2 DEF Held, Resolve
    <3>5. MarkOf(u) \in marks' /\ (dir[u] \in data => dir[u] \in data')
      BY <1>2, <2>0, <2>2, <3>2 DEF Held, Resolve
    <3> QED
      BY <3>1, <3>2, <3>3, <3>4, <3>5, HeldKept
  <2> QED
    BY <2>1, <2>2
<1>3. ASSUME NEW v \in Users, Begin(v) PROVE Held(u)'
  <2>0. v \in Agents
    BY DEF Agents
  <2>1. CASE u = v
    <3>1. MarkOf(u)' = MarkOf(u) /\ MarkOf(u) \in marks' /\ pc'[u] = "begun"
      BY <1>3, <2>0, <2>1 DEF Begin, MarkOf
    <3>2. ~LookedAt(dir[u]) /\ dir' = dir /\ free' = free
      BY <1>3, <2>0, <2>1 DEF Begin
    <3>3. \A x \in Agents : pc'[x] = "looking" => pc[x] = "looking"
      BY <1>3, <2>0, <2>1 DEF Begin
    <3> QED
      BY <3>1, <3>2, <3>3 DEF Held, LookedAt
  <2>2. CASE u # v
    <3>1. u \notin exposed /\ pc'[u] = pc[u] /\ dir'[u] = dir[u] /\ UNCHANGED birth
      BY <1>0, <1>3, <2>0, <2>2 DEF Begin
    <3>2. Inside(u) /\ Held(u)
      BY <1>0, <3>1
    <3>3. \A x \in Agents : dir[u] \notin free'[x]
      BY <1>3, <2>0, <3>2 DEF Held, Begin
    <3>4. \A x \in Agents : pc'[x] = "looking" /\ dir'[x] = dir[u] => MarkOf(u) \in listed'[x]
      BY <1>3, <2>0, <2>2, <3>2 DEF Held, Begin
    <3>5. MarkOf(u) \in marks' /\ (dir[u] \in data => dir[u] \in data')
      BY <1>3, <2>0, <2>2, <3>2 DEF Held, Begin
    <3> QED
      BY <3>1, <3>2, <3>3, <3>4, <3>5, HeldKept
  <2> QED
    BY <2>1, <2>2
<1>4. ASSUME NEW v \in Users, Sign(v) PROVE Held(u)'
  <2>0. v \in Agents
    BY DEF Agents
  <2>1. CASE u = v
    BY <1>0, <1>4, <2>0, <2>1, HeldKept DEF Sign, Held
  <2>2. CASE u # v
    <3>1. u \notin exposed /\ pc'[u] = pc[u] /\ dir'[u] = dir[u] /\ UNCHANGED birth
      BY <1>0, <1>4, <2>0, <2>2 DEF Sign
    <3>2. Inside(u) /\ Held(u)
      BY <1>0, <3>1
    <3>3. \A x \in Agents : dir[u] \notin free'[x]
      BY <1>4, <2>0, <3>2 DEF Held, Sign
    <3>4. \A x \in Agents : pc'[x] = "looking" /\ dir'[x] = dir[u] => MarkOf(u) \in listed'[x]
      BY <1>4, <2>0, <2>2, <3>2 DEF Held, Sign
    <3>5. MarkOf(u) \in marks' /\ (dir[u] \in data => dir[u] \in data')
      BY <1>4, <2>0, <2>2, <3>2 DEF Held, Sign
    <3> QED
      BY <3>1, <3>2, <3>3, <3>4, <3>5, HeldKept
  <2> QED
    BY <2>1, <2>2
<1>5. ASSUME NEW v \in Users, Commit(v) PROVE Held(u)'
  <2>0. v \in Agents
    BY DEF Agents
  <2>1. CASE u = v
    <3>1. u \notin exposed /\ Held(u) /\ UNCHANGED <<dir, birth, free, marks>>
      BY <1>0, <1>5, <2>1 DEF Commit
    <3>2. \A x \in Agents : MarkOf(u) \notin listed[x]
      BY <1>5, <2>0, <2>1 DEF Commit
    <3>3. MarkOf(u)' = MarkOf(u) /\ pc'[u] = "committed"
      BY <1>5, <2>0, <2>1, <3>1 DEF Commit, MarkOf, Held
    <3>4. \A x \in Agents : pc'[x] = "looking" => pc[x] = "looking"
      BY <1>5, <2>0, <2>1, <3>3 DEF Commit
    <3> QED
      BY <3>1, <3>2, <3>3, <3>4 DEF Held
  <2>2. CASE u # v
    <3>1. u \notin exposed /\ pc'[u] = pc[u] /\ dir'[u] = dir[u] /\ UNCHANGED birth
      BY <1>0, <1>5, <2>0, <2>2 DEF Commit, Unlisted
    <3>2. Inside(u) /\ Held(u)
      BY <1>0, <3>1
    <3>3. \A x \in Agents : dir[u] \notin free'[x]
      BY <1>5, <2>0, <3>2, MarksDiffer DEF Held, Commit, Unlisted
    <3>4. \A x \in Agents : pc'[x] = "looking" /\ dir'[x] = dir[u] => MarkOf(u) \in listed'[x]
      BY <1>5, <2>0, <2>2, <3>2, MarksDiffer DEF Held, Commit, Unlisted
    <3>5. MarkOf(u) \in marks' /\ (dir[u] \in data => dir[u] \in data')
      BY <1>5, <2>0, <2>2, <3>2, MarksDiffer DEF Held, Commit, Unlisted
    <3> QED
      BY <3>1, <3>2, <3>3, <3>4, <3>5, HeldKept
  <2> QED
    BY <2>1, <2>2
<1>6. ASSUME NEW v \in Users, Lease(v) PROVE Held(u)'
  <2>0. v \in Agents
    BY DEF Agents
  <2>1. CASE u = v
    <3>1. u \notin exposed /\ Held(u) /\ UNCHANGED <<dir, birth, free, marks, listed>>
      BY <1>0, <1>6, <2>1 DEF Lease
    <3>2. MarkOf(u)' = MarkOf(u) /\ (pc'[u] = "using" => dir[u] \in data')
      BY <1>6, <2>0, <2>1, <3>1 DEF Lease, MarkOf
    <3>3. \A x \in Agents : pc'[x] = "looking" => pc[x] = "looking"
      BY <1>6, <2>0, <2>1 DEF Lease
    <3> QED
      BY <3>1, <3>2, <3>3 DEF Held
  <2>2. CASE u # v
    <3>1. u \notin exposed /\ pc'[u] = pc[u] /\ dir'[u] = dir[u] /\ UNCHANGED birth
      BY <1>0, <1>6, <2>0, <2>2 DEF Lease
    <3>2. Inside(u) /\ Held(u)
      BY <1>0, <3>1
    <3>3. \A x \in Agents : dir[u] \notin free'[x]
      BY <1>6, <2>0, <3>2 DEF Held, Lease
    <3>4. \A x \in Agents : pc'[x] = "looking" /\ dir'[x] = dir[u] => MarkOf(u) \in listed'[x]
      BY <1>6, <2>0, <2>2, <3>2 DEF Held, Lease
    <3>5. MarkOf(u) \in marks' /\ (dir[u] \in data => dir[u] \in data')
      BY <1>6, <2>0, <2>2, <3>2 DEF Held, Lease
    <3> QED
      BY <3>1, <3>2, <3>3, <3>4, <3>5, HeldKept
  <2> QED
    BY <2>1, <2>2
<1>7. ASSUME NEW v \in Users, Load(v) PROVE Held(u)'
  <2>0. v \in Agents
    BY DEF Agents
  <2>1. CASE u = v
    <3>1. u \notin exposed /\ Held(u) /\ UNCHANGED <<dir, birth, free, marks, listed>>
      BY <1>0, <1>7, <2>1 DEF Load
    <3>2. MarkOf(u)' = MarkOf(u) /\ (pc'[u] = "using" => dir[u] \in data')
      BY <1>7, <2>0, <2>1, <3>1 DEF Load, MarkOf
    <3>3. \A x \in Agents : pc'[x] = "looking" => pc[x] = "looking"
      BY <1>7, <2>0, <2>1 DEF Load
    <3> QED
      BY <3>1, <3>2, <3>3 DEF Held
  <2>2. CASE u # v
    <3>1. u \notin exposed /\ pc'[u] = pc[u] /\ dir'[u] = dir[u] /\ UNCHANGED birth
      BY <1>0, <1>7, <2>0, <2>2 DEF Load
    <3>2. Inside(u) /\ Held(u)
      BY <1>0, <3>1
    <3>3. \A x \in Agents : dir[u] \notin free'[x]
      BY <1>7, <2>0, <3>2 DEF Held, Load
    <3>4. \A x \in Agents : pc'[x] = "looking" /\ dir'[x] = dir[u] => MarkOf(u) \in listed'[x]
      BY <1>7, <2>0, <2>2, <3>2 DEF Held, Load
    <3>5. MarkOf(u) \in marks' /\ (dir[u] \in data => dir[u] \in data')
      BY <1>7, <2>0, <2>2, <3>2 DEF Held, Load
    <3> QED
      BY <3>1, <3>2, <3>3, <3>4, <3>5, HeldKept
  <2> QED
    BY <2>1, <2>2
<1>8. ASSUME NEW v \in Users, Release(v) PROVE Held(u)'
  <2>0. v \in Agents
    BY DEF Agents
  <2>1. CASE u = v
    BY <1>8, <2>0, <2>1 DEF Release
  <2>2. CASE u # v
    <3>1. u \notin exposed /\ pc'[u] = pc[u] /\ dir'[u] = dir[u] /\ UNCHANGED birth
      BY <1>0, <1>8, <2>0, <2>2 DEF Release, Unlink, Unlisted
    <3>2. Inside(u) /\ Held(u)
      BY <1>0, <3>1
    <3>3. \A x \in Agents : dir[u] \notin free'[x]
      BY <1>8, <2>0, <3>2, MarksDiffer DEF Held, Release, Unlink, Unlisted
    <3>4. \A x \in Agents : pc'[x] = "looking" /\ dir'[x] = dir[u] => MarkOf(u) \in listed'[x]
      BY <1>8, <2>0, <2>2, <3>2, MarksDiffer DEF Held, Release, Unlink, Unlisted
    <3>5. MarkOf(u) \in marks' /\ (dir[u] \in data => dir[u] \in data')
      BY <1>8, <2>0, <2>2, <3>2, MarksDiffer DEF Held, Release, Unlink, Unlisted
    <3> QED
      BY <3>1, <3>2, <3>3, <3>4, <3>5, HeldKept
  <2> QED
    BY <2>1, <2>2
<1>9. ASSUME NEW v \in Users, Close(v) PROVE Held(u)'
  <2>0. v \in Agents
    BY DEF Agents
  <2>1. CASE u = v
    BY <1>9, <2>0, <2>1 DEF Close
  <2>2. CASE u # v
    <3>1. u \notin exposed /\ pc'[u] = pc[u] /\ dir'[u] = dir[u] /\ UNCHANGED birth
      BY <1>0, <1>9, <2>0, <2>2 DEF Close
    <3>2. Inside(u) /\ Held(u)
      BY <1>0, <3>1
    <3>3. \A x \in Agents : dir[u] \notin free'[x]
      BY <1>9, <2>0, <3>2 DEF Held, Close
    <3>4. \A x \in Agents : pc'[x] = "looking" /\ dir'[x] = dir[u] => MarkOf(u) \in listed'[x]
      BY <1>9, <2>0, <2>2, <3>2 DEF Held, Close
    <3>5. MarkOf(u) \in marks' /\ (dir[u] \in data => dir[u] \in data')
      BY <1>9, <2>0, <2>2, <3>2 DEF Held, Close
    <3> QED
      BY <3>1, <3>2, <3>3, <3>4, <3>5, HeldKept
  <2> QED
    BY <2>1, <2>2
<1>10. ASSUME NEW v \in Users, Startup(v) PROVE Held(u)'
  <2>0. v \in Agents
    BY DEF Agents
  <2>1. CASE u = v
    BY <1>10, <2>0, <2>1 DEF Startup, BeginPrune
  <2>2. CASE u # v
    <3>1. u \notin exposed /\ pc'[u] = pc[u] /\ dir'[u] = dir[u] /\ UNCHANGED birth
      BY <1>0, <1>10, <2>0, <2>2 DEF Startup, BeginPrune
    <3>2. Inside(u) /\ Held(u)
      BY <1>0, <3>1
    <3>3. \A x \in Agents : dir[u] \notin free'[x]
      BY <1>10, <2>0, <3>2 DEF Held, Startup, BeginPrune
    <3>4. \A x \in Agents : pc'[x] = "looking" /\ dir'[x] = dir[u] => MarkOf(u) \in listed'[x]
      BY <1>10, <2>0, <2>2, <3>2 DEF Held, Startup, BeginPrune
    <3>5. MarkOf(u) \in marks' /\ (dir[u] \in data => dir[u] \in data')
      BY <1>10, <2>0, <2>2, <3>2 DEF Held, Startup, BeginPrune
    <3> QED
      BY <3>1, <3>2, <3>3, <3>4, <3>5, HeldKept
  <2> QED
    BY <2>1, <2>2
<1>11. ASSUME NEW v \in Users, Prune(v) PROVE Held(u)'
  <2>0. v \in Agents
    BY DEF Agents
  <2>1. CASE u = v
    BY <1>11, <2>0, <2>1 DEF Prune, BeginPrune
  <2>2. CASE u # v
    <3>1. u \notin exposed /\ pc'[u] = pc[u] /\ dir'[u] = dir[u] /\ UNCHANGED birth
      BY <1>0, <1>11, <2>0, <2>2 DEF Prune, BeginPrune
    <3>2. Inside(u) /\ Held(u)
      BY <1>0, <3>1
    <3>3. \A x \in Agents : dir[u] \notin free'[x]
      BY <1>11, <2>0, <3>2 DEF Held, Prune, BeginPrune
    <3>4. \A x \in Agents : pc'[x] = "looking" /\ dir'[x] = dir[u] => MarkOf(u) \in listed'[x]
      BY <1>11, <2>0, <2>2, <3>2 DEF Held, Prune, BeginPrune
    <3>5. MarkOf(u) \in marks' /\ (dir[u] \in data => dir[u] \in data')
      BY <1>11, <2>0, <2>2, <3>2 DEF Held, Prune, BeginPrune
    <3> QED
      BY <3>1, <3>2, <3>3, <3>4, <3>5, HeldKept
  <2> QED
    BY <2>1, <2>2
<1>12. ASSUME NEW v \in Users, NEW d \in Dirs, Remove(v, d) PROVE Held(u)'
  <2>0. v \in Agents
    BY DEF Agents
  <2>1. CASE u = v
    BY <1>12, <2>0, <2>1 DEF Remove
  <2>2. CASE u # v
    <3>1. u \notin exposed /\ pc'[u] = pc[u] /\ dir'[u] = dir[u] /\ UNCHANGED birth
      BY <1>0, <1>12, <2>0, <2>2 DEF Remove, Chooses, Candidates
    <3>2. Inside(u) /\ Held(u)
      BY <1>0, <3>1
    <3>3. \A x \in Agents : dir[u] \notin free'[x]
      BY <1>12, <2>0, <3>2 DEF Held, Remove, Chooses, Candidates
    <3>4. \A x \in Agents : pc'[x] = "looking" /\ dir'[x] = dir[u] => MarkOf(u) \in listed'[x]
      BY <1>12, <2>0, <2>2, <3>2 DEF Held, Remove, Chooses, Candidates
    <3>5. MarkOf(u) \in marks' /\ (dir[u] \in data => dir[u] \in data')
      BY <1>12, <2>0, <2>2, <3>2 DEF Held, Remove, Chooses, Candidates
    <3> QED
      BY <3>1, <3>2, <3>3, <3>4, <3>5, HeldKept
  <2> QED
    BY <2>1, <2>2
<1>13. ASSUME NEW c \in Cleaners, Clear(c) PROVE Held(u)'
  <2>0. c \in Agents
    BY DEF Agents
  <2>1. CASE u = c
    BY <1>13, <2>0, <2>1 DEF Clear
  <2>2. CASE u # c
    <3>1. u \notin exposed /\ pc'[u] = pc[u] /\ dir'[u] = dir[u] /\ UNCHANGED birth
      BY <1>0, <1>13, <2>0, <2>2 DEF Clear
    <3>2. Inside(u) /\ Held(u)
      BY <1>0, <3>1
    <3>3. \A x \in Agents : dir[u] \notin free'[x]
      BY <1>13, <2>0, <3>2 DEF Held, Clear
    <3>4. \A x \in Agents : pc'[x] = "looking" /\ dir'[x] = dir[u] => MarkOf(u) \in listed'[x]
      BY <1>13, <2>0, <2>2, <3>2 DEF Held, Clear
    <3>5. MarkOf(u) \in marks' /\ (dir[u] \in data => dir[u] \in data')
      BY <1>13, <2>0, <2>2, <3>2 DEF Held, Clear
    <3> QED
      BY <3>1, <3>2, <3>3, <3>4, <3>5, HeldKept
  <2> QED
    BY <2>1, <2>2
<1>14. ASSUME NEW c \in Cleaners, NEW d \in Dirs, Delete(c, d) PROVE Held(u)'
  <2>0. c \in Agents
    BY DEF Agents
  <2>1. CASE u = c
    BY <1>14, <2>0, <2>1 DEF Delete
  <2>2. CASE u # c
    <3>1. u \notin exposed /\ pc'[u] = pc[u] /\ dir'[u] = dir[u] /\ UNCHANGED birth
      BY <1>0, <1>14, <2>0, <2>2 DEF Delete, Chooses, Candidates, MarksOf
    <3>2. Inside(u) /\ Held(u)
      BY <1>0, <3>1
    <3>3. \A x \in Agents : dir[u] \notin free'[x]
      BY <1>14, <2>0, <3>2 DEF Held, Delete, Chooses, Candidates, MarksOf
    <3>4. \A x \in Agents : pc'[x] = "looking" /\ dir'[x] = dir[u] => MarkOf(u) \in listed'[x]
      BY <1>14, <2>0, <2>2, <3>2 DEF Held, Delete, Chooses, Candidates, MarksOf
    <3>5. MarkOf(u) \in marks' /\ (dir[u] \in data => dir[u] \in data')
      BY <1>14, <2>0, <2>2, <3>2 DEF Held, Delete, Chooses, Candidates, MarksOf
    <3> QED
      BY <3>1, <3>2, <3>3, <3>4, <3>5, HeldKept
  <2> QED
    BY <2>1, <2>2
<1>15. ASSUME NEW a \in Agents, NEW d \in Dirs, List(a, d) PROVE Held(u)'
  <2>0. a \in Agents
    BY DEF Agents
  <2>1. CASE u = a
    BY <1>15, <2>0, <2>1 DEF List
  <2>2. CASE u # a
    <3>1. u \notin exposed /\ pc'[u] = pc[u] /\ dir'[u] = dir[u] /\ UNCHANGED birth
      BY <1>0, <1>15, <2>0, <2>2 DEF List, MarksOf
    <3>2. Inside(u) /\ Held(u)
      BY <1>0, <3>1
    <3>3. \A x \in Agents : dir[u] \notin free'[x]
      BY <1>15, <2>0, <3>2 DEF Held, List, MarksOf
    <3>4. \A x \in Agents : pc'[x] = "looking" /\ dir'[x] = dir[u] => MarkOf(u) \in listed'[x]
      BY <1>15, <2>0, <2>2, <3>2 DEF Held, List, MarksOf, MarkOf
    <3>5. MarkOf(u) \in marks' /\ (dir[u] \in data => dir[u] \in data')
      BY <1>15, <2>0, <2>2, <3>2 DEF Held, List, MarksOf
    <3> QED
      BY <3>1, <3>2, <3>3, <3>4, <3>5, HeldKept
  <2> QED
    BY <2>1, <2>2
<1>16. ASSUME NEW a \in Agents, NEW m \in listed[a], RemoveLapsed(a, m) PROVE Held(u)'
  <2>0. a \in Agents
    BY DEF Agents
  <2>1. CASE u = a
    BY <1>16, <2>0, <2>1 DEF RemoveLapsed
  <2>2. CASE u # a
    <3>1. u \notin exposed /\ pc'[u] = pc[u] /\ dir'[u] = dir[u] /\ UNCHANGED birth
      BY <1>0, <1>16, <2>0, <2>2 DEF RemoveLapsed, Unlink, Unlisted
    <3>2. Inside(u) /\ Held(u)
      BY <1>0, <3>1
    <3>0. m # MarkOf(u)
      BY <1>16, <3>2, HeldIsActive DEF RemoveLapsed
    <3>3. \A x \in Agents : dir[u] \notin free'[x]
      BY <1>16, <2>0, <3>2, <3>0 DEF Held, RemoveLapsed, Unlink, Unlisted
    <3>4. \A x \in Agents : pc'[x] = "looking" /\ dir'[x] = dir[u] => MarkOf(u) \in listed'[x]
      BY <1>16, <2>0, <2>2, <3>2, <3>0 DEF Held, RemoveLapsed, Unlink, Unlisted
    <3>5. MarkOf(u) \in marks' /\ (dir[u] \in data => dir[u] \in data')
      BY <1>16, <2>0, <2>2, <3>2, <3>0 DEF Held, RemoveLapsed, Unlink, Unlisted
    <3> QED
      BY <3>1, <3>2, <3>3, <3>4, <3>5, HeldKept
  <2> QED
    BY <2>1, <2>2
<1>17. ASSUME NEW a \in Agents, NEW m \in listed[a], Spare(a, m) PROVE Held(u)'
  <2>0. a \in Agents
    BY DEF Agents
  <2>1. CASE u = a
    BY <1>17, <2>0, <2>1 DEF Spare, Back
  <2>2. CASE u # a
    <3>1. u \notin exposed /\ pc'[u] = pc[u] /\ dir'[u] = dir[u] /\ UNCHANGED birth
      BY <1>0, <1>17, <2>0, <2>2 DEF Spare, Back
    <3>2. Inside(u) /\ Held(u)
      BY <1>0, <3>1
    <3>3. \A x \in Agents : dir[u] \notin free'[x]
      BY <1>17, <2>0, <3>2 DEF Held, Spare, Back
    <3>4. \A x \in Agents : pc'[x] = "looking" /\ dir'[x] = dir[u] => MarkOf(u) \in listed'[x]
      BY <1>17, <2>0, <2>2, <3>2 DEF Held, Spare, Back
    <3>5. MarkOf(u) \in marks' /\ (dir[u] \in data => dir[u] \in data')
      BY <1>17, <2>0, <2>2, <3>2 DEF Held, Spare, Back
    <3> QED
      BY <3>1, <3>2, <3>3, <3>4, <3>5, HeldKept
  <2> QED
    BY <2>1, <2>2
<1>18. ASSUME NEW a \in Agents, Pass(a) PROVE Held(u)'
  <2>0. a \in Agents
    BY DEF Agents
  <2>1. CASE u = a
    BY <1>18, <2>0, <2>1 DEF Pass, Back
  <2>2. CASE u # a
    <3>1. u \notin exposed /\ pc'[u] = pc[u] /\ dir'[u] = dir[u] /\ UNCHANGED birth
      BY <1>0, <1>18, <2>0, <2>2 DEF Pass, Back
    <3>2. Inside(u) /\ Held(u)
      BY <1>0, <3>1
    <3>0. pc[a] = "looking" => dir[a] # dir[u]
      BY <1>18, <2>0, <3>2 DEF Held, Pass
    <3>3. \A x \in Agents : dir[u] \notin free'[x]
      BY <1>18, <2>0, <3>2, <3>0 DEF Held, Pass, Back
    <3>4. \A x \in Agents : pc'[x] = "looking" /\ dir'[x] = dir[u] => MarkOf(u) \in listed'[x]
      BY <1>18, <2>0, <2>2, <3>2, <3>0 DEF Held, Pass, Back
    <3>5. MarkOf(u) \in marks' /\ (dir[u] \in data => dir[u] \in data')
      BY <1>18, <2>0, <2>2, <3>2, <3>0 DEF Held, Pass, Back
    <3> QED
      BY <3>1, <3>2, <3>3, <3>4, <3>5, HeldKept
  <2> QED
    BY <2>1, <2>2
<1>19. ASSUME NEW a \in Agents, Empty(a) PROVE Held(u)'
  <2>0. a \in Agents
    BY DEF Agents
  <2>1. CASE u = a
    BY <1>19, <2>0, <2>1 DEF Empty
  <2>2. CASE u # a
    <3>1. u \notin exposed /\ pc'[u] = pc[u] /\ dir'[u] = dir[u] /\ UNCHANGED birth
      BY <1>0, <1>19, <2>0, <2>2 DEF Empty, Unlink, Unlisted, MarksOf
    <3>2. Inside(u) /\ Held(u)
      BY <1>0, <3>1
    <3>0. dir[a] # dir[u]
      BY <1>19, <2>0, <3>2 DEF Held, Empty, RemovesFree
    <3>3. \A x \in Agents : dir[u] \notin free'[x]
      BY <1>19, <2>0, <3>2, <3>0, MarksDiffer DEF Held, Empty, Unlink, Unlisted
    <3>4. \A x \in Agents : pc'[x] = "looking" /\ dir'[x] = dir[u] => MarkOf(u) \in listed'[x]
      BY <1>19, <2>0, <2>2, <3>2, <3>0, MarksDiffer DEF Held, Empty, Unlink, Unlisted
    <3>5. MarkOf(u) \in marks' /\ (dir[u] \in data => dir[u] \in data')
      BY <1>19, <2>0, <2>2, <3>2, <3>0, MarksDiffer DEF Held, Empty, Unlink, Unlisted
    <3> QED
      BY <3>1, <3>2, <3>3, <3>4, <3>5, HeldKept
  <2> QED
    BY <2>1, <2>2
<1>20. ASSUME NEW a \in Agents, EmptySome(a) PROVE Held(u)'
  <2>0. a \in Agents
    BY DEF Agents
  <2>1. CASE u = a
    BY <1>20, <2>0, <2>1 DEF EmptySome, Unlink, Unlisted, MarksOf, Keep, Back
  <2>2. CASE u # a
    <3>1. u \notin exposed /\ pc'[u] = pc[u] /\ dir'[u] = dir[u] /\ UNCHANGED birth
      BY <1>0, <1>20, <2>0, <2>2 DEF EmptySome, Unlink, Unlisted, MarksOf, Keep, Back
    <3>2. Inside(u) /\ Held(u)
      BY <1>0, <3>1
    <3>0. dir[a] # dir[u]
      BY <1>20, <2>0, <3>2 DEF Held, EmptySome, RemovesFree
    <3>3. \A x \in Agents : dir[u] \notin free'[x]
      BY <1>20, <2>0, <3>2, <3>0, MarksDiffer DEF Held, EmptySome, Unlink, Unlisted, Keep,
             Back
    <3>4. \A x \in Agents : pc'[x] = "looking" /\ dir'[x] = dir[u] => MarkOf(u) \in listed'[x]
      BY <1>20, <2>0, <2>2, <3>2, <3>0, MarksDiffer DEF Held, EmptySome, Unlink, Unlisted,
             Keep, Back
    <3>5. MarkOf(u) \in marks' /\ (dir[u] \in data => dir[u] \in data')
      BY <1>20, <2>0, <2>2, <3>2, <3>0, MarksDiffer DEF Held, EmptySome, Unlink, Unlisted,
             Keep, Back
    <3> QED
      BY <3>1, <3>2, <3>3, <3>4, <3>5, HeldKept
  <2> QED
    BY <2>1, <2>2
<1>21. ASSUME NEW a \in Agents, Rmdir(a) PROVE Held(u)'
  <2>0. a \in Agents
    BY DEF Agents
  <2>1. CASE u = a
    BY <1>21, <2>0, <2>1 DEF Rmdir, Keep, Back
  <2>2. CASE u # a
    <3>1. u \notin exposed /\ pc'[u] = pc[u] /\ dir'[u] = dir[u] /\ UNCHANGED birth
      BY <1>0, <1>21, <2>0, <2>2 DEF Rmdir, Keep, Back
    <3>2. Inside(u) /\ Held(u)
      BY <1>0, <3>1
    <3>3. \A x \in Agents : dir[u] \notin free'[x]
      BY <1>21, <2>0, <3>2 DEF Held, Rmdir, Keep, Back
    <3>4. \A x \in Agents : pc'[x] = "looking" /\ dir'[x] = dir[u] => MarkOf(u) \in listed'[x]
      BY <1>21, <2>0, <2>2, <3>2 DEF Held, Rmdir, Keep, Back
    <3>5. MarkOf(u) \in marks' /\ (dir[u] \in data => dir[u] \in data')
      BY <1>21, <2>0, <2>2, <3>2 DEF Held, Rmdir, Keep, Back
    <3> QED
      BY <3>1, <3>2, <3>3, <3>4, <3>5, HeldKept
  <2> QED
    BY <2>1, <2>2
<1>22. ASSUME NEW a \in Agents, Finish(a) PROVE Held(u)'
  <2>0. a \in Agents
    BY DEF Agents
  <2>1. CASE u = a
    BY <1>22, <2>0, <2>1 DEF Finish
  <2>2. CASE u # a
    <3>1. u \notin exposed /\ pc'[u] = pc[u] /\ dir'[u] = dir[u] /\ UNCHANGED birth
      BY <1>0, <1>22, <2>0, <2>2 DEF Finish, Chooses
    <3>2. Inside(u) /\ Held(u)
      BY <1>0, <3>1
    <3>3. \A x \in Agents : dir[u] \notin free'[x]
      BY <1>22, <2>0, <3>2 DEF Held, Finish, Chooses
    <3>4. \A x \in Agents : pc'[x] = "looking" /\ dir'[x] = dir[u] => MarkOf(u) \in listed'[x]
      BY <1>22, <2>0, <2>2, <3>2 DEF Held, Finish, Chooses
    <3>5. MarkOf(u) \in marks' /\ (dir[u] \in data => dir[u] \in data')
      BY <1>22, <2>0, <2>2, <3>2 DEF Held, Finish, Chooses
    <3> QED
      BY <3>1, <3>2, <3>3, <3>4, <3>5, HeldKept
  <2> QED
    BY <2>1, <2>2
<1>23. ASSUME NEW d \in Dirs, Age(d) PROVE Held(u)'
  BY <1>0, <1>23, HeldKept DEF Age, Held
<1>24. ASSUME NEW p \in Pids, Die(p) PROVE Held(u)'
  <2>1. Pid(u) # p /\ u \notin exposed
    BY <1>0, <1>24 DEF Die
  <2>2. /\ pc'[u] = pc[u] /\ dir'[u] = dir[u]
        /\ \A x \in Agents : /\ free'[x] \in {{}, free[x]}
                             /\ pc'[x] = "looking"
                                  => pc[x] = "looking" /\ dir'[x] = dir[x] /\ listed'[x] = listed[x]
    BY <1>0, <1>24, <2>1 DEF Die
  <2>3. Inside(u) /\ Held(u)
    BY <1>0, <2>1, <2>2
  <2>4. \A x \in Agents : /\ dir[u] \notin free'[x]
                          /\ pc'[x] = "looking" /\ dir'[x] = dir[u] => MarkOf(u) \in listed'[x]
    BY <2>2, <2>3 DEF Held
  <2> QED
    BY <1>24, <2>2, <2>3, <2>4, HeldKept DEF Die, Held
<1>25. ASSUME NEW p \in Pids, Spawn(p) PROVE Held(u)'
  <2>1. u \notin exposed /\ Inside(u) /\ Held(u)
    BY <1>0, <1>25 DEF Spawn
  <2>2. Pid(u) \in alive
    BY <1>0, <2>1 DEF Running
  <2>3. birth'[Pid(u)] = birth[Pid(u)]
    BY <1>25, <2>2 DEF Spawn
  <2> QED
    BY <1>25, <2>1, <2>3, HeldKept DEF Spawn, Held
<1>26. ASSUME NEW p \in Pids, Hide(p) PROVE Held(u)'
  BY <1>0, <1>26, HeldKept DEF Hide, Held
<1> QED
  BY <1>1, <1>2, <1>3, <1>4, <1>5, <1>6, <1>7, <1>8, <1>9, <1>10, <1>11, <1>12, <1>13,
     <1>14, <1>15, <1>16, <1>17, <1>18, <1>19, <1>20, <1>21, <1>22, <1>23, <1>24, <1>25,
     <1>26 DEF Next

-----------------------------------------------------------------------------
\* Holding in every state.
LeaseInv == Base /\ Holding

LEMMA LeaseInit == Init => LeaseInv
<1> SUFFICES ASSUME Init PROVE LeaseInv
  OBVIOUS
<1>1. TypeOK
  BY DEF Init, TypeOK, Places
<1>2. Running /\ \A a \in Agents : Placed(a) /\ RemovesFree(a) /\ Looks(a)
  BY DEF Init, Running, Placed, RemovesFree, Looks
<1>3. Holding
  BY DEF Init, Holding, Inside, Agents
<1> QED
  BY <1>1, <1>2, <1>3 DEF LeaseInv, Base

LEMMA LeaseInvariance == Spec => []LeaseInv
<1>1. LeaseInv /\ [Next]_vars => LeaseInv'
  BY BaseStep, HoldingStep DEF LeaseInv
<1> QED
  BY LeaseInit, <1>1, PTL DEF Spec

\* A lease keeps a directory and its payload for as long as the dataset is in use,
\* whoever prunes, clears, dies or is born meanwhile, for any number of threads,
\* processes and directories (model_disk_cache.py 182-197, 323-362): the exceptions are
\* a lease that began when somebody had listed the lease files of the directory, and
\* one whose file got its name after it was listed and before it was looked at.
THEOREM LeasesAreHeld == Spec => []LeasesHold
<1>1. LeaseInv => LeasesHold
  BY DEF LeaseInv, Holding, Inside, Held, LeasesHold, Leasing, Leased
<1> QED
  BY <1>1, LeaseInvariance, PTL

-----------------------------------------------------------------------------
\* What a mark says of its user goes on to hold if a user inside stays there, and its
\* process is not born anew.
LEMMA OfItsUserKept ==
  ASSUME NEW m, OfItsUser(m), birth' = birth, alive' \subseteq alive,
         \/ Inside(m.user) => Inside(m.user)' /\ dir'[m.user] = dir[m.user]
         \/ Pid(m.user) \notin alive'
  PROVE  OfItsUser(m)'
BY DEF OfItsUser, Inside, Pid

LEMMA MarksStep == Base /\ MarksOfUsers /\ [Next]_vars => MarksOfUsers'
<1> SUFFICES ASSUME Base, MarksOfUsers, [Next]_vars PROVE MarksOfUsers'
  OBVIOUS
<1> USE DEF Base, TypeOK, Goto, At, life, disk, plan
<1>0. Users \subseteq Agents /\ \A m \in marks : m.user \in Users
  BY DEF Agents
<1>1. CASE UNCHANGED vars
  BY <1>1 DEF vars, MarksOfUsers, OfItsUser, Inside, Pid
<1>2. ASSUME NEW u \in Users, NEW d \in Dirs, Resolve(u, d) PROVE MarksOfUsers'
  <2>1. marks' \subseteq marks /\ birth' = birth /\ alive' = alive
    BY <1>2 DEF Resolve
  <2>2. \A v \in Users : Inside(v) => Inside(v)' /\ dir'[v] = dir[v]
    BY <1>0, <1>2 DEF Inside, Resolve
  <2> QED
    BY <1>0, <2>1, <2>2, OfItsUserKept DEF MarksOfUsers
<1>3. ASSUME NEW u \in Users, Begin(u) PROVE MarksOfUsers'
  <2>1. marks' = marks \cup {MarkOf(u)} /\ UNCHANGED <<birth, alive, dir>>
    BY <1>3 DEF Begin
  <2>2. MarkOf(u).user = u /\ MarkOf(u).dir = dir[u] /\ MarkOf(u).birth = birth[Pid(u)]
    BY DEF MarkOf
  <2>3. OfItsUser(MarkOf(u))'
    <3>1. Pid(u) \in alive /\ Pid(u) \in Pids /\ birth[Pid(u)] \in Nat /\ pc'[u] = "begun"
      BY <1>0, <1>3 DEF Begin
    <3> QED
      BY <2>1, <2>2, <3>1 DEF OfItsUser, Inside, MarkOf, Pid
  <2>4. ASSUME NEW v \in Users, Inside(v) PROVE Inside(v)'
    BY <1>0, <1>3, <2>4 DEF Begin, Inside
  <2>5. ASSUME NEW m \in marks PROVE OfItsUser(m)'
    BY <1>0, <2>1, <2>4, OfItsUserKept DEF MarksOfUsers
  <2>6. MarkOf(u)' = MarkOf(u)
    BY <2>1 DEF MarkOf, Pid
  <2> QED
    BY <2>1, <2>3, <2>5, <2>6 DEF MarksOfUsers
<1>4. ASSUME NEW u \in Users, Sign(u) PROVE MarksOfUsers'
  <2>1. marks' \subseteq marks /\ birth' = birth /\ alive' = alive
    BY <1>4 DEF Sign
  <2>2. \A v \in Users : Inside(v) => Inside(v)' /\ dir'[v] = dir[v]
    BY <1>0, <1>4 DEF Inside, Sign
  <2> QED
    BY <1>0, <2>1, <2>2, OfItsUserKept DEF MarksOfUsers
<1>5. ASSUME NEW u \in Users, Commit(u) PROVE MarksOfUsers'
  <2>1. UNCHANGED <<marks, birth, alive, dir>>
    BY <1>5 DEF Commit
  <2>2. CASE MarkOf(u) \in marks
    <3>1. ASSUME NEW v \in Users, Inside(v) PROVE Inside(v)'
      BY <1>0, <1>5, <2>2, <3>1 DEF Commit, Inside
    <3> QED
      BY <1>0, <2>1, <3>1, OfItsUserKept DEF MarksOfUsers
  <2>3. CASE MarkOf(u) \notin marks
    <3>1. \A v \in Users : v # u => pc'[v] = pc[v]
      BY <1>0, <1>5 DEF Commit
    <3>2. ASSUME NEW m \in marks, m.user = u PROVE m.birth # birth[Pid(u)]
      <4>1. OfItsUser(m) /\ Pid(u) \in alive /\ m \in [user : Users, dir : Dirs, birth : Nat]
        BY <1>5, <3>2 DEF MarksOfUsers, Commit
      <4>2. m.birth = birth[Pid(u)] => m = MarkOf(u)
        BY <3>2, <4>1 DEF OfItsUser, MarkOf
      <4> QED
        BY <2>3, <4>2
    <3> QED
      BY <1>0, <2>1, <3>1, <3>2 DEF MarksOfUsers, OfItsUser, Inside, Pid
  <2> QED
    BY <2>2, <2>3
<1>6. ASSUME NEW u \in Users, Lease(u) PROVE MarksOfUsers'
  <2>1. marks' \subseteq marks /\ birth' = birth /\ alive' = alive
    BY <1>6 DEF Lease
  <2>2. \A v \in Users : Inside(v) => Inside(v)' /\ dir'[v] = dir[v]
    BY <1>0, <1>6 DEF Inside, Lease
  <2> QED
    BY <1>0, <2>1, <2>2, OfItsUserKept DEF MarksOfUsers
<1>7. ASSUME NEW u \in Users, Load(u) PROVE MarksOfUsers'
  <2>1. marks' \subseteq marks /\ birth' = birth /\ alive' = alive
    BY <1>7 DEF Load
  <2>2. \A v \in Users : Inside(v) => Inside(v)' /\ dir'[v] = dir[v]
    BY <1>0, <1>7 DEF Inside, Load
  <2> QED
    BY <1>0, <2>1, <2>2, OfItsUserKept DEF MarksOfUsers
<1>8. ASSUME NEW u \in Users, Release(u) PROVE MarksOfUsers'
  <2>1. marks' = marks \ {MarkOf(u)} /\ UNCHANGED <<birth, alive, dir>>
    BY <1>8 DEF Release, Unlink
  <2>2. \A v \in Users : v # u => pc'[v] = pc[v]
    BY <1>0, <1>8 DEF Release
  <2>3. ASSUME NEW m \in marks', m.user = u PROVE m.birth # birth[Pid(u)]
    <3>1. OfItsUser(m) /\ Pid(u) \in alive /\ m \in [user : Users, dir : Dirs, birth : Nat]
      BY <1>8, <2>1, <2>3 DEF MarksOfUsers, Release
    <3>2. m.birth = birth[Pid(u)] => m = MarkOf(u)
      BY <2>3, <3>1 DEF OfItsUser, MarkOf
    <3> QED
      BY <2>1, <3>2
  <2> QED
    BY <1>0, <2>1, <2>2, <2>3 DEF MarksOfUsers, OfItsUser, Inside, Pid
<1>9. ASSUME NEW u \in Users, Close(u) PROVE MarksOfUsers'
  <2>1. marks' \subseteq marks /\ birth' = birth /\ alive' = alive
    BY <1>9 DEF Close
  <2>2. \A v \in Users : Inside(v) => Inside(v)' /\ dir'[v] = dir[v]
    BY <1>0, <1>9 DEF Inside, Close
  <2> QED
    BY <1>0, <2>1, <2>2, OfItsUserKept DEF MarksOfUsers
<1>10. ASSUME NEW u \in Users, Startup(u) PROVE MarksOfUsers'
  <2>1. marks' \subseteq marks /\ birth' = birth /\ alive' = alive
    BY <1>10 DEF Startup, BeginPrune
  <2>2. \A v \in Users : Inside(v) => Inside(v)' /\ dir'[v] = dir[v]
    BY <1>0, <1>10 DEF Inside, Startup, BeginPrune
  <2> QED
    BY <1>0, <2>1, <2>2, OfItsUserKept DEF MarksOfUsers
<1>11. ASSUME NEW u \in Users, Prune(u) PROVE MarksOfUsers'
  <2>1. marks' \subseteq marks /\ birth' = birth /\ alive' = alive
    BY <1>11 DEF Prune, BeginPrune
  <2>2. \A v \in Users : Inside(v) => Inside(v)' /\ dir'[v] = dir[v]
    BY <1>0, <1>11 DEF Inside, Prune, BeginPrune
  <2> QED
    BY <1>0, <2>1, <2>2, OfItsUserKept DEF MarksOfUsers
<1>12. ASSUME NEW u \in Users, NEW d \in Dirs, Remove(u, d) PROVE MarksOfUsers'
  <2>1. marks' \subseteq marks /\ birth' = birth /\ alive' = alive
    BY <1>12 DEF Remove, Chooses
  <2>2. \A v \in Users : Inside(v) => Inside(v)' /\ dir'[v] = dir[v]
    BY <1>0, <1>12 DEF Inside, Remove, Chooses
  <2> QED
    BY <1>0, <2>1, <2>2, OfItsUserKept DEF MarksOfUsers
<1>13. ASSUME NEW c \in Cleaners, Clear(c) PROVE MarksOfUsers'
  <2>1. marks' \subseteq marks /\ birth' = birth /\ alive' = alive
    BY <1>13 DEF Clear
  <2>2. \A v \in Users : Inside(v) => Inside(v)' /\ dir'[v] = dir[v]
    BY <1>0, <1>13 DEF Inside, Clear
  <2> QED
    BY <1>0, <2>1, <2>2, OfItsUserKept DEF MarksOfUsers
<1>14. ASSUME NEW c \in Cleaners, NEW d \in Dirs, Delete(c, d) PROVE MarksOfUsers'
  <2>1. marks' \subseteq marks /\ birth' = birth /\ alive' = alive
    BY <1>14 DEF Delete, Chooses
  <2>2. \A v \in Users : Inside(v) => Inside(v)' /\ dir'[v] = dir[v]
    BY <1>0, <1>14 DEF Inside, Delete, Chooses
  <2> QED
    BY <1>0, <2>1, <2>2, OfItsUserKept DEF MarksOfUsers
<1>15. ASSUME NEW a \in Agents, NEW d \in Dirs, List(a, d) PROVE MarksOfUsers'
  <2>1. marks' \subseteq marks /\ birth' = birth /\ alive' = alive
    BY <1>15 DEF List
  <2>2. \A v \in Users : Inside(v) => Inside(v)' /\ dir'[v] = dir[v]
    BY <1>0, <1>15 DEF Inside, List
  <2> QED
    BY <1>0, <2>1, <2>2, OfItsUserKept DEF MarksOfUsers
<1>16. ASSUME NEW a \in Agents, NEW m \in listed[a], RemoveLapsed(a, m) PROVE MarksOfUsers'
  <2>1. marks' \subseteq marks /\ birth' = birth /\ alive' = alive
    BY <1>16 DEF RemoveLapsed, Unlink
  <2>2. \A v \in Users : Inside(v) => Inside(v)' /\ dir'[v] = dir[v]
    BY <1>0, <1>16 DEF Inside, RemoveLapsed, Unlink
  <2> QED
    BY <1>0, <2>1, <2>2, OfItsUserKept DEF MarksOfUsers
<1>17. ASSUME NEW a \in Agents, NEW m \in listed[a], Spare(a, m) PROVE MarksOfUsers'
  <2>1. marks' \subseteq marks /\ birth' = birth /\ alive' = alive
    BY <1>17 DEF Spare, Back
  <2>2. \A v \in Users : Inside(v) => Inside(v)' /\ dir'[v] = dir[v]
    BY <1>0, <1>17 DEF Inside, Spare, Back
  <2> QED
    BY <1>0, <2>1, <2>2, OfItsUserKept DEF MarksOfUsers
<1>18. ASSUME NEW a \in Agents, Pass(a) PROVE MarksOfUsers'
  <2>1. marks' \subseteq marks /\ birth' = birth /\ alive' = alive
    BY <1>18 DEF Pass, Back
  <2>2. \A v \in Users : Inside(v) => Inside(v)' /\ dir'[v] = dir[v]
    BY <1>0, <1>18 DEF Inside, Pass, Back
  <2> QED
    BY <1>0, <2>1, <2>2, OfItsUserKept DEF MarksOfUsers
<1>19. ASSUME NEW a \in Agents, Empty(a) PROVE MarksOfUsers'
  <2>1. marks' \subseteq marks /\ birth' = birth /\ alive' = alive
    BY <1>19 DEF Empty, Unlink
  <2>2. \A v \in Users : Inside(v) => Inside(v)' /\ dir'[v] = dir[v]
    BY <1>0, <1>19 DEF Inside, Empty, Unlink
  <2> QED
    BY <1>0, <2>1, <2>2, OfItsUserKept DEF MarksOfUsers
<1>20. ASSUME NEW a \in Agents, EmptySome(a) PROVE MarksOfUsers'
  <2>1. marks' \subseteq marks /\ birth' = birth /\ alive' = alive
    BY <1>20 DEF EmptySome, Unlink, Keep, Back
  <2>2. \A v \in Users : Inside(v) => Inside(v)' /\ dir'[v] = dir[v]
    BY <1>0, <1>20 DEF Inside, EmptySome, Unlink, Keep, Back
  <2> QED
    BY <1>0, <2>1, <2>2, OfItsUserKept DEF MarksOfUsers
<1>21. ASSUME NEW a \in Agents, Rmdir(a) PROVE MarksOfUsers'
  <2>1. marks' \subseteq marks /\ birth' = birth /\ alive' = alive
    BY <1>21 DEF Rmdir, Keep, Back
  <2>2. \A v \in Users : Inside(v) => Inside(v)' /\ dir'[v] = dir[v]
    BY <1>0, <1>21 DEF Inside, Rmdir, Keep, Back
  <2> QED
    BY <1>0, <2>1, <2>2, OfItsUserKept DEF MarksOfUsers
<1>22. ASSUME NEW a \in Agents, Finish(a) PROVE MarksOfUsers'
  <2>1. marks' \subseteq marks /\ birth' = birth /\ alive' = alive
    BY <1>22 DEF Finish, Chooses
  <2>2. \A v \in Users : Inside(v) => Inside(v)' /\ dir'[v] = dir[v]
    BY <1>0, <1>22 DEF Inside, Finish, Chooses
  <2> QED
    BY <1>0, <2>1, <2>2, OfItsUserKept DEF MarksOfUsers
<1>23. ASSUME NEW d \in Dirs, Age(d) PROVE MarksOfUsers'
  BY <1>23 DEF Age, MarksOfUsers, OfItsUser, Inside, Pid
<1>24. ASSUME NEW p \in Pids, Die(p) PROVE MarksOfUsers'
  <2>1. UNCHANGED marks /\ birth' = birth /\ alive' = alive \ {p}
    BY <1>24 DEF Die
  <2>2. \A u \in Users : Pid(u) # p => pc'[u] = pc[u] /\ dir'[u] = dir[u]
    BY <1>0, <1>24 DEF Die
  <2>3. \A u \in Users : Pid(u) # p /\ Inside(u) => Inside(u)'
    BY <2>2 DEF Inside
  <2> QED
    BY <1>0, <2>1, <2>2, <2>3, OfItsUserKept DEF MarksOfUsers
<1>25. ASSUME NEW p \in Pids, Spawn(p) PROVE MarksOfUsers'
  <2>1. UNCHANGED <<marks, pc, dir>> /\ alive' = alive \cup {p}
    BY <1>25 DEF Spawn
  <2>2. p \notin alive /\ birth'[p] = birth[p] + 1 /\ \A q \in Pids : q # p => birth'[q] = birth[q]
    BY <1>25 DEF Spawn
  <2>3. ASSUME NEW m \in marks, Pid(m.user) = p PROVE OfItsUser(m)'
    <3>1. m.birth \in Nat /\ m.birth <= birth[p] /\ birth[p] \in Nat
      BY <2>3 DEF MarksOfUsers, OfItsUser
    <3> QED
      BY <2>2, <2>3, <3>1 DEF OfItsUser, Pid
  <2>4. ASSUME NEW m \in marks, Pid(m.user) # p PROVE OfItsUser(m)'
    BY <2>1, <2>2, <2>4 DEF MarksOfUsers, OfItsUser, Inside, Pid
  <2> QED
    BY <2>1, <2>3, <2>4 DEF MarksOfUsers
<1>26. ASSUME NEW p \in Pids, Hide(p) PROVE MarksOfUsers'
  BY <1>26 DEF Hide, MarksOfUsers, OfItsUser, Inside, Pid
<1> QED
  BY <1>1, <1>2, <1>3, <1>4, <1>5, <1>6, <1>7, <1>8, <1>9, <1>10, <1>11, <1>12, <1>13,
     <1>14, <1>15, <1>16, <1>17, <1>18, <1>19, <1>20, <1>21, <1>22, <1>23, <1>24, <1>25,
     <1>26 DEF Next

\* A thread that stops looking at an entry and has not found it free has met an active
\* lease in it.
LEMMA SparedIsLeased ==
  ASSUME Base, [Next]_vars, NEW a \in Agents, pc[a] \in {"looking", "checking"},
         pc'[a] = "working", dir[a] \notin free'[a]
  PROVE  \E m \in MarksOf(dir[a]) : Active(m)
<1> USE DEF Base, TypeOK, Goto, At, life, disk, plan
<1>0. Users \subseteq Agents /\ Cleaners \subseteq Agents
  BY DEF Agents
<1>1. PICK m \in listed[a] : Spare(a, m)
  <2>1. ASSUME NEW x \in Agents, NEW m \in listed[x], Spare(x, m) PROVE x = a
    BY <2>1 DEF Spare, Back
  <2>2. ASSUME NEW x \in Agents, Pass(x) PROVE FALSE
    <3>1. x = a /\ pc[a] = "looking"
      BY <2>2 DEF Pass, Back
    <3> QED
      BY <2>2, <3>1 DEF Pass
  <2>3. ~UNCHANGED pc /\ ~UNCHANGED vars
    BY DEF vars
  <2>4. \A u \in Users : /\ ~Begin(u) /\ ~Sign(u) /\ ~Commit(u) /\ ~Lease(u) /\ ~Load(u)
                         /\ ~Release(u) /\ ~Close(u)
                         /\ \A e \in Dirs : ~Resolve(u, e) /\ ~Remove(u, e)
    BY <1>0, <2>3 DEF Begin, Sign, Commit, Lease, Load, Release, Close, Resolve, Remove
  <2>5. \A u \in Users : ~Startup(u) /\ ~Prune(u)
    BY <1>0 DEF Startup, Prune, BeginPrune
  <2>6. \A c \in Cleaners : ~Clear(c) /\ \A e \in Dirs : ~Delete(c, e)
    BY <1>0 DEF Clear, Delete
  <2>7. \A x \in Agents : /\ ~Empty(x) /\ ~EmptySome(x) /\ ~Rmdir(x) /\ ~Finish(x)
                          /\ \A e \in Dirs : ~List(x, e)
                          /\ \A m \in listed[x] : ~RemoveLapsed(x, m)
    BY <2>3 DEF Empty, EmptySome, Rmdir, Finish, Chooses, Keep, Back, List, RemoveLapsed
  <2>8. \A p \in Pids : ~Die(p) /\ ~Spawn(p) /\ ~Hide(p)
    BY <2>3 DEF Die, Spawn, Hide
  <2>9. \A d \in Dirs : ~Age(d)
    BY <2>3 DEF Age
  <2> QED
    BY <2>1, <2>2, <2>3, <2>4, <2>5, <2>6, <2>7, <2>8, <2>9 DEF Next
<1>2. m \in MarksOf(dir[a])
  BY <1>1 DEF Looks, MarksOf
<1> QED
  BY <1>1, <1>2 DEF Spare

\* Processes, leases and marks together.
MarkInv == Base /\ MarksOfUsers

LEMMA MarkInvariance == Spec => []MarkInv
<1>1. Init => MarkInv
  BY LeaseInit DEF Init, MarkInv, LeaseInv, MarksOfUsers
<1>2. MarkInv /\ [Next]_vars => MarkInv'
  BY BaseStep, MarksStep DEF MarkInv
<1> QED
  BY <1>1, <1>2, PTL DEF Spec

\* An entry is spared for the sake of somebody who uses it: not for a process that
\* died, nor for one that was given its process id, if the lease and the process say
\* who they are, for any number of threads, processes and directories
\* (model_disk_cache.py 337-362).
THEOREM OnlyUsersAreProtected == Spec => OnlyUsersProtect
<1>1. ASSUME MarkInv, [Next]_vars, NEW a \in Agents, pc[a] \in {"looking", "checking"},
             pc'[a] = "working", dir[a] \notin free'[a]
      PROVE  \/ \E u \in Users : dir[u] = dir[a] /\ (pc[u] = "begun" \/ Leasing(u))
             \/ \E m \in MarksOf(dir[a]) :
                  Pid(m.user) \in alive /\ (m \notin signed \/ Pid(m.user) \in hidden)
  <2>1. PICK m \in MarksOf(dir[a]) : Active(m)
    BY <1>1, SparedIsLeased DEF MarkInv
  <2>2. m.user \in Users /\ m.dir = dir[a] /\ OfItsUser(m)
    BY <1>1, <2>1 DEF MarkInv, Base, TypeOK, MarksOf, MarksOfUsers
  <2>3. CASE m.birth = birth[Pid(m.user)]
    BY <2>1, <2>2, <2>3 DEF OfItsUser, Active, Inside, Leasing
  <2>4. CASE m \notin signed \/ Pid(m.user) \in hidden
    BY <2>1, <2>4 DEF Active
  <2> QED
    BY <2>1, <2>3, <2>4 DEF Active
<1> DEFINE Step ==
      \A a \in Agents :
        LET d == dir[a] IN
        pc[a] \in {"looking", "checking"} /\ pc'[a] = "working" /\ d \notin free'[a]
          => \/ \E u \in Users : dir[u] = d /\ (pc[u] = "begun" \/ Leasing(u))
             \/ \E m \in MarksOf(d) :
                  Pid(m.user) \in alive /\ (m \notin signed \/ Pid(m.user) \in hidden)
<1>2. MarkInv /\ [Next]_vars => [Step]_vars
  BY <1>1
<1> QED
  BY <1>2, MarkInvariance, PTL DEF Spec, OnlyUsersProtect

-----------------------------------------------------------------------------
(* MapFrameCache, as MCDiskCaches instantiates it.                         *)

\* The sizes of some files.
Sized == UNION {[D -> Nat] : D \in SUBSET Maps!Names}
Tasks == {"none", "reserve", "read", "reconcile"}

MapTypes ==
  /\ mapPc \in [Procs -> {"idle", "pruning", "evicting", "staging", "staged", "reading"}]
  /\ work \in [Procs -> [task : Tasks, frame : Frames \cup {None}, size : Nat,
                         part : Parts \cup {None}]]
  /\ scan \in [Procs -> [left : Sized, expired : SUBSET Maps!Names, total : Int]]
  /\ files \in Sized /\ IsFiniteSet(DOMAIN files)
  /\ owing \subseteq Procs
  /\ covers \in [Procs -> SUBSET Procs]

\* What a process is about fits to where it is.
Fits(p) ==
  /\ mapPc[p] \in {"staging", "staged"} => work[p].task = "reserve"
  /\ work[p].task = "reserve" => work[p].frame \in Frames
  /\ mapPc[p] = "staged" => work[p].part \in Parts
  /\ mapPc[p] \in {"pruning", "evicting"} => work[p].task # "none"
  /\ work[p].task = "reconcile" => mapPc[p] \in {"pruning", "evicting"}
  /\ covers[p] # {} => mapPc[p] = "evicting" /\ work[p].task \in {"read", "reconcile"}
  /\ IsFiniteSet(DOMAIN scan[p].left)

MapBase == MapTypes /\ \A p \in Procs : Fits(p)

FramesOnDisk == Frames \cap DOMAIN files
Good == SumFunctionOnSet(files, FramesOnDisk) <= MaxMapBytes

\* A prune nothing has come between: the frames on disk are those it may still remove,
\* at the sizes it found, and they count, as do the temporary files it may remove.
Sound(p) ==
  /\ mapPc[p] = "evicting" /\ work[p].task \in {"read", "reconcile"}
  /\ FramesOnDisk \subseteq DOMAIN scan[p].left
  /\ \A n \in FramesOnDisk : files[n] = scan[p].left[n]
  /\ SumFunctionOnSet(files, FramesOnDisk)
       + SumFunctionOnSet(scan[p].left, Parts \cap DOMAIN scan[p].left) <= scan[p].total

\* If the frames on disk exceed the limit then somebody has published one and is yet to
\* scan, or has scanned and nothing came between; or has lost its prune, and whoever
\* makes up for that has scanned and nothing came between.
Owed ==
  \/ Good
  \/ \E q \in Procs : work[q].task = "reconcile" /\ (mapPc[q] = "pruning" \/ Sound(q))
  \/ \E q \in owing : \A p \in Procs : q \in covers[p] => Sound(p)

-----------------------------------------------------------------------------
LEMMA SameSums == \A f, S : Maps!SumFunctionOnSet(f, S) = SumFunctionOnSet(f, S)
BY DEF Maps!SumFunctionOnSet, Maps!FoldFunctionOnSet, Maps!MapThenFoldSet,
       SumFunctionOnSet, FoldFunctionOnSet, MapThenFoldSet

LEMMA SizedIs ==
  /\ \A f \in Sized : DOMAIN f \subseteq Maps!Names /\ f \in [DOMAIN f -> Nat]
  /\ \A D \in SUBSET Maps!Names : \A f \in [D -> Nat] : f \in Sized
BY DEF Sized

LEMMA RestrictSized ==
  ASSUME NEW f \in Sized, NEW D, D \subseteq DOMAIN f
  PROVE  /\ Maps!Restrict(f, D) \in Sized /\ DOMAIN Maps!Restrict(f, D) = D
         /\ \A n \in D : Maps!Restrict(f, D)[n] = f[n]
<1>1. D \in SUBSET Maps!Names /\ \A n \in D : f[n] \in Nat
  BY SizedIs
<1>2. Maps!Restrict(f, D) = [n \in D |-> f[n]]
  BY DEF Maps!Restrict
<1>3. [n \in D |-> f[n]] \in [D -> Nat]
  BY <1>1
<1> QED
  BY <1>1, <1>2, <1>3, SizedIs

LEMMA WithSized ==
  ASSUME files \in Sized, NEW n \in Maps!Names, NEW b \in Nat
  PROVE  /\ Maps!With(n, b) \in Sized /\ DOMAIN Maps!With(n, b) = DOMAIN files \cup {n}
         /\ \A m \in DOMAIN files \ {n} : Maps!With(n, b)[m] = files[m]
<1> DEFINE D == DOMAIN files \cup {n}
           w == [m \in D |-> IF m = n THEN b ELSE files[m]]
<1>1. D \in SUBSET Maps!Names /\ \A m \in DOMAIN files : files[m] \in Nat
  BY SizedIs
<1>2. Maps!With(n, b) = w
  BY DEF Maps!With
<1>3. w \in [D -> Nat]
  BY <1>1
<1>4. w \in Sized
  <2> HIDE DEF D, w
  <2> QED
    BY <1>1, <1>3, SizedIs
<1> QED
  BY <1>2, <1>4

LEMMA NoFilesSized == Maps!NoFiles \in Sized /\ DOMAIN Maps!NoFiles = {}
<1>1. Maps!NoFiles \in [{} -> Nat] /\ DOMAIN Maps!NoFiles = {}
  BY DEF Maps!NoFiles
<1> QED
  BY <1>1, SizedIs

-----------------------------------------------------------------------------
(* The types.                                                              *)

ScanType == [left : Sized, expired : SUBSET Maps!Names, total : Int]
WorkType == [task : Tasks, frame : Frames \cup {None}, size : Nat, part : Parts \cup {None}]

LEMMA NoWorkType ==
  /\ Maps!NoWork \in WorkType /\ Maps!NoWork.task = "none"
  /\ \A t \in Tasks : LET w == [Maps!NoWork EXCEPT !.task = t]
                      IN w \in WorkType /\ w.task = t
BY DEF Maps!NoWork, WorkType, Tasks

LEMMA NoScanType ==
  Maps!NoScan \in ScanType /\ IsFiniteSet(DOMAIN Maps!NoScan.left)
<1>1. /\ Maps!NoScan = [left |-> Maps!NoFiles, expired |-> {}, total |-> 0]
      /\ Maps!NoScan.left = Maps!NoFiles
  BY DEF Maps!NoScan
<1> QED
  BY <1>1, NoFilesSized, FS_EmptySet DEF ScanType

\* A process starts something else, or nothing.
LEMMA StartTypes ==
  ASSUME MapBase, NEW p \in Procs, NEW place, NEW w \in WorkType, Maps!Start(p, place, w)
  PROVE  /\ work' \in [Procs -> WorkType] /\ work'[p] = w /\ mapPc'[p] = place
         /\ \A q \in Procs : q # p => mapPc'[q] = mapPc[q] /\ work'[q] = work[q]
BY DEF MapBase, MapTypes, WorkType, Maps!Start, Maps!Goto

\* The step of a process that others do not notice keeps what they are about.
LEMMA OthersFit ==
  ASSUME MapBase, NEW p \in Procs, NEW q \in Procs, q # p,
         mapPc'[q] = mapPc[q], work'[q] = work[q], scan'[q] = scan[q], covers'[q] \subseteq covers[q]
  PROVE  Fits(q)'
BY DEF MapBase, Fits

LEMMA MapBaseInit == Maps!MapAssumption /\ Maps!Init => MapBase
<1> SUFFICES ASSUME Maps!Init PROVE MapBase
  OBVIOUS
<1>1. MapTypes
  BY NoWorkType, NoScanType, NoFilesSized, FS_EmptySet
     DEF Maps!Init, MapTypes, WorkType, ScanType
<1>2. \A p \in Procs : Fits(p)
  BY NoWorkType, NoScanType DEF Maps!Init, Fits
<1> QED
  BY <1>1, <1>2 DEF MapBase

\* The directory without a file.
LEMMA WithoutSized ==
  ASSUME MapBase, NEW n
  PROVE  /\ Maps!Without(n) \in Sized /\ DOMAIN Maps!Without(n) = DOMAIN files \ {n}
         /\ \A m \in DOMAIN files \ {n} : Maps!Without(n)[m] = files[m]
         /\ IsFiniteSet(DOMAIN Maps!Without(n))
<1>1. DOMAIN files \ {n} \subseteq DOMAIN files /\ files \in Sized
  BY DEF MapBase, MapTypes
<1>2. IsFiniteSet(DOMAIN files \ {n})
  BY FS_RemoveElement DEF MapBase, MapTypes
<1> QED
  BY <1>1, <1>2, RestrictSized DEF Maps!Without

\* What each step of a process does to the types and to what it is about itself.
LEMMA WriteTypes ==
  ASSUME Maps!MapAssumption, MapBase, NEW p \in Procs, Maps!Write(p)
  PROVE  MapBase'
<1> USE DEF Maps!Write, MapBase
<1>a. PICK w \in WorkType : Maps!Start(p, "pruning", w) /\ w.task = "reserve" /\ w.frame \in Frames
  <2>1. PICK f \in Frames, b \in Sizes :
          Maps!Start(p, "pruning", [task |-> "reserve", frame |-> f, size |-> b, part |-> None])
    OBVIOUS
  <2>2. b \in Nat
    BY DEF Maps!MapAssumption
  <2> DEFINE new == [task |-> "reserve", frame |-> f, size |-> b, part |-> None]
  <2>3. new \in WorkType /\ new.task = "reserve" /\ new.frame \in Frames
    BY <2>2 DEF WorkType, Tasks
  <2> QED
    BY <2>1, <2>3
<1>b. /\ work' \in [Procs -> WorkType] /\ work'[p].task = "reserve" /\ work'[p].frame \in Frames
      /\ mapPc'[p] = "pruning" /\ \A q \in Procs : q # p => mapPc'[q] = mapPc[q] /\ work'[q] = work[q]
  BY <1>a, StartTypes
<1>1. MapTypes'
  BY <1>a, <1>b DEF MapTypes, WorkType, Maps!Start, Maps!Goto
<1>2. Fits(p)'
  BY <1>b DEF Fits
<1>9. \A q \in Procs : q # p => Fits(q)'
  BY <1>b, OthersFit DEF Fits
<1> QED
  BY <1>1, <1>2, <1>9 DEF MapBase

LEMMA ReadTypes ==
  ASSUME Maps!MapAssumption, MapBase, NEW p \in Procs, Maps!Read(p)
  PROVE  MapBase'
<1> USE DEF Maps!Read, MapBase
<1>a. PICK place \in {"pruning", "reading"} :
        Maps!Start(p, place, [Maps!NoWork EXCEPT !.task = "read"])
  OBVIOUS
<1>b. /\ work' \in [Procs -> WorkType] /\ work'[p].task = "read"
      /\ mapPc'[p] = place /\ \A q \in Procs : q # p => mapPc'[q] = mapPc[q] /\ work'[q] = work[q]
  <2>1. PICK new \in WorkType : Maps!Start(p, place, new) /\ new.task = "read"
    <3>1. [Maps!NoWork EXCEPT !.task = "read"] \in WorkType
      BY NoWorkType DEF WorkType, Tasks
    <3>2. [Maps!NoWork EXCEPT !.task = "read"].task = "read"
      BY NoWorkType DEF WorkType
    <3> QED
      BY <1>a, <3>1, <3>2
  <2> QED
    BY <2>1, StartTypes
<1>1. MapTypes'
  BY <1>a, <1>b DEF MapTypes, WorkType, Maps!Start, Maps!Goto
<1>2. Fits(p)'
  BY <1>b DEF Fits
<1>9. \A q \in Procs : q # p => Fits(q)'
  BY <1>b, OthersFit DEF Fits
<1> QED
  BY <1>1, <1>2, <1>9 DEF MapBase

\* A process has nothing to do any more.
LEMMA ReturnTypes ==
  ASSUME MapBase, NEW p \in Procs, Maps!Return(p)
  PROVE  /\ work' \in [Procs -> WorkType] /\ scan' \in [Procs -> ScanType]
         /\ mapPc' \in [Procs -> {"idle", "pruning", "evicting", "staging", "staged", "reading"}]
         /\ mapPc'[p] = "idle" /\ work'[p].task = "none" /\ IsFiniteSet(DOMAIN scan'[p].left)
         /\ \A q \in Procs : q # p => /\ mapPc'[q] = mapPc[q] /\ work'[q] = work[q]
                                      /\ scan'[q] = scan[q]
<1>1. Maps!Start(p, "idle", Maps!NoWork) /\ scan' = [scan EXCEPT ![p] = Maps!NoScan]
  BY DEF Maps!Return
<1>2. scan' \in [Procs -> ScanType] /\ scan'[p] = Maps!NoScan /\ \A q \in Procs : q # p => scan'[q] = scan[q]
  BY <1>1, NoScanType DEF MapBase, MapTypes, ScanType
<1>3. mapPc' \in [Procs -> {"idle", "pruning", "evicting", "staging", "staged", "reading"}]
  BY <1>1 DEF MapBase, MapTypes, Maps!Start, Maps!Goto
<1> QED
  BY <1>1, <1>2, <1>3, NoWorkType, NoScanType, StartTypes

LEMMA SpoiltTypes ==
  ASSUME MapBase, NEW p \in Procs, Maps!Spoilt(p)
  PROVE  /\ owing' \subseteq Procs /\ covers' \in [Procs -> SUBSET Procs] /\ covers'[p] = {}
         /\ \A q \in Procs : covers'[q] \subseteq covers[q]
BY DEF MapBase, MapTypes, Maps!Spoilt

LEMMA CrashTypes ==
  ASSUME Maps!MapAssumption, MapBase, NEW p \in Procs, Maps!Crash(p)
  PROVE  MapBase'
<1> USE DEF Maps!Crash, MapBase
<1>a. Maps!Return(p) /\ Maps!Spoilt(p) /\ UNCHANGED files
  OBVIOUS
<1>1. MapTypes'
  BY <1>a, ReturnTypes, SpoiltTypes DEF MapTypes, WorkType, ScanType
<1>2. Fits(p)'
  BY <1>a, ReturnTypes, SpoiltTypes DEF Fits
<1>9. \A q \in Procs : q # p => Fits(q)'
  BY <1>a, ReturnTypes, SpoiltTypes, OthersFit DEF Fits
<1> QED
  BY <1>1, <1>2, <1>9 DEF MapBase

LEMMA TouchTypes ==
  ASSUME Maps!MapAssumption, MapBase, NEW p \in Procs, Maps!Touch(p)
  PROVE  MapBase'
<1> USE DEF Maps!Touch, MapBase
<1>a. Maps!Return(p) /\ UNCHANGED <<files, owing, covers>> /\ mapPc[p] = "reading"
  OBVIOUS
<1>1. MapTypes'
  BY <1>a, ReturnTypes DEF MapTypes, WorkType, ScanType
<1>2. Fits(p)'
  BY <1>a, ReturnTypes DEF Fits
<1>9. \A q \in Procs : q # p => Fits(q)'
  BY <1>a, ReturnTypes, OthersFit DEF Fits
<1> QED
  BY <1>1, <1>2, <1>9 DEF MapBase

LEMMA WriteFailsTypes ==
  ASSUME Maps!MapAssumption, MapBase, NEW p \in Procs, Maps!WriteFails(p)
  PROVE  MapBase'
<1> USE DEF Maps!WriteFails, MapBase
<1>a. Maps!Return(p) /\ UNCHANGED <<owing, covers>> /\ mapPc[p] = "staged"
  OBVIOUS
<1>b. files' \in Sized /\ IsFiniteSet(DOMAIN files')
  BY WithoutSized
<1>1. MapTypes'
  BY <1>a, <1>b, ReturnTypes DEF MapTypes, WorkType, ScanType
<1>2. Fits(p)'
  BY <1>a, ReturnTypes DEF Fits
<1>9. \A q \in Procs : q # p => Fits(q)'
  BY <1>a, ReturnTypes, OthersFit DEF Fits
<1> QED
  BY <1>1, <1>2, <1>9 DEF MapBase

LEMMA ScanFailsTypes ==
  ASSUME Maps!MapAssumption, MapBase, NEW p \in Procs, Maps!ScanFails(p)
  PROVE  MapBase'
<1> USE DEF Maps!ScanFails, MapBase
<1>1. CASE work[p].task = "read"
  <2>1. /\ mapPc' = [mapPc EXCEPT ![p] = "reading"] /\ work' = work /\ files' = files
        /\ scan' = [scan EXCEPT ![p] = Maps!NoScan] /\ Maps!Spoilt(p)
    BY <1>1 DEF Maps!Goto
  <2>2. /\ scan' \in [Procs -> ScanType] /\ scan'[p] = Maps!NoScan
        /\ \A q \in Procs : q # p => scan'[q] = scan[q] /\ mapPc'[q] = mapPc[q]
    BY <2>1, NoScanType DEF MapTypes, ScanType
  <2>3. MapTypes'
    BY <2>1, <2>2, SpoiltTypes DEF MapTypes, ScanType
  <2>4. Fits(p)'
    BY <1>1, <2>1, <2>2, NoScanType, SpoiltTypes DEF MapTypes, Fits
  <2>5. \A q \in Procs : q # p => Fits(q)'
    BY <2>1, <2>2, SpoiltTypes, OthersFit
  <2> QED
    BY <2>3, <2>4, <2>5
<1>2. CASE work[p].task # "read"
  <2>1. Maps!Return(p) /\ Maps!Spoilt(p) /\ UNCHANGED files
    BY <1>2
  <2>2. MapTypes'
    BY <2>1, ReturnTypes, SpoiltTypes DEF MapTypes, WorkType, ScanType
  <2>3. Fits(p)'
    BY <2>1, ReturnTypes, SpoiltTypes DEF Fits
  <2>4. \A q \in Procs : q # p => Fits(q)'
    BY <2>1, ReturnTypes, SpoiltTypes, OthersFit
  <2> QED
    BY <2>2, <2>3, <2>4
<1> QED
  BY <1>1, <1>2

LEMMA StageTypes ==
  ASSUME Maps!MapAssumption, MapBase, NEW p \in Procs, Maps!Stage(p)
  PROVE  MapBase'
<1> USE DEF Maps!Stage, MapBase
<1>a. PICK t \in Parts : /\ files' = Maps!With(t, work[p].size)
                         /\ work' = [work EXCEPT ![p].part = t]
  OBVIOUS
<1>w. work[p] \in WorkType /\ work[p].size \in Nat
  BY DEF MapTypes, WorkType
<1>b. files' \in Sized /\ IsFiniteSet(DOMAIN files')
  <2>1. t \in Maps!Names
    BY DEF Maps!Names
  <2>2. files' \in Sized /\ DOMAIN files' = DOMAIN files \cup {t}
    BY <1>a, <1>w, <2>1, WithSized DEF MapTypes
  <2>3. IsFiniteSet(DOMAIN files)
    BY DEF MapTypes
  <2>4. IsFiniteSet(DOMAIN files \cup {t})
    BY <2>3, FS_AddElement
  <2> QED
    BY <2>2, <2>4
<1>c. /\ mapPc' = [mapPc EXCEPT ![p] = "staged"] /\ mapPc[p] = "staging"
      /\ UNCHANGED <<scan, owing, covers>>
  BY DEF Maps!Goto
<1>d. work' = [work EXCEPT ![p] = [work[p] EXCEPT !.part = t]]
  BY <1>a DEF MapTypes
<1>e. [work[p] EXCEPT !.part = t] \in WorkType
  BY <1>w DEF WorkType
<1>f. /\ work' \in [Procs -> WorkType] /\ work'[p] = [work[p] EXCEPT !.part = t]
      /\ \A q \in Procs : q # p => work'[q] = work[q]
  BY <1>d, <1>e DEF MapTypes, WorkType
<1>1. MapTypes'
  BY <1>b, <1>c, <1>f DEF MapTypes, WorkType
<1>2. Fits(p)'
  BY <1>c, <1>f DEF Fits, MapTypes
<1>9. \A q \in Procs : q # p => Fits(q)'
  BY <1>c, <1>f, OthersFit DEF MapTypes
<1> QED
  BY <1>1, <1>2, <1>9 DEF MapBase

LEMMA PublishTypes ==
  ASSUME Maps!MapAssumption, MapBase, NEW p \in Procs, Maps!Publish(p)
  PROVE  MapBase'
<1> USE DEF Maps!Publish, MapBase
<1> DEFINE w == work[p]
           with == Maps!With(w.frame, w.size)
<1>a. /\ mapPc[p] = "staged" /\ w.frame \in Frames /\ w.size \in Nat
      /\ files' = Maps!Restrict(with, (DOMAIN files \cup {w.frame}) \ {w.part})
      /\ Maps!Start(p, "pruning", [Maps!NoWork EXCEPT !.task = "reconcile"])
      /\ UNCHANGED <<scan, owing, covers>>
  BY DEF Fits, MapTypes
<1>b. with \in Sized /\ DOMAIN with = DOMAIN files \cup {w.frame}
  BY <1>a, WithSized DEF MapTypes, Maps!Names
<1>c. files' \in Sized /\ IsFiniteSet(DOMAIN files')
  <2>1. DOMAIN files' = (DOMAIN files \cup {w.frame}) \ {w.part} /\ files' \in Sized
    BY <1>a, <1>b, RestrictSized
  <2>2. IsFiniteSet(DOMAIN files \cup {w.frame})
    BY FS_AddElement DEF MapTypes
  <2> QED
    BY <2>1, <2>2, FS_RemoveElement
<1>d. /\ work' \in [Procs -> WorkType] /\ work'[p].task = "reconcile"
      /\ mapPc'[p] = "pruning" /\ \A q \in Procs : q # p => mapPc'[q] = mapPc[q] /\ work'[q] = work[q]
  BY <1>a, StartTypes, NoWorkType DEF Tasks
<1>1. MapTypes'
  BY <1>a, <1>c, <1>d DEF MapTypes, WorkType, Maps!Start, Maps!Goto
<1>2. Fits(p)'
  BY <1>a, <1>d DEF Fits
<1>9. \A q \in Procs : q # p => Fits(q)'
  BY <1>a, <1>d, OthersFit DEF Fits
<1> QED
  BY <1>1, <1>2, <1>9 DEF MapBase

\* The loop of a prune tries one file.
LEMMA TriedTypes ==
  ASSUME MapBase, NEW p \in Procs, NEW n \in DOMAIN scan[p].left, NEW total \in Int,
         scan' = [scan EXCEPT ![p] = [scan[p] EXCEPT !.left = Maps!Tried(p, n), !.total = total]]
  PROVE  /\ scan' \in [Procs -> ScanType] /\ \A q \in Procs : q # p => scan'[q] = scan[q]
         /\ scan'[p].left = Maps!Tried(p, n) /\ scan'[p].total = total
         /\ DOMAIN scan'[p].left = DOMAIN scan[p].left \ {n}
         /\ \A m \in DOMAIN scan[p].left \ {n} : scan'[p].left[m] = scan[p].left[m]
         /\ IsFiniteSet(DOMAIN scan'[p].left)
<1>1. scan[p] \in ScanType
  BY DEF MapBase, MapTypes, ScanType
<1>2. /\ Maps!Tried(p, n) \in Sized /\ DOMAIN Maps!Tried(p, n) = DOMAIN scan[p].left \ {n}
      /\ \A m \in DOMAIN scan[p].left \ {n} : Maps!Tried(p, n)[m] = scan[p].left[m]
  BY <1>1, RestrictSized DEF Maps!Tried, ScanType
<1> DEFINE new == [scan[p] EXCEPT !.left = Maps!Tried(p, n), !.total = total]
<1>3. new \in ScanType /\ new.left = Maps!Tried(p, n) /\ new.total = total
  BY <1>1, <1>2 DEF ScanType
<1>4. scan'[p] = new /\ scan' \in [Procs -> ScanType] /\ \A q \in Procs : q # p => scan'[q] = scan[q]
  <2>1. scan' = [scan EXCEPT ![p] = new] /\ scan \in [Procs -> ScanType]
    BY DEF MapBase, MapTypes, ScanType
  <2> HIDE DEF new
  <2> QED
    BY <1>3, <2>1
<1>5. IsFiniteSet(DOMAIN scan[p].left \ {n})
  BY FS_RemoveElement DEF MapBase, Fits
<1> QED
  BY <1>2, <1>3, <1>4, <1>5

\* The three ways a file is tried.
LEMMA TriesOne ==
  ASSUME MapBase, NEW p \in Procs, Maps!Evict(p) \/ Maps!Missing(p) \/ Maps!Locked(p)
  PROVE  \E n \in Maps!Candidates(p) : \E total \in Int :
           scan' = [scan EXCEPT ![p] = [scan[p] EXCEPT !.left = Maps!Tried(p, n), !.total = total]]
<1>0. scan[p] \in ScanType /\ scan[p].left \in [DOMAIN scan[p].left -> Nat]
  BY SizedIs DEF MapBase, MapTypes, ScanType
<1>1. CASE Maps!Evict(p)
  <2>1. PICK n \in Maps!Candidates(p) :
          scan' = [scan EXCEPT ![p].left = Maps!Tried(p, n), ![p].total = @ - scan[p].left[n]]
    BY <1>1 DEF Maps!Evict
  <2>2. scan[p].total - scan[p].left[n] \in Int
    BY <1>0 DEF Maps!Candidates, ScanType
  <2>3. scan' = [scan EXCEPT ![p] = [scan[p] EXCEPT !.left = Maps!Tried(p, n),
                                                    !.total = scan[p].total - scan[p].left[n]]]
    BY <2>1 DEF MapBase, MapTypes
  <2> QED
    BY <2>2, <2>3
<1>2. CASE Maps!Missing(p) \/ Maps!Locked(p)
  <2>1. PICK n \in Maps!Candidates(p) : scan' = [scan EXCEPT ![p].left = Maps!Tried(p, n)]
    BY <1>2 DEF Maps!Missing, Maps!Locked
  <2>2. scan' = [scan EXCEPT ![p] = [scan[p] EXCEPT !.left = Maps!Tried(p, n), !.total = scan[p].total]]
    BY <1>0, <2>1 DEF MapBase, MapTypes, ScanType
  <2> QED
    BY <1>0, <2>2 DEF ScanType
<1> QED
  BY <1>1, <1>2

LEMMA EvictTypes ==
  ASSUME Maps!MapAssumption, MapBase, NEW p \in Procs, Maps!Evict(p)
  PROVE  MapBase'
<1>a. PICK n \in Maps!Candidates(p), total \in Int :
        scan' = [scan EXCEPT ![p] = [scan[p] EXCEPT !.left = Maps!Tried(p, n), !.total = total]]
  BY TriesOne
<1>b. n \in DOMAIN scan[p].left
  BY DEF Maps!Candidates
<1>c. mapPc[p] = "evicting" /\ UNCHANGED <<mapPc, work>>
  BY DEF Maps!Evict
<1>d. files' \in Sized /\ IsFiniteSet(DOMAIN files')
  <2>1. PICK m : files' = Maps!Restrict(files, DOMAIN files \ {m})
    BY DEF Maps!Evict, Maps!Without
  <2> QED
    BY <2>1, WithoutSized DEF Maps!Without
<1>e. owing' \subseteq Procs /\ covers' \in [Procs -> SUBSET Procs] /\ \A q \in Procs : covers'[q] \subseteq covers[q]
  BY DEF Maps!Evict, MapBase, MapTypes
<1>1. MapTypes'
  BY <1>a, <1>b, <1>c, <1>d, <1>e, TriedTypes DEF MapBase, MapTypes, ScanType
<1>2. Fits(p)'
  BY <1>a, <1>b, <1>c, <1>e, TriedTypes DEF MapBase, Fits
<1>9. \A q \in Procs : q # p => Fits(q)'
  BY <1>a, <1>b, <1>c, <1>e, TriedTypes, OthersFit
<1> QED
  BY <1>1, <1>2, <1>9 DEF MapBase

LEMMA MissingTypes ==
  ASSUME Maps!MapAssumption, MapBase, NEW p \in Procs, Maps!Missing(p)
  PROVE  MapBase'
<1>a. PICK n \in Maps!Candidates(p), total \in Int :
        scan' = [scan EXCEPT ![p] = [scan[p] EXCEPT !.left = Maps!Tried(p, n), !.total = total]]
  BY TriesOne
<1>b. n \in DOMAIN scan[p].left
  BY DEF Maps!Candidates
<1>c. mapPc[p] = "evicting" /\ UNCHANGED <<mapPc, work>>
  BY DEF Maps!Missing
<1>d. files' \in Sized /\ IsFiniteSet(DOMAIN files')
  BY DEF Maps!Missing, MapBase, MapTypes
<1>e. owing' \subseteq Procs /\ covers' \in [Procs -> SUBSET Procs] /\ \A q \in Procs : covers'[q] \subseteq covers[q]
  BY DEF Maps!Missing, MapBase, MapTypes
<1>1. MapTypes'
  BY <1>a, <1>b, <1>c, <1>d, <1>e, TriedTypes DEF MapBase, MapTypes, ScanType
<1>2. Fits(p)'
  BY <1>a, <1>b, <1>c, <1>e, TriedTypes DEF MapBase, Fits
<1>9. \A q \in Procs : q # p => Fits(q)'
  BY <1>a, <1>b, <1>c, <1>e, TriedTypes, OthersFit
<1> QED
  BY <1>1, <1>2, <1>9 DEF MapBase

LEMMA LockedTypes ==
  ASSUME Maps!MapAssumption, MapBase, NEW p \in Procs, Maps!Locked(p)
  PROVE  MapBase'
<1>a. PICK n \in Maps!Candidates(p), total \in Int :
        scan' = [scan EXCEPT ![p] = [scan[p] EXCEPT !.left = Maps!Tried(p, n), !.total = total]]
  BY TriesOne
<1>b. n \in DOMAIN scan[p].left
  BY DEF Maps!Candidates
<1>c. mapPc[p] = "evicting" /\ UNCHANGED <<mapPc, work>>
  BY DEF Maps!Locked
<1>d. files' \in Sized /\ IsFiniteSet(DOMAIN files')
  BY DEF Maps!Locked, MapBase, MapTypes
<1>e. owing' \subseteq Procs /\ covers' \in [Procs -> SUBSET Procs] /\ \A q \in Procs : covers'[q] \subseteq covers[q]
  BY SpoiltTypes DEF Maps!Locked, MapBase, MapTypes
<1>1. MapTypes'
  BY <1>a, <1>b, <1>c, <1>d, <1>e, TriedTypes DEF MapBase, MapTypes, ScanType
<1>2. Fits(p)'
  BY <1>a, <1>b, <1>c, <1>e, TriedTypes DEF MapBase, Fits
<1>9. \A q \in Procs : q # p => Fits(q)'
  BY <1>a, <1>b, <1>c, <1>e, TriedTypes, OthersFit
<1> QED
  BY <1>1, <1>2, <1>9 DEF MapBase

LEMMA PrunedTypes ==
  ASSUME Maps!MapAssumption, MapBase, NEW p \in Procs, Maps!Pruned(p)
  PROVE  MapBase'
<1> USE DEF MapBase
<1>a. /\ mapPc[p] = "evicting" /\ files' = files
      /\ owing' \subseteq Procs /\ covers' \in [Procs -> SUBSET Procs] /\ covers'[p] = {}
      /\ \A q \in Procs : covers'[q] \subseteq covers[q]
  BY DEF Maps!Pruned, MapTypes
<1>1. CASE Maps!Return(p)
  <2>1. MapTypes'
    BY <1>1, <1>a, ReturnTypes DEF MapTypes, WorkType, ScanType
  <2>2. Fits(p)'
    BY <1>1, <1>a, ReturnTypes DEF Fits
  <2>3. \A q \in Procs : q # p => Fits(q)'
    BY <1>1, <1>a, ReturnTypes, OthersFit
  <2> QED
    BY <2>1, <2>2, <2>3
<1>2. CASE ~Maps!Return(p)
  <2>1. PICK place \in {"staging", "reading"} :
          /\ mapPc' = [mapPc EXCEPT ![p] = place] /\ work' = work
          /\ scan' = [scan EXCEPT ![p] = Maps!NoScan]
          /\ work[p].task = IF place = "staging" THEN "reserve" ELSE "read"
    BY <1>2 DEF Maps!Pruned, Maps!Goto
  <2>2. /\ scan' \in [Procs -> ScanType] /\ scan'[p] = Maps!NoScan /\ mapPc'[p] = place
        /\ \A q \in Procs : q # p => scan'[q] = scan[q] /\ mapPc'[q] = mapPc[q]
    BY <2>1, NoScanType DEF MapTypes, ScanType
  <2>3. MapTypes'
    BY <1>a, <2>1, <2>2 DEF MapTypes, ScanType
  <2>4. Fits(p)'
    BY <1>a, <2>1, <2>2, NoScanType DEF Fits
  <2>5. \A q \in Procs : q # p => Fits(q)'
    BY <1>a, <2>1, <2>2, OthersFit
  <2> QED
    BY <2>3, <2>4, <2>5
<1> QED
  BY <1>1, <1>2

\* What a prune finds.
Found(p) == DOMAIN files \ (IF work[p].task = "reserve" THEN {work[p].frame} ELSE {})
Removable(p) == Found(p) \ (Parts \ aged)

LEMMA ScanFinds ==
  ASSUME MapBase, NEW p \in Procs, Maps!Scan(p)
  PROVE  /\ scan' \in [Procs -> ScanType] /\ \A q \in Procs : q # p => scan'[q] = scan[q]
         /\ DOMAIN scan'[p].left = Removable(p) /\ IsFiniteSet(Removable(p))
         /\ \A n \in Removable(p) : scan'[p].left[n] = files[n]
         /\ scan'[p].total = (IF work[p].task = "reserve" THEN work[p].size ELSE 0)
                               + SumFunctionOnSet(files, Found(p))
<1>1. IsFiniteSet(Found(p)) /\ IsFiniteSet(Removable(p)) /\ Found(p) \subseteq DOMAIN files
  BY FS_Difference DEF MapBase, MapTypes, Found, Removable
<1>2. \A n \in DOMAIN files : files[n] \in Nat /\ n \in Maps!Names
  BY SizedIs DEF MapBase, MapTypes
<1> DEFINE left == Maps!Restrict(files, Removable(p))
           reserved == IF work[p].task = "reserve" THEN work[p].size ELSE 0
           total == reserved + SumFunctionOnSet(files, Found(p))
           new == [left |-> left, expired |-> Found(p) \cap aged, total |-> total]
<1>3. scan' = [scan EXCEPT ![p] = new]
  BY SameSums DEF Maps!Scan, Found, Removable
<1>4. left \in Sized /\ DOMAIN left = Removable(p) /\ \A n \in Removable(p) : left[n] = files[n]
  BY <1>1, RestrictSized DEF Removable, MapBase, MapTypes
<1>5. total \in Int
  <2>1. SumFunctionOnSet(files, Found(p)) \in Nat
    BY <1>1, <1>2, SumType
  <2>2. reserved \in Nat
    BY DEF MapBase, MapTypes
  <2> QED
    BY <2>1, <2>2
<1>6. new \in ScanType /\ new.left = left /\ new.total = total
  <2> HIDE DEF left, total
  <2> QED
    BY <1>1, <1>2, <1>4, <1>5 DEF ScanType
<1>7. scan' \in [Procs -> ScanType] /\ scan'[p] = new /\ \A q \in Procs : q # p => scan'[q] = scan[q]
  <2>1. scan \in [Procs -> ScanType]
    BY DEF MapBase, MapTypes, ScanType
  <2> HIDE DEF new
  <2> QED
    BY <1>3, <1>6, <2>1
<1> QED
  BY <1>1, <1>4, <1>6, <1>7

LEMMA ScanTypes ==
  ASSUME Maps!MapAssumption, MapBase, NEW p \in Procs, Maps!Scan(p)
  PROVE  MapBase'
<1>a. /\ mapPc[p] = "pruning" /\ mapPc' = [mapPc EXCEPT ![p] = "evicting"]
      /\ UNCHANGED <<work, files, owing>>
      /\ covers' = [covers EXCEPT ![p] = IF work[p].task = "reserve" THEN {} ELSE owing]
  BY DEF Maps!Scan, Maps!Goto
<1>b. work[p].task # "none"
  BY <1>a DEF MapBase, Fits
<1>1. MapTypes'
  BY <1>a, ScanFinds DEF MapBase, MapTypes, ScanType
<1>2. Fits(p)'
  BY <1>a, ScanFinds DEF MapBase, MapTypes, Fits, Tasks
<1>9. \A q \in Procs : q # p => Fits(q)'
  BY <1>a, ScanFinds, OthersFit DEF MapBase, MapTypes
<1> QED
  BY <1>1, <1>2, <1>9 DEF MapBase

LEMMA MapBaseStep == Maps!MapAssumption /\ MapBase /\ [Maps!Next]_(Maps!vars) => MapBase'
<1> SUFFICES ASSUME Maps!MapAssumption, MapBase, [Maps!Next]_(Maps!vars) PROVE MapBase'
  OBVIOUS
<1>1. CASE UNCHANGED Maps!vars \/ \E n \in Maps!Names : Maps!Age(n)
  <2>1. UNCHANGED <<mapPc, work, scan, files, owing, covers>>
    BY <1>1 DEF Maps!vars, Maps!Age
  <2> QED
    BY <2>1 DEF MapBase, MapTypes, Fits
<1>2. ASSUME NEW p \in Procs,
             \/ Maps!Write(p) \/ Maps!Read(p)
             \/ Maps!Scan(p) \/ Maps!ScanFails(p) \/ Maps!Evict(p) \/ Maps!Missing(p)
             \/ Maps!Locked(p) \/ Maps!Pruned(p)
             \/ Maps!Stage(p) \/ Maps!Publish(p) \/ Maps!WriteFails(p) \/ Maps!Touch(p)
             \/ Maps!Crash(p)
      PROVE  MapBase'
  BY <1>2, WriteTypes, ReadTypes, ScanTypes, ScanFailsTypes, EvictTypes, MissingTypes,
     LockedTypes,
     PrunedTypes, StageTypes, PublishTypes, WriteFailsTypes, TouchTypes, CrashTypes
<1> QED
  BY <1>1, <1>2 DEF Maps!Next

-----------------------------------------------------------------------------
(* The limit.                                                              *)

\* The directory gains no frame, and none changes.
Fewer ==
  /\ (FramesOnDisk)' \subseteq FramesOnDisk
  /\ \A n \in (FramesOnDisk)' : files'[n] = files[n]

LEMMA FilesAreSized ==
  ASSUME MapBase
  PROVE  /\ IsFiniteSet(FramesOnDisk) /\ FramesOnDisk \subseteq DOMAIN files
         /\ \A n \in DOMAIN files : files[n] \in Nat
         /\ SumFunctionOnSet(files, FramesOnDisk) \in Nat
<1>1. IsFiniteSet(FramesOnDisk) /\ FramesOnDisk \subseteq DOMAIN files
  BY FS_Intersection, FS_Subset DEF MapBase, MapTypes, FramesOnDisk
<1>2. \A n \in DOMAIN files : files[n] \in Nat
  BY SizedIs DEF MapBase, MapTypes
<1> QED
  BY <1>1, <1>2, SumType

LEMMA FewerIsLess ==
  ASSUME MapBase, Fewer
  PROVE  /\ SumFunctionOnSet(files', FramesOnDisk') \in Nat
         /\ SumFunctionOnSet(files', FramesOnDisk') <= SumFunctionOnSet(files, FramesOnDisk)
<1> DEFINE F == (FramesOnDisk)'
<1>1. F \subseteq FramesOnDisk /\ IsFiniteSet(F) /\ \A n \in F : files'[n] = files[n]
  BY FilesAreSized, FS_Subset DEF Fewer
<1> HIDE DEF F
<1>2. SumFunctionOnSet(files', F) = SumFunctionOnSet(files, F)
  BY <1>1, SumSame
<1>3. SumFunctionOnSet(files, F) <= SumFunctionOnSet(files, FramesOnDisk)
  BY <1>1, FilesAreSized, SumOfPart
<1>4. SumFunctionOnSet(files, F) \in Nat
  BY <1>1, FilesAreSized, SumType
<1> QED
  BY <1>2, <1>3, <1>4 DEF F

LEMMA GoodKept ==
  ASSUME Maps!MapAssumption, MapBase, Fewer, Good
  PROVE  Good'
BY FewerIsLess, FilesAreSized DEF Good, Maps!MapAssumption

\* What a prune has found of temporary files.
PartsLeft(p) == SumFunctionOnSet(scan[p].left, Parts \cap DOMAIN scan[p].left)

LEMMA LeftIsSized ==
  ASSUME MapBase, NEW p \in Procs
  PROVE  /\ IsFiniteSet(DOMAIN scan[p].left) /\ IsFiniteSet(Parts \cap DOMAIN scan[p].left)
         /\ \A n \in DOMAIN scan[p].left : scan[p].left[n] \in Nat
         /\ PartsLeft(p) \in Nat /\ scan[p].total \in Int
<1>1. IsFiniteSet(DOMAIN scan[p].left) /\ IsFiniteSet(Parts \cap DOMAIN scan[p].left)
  BY FS_Intersection, FS_Subset DEF MapBase, Fits
<1>2. scan[p].left \in Sized /\ scan[p].total \in Int
  BY DEF MapBase, MapTypes
<1>3. \A n \in DOMAIN scan[p].left : scan[p].left[n] \in Nat
  BY <1>2, SizedIs
<1>4. PartsLeft(p) \in Nat
  BY <1>1, <1>3, SumType DEF PartsLeft
<1> QED
  BY <1>1, <1>2, <1>3, <1>4

\* A prune somebody else's step keeps undisturbed.
LEMMA SoundKept ==
  ASSUME MapBase, Fewer, NEW p \in Procs, Sound(p),
         mapPc'[p] = mapPc[p], work'[p] = work[p], scan'[p] = scan[p]
  PROVE  Sound(p)'
<1>1. SumFunctionOnSet(files', FramesOnDisk') + PartsLeft(p) <= scan[p].total
  <2>1. SumFunctionOnSet(files, FramesOnDisk) + PartsLeft(p) <= scan[p].total
    BY DEF Sound, PartsLeft
  <2>2. PartsLeft(p) \in Nat /\ scan[p].total \in Int
    BY LeftIsSized
  <2>3. /\ SumFunctionOnSet(files', FramesOnDisk') \in Nat
        /\ SumFunctionOnSet(files', FramesOnDisk') <= SumFunctionOnSet(files, FramesOnDisk)
    BY FewerIsLess
  <2>4. SumFunctionOnSet(files, FramesOnDisk) \in Nat
    BY FilesAreSized
  <2> QED
    BY <2>1, <2>2, <2>3, <2>4
<1> QED
  BY <1>1 DEF Sound, PartsLeft, Fewer

\* If nothing came between, a prune that has come to its end has met the limit.
LEMMA PrunedGood ==
  ASSUME Maps!MapAssumption, MapBase, NEW p \in Procs, Sound(p), Maps!Candidates(p) = {}
  PROVE  Good
<1>1. scan[p].total \in Int /\ PartsLeft(p) \in Nat /\ MaxMapBytes \in Nat
  BY LeftIsSized DEF Maps!MapAssumption
<1>2. SumFunctionOnSet(files, FramesOnDisk) \in Nat
  BY FilesAreSized
<1>3. CASE scan[p].total <= MaxMapBytes
  <2>1. SumFunctionOnSet(files, FramesOnDisk) + PartsLeft(p) <= scan[p].total
    BY DEF Sound, PartsLeft
  <2>2. SumFunctionOnSet(files, FramesOnDisk) <= MaxMapBytes
    BY <1>1, <1>2, <1>3, <2>1
  <2> QED
    BY <2>2 DEF Good
<1>4. CASE scan[p].total > MaxMapBytes
  <2>1. DOMAIN scan[p].left = {}
    BY <1>4 DEF Maps!Candidates
  <2>2. FramesOnDisk = {}
    BY <2>1 DEF Sound
  <2> QED
    BY <1>1, <2>2, SumEmpty DEF Good
<1> QED
  BY <1>1, <1>3, <1>4

\* A step of one process that adds no frame: what is owed is owed still, if the process
\* itself sees to it.
LEMMA OwedKept ==
  ASSUME Maps!MapAssumption, MapBase, Owed, Fewer, NEW p \in Procs,
         \A q \in Procs : q # p => /\ mapPc'[q] = mapPc[q] /\ work'[q] = work[q]
                                   /\ scan'[q] = scan[q] /\ covers'[q] \subseteq covers[q],
         work[p].task = "reconcile" /\ (mapPc[p] = "pruning" \/ Sound(p)) => Owed',
         \A q \in owing : (q \in covers[p] => Sound(p))
                            => Owed' \/ (q \in owing' /\ (q \in covers'[p] => Sound(p)'))
  PROVE  Owed'
<1>1. CASE Good
  BY <1>1, GoodKept DEF Owed
<1>2. CASE \E q \in Procs : work[q].task = "reconcile" /\ (mapPc[q] = "pruning" \/ Sound(q))
  <2>1. PICK q \in Procs : work[q].task = "reconcile" /\ (mapPc[q] = "pruning" \/ Sound(q))
    BY <1>2
  <2>2. CASE q = p
    BY <2>1, <2>2
  <2>3. CASE q # p
    <3>1. work'[q].task = "reconcile" /\ (mapPc'[q] = "pruning" \/ Sound(q)')
      BY <2>1, <2>3, SoundKept
    <3> QED
      BY <3>1 DEF Owed
  <2> QED
    BY <2>2, <2>3
<1>3. CASE \E q \in owing : \A r \in Procs : q \in covers[r] => Sound(r)
  <2>1. PICK q \in owing : \A r \in Procs : q \in covers[r] => Sound(r)
    BY <1>3
  <2>2. CASE q \in owing' /\ (q \in covers'[p] => Sound(p)')
    <3>1. ASSUME NEW r \in Procs, q \in covers'[r] PROVE Sound(r)'
      BY <2>1, <2>2, <3>1, SoundKept
    <3> QED
      BY <2>2, <3>1 DEF Owed
  <2> QED
    BY <2>1, <2>2
<1> QED
  BY <1>1, <1>2, <1>3 DEF Owed

\* The same of a step that prunes nothing.
LEMMA OwedKeptBy ==
  ASSUME Maps!MapAssumption, MapBase, Owed, Fewer, NEW p \in Procs,
         \A q \in Procs : q # p => mapPc'[q] = mapPc[q] /\ work'[q] = work[q] /\ scan'[q] = scan[q],
         mapPc[p] \notin {"pruning", "evicting"}, UNCHANGED <<owing, covers>>
  PROVE  Owed'
<1>1. work[p].task # "reconcile" /\ covers[p] = {}
  BY DEF MapBase, Fits
<1> QED
  BY <1>1, OwedKept

\* A prune that could not do its work is made up for, if it was to follow a frame.
LEMMA SpoiltOwed ==
  ASSUME Maps!MapAssumption, MapBase, Owed, Fewer, NEW p \in Procs, Maps!Spoilt(p),
         \A q \in Procs : q # p => mapPc'[q] = mapPc[q] /\ work'[q] = work[q] /\ scan'[q] = scan[q]
  PROVE  Owed'
<1>1. \A q \in Procs : covers'[q] \subseteq covers[q] /\ p \notin covers'[q]
  BY DEF Maps!Spoilt, MapBase, MapTypes
<1>2. covers'[p] = {} /\ owing \subseteq owing'
  BY DEF Maps!Spoilt, MapBase, MapTypes
<1>3. CASE work[p].task = "reconcile"
  <2>1. p \in owing'
    BY <1>3 DEF Maps!Spoilt
  <2> QED
    BY <1>1, <2>1 DEF Owed
<1>4. CASE work[p].task # "reconcile"
  BY <1>1, <1>2, <1>4, OwedKept
<1> QED
  BY <1>3, <1>4

LEMMA SameFiles == UNCHANGED files => Fewer
BY DEF Fewer, FramesOnDisk

\* A scan that is not for a write finds all that is there.
LEMMA ScanSound ==
  ASSUME Maps!MapAssumption, MapBase, NEW p \in Procs, Maps!Scan(p), work[p].task # "reserve"
  PROVE  Sound(p)'
<1> DEFINE left == scan'[p].left
           R == Parts \cap Removable(p)
           D == DOMAIN files
<1>1. mapPc'[p] = "evicting" /\ work' = work /\ files' = files /\ work[p].task \in {"read", "reconcile"}
  BY DEF Maps!Scan, Maps!Goto, MapBase, MapTypes, Fits, Tasks
<1>2. /\ DOMAIN left = Removable(p) /\ \A n \in Removable(p) : left[n] = files[n]
      /\ scan'[p].total = 0 + SumFunctionOnSet(files, D) /\ Removable(p) = D \ (Parts \ aged)
  <2>1. Found(p) = D
    BY DEF Found
  <2> QED
    BY <2>1, ScanFinds DEF Removable
<1>3. FramesOnDisk \subseteq Removable(p) /\ FramesOnDisk \subseteq D
  BY <1>2 DEF FramesOnDisk, Maps!MapAssumption
<1>4. IsFiniteSet(D) /\ \A n \in D : files[n] \in Nat
  BY FilesAreSized DEF MapBase, MapTypes
<1>5. R \subseteq D \ FramesOnDisk /\ IsFiniteSet(R) /\ IsFiniteSet(D \ FramesOnDisk)
  <2>1. R \subseteq D \ FramesOnDisk
    BY <1>2 DEF FramesOnDisk, Maps!MapAssumption
  <2> QED
    BY <1>4, <2>1, FS_Subset
<1>6. SumFunctionOnSet(left, R) = SumFunctionOnSet(files, R)
  <2>1. \A n \in R : left[n] = files[n]
    BY <1>2
  <2> HIDE DEF left, R
  <2> QED
    BY <1>5, <2>1, SumSame
<1> HIDE DEF R, D
<1>7. SumFunctionOnSet(files, R) <= SumFunctionOnSet(files, D \ FramesOnDisk)
  BY <1>4, <1>5, SumOfPart
<1>8. SumFunctionOnSet(files, D)
        = SumFunctionOnSet(files, FramesOnDisk) + SumFunctionOnSet(files, D \ FramesOnDisk)
  BY <1>3, <1>4, SumSplit
<1>9. /\ SumFunctionOnSet(files, FramesOnDisk) \in Nat /\ SumFunctionOnSet(files, R) \in Nat
      /\ SumFunctionOnSet(files, D \ FramesOnDisk) \in Nat
  BY <1>3, <1>4, <1>5, FilesAreSized, SumType
<1>10. SumFunctionOnSet(files, FramesOnDisk) + SumFunctionOnSet(left, R) <= scan'[p].total
  <2> HIDE DEF left
  <2> QED
    BY <1>2, <1>6, <1>7, <1>8, <1>9
<1>11. (FramesOnDisk)' = FramesOnDisk
  BY <1>1 DEF FramesOnDisk
<1>12. SumFunctionOnSet(files', FramesOnDisk')
         + SumFunctionOnSet(left, Parts \cap DOMAIN left) <= scan'[p].total
  BY <1>1, <1>2, <1>10, <1>11 DEF R
<1>13. FramesOnDisk' \subseteq DOMAIN left /\ \A n \in FramesOnDisk' : files'[n] = left[n]
  BY <1>1, <1>2, <1>3, <1>11
<1> QED
  BY <1>1, <1>12, <1>13 DEF Sound

\* The steps, one by one.
LEMMA BegunOwed ==
  ASSUME Maps!MapAssumption, MapBase, Owed, NEW p \in Procs,
         Maps!Write(p) \/ Maps!Read(p) \/ Maps!Touch(p) \/ Maps!Stage(p) \/ Maps!WriteFails(p)
  PROVE  Owed'
<1>1. mapPc[p] \notin {"pruning", "evicting"} /\ UNCHANGED <<owing, covers>>
  BY DEF Maps!Write, Maps!Read, Maps!Touch, Maps!Stage, Maps!WriteFails
<1>2. ASSUME NEW q \in Procs, q # p
      PROVE  mapPc'[q] = mapPc[q] /\ work'[q] = work[q] /\ scan'[q] = scan[q]
  BY <1>2 DEF Maps!Write, Maps!Read, Maps!Touch, Maps!Stage, Maps!WriteFails, Maps!Start,
              Maps!Return, Maps!Goto, MapBase, MapTypes
<1>3. Fewer
  <2>1. CASE Maps!Stage(p)
    <3>1. PICK t \in Parts : files' = Maps!With(t, work[p].size)
      BY <2>1 DEF Maps!Stage
    <3>2. t \notin Frames /\ t \in Maps!Names /\ work[p].size \in Nat /\ files \in Sized
      BY DEF Maps!MapAssumption, Maps!Names, MapBase, MapTypes
    <3>3. DOMAIN files' = DOMAIN files \cup {t} /\ \A m \in DOMAIN files \ {t} : files'[m] = files[m]
      BY <3>1, <3>2, WithSized
    <3> QED
      BY <3>2, <3>3 DEF Fewer, FramesOnDisk
  <2>2. CASE Maps!WriteFails(p)
    <3>1. files' = Maps!Without(work[p].part)
      BY <2>2 DEF Maps!WriteFails
    <3> QED
      BY <3>1, WithoutSized DEF Fewer, FramesOnDisk
  <2>3. CASE Maps!Write(p) \/ Maps!Read(p) \/ Maps!Touch(p)
    <3>1. UNCHANGED files
      BY <2>3 DEF Maps!Write, Maps!Read, Maps!Touch
    <3> QED
      BY <3>1, SameFiles
  <2> QED
    BY <2>1, <2>2, <2>3
<1> QED
  BY <1>1, <1>2, <1>3, OwedKeptBy

LEMMA LostOwed ==
  ASSUME Maps!MapAssumption, MapBase, Owed, NEW p \in Procs,
         Maps!ScanFails(p) \/ Maps!Locked(p) \/ Maps!Crash(p)
  PROVE  Owed'
<1>1. Fewer /\ Maps!Spoilt(p)
  BY SameFiles DEF Maps!ScanFails, Maps!Locked, Maps!Crash
<1>2. ASSUME NEW q \in Procs, q # p
      PROVE  mapPc'[q] = mapPc[q] /\ work'[q] = work[q] /\ scan'[q] = scan[q]
  BY <1>2 DEF Maps!ScanFails, Maps!Locked, Maps!Crash, Maps!Start, Maps!Return, Maps!Goto,
         MapBase, MapTypes
<1> QED
  BY <1>1, <1>2, SpoiltOwed

LEMMA PublishOwed ==
  ASSUME Maps!MapAssumption, MapBase, NEW p \in Procs, Maps!Publish(p)
  PROVE  Owed'
<1>1. Maps!Start(p, "pruning", [Maps!NoWork EXCEPT !.task = "reconcile"])
  BY DEF Maps!Publish
<1>2. work'[p].task = "reconcile" /\ mapPc'[p] = "pruning"
  BY <1>1, StartTypes, NoWorkType DEF Tasks
<1> QED
  BY <1>2 DEF Owed

LEMMA ScanOwed ==
  ASSUME Maps!MapAssumption, MapBase, Owed, NEW p \in Procs, Maps!Scan(p)
  PROVE  Owed'
<1>1. /\ Fewer /\ UNCHANGED <<work, owing>>
      /\ mapPc' = [mapPc EXCEPT ![p] = "evicting"]
      /\ covers' = [covers EXCEPT ![p] = IF work[p].task = "reserve" THEN {} ELSE owing]
  BY SameFiles DEF Maps!Scan, Maps!Goto
<1>2. \A q \in Procs : q # p => /\ mapPc'[q] = mapPc[q] /\ work'[q] = work[q]
                                /\ scan'[q] = scan[q] /\ covers'[q] \subseteq covers[q]
  BY <1>1, ScanFinds DEF MapBase, MapTypes
<1>3. CASE work[p].task = "reserve"
  <2>1. covers'[p] = {}
    BY <1>1, <1>3 DEF MapBase, MapTypes
  <2> QED
    BY <1>1, <1>2, <1>3, <2>1, OwedKept
<1>4. CASE work[p].task # "reserve"
  <2>1. Sound(p)'
    BY <1>4, ScanSound
  <2>2. work[p].task = "reconcile" => Owed'
    BY <1>1, <2>1 DEF Owed
  <2> QED
    BY <1>1, <1>2, <2>1, <2>2, OwedKept
<1> QED
  BY <1>3, <1>4

LEMMA PrunedOwed ==
  ASSUME Maps!MapAssumption, MapBase, Owed, NEW p \in Procs, Maps!Pruned(p)
  PROVE  Owed'
<1>1. /\ Fewer /\ mapPc[p] = "evicting" /\ Maps!Candidates(p) = {}
      /\ owing' = owing \ covers[p] /\ covers' = [covers EXCEPT ![p] = {}]
  BY SameFiles DEF Maps!Pruned
<1>2. ASSUME NEW q \in Procs, q # p
      PROVE  /\ mapPc'[q] = mapPc[q] /\ work'[q] = work[q]
             /\ scan'[q] = scan[q] /\ covers'[q] \subseteq covers[q]
  BY <1>1, <1>2 DEF Maps!Pruned, Maps!Start, Maps!Return, Maps!Goto, MapBase, MapTypes
<1>3. Sound(p) => Owed'
  BY <1>1, PrunedGood, GoodKept DEF Owed
<1>4. covers'[p] = {}
  BY <1>1 DEF MapBase, MapTypes
<1> QED
  BY <1>1, <1>2, <1>3, <1>4, OwedKept

\* A file a prune removes no longer counts.
LEMMA EvictSound ==
  ASSUME Maps!MapAssumption, MapBase, NEW p \in Procs, Maps!Evict(p), Sound(p)
  PROVE  Sound(p)'
<1>1. PICK n \in Maps!Candidates(p) \cap DOMAIN files :
        /\ files' = Maps!Without(n)
        /\ scan' = [scan EXCEPT ![p].left = Maps!Tried(p, n), ![p].total = @ - scan[p].left[n]]
  BY DEF Maps!Evict
<1> DEFINE total == scan[p].total - scan[p].left[n]
           F == FramesOnDisk
           P == Parts \cap DOMAIN scan[p].left
<1>2. n \in DOMAIN scan[p].left /\ n \in DOMAIN files /\ n \in Maps!Names
  BY SizedIs DEF Maps!Candidates, MapBase, MapTypes
<1>3. total \in Int /\ scan[p].left[n] \in Nat
  <2>1. scan[p].total \in Int /\ \A m \in DOMAIN scan[p].left : scan[p].left[m] \in Nat
    BY LeftIsSized
  <2> QED
    BY <1>2, <2>1
<1>4. scan' = [scan EXCEPT ![p] = [scan[p] EXCEPT !.left = Maps!Tried(p, n), !.total = total]]
  BY <1>1 DEF MapBase, MapTypes
<1> HIDE DEF total
<1>5. /\ scan'[p].total = total /\ DOMAIN scan'[p].left = DOMAIN scan[p].left \ {n}
      /\ \A m \in DOMAIN scan[p].left \ {n} : scan'[p].left[m] = scan[p].left[m]
  BY <1>2, <1>3, <1>4, TriedTypes
<1>6. DOMAIN files' = DOMAIN files \ {n} /\ \A m \in DOMAIN files \ {n} : files'[m] = files[m]
  BY <1>1, WithoutSized
<1>7. (FramesOnDisk)' = F \ {n} /\ Parts \cap DOMAIN scan'[p].left = P \ {n}
  BY <1>5, <1>6 DEF FramesOnDisk
<1>8. IsFiniteSet(F \ {n}) /\ IsFiniteSet(P \ {n}) /\ IsFiniteSet(F) /\ IsFiniteSet(P)
  BY FilesAreSized, LeftIsSized, FS_RemoveElement
<1>f. /\ F \subseteq DOMAIN files /\ \A m \in F : files[m] \in Nat
      /\ \A m \in P : scan[p].left[m] \in Nat
  BY FilesAreSized, LeftIsSized
<1>9. SumFunctionOnSet(files', F \ {n}) = SumFunctionOnSet(files, F \ {n})
  <2> HIDE DEF F
  <2> QED
    BY <1>6, <1>8, <1>f, SumSame
<1>10. SumFunctionOnSet(scan'[p].left, P \ {n}) = SumFunctionOnSet(scan[p].left, P \ {n})
  <2>1. \A m \in P \ {n} : scan'[p].left[m] = scan[p].left[m]
    BY <1>5
  <2> HIDE DEF P
  <2> QED
    BY <1>8, <2>1, SumSame
<1> DEFINE a1 == SumFunctionOnSet(files, F)
           a2 == SumFunctionOnSet(files, F \ {n})
           b1 == SumFunctionOnSet(scan[p].left, P)
           b2 == SumFunctionOnSet(scan[p].left, P \ {n})
<1>11. a1 \in Nat /\ a2 \in Nat /\ b1 \in Nat /\ b2 \in Nat
  <2> HIDE DEF F, P
  <2> QED
    BY <1>8, <1>f, SumType
<1>s. a1 + b1 <= scan[p].total /\ scan[p].total \in Int
  BY LeftIsSized DEF Sound
<1>12. a1 + b1 = scan[p].left[n] + a2 + b2
  <2>1. CASE n \in Frames
    <3>1. n \in F /\ n \notin P /\ files[n] = scan[p].left[n]
      BY <1>2, <2>1 DEF FramesOnDisk, Maps!MapAssumption, Sound
    <3>2. a1 = files[n] + a2
      <4> HIDE DEF F
      <4> QED
        BY <1>8, <1>f, <3>1, SumRemove
    <3>3. P \ {n} = P
      BY <3>1
    <3> HIDE DEF F, P
    <3>4. b1 = b2
      BY <3>3
    <3> HIDE DEF a1, a2, b1, b2
    <3> QED
      BY <1>3, <1>11, <3>1, <3>2, <3>4
  <2>2. CASE n \notin Frames
    <3>1. n \in P /\ n \notin F
      BY <1>2, <2>2 DEF FramesOnDisk, Maps!Names
    <3>2. b1 = scan[p].left[n] + b2
      <4> HIDE DEF P
      <4> QED
        BY <1>8, <1>f, <3>1, SumRemove
    <3>3. F \ {n} = F
      BY <3>1
    <3> HIDE DEF F, P
    <3>4. a1 = a2
      BY <3>3
    <3> HIDE DEF a1, a2, b1, b2
    <3> QED
      BY <1>3, <1>11, <3>2, <3>4
  <2> QED
    BY <2>1, <2>2
<1>13. a2 + b2 <= total
  <2> HIDE DEF a1, a2, b1, b2
  <2> QED
    BY <1>3, <1>11, <1>12, <1>s DEF total
<1>14. SumFunctionOnSet(files', FramesOnDisk')
         + SumFunctionOnSet(scan'[p].left, Parts \cap DOMAIN scan'[p].left) <= scan'[p].total
  <2> HIDE DEF F, P
  <2> QED
    BY <1>5, <1>7, <1>9, <1>10, <1>13
<1>15. FramesOnDisk' \subseteq DOMAIN scan'[p].left /\ \A m \in FramesOnDisk' : files'[m] = scan'[p].left[m]
  BY <1>5, <1>6, <1>7, <1>f DEF Sound
<1>16. mapPc'[p] = "evicting" /\ work'[p].task \in {"read", "reconcile"}
  BY DEF Maps!Evict, Sound
<1> QED
  BY <1>14, <1>15, <1>16 DEF Sound

\* A file that has gone since the scan is no frame on disk, and goes on counting.
LEMMA MissingSound ==
  ASSUME Maps!MapAssumption, MapBase, NEW p \in Procs, Maps!Missing(p), Sound(p)
  PROVE  Sound(p)'
<1>1. PICK n \in Maps!Candidates(p) \ DOMAIN files :
        scan' = [scan EXCEPT ![p].left = Maps!Tried(p, n)]
  BY DEF Maps!Missing
<1> DEFINE P == Parts \cap DOMAIN scan[p].left
           total == scan[p].total
<1>2. n \in DOMAIN scan[p].left /\ n \notin FramesOnDisk
  BY DEF Maps!Candidates, FramesOnDisk
<1>3. total \in Int
  BY LeftIsSized
<1>4. scan' = [scan EXCEPT ![p] = [scan[p] EXCEPT !.left = Maps!Tried(p, n), !.total = total]]
  BY <1>1 DEF MapBase, MapTypes
<1> HIDE DEF total
<1>5. /\ scan'[p].total = total /\ DOMAIN scan'[p].left = DOMAIN scan[p].left \ {n}
      /\ \A m \in DOMAIN scan[p].left \ {n} : scan'[p].left[m] = scan[p].left[m]
  BY <1>2, <1>3, <1>4, TriedTypes
<1>6. /\ IsFiniteSet(P) /\ IsFiniteSet(P \ {n}) /\ \A m \in P : scan[p].left[m] \in Nat
  BY LeftIsSized, FS_RemoveElement
<1>7. Parts \cap DOMAIN scan'[p].left = P \ {n}
  BY <1>5
<1>8. SumFunctionOnSet(scan'[p].left, P \ {n}) = SumFunctionOnSet(scan[p].left, P \ {n})
  <2>1. \A m \in P \ {n} : scan'[p].left[m] = scan[p].left[m]
    BY <1>5
  <2> HIDE DEF P
  <2> QED
    BY <1>6, <2>1, SumSame
<1>s. SumFunctionOnSet(files, FramesOnDisk) + SumFunctionOnSet(scan[p].left, P) <= total
  BY DEF Sound, total
<1>9. /\ SumFunctionOnSet(scan[p].left, P \ {n}) <= SumFunctionOnSet(scan[p].left, P)
      /\ SumFunctionOnSet(scan[p].left, P \ {n}) \in Nat /\ SumFunctionOnSet(scan[p].left, P) \in Nat
  <2> HIDE DEF P
  <2> QED
    BY <1>6, SumOfPart, SumType
<1>10. SumFunctionOnSet(files, FramesOnDisk) + SumFunctionOnSet(scan[p].left, P \ {n}) <= total
  <2>1. SumFunctionOnSet(files, FramesOnDisk) \in Nat
    BY FilesAreSized
  <2> HIDE DEF P
  <2> QED
    BY <1>3, <1>9, <1>s, <2>1
<1>11. UNCHANGED <<mapPc, work, files>> /\ (FramesOnDisk)' = FramesOnDisk
  BY DEF Maps!Missing, FramesOnDisk
<1>12. SumFunctionOnSet(files', FramesOnDisk')
         + SumFunctionOnSet(scan'[p].left, Parts \cap DOMAIN scan'[p].left) <= scan'[p].total
  <2> HIDE DEF P
  <2> QED
    BY <1>5, <1>7, <1>8, <1>10, <1>11
<1>13. FramesOnDisk' \subseteq DOMAIN scan'[p].left /\ \A m \in FramesOnDisk' : files'[m] = scan'[p].left[m]
  BY <1>2, <1>5, <1>11 DEF Sound
<1> QED
  BY <1>11, <1>12, <1>13 DEF Sound

LEMMA TriedOwed ==
  ASSUME Maps!MapAssumption, MapBase, Owed, NEW p \in Procs, Maps!Evict(p) \/ Maps!Missing(p)
  PROVE  Owed'
<1>1. UNCHANGED <<mapPc, work, owing, covers>>
  BY DEF Maps!Evict, Maps!Missing
<1>2. Fewer
  <2>1. CASE Maps!Evict(p)
    <3>1. PICK n : files' = Maps!Without(n)
      BY <2>1 DEF Maps!Evict
    <3> QED
      BY <3>1, WithoutSized DEF Fewer, FramesOnDisk
  <2>2. CASE Maps!Missing(p)
    BY <2>2, SameFiles DEF Maps!Missing
  <2> QED
    BY <2>1, <2>2
<1>3. \A q \in Procs : q # p => scan'[q] = scan[q]
  BY DEF Maps!Evict, Maps!Missing, MapBase, MapTypes
<1>4. Sound(p) => Sound(p)'
  BY EvictSound, MissingSound
<1>5. work[p].task = "reconcile" /\ (mapPc[p] = "pruning" \/ Sound(p)) => Owed'
  <2>1. mapPc[p] # "pruning"
    BY DEF Maps!Evict, Maps!Missing
  <2> QED
    BY <1>1, <1>4, <2>1 DEF Owed
<1> QED
  BY <1>1, <1>2, <1>3, <1>4, <1>5, OwedKept

-----------------------------------------------------------------------------
MapInv == MapBase /\ Owed

LEMMA MapInvInit == Maps!MapAssumption /\ Maps!Init => MapInv
<1> SUFFICES ASSUME Maps!MapAssumption, Maps!Init PROVE Owed
  BY MapBaseInit DEF MapInv
<1>1. FramesOnDisk = {}
  BY NoFilesSized DEF Maps!Init, FramesOnDisk
<1> QED
  BY <1>1, SumEmpty DEF Owed, Good, Maps!MapAssumption

LEMMA MapInvStep == Maps!MapAssumption /\ MapInv /\ [Maps!Next]_(Maps!vars) => MapInv'
<1> SUFFICES ASSUME Maps!MapAssumption, MapBase, Owed, [Maps!Next]_(Maps!vars) PROVE Owed'
  BY MapBaseStep DEF MapInv
<1>1. CASE UNCHANGED Maps!vars \/ \E n \in Maps!Names : Maps!Age(n)
  <2>1. UNCHANGED <<mapPc, work, scan, files, owing, covers>>
    BY <1>1 DEF Maps!vars, Maps!Age
  <2>2. (FramesOnDisk)' = FramesOnDisk
    BY <2>1 DEF FramesOnDisk
  <2>3. Good' <=> Good
    BY <2>1, <2>2 DEF Good
  <2>4. \A q \in Procs : Sound(q)' <=> Sound(q)
    BY <2>1, <2>2 DEF Sound
  <2> QED
    BY <2>1, <2>3, <2>4 DEF Owed
<1>2. ASSUME NEW p \in Procs,
             \/ Maps!Write(p) \/ Maps!Read(p)
             \/ Maps!Scan(p) \/ Maps!ScanFails(p) \/ Maps!Evict(p) \/ Maps!Missing(p)
             \/ Maps!Locked(p) \/ Maps!Pruned(p)
             \/ Maps!Stage(p) \/ Maps!Publish(p) \/ Maps!WriteFails(p) \/ Maps!Touch(p)
             \/ Maps!Crash(p)
      PROVE  Owed'
  BY <1>2, BegunOwed, LostOwed, PublishOwed, ScanOwed, PrunedOwed, TriedOwed
<1> QED
  BY <1>1, <1>2 DEF Maps!Next

\* hrrr_field.py, _prune_disk_cache and _disk_write: the frames on disk are within the
\* limit whenever no process is between publishing one and the end of the prune after
\* it, however many backends write, read and crash at once, provided a prune that could
\* not do its work has been made up for by a complete one.
THEOREM FramesAreWithinLimit == MCSpec => []WithinLimit
<1>1. MCInit => MapInv
  BY MapInvInit, FramesAssumption DEF MCInit
<1>2. MapInv /\ [ModelStep \/ MapStep]_<<part, vars, mapVars>> => MapInv'
  <2> SUFFICES ASSUME MapInv, [ModelStep \/ MapStep]_<<part, vars, mapVars>> PROVE MapInv'
    OBVIOUS
  <2>1. [Maps!Next]_(Maps!vars)
    BY DEF ModelStep, MapStep, mapVars, Maps!vars
  <2> QED
    BY <2>1, MapInvStep, FramesAssumption
<1>3. MapInv => WithinLimit
  <2> SUFFICES ASSUME MapBase, Owed, owing = {}, \A p \in Procs : work[p].task # "reconcile" PROVE Good
    BY SameSums DEF MapInv, WithinLimit, Maps!WithinLimit, Good, FramesOnDisk
  <2> QED
    BY DEF Owed
<1> QED
  BY <1>1, <1>2, <1>3, PTL DEF MCSpec
=============================================================================
