------------------------- MODULE BridgeServerProofs -------------------------
(***************************************************************************)
(* Theorems about BridgeServer, for any number of jobs, tokens, workers    *)
(* and places: its safety invariants, each with the inductive invariant it *)
(* needs, and that the bridge implements BridgeService.                    *)
(***************************************************************************)
EXTENDS BridgeServer, FiniteSetTheorems, SequenceTheorems, TLAPS

\* The bounds are positive numbers.
LEMMA Bounds == /\ Workers \in Nat /\ Workers > 0
                /\ MaxAdmitted \in Nat /\ MaxAdmitted > 0
                /\ MaxEarly \in Nat /\ MaxEarly > 0
BY BoundAssumption DEF BoundAssumption

\* Removing one element of a sequence leaves a sequence over the same set.
LEMMA RemoveAtType ==
  ASSUME NEW S, NEW s \in Seq(S), NEW i \in DOMAIN s
  PROVE  RemoveAt(s, i) \in Seq(S)
<1>1. i \in 1..Len(s)
  BY LenProperties
<1>2. SubSeq(s, 1, i - 1) \in Seq(S)
  BY <1>1, SubSeqProperties
<1>3. SubSeq(s, i + 1, Len(s)) \in Seq(S)
  <2>1. CASE i = Len(s)
    BY <1>1, <2>1, SubSeqEmpty, EmptySeq
  <2>2. CASE i # Len(s)
    BY <1>1, <2>2, SubSeqProperties
  <2>3. QED BY <2>1, <2>2
<1>4. QED BY <1>2, <1>3, ConcatProperties DEF RemoveAt

LEMMA EarlyWithoutType ==
  ASSUME TypeOK, NEW t
  PROVE  EarlyWithout(t) \in Seq(Tokens \cup {Junk})
<1>1. CASE t \in ToSet(early)
  <2>1. \E i \in DOMAIN early : early[i] = t
    BY <1>1 DEF ToSet
  <2>2. (CHOOSE i \in DOMAIN early : early[i] = t) \in DOMAIN early
    BY <2>1
  <2>3. QED BY <1>1, <2>2, RemoveAtType DEF EarlyWithout, TypeOK
<1>2. CASE t \notin ToSet(early)
  BY <1>2 DEF EarlyWithout, TypeOK
<1>3. QED BY <1>1, <1>2

LEMMA RememberType ==
  ASSUME TypeOK, NEW t \in Tokens \cup {Junk}
  PROVE  Remember(t) \in Seq(Tokens \cup {Junk})
<1> USE DEF TypeOK
<1>1. Append(early, t) \in Seq(Tokens \cup {Junk})
  BY AppendProperties DEF TypeOK
<1> DEFINE kept == IF t \in ToSet(early) /\ t # Junk THEN early ELSE Append(early, t)
<1>2. kept \in Seq(Tokens \cup {Junk})
  BY <1>1 DEF TypeOK
<1>3. ASSUME Len(kept) > MaxEarly PROVE Tail(kept) \in Seq(Tokens \cup {Junk})
  <2> HIDE DEF kept
  <2>1. kept # <<>>
    <3>1. Len(kept) # 0
      BY <1>2, <1>3, Bounds, LenProperties
    <3>2. QED BY <3>1
  <2>2. QED BY <1>2, <2>1, HeadTailProperties
<1>4. Remember(t) = IF Len(kept) > MaxEarly THEN Tail(kept) ELSE kept
  BY DEF Remember
<1>5. QED BY <1>2, <1>3, <1>4

\* Writing a frame keeps the type of the reply streams.
LEMMA ReplyType ==
  ASSUME TypeOK, NEW i \in Ids, NEW kind \in ReplyKinds, Reply(i, kind)
  PROVE  replies' \in [Ids -> Seq(ReplyKinds)]
<1>1. Append(replies[i], kind) \in Seq(ReplyKinds)
  BY AppendProperties DEF TypeOK
<1>2. QED BY <1>1 DEF Reply, TypeOK

\* The reader cancelling a queued job keeps the types of what it changes.
LEMMA CancelQueuedType ==
  ASSUME TypeOK, NEW j \in Jobs, CancelQueued(j)
  PROVE  /\ stage' \in [Jobs -> Stages]
         /\ \A k \in Jobs : stage'[k] = "ready" => stage[k] = "ready"
         /\ requests' \subseteq Jobs
         /\ futures' \subseteq Jobs
         /\ active' \subseteq Jobs
         /\ slots' \in Nat
         /\ replies' \in [Ids -> Seq(ReplyKinds)]
<1>1. Reply(j, "cancelled") /\ j \in Ids /\ "cancelled" \in ReplyKinds
  BY DEF CancelQueued, Ids, ReplyKinds
<1>2. replies' \in [Ids -> Seq(ReplyKinds)]
  BY <1>1, ReplyType
<1>3. QED BY <1>2 DEF CancelQueued, RunCallback, Released, SetStage, TypeOK, Stages

LEMMA InitType == Init => TypeOK
<1> SUFFICES ASSUME Init PROVE TypeOK
  OBVIOUS
<1>1. /\ early \in Seq(Tokens \cup {Junk})
      /\ queue \in Seq(Jobs)
      /\ replies \in [Ids -> Seq(ReplyKinds)]
  BY EmptySeq DEF Init
<1>2. QED BY <1>1, Bounds DEF Init, TypeOK, Stages

\* Every step keeps the type invariant.
LEMMA StepType == TypeOK /\ [Next]_vars => TypeOK'
<1> SUFFICES ASSUME TypeOK, [Next]_vars PROVE TypeOK'
  OBVIOUS
<1> USE DEF TypeOK, Stages, SetStage, Goto, readerVars, registry, tables, pool,
            history, Received, WorkerFrame
<1>0. Jobs \subseteq Ids /\ Pings \subseteq Ids /\ ReplyKinds = {"result", "error", "cancelled", "busy"}
  BY DEF Ids, ReplyKinds
<1>1. ASSUME NEW i \in Pings, AnswerInline(i) PROVE TypeOK'
  BY <1>0, <1>1, ReplyType DEF AnswerInline
<1>2. ASSUME NEW j \in Jobs, NEW t \in Tokens, Reject(j, t) PROVE TypeOK'
  BY <1>0, <1>2, ReplyType DEF Reject
<1>3. ASSUME NEW j \in Jobs, NEW t \in Tokens, Acquire(j, t) PROVE TypeOK'
  BY <1>0, <1>3, ReplyType DEF Acquire
<1>4. CASE Register
  BY <1>0, <1>4, EarlyWithoutType, ReplyType DEF Register
<1>5. CASE Submit
  BY <1>5, AppendProperties DEF Submit
<1>6. CASE Hook
  BY SMTT(20), <1>6 DEF Hook, RunCallback, Released
<1>7. CASE CancelIfSet
  <2>1. CASE job \in event /\ CancelQueued(job)
    BY <1>7, <2>1, CancelQueuedType DEF CancelIfSet
  <2>2. CASE ~(job \in event /\ stage[job] = "queued")
    BY <1>7, <2>2 DEF CancelIfSet, CancelQueued
  <2>3. QED BY <1>7, <2>1, <2>2 DEF CancelIfSet
<1>8. ASSUME NEW j \in Jobs, CancelWire(j) PROVE TypeOK'
  BY <1>8 DEF CancelWire
<1>9. CASE CancelUnknownWire
  BY <1>9, RememberType DEF CancelUnknownWire
<1>10. CASE SetTarget
  BY <1>10 DEF SetTarget
<1>11. ASSUME NEW t \in Tokens, CancelToken(t) PROVE TypeOK'
  BY <1>11, RememberType DEF CancelToken
<1>12. ASSUME NEW j \in Jobs, Sweep(j) PROVE TypeOK'
  <2>1. CASE j \in event /\ CancelQueued(j)
    BY <1>12, <2>1, CancelQueuedType DEF Sweep
  <2>2. CASE ~(j \in event /\ stage[j] = "queued")
    BY <1>12, <2>2 DEF Sweep, CancelQueued
  <2>3. QED BY <1>12, <2>1, <2>2 DEF Sweep
<1>13. CASE SweepDone
  BY <1>13 DEF SweepDone
<1>14. ASSUME NEW t \in Tokens, Expire(t) PROVE TypeOK'
  BY <1>14 DEF Expire
<1>15. ASSUME NEW c \in {"EOF", "shutdown"}, Leave(c) PROVE TypeOK'
  BY <1>15 DEF Leave
<1>16. CASE SetAllEvents
  BY <1>16 DEF SetAllEvents
<1>17. CASE Drain
  <2>1. Head(queue) \in Jobs /\ queue' \in Seq(Jobs)
    BY <1>17, HeadTailProperties DEF Drain
  <2>2. CASE CancelQueued(Head(queue))
    BY <1>17, <2>1, <2>2, CancelQueuedType DEF Drain
  <2>3. CASE stage[Head(queue)] = "cancelled"
    BY <1>17, <2>1, <2>3 DEF Drain, CancelQueued
  <2>4. QED BY <1>17, <2>2, <2>3 DEF Drain
<1>18. CASE Exit
  BY <1>18 DEF Exit
<1>19. CASE Start
  BY <1>19, HeadTailProperties DEF Start
<1>20. ASSUME NEW j \in Jobs, WorkerStep(j) PROVE TypeOK'
  <2>1. CASE Enter(j)
    BY ZenonT(30), <1>0, <2>1 DEF Enter
  <2>2. CASE HandlerEnds(j)
    BY <1>0, <2>2 DEF HandlerEnds
  <2>3. CASE WriteReply(j)
    <3>1. replies' \in [Ids -> Seq(ReplyKinds)]
      BY <1>0, <2>3, ReplyType DEF WriteReply
    <3>2. QED BY <2>3, <3>1 DEF WriteReply
  <2>4. CASE SetResult(j)
    BY <2>4 DEF SetResult
  <2>5. CASE PopRequest(j)
    BY <2>5 DEF PopRequest
  <2>6. CASE ReleaseToken(j)
    BY <2>6 DEF ReleaseToken, Released
  <2>7. CASE ReleaseSlot(j)
    BY <2>7 DEF ReleaseSlot
  <2>8. QED
    BY <1>20, <2>1, <2>2, <2>3, <2>4, <2>5, <2>6, <2>7 DEF WorkerStep, Bookkeeping
<1>21. CASE UNCHANGED vars \/ Gone
  BY <1>21 DEF vars, Gone
<1>22. QED
  BY <1>1, <1>2, <1>3, <1>4, <1>5, <1>6, <1>7, <1>8, <1>9, <1>10, <1>11, <1>12,
     <1>13, <1>14, <1>15, <1>16, <1>17, <1>18, <1>19, <1>20, <1>21
     DEF Next, Frame, ReaderStep

\* Every variable keeps its type, for any constants: in particular the free
\* places of the admission semaphore never go below zero.
THEOREM TypeCorrect == Spec => []TypeOK
BY InitType, StepType, PTL DEF Spec

-----------------------------------------------------------------------------
(* At most one answer.  The type invariant and Unanswered are inductive    *)
(* together with OneReply.                                                 *)

IInv == TypeOK /\ Unanswered /\ OneReply

\* Answering an unanswered request keeps OneReply and leaves the others alone.
LEMMA ReplyOnce ==
  ASSUME TypeOK, OneReply,
         NEW i \in Ids, NEW kind \in ReplyKinds, Reply(i, kind), replies[i] = <<>>
  PROVE  /\ OneReply'
         /\ \A k \in Ids \ {i} : replies'[k] = replies[k]
<1>1. replies'[i] = Append(<<>>, kind)
  BY DEF Reply, TypeOK
<1>2. Len(replies'[i]) <= 1
  <2>1. Len(Append(<<>>, kind)) = 1
    BY EmptySeq, AppendProperties
  <2>2. QED BY <1>1, <2>1
<1>3. \A k \in Ids \ {i} : replies'[k] = replies[k]
  BY DEF Reply, TypeOK
<1>4. ASSUME NEW k \in Ids PROVE Len(replies'[k]) <= 1
  <2>1. CASE k = i
    BY <1>2, <2>1
  <2>2. CASE k # i
    BY <1>3, <2>2 DEF OneReply
  <2>3. QED BY <2>1, <2>2
<1>5. QED BY <1>3, <1>4 DEF OneReply

\* What the reader's cancellation of a queued job does to the answers.
LEMMA CancelQueuedAnswers ==
  ASSUME IInv, NEW j \in Jobs, CancelQueued(j)
  PROVE  /\ stage' = [stage EXCEPT ![j] = "cancelled"]
         /\ stage[j] = "queued"
         /\ OneReply'
         /\ \A k \in Ids \ {j} : replies'[k] = replies[k]
<1>1. /\ Reply(j, "cancelled") /\ j \in Ids /\ "cancelled" \in ReplyKinds
      /\ replies[j] = <<>>
  BY DEF CancelQueued, Ids, ReplyKinds, IInv, Unanswered
<1>2. QED BY <1>1, ReplyOnce DEF CancelQueued, SetStage, IInv

LEMMA StepUnanswered == IInv /\ [Next]_vars => Unanswered' /\ OneReply'
<1> SUFFICES ASSUME IInv, [Next]_vars PROVE Unanswered' /\ OneReply'
  OBVIOUS
<1>a. TypeOK /\ Unanswered /\ OneReply
  BY DEF IInv
<1>b. /\ Jobs \subseteq Ids /\ Pings \subseteq Ids /\ Ids = Jobs \cup Pings
      /\ Jobs \cap Pings = {}
      /\ ReplyKinds = {"result", "error", "cancelled", "busy"}
  BY BridgeAssumption DEF BridgeAssumption, Ids, ReplyKinds
<1>c. /\ token \in [Jobs -> Tokens \cup {NoToken}]
      /\ stage \in [Jobs -> Stages]
      /\ rpc \in {"acquired", "registered", "submitted", "hooked", "target"} => job \in Jobs
  BY <1>a DEF TypeOK
<1>d. \A t \in Tokens : t # NoToken
  BY BridgeAssumption DEF BridgeAssumption, NoToken
<1>e. UNCHANGED replies => OneReply'
  BY <1>a DEF OneReply
<1> USE <1>a, <1>b, <1>c, <1>e DEF Unanswered, SetStage, Goto, readerVars,
        registry, tables, pool, history, Received, WorkerFrame
<1>1. ASSUME NEW i \in Pings, AnswerInline(i) PROVE Unanswered' /\ OneReply'
  <2>1. PICK kind \in ReplyKinds : Reply(i, kind)
    BY <1>1 DEF AnswerInline
  <2>2. replies[i] = <<>>
    BY <1>1 DEF AnswerInline
  <2>3. OneReply' /\ \A k \in Ids \ {i} : replies'[k] = replies[k]
    BY <2>1, <2>2, ReplyOnce
  <2>4. UNCHANGED <<rpc, job, stage, token>>
    BY <1>1 DEF AnswerInline
  <2>5. QED BY <2>3, <2>4
<1>2. ASSUME NEW j \in Jobs, NEW t \in Tokens, Reject(j, t) PROVE Unanswered' /\ OneReply'
  BY <1>2, <1>d, ReplyOnce DEF Reject
<1>3. ASSUME NEW j \in Jobs, NEW t \in Tokens, Acquire(j, t) PROVE Unanswered' /\ OneReply'
  <2>1. CASE slots = 0 /\ Reply(j, "busy")
    BY <1>3, <2>1, <1>d, ReplyOnce DEF Acquire
  <2>2. CASE slots > 0 /\ job' = j /\ Goto("acquired") /\ UNCHANGED replies
    BY <1>3, <2>2, <1>d DEF Acquire
  <2>3. QED BY <1>3, <2>1, <2>2 DEF Acquire
<1>4. CASE Register
  <2>1. CASE Reply(job, "error") /\ Goto("idle") /\ job' = NoJob
    BY <1>4, <2>1, ReplyOnce DEF Register
  <2>2. CASE Goto("registered") /\ UNCHANGED <<replies, job>>
    BY <1>4, <2>2 DEF Register
  <2>3. QED BY <1>4, <2>1, <2>2 DEF Register
<1>5. CASE Submit
  BY <1>5 DEF Submit
<1>6. CASE Hook
  BY <1>6 DEF Hook
<1>7. CASE CancelIfSet
  <2>1. CASE job \in event /\ CancelQueued(job)
    BY <1>7, <2>1, CancelQueuedAnswers DEF CancelIfSet
  <2>2. CASE UNCHANGED <<stage, replies>>
    BY <1>7, <2>2 DEF CancelIfSet
  <2>3. QED BY <1>7, <2>1, <2>2 DEF CancelIfSet
<1>8. CASE \/ \E j \in Jobs : CancelWire(j)
           \/ CancelUnknownWire
           \/ \E t \in Tokens : CancelToken(t)
           \/ SetTarget \/ SweepDone \/ SetAllEvents \/ Exit
           \/ \E c \in {"EOF", "shutdown"} : Leave(c)
           \/ \E t \in Tokens : Expire(t)
  <2>1. UNCHANGED <<stage, replies, token>>
    BY <1>8 DEF CancelWire, CancelUnknownWire, CancelToken, SetTarget, SweepDone,
                SetAllEvents, Exit, Leave, Expire
  <2>2. rpc' \in {"acquired", "registered"} => rpc' = rpc /\ job' = job
    BY <1>8 DEF CancelWire, CancelUnknownWire, CancelToken, SetTarget, SweepDone,
                SetAllEvents, Exit, Leave, Expire
  <2>3. QED BY <2>1, <2>2
<1>9. ASSUME NEW j \in Jobs, Sweep(j) PROVE Unanswered' /\ OneReply'
  <2>1. CASE j \in event /\ CancelQueued(j)
    BY <1>9, <2>1, CancelQueuedAnswers DEF Sweep
  <2>2. CASE UNCHANGED <<stage, replies>>
    BY <1>9, <2>2 DEF Sweep
  <2>3. QED BY <1>9, <2>1, <2>2 DEF Sweep
<1>10. CASE Drain
  <2>1. Head(queue) \in Jobs
    BY <1>10, HeadTailProperties DEF Drain, TypeOK
  <2>2. CASE CancelQueued(Head(queue))
    BY <1>10, <2>1, <2>2, CancelQueuedAnswers DEF Drain
  <2>3. CASE UNCHANGED <<stage, replies>>
    BY <1>10, <2>3 DEF Drain
  <2>4. QED BY <1>10, <2>2, <2>3 DEF Drain
<1>11. CASE Start
  BY <1>11, HeadTailProperties DEF Start, TypeOK
<1>12. ASSUME NEW j \in Jobs, WorkerStep(j) PROVE Unanswered' /\ OneReply'
  <2>1. CASE WriteReply(j)
    <3>1. /\ replies[j] = <<>> /\ Reply(j, outcome[j]) /\ outcome[j] \in ReplyKinds
          /\ stage' = [stage EXCEPT ![j] = "written"]
          /\ UNCHANGED <<rpc, job, token>>
      BY <2>1 DEF WriteReply, TypeOK
    <3>2. OneReply' /\ \A k \in Ids \ {j} : replies'[k] = replies[k]
      BY <3>1, ReplyOnce
    <3>3. QED BY <3>1, <3>2, <2>1 DEF WriteReply
  <2>2. CASE Enter(j) \/ HandlerEnds(j)
    BY <2>2 DEF Enter, HandlerEnds
  <2>3. CASE SetResult(j) \/ PopRequest(j) \/ ReleaseToken(j) \/ ReleaseSlot(j)
    BY <2>3 DEF SetResult, PopRequest, ReleaseToken, ReleaseSlot
  <2>4. QED BY <1>12, <2>1, <2>2, <2>3 DEF WorkerStep, Bookkeeping
<1>13. CASE UNCHANGED vars \/ Gone
  BY <1>13 DEF vars, Gone
<1>14. QED
  BY <1>1, <1>2, <1>3, <1>4, <1>5, <1>6, <1>7, <1>8, <1>9, <1>10, <1>11, <1>12, <1>13
     DEF Next, Frame, ReaderStep

LEMMA InitUnanswered == Init => IInv
<1> SUFFICES ASSUME Init PROVE IInv
  OBVIOUS
<1>1. TypeOK
  BY InitType
<1>2. \A i \in Ids : replies[i] = <<>>
  BY DEF Init
<1>3. OneReply
  BY <1>2, EmptySeq DEF OneReply
<1>4. Unanswered
  BY <1>2 DEF Init, Unanswered, Ids
<1>5. QED BY <1>1, <1>3, <1>4 DEF IInv

LEMMA InductiveIInv == Spec => []IInv
<1>1. IInv /\ [Next]_vars => IInv'
  BY StepType, StepUnanswered DEF IInv
<1>2. QED BY <1>1, InitUnanswered, PTL DEF Spec

\* No request is ever answered twice, for any number of jobs, workers, places
\* and tokens, and however cancels, callbacks and the shutdown interleave.
THEOREM AnsweredAtMostOnce == Spec => []OneReply
<1>1. IInv => OneReply
  BY DEF IInv
<1>2. QED BY <1>1, InductiveIInv, PTL

-----------------------------------------------------------------------------
(* Admission is conserved: every step takes a place for one job, gives the *)
(* place of one job back, or leaves both sides alone.                      *)

LEMMA HoldingFinite == TypeOK => IsFiniteSet(Holding) /\ Holding \subseteq Jobs
<1> SUFFICES ASSUME TypeOK PROVE IsFiniteSet(Holding) /\ Holding \subseteq Jobs
  OBVIOUS
<1>1. Holding \subseteq Jobs
  BY DEF Holding, Dispatching, TypeOK
<1>2. IsFiniteSet(Jobs)
  BY BridgeAssumption DEF BridgeAssumption
<1>3. QED BY <1>1, <1>2, FS_Subset

LEMMA PlaceTaken ==
  ASSUME TypeOK, AdmissionConserved, NEW j \in Jobs,
         j \notin Holding, Holding' = Holding \cup {j}, slots > 0, slots' = slots - 1
  PROVE  AdmissionConserved'
<1>1. Cardinality(Holding') = Cardinality(Holding) + 1
  BY HoldingFinite, FS_AddElement
<1>2. Cardinality(Holding) \in Nat /\ slots \in Nat /\ MaxAdmitted \in Nat
  BY HoldingFinite, FS_CardinalityType, Bounds DEF TypeOK
<1>3. slots' + Cardinality(Holding') = slots + Cardinality(Holding)
  BY <1>1, <1>2
<1>4. QED BY <1>3 DEF AdmissionConserved

LEMMA PlaceGiven ==
  ASSUME TypeOK, AdmissionConserved, NEW j \in Jobs,
         j \in Holding, Holding' = Holding \ {j}, slots' = slots + 1
  PROVE  AdmissionConserved'
<1>1. Cardinality(Holding') = Cardinality(Holding) - 1
  BY HoldingFinite, FS_RemoveElement
<1>2. Cardinality(Holding) \in Nat /\ slots \in Nat /\ MaxAdmitted \in Nat
  BY HoldingFinite, FS_CardinalityType, Bounds DEF TypeOK
<1>3. slots' + Cardinality(Holding') = slots + Cardinality(Holding)
  BY <1>1, <1>2
<1>4. QED BY <1>3 DEF AdmissionConserved

LEMMA PlaceKept ==
  ASSUME AdmissionConserved, Holding' = Holding, slots' = slots
  PROVE  AdmissionConserved'
BY DEF AdmissionConserved

LEMMA CancelQueuedGives ==
  ASSUME IInv, AdmissionConserved, NEW j \in Jobs, CancelQueued(j),
         Dispatching' = {}, Dispatching = {}
  PROVE  AdmissionConserved'
<1>1. j \in Holding /\ Holding' = Holding \ {j} /\ slots' = slots + 1
  BY DEF CancelQueued, RunCallback, SetStage, Holding, IInv, TypeOK
<1>2. QED BY <1>1, PlaceGiven DEF IInv

LEMMA StepAdmission == IInv /\ AdmissionConserved /\ [Next]_vars => AdmissionConserved'
<1> SUFFICES ASSUME IInv, AdmissionConserved, [Next]_vars PROVE AdmissionConserved'
  OBVIOUS
<1>a. TypeOK /\ Unanswered
  BY DEF IInv
<1>b. /\ stage \in [Jobs -> Stages]
      /\ rpc \in {"acquired", "registered", "submitted", "hooked", "target"} => job \in Jobs
      /\ \A j \in Jobs : token[j] = NoToken => stage[j] = "none"
      /\ rpc \in {"acquired", "registered"} => stage[job] = "none"
  BY <1>a DEF TypeOK, Unanswered
<1>c. ASSUME UNCHANGED <<stage, slots>>, Dispatching' = Dispatching
      PROVE  AdmissionConserved'
  BY <1>c, PlaceKept DEF Holding
<1> USE <1>b DEF SetStage, Goto, readerVars, registry, tables, pool, history, WorkerFrame
<1>1. CASE \/ \E i \in Pings : AnswerInline(i)
           \/ \E j \in Jobs, t \in Tokens : Reject(j, t)
           \/ \E j \in Jobs : CancelWire(j)
           \/ CancelUnknownWire
           \/ \E t \in Tokens : CancelToken(t) \/ Expire(t)
           \/ \E c \in {"EOF", "shutdown"} : Leave(c)
           \/ SetTarget \/ SweepDone \/ SetAllEvents \/ Exit
           \/ UNCHANGED vars \/ Gone
  <2>1. UNCHANGED <<stage, slots>>
    BY <1>1 DEF AnswerInline, Reject, CancelWire, CancelUnknownWire, CancelToken, Expire,
                Leave, SetTarget, SweepDone, SetAllEvents, Exit, vars, Gone
  <2>2. Dispatching' = Dispatching
    BY <1>1 DEF AnswerInline, Reject, CancelWire, CancelUnknownWire, CancelToken, Expire,
                Leave, SetTarget, SweepDone, SetAllEvents, Exit, vars, Gone, Dispatching
  <2>3. QED BY <1>c, <2>1, <2>2
<1>2. ASSUME NEW j \in Jobs, NEW t \in Tokens, Acquire(j, t) PROVE AdmissionConserved'
  <2>1. CASE UNCHANGED <<readerVars, slots>>
    BY <1>c, <1>2, <2>1 DEF Acquire, Dispatching
  <2>2. CASE slots > 0 /\ slots' = slots - 1 /\ job' = j /\ Goto("acquired")
    <3>1. stage[j] = "none" /\ stage' = stage /\ rpc = "idle"
      BY <1>2 DEF Acquire, Received
    <3>2. j \notin Holding /\ Holding' = Holding \cup {j}
      BY <2>2, <3>1 DEF Holding, Dispatching
    <3>3. QED BY <1>a, <2>2, <3>2, PlaceTaken
  <2>3. QED BY <1>2, <2>1, <2>2 DEF Acquire
<1>3. CASE Register
  <2>1. job \in Jobs /\ stage[job] = "none" /\ stage' = stage /\ rpc = "acquired"
    BY <1>3 DEF Register
  <2>2. CASE slots' = slots + 1 /\ Goto("idle")
    <3>1. job \in Holding /\ Holding' = Holding \ {job}
      BY <2>1, <2>2 DEF Holding, Dispatching
    <3>2. QED BY <1>a, <2>1, <2>2, <3>1, PlaceGiven
  <2>3. CASE Goto("registered") /\ UNCHANGED <<slots, job>>
    BY <1>c, <2>1, <2>3 DEF Dispatching
  <2>4. QED BY <1>3, <2>2, <2>3 DEF Register
<1>4. CASE Submit
  <2>1. Holding' = Holding /\ slots' = slots
    BY <1>4 DEF Submit, Holding, Dispatching
  <2>2. QED BY <2>1, PlaceKept
<1>5. CASE Hook
  <2>1. job \in Jobs /\ Dispatching = {} /\ Dispatching' = {}
    BY <1>5 DEF Hook, Dispatching
  <2>2. CASE stage[job] = "unhooked"
    <3>1. job \in Holding /\ Holding' = Holding \ {job} /\ slots' = slots + 1
      BY <1>5, <2>1, <2>2 DEF Hook, RunCallback, Holding
    <3>2. QED BY <1>a, <2>1, <3>1, PlaceGiven
  <2>3. CASE stage[job] # "unhooked"
    BY <1>5, <1>c, <2>1, <2>3 DEF Hook
  <2>4. QED BY <2>2, <2>3
<1>6. CASE CancelIfSet
  <2>1. job \in Jobs /\ Dispatching = {} /\ Dispatching' = {}
    BY <1>6 DEF CancelIfSet, Dispatching
  <2>2. QED BY <1>6, <1>c, <2>1, CancelQueuedGives DEF CancelIfSet
<1>7. ASSUME NEW j \in Jobs, Sweep(j) PROVE AdmissionConserved'
  <2>1. Dispatching = {} /\ Dispatching' = {}
    BY <1>7 DEF Sweep, Dispatching
  <2>2. QED BY <1>7, <1>c, <2>1, CancelQueuedGives DEF Sweep
<1>8. CASE Drain
  <2>1. Head(queue) \in Jobs
    BY <1>8, <1>a, HeadTailProperties DEF Drain, TypeOK
  <2>2. Dispatching = {} /\ Dispatching' = {}
    BY <1>8 DEF Drain, Dispatching
  <2>3. QED BY <1>8, <1>c, <2>1, <2>2, CancelQueuedGives DEF Drain
<1>9. CASE Start
  <2>1. Head(queue) \in Jobs
    BY <1>9, <1>a, HeadTailProperties DEF Start, TypeOK
  <2>2. Holding' = Holding /\ slots' = slots
    BY <1>9, <2>1 DEF Start, Holding, Dispatching
  <2>3. QED BY <2>2, PlaceKept
<1>10. ASSUME NEW j \in Jobs, WorkerStep(j) PROVE AdmissionConserved'
  <2>1. Dispatching' = Dispatching
    BY <1>10 DEF WorkerStep, Bookkeeping, Enter, HandlerEnds, WriteReply, SetResult,
                 PopRequest, ReleaseToken, ReleaseSlot, Dispatching
  <2>2. CASE ReleaseSlot(j)
    <3>1. j \in Holding /\ slots' = slots + 1
      BY <2>2 DEF ReleaseSlot, Holding
    <3>2. j \notin Dispatching
      BY <2>2 DEF ReleaseSlot, Dispatching
    <3>3. Holding' = Holding \ {j}
      BY <2>1, <2>2, <3>2 DEF ReleaseSlot, Holding
    <3>4. QED BY <1>a, <3>1, <3>3, PlaceGiven
  <2>3. CASE ~ReleaseSlot(j)
    <3>1. Holding' = Holding /\ slots' = slots
      BY <1>10, <2>1, <2>3 DEF WorkerStep, Bookkeeping, Enter, HandlerEnds, WriteReply,
                               SetResult, PopRequest, ReleaseToken, Holding
    <3>2. QED BY <3>1, PlaceKept
  <2>4. QED BY <2>2, <2>3
<1>11. QED
  BY <1>1, <1>2, <1>3, <1>4, <1>5, <1>6, <1>7, <1>8, <1>9, <1>10
     DEF Next, Frame, ReaderStep

LEMMA InitAdmission == Init => AdmissionConserved
<1> SUFFICES ASSUME Init PROVE AdmissionConserved
  OBVIOUS
<1>1. Holding = {}
  BY DEF Init, Holding, Dispatching
<1>2. Cardinality(Holding) = 0
  BY <1>1, FS_EmptySet
<1>3. QED BY <1>2, Bounds DEF Init, AdmissionConserved

\* The free places and the jobs that hold one always add up to MAX_ADMITTED: no
\* path through registration, cancellation, completion or shutdown loses a place
\* or gives one back twice.
THEOREM AdmissionIsConserved == Spec => []AdmissionConserved
<1>1. IInv /\ AdmissionConserved /\ [Next]_vars => AdmissionConserved'
  BY StepAdmission
<1>2. QED BY <1>1, InitAdmission, InductiveIInv, PTL DEF Spec
-----------------------------------------------------------------------------
(* Cancels are honoured.  A job is registered under a token no other       *)
(* registered job has, so that the release of one never removes another;   *)
(* and a job is cancelled in time only before its handler is entered.      *)

\* Stages of a job whose token is registered, and of one known by its wire id.
Cancellable == {"queued", "starting", "running", "ready"}
Known == Cancellable \cup {"written", "finished", "unhooked"}
Registered == Known \cup {"popped"}

\* Registrations are exclusive, and stay until the job itself gives them up.
Registrations ==
  /\ \A j, k \in active : token[j] = token[k] => j = k
  /\ \A j \in active : token[j] # NoToken
  /\ \A j \in Jobs : stage[j] \in Registered => j \in active
  /\ rpc = "registered" => job \in active
  /\ \A j \in Jobs : stage[j] \in Known => j \in requests /\ j \in futures

\* The event of a job cancelled in time is set, and who ran waits no more.
Cancels ==
  /\ doomed \subseteq event
  /\ \A j \in ran : stage[j] \notin {"none", "queued", "starting"}
  /\ doomed \cap ran = {}

CInv == IInv /\ Registrations /\ Cancels

\* A registered job that releases its token removes its own registration alone.
LEMMA ReleasesItself ==
  ASSUME Registrations, NEW j \in active
  PROVE  Released(token[j]) = active \ {j}
BY DEF Registrations, Released

\* The reader cancelling a queued job leaves the registrations of the others.
LEMMA CancelQueuedReleases ==
  ASSUME CInv, NEW j \in Jobs, CancelQueued(j), UNCHANGED token, rpc' # "registered"
  PROVE  Registrations'
<1>1. stage \in [Jobs -> Stages] /\ stage[j] = "queued" /\ stage' = [stage EXCEPT ![j] = "cancelled"]
  BY DEF CInv, IInv, TypeOK, CancelQueued, SetStage
<1>2. j \in active
  BY <1>1 DEF CInv, Registrations, Registered, Known, Cancellable
<1>3. active' = active \ {j} /\ requests' = requests \ {j} /\ futures' = futures \ {j}
  BY <1>2, ReleasesItself DEF CInv, CancelQueued, RunCallback
<1>4. QED
  BY <1>1, <1>3 DEF CInv, Registrations, Registered, Known, Cancellable

LEMMA StepRegistrations == CInv /\ [Next]_vars => Registrations'
<1> SUFFICES ASSUME CInv, [Next]_vars PROVE Registrations'
  OBVIOUS
<1>a. /\ stage \in [Jobs -> Stages] /\ token \in [Jobs -> Tokens \cup {NoToken}]
      /\ active \subseteq Jobs
      /\ rpc \in {"acquired", "registered", "submitted", "hooked", "target"} => job \in Jobs
      /\ queue \in Seq(Jobs)
  BY DEF CInv, IInv, TypeOK
<1>b. /\ \A j \in Jobs : token[j] = NoToken => stage[j] = "none"
      /\ rpc \in {"acquired", "registered"} => token[job] # NoToken /\ stage[job] = "none"
      /\ Registrations
      /\ NoToken \notin Tokens
  BY BridgeAssumption DEF CInv, IInv, Unanswered, BridgeAssumption, NoToken
<1> USE <1>a, <1>b DEF SetStage, Goto, readerVars, registry, tables, pool, history, WorkerFrame
<1>c. ASSUME UNCHANGED <<stage, token, active, requests, futures>>,
             rpc' # "registered" \/ (rpc' = rpc /\ job' = job)
      PROVE  Registrations'
  BY <1>c DEF Registrations
<1>1. CASE \/ \E i \in Pings : AnswerInline(i)
           \/ \E j \in Jobs : CancelWire(j)
           \/ CancelUnknownWire
           \/ \E t \in Tokens : CancelToken(t) \/ Expire(t)
           \/ \E c \in {"EOF", "shutdown"} : Leave(c)
           \/ SetTarget \/ SweepDone \/ SetAllEvents \/ Exit
           \/ UNCHANGED vars \/ Gone
  <2>1. UNCHANGED <<stage, token, active, requests, futures>>
    BY <1>1 DEF AnswerInline, CancelWire, CancelUnknownWire, CancelToken, Expire,
                Leave, SetTarget, SweepDone, SetAllEvents, Exit, vars, Gone
  <2>2. rpc' # "registered" \/ (rpc' = rpc /\ job' = job)
    BY <1>1 DEF AnswerInline, CancelWire, CancelUnknownWire, CancelToken, Expire,
                Leave, SetTarget, SweepDone, SetAllEvents, Exit, vars, Gone
  <2>3. QED BY <1>c, <2>1, <2>2
<1>2. ASSUME NEW j \in Jobs, NEW t \in Tokens, Reject(j, t) \/ Acquire(j, t)
      PROVE  Registrations'
  <2>1. /\ token[j] = NoToken /\ token' = [token EXCEPT ![j] = t]
        /\ UNCHANGED <<stage, active, requests, futures>>
        /\ rpc = "idle" /\ rpc' # "registered"
    BY <1>2 DEF Reject, Acquire, Received
  <2>2. j \notin active
    BY <2>1 DEF Registrations
  <2>3. QED BY <2>1, <2>2 DEF Registrations
<1>3. CASE Register
  <2>1. CASE UNCHANGED active /\ Goto("idle")
    BY <1>3, <2>1 DEF Register, Registrations
  <2>2. CASE ~TokenInUse(token[job]) /\ active' = active \cup {job} /\ Goto("registered") /\ job' = job
    BY <1>3, <2>2 DEF Register, Registrations, TokenInUse
  <2>3. QED BY <1>3, <2>1, <2>2 DEF Register
<1>4. CASE Submit
  BY <1>4 DEF Submit, Registrations, Registered, Known, Cancellable
<1>5. CASE Hook
  <2>1. job \in Jobs /\ rpc' # "registered" /\ token' = token
    BY <1>5 DEF Hook
  <2>2. CASE stage[job] = "unhooked"
    <3>1. job \in active
      BY <2>1, <2>2 DEF Registrations, Registered, Known, Cancellable
    <3>2. /\ active' = active \ {job} /\ requests' = requests \ {job} /\ futures' = futures \ {job}
          /\ stage' = [stage EXCEPT ![job] = "done"]
      BY <1>5, <2>2, <3>1, ReleasesItself DEF Hook, RunCallback
    <3>3. QED BY <2>1, <3>2 DEF Registrations, Registered, Known, Cancellable
  <2>3. CASE stage[job] # "unhooked"
    BY <1>5, <1>c, <2>1, <2>3 DEF Hook
  <2>4. QED BY <2>2, <2>3
<1>6. CASE CancelIfSet
  <2>1. job \in Jobs /\ rpc' # "registered" /\ token' = token
    BY <1>6 DEF CancelIfSet
  <2>2. QED BY <1>6, <1>c, <2>1, CancelQueuedReleases DEF CancelIfSet
<1>7. ASSUME NEW j \in Jobs, Sweep(j) PROVE Registrations'
  <2>1. rpc' # "registered" /\ token' = token
    BY <1>7 DEF Sweep
  <2>2. QED BY <1>7, <1>c, <2>1, CancelQueuedReleases DEF Sweep
<1>8. CASE Drain
  <2>1. Head(queue) \in Jobs /\ rpc' # "registered" /\ token' = token
    BY <1>8, HeadTailProperties DEF Drain
  <2>2. QED BY <1>8, <1>c, <2>1, CancelQueuedReleases DEF Drain
<1>9. CASE Start
  <2>1. Head(queue) \in Jobs
    BY <1>9, HeadTailProperties DEF Start
  <2>2. \A j \in Jobs : stage'[j] = stage[j] \/ (stage[j] = "queued" /\ stage'[j] = "starting")
    BY <1>9, <2>1 DEF Start
  <2>3. UNCHANGED <<token, active, requests, futures, rpc, job>>
    BY <1>9 DEF Start
  <2>4. QED BY <2>2, <2>3 DEF Registrations, Registered, Known, Cancellable
<1>10. ASSUME NEW j \in Jobs, WorkerStep(j) PROVE Registrations'
  <2>1. UNCHANGED <<token, rpc, job>>
    BY <1>10 DEF WorkerStep, Bookkeeping, Enter, HandlerEnds, WriteReply, SetResult,
                 PopRequest, ReleaseToken, ReleaseSlot
  <2>2. CASE Enter(j) \/ HandlerEnds(j) \/ WriteReply(j) \/ SetResult(j)
    <3>1. stage[j] \in Known /\ \E s \in Known : stage' = [stage EXCEPT ![j] = s]
      BY <2>2 DEF Enter, HandlerEnds, WriteReply, SetResult, Known, Cancellable
    <3>2. UNCHANGED <<active, requests, futures>>
      BY <2>2 DEF Enter, HandlerEnds, WriteReply, SetResult
    <3>3. QED BY <2>1, <3>1, <3>2 DEF Registrations, Registered
  <2>3. CASE PopRequest(j)
    BY <2>1, <2>3 DEF PopRequest, Registrations, Registered, Known, Cancellable
  <2>4. CASE ReleaseToken(j)
    <3>1. j \in active
      BY <2>4 DEF ReleaseToken, Registrations, Registered
    <3>2. active' = active \ {j} /\ stage[j] = "popped" /\ stage' = [stage EXCEPT ![j] = "released"]
          /\ UNCHANGED <<requests, futures>>
      BY <2>4, <3>1, ReleasesItself DEF ReleaseToken
    <3>3. QED BY <2>1, <3>2 DEF Registrations, Registered, Known, Cancellable
  <2>5. CASE ReleaseSlot(j)
    BY <2>1, <2>5 DEF ReleaseSlot, Registrations, Registered, Known, Cancellable
  <2>6. QED BY <1>10, <2>2, <2>3, <2>4, <2>5 DEF WorkerStep, Bookkeeping
<1>11. QED
  BY <1>1, <1>2, <1>3, <1>4, <1>5, <1>6, <1>7, <1>8, <1>9, <1>10
     DEF Next, Frame, ReaderStep

LEMMA StepCancels == CInv /\ [Next]_vars => Cancels'
<1> SUFFICES ASSUME CInv, [Next]_vars PROVE Cancels'
  OBVIOUS
<1>a. /\ stage \in [Jobs -> Stages]
      /\ rpc \in {"acquired", "registered", "submitted", "hooked", "target"} => job \in Jobs
      /\ queue \in Seq(Jobs) /\ ran \subseteq Jobs
  BY DEF CInv, IInv, TypeOK
<1>b. /\ rpc \in {"acquired", "registered"} => stage[job] = "none"
      /\ Cancels
  BY DEF CInv, IInv, Unanswered
<1> USE <1>a, <1>b DEF SetStage, Goto, readerVars, registry, tables, pool, history, WorkerFrame
\* A step that cancels only jobs that wait, and moves no job back.
<1>c. ASSUME NEW S, event \subseteq event', doomed' = doomed \cup (S \cap Waiting),
             S \cap Waiting \subseteq event', UNCHANGED <<ran, stage>>
      PROVE  Cancels'
  BY <1>c DEF Cancels, Waiting
<1>d. ASSUME UNCHANGED <<event, doomed, ran>>,
             \A j \in Jobs : stage'[j] \in {"none", "queued", "starting"}
                               => stage[j] \in {"none", "queued", "starting"}
      PROVE  Cancels'
  BY <1>d DEF Cancels
<1>1. CASE \/ \E i \in Pings : AnswerInline(i)
           \/ \E j \in Jobs, t \in Tokens : Reject(j, t) \/ Acquire(j, t)
           \/ \E j \in Jobs : CancelWire(j)
           \/ CancelUnknownWire
           \/ \E t \in Tokens : Expire(t)
           \/ \E c \in {"EOF", "shutdown"} : Leave(c)
           \/ SweepDone \/ Exit
           \/ UNCHANGED vars \/ Gone
  <2>1. UNCHANGED <<event, doomed, ran, stage>>
    BY <1>1 DEF AnswerInline, Reject, Acquire, CancelWire, CancelUnknownWire, Expire,
                Leave, SweepDone, Exit, vars, Gone
  <2>2. QED BY <1>d, <2>1
<1>2. CASE Register
  <2>1. job \in Waiting /\ UNCHANGED <<ran, stage>>
    BY <1>2 DEF Register, Waiting
  <2>2. CASE UNCHANGED <<event, doomed>>
    BY <1>d, <2>1, <2>2
  <2>3. CASE event' = event \cup {job} /\ doomed' = doomed \cup {job}
    <3>1. doomed' = doomed \cup ({job} \cap Waiting)
      BY <2>1, <2>3
    <3>2. QED BY <1>c, <2>1, <2>3, <3>1
  <2>4. QED BY <1>2, <2>2, <2>3 DEF Register
<1>3. CASE Submit
  <2>1. UNCHANGED <<event, doomed, ran>> /\ stage[job] = "none"
        /\ stage' = [stage EXCEPT ![job] = "queued"]
    BY <1>3 DEF Submit
  <2>2. QED BY <1>d, <2>1
<1>4. CASE Hook
  <2>1. UNCHANGED <<event, doomed, ran>>
        /\ (stage' = stage \/ stage' = [stage EXCEPT ![job] = "done"])
    BY <1>4 DEF Hook
  <2>2. QED BY <1>d, <2>1
<1>5. CASE CancelIfSet
  <2>1. UNCHANGED <<event, doomed, ran>>
        /\ (stage' = stage \/ stage' = [stage EXCEPT ![job] = "cancelled"])
    BY <1>5 DEF CancelIfSet, CancelQueued
  <2>2. QED BY <1>d, <2>1
<1>6. ASSUME NEW j \in Jobs, Sweep(j) PROVE Cancels'
  <2>1. UNCHANGED <<event, doomed, ran>>
        /\ (stage' = stage \/ stage' = [stage EXCEPT ![j] = "cancelled"])
    BY <1>6 DEF Sweep, CancelQueued
  <2>2. QED BY <1>d, <2>1
<1>7. CASE Drain
  <2>1. Head(queue) \in Jobs /\ UNCHANGED <<event, doomed, ran>>
        /\ (stage' = stage \/ stage' = [stage EXCEPT ![Head(queue)] = "cancelled"])
    BY <1>7, HeadTailProperties DEF Drain, CancelQueued
  <2>2. QED BY <1>d, <2>1
<1>8. CASE SetTarget
  <2>1. CASE UNCHANGED <<event, doomed>>
    <3>1. UNCHANGED <<ran, stage>>
      BY <1>8 DEF SetTarget
    <3>2. QED BY <1>d, <2>1, <3>1
  <2>2. CASE event' = event \cup {job} /\ doomed' = IF job \in Waiting THEN doomed \cup {job} ELSE doomed
    <3>1. doomed' = doomed \cup ({job} \cap Waiting) /\ UNCHANGED <<ran, stage>>
      BY <1>8, <2>2 DEF SetTarget
    <3>2. QED BY <1>c, <2>2, <3>1
  <2>3. QED BY <1>8, <2>1, <2>2 DEF SetTarget
<1>9. ASSUME NEW t \in Tokens, CancelToken(t) PROVE Cancels'
  <2> DEFINE owner == {j \in active : token[j] = t}
  <2>1. UNCHANGED <<ran, stage>>
    BY <1>9 DEF CancelToken
  <2>2. CASE event' = event \cup owner /\ doomed' = doomed \cup (owner \cap Waiting)
    <3> HIDE DEF owner
    <3> QED BY <1>c, <2>1, <2>2
  <2>3. CASE UNCHANGED <<event, doomed>>
    BY <1>d, <2>1, <2>3
  <2>4. QED BY <1>9, <2>2, <2>3 DEF CancelToken
<1>10. CASE SetAllEvents
  <2>1. /\ event' = event \cup requests /\ doomed' = doomed \cup (requests \cap Waiting)
        /\ UNCHANGED <<ran, stage>>
    BY <1>10 DEF SetAllEvents
  <2>2. QED BY <1>c, <2>1
<1>11. CASE Start
  <2>1. Head(queue) \in Jobs
    BY <1>11, HeadTailProperties DEF Start
  <2>2. UNCHANGED <<event, doomed, ran>>
        /\ (stage' = stage \/ (stage[Head(queue)] = "queued"
                               /\ stage' = [stage EXCEPT ![Head(queue)] = "starting"]))
    BY <1>11 DEF Start
  <2>3. QED BY <1>d, <2>1, <2>2
<1>12. ASSUME NEW j \in Jobs, WorkerStep(j) PROVE Cancels'
  <2>1. CASE Enter(j) /\ j \notin event
    <3>1. /\ UNCHANGED <<event, doomed>> /\ ran' = ran \cup {j}
          /\ stage' = [stage EXCEPT ![j] = "running"]
      BY <2>1 DEF Enter
    <3>2. QED BY <2>1, <3>1 DEF Cancels
  <2>2. CASE ~(Enter(j) /\ j \notin event)
    <3>1. UNCHANGED <<event, doomed, ran>>
      BY <1>12, <2>2 DEF WorkerStep, Bookkeeping, Enter, HandlerEnds, WriteReply, SetResult,
                         PopRequest, ReleaseToken, ReleaseSlot
    <3>2. \E s \in Stages \ {"none", "queued", "starting"} : stage' = [stage EXCEPT ![j] = s]
      BY <1>12, <2>2 DEF WorkerStep, Bookkeeping, Enter, HandlerEnds, WriteReply, SetResult,
                         PopRequest, ReleaseToken, ReleaseSlot, Stages
    <3>3. QED BY <1>d, <3>1, <3>2
  <2>3. QED BY <2>1, <2>2
<1>13. QED
  BY <1>1, <1>2, <1>3, <1>4, <1>5, <1>6, <1>7, <1>8, <1>9, <1>10, <1>11, <1>12
     DEF Next, Frame, ReaderStep

LEMMA InitCancels == Init => CInv
BY InitUnanswered
   DEF Init, CInv, Registrations, Registered, Known, Cancellable, Cancels

LEMMA InductiveCInv == Spec => []CInv
<1>1. CInv /\ [Next]_vars => IInv'
  BY StepType, StepUnanswered DEF CInv, IInv
<1>2. CInv /\ [Next]_vars => CInv'
  BY <1>1, StepRegistrations, StepCancels DEF CInv
<1>3. QED BY <1>2, InitCancels, PTL DEF Spec

\* A job cancelled before its handler is entered never enters it, and a cancel
\* by token or by wire id finds every job until it is answered, for any number of
\* jobs, tokens and workers: no early cancel, refused registration, sweep, callback
\* or shutdown takes the registration of another job away.
THEOREM CancelsHonoured == Spec => []CancelsAreHonoured
<1>1. CInv => CancelsAreHonoured
  BY DEF CInv, Registrations, Registered, Known, Cancellable, Cancels,
         CancelsAreHonoured, CancelledNeverRuns, StillCancellable
<1>2. QED BY <1>1, InductiveCInv, PTL
-----------------------------------------------------------------------------
(* The bridge keeps the contract of BridgeService.  Beyond the invariants  *)
(* above this needs that an open request is in some stage before its       *)
(* answer, and that every "cancelled" about to be written was asked for.   *)

Open == {j \in Jobs : token[j] # NoToken /\ replies[j] = <<>>}
Left == {"leaving", "draining", "exited"}

\* An open request holds a place, "cancelled" is written for cancelled requests,
\* and what the drain finds in the queue has been cancelled.
Contract ==
  /\ \A j \in Open : j \in Dispatching \/ stage[j] \in Cancellable
  /\ \A j \in Jobs : stage[j] = "ready" /\ outcome[j] = "cancelled" => j \in event
  /\ rpc \in {"draining", "exited"} => \A j \in Jobs : stage[j] = "queued" => j \in event

SInv == CInv /\ AdmissionConserved /\ Contract

\* What the reader's cancellation of a cancelled job writes is one answer.
LEMMA CancelQueuedOpen ==
  ASSUME SInv, NEW j \in Jobs, CancelQueued(j), UNCHANGED <<token, outcome, event>>,
         rpc' \notin {"acquired", "registered"}, Dispatching = {}, j \in event,
         rpc' \in {"draining", "exited"} => rpc' = rpc
  PROVE  Contract' /\ j \in Open /\ Open' = Open \ {j} /\ replies' = [replies EXCEPT ![j] = <<"cancelled">>]
<1>a. /\ stage \in [Jobs -> Stages] /\ replies \in [Ids -> Seq(ReplyKinds)]
      /\ Jobs \subseteq Ids /\ Unanswered /\ Contract
  BY DEF SInv, CInv, IInv, TypeOK, Ids
<1>1. /\ stage[j] = "queued" /\ stage' = [stage EXCEPT ![j] = "cancelled"]
      /\ replies' = [replies EXCEPT ![j] = Append(@, "cancelled")]
  BY DEF CancelQueued, SetStage, Reply
<1>2. replies[j] = <<>> /\ token[j] # NoToken
  BY <1>a, <1>1 DEF Unanswered
<1>3. replies' = [replies EXCEPT ![j] = <<"cancelled">>]
  BY <1>1, <1>2
<1>4. /\ \A k \in Jobs \ {j} : replies'[k] = replies[k]
      /\ replies'[j] = <<"cancelled">>
  BY <1>a, <1>3
<1>5. <<"cancelled">> # <<>>
  OBVIOUS
<1>6. j \in Open /\ Open' = Open \ {j}
  BY <1>2, <1>4, <1>5 DEF Open
<1>7. Contract'
  <2>1. \A k \in Open' : k \in Dispatching' \/ stage'[k] \in Cancellable
    BY <1>a, <1>1, <1>6 DEF Contract, Open
  <2>2. \A k \in Jobs : stage'[k] = "ready" /\ outcome'[k] = "cancelled" => k \in event'
    BY <1>a, <1>1 DEF Contract
  <2>3. rpc' \in {"draining", "exited"} => \A k \in Jobs : stage'[k] = "queued" => k \in event'
    BY <1>a, <1>1 DEF Contract
  <2>4. QED BY <2>1, <2>2, <2>3 DEF Contract
<1>8. QED BY <1>3, <1>6, <1>7

-----------------------------------------------------------------------------
(* The steps of the contract, in terms of the state of the bridge.         *)

LEMMA ContractPing ==
  ASSUME NEW i \in Pings, NEW kind \in {"result", "error"}, rpc = "idle", UNCHANGED <<rpc, event>>,
         replies[i] = <<>>, replies' = [replies EXCEPT ![i] = <<kind>>], Open' = Open,
         Jobs \cap Pings = {}
  PROVE  Service!Next
BY DEF Service!Next, Service!Ping, Service!Unseen, Service!Say, Open, Received

LEMMA ContractRefuse ==
  ASSUME NEW j \in Jobs, NEW kind \in {"busy", "error"}, rpc = "idle", UNCHANGED <<rpc, event>>,
         replies[j] = <<>>, j \notin Open, replies' = [replies EXCEPT ![j] = <<kind>>], Open' = Open
  PROVE  Service!Next
BY DEF Service!Next, Service!Refuse, Service!Unseen, Service!Say, Open, Received

LEMMA ContractTake ==
  ASSUME NEW j \in Jobs, rpc = "idle", rpc' \notin Left, UNCHANGED <<event, replies>>,
         replies[j] = <<>>, j \notin Open, Cardinality(Open) < MaxAdmitted, Open' = Open \cup {j}
  PROVE  Service!Next
<1>1. Open = {k \in Jobs : Received(k) /\ replies[k] = <<>>}
  BY DEF Open, Received
<1>2. Service!Cardinality(Open) < MaxAdmitted
  BY DEF Service!Cardinality, Cardinality
<1>3. Service!Take(j)
  BY <1>1, <1>2 DEF Service!Take, Service!Unseen, Open, Received, Left
<1>4. QED BY <1>3 DEF Service!Next

LEMMA ContractAnswer ==
  ASSUME NEW j \in Jobs, NEW kind \in {"result", "error", "cancelled"},
         rpc \in Left <=> rpc' \in Left, UNCHANGED event,
         j \in Open, kind = "cancelled" => j \in event,
         replies' = [replies EXCEPT ![j] = <<kind>>], Open' = Open \ {j}
  PROVE  Service!Next
BY DEF Service!Next, Service!Answer, Service!Say, Open, Received, Left

LEMMA ContractCancel ==
  ASSUME NEW S \in SUBSET Jobs, rpc \in Left <=> rpc' \in Left,
         UNCHANGED replies, event' = event \cup S, Open' = Open
  PROVE  Service!Next
BY DEF Service!Next, Service!Cancel, Open, Received, Left

LEMMA ContractClose ==
  ASSUME rpc' \in Left, UNCHANGED <<event, replies>>, Open' = Open
  PROVE  Service!Next
BY DEF Service!Next, Service!Close, Open, Received, Left

LEMMA ContractStutter ==
  ASSUME rpc \in Left <=> rpc' \in Left, UNCHANGED <<event, replies>>, Open' = Open
  PROVE  UNCHANGED Service!vars
BY DEF Service!vars, Open, Received, Left

LEMMA OpenHolds ==
  ASSUME SInv, slots > 0
  PROVE  Cardinality(Open) < MaxAdmitted
<1>1. Open \subseteq Holding
  <2>1. \A j \in Open : j \in Dispatching \/ stage[j] \in Cancellable
    BY DEF SInv, Contract
  <2>2. \A j \in Open : j \in Jobs
    BY DEF Open
  <2>3. QED BY <2>1, <2>2 DEF Holding, Cancellable
<1>2. IsFiniteSet(Holding) /\ Cardinality(Open) <= Cardinality(Holding)
  BY <1>1, HoldingFinite, FS_Subset DEF SInv, CInv, IInv
<1>3. IsFiniteSet(Open)
  BY <1>1, <1>2, FS_Subset
<1>4. Cardinality(Open) \in Nat /\ Cardinality(Holding) \in Nat /\ slots \in Nat /\ MaxAdmitted \in Nat
  BY <1>2, <1>3, FS_CardinalityType, Bounds DEF SInv, CInv, IInv, TypeOK
<1>5. QED BY <1>2, <1>4 DEF SInv, AdmissionConserved

\* Every step of the bridge is a step of the contract or changes nothing of it.
LEMMA StepContract ==
  SInv /\ [Next]_vars => Contract' /\ [Service!Next]_(Service!vars)
<1> DEFINE Goal == Contract' /\ [Service!Next]_(Service!vars)
<1> SUFFICES ASSUME SInv, [Next]_vars PROVE Goal
  OBVIOUS
<1>a. /\ stage \in [Jobs -> Stages] /\ replies \in [Ids -> Seq(ReplyKinds)]
      /\ token \in [Jobs -> Tokens \cup {NoToken}]
      /\ outcome \in [Jobs -> {"none", "result", "error", "cancelled"}]
      /\ rpc \in {"acquired", "registered", "submitted", "hooked", "target"} => job \in Jobs
      /\ queue \in Seq(Jobs) /\ active \subseteq Jobs /\ requests \subseteq Jobs
      /\ \A j \in Jobs : stage[j] = "ready" => outcome[j] \in ReplyKinds
  BY DEF SInv, CInv, IInv, TypeOK
<1>b. /\ Unanswered /\ Contract /\ Registrations
      /\ Jobs \subseteq Ids /\ Pings \subseteq Ids /\ Jobs \cap Pings = {} /\ NoToken \notin Tokens
  BY BridgeAssumption DEF SInv, CInv, IInv, Ids, BridgeAssumption, NoToken
<1>c. ASSUME UNCHANGED <<stage, outcome>>, event \subseteq event', Open' \subseteq Open,
             \A j \in Dispatching \cap Open' : j \in Dispatching',
             rpc' \in {"draining", "exited"} => rpc \in {"draining", "exited"}
      PROVE  Contract'
  <2>1. \A j \in Open' : j \in Dispatching' \/ stage'[j] \in Cancellable
    BY <1>b, <1>c DEF Contract
  <2>2. QED BY <1>b, <1>c, <2>1 DEF Contract
<1>d. \A i \in Ids : \A kind : replies[i] = <<>> /\ Reply(i, kind)
        => /\ replies' = [replies EXCEPT ![i] = <<kind>>]
           /\ replies'[i] # <<>> /\ \A k \in Ids \ {i} : replies'[k] = replies[k]
  <2> SUFFICES ASSUME NEW i \in Ids, NEW kind, replies[i] = <<>>, Reply(i, kind)
               PROVE  /\ replies' = [replies EXCEPT ![i] = <<kind>>]
                      /\ replies'[i] # <<>> /\ \A k \in Ids \ {i} : replies'[k] = replies[k]
    OBVIOUS
  <2>1. replies' = [replies EXCEPT ![i] = <<kind>>]
    BY DEF Reply
  <2>2. replies'[i] = <<kind>> /\ <<kind>> # <<>>
    BY <1>a, <2>1
  <2>3. QED BY <1>a, <2>1, <2>2
<1>e. ASSUME rpc \in Left <=> rpc' \in Left, UNCHANGED <<event, replies, token>>, Contract'
      PROVE  Goal
  <2>1. Open' = Open
    BY <1>e DEF Open
  <2>2. QED BY <1>e, <2>1, ContractStutter
<1> USE <1>a, <1>b DEF SetStage, Goto, readerVars, registry, tables, pool, history, WorkerFrame
<1>1. ASSUME NEW i \in Pings, AnswerInline(i) PROVE Goal
  <2>1. PICK kind \in {"result", "error"} : Reply(i, kind)
    BY <1>1 DEF AnswerInline
  <2>2. replies[i] = <<>> /\ i \notin Jobs /\ rpc = "idle" /\ UNCHANGED <<rpc, job, event, stage, outcome, token>>
    BY <1>1 DEF AnswerInline, Received
  <2>3. replies' = [replies EXCEPT ![i] = <<kind>>] /\ Open' = Open
    BY <1>d, <2>1, <2>2 DEF Open
  <2>4. Contract'
    BY <1>c, <2>2, <2>3 DEF Dispatching
  <2>5. QED BY <2>2, <2>3, <2>4, ContractPing
<1>2. ASSUME NEW j \in Jobs, NEW t \in Tokens, Reject(j, t) \/ Acquire(j, t) PROVE Goal
  <2>1. /\ token[j] = NoToken /\ replies[j] = <<>> /\ j \notin Open /\ rpc = "idle"
        /\ token' = [token EXCEPT ![j] = t] /\ UNCHANGED <<event, stage, outcome>>
    BY <1>2 DEF Reject, Acquire, Received, Unanswered, Open
  <2>2. ASSUME NEW kind \in {"busy", "error"}, Reply(j, kind), UNCHANGED <<rpc, job>> PROVE Goal
    <3>1. replies' = [replies EXCEPT ![j] = <<kind>>] /\ Open' = Open
      BY <1>d, <2>1, <2>2 DEF Open
    <3>2. Contract'
      BY <1>c, <2>1, <2>2, <3>1 DEF Dispatching
    <3>3. QED BY <2>1, <2>2, <3>1, <3>2, ContractRefuse
  <2>3. CASE slots > 0 /\ job' = j /\ rpc' = "acquired" /\ UNCHANGED replies
    <3>1. Open' = Open \cup {j}
      BY <2>1, <2>3 DEF Open
    <3>2. Dispatching = {} /\ Dispatching' = {j}
      BY <2>1, <2>3 DEF Dispatching
    <3>3. Contract'
      BY <2>1, <2>3, <3>1, <3>2 DEF Contract
    <3>4. Cardinality(Open) < MaxAdmitted
      BY <2>3, OpenHolds
    <3>5. QED BY <2>1, <2>3, <3>1, <3>3, <3>4, ContractTake DEF Left
  <2>4. QED BY <1>2, <2>2, <2>3 DEF Reject, Acquire
<1>3. CASE Register
  <2>1. /\ rpc = "acquired" /\ job \in Jobs /\ stage[job] = "none" /\ replies[job] = <<>>
        /\ token[job] # NoToken /\ UNCHANGED <<stage, outcome, token>>
        /\ job \in Open /\ Dispatching = {job}
    BY <1>3 DEF Register, Unanswered, Open, Dispatching
  <2>2. CASE Reply(job, "error") /\ rpc' = "idle" /\ UNCHANGED event
    <3>1. replies' = [replies EXCEPT ![job] = <<"error">>] /\ Open' = Open \ {job}
      BY <1>d, <2>1, <2>2 DEF Open
    <3>2. Contract'
      BY <1>c, <2>1, <2>2, <3>1
    <3>3. QED BY <2>1, <2>2, <3>1, <3>2, ContractAnswer DEF Left
  <2>3. CASE rpc' = "registered" /\ UNCHANGED <<replies, job>> /\ (UNCHANGED event \/ event' = event \cup {job})
    <3>1. Open' = Open /\ Dispatching' = {job}
      BY <2>1, <2>3 DEF Open, Dispatching
    <3>2. Contract'
      BY <1>c, <2>1, <2>3, <3>1
    <3>3. PICK S \in {{}, {job}} : event' = event \cup S
      BY <2>3
    <3>4. QED BY <2>1, <2>3, <3>1, <3>2, <3>3, ContractCancel DEF Left
  <2>4. QED BY <1>3, <2>2, <2>3 DEF Register
<1>4. CASE Submit
  <2>1. /\ rpc = "registered" /\ rpc' = "submitted" /\ job \in Jobs /\ Dispatching = {job}
        /\ stage' = [stage EXCEPT ![job] = "queued"]
        /\ UNCHANGED <<outcome, event, replies, token>> /\ Open' = Open
    BY <1>4 DEF Submit, Dispatching, Open
  <2>2. \A j \in Open' : stage'[j] \in Cancellable
    BY <2>1 DEF Contract, Open, Cancellable
  <2>3. Contract'
    BY <2>1, <2>2 DEF Contract
  <2>4. QED BY <1>e, <2>1, <2>3 DEF Left
<1>5. CASE Hook
  <2>1. /\ rpc = "submitted" /\ rpc' = "hooked" /\ job \in Jobs /\ Dispatching = {} /\ Dispatching' = {}
        /\ UNCHANGED <<outcome, event, replies, token>> /\ Open' = Open
    BY <1>5 DEF Hook, Dispatching, Open
  <2>2. stage' = stage \/ (stage[job] = "unhooked" /\ stage' = [stage EXCEPT ![job] = "done"])
    BY <1>5 DEF Hook
  <2>3. \A j \in Open' : stage'[j] \in Cancellable
    BY <2>1, <2>2 DEF Contract, Open, Cancellable
  <2>4. Contract'
    BY <2>1, <2>2, <2>3 DEF Contract
  <2>5. QED BY <1>e, <2>1, <2>4 DEF Left
<1>6. ASSUME NEW j \in Jobs, CancelQueued(j), j \in event, UNCHANGED <<token, outcome, event>>,
             Dispatching = {}, rpc' \notin {"acquired", "registered"}, rpc \in Left <=> rpc' \in Left,
             rpc' \in {"draining", "exited"} => rpc' = rpc
      PROVE  Goal
  BY <1>6, CancelQueuedOpen, ContractAnswer
<1>7. ASSUME UNCHANGED <<token, outcome, event, stage, replies>>,
             Dispatching = {}, rpc \in Left <=> rpc' \in Left,
             rpc' \in {"draining", "exited"} => rpc \in {"draining", "exited"}
      PROVE  Goal
  <2>1. Open' = Open
    BY <1>7 DEF Open
  <2>2. Contract'
    BY <1>c, <1>7, <2>1
  <2>3. QED BY <1>e, <1>7, <2>2
<1>8. CASE CancelIfSet
  <2>1. /\ job \in Jobs /\ Dispatching = {} /\ rpc = "hooked" /\ rpc' = "idle"
        /\ UNCHANGED <<token, outcome, event>>
    BY <1>8 DEF CancelIfSet, Dispatching
  <2>2. QED BY <1>6, <1>7, <1>8, <2>1 DEF CancelIfSet, Left
<1>9. ASSUME NEW j \in Jobs, Sweep(j) PROVE Goal
  <2>1. Dispatching = {} /\ rpc = "sweep" /\ rpc' = rpc /\ UNCHANGED <<token, outcome, event>>
    BY <1>9 DEF Sweep, Dispatching
  <2>2. QED BY <1>6, <1>7, <1>9, <2>1 DEF Sweep, Left
<1>10. CASE Drain
  <2>1. /\ Head(queue) \in Jobs /\ Dispatching = {} /\ rpc = "draining" /\ rpc' = rpc
        /\ UNCHANGED <<token, outcome, event>>
    BY <1>10, HeadTailProperties DEF Drain, Dispatching
  <2>2. CASE CancelQueued(Head(queue))
    <3>1. Head(queue) \in event
      BY <2>1, <2>2 DEF CancelQueued, Contract
    <3>2. QED BY <1>6, <2>1, <2>2, <3>1 DEF Left
  <2>3. CASE UNCHANGED <<stage, replies>>
    BY <1>7, <2>1, <2>3 DEF Left
  <2>4. QED BY <1>10, <2>2, <2>3 DEF Drain
<1>11. CASE \/ \E j \in Jobs : CancelWire(j)
            \/ CancelUnknownWire \/ SweepDone \/ Exit
  <2>1. UNCHANGED <<token, outcome, event, stage, replies>> /\ Dispatching = {}
    BY <1>11 DEF CancelWire, CancelUnknownWire, SweepDone, Exit, Dispatching
  <2>2. (rpc \in Left <=> rpc' \in Left) /\ (rpc' \in {"draining", "exited"} => rpc \in {"draining", "exited"})
    BY <1>11 DEF CancelWire, CancelUnknownWire, SweepDone, Exit, Left
  <2>3. QED BY <1>7, <2>1, <2>2
<1>12. CASE UNCHANGED vars \/ Gone \/ \E t \in Tokens : Expire(t)
  <2>1. UNCHANGED <<token, outcome, event, stage, replies, rpc, job>>
    BY <1>12 DEF vars, Gone, Expire
  <2>2. Open' = Open /\ Dispatching' = Dispatching
    BY <2>1 DEF Open, Dispatching
  <2>3. Contract'
    BY <1>c, <2>1, <2>2
  <2>4. QED BY <1>e, <2>1, <2>3
<1>13. ASSUME NEW S \in SUBSET Jobs, event' = event \cup S, UNCHANGED <<token, outcome, stage, replies>>,
              Dispatching = {}, rpc \in Left <=> rpc' \in Left,
              rpc' \in {"draining", "exited"} =>
                rpc \in {"draining", "exited"} \/ \A j \in Jobs : stage[j] = "queued" => j \in S
       PROVE  Goal
  <2>1. Open' = Open
    BY <1>13 DEF Open
  <2>2. Contract'
    BY <1>13, <2>1 DEF Contract
  <2>3. QED BY <1>13, <2>1, <2>2, ContractCancel
<1>14. ASSUME NEW t \in Tokens, CancelToken(t) PROVE Goal
  <2> DEFINE owner == {j \in active : token[j] = t}
  <2>1. /\ UNCHANGED <<token, outcome, stage, replies>> /\ Dispatching = {}
        /\ rpc = "idle" /\ rpc' = "sweep"
    BY <1>14 DEF CancelToken, Dispatching
  <2>2. \E S \in SUBSET Jobs : event' = event \cup S
    <3>1. CASE event' = event \cup owner
      BY <3>1
    <3>2. CASE UNCHANGED event
      BY <3>2
    <3>3. QED BY <1>14, <3>1, <3>2 DEF CancelToken
  <2>3. QED BY <1>13, <2>1, <2>2 DEF Left
<1>15. ASSUME UNCHANGED <<token, outcome, stage, replies, event>>, Dispatching = {}, rpc' = "leaving"
       PROVE  Goal
  <2>1. Open' = Open
    BY <1>15 DEF Open
  <2>2. Contract'
    BY <1>c, <1>15, <2>1
  <2>3. QED BY <1>15, <2>1, <2>2, ContractClose DEF Left
<1>16. CASE SetTarget
  <2>1. /\ UNCHANGED <<token, outcome, stage, replies>> /\ Dispatching = {} /\ job \in Jobs
        /\ rpc = "target"
    BY <1>16 DEF SetTarget, Dispatching
  <2>2. CASE event' = event \cup {job} /\ rpc' = "sweep"
    <3>1. {job} \in SUBSET Jobs
      BY <2>1
    <3>2. (rpc \in Left <=> rpc' \in Left) /\ rpc' \notin {"draining", "exited"}
      BY <2>1, <2>2 DEF Left
    <3>3. QED BY <1>13, <2>1, <2>2, <3>1, <3>2
  <2>3. CASE UNCHANGED event /\ rpc' = "leaving"
    BY <1>15, <2>1, <2>3
  <2>4. QED BY <1>16, <2>2, <2>3 DEF SetTarget
<1>17. ASSUME NEW c \in {"EOF", "shutdown"}, Leave(c) PROVE Goal
  BY <1>15, <1>17 DEF Leave, Dispatching
<1>18. CASE SetAllEvents
  <2>1. /\ UNCHANGED <<token, outcome, stage, replies>> /\ Dispatching = {}
        /\ rpc = "leaving" /\ rpc' = "draining" /\ event' = event \cup requests
    BY <1>18 DEF SetAllEvents, Dispatching
  <2>2. \A j \in Jobs : stage[j] = "queued" => j \in requests
    BY DEF Registrations, Known, Cancellable
  <2>3. QED BY <1>13, <2>1, <2>2 DEF Left
<1>19. ASSUME NEW j \in Jobs, NEW s \in Cancellable \ {"queued"}, stage[j] \in Cancellable,
              stage' = [stage EXCEPT ![j] = s],
              outcome' = outcome \/ \E kind \in ReplyKinds : outcome' = [outcome EXCEPT ![j] = kind],
              s = "ready" /\ outcome'[j] = "cancelled" => j \in event,
              UNCHANGED <<token, event, replies, rpc, job>>
       PROVE  Goal
  <2>1. Open' = Open /\ Dispatching' = Dispatching
    BY <1>19 DEF Open, Dispatching
  <2>2. \A k \in Open' : k \in Dispatching' \/ stage'[k] \in Cancellable
    BY <1>19, <2>1 DEF Contract, Open
  <2>3. \A k \in Jobs : stage'[k] = "ready" /\ outcome'[k] = "cancelled" => k \in event'
    BY <1>19 DEF Contract
  <2>4. rpc' \in {"draining", "exited"} => \A k \in Jobs : stage'[k] = "queued" => k \in event'
    BY <1>19 DEF Contract
  <2>5. QED BY <1>e, <1>19, <2>2, <2>3, <2>4 DEF Contract
<1>20. CASE Start
  <2>1. Head(queue) \in Jobs
    BY <1>20, HeadTailProperties DEF Start
  <2>2. UNCHANGED <<token, event, replies, rpc, job, outcome>>
    BY <1>20 DEF Start
  <2>3. CASE stage[Head(queue)] = "queued"
    BY <1>19, <1>20, <2>1, <2>2, <2>3 DEF Start, Cancellable
  <2>4. CASE stage' = stage
    <3>1. Open' = Open /\ Dispatching' = Dispatching
      BY <2>2, <2>4 DEF Open, Dispatching
    <3>2. QED BY <1>c, <1>e, <2>2, <2>4, <3>1
  <2>5. QED BY <1>20, <2>3, <2>4 DEF Start
<1>21. ASSUME NEW j \in Jobs, Enter(j) PROVE Goal
  <2>1. UNCHANGED <<token, event, replies, rpc, job>> /\ stage[j] = "starting"
    BY <1>21 DEF Enter
  <2>2. CASE j \in event
    BY <1>19, <1>21, <2>1, <2>2 DEF Enter, Cancellable, ReplyKinds
  <2>3. CASE j \notin event
    BY <1>19, <1>21, <2>1, <2>3 DEF Enter, Cancellable
  <2>4. QED BY <2>2, <2>3
<1>22. ASSUME NEW j \in Jobs, HandlerEnds(j) PROVE Goal
  <2>1. UNCHANGED <<token, event, replies, rpc, job>> /\ stage[j] = "running"
        /\ stage' = [stage EXCEPT ![j] = "ready"]
    BY <1>22 DEF HandlerEnds
  <2>2. PICK kind \in {"error", "cancelled", "result"} :
          outcome' = [outcome EXCEPT ![j] = kind] /\ (kind = "cancelled" => j \in event)
    BY <1>22 DEF HandlerEnds
  <2>3. QED BY <1>19, <2>1, <2>2 DEF Cancellable, ReplyKinds
<1>23. ASSUME NEW j \in Jobs, WriteReply(j) PROVE Goal
  <2>1. /\ UNCHANGED <<token, event, rpc, job, outcome>> /\ stage[j] = "ready"
        /\ stage' = [stage EXCEPT ![j] = "written"] /\ Reply(j, outcome[j])
    BY <1>23 DEF WriteReply
  <2>2. replies[j] = <<>> /\ token[j] # NoToken
    BY <2>1 DEF Unanswered
  <2>3. outcome[j] \in {"result", "error", "cancelled"} /\ (outcome[j] = "cancelled" => j \in event)
    BY <2>1 DEF Contract, ReplyKinds
  <2>4. replies' = [replies EXCEPT ![j] = <<outcome[j]>>] /\ j \in Open /\ Open' = Open \ {j}
    BY <1>d, <2>1, <2>2 DEF Open
  <2>5. Dispatching' = Dispatching
    BY <2>1 DEF Dispatching
  <2>6. Contract'
    <3>1. \A k \in Open' : k \in Dispatching' \/ stage'[k] \in Cancellable
      BY <2>1, <2>4, <2>5 DEF Contract, Open
    <3>2. QED BY <2>1, <3>1 DEF Contract
  <2>7. QED BY <2>1, <2>3, <2>4, <2>6, ContractAnswer
<1>24. ASSUME NEW j \in Jobs, SetResult(j) \/ PopRequest(j) \/ ReleaseToken(j) \/ ReleaseSlot(j) PROVE Goal
  <2>1. UNCHANGED <<token, event, replies, rpc, job, outcome>> /\ stage[j] \notin Cancellable \cup {"none"}
    BY <1>24 DEF SetResult, PopRequest, ReleaseToken, ReleaseSlot, Cancellable
  <2>2. PICK s \in Stages \ (Cancellable \cup {"none"}) : stage' = [stage EXCEPT ![j] = s]
    BY <1>24 DEF SetResult, PopRequest, ReleaseToken, ReleaseSlot, Cancellable, Stages
  <2>3. Open' = Open /\ Dispatching' = Dispatching
    BY <2>1 DEF Open, Dispatching
  <2>4. j \notin Open \/ j \in Dispatching
    BY <2>1 DEF Contract
  <2>5. \A k \in Open' : k \in Dispatching' \/ stage'[k] \in Cancellable
    BY <2>2, <2>3, <2>4 DEF Contract, Open
  <2>6. Contract'
    BY <2>1, <2>2, <2>5 DEF Contract, Cancellable
  <2>7. QED BY <1>e, <2>1, <2>6
<1>25. QED
  BY <1>1, <1>2, <1>3, <1>4, <1>5, <1>8, <1>9, <1>10, <1>11, <1>12, <1>14, <1>16, <1>17,
     <1>18, <1>20, <1>21, <1>22, <1>23, <1>24
     DEF Next, Frame, ReaderStep, WorkerStep, Bookkeeping

LEMMA InitContract == Init => SInv /\ Service!Init
<1> SUFFICES ASSUME Init PROVE SInv /\ Service!Init
  OBVIOUS
<1>1. CInv /\ AdmissionConserved
  BY InitCancels, InitAdmission
<1>2. Contract
  BY DEF Init, Contract, Open
<1>3. Service!Init
  BY DEF Init, Service!Init, Received, Ids
<1>4. QED BY <1>1, <1>2, <1>3 DEF SInv

\* The bridge implements the contract of BridgeService, for any constants: each
\* request is refused at once or taken, at most MAX_ADMITTED are open, a taken one
\* is answered once, "cancelled" goes only to requests somebody cancelled, and
\* nothing is taken once the read loop has ended.
THEOREM BridgeKeepsContract == Spec => ServiceContract
<1>1. Init => SInv /\ Service!Init
  BY InitContract
<1>2. SInv /\ [Next]_vars => SInv'
  <2>1. CInv /\ [Next]_vars => CInv'
    BY StepType, StepUnanswered, StepRegistrations, StepCancels DEF CInv, IInv
  <2>2. QED BY <2>1, StepAdmission, StepContract DEF SInv, CInv
<1>3. SInv /\ [Next]_vars => [Service!Next]_(Service!vars)
  BY StepContract
<1>4. QED BY <1>1, <1>2, <1>3, PTL DEF Spec, ServiceContract, Service!Spec
=============================================================================
