------------------------ MODULE GenerationJobsProofs ------------------------
(***************************************************************************)
(* Proofs about GenerationJobs for every set of requests and briefs and    *)
(* every value of the limits.                                              *)
(***************************************************************************)
EXTENDS GenerationJobs, FiniteSetTheorems, TLAPS

Phases == Running \cup {"none", "queued", "acking", "done", "abandoned"}

(***************************************************************************)
(* What the shared parts of the actions leave in the variables.            *)
(***************************************************************************)

\* SetStatus writes the status of one job and nothing else.
LEMMA SetStatusEffect ==
  ASSUME TypeOK, NEW j \in Requests, NEW s \in Statuses, SetStatus(j, s)
  PROVE  /\ job' \in [Requests -> JobRows]
         /\ job'[j].status = s
         /\ \A k \in Requests : job'[k].brief = job[k].brief
         /\ \A k \in Requests \ {j} : job'[k] = job[k]
  BY DEF TypeOK, SetStatus, JobRows

\* Goto moves one message to another phase.
LEMMA GotoEffect ==
  ASSUME TypeOK, NEW r \in Requests, NEW p \in Phases, Goto(r, p)
  PROVE  /\ task' \in [Requests -> TaskRows]
         /\ task'[r].phase = p
         /\ task'[r].attempt = task[r].attempt
         /\ task'[r].pending = task[r].pending
         /\ \A q \in Requests \ {r} : task'[q] = task[q]
  BY DEF TypeOK, Goto, TaskRows, Phases

\* Leave moves one message to another phase and drops its uncommitted rows.
LEMMA LeaveEffect ==
  ASSUME TypeOK, NEW r \in Requests, NEW p \in Phases, Leave(r, p)
  PROVE  /\ task' \in [Requests -> TaskRows]
         /\ task'[r].phase = p
         /\ task'[r].attempt = task[r].attempt
         /\ task'[r].pending = {}
         /\ \A q \in Requests \ {r} : task'[q] = task[q]
  BY DEF TypeOK, Leave, TaskRows, Phases

\* Deliver starts one more delivery of one message.
LEMMA DeliverEffect ==
  ASSUME TypeOK, NEW r \in Requests, NEW p \in Running, Deliver(r, p)
  PROVE  /\ task' \in [Requests -> TaskRows]
         /\ task'[r].phase = p
         /\ task'[r].attempt = task[r].attempt + 1
         /\ task[r].attempt \in Nat
         /\ task'[r].pending = task[r].pending
         /\ \A q \in Requests \ {r} : task'[q] = task[q]
  BY ConstantsOK DEF TypeOK, Deliver, TaskRows

\* Persist stores the objects of some rows and adds the rows to the session.
LEMMA PersistEffect ==
  ASSUME TypeOK, NEW r \in Requests, NEW p \in Phases,
         NEW rows \in SUBSET AssetRows, Persist(r, rows, p)
  PROVE  /\ task' \in [Requests -> TaskRows]
         /\ task'[r].phase = p
         /\ task'[r].attempt = task[r].attempt
         /\ task'[r].pending = task[r].pending \cup rows
         /\ \A q \in Requests \ {r} : task'[q] = task[q]
         /\ files' = files \cup {FileOf(a) : a \in rows}
         /\ files' \subseteq FileKeys
  <1>1. files' = files \cup {FileOf(a) : a \in rows}
    BY DEF Persist
  <1>2. \A a \in rows : FileOf(a) \in FileKeys
    BY DEF FileOf, FileKeys, AssetRows, ConceptRows
  <1>3. files' \subseteq FileKeys
    BY <1>1, <1>2 DEF TypeOK
  <1>4. task' = [task EXCEPT ![r].phase = p, ![r].pending = @ \cup rows]
    BY DEF Persist
  <1>5. QED
    BY <1>1, <1>3, <1>4 DEF TypeOK, TaskRows, Phases

\* The rows that a rendering run inserts are asset rows.
LEMMA RenderingType ==
  ASSUME TypeOK, NEW r \in Requests, task[r].attempt > 0,
         NEW S \in SUBSET ConceptRows, NEW kinds \in SUBSET AssetKinds
  PROVE  Rendering(r, S, kinds) \subseteq AssetRows
  <1>1. task[r].attempt \in 1 .. MaxTries
    BY ConstantsOK DEF TypeOK, TaskRows
  <1>2. QED
    BY <1>1 DEF Rendering, AssetRows

(***************************************************************************)
(* Type correctness.  TypeOK needs a run to belong to a delivery, because  *)
(* the rows it inserts carry the number of that delivery.                  *)
(***************************************************************************)
TypeInv ==
  /\ TypeOK
  /\ \A r \in Requests : task[r].phase \notin {"none", "queued"} => task[r].attempt > 0

LEMMA TypeInvInit == Init => TypeInv
  <1> SUFFICES ASSUME Init PROVE TypeInv
    OBVIOUS
  <1>1. (CHOOSE b \in Briefs : TRUE) \in Briefs
    BY ConstantsOK
  <1>2. QED
    BY <1>1, ConstantsOK DEF Init, TypeInv, TypeOK, ApiRows, JobRows, TaskRows

LEMMA ApiTypeInv ==
  ASSUME TypeInv, NEW r \in Requests, ApiStep(r)
  PROVE  TypeInv'
  <1> USE DEF TypeInv
  <1>1. ASSUME NEW b \in Briefs, GenerateAnswered(r, b) PROVE TypeInv'
    <2>1. api' \in [Requests -> ApiRows]
      BY <1>1 DEF GenerateAnswered, Generates, WithBrief, Jobs, ApiRows, TypeOK
    <2>2. QED
      BY <1>1, <2>1 DEF GenerateAnswered, TypeOK
  <1>2. ASSUME NEW b \in Briefs, NEW force \in BOOLEAN, GenerateChecked(r, b, force)
        PROVE  TypeInv'
    <2>1. api' \in [Requests -> ApiRows]
      BY <1>2 DEF GenerateChecked, Generates, ApiRows, TypeOK
    <2>2. QED
      BY <1>2, <2>1 DEF GenerateChecked, TypeOK
  <1>3. CASE GenerateCommitted(r)
    <2>1. api' \in [Requests -> ApiRows]
      BY <1>3 DEF GenerateCommitted, ApiRows, TypeOK
    <2>2. job' \in [Requests -> JobRows]
      BY <1>3 DEF GenerateCommitted, ApiRows, JobRows, Statuses, TypeOK
    <2>3. QED
      BY <1>3, <2>1, <2>2 DEF GenerateCommitted, TypeOK
  <1>4. ASSUME NEW j \in Requests, RenderRequested(r, j) PROVE TypeInv'
    <2>1. api' \in [Requests -> ApiRows]
      BY <1>4 DEF RenderRequested, ApiRows, JobRows, TypeOK
    <2>2. QED
      BY <1>4, <2>1 DEF RenderRequested, TypeOK
  <1>5. CASE Enqueued(r)
    <2>1. api' \in [Requests -> ApiRows]
      BY <1>5 DEF Enqueued, ApiRows, TypeOK
    <2>2. Goto(r, "queued")
      BY <1>5 DEF Enqueued, Goto
    <2>3. QED
      BY <1>5, <2>1, <2>2, GotoEffect DEF Enqueued, TypeOK, Phases
  <1>6. CASE EnqueueFailed(r)
    <2>1. api' \in [Requests -> ApiRows]
      BY <1>6 DEF EnqueueFailed, ApiRows, TypeOK
    <2>2. QED
      BY <1>6, <2>1 DEF EnqueueFailed, TypeOK
  <1>7. QED
    BY <1>1, <1>2, <1>3, <1>4, <1>5, <1>6 DEF ApiStep

\* The handlers of a cancelled run write one of two statuses.
LEMMA CancelledStatusType ==
  ASSUME NEW r \in Requests
  PROVE  CancelledStatus(r) \in Statuses
  BY DEF CancelledStatus, Statuses

\* An ideation writes at least one concept row, each of its own job and delivery.
LEMMA DraftRows ==
  ASSUME TypeOK, NEW r \in Requests, task[r].attempt > 0, NEW out \in Ideations(r)
  PROVE  /\ Drafts(r, out) \subseteq ConceptRows
         /\ \A c \in Drafts(r, out) : c.job = Target(r) /\ c.attempt = task[r].attempt
         /\ Drafts(r, out) # {}
  <1>1. PICK n \in 1 .. MaxConcepts : DOMAIN out = 0 .. n - 1
    BY DEF Ideations
  <1>2. DOMAIN out \subseteq Indexes /\ 0 \in DOMAIN out
    BY <1>1, ConstantsOK DEF Indexes
  <1>3. Target(r) \in Requests /\ task[r].attempt \in 1 .. MaxTries
    BY ConstantsOK DEF TypeOK, ApiRows, TaskRows, Target
  <1>4. Drafts(r, out) \subseteq ConceptRows
    <2> SUFFICES ASSUME NEW i \in DOMAIN out
                 PROVE  [job |-> Target(r), attempt |-> task[r].attempt, index |-> i,
                         rejected |-> out[i] = "rejected", script |-> out[i] = "scripted"]
                           \in ConceptRows
      BY DEF Drafts
    <2>1. i \in Indexes
      BY <1>2
    <2> QED BY <1>3, <2>1 DEF ConceptRows
  <1>5. \A c \in Drafts(r, out) : c.job = Target(r) /\ c.attempt = task[r].attempt
    BY DEF Drafts
  <1>6. Drafts(r, out) # {}
    BY <1>2 DEF Drafts
  <1> QED BY <1>4, <1>5, <1>6

LEMMA WorkerTypeInv ==
  ASSUME TypeInv, NEW r \in Requests, WorkerStep(r) \/ Stopped(r)
  PROVE  TypeInv'
  <1> USE DEF TypeInv
  <1>1. Target(r) \in Requests
    BY DEF TypeOK, ApiRows, Target
  <1>2. CASE IdeationStarted(r)
    <2>1. Deliver(r, "ideating") /\ SetStatus(Target(r), "running")
      BY <1>2 DEF IdeationStarted
    <2>2. job' \in [Requests -> JobRows]
      BY <1>1, <2>1, SetStatusEffect DEF Statuses
    <2>3. QED
      BY <1>2, <2>1, <2>2, DeliverEffect DEF IdeationStarted, TypeOK, Running
  <1>3. ASSUME NEW out \in Ideations(r), IdeationCommitted(r, out) PROVE TypeInv'
    <2>1. task[r].attempt \in 1 .. MaxTries
      BY <1>3, ConstantsOK DEF IdeationCommitted, TypeOK, TaskRows
    <2>2. concepts' \subseteq ConceptRows
      BY <1>3, <2>1, DraftRows DEF IdeationCommitted, TypeOK
    <2>3. /\ job' \in [Requests -> JobRows]
          /\ Goto(r, "acking") \/ Goto(r, "rendering")
      BY <1>1, <1>3, SetStatusEffect DEF IdeationCommitted, TypeOK, Statuses
    <2>4. QED
      BY <1>3, <2>1, <2>2, <2>3, GotoEffect DEF IdeationCommitted, TypeOK, Phases, Running
  <1>4. CASE IdeationFailed(r)
    <2>1. Leave(r, "acking") /\ job' \in [Requests -> JobRows]
      BY <1>1, <1>4, SetStatusEffect DEF IdeationFailed, Statuses
    <2>2. QED
      BY <1>4, <2>1, LeaveEffect DEF IdeationFailed, TypeOK, Phases
  <1>5. CASE RenderStarted(r)
    <2>1. Deliver(r, "rendering") /\ SetStatus(Target(r), "running")
      BY <1>5 DEF RenderStarted
    <2>2. job' \in [Requests -> JobRows]
      BY <1>1, <2>1, SetStatusEffect DEF Statuses
    <2>3. QED
      BY <1>5, <2>1, <2>2, DeliverEffect DEF RenderStarted, TypeOK, Running
  <1>6. ASSUME NEW S \in Picks(ConceptsOf(Target(r))), ImagesRendered(r, S) PROVE TypeInv'
    <2>1. task[r].attempt > 0
      BY <1>6 DEF ImagesRendered
    <2>2. {c \in S : ~c.rejected} \in SUBSET ConceptRows
      BY DEF Picks, ConceptsOf, TypeOK
    <2> DEFINE rows == Rendering(r, {c \in S : ~c.rejected}, {"image"})
    <2>3. rows \in SUBSET AssetRows
      BY <2>1, <2>2, RenderingType DEF AssetKinds
    <2>4. Persist(r, rows, "imaged")
      BY <1>6 DEF ImagesRendered
    <2> HIDE DEF rows
    <2>5. QED
      BY <1>6, <2>1, <2>3, <2>4, PersistEffect DEF ImagesRendered, TypeOK, Phases, Running
  <1>7. CASE ReelAssembled(r)
    <2>1. task[r].attempt > 0
      BY <1>7 DEF ReelAssembled
    <2> DEFINE cs == {a.concept : a \in {a \in task[r].pending : a.concept.script}}
               rows == Rendering(r, cs, {"raw_clip", "video"})
    <2>2. cs \in SUBSET ConceptRows
      BY DEF TypeOK, TaskRows, AssetRows
    <2>3. rows \in SUBSET AssetRows
      BY <2>1, <2>2, RenderingType DEF AssetKinds
    <2>4. Persist(r, rows, "assembled")
      BY <1>7 DEF ReelAssembled
    <2> HIDE DEF rows
    <2>5. QED
      BY <1>7, <2>1, <2>3, <2>4, PersistEffect DEF ReelAssembled, TypeOK, Phases, Running
  <1>8. CASE RenderCommitted(r)
    <2>1. Leave(r, "acking") /\ job' \in [Requests -> JobRows]
      BY <1>1, <1>8, SetStatusEffect DEF RenderCommitted, Statuses
    <2>2. task[r].attempt > 0
      BY <1>8 DEF RenderCommitted
    <2>3. assets' \subseteq AssetRows
      BY <1>8 DEF RenderCommitted, TypeOK, TaskRows
    <2>4. QED
      BY <1>8, <2>1, <2>2, <2>3, LeaveEffect DEF RenderCommitted, TypeOK, Phases
  <1>9. CASE RenderFailed(r)
    <2>1. Leave(r, "acking") /\ job' \in [Requests -> JobRows]
      BY <1>1, <1>9, SetStatusEffect DEF RenderFailed, Statuses
    <2>2. QED
      BY <1>9, <2>1, LeaveEffect DEF RenderFailed, TypeOK, Phases
  <1>10. CASE TimedOut(r)
    <2>1. Leave(r, "acking") /\ job' \in [Requests -> JobRows]
      BY <1>1, <1>10, SetStatusEffect, CancelledStatusType DEF TimedOut
    <2>2. QED
      BY <1>10, <2>1, LeaveEffect DEF TimedOut, TypeOK, Phases, Running
  <1>11. CASE Acked(r)
    BY <1>11, GotoEffect DEF Acked, TypeOK, Phases
  <1>12. CASE Abandoned(r)
    BY <1>12, GotoEffect, ConstantsOK DEF Abandoned, TypeOK, Phases
  <1>13. CASE ShutDown(r)
    <2>1. Leave(r, "queued") /\ job' \in [Requests -> JobRows]
      BY <1>1, <1>13, SetStatusEffect, CancelledStatusType DEF ShutDown
    <2>2. QED
      BY <1>13, <2>1, LeaveEffect, ConstantsOK DEF ShutDown, TypeOK, Phases
  <1>14. CASE Crashed(r)
    BY <1>14, LeaveEffect, ConstantsOK DEF Crashed, TypeOK, Phases
  <1>15. QED
    BY <1>2, <1>3, <1>4, <1>5, <1>6, <1>7, <1>8, <1>9, <1>10, <1>11, <1>12, <1>13, <1>14
       DEF WorkerStep, Stopped

LEMMA TypeInvNext == TypeInv /\ [Next]_vars => TypeInv'
  <1>1. ASSUME TypeInv, UNCHANGED vars PROVE TypeInv'
    BY <1>1 DEF TypeInv, TypeOK, vars
  <1>2. QED
    BY <1>1, ApiTypeInv, WorkerTypeInv DEF Next

\* Every variable keeps its type: the rows the handlers and the worker write
\* are rows of their tables, whatever the order of requests, runs and stops.
THEOREM TypeCorrect == Spec => []TypeOK
  <1>1. TypeInv => TypeOK
    BY DEF TypeInv
  <1>2. QED
    BY <1>1, TypeInvInit, TypeInvNext, PTL DEF Spec

(***************************************************************************)
(* The inductive invariant.                                                *)
(***************************************************************************)

\* What every step of the worker with message r leaves alone: the API, the
\* other messages, the other jobs, and whatever was committed or stored.
WorkerFrame(r) ==
  /\ api' = api
  /\ concepts \subseteq concepts'
  /\ files \subseteq files'
  /\ task[r].phase # "none"
  /\ task'[r].phase # "none"
  /\ \A q \in Requests \ {r} : task'[q] = task[q]
  /\ \A j \in Requests : job'[j].brief = job[j].brief
  /\ \A j \in Requests \ {Target(r)} : job'[j] = job[j]
  /\ \/ job'[Target(r)].status = job[Target(r)].status
     \/ job'[Target(r)].status \in Statuses

LEMMA WorkerFrameHolds ==
  ASSUME TypeInv, NEW r \in Requests, WorkerStep(r) \/ Stopped(r)
  PROVE  WorkerFrame(r)
  <1>1. Target(r) \in Requests /\ TypeOK
    BY DEF TypeInv, TypeOK, ApiRows, Target
  <1>2. CASE IdeationStarted(r)
    <2>1. Deliver(r, "ideating") /\ SetStatus(Target(r), "running")
      BY <1>2 DEF IdeationStarted
    <2>2. QED
      BY <1>1, <1>2, <2>1, SetStatusEffect, DeliverEffect
         DEF IdeationStarted, Deliver, WorkerFrame, Statuses, Running
  <1>3. ASSUME NEW out \in Ideations(r), IdeationCommitted(r, out) PROVE WorkerFrame(r)
    <2>1. \/ SetStatus(Target(r), "awaiting_render") /\ Goto(r, "acking")
          \/ UNCHANGED job /\ Goto(r, "rendering")
      BY <1>3 DEF IdeationCommitted
    <2>2. task[r].phase # "none" /\ api' = api /\ files' = files /\ concepts \subseteq concepts'
      BY <1>3 DEF IdeationCommitted
    <2>3. QED
      BY <1>1, <2>1, <2>2, SetStatusEffect, GotoEffect DEF WorkerFrame, Statuses, Phases, Running
  <1>4. CASE IdeationFailed(r)
    BY <1>1, <1>4, SetStatusEffect, LeaveEffect
       DEF IdeationFailed, WorkerFrame, Statuses, Phases
  <1>5. CASE RenderStarted(r)
    <2>1. Deliver(r, "rendering") /\ SetStatus(Target(r), "running")
      BY <1>5 DEF RenderStarted
    <2>2. QED
      BY <1>1, <1>5, <2>1, SetStatusEffect, DeliverEffect
         DEF RenderStarted, Deliver, WorkerFrame, Statuses, Running
  <1>6. ASSUME NEW S \in Picks(ConceptsOf(Target(r))), ImagesRendered(r, S) PROVE WorkerFrame(r)
    <2> DEFINE rows == Rendering(r, {c \in S : ~c.rejected}, {"image"})
    <2>1. task[r].phase # "none" /\ api' = api /\ job' = job /\ concepts' = concepts
      BY <1>6 DEF ImagesRendered
    <2>2. Persist(r, rows, "imaged")
      BY <1>6 DEF ImagesRendered
    <2>3. rows \in SUBSET AssetRows
      BY <1>6, RenderingType DEF TypeInv, TypeOK, ImagesRendered, Picks, ConceptsOf, AssetKinds
    <2> HIDE DEF rows
    <2>4. QED
      BY <1>1, <2>1, <2>2, <2>3, PersistEffect DEF WorkerFrame, Phases, Running
  <1>7. CASE ReelAssembled(r)
    <2> DEFINE cs == {a.concept : a \in {a \in task[r].pending : a.concept.script}}
               rows == Rendering(r, cs, {"raw_clip", "video"})
    <2>1. task[r].phase # "none" /\ api' = api /\ job' = job /\ concepts' = concepts
      BY <1>7 DEF ReelAssembled
    <2>2. Persist(r, rows, "assembled")
      BY <1>7 DEF ReelAssembled
    <2>3. cs \in SUBSET ConceptRows
      BY DEF TypeInv, TypeOK, TaskRows, AssetRows
    <2>4. rows \in SUBSET AssetRows
      BY <1>7, <2>3, RenderingType DEF TypeInv, ReelAssembled, AssetKinds
    <2> HIDE DEF cs, rows
    <2>5. QED
      BY <1>1, <2>1, <2>2, <2>4, PersistEffect DEF WorkerFrame, Phases, Running
  <1>8. CASE RenderCommitted(r)
    <2>1. task[r].phase # "none"
      BY <1>8 DEF RenderCommitted
    <2>2. QED
      BY <1>1, <1>8, <2>1, SetStatusEffect, LeaveEffect
         DEF RenderCommitted, WorkerFrame, Statuses, Phases
  <1>9. CASE RenderFailed(r)
    BY <1>1, <1>9, SetStatusEffect, LeaveEffect
       DEF RenderFailed, WorkerFrame, Statuses, Phases
  <1>10. CASE TimedOut(r)
    BY <1>1, <1>10, SetStatusEffect, LeaveEffect, CancelledStatusType
       DEF TimedOut, WorkerFrame, Running, Phases
  <1>11. CASE Acked(r)
    BY <1>1, <1>11, GotoEffect DEF Acked, WorkerFrame, Phases
  <1>12. CASE Abandoned(r)
    BY <1>1, <1>12, GotoEffect DEF Abandoned, WorkerFrame, Phases
  <1>13. CASE ShutDown(r)
    BY <1>1, <1>13, SetStatusEffect, LeaveEffect, CancelledStatusType
       DEF ShutDown, WorkerFrame, Running, Phases
  <1>14. CASE Crashed(r)
    BY <1>1, <1>14, LeaveEffect DEF Crashed, WorkerFrame, Running, Phases
  <1>15. QED
    BY <1>2, <1>3, <1>4, <1>5, <1>6, <1>7, <1>8, <1>9, <1>10, <1>11, <1>12, <1>13, <1>14
       DEF WorkerStep, Stopped

LEMMA IInvTypeInv == IInv => TypeInv
  BY DEF IInv, TypeInv, TaskOK

\* Jobs, concepts and files only come into existence, a job keeps its brief,
\* and what is known of every request and of every other message stays true.
LEMMA WorkerKeeps ==
  ASSUME IInv, NEW r \in Requests, WorkerFrame(r)
  PROVE  /\ \A j \in Requests : job'[j].status = "none" <=> job[j].status = "none"
         /\ \A j \in Requests : IsReel(j)' <=> IsReel(j)
         /\ \A j \in Requests : ConceptsOf(j) \subseteq ConceptsOf(j)'
         /\ \A q \in Requests : RequestOK(q)'
         /\ \A q \in Requests \ {r} : TaskOK(q)'
  <1>1. /\ TypeOK
        /\ \A q \in Requests : RequestOK(q) /\ TaskOK(q)
        /\ \A q \in Requests : Target(q) \in Requests /\ Target(q)' = Target(q)
    BY DEF IInv, TypeOK, ApiRows, Target, WorkerFrame
  <1>2. \A j \in Requests : job'[j].status = "none" <=> job[j].status = "none"
    BY <1>1 DEF WorkerFrame, TaskOK, Statuses
  <1>3. \A j \in Requests : IsReel(j)' <=> IsReel(j)
    BY DEF WorkerFrame, IsReel
  <1>4. \A j \in Requests : ConceptsOf(j) \subseteq ConceptsOf(j)'
    BY DEF WorkerFrame, ConceptsOf
  <1>5. ASSUME NEW q \in Requests PROVE RequestOK(q)'
    <2>1. PICK j \in Requests : j = api[q].job
      BY <1>1 DEF TypeOK, ApiRows
    <2>2. api'[q] = api[q] /\ RequestOK(q)
      BY <1>1 DEF WorkerFrame
    <2>3. task'[q].phase = "none" <=> task[q].phase = "none"
      BY <1>1 DEF WorkerFrame
    <2>4. api[q].op = "render" => ConceptsOf(j)' # {}
      BY <1>4, <2>1, <2>2 DEF RequestOK
    <2>5. QED
      BY <1>2, <2>1, <2>2, <2>3, <2>4 DEF RequestOK, ConceptsOf
  <1>6. ASSUME NEW q \in Requests \ {r} PROVE TaskOK(q)'
    <2>1. PICK j \in Requests : j = api[q].job
      BY <1>1 DEF TypeOK, ApiRows
    <2>2. task'[q] = task[q] /\ api'[q] = api[q] /\ TaskOK(q) /\ files \subseteq files'
      BY <1>1 DEF WorkerFrame
    <2>3. \A a \in task[q].pending : a.concept \in ConceptsOf(j)'
      BY <1>4, <2>1, <2>2 DEF TaskOK, Target
    <2>4. task[q].phase \in {"rendering", "imaged", "assembled"} =>
            /\ ConceptsOf(j)' # {}
            /\ IsReel(j)' => api[q].op = "render"
      BY <1>3, <1>4, <2>1, <2>2 DEF TaskOK, Target
    <2>5. QED
      BY <1>2, <2>1, <2>2, <2>3, <2>4 DEF TaskOK, FileOf, Target, ConceptsOf, IsReel
  <1>7. QED
    BY <1>2, <1>3, <1>4, <1>5, <1>6

\* The rows inserted by a rendering run are rows of accepted concepts of its
\* job whose objects have just been stored.
LEMMA RenderingServable ==
  ASSUME NEW r \in Requests, NEW S, NEW kinds, NEW p,
         Persist(r, Rendering(r, S, kinds), p),
         \A c \in S : c \in ConceptsOf(Target(r)) /\ ~c.rejected
  PROVE  \A a \in Rendering(r, S, kinds) : /\ a.concept \in ConceptsOf(Target(r))
                                           /\ ~a.concept.rejected
                                           /\ FileOf(a) \in files'
  BY DEF Persist, Rendering

LEMMA WorkerTaskOK ==
  ASSUME IInv, TypeInv', NEW r \in Requests, WorkerStep(r) \/ Stopped(r), WorkerFrame(r)
  PROVE  TaskOK(r)'
  <1>1. PICK j \in Requests : j = Target(r)
    BY DEF IInv, TypeOK, ApiRows, Target
  <1>2. /\ TypeOK /\ TypeInv
        /\ TaskOK(r) /\ RequestOK(r)
        /\ api' = api
        /\ files \subseteq files'
        /\ ConceptsOf(j) \subseteq ConceptsOf(j)'
        /\ job'[j].status # "none"
        /\ IsReel(j)' <=> IsReel(j)
        /\ task'[r].phase \notin {"none", "queued"} => task'[r].attempt > 0
    BY <1>1, WorkerKeeps, IInvTypeInv DEF IInv, WorkerFrame, TaskOK, TypeInv
  \* What is left to show of each action.
  <1> DEFINE Rendered == task'[r].phase \in {"rendering", "imaged", "assembled"} =>
                           /\ ConceptsOf(j)' # {}
                           /\ IsReel(j) => api[r].op = "render"
             Servable == \A a \in task'[r].pending : /\ a.concept \in ConceptsOf(j)'
                                                     /\ ~a.concept.rejected
                                                     /\ FileOf(a) \in files'
             Pending == task'[r].pending # {} => task'[r].phase \in {"imaged", "assembled"}
  <1>3. SUFFICES Rendered /\ Servable /\ Pending
    BY <1>1, <1>2 DEF TaskOK, Target, ConceptsOf, IsReel, FileOf
  <1>4. ASSUME NEW p \in Phases, Leave(r, p), p \notin {"rendering", "imaged", "assembled"}
        PROVE  Rendered /\ Servable /\ Pending
    BY <1>2, <1>4, LeaveEffect
  <1>5. ASSUME NEW p \in Phases, Goto(r, p), task[r].phase \in {"queued", "acking", "ideating"},
               p \notin {"rendering", "imaged", "assembled"}
        PROVE  Rendered /\ Servable /\ Pending
    BY <1>2, <1>5, GotoEffect DEF TaskOK
  <1>6. CASE IdeationStarted(r)
    <2>1. task[r].phase = "queued" /\ Deliver(r, "ideating")
      BY <1>6 DEF IdeationStarted, Deliver
    <2>2. task'[r].phase = "ideating" /\ task'[r].pending = {}
      BY <1>2, <2>1, DeliverEffect DEF TaskOK, Running
    <2>3. QED
      BY <2>2
  <1>7. ASSUME NEW out \in Ideations(r), IdeationCommitted(r, out)
        PROVE  Rendered /\ Servable /\ Pending
    <2>1. task[r].phase = "ideating" /\ task[r].attempt > 0
      BY <1>2, <1>7 DEF IdeationCommitted, TypeInv
    <2>2. CASE IsReel(j)
      <3>1. Goto(r, "acking")
        BY <1>1, <1>7, <2>2 DEF IdeationCommitted
      <3>2. QED
        BY <1>5, <2>1, <3>1 DEF Phases
    <2>3. CASE ~IsReel(j)
      <3>1. Goto(r, "rendering") /\ concepts' = concepts \cup Drafts(r, out)
        BY <1>1, <1>7, <2>3 DEF IdeationCommitted
      <3>2. task'[r].pending = {}
        BY <1>2, <2>1, <3>1, GotoEffect DEF TaskOK, Phases, Running
      <3>3. ConceptsOf(j)' # {}
        BY <1>1, <1>2, <2>1, <3>1, DraftRows DEF ConceptsOf
      <3>4. QED
        BY <2>3, <3>2, <3>3
    <2>4. QED
      BY <2>2, <2>3
  <1>8. CASE IdeationFailed(r)
    BY <1>4, <1>8 DEF IdeationFailed, Phases
  <1>9. CASE RenderStarted(r)
    <2>1. task[r].phase = "queued" /\ Deliver(r, "rendering") /\ api[r].op = "render"
      BY <1>9 DEF RenderStarted, Deliver
    <2>2. task'[r].pending = {}
      BY <1>2, <2>1, DeliverEffect DEF TaskOK, Running
    <2>3. ConceptsOf(j)' # {}
      BY <1>1, <1>2, <2>1 DEF RequestOK, Target
    <2>4. QED
      BY <2>1, <2>2, <2>3
  <1>10. ASSUME NEW S \in Picks(ConceptsOf(Target(r))), ImagesRendered(r, S)
         PROVE  Rendered /\ Servable /\ Pending
    <2> DEFINE acc == {c \in S : ~c.rejected}
               rows == Rendering(r, acc, {"image"})
    <2>1. task[r].phase = "rendering" /\ Persist(r, rows, "imaged")
      BY <1>10 DEF ImagesRendered
    <2>2. \A c \in acc : c \in ConceptsOf(Target(r)) /\ ~c.rejected
      BY DEF Picks
    <2>3. rows \in SUBSET AssetRows
      BY <1>2, <2>1, RenderingType DEF TypeInv, TypeOK, Picks, ConceptsOf, AssetKinds
    <2>4. \A a \in rows : /\ a.concept \in ConceptsOf(Target(r))
                          /\ ~a.concept.rejected
                          /\ FileOf(a) \in files'
      BY <2>1, <2>2, RenderingServable
    <2> HIDE DEF rows, acc
    <2>5. task'[r].phase = "imaged" /\ task'[r].pending = task[r].pending \cup rows
      BY <1>2, <2>1, <2>3, PersistEffect DEF Phases, Running
    <2>6. QED
      BY <1>1, <1>2, <2>1, <2>4, <2>5 DEF TaskOK
  <1>11. CASE ReelAssembled(r)
    <2> DEFINE cs == {a.concept : a \in {a \in task[r].pending : a.concept.script}}
               rows == Rendering(r, cs, {"raw_clip", "video"})
    <2>1. task[r].phase = "imaged" /\ Persist(r, rows, "assembled")
      BY <1>11 DEF ReelAssembled
    <2>2. \A c \in cs : c \in ConceptsOf(Target(r)) /\ ~c.rejected
      BY <1>2 DEF TaskOK
    <2>3. cs \in SUBSET ConceptRows
      BY <1>2 DEF TypeOK, TaskRows, AssetRows
    <2>4. rows \in SUBSET AssetRows
      BY <1>2, <2>1, <2>3, RenderingType DEF TypeInv, AssetKinds
    <2>5. \A a \in rows : /\ a.concept \in ConceptsOf(Target(r))
                          /\ ~a.concept.rejected
                          /\ FileOf(a) \in files'
      BY <2>1, <2>2, RenderingServable
    <2> HIDE DEF rows, cs
    <2>6. task'[r].phase = "assembled" /\ task'[r].pending = task[r].pending \cup rows
      BY <1>2, <2>1, <2>4, PersistEffect DEF Phases, Running
    <2>7. QED
      BY <1>1, <1>2, <2>1, <2>5, <2>6 DEF TaskOK
  <1>12. CASE RenderCommitted(r)
    BY <1>4, <1>12 DEF RenderCommitted, Phases
  <1>13. CASE RenderFailed(r)
    BY <1>4, <1>13 DEF RenderFailed, Phases
  <1>14. CASE TimedOut(r)
    BY <1>4, <1>14 DEF TimedOut, Phases
  <1>15. CASE Acked(r)
    BY <1>5, <1>15 DEF Acked, Phases
  <1>16. CASE Abandoned(r)
    BY <1>5, <1>16 DEF Abandoned, Phases
  <1>17. CASE ShutDown(r)
    BY <1>4, <1>17 DEF ShutDown, Phases
  <1>18. CASE Crashed(r)
    BY <1>4, <1>18 DEF Crashed, Phases
  <1>19. QED
    BY <1>6, <1>7, <1>8, <1>9, <1>10, <1>11, <1>12, <1>13, <1>14, <1>15, <1>16, <1>17, <1>18
       DEF WorkerStep, Stopped

\* A run only adds concepts and files of its own job, files of a reel only
\* when it was asked to render, and commits the asset rows it holds.
LEMMA WorkerAdds ==
  ASSUME IInv, NEW r \in Requests, WorkerStep(r) \/ Stopped(r)
  PROVE  /\ \A c \in concepts' \ concepts : c.job = Target(r)
         /\ \A f \in files' \ files : /\ f.job = Target(r)
                                      /\ IsReel(Target(r)) => api[r].op = "render"
         /\ \A a \in assets' \ assets : a \in task[r].pending
  <1> DEFINE Adds == /\ \A c \in concepts' \ concepts : c.job = Target(r)
                     /\ \A f \in files' \ files : /\ f.job = Target(r)
                                                  /\ IsReel(Target(r)) => api[r].op = "render"
                     /\ \A a \in assets' \ assets : a \in task[r].pending
  <1> SUFFICES Adds
    OBVIOUS
  <1>1. TaskOK(r)
    BY DEF IInv
  <1>2. ASSUME UNCHANGED <<concepts, assets, files>> PROVE Adds
    BY <1>2
  <1>3. ASSUME NEW S, NEW kinds, NEW p, Persist(r, Rendering(r, S, kinds), p),
               \A c \in S : c \in ConceptsOf(Target(r)),
               task[r].phase \in {"rendering", "imaged"},
               UNCHANGED <<concepts, assets>>
        PROVE  Adds
    <2>1. \A a \in Rendering(r, S, kinds) : FileOf(a).job = Target(r)
      BY <1>3 DEF Rendering, FileOf, ConceptsOf
    <2>2. \A f \in files' \ files : f.job = Target(r)
      BY <1>3, <2>1 DEF Persist
    <2>3. QED
      BY <1>1, <1>3, <2>2 DEF TaskOK
  <1>4. ASSUME NEW out \in Ideations(r), IdeationCommitted(r, out) PROVE Adds
    BY <1>4 DEF IdeationCommitted, Drafts
  <1>5. ASSUME NEW S \in Picks(ConceptsOf(Target(r))), ImagesRendered(r, S) PROVE Adds
    BY <1>3, <1>5 DEF ImagesRendered, Picks
  <1>6. CASE ReelAssembled(r)
    <2>1. \A c \in {a.concept : a \in {a \in task[r].pending : a.concept.script}} :
            c \in ConceptsOf(Target(r))
      BY <1>1 DEF TaskOK
    <2>2. QED
      BY <1>3, <1>6, <2>1 DEF ReelAssembled
  <1>7. CASE RenderCommitted(r)
    BY <1>7 DEF RenderCommitted
  <1>8. CASE IdeationStarted(r) \/ IdeationFailed(r) \/ RenderStarted(r) \/ RenderFailed(r)
    BY <1>2, <1>8 DEF IdeationStarted, IdeationFailed, RenderStarted, RenderFailed
  <1>9. CASE TimedOut(r) \/ Acked(r) \/ Abandoned(r) \/ ShutDown(r) \/ Crashed(r)
    BY <1>2, <1>9 DEF TimedOut, Acked, Abandoned, ShutDown, Crashed
  <1>10. QED
    BY <1>4, <1>5, <1>6, <1>7, <1>8, <1>9 DEF WorkerStep, Stopped

\* What a run leaves in the status of its job: a status that its concepts
\* back, and running only while the run itself is open.
LEMMA WorkerStatus ==
  ASSUME IInv, TypeInv', NEW r \in Requests, WorkerStep(r) \/ Stopped(r), WorkerFrame(r),
         NEW j \in Requests, j = Target(r)
  PROVE  /\ job'[j].status \in {"awaiting_render", "succeeded", "partially_failed"}
              => job'[j].status = job[j].status \/ ConceptsOf(j)' # {}
         /\ \/ job'[j].status # "running"
            \/ /\ task'[r].phase \in Running \cup {"queued", "abandoned"}
               /\ task'[r].attempt > 0
            \/ job'[j].status = job[j].status /\ task[r].phase = "acking"
  <1> DEFINE Backed == job'[j].status \in {"awaiting_render", "succeeded", "partially_failed"}
                         => job'[j].status = job[j].status \/ ConceptsOf(j)' # {}
             Owned == \/ job'[j].status # "running"
                      \/ /\ task'[r].phase \in Running \cup {"queued", "abandoned"}
                         /\ task'[r].attempt > 0
                      \/ job'[j].status = job[j].status /\ task[r].phase = "acking"
  <1> SUFFICES Backed /\ Owned
    OBVIOUS
  <1>1. /\ TypeOK /\ TypeInv /\ TaskOK(r)
        /\ ConceptsOf(j) \subseteq ConceptsOf(j)'
        /\ task'[r].phase \notin {"none", "queued"} => task'[r].attempt > 0
    BY IInvTypeInv, WorkerKeeps DEF IInv, TypeInv
  <1>2. ASSUME task[r].phase \in {"rendering", "imaged", "assembled"}
        PROVE  ConceptsOf(j)' # {}
    BY <1>1, <1>2 DEF TaskOK
  <1>3. ASSUME UNCHANGED job, task'[r].phase \in Running PROVE Backed /\ Owned
    BY <1>1, <1>3 DEF Running
  <1>4. CASE IdeationStarted(r)
    <2>1. Deliver(r, "ideating") /\ SetStatus(j, "running")
      BY <1>4 DEF IdeationStarted
    <2>2. task'[r].phase = "ideating" /\ job'[j].status = "running"
      BY <1>1, <2>1, DeliverEffect, SetStatusEffect DEF Running, Statuses
    <2>3. QED
      BY <1>1, <2>2 DEF Running
  <1>5. ASSUME NEW out \in Ideations(r), IdeationCommitted(r, out) PROVE Backed /\ Owned
    <2>1. CASE IsReel(j)
      <3>1. SetStatus(j, "awaiting_render") /\ concepts' = concepts \cup Drafts(r, out)
        BY <1>5, <2>1 DEF IdeationCommitted
      <3>2. task[r].attempt > 0
        BY <1>1, <1>5 DEF IdeationCommitted, TypeInv
      <3>3. ConceptsOf(j)' # {}
        BY <1>1, <3>1, <3>2, DraftRows DEF ConceptsOf
      <3>4. job'[j].status = "awaiting_render"
        BY <1>1, <3>1, SetStatusEffect DEF Statuses
      <3>5. QED
        BY <3>3, <3>4
    <2>2. CASE ~IsReel(j)
      <3>1. UNCHANGED job /\ Goto(r, "rendering")
        BY <1>5, <2>2 DEF IdeationCommitted
      <3>2. QED
        BY <1>1, <1>3, <3>1, GotoEffect DEF Running, Phases
    <2>3. QED
      BY <2>1, <2>2
  <1>6. CASE IdeationFailed(r)
    <2>1. job'[j].status = "failed"
      BY <1>1, <1>6, SetStatusEffect DEF IdeationFailed, Statuses
    <2>2. QED
      BY <2>1
  <1>7. CASE RenderStarted(r)
    <2>1. Deliver(r, "rendering") /\ SetStatus(j, "running")
      BY <1>7 DEF RenderStarted
    <2>2. task'[r].phase = "rendering" /\ job'[j].status = "running"
      BY <1>1, <2>1, DeliverEffect, SetStatusEffect DEF Running, Statuses
    <2>3. QED
      BY <1>1, <2>2 DEF Running
  <1>8. ASSUME NEW S \in Picks(ConceptsOf(Target(r))), ImagesRendered(r, S) PROVE Backed /\ Owned
    <2>1. task'[r].phase = "imaged" /\ UNCHANGED job
      BY <1>1, <1>8 DEF ImagesRendered, Persist, TypeOK, TaskRows
    <2>2. QED
      BY <1>3, <2>1 DEF Running
  <1>9. CASE ReelAssembled(r)
    <2>1. task'[r].phase = "assembled" /\ UNCHANGED job
      BY <1>1, <1>9 DEF ReelAssembled, Persist, TypeOK, TaskRows
    <2>2. QED
      BY <1>3, <2>1 DEF Running
  <1>10. CASE RenderCommitted(r)
    <2>1. job'[j].status = "succeeded" /\ task[r].phase \in {"imaged", "assembled"}
      BY <1>1, <1>10, SetStatusEffect DEF RenderCommitted, Statuses
    <2>2. QED
      BY <1>2, <2>1
  <1>11. CASE RenderFailed(r)
    <2>1. job'[j].status = "partially_failed"
      BY <1>1, <1>11, SetStatusEffect DEF RenderFailed, Statuses
    <2>2. QED
      BY <1>2, <1>11, <2>1 DEF RenderFailed
  <1>12. CASE TimedOut(r) \/ ShutDown(r)
    <2>1. SetStatus(j, CancelledStatus(r))
      BY <1>12 DEF TimedOut, ShutDown
    <2>2. job'[j].status = CancelledStatus(r)
      BY <1>1, <2>1, SetStatusEffect, CancelledStatusType
    <2>3. QED
      BY <1>1, <1>2, <2>2 DEF CancelledStatus, TaskOK
  <1>13. CASE Acked(r)
    BY <1>13 DEF Acked
  <1>14. CASE Abandoned(r)
    <2>1. task'[r].phase = "abandoned" /\ UNCHANGED job
      BY <1>1, <1>14, GotoEffect DEF Abandoned, Phases
    <2>2. QED
      BY <1>1, <2>1
  <1>15. CASE Crashed(r)
    <2>1. task'[r].phase = "queued" /\ task'[r].attempt = task[r].attempt /\ UNCHANGED job
      BY <1>1, <1>15, LeaveEffect DEF Crashed, Phases
    <2>2. task[r].attempt > 0
      BY <1>1, <1>15 DEF Crashed, TypeInv, Running
    <2>3. QED
      BY <2>1, <2>2
  <1>16. QED
    BY <1>4, <1>5, <1>6, <1>7, <1>8, <1>9, <1>10, <1>11, <1>12, <1>13, <1>14, <1>15
       DEF WorkerStep, Stopped

LEMMA WorkerIInv ==
  ASSUME IInv, NEW r \in Requests, WorkerStep(r) \/ Stopped(r)
  PROVE  IInv'
  <1>1. /\ TypeInv' /\ WorkerFrame(r)
        /\ TypeOK /\ NothingDangles /\ TaskOK(r)
        /\ Target(r) \in Requests
        /\ api' = api
    BY IInvTypeInv, WorkerTypeInv, WorkerFrameHolds
       DEF IInv, WorkerFrame, Target, TypeOK, ApiRows
  <1>2. \A q \in Requests : RequestOK(q)' /\ TaskOK(q)'
    BY <1>1, WorkerKeeps, WorkerTaskOK
  <1>3. NothingDangles'
    <2>1. \A c \in concepts' : c.job \in Requests /\ job[c.job].status # "none"
      BY <1>1, WorkerAdds DEF NothingDangles, TaskOK, TypeOK, ConceptRows, WorkerFrame
    <2>2. \A f \in files' : f.job \in Requests /\ job[f.job].status # "none"
      BY <1>1, WorkerAdds DEF NothingDangles, TaskOK, TypeOK, FileKeys, WorkerFrame
    <2>3. \A j \in Requests : job[j].status # "none" => job'[j].status # "none"
      BY <1>1, WorkerKeeps
    <2>4. QED
      BY <2>1, <2>2, <2>3 DEF NothingDangles
  <1>4. StatusBackedByConcepts'
    <2> SUFFICES ASSUME NEW j \in Requests,
                        job'[j].status \in {"awaiting_render", "succeeded", "partially_failed"}
                 PROVE  ConceptsOf(j)' # {}
      BY DEF StatusBackedByConcepts
    <2>1. job'[j].status = job[j].status \/ ConceptsOf(j)' # {}
      BY <1>1, WorkerStatus DEF WorkerFrame
    <2>2. job'[j].status = job[j].status => ConceptsOf(j) # {}
      BY DEF IInv, StatusBackedByConcepts
    <2>3. ConceptsOf(j) \subseteq ConceptsOf(j)'
      BY <1>1, WorkerKeeps
    <2>4. QED
      BY <2>1, <2>2, <2>3
  <1>5. RunningIsOwned'
    <2> SUFFICES ASSUME NEW j \in Requests, job'[j].status = "running"
                 PROVE  OpenRuns(j)' # {}
      BY DEF RunningIsOwned
    <2>1. ASSUME job[j].status = "running", r \notin OpenRuns(j)
          PROVE  OpenRuns(j)' # {}
      <3>1. PICK q \in OpenRuns(j) : TRUE
        BY <2>1 DEF IInv, RunningIsOwned
      <3>2. q \in Requests \ {r} /\ task'[q] = task[q]
        BY <1>1, <2>1, <3>1 DEF OpenRuns, WorkerFrame
      <3>3. q \in OpenRuns(j)'
        BY <1>1, <3>1, <3>2 DEF OpenRuns, Target
      <3>4. QED
        BY <3>3
    <2>2. CASE j = Target(r)
      <3>1. \/ /\ task'[r].phase \in Running \cup {"queued", "abandoned"}
               /\ task'[r].attempt > 0
            \/ job'[j].status = job[j].status /\ task[r].phase = "acking"
        BY <1>1, <2>2, WorkerStatus
      <3>2. CASE task'[r].phase \in Running \cup {"queued", "abandoned"} /\ task'[r].attempt > 0
        BY <1>1, <2>2, <3>2 DEF OpenRuns, Target
      <3>3. CASE job'[j].status = job[j].status /\ task[r].phase = "acking"
        BY <2>1, <3>3 DEF OpenRuns, Running
      <3>4. QED
        BY <3>1, <3>2, <3>3
    <2>3. CASE j # Target(r)
      BY <1>1, <2>1, <2>3 DEF OpenRuns, WorkerFrame
    <2>4. QED
      BY <2>2, <2>3
  <1>6. ReelRenderedOnRequest'
    <2> SUFFICES ASSUME NEW f \in files', IsReel(f.job)'
                 PROVE  \E q \in Requests : api[q].op = "render" /\ api[q].job = f.job
      BY <1>1 DEF ReelRenderedOnRequest, Target
    <2>1. f.job \in Requests
      BY <1>1 DEF TypeInv, TypeOK, FileKeys
    <2>2. IsReel(f.job)
      BY <2>1, <1>1, WorkerKeeps
    <2>3. CASE f \in files
      BY <2>2, <2>3 DEF IInv, ReelRenderedOnRequest, Target
    <2>4. CASE f \notin files
      BY <2>2, <2>4, WorkerAdds DEF Target
    <2>5. QED
      BY <2>3, <2>4
  <1>7. AssetsAreServable'
    <2>1. \A a \in assets' : a.concept \in concepts /\ ~a.concept.rejected /\ FileOf(a) \in files
      BY <1>1, WorkerAdds DEF IInv, AssetsAreServable, TaskOK, ConceptsOf
    <2>2. QED
      BY <1>1, <2>1 DEF AssetsAreServable, WorkerFrame, FileOf
  <1>8. QED
    BY <1>1, <1>2, <1>3, <1>4, <1>5, <1>6, <1>7 DEF IInv, TypeInv

\* What every API step of request r leaves alone, and what it can change.
ApiFrame(r) ==
  /\ UNCHANGED <<concepts, assets, files>>
  /\ \A q \in Requests \ {r} : api'[q] = api[q] /\ task'[q] = task[q] /\ job'[q] = job[q]
  /\ job[r].status # "none" => job'[r] = job[r]
  /\ job'[r].status \in {job[r].status, "queued"}
  /\ task[r].phase = "none" /\ task'[r].phase \in {"none", "queued"}
  /\ task'[r].pending = task[r].pending
  /\ task'[r].attempt = task[r].attempt
  /\ api[r].op = "render" => api'[r].op = "render" /\ api'[r].job = api[r].job

LEMMA ApiFrameHolds ==
  ASSUME IInv, NEW r \in Requests, ApiStep(r)
  PROVE  ApiFrame(r)
  <1>1. TypeOK /\ RequestOK(r)
    BY DEF IInv
  <1>2. ASSUME api[r].pc \in {"idle", "checked"}, api' = [api EXCEPT ![r] = api'[r]],
               UNCHANGED <<job, task, concepts, assets, files>>
        PROVE  ApiFrame(r)
    BY <1>1, <1>2 DEF ApiFrame, RequestOK, TypeOK
  <1>3. ASSUME NEW b \in Briefs, GenerateAnswered(r, b) PROVE ApiFrame(r)
    BY <1>1, <1>2, <1>3 DEF GenerateAnswered, Generates, TypeOK
  <1>4. ASSUME NEW b \in Briefs, NEW force \in BOOLEAN, GenerateChecked(r, b, force)
        PROVE  ApiFrame(r)
    BY <1>1, <1>2, <1>4 DEF GenerateChecked, Generates, TypeOK
  <1>5. CASE GenerateCommitted(r)
    <2>1. job' = [job EXCEPT ![r] = [brief |-> api[r].brief, status |-> "queued",
                                     at |-> clock + 1]]
      BY <1>5 DEF GenerateCommitted
    <2>2. job'[r].status = "queued" /\ \A q \in Requests \ {r} : job'[q] = job[q]
      BY <1>1, <2>1 DEF TypeOK
    <2>3. \A q \in Requests \ {r} : api'[q] = api[q]
      BY <1>1, <1>5 DEF GenerateCommitted, TypeOK
    <2>4. job[r].status = "none" /\ api[r].op # "render" /\ task[r].phase = "none"
      BY <1>1, <1>5 DEF GenerateCommitted, RequestOK
    <2>5. QED
      BY <1>5, <2>2, <2>3, <2>4 DEF GenerateCommitted, ApiFrame
  <1>6. ASSUME NEW j \in Requests, RenderRequested(r, j) PROVE ApiFrame(r)
    BY <1>1, <1>2, <1>6 DEF RenderRequested, TypeOK
  <1>7. CASE Enqueued(r)
    <2>1. Goto(r, "queued") /\ task[r].phase = "none"
      BY <1>1, <1>7 DEF Enqueued, Goto, RequestOK
    <2>2. api'[r].op = api[r].op /\ api'[r].job = api[r].job
      BY <1>1, <1>7 DEF Enqueued, TypeOK, ApiRows
    <2>3. QED
      BY <1>1, <1>7, <2>1, <2>2, GotoEffect DEF Enqueued, ApiFrame, TypeOK, Phases
  <1>8. CASE EnqueueFailed(r)
    <2>1. api'[r].op = api[r].op /\ api'[r].job = api[r].job
      BY <1>1, <1>8 DEF EnqueueFailed, TypeOK, ApiRows
    <2>2. QED
      BY <1>1, <1>8, <2>1 DEF EnqueueFailed, ApiFrame, RequestOK, TypeOK
  <1>9. QED
    BY <1>3, <1>4, <1>5, <1>6, <1>7, <1>8 DEF ApiStep

LEMMA ApiRequestOK ==
  ASSUME IInv, NEW r \in Requests, ApiStep(r), ApiFrame(r)
  PROVE  /\ RequestOK(r)'
         /\ task'[r].phase # "none" => job'[api'[r].job].status # "none"
  <1> DEFINE Goal == /\ RequestOK(r)'
                     /\ task'[r].phase # "none" => job'[api'[r].job].status # "none"
  <1> SUFFICES Goal
    OBVIOUS
  <1>1. TypeOK /\ RequestOK(r) /\ concepts' = concepts
    BY DEF IInv, ApiFrame
  <1>2. ASSUME NEW b \in Briefs, GenerateAnswered(r, b) PROVE Goal
    <2>1. PICK j \in Requests : Generates(r, "done", b, FALSE, j)
      BY <1>2 DEF GenerateAnswered, WithBrief, Jobs
    <2>2. api'[r].pc = "done" /\ api'[r].op = "generate"
      BY <1>1, <2>1 DEF Generates, TypeOK
    <2>3. QED
      BY <1>1, <1>2, <2>2 DEF RequestOK, GenerateAnswered
  <1>3. ASSUME NEW b \in Briefs, NEW force \in BOOLEAN, GenerateChecked(r, b, force)
        PROVE  Goal
    <2>1. api'[r].pc = "checked" /\ api'[r].op = "generate" /\ api'[r].job = r
      BY <1>1, <1>3 DEF GenerateChecked, Generates, TypeOK
    <2>2. QED
      BY <1>1, <1>3, <2>1 DEF RequestOK, GenerateChecked
  <1>4. CASE GenerateCommitted(r)
    <2>1. /\ api'[r].pc = "committed" /\ api'[r].job = api[r].job
          /\ api'[r].op = api[r].op /\ task' = task
      BY <1>1, <1>4 DEF GenerateCommitted, TypeOK, ApiRows
    <2>2. job'[r].status = "queued"
      BY <1>1, <1>4 DEF GenerateCommitted, TypeOK
    <2>3. QED
      BY <1>1, <1>4, <2>1, <2>2 DEF RequestOK, GenerateCommitted
  <1>5. ASSUME NEW j \in Requests, RenderRequested(r, j) PROVE Goal
    <2>1. api'[r].pc = "committed" /\ api'[r].op = "render" /\ api'[r].job = j
      BY <1>1, <1>5 DEF RenderRequested, TypeOK
    <2>2. ConceptsOf(j) # {} /\ job[j].status # "none"
      BY <1>5 DEF RenderRequested, IInv, StatusBackedByConcepts
    <2>3. job' = job /\ task' = task
      BY <1>5 DEF RenderRequested
    <2>4. QED
      BY <1>1, <1>5, <2>1, <2>2, <2>3 DEF RequestOK, RenderRequested, ConceptsOf
  <1>6. CASE Enqueued(r) \/ EnqueueFailed(r)
    <2>1. /\ api'[r].pc = "done" /\ api'[r].job = api[r].job
          /\ api'[r].op = api[r].op /\ job' = job
      BY <1>1, <1>6 DEF Enqueued, EnqueueFailed, TypeOK, ApiRows
    <2>2. QED
      BY <1>1, <1>6, <2>1 DEF RequestOK, Enqueued, EnqueueFailed, ConceptsOf
  <1>7. QED
    BY <1>2, <1>3, <1>4, <1>5, <1>6 DEF ApiStep

LEMMA ApiIInv ==
  ASSUME IInv, NEW r \in Requests, ApiStep(r)
  PROVE  IInv'
  <1>1. /\ TypeInv' /\ TypeOK /\ ApiFrame(r) /\ NothingDangles
        /\ \A q \in Requests : RequestOK(q) /\ TaskOK(q) /\ api[q].job \in Requests
    BY IInvTypeInv, ApiTypeInv, ApiFrameHolds DEF IInv, TypeOK, ApiRows
  <1>2. /\ \A j \in Requests : job[j].status # "none" => job'[j] = job[j]
        /\ \A j \in Requests : job'[j].status # "queued" => job'[j].status = job[j].status
        /\ concepts' = concepts /\ files' = files /\ assets' = assets
    BY <1>1 DEF ApiFrame
  <1>3. ASSUME NEW q \in Requests PROVE RequestOK(q)'
    <2>1. CASE q = r
      BY <1>1, <2>1, ApiRequestOK
    <2>2. CASE q # r
      <3>1. api'[q] = api[q] /\ task'[q] = task[q] /\ job'[q] = job[q] /\ RequestOK(q)
        BY <1>1, <2>2 DEF ApiFrame
      <3>2. QED
        BY <1>1, <1>2, <3>1 DEF RequestOK, ConceptsOf
    <2>3. QED
      BY <2>1, <2>2
  <1>4. ASSUME NEW q \in Requests PROVE TaskOK(q)'
    <2>1. CASE q = r
      <3>1. task'[r].pending = {} /\ task'[r].phase \in {"none", "queued"}
        BY <1>1 DEF ApiFrame, TaskOK
      <3>2. task'[r].phase # "none" => job'[api'[r].job].status # "none"
        BY <1>1, ApiRequestOK
      <3>3. QED
        BY <2>1, <3>1, <3>2 DEF TaskOK, Target
    <2>2. CASE q # r
      <3>1. api'[q] = api[q] /\ task'[q] = task[q] /\ TaskOK(q)
        BY <1>1, <2>2 DEF ApiFrame
      <3>2. task[q].phase # "none" => job'[api[q].job] = job[api[q].job]
        BY <1>1, <1>2, <3>1 DEF TaskOK, Target
      <3>3. QED
        BY <1>1, <1>2, <3>1, <3>2 DEF TaskOK, Target, ConceptsOf, IsReel, FileOf
    <2>3. QED
      BY <2>1, <2>2
  <1>5. NothingDangles'
    BY <1>1, <1>2 DEF NothingDangles, TypeOK, ConceptRows, FileKeys
  <1>6. StatusBackedByConcepts'
    BY <1>2 DEF IInv, StatusBackedByConcepts, ConceptsOf
  <1>7. RunningIsOwned'
    <2> SUFFICES ASSUME NEW j \in Requests, job'[j].status = "running"
                 PROVE  OpenRuns(j)' # {}
      BY DEF RunningIsOwned
    <2>1. job[j].status = "running"
      BY <1>2
    <2>2. PICK q \in OpenRuns(j) : TRUE
      BY <2>1 DEF IInv, RunningIsOwned
    <2>3. q \in Requests \ {r}
      BY <1>1, <2>2 DEF OpenRuns, ApiFrame, Running
    <2>4. q \in OpenRuns(j)'
      BY <1>1, <2>2, <2>3 DEF OpenRuns, ApiFrame, Target
    <2>5. QED
      BY <2>4
  <1>8. ReelRenderedOnRequest'
    <2> SUFFICES ASSUME NEW f \in files, IsReel(f.job)'
                 PROVE  \E q \in Requests : api'[q].op = "render" /\ api'[q].job = f.job
      BY <1>2 DEF ReelRenderedOnRequest, Target
    <2>1. f.job \in Requests /\ job'[f.job] = job[f.job]
      BY <1>1, <1>2 DEF NothingDangles, TypeOK, FileKeys
    <2>2. PICK q \in Requests : api[q].op = "render" /\ api[q].job = f.job
      BY <2>1 DEF IInv, ReelRenderedOnRequest, IsReel, Target
    <2>3. QED
      BY <1>1, <2>2 DEF ApiFrame
  <1>9. AssetsAreServable'
    BY <1>2 DEF IInv, AssetsAreServable, FileOf
  <1>10. QED
    BY <1>1, <1>3, <1>4, <1>5, <1>6, <1>7, <1>8, <1>9 DEF IInv, TypeInv

LEMMA IInvInit == Init => IInv
  <1> SUFFICES ASSUME Init PROVE IInv
    OBVIOUS
  <1>1. TypeOK
    BY TypeInvInit DEF TypeInv
  <1>2. /\ \A r \in Requests : /\ api[r].pc = "idle" /\ api[r].op = "none" /\ api[r].job = r
                               /\ job[r].status = "none"
                               /\ task[r].phase = "none" /\ task[r].pending = {}
        /\ concepts = {} /\ assets = {} /\ files = {}
    BY DEF Init
  <1>3. \A r \in Requests : RequestOK(r) /\ TaskOK(r)
    BY <1>2 DEF RequestOK, TaskOK
  <1>4. NothingDangles /\ StatusBackedByConcepts /\ RunningIsOwned
    BY <1>2 DEF NothingDangles, StatusBackedByConcepts, RunningIsOwned
  <1>5. ReelRenderedOnRequest /\ AssetsAreServable
    BY <1>2 DEF ReelRenderedOnRequest, AssetsAreServable
  <1>6. QED
    BY <1>1, <1>3, <1>4, <1>5 DEF IInv

LEMMA IInvNext == IInv /\ [Next]_vars => IInv'
  <1>1. ASSUME IInv, UNCHANGED vars PROVE IInv'
    BY <1>1 DEF vars, IInv, TypeOK, RequestOK, TaskOK, NothingDangles, StatusBackedByConcepts,
               RunningIsOwned, ReelRenderedOnRequest, AssetsAreServable,
               OpenRuns, ConceptsOf, IsReel, Target, FileOf
  <1>2. QED
    BY <1>1, ApiIInv, WorkerIInv DEF Next

\* What requests, messages and rows owe each other holds after every step, for any
\* number of requests and deliveries (request_generation, render_assets, _run_ideation,
\* _run_asset_rendering).
THEOREM Invariance == Spec => []IInv
  BY IInvInit, IInvNext, PTL DEF Spec

\* A job that a client sees at awaiting_render, succeeded or partially_failed
\* has its concepts, for any number of requests, redeliveries and crashes.
THEOREM ConceptsBackStatus == Spec => []StatusBackedByConcepts
  <1>1. IInv => StatusBackedByConcepts
    BY DEF IInv
  <1>2. QED
    BY <1>1, Invariance, PTL

\* The CancelledError handlers of both phases, arq's redelivery and the last
\* attempt leave no running job without a run that can still report.
THEOREM RunningJobsAreOwned == Spec => []RunningIsOwned
  <1>1. IInv => RunningIsOwned
    BY DEF IInv
  <1>2. QED
    BY <1>1, Invariance, PTL

\* No redelivery or crash makes the worker render a reel unasked.
THEOREM ReelsWaitForRequest == Spec => []ReelRenderedOnRequest
  <1>1. IInv => ReelRenderedOnRequest
    BY DEF IInv
  <1>2. QED
    BY <1>1, Invariance, PTL

\* A committed asset row can be served: its concept exists and was accepted,
\* and its object was stored before the row was committed.
THEOREM CommittedAssetsAreServable == Spec => []AssetsAreServable
  <1>1. IInv => AssetsAreServable
    BY DEF IInv
  <1>2. QED
    BY <1>1, Invariance, PTL

(***************************************************************************)
(* Idempotency.                                                            *)
(***************************************************************************)

\* A checked request without force has seen no job for its brief, so those that exist
\* came after its snapshot.
SnapshotOK(r) ==
  /\ api[r].began <= clock
  /\ (api[r].pc = "checked" /\ ~api[r].force) =>
       \A j \in Jobs : job[j].brief = api[r].brief => job[j].at > api[r].began

IdempotencyInv ==
  /\ \A r \in Requests : SnapshotOK(r)
  /\ DuplicatesOverlap

\* The worker writes the status of an existing job and nothing else of jobs.
LEMMA WorkerKeepsJobs ==
  ASSUME IInv, NEW r \in Requests, WorkerStep(r) \/ Stopped(r)
  PROVE  /\ api' = api /\ clock' = clock
         /\ Jobs' = Jobs
         /\ \A j \in Requests : job'[j].brief = job[j].brief /\ job'[j].at = job[j].at
  <1>1. TypeOK /\ TaskOK(r) /\ Target(r) \in Requests /\ WorkerFrame(r)
    BY IInvTypeInv, WorkerFrameHolds DEF IInv, TypeOK, ApiRows, Target
  <1>2. clock' = clock /\ (job' = job \/ \E s : SetStatus(Target(r), s))
    BY DEF WorkerStep, Stopped, IdeationStarted, IdeationCommitted, IdeationFailed, RenderStarted,
           ImagesRendered, ReelAssembled, RenderCommitted, RenderFailed, TimedOut, Acked, Abandoned,
           ShutDown, Crashed
  <1>3. \A j \in Requests : job'[j].brief = job[j].brief /\ job'[j].at = job[j].at
    BY <1>1, <1>2 DEF SetStatus, TypeOK, JobRows
  <1>4. job[Target(r)].status # "none"
    BY <1>1 DEF TaskOK, WorkerFrame
  <1>5. \A j \in Requests : job'[j].status = "none" <=> job[j].status = "none"
    BY <1>1, <1>4 DEF WorkerFrame, Statuses
  <1> QED BY <1>1, <1>2, <1>3, <1>5 DEF Jobs, WorkerFrame

LEMMA WorkerIdempotency ==
  ASSUME IInv, IdempotencyInv, NEW r \in Requests, WorkerStep(r) \/ Stopped(r)
  PROVE  IdempotencyInv'
  <1>1. /\ api' = api /\ clock' = clock /\ Jobs' = Jobs /\ Jobs \subseteq Requests
        /\ \A j \in Requests : job'[j].brief = job[j].brief /\ job'[j].at = job[j].at
    BY WorkerKeepsJobs DEF Jobs
  <1>2. \A q \in Requests : SnapshotOK(q)'
    BY <1>1 DEF IdempotencyInv, SnapshotOK
  <1>3. DuplicatesOverlap'
    BY <1>1 DEF IdempotencyInv, DuplicatesOverlap
  <1> QED BY <1>2, <1>3 DEF IdempotencyInv

LEMMA ApiIdempotency ==
  ASSUME IInv, IdempotencyInv, NEW r \in Requests, ApiStep(r)
  PROVE  IdempotencyInv'
  <1>1. /\ TypeOK /\ RequestOK(r) /\ ApiFrame(r) /\ clock \in Nat /\ Jobs \subseteq Requests
        /\ \A q \in Requests : api[q].began \in Nat /\ job[q].at \in Nat
    BY ApiFrameHolds DEF IInv, TypeOK, ApiRows, JobRows, Jobs
  <1>2. \A q \in Requests \ {r} : api'[q] = api[q] /\ job'[q] = job[q]
    BY <1>1 DEF ApiFrame
  \* All steps but the commit leave jobs and clock alone.
  <1>3. ASSUME job' = job, clock' = clock, SnapshotOK(r)', r \notin Jobs \/ api'[r].force = api[r].force,
               r \notin Jobs \/ api'[r].began = api[r].began
        PROVE  IdempotencyInv'
    <2>1. Jobs' = Jobs
      BY <1>3 DEF Jobs
    <2>2. ASSUME NEW q \in Requests PROVE SnapshotOK(q)'
      BY <1>2, <1>3, <2>1 DEF IdempotencyInv, SnapshotOK
    <2>3. DuplicatesOverlap'
      BY <1>1, <1>2, <1>3, <2>1 DEF IdempotencyInv, DuplicatesOverlap
    <2> QED BY <2>2, <2>3 DEF IdempotencyInv
  <1>4. ASSUME NEW b \in Briefs, GenerateAnswered(r, b) PROVE IdempotencyInv'
    <2>1. PICK j \in Requests : Generates(r, "done", b, FALSE, j)
      BY <1>4 DEF GenerateAnswered, WithBrief, Jobs
    <2>2. api'[r].pc = "done" /\ api'[r].began = clock
      BY <1>1, <2>1 DEF Generates, TypeOK
    <2>3. job' = job /\ clock' = clock /\ r \notin Jobs
      BY <1>1, <1>4 DEF GenerateAnswered, RequestOK, Jobs
    <2> QED BY <1>1, <1>3, <2>2, <2>3 DEF SnapshotOK
  <1>5. ASSUME NEW b \in Briefs, NEW force \in BOOLEAN, GenerateChecked(r, b, force)
        PROVE  IdempotencyInv'
    <2>1. /\ api'[r].pc = "checked" /\ api'[r].began = clock /\ api'[r].brief = b
          /\ api'[r].force = force
      BY <1>1, <1>5 DEF GenerateChecked, Generates, TypeOK
    <2>2. job' = job /\ clock' = clock /\ r \notin Jobs
      BY <1>1, <1>5 DEF GenerateChecked, RequestOK, Jobs
    <2>3. ~force => \A j \in Jobs : job[j].brief # b
      BY <1>5 DEF GenerateChecked, WithBrief
    <2>4. Jobs' = Jobs
      BY <2>2 DEF Jobs
    <2>5. SnapshotOK(r)'
      BY <1>1, <2>1, <2>2, <2>3, <2>4 DEF SnapshotOK
    <2> QED BY <1>3, <2>2, <2>5
  <1>6. CASE GenerateCommitted(r)
    <2>1. /\ job'[r].brief = api[r].brief /\ job'[r].at = clock + 1 /\ job'[r].status = "queued"
          /\ clock' = clock + 1 /\ api[r].pc = "checked"
      BY <1>1, <1>6 DEF GenerateCommitted, TypeOK
    <2>2. /\ api'[r].pc = "committed" /\ api'[r].force = api[r].force
          /\ api'[r].began = api[r].began
      BY <1>1, <1>6 DEF GenerateCommitted, TypeOK, ApiRows
    <2>3. Jobs' = Jobs \cup {r} /\ r \notin Jobs
      BY <1>1, <1>2, <2>1 DEF Jobs, RequestOK
    <2>4. ASSUME NEW q \in Requests PROVE SnapshotOK(q)'
      <3>1. api[q].began <= clock
        BY DEF IdempotencyInv, SnapshotOK
      <3>2. CASE q = r
        BY <1>1, <2>1, <2>2, <3>1, <3>2 DEF SnapshotOK
      <3>3. CASE q # r
        BY <1>1, <1>2, <2>1, <2>3, <3>1, <3>3 DEF IdempotencyInv, SnapshotOK
      <3> QED BY <3>2, <3>3
    <2>5. ASSUME NEW j \in Jobs', NEW k \in Jobs', j # k, job'[j].brief = job'[k].brief,
                 ~api'[k].force
          PROVE  job'[j].at > api'[k].began
      <3>1. api[k].began <= clock /\ api'[k].began = api[k].began /\ api'[k].force = api[k].force
        BY <1>1, <1>2, <2>2, <2>3 DEF IdempotencyInv, SnapshotOK
      <3>2. CASE j = r
        BY <1>1, <2>1, <2>3, <3>1, <3>2
      <3>3. CASE j # r /\ k = r
        BY <1>1, <1>2, <2>1, <2>3, <2>5, <3>1, <3>3 DEF IdempotencyInv, SnapshotOK
      <3>4. CASE j # r /\ k # r
        BY <1>1, <1>2, <2>3, <2>5, <3>1, <3>4 DEF IdempotencyInv, DuplicatesOverlap
      <3> QED BY <3>2, <3>3, <3>4
    <2> QED BY <2>4, <2>5 DEF IdempotencyInv, DuplicatesOverlap
  <1>7. ASSUME NEW j \in Requests, RenderRequested(r, j) PROVE IdempotencyInv'
    <2>1. api'[r].pc = "committed" /\ api'[r].began = clock
      BY <1>1, <1>7 DEF RenderRequested, TypeOK
    <2>2. job' = job /\ clock' = clock /\ r \notin Jobs
      BY <1>1, <1>7 DEF RenderRequested, RequestOK, Jobs
    <2> QED BY <1>1, <1>3, <2>1, <2>2 DEF SnapshotOK
  <1>8. CASE Enqueued(r) \/ EnqueueFailed(r)
    <2>1. /\ api'[r].pc = "done" /\ api'[r].began = api[r].began /\ api'[r].force = api[r].force
          /\ job' = job /\ clock' = clock
      BY <1>1, <1>8 DEF Enqueued, EnqueueFailed, TypeOK, ApiRows
    <2>2. SnapshotOK(r)'
      BY <2>1 DEF IdempotencyInv, SnapshotOK
    <2> QED BY <1>3, <2>1, <2>2
  <1> QED BY <1>4, <1>5, <1>6, <1>7, <1>8 DEF ApiStep

\* Two jobs for one brief without force come from overlapping requests, for any number
\* of requests and any caps (_get_existing_job_for_key reads before the insert).
THEOREM OnlyOverlapsDuplicateJobs == Spec => []DuplicatesOverlap
  <1>1. Init => IdempotencyInv
    <2> SUFFICES ASSUME Init PROVE IdempotencyInv
      OBVIOUS
    <2>1. \A r \in Requests : api[r].began = 0 /\ api[r].pc = "idle" /\ job[r].status = "none"
      BY DEF Init
    <2> QED BY <2>1 DEF Init, IdempotencyInv, SnapshotOK, DuplicatesOverlap, Jobs
  <1>2. IInv /\ IdempotencyInv /\ [Next]_vars => IdempotencyInv'
    <2>1. ASSUME IdempotencyInv, UNCHANGED vars PROVE IdempotencyInv'
      BY <2>1 DEF vars, IdempotencyInv, SnapshotOK, DuplicatesOverlap, Jobs
    <2> QED BY <2>1, ApiIdempotency, WorkerIdempotency DEF Next
  <1>3. IdempotencyInv => DuplicatesOverlap
    BY DEF IdempotencyInv
  <1> QED BY <1>1, <1>2, <1>3, Invariance, PTL DEF Spec

(***************************************************************************)
(* Whole renderings.                                                       *)
(***************************************************************************)

\* The ideation of job j commits nothing more under its n-th delivery or an earlier one.
Settled(j, n) ==
  task[j].attempt > n \/ (task[j].attempt = n /\ task[j].phase # "ideating")

\* The job that a message works on: the ideation of a job has no other message, and a
\* message that renders only is of a reel.
Origins(r) ==
  /\ (task[r].phase # "none" /\ api[r].op # "render") => Target(r) = r
  /\ task[r].phase = "ideating" => api[r].op # "render"
  /\ api[r].op = "render" => IsReel(Target(r))
  /\ job[r].status = "awaiting_render" => IsReel(r)
  /\ (~IsReel(r) /\ task[r].phase = "ideating") => job[r].status # "succeeded"

\* What a rendering of job j may have read: concepts that no delivery adds to any more,
\* all of them unless the job is a reel.
ReadUpTo(j, n) ==
  /\ ConceptsUpTo(j, n) # {}
  /\ Settled(j, n)
  /\ IsReel(j) \/ ConceptsUpTo(j, n) = ConceptsOf(j)

\* The kinds that a run at this phase holds for a concept it has rendered.
KindsAt(phase, c) == IF phase = "assembled" /\ c.script THEN AssetKinds ELSE {"image"}

RowOf(r, t, c, k) == [concept |-> c, kind |-> k, by |-> r, attempt |-> t]

HoldsFor(r, C) ==
  \A c \in C : \A k \in KindsAt(task[r].phase, c) :
    RowOf(r, task[r].attempt, c, k) \in task[r].pending

\* Run r holds rows of its own, of every kind its phase asks for, and of one accepted
\* concept for each index that it read.
PendingOK(r) ==
  /\ \A a \in task[r].pending : a.by = r /\ a.attempt = task[r].attempt
  /\ HoldsFor(r, {a.concept : a \in task[r].pending})
  /\ task[r].phase = "assembled" => IsReel(Target(r))
  /\ task[r].phase \in {"imaged", "assembled"} =>
       \E n \in 1 .. MaxTries :
         /\ ReadUpTo(Target(r), n)
         /\ \E S \in Picks(ConceptsUpTo(Target(r), n)) : HoldsFor(r, {c \in S : ~c.rejected})

Rendered(C) ==
  \E S \in Picks(C), r \in Requests, t \in 1 .. MaxTries : RenderedWhole(S, r, t)

Finished(j) ==
  job[j].status = "succeeded" =>
    \E n \in 1 .. MaxTries : ReadUpTo(j, n) /\ Rendered(ConceptsUpTo(j, n))

RenderingInv ==
  /\ \A r \in Requests : Origins(r) /\ PendingOK(r) /\ Finished(r)
  /\ \A c \in concepts : Settled(c.job, c.attempt)
  /\ AssetsCommitTogether

\* What there is to read is all that some number of deliveries committed.
LEMMA ReadNow ==
  ASSUME TypeOK, RenderingInv, NEW j \in Requests, ConceptsOf(j) # {}
  PROVE  \E n \in 1 .. MaxTries : ReadUpTo(j, n) /\ ConceptsUpTo(j, n) = ConceptsOf(j)
  <1>1. \A c \in ConceptsOf(j) : c.attempt \in 1 .. MaxTries /\ Settled(j, c.attempt)
    BY DEF TypeOK, ConceptsOf, ConceptRows, RenderingInv
  <1>2. task[j].attempt \in 0 .. MaxTries
    BY DEF TypeOK, TaskRows
  <1>3. PICK d \in ConceptsOf(j) : TRUE
    OBVIOUS
  <1> DEFINE n == IF task[j].phase = "ideating" THEN task[j].attempt - 1 ELSE task[j].attempt
  <1>4. n \in 1 .. MaxTries /\ Settled(j, n)
    BY <1>1, <1>2, <1>3, ConstantsOK DEF Settled
  <1>5. \A c \in ConceptsOf(j) : c.attempt <= n
    BY <1>1, <1>2 DEF Settled
  <1> HIDE DEF n
  <1>6. ConceptsUpTo(j, n) = ConceptsOf(j)
    BY <1>5 DEF ConceptsUpTo
  <1> QED BY <1>4, <1>6 DEF ReadUpTo

\* A delivery that has settled stays settled: attempts only grow, and an ideation is a
\* delivery of its own.
LEMMA SettledStays ==
  ASSUME TypeOK, TypeOK', NEW r \in Requests, WorkerStep(r) \/ Stopped(r),
         NEW j \in Requests, NEW n \in 1 .. MaxTries, Settled(j, n)
  PROVE  Settled(j, n)'
  <1> DEFINE Grows == \/ task'[r].attempt = task[r].attempt + 1
                      \/ task'[r].attempt = task[r].attempt /\ task'[r].phase # "ideating"
  <1>1. task[r].attempt \in Nat /\ \A q \in Requests \ {r} : task'[q] = task[q]
    <2>1. task[r].attempt \in Nat
      BY ConstantsOK DEF TypeOK, TaskRows
    <2>2. \A q \in Requests \ {r} : task'[q] = task[q]
      BY DEF WorkerStep, Stopped, IdeationStarted, IdeationCommitted, IdeationFailed,
             RenderStarted, ImagesRendered, ReelAssembled, RenderCommitted, RenderFailed,
             TimedOut, Acked, Abandoned, ShutDown, Crashed, Deliver, Goto, Leave, Persist,
             TypeOK
    <2> QED BY <2>1, <2>2
  <1>2. ASSUME NEW p \in Running, Deliver(r, p) PROVE Grows
    BY <1>2, DeliverEffect
  <1>3. ASSUME NEW p \in Phases \ {"ideating"}, Goto(r, p) \/ Leave(r, p) PROVE Grows
    BY <1>3, GotoEffect, LeaveEffect
  <1>4. ASSUME NEW p \in {"imaged", "assembled"}, NEW rows, Persist(r, rows, p) PROVE Grows
    BY <1>4 DEF Persist, TypeOK, TaskRows
  <1> HIDE DEF Grows
  <1>5. Grows
    <2>1. CASE IdeationStarted(r) \/ RenderStarted(r)
      BY <1>2, <2>1 DEF IdeationStarted, RenderStarted, Running
    <2>2. ASSUME NEW out \in Ideations(r), IdeationCommitted(r, out) PROVE Grows
      BY <1>3, <2>2 DEF IdeationCommitted, Phases, Running
    <2>3. ASSUME NEW S \in Picks(ConceptsOf(Target(r))), ImagesRendered(r, S) PROVE Grows
      BY <1>4, <2>3 DEF ImagesRendered
    <2>4. CASE ReelAssembled(r)
      BY <1>4, <2>4 DEF ReelAssembled
    <2>5. CASE IdeationFailed(r) \/ RenderCommitted(r) \/ RenderFailed(r) \/ TimedOut(r)
      BY <1>3, <2>5 DEF IdeationFailed, RenderCommitted, RenderFailed, TimedOut, Phases
    <2>6. CASE Acked(r) \/ Abandoned(r) \/ ShutDown(r) \/ Crashed(r)
      BY <1>3, <2>6 DEF Acked, Abandoned, ShutDown, Crashed, Phases
    <2> QED BY <2>1, <2>2, <2>3, <2>4, <2>5, <2>6 DEF WorkerStep, Stopped
  <1> QED BY <1>1, <1>5 DEF Settled, Grows

\* What a run of the worker does to rows and concepts: it adds the concepts of an
\* ideation, or commits the rows it holds, or neither.
LEMMA WorkerWrites ==
  ASSUME IInv, NEW r \in Requests, WorkerStep(r) \/ Stopped(r)
  PROVE  /\ \/ concepts' = concepts
            \/ \E out \in Ideations(r) : IdeationCommitted(r, out)
         /\ \/ /\ assets' = assets
               /\ job' = job \/ \E s \in Statuses \ {"succeeded"} : SetStatus(Target(r), s)
            \/ RenderCommitted(r)
  BY CancelledStatusType
     DEF WorkerStep, Stopped, IdeationStarted, IdeationCommitted, IdeationFailed, RenderStarted,
         ImagesRendered, ReelAssembled, RenderCommitted, RenderFailed, TimedOut, Acked, Abandoned,
         ShutDown, Crashed, CancelledStatus, Statuses

\* The concepts that a step adds are of the delivery of its own job's ideation.
LEMMA ConceptsAdded ==
  ASSUME IInv, RenderingInv, NEW r \in Requests, WorkerStep(r) \/ Stopped(r)
  PROVE  /\ concepts \subseteq concepts'
         /\ \A c \in concepts' \ concepts :
              /\ c.job = r /\ c.attempt = task[r].attempt
              /\ task[r].phase = "ideating" /\ task'[r].phase # "ideating"
              /\ task'[r].attempt = task[r].attempt
  <1>1. CASE concepts' = concepts
    BY <1>1
  <1>2. ASSUME NEW out \in Ideations(r), IdeationCommitted(r, out)
        PROVE  /\ concepts \subseteq concepts'
               /\ \A c \in concepts' \ concepts :
                    /\ c.job = r /\ c.attempt = task[r].attempt
                    /\ task[r].phase = "ideating" /\ task'[r].phase # "ideating"
                    /\ task'[r].attempt = task[r].attempt
    <2>1. task[r].phase = "ideating" /\ concepts' = concepts \cup Drafts(r, out)
      BY <1>2 DEF IdeationCommitted
    <2>2. TypeOK /\ task[r].attempt > 0 /\ Target(r) = r
      BY <2>1 DEF IInv, TaskOK, RenderingInv, Origins
    <2>3. Goto(r, "acking") \/ Goto(r, "rendering")
      BY <1>2 DEF IdeationCommitted
    <2>4. task'[r].phase # "ideating" /\ task'[r].attempt = task[r].attempt
      BY <2>2, <2>3, GotoEffect DEF Phases, Running
    <2> QED BY <2>1, <2>2, <2>4, DraftRows
  <1> QED BY <1>1, <1>2, WorkerWrites

\* What was read of a job stays what it is; of a job that is no reel, as long as its
\* ideation does not run again.
LEMMA ReadStays ==
  ASSUME IInv, TypeOK', RenderingInv, NEW r \in Requests, WorkerStep(r) \/ Stopped(r),
         WorkerFrame(r), NEW j \in Requests, NEW n \in 1 .. MaxTries, ReadUpTo(j, n),
         IsReel(j) \/ task[j].phase # "ideating"
  PROVE  ReadUpTo(j, n)' /\ ConceptsUpTo(j, n)' = ConceptsUpTo(j, n)
  <1>1. TypeOK /\ Settled(j, n)
    BY DEF IInv, ReadUpTo
  <1>2. task[j].attempt \in Nat
    BY <1>1, ConstantsOK DEF TypeOK, TaskRows
  <1>3. \A c \in concepts' \ concepts : c.job = j => c.attempt > n /\ task[j].phase = "ideating"
    BY <1>1, <1>2, ConceptsAdded DEF Settled
  <1>4. concepts \subseteq concepts'
    BY ConceptsAdded
  <1>5. \A c \in concepts' : c.attempt \in 1 .. MaxTries
    BY DEF TypeOK, ConceptRows
  <1>6. ConceptsUpTo(j, n)' = ConceptsUpTo(j, n)
    BY <1>3, <1>4, <1>5 DEF ConceptsUpTo, ConceptsOf
  <1>7. task[j].phase # "ideating" => ConceptsOf(j)' = ConceptsOf(j)
    BY <1>3, <1>4 DEF ConceptsOf
  <1>8. Settled(j, n)'
    BY <1>1, SettledStays
  <1>9. IsReel(j)' <=> IsReel(j)
    BY DEF WorkerFrame, IsReel
  <1> QED BY <1>6, <1>7, <1>8, <1>9 DEF ReadUpTo

\* A run that is rendering a job other than a reel is the job's only run.
LEMMA RenderingSettled ==
  ASSUME IInv, RenderingInv, NEW q \in Requests, task[q].phase \in {"imaged", "assembled"}
  PROVE  IsReel(Target(q)) \/ task[Target(q)].phase # "ideating"
  BY DEF RenderingInv, Origins

\* Committed renderings stay.
LEMMA RenderedStays ==
  ASSUME TypeOK, assets \subseteq assets', NEW j \in Requests, NEW n,
         ConceptsUpTo(j, n)' = ConceptsUpTo(j, n), IsReel(j)' <=> IsReel(j),
         Rendered(ConceptsUpTo(j, n))
  PROVE  Rendered(ConceptsUpTo(j, n))'
  <1>1. PICK S \in Picks(ConceptsUpTo(j, n)), q \in Requests, t \in 1 .. MaxTries :
          RenderedWhole(S, q, t)
    BY DEF Rendered
  <1>2. \A c \in S : c.job = j
    BY DEF Picks, ConceptsUpTo, ConceptsOf
  <1>3. \A c \in S : KindsFor(c)' = KindsFor(c)
    BY <1>2 DEF KindsFor
  <1>4. RenderedWhole(S, q, t)'
    BY <1>1, <1>3 DEF RenderedWhole
  <1>5. S \in Picks(ConceptsUpTo(j, n)')
    BY <1>1
  <1> QED BY <1>4, <1>5 DEF Rendered

\* Where a message comes from is settled when it is enqueued.
LEMMA ApiOrigins ==
  ASSUME IInv, RenderingInv, NEW r \in Requests, ApiStep(r)
  PROVE  \A q \in Requests : Origins(q)'
  <1>1. /\ TypeOK' /\ TypeOK /\ ApiFrame(r) /\ NothingDangles
        /\ \A q \in Requests : TaskOK(q) /\ RequestOK(q) /\ Origins(q) /\ Target(q) \in Requests
    BY ApiFrameHolds, IInvTypeInv, ApiTypeInv
       DEF IInv, TypeInv, TypeOK, ApiRows, Target, RenderingInv
  <1>2. /\ \A j \in Requests : job[j].status # "none" => job'[j] = job[j]
        /\ \A j \in Requests : job'[j].status # "queued" => job'[j].status = job[j].status
        /\ \A q \in Requests \ {r} : api'[q] = api[q] /\ task'[q] = task[q]
        /\ task[r].phase = "none" /\ task'[r].phase \in {"none", "queued"}
    BY <1>1 DEF ApiFrame
  <1>3. ASSUME NEW q \in Requests
        PROVE  /\ job'[q].status = "awaiting_render" => IsReel(q)'
               /\ (~IsReel(q)' /\ task'[q].phase = "ideating") => job'[q].status # "succeeded"
    <2>1. job[q].status \in {"awaiting_render", "succeeded"} => (IsReel(q)' <=> IsReel(q))
      BY <1>2 DEF IsReel
    <2>2. task'[q].phase = "ideating" => task[q].phase = "ideating"
      BY <1>2
    <2> QED BY <1>1, <1>2, <2>1, <2>2 DEF Origins
  <1>4. ASSUME NEW q \in Requests, job[Target(q)].status # "none"
        PROVE  IsReel(Target(q)) <=> job'[Target(q)].brief \in Reels
    BY <1>1, <1>2, <1>4 DEF IsReel
  <1>5. ASSUME NEW q \in Requests, api[q].op = "render" PROVE job[Target(q)].status # "none"
    BY <1>1, <1>5 DEF RequestOK, Target, ConceptsOf, NothingDangles
  <1>6. ASSUME NEW q \in Requests \ {r} PROVE Origins(q)'
    <2>1. api'[q] = api[q] /\ task'[q] = task[q] /\ Target(q)' = Target(q)
      BY <1>2 DEF Target
    <2>2. api[q].op = "render" => job'[Target(q)].brief \in Reels
      BY <1>1, <1>4, <1>5 DEF Origins
    <2> QED BY <1>1, <1>3, <2>1, <2>2 DEF Origins, IsReel, Target
  <1> DEFINE Render == \/ api[r].op = "render" /\ api'[r].job = api[r].job
                       \/ job[api'[r].job].status = "awaiting_render"
             From == /\ api'[r].op = "render" => Render
                     /\ (task'[r].phase # "none" /\ api'[r].op # "render") => api'[r].job = r
  <1>7. From
    <2>1. ASSUME NEW b \in Briefs, GenerateAnswered(r, b) PROVE From
      BY <1>1, <1>2, <2>1 DEF GenerateAnswered, Generates, TypeOK
    <2>2. ASSUME NEW b \in Briefs, NEW force \in BOOLEAN, GenerateChecked(r, b, force) PROVE From
      BY <1>1, <1>2, <2>2 DEF GenerateChecked, Generates, TypeOK
    <2>3. CASE GenerateCommitted(r)
      BY <1>1, <1>2, <2>3 DEF GenerateCommitted, TypeOK, ApiRows
    <2>4. ASSUME NEW j \in Requests, RenderRequested(r, j) PROVE From
      BY <1>1, <1>2, <2>4 DEF RenderRequested, TypeOK
    <2>5. CASE Enqueued(r)
      BY <1>1, <1>2, <2>5 DEF Enqueued, TypeOK, ApiRows, RequestOK
    <2>6. CASE EnqueueFailed(r)
      BY <1>1, <1>2, <2>6 DEF EnqueueFailed, TypeOK, ApiRows
    <2> QED BY <2>1, <2>2, <2>3, <2>4, <2>5, <2>6 DEF ApiStep
  <1>8. api'[r].op = "render" => job'[api'[r].job].brief \in Reels
    <2>1. api'[r].job \in Requests
      BY <1>1 DEF TypeOK, ApiRows
    <2>2. ASSUME job[api'[r].job].status = "awaiting_render" PROVE job'[api'[r].job].brief \in Reels
      BY <1>1, <1>2, <2>1, <2>2 DEF Origins, IsReel
    <2>3. ASSUME api[r].op = "render" PROVE job'[api[r].job].brief \in Reels
      BY <1>1, <1>4, <1>5, <2>3 DEF Origins, Target
    <2> QED BY <1>7, <2>2, <2>3
  <1>9. Origins(r)'
    BY <1>2, <1>3, <1>7, <1>8 DEF Origins, Target, IsReel
  <1> QED BY <1>6, <1>9

\* A handler leaves all of it alone but the request it answers.
LEMMA ApiRendering ==
  ASSUME IInv, RenderingInv, NEW r \in Requests, ApiStep(r)
  PROVE  RenderingInv'
  <1>1. /\ TypeOK' /\ TypeOK /\ ApiFrame(r) /\ NothingDangles /\ AssetsAreServable
        /\ \A q \in Requests : TaskOK(q) /\ RequestOK(q) /\ Target(q) \in Requests
    BY ApiFrameHolds, IInvTypeInv, ApiTypeInv DEF IInv, TypeInv, TypeOK, ApiRows, Target
  <1>2. /\ concepts' = concepts /\ assets' = assets
        /\ \A j \in Requests : job[j].status # "none" => job'[j] = job[j]
        /\ \A j \in Requests : job'[j].status # "queued" => job'[j].status = job[j].status
        /\ \A q \in Requests \ {r} : api'[q] = api[q] /\ task'[q] = task[q]
    BY <1>1 DEF ApiFrame
  <1>3. /\ task'[r].pending = {} /\ task'[r].phase \in {"none", "queued"}
        /\ task[r].phase = "none" /\ task'[r].attempt = task[r].attempt
    BY <1>1 DEF ApiFrame, TaskOK
  <1>4. ASSUME NEW j \in Requests, NEW n, Settled(j, n) PROVE Settled(j, n)'
    BY <1>2, <1>3, <1>4 DEF Settled
  <1>5. ASSUME NEW j \in Requests, job[j].status # "none" PROVE IsReel(j)' <=> IsReel(j)
    BY <1>2, <1>5 DEF IsReel
  <1>6. ASSUME NEW j \in Requests, NEW n, ReadUpTo(j, n)
        PROVE  ReadUpTo(j, n)' /\ ConceptsUpTo(j, n)' = ConceptsUpTo(j, n)
    <2>1. ConceptsUpTo(j, n)' = ConceptsUpTo(j, n) /\ ConceptsOf(j)' = ConceptsOf(j)
      BY <1>2 DEF ConceptsUpTo, ConceptsOf
    <2>2. job[j].status # "none"
      BY <1>1, <1>6 DEF ReadUpTo, ConceptsUpTo, ConceptsOf, NothingDangles
    <2> QED BY <1>4, <1>5, <1>6, <2>1, <2>2 DEF ReadUpTo
  <1>7. ASSUME NEW q \in Requests PROVE PendingOK(q)'
    <2>1. CASE q = r
      BY <1>3, <2>1 DEF PendingOK, HoldsFor
    <2>2. CASE q # r
      <3>1. api'[q] = api[q] /\ task'[q] = task[q] /\ Target(q)' = Target(q) /\ PendingOK(q)
        BY <1>2, <2>2 DEF Target, RenderingInv
      <3>2. task[q].phase # "none" => (IsReel(Target(q))' <=> IsReel(Target(q)))
        <4>1. PICK j \in Requests : j = Target(q)
          BY <1>1
        <4>2. task[q].phase # "none" => (IsReel(j)' <=> IsReel(j))
          BY <1>1, <1>5, <4>1 DEF TaskOK
        <4> QED BY <3>1, <4>1, <4>2 DEF IsReel, Target
      <3>3. /\ \A a \in task'[q].pending : a.by = q /\ a.attempt = task'[q].attempt
            /\ HoldsFor(q, {a.concept : a \in task[q].pending})'
            /\ task'[q].phase = "assembled" => IsReel(Target(q))'
        BY <3>1, <3>2 DEF PendingOK, HoldsFor
      <3>4. ASSUME task[q].phase \in {"imaged", "assembled"}
            PROVE  \E n \in 1 .. MaxTries :
                     /\ ReadUpTo(Target(q), n)'
                     /\ \E S \in Picks(ConceptsUpTo(Target(q), n)') :
                          HoldsFor(q, {c \in S : ~c.rejected})'
        <4>1. PICK j \in Requests : j = Target(q)
          BY <1>1
        <4>2. PICK n \in 1 .. MaxTries :
                /\ ReadUpTo(j, n)
                /\ \E S \in Picks(ConceptsUpTo(j, n)) : HoldsFor(q, {c \in S : ~c.rejected})
          BY <3>1, <3>4, <4>1 DEF PendingOK
        <4>3. ReadUpTo(j, n)' /\ ConceptsUpTo(j, n)' = ConceptsUpTo(j, n)
          BY <1>6, <4>2
        <4>4. PICK S \in Picks(ConceptsUpTo(j, n)) : HoldsFor(q, {c \in S : ~c.rejected})
          BY <4>2
        <4>5. S \in Picks(ConceptsUpTo(j, n)') /\ HoldsFor(q, {c \in S : ~c.rejected})'
          BY <3>1, <4>3, <4>4 DEF HoldsFor
        <4>6. j = Target(q)'
          BY <3>1, <4>1
        <4> QED BY <4>3, <4>5, <4>6 DEF ReadUpTo, ConceptsUpTo, ConceptsOf, Settled, IsReel
      <3> QED BY <3>1, <3>3, <3>4 DEF PendingOK
    <2> QED BY <2>1, <2>2
  <1>8. ASSUME NEW j \in Requests PROVE Finished(j)'
    <2> SUFFICES ASSUME job'[j].status = "succeeded"
                 PROVE  \E n \in 1 .. MaxTries :
                          ReadUpTo(j, n)' /\ Rendered(ConceptsUpTo(j, n))'
      BY DEF Finished
    <2>1. job[j].status = "succeeded"
      BY <1>2
    <2>2. PICK n \in 1 .. MaxTries : ReadUpTo(j, n) /\ Rendered(ConceptsUpTo(j, n))
      BY <2>1 DEF RenderingInv, Finished
    <2>3. ReadUpTo(j, n)' /\ ConceptsUpTo(j, n)' = ConceptsUpTo(j, n)
      BY <1>6, <2>2
    <2>4. IsReel(j)' <=> IsReel(j)
      BY <1>5, <2>1
    <2>5. Rendered(ConceptsUpTo(j, n))'
      BY <1>1, <1>2, <2>2, <2>3, <2>4, RenderedStays
    <2> QED BY <2>3, <2>5
  <1>9. \A q \in Requests : Origins(q)'
    BY ApiOrigins
  <1>10. \A c \in concepts' : Settled(c.job, c.attempt)'
    BY <1>1, <1>2, <1>4 DEF RenderingInv, TypeOK, ConceptRows
  <1>11. AssetsCommitTogether'
    <2>1. \A a \in assets : KindsFor(a.concept)' = KindsFor(a.concept)
      BY <1>1, <1>2, <1>5 DEF AssetsAreServable, NothingDangles, TypeOK, ConceptRows, KindsFor
    <2> QED BY <1>2, <2>1 DEF RenderingInv, AssetsCommitTogether
  <1> QED BY <1>7, <1>8, <1>9, <1>10, <1>11 DEF RenderingInv

\* The rows that a run adds are its own, one of each kind for each concept.
LEMMA RenderingRows ==
  ASSUME NEW r, NEW S, NEW kinds
  PROVE  /\ \A a \in Rendering(r, S, kinds) :
              a.by = r /\ a.attempt = task[r].attempt /\ a.concept \in S
         /\ \A c \in S : \A k \in kinds :
              RowOf(r, task[r].attempt, c, k) \in Rendering(r, S, kinds)
  BY DEF Rendering, RowOf

\* A run holds the rows its phase asks for after each of its steps.
LEMMA RunRendering ==
  ASSUME IInv, RenderingInv, NEW r \in Requests, WorkerStep(r) \/ Stopped(r)
  PROVE  PendingOK(r)'
  <1> DEFINE j == Target(r)
  <1>1. /\ TypeOK /\ TypeOK' /\ WorkerFrame(r) /\ j \in Requests /\ PendingOK(r) /\ TaskOK(r)
        /\ j' = j
    BY IInvTypeInv, WorkerTypeInv, WorkerFrameHolds
       DEF IInv, TypeInv, TypeOK, ApiRows, Target, RenderingInv, WorkerFrame
  <1>2. (IsReel(j)' <=> IsReel(j)) /\ Target(r)' = Target(r)
    BY <1>1 DEF IsReel, WorkerFrame, Target
  <1>3. ASSUME task'[r].pending = {}, task'[r].phase \notin {"imaged", "assembled"}
        PROVE  PendingOK(r)'
    BY <1>3 DEF PendingOK, HoldsFor
  <1>4. ASSUME Deliver(r, "ideating") \/ Deliver(r, "rendering") PROVE PendingOK(r)'
    <2>1. task'[r].pending = {}
      BY <1>1, <1>4, DeliverEffect DEF Deliver, TaskOK, Running
    <2>2. task'[r].phase \notin {"imaged", "assembled"}
      BY <1>1, <1>4, DeliverEffect DEF Running
    <2> QED BY <1>3, <2>1, <2>2
  <1>5. ASSUME NEW p \in {"acking", "queued"}, Leave(r, p) PROVE PendingOK(r)'
    BY <1>1, <1>3, <1>5, LeaveEffect DEF Phases
  <1>6. ASSUME NEW p \in {"acking", "rendering", "done", "abandoned"}, Goto(r, p),
               task[r].phase \notin {"imaged", "assembled"}
        PROVE  PendingOK(r)'
    BY <1>1, <1>3, <1>6, GotoEffect DEF Phases, Running, TaskOK
  <1>7. ASSUME NEW n \in 1 .. MaxTries, ReadUpTo(j, n)', NEW S \in Picks(ConceptsUpTo(j, n)'),
               task'[r].phase \in {"imaged", "assembled"},
               \A a \in task'[r].pending : a.by = r /\ a.attempt = task'[r].attempt,
               HoldsFor(r, {a.concept : a \in task[r].pending})',
               HoldsFor(r, {c \in S : ~c.rejected})',
               task'[r].phase = "assembled" => IsReel(j)'
        PROVE  PendingOK(r)'
    <2>1. \E m \in 1 .. MaxTries :
            /\ ReadUpTo(Target(r), m)'
            /\ \E T \in Picks(ConceptsUpTo(Target(r), m)') : HoldsFor(r, {c \in T : ~c.rejected})'
      BY <1>7
    <2> QED BY <1>2, <1>7, <2>1 DEF PendingOK
  <1> HIDE DEF j
  <1>8. ASSUME NEW S \in Picks(ConceptsOf(Target(r))), ImagesRendered(r, S) PROVE PendingOK(r)'
    <2> DEFINE acc == {c \in S : ~c.rejected}
               rows == Rendering(r, acc, {"image"})
    <2>1. task[r].phase = "rendering" /\ task[r].attempt > 0 /\ Persist(r, rows, "imaged")
      BY <1>1, <1>8 DEF ImagesRendered, TaskOK
    <2>2. rows \in SUBSET AssetRows
      BY <1>1, <2>1, RenderingType DEF TypeOK, AssetKinds, Picks, ConceptsOf
    <2>3. /\ \A a \in rows : a.by = r /\ a.attempt = task[r].attempt /\ a.concept \in acc
          /\ \A c \in acc : RowOf(r, task[r].attempt, c, "image") \in rows
      BY RenderingRows
    <2> HIDE DEF rows
    <2>4. task'[r].pending = rows /\ task'[r].phase = "imaged" /\ task'[r].attempt = task[r].attempt
      <3>1. /\ task'[r].pending = task[r].pending \cup rows /\ task'[r].phase = "imaged"
            /\ task'[r].attempt = task[r].attempt
        BY <1>1, <2>1, <2>2, PersistEffect DEF Phases, Running
      <3>2. task[r].pending = {}
        BY <1>1, <2>1 DEF TaskOK
      <3> QED BY <3>1, <3>2
    <2>5. \A c : KindsAt("imaged", c) = {"image"}
      BY DEF KindsAt
    <2>6. PICK n \in 1 .. MaxTries : ReadUpTo(j, n) /\ ConceptsUpTo(j, n) = ConceptsOf(j)
      BY <1>1, <2>1, ReadNow DEF TaskOK, j
    <2>7. ReadUpTo(j, n)' /\ ConceptsUpTo(j, n)' = ConceptsUpTo(j, n)
      <3>1. IsReel(j) \/ task[j].phase # "ideating"
        BY <2>1 DEF j, RenderingInv, Origins
      <3> QED BY <1>1, <2>6, <3>1, ReadStays
    <2>8. S \in Picks(ConceptsUpTo(j, n)')
      BY <1>8, <2>6, <2>7 DEF j
    <2>9. HoldsFor(r, acc)' /\ HoldsFor(r, {a.concept : a \in task[r].pending})'
      BY <2>3, <2>4, <2>5 DEF HoldsFor
    <2> QED BY <1>7, <2>3, <2>4, <2>7, <2>8, <2>9
  <1>9. CASE ReelAssembled(r)
    <2> DEFINE cs == {a.concept : a \in {a \in task[r].pending : a.concept.script}}
               rows == Rendering(r, cs, {"raw_clip", "video"})
               held == task[r].pending
               t == task[r].attempt
               kinds == {"raw_clip", "video"}
    <2>1. task[r].phase = "imaged" /\ t > 0 /\ Persist(r, rows, "assembled") /\ IsReel(j)
      BY <1>1, <1>9 DEF ReelAssembled, TaskOK, j
    <2>2. cs \subseteq ConceptRows
      BY <1>1 DEF TypeOK, TaskRows, AssetRows
    <2>3. rows \in SUBSET AssetRows
      BY <1>1, <2>1, <2>2, RenderingType DEF AssetKinds
    <2>4. /\ \A a \in rows : a.by = r /\ a.attempt = t /\ a.concept \in cs
          /\ \A c \in cs : \A k \in kinds : RowOf(r, t, c, k) \in rows
      BY RenderingRows
    <2>5. \A c : RowOf(r, t, c, "image") \in held /\ c.script => c \in cs
      BY DEF RowOf
    <2>6. \A c \in cs : \E a \in held : c = a.concept
      OBVIOUS
    <2> HIDE DEF rows, cs
    <2>7. /\ task'[r].pending = held \cup rows /\ task'[r].phase = "assembled"
          /\ task'[r].attempt = t
      BY <1>1, <2>1, <2>3, PersistEffect DEF Phases, Running
    <2>8. ASSUME NEW c, RowOf(r, t, c, "image") \in held, NEW k \in KindsAt("assembled", c)
          PROVE  RowOf(r, t, c, k) \in task'[r].pending
      <3>1. CASE k = "image"
        BY <2>7, <2>8, <3>1
      <3>2. CASE k # "image"
        <4>1. c.script /\ k \in kinds
          BY <2>8, <3>2 DEF KindsAt, AssetKinds
        <4> QED BY <2>4, <2>5, <2>7, <2>8, <4>1
      <3> QED BY <3>1, <3>2
    <2>9. \A a \in held : RowOf(r, t, a.concept, "image") \in held
      BY <1>1, <2>1 DEF PendingOK, HoldsFor, KindsAt
    <2>10. PICK n \in 1 .. MaxTries :
             /\ ReadUpTo(j, n)
             /\ \E S \in Picks(ConceptsUpTo(j, n)) : HoldsFor(r, {c \in S : ~c.rejected})
      BY <1>1, <2>1 DEF PendingOK, j
    <2>11. PICK S \in Picks(ConceptsUpTo(j, n)) : HoldsFor(r, {c \in S : ~c.rejected})
      BY <2>10
    <2>12. ReadUpTo(j, n)' /\ ConceptsUpTo(j, n)' = ConceptsUpTo(j, n)
      BY <1>1, <2>1, <2>10, ReadStays
    <2>13. S \in Picks(ConceptsUpTo(j, n)')
      BY <2>11, <2>12
    <2>14. \A c \in S : ~c.rejected => RowOf(r, t, c, "image") \in held
      BY <2>1, <2>11 DEF HoldsFor, KindsAt
    <2>15. HoldsFor(r, {c \in S : ~c.rejected})'
      BY <2>7, <2>8, <2>14 DEF HoldsFor
    <2>16. \A a \in task'[r].pending : RowOf(r, t, a.concept, "image") \in held
      BY <2>4, <2>6, <2>7, <2>9
    <2>17. HoldsFor(r, {a.concept : a \in task[r].pending})'
      BY <2>7, <2>8, <2>16 DEF HoldsFor
    <2>18. \A a \in task'[r].pending : a.by = r /\ a.attempt = task'[r].attempt
      BY <1>1, <2>4, <2>7 DEF PendingOK
    <2> QED BY <1>2, <1>7, <2>1, <2>7, <2>12, <2>13, <2>15, <2>17, <2>18
  <1> QED
    BY <1>4, <1>5, <1>6, <1>8, <1>9
       DEF WorkerStep, Stopped, IdeationStarted, IdeationCommitted, IdeationFailed, RenderStarted,
           RenderCommitted, RenderFailed, TimedOut, Acked, Abandoned, ShutDown, Crashed

\* Only its own ideation makes a job wait for a rendering, and then it is a reel.
LEMMA WorkerOrigins ==
  ASSUME IInv, RenderingInv, NEW r \in Requests, WorkerStep(r) \/ Stopped(r)
  PROVE  \A q \in Requests : Origins(q)'
  <1> DEFINE j == Target(r)
             Starts == task'[r].phase = "ideating" =>
                         api[r].op = "generate" /\ job'[j].status = "running"
             Awaits == job'[j].status = "awaiting_render" =>
                         job[j].status = "awaiting_render" \/ IsReel(j)
  <1>1. /\ TypeOK /\ TypeOK' /\ WorkerFrame(r) /\ j \in Requests
        /\ \A q \in Requests : Origins(q) /\ Target(q) \in Requests
    BY IInvTypeInv, WorkerTypeInv, WorkerFrameHolds
       DEF IInv, TypeInv, TypeOK, ApiRows, Target, RenderingInv
  <1>2. \A q \in Requests : /\ IsReel(q)' <=> IsReel(q)
                            /\ Target(q)' = Target(q) /\ api'[q] = api[q]
                            /\ task'[q].phase # "none" => task[q].phase # "none"
    BY <1>1 DEF WorkerFrame, IsReel, Target
  <1> HIDE DEF j
  <1>3. ASSUME NEW s \in Statuses \ {"awaiting_render"}, SetStatus(j, s) PROVE Awaits
    BY <1>1, <1>3, SetStatusEffect
  <1>4. ASSUME NEW p \in Phases \ {"ideating"}, Goto(r, p) \/ Leave(r, p) PROVE Starts
    BY <1>1, <1>4, GotoEffect, LeaveEffect
  <1>5. ASSUME NEW p \in {"imaged", "assembled"}, NEW rows, Persist(r, rows, p) PROVE Starts
    BY <1>1, <1>5 DEF Persist, TypeOK, TaskRows
  <1>6. job' = job => Awaits
    OBVIOUS
  <1>7. Starts /\ Awaits
    <2>1. CASE IdeationStarted(r)
      <3>1. SetStatus(j, "running") /\ api[r].op = "generate"
        BY <2>1 DEF IdeationStarted, j
      <3> QED BY <1>1, <3>1, SetStatusEffect DEF Statuses
    <2>2. ASSUME NEW out \in Ideations(r), IdeationCommitted(r, out) PROVE Starts /\ Awaits
      <3>1. Goto(r, "acking") \/ Goto(r, "rendering")
        BY <2>2 DEF IdeationCommitted
      <3>2. IsReel(j) \/ job' = job
        BY <2>2 DEF IdeationCommitted, j
      <3> QED BY <1>4, <1>6, <3>1, <3>2 DEF Phases, Running
    <2>3. CASE RenderStarted(r)
      <3>1. SetStatus(j, "running") /\ Deliver(r, "rendering")
        BY <2>3 DEF RenderStarted, j
      <3>2. task'[r].phase # "ideating"
        BY <1>1, <3>1, DeliverEffect DEF Running
      <3> QED BY <1>3, <3>1, <3>2 DEF Statuses
    <2>4. ASSUME NEW S \in Picks(ConceptsOf(Target(r))), ImagesRendered(r, S) PROVE Starts /\ Awaits
      BY <1>5, <1>6, <2>4 DEF ImagesRendered
    <2>5. CASE ReelAssembled(r)
      BY <1>5, <1>6, <2>5 DEF ReelAssembled
    <2>6. CASE IdeationFailed(r) \/ RenderCommitted(r) \/ RenderFailed(r)
      BY <1>3, <1>4, <2>6 DEF IdeationFailed, RenderCommitted, RenderFailed, j, Statuses, Phases
    <2>7. CASE TimedOut(r) \/ ShutDown(r)
      BY <1>3, <1>4, <2>7 DEF TimedOut, ShutDown, CancelledStatus, j, Statuses, Phases
    <2>8. CASE Acked(r) \/ Abandoned(r) \/ Crashed(r)
      BY <1>4, <1>6, <2>8 DEF Acked, Abandoned, Crashed, Phases
    <2> QED BY <2>1, <2>2, <2>3, <2>4, <2>5, <2>6, <2>7, <2>8 DEF WorkerStep, Stopped
  <1> HIDE DEF Starts, Awaits
  <1>8. \A q \in Requests \ {r} : task'[q] = task[q]
    BY <1>1 DEF WorkerFrame
  <1>9. \A q \in Requests \ {j} : job'[q] = job[q]
    BY <1>1 DEF WorkerFrame, j
  <1>10. task[r].phase # "none" /\ (api[r].op # "render" => j = r) /\ (api[r].op = "render" => IsReel(j))
    BY <1>1 DEF WorkerFrame, Origins, j
  <1>11. ASSUME NEW q \in Requests PROVE Origins(q)'
    <2>1. job'[q].status = "awaiting_render" => IsReel(q)
      BY <1>1, <1>7, <1>9 DEF Awaits, Origins
    <2>2. task'[q].phase = "ideating" => api[q].op # "render"
      BY <1>1, <1>7, <1>8 DEF Starts, Origins
    <2>3. ASSUME ~IsReel(q), task'[q].phase = "ideating" PROVE job'[q].status # "succeeded"
      <3>1. CASE q = r
        BY <1>7, <1>10, <2>3, <3>1 DEF Starts
      <3>2. CASE q # r
        BY <1>1, <1>8, <1>9, <1>10, <2>3, <3>2 DEF Origins
      <3> QED BY <3>1, <3>2
    <2>4. IsReel(Target(q))' <=> IsReel(Target(q))
      BY <1>1, <1>2 DEF IsReel, Target, WorkerFrame
    <2> QED BY <1>1, <1>2, <2>1, <2>2, <2>3, <2>4 DEF Origins
  <1> QED BY <1>11

\* What run r commits is whole: every row has its companions, and every concept that the
\* run read has its rows.
LEMMA CommitsWhole ==
  ASSUME IInv, RenderingInv, NEW r \in Requests, RenderCommitted(r)
  PROVE  /\ \A a \in task[r].pending : \A k \in KindsFor(a.concept) :
              RowOf(r, task[r].attempt, a.concept, k) \in task[r].pending
         /\ \E n \in 1 .. MaxTries :
              /\ ReadUpTo(Target(r), n)
              /\ \E S \in Picks(ConceptsUpTo(Target(r), n)) :
                   \A c \in S : ~c.rejected => \A k \in KindsFor(c) :
                     RowOf(r, task[r].attempt, c, k) \in task[r].pending
  <1>1. TypeOK /\ TaskOK(r) /\ PendingOK(r)
    BY DEF IInv, RenderingInv
  <1>2. task[r].phase = IF IsReel(Target(r)) THEN "assembled" ELSE "imaged"
    BY DEF RenderCommitted
  <1>3. ASSUME NEW c, c.job = Target(r) PROVE KindsFor(c) = KindsAt(task[r].phase, c)
    BY <1>2, <1>3 DEF KindsFor, KindsAt
  <1>4. \A a \in task[r].pending : a.concept.job = Target(r)
    BY <1>1 DEF TaskOK, ConceptsOf
  <1>5. \A a \in task[r].pending : \A k \in KindsFor(a.concept) :
          RowOf(r, task[r].attempt, a.concept, k) \in task[r].pending
    BY <1>1, <1>3, <1>4 DEF PendingOK, HoldsFor
  <1>6. PICK n \in 1 .. MaxTries :
          /\ ReadUpTo(Target(r), n)
          /\ \E S \in Picks(ConceptsUpTo(Target(r), n)) : HoldsFor(r, {c \in S : ~c.rejected})
    BY <1>1, <1>2 DEF PendingOK
  <1>7. PICK S \in Picks(ConceptsUpTo(Target(r), n)) : HoldsFor(r, {c \in S : ~c.rejected})
    BY <1>6
  <1>8. \A c \in S : c.job = Target(r)
    BY DEF Picks, ConceptsUpTo, ConceptsOf
  <1>9. \A c \in S : ~c.rejected => \A k \in KindsFor(c) :
          RowOf(r, task[r].attempt, c, k) \in task[r].pending
    BY <1>3, <1>7, <1>8 DEF HoldsFor
  <1> QED BY <1>5, <1>6, <1>9

LEMMA WorkerRendering ==
  ASSUME IInv, RenderingInv, NEW r \in Requests, WorkerStep(r) \/ Stopped(r)
  PROVE  RenderingInv'
  <1> DEFINE j == Target(r)
  <1>1. /\ TypeOK' /\ TypeOK /\ WorkerFrame(r) /\ j \in Requests /\ TaskOK(r) /\ AssetsAreServable
        /\ \A q \in Requests : Target(q) \in Requests
    BY IInvTypeInv, WorkerTypeInv, WorkerFrameHolds
       DEF IInv, TypeInv, TypeOK, ApiRows, Target, RenderingInv
  <1>2. /\ assets \subseteq assets' /\ api' = api
        /\ \A i \in Requests : IsReel(i)' <=> IsReel(i)
        /\ \A q \in Requests \ {r} : task'[q] = task[q]
    BY <1>1, WorkerWrites DEF WorkerFrame, RenderCommitted, IsReel
  <1>3. \A q \in Requests : Origins(q)'
    BY WorkerOrigins
  <1>4. \A c \in concepts' : Settled(c.job, c.attempt)'
    <2>1. ASSUME NEW c \in concepts PROVE Settled(c.job, c.attempt)'
      <3>1. c.job \in Requests /\ c.attempt \in 1 .. MaxTries /\ Settled(c.job, c.attempt)
        BY <1>1 DEF TypeOK, ConceptRows, RenderingInv
      <3>2. PICK i \in Requests, n \in 1 .. MaxTries : i = c.job /\ n = c.attempt
        BY <3>1
      <3>3. Settled(i, n)'
        BY <1>1, <3>1, <3>2, SettledStays
      <3> QED BY <3>2, <3>3 DEF Settled
    <2>2. ASSUME NEW c \in concepts' \ concepts PROVE Settled(c.job, c.attempt)'
      BY <2>2, ConceptsAdded DEF Settled
    <2> QED BY <2>1, <2>2
  <1>5. ASSUME NEW q \in Requests PROVE PendingOK(q)'
    <2>1. CASE q = r
      BY <2>1, RunRendering
    <2>2. CASE q # r
      <3>1. PICK i \in Requests : i = Target(q)
        BY <1>1
      <3>2. task'[q] = task[q] /\ i = Target(q)' /\ PendingOK(q) /\ (IsReel(i)' <=> IsReel(i))
        BY <1>2, <2>2, <3>1 DEF Target, RenderingInv
      <3>3. /\ \A a \in task'[q].pending : a.by = q /\ a.attempt = task'[q].attempt
            /\ HoldsFor(q, {a.concept : a \in task[q].pending})'
            /\ task'[q].phase = "assembled" => IsReel(i)'
        BY <3>1, <3>2 DEF PendingOK, HoldsFor
      <3>4. ASSUME task[q].phase \in {"imaged", "assembled"}
            PROVE  \E n \in 1 .. MaxTries :
                     /\ ReadUpTo(i, n)'
                     /\ \E S \in Picks(ConceptsUpTo(i, n)') : HoldsFor(q, {c \in S : ~c.rejected})'
        <4>1. PICK n \in 1 .. MaxTries :
                /\ ReadUpTo(i, n)
                /\ \E S \in Picks(ConceptsUpTo(i, n)) : HoldsFor(q, {c \in S : ~c.rejected})
          BY <3>1, <3>2, <3>4 DEF PendingOK
        <4>2. PICK S \in Picks(ConceptsUpTo(i, n)) : HoldsFor(q, {c \in S : ~c.rejected})
          BY <4>1
        <4>3. ReadUpTo(i, n)' /\ ConceptsUpTo(i, n)' = ConceptsUpTo(i, n)
          BY <1>1, <3>1, <3>4, <4>1, RenderingSettled, ReadStays
        <4>4. S \in Picks(ConceptsUpTo(i, n)') /\ HoldsFor(q, {c \in S : ~c.rejected})'
          BY <3>2, <4>2, <4>3 DEF HoldsFor
        <4> QED BY <4>3, <4>4
      <3> QED BY <3>2, <3>3, <3>4 DEF PendingOK
    <2> QED BY <2>1, <2>2
  <1>6. AssetsCommitTogether'
    <2> SUFFICES ASSUME NEW a \in assets', NEW k \in KindsFor(a.concept)'
                 PROVE  \E b \in assets' : /\ b.concept = a.concept /\ b.kind = k
                                           /\ b.by = a.by /\ b.attempt = a.attempt
      BY DEF AssetsCommitTogether
    <2>1. a.concept.job \in Requests
      BY <1>1 DEF TypeOK, AssetRows, ConceptRows
    <2>2. k \in KindsFor(a.concept)
      BY <1>2, <2>1 DEF KindsFor
    <2>3. CASE a \in assets
      BY <1>2, <2>2, <2>3 DEF RenderingInv, AssetsCommitTogether
    <2>4. CASE a \notin assets
      <3>1. RenderCommitted(r) /\ assets' = assets \cup task[r].pending /\ a \in task[r].pending
        BY <2>4, WorkerWrites DEF RenderCommitted
      <3>2. a.by = r /\ a.attempt = task[r].attempt
        BY <3>1 DEF RenderingInv, PendingOK
      <3>3. RowOf(r, task[r].attempt, a.concept, k) \in assets'
        BY <2>2, <3>1, CommitsWhole
      <3> QED BY <3>2, <3>3 DEF RowOf
    <2> QED BY <2>3, <2>4
  <1>7. ASSUME NEW i \in Requests PROVE Finished(i)'
    <2> SUFFICES ASSUME job'[i].status = "succeeded"
                 PROVE  \E n \in 1 .. MaxTries :
                          ReadUpTo(i, n)' /\ Rendered(ConceptsUpTo(i, n))'
      BY DEF Finished
    <2>1. CASE job[i].status = "succeeded"
      <3>1. PICK n \in 1 .. MaxTries : ReadUpTo(i, n) /\ Rendered(ConceptsUpTo(i, n))
        BY <2>1 DEF RenderingInv, Finished
      <3>2. IsReel(i) \/ task[i].phase # "ideating"
        BY <2>1 DEF RenderingInv, Origins
      <3>3. ReadUpTo(i, n)' /\ ConceptsUpTo(i, n)' = ConceptsUpTo(i, n)
        BY <1>1, <3>1, <3>2, ReadStays
      <3>4. Rendered(ConceptsUpTo(i, n))'
        BY <1>1, <1>2, <3>1, <3>3, RenderedStays
      <3> QED BY <3>3, <3>4
    <2>2. CASE job[i].status # "succeeded"
      <3>1. RenderCommitted(r) /\ i = j
        BY <1>1, <2>2, WorkerWrites, SetStatusEffect DEF WorkerFrame
      <3>2. /\ assets' = assets \cup task[r].pending
            /\ task[r].phase \in {"imaged", "assembled"}
        BY <3>1 DEF RenderCommitted
      <3>3. PICK t \in 1 .. MaxTries : t = task[r].attempt
        <4>1. task[r].attempt \in 0 .. MaxTries /\ task[r].attempt > 0
          BY <1>1, <3>2 DEF TaskOK, TypeOK, TaskRows
        <4> QED BY <4>1, ConstantsOK
      <3>4. PICK n \in 1 .. MaxTries :
              /\ ReadUpTo(i, n)
              /\ \E S \in Picks(ConceptsUpTo(i, n)) :
                   \A c \in S : ~c.rejected => \A k \in KindsFor(c) :
                     RowOf(r, t, c, k) \in task[r].pending
        BY <3>1, <3>3, CommitsWhole
      <3>5. PICK S \in Picks(ConceptsUpTo(i, n)) :
              \A c \in S : ~c.rejected => \A k \in KindsFor(c) :
                RowOf(r, t, c, k) \in task[r].pending
        BY <3>4
      <3>6. ReadUpTo(i, n)' /\ ConceptsUpTo(i, n)' = ConceptsUpTo(i, n)
        BY <1>1, <3>1, <3>2, <3>4, RenderingSettled, ReadStays
      <3>7. \A c \in S : KindsFor(c)' = KindsFor(c)
        BY <1>2, <3>5 DEF Picks, ConceptsUpTo, ConceptsOf, KindsFor
      <3>8. RenderedWhole(S, r, t)'
        <4>1. \A c \in S : ~c.rejected => \A k \in KindsFor(c)' : RowOf(r, t, c, k) \in assets'
          BY <3>2, <3>5, <3>7
        <4> QED BY <4>1 DEF RenderedWhole, RowOf
      <3>9. S \in Picks(ConceptsUpTo(i, n)')
        BY <3>5, <3>6
      <3>10. Rendered(ConceptsUpTo(i, n))'
        BY <3>3, <3>8, <3>9 DEF Rendered
      <3> QED BY <3>6, <3>10
    <2> QED BY <2>1, <2>2
  <1> QED BY <1>3, <1>4, <1>5, <1>6, <1>7 DEF RenderingInv

LEMMA RenderingInvariance == Spec => []RenderingInv
  <1>1. Init => RenderingInv
    <2> SUFFICES ASSUME Init PROVE RenderingInv
      OBVIOUS
    <2>1. /\ \A r \in Requests : /\ task[r].pending = {} /\ task[r].phase = "none"
                                 /\ job[r].status = "none" /\ api[r].op = "none"
                                 /\ api[r].job = r
          /\ concepts = {} /\ assets = {}
      BY DEF Init
    <2>2. \A r \in Requests : Origins(r) /\ PendingOK(r) /\ Finished(r)
      BY <2>1 DEF Origins, PendingOK, HoldsFor, Finished, Target
    <2> QED BY <2>1, <2>2 DEF RenderingInv, AssetsCommitTogether
  <1>2. IInv /\ RenderingInv /\ [Next]_vars => RenderingInv'
    <2>1. ASSUME RenderingInv, UNCHANGED vars PROVE RenderingInv'
      <3>1. /\ task' = task /\ assets' = assets /\ api' = api /\ job' = job /\ concepts' = concepts
        BY <2>1 DEF vars
      <3>2. \A r \in Requests : Origins(r)'
        BY <2>1, <3>1 DEF RenderingInv, Origins, IsReel, Target
      <3>5. ASSUME NEW j, NEW n
            PROVE  /\ ReadUpTo(j, n)' <=> ReadUpTo(j, n)
                   /\ ConceptsUpTo(j, n)' = ConceptsUpTo(j, n)
        BY <3>1 DEF ReadUpTo, Settled, ConceptsUpTo, ConceptsOf, IsReel
      <3>6. \A r \in Requests : PendingOK(r)'
        <4> SUFFICES ASSUME NEW r \in Requests PROVE PendingOK(r)'
          OBVIOUS
        <4>1. PendingOK(r) /\ Target(r)' = Target(r) /\ (IsReel(Target(r))' <=> IsReel(Target(r)))
          BY <2>1, <3>1 DEF RenderingInv, Target, IsReel
        <4>2. ASSUME NEW C, HoldsFor(r, C) PROVE HoldsFor(r, C)'
          BY <3>1, <4>2 DEF HoldsFor
        <4> QED BY <3>1, <3>5, <4>1, <4>2 DEF PendingOK
      <3>7. \A r \in Requests : Finished(r)'
        BY <2>1, <3>1, <3>5 DEF RenderingInv, Finished, Rendered, RenderedWhole, KindsFor, IsReel
      <3>3. \A c \in concepts' : Settled(c.job, c.attempt)'
        BY <2>1, <3>1 DEF RenderingInv, Settled
      <3>4. AssetsCommitTogether'
        BY <2>1, <3>1 DEF RenderingInv, AssetsCommitTogether, KindsFor, IsReel
      <3> QED BY <3>2, <3>3, <3>4, <3>6, <3>7 DEF RenderingInv
    <2> QED BY <2>1, ApiRendering, WorkerRendering DEF Next
  <1> QED BY <1>1, <1>2, Invariance, PTL DEF Spec

\* The rows of one rendering are committed together, for any number of concepts, with and
\* without scripts, and any number of deliveries (_run_asset_rendering commits once).
THEOREM RenderingsAreWhole == Spec => []AssetsCommitTogether
  <1>1. RenderingInv => AssetsCommitTogether
    BY DEF RenderingInv
  <1> QED BY <1>1, RenderingInvariance, PTL

\* A succeeded job has the output of one whole run over concepts that it had read, for any
\* number of concepts and deliveries: all the job's concepts, except that a redelivered
\* ideation of a reel may have added some that no run has rendered.
THEOREM SucceededIsComplete == Spec => []SuccessIsComplete
  <1>1. RenderingInv => SuccessIsComplete
    BY DEF RenderingInv, Finished, Rendered, ReadUpTo, SuccessIsComplete
  <1> QED BY <1>1, RenderingInvariance, PTL

(***************************************************************************)
(* The job board.                                                          *)
(***************************************************************************)

BoardStatus == [j \in Requests |-> job[j].status]
BoardDrafted == [j \in Requests |-> ConceptsOf(j) # {}]
BoardOpen == [j \in Requests |-> OpenRuns(j)]

RunOpen(r) ==
  task[r].attempt > 0 /\ task[r].phase \in Running \cup {"queued", "abandoned"}

\* Beyond IInv: a message counts its deliveries from zero, and a delivered one has taken
\* its job out of the queue.
BoardInv ==
  \A r \in Requests : /\ task[r].phase = "none" => task[r].attempt = 0
                      /\ task[r].attempt > 0 => job[Target(r)].status # "queued"

\* A run opens or closes itself and no other, and its job only.
LEMMA BoardOpens ==
  ASSUME IInv, NEW r \in Requests, WorkerFrame(r)
  PROVE  /\ RunOpen(r) <=> r \in BoardOpen[Target(r)]
         /\ RunOpen(r)' =>
              BoardOpen' = [BoardOpen EXCEPT ![Target(r)] = BoardOpen[Target(r)] \cup {r}]
         /\ ~RunOpen(r)' =>
              BoardOpen' = [BoardOpen EXCEPT ![Target(r)] = BoardOpen[Target(r)] \ {r}]
         /\ (RunOpen(r)' <=> RunOpen(r)) => BoardOpen' = BoardOpen
  <1>1. /\ \A q \in Requests : Target(q) \in Requests /\ Target(q)' = Target(q)
        /\ \A q \in Requests \ {r} : task'[q] = task[q]
    BY DEF IInv, TypeOK, ApiRows, Target, WorkerFrame
  <1>2. RunOpen(r) <=> r \in BoardOpen[Target(r)]
    BY <1>1 DEF RunOpen, BoardOpen, OpenRuns
  <1>3. ASSUME NEW j \in Requests
        PROVE  OpenRuns(j)' = IF j # Target(r) THEN OpenRuns(j)
                              ELSE IF RunOpen(r)' THEN OpenRuns(j) \cup {r} ELSE OpenRuns(j) \ {r}
    BY <1>1 DEF RunOpen, OpenRuns
  <1>4. /\ BoardOpen \in [Requests -> {OpenRuns(j) : j \in Requests}]
        /\ \A j \in Requests : BoardOpen[j] = OpenRuns(j) /\ BoardOpen'[j] = OpenRuns(j)'
        /\ DOMAIN BoardOpen = Requests /\ DOMAIN BoardOpen' = Requests
        /\ BoardOpen' = [j \in Requests |-> OpenRuns(j)']
    BY DEF BoardOpen
  <1>5. RunOpen(r)' =>
          BoardOpen' = [BoardOpen EXCEPT ![Target(r)] = BoardOpen[Target(r)] \cup {r}]
    BY <1>1, <1>3, <1>4
  <1>6. ~RunOpen(r)' =>
          BoardOpen' = [BoardOpen EXCEPT ![Target(r)] = BoardOpen[Target(r)] \ {r}]
    BY <1>1, <1>3, <1>4
  <1>7. (RunOpen(r)' <=> RunOpen(r)) => BoardOpen' = BoardOpen
    <2> SUFFICES ASSUME RunOpen(r)' <=> RunOpen(r), NEW j \in Requests
                 PROVE  OpenRuns(j)' = OpenRuns(j)
      BY DEF BoardOpen
    <2> QED BY <1>1, <1>2, <1>3, <1>4
  <1> QED BY <1>2, <1>5, <1>6, <1>7

LEMMA BoardStatuses ==
  ASSUME TypeOK, NEW j \in Requests
  PROVE  /\ job' = job => BoardStatus' = BoardStatus
         /\ \A s \in Statuses : SetStatus(j, s) => BoardStatus' = [BoardStatus EXCEPT ![j] = s]
         /\ BoardStatus[j] = job[j].status
  <1>1. ASSUME NEW s \in Statuses, SetStatus(j, s)
        PROVE  BoardStatus' = [BoardStatus EXCEPT ![j] = s]
    <2>1. job'[j].status = s /\ \A k \in Requests \ {j} : job'[k] = job[k]
      BY <1>1, SetStatusEffect
    <2> QED BY <2>1 DEF BoardStatus
  <1> QED BY <1>1 DEF BoardStatus

LEMMA BoardDrafts ==
  ASSUME IInv, NEW r \in Requests
  PROVE  /\ concepts' = concepts => BoardDrafted' = BoardDrafted
         /\ \A out \in Ideations(r) :
              IdeationCommitted(r, out) => BoardDrafted' = [BoardDrafted EXCEPT ![Target(r)] = TRUE]
         /\ \A j \in Requests : BoardDrafted[j] <=> ConceptsOf(j) # {}
  <1>1. ASSUME NEW out \in Ideations(r), IdeationCommitted(r, out)
        PROVE  BoardDrafted' = [BoardDrafted EXCEPT ![Target(r)] = TRUE]
    <2>1. TypeOK /\ task[r].attempt > 0 /\ concepts' = concepts \cup Drafts(r, out)
      BY <1>1 DEF IInv, TaskOK, IdeationCommitted
    <2>2. PICK c \in Drafts(r, out) : c.job = Target(r)
      BY <2>1, DraftRows
    <2>3. ConceptsOf(Target(r))' # {}
      <3>1. c \in {d \in concepts' : d.job = Target(r)}
        BY <2>1, <2>2
      <3> QED BY <1>1, <3>1 DEF ConceptsOf, IdeationCommitted, Target
    <2>4. ASSUME NEW j \in Requests, j # Target(r) PROVE ConceptsOf(j)' = ConceptsOf(j)
      BY <2>1, <2>4 DEF ConceptsOf, Drafts
    <2> QED
      <3>1. \A j \in Requests : j = Target(r) => ConceptsOf(j)' # {}
        BY <1>1, <2>3 DEF IdeationCommitted, Target, ConceptsOf
      <3>2. BoardDrafted' = [j \in Requests |-> ConceptsOf(j)' # {}]
        BY DEF BoardDrafted
      <3> QED BY <2>4, <3>1, <3>2 DEF BoardDrafted
  <1>2. concepts' = concepts => BoardDrafted' = BoardDrafted
    BY DEF BoardDrafted, ConceptsOf
  <1> QED BY <1>1, <1>2 DEF BoardDrafted

\* Every step of the worker is one of the board, or none.
LEMMA BoardWorker ==
  ASSUME IInv, BoardInv, NEW r \in Requests, WorkerStep(r) \/ Stopped(r)
  PROVE  [Board!Next]_(Board!vars)
  <1>1. /\ TypeOK /\ TypeInv /\ TaskOK(r) /\ WorkerFrame(r) /\ Target(r) \in Requests
        /\ job[Target(r)].status # "none"
    BY IInvTypeInv, WorkerFrameHolds DEF IInv, TypeOK, ApiRows, Target, TaskOK, WorkerFrame
  <1>2. PICK j \in Requests : j = Target(r)
    BY <1>1
  <1>3. BoardStatus[j] = job[j].status /\ job[j].status # "none"
    BY <1>1, <1>2, BoardStatuses
  <1>4. task[r].phase \in Running => RunOpen(r) /\ r \in BoardOpen[j]
    BY <1>1, <1>2, BoardOpens DEF RunOpen, TaskOK, Running
  <1>5. ASSUME job' = job, concepts' = concepts, RunOpen(r)' <=> RunOpen(r)
        PROVE  UNCHANGED Board!vars
    <2>1. BoardStatus' = BoardStatus /\ BoardDrafted' = BoardDrafted /\ BoardOpen' = BoardOpen
      BY <1>1, <1>5, BoardOpens, BoardStatuses, BoardDrafts
    <2> QED BY <2>1 DEF Board!vars, BoardStatus, BoardDrafted, BoardOpen
  \* A report: the run stays open or closes.
  <1>6. ASSUME NEW s \in {"succeeded", "partially_failed", "failed"}, SetStatus(j, s),
               task[r].phase \in Running, concepts' = concepts, s # "failed" => ConceptsOf(j) # {}
        PROVE  Board!Next
    <2>1. BoardStatus' = [BoardStatus EXCEPT ![j] = s] /\ BoardDrafted' = BoardDrafted
      BY <1>1, <1>6, BoardStatuses, BoardDrafts DEF Statuses
    <2>2. s # "failed" => BoardDrafted[j]
      BY <1>6, BoardDrafts
    <2>3. BoardOpen' \in {BoardOpen, [BoardOpen EXCEPT ![j] = BoardOpen[j] \ {r}]}
      BY <1>1, <1>2, <1>4, <1>6, BoardOpens
    <2>4. Board!Report(j, r, s)
      BY <1>4, <1>6, <2>1, <2>2, <2>3 DEF Board!Report, BoardStatus, BoardDrafted, BoardOpen
    <2> QED BY <2>4 DEF Board!Next
  <1>7. ASSUME NEW p \in Running, Deliver(r, p), SetStatus(j, "running"), concepts' = concepts
        PROVE  Board!Next
    <2>1. RunOpen(r)'
      BY <1>1, <1>7, DeliverEffect DEF RunOpen
    <2>2. /\ BoardStatus' = [BoardStatus EXCEPT ![j] = "running"] /\ BoardDrafted' = BoardDrafted
          /\ BoardOpen' = [BoardOpen EXCEPT ![j] = BoardOpen[j] \cup {r}]
      BY <1>1, <1>2, <1>7, <2>1, BoardStatuses, BoardDrafts, BoardOpens DEF Statuses
    <2>3. Board!Start(j, r)
      BY <1>3, <2>2 DEF Board!Start, BoardStatus, BoardDrafted, BoardOpen
    <2> QED BY <2>3 DEF Board!Next
  <1>8. CASE IdeationStarted(r) \/ RenderStarted(r)
    BY <1>2, <1>7, <1>8 DEF IdeationStarted, RenderStarted, Running
  <1>9. ASSUME NEW out \in Ideations(r), IdeationCommitted(r, out) PROVE Board!Next
    <2>1. BoardDrafted' = [BoardDrafted EXCEPT ![j] = TRUE] /\ r \in BoardOpen[j] /\ RunOpen(r)
      BY <1>1, <1>2, <1>4, <1>9, BoardDrafts DEF IdeationCommitted, Running
    <2>2. CASE IsReel(j)
      <3>1. SetStatus(j, "awaiting_render") /\ Goto(r, "acking")
        BY <1>2, <1>9, <2>2 DEF IdeationCommitted
      <3>2. ~RunOpen(r)'
        BY <1>1, <3>1, GotoEffect DEF RunOpen, Phases, Running
      <3>3. /\ BoardStatus' = [BoardStatus EXCEPT ![j] = "awaiting_render"]
            /\ BoardOpen' = [BoardOpen EXCEPT ![j] = BoardOpen[j] \ {r}]
        BY <1>1, <1>2, <3>1, <3>2, BoardStatuses, BoardOpens DEF Statuses
      <3>4. Board!DraftAndAwait(j, r)
        BY <2>1, <3>3 DEF Board!DraftAndAwait, BoardStatus, BoardDrafted, BoardOpen
      <3> QED BY <3>4 DEF Board!Next
    <2>3. CASE ~IsReel(j)
      <3>1. job' = job /\ Goto(r, "rendering")
        BY <1>2, <1>9, <2>3 DEF IdeationCommitted
      <3>2. RunOpen(r)'
        BY <1>1, <2>1, <3>1, GotoEffect DEF RunOpen, Phases, Running
      <3>3. BoardStatus' = BoardStatus /\ BoardOpen' = BoardOpen
        BY <1>1, <2>1, <3>1, <3>2, BoardStatuses, BoardOpens
      <3>4. Board!Draft(j, r)
        BY <2>1, <3>3 DEF Board!Draft, BoardStatus, BoardDrafted, BoardOpen
      <3> QED BY <3>4 DEF Board!Next
    <2> QED BY <2>2, <2>3
  <1>10. CASE IdeationFailed(r)
    BY <1>2, <1>6, <1>10 DEF IdeationFailed, Running
  <1>11. ASSUME NEW S \in Picks(ConceptsOf(Target(r))), ImagesRendered(r, S) PROVE UNCHANGED Board!vars
    <2>1. task'[r].phase = "imaged" /\ task'[r].attempt = task[r].attempt
      BY <1>1, <1>11 DEF ImagesRendered, Persist, TypeOK, TaskRows
    <2> QED BY <1>4, <1>5, <1>11, <2>1 DEF ImagesRendered, RunOpen, Running
  <1>12. CASE ReelAssembled(r)
    <2>1. task'[r].phase = "assembled" /\ task'[r].attempt = task[r].attempt
      BY <1>1, <1>12 DEF ReelAssembled, Persist, TypeOK, TaskRows
    <2> QED BY <1>4, <1>5, <1>12, <2>1 DEF ReelAssembled, RunOpen, Running
  <1>13. CASE RenderCommitted(r)
    BY <1>1, <1>2, <1>6, <1>13 DEF RenderCommitted, Running, TaskOK
  <1>14. CASE RenderFailed(r)
    BY <1>1, <1>2, <1>6, <1>14 DEF RenderFailed, Running, TaskOK
  <1>15. CASE TimedOut(r) \/ ShutDown(r)
    <2>1. CancelledStatus(r) # "failed" => ConceptsOf(j) # {}
      BY <1>1, <1>2 DEF CancelledStatus, TaskOK
    <2>2. CancelledStatus(r) \in {"partially_failed", "failed"}
      BY DEF CancelledStatus
    <2> QED BY <1>2, <1>6, <1>15, <2>1, <2>2 DEF TimedOut, ShutDown
  <1>16. CASE Crashed(r)
    <2>1. /\ task'[r].phase = "queued" /\ task'[r].attempt = task[r].attempt
          /\ task[r].attempt > 0 /\ job' = job /\ concepts' = concepts
      BY <1>1, <1>16, LeaveEffect DEF Crashed, Phases, Running, TaskOK
    <2>2. RunOpen(r)'
      BY <2>1 DEF RunOpen
    <2>3. CASE task[r].phase \in Running
      BY <1>4, <1>5, <2>1, <2>2, <2>3
    <2>4. CASE task[r].phase = "acking"
      <3>1. job[j].status # "queued"
        BY <1>2, <2>1 DEF BoardInv
      <3>2. /\ BoardStatus' = BoardStatus /\ BoardDrafted' = BoardDrafted
            /\ BoardOpen' = [BoardOpen EXCEPT ![j] = BoardOpen[j] \cup {r}]
        BY <1>1, <1>2, <2>1, <2>2, BoardStatuses, BoardDrafts, BoardOpens
      <3>3. Board!Reopen(j, r)
        BY <1>3, <3>1, <3>2 DEF Board!Reopen, BoardStatus, BoardDrafted, BoardOpen
      <3> QED BY <3>3 DEF Board!Next
    <2> QED BY <1>16, <2>3, <2>4 DEF Crashed
  <1>17. CASE Acked(r)
    <2>1. task'[r].phase = "done" /\ task[r].phase = "acking"
      BY <1>1, <1>17, GotoEffect DEF Acked, Phases
    <2> QED BY <1>5, <1>17, <2>1 DEF Acked, RunOpen, Running
  <1>18. CASE Abandoned(r)
    <2>1. /\ task'[r].phase = "abandoned" /\ task[r].phase = "queued"
          /\ task'[r].attempt = task[r].attempt
      BY <1>1, <1>18, GotoEffect DEF Abandoned, Phases
    <2> QED BY <1>5, <1>18, <2>1 DEF Abandoned, RunOpen
  <1> QED
    BY <1>8, <1>9, <1>10, <1>11, <1>12, <1>13, <1>14, <1>15, <1>16, <1>17, <1>18
       DEF WorkerStep, Stopped

\* Of the API's steps the board sees the creation of a job.
LEMMA BoardApi ==
  ASSUME IInv, BoardInv, NEW r \in Requests, ApiStep(r)
  PROVE  [Board!Next]_(Board!vars)
  <1>1. /\ TypeOK /\ RequestOK(r) /\ ApiFrame(r) /\ BoardDrafted' = BoardDrafted
        /\ \A q \in Requests \ {r} : api'[q] = api[q] /\ task'[q] = task[q]
    BY ApiFrameHolds, BoardDrafts DEF IInv, ApiFrame
  <1>2. task[r].attempt = 0 /\ task'[r].attempt = 0
    <2>1. task[r].attempt = 0
      BY <1>1 DEF BoardInv, ApiFrame
    <2>2. task' = task \/ (task' = [task EXCEPT ![r].phase = "queued"])
      BY DEF ApiStep, GenerateAnswered, GenerateChecked, GenerateCommitted, RenderRequested,
             Enqueued, EnqueueFailed
    <2> QED BY <1>1, <2>1, <2>2 DEF TypeOK, TaskRows
  <1>3. \A j \in Requests : OpenRuns(j)' = OpenRuns(j)
    BY <1>1, <1>2 DEF OpenRuns, Target
  <1>4. BoardOpen' = BoardOpen
    BY <1>3 DEF BoardOpen
  <1>5. CASE job' = job
    <2>1. BoardStatus' = BoardStatus
      BY <1>1, <1>5, BoardStatuses
    <2> QED BY <1>1, <1>4, <2>1 DEF Board!vars, BoardStatus, BoardDrafted, BoardOpen
  <1>6. CASE GenerateCommitted(r)
    <2>1. /\ job'[r].status = "queued" /\ job[r].status = "none"
          /\ \A j \in Requests \ {r} : job'[j] = job[j]
      BY <1>1, <1>6 DEF GenerateCommitted, TypeOK, RequestOK, ApiFrame
    <2>2. BoardStatus' = [BoardStatus EXCEPT ![r] = "queued"] /\ BoardStatus[r] = "none"
      BY <2>1 DEF BoardStatus
    <2>3. Board!Queue(r)
      BY <1>1, <1>4, <2>2 DEF Board!Queue, BoardStatus, BoardDrafted, BoardOpen
    <2> QED BY <2>3 DEF Board!Next
  <1> QED
    BY <1>5, <1>6
       DEF ApiStep, GenerateAnswered, GenerateChecked, RenderRequested, Enqueued, EnqueueFailed

LEMMA BoardInvariance == Spec => []BoardInv
  <1>1. Init => BoardInv
    BY DEF Init, BoardInv
  <1>2. ASSUME IInv, BoardInv, NEW r \in Requests, ApiStep(r) PROVE BoardInv'
    <2>1. /\ TypeOK /\ RequestOK(r) /\ ApiFrame(r)
          /\ \A q \in Requests : TaskOK(q) /\ Target(q) \in Requests
      BY <1>2, ApiFrameHolds DEF IInv, TypeOK, ApiRows, Target
    <2>2. task' = task \/ task' = [task EXCEPT ![r].phase = "queued"]
      BY <1>2 DEF ApiStep, GenerateAnswered, GenerateChecked, GenerateCommitted, RenderRequested,
                  Enqueued, EnqueueFailed
    <2>3. task[r].attempt = 0 /\ task'[r].attempt = 0
      BY <1>2, <2>1, <2>2 DEF BoardInv, ApiFrame, TypeOK, TaskRows
    <2>4. ASSUME NEW q \in Requests \ {r}, task[q].attempt > 0
          PROVE  job'[Target(q)'].status # "queued"
      <3>1. task[q].phase # "none"
        BY <1>2, <2>4 DEF BoardInv
      <3>2. job'[Target(q)] = job[Target(q)] /\ Target(q)' = Target(q)
        BY <2>1, <2>4, <3>1 DEF ApiFrame, TaskOK, Target
      <3> QED BY <1>2, <2>4, <3>2 DEF BoardInv
    <2> QED BY <1>2, <2>1, <2>3, <2>4 DEF BoardInv, ApiFrame
  <1>3. ASSUME IInv, BoardInv, NEW r \in Requests, WorkerStep(r) \/ Stopped(r) PROVE BoardInv'
    <2>1. /\ TypeOK /\ WorkerFrame(r) /\ Target(r) \in Requests /\ TaskOK(r)
          /\ \A q \in Requests : Target(q)' = Target(q) /\ Target(q) \in Requests
      BY <1>3, IInvTypeInv, WorkerFrameHolds DEF IInv, TypeOK, ApiRows, Target, WorkerFrame
    <2>2. \/ job' = job /\ task'[r].attempt = task[r].attempt
          \/ \E s \in Statuses \ {"queued"} : SetStatus(Target(r), s)
      BY <1>3, <2>1, CancelledStatusType
         DEF WorkerStep, Stopped, IdeationStarted, IdeationCommitted, IdeationFailed, RenderStarted,
             ImagesRendered, ReelAssembled, RenderCommitted, RenderFailed, TimedOut, Acked,
             Abandoned, ShutDown, Crashed, CancelledStatus, Statuses, Goto, Leave, Persist, TypeOK,
             TaskRows
    <2>3. ASSUME NEW q \in Requests, task'[q].attempt > 0
          PROVE  job'[Target(q)].status # "queued"
      BY <1>3, <2>1, <2>2, <2>3, SetStatusEffect DEF BoardInv, WorkerFrame
    <2> QED BY <1>3, <2>1, <2>3 DEF BoardInv, WorkerFrame
  <1>4. IInv /\ BoardInv /\ [Next]_vars => BoardInv'
    <2>1. ASSUME BoardInv, UNCHANGED vars PROVE BoardInv'
      BY <2>1 DEF vars, BoardInv, Target
    <2> QED BY <1>2, <1>3, <2>1 DEF Next
  <1> QED BY <1>1, <1>4, Invariance, PTL DEF Spec

\* Queue and worker implement the board that a poller relies on: statuses change only by
\* a run that is open, running means that one is, and drafts stay.
THEOREM BoardIsImplemented == Spec => ImplementsJobBoard
  <1>1. Init => Board!Init
    <2> SUFFICES ASSUME Init PROVE Board!Init
      OBVIOUS
    <2>1. /\ \A r \in Requests : job[r].status = "none" /\ task[r].attempt = 0
          /\ concepts = {}
      BY DEF Init
    <2>2. \A j \in Requests : OpenRuns(j) = {} /\ ConceptsOf(j) = {}
      BY <2>1 DEF OpenRuns, ConceptsOf
    <2> QED BY <2>1, <2>2 DEF Board!Init
  <1>2. IInv /\ BoardInv /\ [Next]_vars => [Board!Next]_(Board!vars)
    <2>1. ASSUME UNCHANGED vars PROVE UNCHANGED Board!vars
      BY <2>1 DEF vars, Board!vars, OpenRuns, ConceptsOf, Target
    <2> QED BY <2>1, BoardApi, BoardWorker DEF Next
  <1> QED BY <1>1, <1>2, Invariance, BoardInvariance, PTL DEF Spec, ImplementsJobBoard, Board!Spec

(***************************************************************************)
(* Sums over finite sets.                                                  *)
(***************************************************************************)

\* The element that a sum over S takes out first.
First(S) == CHOOSE x \in S : TRUE

\* g is the running sum of cost over the subsets of S, taken First by First.
IsSum(g, cost, S) ==
  g = [T \in SUBSET S |-> IF T = {} THEN 0 ELSE cost[First(T)] + g[T \ {First(T)}]]

\* Induction over the subsets of a finite set: among those that violate a claim
\* there is one whose proper subsets all satisfy it.
LEMMA SmallestSet ==
  ASSUME NEW S, NEW Bad, Bad \subseteq SUBSET S, IsFiniteSet(S), Bad # {}
  PROVE  \E T \in Bad : \A U \in SUBSET T : U # T => U \notin Bad
  <1>1. Bad \subseteq FiniteSubsetsOf(S)
    BY FS_Subset DEF FiniteSubsetsOf
  <1>2. \E T \in Bad : \A U \in Bad : ~ (<<U, T>> \in StrictSubsetOrdering(S))
    BY <1>1, WFMin, FS_StrictSubsetOrderingWellFounded
  <1>3. PICK T \in Bad : \A U \in Bad : ~ (<<U, T>> \in StrictSubsetOrdering(S))
    BY <1>2
  <1>4. ASSUME NEW U \in SUBSET T, U # T, U \in Bad PROVE FALSE
    BY <1>3, <1>4 DEF StrictSubsetOrdering
  <1>5. QED
    BY <1>4

\* Total is the running sum over the whole set, if there is a running sum.
LEMMA TotalIs ==
  ASSUME NEW S, NEW cost, \E g : IsSum(g, cost, S)
  PROVE  \E g : IsSum(g, cost, S) /\ Total(cost, S) = g[S]
  BY Zenon DEF Total, MapThenSumSet, MapThenFoldSet, IsSum, First

\* Two running sums agree on the sets they have in common.
LEMMA SumsAgree ==
  ASSUME NEW cost, NEW S, IsFiniteSet(S), NEW T, IsFiniteSet(T),
         NEW g, IsSum(g, cost, S), NEW h, IsSum(h, cost, T)
  PROVE  \A U \in (SUBSET S) \cap (SUBSET T) : g[U] = h[U]
  <1> DEFINE Bad == {U \in (SUBSET S) \cap (SUBSET T) : g[U] # h[U]}
  <1>1. ASSUME Bad # {} PROVE FALSE
    <2>0. Bad \subseteq SUBSET S
      OBVIOUS
    <2> HIDE DEF Bad
    <2>1. PICK U \in Bad : \A V \in SUBSET U : V # U => V \notin Bad
      BY <1>1, <2>0, SmallestSet
    <2> USE DEF Bad
    <2>2. U # {}
      BY DEF IsSum
    <2> DEFINE x == First(U)
    <2>3. x \in U
      BY <2>2 DEF First
    <2>4. g[U \ {x}] = h[U \ {x}]
      BY <2>1, <2>3
    <2>5. g[U] = cost[x] + g[U \ {x}] /\ h[U] = cost[x] + h[U \ {x}]
      BY <2>2 DEF IsSum
    <2>6. QED
      BY <2>4, <2>5
  <1>2. QED
    BY <1>1

\* Every finite set has a running sum.
LEMMA SumExists ==
  ASSUME NEW S, IsFiniteSet(S), NEW cost
  PROVE  \E g : IsSum(g, cost, S)
  <1> DEFINE Bad == {T \in SUBSET S : ~ \E g : IsSum(g, cost, T)}
  <1>1. ASSUME Bad # {} PROVE FALSE
    <2>1. PICK T \in Bad : \A U \in SUBSET T : U # T => U \notin Bad
      BY <1>1, SmallestSet
    <2>2. IsFiniteSet(T) /\ T \subseteq S
      BY FS_Subset
    <2>3. \A U \in SUBSET T : U # T => \E g : IsSum(g, cost, U)
      BY <2>1, <2>2
    <2> DEFINE sum(U) == CHOOSE g : IsSum(g, cost, U)
    <2>4. \A U \in SUBSET T : U # T => IsSum(sum(U), cost, U)
      BY <2>3
    <2> DEFINE below(U) == IF U = {} THEN 0 ELSE cost[First(U)] + sum(U \ {First(U)})[U \ {First(U)}]
               g == [U \in SUBSET T |-> below(U)]
    <2> HIDE DEF sum
    <2>5. ASSUME NEW U \in SUBSET T, U # T PROVE sum(U)[U] = below(U)
      <3>1. CASE U = {}
        BY <2>4, <2>5, <3>1 DEF IsSum
      <3>2. CASE U # {}
        <4> DEFINE x == First(U)
        <4>1. x \in U
          BY <3>2 DEF First
        <4>2. sum(U)[U] = cost[x] + sum(U)[U \ {x}]
          BY <2>4, <2>5, <3>2 DEF IsSum
        <4>3. U \ {x} \in SUBSET T /\ U \ {x} # T
          BY <4>1
        <4>4. IsFiniteSet(U) /\ IsFiniteSet(U \ {x})
          BY <2>2, FS_Subset
        <4> HIDE DEF x
        <4>5. sum(U)[U \ {x}] = sum(U \ {x})[U \ {x}]
          BY <2>4, <2>5, <4>3, <4>4, SumsAgree
        <4>6. QED
          BY <3>2, <4>2, <4>5 DEF x
      <3>3. QED
        BY <3>1, <3>2
    <2>6. ASSUME NEW U \in SUBSET T, U # {} PROVE below(U) = cost[First(U)] + g[U \ {First(U)}]
      <3> DEFINE x == First(U)
      <3>1. x \in U
        BY <2>6 DEF First
      <3>2. U \ {x} \in SUBSET T /\ U \ {x} # T
        BY <3>1
      <3>3. g[U \ {x}] = sum(U \ {x})[U \ {x}]
        BY <2>5, <3>2
      <3>4. QED
        BY <2>6, <3>3
    <2> HIDE DEF below
    <2>7. IsSum(g, cost, T)
      <3>1. \A U \in SUBSET T : below(U) = IF U = {} THEN 0 ELSE cost[First(U)] + g[U \ {First(U)}]
        BY <2>6 DEF below
      <3>2. QED
        BY <3>1 DEF IsSum
    <2>8. QED
      BY <2>7
  <1>2. QED
    BY <1>1

\* The recursion that the sum over a finite set satisfies.
LEMMA TotalRecursion ==
  ASSUME NEW S, IsFiniteSet(S), NEW cost
  PROVE  Total(cost, S) = IF S = {} THEN 0 ELSE cost[First(S)] + Total(cost, S \ {First(S)})
  <1> DEFINE R == S \ {First(S)}
  <1>1. IsFiniteSet(R)
    BY FS_Subset
  <1>2. PICK g : IsSum(g, cost, S) /\ Total(cost, S) = g[S]
    BY SumExists, TotalIs
  <1>3. PICK h : IsSum(h, cost, R) /\ Total(cost, R) = h[R]
    BY <1>1, SumExists, TotalIs
  <1>4. g[R] = h[R]
    BY <1>1, <1>2, <1>3, SumsAgree
  <1>5. g[S] = IF S = {} THEN 0 ELSE cost[First(S)] + g[R]
    BY <1>2 DEF IsSum
  <1>6. QED
    BY <1>2, <1>3, <1>4, <1>5

\* Any element can be taken out first, and the sum is a natural number.
LEMMA TotalRemove ==
  ASSUME NEW S, IsFiniteSet(S), NEW cost, \A x \in S : cost[x] \in Nat
  PROVE  /\ Total(cost, S) \in Nat
         /\ \A x \in S : Total(cost, S) = cost[x] + Total(cost, S \ {x})
  <1> DEFINE good(T) == /\ Total(cost, T) \in Nat
                        /\ \A x \in T : Total(cost, T) = cost[x] + Total(cost, T \ {x})
             Bad == {T \in SUBSET S : ~ good(T)}
  <1>1. ASSUME Bad # {} PROVE FALSE
    <2>1. Bad \subseteq SUBSET S
      OBVIOUS
    <2> HIDE DEF Bad
    <2>2. PICK T \in Bad : \A U \in SUBSET T : U # T => U \notin Bad
      BY <1>1, <2>1, SmallestSet
    <2> USE DEF Bad
    <2>3. T \subseteq S /\ ~ good(T) /\ \A U \in SUBSET T : U # T => good(U)
      BY <2>2
    <2>4. \A U \in SUBSET T : IsFiniteSet(U)
      BY <2>3, FS_Subset
    <2>5. T # {}
      <3>1. T = {} => Total(cost, T) = 0
        BY <2>4, TotalRecursion
      <3>2. QED
        BY <2>3, <3>1
    <2> DEFINE y == First(T)
    <2>6. y \in T
      BY <2>5 DEF First
    <2>7. Total(cost, T) = cost[y] + Total(cost, T \ {y})
      BY <2>4, <2>5, TotalRecursion
    <2> HIDE DEF y
    <2>8. good(T \ {y})
      BY <2>3, <2>6
    <2>9. Total(cost, T) \in Nat
      BY <2>3, <2>6, <2>7, <2>8
    <2>10. ASSUME NEW x \in T, x # y PROVE Total(cost, T) = cost[x] + Total(cost, T \ {x})
      <3>1. Total(cost, T \ {y}) = cost[x] + Total(cost, (T \ {y}) \ {x})
        BY <2>8, <2>10
      <3>2. good(T \ {x}) /\ y \in T \ {x}
        BY <2>3, <2>6, <2>10
      <3>3. Total(cost, T \ {x}) = cost[y] + Total(cost, (T \ {x}) \ {y})
        BY <3>2
      <3>4. (T \ {x}) \ {y} = (T \ {y}) \ {x}
        OBVIOUS
      <3>5. good((T \ {y}) \ {x})
        BY <2>3, <2>6
      <3>6. Total(cost, (T \ {y}) \ {x}) \in Nat /\ cost[x] \in Nat /\ cost[y] \in Nat
        BY <2>3, <2>6, <3>5
      <3> DEFINE rest == Total(cost, (T \ {y}) \ {x})
      <3>7. /\ Total(cost, T) = cost[y] + (cost[x] + rest)
            /\ Total(cost, T \ {x}) = cost[y] + rest
        BY <2>7, <3>1, <3>3, <3>4
      <3>8. rest \in Nat
        BY <3>6
      <3> HIDE DEF rest
      <3>9. cost[y] + (cost[x] + rest) = cost[x] + (cost[y] + rest)
        BY <3>6, <3>8
      <3>10. QED
        BY <3>7, <3>9
    <2>11. QED
      BY <2>3, <2>7, <2>9, <2>10
  <1>2. good(S)
    BY <1>1
  <1>3. QED
    BY <1>2

\* The sum over one element more.
LEMMA TotalAdd ==
  ASSUME NEW S, IsFiniteSet(S), NEW cost, NEW y, y \notin S,
         \A x \in S \cup {y} : cost[x] \in Nat
  PROVE  Total(cost, S \cup {y}) = Total(cost, S) + cost[y]
  <1>1. IsFiniteSet(S \cup {y}) /\ (S \cup {y}) \ {y} = S
    BY FS_AddElement
  <1>2. Total(cost, S \cup {y}) = cost[y] + Total(cost, S)
    BY <1>1, TotalRemove
  <1>3. Total(cost, S) \in Nat
    BY TotalRemove
  <1>4. QED
    BY <1>2, <1>3

\* Two cost functions that agree on S have the same sum over S.
LEMMA TotalSame ==
  ASSUME NEW S, IsFiniteSet(S), NEW c, NEW d, \A x \in S : c[x] = d[x]
  PROVE  Total(c, S) = Total(d, S)
  <1> DEFINE Bad == {T \in SUBSET S : Total(c, T) # Total(d, T)}
  <1>1. ASSUME Bad # {} PROVE FALSE
    <2>1. Bad \subseteq SUBSET S
      OBVIOUS
    <2> HIDE DEF Bad
    <2>2. PICK T \in Bad : \A U \in SUBSET T : U # T => U \notin Bad
      BY <1>1, <2>1, SmallestSet
    <2> USE DEF Bad
    <2>3. IsFiniteSet(T) /\ T \subseteq S
      BY <2>2, FS_Subset
    <2>4. T # {}
      BY <2>2, <2>3, TotalRecursion
    <2> DEFINE y == First(T)
    <2>5. y \in T
      BY <2>4 DEF First
    <2>6. Total(c, T) = c[y] + Total(c, T \ {y}) /\ Total(d, T) = d[y] + Total(d, T \ {y})
      BY <2>3, <2>4, TotalRecursion
    <2> HIDE DEF y
    <2>7. Total(c, T \ {y}) = Total(d, T \ {y})
      BY <2>2, <2>3, <2>5
    <2>8. QED
      BY <2>2, <2>3, <2>5, <2>6, <2>7
  <1>2. QED
    BY <1>1

\* What some more elements, each of at most cap, add to a sum.
LEMMA TotalBound ==
  ASSUME NEW S, IsFiniteSet(S), NEW cost, \A x \in S : cost[x] \in Nat,
         NEW A \in SUBSET S, NEW cap \in Nat, \A x \in S \ A : cost[x] <= cap
  PROVE  /\ Total(cost, A) <= Total(cost, S)
         /\ Total(cost, S) <= Total(cost, A) + Cardinality(S \ A) * cap
  <1> DEFINE good(T) == /\ Total(cost, A) <= Total(cost, T)
                        /\ Total(cost, T) <= Total(cost, A) + Cardinality(T \ A) * cap
             Bad == {T \in SUBSET S : A \subseteq T /\ ~ good(T)}
  <1>1. ASSUME Bad # {} PROVE FALSE
    <2>1. Bad \subseteq SUBSET S
      OBVIOUS
    <2> HIDE DEF Bad
    <2>2. PICK T \in Bad : \A U \in SUBSET T : U # T => U \notin Bad
      BY <1>1, <2>1, SmallestSet
    <2> USE DEF Bad
    <2>3. T \subseteq S /\ A \subseteq T /\ ~ good(T)
      BY <2>2
    <2>4. \A U \in SUBSET T : IsFiniteSet(U) /\ IsFiniteSet(U \ A)
      BY <2>3, FS_Subset
    <2>5. \A U \in SUBSET T : Total(cost, U) \in Nat
      BY <2>3, <2>4, TotalRemove
    <2>6. T # A
      <3>1. Cardinality(A \ A) = 0
        BY FS_EmptySet, A \ A = {}
      <3>2. Total(cost, A) \in Nat
        BY <2>3, <2>5
      <3>3. 0 * cap = 0
        OBVIOUS
      <3>4. QED
        BY <2>3, <3>1, <3>2, <3>3
    <2>7. PICK y \in T \ A : TRUE
      BY <2>3, <2>6
    <2>8. good(T \ {y})
      <3>1. T \ {y} \in SUBSET T /\ T \ {y} # T /\ A \subseteq T \ {y} /\ T \ {y} \subseteq S
        BY <2>3, <2>7
      <3>2. T \ {y} \notin Bad
        BY <2>2, <3>1
      <3>3. QED
        BY <3>1, <3>2
    <2>9. Total(cost, T) = cost[y] + Total(cost, T \ {y})
      BY <2>3, <2>4, <2>7, TotalRemove
    <2> DEFINE n == Cardinality((T \ {y}) \ A)
    <2>10. n \in Nat /\ Cardinality(T \ A) = n + 1
      <3>1. (T \ A) \ {y} = (T \ {y}) \ A /\ IsFiniteSet(T \ A) /\ IsFiniteSet((T \ {y}) \ A)
        BY <2>4
      <3>2. Cardinality((T \ A) \ {y}) = Cardinality(T \ A) - 1 /\ Cardinality(T \ A) \in Nat
        BY <2>7, <3>1, FS_RemoveElement, FS_CardinalityType
      <3>3. Cardinality((T \ {y}) \ A) \in Nat
        BY <3>1, FS_CardinalityType
      <3>4. Cardinality((T \ A) \ {y}) = n
        BY <3>1
      <3> HIDE DEF n
      <3>5. \A k \in Nat : n = k - 1 /\ n \in Nat => k = n + 1
        OBVIOUS
      <3>6. n \in Nat
        BY <3>3 DEF n
      <3>7. QED
        BY <3>2, <3>4, <3>5, <3>6
    <2> HIDE DEF n
    <2>11. (n + 1) * cap = n * cap + cap /\ n * cap \in Nat
      BY <2>10
    <2>12. cost[y] \in Nat /\ cost[y] <= cap
      BY <2>3, <2>7
    <2>13. /\ Total(cost, A) <= Total(cost, T \ {y})
           /\ Total(cost, T \ {y}) <= Total(cost, A) + n * cap
      BY <2>8 DEF n
    <2>14. good(T)
      <3> DEFINE t == Total(cost, T) a == Total(cost, A) u == Total(cost, T \ {y}) m == n * cap
      <3>1. t \in Nat /\ a \in Nat /\ u \in Nat /\ m \in Nat
        BY <2>3, <2>5, <2>11
      <3>2. t = cost[y] + u /\ a <= u /\ u <= a + m
        BY <2>9, <2>13
      <3>3. Cardinality(T \ A) * cap = m + cap
        BY <2>10, <2>11
      <3> HIDE DEF t, a, u, m
      <3>4. a <= t /\ t <= a + (m + cap)
        BY <2>12, <3>1, <3>2
      <3>5. QED
        BY <3>3, <3>4 DEF t, a
    <2>15. QED
      BY <2>3, <2>14
  <1>2. good(S)
    BY <1>1
  <1>3. QED
    BY <1>2

(***************************************************************************)
(* Spending.                                                               *)
(***************************************************************************)

\* What each request costs: the job it has, or the brief that passed its check.
Grants == [r \in Requests |-> Cost[IF r \in Checked THEN api[r].brief ELSE job[r].brief]]

\* The invariant behind SpendOvershootBounded (request_generation): a request that has
\* passed the check spends its estimate already, as nothing stops its commit.
GrantsBounded ==
  /\ IsFiniteSet(Jobs \cup Checked)
  /\ \A r \in Checked : Grants[r] <= RunCap
  /\ Total(Grants, Jobs \cup Checked) <= DayCap + (MaxInFlight - 1) * RunCap

\* A step after which the same jobs and grants exist, at the same estimates.
LEMMA GrantsKept ==
  ASSUME GrantsBounded,
         Jobs' \cup Checked' = Jobs \cup Checked,
         \A r \in Jobs \cup Checked : Grants'[r] = Grants[r],
         Checked' \subseteq Checked
  PROVE  GrantsBounded'
  <1>1. Total(Grants', Jobs \cup Checked) = Total(Grants, Jobs \cup Checked)
    BY TotalSame DEF GrantsBounded
  <1>2. QED
    BY <1>1 DEF GrantsBounded

LEMMA GrantsType ==
  ASSUME TypeOK
  PROVE  /\ \A r \in Requests : Grants[r] \in Nat
         /\ Jobs \subseteq Requests
         /\ Checked \subseteq Requests
  BY ConstantsOK DEF TypeOK, ApiRows, JobRows, Grants, Jobs, Checked

\* What has been spent is what has been granted to those that committed.
LEMMA SpentIsGranted ==
  ASSUME IInv, IsFiniteSet(Jobs)
  PROVE  Spent(Jobs) = Total(Grants, Jobs)
  <1>1. \A j \in Jobs : j \in Requests /\ j \notin Checked
    BY DEF IInv, RequestOK, Jobs, Checked
  <1> DEFINE cost == [j \in Requests |-> Cost[job[j].brief]]
  <1>2. \A j \in Jobs : cost[j] = Grants[j]
    BY <1>1 DEF Grants
  <1> HIDE DEF cost
  <1>3. Total(cost, Jobs) = Total(Grants, Jobs)
    BY <1>2, TotalSame
  <1>4. QED
    BY <1>3 DEF Spent, cost

\* The check of one more request, with fewer than MaxInFlight granted before it:
\* each of those is granted RunCap at most, and the check saw all jobs.
LEMMA CheckGrants ==
  ASSUME IInv, GrantsBounded, NEW r \in Requests, NEW b \in Briefs, NEW force \in BOOLEAN,
         GenerateChecked(r, b, force)
  PROVE  GrantsBounded'
  <1> DEFINE held == Jobs \cup Checked
             n == Cardinality(Checked)
  <1>1. /\ TypeOK /\ RequestOK(r)
        /\ api[r].pc = "idle" /\ n < MaxInFlight /\ job' = job
        /\ Cost[b] <= RunCap /\ Spent(Jobs) + Cost[b] <= DayCap
        /\ Generates(r, "checked", b, force, r)
    BY DEF IInv, GenerateChecked, WithinCaps
  <1>2. api' \in [Requests -> ApiRows] /\ api'[r].pc = "checked" /\ api'[r].brief = b
    BY <1>1 DEF Generates, TypeOK, ApiRows
  <1>3. \A q \in Requests \ {r} : api'[q] = api[q]
    BY <1>1 DEF Generates, TypeOK
  <1>4. /\ Jobs' = Jobs /\ Checked' = Checked \cup {r}
        /\ r \notin held
    BY <1>1, <1>2, <1>3 DEF Jobs, Checked, RequestOK
  <1>5. /\ IsFiniteSet(held) /\ IsFiniteSet(Jobs) /\ IsFiniteSet(Checked)
        /\ held \subseteq Requests
    BY <1>1, GrantsType, FS_Subset DEF GrantsBounded
  <1>6. Grants'[r] = Cost[b] /\ \A q \in held : Grants'[q] = Grants[q]
    BY <1>1, <1>2, <1>3, <1>4, <1>5 DEF Grants, Checked
  <1>7. /\ Cost[b] \in Nat /\ RunCap \in Nat /\ DayCap \in Nat
        /\ n \in Nat /\ MaxInFlight \in Nat
    BY <1>5, ConstantsOK, FS_CardinalityType
  <1> HIDE DEF held, n
  <1>8. Total(Grants', held \cup {r}) = Total(Grants, held) + Cost[b]
    <2>1. \A q \in held : Grants[q] \in Nat
      BY <1>1, <1>5, GrantsType
    <2>2. \A q \in held \cup {r} : Grants'[q] \in Nat
      BY <1>6, <1>7, <2>1
    <2>3. Total(Grants', held \cup {r}) = Total(Grants', held) + Grants'[r]
      BY <1>4, <1>5, <2>2, TotalAdd
    <2>4. Total(Grants', held) = Total(Grants, held)
      BY <1>5, <1>6, TotalSame
    <2>5. QED
      BY <1>6, <2>3, <2>4
  <1>9. Total(Grants, held) <= Total(Grants, Jobs) + n * RunCap
    <2>1. held \ Jobs \subseteq Checked /\ Jobs \in SUBSET held
      BY DEF held
    <2>2. \A q \in held : Grants[q] \in Nat
      BY <1>1, <1>5, GrantsType
    <2>3. \A q \in held \ Jobs : Grants[q] <= RunCap
      BY <2>1 DEF GrantsBounded
    <2>4. Total(Grants, held) <= Total(Grants, Jobs) + Cardinality(held \ Jobs) * RunCap
      BY <1>5, <1>7, <2>1, <2>2, <2>3, TotalBound
    <2>5. held \ Jobs = Checked
      BY DEF held, IInv, RequestOK, Jobs, Checked
    <2>6. QED
      BY <2>4, <2>5 DEF n
  <1>10. n * RunCap <= (MaxInFlight - 1) * RunCap
    <2> DEFINE k == MaxInFlight - 1
    <2>1. k \in Nat /\ n <= k
      BY <1>1, <1>7
    <2> HIDE DEF k
    <2>2. n * RunCap <= k * RunCap
      BY <1>7, <2>1
    <2>3. QED
      BY <2>2 DEF k
  <1>11. Total(Grants', held \cup {r}) <= DayCap + (MaxInFlight - 1) * RunCap
    <2> DEFINE t == Total(Grants, held)  s == Total(Grants, Jobs)
               m == n * RunCap  k == (MaxInFlight - 1) * RunCap
    <2>1. t \in Nat /\ s \in Nat
      BY <1>1, <1>5, GrantsType, TotalRemove
    <2>2. m \in Nat /\ k \in Int
      BY <1>7
    <2>3. s + Cost[b] <= DayCap
      BY <1>1, <1>5, SpentIsGranted
    <2>4. t <= s + m /\ m <= k
      BY <1>9, <1>10
    <2> HIDE DEF t, s, m, k
    <2>5. t + Cost[b] <= DayCap + k
      BY <1>7, <2>1, <2>2, <2>3, <2>4
    <2>6. QED
      BY <1>8, <2>5 DEF t, k
  <1>12. IsFiniteSet(held \cup {r}) /\ Jobs' \cup Checked' = held \cup {r}
    BY <1>4, <1>5, FS_AddElement DEF held
  <1>13. \A q \in Checked' : Grants'[q] <= RunCap
    BY <1>1, <1>4, <1>6 DEF GrantsBounded, held
  <1>14. QED
    BY <1>11, <1>12, <1>13 DEF GrantsBounded

LEMMA ApiGrants ==
  ASSUME IInv, GrantsBounded, NEW r \in Requests, ApiStep(r)
  PROVE  GrantsBounded'
  <1>1. /\ TypeOK /\ RequestOK(r) /\ ApiFrame(r)
    BY ApiFrameHolds DEF IInv
  <1>2. \A q \in Requests \ {r} : api'[q] = api[q] /\ job'[q] = job[q]
    BY <1>1 DEF ApiFrame
  \* All steps but the check and the commit leave jobs and grants alone.
  <1>3. ASSUME job' = job, api[r].pc # "checked", api'[r].pc # "checked"
        PROVE  GrantsBounded'
    <2>1. Jobs' = Jobs /\ Checked' = Checked /\ r \notin Checked
      BY <1>2, <1>3 DEF Jobs, Checked
    <2>2. \A q \in Jobs \cup Checked : Grants'[q] = Grants[q]
      BY <1>2, <1>3, <2>1 DEF Grants, Jobs, Checked
    <2>3. QED
      BY <2>1, <2>2, GrantsKept
  <1>4. ASSUME NEW b \in Briefs, GenerateAnswered(r, b) PROVE GrantsBounded'
    <2>1. PICK j \in Requests : Generates(r, "done", b, FALSE, j)
      BY <1>4 DEF GenerateAnswered, WithBrief, Jobs
    <2>2. api'[r].pc = "done" /\ api[r].pc = "idle" /\ job' = job
      BY <1>1, <1>4, <2>1 DEF Generates, GenerateAnswered, TypeOK
    <2>3. QED
      BY <1>3, <2>2
  <1>5. ASSUME NEW b \in Briefs, NEW force \in BOOLEAN, GenerateChecked(r, b, force)
        PROVE  GrantsBounded'
    BY <1>5, CheckGrants
  <1>6. CASE GenerateCommitted(r)
    <2>1. /\ job'[r].brief = api[r].brief /\ job'[r].status = "queued"
          /\ api[r].pc = "checked" /\ api'[r].pc = "committed"
      BY <1>1, <1>6 DEF GenerateCommitted, TypeOK
    <2>2. /\ Jobs' = Jobs \cup {r} /\ Checked' = Checked \ {r}
          /\ r \in Checked
      BY <1>2, <2>1 DEF Jobs, Checked
    <2>3. \A q \in Jobs \cup Checked : Grants'[q] = Grants[q]
      BY <1>2, <2>1, <2>2 DEF Grants, Jobs, Checked
    <2>4. QED
      BY <2>2, <2>3, GrantsKept
  <1>7. ASSUME NEW j \in Requests, RenderRequested(r, j) PROVE GrantsBounded'
    <2>1. api'[r].pc = "committed" /\ api[r].pc = "idle" /\ job' = job
      BY <1>1, <1>7 DEF RenderRequested, TypeOK
    <2>2. QED
      BY <1>3, <2>1
  <1>8. CASE Enqueued(r) \/ EnqueueFailed(r)
    <2>1. api'[r].pc = "done" /\ api[r].pc = "committed" /\ job' = job
      BY <1>1, <1>8 DEF Enqueued, EnqueueFailed, TypeOK, ApiRows
    <2>2. QED
      BY <1>3, <2>1
  <1>9. QED
    BY <1>4, <1>5, <1>6, <1>7, <1>8 DEF ApiStep

LEMMA WorkerGrants ==
  ASSUME IInv, GrantsBounded, NEW r \in Requests, WorkerStep(r) \/ Stopped(r)
  PROVE  GrantsBounded'
  <1>1. /\ api' = api /\ Jobs' = Jobs
        /\ \A j \in Requests : job'[j].brief = job[j].brief
    BY WorkerKeepsJobs
  <1>2. Checked' = Checked
    BY <1>1 DEF Checked
  <1>3. \A q \in Jobs \cup Checked : Grants'[q] = Grants[q]
    BY <1>1, <1>2 DEF Grants, Jobs, Checked
  <1>4. QED
    BY <1>1, <1>2, <1>3, GrantsKept

\* What is spent and what is granted exceed the daily cap by one run per
\* further request in flight, at most (_check_daily_cap reads before the insert).
THEOREM GrantsStayBounded == Spec => []GrantsBounded
  <1>1. Init => GrantsBounded
    <2> SUFFICES ASSUME Init PROVE GrantsBounded
      OBVIOUS
    <2>1. Jobs = {} /\ Checked = {}
      BY DEF Init, Jobs, Checked
    <2>2. IsFiniteSet({}) /\ Total(Grants, {}) = 0
      BY FS_EmptySet, TotalRecursion
    <2>3. MaxInFlight - 1 \in Nat /\ DayCap \in Nat /\ RunCap \in Nat
      BY ConstantsOK
    <2>4. (MaxInFlight - 1) * RunCap \in Nat
      BY <2>3
    <2>5. 0 <= DayCap + (MaxInFlight - 1) * RunCap
      BY <2>3, <2>4
    <2>6. QED
      BY <2>1, <2>2, <2>5 DEF GrantsBounded
  <1>2. IInv /\ GrantsBounded /\ [Next]_vars => GrantsBounded'
    <2>1. ASSUME GrantsBounded, UNCHANGED vars PROVE GrantsBounded'
      BY <2>1 DEF GrantsBounded, Grants, Jobs, Checked, vars
    <2>2. QED
      BY <2>1, ApiGrants, WorkerGrants DEF Next
  <1>3. QED
    BY <1>1, <1>2, Invariance, PTL DEF Spec

\* The committed spend of the day stays within the cap and one run for every
\* other request in flight, for any number of requests and any costs.
THEOREM OvershootIsBounded == Spec => []SpendOvershootBounded
  <1>1. IInv /\ GrantsBounded => SpendOvershootBounded
    <2> SUFFICES ASSUME IInv, GrantsBounded PROVE SpendOvershootBounded
      OBVIOUS
    <2> DEFINE held == Jobs \cup Checked
               t == Total(Grants, held)  s == Total(Grants, Jobs)
               k == (MaxInFlight - 1) * RunCap
    <2>1. /\ IsFiniteSet(held) /\ Jobs \in SUBSET held /\ IsFiniteSet(Jobs)
          /\ \A q \in held : Grants[q] \in Nat
      BY GrantsType, FS_Subset DEF GrantsBounded, IInv
    <2>2. \A q \in held \ Jobs : Grants[q] <= RunCap
      BY DEF GrantsBounded
    <2>3. RunCap \in Nat /\ DayCap \in Nat /\ MaxInFlight \in Nat
      BY ConstantsOK
    <2>4. s <= t
      BY <2>1, <2>2, <2>3, TotalBound
    <2>5. t <= DayCap + k
      BY DEF GrantsBounded
    <2>6. s \in Nat /\ t \in Nat /\ k \in Int
      BY <2>1, <2>3, TotalRemove
    <2>7. Spent(Jobs) = s
      BY <2>1, SpentIsGranted
    <2> HIDE DEF s, t, k
    <2>8. s <= DayCap + k
      BY <2>3, <2>4, <2>5, <2>6
    <2>9. QED
      BY <2>7, <2>8 DEF SpendOvershootBounded, k
  <1>2. QED
    BY <1>1, GrantsStayBounded, Invariance, PTL
=============================================================================
