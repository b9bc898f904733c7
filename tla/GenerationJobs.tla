--------------------------- MODULE GenerationJobs ---------------------------
(***************************************************************************)
(* The creative-generation pipeline: the API handlers that create a        *)
(* generation job and that ask for its assets to be rendered               *)
(* (CreativeService), the arq queue between them and the worker, and the   *)
(* worker's two phases (ideation, asset rendering).                        *)
(*                                                                         *)
(* A job is named by the API request that created it, and an arq message   *)
(* by the API request that enqueued it: each request creates at most one   *)
(* job and enqueues at most one message.                                   *)
(*                                                                         *)
(* Atomicity.  An API request reads everything through one database        *)
(* snapshot (one session, REPEATABLE READ), so its reads and checks are    *)
(* one step and its commit another; a worker task is one step per commit   *)
(* and per batch of results that a provider returns.                       *)
(*                                                                         *)
(* Abstracted: one company, one day (the per-day window never rolls over), *)
(* audit rows, what a job row only reports (started_at, finished_at,       *)
(* error_message, arq_job_id: no code reads them), texts, prompts, bytes.  *)
(***************************************************************************)
EXTENDS Integers, FiniteSets, FiniteSetsExt

CONSTANTS
  Requests,     \* API calls, each served by one session
  Briefs,       \* distinct idempotency keys, product included
  Reels,        \* the briefs whose format is "reel"
  Cost,         \* Cost[b] : the estimate for a brief, in INR
  RunCap,       \* CREATIVE_MAX_COST_PER_RUN_INR
  DayCap,       \* CREATIVE_MAX_COST_PER_DAY_INR
  MaxConcepts,  \* bound: concepts that one ideation keeps
  MaxTries,     \* arq's max_tries: deliveries of one message
  MaxInFlight,  \* bound: generate requests between snapshot and commit
  MaxStops      \* bound: runs of the worker stopped by a crash or a shutdown

ASSUME ConstantsOK ==
  /\ Briefs # {}
  /\ Reels \subseteq Briefs
  /\ Cost \in [Briefs -> Nat]
  /\ RunCap \in Nat
  /\ DayCap \in Nat
  /\ MaxConcepts \in Nat \ {0}
  /\ MaxTries \in Nat \ {0}
  /\ MaxInFlight \in Nat \ {0}
  /\ MaxStops \in Nat

VARIABLES
  api,       \* api[r]  : what API request r is doing
  job,       \* job[r]  : the generation_jobs row that request r created
  task,      \* task[r] : the arq message that request r enqueued, and its run
  concepts,  \* committed creative_concepts rows
  assets,    \* committed creative_assets rows
  files,     \* objects in file storage
  clock,     \* number of jobs committed so far, the order of created_at
  stops      \* worker runs stopped so far

vars == <<api, job, task, concepts, assets, files, clock, stops>>

-----------------------------------------------------------------------------
(* The data.                                                               *)

Statuses == {"queued", "running", "awaiting_render",
             "succeeded", "failed", "partially_failed"}

\* "none": the row does not exist.
JobRows == [brief  : Briefs,
            status : Statuses \cup {"none"},
            at     : Nat]

Indexes == 0 .. MaxConcepts - 1

\* `attempt` tells apart the rows that two deliveries of one message insert:
\* nothing makes (job_id, concept_index) unique.  `script`: an accepted concept
\* of a reel came with a reel_script, which the model may leave out; nothing
\* reads the script of any other concept.
ConceptRows == [job      : Requests,
                attempt  : 1 .. MaxTries,
                index    : Indexes,
                rejected : BOOLEAN,
                script   : BOOLEAN]

AssetKinds == {"image", "raw_clip", "video"}

\* `by` and `attempt` name the run that inserted the row.
AssetRows == [concept : ConceptRows,
              kind    : AssetKinds,
              by      : Requests,
              attempt : 1 .. MaxTries]

FileKeys == [job : Requests, index : Indexes, kind : AssetKinds]

\* force and began (the clock at the request's snapshot) are kept as history.
ApiRows == [pc    : {"idle", "checked", "committed", "done"},
            op    : {"none", "generate", "render"},
            brief : Briefs,
            force : BOOLEAN,
            began : Nat,
            job   : Requests]

\* A run between two of its durable steps.
Running == {"ideating", "rendering", "imaged", "assembled"}

\* "acking": the run returned and arq has not removed the message yet.
\* "abandoned": arq dropped the message after MaxTries deliveries.
TaskRows == [phase   : Running \cup {"none", "queued", "acking", "done", "abandoned"},
             attempt : 0 .. MaxTries,
             pending : SUBSET AssetRows]

Jobs == {j \in Requests : job[j].status # "none"}

\* Generate requests that passed every check and have not committed.
Checked == {r \in Requests : api[r].pc = "checked"}

IsReel(j) == job[j].brief \in Reels
ConceptsOf(j) == {c \in concepts : c.job = j}

\* The storage key carries no run, so a second render overwrites.
FileOf(a) == [job |-> a.concept.job, index |-> a.concept.index, kind |-> a.kind]

\* SUM(coalesce(actual_cost_inr, estimated_cost_inr)) over today's jobs of the
\* company: nothing writes actual_cost_inr, and failed jobs count.
Total(cost, S) == MapThenSumSet(LAMBDA x : cost[x], S)
Spent(J) == Total([j \in Requests |-> Cost[job[j].brief]], J)

\* A variant of WithinCaps that forgets the request's own estimate.
WithinCapsSoFar(b, others) == Cost[b] <= RunCap /\ Spent(others) < DayCap

WithinCaps(b, others) == /\ Cost[b] <= RunCap
                         /\ Spent(others) + Cost[b] <= DayCap

SetStatus(j, s) == job' = [job EXCEPT ![j].status = s]

-----------------------------------------------------------------------------
Init ==
  LET b == CHOOSE b \in Briefs : TRUE IN
  /\ api = [r \in Requests |-> [pc |-> "idle", op |-> "none", brief |-> b,
                                force |-> FALSE, began |-> 0, job |-> r]]
  /\ job = [r \in Requests |-> [brief |-> b, status |-> "none", at |-> 0]]
  /\ task = [r \in Requests |-> [phase |-> "none", attempt |-> 0, pending |-> {}]]
  /\ concepts = {}
  /\ assets = {}
  /\ files = {}
  /\ clock = 0
  /\ stops = 0

-----------------------------------------------------------------------------
(* POST .../creatives/generate : CreativeService.request_generation.       *)

WithBrief(b) == {j \in Jobs : job[j].brief = b}

Generates(r, pc, b, force, j) ==
  api' = [api EXCEPT ![r] = [pc |-> pc, op |-> "generate", brief |-> b,
                             force |-> force, began |-> clock, job |-> j]]

\* An identical brief was asked for before and force is not set: the handler
\* returns the job of the newest such brief, whatever became of it.
GenerateAnswered(r, b) ==
  /\ api[r].pc = "idle"
  /\ \E j \in WithBrief(b) :
       /\ \A k \in WithBrief(b) : job[k].at <= job[j].at
       /\ Generates(r, "done", b, FALSE, j)
  /\ UNCHANGED <<job, task, concepts, assets, files, clock, stops>>

\* A variant of GenerateChecked without the idempotency lookup.
GenerateCheckedAnew(r, b, force) ==
  /\ api[r].pc = "idle"
  /\ Cardinality(Checked) < MaxInFlight
  /\ WithinCaps(b, Jobs)
  /\ Generates(r, "checked", b, force, r)
  /\ UNCHANGED <<job, task, concepts, assets, files, clock, stops>>

\* The snapshot and every check on it: idempotency, per-run cap, per-day cap.
\* (A refused request changes nothing and is no step.)
GenerateChecked(r, b, force) ==
  /\ api[r].pc = "idle"
  /\ Cardinality(Checked) < MaxInFlight
  /\ force \/ WithBrief(b) = {}
  /\ WithinCaps(b, Jobs)
  /\ Generates(r, "checked", b, force, r)
  /\ UNCHANGED <<job, task, concepts, assets, files, clock, stops>>

\* The brief and the queued job are committed together.
GenerateCommitted(r) ==
  /\ api[r].pc = "checked"
  /\ clock' = clock + 1
  /\ job' = [job EXCEPT ![r] = [brief |-> api[r].brief, status |-> "queued",
                                at |-> clock + 1]]
  /\ api' = [api EXCEPT ![r].pc = "committed"]
  /\ UNCHANGED <<task, concepts, assets, files, stops>>

\* A variant of RenderRequested that accepts a job at any status.
RenderRequestedAnytime(r, j) ==
  /\ api[r].pc = "idle"
  /\ j \in Jobs
  /\ WithinCaps(job[j].brief, Jobs \ {j})
  /\ api' = [api EXCEPT ![r] = [pc |-> "committed", op |-> "render",
                                brief |-> job[j].brief, force |-> FALSE,
                                began |-> clock, job |-> j]]
  /\ UNCHANGED <<job, task, concepts, assets, files, clock, stops>>

(* POST .../jobs/{id}/render-assets : CreativeService.render_assets.  Its   *)
(* commit writes an audit row only: the job stays awaiting_render.          *)
RenderRequested(r, j) ==
  /\ api[r].pc = "idle"
  /\ job[j].status = "awaiting_render"
  /\ WithinCaps(job[j].brief, Jobs \ {j})
  /\ api' = [api EXCEPT ![r] = [pc |-> "committed", op |-> "render",
                                brief |-> job[j].brief, force |-> FALSE,
                                began |-> clock, job |-> j]]
  /\ UNCHANGED <<job, task, concepts, assets, files, clock, stops>>

\* enqueue_job comes after the commit ...
Enqueued(r) ==
  /\ api[r].pc = "committed"
  /\ api' = [api EXCEPT ![r].pc = "done"]
  /\ task' = [task EXCEPT ![r].phase = "queued"]
  /\ UNCHANGED <<job, concepts, assets, files, clock, stops>>

\* ... so Redis being down, or the API process dying here, leaves a committed
\* row that no message will ever pick up.
EnqueueFailed(r) ==
  /\ api[r].pc = "committed"
  /\ api' = [api EXCEPT ![r].pc = "done"]
  /\ UNCHANGED <<job, task, concepts, assets, files, clock, stops>>

-----------------------------------------------------------------------------
(* The worker: generate_creatives_job and render_creative_assets_job.      *)

Target(r) == api[r].job
Goto(r, p) == task' = [task EXCEPT ![r].phase = p]
\* A variant of Leave that neither commits nor rolls back the session.
LeaveKeepingRows(r, p) == task' = [task EXCEPT ![r].phase = p]

\* Leaving a run with its uncommitted asset rows rolled back or committed.
Leave(r, p) == task' = [task EXCEPT ![r].phase = p, ![r].pending = {}]

\* A variant of Deliver without the max_tries check.
DeliverAgain(r, p) ==
  /\ task[r].phase = "queued"
  /\ task' = [task EXCEPT ![r].phase = p, ![r].attempt = @ + 1]

\* A delivery of message r that the job function runs, in phase p.
Deliver(r, p) ==
  /\ task[r].phase = "queued"
  /\ task[r].attempt < MaxTries
  /\ task' = [task EXCEPT ![r].phase = p, ![r].attempt = @ + 1]

\* The status of the job is not looked at: a redelivery starts over.
IdeationStarted(r) ==
  /\ api[r].op = "generate"
  /\ Deliver(r, "ideating")
  /\ SetStatus(Target(r), "running")
  /\ UNCHANGED <<api, concepts, assets, files, clock, stops>>

\* What may come out of an ideation: one entry per item of the model's answer
\* that passes validation, in the order of the answer.  It is never empty, and
\* may be shorter or longer than asked for and differ between deliveries.
Ideations(r) ==
  LET shapes == {"rejected", "plain"} \cup IF IsReel(Target(r)) THEN {"scripted"} ELSE {}
  IN  UNION {[0 .. n - 1 -> shapes] : n \in 1 .. MaxConcepts}

\* One concept row per entry.
Drafts(r, out) ==
  {[job |-> Target(r), attempt |-> task[r].attempt, index |-> i,
    rejected |-> out[i] = "rejected", script |-> out[i] = "scripted"] : i \in DOMAIN out}

\* A variant of IdeationCommitted that does not make a reel wait.
IdeationCommittedOnward(r, out) ==
  /\ task[r].phase = "ideating"
  /\ concepts' = concepts \cup Drafts(r, out)
  /\ Goto(r, "rendering")
  /\ UNCHANGED <<api, job, assets, files, clock, stops>>

\* The provider answered and the compliance gate went over the answer.
\* A reel stops here; a post or carousel goes straight on to rendering (in the
\* same session, whose job object already says running: no write).
IdeationCommitted(r, out) ==
  LET j == Target(r) IN
  /\ task[r].phase = "ideating"
  /\ concepts' = concepts \cup Drafts(r, out)
  /\ IF IsReel(j) THEN SetStatus(j, "awaiting_render") /\ Goto(r, "acking")
                  ELSE Goto(r, "rendering") /\ UNCHANGED job
  /\ UNCHANGED <<api, assets, files, clock, stops>>

IdeationFailed(r) ==
  /\ task[r].phase = "ideating"
  /\ SetStatus(Target(r), "failed")
  /\ Leave(r, "acking")
  /\ UNCHANGED <<api, concepts, assets, files, clock, stops>>

RenderStarted(r) ==
  /\ api[r].op = "render"
  /\ Deliver(r, "rendering")
  /\ SetStatus(Target(r), "running")
  /\ UNCHANGED <<api, concepts, assets, files, clock, stops>>

\* concept_rows maps each index of the rows C that were read to one of them.
Picks(C) ==
  {S \in SUBSET C : /\ \A c \in C : \E d \in S : d.index = c.index
                    /\ \A c, d \in S : c.index = d.index => c = d}

\* The rows of run r for the concepts in S, and their upload.
Rendering(r, S, kinds) ==
  {[concept |-> c, kind |-> k, by |-> r, attempt |-> task[r].attempt]
     : c \in S, k \in kinds}

Persist(r, rows, p) ==
  /\ files' = files \cup {FileOf(a) : a \in rows}
  /\ task' = [task EXCEPT ![r].phase = p, ![r].pending = @ \cup rows]

\* A variant of ImagesRendered that renders the rejected concepts too.
AllImagesRendered(r, S) ==
  /\ task[r].phase = "rendering"
  /\ Persist(r, Rendering(r, S, {"image"}), "imaged")
  /\ UNCHANGED <<api, job, concepts, assets, clock, stops>>

\* Images of every accepted concept, stored at once, their rows uncommitted.
ImagesRendered(r, S) ==
  /\ task[r].phase = "rendering"
  /\ Persist(r, Rendering(r, {c \in S : ~c.rejected}, {"image"}), "imaged")
  /\ UNCHANGED <<api, job, concepts, assets, clock, stops>>

\* Clips and the assembled reel of every rendered concept that has a script; a
\* concept without one keeps its cover only, and the run goes on.  (A script has a
\* scene, and a missing reference image raises: no script ends without clips.)
ReelAssembled(r) ==
  LET scripted == {a.concept : a \in {a \in task[r].pending : a.concept.script}} IN
  /\ task[r].phase = "imaged"
  /\ IsReel(Target(r))
  /\ Persist(r, Rendering(r, scripted, {"raw_clip", "video"}), "assembled")
  /\ UNCHANGED <<api, job, concepts, assets, clock, stops>>

\* A variant of RenderCommitted that does not wait for a reel's clips.
RenderCommittedEarly(r) ==
  /\ task[r].phase = "imaged"
  /\ assets' = assets \cup task[r].pending
  /\ SetStatus(Target(r), "succeeded")
  /\ Leave(r, "acking")
  /\ UNCHANGED <<api, concepts, files, clock, stops>>

RenderCommitted(r) ==
  /\ task[r].phase = IF IsReel(Target(r)) THEN "assembled" ELSE "imaged"
  /\ assets' = assets \cup task[r].pending
  /\ SetStatus(Target(r), "succeeded")
  /\ Leave(r, "acking")
  /\ UNCHANGED <<api, concepts, files, clock, stops>>

\* A variant of RenderFailed that commits without the rollback.
RenderFailedUnrolled(r) ==
  /\ task[r].phase \in {"rendering", "imaged", "assembled"}
  /\ assets' = assets \cup task[r].pending
  /\ SetStatus(Target(r), "partially_failed")
  /\ Leave(r, "acking")
  /\ UNCHANGED <<api, concepts, files, clock, stops>>

\* A provider, ffmpeg or storage raised: the asset rows are rolled back.
RenderFailed(r) ==
  /\ task[r].phase \in {"rendering", "imaged", "assembled"}
  /\ SetStatus(Target(r), "partially_failed")
  /\ Leave(r, "acking")
  /\ UNCHANGED <<api, concepts, assets, files, clock, stops>>

\* CancelledError inside the run: what each phase's handler commits.
CancelledStatus(r) == IF task[r].pending # {} THEN "partially_failed" ELSE "failed"

\* Variants of TimedOut: one without the CancelledError handlers, one that asks
\* arq to try the run again from the first attempt.
TimedOutUnhandled(r) ==
  /\ task[r].phase \in Running
  /\ Leave(r, "acking")
  /\ UNCHANGED <<api, job, concepts, assets, files, clock, stops>>

TimedOutRetried(r) ==
  /\ task[r].phase \in Running
  /\ SetStatus(Target(r), CancelledStatus(r))
  /\ task' = [task EXCEPT ![r] = [phase |-> "queued", attempt |-> 0, pending |-> {}]]
  /\ UNCHANGED <<api, concepts, assets, files, clock, stops>>

\* job_timeout: arq counts the run as failed and will not run it again.
TimedOut(r) ==
  /\ task[r].phase \in Running
  /\ SetStatus(Target(r), CancelledStatus(r))
  /\ Leave(r, "acking")
  /\ UNCHANGED <<api, concepts, assets, files, clock, stops>>

\* Graceful shutdown: the same handlers run, and arq keeps the message.
ShutDown(r) ==
  /\ task[r].phase \in Running
  /\ stops < MaxStops
  /\ stops' = stops + 1
  /\ SetStatus(Target(r), CancelledStatus(r))
  /\ Leave(r, "queued")
  /\ UNCHANGED <<api, concepts, assets, files, clock>>

\* The worker process dies: no handler runs, the message is delivered again.
Crashed(r) ==
  /\ task[r].phase \in Running \cup {"acking"}
  /\ stops < MaxStops
  /\ stops' = stops + 1
  /\ Leave(r, "queued")
  /\ UNCHANGED <<api, job, concepts, assets, files, clock>>

\* arq removes the message once its run has returned ...
Acked(r) ==
  /\ task[r].phase = "acking"
  /\ Goto(r, "done")
  /\ UNCHANGED <<api, job, concepts, assets, files, clock, stops>>

\* ... or without running it when it has been delivered MaxTries times.
Abandoned(r) ==
  /\ task[r].phase = "queued"
  /\ task[r].attempt = MaxTries
  /\ Goto(r, "abandoned")
  /\ UNCHANGED <<api, job, concepts, assets, files, clock, stops>>

-----------------------------------------------------------------------------
ApiStep(r) ==
  \/ \E b \in Briefs : GenerateAnswered(r, b)
  \/ \E b \in Briefs, force \in BOOLEAN : GenerateChecked(r, b, force)
  \/ GenerateCommitted(r)
  \/ \E j \in Requests : RenderRequested(r, j)
  \/ Enqueued(r)
  \/ EnqueueFailed(r)

\* Steps a live worker takes with message r.
WorkerStep(r) ==
  \/ IdeationStarted(r)
  \/ \E out \in Ideations(r) : IdeationCommitted(r, out)
  \/ IdeationFailed(r)
  \/ RenderStarted(r)
  \/ \E S \in Picks(ConceptsOf(Target(r))) : ImagesRendered(r, S)
  \/ ReelAssembled(r)
  \/ RenderCommitted(r)
  \/ RenderFailed(r)
  \/ TimedOut(r)
  \/ Acked(r)
  \/ Abandoned(r)

Stopped(r) == ShutDown(r) \/ Crashed(r)

Next == \E r \in Requests : ApiStep(r) \/ WorkerStep(r) \/ Stopped(r)

Spec == Init /\ [][Next]_vars

\* Clients owe nothing.  A worker keeps polling, and a run ends: the provider
\* answers, or raises, or job_timeout cancels it.
FairSpec == Spec /\ \A r \in Requests : WF_vars(WorkerStep(r))
-----------------------------------------------------------------------------
(* Safety.                                                                 *)

TypeOK ==
  /\ api \in [Requests -> ApiRows]
  /\ job \in [Requests -> JobRows]
  /\ task \in [Requests -> TaskRows]
  /\ concepts \subseteq ConceptRows
  /\ assets \subseteq AssetRows
  /\ files \subseteq FileKeys
  /\ clock \in Nat
  /\ stops \in 0 .. MaxStops

\* A job that a client sees at awaiting_render, succeeded or partially_failed
\* has its concepts, however deliveries, crashes and repeated render requests
\* interleave: _run_ideation commits concepts and status together, and only a
\* job with concepts can be rendered.
StatusBackedByConcepts ==
  \A j \in Requests :
    job[j].status \in {"awaiting_render", "succeeded", "partially_failed"}
      => ConceptsOf(j) # {}

\* Runs that have started and may still write the status of job j.
OpenRuns(j) ==
  {r \in Requests : /\ Target(r) = j
                    /\ task[r].attempt > 0
                    /\ task[r].phase \in Running \cup {"queued", "abandoned"}}

\* A job at running has a run that will still write its status, or a message
\* that arq has yet to deliver again, unless arq abandoned it after MaxTries:
\* the reason for worker.py's CancelledError handlers.
RunningIsOwned ==
  \A j \in Requests :
    job[j].status = "running" => OpenRuns(j) # {}

\* Nothing of a reel is rendered before somebody asked for it with
\* render-assets, redelivered ideations included.
ReelRenderedOnRequest ==
  \A f \in files :
    IsReel(f.job) => \E r \in Requests : api[r].op = "render" /\ Target(r) = f.job

\* A committed asset row points at a concept row that exists and passed the
\* compliance gate, and at a stored object.
AssetsAreServable ==
  \A a \in assets : /\ a.concept \in concepts
                    /\ ~a.concept.rejected
                    /\ FileOf(a) \in files

KindsFor(c) == IF IsReel(c.job) /\ c.script THEN AssetKinds ELSE {"image"}

\* The rows of a rendering run are committed together or not at all: no client
\* ever sees a cover without the clips and the video that its concept's script
\* asks for.
AssetsCommitTogether ==
  \A a \in assets : \A k \in KindsFor(a.concept) :
    \E b \in assets : /\ b.concept = a.concept
                      /\ b.kind = k
                      /\ b.by = a.by
                      /\ b.attempt = a.attempt

\* What the first n deliveries of job j's ideation committed.
ConceptsUpTo(j, n) == {c \in ConceptsOf(j) : c.attempt <= n}

\* A row for everything that run t of message r makes of the concepts in S.
RenderedWhole(S, r, t) ==
  \A c \in S : ~c.rejected =>
    \A k \in KindsFor(c) : [concept |-> c, kind |-> k, by |-> r, attempt |-> t] \in assets

\* A succeeded job has the output of one whole run: for every concept index
\* that run read, a concept that was rejected or has all its assets, even when
\* redelivery duplicated the rows and even when the status was last written by
\* the older of two runs.  What it read are all the job's concepts; only of a
\* reel, which another message renders, may a later delivery of the ideation
\* have added concepts since, that nothing rendered.
SuccessIsComplete ==
  \A j \in Requests :
    job[j].status = "succeeded" =>
      \E n \in 1 .. MaxTries : LET read == ConceptsUpTo(j, n) IN
        /\ read # {}
        /\ IsReel(j) \/ read = ConceptsOf(j)
        /\ \E S \in Picks(read), r \in Requests, t \in 1 .. MaxTries :
             RenderedWhole(S, r, t)

\* Idempotency, as the code gives it: a request without force creates a second
\* job for a brief only if it began before the first one was committed.
DuplicatesOverlap ==
  \A j, k \in Jobs :
    (j # k /\ job[j].brief = job[k].brief /\ ~api[k].force)
      => job[j].at > api[k].began

\* The per-day cap, as the code gives it: each request checks a snapshot, so n
\* requests in flight can overshoot it by n-1 runs, and never by more.
SpendOvershootBounded == Spent(Jobs) <= DayCap + (MaxInFlight - 1) * RunCap

-----------------------------------------------------------------------------
(* Liveness.                                                               *)

\* A message does not circulate forever: one of its runs returns, or arq gives
\* it up.
MessagesAreFinished ==
  \A r \in Requests : task[r].phase = "queued" ~> task[r].phase \in {"done", "abandoned"}

\* A poller does not wait forever on a running job: some run reports, unless
\* arq gave up a message of the job.
NoJobRunsForever ==
  \A j \in Requests :
    []<>(\/ job[j].status # "running"
         \/ \E r \in Requests : Target(r) = j /\ task[r].phase = "abandoned")

-----------------------------------------------------------------------------
(* What a poller is promised.                                              *)

Board == INSTANCE JobBoard WITH
  Jobs    <- Requests,
  Runs    <- Requests,
  status  <- [j \in Requests |-> job[j].status],
  drafted <- [j \in Requests |-> ConceptsOf(j) # {}],
  open    <- [j \in Requests |-> OpenRuns(j)]

\* Every behaviour of the queue and the worker is one of the job board: the
\* statuses a client can observe, and in which order.
ImplementsJobBoard == Board!Spec

-----------------------------------------------------------------------------
(* What the README says and the code does not do.                          *)

\* README.md:155: render-assets on "a reel job a second time" answers 400.
RenderAcceptedOnce ==
  \A q, r \in Requests :
    (api[q].op = "render" /\ api[r].op = "render" /\ Target(q) = Target(r)) => q = r

\* README.md:153: a job degraded to partially_failed keeps "any assets already
\* rendered".
RenderedAssetsSurvive ==
  \A f \in files :
    job[f.job].status = "partially_failed" => \E a \in assets : FileOf(a) = f
-----------------------------------------------------------------------------
(* The inductive invariant behind the safety properties.                   *)

\* How far request r is bounds what exists in its name.
RequestOK(r) ==
  /\ api[r].pc \in {"idle", "checked"} => /\ job[r].status = "none"
                                         /\ api[r].op # "render"
                                         /\ api[r].job = r
  /\ api[r].pc # "done" => task[r].phase = "none"
  /\ (api[r].pc = "committed" /\ api[r].op # "render") => api[r].job = r
  /\ api[r].pc = "committed" => job[api[r].job].status # "none"
  /\ api[r].op = "render" => ConceptsOf(api[r].job) # {}

\* What a message and its run can rely on.
TaskOK(r) ==
  /\ task[r].phase # "none" => job[Target(r)].status # "none"
  /\ task[r].phase \notin {"none", "queued"} => task[r].attempt > 0
  /\ task[r].phase \in {"rendering", "imaged", "assembled"} =>
       /\ ConceptsOf(Target(r)) # {}
       /\ IsReel(Target(r)) => api[r].op = "render"
  /\ \A a \in task[r].pending : /\ a.concept \in ConceptsOf(Target(r))
                                /\ ~a.concept.rejected
                                /\ FileOf(a) \in files
  /\ task[r].pending # {} => task[r].phase \in {"imaged", "assembled"}

\* Nothing exists of a job that does not.
NothingDangles ==
  /\ \A c \in concepts : job[c.job].status # "none"
  /\ \A f \in files : job[f.job].status # "none"

IInv ==
  /\ TypeOK
  /\ \A r \in Requests : RequestOK(r) /\ TaskOK(r)
  /\ NothingDangles
  /\ StatusBackedByConcepts
  /\ RunningIsOwned
  /\ ReelRenderedOnRequest
  /\ AssetsAreServable
=============================================================================
