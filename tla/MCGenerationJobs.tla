-------------------------- MODULE MCGenerationJobs --------------------------
(* Instances of GenerationJobs for TLC. *)
EXTENDS GenerationJobs, TLC

CONSTANTS r1, r2, r3, r4, post, reel

EqualCost == post :> 2 @@ reel :> 2
UnequalCost == post :> 1 @@ reel :> 2
Symmetric == Permutations(Requests)

\* Admission alone.  What it checks reads briefs and costs, which no worker
\* step writes, so more requests can overlap without the worker's states.
AdmissionSpec == Init /\ [][\E r \in Requests : ApiStep(r)]_vars

\* The queue and the worker.  A request that is answered with an existing job gives
\* them nothing to do, and `force` only decides which requests those are.
JobStep(r) ==
  \/ \E b \in Briefs : GenerateChecked(r, b, FALSE)
  \/ GenerateCommitted(r)
  \/ \E j \in Requests : RenderRequested(r, j)
  \/ Enqueued(r)
  \/ EnqueueFailed(r)

JobsSpec == Init /\ [][\E r \in Requests : JobStep(r) \/ WorkerStep(r) \/ Stopped(r)]_vars
=============================================================================
