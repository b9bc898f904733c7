------------------------------ MODULE JobBoard ------------------------------
(***************************************************************************)
(* What the API promises somebody who polls generation jobs, without the   *)
(* queue, the worker, its transactions or its storage.                     *)
(*                                                                         *)
(* A job is worked on by runs.  A run is open from its start until it has  *)
(* reported and cannot come back.  Runs report blindly: the last report    *)
(* wins, also over the report of another run of the same job.  What is     *)
(* promised all the same: running means that a run is open, and every      *)
(* status but queued, running and failed means that the job was drafted    *)
(* (its concepts exist), which is never undone.                            *)
(***************************************************************************)
CONSTANTS Jobs, Runs

VARIABLES status, drafted, open

vars == <<status, drafted, open>>

Init ==
  /\ status = [j \in Jobs |-> "none"]
  /\ drafted = [j \in Jobs |-> FALSE]
  /\ open = [j \in Jobs |-> {}]

Queue(j) ==
  /\ status[j] = "none"
  /\ status' = [status EXCEPT ![j] = "queued"]
  /\ UNCHANGED <<drafted, open>>

\* A first start, or the restart of a run that was cut short or delivered twice.
Start(j, r) ==
  /\ status[j] # "none"
  /\ status' = [status EXCEPT ![j] = "running"]
  /\ open' = [open EXCEPT ![j] = @ \cup {r}]
  /\ UNCHANGED drafted

Draft(j, r) ==
  /\ r \in open[j]
  /\ drafted' = [drafted EXCEPT ![j] = TRUE]
  /\ UNCHANGED <<status, open>>

DraftAndAwait(j, r) ==
  /\ r \in open[j]
  /\ drafted' = [drafted EXCEPT ![j] = TRUE]
  /\ status' = [status EXCEPT ![j] = "awaiting_render"]
  /\ open' = [open EXCEPT ![j] = @ \ {r}]

\* The run may stay open after its report: a shutdown reports, and the run is
\* started again.
Report(j, r, s) ==
  /\ r \in open[j]
  /\ s # "failed" => drafted[j]
  /\ status' = [status EXCEPT ![j] = s]
  /\ open' \in {open, [open EXCEPT ![j] = @ \ {r}]}
  /\ UNCHANGED drafted

\* A run that reported is going to be started again.
Reopen(j, r) ==
  /\ status[j] \notin {"none", "queued"}
  /\ open' = [open EXCEPT ![j] = @ \cup {r}]
  /\ UNCHANGED <<status, drafted>>

Next ==
  \E j \in Jobs :
    \/ Queue(j)
    \/ \E r \in Runs :
         \/ Start(j, r)
         \/ Draft(j, r)
         \/ DraftAndAwait(j, r)
         \/ \E s \in {"succeeded", "partially_failed", "failed"} : Report(j, r, s)
         \/ Reopen(j, r)

Spec == Init /\ [][Next]_vars
=============================================================================
