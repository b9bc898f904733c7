----------------------------- MODULE Snapshots -----------------------------
(***************************************************************************)
(* How a request meets the database (db/session.py): it reads one          *)
(* REPEATABLE READ snapshot, decides, and later commits what it decided.   *)
(* Nothing is locked or compared in between, so any other request may      *)
(* commit between its snapshot and its commit.                             *)
(*                                                                         *)
(* The modules about rows that people edit concurrently extend this one:   *)
(* they begin a request where the code loads the rows it decides on, and   *)
(* finish it where the code commits.                                       *)
(***************************************************************************)
EXTENDS Integers, FiniteSets

CONSTANTS
  Requests,     \* API calls, each served by one session
  MaxInFlight,  \* bound: requests between snapshot and commit
  Nothing       \* NULL, and what a request has not got

ASSUME SnapshotsConstants == MaxInFlight \in Nat /\ Nothing \notin Requests

VARIABLES
  req,    \* req[r] : what request r does, on what, and what its snapshot showed
  clock   \* commits so far

reqVars == <<req, clock>>

-----------------------------------------------------------------------------
NotBegun == [pc |-> "idle", op |-> "none", on |-> Nothing, saw |-> Nothing,
             began |-> 0, at |-> 0]

ReqInit == req = [r \in Requests |-> NotBegun] /\ clock = 0

Reading(r, op) == req[r].pc = "read" /\ req[r].op = op
Done(r, ops) == req[r].pc = "done" /\ req[r].op \in ops
InFlight == {r \in Requests : req[r].pc = "read"}

\* The snapshot: request r starts op on the object on, and sees saw.
Begins(r, op, on, saw) ==
  /\ req[r].pc = "idle"
  /\ Cardinality(InFlight) < MaxInFlight
  /\ req' = [req EXCEPT ![r] = [pc |-> "read", op |-> op, on |-> on, saw |-> saw,
                                began |-> clock, at |-> 0]]
  /\ UNCHANGED clock

Ended(q, pc, at) == [pc |-> pc, op |-> q.op, on |-> q.on, saw |-> q.saw,
                     began |-> q.began, at |-> at]

Commits(r, op) ==
  /\ Reading(r, op)
  /\ clock' = clock + 1
  /\ req' = [req EXCEPT ![r] = Ended(req[r], "done", clock + 1)]

\* The commit is refused (a unique key, a row that is gone) and rolled back.
Fails(r, op) ==
  /\ Reading(r, op)
  /\ req' = [req EXCEPT ![r] = Ended(req[r], "failed", clock)]
  /\ UNCHANGED clock

\* Each of two committed requests read before the other committed.
Overlap(p, q) == req[p].began < req[q].at /\ req[q].began < req[p].at

\* UPDATE sends the columns whose new value differs from the value loaded.
Column(now, loaded, new) == IF new # loaded THEN new ELSE now

Timely ==
  \A r \in Requests :
    /\ req[r].pc = "read" => req[r].began <= clock
    /\ req[r].pc = "done" => req[r].began < req[r].at /\ req[r].at <= clock
=============================================================================
