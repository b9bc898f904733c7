-------------------------- MODULE SnapshotsProofs --------------------------
(***************************************************************************)
(* What a step of Snapshots does to the log of requests, as lemmas for the *)
(* proofs about the modules that extend it.  LogOK is the part of their    *)
(* inductive invariants that speaks of requests alone.                     *)
(***************************************************************************)
EXTENDS Snapshots, TLAPS

IsRequest(q) ==
  /\ q = [pc |-> q.pc, op |-> q.op, on |-> q.on, saw |-> q.saw, began |-> q.began, at |-> q.at]
  /\ q.pc \in {"idle", "read", "done", "failed"}
  /\ q.began \in Nat /\ q.at \in Nat

LogOK ==
  /\ clock \in Nat
  /\ req = [r \in Requests |-> req[r]]
  /\ \A r \in Requests : IsRequest(req[r])
  /\ \A r \in Requests : req[r].pc = "idle" => req[r] = NotBegun
  /\ Timely
  /\ \A p, q \in Requests : (p # q /\ req[p].pc = "done" /\ req[q].pc = "done")
                             => req[p].at # req[q].at

\* Only request r moves; the others keep their place in the log.
OnlyMoves(r) == \A q \in Requests \ {r} : req'[q] = req[q]

\* No request has begun at first.
LEMMA LogInit == ReqInit => LogOK
BY DEF ReqInit, LogOK, IsRequest, NotBegun, Timely

\* What a snapshot does.
LEMMA BeginsEffect ==
  ASSUME LogOK, NEW r \in Requests, NEW op, NEW on, NEW saw, Begins(r, op, on, saw)
  PROVE  /\ LogOK' /\ OnlyMoves(r) /\ clock' = clock
         /\ req[r] = NotBegun
         /\ req'[r] = [pc |-> "read", op |-> op, on |-> on, saw |-> saw, began |-> clock, at |-> 0]
<1>1. OnlyMoves(r) /\ clock' = clock /\ req[r] = NotBegun
  BY DEF LogOK, Begins, OnlyMoves
<1>2. req'[r] = [pc |-> "read", op |-> op, on |-> on, saw |-> saw, began |-> clock, at |-> 0]
  BY DEF LogOK, Begins
<1>3. req' = [q \in Requests |-> req'[q]]
  BY DEF LogOK, Begins
<1>4. LogOK'
  BY <1>1, <1>2, <1>3 DEF LogOK, OnlyMoves, IsRequest, Timely
<1> QED BY <1>1, <1>2, <1>4

\* What a commit does.
LEMMA CommitsEffect ==
  ASSUME LogOK, NEW r \in Requests, NEW op, Commits(r, op)
  PROVE  /\ LogOK' /\ OnlyMoves(r) /\ clock' = clock + 1
         /\ req[r].pc = "read" /\ req[r].op = op
         /\ req[r].began <= clock
         /\ req'[r] = [pc |-> "done", op |-> op, on |-> req[r].on, saw |-> req[r].saw,
                       began |-> req[r].began, at |-> clock + 1]
<1>1. OnlyMoves(r) /\ clock' = clock + 1 /\ req[r].pc = "read" /\ req[r].op = op
  BY DEF LogOK, Commits, Reading, OnlyMoves
<1>2. req'[r] = [pc |-> "done", op |-> op, on |-> req[r].on, saw |-> req[r].saw,
                 began |-> req[r].began, at |-> clock + 1]
  BY <1>1 DEF LogOK, Commits, Ended
<1>3. req' = [q \in Requests |-> req'[q]]
  BY DEF LogOK, Commits
<1>4. req[r].began <= clock /\ req[r].began \in Nat /\ clock \in Nat
  BY <1>1 DEF LogOK, Timely, IsRequest
<1>5. \A q \in Requests : IsRequest(req'[q])
  BY <1>1, <1>2, <1>4 DEF LogOK, OnlyMoves, IsRequest
<1>6. Timely'
  BY <1>1, <1>2, <1>4 DEF LogOK, OnlyMoves, IsRequest, Timely
<1>7. \A p, q \in Requests : (p # q /\ req'[p].pc = "done" /\ req'[q].pc = "done")
                              => req'[p].at # req'[q].at
  <2> SUFFICES ASSUME NEW p \in Requests, NEW q \in Requests, p # q,
                      req'[p].pc = "done", req'[q].pc = "done"
               PROVE  req'[p].at # req'[q].at
    OBVIOUS
  <2>1. \A x \in Requests : req[x].pc = "done" => req[x].at <= clock /\ req[x].at \in Nat
    BY DEF LogOK, Timely, IsRequest
  <2>2. CASE p = r BY <2>1, <2>2, <1>1, <1>2, <1>4 DEF OnlyMoves
  <2>3. CASE q = r BY <2>1, <2>3, <1>1, <1>2, <1>4 DEF OnlyMoves
  <2>4. CASE p # r /\ q # r BY <2>4, <1>1 DEF OnlyMoves, LogOK
  <2> QED BY <2>2, <2>3, <2>4
<1>8. \A q \in Requests : req'[q].pc = "idle" => req'[q] = NotBegun
  BY <1>1, <1>2 DEF OnlyMoves, LogOK
<1>9. clock' \in Nat
  BY <1>1, <1>4
<1>10. LogOK'
  BY <1>3, <1>5, <1>6, <1>7, <1>8, <1>9 DEF LogOK
<1> QED BY <1>1, <1>2, <1>4, <1>10

\* What a refused commit does.
LEMMA FailsEffect ==
  ASSUME LogOK, NEW r \in Requests, NEW op, Fails(r, op)
  PROVE  /\ LogOK' /\ OnlyMoves(r) /\ clock' = clock
         /\ req[r].pc = "read" /\ req[r].op = op
         /\ req'[r] = [pc |-> "failed", op |-> op, on |-> req[r].on, saw |-> req[r].saw,
                       began |-> req[r].began, at |-> clock]
<1>1. OnlyMoves(r) /\ clock' = clock /\ req[r].pc = "read" /\ req[r].op = op
  BY DEF LogOK, Fails, Reading, OnlyMoves
<1>2. req'[r] = [pc |-> "failed", op |-> op, on |-> req[r].on, saw |-> req[r].saw,
                 began |-> req[r].began, at |-> clock]
  BY <1>1 DEF LogOK, Fails, Ended
<1>3. req' = [q \in Requests |-> req'[q]]
  BY DEF LogOK, Fails
<1>4. \A q \in Requests : IsRequest(req'[q])
  BY <1>1, <1>2 DEF LogOK, OnlyMoves, IsRequest
<1>5. LogOK'
  BY <1>1, <1>2, <1>3, <1>4 DEF LogOK, OnlyMoves, Timely
<1> QED BY <1>1, <1>2, <1>5

\* Whatever moves a request that is not done leaves the finished ones as they are.
LEMMA DoneStays ==
  ASSUME NEW r \in Requests, OnlyMoves(r), req[r].pc # "done"
  PROVE  \A q \in Requests : \A ops : Done(q, ops) => Done(q, ops)' /\ req'[q] = req[q]
BY DEF Done, OnlyMoves

\* A snapshot finishes nothing.
LEMMA ReadKeepsDone ==
  ASSUME NEW r \in Requests, OnlyMoves(r), req[r].pc = "idle", req'[r].pc \in {"read", "failed"}
  PROVE  \A q \in Requests : \A ops : Done(q, ops)' <=> Done(q, ops)
BY DEF Done, OnlyMoves

\* Stuttering.
LEMMA LogStutters == ASSUME LogOK, UNCHANGED reqVars PROVE LogOK'
BY DEF LogOK, reqVars, IsRequest, Timely, NotBegun
=============================================================================
