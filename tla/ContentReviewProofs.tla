------------------------ MODULE ContentReviewProofs ------------------------
(***************************************************************************)
(* Proofs about ContentReview, for any set of requests, any callers and    *)
(* any policies.  Two logs carry them: the changes of the policy, in the   *)
(* order of their commits, of which every snapshot shows the last; and the *)
(* approvals, of which there is one before any status that publication     *)
(* starts from.  A rejection is only forgotten by a request that read the  *)
(* status before it, or by a later approval.                               *)
(***************************************************************************)
EXTENDS ContentReview, SnapshotsProofs

Approvals == {"approve", "approve_and_publish"}
Cleared == {"approved", "scheduled", "published"}
Clearing == Approvals \cup {"schedule", "publish"}

ReviewCalls ==
  \A r \in Requests : req[r].pc # "idle" =>
    /\ req[r].pc \in {"read", "done"}
    /\ req[r].op \in ReviewOps \cup {"set_policy"}
    /\ req[r].saw.row \in ConceptRow /\ req[r].saw.policy \in Policies
    /\ req[r].op = "set_policy" => req[r].on \in Policies /\ req[r].on # req[r].saw.policy
    /\ req[r].op \in Guarded => RouteLets(req[r].on, req[r].op)
    /\ req[r].op \in Verdicts => Authority(req[r].on, req[r].saw.policy)
    /\ Ready(req[r].op, req[r].saw.row.status)

\* The changes of the policy by time t, and that the last of them, if any, chose pol.
Changes(t) == {q \in Requests : Done(q, {"set_policy"}) /\ req[q].at <= t}
PolicyIs(pol, t) ==
  \/ Changes(t) = {} /\ pol = FirstPolicy
  \/ \E q \in Changes(t) : req[q].on = pol /\ \A p \in Changes(t) : req[p].at <= req[q].at

PolicyLogged ==
  /\ PolicyIs(policy, clock)
  /\ \A r \in Requests : req[r].pc # "idle" => PolicyIs(req[r].saw.policy, req[r].began)

ApprovedBy(t) == \E a \in Requests : Done(a, Approvals) /\ req[a].at <= t

ClearedWasApproved ==
  /\ concept.status \in Cleared => ApprovedBy(clock)
  /\ \A r \in Requests : (req[r].pc # "idle" /\ req[r].op \in {"schedule", "publish"}) =>
       ApprovedBy(req[r].began)

\* What has overruled the rejection j, or was decided beside it.
Excused(j) ==
  \E q \in Requests :
    /\ Done(q, Clearing)
    /\ (req[q].op \in Approvals /\ req[q].at > req[j].at) \/ Overlap(q, j)

RejectionsExcused ==
  /\ concept.status \in Cleared => \A j \in Requests : Done(j, {"reject"}) => Excused(j)
  /\ \A r \in Requests : (req[r].pc = "read" /\ req[r].saw.row.status \in Cleared) =>
       \A j \in Requests : (Done(j, {"reject"}) /\ req[j].at <= req[r].began) => Excused(j)

ClearedSince(t) == \E q \in Requests : Done(q, Clearing) /\ req[q].at > t

StatusSeen ==
  \A r \in Requests :
    (req[r].pc = "read" /\ concept.status \in Cleared /\ req[r].saw.row.status \notin Cleared) =>
      ClearedSince(req[r].began)

ReviewInv ==
  /\ LogOK
  /\ concept \in ConceptRow /\ policy \in Policies /\ comments \subseteq Requests
  /\ ReviewCalls /\ PolicyLogged /\ ClearedWasApproved /\ RejectionsExcused /\ StatusSeen

-----------------------------------------------------------------------------
\* A snapshot and the checks made on it.
ReviewSnapshot(r) ==
  /\ LogOK' /\ OnlyMoves(r) /\ clock' = clock /\ UNCHANGED reviewVars
  /\ req[r].pc = "idle" /\ req'[r].pc = "read" /\ req'[r].began = clock
  /\ req'[r].op \in ReviewOps \cup {"set_policy"}
  /\ req'[r].saw.row = concept /\ req'[r].saw.policy = policy
  /\ req'[r].op = "set_policy" => req'[r].on \in Policies /\ req'[r].on # policy
  /\ req'[r].op \in Guarded => RouteLets(req'[r].on, req'[r].op)
  /\ req'[r].op \in Verdicts => Authority(req'[r].on, policy)
  /\ Ready(req'[r].op, concept.status)

LEMMA ReviewReads ==
  ASSUME LogOK, NEW r \in Requests,
         \/ \E op \in ReviewOps, who \in Callers : ReviewRead(r, op, who)
         \/ \E pol \in AskedPolicies : PolicyRead(r, pol)
  PROVE  ReviewSnapshot(r)
<1>1. ASSUME NEW op, NEW on, Begins(r, op, on, [row |-> concept, policy |-> policy])
      PROVE  /\ LogOK' /\ OnlyMoves(r) /\ clock' = clock /\ req[r].pc = "idle"
             /\ req'[r].pc = "read" /\ req'[r].began = clock
             /\ req'[r].op = op /\ req'[r].on = on
             /\ req'[r].saw.row = concept /\ req'[r].saw.policy = policy
  <2> DEFINE saw == [row |-> concept, policy |-> policy]
  <2>1. /\ LogOK' /\ OnlyMoves(r) /\ clock' = clock /\ req[r] = NotBegun
        /\ req'[r] = [pc |-> "read", op |-> op, on |-> on, saw |-> saw,
                      began |-> clock, at |-> 0]
    BY <1>1, BeginsEffect
  <2> QED BY <2>1 DEF NotBegun
<1>2. ASSUME NEW op \in ReviewOps, NEW who \in Callers, ReviewRead(r, op, who)
      PROVE  ReviewSnapshot(r)
  <2>1. op # "set_policy"
    BY DEF ReviewOps, Guarded, Verdicts
  <2> QED BY <1>1, <1>2, <2>1 DEF ReviewRead, ReviewSnapshot
<1>3. ASSUME NEW pol \in AskedPolicies, PolicyRead(r, pol) PROVE ReviewSnapshot(r)
  <2>1. pol \in Policies
    BY ReviewConstants
  <2> QED BY <1>1, <1>3, <2>1 DEF PolicyRead, ReviewSnapshot, Guarded, Verdicts, Ready
<1> QED BY <1>2, <1>3

\* A commit, and when the concept is cleared after it.
ReviewWrite(r) ==
  /\ LogOK' /\ OnlyMoves(r) /\ clock' = clock + 1
  /\ req[r].pc = "read" /\ req'[r].pc = "done"
  /\ req'[r].op = req[r].op /\ req'[r].on = req[r].on /\ req'[r].saw = req[r].saw
  /\ req'[r].began = req[r].began /\ req[r].began <= clock /\ req'[r].at = clock + 1
  /\ concept' \in ConceptRow /\ comments' \subseteq Requests
  /\ policy' = IF req[r].op = "set_policy" THEN req[r].on ELSE policy
  /\ (concept'.status \in Cleared /\ req[r].op \notin Clearing) => concept'.status = concept.status
  /\ (concept'.status \in Cleared /\ req[r].op = "reject") => req[r].saw.row.status \notin Cleared

\* What each operation makes of the status.
LEMMA OutcomeIs ==
  ASSUME NEW op \in ReviewOps, NEW status \in ContentStatuses
  PROVE  /\ Outcome(op, status) \in ContentStatuses
         /\ (Outcome(op, status) \in Cleared /\ op \notin Clearing) =>
              op = "comment" /\ Outcome(op, status) = status
         /\ op = "reject" => Outcome(op, status) = "rejected"
<1>1. CASE op = "submit" BY <1>1 DEF Outcome, ContentStatuses, Cleared
<1>2. CASE op = "approve" BY <1>2 DEF Outcome, ContentStatuses, Clearing, Approvals
<1>3. CASE op = "reject" BY <1>3 DEF Outcome, ContentStatuses, Cleared
<1>4. CASE op = "schedule" BY <1>4 DEF Outcome, ContentStatuses, Clearing
<1>5. CASE op \in {"publish", "approve_and_publish"}
  BY <1>5 DEF Outcome, ContentStatuses, Clearing, Approvals
<1>6. CASE op = "comment" BY <1>6 DEF Outcome
<1> QED BY <1>1, <1>2, <1>3, <1>4, <1>5, <1>6 DEF ReviewOps, Guarded, Verdicts

LEMMA ReviewWrites ==
  ASSUME ReviewInv, NEW r \in Requests,
         (\E op \in ReviewOps : ReviewCommitted(r, op)) \/ PolicyCommitted(r)
  PROVE  ReviewWrite(r)
<1>1. ASSUME NEW op, Commits(r, op)
      PROVE  /\ LogOK' /\ OnlyMoves(r) /\ clock' = clock + 1
             /\ req[r].pc = "read" /\ req'[r].pc = "done" /\ req[r].op = op
             /\ req'[r].op = req[r].op /\ req'[r].on = req[r].on /\ req'[r].saw = req[r].saw
             /\ req'[r].began = req[r].began /\ req[r].began <= clock /\ req'[r].at = clock + 1
  <2>1. /\ LogOK' /\ OnlyMoves(r) /\ clock' = clock + 1
        /\ req[r].pc = "read" /\ req[r].op = op /\ req[r].began <= clock
        /\ req'[r] = [pc |-> "done", op |-> op, on |-> req[r].on, saw |-> req[r].saw,
                      began |-> req[r].began, at |-> clock + 1]
    BY <1>1, CommitsEffect DEF ReviewInv
  <2> QED BY <2>1
<1>2. ASSUME NEW op \in ReviewOps, ReviewCommitted(r, op) PROVE ReviewWrite(r)
  <2>1. Commits(r, op) /\ concept' = Reviewed(r, op) /\ policy' = policy
        /\ comments' \subseteq Requests
    BY <1>2 DEF ReviewCommitted, ReviewInv
  <2>2. req[r].pc = "read" /\ req[r].op = op /\ op # "set_policy"
    BY <1>1, <2>1 DEF ReviewOps, Guarded, Verdicts
  <2> DEFINE saw == req[r].saw.row.status
             new == Column(concept.status, saw, Outcome(op, saw))
  <2>3. saw \in ContentStatuses /\ concept.status \in ContentStatuses
    BY <2>2 DEF ReviewInv, ReviewCalls, ConceptRow
  <2>4. /\ new \in ContentStatuses
        /\ (new \in Cleared /\ op \notin Clearing) => new = concept.status
        /\ (new \in Cleared /\ op = "reject") => saw \notin Cleared
    <3> HIDE DEF saw
    <3> QED BY <2>3, OutcomeIs DEF Column, Cleared
  <2>5. /\ concept' = [status    |-> new,
                       reviewed  |-> IF op = "comment" THEN concept.reviewed ELSE r,
                       scheduled |-> IF op = "schedule" THEN r ELSE concept.scheduled,
                       published |-> IF op \in {"publish", "approve_and_publish"}
                                       THEN r ELSE concept.published]
    BY <2>1 DEF Reviewed
  <2> HIDE DEF new
  <2>6. concept' \in ConceptRow /\ concept'.status = new
    BY <2>4, <2>5 DEF ReviewInv, ConceptRow
  <2> QED BY <1>1, <2>1, <2>2, <2>4, <2>6 DEF ReviewWrite
<1>3. CASE PolicyCommitted(r)
  <2>1. /\ Commits(r, "set_policy") /\ policy' = Column(policy, req[r].saw.policy, req[r].on)
        /\ concept' = concept /\ comments' = comments
    BY <1>3 DEF PolicyCommitted
  <2>2. req[r].pc = "read" /\ req[r].op = "set_policy"
    BY <1>1, <2>1
  <2>3. req[r].on # req[r].saw.policy
    BY <2>2 DEF ReviewInv, ReviewCalls
  <2> QED BY <1>1, <2>1, <2>2, <2>3 DEF ReviewWrite, ReviewInv, Column
<1> QED BY <1>2, <1>3

-----------------------------------------------------------------------------
\* Who may approve under a policy is one of its approvers.
LEMMA AuthorityIsApprover ==
  ASSUME NEW who, NEW pol \in Policies, NEW op \in Verdicts,
         RouteLets(who, op), Authority(who, pol)
  PROVE  who \in Approvers[pol]
BY DEF Policies, Verdicts, RouteLets, Authority, Approvers, Guarded

\* There is one last change of the policy, and PolicyFor finds it.
LEMMA PolicyForIsSaw ==
  ASSUME LogOK, NEW r \in Requests, NEW pol, PolicyIs(pol, req[r].began)
  PROVE  PolicyFor(r) = pol
<1> DEFINE changes == Changes(req[r].began)
           Last(q) == \A p \in changes : req[p].at <= req[q].at
<1>1. PolicyFor(r) = IF changes = {} THEN FirstPolicy
                     ELSE req[CHOOSE q \in changes : Last(q)].on
  BY DEF PolicyFor, Changes
<1>2. CASE changes = {}
  BY <1>1, <1>2 DEF PolicyIs
<1>3. CASE changes # {}
  <2> PICK q \in changes : req[q].on = pol /\ Last(q)
    BY <1>3 DEF PolicyIs
  <2> DEFINE last == CHOOSE x \in changes : Last(x)
  <2>1. last \in changes /\ Last(last)
    OBVIOUS
  <2>2. /\ q \in Requests /\ last \in Requests /\ Done(q, {"set_policy"}) /\ Done(last, {"set_policy"})
        /\ req[q].at <= req[last].at /\ req[last].at <= req[q].at
    BY <2>1 DEF Changes
  <2>3. req[q].at \in Nat /\ req[last].at \in Nat
    BY <2>2 DEF LogOK, IsRequest
  <2>4. req[q].at = req[last].at /\ req[q].pc = "done" /\ req[last].pc = "done"
    BY <2>2, <2>3 DEF Done
  <2>5. \A x, y \in Requests : x # y /\ req[x].pc = "done" /\ req[y].pc = "done"
                               => req[x].at # req[y].at
    BY DEF LogOK
  <2>6. last = q
    <3> HIDE DEF last, changes
    <3> QED BY <2>2, <2>4, <2>5
  <2> QED BY <1>1, <1>3, <2>6
<1> QED BY <1>2, <1>3

\* The logs up to a time that has passed do not change.
LEMMA ReviewHistory ==
  ASSUME LogOK, NEW r \in Requests, OnlyMoves(r), req[r].pc # "done",
         req'[r].pc = "done" => req'[r].at = clock + 1
  PROVE  /\ \A t \in Nat : t <= clock => Changes(t)' = Changes(t)
         /\ \A t \in Nat : \A pol : (t <= clock /\ PolicyIs(pol, t)) => PolicyIs(pol, t)'
         /\ \A t : ApprovedBy(t) => ApprovedBy(t)'
         /\ \A t : ClearedSince(t) => ClearedSince(t)'
         /\ \A j \in Requests : (Done(j, {"reject"}) /\ Excused(j)) => Excused(j)'
<1>1. \A q \in Requests : \A ops : Done(q, ops) => Done(q, ops)' /\ req'[q] = req[q]
  BY DoneStays
<1>2. \A t \in Nat : t <= clock => Changes(t)' = Changes(t)
  <2> SUFFICES ASSUME NEW t \in Nat, t <= clock PROVE Changes(t)' = Changes(t)
    OBVIOUS
  <2>1. Changes(t) \subseteq Changes(t)'
    BY <1>1 DEF Changes
  <2>2. clock \in Nat
    BY DEF LogOK
  <2>3. ASSUME NEW q \in Changes(t)' PROVE q \in Changes(t)
    <3>1. q \in Requests /\ Done(q, {"set_policy"})' /\ req'[q].at <= t
      BY DEF Changes
    <3>2. q # r
      BY <2>2, <3>1 DEF Done
    <3> QED BY <3>1, <3>2 DEF Changes, OnlyMoves, Done
  <2> QED BY <2>1, <2>3
<1>3. ASSUME NEW t \in Nat, NEW pol, t <= clock, PolicyIs(pol, t) PROVE PolicyIs(pol, t)'
  <2>1. Changes(t)' = Changes(t)
    BY <1>2, <1>3
  <2>2. \A q \in Changes(t) : req'[q] = req[q]
    BY <1>1 DEF Changes
  <2> QED BY <1>3, <2>1, <2>2 DEF PolicyIs
<1>4. \A t : ApprovedBy(t) => ApprovedBy(t)'
  BY <1>1 DEF ApprovedBy
<1>5. \A t : ClearedSince(t) => ClearedSince(t)'
  BY <1>1 DEF ClearedSince
<1>6. \A j \in Requests : (Done(j, {"reject"}) /\ Excused(j)) => Excused(j)'
  BY <1>1 DEF Excused, Overlap
<1> QED BY <1>2, <1>3, <1>4, <1>5, <1>6

\* What a snapshot showed of the policy stays the last change by that time.
LEMMA PolicyStays ==
  ASSUME LogOK, NEW r \in Requests, OnlyMoves(r), req[r].pc # "done",
         req'[r].pc = "done" => req'[r].at = clock + 1,
         NEW x \in Requests, req'[x].saw = req[x].saw, req'[x].began = req[x].began,
         req[x].began \in Nat, req[x].began <= clock,
         PolicyIs(req[x].saw.policy, req[x].began)
  PROVE  PolicyIs(req[x].saw.policy, req[x].began)'
<1>1. \A q \in Requests : \A ops : Done(q, ops) => Done(q, ops)' /\ req'[q] = req[q]
  BY DoneStays
<1>2. clock \in Nat
  BY DEF LogOK
<1>3. \A q \in Requests : (Done(q, {"set_policy"})' /\ req'[q].at <= req[x].began) <=>
                          (Done(q, {"set_policy"}) /\ req[q].at <= req[x].began)
  BY <1>1, <1>2 DEF Done, OnlyMoves
<1>4. {q \in Requests : Done(q, {"set_policy"})' /\ req'[q].at <= req[x].began}
        = Changes(req[x].began)
  BY <1>3 DEF Changes
<1>5. \A q \in Changes(req[x].began) : req'[q] = req[q]
  BY <1>1 DEF Changes
<1> QED BY <1>4, <1>5 DEF PolicyIs, Changes

LEMMA ReviewTimes ==
  ASSUME LogOK, ReviewCalls, NEW q \in Requests, req[q].pc # "idle"
  PROVE  req[q].began \in Nat /\ req[q].began <= clock
<1>1. req[q].pc \in {"read", "done"}
  BY DEF ReviewCalls
<1>2. req[q].began \in Nat /\ req[q].at \in Nat /\ clock \in Nat
  BY DEF LogOK, IsRequest
<1> QED BY <1>1, <1>2 DEF LogOK, Timely

LEMMA ReviewReadKeeps ==
  ASSUME ReviewInv, NEW r \in Requests, ReviewSnapshot(r)
  PROVE  ReviewInv'
<1>1. /\ LogOK /\ LogOK' /\ OnlyMoves(r) /\ clock' = clock /\ clock \in Nat
      /\ concept' = concept /\ policy' = policy /\ comments' = comments
      /\ req[r].pc = "idle" /\ req'[r].pc = "read" /\ req'[r].began = clock
      /\ req'[r].saw.row = concept /\ req'[r].saw.policy = policy
  BY DEF ReviewInv, ReviewSnapshot, LogOK, reviewVars
<1>2. \A q \in Requests : \A ops : /\ Done(q, ops)' <=> Done(q, ops)
                                   /\ Done(q, ops) => q # r /\ req'[q] = req[q]
  BY <1>1, ReadKeepsDone, DoneStays DEF Done
<1>3. \A q \in Requests \ {r} : req'[q] = req[q]
  BY <1>1 DEF OnlyMoves
<1>4. /\ \A t \in Nat : \A pol : (t <= clock /\ PolicyIs(pol, t)) => PolicyIs(pol, t)'
      /\ \A t : ApprovedBy(t) => ApprovedBy(t)'
      /\ \A t : ClearedSince(t) => ClearedSince(t)'
      /\ \A j \in Requests : (Done(j, {"reject"}) /\ Excused(j)) => Excused(j)'
  BY <1>1, ReviewHistory
<1>5. \A q \in Requests : req[q].pc # "idle" => req[q].began \in Nat /\ req[q].began <= clock
  BY <1>1, ReviewTimes DEF ReviewInv
<1>6. ReviewCalls'
  BY <1>1, <1>3 DEF ReviewInv, ReviewSnapshot, ReviewCalls
<1>7. PolicyLogged'
  <2>1. PolicyIs(policy, clock)'
    <3>1. PolicyIs(policy, clock)
      BY DEF ReviewInv, PolicyLogged
    <3>2. \A q \in Requests : Done(q, {"set_policy"})' <=> Done(q, {"set_policy"})
      BY <1>2
    <3>3. Changes(clock)' = Changes(clock)
      BY <1>1, <1>2, <3>2 DEF Changes
    <3>4. \A q \in Changes(clock) : req'[q] = req[q]
      BY <1>2 DEF Changes
    <3> QED BY <1>1, <3>1, <3>3, <3>4 DEF PolicyIs
  <2>2. ASSUME NEW x \in Requests, req'[x].pc # "idle"
        PROVE  PolicyIs(req[x].saw.policy, req[x].began)'
    <3>1. CASE x = r
      BY <1>1, <2>1, <3>1 DEF PolicyIs, Changes
    <3>2. CASE x # r
      <4>1. /\ req'[x].saw = req[x].saw /\ req'[x].began = req[x].began /\ PolicyIs(req[x].saw.policy, req[x].began)
            /\ req[x].began \in Nat /\ req[x].began <= clock
        BY <1>3, <1>5, <2>2, <3>2 DEF ReviewInv, PolicyLogged
      <4> QED BY <1>1, <4>1, PolicyStays
    <3> QED BY <3>1, <3>2
  <2> QED BY <2>1, <2>2 DEF PolicyLogged
<1>8. ClearedWasApproved'
  <2>1. concept'.status \in Cleared => ApprovedBy(clock)'
    BY <1>1, <1>2 DEF ReviewInv, ClearedWasApproved, ApprovedBy
  <2>2. ASSUME NEW x \in Requests, req'[x].pc # "idle", req'[x].op \in {"schedule", "publish"}
        PROVE  ApprovedBy(req[x].began)'
    <3>1. CASE x = r
      <4>1. concept.status \in Cleared
        BY <2>2, <3>1 DEF ReviewSnapshot, Ready, Cleared
      <4> QED BY <1>1, <2>1, <3>1, <4>1 DEF ApprovedBy
    <3>2. CASE x # r
      <4>1. req'[x] = req[x] /\ ApprovedBy(req[x].began)
        BY <1>3, <2>2, <3>2 DEF ReviewInv, ClearedWasApproved
      <4> QED BY <1>2, <4>1 DEF ApprovedBy
    <3> QED BY <3>1, <3>2
  <2> QED BY <2>1, <2>2 DEF ClearedWasApproved
<1>9. RejectionsExcused'
  <2>1. ASSUME NEW j \in Requests, concept.status \in Cleared, Done(j, {"reject"})'
        PROVE  Excused(j)'
    BY <1>2, <1>4, <2>1 DEF ReviewInv, RejectionsExcused
  <2>2. ASSUME NEW x \in Requests, NEW j \in Requests, req'[x].pc = "read",
               req'[x].saw.row.status \in Cleared, Done(j, {"reject"})', req'[j].at <= req'[x].began
        PROVE  Excused(j)'
    <3>1. CASE x = r
      BY <1>1, <2>1, <2>2, <3>1
    <3>2. CASE x # r
      <4>1. Done(j, {"reject"}) /\ req'[j] = req[j] /\ req'[x] = req[x]
        BY <1>2, <1>3, <2>2, <3>2
      <4> QED BY <1>4, <2>2, <4>1 DEF ReviewInv, RejectionsExcused
    <3> QED BY <3>1, <3>2
  <2> QED BY <1>1, <2>1, <2>2 DEF RejectionsExcused
<1>10. StatusSeen'
  <2> SUFFICES ASSUME NEW x \in Requests, req'[x].pc = "read", concept'.status \in Cleared,
                      req'[x].saw.row.status \notin Cleared
               PROVE  ClearedSince(req[x].began)'
    BY DEF StatusSeen
  <2>1. x # r /\ req'[x] = req[x]
    BY <1>1, <1>3
  <2>2. ClearedSince(req[x].began)
    BY <1>1, <2>1 DEF ReviewInv, StatusSeen
  <2> QED BY <1>2, <2>1, <2>2 DEF ClearedSince
<1> QED BY <1>1, <1>6, <1>7, <1>8, <1>9, <1>10 DEF ReviewInv

LEMMA ReviewWriteKeeps ==
  ASSUME ReviewInv, NEW r \in Requests, ReviewWrite(r)
  PROVE  ReviewInv'
<1>1. /\ LogOK /\ LogOK' /\ OnlyMoves(r) /\ clock' = clock + 1 /\ clock \in Nat
      /\ req[r].pc = "read" /\ req'[r].pc = "done"
      /\ req'[r].op = req[r].op /\ req'[r].on = req[r].on /\ req'[r].saw = req[r].saw
      /\ req'[r].began = req[r].began /\ req[r].began <= clock /\ req'[r].at = clock + 1
      /\ concept' \in ConceptRow /\ comments' \subseteq Requests
      /\ policy' = IF req[r].op = "set_policy" THEN req[r].on ELSE policy
      /\ (concept'.status \in Cleared /\ req[r].op \notin Clearing) =>
           concept'.status = concept.status
      /\ (concept'.status \in Cleared /\ req[r].op = "reject") =>
           req[r].saw.row.status \notin Cleared
  BY DEF ReviewInv, ReviewWrite, LogOK
<1>2. \A q \in Requests : \A ops :
        /\ Done(q, ops) => Done(q, ops)' /\ req'[q] = req[q] /\ q # r
        /\ Done(q, ops)' => (q = r /\ req[r].op \in ops) \/ Done(q, ops)
  BY <1>1, DoneStays DEF Done, OnlyMoves
<1>3. \A q \in Requests \ {r} : req'[q] = req[q]
  BY <1>1 DEF OnlyMoves
<1>4. \A j \in Requests : (Done(j, {"reject"}) /\ Excused(j)) => Excused(j)'
  BY <1>1, ReviewHistory
<1>5. \A q \in Requests : req[q].pc # "idle" => req[q].began \in Nat /\ req[q].began <= clock
  BY <1>1, ReviewTimes DEF ReviewInv
<1>6. \A q \in Requests : \A ops : Done(q, ops) => req[q].at \in Nat /\ req[q].at <= clock
                                               /\ req[q].began \in Nat /\ req[q].began < req[q].at
  BY <1>1 DEF LogOK, Timely, IsRequest, Done
<1>7. \A x \in Requests : req'[x].pc # "idle" =>
        /\ req[x].pc # "idle" /\ req'[x].op = req[x].op /\ req'[x].on = req[x].on
        /\ req'[x].saw = req[x].saw /\ req'[x].began = req[x].began
  BY <1>1, <1>3
<1>8. ReviewCalls'
  BY <1>1, <1>3, <1>7 DEF ReviewInv, ReviewCalls
<1>9. policy' \in Policies
  BY <1>1 DEF ReviewInv, ReviewCalls
<1>10. PolicyLogged'
  <2>1. PolicyIs(policy, clock)'
    <3>1. CASE req[r].op = "set_policy"
      <4>1. r \in {q \in Requests : Done(q, {"set_policy"})' /\ req'[q].at <= clock + 1}
        BY <1>1, <3>1 DEF Done
      <4>2. \A q \in Requests : Done(q, {"set_policy"})' => req'[q].at <= req'[r].at
        BY <1>1, <1>2, <1>6
      <4> QED BY <1>1, <3>1, <4>1, <4>2 DEF PolicyIs, Changes
    <3>2. CASE req[r].op # "set_policy"
      <4>1. \A q \in Requests : Done(q, {"set_policy"})' <=> Done(q, {"set_policy"})
        BY <1>2, <3>2
      <4>2. {q \in Requests : Done(q, {"set_policy"})' /\ req'[q].at <= clock + 1} = Changes(clock)
        BY <1>1, <1>2, <1>6, <4>1 DEF Changes
      <4>3. \A q \in Changes(clock) : req'[q] = req[q]
        BY <1>2 DEF Changes
      <4>4. PolicyIs(policy, clock)
        BY DEF ReviewInv, PolicyLogged
      <4> QED BY <1>1, <3>2, <4>2, <4>3, <4>4 DEF PolicyIs, Changes
    <3> QED BY <3>1, <3>2
  <2>2. ASSUME NEW x \in Requests, req'[x].pc # "idle"
        PROVE  PolicyIs(req[x].saw.policy, req[x].began)'
    <3>1. /\ req'[x].saw = req[x].saw /\ req'[x].began = req[x].began
          /\ PolicyIs(req[x].saw.policy, req[x].began)
          /\ req[x].began \in Nat /\ req[x].began <= clock
      BY <1>5, <1>7, <2>2 DEF ReviewInv, PolicyLogged
    <3> QED BY <1>1, <3>1, PolicyStays
  <2> QED BY <2>1, <2>2 DEF PolicyLogged
<1>11. \A t : ApprovedBy(t) =>
         \E a \in Requests : Done(a, Approvals)' /\ req'[a].at <= t
  BY <1>2 DEF ApprovedBy
<1>12. ClearedWasApproved'
  <2>1. ASSUME concept'.status \in Cleared PROVE ApprovedBy(clock)'
    <3>1. CASE req[r].op \in Approvals
      <4>1. Done(r, Approvals)' /\ req'[r].at <= clock'
        BY <1>1, <3>1 DEF Done
      <4> QED BY <4>1 DEF ApprovedBy
    <3>2. CASE req[r].op \in {"schedule", "publish"}
      <4>1. ApprovedBy(req[r].began)
        BY <1>1, <3>2 DEF ReviewInv, ClearedWasApproved
      <4> PICK a \in Requests : Done(a, Approvals)' /\ req'[a].at <= req[r].began /\ req'[a] = req[a]
                                /\ Done(a, Approvals)
        BY <1>2, <4>1 DEF ApprovedBy
      <4> QED BY <1>1, <1>6 DEF ApprovedBy
    <3>3. CASE req[r].op \notin Clearing
      <4>1. ApprovedBy(clock)
        BY <1>1, <2>1, <3>3 DEF ReviewInv, ClearedWasApproved
      <4> PICK a \in Requests : Done(a, Approvals) /\ req[a].at <= clock
        BY <4>1 DEF ApprovedBy
      <4> QED BY <1>1, <1>2, <1>6 DEF ApprovedBy
    <3> QED BY <3>1, <3>2, <3>3 DEF Clearing
  <2>2. ASSUME NEW x \in Requests, req'[x].pc # "idle", req'[x].op \in {"schedule", "publish"}
        PROVE  ApprovedBy(req[x].began)'
    <3>1. ApprovedBy(req[x].began) /\ req'[x].began = req[x].began
      BY <1>7, <2>2 DEF ReviewInv, ClearedWasApproved
    <3> QED BY <1>11, <3>1 DEF ApprovedBy
  <2> QED BY <2>1, <2>2 DEF ClearedWasApproved
<1>13. RejectionsExcused'
  <2>1. ASSUME NEW j \in Requests, concept'.status \in Cleared, Done(j, {"reject"})'
        PROVE  Excused(j)'
    <3>1. CASE j = r
      <4>1. req[r].op = "reject" /\ req[r].op \notin Clearing
        BY <1>1, <2>1, <3>1 DEF Done, Clearing, Approvals
      <4>2. concept.status = concept'.status
        BY <1>1, <2>1, <4>1
      <4>3. req[r].saw.row.status \notin Cleared
        BY <1>1, <2>1, <4>1
      <4> PICK q \in Requests : Done(q, Clearing) /\ req[q].at > req[r].began
        BY <1>1, <2>1, <4>2, <4>3 DEF ReviewInv, StatusSeen, ClearedSince
      <4>4. Done(q, Clearing)' /\ req'[q] = req[q]
        BY <1>2
      <4>5. Overlap(q, r)'
        BY <1>1, <1>6, <4>4 DEF Overlap
      <4> QED BY <3>1, <4>4, <4>5 DEF Excused
    <3>2. CASE j # r
      <4>1. Done(j, {"reject"}) /\ req'[j] = req[j]
        BY <1>2, <2>1, <3>2
      <4>2. CASE req[r].op \in Approvals
        <5>1. Done(r, Clearing)' /\ req'[r].op \in Approvals
          BY <1>1, <4>2 DEF Done, Clearing
        <5>2. req'[r].at > req'[j].at
          BY <1>1, <1>6, <4>1
        <5> QED BY <5>1, <5>2 DEF Excused
      <4>3. CASE req[r].op \in {"schedule", "publish"} /\ req[j].at > req[r].began
        <5>1. Done(r, Clearing)'
          BY <1>1, <4>3 DEF Done, Clearing
        <5>2. Overlap(r, j)'
          BY <1>1, <1>6, <4>1, <4>3 DEF Overlap
        <5> QED BY <5>1, <5>2 DEF Excused
      <4>4. CASE req[r].op \in {"schedule", "publish"} /\ req[j].at <= req[r].began
        <5>1. req[r].saw.row.status \in Cleared
          BY <1>1, <4>4 DEF ReviewInv, ReviewCalls, Ready, Cleared
        <5> QED BY <1>1, <1>4, <4>1, <4>4, <5>1 DEF ReviewInv, RejectionsExcused
      <4>5. CASE req[r].op \notin Clearing
        BY <1>1, <1>4, <2>1, <4>1, <4>5 DEF ReviewInv, RejectionsExcused
      <4>6. req[j].at \in Nat /\ req[r].began \in Nat
        BY <1>1, <1>5, <1>6, <4>1
      <4> QED BY <4>2, <4>3, <4>4, <4>5, <4>6 DEF Clearing
    <3> QED BY <3>1, <3>2
  <2>2. ASSUME NEW x \in Requests, NEW j \in Requests, req'[x].pc = "read",
               req'[x].saw.row.status \in Cleared, Done(j, {"reject"})', req'[j].at <= req'[x].began
        PROVE  Excused(j)'
    <3>1. x # r /\ req'[x] = req[x] /\ req[x].began <= clock /\ req[x].began \in Nat
      BY <1>1, <1>3, <1>5, <2>2
    <3>2. j # r
      BY <1>1, <2>2, <3>1
    <3>3. Done(j, {"reject"}) /\ req'[j] = req[j]
      BY <1>2, <2>2, <3>2
    <3> QED BY <1>4, <2>2, <3>1, <3>3 DEF ReviewInv, RejectionsExcused
  <2> QED BY <2>1, <2>2 DEF RejectionsExcused
<1>14. StatusSeen'
  <2> SUFFICES ASSUME NEW x \in Requests, req'[x].pc = "read", concept'.status \in Cleared,
                      req'[x].saw.row.status \notin Cleared
               PROVE  ClearedSince(req[x].began)'
    BY DEF StatusSeen
  <2>1. x # r /\ req'[x] = req[x] /\ req[x].began \in Nat /\ req[x].began <= clock
    BY <1>1, <1>3, <1>5
  <2>2. CASE req[r].op \in Clearing
    <3>1. Done(r, Clearing)' /\ req'[r].at > req[x].began
      BY <1>1, <2>1, <2>2 DEF Done
    <3> QED BY <2>1, <3>1 DEF ClearedSince
  <2>3. CASE req[r].op \notin Clearing
    <3>1. ClearedSince(req[x].began)
      BY <1>1, <2>1, <2>3 DEF ReviewInv, StatusSeen
    <3> QED BY <1>2, <2>1, <3>1 DEF ClearedSince
  <2> QED BY <2>2, <2>3
<1> QED BY <1>1, <1>8, <1>9, <1>10, <1>12, <1>13, <1>14 DEF ReviewInv

LEMMA ReviewInit ==
  ASSUME ReqInit, ReviewDB PROVE ReviewInv
<1>1. LogOK /\ \A r \in Requests : req[r].pc = "idle"
  BY LogInit DEF ReqInit, NotBegun
<1>2. concept \in ConceptRow /\ concept.status \notin Cleared
  BY DEF ReviewDB, ConceptRow, ContentStatuses, Cleared
<1>3. policy \in Policies /\ comments \subseteq Requests
  BY ReviewConstants DEF ReviewDB
<1>4. PolicyLogged
  <2>1. Changes(clock) = {}
    BY <1>1 DEF Changes, Done
  <2> QED BY <1>1, <2>1 DEF PolicyLogged, PolicyIs, ReviewDB
<1>5. ReviewCalls /\ ClearedWasApproved /\ RejectionsExcused /\ StatusSeen
  BY <1>1, <1>2 DEF ReviewCalls, ClearedWasApproved, RejectionsExcused, StatusSeen
<1> QED BY <1>1, <1>2, <1>3, <1>4, <1>5 DEF ReviewInv

LEMMA ReviewStutter ==
  ASSUME ReviewInv, UNCHANGED <<reqVars, reviewVars>> PROVE ReviewInv'
<1>1. LogOK'
  BY LogStutters DEF ReviewInv
<1>2. /\ req' = req /\ clock' = clock
      /\ concept' = concept /\ policy' = policy /\ comments' = comments
  BY DEF reqVars, reviewVars
<1>3. ReviewCalls' /\ PolicyLogged'
  BY <1>2 DEF ReviewInv, ReviewCalls, PolicyLogged, PolicyIs, Changes, Done
<1>4. ClearedWasApproved' /\ StatusSeen'
  BY <1>2 DEF ReviewInv, ClearedWasApproved, StatusSeen, ApprovedBy, ClearedSince, Done
<1>5. RejectionsExcused'
  BY <1>2 DEF ReviewInv, RejectionsExcused, Excused, Overlap, Done
<1> QED BY <1>1, <1>2, <1>3, <1>4, <1>5 DEF ReviewInv

\* Every step keeps the invariant.
LEMMA ReviewSteps ==
  ASSUME ReviewInv, [ReviewNext]_<<reqVars, reviewVars>> PROVE ReviewInv'
<1>1. ASSUME NEW r \in Requests,
             \/ \E op \in ReviewOps, who \in Callers : ReviewRead(r, op, who)
             \/ \E pol \in AskedPolicies : PolicyRead(r, pol)
      PROVE  ReviewInv'
  BY <1>1, ReviewReads, ReviewReadKeeps DEF ReviewInv
<1>2. ASSUME NEW r \in Requests,
             (\E op \in ReviewOps : ReviewCommitted(r, op)) \/ PolicyCommitted(r)
      PROVE  ReviewInv'
  BY <1>2, ReviewWrites, ReviewWriteKeeps
<1>3. CASE UNCHANGED <<reqVars, reviewVars>>
  BY <1>3, ReviewStutter
<1> QED BY <1>1, <1>2, <1>3 DEF ReviewNext

LEMMA ReviewInvariance == ReviewSpec => []ReviewInv
<1>1. ReqInit /\ ReviewDB => ReviewInv
  BY ReviewInit
<1>2. ReviewInv /\ [ReviewNext]_<<reqVars, reviewVars>> => ReviewInv'
  BY ReviewSteps
<1> QED BY <1>1, <1>2, PTL DEF ReviewSpec

-----------------------------------------------------------------------------
LEMMA ReviewTyped == ReviewInv => ReviewTypeOK
<1>1. ASSUME ReviewInv, NEW r \in Requests, req[r].op \in ReviewOps \cup {"set_policy"}
      PROVE  req[r].pc # "idle"
  BY <1>1 DEF ReviewInv, LogOK, NotBegun, ReviewOps, Guarded, Verdicts
<1> QED BY <1>1 DEF ReviewInv, ReviewCalls, ReviewTypeOK

\* The concept, the policy and the comments keep their types.
THEOREM ReviewTypeCorrect == ReviewSpec => []ReviewTypeOK
BY ReviewTyped, ReviewInvariance, PTL

\* What is scheduled or published was approved before the scheduler or publisher
\* looked, by one whom the policy of that time allows, however the policy changes
\* meanwhile (_require_approval_authority, schedule_concept, publish_concept).
THEOREM OnlyApprovedIsPublished == ReviewSpec => []PublishedWasApproved
<1>1. ReviewInv => PublishedWasApproved
  <2> SUFFICES ASSUME ReviewInv, NEW p \in Requests,
                      Done(p, {"schedule", "publish", "approve_and_publish"})
               PROVE  \E a \in Requests :
                        /\ Done(a, Approvals)
                        /\ a = p \/ req[a].at <= req[p].began
                        /\ req[a].on \in Approvers[PolicyFor(a)]
    BY DEF PublishedWasApproved, Approvals
  <2>1. ASSUME NEW a \in Requests, Done(a, Approvals)
        PROVE  req[a].on \in Approvers[PolicyFor(a)]
    <3>1. /\ req[a].pc # "idle" /\ req[a].op \in Verdicts /\ req[a].op \in Guarded
      BY <2>1 DEF Done, Approvals, Verdicts, Guarded
    <3>2. /\ RouteLets(req[a].on, req[a].op) /\ Authority(req[a].on, req[a].saw.policy)
          /\ req[a].saw.policy \in Policies
      BY <3>1 DEF ReviewInv, ReviewCalls
    <3>3. PolicyFor(a) = req[a].saw.policy
      BY <3>1, PolicyForIsSaw DEF ReviewInv, PolicyLogged
    <3> QED BY <3>1, <3>2, <3>3, AuthorityIsApprover
  <2>2. CASE req[p].op = "approve_and_publish"
    BY <2>1, <2>2 DEF Done, Approvals
  <2>3. CASE req[p].op \in {"schedule", "publish"}
    <3>1. ApprovedBy(req[p].began)
      BY <2>3 DEF Done, ReviewInv, ClearedWasApproved
    <3> QED BY <2>1, <3>1 DEF ApprovedBy
  <2> QED BY <2>2, <2>3 DEF Done
<1> QED BY <1>1, ReviewInvariance, PTL

\* A rejected concept is approved, scheduled or published again only by an approval
\* that came later or a request that overlapped the rejection.
THEOREM OnlyOverlapsForgetRejections == ReviewSpec => []RejectionStands
<1>1. ReviewInv => RejectionStands
  <2> SUFFICES ASSUME ReviewInv, NEW j \in Requests, Done(j, {"reject"}),
                      concept.status \in Cleared
               PROVE  \E q \in Requests :
                        /\ Done(q, ReviewOps) /\ req[q].op \in Clearing
                        /\ \/ req[q].op \in Approvals /\ req[q].at > req[j].at
                           \/ Overlap(q, j)
    BY DEF RejectionStands, Cleared, Clearing, Approvals
  <2> PICK q \in Requests :
        /\ Done(q, Clearing)
        /\ (req[q].op \in Approvals /\ req[q].at > req[j].at) \/ Overlap(q, j)
    BY DEF ReviewInv, RejectionsExcused, Excused
  <2> QED BY DEF Done, Clearing, Approvals, ReviewOps, Guarded, Verdicts
<1> QED BY <1>1, ReviewInvariance, PTL
=============================================================================
