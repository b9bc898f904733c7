--------------------------- MODULE ContentReview ---------------------------
(***************************************************************************)
(* One concept from the worker's draft to publication (CreativeService,    *)
(* submit_for_review to add_comment), under the approval policy of its     *)
(* product (ProductService.update_product).                                *)
(*                                                                         *)
(* schedule and publish look at the status they loaded; submit, approve    *)
(* and reject do not look at it.  All of them send back the columns they   *)
(* changed.  Columns of times and people are named by the request that     *)
(* set them.                                                               *)
(***************************************************************************)
EXTENDS Snapshots

CONSTANTS
  Callers,         \* the kinds of callers of this instance
  FirstPolicy,     \* the product's policy when the concept is drafted
  AskedPolicies    \* the policies that the product's managers change it to

VARIABLES
  concept,   \* the row in creative_concepts
  policy,    \* products.approval_policy
  comments   \* the rows in content_comments

reviewVars == <<concept, policy, comments>>

Policies == {"no_approval", "one_approver", "product_manager_approval", "company_admin_approval"}

ProductRoles == {"creator", "approver", "publisher", "analyst", "product_manager"}

\* What a caller is to the product: a member of it in one role, or a Company Admin
\* or Super Admin, who are checked alike.
CallerKinds == ProductRoles \cup {"admin"}

ASSUME ReviewConstants ==
  Callers \subseteq CallerKinds /\ FirstPolicy \in Policies /\ AskedPolicies \subseteq Policies

ContentStatuses == {"draft", "in_review", "approved", "rejected", "scheduled", "published"}

ConceptRow == [status    : ContentStatuses,
               reviewed  : Requests \cup {Nothing},   \* reviewed_by, reviewed_at
               scheduled : Requests \cup {Nothing},   \* scheduled_at
               published : Requests \cup {Nothing}]   \* published_at

ReviewDB ==
  /\ concept = [status |-> "draft", reviewed |-> Nothing, scheduled |-> Nothing,
                published |-> Nothing]
  /\ policy = FirstPolicy
  /\ comments = {}

-----------------------------------------------------------------------------
(* Who may do what.                                                        *)

Verdicts == {"approve", "reject", "approve_and_publish"}
Guarded == Verdicts \cup {"schedule", "publish"}
ReviewOps == Guarded \cup {"submit", "comment"}

\* require_product_access on the routes.
RouteLets(who, op) ==
  op \in Guarded => who \in {"admin", "product_manager", "creator"}

\* A variant of Authority that reads every policy as one_approver.
AuthorityOfOne(who, pol) == who \in {"admin", "approver", "product_manager", "creator"}

\* _require_approval_authority.
Authority(who, pol) ==
  \/ who = "admin"
  \/ pol = "no_approval"
  \/ pol = "product_manager_approval" /\ who = "product_manager"
  \/ pol = "one_approver" /\ who \in {"approver", "product_manager"}

\* A variant of Ready that only refuses drafts.
ReadyOnceReviewed(op, status) == op \in {"schedule", "publish"} => status # "draft"

\* The statuses that schedule_concept and publish_concept start from.
Ready(op, status) ==
  /\ op = "schedule" => status = "approved"
  /\ op = "publish" => status \in {"approved", "scheduled"}

-----------------------------------------------------------------------------
\* Access, policy and concept are read in one snapshot.
ReviewRead(r, op, who) ==
  /\ RouteLets(who, op)
  /\ op \in Verdicts => Authority(who, policy)
  /\ Ready(op, concept.status)
  /\ Begins(r, op, who, [row |-> concept, policy |-> policy])
  /\ UNCHANGED reviewVars

Outcome(op, status) ==
  CASE op = "submit"   -> "in_review"
    [] op = "approve"  -> "approved"
    [] op = "reject"   -> "rejected"
    [] op = "schedule" -> "scheduled"
    [] op \in {"publish", "approve_and_publish"} -> "published"
    [] op = "comment"  -> status

\* The columns that request r sends.
Reviewed(r, op) ==
  [status    |-> Column(concept.status, req[r].saw.row.status,
                        Outcome(op, req[r].saw.row.status)),
   reviewed  |-> IF op = "comment" THEN concept.reviewed ELSE r,
   scheduled |-> IF op = "schedule" THEN r ELSE concept.scheduled,
   published |-> IF op \in {"publish", "approve_and_publish"} THEN r ELSE concept.published]

ReviewCommitted(r, op) ==
  /\ Commits(r, op)
  /\ concept' = Reviewed(r, op)
  /\ comments' = IF op \in {"reject", "comment"} THEN comments \cup {r} ELSE comments
  /\ UNCHANGED policy

\* update_product with an approval_policy.
PolicyRead(r, pol) ==
  /\ pol # policy
  /\ Begins(r, "set_policy", pol, [row |-> concept, policy |-> policy])
  /\ UNCHANGED reviewVars

PolicyCommitted(r) ==
  /\ Commits(r, "set_policy")
  /\ policy' = Column(policy, req[r].saw.policy, req[r].on)
  /\ UNCHANGED <<concept, comments>>

ReviewNext ==
  \E r \in Requests :
    \/ \E op \in ReviewOps, who \in Callers : ReviewRead(r, op, who)
    \/ \E op \in ReviewOps : ReviewCommitted(r, op)
    \/ \E pol \in AskedPolicies : PolicyRead(r, pol)
    \/ PolicyCommitted(r)

ReviewSpec == ReqInit /\ ReviewDB /\ [][ReviewNext]_<<reqVars, reviewVars>>

-----------------------------------------------------------------------------
ReviewTypeOK ==
  /\ concept \in ConceptRow
  /\ policy \in Policies
  /\ comments \subseteq Requests
  /\ \A r \in Requests : req[r].op \in ReviewOps \cup {"set_policy"} =>
       /\ req[r].saw.row \in ConceptRow
       /\ req[r].saw.policy \in Policies
       /\ req[r].op = "set_policy" => req[r].on \in Policies

\* The policy that the snapshot of request r showed, by the log of changes.
PolicyFor(r) ==
  LET changes == {q \in Requests : Done(q, {"set_policy"}) /\ req[q].at <= req[r].began} IN
  IF changes = {} THEN FirstPolicy
  ELSE req[CHOOSE q \in changes : \A p \in changes : req[p].at <= req[q].at].on

\* Whom each policy lets approve.
Approvers ==
  [no_approval              |-> {"admin", "product_manager", "creator"},
   one_approver             |-> {"admin", "product_manager", "approver"},
   product_manager_approval |-> {"admin", "product_manager"},
   company_admin_approval   |-> {"admin"}]

\* Whatever is scheduled or published was approved before the scheduler or publisher
\* looked, or in one step with it, by someone whom the policy of that time allows.
PublishedWasApproved ==
  \A p \in Requests : Done(p, {"schedule", "publish", "approve_and_publish"}) =>
    \E a \in Requests :
      /\ Done(a, {"approve", "approve_and_publish"})
      /\ a = p \/ req[a].at <= req[p].began
      /\ req[a].on \in Approvers[PolicyFor(a)]

\* A rejection that nobody approved after keeps the concept from being scheduled or
\* published, unless a request that overlapped it wrote the status.
RejectionStands ==
  \A j \in Requests :
    (Done(j, {"reject"}) /\ concept.status \in {"approved", "scheduled", "published"}) =>
      \E q \in Requests :
        /\ Done(q, ReviewOps) /\ req[q].op \in {"approve", "schedule", "publish", "approve_and_publish"}
        /\ \/ req[q].op \in {"approve", "approve_and_publish"} /\ req[q].at > req[j].at
           \/ Overlap(q, j)
=============================================================================
