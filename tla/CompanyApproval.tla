-------------------------- MODULE CompanyApproval --------------------------
(***************************************************************************)
(* The row of one company: the decisions of Super Admins about it          *)
(* (AdminService: approve, reject, suspend, delete), its progress through  *)
(* onboarding (CompanyService, verify_email, create_product), and the gate *)
(* that its status is for the login of its members.                        *)
(*                                                                         *)
(* Deciders and onboarding requests load the whole row and send back the   *)
(* columns they changed, so what two of them write is merged by column.    *)
(***************************************************************************)
EXTENDS Snapshots

CONSTANT AskedSteps   \* the steps that requests ask for

Steps == 0..5         \* _STEP_ORDER: 0 is registered, 5 completed

ASSUME CompanyConstants == AskedSteps \subseteq Steps

VARIABLE company      \* the row in companies

Statuses == {"pending_approval", "active", "rejected", "suspended"}

\* approvedBy and rejectedBy stand for the columns that approve_company and
\* reject_company set (approved_by and approved_at, rejected_at and
\* rejection_reason): the request that set them.
CompanyRows == [status     : Statuses,
                approvedBy : Requests \cup {Nothing},
                rejectedBy : Requests \cup {Nothing},
                step       : Steps,
                deleted    : BOOLEAN]

\* As register leaves it.
CompanyDB ==
  company = [status |-> "pending_approval", approvedBy |-> Nothing,
             rejectedBy |-> Nothing, step |-> 0, deleted |-> FALSE]

-----------------------------------------------------------------------------
(* What each operation makes of the row it loaded.                         *)

Approval(r, row) == [status |-> "active", approvedBy |-> r, rejectedBy |-> Nothing,
                     step |-> row.step, deleted |-> row.deleted]

Rejection(r, row) == [status |-> "rejected", approvedBy |-> row.approvedBy, rejectedBy |-> r,
                      step |-> row.step, deleted |-> row.deleted]

Suspension(row) == [status |-> "suspended", approvedBy |-> row.approvedBy,
                    rejectedBy |-> row.rejectedBy, step |-> row.step, deleted |-> row.deleted]

Deletion(row) == [status |-> row.status, approvedBy |-> row.approvedBy,
                  rejectedBy |-> row.rejectedBy, step |-> row.step, deleted |-> TRUE]

\* A variant of Advance that does not compare the steps.
AdvanceAnyway(step, row) == [status |-> row.status, approvedBy |-> row.approvedBy,
                             rejectedBy |-> row.rejectedBy, step |-> step,
                             deleted |-> row.deleted]

Advance(step, row) == [status |-> row.status, approvedBy |-> row.approvedBy,
                       rejectedBy |-> row.rejectedBy,
                       step |-> IF step > row.step THEN step ELSE row.step,
                       deleted |-> row.deleted]

\* A variant of DecisionRead without the conflict check of reject_company.
DecisionReadUnguarded(r, op) ==
  ~company.deleted /\ Begins(r, op, Nothing, company) /\ UNCHANGED company

\* _get_company or the lookup of AdminService, with its conflict check.
DecisionRead(r, op) ==
  /\ ~company.deleted
  /\ op = "approve" => company.status # "active"
  /\ op = "reject" => company.status = "pending_approval"
  /\ op = "suspend" => company.status # "suspended"
  /\ Begins(r, op, Nothing, company)
  /\ UNCHANGED company

\* advance_onboarding_step in a request about something else.
StepRead(r, step) ==
  ~company.deleted /\ Begins(r, "advance", step, company) /\ UNCHANGED company

New(r) ==
  CASE req[r].op = "approve" -> Approval(r, req[r].saw)
    [] req[r].op = "reject"  -> Rejection(r, req[r].saw)
    [] req[r].op = "suspend" -> Suspension(req[r].saw)
    [] req[r].op = "delete"  -> Deletion(req[r].saw)
    [] req[r].op = "advance" -> Advance(req[r].on, req[r].saw)

Merged(saw, new) ==
  [status     |-> Column(company.status, saw.status, new.status),
   approvedBy |-> Column(company.approvedBy, saw.approvedBy, new.approvedBy),
   rejectedBy |-> Column(company.rejectedBy, saw.rejectedBy, new.rejectedBy),
   step       |-> Column(company.step, saw.step, new.step),
   deleted    |-> Column(company.deleted, saw.deleted, new.deleted)]

Deciding == {"approve", "reject", "suspend", "delete"}

RowCommitted(r, op) == Commits(r, op) /\ company' = Merged(req[r].saw, New(r))

CompanyNext ==
  \E r \in Requests :
    \/ \E op \in Deciding : DecisionRead(r, op)
    \/ \E step \in AskedSteps : StepRead(r, step)
    \/ \E op \in Deciding \cup {"advance"} : RowCommitted(r, op)

CompanySpec == ReqInit /\ CompanyDB /\ [][CompanyNext]_<<reqVars, company>>

-----------------------------------------------------------------------------
CompanyTypeOK ==
  /\ company \in CompanyRows
  /\ \A r \in Requests :
       (req[r].pc # "idle" /\ req[r].op \in Deciding \cup {"advance"}) =>
         /\ req[r].saw \in CompanyRows
         /\ req[r].op = "advance" => req[r].on \in Steps

DecisionsOverlap ==
  \E p, q \in Requests :
    p # q /\ Done(p, Deciding \ {"delete"}) /\ Done(q, Deciding \ {"delete"}) /\ Overlap(p, q)

\* Unless decisions overlap the row tells one story: active means approved, and a
\* reason for rejection is there only while the company is rejected, or suspended
\* since.
DecisionIsWhole ==
  ~DecisionsOverlap =>
    /\ company.status = "active" => company.approvedBy # Nothing /\ company.rejectedBy = Nothing
    /\ company.status = "rejected" => company.rejectedBy # Nothing /\ company.approvedBy = Nothing
    /\ company.status = "pending_approval" => company.approvedBy = Nothing /\ company.rejectedBy = Nothing

\* The step that each committed onboarding request asked for is reached and kept,
\* unless two of them overlap.
OnboardingKeepsSteps ==
  \A p \in Requests : Done(p, {"advance"}) =>
    \/ company.step >= req[p].on
    \/ \E q \in Requests : q # p /\ Done(q, {"advance"}) /\ Overlap(p, q)
=============================================================================
