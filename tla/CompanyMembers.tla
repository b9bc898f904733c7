--------------------------- MODULE CompanyMembers ---------------------------
(***************************************************************************)
(* The members of one company (CompanyMemberService) and of one product of *)
(* it (ProductService).  Writes are for the company's admins, the product's *)
(* managers and Super Admins; the last are always there, so the caller of  *)
(* a request is no part of the model.                                      *)
(***************************************************************************)
EXTENDS Snapshots

CONSTANTS
  Users,     \* people with an email address
  Founder    \* the one who registered the company

ASSUME MembersConstants == Founder \in Users

VARIABLES
  member,         \* member[u] : the row of u in company_members
  productMember   \* productMember[u] : the request that added the row in product_members

memberVars == <<member, productMember>>

Roles == {"company_admin", "member"}
MemberStatuses == {"active", "suspended"}

\* id: the request that added the row.
Absent == [role |-> "none", status |-> "none", id |-> Nothing]
MemberRows == [role : Roles, status : MemberStatuses, id : Requests \cup {Nothing}] \cup {Absent}

\* What a request is about: a user, the role and status to give it, and the row in
\* product_members that the snapshot shows.
Wish(u, role, status) ==
  [user |-> u, role |-> role, status |-> status, row |-> productMember[u]]

Admins == {u \in Users : member[u].role = "company_admin"}

MembersDB ==
  /\ member = [u \in Users |->
       IF u = Founder THEN [role |-> "company_admin", status |-> "active", id |-> Nothing]
                      ELSE Absent]
  /\ productMember = [u \in Users |-> Nothing]

-----------------------------------------------------------------------------
(* add_member.  find_or_create_user_by_email may create the account.       *)

AddRead(r, u, role) ==
  /\ member[u] = Absent
  /\ Begins(r, "add", Wish(u, role, "active"), Absent)
  /\ UNCHANGED memberVars

\* The row of the user that request r is about.
Now(r) == member[req[r].on.user]

AddCommitted(r) ==
  LET w == req[r].on IN
  /\ Commits(r, "add")
  /\ member[w.user] = Absent
  /\ member' = [member EXCEPT ![w.user] = [role |-> w.role, status |-> w.status, id |-> r]]
  /\ UNCHANGED productMember

\* uq_company_members_company_user.
AddFailed(r) == Fails(r, "add") /\ Now(r) # Absent /\ UNCHANGED memberVars

-----------------------------------------------------------------------------
(* update_member and remove_member.                                        *)

\* A variant of OtherAdmins that counts the member itself.
AllAdmins(u) == {v \in Admins : u \in Users}

\* _active_admin_count looks at roles only.
OtherAdmins(u) == Admins \ {u}

\* A field the payload leaves out keeps its loaded value.  A payload that changes
\* nothing sends no UPDATE: no step.
UpdateRead(r, u, role, status) ==
  /\ member[u] # Absent
  /\ role # member[u].role \/ status # member[u].status
  /\ (member[u].role = "company_admin" /\ role = "member") => OtherAdmins(u) # {}
  /\ Begins(r, "update", Wish(u, role, status), member[u])
  /\ UNCHANGED memberVars

RemoveRead(r, u) ==
  /\ member[u] # Absent
  /\ member[u].role = "company_admin" => OtherAdmins(u) # {}
  /\ Begins(r, "remove", Wish(u, Nothing, Nothing), member[u])
  /\ UNCHANGED memberVars

Present(r) == Now(r) # Absent /\ Now(r).id = req[r].saw.id

Updated(r) ==
  [role   |-> Column(Now(r).role, req[r].saw.role, req[r].on.role),
   status |-> Column(Now(r).status, req[r].saw.status, req[r].on.status),
   id     |-> Now(r).id]

UpdateCommitted(r) ==
  /\ Commits(r, "update")
  /\ Present(r)
  /\ member' = [member EXCEPT ![req[r].on.user] = Updated(r)]
  /\ UNCHANGED productMember

\* UPDATE of a row that has gone.
UpdateFailed(r) == Fails(r, "update") /\ ~Present(r) /\ UNCHANGED memberVars

\* A variant of RemoveCommitted that only takes the role away.
RemoveCommittedHalf(r) ==
  /\ Commits(r, "remove")
  /\ member' = [member EXCEPT ![req[r].on.user].role = "none"]
  /\ UNCHANGED productMember

\* DELETE of a row that has gone deletes nothing and is accepted.
RemoveCommitted(r) ==
  /\ Commits(r, "remove")
  /\ member' = IF Present(r) THEN [member EXCEPT ![req[r].on.user] = Absent] ELSE member
  /\ UNCHANGED productMember

-----------------------------------------------------------------------------
(* The product: add_member, invite_member, remove_member.                  *)

ProductAddRead(r, u) ==
  /\ member[u] # Absent
  /\ productMember[u] = Nothing
  /\ Begins(r, "product_add", Wish(u, Nothing, Nothing), member[u])
  /\ UNCHANGED memberVars

\* By email: whoever is not in the company yet becomes a member of it, too.
InviteRead(r, u) ==
  /\ productMember[u] = Nothing
  /\ Begins(r, "invite", Wish(u, "member", "active"), member[u])
  /\ UNCHANGED memberVars

ProductRemoveRead(r, u) ==
  /\ productMember[u] # Nothing
  /\ Begins(r, "product_remove", Wish(u, Nothing, Nothing), member[u])
  /\ UNCHANGED memberVars

NewInCompany(r) == req[r].op = "invite" /\ req[r].saw = Absent

\* A variant of ProductJoinCommitted that leaves the company's row to someone else.
ProductJoinCommittedAlone(r, op) ==
  /\ Commits(r, op)
  /\ productMember[req[r].on.user] = Nothing
  /\ productMember' = [productMember EXCEPT ![req[r].on.user] = r]
  /\ UNCHANGED member

ProductJoinCommitted(r, op) ==
  LET w == req[r].on IN
  /\ Commits(r, op)
  /\ productMember[w.user] = Nothing
  /\ productMember' = [productMember EXCEPT ![w.user] = r]
  /\ IF NewInCompany(r)
       THEN /\ member[w.user] = Absent
            /\ member' = [member EXCEPT ![w.user] = [role |-> w.role, status |-> w.status, id |-> r]]
       ELSE UNCHANGED member

\* uq_product_members_product_user, uq_company_members_company_user.
ProductJoinFailed(r, op) ==
  /\ Fails(r, op)
  /\ productMember[req[r].on.user] # Nothing \/ (NewInCompany(r) /\ Now(r) # Absent)
  /\ UNCHANGED memberVars

ProductRemoveCommitted(r) ==
  /\ Commits(r, "product_remove")
  /\ productMember' = [u \in Users |->
       IF productMember[u] = req[r].on.row /\ u = req[r].on.user THEN Nothing ELSE productMember[u]]
  /\ UNCHANGED member

-----------------------------------------------------------------------------
MembersRead(r, u) ==
  \/ \E role \in Roles : AddRead(r, u, role)
  \/ \E role \in Roles, status \in MemberStatuses : UpdateRead(r, u, role, status)
  \/ RemoveRead(r, u)
  \/ ProductAddRead(r, u)
  \/ InviteRead(r, u)
  \/ ProductRemoveRead(r, u)

MembersCommit(r) ==
  \/ AddCommitted(r)
  \/ AddFailed(r)
  \/ UpdateCommitted(r)
  \/ UpdateFailed(r)
  \/ RemoveCommitted(r)
  \/ \E op \in {"product_add", "invite"} : ProductJoinCommitted(r, op)
  \/ \E op \in {"product_add", "invite"} : ProductJoinFailed(r, op)
  \/ ProductRemoveCommitted(r)

MembersNext ==
  \E r \in Requests : MembersCommit(r) \/ \E u \in Users : MembersRead(r, u)

MembersSpec == ReqInit /\ MembersDB /\ [][MembersNext]_<<reqVars, memberVars>>

-----------------------------------------------------------------------------
MemberOps == {"add", "update", "remove", "product_add", "invite", "product_remove"}

MembersTypeOK ==
  /\ member \in [Users -> MemberRows]
  /\ productMember \in [Users -> Requests \cup {Nothing}]
  /\ \A r \in Requests : req[r].op \in MemberOps =>
       /\ req[r].on.user \in Users
       /\ req[r].saw \in MemberRows

\* Request r can take the role of admin from a member.  A removal can even if its
\* snapshot showed a plain member: a promotion may have committed since.
Unseats(r) ==
  \/ req[r].op = "remove"
  \/ req[r].op = "update" /\ req[r].saw.role = "company_admin" /\ req[r].on.role = "member"

\* The last admin loses the role only to two overlapping requests, each of which
\* counted an admin that the other took away.
AdminsLostByOverlap ==
  Admins = {} =>
    \E p, q \in Requests :
      /\ p # q
      /\ Done(p, {"update", "remove"}) /\ Unseats(p)
      /\ Done(q, {"update", "remove"}) /\ Unseats(q)
      /\ Overlap(p, q)

\* Whoever is in the product is in the company, unless they were removed from the
\* company after the request that added them to the product had read.
ProductMembersBelong ==
  \A u \in Users :
    (productMember[u] # Nothing /\ member[u] = Absent)
      => \E x \in Requests :
           Done(x, {"remove"}) /\ req[x].on.user = u /\ req[x].at > req[productMember[u]].began

\* README.md:121: a company never ends up with "zero active admins".
ActiveAdminRemains ==
  \E u \in Admins : member[u].status = "active"
=============================================================================
