------------------------------- MODULE Access -------------------------------
(***************************************************************************)
(* What one user may do: the role guards of core/deps.py, the roles that   *)
(* each route asks for, the gate that login puts before them, and what     *)
(* login and /auth/me tell the user about it.                              *)
(*                                                                         *)
(* The guards and the answers read the same rows in different ways, and    *)
(* the rows change one by one: companies are suspended and deleted,        *)
(* memberships come and go, and a membership of a product outlives that of *)
(* its company.  Each change is one committed request of someone else;     *)
(* their races are CompanyApproval's and CompanyMembers's.                 *)
(***************************************************************************)
EXTENDS Naturals, FiniteSets

CONSTANTS
  Companies,     \* numbered as they were created
  Home,          \* the company of the one product
  SubProducts    \* the sub-products of the product

ASSUME AccessConstants == Companies \subseteq Nat /\ IsFiniteSet(Companies) /\ Home \in Companies

VARIABLES
  isSuperAdmin,  \* users.is_super_admin
  status,        \* status[c], deleted[c] : the row in companies
  deleted,
  seat,          \* seat[c] : the role of the user in company_members, if any
  live,          \* the product and those of its sub-products that are not deleted
  liveSubs,
  joined         \* the user's row in product_members, if any

accessVars == <<isSuperAdmin, status, deleted, seat, live, liveSubs, joined>>

CompanyStatuses == {"pending_approval", "active", "rejected", "suspended"}
CompanyRoles == {"company_admin", "member"}
ProductRoles == {"product_manager", "creator", "approver"}   \* publisher, analyst: as approver

\* subs: sub_product_ids; empty means all.
Joins == [role : ProductRoles, subs : SUBSET SubProducts]
NotJoined == [role |-> "none", subs |-> {}]

AccessDB ==
  /\ isSuperAdmin \in BOOLEAN
  /\ status = [c \in Companies |-> "pending_approval"]
  /\ deleted = [c \in Companies |-> FALSE]
  /\ seat = [c \in Companies |-> "none"]
  /\ live = FALSE /\ liveSubs = {} /\ joined = NotJoined

-----------------------------------------------------------------------------
(* The changes.                                                            *)

Decided(c, to) ==
  /\ ~deleted[c] /\ status[c] # to
  /\ to = "rejected" => status[c] = "pending_approval"
  /\ status' = [status EXCEPT ![c] = to]
  /\ UNCHANGED <<isSuperAdmin, deleted, seat, live, liveSubs, joined>>

CompanyDeleted(c) ==
  /\ ~deleted[c]
  /\ deleted' = [deleted EXCEPT ![c] = TRUE]
  /\ UNCHANGED <<isSuperAdmin, status, seat, live, liveSubs, joined>>

\* add_member, update_member and remove_member, which leaves product_members alone.
\* The company has other admins, so nothing here is refused as the last one.
Seated(c, role) ==
  /\ ~deleted[c] /\ seat[c] # role
  /\ seat' = [seat EXCEPT ![c] = role]
  /\ UNCHANGED <<isSuperAdmin, status, deleted, live, liveSubs, joined>>

ProductCreated ==
  /\ ~live /\ ~deleted[Home] /\ joined = NotJoined /\ liveSubs = {}
  /\ live' = TRUE
  /\ UNCHANGED <<isSuperAdmin, status, deleted, seat, liveSubs, joined>>

ProductDeleted ==
  /\ live
  /\ live' = FALSE
  /\ UNCHANGED <<isSuperAdmin, status, deleted, seat, liveSubs, joined>>

SubProductCreated(s) ==
  /\ live /\ s \notin liveSubs
  /\ liveSubs' = liveSubs \cup {s}
  /\ UNCHANGED <<isSuperAdmin, status, deleted, seat, live, joined>>

SubProductDeleted(s) ==
  /\ live /\ s \in liveSubs
  /\ liveSubs' = liveSubs \ {s}
  /\ UNCHANGED <<isSuperAdmin, status, deleted, seat, live, joined>>

\* add_member of a product asks for a seat in the company, invite_member gives one.
Joined(role, subs) ==
  /\ live /\ joined = NotJoined
  /\ joined' = [role |-> role, subs |-> subs]
  /\ seat' = [seat EXCEPT ![Home] = IF @ = "none" THEN "member" ELSE @]
  /\ UNCHANGED <<isSuperAdmin, status, deleted, live, liveSubs>>

Left ==
  /\ live /\ joined # NotJoined
  /\ joined' = NotJoined
  /\ UNCHANGED <<isSuperAdmin, status, deleted, seat, live, liveSubs>>

AccessNext ==
  \/ \E c \in Companies :
       \/ \E to \in {"active", "rejected", "suspended"} : Decided(c, to)
       \/ \E role \in CompanyRoles \cup {"none"} : Seated(c, role)
       \/ CompanyDeleted(c)
  \/ ProductCreated \/ ProductDeleted \/ Left
  \/ \E s \in SubProducts : SubProductCreated(s) \/ SubProductDeleted(s)
  \/ \E j \in Joins : Joined(j.role, j.subs)

AccessSpec == AccessDB /\ [][AccessNext]_accessVars

-----------------------------------------------------------------------------
(* The guards.  An empty set of roles asks for any.                        *)

CompanyRoute(c, roles) ==
  /\ ~deleted[c]
  /\ isSuperAdmin \/ (seat[c] # "none" /\ (roles = {} \/ seat[c] \in roles))

\* Neither the company's row nor membership of it is looked at.
ProductRoute(roles) ==
  /\ live
  /\ \/ isSuperAdmin
     \/ seat[Home] = "company_admin"
     \/ joined # NotJoined /\ (roles = {} \/ joined.role \in roles)

SubProductRoute(s, roles) ==
  /\ live /\ s \in liveSubs
  /\ \/ isSuperAdmin
     \/ seat[Home] = "company_admin"
     \/ /\ joined # NotJoined
        /\ joined.subs = {} \/ s \in joined.subs
        /\ roles = {} \/ joined.role \in roles

AnyRole == {}
Manager == {"product_manager"}
Makers == {"product_manager", "creator"}
Admin == {"company_admin"}

\* A table of routes: anyone may take the open ones, the others ask for roles.
Asking(open, roles, closed) ==
  [r \in open \cup closed |-> IF r \in closed THEN roles ELSE AnyRole]

\* The roles each route under a company, a product or a sub-product asks for.
CompanyRoutes ==
  Asking({"list_company_members", "get_onboarding_status"},
         Admin, {"add_company_member", "update_company_member", "remove_company_member",
                 "select_brand_structure", "update_single_brand_details",
                 "update_group_profile", "upload_group_logo", "complete_onboarding"})

CompanyProductRoutes ==
  Asking({"list_company_products"}, Admin, {"create_product"})

ProductRoutes ==
  Asking({"get_product_dashboard", "list_product_members"},
         Manager, {"update_product", "delete_product", "add_product_member", "invite_product_member",
                   "remove_product_member"})

SubProductListRoutes ==
  Asking({"list_sub_products"}, Manager, {"create_sub_products"})

SubProductRoutes == [r \in {"update_sub_product", "delete_sub_product"} |-> Manager]

CreativesRoutes ==
  Asking({"get_generation_job", "list_creative_concepts", "get_creative_concept",
          "submit_concept_for_review", "list_creative_concept_comments",
          "add_creative_concept_comment", "download_creative_asset"},
         Makers, {"generate_creatives", "render_creative_assets", "approve_creative_concept",
                  "reject_creative_concept", "schedule_creative_concept",
                  "publish_creative_concept", "approve_and_publish_creative_concept"})

\* connect_*: checked by the service (_require_product), which has the guard once more.
SocialAccountsRoutes ==
  Asking({"list_social_accounts", "add_social_account", "start_social_oauth",
          "test_post_social_account", "connect_instagram", "connect_facebook",
          "connect_youtube", "connect_google_business"},
         Manager, {"remove_social_account"})

BrandRoutes ==
  Asking({"get_product_brand_profile", "get_product_effective_brand_profile",
          "download_product_brand_image"},
         Manager, {"upsert_product_brand_profile", "upload_product_brand_image"})

CompanyBrandRoutes ==
  Asking({"get_company_brand_profile", "download_company_brand_logo"},
         Admin, {"upsert_company_brand_profile", "upload_company_brand_logo"})

SubProductBrandRoutes ==
  Asking({"get_sub_product_brand_profile", "get_sub_product_effective_brand_profile",
          "download_sub_product_brand_logo"},
         Manager, {"upsert_sub_product_brand_profile", "upload_sub_product_brand_logo"})

\* The one route under each of company, product and sub-product.
AnalysisRoutes == [company |-> Admin, product |-> Manager, sub_product |-> Manager]

Asked(tables, of) ==
  (UNION {{t[r] : r \in DOMAIN t} : t \in tables}) \cup {AnalysisRoutes[of]}

OfCompany == Asked({CompanyRoutes, CompanyProductRoutes, CompanyBrandRoutes}, "company")
OfProduct ==
  Asked({ProductRoutes, SubProductListRoutes, CreativesRoutes, SocialAccountsRoutes, BrandRoutes},
        "product")
OfSubProduct == Asked({SubProductRoutes, SubProductBrandRoutes}, "sub_product")

-----------------------------------------------------------------------------
(* What the user is told.                                                  *)

Mine == {c \in Companies : seat[c] # "none"}

NewestCompany(set) == CHOOSE c \in set : \A d \in set : d <= c

\* _blocking_company_status_reason.
Blocked == ~isSuperAdmin /\ Mine # {} /\ \A c \in Mine : status[c] # "active" \/ deleted[c]

\* _company_login_context looks at the status only, so the company may be a deleted one.
LoginContext ==
  LET active == {c \in Mine : status[c] = "active"} IN
  IF isSuperAdmin \/ active = {} THEN {} ELSE {NewestCompany(active)}

NamedAsAdmin(c) == seat[c] = "company_admin"

\* A variant of MeRole that looks into product_members only.
MeRoleByRow == IF live THEN joined.role ELSE "none"

\* The role under which me lists the product.
MeRole ==
  CASE ~live -> "none"
    [] live /\ ~deleted[Home] /\ seat[Home] = "company_admin" -> "company_admin"
    [] OTHER -> joined.role

\* list_products, behind CompanyRoute(Home, AnyRole).
ListsProduct == live /\ (isSuperAdmin \/ seat[Home] = "company_admin" \/ joined # NotJoined)

-----------------------------------------------------------------------------
AccessTypeOK ==
  /\ isSuperAdmin \in BOOLEAN
  /\ status \in [Companies -> CompanyStatuses]
  /\ deleted \in [Companies -> BOOLEAN]
  /\ seat \in [Companies -> CompanyRoles \cup {"none"}]
  /\ live \in BOOLEAN
  /\ liveSubs \subseteq SubProducts
  /\ joined \in Joins \cup {NotJoined}

RoleAllows(role, roles) == role # "none" /\ (roles = {} \/ role \in roles \cup Admin)

\* Every route of the product lets the user do what the role that me lists says, and no
\* more unless the user is admin of a deleted company, whose products me leaves out.
MeTellsTheRoutes ==
  \A roles \in OfProduct :
    /\ RoleAllows(MeRole, roles) => ProductRoute(roles)
    /\ ProductRoute(roles) =>
         RoleAllows(MeRole, roles) \/ (deleted[Home] /\ seat[Home] = "company_admin")

\* The company that login names to someone who is in one company only is open to them,
\* under its admins' routes if it is named as theirs to administer.
LoginTellsTheRoutes ==
  (Cardinality(Mine) = 1 /\ ~Blocked) =>
    \A c \in Mine : c \in LoginContext
      /\ \A roles \in OfCompany : CompanyRoute(c, roles) <=> roles = AnyRole \/ NamedAsAdmin(c)

\* What the answers say is what the guards do: me and login as above, the company's
\* list of products, and no sub-product is open to whom its product is not.
ToldIsSo ==
  ~isSuperAdmin =>
    /\ MeTellsTheRoutes
    /\ LoginTellsTheRoutes
    /\ CompanyRoute(Home, AnyRole) => (ListsProduct <=> MeRole # "none")
    /\ \A s \in SubProducts, roles \in OfSubProduct :
         SubProductRoute(s, roles) => ProductRoute(roles)
=============================================================================
