--------------------------- MODULE SocialAccounts ---------------------------
(***************************************************************************)
(* The accounts that one product has on one platform: entered by hand      *)
(* (add_account, remove_account), connected by OAuth (complete_oauth), and *)
(* deleted with the product (ProductService.delete_product).               *)
(*                                                                         *)
(* Rows are deleted softly and keep their handle, which is unique in the   *)
(* table.  The OAuth callback takes its snapshot before the exchange with  *)
(* the provider, which lasts for seconds.  Providers answer with one       *)
(* profile.  A row is named by the request that inserted it.               *)
(***************************************************************************)
EXTENDS Snapshots

CONSTANT Profiles   \* what providers answer: [handle, external]

ASSUME ProfilesConstants ==
  \A p \in Profiles :
    DOMAIN p = {"handle", "external"} /\ p.handle # Nothing /\ p.external # Nothing

VARIABLES
  productDeleted,   \* products.deleted_at is set
  account           \* account[r] : the row that request r inserted

accountVars == <<productDeleted, account>>

Handles == {p.handle : p \in Profiles}
Externals == {p.external : p \in Profiles}

NoRow == [handle |-> Nothing, external |-> Nothing, live |-> FALSE]
AccountRows == [handle : Handles, external : Externals \cup {Nothing}, live : BOOLEAN]

AccountsDB == productDeleted = FALSE /\ account = [r \in Requests |-> NoRow]

RowsOf(rows) == {x \in Requests : rows[x] # NoRow}

\* uq_social_accounts_product_platform_handle: row x can have handle h.
Free(h, x) == \A y \in RowsOf(account) \ {x} : account[y].handle # h

-----------------------------------------------------------------------------
(* add_account and remove_account.                                         *)

\* The duplicate check skips deleted rows.
AddAccountRead(r, h) ==
  /\ ~productDeleted
  /\ \A x \in RowsOf(account) : account[x].live => account[x].handle # h
  /\ Begins(r, "add_account", [row |-> r, handle |-> h, external |-> Nothing], account)
  /\ UNCHANGED accountVars

RemoveAccountRead(r, x) ==
  /\ ~productDeleted
  /\ account[x].live
  /\ Begins(r, "remove_account",
            [row |-> x, handle |-> account[x].handle, external |-> account[x].external], account)
  /\ UNCHANGED accountVars

AddAccountCommitted(r) ==
  /\ Commits(r, "add_account")
  /\ Free(req[r].on.handle, r)
  /\ account' = [account EXCEPT ![r] =
       [handle |-> req[r].on.handle, external |-> Nothing, live |-> TRUE]]
  /\ UNCHANGED productDeleted

\* The unique key refuses the row; the caller sees an internal error.
AddAccountFailed(r) ==
  Fails(r, "add_account") /\ ~Free(req[r].on.handle, r) /\ UNCHANGED accountVars

RemoveAccountCommitted(r) ==
  /\ Commits(r, "remove_account")
  /\ account' = [account EXCEPT ![req[r].on.row].live = FALSE]
  /\ UNCHANGED productDeleted

-----------------------------------------------------------------------------
(* delete_product.                                                         *)

DeleteProductRead(r) ==
  /\ ~productDeleted
  /\ Begins(r, "delete_product", Nothing, account)
  /\ UNCHANGED accountVars

\* A variant of Cascade that leaves the accounts alone.
CascadeNothing(rows) == {x \in RowsOf(rows) : FALSE}

\* The accounts that the deletion of the product takes along.
Cascade(rows) == {x \in RowsOf(rows) : rows[x].live}

DeleteProductCommitted(r) ==
  /\ Commits(r, "delete_product")
  /\ productDeleted' = TRUE
  /\ account' = [x \in Requests |->
       [account[x] EXCEPT !.live = @ /\ x \notin Cascade(req[r].saw)]]

-----------------------------------------------------------------------------
(* complete_oauth.                                                         *)

\* A variant of Matches that only looks at the handle.
MatchesByHandle(p) == {x \in RowsOf(account) : account[x].handle = p.handle}

\* _upsert_oauth_account: the rows, deleted or not, that profile p updates.
Matches(p) ==
  LET same == {x \in RowsOf(account) : account[x].external = p.external} IN
  IF same # {} THEN same ELSE {x \in RowsOf(account) : account[x].handle = p.handle}

\* The first match is taken, in no particular order; without one a row is inserted.
CallbackRead(r, p) ==
  /\ ~productDeleted
  /\ \E x \in IF Matches(p) = {} THEN {r} ELSE Matches(p) :
       Begins(r, "oauth", [row |-> x, handle |-> p.handle, external |-> p.external], account)
  /\ UNCHANGED accountVars

\* A variant of Connected that does not revive a removed account.
ConnectedAsIs(now, saw, on) ==
  [handle   |-> Column(now.handle, saw.handle, on.handle),
   external |-> Column(now.external, saw.external, on.external),
   live     |-> now.live \/ saw = NoRow]

\* A variant of Connected that takes the handle from the row.
ConnectedUnnamed(now, saw, on) ==
  [handle   |-> now.handle,
   external |-> Column(now.external, saw.external, on.external),
   live     |-> Column(now.live, saw.live, TRUE)]

\* Every column is assigned; those that differ from the loaded row are sent.
Connected(now, saw, on) ==
  [handle   |-> Column(now.handle, saw.handle, on.handle),
   external |-> Column(now.external, saw.external, on.external),
   live     |-> Column(now.live, saw.live, TRUE)]

ConnectedBy(r) == LET x == req[r].on.row IN Connected(account[x], req[r].saw[x], req[r].on)

CallbackCommitted(r) ==
  /\ Commits(r, "oauth")
  /\ Free(ConnectedBy(r).handle, req[r].on.row)
  /\ account' = [account EXCEPT ![req[r].on.row] = ConnectedBy(r)]
  /\ UNCHANGED productDeleted

\* IntegrityError: reported as "already linked".
CallbackFailed(r) ==
  /\ Fails(r, "oauth")
  /\ ~Free(ConnectedBy(r).handle, req[r].on.row)
  /\ UNCHANGED accountVars

-----------------------------------------------------------------------------
AccountsNext ==
  \E r \in Requests :
    \/ \E h \in Handles : AddAccountRead(r, h)
    \/ AddAccountCommitted(r)
    \/ AddAccountFailed(r)
    \/ \E x \in Requests : RemoveAccountRead(r, x)
    \/ RemoveAccountCommitted(r)
    \/ DeleteProductRead(r)
    \/ DeleteProductCommitted(r)
    \/ \E p \in Profiles : CallbackRead(r, p)
    \/ CallbackCommitted(r)
    \/ CallbackFailed(r)

AccountsSpec == ReqInit /\ AccountsDB /\ [][AccountsNext]_<<reqVars, accountVars>>

-----------------------------------------------------------------------------
Connecting == {"add_account", "oauth"}

AccountsTypeOK ==
  /\ productDeleted \in BOOLEAN
  /\ account \in [Requests -> AccountRows \cup {NoRow}]
  /\ \A r \in Requests : req[r].op \in Connecting \cup {"remove_account"} =>
       req[r].on.row \in Requests /\ req[r].on.handle \in Handles

\* An account stays connected under a deleted product only if a request that
\* connected it overlapped the deletion.
AccountsOutliveByOverlap ==
  productDeleted =>
    \A x \in RowsOf(account) : account[x].live =>
      \E q, d \in Requests :
        /\ Done(q, Connecting) /\ req[q].on.row = x
        /\ Done(d, {"delete_product"})
        /\ Overlap(q, d)

\* One account of the provider is one row, unless two callbacks overlapped.
OneRowPerExternal ==
  \A x, y \in RowsOf(account) :
    (x # y /\ account[x].external = account[y].external /\ account[x].external # Nothing)
      => \E p, q \in Requests : p # q /\ Done(p, {"oauth"}) /\ Done(q, {"oauth"}) /\ Overlap(p, q)

\* Request d disconnected account x: it removed this row, or deleted the product with
\* it in the cascade.
Disconnected(d, x) ==
  \/ Done(d, {"remove_account"}) /\ req[d].on.row = x
  \/ Done(d, {"delete_product"}) /\ req[d].saw[x].live

\* A callback that reported success left the account connected, also if it had been
\* removed before; it is not connected now only if someone disconnected this account
\* since the callback's snapshot.
ConnectedMeansConnected ==
  \A q \in Requests : Done(q, Connecting) =>
    \/ account[req[q].on.row].live
    \/ \E d \in Requests : Disconnected(d, req[q].on.row) /\ req[d].at > req[q].began
=============================================================================
