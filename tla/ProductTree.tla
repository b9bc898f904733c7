---------------------------- MODULE ProductTree ----------------------------
(***************************************************************************)
(* The products of one company and the sub-products of one of them         *)
(* (ProductService, SubProductService): names, the slugs made from them,   *)
(* renaming and soft deletion.  Deleted rows keep their slug, and slugs    *)
(* are unique within the table.                                            *)
(*                                                                         *)
(* A name is given as its slug, a sequence of parts: a product "Care 2"    *)
(* has the slug <<"care", 2>>, which is also the second choice for a       *)
(* product "Care".  A row is named by the request that inserted it and by  *)
(* its place in the request.                                               *)
(***************************************************************************)
EXTENDS Snapshots, Sequences

CONSTANTS
  NameLists,   \* the names of a request that creates sub-products, blanks left out
  NewNames     \* the names of a product created or of a row renamed

IsList(s) == Len(s) \in Nat /\ s = [i \in 1..Len(s) |-> s[i]]

ASSUME TreeConstants ==
  /\ \A name \in NewNames : IsList(name)
  /\ \A names \in NameLists : IsList(names) /\ \A i \in 1..Len(names) : IsList(names[i])
  /\ Nothing \notin Requests \X Nat

VARIABLE rows   \* rows[table] : the rows of products and of sub_products

Tables == {"products", "sub_products"}

RowsOK(set) ==
  \A row \in set : /\ row = [id |-> row.id, name |-> row.name, slug |-> row.slug,
                            live |-> row.live]
                   /\ row.id \in Requests \X (Nat \ {0})
                   /\ row.live \in BOOLEAN

TreeDB == rows = [table \in Tables |-> {}]

-----------------------------------------------------------------------------
\* candidate = base, base-2, base-3, ...
Candidate(base, n) == IF n = 1 THEN base ELSE Append(base, n)

\* A variant of Taken that does not look at deleted rows.
TakenByLive(set, x) == {row.slug : row \in {y \in set : y.id # x /\ y.live}}

\* The slugs that the lookup finds, row x excluded.
Taken(set, x) == {row.slug : row \in {y \in set : y.id # x}}

\* _unique_product_slug and _unique_sub_product_slug.
UniqueSlug(base, set, x) ==
  LET free == {n \in 1..(Cardinality(set) + 1) : Candidate(base, n) \notin Taken(set, x)} IN
  Candidate(base, CHOOSE n \in free : \A m \in free : n <= m)

\* Every name of one request is looked up in the same snapshot: autoflush is off.
NewRows(r, names, set) ==
  {[id |-> <<r, i>>, name |-> names[i], slug |-> UniqueSlug(names[i], set, Nothing),
    live |-> TRUE] : i \in DOMAIN names}

CreateRead(r, table, names) ==
  /\ Begins(r, "create", [table |-> table, write |-> NewRows(r, names, rows[table])],
            Nothing)
  /\ UNCHANGED rows

\* update_product and update_sub_product with a name that differs.
RenameRead(r, table, row, name) ==
  /\ row.live /\ name # row.name
  /\ Begins(r, "rename", [table |-> table, write |->
       {[id |-> row.id, name |-> name, slug |-> UniqueSlug(name, rows[table], row.id),
         live |-> TRUE]}], row)
  /\ UNCHANGED rows

DeleteRead(r, table, row) ==
  /\ row.live
  /\ Begins(r, "delete", [table |-> table, write |-> {}], row)
  /\ UNCHANGED rows

\* The row that request r leaves where row is, by columns.
Rewritten(r, row) ==
  [id   |-> row.id,
   name |-> IF req[r].op = "rename" /\ row.id = req[r].saw.id
              THEN (CHOOSE w \in req[r].on.write : TRUE).name ELSE row.name,
   slug |-> IF req[r].op = "rename" /\ row.id = req[r].saw.id
              THEN Column(row.slug, req[r].saw.slug, (CHOOSE w \in req[r].on.write : TRUE).slug)
              ELSE row.slug,
   live |-> row.live /\ ~(req[r].op = "delete" /\ row.id = req[r].saw.id)]

After(r) ==
  LET set == rows[req[r].on.table] IN
  IF req[r].op = "create" THEN set \cup req[r].on.write ELSE {Rewritten(r, row) : row \in set}

\* uq_products_company_slug, uq_sub_products_product_slug.
UniqueAfter(r) == \A p, q \in After(r) : p.slug = q.slug => p.id = q.id

TreeOps == {"create", "rename", "delete"}

TreeCommitted(r, op) ==
  /\ Commits(r, op)
  /\ UniqueAfter(r)
  /\ rows' = [rows EXCEPT ![req[r].on.table] = After(r)]

TreeFailed(r, op) == Fails(r, op) /\ ~UniqueAfter(r) /\ UNCHANGED rows

TreeNext ==
  \E r \in Requests :
    \/ \E name \in NewNames : CreateRead(r, "products", <<name>>)
    \/ \E names \in NameLists : CreateRead(r, "sub_products", names)
    \/ \E table \in Tables : \E row \in rows[table] :
         \/ \E name \in NewNames : RenameRead(r, table, row, name)
         \/ DeleteRead(r, table, row)
    \/ \E op \in TreeOps : TreeCommitted(r, op) \/ TreeFailed(r, op)

TreeSpec == ReqInit /\ TreeDB /\ [][TreeNext]_<<reqVars, rows>>

-----------------------------------------------------------------------------
TreeTypeOK == \A table \in Tables : RowsOK(rows[table])

\* Creating or renaming is refused only if the payload names something twice, or if a
\* request took the slug after the refused one had looked.
NamesAreFound ==
  \A r \in Requests : (req[r].pc = "failed" /\ req[r].op \in TreeOps) =>
    \/ \E v, w \in req[r].on.write : v.id # w.id /\ v.slug = w.slug
    \/ \E q \in Requests :
         /\ Done(q, {"create", "rename"})
         /\ req[q].on.table = req[r].on.table
         /\ req[q].at > req[r].began /\ req[q].at <= req[r].at
=============================================================================
