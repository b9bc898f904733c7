---------------------------- MODULE ProductProofs ----------------------------
(***************************************************************************)
(* Proofs about what a product has: its accounts (SocialAccounts), the     *)
(* names of products and sub-products (ProductTree), and brand profiles    *)
(* (BrandProfiles), for any set of requests, profiles, names and images.   *)
(***************************************************************************)
EXTENDS SocialAccounts, ProductTree, BrandProfiles, SnapshotsProofs, FiniteSetTheorems,
        WellFoundedInduction

(***************************************************************************)
(* Social accounts.  The snapshot of a request in flight still tells the   *)
(* truth about a row, unless a request that connects, disconnects or       *)
(* deletes has committed since; that request overlaps this one.            *)
(***************************************************************************)
AccountOps == Connecting \cup {"remove_account", "delete_product"}

AccountCalls ==
  \A r \in Requests : req[r].pc # "idle" =>
    /\ req[r].op \in AccountOps
    /\ req[r].saw \in [Requests -> AccountRows \cup {NoRow}]
    /\ req[r].op # "delete_product" => req[r].on.row \in Requests /\ req[r].on.handle \in Handles
    /\ req[r].op = "oauth" => req[r].on.external \in Externals
    /\ req[r].op = "add_account" => req[r].on.row = r

\* A request in flight inserts its own row or works on one that its snapshot showed.
RowsOfCalls ==
  \A r \in Requests : req[r].pc = "read" =>
    /\ req[r].op \in Connecting =>
         \/ req[r].on.row = r /\ req[r].saw[r] = NoRow
         \/ req[r].on.row # r /\ req[r].saw[req[r].on.row] \in AccountRows
    /\ req[r].op = "remove_account" => req[r].saw[req[r].on.row] \in AccountRows
    /\ \A x \in Requests : req[r].saw[x] \in AccountRows => account[x] \in AccountRows

RowsAreInserted == \A r \in Requests : req[r].pc # "done" => account[r] = NoRow

CommittedSince(ops, t) == \E q \in Requests : Done(q, ops) /\ req[q].at > t
ConnectedSince(x, t) ==
  \E q \in Requests : Done(q, Connecting) /\ req[q].on.row = x /\ req[q].at > t
DisconnectedSince(x, t) == \E d \in Requests : Disconnected(d, x) /\ req[d].at > t

\* What snapshots of requests in flight still say.
DeletedSince ==
  \A r \in Requests : (req[r].pc = "read" /\ productDeleted) =>
    CommittedSince({"delete_product"}, req[r].began)
LiveSince ==
  \A r, x \in Requests :
    (req[r].pc = "read" /\ account[x].live /\ ~req[r].saw[x].live) =>
      ConnectedSince(x, req[r].began)
GoneSince ==
  \A r, x \in Requests :
    (req[r].pc = "read" /\ req[r].saw[x].live /\ ~account[x].live) =>
      DisconnectedSince(x, req[r].began)
ExternalsSeen ==
  \A r \in Requests : req[r].pc = "read" =>
    \/ CommittedSince({"oauth"}, req[r].began)
    \/ \A x \in Requests : account[x].external = req[r].saw[x].external

\* A callback found its account by the provider's name for it, or no row had that name.
CallbacksLooked ==
  \A r \in Requests : (req[r].pc = "read" /\ req[r].op = "oauth") =>
    \/ req[r].saw[req[r].on.row].external = req[r].on.external
    \/ \A x \in Requests : req[r].saw[x].external # req[r].on.external

CallbacksOverlap ==
  \E p, q \in Requests : p # q /\ Done(p, {"oauth"}) /\ Done(q, {"oauth"}) /\ Overlap(p, q)
Outlived(x) ==
  \E q, d \in Requests :
    /\ Done(q, Connecting) /\ req[q].on.row = x
    /\ Done(d, {"delete_product"})
    /\ Overlap(q, d)

LiveOutlived == productDeleted => \A x \in Requests : account[x].live => Outlived(x)
OneRowEach ==
  \A x, y \in Requests :
    (x # y /\ account[x].external = account[y].external /\ account[x].external # Nothing)
      => CallbacksOverlap

AccountsInv ==
  /\ LogOK
  /\ productDeleted \in BOOLEAN
  /\ account \in [Requests -> AccountRows \cup {NoRow}]
  /\ AccountCalls /\ RowsOfCalls /\ RowsAreInserted
  /\ DeletedSince /\ LiveSince /\ GoneSince /\ ExternalsSeen /\ CallbacksLooked
  /\ LiveOutlived /\ OneRowEach /\ ConnectedMeansConnected

-----------------------------------------------------------------------------
LEMMA RowFacts ==
  /\ NoRow.live = FALSE /\ NoRow.external = Nothing /\ NoRow \notin AccountRows
  /\ \A e \in Externals : e # Nothing
  /\ \A row \in AccountRows : /\ row # NoRow /\ row.live \in BOOLEAN
                              /\ row = [handle |-> row.handle, external |-> row.external,
                                        live |-> row.live]
                              /\ row.handle \in Handles /\ row.external \in Externals \cup {Nothing}
BY ProfilesConstants DEF NoRow, AccountRows, Handles, Externals

\* A snapshot and what was looked up in it.
AccountsSnapshot(r) ==
  /\ LogOK' /\ OnlyMoves(r) /\ clock' = clock /\ UNCHANGED accountVars
  /\ ~productDeleted
  /\ req[r].pc = "idle" /\ req'[r].pc = "read" /\ req'[r].began = clock
  /\ req'[r].saw = account
  /\ req'[r].op \in AccountOps
  /\ req'[r].op # "delete_product" => req'[r].on.row \in Requests /\ req'[r].on.handle \in Handles
  /\ req'[r].op = "add_account" => req'[r].on.row = r
  /\ req'[r].op = "remove_account" => account[req'[r].on.row].live
  /\ req'[r].op = "oauth" =>
       /\ req'[r].on.external \in Externals
       /\ req'[r].on.row = r \/ account[req'[r].on.row] # NoRow
       /\ \/ account[req'[r].on.row].external = req'[r].on.external
          \/ \A x \in Requests : account[x] # NoRow => account[x].external # req'[r].on.external

AccountsRead(r) ==
  \/ \E h \in Handles : AddAccountRead(r, h)
  \/ \E x \in Requests : RemoveAccountRead(r, x)
  \/ DeleteProductRead(r)
  \/ \E p \in Profiles : CallbackRead(r, p)

AccountsCommit(r) ==
  \/ AddAccountCommitted(r) \/ AddAccountFailed(r)
  \/ RemoveAccountCommitted(r)
  \/ DeleteProductCommitted(r)
  \/ CallbackCommitted(r) \/ CallbackFailed(r)

LEMMA AccountsReads ==
  ASSUME AccountsInv, NEW r \in Requests, AccountsRead(r) PROVE AccountsSnapshot(r)
<1>1. ASSUME NEW op, NEW on, Begins(r, op, on, account)
      PROVE  /\ LogOK' /\ OnlyMoves(r) /\ clock' = clock /\ req[r].pc = "idle"
             /\ req'[r].pc = "read" /\ req'[r].began = clock
             /\ req'[r].op = op /\ req'[r].on = on /\ req'[r].saw = account
  <2>1. /\ LogOK' /\ OnlyMoves(r) /\ clock' = clock /\ req[r] = NotBegun
        /\ req'[r] = [pc |-> "read", op |-> op, on |-> on, saw |-> account,
                      began |-> clock, at |-> 0]
    BY <1>1, BeginsEffect DEF AccountsInv
  <2> QED BY <2>1 DEF NotBegun
<1>2. ASSUME NEW h \in Handles, AddAccountRead(r, h) PROVE AccountsSnapshot(r)
  BY <1>1, <1>2 DEF AddAccountRead, AccountsSnapshot, AccountOps, Connecting
<1>3. ASSUME NEW x \in Requests, RemoveAccountRead(r, x) PROVE AccountsSnapshot(r)
  <2>1. account[x].handle \in Handles
    BY <1>3, RowFacts DEF RemoveAccountRead, AccountsInv
  <2> QED BY <1>1, <1>3, <2>1 DEF RemoveAccountRead, AccountsSnapshot, AccountOps
<1>4. CASE DeleteProductRead(r)
  BY <1>1, <1>4 DEF DeleteProductRead, AccountsSnapshot, AccountOps
<1>5. ASSUME NEW p \in Profiles, CallbackRead(r, p) PROVE AccountsSnapshot(r)
  <2> PICK x \in IF Matches(p) = {} THEN {r} ELSE Matches(p) :
        Begins(r, "oauth", [row |-> x, handle |-> p.handle, external |-> p.external], account)
    BY <1>5 DEF CallbackRead
  <2>1. x \in Requests /\ (x = r \/ account[x] # NoRow)
    BY DEF Matches, RowsOf
  <2>2. account[x].external = p.external
        \/ \A y \in Requests : account[y] # NoRow => account[y].external # p.external
    BY DEF Matches, RowsOf
  <2>3. p.handle \in Handles /\ p.external \in Externals
    BY DEF Handles, Externals
  <2> QED BY <1>1, <1>5, <2>1, <2>2, <2>3 DEF CallbackRead, AccountsSnapshot, AccountOps, Connecting
<1> QED BY <1>2, <1>3, <1>4, <1>5 DEF AccountsRead

\* A commit, or a refused one, and what it does to each row.
AccountsWrite(r) ==
  /\ LogOK' /\ OnlyMoves(r) /\ clock' \in {clock, clock + 1}
  /\ req[r].pc = "read" /\ req'[r].pc \in {"done", "failed"}
  /\ req'[r].op = req[r].op /\ req'[r].on = req[r].on /\ req'[r].saw = req[r].saw
  /\ req'[r].began = req[r].began /\ req[r].began <= clock
  /\ req'[r].pc = "failed" => UNCHANGED accountVars
  /\ req'[r].pc = "done" =>
       /\ clock' = clock + 1 /\ req'[r].at = clock + 1
       /\ productDeleted' = (productDeleted \/ req[r].op = "delete_product")
       /\ account' \in [Requests -> AccountRows \cup {NoRow}]
       /\ \A x \in Requests :
            /\ account[x] \in AccountRows => account'[x] \in AccountRows
            /\ (x # r /\ account[x] = NoRow) => account'[x] = NoRow
            /\ \/ account'[x].external = account[x].external
               \/ /\ req[r].op = "oauth" /\ x = req[r].on.row
                  /\ req[r].saw[x].external # req[r].on.external
                  /\ account'[x].external = req[r].on.external
            /\ req[r].op \in Connecting =>
                 (account'[x].live <=>
                    (account[x].live \/ (x = req[r].on.row /\ ~req[r].saw[x].live)))
            /\ req[r].op = "remove_account" =>
                 (account'[x].live <=> (account[x].live /\ x # req[r].on.row))
            /\ req[r].op = "delete_product" =>
                 (account'[x].live <=> (account[x].live /\ ~req[r].saw[x].live))

\* The row a request in flight works on.
LEMMA RowWorkedOn ==
  ASSUME AccountsInv, NEW r \in Requests, req[r].pc = "read"
  PROVE  /\ account[r] = NoRow
         /\ req[r].op \in Connecting =>
              /\ req[r].on.row \in Requests /\ req[r].on.handle \in Handles
              /\ \/ req[r].on.row = r /\ req[r].saw[r] = NoRow
                 \/ /\ req[r].on.row # r /\ req[r].saw[req[r].on.row] \in AccountRows
                    /\ account[req[r].on.row] \in AccountRows
         /\ req[r].op = "remove_account" =>
              req[r].on.row \in Requests /\ account[req[r].on.row] \in AccountRows
<1>1. req[r].op \in Connecting => req[r].op # "delete_product"
  BY DEF Connecting
<1> QED BY <1>1 DEF AccountsInv, AccountCalls, RowsOfCalls, RowsAreInserted

\* The part of a commit that moves the log.
CommitMoves(r) ==
  /\ LogOK' /\ OnlyMoves(r) /\ clock' = clock + 1
  /\ req[r].pc = "read" /\ req'[r].pc = "done"
  /\ req'[r].op = req[r].op /\ req'[r].on = req[r].on /\ req'[r].saw = req[r].saw
  /\ req'[r].began = req[r].began /\ req[r].began <= clock /\ req'[r].at = clock + 1

LEMMA AccountCommits ==
  ASSUME AccountsInv, NEW r \in Requests, NEW op, Commits(r, op)
  PROVE  CommitMoves(r) /\ req[r].op = op
<1>1. /\ LogOK' /\ OnlyMoves(r) /\ clock' = clock + 1
      /\ req[r].pc = "read" /\ req[r].op = op /\ req[r].began <= clock
      /\ req'[r] = [pc |-> "done", op |-> op, on |-> req[r].on, saw |-> req[r].saw,
                    began |-> req[r].began, at |-> clock + 1]
  BY CommitsEffect DEF AccountsInv
<1> QED BY <1>1 DEF CommitMoves

LEMMA AddWrites ==
  ASSUME AccountsInv, NEW r \in Requests, AddAccountCommitted(r) PROVE AccountsWrite(r)
<1>1. CommitMoves(r) /\ req[r].op = "add_account"
  BY AccountCommits DEF AddAccountCommitted
<1> DEFINE row == [handle |-> req[r].on.handle, external |-> Nothing, live |-> TRUE]
<1>2. /\ account' = [account EXCEPT ![r] = row] /\ productDeleted' = productDeleted
      /\ account \in [Requests -> AccountRows \cup {NoRow}] /\ productDeleted \in BOOLEAN
  BY DEF AddAccountCommitted, AccountsInv
<1>3. account[r] = NoRow /\ req[r].on.row = r /\ req[r].on.handle \in Handles /\ req[r].saw[r] = NoRow
  BY <1>1, RowWorkedOn, RowFacts DEF CommitMoves, Connecting, AccountsInv, AccountCalls
<1>4. row \in AccountRows /\ row.external = Nothing /\ row.live
  BY <1>3 DEF AccountRows
<1> HIDE DEF row
<1>5. /\ account' \in [Requests -> AccountRows \cup {NoRow}] /\ account'[r] = row
      /\ \A x \in Requests \ {r} : account'[x] = account[x]
  BY <1>2, <1>4
<1>6. \A x \in Requests : account[x].live \in BOOLEAN /\ account'[x].live \in BOOLEAN
  BY <1>2, <1>5, RowFacts
<1>7. ASSUME NEW x \in Requests
      PROVE  /\ account[x] \in AccountRows => account'[x] \in AccountRows
             /\ (x # r /\ account[x] = NoRow) => account'[x] = NoRow
             /\ account'[x].external = account[x].external
             /\ account'[x].live <=> (account[x].live \/ (x = req[r].on.row /\ ~req[r].saw[x].live))
  <2>1. CASE x = r BY <1>3, <1>4, <1>5, <2>1, RowFacts
  <2>2. CASE x # r BY <1>3, <1>5, <1>6, <2>2
  <2> QED BY <2>1, <2>2
<1> QED BY <1>1, <1>2, <1>5, <1>7 DEF AccountsWrite, CommitMoves, Connecting

LEMMA RemoveWrites ==
  ASSUME AccountsInv, NEW r \in Requests, RemoveAccountCommitted(r) PROVE AccountsWrite(r)
<1>1. CommitMoves(r) /\ req[r].op = "remove_account"
  BY AccountCommits DEF RemoveAccountCommitted
<1> DEFINE x == req[r].on.row
<1>2. /\ account' = [account EXCEPT ![x].live = FALSE] /\ productDeleted' = productDeleted
      /\ account \in [Requests -> AccountRows \cup {NoRow}] /\ productDeleted \in BOOLEAN
      /\ x \in Requests /\ account[x] \in AccountRows
  BY <1>1, RowWorkedOn DEF RemoveAccountCommitted, AccountsInv, CommitMoves
<1> HIDE DEF x
<1> DEFINE row == [account[x] EXCEPT !.live = FALSE]
<1>3. account' = [account EXCEPT ![x] = row]
  BY <1>2
<1>4. row = [handle |-> account[x].handle, external |-> account[x].external, live |-> FALSE]
  <2> DEFINE now == account[x]
  <2>1. now \in AccountRows
    BY <1>2
  <2> HIDE DEF now
  <2>2. ASSUME NEW live_
        PROVE  [now EXCEPT !.live = live_]
                 = [handle |-> now.handle, external |-> now.external, live |-> live_]
    BY <2>1, RowFacts
  <2> QED BY <2>2 DEF now
<1> HIDE DEF row
<1>5. /\ account'[x] = [handle |-> account[x].handle, external |-> account[x].external, live |-> FALSE]
      /\ \A y \in Requests \ {x} : account'[y] = account[y]
      /\ account' = [y \in Requests |-> account'[y]]
  BY <1>2, <1>3, <1>4
<1>6. account'[x] \in AccountRows /\ account'[x].external = account[x].external /\ ~account'[x].live
  BY <1>2, <1>5, RowFacts DEF AccountRows
<1>7. account' \in [Requests -> AccountRows \cup {NoRow}]
  BY <1>2, <1>5, <1>6
<1>8. \A y \in Requests : account[y].live \in BOOLEAN /\ account'[y].live \in BOOLEAN
  BY <1>2, <1>7, RowFacts
<1>9. ASSUME NEW y \in Requests
      PROVE  /\ account[y] \in AccountRows => account'[y] \in AccountRows
             /\ account[y] = NoRow => account'[y] = NoRow
             /\ account'[y].external = account[y].external
             /\ account'[y].live <=> (account[y].live /\ y # x)
  <2>1. CASE y = x BY <1>2, <1>6, <2>1, RowFacts
  <2>2. CASE y # x BY <1>5, <1>8, <2>2
  <2> QED BY <2>1, <2>2
<1> QED BY <1>1, <1>2, <1>7, <1>9 DEF AccountsWrite, CommitMoves, Connecting, x

LEMMA DeleteWrites ==
  ASSUME AccountsInv, NEW r \in Requests, DeleteProductCommitted(r) PROVE AccountsWrite(r)
<1>1. CommitMoves(r) /\ req[r].op = "delete_product"
  BY AccountCommits DEF DeleteProductCommitted
<1> DEFINE rows_ == req[r].saw
<1>2. /\ account' = [x \in Requests |->
                       [account[x] EXCEPT !.live = account[x].live /\ x \notin Cascade(rows_)]]
      /\ productDeleted' = TRUE
      /\ account \in [Requests -> AccountRows \cup {NoRow}]
      /\ rows_ \in [Requests -> AccountRows \cup {NoRow}]
  BY <1>1 DEF DeleteProductCommitted, AccountsInv, AccountCalls, CommitMoves
<1> HIDE DEF rows_
<1>3. ASSUME NEW x \in Requests
      PROVE  /\ account'[x] \in AccountRows \cup {NoRow}
             /\ account[x] \in AccountRows => account'[x] \in AccountRows
             /\ account[x] = NoRow => account'[x] = NoRow
             /\ account'[x].external = account[x].external
             /\ account'[x].live <=> (account[x].live /\ ~rows_[x].live)
  <2>1. x \in Cascade(rows_) <=> rows_[x].live
    BY <1>2, RowFacts DEF Cascade, RowsOf
  <2>2. account'[x] = [account[x] EXCEPT !.live = account[x].live /\ x \notin Cascade(rows_)]
    BY <1>2
  <2>3. CASE account[x] = NoRow
    <3>1. account'[x] = [handle |-> Nothing, external |-> Nothing,
                         live |-> FALSE /\ x \notin Cascade(rows_)]
      BY <2>2, <2>3 DEF NoRow
    <3>2. (FALSE /\ x \notin Cascade(rows_)) = FALSE
      OBVIOUS
    <3>3. account'[x] = NoRow
      BY <3>1, <3>2 DEF NoRow
    <3> QED BY <2>3, <3>3, RowFacts
  <2>4. CASE account[x] \in AccountRows
    <3> DEFINE live_ == account[x].live /\ x \notin Cascade(rows_)
    <3>1. live_ \in BOOLEAN
      OBVIOUS
    <3>2. account'[x] = [account[x] EXCEPT !.live = live_]
      BY <2>2
    <3>3. live_ <=> (account[x].live /\ ~rows_[x].live)
      BY <2>1
    <3> HIDE DEF live_
    <3>4. account'[x] = [handle |-> account[x].handle, external |-> account[x].external, live |-> live_]
      BY <2>4, <3>2, RowFacts
    <3>5. account'[x] \in AccountRows
      BY <2>4, <3>1, <3>4, RowFacts DEF AccountRows
    <3> QED BY <2>4, <3>3, <3>4, <3>5, RowFacts
  <2> QED BY <1>2, <2>3, <2>4
<1>4. account' \in [Requests -> AccountRows \cup {NoRow}]
  <2>1. account' = [x \in Requests |-> account'[x]]
    BY <1>2
  <2> QED BY <1>3, <2>1
<1> QED BY <1>1, <1>2, <1>3, <1>4 DEF AccountsWrite, CommitMoves, Connecting, rows_

LEMMA CallbackWrites ==
  ASSUME AccountsInv, NEW r \in Requests, CallbackCommitted(r) PROVE AccountsWrite(r)
<1>1. CommitMoves(r) /\ req[r].op = "oauth"
  BY AccountCommits DEF CallbackCommitted
<1> DEFINE x == req[r].on.row
           on == req[r].on
           now == account[x]
           then == req[r].saw[x]
           row == ConnectedBy(r)
<1>2. /\ account' = [account EXCEPT ![x] = row] /\ productDeleted' = productDeleted
      /\ account \in [Requests -> AccountRows \cup {NoRow}] /\ productDeleted \in BOOLEAN
  BY DEF CallbackCommitted, AccountsInv
<1>3. /\ x \in Requests /\ on.handle \in Handles /\ on.external \in Externals
      /\ \/ x = r /\ now = NoRow /\ then = NoRow
         \/ x # r /\ now \in AccountRows /\ then \in AccountRows
  BY <1>1, RowWorkedOn DEF CommitMoves, Connecting, AccountsInv, AccountCalls
<1>4. row = [handle   |-> Column(now.handle, then.handle, on.handle),
             external |-> Column(now.external, then.external, on.external),
             live     |-> Column(now.live, then.live, TRUE)]
  BY DEF ConnectedBy, Connected
<1>5. Column(now.handle, then.handle, on.handle) \in Handles
  BY <1>3, RowFacts, ProfilesConstants DEF Column, NoRow, Handles
<1>6. Column(now.external, then.external, on.external) \in Externals \cup {Nothing}
  BY <1>3, RowFacts DEF Column
<1>7. now.live \in BOOLEAN /\ then.live \in BOOLEAN
  BY <1>3, RowFacts
<1>8. Column(now.live, then.live, TRUE) = IF then.live THEN now.live ELSE TRUE
  BY <1>7 DEF Column
<1> DEFINE h == Column(now.handle, then.handle, on.handle)
           e == Column(now.external, then.external, on.external)
           l == Column(now.live, then.live, TRUE)
<1>9. /\ row = [handle |-> h, external |-> e, live |-> l]
      /\ h \in Handles /\ e \in Externals \cup {Nothing} /\ l \in BOOLEAN
      /\ e = now.external \/ (then.external # on.external /\ e = on.external)
      /\ l <=> (now.live \/ ~then.live)
  <2>1. e = now.external \/ (then.external # on.external /\ e = on.external)
    BY DEF Column
  <2>2. l \in BOOLEAN /\ (l <=> (now.live \/ ~then.live))
    BY <1>7, <1>8
  <2> QED BY <1>4, <1>5, <1>6, <2>1, <2>2
<1> HIDE DEF h, e, l
<1>10. /\ row \in AccountRows
       /\ row.external = now.external \/ (then.external # on.external /\ row.external = on.external)
       /\ row.live <=> (now.live \/ ~then.live)
  <2> HIDE DEF row, now, then
  <2> QED BY <1>9 DEF AccountRows
<1> HIDE DEF row, x, on
<1>11. /\ account' \in [Requests -> AccountRows \cup {NoRow}] /\ account'[x] = row
       /\ \A y \in Requests \ {x} : account'[y] = account[y]
  BY <1>2, <1>3, <1>10
<1>12. \A y \in Requests : account[y].live \in BOOLEAN
  BY <1>2, RowFacts
<1>13. ASSUME NEW y \in Requests
       PROVE  /\ account[y] \in AccountRows => account'[y] \in AccountRows
              /\ (y # r /\ account[y] = NoRow) => account'[y] = NoRow
              /\ \/ account'[y].external = account[y].external
                 \/ /\ y = x /\ req[r].saw[y].external # on.external
                    /\ account'[y].external = on.external
              /\ account'[y].live <=> (account[y].live \/ (y = x /\ ~req[r].saw[y].live))
  <2>1. CASE y = x BY <1>3, <1>10, <1>11, <2>1, RowFacts
  <2>2. CASE y # x BY <1>11, <1>12, <2>2
  <2> QED BY <2>1, <2>2
<1> QED BY <1>1, <1>2, <1>11, <1>13 DEF AccountsWrite, CommitMoves, x, on

LEMMA AccountsWrites ==
  ASSUME AccountsInv, NEW r \in Requests, AccountsCommit(r) PROVE AccountsWrite(r)
<1>1. ASSUME NEW op, Fails(r, op), UNCHANGED accountVars PROVE AccountsWrite(r)
  <2>1. /\ LogOK' /\ OnlyMoves(r) /\ clock' = clock
        /\ req[r].pc = "read" /\ req[r].op = op
        /\ req'[r] = [pc |-> "failed", op |-> op, on |-> req[r].on, saw |-> req[r].saw,
                      began |-> req[r].began, at |-> clock]
    BY <1>1, FailsEffect DEF AccountsInv
  <2>2. req[r].began <= clock
    BY <2>1 DEF AccountsInv, LogOK, Timely
  <2>3. /\ req'[r].pc = "failed" /\ req'[r].op = req[r].op /\ req'[r].on = req[r].on
        /\ req'[r].saw = req[r].saw /\ req'[r].began = req[r].began
    BY <2>1
  <2> QED BY <1>1, <2>1, <2>2, <2>3 DEF AccountsWrite
<1> QED BY <1>1, AddWrites, RemoveWrites, DeleteWrites, CallbackWrites
        DEF AccountsCommit, AddAccountFailed, CallbackFailed

-----------------------------------------------------------------------------
\* What was committed stays so.
LEMMA AccountsHistory ==
  ASSUME LogOK, NEW r \in Requests, OnlyMoves(r), req[r].pc # "done"
  PROVE  /\ \A ops, t : CommittedSince(ops, t) => CommittedSince(ops, t)'
         /\ \A x, t : ConnectedSince(x, t) => ConnectedSince(x, t)'
         /\ \A x, t : DisconnectedSince(x, t) => DisconnectedSince(x, t)'
         /\ CallbacksOverlap => CallbacksOverlap'
         /\ \A x : Outlived(x) => Outlived(x)'
<1>1. \A q \in Requests : \A ops : Done(q, ops) => Done(q, ops)' /\ req'[q] = req[q]
  BY DoneStays
<1>2. \A ops, t : CommittedSince(ops, t) => CommittedSince(ops, t)'
  BY <1>1 DEF CommittedSince
<1>3. \A x, t : ConnectedSince(x, t) => ConnectedSince(x, t)'
  BY <1>1 DEF ConnectedSince
<1>4. CallbacksOverlap => CallbacksOverlap'
  BY <1>1 DEF CallbacksOverlap, Overlap
<1>5. \A x : Outlived(x) => Outlived(x)'
  BY <1>1 DEF Outlived, Overlap
<1>6. \A x, t : DisconnectedSince(x, t) => DisconnectedSince(x, t)'
  BY <1>1 DEF DisconnectedSince, Disconnected
<1> QED BY <1>2, <1>3, <1>4, <1>5, <1>6

\* A request in flight that another step leaves alone.
LEMMA SinceStays ==
  ASSUME LogOK, NEW r \in Requests, OnlyMoves(r), req[r].pc # "done",
         NEW x \in Requests, req'[x] = req[x]
  PROVE  /\ \A ops : CommittedSince(ops, req[x].began) => CommittedSince(ops, req[x].began)'
         /\ \A y : ConnectedSince(y, req[x].began) => ConnectedSince(y, req[x].began)'
         /\ \A y : DisconnectedSince(y, req[x].began) => DisconnectedSince(y, req[x].began)'
<1>1. \A q \in Requests : \A ops : Done(q, ops) => Done(q, ops)' /\ req'[q] = req[q]
  BY DoneStays
<1>2. \A ops : CommittedSince(ops, req[x].began) => CommittedSince(ops, req[x].began)'
  BY <1>1 DEF CommittedSince
<1>3. \A y : ConnectedSince(y, req[x].began) => ConnectedSince(y, req[x].began)'
  BY <1>1 DEF ConnectedSince
<1>4. \A y : DisconnectedSince(y, req[x].began) => DisconnectedSince(y, req[x].began)'
  BY <1>1 DEF DisconnectedSince, Disconnected
<1> QED BY <1>2, <1>3, <1>4

LEMMA AccountsReadKeeps ==
  ASSUME AccountsInv, NEW r \in Requests, AccountsSnapshot(r)
  PROVE  AccountsInv'
<1>1. /\ LogOK /\ LogOK' /\ OnlyMoves(r) /\ clock' = clock /\ clock \in Nat
      /\ account' = account /\ productDeleted' = productDeleted /\ ~productDeleted
      /\ req[r].pc = "idle" /\ req'[r].pc = "read" /\ req'[r].began = clock
      /\ req'[r].saw = account
  BY DEF AccountsInv, AccountsSnapshot, LogOK, accountVars
<1>2. \A q \in Requests : \A ops : /\ Done(q, ops)' <=> Done(q, ops)
                                   /\ Done(q, ops) => q # r /\ req'[q] = req[q]
  BY <1>1, ReadKeepsDone, DoneStays DEF Done
<1>3. \A q \in Requests \ {r} : req'[q] = req[q]
  BY <1>1 DEF OnlyMoves
<1>4. CallbacksOverlap => CallbacksOverlap'
  BY <1>1, AccountsHistory
<1>5. \A x \in Requests \ {r} :
        /\ \A ops : CommittedSince(ops, req[x].began) => CommittedSince(ops, req[x].began)'
        /\ \A y : ConnectedSince(y, req[x].began) => ConnectedSince(y, req[x].began)'
        /\ \A y : DisconnectedSince(y, req[x].began) => DisconnectedSince(y, req[x].began)'
  BY <1>1, <1>3, SinceStays
<1>6. account[r] = NoRow /\ account \in [Requests -> AccountRows \cup {NoRow}]
  BY <1>1 DEF AccountsInv, RowsAreInserted
<1>7. AccountCalls'
  BY <1>3, <1>6 DEF AccountsInv, AccountsSnapshot, AccountCalls
<1>8. RowsOfCalls'
  <2> SUFFICES ASSUME NEW x \in Requests, req'[x].pc = "read"
               PROVE  /\ req'[x].op \in Connecting =>
                           \/ req'[x].on.row = x /\ req'[x].saw[x] = NoRow
                           \/ req'[x].on.row # x /\ req'[x].saw[req'[x].on.row] \in AccountRows
                      /\ req'[x].op = "remove_account" => req'[x].saw[req'[x].on.row] \in AccountRows
                      /\ \A y \in Requests : req'[x].saw[y] \in AccountRows => account[y] \in AccountRows
    BY <1>1 DEF RowsOfCalls
  <2>1. CASE x # r
    BY <1>3, <2>1 DEF AccountsInv, RowsOfCalls
  <2>2. CASE x = r
    <3>1. CASE req'[r].op = "add_account"
      BY <1>1, <1>6, <2>2, <3>1 DEF AccountsSnapshot, Connecting
    <3>2. CASE req'[r].op = "oauth"
      BY <1>1, <1>6, <2>2, <3>2 DEF AccountsSnapshot, Connecting
    <3>3. CASE req'[r].op = "remove_account"
      BY <1>1, <1>6, <2>2, <3>3, RowFacts DEF AccountsSnapshot, Connecting
    <3>4. CASE req'[r].op \notin Connecting \cup {"remove_account"}
      BY <1>1, <2>2, <3>4
    <3> QED BY <3>1, <3>2, <3>3, <3>4 DEF Connecting
  <2> QED BY <2>1, <2>2
<1>9. RowsAreInserted'
  BY <1>1, <1>3 DEF AccountsInv, RowsAreInserted
<1>10. DeletedSince'
  BY <1>1 DEF DeletedSince
<1>11. LiveSince'
  <2> SUFFICES ASSUME NEW x \in Requests, NEW y \in Requests, req'[x].pc = "read",
                      account[y].live, ~req'[x].saw[y].live
               PROVE  ConnectedSince(y, req[x].began)'
    BY <1>1 DEF LiveSince
  <2>1. x # r
    BY <1>1
  <2> QED BY <1>3, <1>5, <2>1 DEF AccountsInv, LiveSince
<1>12. GoneSince'
  <2> SUFFICES ASSUME NEW x \in Requests, NEW y \in Requests, req'[x].pc = "read",
                      req'[x].saw[y].live, ~account[y].live
               PROVE  DisconnectedSince(y, req[x].began)'
    BY <1>1 DEF GoneSince
  <2>1. x # r
    BY <1>1
  <2> QED BY <1>3, <1>5, <2>1 DEF AccountsInv, GoneSince
<1>13. ExternalsSeen'
  <2> SUFFICES ASSUME NEW x \in Requests, req'[x].pc = "read"
               PROVE  \/ CommittedSince({"oauth"}, req[x].began)'
                      \/ \A y \in Requests : account[y].external = req'[x].saw[y].external
    BY <1>1 DEF ExternalsSeen
  <2>1. CASE x = r BY <1>1, <2>1
  <2>2. CASE x # r BY <1>3, <1>5, <2>2 DEF AccountsInv, ExternalsSeen
  <2> QED BY <2>1, <2>2
<1>14. CallbacksLooked'
  <2> SUFFICES ASSUME NEW x \in Requests, req'[x].pc = "read", req'[x].op = "oauth"
               PROVE  \/ req'[x].saw[req'[x].on.row].external = req'[x].on.external
                      \/ \A y \in Requests : req'[x].saw[y].external # req'[x].on.external
    BY DEF CallbacksLooked
  <2>1. CASE x = r
    BY <1>1, <2>1, RowFacts DEF AccountsSnapshot
  <2>2. CASE x # r
    BY <1>3, <2>2 DEF AccountsInv, CallbacksLooked
  <2> QED BY <2>1, <2>2
<1>15. LiveOutlived' /\ OneRowEach'
  BY <1>1, <1>4 DEF AccountsInv, LiveOutlived, OneRowEach
<1>16. ConnectedMeansConnected'
  BY <1>1, <1>2 DEF AccountsInv, ConnectedMeansConnected, Disconnected
<1>17. productDeleted' \in BOOLEAN
  BY <1>1 DEF AccountsInv
<1> QED BY <1>1, <1>6, <1>7, <1>8, <1>9, <1>10, <1>11, <1>12, <1>13, <1>14, <1>15, <1>16, <1>17
        DEF AccountsInv

LEMMA AccountsFailKeeps ==
  ASSUME AccountsInv, NEW r \in Requests, AccountsWrite(r), req'[r].pc = "failed"
  PROVE  AccountsInv'
<1>1. /\ LogOK /\ LogOK' /\ OnlyMoves(r) /\ account' = account /\ productDeleted' = productDeleted
      /\ req[r].pc = "read" /\ req'[r].op = req[r].op /\ req'[r].on = req[r].on
      /\ req'[r].saw = req[r].saw /\ req'[r].began = req[r].began
  BY DEF AccountsInv, AccountsWrite, accountVars
<1>2. \A q \in Requests : \A ops : /\ Done(q, ops)' <=> Done(q, ops)
                                   /\ Done(q, ops) => q # r /\ req'[q] = req[q]
  BY <1>1, DoneStays DEF Done, OnlyMoves
<1>3. \A q \in Requests \ {r} : req'[q] = req[q]
  BY <1>1 DEF OnlyMoves
<1>4. CallbacksOverlap => CallbacksOverlap'
  BY <1>1, AccountsHistory
<1>5. \A x \in Requests \ {r} :
        /\ \A ops : CommittedSince(ops, req[x].began) => CommittedSince(ops, req[x].began)'
        /\ \A y : ConnectedSince(y, req[x].began) => ConnectedSince(y, req[x].began)'
        /\ \A y : DisconnectedSince(y, req[x].began) => DisconnectedSince(y, req[x].began)'
  BY <1>1, <1>3, SinceStays
<1>6. \A x \in Requests : req'[x].pc = "read" => x # r /\ req'[x] = req[x] /\ req[x].pc = "read"
  BY <1>3
<1>7. AccountCalls' /\ RowsAreInserted'
  BY <1>1, <1>3 DEF AccountsInv, AccountCalls, RowsAreInserted
<1>8. RowsOfCalls' /\ CallbacksLooked'
  BY <1>1, <1>6 DEF AccountsInv, RowsOfCalls, CallbacksLooked
<1>9. ASSUME NEW x \in Requests, req'[x].pc = "read"
      PROVE  /\ productDeleted' => CommittedSince({"delete_product"}, req[x].began)'
             /\ \A y \in Requests :
                  (account'[y].live /\ ~req'[x].saw[y].live) => ConnectedSince(y, req[x].began)'
             /\ \A y \in Requests : (req'[x].saw[y].live /\ ~account'[y].live) =>
                  DisconnectedSince(y, req[x].began)'
             /\ \/ CommittedSince({"oauth"}, req[x].began)'
                \/ \A y \in Requests : account'[y].external = req'[x].saw[y].external
  BY <1>1, <1>5, <1>6, <1>9 DEF AccountsInv, DeletedSince, LiveSince, GoneSince, ExternalsSeen
<1>10. DeletedSince' /\ LiveSince' /\ GoneSince' /\ ExternalsSeen'
  BY <1>9 DEF DeletedSince, LiveSince, GoneSince, ExternalsSeen
<1>11. LiveOutlived' /\ OneRowEach'
  <2>1. \A x : Outlived(x) => Outlived(x)'
    BY <1>1, AccountsHistory
  <2> QED BY <1>1, <1>4, <2>1 DEF AccountsInv, LiveOutlived, OneRowEach
<1>12. ConnectedMeansConnected'
  BY <1>1, <1>2 DEF AccountsInv, ConnectedMeansConnected, Disconnected
<1>13. productDeleted' \in BOOLEAN /\ account' \in [Requests -> AccountRows \cup {NoRow}]
  BY <1>1 DEF AccountsInv
<1> QED BY <1>1, <1>7, <1>8, <1>10, <1>11, <1>12, <1>13 DEF AccountsInv

LEMMA AccountsWriteKeeps ==
  ASSUME AccountsInv, NEW r \in Requests, AccountsWrite(r), req'[r].pc = "done"
  PROVE  AccountsInv'
<1>1. /\ LogOK /\ LogOK' /\ OnlyMoves(r) /\ clock' = clock + 1 /\ clock \in Nat
      /\ req[r].pc = "read" /\ req'[r].pc = "done" /\ req'[r].op = req[r].op
      /\ req'[r].on = req[r].on /\ req'[r].saw = req[r].saw /\ req'[r].began = req[r].began
      /\ req[r].began <= clock /\ req'[r].at = clock + 1
      /\ productDeleted \in BOOLEAN
      /\ productDeleted' = (productDeleted \/ req[r].op = "delete_product")
      /\ account \in [Requests -> AccountRows \cup {NoRow}]
      /\ account' \in [Requests -> AccountRows \cup {NoRow}]
      /\ req[r].op \in AccountOps
  BY DEF AccountsInv, AccountsWrite, LogOK, AccountCalls
<1>2. \A x \in Requests :
        /\ account[x] \in AccountRows => account'[x] \in AccountRows
        /\ (x # r /\ account[x] = NoRow) => account'[x] = NoRow
        /\ \/ account'[x].external = account[x].external
           \/ /\ req[r].op = "oauth" /\ x = req[r].on.row
              /\ req[r].saw[x].external # req[r].on.external
              /\ account'[x].external = req[r].on.external
        /\ req[r].op \in Connecting =>
             (account'[x].live <=>
                (account[x].live \/ (x = req[r].on.row /\ ~req[r].saw[x].live)))
        /\ req[r].op = "remove_account" =>
             (account'[x].live <=> (account[x].live /\ x # req[r].on.row))
        /\ req[r].op = "delete_product" =>
             (account'[x].live <=> (account[x].live /\ ~req[r].saw[x].live))
  BY DEF AccountsWrite
<1>3. \A q \in Requests : \A ops :
        /\ Done(q, ops) => Done(q, ops)' /\ req'[q] = req[q] /\ q # r
        /\ Done(q, ops)' => (q = r /\ req[r].op \in ops) \/ Done(q, ops)
        /\ req[r].op \in ops => Done(r, ops)'
  BY <1>1, DoneStays DEF Done, OnlyMoves
<1>4. \A q \in Requests \ {r} : req'[q] = req[q]
  BY <1>1 DEF OnlyMoves
<1>5. /\ CallbacksOverlap => CallbacksOverlap'
      /\ \A x : Outlived(x) => Outlived(x)'
  BY <1>1, AccountsHistory
<1>6. \A x \in Requests \ {r} :
        /\ \A ops : CommittedSince(ops, req[x].began) => CommittedSince(ops, req[x].began)'
        /\ \A y : ConnectedSince(y, req[x].began) => ConnectedSince(y, req[x].began)'
        /\ \A y : DisconnectedSince(y, req[x].began) => DisconnectedSince(y, req[x].began)'
  BY <1>1, <1>4, SinceStays
<1>7. \A q \in Requests : \A ops : Done(q, ops) =>
        req[q].at \in Nat /\ req[q].at <= clock /\ req[q].began \in Nat /\ req[q].began < req[q].at
  BY <1>1 DEF LogOK, IsRequest, Timely, Done
<1>8. \A x \in Requests : req'[x].pc = "read" =>
        /\ x # r /\ req'[x] = req[x] /\ req[x].pc = "read"
        /\ req[x].began \in Nat /\ req[x].began <= clock
  BY <1>1, <1>4 DEF LogOK, IsRequest, Timely
<1>9. \A x \in Requests : req'[x].pc = "read" =>
        /\ \A ops : req[r].op \in ops => CommittedSince(ops, req[x].began)'
        /\ req[r].op \in Connecting => ConnectedSince(req[r].on.row, req[x].began)'
  BY <1>1, <1>3, <1>8 DEF CommittedSince, ConnectedSince
<1>10. \A q \in Requests : \A ops :
         (Done(q, ops) /\ req[q].at > req[r].began) => Overlap(q, r)' /\ Overlap(r, q)'
  BY <1>1, <1>3, <1>7 DEF Overlap
<1>11. req[r].op \in Connecting \/ req[r].op = "remove_account" \/ req[r].op = "delete_product"
  BY <1>1 DEF AccountOps
<1>12. AccountCalls'
  BY <1>1, <1>4 DEF AccountsInv, AccountCalls
<1>13. RowsOfCalls' /\ CallbacksLooked'
  BY <1>2, <1>8 DEF AccountsInv, RowsOfCalls, CallbacksLooked
<1>14. RowsAreInserted'
  BY <1>1, <1>2, <1>4 DEF AccountsInv, RowsAreInserted
<1>15. DeletedSince'
  <2> SUFFICES ASSUME NEW x \in Requests, req'[x].pc = "read", productDeleted'
               PROVE  CommittedSince({"delete_product"}, req[x].began)'
    BY DEF DeletedSince
  <2>1. CASE req[r].op = "delete_product" BY <1>9, <2>1
  <2>2. CASE req[r].op # "delete_product"
    BY <1>1, <1>6, <1>8, <2>2 DEF AccountsInv, DeletedSince
  <2> QED BY <2>1, <2>2
<1>16. LiveSince'
  <2> SUFFICES ASSUME NEW x \in Requests, NEW y \in Requests, req'[x].pc = "read",
                      account'[y].live, ~req'[x].saw[y].live
               PROVE  ConnectedSince(y, req[x].began)'
    BY DEF LiveSince
  <2>1. CASE account[y].live
    BY <1>6, <1>8, <2>1 DEF AccountsInv, LiveSince
  <2>2. CASE ~account[y].live
    <3>1. req[r].op \in Connecting /\ y = req[r].on.row
      BY <1>2, <1>11, <2>2
    <3> QED BY <1>1, <1>9, <3>1 DEF ConnectedSince
  <2> QED BY <2>1, <2>2
<1>16a. \A y \in Requests : (account[y].live /\ ~account'[y].live) => Disconnected(r, y)'
  <2> SUFFICES ASSUME NEW y \in Requests, account[y].live, ~account'[y].live
               PROVE  Disconnected(r, y)'
    OBVIOUS
  <2>1. \/ req[r].op = "remove_account" /\ y = req[r].on.row
        \/ req[r].op = "delete_product" /\ req[r].saw[y].live
    BY <1>2, <1>11
  <2> QED BY <1>1, <1>3, <2>1 DEF Disconnected
<1>17. GoneSince'
  <2> SUFFICES ASSUME NEW x \in Requests, NEW y \in Requests, req'[x].pc = "read",
                      req'[x].saw[y].live, ~account'[y].live
               PROVE  DisconnectedSince(y, req[x].began)'
    BY DEF GoneSince
  <2>1. CASE ~account[y].live
    BY <1>6, <1>8, <2>1 DEF AccountsInv, GoneSince
  <2>2. CASE account[y].live
    <3>1. Disconnected(r, y)'
      BY <1>16a, <2>2
    <3> QED BY <1>1, <1>8, <3>1 DEF DisconnectedSince
  <2> QED BY <2>1, <2>2
<1>18. ExternalsSeen'
  <2> SUFFICES ASSUME NEW x \in Requests, req'[x].pc = "read"
               PROVE  \/ CommittedSince({"oauth"}, req[x].began)'
                      \/ \A y \in Requests : account'[y].external = req'[x].saw[y].external
    BY DEF ExternalsSeen
  <2>1. CASE req[r].op = "oauth" BY <1>9, <2>1
  <2>2. CASE req[r].op # "oauth"
    <3>1. \A y \in Requests : account'[y].external = account[y].external
      BY <1>2, <2>2
    <3>2. \/ CommittedSince({"oauth"}, req[x].began)
          \/ \A y \in Requests : account[y].external = req[x].saw[y].external
      BY <1>8 DEF AccountsInv, ExternalsSeen
    <3> QED BY <1>6, <1>8, <3>1, <3>2
  <2> QED BY <2>1, <2>2
<1>19. LiveOutlived'
  <2> SUFFICES ASSUME NEW x \in Requests, productDeleted', account'[x].live
               PROVE  Outlived(x)'
    BY DEF LiveOutlived
  <2>1. CASE req[r].op = "delete_product"
    <3>1. account[x].live /\ ~req[r].saw[x].live
      BY <1>2, <2>1
    <3> PICK q \in Requests : Done(q, Connecting) /\ req[q].on.row = x /\ req[q].at > req[r].began
      BY <1>1, <3>1 DEF AccountsInv, LiveSince, ConnectedSince
    <3>2. Done(q, Connecting)' /\ req'[q] = req[q] /\ Done(r, {"delete_product"})' /\ Overlap(q, r)'
      BY <1>3, <1>10, <2>1
    <3> QED BY <3>2 DEF Outlived
  <2>2. CASE req[r].op # "delete_product" /\ account[x].live
    BY <1>1, <1>5, <2>2 DEF AccountsInv, LiveOutlived
  <2>3. CASE req[r].op # "delete_product" /\ ~account[x].live
    <3>1. req[r].op \in Connecting /\ x = req[r].on.row /\ productDeleted
      BY <1>1, <1>2, <1>11, <2>3
    <3> PICK d \in Requests : Done(d, {"delete_product"}) /\ req[d].at > req[r].began
      BY <1>1, <3>1 DEF AccountsInv, DeletedSince, CommittedSince
    <3>2. Done(r, Connecting)' /\ req'[r].on.row = x /\ Done(d, {"delete_product"})' /\ Overlap(r, d)'
      BY <1>1, <1>3, <1>10, <3>1
    <3> QED BY <3>2 DEF Outlived
  <2> QED BY <2>1, <2>2, <2>3
<1>20. OneRowEach'
  <2> SUFFICES ASSUME ~CallbacksOverlap', NEW x \in Requests, NEW y \in Requests, x # y,
                      account'[x].external = account'[y].external, account'[x].external # Nothing
               PROVE  FALSE
    BY DEF OneRowEach
  <2>1. ~CallbacksOverlap
    BY <1>5
  <2>2. account[x].external # account[y].external \/ account[x].external = Nothing
    BY <2>1 DEF AccountsInv, OneRowEach
  <2>3. PICK z \in {x, y} : account'[z].external # account[z].external
    BY <2>2
  <2>4. /\ req[r].op = "oauth" /\ z = req[r].on.row
        /\ req[r].saw[z].external # req[r].on.external
        /\ account'[z].external = req[r].on.external
    BY <1>2, <2>3
  <2>5. \A w \in Requests : req[r].saw[w].external # req[r].on.external
    BY <1>1, <2>4 DEF AccountsInv, CallbacksLooked
  <2>6. ~CommittedSince({"oauth"}, req[r].began)
    <3> SUFFICES ASSUME NEW q \in Requests, Done(q, {"oauth"}), req[q].at > req[r].began
                 PROVE  FALSE
      BY DEF CommittedSince
    <3>1. Done(q, {"oauth"})' /\ Done(r, {"oauth"})' /\ Overlap(q, r)' /\ q # r
      BY <1>3, <1>10, <2>4
    <3> QED BY <3>1 DEF CallbacksOverlap
  <2>7. \A w \in Requests : account[w].external # req[r].on.external
    BY <1>1, <2>5, <2>6 DEF AccountsInv, ExternalsSeen
  <2> QED BY <1>2, <2>4, <2>7
<1>21. ConnectedMeansConnected'
  <2> SUFFICES ASSUME NEW q \in Requests, Done(q, Connecting)', ~account'[req'[q].on.row].live
               PROVE  \E d \in Requests :
                        Disconnected(d, req[q].on.row)' /\ req'[d].at > req'[q].began
    BY DEF ConnectedMeansConnected
  <2>1. CASE q # r
    <3>1. Done(q, Connecting) /\ req'[q] = req[q]
      BY <1>3, <2>1
    <3>2. req[q].on.row \in Requests
      BY <3>1 DEF AccountsInv, AccountCalls, Done, Connecting
    <3>3. CASE account[req[q].on.row].live
      <4>1. Disconnected(r, req[q].on.row)'
        BY <1>16a, <3>1, <3>2, <3>3 DEF Disconnected
      <4>2. req'[r].at > req'[q].began
        BY <1>1, <1>7, <3>1
      <4> QED BY <4>1, <4>2
    <3>4. CASE ~account[req[q].on.row].live
      <4> PICK d \in Requests : Disconnected(d, req[q].on.row) /\ req[d].at > req[q].began
        BY <3>1, <3>4 DEF AccountsInv, ConnectedMeansConnected
      <4> QED BY <1>3, <3>1 DEF Disconnected
    <3> QED BY <3>3, <3>4
  <2>2. CASE q = r
    <3>1. req[r].op \in Connecting /\ req[r].on.row \in Requests
      BY <1>1, <1>3, <2>2, RowWorkedOn DEF Done
    <3>2. ~account[req[r].on.row].live /\ req[r].saw[req[r].on.row].live
      BY <1>1, <1>2, <2>2, <3>1
    <3> PICK d \in Requests : Disconnected(d, req[r].on.row) /\ req[d].at > req[r].began
      BY <1>1, <3>1, <3>2 DEF AccountsInv, GoneSince, DisconnectedSince
    <3> QED BY <1>1, <1>3, <2>2 DEF Disconnected
  <2> QED BY <2>1, <2>2
<1>22. productDeleted' \in BOOLEAN
  BY <1>1
<1> QED BY <1>1, <1>12, <1>13, <1>14, <1>15, <1>16, <1>17, <1>18, <1>19, <1>20, <1>21, <1>22
        DEF AccountsInv

LEMMA AccountsInit ==
  ASSUME ReqInit, AccountsDB PROVE AccountsInv
<1>1. LogOK /\ \A r \in Requests : req[r].pc = "idle"
  BY LogInit DEF ReqInit, NotBegun
<1>2. /\ account \in [Requests -> AccountRows \cup {NoRow}] /\ productDeleted = FALSE
      /\ \A x \in Requests : account[x] = NoRow
  BY DEF AccountsDB
<1>3. AccountCalls /\ RowsOfCalls /\ RowsAreInserted /\ DeletedSince /\ LiveSince
  BY <1>1, <1>2 DEF AccountCalls, RowsOfCalls, RowsAreInserted, DeletedSince, LiveSince
<1>4. GoneSince /\ ExternalsSeen /\ CallbacksLooked /\ ConnectedMeansConnected
  BY <1>1, <1>2 DEF GoneSince, ExternalsSeen, CallbacksLooked, ConnectedMeansConnected, Disconnected, Done
<1>5. LiveOutlived /\ OneRowEach
  BY <1>2, RowFacts DEF LiveOutlived, OneRowEach
<1> QED BY <1>1, <1>2, <1>3, <1>4, <1>5 DEF AccountsInv

LEMMA AccountsStutter ==
  ASSUME AccountsInv, UNCHANGED <<reqVars, accountVars>> PROVE AccountsInv'
<1>1. LogOK'
  BY LogStutters DEF AccountsInv
<1>2. req' = req /\ clock' = clock /\ account' = account /\ productDeleted' = productDeleted
  BY DEF reqVars, accountVars
<1>3. AccountCalls' /\ RowsOfCalls' /\ RowsAreInserted' /\ CallbacksLooked'
  BY <1>2 DEF AccountsInv, AccountCalls, RowsOfCalls, RowsAreInserted, CallbacksLooked
<1>4. DeletedSince' /\ LiveSince' /\ GoneSince' /\ ExternalsSeen'
  BY <1>2 DEF AccountsInv, DeletedSince, LiveSince, GoneSince, ExternalsSeen,
              CommittedSince, ConnectedSince, DisconnectedSince, Disconnected, Done
<1>5. LiveOutlived' /\ OneRowEach' /\ ConnectedMeansConnected'
  BY <1>2 DEF AccountsInv, LiveOutlived, OneRowEach, ConnectedMeansConnected, Outlived,
              Disconnected, CallbacksOverlap, Overlap, Done
<1> QED BY <1>1, <1>2, <1>3, <1>4, <1>5 DEF AccountsInv

\* Every step keeps the invariant.
LEMMA AccountsSteps ==
  ASSUME AccountsInv, [AccountsNext]_<<reqVars, accountVars>> PROVE AccountsInv'
<1>1. ASSUME NEW r \in Requests, AccountsRead(r) PROVE AccountsInv'
  BY <1>1, AccountsReads, AccountsReadKeeps
<1>2. ASSUME NEW r \in Requests, AccountsCommit(r) PROVE AccountsInv'
  <2>1. AccountsWrite(r) /\ req'[r].pc \in {"done", "failed"}
    BY <1>2, AccountsWrites DEF AccountsWrite
  <2> QED BY <2>1, AccountsFailKeeps, AccountsWriteKeeps
<1>3. CASE UNCHANGED <<reqVars, accountVars>>
  BY <1>3, AccountsStutter
<1> QED BY <1>1, <1>2, <1>3 DEF AccountsNext, AccountsRead, AccountsCommit

LEMMA AccountsInvariance == AccountsSpec => []AccountsInv
<1>1. ReqInit /\ AccountsDB => AccountsInv
  BY AccountsInit
<1>2. AccountsInv /\ [AccountsNext]_<<reqVars, accountVars>> => AccountsInv'
  BY AccountsSteps
<1> QED BY <1>1, <1>2, PTL DEF AccountsSpec

-----------------------------------------------------------------------------
LEMMA AccountsTyped == AccountsInv => AccountsTypeOK
<1>1. ASSUME AccountsInv, NEW r \in Requests, req[r].op \in Connecting \cup {"remove_account"}
      PROVE  req[r].on.row \in Requests /\ req[r].on.handle \in Handles
  <2>1. req[r].pc # "idle" /\ req[r].op # "delete_product"
    BY <1>1 DEF AccountsInv, LogOK, NotBegun, Connecting
  <2> QED BY <1>1, <2>1 DEF AccountsInv, AccountCalls
<1> QED BY <1>1 DEF AccountsInv, AccountsTypeOK

\* The product's accounts and the requests about them keep their types.
THEOREM AccountsTypeCorrect == AccountsSpec => []AccountsTypeOK
BY AccountsTyped, AccountsInvariance, PTL

\* Only a request that connects an account while its product is being deleted can
\* leave the account connected (delete_product deletes the accounts it loaded).
THEOREM OnlyOverlapsOutlive == AccountsSpec => []AccountsOutliveByOverlap
<1>1. AccountsInv => AccountsOutliveByOverlap
  BY DEF AccountsInv, LiveOutlived, Outlived, AccountsOutliveByOverlap, RowsOf
<1> QED BY <1>1, AccountsInvariance, PTL

\* Two rows for one account of the provider come from two callbacks that overlapped
\* (_upsert_oauth_account looks for the row before it inserts or renames one).
THEOREM OnlyOverlapsDuplicate == AccountsSpec => []OneRowPerExternal
<1>1. AccountsInv => OneRowPerExternal
  BY DEF AccountsInv, OneRowEach, CallbacksOverlap, OneRowPerExternal, RowsOf
<1> QED BY <1>1, AccountsInvariance, PTL

\* An account that a request reported as connected is connected, unless this account
\* was removed, or taken along by the deletion of the product, after that request began.
THEOREM ReportedMeansConnected == AccountsSpec => []ConnectedMeansConnected
<1>1. AccountsInv => ConnectedMeansConnected
  BY DEF AccountsInv
<1> QED BY <1>1, AccountsInvariance, PTL

(***************************************************************************)
(* Products and sub-products.  A lookup finds a free slug: among one more  *)
(* candidate than there are rows, one is not taken.  While a request is in *)
(* flight its slugs stay free, unless a request that creates or renames in *)
(* the same table commits.                                                 *)
(***************************************************************************)

\* Every nonempty set of naturals has a smallest element.
LEMMA LeastOne ==
  ASSUME NEW S, S \subseteq Nat, S # {}
  PROVE  \E m \in S : \A x \in S : m <= x
<1>1. PICK x \in S : \A y \in S : ~(<<y, x>> \in OpToRel(<, Nat))
  BY NatLessThanWellFounded, WFMin
<1>2. \A y \in S : ~(y < x)
  BY <1>1 DEF OpToRel
<1>3. \A y \in S : x <= y
  BY <1>2
<1> QED BY <1>3

\* The candidates made from one name differ.
LEMMA CandidatesDiffer ==
  ASSUME NEW base, IsList(base), NEW m \in Nat, NEW n \in Nat,
         Candidate(base, m) = Candidate(base, n)
  PROVE  m = n
<1> DEFINE Parts == {base[i] : i \in 1..Len(base)} \cup Nat
<1>1. base \in Seq(Parts)
  <2>1. Len(base) \in Nat /\ base = [i \in 1..Len(base) |-> base[i]]
    BY DEF IsList
  <2>2. \A i \in 1..Len(base) : base[i] \in Parts
    OBVIOUS
  <2> HIDE DEF Parts
  <2>3. base \in [1..Len(base) -> Parts]
    BY <2>1, <2>2
  <2> QED BY <2>1, <2>3
<1>2. \A k \in Nat : k \in Parts
  OBVIOUS
<1> HIDE DEF Parts
<1>3. ASSUME NEW k \in Nat
      PROVE  /\ Len(Append(base, k)) = Len(base) + 1 /\ Append(base, k)[Len(base) + 1] = k
             /\ Len(base) \in Nat
  BY <1>1, <1>2
<1>4. \A k \in Nat : base # Append(base, k)
  BY <1>3
<1>5. \A j, k \in Nat : Append(base, j) = Append(base, k) => j = k
  BY <1>3
<1> QED BY <1>4, <1>5 DEF Candidate

\* The image of a finite set is finite and no larger.
LEMMA Image ==
  ASSUME NEW S, IsFiniteSet(S), NEW f, f = [x \in S |-> f[x]]
  PROVE  IsFiniteSet({f[x] : x \in S}) /\ Cardinality({f[x] : x \in S}) <= Cardinality(S)
<1> DEFINE T == {f[x] : x \in S}
<1>1. f \in [S -> T] /\ \A t \in T : \E x \in S : f[x] = t
  OBVIOUS
<1>2. f \in Surjection(S, T)
  BY <1>1 DEF Surjection
<1> HIDE DEF T
<1>3. IsFiniteSet(T) /\ Cardinality(T) <= Cardinality(S)
  BY <1>2, FS_Surjection
<1> QED BY <1>3 DEF T

\* A slug that is not taken is found among the first candidates, one more than there are rows.
LEMMA SlugIsFree ==
  ASSUME NEW base, IsList(base), NEW set, IsFiniteSet(set), NEW x
  PROVE  UniqueSlug(base, set, x) \notin Taken(set, x)
<1> DEFINE others == {y \in set : y.id # x}
           K == Cardinality(set) + 1
           free == {n \in 1..K : Candidate(base, n) \notin Taken(set, x)}
<1>1. others \in SUBSET set
  OBVIOUS
<1>2. Cardinality(set) \in Nat
  BY FS_CardinalityType
<1>3. IsFiniteSet(others) /\ Cardinality(others) <= Cardinality(set) /\ Cardinality(others) \in Nat
  <2> HIDE DEF others
  <2>1. IsFiniteSet(others) /\ Cardinality(others) <= Cardinality(set)
    BY <1>1, FS_Subset
  <2> QED BY <2>1, FS_CardinalityType
<1>4. IsFiniteSet(Taken(set, x)) /\ Cardinality(Taken(set, x)) <= Cardinality(set)
      /\ Cardinality(Taken(set, x)) \in Nat
  <2> DEFINE f == [row \in others |-> row.slug]
  <2>1. f = [row \in others |-> f[row]] /\ {f[row] : row \in others} = {row.slug : row \in others}
    OBVIOUS
  <2> HIDE DEF f, others
  <2>2. /\ IsFiniteSet({f[row] : row \in others})
        /\ Cardinality({f[row] : row \in others}) <= Cardinality(others)
    BY <1>3, <2>1, Image
  <2>3. Taken(set, x) = {f[row] : row \in others}
    BY <2>1 DEF Taken, others
  <2>4. IsFiniteSet(Taken(set, x)) /\ Cardinality(Taken(set, x)) <= Cardinality(others)
    BY <2>2, <2>3
  <2> QED BY <1>2, <1>3, <2>4, FS_CardinalityType
<1>5. free # {}
  <2> SUFFICES ASSUME free = {} PROVE FALSE
    OBVIOUS
  <2> DEFINE f == [n \in 1..K |-> Candidate(base, n)]
             T == Taken(set, x)
  <2>1. f \in [1..K -> T]
    OBVIOUS
  <2>2. K \in Int /\ 1 \in Int /\ ~(1 > K) /\ K - 1 + 1 = K /\ Cardinality(T) < K
    BY <1>2, <1>4
  <2>3. IsFiniteSet(T)
    BY <1>4
  <2> HIDE DEF f, T, K
  <2>4. IsFiniteSet(1..K) /\ Cardinality(1..K) = K
    BY <2>2, FS_Interval
  <2>5. Cardinality(T) < Cardinality(1..K)
    BY <2>2, <2>4
  <2> DEFINE S == 1..K
  <2>6. IsFiniteSet(S) /\ Cardinality(T) < Cardinality(S) /\ f \in [S -> T]
    BY <2>1, <2>4, <2>5
  <2> HIDE DEF S
  <2>7. \E m, n \in S : m # n /\ f[m] = f[n]
    BY <2>3, <2>6, FS_PigeonHole
  <2> USE DEF S
  <2>8. PICK m \in 1..K, n \in 1..K : m # n /\ f[m] = f[n]
    BY <2>7
  <2>9. m \in Nat /\ n \in Nat /\ Candidate(base, m) = Candidate(base, n)
    BY <2>2, <2>8 DEF f
  <2> QED BY <2>8, <2>9, CandidatesDiffer
<1>6. free \subseteq Nat
  BY <1>2
<1>7. UniqueSlug(base, set, x) = Candidate(base, CHOOSE n \in free : \A m \in free : n <= m)
  BY DEF UniqueSlug
<1>8. (CHOOSE n \in free : \A m \in free : n <= m) \in free
  <2> HIDE DEF free
  <2> QED BY <1>5, <1>6, LeastOne
<1> QED BY <1>7, <1>8

-----------------------------------------------------------------------------
\* What a request about rows carries.
TreeCalls ==
  \A r \in Requests : req[r].pc # "idle" =>
    /\ req[r].op \in TreeOps /\ req[r].on.table \in Tables
    /\ IsFiniteSet(req[r].on.write) /\ RowsOK(req[r].on.write)
    /\ req[r].op = "rename" => \E w \in req[r].on.write : req[r].on.write = {w} /\ w.id = req[r].saw.id
    /\ req[r].op = "delete" => req[r].on.write = {}

RowsUnique ==
  \A table \in Tables : /\ IsFiniteSet(rows[table])
                        /\ \A p, q \in rows[table] : p.slug = q.slug => p.id = q.id

\* A slug was taken in the table between times t and u.
TakenSince(table, t, u) ==
  \E q \in Requests : /\ Done(q, {"create", "rename"}) /\ req[q].on.table = table
                      /\ req[q].at > t /\ req[q].at <= u

\* The slugs that a request in flight chose are still free, unless one was taken since.
SlugsStillFree ==
  \A r \in Requests : req[r].pc = "read" =>
    \/ TakenSince(req[r].on.table, req[r].began, clock)
    \/ \A row \in rows[req[r].on.table], w \in req[r].on.write : row.slug = w.slug => row.id = w.id

TreeInv ==
  /\ LogOK /\ rows = [table \in Tables |-> rows[table]]
  /\ TreeTypeOK /\ TreeCalls /\ RowsUnique /\ SlugsStillFree /\ NamesAreFound

-----------------------------------------------------------------------------
\* A snapshot, and what was decided on it.
TreeLooked(op, table, write, saw) ==
  /\ op \in TreeOps /\ table \in Tables
  /\ IsFiniteSet(write) /\ RowsOK(write)
  /\ op = "rename" => \E w \in write : write = {w} /\ w.id = saw.id
  /\ op = "delete" => write = {}
  /\ \A row \in rows[table], w \in write : row.slug = w.slug => row.id = w.id

TreeRead(r) ==
  \/ \E name \in NewNames : CreateRead(r, "products", <<name>>)
  \/ \E names \in NameLists : CreateRead(r, "sub_products", names)
  \/ \E table \in Tables : \E row \in rows[table] :
       \/ \E name \in NewNames : RenameRead(r, table, row, name)
       \/ DeleteRead(r, table, row)

LEMMA CreateLooks ==
  ASSUME TreeInv, NEW r \in Requests, NEW table \in Tables, NEW names,
         IsList(names), \A i \in 1..Len(names) : IsList(names[i])
  PROVE  TreeLooked("create", table, NewRows(r, names, rows[table]), Nothing)
<1> DEFINE set == rows[table]
           write == NewRows(r, names, set)
           f == [i \in 1..Len(names) |->
                  [id |-> <<r, i>>, name |-> names[i],
                   slug |-> UniqueSlug(names[i], set, Nothing), live |-> TRUE]]
<1>1. Len(names) \in Nat /\ DOMAIN names = 1..Len(names)
  BY DEF IsList
<1>2. write = {f[i] : i \in 1..Len(names)}
  BY <1>1 DEF NewRows
<1>3. f = [i \in 1..Len(names) |-> f[i]]
  OBVIOUS
<1>4. \A i \in 1..Len(names) :
        /\ f[i].id = <<r, i>> /\ f[i].live = TRUE
        /\ f[i].slug = UniqueSlug(names[i], set, Nothing)
        /\ f[i] = [id |-> f[i].id, name |-> f[i].name, slug |-> f[i].slug, live |-> f[i].live]
  OBVIOUS
<1>5. IsFiniteSet(write)
  <2>1. IsFiniteSet(1..Len(names))
    <3>1. 1 \in Int /\ Len(names) \in Int
      BY <1>1
    <3> QED BY <3>1, FS_Interval
  <2> HIDE DEF write, f
  <2> QED BY <1>2, <1>3, <2>1, Image
<1>6. RowsOK(write)
  <2> SUFFICES ASSUME NEW w \in write
               PROVE  /\ w = [id |-> w.id, name |-> w.name, slug |-> w.slug, live |-> w.live]
                      /\ w.id \in Requests \X (Nat \ {0}) /\ w.live \in BOOLEAN
    BY DEF RowsOK
  <2> HIDE DEF write, f
  <2> PICK i \in 1..Len(names) : w = f[i]
    BY <1>2
  <2>1. w = [id |-> w.id, name |-> w.name, slug |-> w.slug, live |-> w.live]
        /\ w.id = <<r, i>> /\ w.live = TRUE
    BY <1>4
  <2>2. i \in Nat \ {0}
    BY <1>1
  <2>3. <<r, i>> \in Requests \X (Nat \ {0})
    BY <2>2
  <2> HIDE DEF write, f
  <2> QED BY <2>1, <2>3
<1>7. ASSUME NEW row \in set, NEW w \in write, row.slug = w.slug PROVE row.id = w.id
  <2>1. IsFiniteSet(set) /\ RowsOK(set)
    BY DEF TreeInv, RowsUnique, TreeTypeOK
  <2> HIDE DEF write, f, set
  <2> PICK i \in 1..Len(names) : w = f[i]
    BY <1>2
  <2>2. w.slug \notin Taken(set, Nothing)
    BY <1>4, <2>1, SlugIsFree
  <2>3. row.id # Nothing
    <3>1. row.id \in Requests \X Nat
      BY <1>7, <2>1 DEF RowsOK
    <3> QED BY <3>1, TreeConstants
  <2>4. row.slug \in Taken(set, Nothing)
    BY <1>7, <2>3 DEF Taken
  <2> QED BY <1>7, <2>2, <2>4
<1> HIDE DEF f
<1> QED BY <1>5, <1>6, <1>7 DEF TreeLooked, TreeOps

LEMMA RenameLooks ==
  ASSUME TreeInv, NEW table \in Tables, NEW row \in rows[table], NEW name \in NewNames,
         NEW w, w = [id |-> row.id, name |-> name,
                     slug |-> UniqueSlug(name, rows[table], row.id), live |-> TRUE]
  PROVE  TreeLooked("rename", table, {w}, row)
<1>1. IsFiniteSet(rows[table]) /\ RowsOK(rows[table])
  BY DEF TreeInv, RowsUnique, TreeTypeOK
<1>2. w.slug \notin Taken(rows[table], row.id)
  BY <1>1, SlugIsFree, TreeConstants
<1>3. RowsOK({w}) /\ IsFiniteSet({w})
  <2>1. row.id \in Requests \X (Nat \ {0})
    BY <1>1 DEF RowsOK
  <2>2. /\ w = [id |-> w.id, name |-> w.name, slug |-> w.slug, live |-> w.live]
        /\ w.id = row.id /\ w.live = TRUE
    OBVIOUS
  <2> QED BY <2>1, <2>2, FS_Singleton DEF RowsOK
<1>4. \A x \in rows[table] : x.slug = w.slug => x.id = w.id
  BY <1>2 DEF Taken
<1>5. {w} = {w} /\ w.id = row.id
  OBVIOUS
<1> QED BY <1>3, <1>4, <1>5 DEF TreeLooked, TreeOps

LEMMA TreeReads ==
  ASSUME TreeInv, NEW r \in Requests, TreeRead(r)
  PROVE  /\ rows' = rows
         /\ \E op, table, write, saw :
              /\ Begins(r, op, [table |-> table, write |-> write], saw)
              /\ TreeLooked(op, table, write, saw)
<1>1. ASSUME NEW name \in NewNames, CreateRead(r, "products", <<name>>)
      PROVE  TreeLooked("create", "products", NewRows(r, <<name>>, rows["products"]), Nothing)
  <2>1. IsList(<<name>>) /\ \A i \in 1..Len(<<name>>) : IsList(<<name>>[i])
    BY TreeConstants DEF IsList
  <2> QED BY <2>1, CreateLooks DEF Tables
<1>2. ASSUME NEW names \in NameLists, CreateRead(r, "sub_products", names)
      PROVE  TreeLooked("create", "sub_products", NewRows(r, names, rows["sub_products"]), Nothing)
  BY CreateLooks, TreeConstants DEF Tables
<1>3. ASSUME NEW table \in Tables, NEW row \in rows[table], DeleteRead(r, table, row)
      PROVE  TreeLooked("delete", table, {}, row)
  BY FS_EmptySet DEF TreeLooked, TreeOps, RowsOK
<1>4. ASSUME NEW table, NEW names, CreateRead(r, table, names)
      PROVE  rows' = rows /\ Begins(r, "create",
               [table |-> table, write |-> NewRows(r, names, rows[table])], Nothing)
  BY <1>4 DEF CreateRead
<1>5. ASSUME NEW table, NEW row, DeleteRead(r, table, row)
      PROVE  rows' = rows /\ Begins(r, "delete", [table |-> table, write |-> {}], row)
  BY <1>5 DEF DeleteRead
<1>6. ASSUME NEW table \in Tables, NEW row \in rows[table], NEW name \in NewNames,
             RenameRead(r, table, row, name)
      PROVE  /\ rows' = rows
             /\ \E write : /\ Begins(r, "rename", [table |-> table, write |-> write], row)
                           /\ TreeLooked("rename", table, write, row)
  <2> PICK w : w = [id |-> row.id, name |-> name,
                    slug |-> UniqueSlug(name, rows[table], row.id), live |-> TRUE]
    OBVIOUS
  <2>1. rows' = rows /\ Begins(r, "rename", [table |-> table, write |-> {w}], row)
    BY <1>6 DEF RenameRead
  <2> QED BY <2>1, RenameLooks
<1> QED BY <1>1, <1>2, <1>3, <1>4, <1>5, <1>6 DEF TreeRead

LEMMA TreeReadKeeps ==
  ASSUME TreeInv, NEW r \in Requests, TreeRead(r) PROVE TreeInv'
<1>1. rows' = rows
  BY TreeReads
<1> PICK op, table, write, saw :
      /\ Begins(r, op, [table |-> table, write |-> write], saw)
      /\ TreeLooked(op, table, write, saw)
  BY TreeReads
<1>2. /\ LogOK' /\ OnlyMoves(r) /\ clock' = clock /\ req[r] = NotBegun
      /\ req'[r] = [pc |-> "read", op |-> op, on |-> [table |-> table, write |-> write],
                    saw |-> saw, began |-> clock, at |-> 0]
  BY BeginsEffect DEF TreeInv
<1>3. /\ req[r].pc = "idle" /\ req'[r].pc = "read" /\ req'[r].op = op
      /\ req'[r].on.table = table /\ req'[r].on.write = write /\ req'[r].saw = saw
  BY <1>2 DEF NotBegun
<1>4. \A q \in Requests \ {r} : req'[q] = req[q]
  BY <1>2 DEF OnlyMoves
<1>5. \A q \in Requests : \A ops : Done(q, ops) => q # r /\ Done(q, ops)'
  BY <1>3, <1>4 DEF Done
<1>6. \A s, t, u : TakenSince(s, t, u) => TakenSince(s, t, u)'
  BY <1>4, <1>5 DEF TakenSince
<1>7. TreeCalls'
  BY <1>3, <1>4 DEF TreeInv, TreeCalls, TreeLooked
<1>8. SlugsStillFree'
  <2> SUFFICES ASSUME NEW q \in Requests, req'[q].pc = "read"
               PROVE  \/ TakenSince(req[q].on.table, req[q].began, clock)'
                      \/ \A row \in rows[req'[q].on.table], w \in req'[q].on.write :
                           row.slug = w.slug => row.id = w.id
    BY <1>1 DEF SlugsStillFree
  <2>1. CASE q = r BY <1>3, <2>1 DEF TreeLooked
  <2>2. CASE q # r
    <3>1. req'[q] = req[q]
      BY <1>4, <2>2
    <3>2. \/ TakenSince(req[q].on.table, req[q].began, clock)
          \/ \A row \in rows[req[q].on.table], w \in req[q].on.write :
               row.slug = w.slug => row.id = w.id
      BY <3>1 DEF TreeInv, SlugsStillFree
    <3> QED BY <1>2, <1>6, <3>1, <3>2 DEF TakenSince
  <2> QED BY <2>1, <2>2
<1>9. NamesAreFound'
  <2> SUFFICES ASSUME NEW x \in Requests, req'[x].pc = "failed", req'[x].op \in TreeOps
               PROVE  \/ \E v, w \in req'[x].on.write : v.id # w.id /\ v.slug = w.slug
                      \/ \E q \in Requests :
                           /\ Done(q, {"create", "rename"})' /\ req'[q].on.table = req'[x].on.table
                           /\ req'[q].at > req'[x].began /\ req'[q].at <= req'[x].at
    BY DEF NamesAreFound
  <2>1. req'[x] = req[x]
    BY <1>3, <1>4
  <2> QED BY <1>4, <1>5, <2>1 DEF TreeInv, NamesAreFound
<1>10. TreeTypeOK' /\ RowsUnique' /\ rows' = [t \in Tables |-> rows'[t]]
  BY <1>1 DEF TreeInv, TreeTypeOK, RowsUnique
<1> QED BY <1>2, <1>7, <1>8, <1>9, <1>10 DEF TreeInv

-----------------------------------------------------------------------------
\* What a request that is ready to commit would leave in its table.
LEMMA RewrittenFacts ==
  ASSUME TreeInv, NEW r \in Requests, req[r].pc = "read", NEW row, RowsOK({row})
  PROVE  /\ RowsOK({Rewritten(r, row)}) /\ Rewritten(r, row).id = row.id
         /\ \/ Rewritten(r, row).slug = row.slug
            \/ /\ req[r].op = "rename"
               /\ \E w \in req[r].on.write : Rewritten(r, row).slug = w.slug /\ row.id = w.id
<1> DEFINE w == CHOOSE w \in req[r].on.write : TRUE
           name == IF req[r].op = "rename" /\ row.id = req[r].saw.id THEN w.name ELSE row.name
           slug == IF req[r].op = "rename" /\ row.id = req[r].saw.id
                     THEN Column(row.slug, req[r].saw.slug, w.slug) ELSE row.slug
           live == row.live /\ ~(req[r].op = "delete" /\ row.id = req[r].saw.id)
<1>1. Rewritten(r, row) = [id |-> row.id, name |-> name, slug |-> slug, live |-> live]
  BY DEF Rewritten
<1>2. live \in BOOLEAN
  BY DEF RowsOK
<1>3. \/ slug = row.slug
      \/ req[r].op = "rename" /\ w \in req[r].on.write /\ slug = w.slug /\ row.id = w.id
  <2>1. CASE req[r].op = "rename" /\ row.id = req[r].saw.id
    <3> PICK v \in req[r].on.write : req[r].on.write = {v} /\ v.id = req[r].saw.id
      BY <2>1 DEF TreeInv, TreeCalls
    <3>1. w \in req[r].on.write /\ w = v
      OBVIOUS
    <3> HIDE DEF w
    <3> QED BY <2>1, <3>1 DEF Column
  <2>2. CASE ~(req[r].op = "rename" /\ row.id = req[r].saw.id)
    BY <2>2
  <2> QED BY <2>1, <2>2
<1> HIDE DEF name, slug, live, w
<1> QED BY <1>1, <1>2, <1>3 DEF RowsOK

LEMMA AfterFacts ==
  ASSUME TreeInv, NEW r \in Requests, req[r].pc = "read"
  PROVE  /\ req[r].on.table \in Tables /\ RowsOK(After(r)) /\ IsFiniteSet(After(r))
         /\ \A p \in After(r) :
              \/ \E row \in rows[req[r].on.table] : p.id = row.id /\ p.slug = row.slug
              \/ /\ req[r].op \in {"create", "rename"}
                 /\ \E w \in req[r].on.write : p.id = w.id /\ p.slug = w.slug
<1> DEFINE set == rows[req[r].on.table]
<1>1. /\ req[r].on.table \in Tables /\ RowsOK(set) /\ IsFiniteSet(set)
      /\ RowsOK(req[r].on.write) /\ IsFiniteSet(req[r].on.write)
  BY DEF TreeInv, TreeCalls, TreeTypeOK, RowsUnique
<1> HIDE DEF set
<1>2. CASE req[r].op = "create"
  <2>1. After(r) = set \cup req[r].on.write
    BY <1>2 DEF After, set
  <2>2. IsFiniteSet(After(r))
    BY <1>1, <2>1, FS_Union
  <2>3. RowsOK(After(r))
    BY <1>1, <2>1 DEF RowsOK
  <2> QED BY <1>1, <1>2, <2>1, <2>2, <2>3 DEF set
<1>3. CASE req[r].op # "create"
  <2> DEFINE f == [row \in set |-> Rewritten(r, row)]
  <2>1. After(r) = {f[row] : row \in set} /\ f = [row \in set |-> f[row]]
    BY <1>3 DEF After, set
  <2>2. \A row \in set : f[row] = Rewritten(r, row) /\ RowsOK({row})
    BY <1>1 DEF RowsOK
  <2> HIDE DEF f
  <2>3. IsFiniteSet(After(r))
    BY <1>1, <2>1, Image
  <2>4. ASSUME NEW p \in After(r)
        PROVE  /\ RowsOK({p})
               /\ \/ \E row \in set : p.id = row.id /\ p.slug = row.slug
                  \/ /\ req[r].op \in {"create", "rename"}
                     /\ \E w \in req[r].on.write : p.id = w.id /\ p.slug = w.slug
    <3> PICK row \in set : p = Rewritten(r, row)
      BY <2>1, <2>2
    <3>1. /\ RowsOK({p}) /\ p.id = row.id
          /\ \/ p.slug = row.slug
             \/ req[r].op = "rename" /\ \E w \in req[r].on.write : p.slug = w.slug /\ row.id = w.id
      BY <2>2, RewrittenFacts
    <3> QED BY <3>1
  <2>5. RowsOK(After(r))
    BY <2>4 DEF RowsOK
  <2> QED BY <1>1, <2>3, <2>4, <2>5 DEF set
<1> QED BY <1>2, <1>3

\* A request in flight that the unique key would refuse.
LEMMA RefusedForAReason ==
  ASSUME TreeInv, NEW r \in Requests, req[r].pc = "read", ~UniqueAfter(r)
  PROVE  \/ \E v, w \in req[r].on.write : v.id # w.id /\ v.slug = w.slug
         \/ TakenSince(req[r].on.table, req[r].began, clock)
<1> PICK p \in After(r), q \in After(r) : p.slug = q.slug /\ p.id # q.id
  BY DEF UniqueAfter
<1> DEFINE set == rows[req[r].on.table]
           write == req[r].on.write
<1>1. /\ \/ \E row \in set : p.id = row.id /\ p.slug = row.slug
         \/ \E w \in write : p.id = w.id /\ p.slug = w.slug
      /\ \/ \E row \in set : q.id = row.id /\ q.slug = row.slug
         \/ \E w \in write : q.id = w.id /\ q.slug = w.slug
  BY AfterFacts
<1>2. \A x, y \in set : x.slug = y.slug => x.id = y.id
  BY AfterFacts DEF TreeInv, RowsUnique
<1>3. \/ TakenSince(req[r].on.table, req[r].began, clock)
      \/ \A row \in set, w \in write : row.slug = w.slug => row.id = w.id
  BY DEF TreeInv, SlugsStillFree
<1> QED BY <1>1, <1>2, <1>3

LEMMA TreeFailKeeps ==
  ASSUME TreeInv, NEW r \in Requests, NEW op, TreeFailed(r, op) PROVE TreeInv'
<1>1. /\ LogOK' /\ OnlyMoves(r) /\ clock' = clock
      /\ req[r].pc = "read" /\ req[r].op = op
      /\ req'[r] = [pc |-> "failed", op |-> op, on |-> req[r].on, saw |-> req[r].saw,
                    began |-> req[r].began, at |-> clock]
  BY FailsEffect DEF TreeFailed, TreeInv
<1>2. /\ req'[r].pc = "failed" /\ req'[r].op = req[r].op /\ req'[r].on = req[r].on
      /\ req'[r].saw = req[r].saw /\ req'[r].began = req[r].began /\ req'[r].at = clock
  BY <1>1
<1>3. rows' = rows /\ ~UniqueAfter(r)
  BY DEF TreeFailed
<1>4. \A q \in Requests \ {r} : req'[q] = req[q]
  BY <1>1 DEF OnlyMoves
<1>5. \A q \in Requests : \A ops : Done(q, ops) => q # r /\ Done(q, ops)'
  BY <1>1, <1>4 DEF Done
<1>6. TreeCalls'
  BY <1>1, <1>2, <1>4 DEF TreeInv, TreeCalls
<1>7. SlugsStillFree'
  <2> SUFFICES ASSUME NEW q \in Requests, req'[q].pc = "read"
               PROVE  \/ TakenSince(req[q].on.table, req[q].began, clock)'
                      \/ \A row \in rows[req'[q].on.table], w \in req'[q].on.write :
                           row.slug = w.slug => row.id = w.id
    BY <1>3 DEF SlugsStillFree
  <2>1. req'[q] = req[q]
    BY <1>2, <1>4
  <2>2. \/ TakenSince(req[q].on.table, req[q].began, clock)
        \/ \A row \in rows[req[q].on.table], w \in req[q].on.write :
             row.slug = w.slug => row.id = w.id
    BY <2>1 DEF TreeInv, SlugsStillFree
  <2>3. TakenSince(req[q].on.table, req[q].began, clock)
          => TakenSince(req[q].on.table, req[q].began, clock)'
    BY <1>1, <1>4, <1>5, <2>1 DEF TakenSince
  <2> QED BY <2>1, <2>2, <2>3
<1>8. NamesAreFound'
  <2> SUFFICES ASSUME NEW x \in Requests, req'[x].pc = "failed", req'[x].op \in TreeOps
               PROVE  \/ \E v, w \in req'[x].on.write : v.id # w.id /\ v.slug = w.slug
                      \/ \E q \in Requests :
                           /\ Done(q, {"create", "rename"})' /\ req'[q].on.table = req'[x].on.table
                           /\ req'[q].at > req'[x].began /\ req'[q].at <= req'[x].at
    BY DEF NamesAreFound
  <2>1. CASE x = r
    <3>1. \/ \E v, w \in req[r].on.write : v.id # w.id /\ v.slug = w.slug
          \/ TakenSince(req[r].on.table, req[r].began, clock)
      BY <1>1, <1>3, RefusedForAReason
    <3> QED BY <1>2, <1>4, <1>5, <2>1, <3>1 DEF TakenSince
  <2>2. CASE x # r
    BY <1>4, <1>5, <2>2 DEF TreeInv, NamesAreFound
  <2> QED BY <2>1, <2>2
<1>9. TreeTypeOK' /\ RowsUnique' /\ rows' = [t \in Tables |-> rows'[t]]
  BY <1>3 DEF TreeInv, TreeTypeOK, RowsUnique
<1> QED BY <1>1, <1>6, <1>7, <1>8, <1>9 DEF TreeInv

LEMMA TreeCommitKeeps ==
  ASSUME TreeInv, NEW r \in Requests, NEW op, TreeCommitted(r, op) PROVE TreeInv'
<1>1. /\ LogOK' /\ OnlyMoves(r) /\ clock' = clock + 1
      /\ req[r].pc = "read" /\ req[r].op = op /\ req[r].began <= clock
      /\ req'[r] = [pc |-> "done", op |-> op, on |-> req[r].on, saw |-> req[r].saw,
                    began |-> req[r].began, at |-> clock + 1]
  BY CommitsEffect DEF TreeCommitted, TreeInv
<1>2. /\ req'[r].pc = "done" /\ req'[r].op = req[r].op /\ req'[r].on = req[r].on
      /\ req'[r].saw = req[r].saw /\ req'[r].began = req[r].began /\ req'[r].at = clock + 1
      /\ clock \in Nat
  BY <1>1 DEF TreeInv, LogOK
<1> DEFINE table == req[r].on.table
<1>3. /\ rows' = [rows EXCEPT ![table] = After(r)] /\ table \in Tables
      /\ UniqueAfter(r) /\ RowsOK(After(r)) /\ IsFiniteSet(After(r))
  BY <1>1, AfterFacts DEF TreeCommitted
<1>4. /\ rows' = [t \in Tables |-> rows'[t]] /\ rows'[table] = After(r)
      /\ \A t \in Tables \ {table} : rows'[t] = rows[t]
  BY <1>3 DEF TreeInv
<1>5. \A q \in Requests \ {r} : req'[q] = req[q]
  BY <1>1 DEF OnlyMoves
<1>6. \A q \in Requests : \A ops : Done(q, ops) => q # r /\ Done(q, ops)'
  BY <1>1, <1>5 DEF Done
<1>7. TreeTypeOK' /\ RowsUnique'
  BY <1>3, <1>4 DEF TreeInv, TreeTypeOK, RowsUnique, UniqueAfter
<1>8. TreeCalls'
  BY <1>1, <1>2, <1>5 DEF TreeInv, TreeCalls
<1>9. SlugsStillFree'
  <2> SUFFICES ASSUME NEW q \in Requests, req'[q].pc = "read"
               PROVE  \/ TakenSince(req[q].on.table, req[q].began, clock)'
                      \/ \A row \in rows'[req'[q].on.table], w \in req'[q].on.write :
                           row.slug = w.slug => row.id = w.id
    BY DEF SlugsStillFree
  <2>1. req'[q] = req[q] /\ q # r /\ req[q].pc = "read"
    BY <1>2, <1>5
  <2>2. req[q].on.table \in Tables /\ req[q].began \in Nat /\ req[q].began <= clock
    BY <2>1 DEF TreeInv, TreeCalls, LogOK, IsRequest, Timely
  <2>3. \/ TakenSince(req[q].on.table, req[q].began, clock)
        \/ \A row \in rows[req[q].on.table], w \in req[q].on.write :
             row.slug = w.slug => row.id = w.id
    BY <2>1 DEF TreeInv, SlugsStillFree
  <2>4. CASE TakenSince(req[q].on.table, req[q].began, clock)
    <3>1. \A x \in Requests : req[x].at \in Nat
      BY DEF TreeInv, LogOK, IsRequest
    <3> QED BY <1>1, <1>2, <1>5, <1>6, <2>1, <2>4, <3>1 DEF TakenSince
  <2>5. CASE /\ req[q].on.table = table /\ req[r].op \in {"create", "rename"}
    <3>1. Done(r, {"create", "rename"})'
      BY <1>2, <2>5 DEF Done
    <3> QED BY <1>1, <1>2, <2>1, <2>2, <2>5, <3>1 DEF TakenSince
  <2>6. CASE /\ req[q].on.table # table
             /\ \A row \in rows[req[q].on.table], w \in req[q].on.write :
                  row.slug = w.slug => row.id = w.id
    BY <1>4, <2>1, <2>2, <2>6
  <2>7. CASE /\ req[q].on.table = table /\ req[r].op \notin {"create", "rename"}
             /\ \A row \in rows[req[q].on.table], w \in req[q].on.write :
                  row.slug = w.slug => row.id = w.id
    <3>1. \A p \in After(r) : \E row \in rows[table] : p.id = row.id /\ p.slug = row.slug
      BY <1>1, <2>7, AfterFacts
    <3> QED BY <1>4, <2>1, <2>7, <3>1
  <2> QED BY <2>3, <2>4, <2>5, <2>6, <2>7
<1>10. NamesAreFound'
  <2> SUFFICES ASSUME NEW x \in Requests, req'[x].pc = "failed", req'[x].op \in TreeOps
               PROVE  \/ \E v, w \in req'[x].on.write : v.id # w.id /\ v.slug = w.slug
                      \/ \E q \in Requests :
                           /\ Done(q, {"create", "rename"})' /\ req'[q].on.table = req'[x].on.table
                           /\ req'[q].at > req'[x].began /\ req'[q].at <= req'[x].at
    BY DEF NamesAreFound
  <2>1. req'[x] = req[x]
    BY <1>2, <1>5
  <2> QED BY <1>5, <1>6, <2>1 DEF TreeInv, NamesAreFound
<1> QED BY <1>1, <1>4, <1>7, <1>8, <1>9, <1>10 DEF TreeInv

LEMMA TreeStarts == ASSUME ReqInit, TreeDB PROVE TreeInv
<1>1. LogOK /\ \A r \in Requests : req[r].pc = "idle"
  BY LogInit DEF ReqInit, NotBegun
<1>2. rows = [table \in Tables |-> rows[table]] /\ \A table \in Tables : rows[table] = {}
  BY DEF TreeDB
<1>3. TreeTypeOK /\ RowsUnique
  BY <1>2, FS_EmptySet DEF TreeTypeOK, RowsOK, RowsUnique
<1> QED BY <1>1, <1>2, <1>3 DEF TreeInv, TreeCalls, SlugsStillFree, NamesAreFound

LEMMA TreeStutters == ASSUME TreeInv, UNCHANGED <<reqVars, rows>> PROVE TreeInv'
<1>1. LogOK'
  BY LogStutters DEF TreeInv
<1>2. req' = req /\ clock' = clock /\ rows' = rows
  BY DEF reqVars
<1>3. TreeTypeOK' /\ TreeCalls' /\ RowsUnique' /\ rows' = [t \in Tables |-> rows'[t]]
  BY <1>2 DEF TreeInv, TreeTypeOK, TreeCalls, RowsUnique
<1>4. SlugsStillFree' /\ NamesAreFound'
  BY <1>2 DEF TreeInv, SlugsStillFree, TakenSince, NamesAreFound, Done
<1> QED BY <1>1, <1>3, <1>4 DEF TreeInv

\* Every step keeps the invariant.
LEMMA TreeSteps ==
  ASSUME TreeInv, [TreeNext]_<<reqVars, rows>> PROVE TreeInv'
<1>1. ASSUME NEW r \in Requests, TreeRead(r) PROVE TreeInv'
  BY <1>1, TreeReadKeeps
<1>2. ASSUME NEW r \in Requests, NEW op, TreeCommitted(r, op) PROVE TreeInv'
  BY <1>2, TreeCommitKeeps
<1>3. ASSUME NEW r \in Requests, NEW op, TreeFailed(r, op) PROVE TreeInv'
  BY <1>3, TreeFailKeeps
<1>4. CASE UNCHANGED <<reqVars, rows>>
  BY <1>4, TreeStutters
<1> QED BY <1>1, <1>2, <1>3, <1>4 DEF TreeNext, TreeRead

LEMMA TreeInvariance == TreeSpec => []TreeInv
<1>1. ReqInit /\ TreeDB => TreeInv
  BY TreeStarts
<1>2. TreeInv /\ [TreeNext]_<<reqVars, rows>> => TreeInv'
  BY TreeSteps
<1> QED BY <1>1, <1>2, PTL DEF TreeSpec

\* The rows of products and sub-products keep their types.
THEOREM TreeTypeCorrect == TreeSpec => []TreeTypeOK
<1>1. TreeInv => TreeTypeOK
  BY DEF TreeInv
<1> QED BY <1>1, TreeInvariance, PTL

\* Creating or renaming is refused only for a name that repeats within the payload or a
\* slug taken meanwhile (_unique_product_slug finds a free one in its snapshot).
THEOREM RefusalsHaveAReason == TreeSpec => []NamesAreFound
<1>1. TreeInv => NamesAreFound
  BY DEF TreeInv
<1> QED BY <1>1, TreeInvariance, PTL

(***************************************************************************)
(* Brand profiles.  After an upload every snapshot shows a logo, and an    *)
(* analysis that sees a logo stores no image: whoever stores one after an  *)
(* upload has uploaded it, or had looked before.                           *)
(***************************************************************************)

\* What a request about the profile carries; an analysis brings a logo only if its
\* snapshot had none.
BrandCalls ==
  \A r \in Requests : req[r].pc # "idle" =>
    /\ req[r].op \in BrandOps
    /\ req[r].on \in ImageTypes \cup {Nothing}
    /\ req[r].saw \in Profile
    /\ req[r].began <= clock
    /\ req[r].op = "save" => req[r].on = Nothing
    /\ req[r].op = "upload" => req[r].on # Nothing
    /\ (req[r].op = "analyze" /\ req[r].on # Nothing) => req[r].saw.logo = Nothing

ImagesStored ==
  /\ \A q \in stored : req[q].pc # "idle" /\ req[q].on # Nothing /\ image[req[q].on] # Nothing
  /\ \A t \in ImageTypes : image[t] # Nothing => image[t] \in stored /\ req[image[t]].on = t
  /\ \A u \in Requests : Done(u, {"upload"}) => u \in stored

\* A logo comes from an image that was stored, and is never taken away.
LogoStored == profile.logo # Nothing => \E q \in stored : req[q].on = profile.logo
LogoStays ==
  /\ \A r \in Requests : (req[r].pc # "idle" /\ req[r].saw.logo # Nothing) => profile.logo # Nothing
  /\ \A u \in Requests : Done(u, {"upload"}) => profile.logo # Nothing

\* Who looks after an upload finds a logo.
UploadsSeen ==
  \A u, r \in Requests :
    (Done(u, {"upload"}) /\ req[r].pc # "idle" /\ req[u].at <= req[r].began)
      => req[r].saw.logo # Nothing

BrandInv ==
  /\ LogOK /\ BrandTypeOK
  /\ BrandCalls /\ ImagesStored /\ LogoStored /\ LogoStays /\ UploadsSeen

-----------------------------------------------------------------------------
LEMMA ProfileFacts ==
  /\ \A p \in Profile : p.exists \in BOOLEAN /\ p.logo \in ImageTypes \cup {Nothing}
  /\ \A e \in BOOLEAN : \A l \in ImageTypes \cup {Nothing} : [exists |-> e, logo |-> l] \in Profile
BY DEF Profile

BrandRead(r) ==
  \/ SaveRead(r)
  \/ \E t \in ImageTypes : UploadRead(r, t)
  \/ \E t \in ImageTypes \cup {Nothing} : AnalyzeRead(r, t)

LEMMA BrandReadKeeps ==
  ASSUME BrandInv, NEW r \in Requests, BrandRead(r) PROVE BrandInv'
<1>1. \E op \in BrandOps : \E on \in ImageTypes \cup {Nothing} :
        /\ Begins(r, op, on, profile)
        /\ op = "save" => on = Nothing
        /\ op = "upload" => on # Nothing
        /\ (op = "analyze" /\ on # Nothing) => profile.logo = Nothing
  <2>1. CASE SaveRead(r) BY <2>1 DEF SaveRead, BrandOps
  <2>2. ASSUME NEW t \in ImageTypes, UploadRead(r, t)
        PROVE  Begins(r, "upload", t, profile) /\ t # Nothing
    BY <2>2, BrandConstants DEF UploadRead
  <2>3. ASSUME NEW t \in ImageTypes \cup {Nothing}, AnalyzeRead(r, t)
        PROVE  /\ Begins(r, "analyze", Wanted(t), profile)
               /\ Wanted(t) \in ImageTypes \cup {Nothing}
               /\ Wanted(t) # Nothing => profile.logo = Nothing
    BY <2>3 DEF AnalyzeRead, Wanted
  <2>4. "save" \in BrandOps /\ "upload" \in BrandOps /\ "analyze" \in BrandOps
    BY DEF BrandOps
  <2> QED BY <2>1, <2>2, <2>3, <2>4 DEF BrandRead
<1> PICK op \in BrandOps, on \in ImageTypes \cup {Nothing} :
      /\ Begins(r, op, on, profile)
      /\ op = "save" => on = Nothing
      /\ op = "upload" => on # Nothing
      /\ (op = "analyze" /\ on # Nothing) => profile.logo = Nothing
  BY <1>1
<1>2. /\ LogOK' /\ OnlyMoves(r) /\ clock' = clock /\ req[r] = NotBegun
      /\ req'[r] = [pc |-> "read", op |-> op, on |-> on, saw |-> profile,
                    began |-> clock, at |-> 0]
  BY BeginsEffect DEF BrandInv
<1>3. profile' = profile /\ image' = image /\ stored' = stored
  BY DEF BrandRead, SaveRead, UploadRead, AnalyzeRead, brandVars
<1>4. /\ req[r].pc = "idle" /\ req'[r].pc = "read" /\ req'[r].op = op /\ req'[r].on = on
      /\ req'[r].saw = profile /\ req'[r].began = clock /\ clock \in Nat
  BY <1>2 DEF NotBegun, BrandInv, LogOK
<1>5. \A q \in Requests \ {r} : req'[q] = req[q]
  BY <1>2 DEF OnlyMoves
<1>6. r \notin stored /\ stored \subseteq Requests
  BY <1>4 DEF BrandInv, ImagesStored, BrandTypeOK
<1>7. \A q \in Requests : \A ops : Done(q, ops)' <=> Done(q, ops)
  BY <1>2, <1>4, ReadKeepsDone
<1>8. \A q \in Requests : \A ops : Done(q, ops) => q # r /\ req'[q] = req[q]
  BY <1>4, <1>5 DEF Done
<1>9. BrandTypeOK'
  BY <1>3 DEF BrandInv, BrandTypeOK
<1>10. BrandCalls'
  BY <1>2, <1>4, <1>5, <1>9 DEF BrandInv, BrandCalls, BrandTypeOK
<1>11. ImagesStored'
  <2>1. \A q \in stored : req'[q] = req[q]
    BY <1>5, <1>6
  <2>2. \A q \in stored' : req'[q].pc # "idle" /\ req'[q].on # Nothing /\ image'[req'[q].on] # Nothing
    BY <1>3, <2>1 DEF BrandInv, ImagesStored
  <2>3. \A t \in ImageTypes : image'[t] # Nothing => image'[t] \in stored' /\ req'[image'[t]].on = t
    BY <1>3, <2>1 DEF BrandInv, ImagesStored
  <2> QED BY <1>3, <1>7, <2>2, <2>3 DEF BrandInv, ImagesStored
<1>12. LogoStored'
  BY <1>3, <1>5, <1>6 DEF BrandInv, LogoStored
<1>13. LogoStays'
  BY <1>3, <1>4, <1>5, <1>7 DEF BrandInv, LogoStays
<1>14. UploadsSeen'
  <2> SUFFICES ASSUME NEW u \in Requests, NEW q \in Requests, Done(u, {"upload"})',
                      req'[q].pc # "idle", req'[u].at <= req'[q].began
               PROVE  req'[q].saw.logo # Nothing
    BY DEF UploadsSeen
  <2>1. Done(u, {"upload"}) /\ req'[u] = req[u]
    BY <1>7, <1>8
  <2>2. CASE q = r BY <1>4, <2>1, <2>2 DEF BrandInv, LogoStays
  <2>3. CASE q # r BY <1>5, <2>1, <2>3 DEF BrandInv, UploadsSeen
  <2> QED BY <2>2, <2>3
<1> QED BY <1>2, <1>9, <1>10, <1>11, <1>12, <1>13, <1>14 DEF BrandInv

LEMMA ImageStoredKeeps ==
  ASSUME BrandInv, NEW r \in Requests, ImageStored(r) PROVE BrandInv'
<1> DEFINE t == req[r].on
<1>1. /\ req' = req /\ clock' = clock /\ profile' = profile
      /\ image' = [image EXCEPT ![t] = r] /\ stored' = stored \cup {r}
      /\ r \notin stored /\ t # Nothing /\ req[r].pc = "read"
  BY DEF ImageStored, Reading, reqVars
<1>2. t \in ImageTypes
  BY <1>1 DEF BrandInv, BrandCalls
<1>3. r # Nothing
  BY SnapshotsConstants
<1>4. LogOK'
  BY <1>1, LogStutters DEF BrandInv, reqVars
<1>5. BrandTypeOK'
  BY <1>1, <1>2 DEF BrandInv, BrandTypeOK
<1>6. BrandCalls' /\ LogoStays' /\ UploadsSeen' /\ LogoStored'
  BY <1>1 DEF BrandInv, BrandCalls, LogoStays, UploadsSeen, LogoStored, Done
<1>7. /\ image \in [ImageTypes -> Requests \cup {Nothing}] /\ image'[t] = r
      /\ \A s \in ImageTypes \ {t} : image'[s] = image[s]
  BY <1>1, <1>2 DEF BrandInv, BrandTypeOK
<1>8. ImagesStored'
  <2>1. \A q \in stored' : req[q].pc # "idle" /\ req[q].on # Nothing /\ image'[req[q].on] # Nothing
    <3> SUFFICES ASSUME NEW q \in stored'
                 PROVE  req[q].pc # "idle" /\ req[q].on # Nothing /\ image'[req[q].on] # Nothing
      OBVIOUS
    <3>1. CASE q = r BY <1>1, <1>3, <1>7, <3>1
    <3>2. CASE q # r
      <4>1. /\ q \in stored /\ q \in Requests /\ req[q].pc # "idle" /\ req[q].on # Nothing
            /\ image[req[q].on] # Nothing
        BY <1>1, <3>2 DEF BrandInv, BrandTypeOK, ImagesStored
      <4>2. req[q].on \in ImageTypes
        BY <4>1 DEF BrandInv, BrandCalls
      <4> QED BY <1>3, <1>7, <4>1, <4>2
    <3> QED BY <3>1, <3>2
  <2>2. \A s \in ImageTypes : image'[s] # Nothing => image'[s] \in stored' /\ req[image'[s]].on = s
    BY <1>1, <1>7 DEF BrandInv, ImagesStored
  <2>3. \A u \in Requests : Done(u, {"upload"})' => u \in stored'
    BY <1>1 DEF BrandInv, ImagesStored, Done
  <2> HIDE DEF t
  <2> QED BY <1>1, <2>1, <2>2, <2>3 DEF ImagesStored
<1> QED BY <1>4, <1>5, <1>6, <1>8 DEF BrandInv

\* A request that finishes, and what it leaves in the row.
BrandWrite(r) ==
  /\ LogOK' /\ OnlyMoves(r) /\ clock' \in {clock, clock + 1}
  /\ req[r].pc = "read" /\ req'[r].pc \in {"done", "failed"}
  /\ req'[r].op = req[r].op /\ req'[r].on = req[r].on /\ req'[r].saw = req[r].saw
  /\ req'[r].began = req[r].began /\ req[r].began <= clock
  /\ req'[r].pc = "done" => req'[r].at = clock + 1
  /\ image' = image /\ stored' = stored
  /\ req[r].on # Nothing => r \in stored
  /\ profile' \in Profile
  /\ profile'.logo # profile.logo => profile'.logo = req[r].on /\ req[r].on # Nothing
  /\ (req'[r].pc = "done" /\ req[r].op = "upload") => profile'.logo # Nothing

LEMMA BrandWrites ==
  ASSUME BrandInv, NEW r \in Requests, NEW op, BrandCommitted(r, op) \/ BrandFailed(r, op)
  PROVE  BrandWrite(r)
<1>1. CASE BrandCommitted(r, op)
  <2>1. /\ LogOK' /\ OnlyMoves(r) /\ clock' = clock + 1
        /\ req[r].pc = "read" /\ req[r].op = op
        /\ req[r].began <= clock
        /\ req'[r] = [pc |-> "done", op |-> op, on |-> req[r].on, saw |-> req[r].saw,
                      began |-> req[r].began, at |-> clock + 1]
    BY <1>1, CommitsEffect DEF BrandCommitted, BrandInv
  <2> DEFINE logo == IF req[r].on = Nothing THEN profile.logo
                     ELSE Column(profile.logo, req[r].saw.logo, req[r].on)
  <2>2. /\ profile' = [exists |-> TRUE, logo |-> logo]
        /\ image' = image /\ stored' = stored /\ (req[r].on # Nothing => r \in stored)
    BY <1>1 DEF BrandCommitted
  <2>3. /\ profile.logo \in ImageTypes \cup {Nothing} /\ req[r].on \in ImageTypes \cup {Nothing}
        /\ op = "upload" => req[r].on # Nothing
        /\ req[r].saw.logo # Nothing => profile.logo # Nothing
    BY <2>1, ProfileFacts DEF BrandInv, BrandTypeOK, BrandCalls, LogoStays
  <2>4. /\ logo \in ImageTypes \cup {Nothing}
        /\ logo # profile.logo => logo = req[r].on /\ req[r].on # Nothing
        /\ op = "upload" => logo # Nothing
    BY <2>3 DEF Column
  <2> HIDE DEF logo
  <2>5. profile' \in Profile /\ profile'.logo = logo
    BY <2>2, <2>4, ProfileFacts
  <2> QED BY <2>1, <2>2, <2>4, <2>5 DEF BrandWrite
<1>2. CASE BrandFailed(r, op)
  <2>1. /\ LogOK' /\ OnlyMoves(r) /\ clock' = clock
        /\ req[r].pc = "read" /\ req[r].op = op
        /\ req'[r] = [pc |-> "failed", op |-> op, on |-> req[r].on, saw |-> req[r].saw,
                      began |-> req[r].began, at |-> clock]
    BY <1>2, FailsEffect DEF BrandFailed, BrandInv
  <2>2. req[r].began <= clock /\ profile \in Profile
    BY <2>1 DEF BrandInv, LogOK, Timely, BrandTypeOK
  <2>3. /\ req'[r].pc = "failed" /\ req'[r].op = req[r].op /\ req'[r].on = req[r].on
        /\ req'[r].saw = req[r].saw /\ req'[r].began = req[r].began
    BY <2>1
  <2>4. profile' = profile /\ image' = image /\ stored' = stored
        /\ (req[r].on # Nothing => r \in stored)
    BY <1>2 DEF BrandFailed, brandVars
  <2> QED BY <2>1, <2>2, <2>3, <2>4 DEF BrandWrite
<1> QED BY <1>1, <1>2

LEMMA BrandWriteKeeps ==
  ASSUME BrandInv, NEW r \in Requests, BrandWrite(r) PROVE BrandInv'
<1>1. /\ LogOK /\ LogOK' /\ OnlyMoves(r) /\ clock \in Nat /\ clock' \in Nat /\ clock <= clock'
      /\ req[r].pc = "read" /\ req'[r].pc \in {"done", "failed"} /\ req'[r].op = req[r].op
      /\ req'[r].on = req[r].on /\ req'[r].saw = req[r].saw /\ req'[r].began = req[r].began
      /\ req[r].began <= clock /\ (req'[r].pc = "done" => req'[r].at = clock + 1)
      /\ image' = image /\ stored' = stored /\ (req[r].on # Nothing => r \in stored)
      /\ profile' \in Profile
      /\ profile'.logo # profile.logo => profile'.logo = req[r].on /\ req[r].on # Nothing
      /\ (req'[r].pc = "done" /\ req[r].op = "upload") => profile'.logo # Nothing
  BY DEF BrandInv, BrandWrite, LogOK
<1>2. \A q \in Requests : req'[q].op = req[q].op /\ req'[q].on = req[q].on
                          /\ req'[q].saw = req[q].saw /\ req'[q].began = req[q].began
                          /\ (req'[q].pc # "idle" <=> req[q].pc # "idle")
  BY <1>1 DEF OnlyMoves
<1>3. \A q \in Requests : Done(q, {"upload"})' =>
        \/ q = r /\ req'[r].pc = "done" /\ req[r].op = "upload"
        \/ q # r /\ Done(q, {"upload"}) /\ req'[q] = req[q]
  BY <1>1 DEF OnlyMoves, Done
<1>4. \A q \in Requests : req[q].began \in Nat
  BY <1>1 DEF LogOK, IsRequest
<1>5. BrandTypeOK'
  BY <1>1 DEF BrandInv, BrandTypeOK
<1>6. BrandCalls'
  BY <1>1, <1>2, <1>4 DEF BrandInv, BrandCalls
<1>7. stored \subseteq Requests /\ image \in [ImageTypes -> Requests \cup {Nothing}]
  BY DEF BrandInv, BrandTypeOK
<1>8. ImagesStored'
  <2>1. \A q \in stored' : req'[q].pc # "idle" /\ req'[q].on # Nothing /\ image'[req'[q].on] # Nothing
    BY <1>1, <1>2, <1>7 DEF BrandInv, ImagesStored
  <2>2. \A t \in ImageTypes : image'[t] # Nothing => image'[t] \in stored' /\ req'[image'[t]].on = t
    BY <1>1, <1>2, <1>7 DEF BrandInv, ImagesStored
  <2>3. \A u \in Requests : Done(u, {"upload"})' => u \in stored'
    <3>1. req[r].op = "upload" => req[r].on # Nothing
      BY <1>1 DEF BrandInv, BrandCalls
    <3> QED BY <1>1, <1>3, <3>1 DEF BrandInv, ImagesStored
  <2> QED BY <2>1, <2>2, <2>3 DEF ImagesStored
<1>9. LogoStored'
  <2> SUFFICES ASSUME profile'.logo # Nothing PROVE \E q \in stored' : req'[q].on = profile'.logo
    BY DEF LogoStored
  <2>1. CASE profile'.logo = profile.logo
    BY <1>1, <1>2, <1>7, <2>1 DEF BrandInv, LogoStored
  <2>2. CASE profile'.logo # profile.logo
    BY <1>1, <2>2
  <2> QED BY <2>1, <2>2
<1>10. profile.logo # Nothing => profile'.logo # Nothing
  BY <1>1
<1>11. LogoStays'
  BY <1>1, <1>2, <1>3, <1>10 DEF BrandInv, LogoStays
<1>12. UploadsSeen'
  <2> SUFFICES ASSUME NEW u \in Requests, NEW q \in Requests, Done(u, {"upload"})',
                      req'[q].pc # "idle", req'[u].at <= req'[q].began
               PROVE  req'[q].saw.logo # Nothing
    BY DEF UploadsSeen
  <2>1. req[q].pc # "idle" /\ req'[q].began = req[q].began /\ req'[q].saw = req[q].saw
        /\ req[q].began <= clock /\ req[q].began \in Nat
    BY <1>2, <1>4 DEF BrandInv, BrandCalls
  <2>2. u # r
    BY <1>1, <1>3, <2>1
  <2>3. Done(u, {"upload"}) /\ req'[u] = req[u]
    BY <1>3, <2>2
  <2> QED BY <2>1, <2>3 DEF BrandInv, UploadsSeen
<1> QED BY <1>1, <1>5, <1>6, <1>8, <1>9, <1>11, <1>12 DEF BrandInv

LEMMA BrandStarts == ASSUME ReqInit, BrandDB PROVE BrandInv
<1>1. LogOK /\ \A r \in Requests : req[r].pc = "idle"
  BY LogInit DEF ReqInit, NotBegun
<1>2. /\ profile = [exists |-> FALSE, logo |-> Nothing] /\ profile \in Profile /\ profile.logo = Nothing
      /\ image = [t \in ImageTypes |-> Nothing] /\ stored = {}
  BY ProfileFacts DEF BrandDB
<1>3. \A u \in Requests : \A ops : ~Done(u, ops)
  BY <1>1 DEF Done
<1> QED BY <1>1, <1>2, <1>3 DEF BrandInv, BrandTypeOK, BrandCalls, ImagesStored, LogoStored,
                                 LogoStays, UploadsSeen

LEMMA BrandStutters == ASSUME BrandInv, UNCHANGED <<reqVars, brandVars>> PROVE BrandInv'
<1>1. LogOK'
  BY LogStutters DEF BrandInv
<1>2. req' = req /\ clock' = clock /\ profile' = profile /\ image' = image /\ stored' = stored
  BY DEF reqVars, brandVars
<1> QED BY <1>1, <1>2 DEF BrandInv, BrandTypeOK, BrandCalls, ImagesStored, LogoStored,
                           LogoStays, UploadsSeen, Done

\* Every step keeps the invariant.
LEMMA BrandSteps ==
  ASSUME BrandInv, [BrandNext]_<<reqVars, brandVars>> PROVE BrandInv'
<1>1. ASSUME NEW r \in Requests, BrandRead(r) PROVE BrandInv'
  BY <1>1, BrandReadKeeps
<1>2. ASSUME NEW r \in Requests, ImageStored(r) PROVE BrandInv'
  BY <1>2, ImageStoredKeeps
<1>3. ASSUME NEW r \in Requests, NEW op, BrandCommitted(r, op) \/ BrandFailed(r, op)
      PROVE  BrandInv'
  BY <1>3, BrandWrites, BrandWriteKeeps
<1>4. CASE UNCHANGED <<reqVars, brandVars>>
  BY <1>4, BrandStutters
<1> QED BY <1>1, <1>2, <1>3, <1>4 DEF BrandNext, BrandRead

LEMMA BrandInvariance == BrandSpec => []BrandInv
<1>1. ReqInit /\ BrandDB => BrandInv
  BY BrandStarts
<1>2. BrandInv /\ [BrandNext]_<<reqVars, brandVars>> => BrandInv'
  BY BrandSteps
<1> QED BY <1>1, <1>2, PTL DEF BrandSpec

\* If nobody else uploaded, and no analysis that began before the upload stored an image,
\* then nobody else stored one at all.
LEMMA UploadShows ==
  ASSUME BrandInv, NEW u \in Requests, Done(u, {"upload"}),
         \A q \in stored \ {u} : req[q].op # "upload" /\ ~(req[q].began < req[u].at)
  PROVE  Shown = u
<1>1. u \in stored /\ profile.logo # Nothing
  BY DEF BrandInv, ImagesStored, LogoStays
<1>2. stored = {u}
  <2> SUFFICES ASSUME NEW q \in stored \ {u} PROVE FALSE
    BY <1>1
  <2>1. /\ q \in Requests /\ req[q].pc # "idle" /\ req[q].on # Nothing
        /\ req[q].op # "upload" /\ ~(req[q].began < req[u].at)
    BY DEF BrandInv, BrandTypeOK, ImagesStored
  <2>2. req[q].op = "analyze" /\ req[q].saw.logo = Nothing
    BY <2>1 DEF BrandInv, BrandCalls, BrandOps
  <2>3. req[u].at <= req[q].began
    BY <2>1 DEF BrandInv, LogOK, IsRequest
  <2> QED BY <2>1, <2>2, <2>3 DEF BrandInv, UploadsSeen
<1>3. req[u].on = profile.logo /\ image[profile.logo] # Nothing
  BY <1>1, <1>2 DEF BrandInv, LogoStored, ImagesStored
<1>4. profile.logo \in ImageTypes
  BY <1>1, ProfileFacts DEF BrandInv, BrandTypeOK
<1>5. image[profile.logo] = u
  BY <1>2, <1>3, <1>4 DEF BrandInv, ImagesStored
<1> QED BY <1>1, <1>5 DEF Shown

\* The row and the images keep their types.
THEOREM BrandTypeCorrect == BrandSpec => []BrandTypeOK
<1>1. BrandInv => BrandTypeOK
  BY DEF BrandInv
<1> QED BY <1>1, BrandInvariance, PTL

\* A logo that somebody uploaded is served until another upload, or an analysis that
\* had looked before it (_try_download_logo keeps a logo that the row has).
THEOREM UploadsShow == BrandSpec => []UploadedLogoShows
<1>1. BrandInv => UploadedLogoShows
  <2> SUFFICES ASSUME BrandInv, NEW u \in Requests, Done(u, {"upload"}), Shown # u
               PROVE  \E q \in stored \ {u} : req[q].op = "upload" \/ req[q].began < req[u].at
    BY DEF UploadedLogoShows
  <2> QED BY UploadShows
<1> QED BY <1>1, BrandInvariance, PTL
=============================================================================
