------------------------------ MODULE Sessions ------------------------------
(***************************************************************************)
(* The sessions of one user: refresh-token families with rotation and      *)
(* reuse detection, access tokens bound to the user's token_version, and   *)
(* the operations that end sessions (AuthService, get_current_user).       *)
(*                                                                         *)
(* A refresh token and an access token are named by the request that       *)
(* issued them: each request issues at most one of each.                   *)
(*                                                                         *)
(* Atomicity.  A request reads through one REPEATABLE READ snapshot and    *)
(* later commits what it computed from it: absolute values for the rows it *)
(* loaded, nothing is locked or compared at the commit.  Between the two   *)
(* any other request may commit (an argon2 hash alone takes longer than a  *)
(* rotation).                                                              *)
(*                                                                         *)
(* Abstracted: other users (every query is by the user's id or by a token  *)
(* of the user), the account status (nothing takes it back from active),   *)
(* passwords, audit rows.  A refused request changes nothing and is no     *)
(* step; an expired token is one that is not presented any more.           *)
(***************************************************************************)
EXTENDS Integers, FiniteSets

CONSTANTS
  Requests,     \* API calls, each served by one session
  MaxInFlight   \* bound: requests between snapshot and commit

ASSUME SessionsConstants == MaxInFlight \in Nat

VARIABLES
  req,      \* req[r]   : what request r is doing, and its snapshot
  token,    \* token[r] : the refresh_tokens row that request r issued
  version,  \* users.token_version
  clock     \* commits so far

vars == <<req, token, version, clock>>

-----------------------------------------------------------------------------
(* The data.                                                               *)

Issuing == {"login", "rotate"}
Bumping == {"logout_all", "password"}
Ops == Issuing \cup Bumping \cup {"reuse", "logout"}

Reasons == {"rotated", "reuse_detected", "logout", "logout_all", "password_changed"}

\* parent = the token itself: the first of its family.
TokenRows == [state  : {"none", "live", "revoked"},
              reason : Reasons \cup {"none"},
              family : Requests,
              parent : Requests]

\* uses: the refresh token presented.  saw: the live tokens that the snapshot
\* showed and that the request is going to revoke.  version: users.token_version
\* in the snapshot, also the claim of the access token that the request issues.
\* began and at are the clock at the snapshot and at the commit.
ReqRows == [pc      : {"idle", "read", "done"},
            op      : Ops \cup {"none"},
            uses    : Requests,
            saw     : SUBSET Requests,
            version : Nat,
            began   : Nat,
            at      : Nat]

Done(r, ops) == req[r].pc = "done" /\ req[r].op \in ops
Live(t) == token[t].state = "live"
Issued == {t \in Requests : token[t].state # "none"}
Family(t) == {u \in Issued : token[u].family = token[t].family}

\* get_current_user on the access token that request a issued.
Accepted(a) == Done(a, Issuing) /\ req[a].version = version

-----------------------------------------------------------------------------
Init ==
  /\ req = [r \in Requests |-> [pc |-> "idle", op |-> "none", uses |-> r, saw |-> {},
                                version |-> 0, began |-> 0, at |-> 0]]
  /\ token = [r \in Requests |-> [state |-> "none", reason |-> "none",
                                  family |-> r, parent |-> r]]
  /\ version = 0
  /\ clock = 0

-----------------------------------------------------------------------------
(* The snapshot of each operation and its checks.                          *)

Reads(r, op, t, saw) ==
  /\ req[r].pc = "idle"
  /\ Cardinality({q \in Requests : req[q].pc = "read"}) < MaxInFlight
  /\ req' = [req EXCEPT ![r] = [pc |-> "read", op |-> op, uses |-> t, saw |-> saw,
                                version |-> version, began |-> clock, at |-> 0]]
  /\ UNCHANGED <<token, version, clock>>

LoginRead(r) == Reads(r, "login", r, {})

\* A variant of RefreshRead that does not look at revoked_at.
RefreshReadAny(r, t) == t \in Issued /\ Reads(r, "rotate", t, {})

RefreshRead(r, t) == Live(t) /\ Reads(r, "rotate", t, {})

\* A variant of ReuseRead that revokes nothing but the token presented.
ReuseReadSelf(r, t) ==
  /\ token[t].state = "revoked"
  /\ Reads(r, "reuse", t, {u \in {t} : Live(u)})

\* A revoked token is presented: every live token of its family is to go.
ReuseRead(r, t) ==
  /\ token[t].state = "revoked"
  /\ Reads(r, "reuse", t, {u \in Family(t) : Live(u)})

\* The user is authenticated by access token a.  Logging out a token that is
\* not live changes nothing.
LogoutRead(r, a, t) == Accepted(a) /\ Live(t) /\ Reads(r, "logout", t, {t})

LogoutAllRead(r, a) == Accepted(a) /\ Reads(r, "logout_all", r, {t \in Requests : Live(t)})

ChangePasswordRead(r, a) == Accepted(a) /\ Reads(r, "password", r, {t \in Requests : Live(t)})

\* Authenticated by an emailed code instead of an access token.
ResetPasswordRead(r) == Reads(r, "password", r, {t \in Requests : Live(t)})

-----------------------------------------------------------------------------
(* The commit.                                                             *)

Commits(r, ops) ==
  /\ req[r].pc = "read"
  /\ req[r].op \in ops
  /\ clock' = clock + 1
  /\ req' = [req EXCEPT ![r].pc = "done", ![r].at = clock + 1]

\* A variant of NewToken without the link to the old token.
NewTokenUnlinked(family, parent) ==
  [state |-> "live", reason |-> "none", family |-> family, parent |-> "none"]

NewToken(family, parent) ==
  [state |-> "live", reason |-> "none", family |-> family, parent |-> parent]

Revoked(t, reason) == [token[t] EXCEPT !.state = "revoked", !.reason = reason]

LoginCommitted(r) ==
  /\ Commits(r, {"login"})
  /\ token' = [token EXCEPT ![r] = NewToken(r, r)]
  /\ UNCHANGED version

\* A variant of RotateCommitted that forgets to revoke the old token.
RotateCommittedKeeping(r) ==
  LET t == req[r].uses IN
  /\ Commits(r, {"rotate"})
  /\ token' = [token EXCEPT ![r] = NewToken(token[t].family, t)]
  /\ UNCHANGED version

\* The old token is marked rotated, whatever has become of it since it was read.
RotateCommitted(r) ==
  LET t == req[r].uses IN
  /\ Commits(r, {"rotate"})
  /\ token' = [q \in Requests |-> CASE q = r -> NewToken(token[t].family, t)
                                    [] q = t /\ q # r -> Revoked(t, "rotated")
                                    [] OTHER -> token[q]]
  /\ UNCHANGED version

Revokes(r, reason) ==
  token' = [t \in Requests |-> IF t \in req[r].saw THEN Revoked(t, reason) ELSE token[t]]

ReuseCommitted(r) ==
  Commits(r, {"reuse"}) /\ Revokes(r, "reuse_detected") /\ UNCHANGED version

LogoutCommitted(r) ==
  Commits(r, {"logout"}) /\ Revokes(r, "logout") /\ UNCHANGED version

\* A variant of Bumps that leaves the version alone.
BumpsNothing(r) == req[r].pc = "read" /\ version' = version

\* token_version += 1 on the loaded row writes the snapshot's value plus one.
Bumps(r) == version' = req[r].version + 1

LogoutAllCommitted(r) ==
  Commits(r, {"logout_all"}) /\ Revokes(r, "logout_all") /\ Bumps(r)

PasswordCommitted(r) ==
  Commits(r, {"password"}) /\ Revokes(r, "password_changed") /\ Bumps(r)

-----------------------------------------------------------------------------
Read(r) ==
  \/ LoginRead(r)
  \/ \E t \in Requests : RefreshRead(r, t)
  \/ \E t \in Requests : ReuseRead(r, t)
  \/ \E a, t \in Requests : LogoutRead(r, a, t)
  \/ \E a \in Requests : LogoutAllRead(r, a)
  \/ \E a \in Requests : ChangePasswordRead(r, a)
  \/ ResetPasswordRead(r)

Commit(r) ==
  \/ LoginCommitted(r)
  \/ RotateCommitted(r)
  \/ ReuseCommitted(r)
  \/ LogoutCommitted(r)
  \/ LogoutAllCommitted(r)
  \/ PasswordCommitted(r)

Next == \E r \in Requests : Read(r) \/ Commit(r)

Spec == Init /\ [][Next]_vars
-----------------------------------------------------------------------------
(* Safety.                                                                 *)

TypeOK ==
  /\ req \in [Requests -> ReqRows]
  /\ token \in [Requests -> TokenRows]
  /\ version \in Nat
  /\ clock \in Nat

Siblings(t, u) == /\ t # u
                  /\ {t, u} \subseteq Issued
                  /\ token[t].parent = token[u].parent
                  /\ token[t].parent \notin {t, u}

Overlap(p, q) == req[p].began < req[q].at /\ req[q].began < req[p].at

\* Rotation is single-use: two refreshes with one token both succeed only if
\* each read before the other committed.
SiblingsOverlap ==
  \A t, u \in Requests : Siblings(t, u) => Overlap(t, u)

\* A family has at most one live token, unless one of its tokens was rotated
\* twice by overlapping refreshes.  Whatever else revokes tokens in between.
OneLivePerFamily ==
  \A t, u \in Requests :
    (t # u /\ Live(t) /\ Live(u) /\ token[t].family = token[u].family)
      => \E p, q \in Family(t) : Siblings(p, q)

\* What a committed request e has ended: the family whose token was reused, or
\* everything.
Ended(e) == IF req[e].op = "reuse" THEN Family(req[e].uses) ELSE Issued

\* Reuse detection, logout-all and password changes end every session there is:
\* what is still live was committed after their snapshot.
EndingsAreComplete ==
  \A e \in Requests : Done(e, Bumping \cup {"reuse"}) =>
    \A t \in Ended(e) : Live(t) => req[t].at > req[e].began

BumpsOverlap ==
  \E d, e \in Requests : d # e /\ Done(d, Bumping) /\ Done(e, Bumping) /\ Overlap(d, e)

\* Unless two bumps of token_version overlap, an access token is dead from the
\* first bump that commits after its issuer read the version, also one that was
\* issued by a login or a refresh overlapping the bump.
BumpsEndAccess ==
  ~BumpsOverlap =>
    \A a, e \in Requests :
      (Done(e, Bumping) /\ req[a].began < req[e].at) => ~Accepted(a)

-----------------------------------------------------------------------------
(* What the README says and the code does not do.                          *)

\* README.md:107: on password change and logout-all "all that user's refresh
\* tokens are revoked in the same operation": a session begun before the
\* operation is not alive after it.
NoSessionOutlivesBump ==
  \A e, t \in Requests :
    (Done(e, Bumping) /\ Live(t)) => req[token[t].family].at > req[e].began

\* README.md:107: "Every access token issued before the bump fails".
AccessEndsAtBump ==
  \A a, e \in Requests :
    (Done(e, Bumping) /\ Done(a, Issuing) /\ req[a].at <= req[e].began) => ~Accepted(a)
-----------------------------------------------------------------------------
(* The inductive invariant behind the safety properties.                   *)

Leaf(t) == \A u \in Issued : u # t => token[u].parent # t

\* Tokens form trees, one per family, whose inner tokens are revoked.
Lineage ==
  /\ \A r \in Requests : r \in Issued <=> Done(r, Issuing)
  /\ \A t \in Issued :
       /\ token[t].family \in Issued
       /\ token[t].parent \in Issued
       /\ token[token[t].parent].family = token[t].family
       /\ token[t].parent # t => token[token[t].parent].state = "revoked"

\* Time, and what a request in flight can rely on.
InFlight ==
  /\ \A r \in Requests :
       /\ req[r].pc = "read" => req[r].began <= clock
       /\ req[r].pc = "done" => req[r].began < req[r].at /\ req[r].at <= clock
       /\ (req[r].pc # "idle" /\ req[r].op \in {"rotate", "reuse"}) => req[r].uses \in Issued
       /\ req[r].saw \subseteq Issued
  \* The presented token had no successor in the snapshot.
  /\ \A r, u \in Requests :
       (/\ req[r].pc = "read"
        /\ req[r].op = "rotate"
        /\ u \in Issued
        /\ u # req[r].uses
        /\ token[u].parent = req[r].uses) => req[u].at > req[r].began
  \* What was live in the snapshot is going to be revoked.
  /\ \A e \in Requests : (req[e].pc = "read" /\ req[e].op \in Bumping \cup {"reuse"}) =>
       \A t \in Ended(e) : Live(t) => t \in req[e].saw \/ req[t].at > req[e].began

\* Two leaves of one family descend from a token that was rotated twice.
OneLeafPerFamily ==
  \A t, u \in Issued :
    (t # u /\ Leaf(t) /\ Leaf(u) /\ token[t].family = token[u].family)
      => \E p, q \in Family(t) : Siblings(p, q)

\* Without overlapping bumps the version grows with every bump, and a request
\* holds the current version exactly when no bump committed since it read.
VersionsGrow ==
  ~BumpsOverlap =>
    \A r \in Requests : req[r].pc # "idle" =>
      /\ req[r].version <= version
      /\ req[r].version = version
           <=> ~\E e \in Requests : Done(e, Bumping) /\ req[e].at > req[r].began

IInv ==
  /\ TypeOK
  /\ Lineage
  /\ InFlight
  /\ SiblingsOverlap
  /\ OneLeafPerFamily
  /\ EndingsAreComplete
  /\ VersionsGrow
=============================================================================
