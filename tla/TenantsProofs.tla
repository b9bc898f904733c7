---------------------------- MODULE TenantsProofs ----------------------------
(***************************************************************************)
(* Proofs about accounts and companies, for any sets of requests and       *)
(* users: one-time codes (OneTimeCodes), a company's row (CompanyApproval) *)
(* and members (CompanyMembers), what a user is told of their access       *)
(* (Access), and the four together (MCTenants).                            *)
(*                                                                         *)
(* The first three follow one pattern.  What the property says of a        *)
(* finished request is kept for requests in flight, too: what their        *)
(* snapshot showed still holds, unless another request has committed       *)
(* since.  That request is then the one that overlaps.                     *)
(***************************************************************************)
EXTENDS MCTenants, SnapshotsProofs, FiniteSetTheorems

-----------------------------------------------------------------------------
(* OneTimeCodes.  A code that was redeemed is marked as used and stays so; *)
(* a request in flight that found it unused began before the commit that   *)
(* marked it.  The bound on guesses counts: without overlaps, attempts is  *)
(* the number of wrong guesses.                                            *)

CodeOps == Issuers \cup Guesses \cup {"reset"}

CallsTyped ==
  \A r \in Requests : req[r].pc # "idle" =>
    /\ req[r].op \in CodeOps
    /\ req[r].op \in Guesses =>
         /\ req[r].on \in Requests /\ code[req[r].on].kind # "none"
         /\ req[r].saw \in CodeRows /\ req[r].saw.attempts < OtpMaxAttempts
    /\ req[r].op = "reset" => req[r].on \in Requests /\ resetToken[req[r].on] # "none"

\* Rows are inserted by the commit of their request.
RowsOfDone ==
  \A r \in Requests :
    /\ req[r].pc # "done" => code[r].kind = "none" /\ resetToken[r] = "none"
    /\ code[r].born <= clock
    /\ code[r].kind = "none" => ~code[r].used /\ code[r].attempts = 0

\* Code c has been redeemed by time t; token c has set a password.
RedeemedBy(c, t) == \E q \in Requests : Done(q, {"redeem"}) /\ req[q].on = c /\ req[q].at <= t

Spent ==
  /\ \A p \in Requests : Done(p, {"redeem"}) => code[req[p].on].used
  /\ \A p \in Requests : Done(p, {"reset"}) => resetToken[req[p].on] = "used"
  /\ \A c \in Requests : code[c].used => RedeemedBy(c, clock)

\* A secret that is about to be used was not used when the request looked.
UnusedThen ==
  \A r, p \in Requests :
    (/\ req[r].pc = "read" /\ req[p].on = req[r].on
     /\ \E op \in {"redeem", "reset"} : req[r].op = op /\ Done(p, {op})) => req[p].at > req[r].began

\* Codes that are newer than one a request redeems, or is about to.
NewerWereUsed ==
  \A r, d \in Requests :
    (/\ req[r].pc \in {"read", "done"} /\ req[r].op = "redeem"
     /\ code[d].kind = code[req[r].on].kind
     /\ code[d].born > code[req[r].on].born
     /\ code[d].born <= req[r].began) => RedeemedBy(d, req[r].began)

\* A guess at code c has committed since time t.
GuessedSince(c, t) == \E g \in GuessesOf(c) : req[g].at > t

AttemptsSeen ==
  \A r \in Requests : (req[r].pc = "read" /\ req[r].op \in Guesses) =>
    GuessedSince(req[r].on, req[r].began) \/ req[r].saw.attempts = code[req[r].on].attempts

MissesCounted ==
  \A c \in Requests :
    /\ IsFiniteSet(Misses(c))
    /\ ~GuessesOverlap(c) =>
         code[c].attempts = Cardinality(Misses(c)) /\ code[c].attempts <= OtpMaxAttempts

CodesInv ==
  /\ LogOK
  /\ account \in {"absent", "pending", "active"}
  /\ code \in [Requests -> CodeRows]
  /\ resetToken \in [Requests -> {"none", "live", "used"}]
  /\ CallsTyped /\ RowsOfDone /\ Spent /\ UnusedThen
  /\ SecretsAreSingleUse
  /\ NewerWereUsed
  /\ AttemptsSeen /\ MissesCounted

-----------------------------------------------------------------------------
\* A snapshot, and what the lookups of guesses and resets have found in it.
CodesSnapshot(r) ==
  /\ LogOK' /\ OnlyMoves(r) /\ clock' = clock /\ UNCHANGED codeVars
  /\ req[r].pc = "idle" /\ req'[r].pc = "read" /\ req'[r].began = clock
  /\ req'[r].op \in CodeOps
  /\ req'[r].op \in Guesses =>
       /\ req'[r].on \in Requests
       /\ req'[r].saw = code[req'[r].on]
       /\ Newest(code[req'[r].on].kind, req'[r].on)
       /\ code[req'[r].on].kind # "none"
       /\ code[req'[r].on].attempts < OtpMaxAttempts
  /\ req'[r].op = "reset" => req'[r].on \in Requests /\ resetToken[req'[r].on] = "live"

LEMMA CodesReads ==
  ASSUME LogOK, NEW r \in Requests, CodesRead(r) PROVE CodesSnapshot(r)
<1>1. ASSUME NEW op \in CodeOps, NEW on, NEW saw, Begins(r, op, on, saw)
      PROVE  /\ LogOK' /\ OnlyMoves(r) /\ clock' = clock /\ req[r].pc = "idle"
             /\ req'[r].pc = "read" /\ req'[r].began = clock
             /\ req'[r].op = op /\ req'[r].on = on /\ req'[r].saw = saw
  <2>1. /\ LogOK' /\ OnlyMoves(r) /\ clock' = clock /\ req[r] = NotBegun
        /\ req'[r] = [pc |-> "read", op |-> op, on |-> on, saw |-> saw,
                      began |-> clock, at |-> 0]
    BY <1>1, BeginsEffect
  <2> QED BY <2>1 DEF NotBegun
<1> USE DEF CodeOps, Issuers, Guesses
<1>2. CASE RegisterRead(r)
  BY <1>1, <1>2 DEF RegisterRead, CodesSnapshot
<1>3. CASE ResendRead(r)
  BY <1>1, <1>3 DEF ResendRead, CodesSnapshot
<1>4. CASE ForgotRead(r)
  BY <1>1, <1>4 DEF ForgotRead, CodesSnapshot
<1>5. ASSUME NEW kind \in Kinds, NEW c \in Requests, NEW op \in Guesses, GuessRead(r, kind, c, op)
      PROVE  CodesSnapshot(r)
  <2>1. code[c].kind = kind /\ kind # "none"
    BY <1>5 DEF GuessRead, Newest, Kinds
  <2> QED BY <1>1, <1>5, <2>1 DEF GuessRead, CodesSnapshot
<1>6. ASSUME NEW t \in Requests, ResetRead(r, t) PROVE CodesSnapshot(r)
  BY <1>1, <1>6 DEF ResetRead, CodesSnapshot
<1> QED BY <1>2, <1>3, <1>4, <1>5, <1>6 DEF CodesRead

\* A commit, or a refused registration, and what it does to each row.
CodesWrite(r) ==
  /\ LogOK' /\ OnlyMoves(r) /\ clock' \in {clock, clock + 1}
  /\ req[r].pc = "read" /\ req'[r].pc \in {"done", "failed"}
  /\ req'[r].op = req[r].op /\ req'[r].on = req[r].on /\ req'[r].saw = req[r].saw
  /\ req'[r].began = req[r].began /\ req[r].began <= clock
  /\ req'[r].pc = "done" => req'[r].at = clock + 1 /\ clock' = clock + 1
  /\ req'[r].pc = "failed" => req[r].op \in Issuers /\ UNCHANGED codeVars
  /\ account' \in {"absent", "pending", "active"}
  /\ code' \in [Requests -> CodeRows]
  /\ resetToken' \in [Requests -> {"none", "live", "used"}]
  /\ \A c \in Requests \ {r} :
       /\ code'[c].kind = code[c].kind /\ code'[c].born = code[c].born
       /\ code'[c].used <=> (code[c].used \/ (req[r].op = "redeem" /\ c = req[r].on))
       /\ code'[c].attempts = IF req[r].op = "miss" /\ c = req[r].on THEN req[r].saw.attempts + 1
                                                                    ELSE code[c].attempts
       /\ resetToken'[c] = IF req[r].op = "reset" /\ c = req[r].on THEN "used" ELSE resetToken[c]
  /\ \/ code'[r] = code[r]
     \/ /\ req'[r].pc = "done"
        /\ code'[r].kind # "none" /\ ~code'[r].used /\ code'[r].attempts = 0
        /\ code'[r].born = clock + 1
  /\ resetToken'[r] = "none" \/ (resetToken'[r] = "live" /\ req'[r].pc = "done")

\* What a request between its snapshot and its commit works on.
LEMMA WrittenCodes ==
  ASSUME CodesInv, NEW r \in Requests, req[r].pc = "read"
  PROVE  /\ code[r] \in CodeRows /\ code[r].kind = "none" /\ resetToken[r] = "none"
         /\ req[r].op \in Guesses =>
              /\ req[r].on \in Requests \ {r} /\ req[r].saw \in CodeRows
              /\ req[r].saw.attempts \in Nat
         /\ req[r].op = "reset" => req[r].on \in Requests \ {r}
         /\ \A c \in Requests : code[c] \in CodeRows
  BY DEF CodesInv, CallsTyped, RowsOfDone, CodeRows

LEMMA IssueWrites ==
  ASSUME CodesInv, NEW r \in Requests, NEW op \in Issuers, NEW kind \in Kinds,
         Commits(r, op), NewCode(r, kind), resetToken' = resetToken,
         account' \in {"absent", "pending", "active"}
  PROVE  CodesWrite(r)
<1>1. /\ LogOK' /\ OnlyMoves(r) /\ clock' = clock + 1
      /\ req[r].pc = "read" /\ req[r].op = op /\ req[r].began <= clock
      /\ req'[r] = [pc |-> "done", op |-> op, on |-> req[r].on, saw |-> req[r].saw,
                    began |-> req[r].began, at |-> clock + 1]
  BY CommitsEffect DEF CodesInv
<1> DEFINE row == [kind |-> kind, used |-> FALSE, attempts |-> 0, born |-> clock + 1]
<1>2. row \in CodeRows /\ row.kind # "none"
  BY DEF CodeRows, Kinds, CodesInv, LogOK
<1>3. ~row.used /\ row.attempts = 0 /\ row.born = clock + 1
  OBVIOUS
<1>4. code' = [code EXCEPT ![r] = row] /\ code \in [Requests -> CodeRows]
  BY DEF NewCode, CodesInv
<1> HIDE DEF row
<1>5. code' \in [Requests -> CodeRows] /\ code'[r] = row
      /\ \A c \in Requests \ {r} : code'[c] = code[c]
  BY <1>2, <1>4
<1>6. req[r].op \notin {"redeem", "miss", "reset"}
  BY <1>1 DEF Issuers
<1>7. resetToken[r] = "none" /\ resetToken \in [Requests -> {"none", "live", "used"}]
  BY <1>1, WrittenCodes DEF CodesInv
<1> QED BY <1>1, <1>2, <1>3, <1>5, <1>6, <1>7 DEF CodesWrite

LEMMA MissWrites ==
  ASSUME CodesInv, NEW r \in Requests, MissCommitted(r) PROVE CodesWrite(r)
<1>1. /\ LogOK' /\ OnlyMoves(r) /\ clock' = clock + 1
      /\ req[r].pc = "read" /\ req[r].op = "miss" /\ req[r].began <= clock
      /\ req'[r] = [pc |-> "done", op |-> "miss", on |-> req[r].on, saw |-> req[r].saw,
                    began |-> req[r].began, at |-> clock + 1]
  BY CommitsEffect DEF CodesInv, MissCommitted
<1> DEFINE c == req[r].on
           n == req[r].saw.attempts + 1
<1>2. /\ c \in Requests \ {r} /\ n \in Nat
      /\ code' = [code EXCEPT ![c].attempts = n] /\ code \in [Requests -> CodeRows]
      /\ account' = account /\ resetToken' = resetToken
      /\ account \in {"absent", "pending", "active"}
      /\ resetToken \in [Requests -> {"none", "live", "used"}] /\ resetToken[r] = "none"
  BY <1>1, WrittenCodes DEF MissCommitted, Guesses, CodesInv
<1> HIDE DEF c, n
<1>3. /\ \A d \in Requests \ {c} : code'[d] = code[d]
      /\ code'[c] \in CodeRows /\ code' \in [Requests -> CodeRows]
      /\ code'[c].kind = code[c].kind /\ code'[c].born = code[c].born
      /\ code'[c].used <=> code[c].used
      /\ code'[c].attempts = n
  BY <1>2 DEF CodeRows
<1> QED BY <1>1, <1>2, <1>3 DEF CodesWrite, c, n

LEMMA RedeemWrites ==
  ASSUME CodesInv, NEW r \in Requests, RedeemCommitted(r) PROVE CodesWrite(r)
<1>1. /\ LogOK' /\ OnlyMoves(r) /\ clock' = clock + 1
      /\ req[r].pc = "read" /\ req[r].op = "redeem" /\ req[r].began <= clock
      /\ req'[r] = [pc |-> "done", op |-> "redeem", on |-> req[r].on, saw |-> req[r].saw,
                    began |-> req[r].began, at |-> clock + 1]
  BY CommitsEffect DEF CodesInv, RedeemCommitted
<1> DEFINE c == req[r].on
<1>2. /\ c \in Requests \ {r}
      /\ code' = [code EXCEPT ![c].used = TRUE] /\ code \in [Requests -> CodeRows]
      /\ \/ account' = "active" /\ resetToken' = resetToken
         \/ account' = account /\ resetToken' = [resetToken EXCEPT ![r] = "live"]
      /\ account \in {"absent", "pending", "active"}
      /\ resetToken \in [Requests -> {"none", "live", "used"}] /\ resetToken[r] = "none"
  BY <1>1, WrittenCodes DEF RedeemCommitted, Guesses, CodesInv
<1> HIDE DEF c
<1>3. /\ \A d \in Requests \ {c} : code'[d] = code[d]
      /\ code'[c] \in CodeRows /\ code' \in [Requests -> CodeRows]
      /\ code'[c].kind = code[c].kind /\ code'[c].born = code[c].born
      /\ code'[c].used
      /\ code'[c].attempts = code[c].attempts
  BY <1>2 DEF CodeRows
<1>4. /\ resetToken' \in [Requests -> {"none", "live", "used"}]
      /\ resetToken'[r] \in {"none", "live"}
      /\ \A d \in Requests \ {r} : resetToken'[d] = resetToken[d]
      /\ account' \in {"absent", "pending", "active"}
  BY <1>2
<1> QED BY <1>1, <1>2, <1>3, <1>4 DEF CodesWrite, c

LEMMA ResetWrites ==
  ASSUME CodesInv, NEW r \in Requests, ResetCommitted(r) PROVE CodesWrite(r)
<1>1. /\ LogOK' /\ OnlyMoves(r) /\ clock' = clock + 1
      /\ req[r].pc = "read" /\ req[r].op = "reset" /\ req[r].began <= clock
      /\ req'[r] = [pc |-> "done", op |-> "reset", on |-> req[r].on, saw |-> req[r].saw,
                    began |-> req[r].began, at |-> clock + 1]
  BY CommitsEffect DEF CodesInv, ResetCommitted
<1>2. /\ req[r].on \in Requests \ {r}
      /\ resetToken' = [resetToken EXCEPT ![req[r].on] = "used"]
      /\ account' = account /\ code' = code
      /\ account \in {"absent", "pending", "active"} /\ code \in [Requests -> CodeRows]
      /\ resetToken \in [Requests -> {"none", "live", "used"}] /\ resetToken[r] = "none"
  BY <1>1, WrittenCodes DEF ResetCommitted, CodesInv
<1>3. /\ resetToken' \in [Requests -> {"none", "live", "used"}]
      /\ \A d \in Requests : resetToken'[d] = IF d = req[r].on THEN "used" ELSE resetToken[d]
  BY <1>2
<1> QED BY <1>1, <1>2, <1>3 DEF CodesWrite

LEMMA CodesWrites ==
  ASSUME CodesInv, NEW r \in Requests, CodesCommit(r) PROVE CodesWrite(r)
<1>1. CASE RegisterCommitted(r)
  BY <1>1, IssueWrites DEF RegisterCommitted, Issuers, Kinds
<1>2. CASE CodeSent(r, "resend", "email")
  BY <1>2, IssueWrites DEF CodeSent, Issuers, Kinds, CodesInv
<1>3. CASE CodeSent(r, "forgot", "reset")
  BY <1>3, IssueWrites DEF CodeSent, Issuers, Kinds, CodesInv
<1>4. CASE MissCommitted(r) BY <1>4, MissWrites
<1>5. CASE RedeemCommitted(r) BY <1>5, RedeemWrites
<1>6. CASE ResetCommitted(r) BY <1>6, ResetWrites
<1>7. CASE RegisterFailed(r)
  <2>1. /\ LogOK' /\ OnlyMoves(r) /\ clock' = clock
        /\ req[r].pc = "read" /\ req[r].op = "register"
        /\ req'[r] = [pc |-> "failed", op |-> "register", on |-> req[r].on, saw |-> req[r].saw,
                      began |-> req[r].began, at |-> clock]
    BY <1>7, FailsEffect DEF RegisterFailed, CodesInv
  <2>2. req[r].began <= clock
    BY <2>1 DEF CodesInv, LogOK, Timely
  <2>3. UNCHANGED codeVars /\ resetToken[r] = "none"
    BY <1>7, <2>1, WrittenCodes DEF RegisterFailed
  <2> QED BY <2>1, <2>2, <2>3 DEF CodesWrite, codeVars, Issuers, CodesInv
<1> QED BY <1>1, <1>2, <1>3, <1>4, <1>5, <1>6, <1>7 DEF CodesCommit

-----------------------------------------------------------------------------
\* What was redeemed, guessed and overlapped stays so.
LEMMA CodesHistory ==
  ASSUME LogOK, NEW r \in Requests, OnlyMoves(r), req[r].pc # "done"
  PROVE  /\ \A c, t : RedeemedBy(c, t) => RedeemedBy(c, t)'
         /\ \A c, t : GuessedSince(c, t) => GuessedSince(c, t)'
         /\ \A c : GuessesOf(c) \subseteq GuessesOf(c)'
         /\ \A c : GuessesOverlap(c) => GuessesOverlap(c)'
<1>1. \A q \in Requests : \A ops : Done(q, ops) => Done(q, ops)' /\ req'[q] = req[q]
  BY DoneStays
<1>2. \A c : \A g \in GuessesOf(c) : g \in Requests /\ g \in GuessesOf(c)' /\ req'[g] = req[g]
  BY <1>1 DEF GuessesOf
<1>3. \A c, t : RedeemedBy(c, t) => RedeemedBy(c, t)'
  BY <1>1 DEF RedeemedBy
<1>4. \A c, t : GuessedSince(c, t) => GuessedSince(c, t)'
  BY <1>2 DEF GuessedSince
<1>5. \A c : GuessesOverlap(c) => GuessesOverlap(c)'
  BY <1>2 DEF GuessesOverlap, Overlap
<1> QED BY <1>2, <1>3, <1>4, <1>5

LEMMA CodesReadKeeps ==
  ASSUME CodesInv, NEW r \in Requests, CodesSnapshot(r)
  PROVE  CodesInv'
<1>1. /\ LogOK /\ LogOK' /\ OnlyMoves(r) /\ clock' = clock /\ clock \in Nat
      /\ code' = code /\ resetToken' = resetToken /\ account' = account
      /\ req[r].pc = "idle" /\ req'[r].pc = "read" /\ req'[r].began = clock
  BY DEF CodesInv, CodesSnapshot, LogOK, codeVars
<1>2. \A q \in Requests : \A ops : /\ Done(q, ops)' <=> Done(q, ops)
                                   /\ Done(q, ops) => q # r /\ req'[q] = req[q]
  BY <1>1, ReadKeepsDone, DoneStays DEF Done
<1>3. \A q \in Requests \ {r} : req'[q] = req[q]
  BY <1>1 DEF OnlyMoves
<1>4. /\ \A c, t : RedeemedBy(c, t) => RedeemedBy(c, t)'
      /\ \A c, t : GuessedSince(c, t) => GuessedSince(c, t)'
      /\ \A c : GuessesOverlap(c) => GuessesOverlap(c)'
  BY <1>1, CodesHistory
<1>5. CallsTyped'
  BY <1>1, <1>3 DEF CodesInv, CodesSnapshot, CallsTyped, CodeRows
<1>6. RowsOfDone'
  BY <1>1, <1>3 DEF CodesInv, RowsOfDone
<1>7. Spent'
  BY <1>1, <1>2, <1>4 DEF CodesInv, Spent
<1>8. UnusedThen'
  <2> SUFFICES ASSUME NEW x \in Requests, NEW p \in Requests, req'[x].pc = "read",
                      req'[p].on = req'[x].on, NEW op \in {"redeem", "reset"},
                      req'[x].op = op, Done(p, {op})'
               PROVE  req'[p].at > req'[x].began
    BY DEF UnusedThen
  <2>1. Done(p, {op}) /\ p # r /\ req'[p] = req[p]
    BY <1>2
  <2>2. CASE x = r
    <3>1. op = "redeem" => code[req'[r].on].used /\ ~code[req'[r].on].used
      BY <2>1, <2>2 DEF CodesInv, Spent, CodesSnapshot, Newest, Guesses
    <3>2. op = "reset" => resetToken[req'[r].on] = "used" /\ resetToken[req'[r].on] = "live"
      BY <2>1, <2>2 DEF CodesInv, Spent, CodesSnapshot
    <3> QED BY <3>1, <3>2
  <2>3. CASE x # r
    BY <1>3, <2>1, <2>3 DEF CodesInv, UnusedThen
  <2> QED BY <2>2, <2>3
<1>9. SecretsAreSingleUse'
  BY <1>2 DEF CodesInv, SecretsAreSingleUse, Overlap
<1>10. NewerWereUsed'
  <2> SUFFICES ASSUME NEW x \in Requests, NEW d \in Requests,
                      req'[x].pc \in {"read", "done"}, req'[x].op = "redeem",
                      code[d].kind = code[req'[x].on].kind,
                      code[d].born > code[req'[x].on].born,
                      code[d].born <= req'[x].began
               PROVE  RedeemedBy(d, req[x].began)'
    BY <1>1 DEF NewerWereUsed
  <2>1. CASE x = r
    <3>1. req'[r].on \in Requests /\ Newest(code[req'[r].on].kind, req'[r].on)
      BY <2>1 DEF CodesSnapshot, Guesses
    <3>2. code[d].born \in Nat /\ code[req'[r].on].born \in Nat
      BY <3>1 DEF CodesInv, CodeRows
    <3>3. code[d].used
      BY <2>1, <3>1, <3>2 DEF Newest
    <3> QED BY <1>1, <1>4, <2>1, <3>3 DEF CodesInv, Spent
  <2>2. CASE x # r
    BY <1>3, <1>4, <2>2 DEF CodesInv, NewerWereUsed
  <2> QED BY <2>1, <2>2
<1>11. AttemptsSeen'
  <2> SUFFICES ASSUME NEW x \in Requests, req'[x].pc = "read", req'[x].op \in Guesses
               PROVE  \/ GuessedSince(req[x].on, req[x].began)'
                      \/ req'[x].saw.attempts = code[req'[x].on].attempts
    BY <1>1 DEF AttemptsSeen
  <2>1. CASE x = r BY <2>1 DEF CodesSnapshot
  <2>2. CASE x # r BY <1>3, <1>4, <2>2 DEF CodesInv, AttemptsSeen
  <2> QED BY <2>1, <2>2
<1>12. \A c \in Requests : Misses(c)' = Misses(c)
  BY <1>2 DEF Misses, GuessesOf
<1>13. MissesCounted'
  BY <1>1, <1>4, <1>12 DEF CodesInv, MissesCounted
<1> QED BY <1>1, <1>5, <1>6, <1>7, <1>8, <1>9, <1>10, <1>11, <1>13 DEF CodesInv

LEMMA CodesWriteKeeps ==
  ASSUME CodesInv, NEW r \in Requests, CodesWrite(r)
  PROVE  CodesInv'
<1>1. /\ LogOK /\ LogOK' /\ OnlyMoves(r) /\ clock \in Nat /\ clock' \in {clock, clock + 1}
      /\ req[r].pc = "read" /\ req'[r].pc \in {"done", "failed"}
      /\ req'[r].op = req[r].op /\ req'[r].on = req[r].on /\ req'[r].saw = req[r].saw
      /\ req'[r].began = req[r].began /\ req[r].began <= clock
      /\ req'[r].pc = "done" => req'[r].at = clock + 1 /\ clock' = clock + 1
      /\ req'[r].pc = "failed" => req[r].op \in Issuers /\ UNCHANGED codeVars
  BY DEF CodesInv, CodesWrite, LogOK
<1>2. \A q \in Requests : \A ops :
        /\ Done(q, ops) => Done(q, ops)' /\ req'[q] = req[q] /\ q # r
        /\ Done(q, ops)' => (q = r /\ req[r].op \in ops /\ req'[r].pc = "done") \/ Done(q, ops)
  BY <1>1, DoneStays DEF Done, OnlyMoves
<1>3. \A q \in Requests \ {r} : req'[q] = req[q]
  BY <1>1 DEF OnlyMoves
<1>4. /\ \A c, t : RedeemedBy(c, t) => RedeemedBy(c, t)'
      /\ \A c, t : GuessedSince(c, t) => GuessedSince(c, t)'
      /\ \A c : GuessesOverlap(c) => GuessesOverlap(c)'
  BY <1>1, CodesHistory
<1>5. \A q \in Requests : /\ req[q].began \in Nat /\ req[q].at \in Nat
                          /\ req[q].pc = "read" => req[q].began <= clock
                          /\ req[q].pc = "done" => req[q].began < req[q].at /\ req[q].at <= clock
  BY <1>1 DEF LogOK, IsRequest, Timely
<1>6. /\ code[r].kind = "none" /\ resetToken[r] = "none" /\ ~code[r].used /\ code[r].attempts = 0
      /\ req[r].op \in Guesses => req[r].on \in Requests \ {r} /\ req[r].saw.attempts \in Nat
      /\ req[r].op = "reset" => req[r].on \in Requests \ {r}
      /\ \A c \in Requests : code[c] \in CodeRows
  BY <1>1, WrittenCodes DEF CodesInv, RowsOfDone
<1>7. \A c \in Requests \ {r} :
       /\ code'[c].kind = code[c].kind /\ code'[c].born = code[c].born
       /\ code'[c].used <=> (code[c].used \/ (req[r].op = "redeem" /\ c = req[r].on))
       /\ code'[c].attempts = IF req[r].op = "miss" /\ c = req[r].on THEN req[r].saw.attempts + 1
                                                                    ELSE code[c].attempts
       /\ resetToken'[c] = IF req[r].op = "reset" /\ c = req[r].on THEN "used" ELSE resetToken[c]
  BY DEF CodesWrite
<1>8. /\ ~code'[r].used /\ code'[r].attempts = 0
      /\ \/ code'[r] = code[r]
         \/ req'[r].pc = "done" /\ code'[r].kind # "none" /\ code'[r].born = clock + 1
      /\ resetToken'[r] = "none" \/ (resetToken'[r] = "live" /\ req'[r].pc = "done")
  BY <1>6 DEF CodesWrite
<1>9. /\ account' \in {"absent", "pending", "active"}
      /\ code' \in [Requests -> CodeRows]
      /\ resetToken' \in [Requests -> {"none", "live", "used"}]
  BY DEF CodesWrite
<1>10. \A x \in Requests : (req[x].pc # "idle" /\ req[x].op \in Guesses) =>
         req[x].on \in Requests \ {r}
  BY <1>6 DEF CodesInv, CallsTyped
<1>11. \A x \in Requests : (req[x].pc # "idle" /\ req[x].op = "reset") =>
         req[x].on \in Requests \ {r} /\ resetToken[req[x].on] # "none"
  BY <1>6 DEF CodesInv, CallsTyped
<1>12. CallsTyped'
  <2> SUFFICES ASSUME NEW x \in Requests, req'[x].pc # "idle"
               PROVE  /\ req[x].op \in CodeOps
                      /\ req[x].op \in Guesses =>
                           /\ req[x].on \in Requests /\ code'[req[x].on].kind # "none"
                           /\ req[x].saw \in CodeRows /\ req[x].saw.attempts < OtpMaxAttempts
                      /\ req[x].op = "reset" =>
                           req[x].on \in Requests /\ resetToken'[req[x].on] # "none"
    BY <1>1, <1>3 DEF CallsTyped
  <2>1. req[x].pc # "idle"
    BY <1>1, <1>3
  <2>2. /\ req[x].op \in CodeOps
        /\ req[x].op \in Guesses =>
             /\ code[req[x].on].kind # "none"
             /\ req[x].saw \in CodeRows /\ req[x].saw.attempts < OtpMaxAttempts
    BY <2>1 DEF CodesInv, CallsTyped
  <2> QED BY <1>7, <1>10, <1>11, <2>1, <2>2
<1>13. RowsOfDone'
  <2> SUFFICES ASSUME NEW x \in Requests
               PROVE  /\ req'[x].pc # "done" => code'[x].kind = "none" /\ resetToken'[x] = "none"
                      /\ code'[x].born <= clock'
                      /\ code'[x].kind = "none" => ~code'[x].used /\ code'[x].attempts = 0
    BY DEF RowsOfDone
  <2>1. /\ req[x].pc # "done" => code[x].kind = "none" /\ resetToken[x] = "none"
        /\ code[x].born <= clock
        /\ code[x].kind = "none" => ~code[x].used /\ code[x].attempts = 0
        /\ code[x].born \in Nat
    BY <1>6 DEF CodesInv, RowsOfDone, CodeRows
  <2>2. CASE x = r BY <1>1, <1>6, <1>8, <2>1, <2>2
  <2>3. CASE x # r
    <3>1. code[x].kind = "none" => ~(req[r].op \in Guesses /\ req[r].on = x)
      BY <1>1 DEF CodesInv, CallsTyped
    <3>2. resetToken[x] = "none" => ~(req[r].op = "reset" /\ req[r].on = x)
      BY <1>1, <1>11
    <3> QED BY <1>1, <1>3, <1>7, <2>1, <2>3, <3>1, <3>2 DEF Guesses
  <2> QED BY <2>2, <2>3
<1>14. Spent'
  <2>1. ASSUME NEW p \in Requests, Done(p, {"redeem"})' PROVE code'[req'[p].on].used
    <3>1. CASE p = r
      BY <1>1, <1>6, <1>7, <2>1, <3>1 DEF Done, Guesses
    <3>2. CASE p # r
      <4>1. Done(p, {"redeem"}) /\ req'[p] = req[p] /\ code[req[p].on].used
        BY <1>2, <2>1, <3>2 DEF CodesInv, Spent
      <4>2. req[p].on \in Requests \ {r}
        BY <1>10, <4>1 DEF Done, Guesses
      <4> QED BY <1>7, <4>1, <4>2
    <3> QED BY <3>1, <3>2
  <2>2. ASSUME NEW p \in Requests, Done(p, {"reset"})' PROVE resetToken'[req'[p].on] = "used"
    <3>1. CASE p = r
      BY <1>1, <1>6, <1>7, <2>2, <3>1 DEF Done
    <3>2. CASE p # r
      <4>1. Done(p, {"reset"}) /\ req'[p] = req[p] /\ resetToken[req[p].on] = "used"
        BY <1>2, <2>2, <3>2 DEF CodesInv, Spent
      <4>2. req[p].on \in Requests \ {r}
        BY <1>11, <4>1 DEF Done
      <4> QED BY <1>7, <4>1, <4>2
    <3> QED BY <3>1, <3>2
  <2>3. ASSUME NEW c \in Requests, code'[c].used PROVE RedeemedBy(c, clock)'
    <3>1. c # r
      BY <1>8, <2>3
    <3>2. CASE code[c].used
      <4> PICK q \in Requests : Done(q, {"redeem"}) /\ req[q].on = c /\ req[q].at <= clock
        BY <3>2 DEF CodesInv, Spent, RedeemedBy
      <4>1. Done(q, {"redeem"})' /\ req'[q] = req[q]
        BY <1>2
      <4>2. req[q].at <= clock'
        BY <1>1, <1>5
      <4> QED BY <4>1, <4>2 DEF RedeemedBy
    <3>3. CASE req[r].op = "redeem" /\ c = req[r].on
      <4>1. req'[r].pc = "done"
        BY <1>1, <3>3 DEF Issuers
      <4>2. Done(r, {"redeem"})' /\ req'[r].on = c /\ req'[r].at <= clock'
        BY <1>1, <3>3, <4>1 DEF Done
      <4> QED BY <4>2 DEF RedeemedBy
    <3> QED BY <1>7, <2>3, <3>1, <3>2, <3>3
  <2> QED BY <2>1, <2>2, <2>3 DEF Spent
<1>15. UnusedThen'
  <2> SUFFICES ASSUME NEW x \in Requests, NEW p \in Requests, req'[x].pc = "read",
                      req'[p].on = req'[x].on, NEW op \in {"redeem", "reset"},
                      req'[x].op = op, Done(p, {op})'
               PROVE  req'[p].at > req'[x].began
    BY DEF UnusedThen
  <2>1. x # r /\ req'[x] = req[x]
    BY <1>1, <1>3
  <2>2. CASE p = r
    BY <1>1, <1>5, <2>1, <2>2 DEF Done
  <2>3. CASE p # r
    BY <1>2, <2>1, <2>3 DEF CodesInv, UnusedThen
  <2> QED BY <2>2, <2>3
<1>16. SecretsAreSingleUse'
  <2> SUFFICES ASSUME NEW p \in Requests, NEW q \in Requests, p # q,
                      req'[p].on = req'[q].on, NEW op \in {"redeem", "reset"},
                      Done(p, {op})', Done(q, {op})'
               PROVE  Overlap(p, q)'
    BY DEF SecretsAreSingleUse
  <2>1. ASSUME NEW x \in Requests, x # r, Done(r, {op})', Done(x, {op})', req'[x].on = req'[r].on
        PROVE  Overlap(x, r)' /\ Overlap(r, x)'
    <3>1. Done(x, {op}) /\ req'[x] = req[x] /\ req[r].op = op
      BY <1>1, <1>2, <2>1 DEF Done
    <3>2. req[x].at > req[r].began
      BY <1>1, <2>1, <3>1 DEF CodesInv, UnusedThen
    <3> QED BY <1>1, <1>5, <2>1, <3>1, <3>2 DEF Overlap, Done
  <2>2. CASE p # r /\ q # r
    BY <1>2, <2>2 DEF CodesInv, SecretsAreSingleUse, Overlap
  <2> QED BY <2>1, <2>2
<1>17. NewerWereUsed'
  <2> SUFFICES ASSUME NEW x \in Requests, NEW d \in Requests,
                      req'[x].pc \in {"read", "done"}, req'[x].op = "redeem",
                      code'[d].kind = code'[req'[x].on].kind,
                      code'[d].born > code'[req'[x].on].born,
                      code'[d].born <= req'[x].began
               PROVE  RedeemedBy(d, req[x].began)'
    BY DEF NewerWereUsed
  <2>1. /\ req'[x].on = req[x].on /\ req'[x].began = req[x].began /\ req[x].op = "redeem"
        /\ req[x].pc \in {"read", "done"}
    BY <1>1, <1>3
  <2>2. req[x].on \in Requests \ {r}
    BY <1>10, <2>1 DEF Guesses
  <2>3. req[x].began <= clock /\ req[x].began \in Nat
    BY <1>1, <1>5, <2>1
  <2>4. code'[d].kind = code[d].kind /\ code'[d].born = code[d].born
    BY <1>1, <1>7, <1>8, <2>1, <2>3
  <2>5. RedeemedBy(d, req[x].began)
    BY <1>7, <2>1, <2>2, <2>4 DEF CodesInv, NewerWereUsed
  <2> QED BY <1>4, <2>1, <2>5
<1>18. AttemptsSeen'
  <2> SUFFICES ASSUME NEW x \in Requests, req'[x].pc = "read", req'[x].op \in Guesses
               PROVE  \/ GuessedSince(req[x].on, req[x].began)'
                      \/ req'[x].saw.attempts = code'[req'[x].on].attempts
    BY DEF AttemptsSeen
  <2>1. x # r /\ req'[x] = req[x] /\ req[x].on \in Requests \ {r}
        /\ req[x].began \in Nat /\ req[x].began <= clock
    BY <1>1, <1>3, <1>5, <1>10
  <2>2. CASE req[r].op \in Guesses /\ req[r].on = req[x].on
    <3>1. req'[r].pc = "done"
      BY <1>1, <2>2 DEF Guesses, Issuers
    <3>2. r \in GuessesOf(req[x].on)' /\ req'[r].at > req[x].began
      BY <1>1, <2>1, <2>2, <3>1 DEF GuessesOf, Done
    <3> QED BY <2>1, <3>2 DEF GuessedSince
  <2>3. CASE ~(req[r].op \in Guesses /\ req[r].on = req[x].on)
    BY <1>4, <1>7, <2>1, <2>3 DEF CodesInv, AttemptsSeen, Guesses
  <2> QED BY <2>2, <2>3
<1>19. MissesCounted'
  <2> SUFFICES ASSUME NEW c \in Requests
               PROVE  /\ IsFiniteSet(Misses(c)')
                      /\ ~GuessesOverlap(c)' =>
                           /\ code'[c].attempts = Cardinality(Misses(c)')
                           /\ code'[c].attempts <= OtpMaxAttempts
    BY DEF MissesCounted
  <2>1. /\ IsFiniteSet(Misses(c))
        /\ ~GuessesOverlap(c) =>
             code[c].attempts = Cardinality(Misses(c)) /\ code[c].attempts <= OtpMaxAttempts
    BY DEF CodesInv, MissesCounted
  <2>2. CASE req[r].op = "miss" /\ req[r].on = c
    <3>1. req'[r].pc = "done" /\ c # r
      BY <1>1, <1>6, <2>2 DEF Guesses, Issuers
    <3>2. Misses(c)' = Misses(c) \cup {r} /\ r \notin Misses(c)
      <4>1. ASSUME NEW g \in Misses(c)' PROVE g \in Misses(c) \cup {r}
        BY <1>2, <1>3 DEF Misses, GuessesOf
      <4>2. Misses(c) \subseteq Misses(c)' /\ r \notin Misses(c)
        BY <1>2 DEF Misses, GuessesOf
      <4>3. r \in Misses(c)'
        BY <1>1, <2>2, <3>1 DEF Misses, GuessesOf, Done, Guesses
      <4> QED BY <4>1, <4>2, <4>3
    <3>3. IsFiniteSet(Misses(c)') /\ Cardinality(Misses(c)') = Cardinality(Misses(c)) + 1
      BY <2>1, <3>2, FS_AddElement
    <3>4. ASSUME ~GuessesOverlap(c)'
          PROVE  /\ code'[c].attempts = Cardinality(Misses(c)')
                 /\ code'[c].attempts <= OtpMaxAttempts
      <4>1. ~GuessedSince(c, req[r].began)
        <5> SUFFICES ASSUME NEW g \in GuessesOf(c), req[g].at > req[r].began PROVE FALSE
          BY DEF GuessedSince
        <5>1. /\ g \in Requests /\ Done(g, Guesses) /\ req[g].on = c
          BY DEF GuessesOf
        <5>2. g # r /\ req'[g] = req[g] /\ Done(g, Guesses)'
          BY <1>2, <5>1
        <5>3. g \in GuessesOf(c)' /\ r \in GuessesOf(c)'
          BY <1>1, <2>2, <3>1, <5>1, <5>2 DEF GuessesOf, Done, Guesses
        <5>4. Overlap(g, r)'
          BY <1>1, <1>5, <3>1, <5>1, <5>2 DEF Overlap, Done
        <5> QED BY <3>4, <5>2, <5>3, <5>4 DEF GuessesOverlap
      <4>2. req[r].saw.attempts = code[c].attempts
        BY <1>1, <2>2, <4>1 DEF CodesInv, AttemptsSeen, Guesses
      <4>3. req[r].saw.attempts < OtpMaxAttempts /\ req[r].saw.attempts \in Nat
        BY <1>1, <1>6, <2>2 DEF CodesInv, CallsTyped, Guesses
      <4>4. ~GuessesOverlap(c)
        BY <1>4, <3>4
      <4> QED BY <1>7, <2>1, <2>2, <3>1, <3>3, <4>2, <4>3, <4>4, CodesConstants
    <3> QED BY <3>3, <3>4
  <2>3. CASE ~(req[r].op = "miss" /\ req[r].on = c)
    <3>1. Misses(c)' = Misses(c)
      BY <1>1, <1>2, <1>3, <2>3 DEF Misses, GuessesOf
    <3>2. code'[c].attempts = code[c].attempts
      BY <1>6, <1>7, <1>8, <2>3
    <3> QED BY <1>4, <2>1, <3>1, <3>2
  <2> QED BY <2>2, <2>3
<1> QED BY <1>1, <1>9, <1>12, <1>13, <1>14, <1>15, <1>16, <1>17, <1>18, <1>19 DEF CodesInv

LEMMA CodesInit ==
  ASSUME ReqInit, CodesDB PROVE CodesInv
<1>1. LogOK /\ \A r \in Requests : req[r].pc = "idle"
  BY LogInit DEF ReqInit, NotBegun
<1>2. \A c \in Requests : Misses(c) = {}
  BY <1>1 DEF Misses, GuessesOf, Done
<1>3. \A c \in Requests : code[c] = NoCode /\ resetToken[c] = "none"
  BY DEF CodesDB
<1>4. NoCode \in CodeRows
  BY DEF NoCode, CodeRows
<1>5. code \in [Requests -> CodeRows] /\ resetToken \in [Requests -> {"none", "live", "used"}]
  BY <1>4 DEF CodesDB
<1>6. clock = 0 /\ account = "absent"
  BY DEF ReqInit, CodesDB
<1>7. MissesCounted
  BY <1>2, <1>3, FS_EmptySet, CodesConstants DEF MissesCounted, NoCode
<1>8. CallsTyped /\ RowsOfDone /\ Spent
  BY <1>1, <1>3, <1>6 DEF CallsTyped, RowsOfDone, Spent, Done, NoCode
<1>9. UnusedThen /\ SecretsAreSingleUse /\ NewerWereUsed /\ AttemptsSeen
  BY <1>1 DEF UnusedThen, SecretsAreSingleUse, NewerWereUsed, AttemptsSeen, Done
<1> QED BY <1>1, <1>5, <1>6, <1>7, <1>8, <1>9 DEF CodesInv

LEMMA CodesStutter ==
  ASSUME CodesInv, UNCHANGED <<reqVars, codeVars>> PROVE CodesInv'
<1>1. LogOK'
  BY LogStutters DEF CodesInv
<1>2. /\ req' = req /\ clock' = clock
      /\ account' = account /\ code' = code /\ resetToken' = resetToken
  BY DEF reqVars, codeVars
<1>3. \A c, t : (RedeemedBy(c, t) <=> RedeemedBy(c, t)') /\ (GuessedSince(c, t) <=> GuessedSince(c, t)')
  BY <1>2 DEF RedeemedBy, GuessedSince, GuessesOf, Done
<1>4. \A c : Misses(c)' = Misses(c) /\ (GuessesOverlap(c)' <=> GuessesOverlap(c))
  BY <1>2 DEF Misses, GuessesOverlap, GuessesOf, Done, Overlap
<1>5. CallsTyped' /\ RowsOfDone' /\ UnusedThen' /\ SecretsAreSingleUse'
  BY <1>2 DEF CodesInv, CallsTyped, RowsOfDone, UnusedThen, SecretsAreSingleUse, Overlap, Done
<1>6. Spent' /\ NewerWereUsed' /\ AttemptsSeen'
  BY <1>2, <1>3 DEF CodesInv, Spent, NewerWereUsed, AttemptsSeen, Done
<1>7. MissesCounted'
  BY <1>2, <1>4 DEF CodesInv, MissesCounted
<1> QED BY <1>1, <1>2, <1>5, <1>6, <1>7 DEF CodesInv

\* Every step keeps the invariant.
LEMMA CodesSteps ==
  ASSUME CodesInv, [CodesNext]_<<reqVars, codeVars>> PROVE CodesInv'
<1>1. ASSUME NEW r \in Requests, CodesRead(r) PROVE CodesInv'
  BY <1>1, CodesReads, CodesReadKeeps DEF CodesInv
<1>2. ASSUME NEW r \in Requests, CodesCommit(r) PROVE CodesInv'
  BY <1>2, CodesWrites, CodesWriteKeeps
<1>3. CASE UNCHANGED <<reqVars, codeVars>>
  BY <1>3, CodesStutter
<1> QED BY <1>1, <1>2, <1>3 DEF CodesNext

LEMMA CodesInvariance == CodesSpec => []CodesInv
<1>1. ReqInit /\ CodesDB => CodesInv
  BY CodesInit
<1>2. CodesInv /\ [CodesNext]_<<reqVars, codeVars>> => CodesInv'
  BY CodesSteps
<1> QED BY <1>1, <1>2, PTL DEF CodesSpec

-----------------------------------------------------------------------------
\* The account, its codes and its reset tokens keep their types.
THEOREM CodesTypeCorrect == CodesSpec => []CodesTypeOK
<1>1. CodesInv => CodesTypeOK
  BY DEF CodesInv, CodesTypeOK
<1> QED BY <1>1, CodesInvariance, PTL

\* Two requests that both redeem a code, or both reset with a token, overlap
\* (verify_email, verify_reset_otp and reset_password check it and mark it
\* used without a lock).
THEOREM SecondUseOverlaps == CodesSpec => []SecretsAreSingleUse
<1>1. CodesInv => SecretsAreSingleUse
  BY DEF CodesInv
<1> QED BY <1>1, CodesInvariance, PTL

\* otp_max_attempts bounds the wrong guesses at a code that nobody guesses at
\* concurrently, whatever the limit is.
THEOREM GuessesAreBounded == CodesSpec => []GuessesBounded
<1>1. CodesInv => GuessesBounded
  BY DEF CodesInv, MissesCounted, GuessesBounded
<1> QED BY <1>1, CodesInvariance, PTL

\* Whoever redeems a code had no newer one of the same kind to redeem: the
\* newer ones had been used before.
THEOREM OlderCodeNeedsTheNewerUsed == CodesSpec => []NewCodeReplacesOld
<1>1. CodesInv => NewCodeReplacesOld
  BY DEF CodesInv, NewerWereUsed, RedeemedBy, NewCodeReplacesOld, Done
<1> QED BY <1>1, CodesInvariance, PTL

-----------------------------------------------------------------------------
(* CompanyApproval.                                                        *)

AllOps == Deciding \cup {"advance"}
Judging == Deciding \ {"delete"}

RequestsTyped ==
  \A r \in Requests : req[r].pc # "idle" =>
    /\ req[r].op \in AllOps
    /\ req[r].saw \in CompanyRows
    /\ req[r].op = "advance" => req[r].on \in Steps

\* The row tells one story.
OneStory ==
  /\ company.status = "active" => company.approvedBy # Nothing /\ company.rejectedBy = Nothing
  /\ company.status = "rejected" => company.rejectedBy # Nothing /\ company.approvedBy = Nothing
  /\ company.status = "pending_approval" => company.approvedBy = Nothing /\ company.rejectedBy = Nothing

\* Someone has judged the company since time t.
JudgedSince(t) == \E q \in Requests : Done(q, Judging) /\ req[q].at > t

\* Another request has committed an onboarding step since time t.
SteppedSince(t) == \E q \in Requests : Done(q, {"advance"}) /\ req[q].at > t

Outpaced(p) == \E q \in Requests : q # p /\ Done(q, {"advance"}) /\ Overlap(p, q)

\* What snapshots of requests in flight still say of the row.
JudgementCurrent ==
  \A r \in Requests : req[r].pc = "read" =>
    \/ JudgedSince(req[r].began)
    \/ /\ req[r].saw.status = company.status
       /\ req[r].saw.approvedBy = company.approvedBy
       /\ req[r].saw.rejectedBy = company.rejectedBy

JudgesLooked ==
  \A r \in Requests : (req[r].pc = "read" /\ req[r].op = "reject") =>
    req[r].saw.status = "pending_approval"

StepsKeptInFlight ==
  \A r \in Requests : (req[r].pc = "read" /\ req[r].op = "advance") =>
    /\ company.step >= req[r].saw.step \/ SteppedSince(req[r].began)
    /\ \A p \in Requests : (Done(p, {"advance"}) /\ req[p].at <= req[r].began) =>
         req[r].saw.step >= req[p].on \/ Outpaced(p)

CompanyInv ==
  /\ LogOK
  /\ company \in CompanyRows
  /\ RequestsTyped
  /\ DecisionIsWhole /\ JudgementCurrent /\ JudgesLooked
  /\ OnboardingKeepsSteps /\ StepsKeptInFlight

-----------------------------------------------------------------------------
\* A snapshot leaves the row alone and shows it as it is.
CompanyRead(r) ==
  /\ LogOK' /\ OnlyMoves(r) /\ company' = company
  /\ req[r].pc = "idle"
  /\ req'[r].pc = "read" /\ req'[r].saw = company /\ req'[r].began = clock
  /\ req'[r].op \in AllOps
  /\ req'[r].op = "advance" => req'[r].on \in Steps
  /\ req'[r].op = "reject" => company.status = "pending_approval"

LEMMA CompanyReads ==
  ASSUME LogOK, NEW r \in Requests,
         \/ \E op \in Deciding : DecisionRead(r, op)
         \/ \E step \in AskedSteps : StepRead(r, step)
  PROVE  CompanyRead(r)
<1>1. ASSUME NEW op \in Deciding, DecisionRead(r, op) PROVE CompanyRead(r)
  <2>1. /\ LogOK' /\ OnlyMoves(r) /\ req[r] = NotBegun
        /\ req'[r] = [pc |-> "read", op |-> op, on |-> Nothing, saw |-> company,
                      began |-> clock, at |-> 0]
    BY <1>1, BeginsEffect DEF DecisionRead
  <2> QED BY <1>1, <2>1 DEF CompanyRead, DecisionRead, NotBegun, AllOps, Deciding
<1>2. ASSUME NEW step \in AskedSteps, StepRead(r, step) PROVE CompanyRead(r)
  <2>1. /\ LogOK' /\ OnlyMoves(r) /\ req[r] = NotBegun
        /\ req'[r] = [pc |-> "read", op |-> "advance", on |-> step, saw |-> company,
                      began |-> clock, at |-> 0]
    BY <1>2, BeginsEffect DEF StepRead
  <2> QED BY <1>2, <2>1, CompanyConstants DEF CompanyRead, StepRead, NotBegun, AllOps
<1> QED BY <1>1, <1>2

\* A commit sends the columns of its decision, or the step it asked for.
CompanyWrite(r) ==
  /\ LogOK' /\ OnlyMoves(r) /\ clock' = clock + 1
  /\ req[r].pc = "read" /\ req'[r].pc = "done"
  /\ req'[r].op = req[r].op /\ req'[r].on = req[r].on /\ req'[r].saw = req[r].saw
  /\ req'[r].began = req[r].began /\ req[r].began <= clock /\ req'[r].at = clock + 1
  /\ req[r].op \in AllOps
  /\ company' = Merged(req[r].saw, New(r))

LEMMA CompanyWrites ==
  ASSUME LogOK, NEW r \in Requests, NEW op \in AllOps, RowCommitted(r, op)
  PROVE  CompanyWrite(r)
<1>1. /\ LogOK' /\ OnlyMoves(r) /\ clock' = clock + 1
      /\ req[r].pc = "read" /\ req[r].op = op /\ req[r].began <= clock
      /\ req'[r] = [pc |-> "done", op |-> op, on |-> req[r].on, saw |-> req[r].saw,
                    began |-> req[r].began, at |-> clock + 1]
  BY CommitsEffect DEF RowCommitted
<1> QED BY <1>1 DEF CompanyWrite, RowCommitted

\* What has been judged, stepped and outpaced stays so.
LEMMA CompanyHistory ==
  ASSUME LogOK, NEW r \in Requests, OnlyMoves(r), req[r].pc # "done"
  PROVE  /\ \A t \in Nat : JudgedSince(t) => JudgedSince(t)'
         /\ \A t \in Nat : SteppedSince(t) => SteppedSince(t)'
         /\ \A p \in Requests : (Done(p, {"advance"}) /\ Outpaced(p)) => Outpaced(p)'
         /\ DecisionsOverlap => DecisionsOverlap'
<1>1. \A q \in Requests : \A ops : Done(q, ops) => Done(q, ops)' /\ req'[q] = req[q]
  BY DoneStays
<1>2. \A t \in Nat : JudgedSince(t) => JudgedSince(t)'
  BY <1>1 DEF JudgedSince
<1>3. \A t \in Nat : SteppedSince(t) => SteppedSince(t)'
  BY <1>1 DEF SteppedSince
<1>4. \A p \in Requests : (Done(p, {"advance"}) /\ Outpaced(p)) => Outpaced(p)'
  BY <1>1 DEF Outpaced, Overlap
<1>5. DecisionsOverlap => DecisionsOverlap'
  BY <1>1 DEF DecisionsOverlap, Overlap
<1> QED BY <1>2, <1>3, <1>4, <1>5

LEMMA CompanyReadKeeps ==
  ASSUME CompanyInv, NEW r \in Requests, CompanyRead(r)
  PROVE  CompanyInv'
<1>1. /\ LogOK /\ LogOK' /\ OnlyMoves(r) /\ company' = company /\ clock \in Nat
      /\ req[r].pc = "idle" /\ req'[r].pc = "read" /\ req'[r].saw = company
      /\ req'[r].began = clock
  BY DEF CompanyInv, CompanyRead, LogOK
<1>2. \A q \in Requests : \A ops : /\ Done(q, ops)' <=> Done(q, ops)
                                   /\ Done(q, ops) => q # r /\ req'[q] = req[q]
  BY <1>1, ReadKeepsDone, DoneStays DEF Done
<1>3. /\ \A t \in Nat : JudgedSince(t) => JudgedSince(t)'
      /\ \A t \in Nat : SteppedSince(t) => SteppedSince(t)'
      /\ \A p \in Requests : (Done(p, {"advance"}) /\ Outpaced(p)) => Outpaced(p)'
      /\ DecisionsOverlap => DecisionsOverlap'
  BY <1>1, CompanyHistory
<1>4. \A q \in Requests \ {r} : req'[q] = req[q]
  BY <1>1 DEF OnlyMoves
<1>5. \A q \in Requests : req[q].began \in Nat /\ req[q].at \in Nat
  BY <1>1 DEF LogOK, IsRequest
<1>6. company' \in CompanyRows
  BY <1>1 DEF CompanyInv
<1>7. RequestsTyped'
  BY <1>4 DEF CompanyInv, CompanyRead, RequestsTyped
<1>8. DecisionIsWhole'
  BY <1>1, <1>3 DEF CompanyInv, DecisionIsWhole
<1>9. JudgementCurrent'
  BY <1>1, <1>3, <1>4, <1>5 DEF CompanyInv, JudgementCurrent
<1>10. JudgesLooked'
  BY <1>4 DEF CompanyInv, CompanyRead, JudgesLooked
<1>11. OnboardingKeepsSteps'
  <2> SUFFICES ASSUME NEW p \in Requests, Done(p, {"advance"})'
               PROVE  company'.step >= req'[p].on \/ Outpaced(p)'
    BY DEF OnboardingKeepsSteps, Outpaced
  <2> QED BY <1>1, <1>2, <1>3 DEF CompanyInv, OnboardingKeepsSteps, Outpaced
<1>12. StepsKeptInFlight'
  <2> SUFFICES ASSUME NEW x \in Requests, req'[x].pc = "read", req'[x].op = "advance"
               PROVE  /\ company'.step >= req'[x].saw.step \/ SteppedSince(req[x].began)'
                      /\ \A p \in Requests : (Done(p, {"advance"})' /\ req'[p].at <= req'[x].began) =>
                           req'[x].saw.step >= req'[p].on \/ Outpaced(p)'
    BY DEF StepsKeptInFlight
  <2>1. CASE x = r
    <3>1. \A p \in Requests : Done(p, {"advance"})' => company.step >= req'[p].on \/ Outpaced(p)'
      BY <1>1, <1>11 DEF OnboardingKeepsSteps, Outpaced
    <3>2. company.step \in Nat
      BY DEF CompanyInv, CompanyRows, Steps
    <3> QED BY <1>1, <2>1, <3>1, <3>2
  <2>2. CASE x # r
    BY <1>1, <1>2, <1>3, <1>4, <1>5, <2>2 DEF CompanyInv, StepsKeptInFlight
  <2> QED BY <2>1, <2>2
<1> QED BY <1>1, <1>6, <1>7, <1>8, <1>9, <1>10, <1>11, <1>12 DEF CompanyInv

\* What each operation makes of the row.
LEMMA NewIs ==
  ASSUME NEW r \in Requests
  PROVE  /\ req[r].op = "approve" => New(r) = Approval(r, req[r].saw)
         /\ req[r].op = "reject" => New(r) = Rejection(r, req[r].saw)
         /\ req[r].op = "suspend" => New(r) = Suspension(req[r].saw)
         /\ req[r].op = "delete" => New(r) = Deletion(req[r].saw)
         /\ req[r].op = "advance" => New(r) = Advance(req[r].on, req[r].saw)
<1>1. CASE req[r].op = "approve" BY <1>1 DEF New
<1>2. CASE req[r].op = "reject" BY <1>2 DEF New
<1>3. CASE req[r].op = "suspend" BY <1>3 DEF New
<1>4. CASE req[r].op = "delete" BY <1>4 DEF New
<1>5. CASE req[r].op = "advance" BY <1>5 DEF New
<1> QED BY <1>1, <1>2, <1>3, <1>4, <1>5

LEMMA CompanyWriteKeeps ==
  ASSUME CompanyInv, NEW r \in Requests, CompanyWrite(r)
  PROVE  CompanyInv'
<1> DEFINE saw == req[r].saw
<1>1. /\ LogOK /\ LogOK' /\ OnlyMoves(r) /\ clock \in Nat /\ clock' = clock + 1
      /\ req[r].pc = "read" /\ req'[r].pc = "done" /\ req'[r].op = req[r].op
      /\ req'[r].on = req[r].on /\ req'[r].saw = req[r].saw
      /\ req'[r].began = req[r].began /\ req[r].began <= clock /\ req'[r].at = clock + 1
      /\ req[r].op \in AllOps
      /\ company \in CompanyRows /\ saw \in CompanyRows
      /\ req[r].op = "advance" => req[r].on \in Steps
  BY DEF CompanyInv, CompanyWrite, LogOK, RequestsTyped
<1>2. \A q \in Requests : \A ops :
        /\ Done(q, ops) => Done(q, ops)' /\ req'[q] = req[q] /\ q # r
        /\ Done(q, ops)' => (q = r /\ req[r].op \in ops) \/ Done(q, ops)
  BY <1>1, DoneStays DEF Done, OnlyMoves
<1>3. /\ \A t \in Nat : JudgedSince(t) => JudgedSince(t)'
      /\ \A t \in Nat : SteppedSince(t) => SteppedSince(t)'
      /\ \A p \in Requests : (Done(p, {"advance"}) /\ Outpaced(p)) => Outpaced(p)'
      /\ DecisionsOverlap => DecisionsOverlap'
  BY <1>1, CompanyHistory
<1>4. \A q \in Requests \ {r} : req'[q] = req[q]
  BY <1>1 DEF OnlyMoves
<1>5. \A q \in Requests : /\ req[q].began \in Nat /\ req[q].at \in Nat
                          /\ req[q].pc = "read" => req[q].began <= clock
                          /\ req[q].pc = "done" => req[q].began < req[q].at /\ req[q].at <= clock
  BY <1>1 DEF LogOK, IsRequest, Timely
<1>6. /\ company' = [status     |-> Column(company.status, saw.status, New(r).status),
                     approvedBy |-> Column(company.approvedBy, saw.approvedBy, New(r).approvedBy),
                     rejectedBy |-> Column(company.rejectedBy, saw.rejectedBy, New(r).rejectedBy),
                     step       |-> Column(company.step, saw.step, New(r).step),
                     deleted    |-> Column(company.deleted, saw.deleted, New(r).deleted)]
  BY DEF CompanyWrite, Merged
<1>7. New(r) \in CompanyRows
  <2>1. CASE req[r].op = "approve"
    BY <1>1, <2>1, NewIs DEF Approval, CompanyRows, Statuses
  <2>2. CASE req[r].op = "reject"
    BY <1>1, <2>2, NewIs DEF Rejection, CompanyRows, Statuses
  <2>3. CASE req[r].op = "suspend"
    BY <1>1, <2>3, NewIs DEF Suspension, CompanyRows, Statuses
  <2>4. CASE req[r].op = "delete"
    <3>1. New(r) = [status |-> saw.status, approvedBy |-> saw.approvedBy,
                    rejectedBy |-> saw.rejectedBy, step |-> saw.step, deleted |-> TRUE]
      BY <2>4, NewIs DEF Deletion
    <3>2. /\ saw.status \in Statuses /\ saw.step \in Steps
          /\ saw.approvedBy \in Requests \cup {Nothing}
          /\ saw.rejectedBy \in Requests \cup {Nothing}
      BY <1>1 DEF CompanyRows
    <3> HIDE DEF saw
    <3> QED BY <3>1, <3>2 DEF CompanyRows
  <2>5. CASE req[r].op = "advance"
    BY <1>1, <2>5, NewIs DEF Advance, CompanyRows
  <2> QED BY <1>1, <2>1, <2>2, <2>3, <2>4, <2>5 DEF AllOps, Deciding
<1>8. company' \in CompanyRows
  BY <1>1, <1>6, <1>7 DEF CompanyRows, Column
<1>9. RequestsTyped'
  BY <1>1, <1>4 DEF CompanyInv, RequestsTyped
<1>10. JudgesLooked'
  BY <1>1, <1>4 DEF CompanyInv, JudgesLooked
<1>11. req[r].op \notin Judging =>
         /\ company'.status = company.status
         /\ company'.approvedBy = company.approvedBy
         /\ company'.rejectedBy = company.rejectedBy
  BY <1>1, <1>6, NewIs DEF AllOps, Judging, Deciding, Deletion, Advance, Column
<1>12. req[r].op \in Judging => Done(r, Judging)'
  BY <1>1 DEF Done
<1>13. JudgementCurrent'
  <2> SUFFICES ASSUME NEW x \in Requests, req'[x].pc = "read"
               PROVE  \/ JudgedSince(req[x].began)'
                      \/ /\ req'[x].saw.status = company'.status
                         /\ req'[x].saw.approvedBy = company'.approvedBy
                         /\ req'[x].saw.rejectedBy = company'.rejectedBy
    BY DEF JudgementCurrent
  <2>1. x # r /\ req'[x] = req[x] /\ req[x].pc = "read"
    BY <1>1, <1>4
  <2>2. CASE req[r].op \in Judging
    BY <1>1, <1>5, <1>12, <2>1, <2>2 DEF JudgedSince
  <2>3. CASE req[r].op \notin Judging
    BY <1>3, <1>5, <1>11, <2>1, <2>3 DEF CompanyInv, JudgementCurrent
  <2> QED BY <2>2, <2>3
<1>14. DecisionIsWhole'
  <2> SUFFICES ASSUME ~DecisionsOverlap' PROVE OneStory'
    BY DEF DecisionIsWhole, OneStory
  <2>1. OneStory
    BY <1>3 DEF CompanyInv, DecisionIsWhole, OneStory
  <2>2. CASE req[r].op \notin Judging
    BY <1>11, <2>1, <2>2 DEF OneStory
  <2>3. CASE req[r].op \in Judging
    <3>1. ~JudgedSince(req[r].began)
      <4> SUFFICES ASSUME NEW q \in Requests, Done(q, Judging), req[q].at > req[r].began
                   PROVE  FALSE
        BY DEF JudgedSince
      <4>1. Done(q, Judging)' /\ Done(r, Judging)' /\ q # r /\ req'[q] = req[q]
        BY <1>2, <1>12, <2>3
      <4>2. Overlap(q, r)'
        BY <1>1, <1>5, <4>1 DEF Overlap, Done
      <4> QED BY <4>1, <4>2 DEF DecisionsOverlap, Judging
    <3>2. /\ saw.status = company.status
          /\ saw.approvedBy = company.approvedBy
          /\ saw.rejectedBy = company.rejectedBy
      BY <1>1, <3>1 DEF CompanyInv, JudgementCurrent
    <3>3. /\ company'.status = New(r).status
          /\ company'.approvedBy = New(r).approvedBy
          /\ company'.rejectedBy = New(r).rejectedBy
      BY <1>6, <3>2 DEF Column
    <3>4. r # Nothing
      BY SnapshotsConstants
    <3>5. CASE req[r].op = "approve"
      BY <3>3, <3>4, <3>5, NewIs DEF Approval, OneStory
    <3>6. CASE req[r].op = "reject"
      <4>1. saw.status = "pending_approval"
        BY <1>1, <3>6 DEF CompanyInv, JudgesLooked
      <4> QED BY <2>1, <3>2, <3>3, <3>4, <3>6, <4>1, NewIs DEF Rejection, OneStory
    <3>7. CASE req[r].op = "suspend"
      BY <3>3, <3>7, NewIs DEF Suspension, OneStory
    <3> QED BY <2>3, <3>5, <3>6, <3>7 DEF Judging, Deciding
  <2> QED BY <2>2, <2>3
<1>15. /\ company.step \in Nat /\ saw.step \in Nat /\ company'.step \in Nat
       /\ \A p \in Requests : (Done(p, {"advance"}) \/ Done(p, {"advance"})') => req[p].on \in Nat
  BY <1>1, <1>4, <1>8 DEF CompanyRows, Steps, Done, CompanyInv, RequestsTyped
<1>16. req[r].op # "advance" => company'.step = company.step
  BY <1>1, <1>6, NewIs DEF AllOps, Deciding, Approval, Rejection, Suspension, Deletion, Column
<1>17. req[r].op = "advance" =>
         /\ company'.step = IF req[r].on > saw.step THEN req[r].on ELSE company.step
         /\ Done(r, {"advance"})'
  BY <1>1, <1>6, <1>15, NewIs DEF Advance, Column, Done, Steps
<1>18. ASSUME NEW p \in Requests, Done(p, {"advance"}), company.step >= req[p].on
       PROVE  company'.step >= req[p].on \/ Outpaced(p)'
  <2>1. CASE req[r].op # "advance"
    BY <1>16, <1>18, <2>1
  <2>2. CASE req[r].op = "advance" /\ req[p].at > req[r].began
    <3>1. p # r /\ req'[p] = req[p] /\ Done(r, {"advance"})'
      BY <1>2, <1>17, <1>18, <2>2
    <3>2. Overlap(p, r)'
      BY <1>1, <1>5, <1>18, <2>2, <3>1 DEF Overlap, Done
    <3> QED BY <3>1, <3>2 DEF Outpaced
  <2>3. CASE req[r].op = "advance" /\ req[p].at <= req[r].began
    <3>1. saw.step >= req[p].on \/ Outpaced(p)
      BY <1>1, <1>18, <2>3 DEF CompanyInv, StepsKeptInFlight
    <3> QED BY <1>3, <1>15, <1>17, <1>18, <2>3, <3>1 DEF Steps
  <2> QED BY <2>1, <2>2, <2>3, <1>5
<1>19. OnboardingKeepsSteps'
  <2> SUFFICES ASSUME NEW p \in Requests, Done(p, {"advance"})'
               PROVE  company'.step >= req'[p].on \/ Outpaced(p)'
    BY DEF OnboardingKeepsSteps, Outpaced
  <2>1. CASE p # r
    <3>1. Done(p, {"advance"}) /\ req'[p] = req[p]
      BY <1>2, <2>1
    <3>2. company.step >= req[p].on \/ Outpaced(p)
      BY <3>1 DEF CompanyInv, OnboardingKeepsSteps, Outpaced
    <3> QED BY <1>3, <1>18, <3>1, <3>2
  <2>2. CASE p = r
    <3>1. req[r].op = "advance"
      BY <1>1, <2>2 DEF Done
    <3>2. company.step >= saw.step \/ SteppedSince(req[r].began)
      BY <1>1, <3>1 DEF CompanyInv, StepsKeptInFlight
    <3>3. ASSUME SteppedSince(req[r].began) PROVE Outpaced(r)'
      <4> PICK q \in Requests : Done(q, {"advance"}) /\ req[q].at > req[r].began
        BY <3>3 DEF SteppedSince
      <4>1. q # r /\ req'[q] = req[q] /\ Done(q, {"advance"})'
        BY <1>2
      <4>2. Overlap(r, q)'
        BY <1>1, <1>5, <4>1 DEF Overlap, Done
      <4> QED BY <4>1, <4>2 DEF Outpaced
    <3>4. req[r].on \in Nat /\ req'[r].on = req[r].on
      BY <1>1, <3>1 DEF Steps
    <3> QED BY <1>15, <1>17, <2>2, <3>1, <3>2, <3>3, <3>4
  <2> QED BY <2>1, <2>2
<1>20. StepsKeptInFlight'
  <2> SUFFICES ASSUME NEW x \in Requests, req'[x].pc = "read", req'[x].op = "advance"
               PROVE  /\ company'.step >= req'[x].saw.step \/ SteppedSince(req[x].began)'
                      /\ \A p \in Requests : (Done(p, {"advance"})' /\ req'[p].at <= req'[x].began) =>
                           req'[x].saw.step >= req'[p].on \/ Outpaced(p)'
    BY DEF StepsKeptInFlight
  <2>1. x # r /\ req'[x] = req[x] /\ req[x].pc = "read" /\ req[x].op = "advance"
        /\ req[x].began \in Nat /\ req[x].began <= clock
    BY <1>1, <1>4, <1>5
  <2>2. company.step >= req[x].saw.step \/ SteppedSince(req[x].began)
    BY <2>1 DEF CompanyInv, StepsKeptInFlight
  <2>3. company'.step >= req[x].saw.step \/ SteppedSince(req[x].began)'
    <3>1. CASE req[r].op = "advance"
      BY <1>1, <1>17, <2>1, <3>1 DEF SteppedSince
    <3>2. CASE req[r].op # "advance"
      BY <1>3, <1>16, <2>1, <2>2, <3>2
    <3> QED BY <3>1, <3>2
  <2>4. ASSUME NEW p \in Requests, Done(p, {"advance"})', req'[p].at <= req[x].began
        PROVE  req[x].saw.step >= req'[p].on \/ Outpaced(p)'
    <3>1. p # r
      BY <1>1, <2>1, <2>4
    <3>2. Done(p, {"advance"}) /\ req'[p] = req[p]
      BY <1>2, <2>4, <3>1
    <3> QED BY <1>3, <2>1, <2>4, <3>2 DEF CompanyInv, StepsKeptInFlight
  <2> QED BY <2>1, <2>3, <2>4
<1> QED BY <1>1, <1>8, <1>9, <1>10, <1>13, <1>14, <1>19, <1>20 DEF CompanyInv

LEMMA CompanyInit ==
  ASSUME ReqInit, CompanyDB PROVE CompanyInv
<1>1. LogOK /\ \A r \in Requests : req[r].pc = "idle"
  BY LogInit DEF ReqInit, NotBegun
<1>2. company \in CompanyRows
  BY DEF CompanyDB, CompanyRows, Statuses, Steps
<1>3. DecisionIsWhole
  BY DEF CompanyDB, DecisionIsWhole
<1> QED
  BY <1>1, <1>2, <1>3 DEF CompanyInv, RequestsTyped, JudgementCurrent, JudgesLooked,
                          OnboardingKeepsSteps, StepsKeptInFlight, Done

LEMMA CompanyStutters ==
  ASSUME CompanyInv, UNCHANGED <<reqVars, company>> PROVE CompanyInv'
<1>1. LogOK' /\ req' = req /\ clock' = clock /\ company' = company
  BY LogStutters DEF CompanyInv, reqVars
<1> QED
  BY <1>1 DEF CompanyInv, RequestsTyped, DecisionIsWhole, DecisionsOverlap, JudgementCurrent,
              JudgedSince, JudgesLooked, OnboardingKeepsSteps, StepsKeptInFlight, SteppedSince,
              Outpaced, Done, Overlap

\* Every step keeps the invariant.
LEMMA CompanySteps ==
  ASSUME CompanyInv, [CompanyNext]_<<reqVars, company>> PROVE CompanyInv'
<1> LogOK
  BY DEF CompanyInv
<1>1. ASSUME NEW r \in Requests,
             \/ \E op \in Deciding : DecisionRead(r, op)
             \/ \E step \in AskedSteps : StepRead(r, step)
      PROVE  CompanyInv'
  BY <1>1, CompanyReads, CompanyReadKeeps
<1>2. ASSUME NEW r \in Requests, NEW op \in AllOps, RowCommitted(r, op)
      PROVE  CompanyInv'
  BY <1>2, CompanyWrites, CompanyWriteKeeps
<1>3. CASE UNCHANGED <<reqVars, company>>
  BY <1>3, CompanyStutters
<1> QED BY <1>1, <1>2, <1>3 DEF CompanyNext, AllOps

LEMMA CompanyInvariance == CompanySpec => []CompanyInv
<1>1. ReqInit /\ CompanyDB => CompanyInv
  BY CompanyInit
<1>2. CompanyInv /\ [CompanyNext]_<<reqVars, company>> => CompanyInv'
  BY CompanySteps
<1> QED BY <1>1, <1>2, PTL DEF CompanySpec

\* The row stays a row of its table, and so do the rows that snapshots showed.
THEOREM CompanyTypeCorrect == CompanySpec => []CompanyTypeOK
<1>1. CompanyInv => CompanyTypeOK
  BY DEF CompanyInv, CompanyTypeOK, RequestsTyped
<1> QED BY <1>1, CompanyInvariance, PTL

\* Unless two decisions of Super Admins overlap, status, approval and rejection of a
\* company are those of one decision.
THEOREM OneDecisionShows == CompanySpec => []DecisionIsWhole
<1>1. CompanyInv => DecisionIsWhole
  BY DEF CompanyInv
<1> QED BY <1>1, CompanyInvariance, PTL

\* Onboarding never goes back behind a committed request, unless another one overlapped it.
THEOREM OnboardingIsMonotone == CompanySpec => []OnboardingKeepsSteps
<1>1. CompanyInv => OnboardingKeepsSteps
  BY DEF CompanyInv
<1> QED BY <1>1, CompanyInvariance, PTL
-----------------------------------------------------------------------------
(* CompanyMembers.                                                         *)

Leaving == {"update", "remove"}
Joining == {"product_add", "invite"}

WishesTyped ==
  \A r \in Requests : req[r].pc # "idle" =>
    /\ req[r].op \in MemberOps
    /\ req[r].on.user \in Users
    /\ req[r].saw \in MemberRows
    /\ req[r].op \in {"add", "update"} =>
         req[r].on.role \in Roles /\ req[r].on.status \in MemberStatuses
    /\ req[r].op = "invite" => req[r].on.role = "member" /\ req[r].on.status = "active"
    /\ req[r].op \in {"update", "product_add"} => req[r].saw # Absent

LostByOverlap ==
  \E p, q \in Requests :
    /\ p # q
    /\ Done(p, Leaving) /\ Unseats(p)
    /\ Done(q, Leaving) /\ Unseats(q)
    /\ Overlap(p, q)

\* Someone has taken an admin away, or could have, since time t.
UnseatedSince(t) == \E q \in Requests : Done(q, Leaving) /\ Unseats(q) /\ req[q].at > t

\* User u has been removed from the company since time t.
RemovedSince(u, t) ==
  \E x \in Requests : Done(x, {"remove"}) /\ req[x].on.user = u /\ req[x].at > t

\* The other admin that a request in flight has counted is still there, or was taken
\* away meanwhile.
AdminCounted ==
  \A r \in Requests : (req[r].pc = "read" /\ req[r].op \in Leaving /\ Unseats(r)) =>
    \/ \E v \in Admins : v # req[r].on.user
    \/ UnseatedSince(req[r].began)
    \/ LostByOverlap

SeatSeen ==
  \A r \in Requests : (req[r].pc = "read" /\ req[r].op \in Joining /\ req[r].saw # Absent) =>
    member[req[r].on.user] # Absent \/ RemovedSince(req[r].on.user, req[r].began)

SeatBehind(u) ==
  productMember[u] # Nothing =>
    /\ productMember[u] \in Requests
    /\ req[productMember[u]].pc = "done"
    /\ member[u] # Absent \/ RemovedSince(u, req[productMember[u]].began)

MembersInv ==
  /\ LogOK
  /\ member \in [Users -> MemberRows]
  /\ productMember \in [Users -> Requests \cup {Nothing}]
  /\ WishesTyped
  /\ Admins = {} => LostByOverlap
  /\ AdminCounted
  /\ SeatSeen
  /\ \A u \in Users : SeatBehind(u)

-----------------------------------------------------------------------------
\* A snapshot about a user.
MemberRead(r) ==
  /\ LogOK' /\ OnlyMoves(r) /\ UNCHANGED memberVars
  /\ req[r].pc = "idle"
  /\ req'[r].pc = "read" /\ req'[r].began = clock
  /\ req'[r].op \in MemberOps
  /\ req'[r].on.user \in Users
  /\ req'[r].saw = member[req'[r].on.user]
  /\ req'[r].op \in {"add", "update"} =>
       req'[r].on.role \in Roles /\ req'[r].on.status \in MemberStatuses
  /\ req'[r].op = "invite" => req'[r].on.role = "member" /\ req'[r].on.status = "active"
  /\ req'[r].op \in {"update", "product_add"} => req'[r].saw # Absent
  /\ (req'[r].op \in Leaving /\ req'[r].saw.role = "company_admin"
        /\ (req'[r].op = "update" => req'[r].on.role = "member"))
       => \E v \in Admins : v # req'[r].on.user

LEMMA MemberReads ==
  ASSUME LogOK, NEW r \in Requests, NEW u \in Users, MembersRead(r, u)
  PROVE  MemberRead(r)
<1>1. ASSUME NEW op \in MemberOps, NEW role_, NEW status_, NEW saw_,
             Begins(r, op, Wish(u, role_, status_), saw_)
      PROVE  /\ LogOK' /\ OnlyMoves(r) /\ req[r].pc = "idle"
             /\ req'[r].pc = "read" /\ req'[r].began = clock
             /\ req'[r].op = op /\ req'[r].saw = saw_
             /\ req'[r].on.user = u /\ req'[r].on.role = role_ /\ req'[r].on.status = status_
  <2>1. /\ LogOK' /\ OnlyMoves(r) /\ req[r] = NotBegun
        /\ req'[r] = [pc |-> "read", op |-> op, on |-> Wish(u, role_, status_), saw |-> saw_,
                      began |-> clock, at |-> 0]
    BY <1>1, BeginsEffect
  <2> QED BY <2>1 DEF Wish, NotBegun
<1>2. ASSUME NEW role_ \in Roles, AddRead(r, u, role_) PROVE MemberRead(r)
  BY <1>1, <1>2 DEF AddRead, MemberRead, MemberOps, Leaving, MemberStatuses
<1>3. ASSUME NEW role_ \in Roles, NEW status_ \in MemberStatuses, UpdateRead(r, u, role_, status_)
      PROVE  MemberRead(r)
  BY <1>1, <1>3 DEF UpdateRead, MemberRead, MemberOps, Leaving, OtherAdmins
<1>4. ASSUME RemoveRead(r, u) PROVE MemberRead(r)
  BY <1>1, <1>4 DEF RemoveRead, MemberRead, MemberOps, Leaving, OtherAdmins
<1>5. ASSUME ProductAddRead(r, u) PROVE MemberRead(r)
  BY <1>1, <1>5 DEF ProductAddRead, MemberRead, MemberOps, Leaving
<1>6. ASSUME InviteRead(r, u) PROVE MemberRead(r)
  BY <1>1, <1>6 DEF InviteRead, MemberRead, MemberOps, Leaving
<1>7. ASSUME ProductRemoveRead(r, u) PROVE MemberRead(r)
  BY <1>1, <1>7 DEF ProductRemoveRead, MemberRead, MemberOps, Leaving
<1> QED BY <1>2, <1>3, <1>4, <1>5, <1>6, <1>7 DEF MembersRead

\* A commit, successful or refused, and what it can do to a user's rows.
MemberWrite(r) ==
  /\ LogOK' /\ OnlyMoves(r)
  /\ req[r].pc = "read" /\ req'[r].pc \in {"done", "failed"}
  /\ req'[r].op = req[r].op /\ req'[r].on = req[r].on /\ req'[r].saw = req[r].saw
  /\ req'[r].began = req[r].began /\ req[r].began <= clock
  /\ req'[r].pc = "done" => req'[r].at = clock + 1
  /\ req'[r].pc = "failed" => UNCHANGED memberVars
  /\ member' \in [Users -> MemberRows]
  /\ productMember' \in [Users -> Requests \cup {Nothing}]
  /\ \A u \in Users :
       /\ (member[u] # Absent /\ member'[u] = Absent) => req[r].op = "remove" /\ req[r].on.user = u
       /\ (member[u].role = "company_admin" /\ member'[u].role # "company_admin") =>
            req[r].op \in Leaving /\ Unseats(r) /\ req[r].on.user = u
       /\ \/ productMember'[u] \in {productMember[u], Nothing}
          \/ /\ productMember'[u] = r /\ req[r].on.user = u /\ req[r].op \in Joining
             /\ req[r].saw = Absent => member'[u] # Absent
\* The rows of a commit: whom it is about, and that Absent is no row.
LEMMA WrittenRows ==
  ASSUME MembersInv, NEW r \in Requests, req[r].pc = "read"
  PROVE  /\ req[r].op \in MemberOps /\ req[r].on.user \in Users
         /\ Now(r) \in MemberRows /\ Now(r) = member[req[r].on.user]
         /\ Absent \in MemberRows
         /\ req[r].op \in {"add", "update"} =>
              req[r].on.role \in Roles /\ req[r].on.status \in MemberStatuses
         /\ req[r].op = "invite" => req[r].on.role = "member" /\ req[r].on.status = "active"
         /\ req[r].op \in {"update", "product_add"} => req[r].saw # Absent
         /\ req[r].saw \in MemberRows
         /\ \A role_ \in Roles, status_ \in MemberStatuses, id_ \in Requests \cup {Nothing} :
              LET row == [role |-> role_, status |-> status_, id |-> id_] IN
              row \in MemberRows /\ row # Absent
BY DEF MembersInv, WishesTyped, Now, MemberRows, Absent, Roles, MemberStatuses

LEMMA AddWrites ==
  ASSUME MembersInv, NEW r \in Requests, AddCommitted(r) PROVE MemberWrite(r)
<1>1. /\ LogOK' /\ OnlyMoves(r) /\ clock' = clock + 1
      /\ req[r].pc = "read" /\ req[r].op = "add" /\ req[r].began <= clock
      /\ req'[r] = [pc |-> "done", op |-> "add", on |-> req[r].on, saw |-> req[r].saw,
                    began |-> req[r].began, at |-> clock + 1]
  BY CommitsEffect DEF AddCommitted, MembersInv
<1> DEFINE w == req[r].on
           row == [role |-> w.role, status |-> w.status, id |-> r]
<1>2. /\ w.user \in Users /\ row \in MemberRows /\ row # Absent
      /\ member[w.user] = Absent /\ member' = [member EXCEPT ![w.user] = row]
      /\ member \in [Users -> MemberRows] /\ productMember' = productMember
      /\ productMember \in [Users -> Requests \cup {Nothing}]
  BY <1>1, WrittenRows DEF AddCommitted, MembersInv
<1> HIDE DEF w, row
<1>3. /\ member' \in [Users -> MemberRows]
      /\ \A u \in Users : member'[u] = IF u = w.user THEN row ELSE member[u]
  BY <1>2
<1>4. Absent.role # "company_admin"
  BY DEF Absent
<1> QED BY <1>1, <1>2, <1>3, <1>4 DEF MemberWrite

LEMMA UpdateWrites ==
  ASSUME MembersInv, NEW r \in Requests, UpdateCommitted(r) PROVE MemberWrite(r)
<1>1. /\ LogOK' /\ OnlyMoves(r) /\ clock' = clock + 1
      /\ req[r].pc = "read" /\ req[r].op = "update" /\ req[r].began <= clock
      /\ req'[r] = [pc |-> "done", op |-> "update", on |-> req[r].on, saw |-> req[r].saw,
                    began |-> req[r].began, at |-> clock + 1]
  BY CommitsEffect DEF UpdateCommitted, MembersInv
<1> DEFINE w == req[r].on
           row == Updated(r)
<1>2. /\ w.user \in Users /\ member' = [member EXCEPT ![w.user] = row]
      /\ member \in [Users -> MemberRows] /\ productMember' = productMember
      /\ productMember \in [Users -> Requests \cup {Nothing}]
      /\ member[w.user] = Now(r) /\ Now(r) # Absent /\ Now(r) \in MemberRows
      /\ w.role \in Roles /\ w.status \in MemberStatuses
  BY <1>1, WrittenRows DEF UpdateCommitted, MembersInv, Present
<1>3. Now(r).role \in Roles /\ Now(r).status \in MemberStatuses
      /\ Now(r).id \in Requests \cup {Nothing}
  BY <1>2 DEF MemberRows
<1>4. row \in MemberRows /\ row # Absent
  <2>1. row.role \in Roles /\ row.status \in MemberStatuses /\ row.id = Now(r).id
        /\ row = [role |-> row.role, status |-> row.status, id |-> row.id]
    BY <1>2, <1>3 DEF Updated, Column
  <2> HIDE DEF row
  <2> QED BY <1>1, <1>3, <2>1, WrittenRows
<1>5. row.role # "company_admin" /\ Now(r).role = "company_admin" => Unseats(r)
  <2>1. req[r].saw.role \in Roles
    BY <1>1, WrittenRows DEF MemberRows
  <2> QED BY <1>1, <1>2, <1>3, <2>1 DEF Updated, Column, Unseats, Roles
<1> HIDE DEF w, row
<1>6. /\ member' \in [Users -> MemberRows]
      /\ \A u \in Users : member'[u] = IF u = w.user THEN row ELSE member[u]
  BY <1>2, <1>4
<1> QED BY <1>1, <1>2, <1>4, <1>5, <1>6 DEF MemberWrite, Leaving, w

LEMMA RemoveWrites ==
  ASSUME MembersInv, NEW r \in Requests, RemoveCommitted(r) PROVE MemberWrite(r)
<1>1. /\ LogOK' /\ OnlyMoves(r) /\ clock' = clock + 1
      /\ req[r].pc = "read" /\ req[r].op = "remove" /\ req[r].began <= clock
      /\ req'[r] = [pc |-> "done", op |-> "remove", on |-> req[r].on, saw |-> req[r].saw,
                    began |-> req[r].began, at |-> clock + 1]
  BY CommitsEffect DEF RemoveCommitted, MembersInv
<1>2. /\ req[r].on.user \in Users /\ Absent \in MemberRows
      /\ member' = IF Present(r) THEN [member EXCEPT ![req[r].on.user] = Absent] ELSE member
      /\ member \in [Users -> MemberRows] /\ productMember' = productMember
      /\ productMember \in [Users -> Requests \cup {Nothing}]
  BY <1>1, WrittenRows DEF RemoveCommitted, MembersInv
<1>3. /\ member' \in [Users -> MemberRows]
      /\ \A u \in Users : member'[u] = member[u] \/ u = req[r].on.user
  BY <1>2
<1>4. Unseats(r)
  BY <1>1 DEF Unseats
<1> QED BY <1>1, <1>2, <1>3, <1>4 DEF MemberWrite, Leaving

LEMMA ProductJoinWrites ==
  ASSUME MembersInv, NEW r \in Requests, NEW op \in Joining, ProductJoinCommitted(r, op)
  PROVE  MemberWrite(r)
<1>1. /\ LogOK' /\ OnlyMoves(r) /\ clock' = clock + 1
      /\ req[r].pc = "read" /\ req[r].op = op /\ req[r].began <= clock
      /\ req'[r] = [pc |-> "done", op |-> op, on |-> req[r].on, saw |-> req[r].saw,
                    began |-> req[r].began, at |-> clock + 1]
  BY CommitsEffect DEF ProductJoinCommitted, MembersInv
<1> DEFINE w == req[r].on
           row == [role |-> w.role, status |-> w.status, id |-> r]
<1>2. /\ w.user \in Users
      /\ productMember' = [productMember EXCEPT ![w.user] = r]
      /\ member \in [Users -> MemberRows]
      /\ productMember \in [Users -> Requests \cup {Nothing}]
  BY <1>1, WrittenRows DEF ProductJoinCommitted, MembersInv
<1>3. /\ productMember' \in [Users -> Requests \cup {Nothing}]
      /\ \A u \in Users : productMember'[u] = IF u = w.user THEN r ELSE productMember[u]
  BY <1>2
<1>4. CASE NewInCompany(r)
  <2>1. w.role = "member" /\ w.status = "active"
    BY <1>1, <1>4, WrittenRows DEF NewInCompany
  <2>2. row \in MemberRows /\ row # Absent
    BY <2>1, WrittenRows, <1>1 DEF Roles, MemberStatuses
  <2>3. member[w.user] = Absent /\ member' = [member EXCEPT ![w.user] = row]
    BY <1>4 DEF ProductJoinCommitted
  <2> HIDE DEF w, row
  <2>4. /\ member' \in [Users -> MemberRows]
        /\ \A u \in Users : member'[u] = IF u = w.user THEN row ELSE member[u]
    BY <1>2, <2>2, <2>3
  <2>5. Absent.role # "company_admin"
    BY DEF Absent
  <2> QED BY <1>1, <1>2, <1>3, <2>2, <2>3, <2>4, <2>5 DEF MemberWrite, w
<1>5. CASE ~NewInCompany(r)
  <2>1. member' = member
    BY <1>5 DEF ProductJoinCommitted
  <2>2. req[r].saw # Absent
    BY <1>1, <1>5, WrittenRows DEF NewInCompany, Joining
  <2> QED BY <1>1, <1>2, <1>3, <2>1, <2>2 DEF MemberWrite
<1> QED BY <1>4, <1>5

LEMMA ProductRemoveWrites ==
  ASSUME MembersInv, NEW r \in Requests, ProductRemoveCommitted(r) PROVE MemberWrite(r)
<1>1. /\ LogOK' /\ OnlyMoves(r) /\ clock' = clock + 1
      /\ req[r].pc = "read" /\ req[r].op = "product_remove" /\ req[r].began <= clock
      /\ req'[r] = [pc |-> "done", op |-> "product_remove", on |-> req[r].on, saw |-> req[r].saw,
                    began |-> req[r].began, at |-> clock + 1]
  BY CommitsEffect DEF ProductRemoveCommitted, MembersInv
<1>2. /\ member' = member /\ member \in [Users -> MemberRows]
      /\ productMember' \in [Users -> Requests \cup {Nothing}]
      /\ \A u \in Users : productMember'[u] \in {productMember[u], Nothing}
  BY DEF ProductRemoveCommitted, MembersInv
<1> QED BY <1>1, <1>2 DEF MemberWrite

LEMMA FailureWrites ==
  ASSUME MembersInv, NEW r \in Requests, NEW op, Fails(r, op), UNCHANGED memberVars
  PROVE  MemberWrite(r)
<1>1. /\ LogOK' /\ OnlyMoves(r) /\ clock' = clock
      /\ req[r].pc = "read" /\ req[r].op = op
      /\ req'[r] = [pc |-> "failed", op |-> op, on |-> req[r].on, saw |-> req[r].saw,
                    began |-> req[r].began, at |-> clock]
  BY FailsEffect DEF MembersInv
<1>2. req[r].began <= clock
  BY <1>1 DEF MembersInv, LogOK, Timely
<1> QED BY <1>1, <1>2 DEF MemberWrite, memberVars, MembersInv

LEMMA MemberWrites ==
  ASSUME MembersInv, NEW r \in Requests, MembersCommit(r) PROVE MemberWrite(r)
<1>1. CASE AddCommitted(r) BY <1>1, AddWrites
<1>2. CASE AddFailed(r) BY <1>2, FailureWrites DEF AddFailed
<1>3. CASE UpdateCommitted(r) BY <1>3, UpdateWrites
<1>4. CASE UpdateFailed(r) BY <1>4, FailureWrites DEF UpdateFailed
<1>5. CASE RemoveCommitted(r) BY <1>5, RemoveWrites
<1>6. ASSUME NEW op \in Joining, ProductJoinCommitted(r, op) PROVE MemberWrite(r)
  BY <1>6, ProductJoinWrites
<1>7. ASSUME NEW op \in Joining, ProductJoinFailed(r, op) PROVE MemberWrite(r)
  BY <1>7, FailureWrites DEF ProductJoinFailed
<1>8. CASE ProductRemoveCommitted(r) BY <1>8, ProductRemoveWrites
<1> QED BY <1>1, <1>2, <1>3, <1>4, <1>5, <1>6, <1>7, <1>8 DEF MembersCommit, Joining
\* What has been taken away stays taken away.
LEMMA MemberHistory ==
  ASSUME LogOK, NEW r \in Requests, OnlyMoves(r), req[r].pc # "done"
  PROVE  /\ \A t \in Nat : UnseatedSince(t) => UnseatedSince(t)'
         /\ \A u \in Users, t \in Nat : RemovedSince(u, t) => RemovedSince(u, t)'
         /\ LostByOverlap => LostByOverlap'
<1>1. \A q \in Requests : \A ops : Done(q, ops) => Done(q, ops)' /\ req'[q] = req[q]
  BY DoneStays
<1>2. \A t \in Nat : UnseatedSince(t) => UnseatedSince(t)'
  BY <1>1 DEF UnseatedSince, Unseats
<1>3. \A u \in Users, t \in Nat : RemovedSince(u, t) => RemovedSince(u, t)'
  BY <1>1 DEF RemovedSince
<1>4. LostByOverlap => LostByOverlap'
  BY <1>1 DEF LostByOverlap, Unseats, Overlap
<1> QED BY <1>2, <1>3, <1>4

LEMMA MemberReadKeeps ==
  ASSUME MembersInv, NEW r \in Requests, MemberRead(r) PROVE MembersInv'
<1>1. /\ LogOK /\ LogOK' /\ OnlyMoves(r) /\ member' = member /\ productMember' = productMember
      /\ req[r].pc = "idle" /\ req'[r].pc = "read" /\ req'[r].began = clock /\ clock \in Nat
      /\ req'[r].on.user \in Users /\ req'[r].saw = member[req'[r].on.user]
  BY DEF MembersInv, MemberRead, LogOK, memberVars
<1>2. \A q \in Requests \ {r} : req'[q] = req[q]
  BY <1>1 DEF OnlyMoves
<1>3. /\ \A t \in Nat : UnseatedSince(t) => UnseatedSince(t)'
      /\ \A u \in Users, t \in Nat : RemovedSince(u, t) => RemovedSince(u, t)'
      /\ LostByOverlap => LostByOverlap'
  BY <1>1, MemberHistory
<1>4. \A q \in Requests : req[q].began \in Nat
  BY <1>1 DEF LogOK, IsRequest
<1>5. WishesTyped'
  BY <1>1, <1>2 DEF MembersInv, MemberRead, WishesTyped
<1>6. Admins' = Admins
  BY <1>1 DEF Admins
<1>7. Admins = {} => LostByOverlap
  BY DEF MembersInv
<1>8. AdminCounted'
  <2> SUFFICES ASSUME NEW x \in Requests, req'[x].pc = "read", req'[x].op \in Leaving, Unseats(x)'
               PROVE  \/ \E v \in Admins : v # req'[x].on.user
                      \/ UnseatedSince(req[x].began)'
                      \/ LostByOverlap'
    BY <1>6 DEF AdminCounted
  <2>1. CASE x # r
    BY <1>2, <1>3, <1>4, <2>1 DEF MembersInv, AdminCounted, Unseats
  <2>2. CASE x = r /\ member[req'[r].on.user].role = "company_admin"
    BY <1>1, <2>2 DEF MemberRead, Unseats, Leaving
  <2>3. CASE x = r /\ member[req'[r].on.user].role # "company_admin"
    BY <1>3, <1>7, <2>3 DEF Admins
  <2> QED BY <2>1, <2>2, <2>3
<1>9. SeatSeen'
  <2> SUFFICES ASSUME NEW x \in Requests, req'[x].pc = "read", req'[x].op \in Joining,
                      req'[x].saw # Absent
               PROVE  (member[req[x].on.user] # Absent \/ RemovedSince(req[x].on.user, req[x].began))'
    BY DEF SeatSeen
  <2>1. CASE x = r
    BY <1>1, <2>1
  <2>2. CASE x # r
    <3>1. req'[x] = req[x] /\ req[x].on.user \in Users
      BY <1>2, <2>2 DEF MembersInv, WishesTyped
    <3> QED BY <1>1, <1>3, <1>4, <3>1 DEF MembersInv, SeatSeen
  <2> QED BY <2>1, <2>2
<1>10. ASSUME NEW u \in Users PROVE SeatBehind(u)'
  BY <1>1, <1>2, <1>3, <1>4 DEF MembersInv, SeatBehind
<1> QED BY <1>1, <1>3, <1>5, <1>6, <1>7, <1>8, <1>9, <1>10 DEF MembersInv

LEMMA MemberWriteKeeps ==
  ASSUME MembersInv, NEW r \in Requests, MemberWrite(r) PROVE MembersInv'
<1>1. /\ LogOK /\ LogOK' /\ OnlyMoves(r) /\ clock \in Nat
      /\ req[r].pc = "read" /\ req'[r].pc \in {"done", "failed"}
      /\ req'[r].op = req[r].op /\ req'[r].on = req[r].on /\ req'[r].saw = req[r].saw
      /\ req'[r].began = req[r].began /\ req[r].began <= clock /\ req[r].began \in Nat
      /\ req'[r].pc = "done" => req'[r].at = clock + 1
      /\ req'[r].pc = "failed" => member' = member /\ productMember' = productMember
      /\ member' \in [Users -> MemberRows]
      /\ productMember' \in [Users -> Requests \cup {Nothing}]
  BY DEF MembersInv, MemberWrite, LogOK, memberVars, IsRequest
<1>2. \A q \in Requests \ {r} : req'[q] = req[q]
  BY <1>1 DEF OnlyMoves
<1>3. /\ \A t \in Nat : UnseatedSince(t) => UnseatedSince(t)'
      /\ \A u \in Users, t \in Nat : RemovedSince(u, t) => RemovedSince(u, t)'
      /\ LostByOverlap => LostByOverlap'
  BY <1>1, MemberHistory
<1>4. \A q \in Requests : /\ req[q].began \in Nat /\ req[q].at \in Nat
                          /\ req[q].pc = "read" => req[q].began <= clock
                          /\ req[q].pc = "done" => req[q].began < req[q].at /\ req[q].at <= clock
  BY <1>1 DEF LogOK, IsRequest, Timely
<1>5. \A q \in Requests : \A ops :
        Done(q, ops) => Done(q, ops)' /\ req'[q] = req[q] /\ q # r
  BY <1>1, DoneStays DEF Done
<1>6. WishesTyped'
  BY <1>1, <1>2 DEF MembersInv, WishesTyped
<1>7. \A u \in Users : (member[u].role = "company_admin" /\ member'[u].role # "company_admin") =>
        /\ req[r].op \in Leaving /\ Unseats(r) /\ req[r].on.user = u
        /\ req'[r].pc = "done" /\ Done(r, Leaving)' /\ Unseats(r)'
  BY <1>1 DEF MemberWrite, Unseats, Done
<1>8. \A u \in Users : (member[u] # Absent /\ member'[u] = Absent) =>
        \A t \in Nat : t <= clock => RemovedSince(u, t)'
  <2> SUFFICES ASSUME NEW u \in Users, member[u] # Absent, member'[u] = Absent,
                      NEW t \in Nat, t <= clock
               PROVE  RemovedSince(u, t)'
    OBVIOUS
  <2>1. req[r].op = "remove" /\ req[r].on.user = u /\ req'[r].pc = "done"
    BY <1>1 DEF MemberWrite
  <2> QED BY <1>1, <2>1 DEF RemovedSince, Done
<1>9. Admins' = {} => LostByOverlap'
  <2> SUFFICES ASSUME Admins' = {}, ~LostByOverlap' PROVE FALSE
    OBVIOUS
  <2>1. Admins # {}
    BY <1>3 DEF MembersInv
  <2>2. PICK u \in Users : member[u].role = "company_admin" /\ member'[u].role # "company_admin"
    BY <2>1 DEF Admins
  <2>3. ~ \E v \in Admins : v # req[r].on.user
    BY <1>7, <2>2 DEF Admins
  <2>4. UnseatedSince(req[r].began)
    BY <1>1, <1>3, <1>7, <2>2, <2>3 DEF MembersInv, AdminCounted
  <2>5. PICK q \in Requests : Done(q, Leaving) /\ Unseats(q) /\ req[q].at > req[r].began
    BY <2>4 DEF UnseatedSince
  <2>6. q # r /\ Done(q, Leaving)' /\ Unseats(q)' /\ req'[q] = req[q]
    BY <1>5, <2>5 DEF Unseats
  <2>7. Overlap(q, r)'
    BY <1>1, <1>4, <1>7, <2>2, <2>5, <2>6 DEF Overlap, Done
  <2> QED BY <1>7, <2>2, <2>6, <2>7 DEF LostByOverlap
<1>10. AdminCounted'
  <2> SUFFICES ASSUME NEW x \in Requests, req'[x].pc = "read", req'[x].op \in Leaving, Unseats(x)'
               PROVE  \/ \E v \in Admins' : v # req'[x].on.user
                      \/ UnseatedSince(req[x].began)'
                      \/ LostByOverlap'
    BY DEF AdminCounted
  <2>1. x # r /\ req'[x] = req[x] /\ req[x].began \in Nat /\ req[x].began <= clock
    BY <1>1, <1>2, <1>4
  <2>2. \/ \E v \in Admins : v # req[x].on.user
        \/ UnseatedSince(req[x].began)
        \/ LostByOverlap
    BY <2>1 DEF MembersInv, AdminCounted, Unseats
  <2>3. ASSUME NEW v \in Admins, v # req[x].on.user, v \notin Admins'
        PROVE  UnseatedSince(req[x].began)'
    <3>1. Done(r, Leaving)' /\ Unseats(r)' /\ req'[r].at = clock + 1
      BY <1>1, <1>7, <2>3 DEF Admins
    <3> QED BY <1>1, <2>1, <3>1 DEF UnseatedSince
  <2> QED BY <1>3, <2>1, <2>2, <2>3
<1>11. SeatSeen'
  <2> SUFFICES ASSUME NEW x \in Requests, req'[x].pc = "read", req'[x].op \in Joining,
                      req'[x].saw # Absent
               PROVE  (member[req[x].on.user] # Absent \/ RemovedSince(req[x].on.user, req[x].began))'
    BY DEF SeatSeen
  <2>1. x # r /\ req'[x] = req[x] /\ req[x].on.user \in Users
        /\ req[x].began \in Nat /\ req[x].began <= clock
    BY <1>1, <1>2, <1>4 DEF MembersInv, WishesTyped
  <2>2. member[req[x].on.user] # Absent \/ RemovedSince(req[x].on.user, req[x].began)
    BY <2>1 DEF MembersInv, SeatSeen
  <2> QED BY <1>3, <1>8, <2>1, <2>2
<1>12. ASSUME NEW u \in Users PROVE SeatBehind(u)'
  <2>1. \/ productMember'[u] \in {productMember[u], Nothing}
        \/ /\ productMember'[u] = r /\ req[r].on.user = u /\ req[r].op \in Joining
           /\ req[r].saw = Absent => member'[u] # Absent
    BY DEF MemberWrite
  <2>2. CASE productMember'[u] = Nothing
    BY <2>2 DEF SeatBehind
  <2>3. CASE productMember'[u] = productMember[u] /\ productMember[u] # Nothing
    <3> DEFINE q == productMember[u]
    <3>1. /\ q \in Requests /\ req[q].pc = "done"
          /\ member[u] # Absent \/ RemovedSince(u, req[q].began)
      BY <2>3 DEF MembersInv, SeatBehind
    <3>2. q # r /\ req'[q] = req[q] /\ req[q].began \in Nat /\ req[q].began <= clock
      BY <1>1, <1>2, <1>4, <3>1 DEF LogOK, IsRequest
    <3> QED BY <1>3, <1>8, <2>3, <3>1, <3>2 DEF SeatBehind
  <2>4. CASE productMember'[u] = r /\ productMember[u] # r
    <3>1. /\ req[r].on.user = u /\ req[r].op \in Joining
          /\ req[r].saw = Absent => member'[u] # Absent
      BY <2>1, <2>4, SnapshotsConstants
    <3>2. req'[r].pc = "done"
      BY <1>1, <2>4
    <3>3. req[r].saw # Absent => member[u] # Absent \/ RemovedSince(u, req[r].began)
      BY <1>1, <3>1 DEF MembersInv, SeatSeen
    <3> QED BY <1>1, <1>3, <1>8, <2>4, <3>1, <3>2, <3>3 DEF SeatBehind
  <2>5. CASE productMember[u] = Nothing /\ productMember'[u] = r
    BY <2>4, <2>5, SnapshotsConstants
  <2> QED BY <2>1, <2>2, <2>3, <2>4, <2>5
<1> QED BY <1>1, <1>6, <1>9, <1>10, <1>11, <1>12 DEF MembersInv
LEMMA MembersInitially ==
  ASSUME ReqInit, MembersDB PROVE MembersInv
<1>1. LogOK /\ \A r \in Requests : req[r].pc = "idle"
  BY LogInit DEF ReqInit, NotBegun
<1>2. member \in [Users -> MemberRows] /\ productMember = [u \in Users |-> Nothing]
  BY DEF MembersDB, MemberRows, Roles, MemberStatuses
<1>3. Founder \in Admins
  BY MembersConstants DEF MembersDB, Admins
<1> QED
  BY <1>1, <1>2, <1>3 DEF MembersInv, WishesTyped, AdminCounted, SeatSeen, SeatBehind

LEMMA MembersStutter ==
  ASSUME MembersInv, UNCHANGED <<reqVars, memberVars>> PROVE MembersInv'
<1>1. LogOK' /\ req' = req /\ clock' = clock /\ member' = member /\ productMember' = productMember
  BY LogStutters DEF MembersInv, reqVars, memberVars
<1> QED
  BY <1>1 DEF MembersInv, WishesTyped, Admins, LostByOverlap, AdminCounted, UnseatedSince,
              SeatSeen, SeatBehind, RemovedSince, Unseats, Done, Overlap

\* Every step keeps the invariant.
LEMMA MembersSteps ==
  ASSUME MembersInv, [MembersNext]_<<reqVars, memberVars>> PROVE MembersInv'
<1>1. ASSUME NEW r \in Requests, NEW u \in Users, MembersRead(r, u) PROVE MembersInv'
  <2>1. LogOK BY DEF MembersInv
  <2> QED BY <1>1, <2>1, MemberReads, MemberReadKeeps
<1>2. ASSUME NEW r \in Requests, MembersCommit(r) PROVE MembersInv'
  BY <1>2, MemberWrites, MemberWriteKeeps
<1>3. CASE UNCHANGED <<reqVars, memberVars>>
  BY <1>3, MembersStutter
<1> QED BY <1>1, <1>2, <1>3 DEF MembersNext

LEMMA MembersInvariance == MembersSpec => []MembersInv
<1>1. ReqInit /\ MembersDB => MembersInv
  BY MembersInitially
<1>2. MembersInv /\ [MembersNext]_<<reqVars, memberVars>> => MembersInv'
  BY MembersSteps
<1> QED BY <1>1, <1>2, PTL DEF MembersSpec

LEMMA MembersTyped == MembersInv => MembersTypeOK
<1> SUFFICES ASSUME MembersInv, NEW r \in Requests, req[r].op \in MemberOps
             PROVE  req[r].on.user \in Users /\ req[r].saw \in MemberRows
  BY DEF MembersInv, MembersTypeOK
<1>1. req[r].pc # "idle"
  BY DEF MembersInv, LogOK, NotBegun, MemberOps
<1> QED BY <1>1 DEF MembersInv, WishesTyped

\* Rows of company_members and product_members stay rows of their tables.
THEOREM MembersTypeCorrect == MembersSpec => []MembersTypeOK
BY MembersTyped, MembersInvariance, PTL

\* A company loses its last admin only to two overlapping requests, however many there are.
THEOREM LastAdminLostByOverlap == MembersSpec => []AdminsLostByOverlap
<1>1. MembersInv => AdminsLostByOverlap
  BY DEF MembersInv, AdminsLostByOverlap, LostByOverlap, Leaving
<1> QED BY <1>1, MembersInvariance, PTL

\* A member of the product is a member of the company, or was removed from it after the
\* request that added them had looked.
THEOREM ProductMembersAreSeated == MembersSpec => []ProductMembersBelong
<1>1. MembersInv => ProductMembersBelong
  <2> SUFFICES ASSUME MembersInv, NEW u \in Users, productMember[u] # Nothing, member[u] = Absent
               PROVE  \E x \in Requests :
                        Done(x, {"remove"}) /\ req[x].on.user = u
                        /\ req[x].at > req[productMember[u]].began
    BY DEF ProductMembersBelong
  <2>1. RemovedSince(u, req[productMember[u]].began)
    BY DEF MembersInv, SeatBehind
  <2> QED BY <2>1 DEF RemovedSince
<1> QED BY <1>1, MembersInvariance, PTL
-----------------------------------------------------------------------------
(* Access.                                                                 *)

LEMMA AccessInitially == AccessDB => AccessTypeOK
BY DEF AccessDB, AccessTypeOK, CompanyStatuses

\* Every change leaves rows of the right kind.
LEMMA AccessSteps ==
  ASSUME AccessTypeOK, [AccessNext]_accessVars PROVE AccessTypeOK'
<1> USE DEF AccessTypeOK
<1>1. ASSUME NEW c \in Companies, NEW to \in {"active", "rejected", "suspended"}, Decided(c, to)
      PROVE  AccessTypeOK'
  BY <1>1 DEF Decided, CompanyStatuses
<1>2. ASSUME NEW c \in Companies, NEW role_ \in CompanyRoles \cup {"none"}, Seated(c, role_)
      PROVE  AccessTypeOK'
  BY <1>2 DEF Seated
<1>3. ASSUME NEW c \in Companies, CompanyDeleted(c) PROVE AccessTypeOK'
  BY <1>3 DEF CompanyDeleted
<1>4. CASE ProductCreated BY <1>4 DEF ProductCreated
<1>5. CASE ProductDeleted BY <1>5 DEF ProductDeleted
<1>6. CASE Left BY <1>6 DEF Left
<1>7. ASSUME NEW s \in SubProducts, SubProductCreated(s) PROVE AccessTypeOK'
  BY <1>7 DEF SubProductCreated
<1>8. ASSUME NEW s \in SubProducts, SubProductDeleted(s) PROVE AccessTypeOK'
  BY <1>8 DEF SubProductDeleted
<1>9. ASSUME NEW j \in Joins, Joined(j.role, j.subs) PROVE AccessTypeOK'
  <2>1. joined' \in Joins
    BY <1>9 DEF Joined, Joins
  <2>2. seat' \in [Companies -> CompanyRoles \cup {"none"}]
    BY <1>9, AccessConstants DEF Joined, CompanyRoles
  <2> QED BY <1>9, <2>1, <2>2 DEF Joined
<1>10. CASE UNCHANGED accessVars BY <1>10 DEF accessVars
<1> QED
  BY <1>1, <1>2, <1>3, <1>4, <1>5, <1>6, <1>7, <1>8, <1>9, <1>10 DEF AccessNext

\* The rows that access depends on keep their types.
THEOREM AccessTypeCorrect == AccessSpec => []AccessTypeOK
<1>1. AccessDB => AccessTypeOK
  BY AccessInitially
<1>2. AccessTypeOK /\ [AccessNext]_accessVars => AccessTypeOK'
  BY AccessSteps
<1> QED BY <1>1, <1>2, PTL DEF AccessSpec

\* A company's routes ask for its admins or for any member.
LEMMA CompanyRoutesAsk == OfCompany \subseteq {AnyRole, Admin}
<1>1. \A open, closed : \A r \in DOMAIN Asking(open, Admin, closed) :
        Asking(open, Admin, closed)[r] \in {AnyRole, Admin}
  BY DEF Asking
<1>2. \A t \in {CompanyRoutes, CompanyProductRoutes, CompanyBrandRoutes} :
        \A r \in DOMAIN t : t[r] \in {AnyRole, Admin}
  <2>1. \A r \in DOMAIN CompanyRoutes : CompanyRoutes[r] \in {AnyRole, Admin}
    BY <1>1 DEF CompanyRoutes
  <2>2. \A r \in DOMAIN CompanyProductRoutes : CompanyProductRoutes[r] \in {AnyRole, Admin}
    BY <1>1 DEF CompanyProductRoutes
  <2>3. \A r \in DOMAIN CompanyBrandRoutes : CompanyBrandRoutes[r] \in {AnyRole, Admin}
    BY <1>1 DEF CompanyBrandRoutes
  <2> QED BY <2>1, <2>2, <2>3
<1>3. AnalysisRoutes["company"] = Admin
  BY DEF AnalysisRoutes
<1> SUFFICES ASSUME NEW x \in OfCompany PROVE x \in {AnyRole, Admin}
  OBVIOUS
<1>4. CASE x = AnalysisRoutes["company"]
  BY <1>3, <1>4
<1>5. CASE \E t \in {CompanyRoutes, CompanyProductRoutes, CompanyBrandRoutes} :
             \E r \in DOMAIN t : x = t[r]
  BY <1>2, <1>5
<1>6. x = AnalysisRoutes["company"]
      \/ \E set \in {{t[r] : r \in DOMAIN t} : t \in {CompanyRoutes, CompanyProductRoutes,
                                                    CompanyBrandRoutes}} : x \in set
  BY DEF OfCompany, Asked
<1>7. ASSUME NEW set \in {{t[r] : r \in DOMAIN t} : t \in {CompanyRoutes, CompanyProductRoutes,
                                                          CompanyBrandRoutes}}, x \in set
      PROVE  x \in {AnyRole, Admin}
  <2> PICK t \in {CompanyRoutes, CompanyProductRoutes, CompanyBrandRoutes} :
             set = {t[r] : r \in DOMAIN t}
    OBVIOUS
  <2> QED BY <1>5, <1>7
<1> QED BY <1>4, <1>6, <1>7

LEMMA LoginNamesTheCompany ==
  ASSUME AccessTypeOK, Cardinality(Mine) = 1, ~Blocked, ~isSuperAdmin, NEW c \in Mine
  PROVE  c \in LoginContext /\ ~deleted[c] /\ seat[c] \in CompanyRoles
<1>1. Mine \subseteq Companies /\ IsFiniteSet(Mine)
  BY AccessConstants, FS_Subset DEF Mine
<1>2. Mine = {c}
  BY <1>1, FS_Singleton
<1>3. c \in Companies /\ c \in Nat /\ seat[c] \in CompanyRoles
  BY <1>1, AccessConstants DEF Mine, AccessTypeOK
<1>4. status[c] = "active" /\ ~deleted[c]
  BY <1>2 DEF Blocked
<1>5. {d \in Mine : status[d] = "active"} = {c}
  BY <1>2, <1>4
<1>6. NewestCompany({c}) = c
  BY <1>3 DEF NewestCompany
<1>7. LoginContext = {c}
  BY <1>5, <1>6 DEF LoginContext
<1> QED BY <1>3, <1>4, <1>7

LEMMA AnswersAreSo == AccessTypeOK => ToldIsSo
<1> SUFFICES ASSUME AccessTypeOK, ~isSuperAdmin
             PROVE  /\ MeTellsTheRoutes
                    /\ LoginTellsTheRoutes
                    /\ CompanyRoute(Home, AnyRole) => (ListsProduct <=> MeRole # "none")
                    /\ \A s \in SubProducts, roles \in OfSubProduct :
                         SubProductRoute(s, roles) => ProductRoute(roles)
  BY DEF ToldIsSo
<1>1. joined # NotJoined => joined.role \in ProductRoles
  BY DEF AccessTypeOK, Joins
<1>2. joined.role = "none" <=> joined = NotJoined
  BY <1>1 DEF NotJoined, ProductRoles
<1>3. joined.role # "company_admin"
  BY <1>1 DEF NotJoined, ProductRoles
<1>4. MeTellsTheRoutes
  BY <1>1, <1>2, <1>3 DEF MeTellsTheRoutes, RoleAllows, MeRole, ProductRoute, Admin
<1>5. LoginTellsTheRoutes
  <2> SUFFICES ASSUME Cardinality(Mine) = 1, ~Blocked, NEW c \in Mine
               PROVE  c \in LoginContext
                      /\ \A roles \in OfCompany :
                           CompanyRoute(c, roles) <=> roles = AnyRole \/ NamedAsAdmin(c)
    BY DEF LoginTellsTheRoutes
  <2>1. c \in LoginContext /\ ~deleted[c] /\ seat[c] \in CompanyRoles
    BY LoginNamesTheCompany
  <2>2. ASSUME NEW roles \in {AnyRole, Admin}
        PROVE  CompanyRoute(c, roles) <=> roles = AnyRole \/ NamedAsAdmin(c)
    BY <2>1 DEF CompanyRoute, NamedAsAdmin, AnyRole, Admin, CompanyRoles
  <2> QED BY <2>1, <2>2, CompanyRoutesAsk
<1>6. CompanyRoute(Home, AnyRole) => (ListsProduct <=> MeRole # "none")
  BY <1>2 DEF CompanyRoute, ListsProduct, MeRole
<1>7. \A s \in SubProducts, roles \in OfSubProduct : SubProductRoute(s, roles) => ProductRoute(roles)
  BY DEF SubProductRoute, ProductRoute
<1> QED BY <1>4, <1>5, <1>6, <1>7

\* What login, /auth/me and the product list tell a user is what the guards do, for any
\* number of companies and sub-products.
THEOREM AnswersMatchGuards == AccessSpec => []ToldIsSo
BY AccessTypeCorrect, AnswersAreSo, PTL

-----------------------------------------------------------------------------
(* The scenes of MCTenants: what goes on in one leaves the others alone.   *)

CodesScene == IF scene = "codes" THEN CodesInv ELSE CodesDB
CompanyScene == IF scene = "company" THEN CompanyInv ELSE CompanyDB
MembersScene == IF scene = "members" THEN MembersInv ELSE MembersDB

TenantsInv ==
  /\ CodesScene /\ CompanyScene /\ MembersScene /\ AccessTypeOK
  /\ scene \notin {"codes", "company", "members"} => ReqInit

LEMMA TenantsInit == Init => TenantsInv
<1> SUFFICES ASSUME Init PROVE TenantsInv
  OBVIOUS
<1>1. ReqInit /\ CodesDB /\ CompanyDB /\ MembersDB /\ AccessDB
  BY DEF Init
<1>2. CodesInv /\ CompanyInv /\ MembersInv /\ AccessTypeOK
  BY <1>1, CodesInit, CompanyInit, MembersInitially, AccessInitially
<1> QED BY <1>1, <1>2 DEF TenantsInv, CodesScene, CompanyScene, MembersScene

\* What is left alone stays as it was.
LEMMA TenantsRest ==
  /\ (CodesDB /\ UNCHANGED codeVars) => CodesDB'
  /\ (CompanyDB /\ UNCHANGED company) => CompanyDB'
  /\ (MembersDB /\ UNCHANGED memberVars) => MembersDB'
  /\ (ReqInit /\ UNCHANGED reqVars) => ReqInit'
BY DEF CodesDB, codeVars, CompanyDB, MembersDB, memberVars, ReqInit, reqVars

LEMMA TenantsSteps == ASSUME TenantsInv, [Next]_vars PROVE TenantsInv'
<1> USE DEF TenantsInv, CodesScene, CompanyScene, MembersScene
<1>1. CASE /\ scene = "codes" /\ scene' = scene /\ CodesNext
           /\ UNCHANGED <<company, memberVars, accessVars>>
  <2>1. CodesInv' /\ CompanyDB' /\ MembersDB' /\ AccessTypeOK'
    BY <1>1, CodesSteps, TenantsRest, AccessSteps
  <2> QED BY <1>1, <2>1
<1>2. CASE /\ scene = "company" /\ scene' = scene /\ CompanyNext
           /\ UNCHANGED <<codeVars, memberVars, accessVars>>
  <2>1. CodesDB' /\ CompanyInv' /\ MembersDB' /\ AccessTypeOK'
    BY <1>2, CompanySteps, TenantsRest, AccessSteps
  <2> QED BY <1>2, <2>1
<1>3. CASE /\ scene = "members" /\ scene' = scene /\ MembersNext
           /\ UNCHANGED <<codeVars, company, accessVars>>
  <2>1. CodesDB' /\ CompanyDB' /\ MembersInv' /\ AccessTypeOK'
    BY <1>3, MembersSteps, TenantsRest, AccessSteps
  <2> QED BY <1>3, <2>1
<1>4. CASE /\ scene = "access" /\ scene' = scene /\ AccessNext
           /\ UNCHANGED <<reqVars, codeVars, company, memberVars>>
  <2>1. CodesDB' /\ CompanyDB' /\ MembersDB' /\ AccessTypeOK' /\ ReqInit'
    BY <1>4, TenantsRest, AccessSteps
  <2> QED BY <1>4, <2>1
<1>5. CASE UNCHANGED vars
  <2>1. scene' = scene /\ UNCHANGED <<reqVars, codeVars, company, memberVars, accessVars>>
    BY <1>5 DEF vars
  <2>2. /\ CodesInv => CodesInv'
        /\ CompanyInv => CompanyInv'
        /\ MembersInv => MembersInv'
        /\ AccessTypeOK'
    BY <2>1, CodesSteps, CompanySteps, MembersSteps, AccessSteps
  <2> QED BY <2>1, <2>2, TenantsRest
<1> QED BY <1>1, <1>2, <1>3, <1>4, <1>5 DEF Next

\* The rows that every part starts with have their types.
LEMMA FirstRows ==
  /\ CodesDB => CodesTypeOK
  /\ CompanyDB => company \in CompanyRows
  /\ MembersDB => /\ member \in [Users -> MemberRows]
                  /\ productMember \in [Users -> Requests \cup {Nothing}]
<1>1. NoCode \in CodeRows
  BY DEF NoCode, CodeRows
<1>2. CodesDB => CodesTypeOK
  BY <1>1 DEF CodesDB, CodesTypeOK
<1>3. CompanyDB => company \in CompanyRows
  BY DEF CompanyDB, CompanyRows, Statuses, Steps
<1>4. MembersDB => /\ member \in [Users -> MemberRows]
                   /\ productMember \in [Users -> Requests \cup {Nothing}]
  BY DEF MembersDB, MemberRows, Roles, MemberStatuses
<1> QED BY <1>2, <1>3, <1>4

\* Whichever part of the service is at work, the rows of all keep their types.
THEOREM TenantsTypeCorrect == Spec => []TypeOK
<1>1. TenantsInv => TypeOK
  <2> SUFFICES ASSUME TenantsInv PROVE TypeOK
    OBVIOUS
  <2>1. \A r \in Requests : req[r].op \in Deciding \cup {"advance"} /\ req[r].pc # "idle" =>
          scene = "company"
    <3> SUFFICES ASSUME NEW r \in Requests, req[r].op \in Deciding \cup {"advance"},
                        req[r].pc # "idle", scene # "company"
                 PROVE  FALSE
      OBVIOUS
    <3>1. CASE scene = "codes"
      BY <3>1 DEF TenantsInv, CodesScene, CodesInv, CallsTyped, CodeOps, Issuers, Guesses, Deciding
    <3>2. CASE scene = "members"
      BY <3>2 DEF TenantsInv, MembersScene, MembersInv, WishesTyped, MemberOps, Deciding
    <3>3. CASE scene \notin {"codes", "company", "members"}
      BY <3>3 DEF TenantsInv, ReqInit, NotBegun
    <3> QED BY <3>1, <3>2, <3>3
  <2>2. \A r \in Requests : req[r].op \in MemberOps => scene = "members"
    <3> SUFFICES ASSUME NEW r \in Requests, req[r].op \in MemberOps, scene # "members"
                 PROVE  FALSE
      OBVIOUS
    <3>1. CASE scene = "codes"
      <4>1. req[r].pc # "idle"
        BY <3>1 DEF TenantsInv, CodesScene, CodesInv, LogOK, NotBegun, MemberOps
      <4> QED BY <3>1, <4>1 DEF TenantsInv, CodesScene, CodesInv, CallsTyped, CodeOps,
                                Issuers, Guesses, MemberOps
    <3>2. CASE scene = "company"
      <4>1. req[r].pc # "idle"
        BY <3>2 DEF TenantsInv, CompanyScene, CompanyInv, LogOK, NotBegun, MemberOps
      <4> QED BY <3>2, <4>1 DEF TenantsInv, CompanyScene, CompanyInv, RequestsTyped, AllOps,
                                Deciding, MemberOps
    <3>3. CASE scene \notin {"codes", "company", "members"}
      BY <3>3 DEF TenantsInv, ReqInit, NotBegun, MemberOps
    <3> QED BY <3>1, <3>2, <3>3
  <2>3. CodesTypeOK
    <3>1. CASE scene = "codes" BY <3>1 DEF TenantsInv, CodesScene, CodesInv, CodesTypeOK
    <3>2. CASE scene # "codes" BY <3>2, FirstRows DEF TenantsInv, CodesScene
    <3> QED BY <3>1, <3>2
  <2>4. CompanyTypeOK
    <3>1. CASE scene = "company"
      BY <3>1 DEF TenantsInv, CompanyScene, CompanyInv, RequestsTyped, CompanyTypeOK
    <3>2. CASE scene # "company"
      BY <2>1, <3>2, FirstRows DEF TenantsInv, CompanyScene, CompanyTypeOK
    <3> QED BY <3>1, <3>2
  <2>5. MembersTypeOK
    <3>1. CASE scene = "members" BY <3>1, MembersTyped DEF TenantsInv, MembersScene
    <3>2. CASE scene # "members"
      BY <2>2, <3>2, FirstRows DEF TenantsInv, MembersScene, MembersTypeOK
    <3> QED BY <3>1, <3>2
  <2> QED BY <2>3, <2>4, <2>5 DEF TypeOK, TenantsInv
<1>2. TenantsInv /\ [Next]_vars => TenantsInv'
  BY TenantsSteps
<1> QED BY <1>1, <1>2, TenantsInit, PTL DEF Spec
=============================================================================
