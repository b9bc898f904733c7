---------------------------- MODULE OneTimeCodes ----------------------------
(***************************************************************************)
(* The emailed six-digit codes of one account: email verification, and     *)
(* password reset with the reset token that a code is exchanged for        *)
(* (AuthService.register to reset_password).                               *)
(*                                                                         *)
(* A code and a reset token are named by the request that created them.    *)
(* Codes of one kind have one time to live, so the newest expires last:    *)
(* an expired code is one that nobody presents any more.  A request that   *)
(* is refused on what it read changes nothing and is no step.              *)
(***************************************************************************)
EXTENDS Snapshots

CONSTANT OtpMaxAttempts   \* settings.otp_max_attempts

ASSUME CodesConstants == OtpMaxAttempts \in Nat

VARIABLES
  account,     \* users.status
  code,        \* code[r]  : the row in email_verification_otps or password_reset_otps
  resetToken   \* resetToken[r] : the row in password_reset_tokens

codeVars == <<account, code, resetToken>>

Kinds == {"email", "reset"}
CodeRows == [kind : Kinds \cup {"none"}, used : BOOLEAN, attempts : Nat, born : Nat]
NoCode == [kind |-> "none", used |-> FALSE, attempts |-> 0, born |-> 0]

Issuers == {"register", "resend", "forgot"}
Guesses == {"miss", "redeem"}

CodesDB ==
  /\ account = "absent"
  /\ code = [r \in Requests |-> NoCode]
  /\ resetToken = [r \in Requests |-> "none"]

-----------------------------------------------------------------------------
(* register, resend_verification, forgot_password.                         *)

\* The new code is inserted with the commit.
NewCode(r, kind) ==
  code' = [code EXCEPT ![r] = [kind |-> kind, used |-> FALSE, attempts |-> 0,
                               born |-> clock + 1]]

RegisterRead(r) ==
  account = "absent" /\ Begins(r, "register", Nothing, Nothing) /\ UNCHANGED codeVars

\* users.email is unique.
RegisterCommitted(r) ==
  /\ account = "absent"
  /\ Commits(r, "register")
  /\ NewCode(r, "email")
  /\ account' = "pending"
  /\ UNCHANGED resetToken

RegisterFailed(r) == account # "absent" /\ Fails(r, "register") /\ UNCHANGED codeVars

ResendRead(r) ==
  account = "pending" /\ Begins(r, "resend", Nothing, Nothing) /\ UNCHANGED codeVars

ForgotRead(r) ==
  account # "absent" /\ Begins(r, "forgot", Nothing, Nothing) /\ UNCHANGED codeVars

CodeSent(r, op, kind) ==
  Commits(r, op) /\ NewCode(r, kind) /\ UNCHANGED <<account, resetToken>>

-----------------------------------------------------------------------------
(* verify_email and verify_reset_otp.                                      *)

\* A variant of Newest without the order.
AnyUnused(kind, c) == code[c].kind = kind /\ ~code[c].used

\* The lookup: the latest code of the kind that is not used.
Newest(kind, c) ==
  LET unused == {d \in Requests : code[d].kind = kind /\ ~code[d].used} IN
  c \in unused /\ \A d \in unused : code[d].born <= code[c].born

\* A variant of GuessRead that counts guesses from one too late.
GuessReadLate(r, kind, c, op) ==
  /\ Newest(kind, c)
  /\ code[c].attempts <= OtpMaxAttempts
  /\ Begins(r, op, c, code[c])
  /\ UNCHANGED codeVars

\* The digits sent are those of the code found (redeem) or they are not.
GuessRead(r, kind, c, op) ==
  /\ Newest(kind, c)
  /\ code[c].attempts < OtpMaxAttempts
  /\ Begins(r, op, c, code[c])
  /\ UNCHANGED codeVars

\* attempts += 1 writes the loaded count plus one.
MissCommitted(r) ==
  /\ Commits(r, "miss")
  /\ code' = [code EXCEPT ![req[r].on].attempts = req[r].saw.attempts + 1]
  /\ UNCHANGED <<account, resetToken>>

RedeemCommitted(r) ==
  LET c == req[r].on IN
  /\ Commits(r, "redeem")
  /\ code' = [code EXCEPT ![c].used = TRUE]
  /\ IF code[c].kind = "email"
       THEN account' = "active" /\ UNCHANGED resetToken
       ELSE resetToken' = [resetToken EXCEPT ![r] = "live"] /\ UNCHANGED account

-----------------------------------------------------------------------------
(* reset_password.  What it ends is the subject of Sessions.               *)

ResetRead(r, t) ==
  resetToken[t] = "live" /\ Begins(r, "reset", t, Nothing) /\ UNCHANGED codeVars

\* A variant of ResetCommitted that leaves the token usable.
ResetCommittedAgain(r) == Commits(r, "reset") /\ UNCHANGED codeVars

ResetCommitted(r) ==
  /\ Commits(r, "reset")
  /\ resetToken' = [resetToken EXCEPT ![req[r].on] = "used"]
  /\ UNCHANGED <<account, code>>

-----------------------------------------------------------------------------
CodesRead(r) ==
  \/ RegisterRead(r)
  \/ ResendRead(r)
  \/ ForgotRead(r)
  \/ \E kind \in Kinds, c \in Requests, op \in Guesses : GuessRead(r, kind, c, op)
  \/ \E t \in Requests : ResetRead(r, t)

CodesCommit(r) ==
  \/ RegisterCommitted(r)
  \/ RegisterFailed(r)
  \/ CodeSent(r, "resend", "email")
  \/ CodeSent(r, "forgot", "reset")
  \/ MissCommitted(r)
  \/ RedeemCommitted(r)
  \/ ResetCommitted(r)

CodesNext == \E r \in Requests : CodesRead(r) \/ CodesCommit(r)

CodesSpec == ReqInit /\ CodesDB /\ [][CodesNext]_<<reqVars, codeVars>>

-----------------------------------------------------------------------------
CodesTypeOK ==
  /\ account \in {"absent", "pending", "active"}
  /\ code \in [Requests -> CodeRows]
  /\ resetToken \in [Requests -> {"none", "live", "used"}]

\* A code is redeemed once and a reset token sets one password, unless both
\* requests read it before either committed.
SecretsAreSingleUse ==
  \A p, q \in Requests :
    (/\ p # q
     /\ req[p].on = req[q].on
     /\ \E op \in {"redeem", "reset"} : Done(p, {op}) /\ Done(q, {op})) => Overlap(p, q)

GuessesOf(c) == {g \in Requests : Done(g, Guesses) /\ req[g].on = c}
Misses(c) == {g \in GuessesOf(c) : req[g].op = "miss"}
GuessesOverlap(c) == \E p, q \in GuessesOf(c) : p # q /\ Overlap(p, q)

\* otp_max_attempts bounds the wrong guesses that are evaluated against one code,
\* unless guesses overlap: then one can even write an earlier count back.
GuessesBounded ==
  \A c \in Requests : ~GuessesOverlap(c) => Cardinality(Misses(c)) <= OtpMaxAttempts

\* A new code replaces the older ones: one that is redeemed had no newer unused
\* code of its kind beside it when the redeemer read.
NewCodeReplacesOld ==
  \A r, d \in Requests :
    (/\ Done(r, {"redeem"})
     /\ code[d].kind = code[req[r].on].kind
     /\ code[d].born > code[req[r].on].born
     /\ code[d].born <= req[r].began)
      => \E q \in Requests : Done(q, {"redeem"}) /\ req[q].on = d /\ req[q].at <= req[r].began
=============================================================================
