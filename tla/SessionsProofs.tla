--------------------------- MODULE SessionsProofs ---------------------------
(***************************************************************************)
(* Proofs about Sessions, for any set of requests and any bound on those   *)
(* in flight.  The inductive invariant is IInv.  Every step is either the  *)
(* snapshot of one request, which leaves all tokens alone (ReadFrame), or  *)
(* its commit (CommitFrame); the conjuncts of IInv are shown from these    *)
(* two frames, and each action is shown to be an instance of its frame.    *)
(***************************************************************************)
EXTENDS Sessions, TLAPS

-----------------------------------------------------------------------------
(* The frames.                                                             *)

\* What every snapshot does: request r, idle so far, is now in flight, and its
\* snapshot supports what its commit is going to rely on.
ReadFrame(r) ==
  /\ req[r].pc = "idle"
  /\ req' \in [Requests -> ReqRows]
  /\ \A q \in Requests \ {r} : req'[q] = req[q]
  /\ req'[r].pc = "read"
  /\ req'[r].version = version
  /\ req'[r].began = clock
  /\ req'[r].saw \subseteq Issued
  /\ req'[r].op = "rotate" => Live(req'[r].uses)
  /\ req'[r].op = "reuse" =>
       /\ req'[r].uses \in Issued
       /\ \A t \in Issued :
            (token[t].family = token[req'[r].uses].family /\ Live(t)) => t \in req'[r].saw
  /\ req'[r].op \in Bumping => \A t \in Issued : Live(t) => t \in req'[r].saw
  /\ UNCHANGED <<token, version, clock>>

\* What every commit does: tokens are only ever revoked, and the one that r
\* issues is a new leaf below the token it replaces.
CommitFrame(r) ==
  /\ req[r].pc = "read"
  /\ clock' = clock + 1
  /\ req' = [q \in Requests |-> IF q # r THEN req[q] ELSE
               [pc |-> "done", op |-> req[r].op, uses |-> req[r].uses, saw |-> req[r].saw,
                version |-> req[r].version, began |-> req[r].began, at |-> clock + 1]]
  /\ token' \in [Requests -> TokenRows]
  /\ \A q \in Requests \ {r} :
       /\ token'[q].family = token[q].family
       /\ token'[q].parent = token[q].parent
       /\ token'[q].state = "none" <=> token[q].state = "none"
       /\ token'[q].state = "live" => token[q].state = "live"
  /\ req[r].op \notin Issuing => token'[r] = token[r]
  /\ req[r].op = "login" =>
       token'[r].state = "live" /\ token'[r].family = r /\ token'[r].parent = r
  /\ req[r].op = "rotate" =>
       /\ token'[r].state = "live"
       /\ token'[r].family = token[req[r].uses].family
       /\ token'[r].parent = req[r].uses
       /\ token'[req[r].uses].state = "revoked"
  /\ req[r].op \in Bumping \cup {"reuse"} =>
       \A t \in req[r].saw : token'[t].state = "revoked"
  /\ version' = IF req[r].op \in Bumping THEN req[r].version + 1 ELSE version

-----------------------------------------------------------------------------
(* Snapshots.                                                              *)

LEMMA ReadKeepsLineage ==
  ASSUME IInv, NEW r \in Requests, ReadFrame(r)
  PROVE  TypeOK' /\ Lineage'
<1>1. TypeOK'
  BY DEF IInv, TypeOK, ReadFrame
<1>2. \A q \in Requests : Done(q, Issuing)' <=> Done(q, Issuing)
  BY DEF ReadFrame, Done
<1>3. Lineage'
  BY <1>2 DEF IInv, Lineage, ReadFrame, Issued
<1> QED BY <1>1, <1>3

\* Issued tokens belong to finished requests, and those keep their records.
LEMMA ReadKeepsFinished ==
  ASSUME IInv, NEW r \in Requests, ReadFrame(r)
  PROVE  /\ Issued' = Issued
         /\ r \notin Issued
         /\ \A q \in Issued : q \in Requests /\ req'[q] = req[q]
         /\ \A q \in Requests : req[q].pc = "done" => req'[q] = req[q] /\ q # r
         /\ \A q \in Requests : req'[q].pc = "done" => req'[q] = req[q] /\ q # r
<1>1. Issued' = Issued
  BY DEF ReadFrame, Issued
<1>2. \A q \in Issued : q \in Requests /\ req[q].pc = "done"
  BY DEF IInv, Lineage, Issued, Done
<1>3. \A q \in Requests : req[q].pc = "done" => req'[q] = req[q] /\ q # r
  BY DEF ReadFrame
<1>4. \A q \in Requests : req'[q].pc = "done" => req'[q] = req[q] /\ q # r
  BY DEF ReadFrame
<1>5. r \notin Issued
  BY <1>2 DEF ReadFrame
<1> QED BY <1>1, <1>2, <1>3, <1>4, <1>5

LEMMA ReadKeepsInFlight ==
  ASSUME IInv, NEW r \in Requests, ReadFrame(r)
  PROVE  InFlight'
<1>1. \A q \in Requests :
        /\ (req[q].pc = "read" => req[q].began <= clock)'
        /\ (req[q].pc = "done" => req[q].began < req[q].at /\ req[q].at <= clock)'
        /\ ((req[q].pc # "idle" /\ req[q].op \in {"rotate", "reuse"}) => req[q].uses \in Issued)'
        /\ (req[q].saw \subseteq Issued)'
  <2> TAKE q \in Requests
  <2>1. CASE q # r
    BY <2>1, ReadKeepsFinished DEF IInv, InFlight, ReadFrame
  <2>2. CASE q = r
    <3>1. req'[r].op = "rotate" => req'[r].uses \in Issued
      BY DEF ReadFrame, Live, Issued, ReqRows
    <3> QED BY <2>2, <3>1, ReadKeepsFinished DEF ReadFrame, IInv, TypeOK
  <2> QED BY <2>1, <2>2
<1>2. ASSUME NEW q \in Requests, NEW u \in Requests,
             req'[q].pc = "read", req'[q].op = "rotate", u \in Issued',
             u # req'[q].uses, token'[u].parent = req'[q].uses
      PROVE  req'[u].at > req'[q].began
  <2>1. u \in Issued /\ req'[u] = req[u] /\ token' = token
    BY <1>2, ReadKeepsFinished DEF ReadFrame
  <2>2. CASE q # r
    BY <1>2, <2>1, <2>2 DEF ReadFrame, IInv, InFlight
  <2>3. CASE q = r
    \* A live token has no children.
    <3>1. token[req'[r].uses].state = "live"
      BY <1>2, <2>3 DEF ReadFrame, Live
    <3>2. token[token[u].parent].state = "revoked"
      BY <1>2, <2>1 DEF IInv, Lineage
    <3> QED BY <1>2, <2>1, <2>3, <3>1, <3>2
  <2> QED BY <2>2, <2>3
<1>3. ASSUME NEW e \in Requests, req'[e].pc = "read", req'[e].op \in Bumping \cup {"reuse"},
             NEW t \in Ended(e)', Live(t)'
      PROVE  t \in req'[e].saw \/ req'[t].at > req'[e].began
  <2>1. t \in Issued /\ t \in Requests /\ req'[t] = req[t] /\ token' = token /\ Live(t)
    BY <1>3, ReadKeepsFinished DEF ReadFrame, Ended, Family, Live, Issued
  <2>2. CASE e # r
    <3>1. t \in Ended(e) /\ req'[e] = req[e]
      BY <1>3, <2>1, <2>2 DEF ReadFrame, Ended, Family, Issued
    <3> QED BY <1>3, <2>1, <3>1 DEF IInv, InFlight
  <2>3. CASE e = r
    <3>1. req'[r].op = "reuse" => token[t].family = token[req'[r].uses].family
      BY <1>3, <2>1, <2>3 DEF Ended, Family
    <3> QED BY <1>3, <2>1, <2>3, <3>1 DEF ReadFrame
  <2> QED BY <2>2, <2>3
<1> QED BY <1>1, <1>2, <1>3 DEF InFlight

LEMMA ReadKeepsRest ==
  ASSUME IInv, NEW r \in Requests, ReadFrame(r)
  PROVE  SiblingsOverlap' /\ OneLeafPerFamily' /\ EndingsAreComplete' /\ VersionsGrow'
<1>t. token' = token /\ version' = version /\ clock' = clock
  BY DEF ReadFrame
<1>1. SiblingsOverlap'
  BY <1>t, ReadKeepsFinished DEF IInv, SiblingsOverlap, Siblings, Overlap
<1>2. OneLeafPerFamily'
  BY <1>t DEF IInv, OneLeafPerFamily, Leaf, Siblings, Family, Issued
<1>3. ASSUME NEW e \in Requests, Done(e, Bumping \cup {"reuse"})', NEW t \in Ended(e)', Live(t)'
      PROVE  (req[t].at > req[e].began)'
  <2>1. Done(e, Bumping \cup {"reuse"}) /\ req'[e] = req[e]
    BY <1>3, ReadKeepsFinished DEF Done
  <2>2. t \in Ended(e) /\ Live(t)
    BY <1>3, <1>t, <2>1 DEF Ended, Family, Issued, Live
  <2>3. t \in Issued
    BY <2>2 DEF Ended, Family
  <2>4. req[t].at > req[e].began
    BY <2>1, <2>2 DEF IInv, EndingsAreComplete
  <2> QED BY <2>1, <2>3, <2>4, ReadKeepsFinished
<1>4. EndingsAreComplete'
  BY <1>3 DEF EndingsAreComplete
<1>5. \A e \in Requests : Done(e, Bumping)' <=> Done(e, Bumping)
  BY ReadKeepsFinished DEF Done
<1>6. ~BumpsOverlap' => ~BumpsOverlap
  BY <1>5, ReadKeepsFinished DEF BumpsOverlap, Overlap, Done
<1>7. ASSUME ~BumpsOverlap', NEW q \in Requests, req'[q].pc # "idle"
      PROVE  /\ req'[q].version <= version
             /\ req'[q].version = version
                  <=> ~\E e \in Requests : Done(e, Bumping)' /\ req'[e].at > req'[q].began
  <2>1. \A e \in Requests : Done(e, Bumping) => req'[e] = req[e]
    BY ReadKeepsFinished DEF Done
  <2>2. CASE q # r
    BY <1>5, <1>6, <1>7, <2>1, <2>2 DEF ReadFrame, IInv, VersionsGrow
  <2>3. CASE q = r
    <3>1. \A e \in Requests : Done(e, Bumping) => ~(req[e].at > clock)
      BY DEF IInv, InFlight, Done, TypeOK, ReqRows
    <3> QED BY <1>5, <2>1, <2>3, <3>1 DEF ReadFrame, IInv, TypeOK
  <2> QED BY <2>2, <2>3
<1>8. VersionsGrow'
  BY <1>7, <1>t DEF VersionsGrow
<1> QED BY <1>1, <1>2, <1>4, <1>8

-----------------------------------------------------------------------------
(* Commits.                                                                *)

\* What the commit of r means for the tables.
LEMMA CommitEffect ==
  ASSUME IInv, NEW r \in Requests, CommitFrame(r)
  PROVE  /\ r \notin Issued
         /\ Issued' = IF req[r].op \in Issuing THEN Issued \cup {r} ELSE Issued
         /\ \A q \in Requests \ {r} : req'[q] = req[q]
         /\ req'[r].pc = "done" /\ req'[r].at = clock + 1 /\ clock' = clock + 1
         /\ req'[r].op = req[r].op /\ req'[r].uses = req[r].uses
         /\ req'[r].saw = req[r].saw /\ req'[r].version = req[r].version
         /\ req'[r].began = req[r].began
         /\ \A t \in Issued : /\ t \in Requests /\ t # r
                             /\ req'[t] = req[t]
                             /\ req[t].pc = "done"
         /\ clock \in Nat /\ req[r].began \in Nat /\ req[r].began <= clock
         /\ \A q \in Requests : req[q].pc = "done" => req[q].at <= clock
<1>1. r \notin Issued
  BY DEF IInv, Lineage, Done, CommitFrame
<1>2. Issued' \ {r} = Issued \ {r}
  BY DEF Issued, CommitFrame
<1>3. r \in Issued' <=> req[r].op \in Issuing
  <2>1. req[r].op \in Issuing => token'[r].state = "live"
    BY DEF CommitFrame, Issuing
  <2>2. req[r].op \notin Issuing => token'[r] = token[r]
    BY DEF CommitFrame
  <2> QED BY <1>1, <2>1, <2>2 DEF Issued
<1>4. Issued' = IF req[r].op \in Issuing THEN Issued \cup {r} ELSE Issued
  BY <1>1, <1>2, <1>3
<1>5. \A q \in Requests \ {r} : req'[q] = req[q]
  BY DEF CommitFrame
<1>6. /\ req'[r].pc = "done" /\ req'[r].at = clock + 1 /\ clock' = clock + 1
      /\ req'[r].op = req[r].op /\ req'[r].uses = req[r].uses
      /\ req'[r].saw = req[r].saw /\ req'[r].version = req[r].version
      /\ req'[r].began = req[r].began
  BY DEF CommitFrame
<1>7. ASSUME NEW t \in Issued
      PROVE  /\ t \in Requests /\ t # r
             /\ req[t].pc = "done"
  BY <1>1, <1>7 DEF IInv, Lineage, Issued, Done
<1>8. clock \in Nat /\ req[r].began \in Nat /\ req[r].began <= clock
  BY DEF IInv, TypeOK, InFlight, CommitFrame, ReqRows
<1>9. \A q \in Requests : req[q].pc = "done" => req[q].at <= clock
  BY DEF IInv, InFlight
<1> QED BY <1>1, <1>4, <1>5, <1>6, <1>7, <1>8, <1>9

LEMMA CommitTokens ==
  ASSUME IInv, NEW r \in Requests, CommitFrame(r), NEW t \in Issued
  PROVE  /\ token'[t].family = token[t].family
         /\ token'[t].parent = token[t].parent
         /\ token'[t].state = "live" => token[t].state = "live"
         /\ token[t].state = "revoked" => token'[t].state = "revoked"
<1>1. t \in Requests \ {r}
  BY CommitEffect
<1>2. token[t].state # "none" /\ token'[t] \in TokenRows
  BY <1>1 DEF Issued, CommitFrame
<1> QED BY <1>1, <1>2 DEF CommitFrame, TokenRows

\* A rotation descends from an issued token.
LEMMA CommitParent ==
  ASSUME IInv, NEW r \in Requests, CommitFrame(r)
  PROVE  /\ req[r].op \in {"rotate", "reuse"} => req[r].uses \in Issued /\ req[r].uses # r
         /\ req[r].saw \subseteq Issued
<1>1. req[r].op \in {"rotate", "reuse"} => req[r].uses \in Issued
  BY DEF IInv, InFlight, CommitFrame
<1> QED BY <1>1, CommitEffect DEF IInv, InFlight

LEMMA CommitKeepsType ==
  ASSUME IInv, NEW r \in Requests, CommitFrame(r)
  PROVE  TypeOK'
<1>1. req' \in [Requests -> ReqRows]
  <2>0. req[r] \in ReqRows /\ clock + 1 \in Nat
    BY DEF IInv, TypeOK
  <2>1. req'[r] \in ReqRows
    BY <2>0 DEF CommitFrame, ReqRows
  <2>2. \A q \in Requests \ {r} : req'[q] \in ReqRows
    BY DEF CommitFrame, IInv, TypeOK
  <2> QED BY <2>1, <2>2 DEF CommitFrame
<1>2. version' \in Nat
  BY DEF CommitFrame, IInv, TypeOK, ReqRows
<1> QED BY <1>1, <1>2 DEF CommitFrame, IInv, TypeOK

LEMMA CommitKeepsLineage ==
  ASSUME IInv, NEW r \in Requests, CommitFrame(r)
  PROVE  Lineage'
<1>1. ASSUME NEW q \in Requests
      PROVE  q \in Issued' <=> Done(q, Issuing)'
  <2>1. CASE q = r
    BY <2>1, CommitEffect, r \in Requests DEF Done, IInv, TypeOK, ReqRows
  <2>2. CASE q # r
    BY <2>2, CommitEffect DEF Done, IInv, Lineage
  <2> QED BY <2>1, <2>2
<1>2. ASSUME NEW t \in Issued'
      PROVE  /\ token'[t].family \in Issued'
             /\ token'[t].parent \in Issued'
             /\ token'[token'[t].parent].family = token'[t].family
             /\ token'[t].parent # t => token'[token'[t].parent].state = "revoked"
  <2>1. CASE t \in Issued
    <3>1. /\ token[t].family \in Issued
          /\ token[t].parent \in Issued
          /\ token[token[t].parent].family = token[t].family
          /\ token[t].parent # t => token[token[t].parent].state = "revoked"
      BY <2>1 DEF IInv, Lineage
    <3> DEFINE p == token[t].parent
    <3>2. token'[t].family = token[t].family /\ token'[t].parent = p
      BY <2>1, CommitTokens
    <3>3. token'[p].family = token[p].family
      BY <3>1, CommitTokens
    <3>4. token[p].state = "revoked" => token'[p].state = "revoked"
      BY <3>1, CommitTokens
    <3>5. Issued \subseteq Issued'
      BY CommitEffect
    <3> HIDE DEF p
    <3> QED BY <3>1, <3>2, <3>3, <3>4, <3>5 DEF p
  <2>2. CASE t = r /\ req[r].op = "login"
    BY <1>2, <2>2 DEF CommitFrame
  <2>3. CASE t = r /\ req[r].op = "rotate"
    <3> DEFINE p == req[r].uses
    <3>1. p \in Issued /\ p # r
      BY <2>3, CommitParent
    <3>2. token[p].family \in Issued
      BY <3>1 DEF IInv, Lineage
    <3>3. token'[p].family = token[p].family
      BY <3>1, CommitTokens
    <3>4. /\ token'[r].family = token[p].family
          /\ token'[r].parent = p
          /\ token'[p].state = "revoked"
      BY <2>3 DEF CommitFrame
    <3>5. Issued \subseteq Issued'
      BY CommitEffect
    <3> HIDE DEF p
    <3> QED BY <2>3, <3>1, <3>2, <3>3, <3>4, <3>5
  <2> QED BY <1>2, <2>1, <2>2, <2>3, CommitEffect DEF Issuing
<1> QED BY <1>1, <1>2 DEF Lineage

LEMMA CommitKeepsInFlight ==
  ASSUME IInv, NEW r \in Requests, CommitFrame(r)
  PROVE  InFlight'
<1>1. \A q \in Requests :
        /\ (req[q].pc = "read" => req[q].began <= clock)'
        /\ (req[q].pc = "done" => req[q].began < req[q].at /\ req[q].at <= clock)'
        /\ ((req[q].pc # "idle" /\ req[q].op \in {"rotate", "reuse"}) => req[q].uses \in Issued)'
        /\ (req[q].saw \subseteq Issued)'
  <2> TAKE q \in Requests
  <2>1. req[q] \in ReqRows /\ clock' = clock + 1 /\ clock \in Nat
    BY DEF IInv, TypeOK, CommitFrame
  <2>2. CASE q # r
    BY <2>1, <2>2, CommitEffect DEF IInv, InFlight, ReqRows
  <2>3. CASE q = r
    <3>1. req[r].op \in {"rotate", "reuse"} => req[r].uses \in Issued
      BY CommitParent
    <3>2. req[r].saw \subseteq Issued
      BY CommitParent
    <3>3. Issued \subseteq Issued'
      BY CommitEffect
    <3>4. req[r].began < clock + 1
      BY CommitEffect
    <3> QED BY <2>1, <2>3, <3>1, <3>2, <3>3, <3>4, CommitEffect
  <2> QED BY <2>2, <2>3
<1>2. ASSUME NEW q \in Requests, NEW u \in Requests,
             req'[q].pc = "read", req'[q].op = "rotate", u \in Issued',
             u # req'[q].uses, token'[u].parent = req'[q].uses
      PROVE  req'[u].at > req'[q].began
  <2>1. q # r /\ req'[q] = req[q] /\ req[q] \in ReqRows
    BY <1>2, CommitEffect DEF IInv, TypeOK, ReqRows
  <2>2. CASE u \in Issued
    <3>1. token[u].parent = req[q].uses
      BY <1>2, <2>1, <2>2, CommitTokens
    <3>2. req[u].at > req[q].began
      BY <1>2, <2>1, <2>2, <3>1 DEF IInv, InFlight
    <3> QED BY <2>1, <2>2, <3>2, CommitEffect
  <2>3. CASE u = r
    <3>1. req[q].began <= clock /\ req'[r].at = clock + 1
      BY <1>2, <2>1, CommitEffect DEF IInv, InFlight, TypeOK, ReqRows
    <3> QED BY <2>1, <2>3, <3>1, CommitEffect DEF ReqRows
  <2> QED BY <1>2, <2>2, <2>3, CommitEffect
<1>3. ASSUME NEW e \in Requests, req'[e].pc = "read", req'[e].op \in Bumping \cup {"reuse"},
             NEW t \in Issued', token'[t].state = "live",
             req'[e].op = "reuse" => token'[t].family = token'[req'[e].uses].family
      PROVE  t \in req'[e].saw \/ req'[t].at > req'[e].began
  <2>1. e # r /\ req'[e] = req[e]
    BY <1>3, CommitEffect
  <2>2. CASE t \in Issued
    <3>1. req[e].op = "reuse" => req[e].uses \in Issued
      BY <1>3, <2>1 DEF IInv, InFlight
    <3>2. req[e].op = "reuse" => token[t].family = token[req[e].uses].family
      BY <1>3, <2>1, <2>2, <3>1, CommitTokens
    <3>3. t \in Ended(e)
      BY <2>2, <3>2 DEF Ended, Family
    <3>4. Live(t)
      BY <1>3, <2>2, CommitTokens DEF Live
    <3>5. t \in req[e].saw \/ req[t].at > req[e].began
      BY <1>3, <2>1, <3>3, <3>4 DEF IInv, InFlight
    <3> QED BY <2>1, <2>2, <3>5, CommitEffect
  <2>3. CASE t = r
    <3>1. req[e].began <= clock /\ req[e].began \in Nat
      BY <1>3, <2>1 DEF IInv, InFlight, TypeOK, ReqRows
    <3> QED BY <2>1, <2>3, <3>1, CommitEffect
  <2> QED BY <1>3, <2>2, <2>3, CommitEffect
<1>4. \A e \in Requests : (req'[e].pc = "read" /\ req'[e].op \in Bumping \cup {"reuse"}) =>
        \A t \in Ended(e)' : Live(t)' => t \in req'[e].saw \/ req'[t].at > req'[e].began
  BY <1>3 DEF Ended, Family, Live
<1> QED BY <1>1, <1>2, <1>4 DEF InFlight

LEMMA CommitKeepsSiblingsOverlap ==
  ASSUME IInv, NEW r \in Requests, CommitFrame(r)
  PROVE  SiblingsOverlap'
<1>1. ASSUME NEW u \in Issued, token'[r].parent = token[u].parent,
             token'[r].parent # r, u # token[u].parent, r \in Issued'
      PROVE  /\ req'[r].began < req'[u].at
             /\ req'[u].began < req'[r].at
  <2>1. req[r].op \in Issuing
    BY <1>1, CommitEffect
  <2>2. req[r].op = "rotate"
    BY <1>1, <2>1 DEF Issuing, CommitFrame
  <2>3. token[u].parent = req[r].uses
    BY <1>1, <2>2 DEF CommitFrame
  <2>4. u \in Requests /\ req'[u] = req[u] /\ req[u].pc = "done"
    BY <1>1, CommitEffect
  <2>5. req[u].at > req[r].began
    BY <1>1, <2>2, <2>3, <2>4 DEF IInv, InFlight, CommitFrame
  <2>6. req[u].began < req[u].at /\ req[u].at <= clock /\ req[u] \in ReqRows
    BY <2>4 DEF IInv, InFlight, TypeOK
  <2> QED BY <2>4, <2>5, <2>6, CommitEffect DEF ReqRows
<1>2. ASSUME NEW t \in Issued, NEW u \in Issued, t # u, token[t].parent = token[u].parent,
             token[t].parent \notin {t, u}
      PROVE  /\ req'[t].began < req'[u].at
             /\ req'[u].began < req'[t].at
  <2>1. t \in Requests /\ req'[t] = req[t] /\ u \in Requests /\ req'[u] = req[u]
    BY CommitEffect
  <2>2. Overlap(t, u)
    BY <1>2, <2>1 DEF IInv, SiblingsOverlap, Siblings
  <2> QED BY <2>1, <2>2 DEF Overlap
<1>3. ASSUME NEW t \in Issued', NEW u \in Issued', t # u, token'[t].parent = token'[u].parent,
             token'[t].parent \notin {t, u}
      PROVE  /\ req'[t].began < req'[u].at
             /\ req'[u].began < req'[t].at
  <2>1. (t \in Issued \/ t = r) /\ (u \in Issued \/ u = r)
    BY CommitEffect
  <2>2. CASE t \in Issued /\ u \in Issued
    <3>1. token'[t].parent = token[t].parent /\ token'[u].parent = token[u].parent
      BY <2>2, CommitTokens
    <3> QED BY <1>2, <1>3, <2>2, <3>1
  <2>3. CASE t \in Issued /\ u = r
    <3>1. token'[t].parent = token[t].parent
      BY <2>3, CommitTokens
    <3> QED BY <1>1, <1>3, <2>3, <3>1
  <2>4. CASE t = r /\ u \in Issued
    <3>1. token'[u].parent = token[u].parent
      BY <2>4, CommitTokens
    <3> QED BY <1>1, <1>3, <2>4, <3>1
  <2> QED BY <1>3, <2>1, <2>2, <2>3, <2>4
<1> QED BY <1>3 DEF SiblingsOverlap, Siblings, Overlap

\* A rotation replaces the leaf that it revokes; where it revokes an inner token
\* again, that token now has two children.
LEMMA CommitKeepsOneLeaf ==
  ASSUME IInv, NEW r \in Requests, CommitFrame(r)
  PROVE  OneLeafPerFamily'
<1> DEFINE SiblingsIn(f) ==
             \E p, q \in Issued' :
                /\ token'[p].family = f /\ token'[q].family = f
                /\ p # q
                /\ token'[p].parent = token'[q].parent
                /\ token'[p].parent \notin {p, q}
           NewLeaf(t) == \A u \in Issued' : u # t => token'[u].parent # t
<1>0. Issued \subseteq Issued'
  BY CommitEffect
<1>1. ASSUME NEW t \in Issued, NewLeaf(t) PROVE Leaf(t)
  <2>1. \A u \in Issued : token'[u].parent = token[u].parent
    BY CommitTokens
  <2> QED BY <1>0, <1>1, <2>1 DEF Leaf
<1>2. ASSUME NEW t \in Issued, NEW u \in Issued, t # u, Leaf(t), Leaf(u),
             token[t].family = token[u].family
      PROVE  SiblingsIn(token[t].family)
  <2>1. PICK p, q \in Family(t) : Siblings(p, q)
    BY <1>2 DEF IInv, OneLeafPerFamily
  <2>2. p \in Issued /\ q \in Issued
    BY DEF Family
  <2>3. /\ token'[p].family = token[p].family /\ token'[q].family = token[q].family
        /\ token'[p].parent = token[p].parent /\ token'[q].parent = token[q].parent
    BY <2>2, CommitTokens
  <2> QED BY <1>0, <2>1, <2>2, <2>3 DEF Family, Siblings
<1>3. ASSUME NEW u \in Issued, r \in Issued', NewLeaf(u), token[u].family = token'[r].family
      PROVE  SiblingsIn(token[u].family)
  <2>1. req[r].op # "login"
    \* A login begins a family of its own.
    <3>1. token[u].family \in Issued /\ r \notin Issued
      BY CommitEffect DEF IInv, Lineage
    <3> QED BY <1>3, <3>1 DEF CommitFrame
  <2>2. req[r].op = "rotate"
    BY <1>3, <2>1, CommitEffect DEF Issuing
  <2> DEFINE p == req[r].uses
  <2>3. p \in Issued /\ p # r
    BY <2>2, CommitParent
  <2>4. token'[r].parent = p /\ token'[r].family = token[p].family
    BY <2>2 DEF CommitFrame
  <2> HIDE DEF p
  <2>5. u # p
    BY <1>3, <2>3, <2>4
  <2>6. CASE Leaf(p)
    <3>1. Leaf(u)
      BY <1>1, <1>3
    <3> QED BY <1>2, <1>3, <2>3, <2>4, <2>5, <2>6, <3>1
  <2>7. CASE ~Leaf(p)
    <3>1. PICK c \in Issued : c # p /\ token[c].parent = p
      BY <2>7 DEF Leaf
    <3>2. token[c].family = token[p].family
      BY <3>1 DEF IInv, Lineage
    <3>3. token'[c].family = token[c].family /\ token'[c].parent = p
      BY <3>1, CommitTokens
    <3>4. c # r
      BY CommitEffect
    <3> QED BY <1>0, <1>3, <2>3, <2>4, <3>1, <3>2, <3>3, <3>4
  <2> QED BY <2>6, <2>7
<1>4. ASSUME NEW t \in Issued', NEW u \in Issued', t # u, NewLeaf(t), NewLeaf(u),
             token'[t].family = token'[u].family
      PROVE  SiblingsIn(token'[t].family)
  <2>1. (t \in Issued \/ t = r) /\ (u \in Issued \/ u = r)
    BY CommitEffect
  <2> HIDE DEF SiblingsIn, NewLeaf
  <2>2. CASE t \in Issued /\ u \in Issued
    <3>1. token'[t].family = token[t].family /\ token'[u].family = token[u].family
      BY <2>2, CommitTokens
    <3> QED BY <1>1, <1>2, <1>4, <2>2, <3>1
  <2>3. CASE t \in Issued /\ u = r
    <3>1. token'[t].family = token[t].family
      BY <2>3, CommitTokens
    <3> QED BY <1>3, <1>4, <2>3, <3>1
  <2>4. CASE t = r /\ u \in Issued
    <3>1. token'[u].family = token[u].family
      BY <2>4, CommitTokens
    <3> QED BY <1>3, <1>4, <2>4, <3>1
  <2> QED BY <1>4, <2>1, <2>2, <2>3, <2>4
<1> QED BY <1>4 DEF OneLeafPerFamily, Leaf, Family, Siblings

LEMMA CommitKeepsEndings ==
  ASSUME IInv, NEW r \in Requests, CommitFrame(r)
  PROVE  EndingsAreComplete'
<1>1. ASSUME NEW e \in Requests, req'[e].pc = "done", req'[e].op \in Bumping \cup {"reuse"},
             NEW t \in Issued', token'[t].state = "live",
             req'[e].op = "reuse" => token'[t].family = token'[req'[e].uses].family
      PROVE  req'[t].at > req'[e].began
  <2>1. req[e].op = req'[e].op /\ req[e].uses = req'[e].uses /\ req[e].began = req'[e].began
    BY CommitEffect
  <2>2. req[e].pc # "idle"
    BY <1>1, CommitEffect DEF CommitFrame
  <2>3. req[e].began \in Nat /\ req[e].began <= clock
    BY <2>2 DEF IInv, TypeOK, InFlight, ReqRows
  <2>4. CASE t \in Issued
    <3>1. req[e].op = "reuse" => req[e].uses \in Issued
      BY <1>1, <2>1, <2>2 DEF IInv, InFlight
    <3>2. req[e].op = "reuse" => token[t].family = token[req[e].uses].family
      BY <1>1, <2>1, <2>4, <3>1, CommitTokens
    <3>3. t \in Ended(e)
      BY <2>4, <3>2 DEF Ended, Family
    <3>4. Live(t)
      BY <1>1, <2>4, CommitTokens DEF Live
    <3>5. req[t].at > req[e].began
      <4>1. CASE e # r
        <5>1. Done(e, Bumping \cup {"reuse"})
          BY <1>1, <4>1, CommitEffect DEF Done
        <5> QED BY <3>3, <3>4, <5>1 DEF IInv, EndingsAreComplete
      <4>2. CASE e = r
        <5>1. t \notin req[r].saw
          BY <1>1, <2>1, <4>2 DEF CommitFrame
        <5>2. req[r].pc = "read"
          BY DEF CommitFrame
        <5> QED BY <1>1, <2>1, <3>3, <3>4, <4>2, <5>1, <5>2 DEF IInv, InFlight
      <4> QED BY <4>1, <4>2
    <3> QED BY <2>1, <2>4, <3>5, CommitEffect
  <2>5. CASE t = r
    BY <2>1, <2>3, <2>5, CommitEffect
  <2> QED BY <1>1, <2>4, <2>5, CommitEffect
<1> QED BY <1>1 DEF EndingsAreComplete, Done, Ended, Family, Live

\* A bump that overlaps no other writes the current version plus one.
LEMMA CommitKeepsVersions ==
  ASSUME IInv, NEW r \in Requests, CommitFrame(r)
  PROVE  VersionsGrow'
<1> DEFINE Bumped(e) == req'[e].pc = "done" /\ req'[e].op \in Bumping
<1>1. SUFFICES ASSUME ~BumpsOverlap', NEW q \in Requests, req'[q].pc # "idle"
               PROVE  /\ req'[q].version <= version'
                      /\ req'[q].version = version'
                           <=> ~\E e \in Requests : Bumped(e) /\ req'[e].at > req'[q].began
  BY DEF VersionsGrow, Done
<1>2. \A e \in Requests : Done(e, Bumping) => e # r /\ req'[e] = req[e] /\ Bumped(e)
  BY CommitEffect DEF Done, CommitFrame
<1>3. \A e \in Requests : (Bumped(e) /\ e # r) => Done(e, Bumping)
  BY CommitEffect DEF Done
<1>4. ~BumpsOverlap
  BY <1>1, <1>2 DEF BumpsOverlap, Overlap, Done
<1>5. /\ req[q].version = req'[q].version /\ req[q].began = req'[q].began
      /\ req[q].pc # "idle"
  BY <1>1, CommitEffect DEF CommitFrame
<1>6. /\ req[q].version <= version
      /\ req[q].version = version
           <=> ~\E e \in Requests : Done(e, Bumping) /\ req[e].at > req[q].began
  BY <1>4, <1>5 DEF IInv, VersionsGrow
<1>7. CASE req[r].op \notin Bumping
  <2>1. version' = version
    BY <1>7 DEF CommitFrame
  <2>2. ~Bumped(r)
    BY <1>7, CommitEffect
  <2>3. (\E e \in Requests : Bumped(e) /\ req'[e].at > req'[q].began)
          <=> \E e \in Requests : Done(e, Bumping) /\ req[e].at > req[q].began
    <3> HIDE DEF Bumped
    <3> QED BY <1>2, <1>3, <1>5, <2>2
  <2> QED BY <1>5, <1>6, <2>1, <2>3
<1>8. CASE req[r].op \in Bumping
  <2>1. Bumped(r) /\ req'[r].at = clock + 1 /\ req'[r].began = req[r].began
    BY <1>8, CommitEffect
  <2>2. ASSUME NEW e \in Requests, Done(e, Bumping) PROVE ~(req[e].at > req[r].began)
    <3>1. e # r /\ req'[e] = req[e] /\ Bumped(e)
      BY <1>2, <2>2
    <3>2. req[e].began < req[e].at /\ req[e].at <= clock /\ req[e] \in ReqRows
      BY <2>2 DEF IInv, InFlight, TypeOK, Done
    <3>3. req'[e].began < req'[r].at
      BY <2>1, <3>1, <3>2, CommitEffect DEF ReqRows
    <3>4. ~(req'[r].began < req'[e].at)
      BY <1>1, <2>1, <3>1, <3>3 DEF BumpsOverlap, Overlap, Done
    <3> QED BY <2>1, <3>1, <3>2, <3>4, CommitEffect DEF ReqRows
  <2>3. req[r].version = version
    BY <1>4, <2>2 DEF IInv, VersionsGrow, CommitFrame
  <2>4. version' = version + 1 /\ version \in Nat /\ req[q].version \in Nat
    BY <1>8, <2>3 DEF CommitFrame, IInv, TypeOK, ReqRows
  <2>5. req[q].began <= clock /\ req[q].began \in Nat
    BY <1>5 DEF IInv, InFlight, TypeOK, ReqRows
  <2>6. Bumped(r) /\ req'[r].at > req'[q].began
    BY <1>5, <2>1, <2>5, CommitEffect
  <2> HIDE DEF Bumped
  <2> QED BY <1>5, <1>6, <2>4, <2>6
<1> QED BY <1>7, <1>8

LEMMA ReadFrameIInv ==
  ASSUME IInv, NEW r \in Requests, ReadFrame(r)
  PROVE  IInv'
BY ReadKeepsLineage, ReadKeepsInFlight, ReadKeepsRest DEF IInv

LEMMA CommitFrameIInv ==
  ASSUME IInv, NEW r \in Requests, CommitFrame(r)
  PROVE  IInv'
BY CommitKeepsType, CommitKeepsLineage, CommitKeepsInFlight, CommitKeepsSiblingsOverlap,
   CommitKeepsOneLeaf, CommitKeepsEndings, CommitKeepsVersions DEF IInv

-----------------------------------------------------------------------------
(* Every action is an instance of its frame.                               *)

LEMMA ReadsFrame ==
  ASSUME IInv, NEW r \in Requests, NEW op \in Ops, NEW t \in Requests, NEW saw \in SUBSET Issued,
         Reads(r, op, t, saw),
         op = "rotate" => Live(t),
         op = "reuse" =>
           /\ t \in Issued
           /\ \A u \in Issued : (token[u].family = token[t].family /\ Live(u)) => u \in saw,
         op \in Bumping => \A u \in Issued : Live(u) => u \in saw
  PROVE  ReadFrame(r)
<1> DEFINE row == [pc |-> "read", op |-> op, uses |-> t, saw |-> saw,
                   version |-> version, began |-> clock, at |-> 0]
<1>1. req' = [req EXCEPT ![r] = row] /\ req[r].pc = "idle" /\ UNCHANGED <<token, version, clock>>
  BY DEF Reads
<1>2. row \in ReqRows
  BY DEF ReqRows, IInv, TypeOK, Issued
<1>3. row.pc = "read" /\ row.op = op /\ row.uses = t /\ row.saw = saw
      /\ row.version = version /\ row.began = clock
  OBVIOUS
<1> HIDE DEF row
<1>4. req' \in [Requests -> ReqRows] /\ req'[r] = row /\ \A q \in Requests \ {r} : req'[q] = req[q]
  BY <1>1, <1>2 DEF IInv, TypeOK
<1> QED BY <1>1, <1>3, <1>4 DEF ReadFrame

LEMMA ReadIInv ==
  ASSUME IInv, NEW r \in Requests, Read(r)
  PROVE  IInv'
<1> SUFFICES ReadFrame(r)
  BY ReadFrameIInv
<1>1. /\ {t \in Requests : Live(t)} \in SUBSET Issued
      /\ \A t \in Issued : t \in Requests
      /\ \A t \in Requests : Live(t) => t \in Issued
      /\ \A t \in Requests : token[t].state = "revoked" => t \in Issued
  BY DEF Live, Issued
<1>2. /\ Issuing = {"login", "rotate"} /\ Bumping = {"logout_all", "password"}
      /\ Ops = {"login", "rotate", "logout_all", "password", "reuse", "logout"}
  BY DEF Issuing, Bumping, Ops
<1>3. CASE LoginRead(r)
  <2>1. Reads(r, "login", r, {})
    BY <1>3 DEF LoginRead
  <2> QED BY <1>2, <2>1, ReadsFrame
<1>4. ASSUME NEW t \in Requests, RefreshRead(r, t) PROVE ReadFrame(r)
  <2>1. Live(t) /\ Reads(r, "rotate", t, {})
    BY <1>4 DEF RefreshRead
  <2> QED BY <1>2, <2>1, ReadsFrame
<1>5. ASSUME NEW t \in Requests, ReuseRead(r, t) PROVE ReadFrame(r)
  <2> DEFINE saw == {u \in Family(t) : Live(u)}
  <2>1. t \in Issued /\ Reads(r, "reuse", t, saw)
    BY <1>1, <1>5 DEF ReuseRead
  <2>2. saw \in SUBSET Issued
    BY DEF Family
  <2>3. \A u \in Issued : (token[u].family = token[t].family /\ Live(u)) => u \in saw
    BY DEF Family
  <2> HIDE DEF saw
  <2> QED BY <1>2, <2>1, <2>2, <2>3, ReadsFrame
<1>6. ASSUME NEW a \in Requests, NEW t \in Requests, LogoutRead(r, a, t) PROVE ReadFrame(r)
  <2>1. Live(t) /\ Reads(r, "logout", t, {t})
    BY <1>6 DEF LogoutRead
  <2>2. {t} \in SUBSET Issued
    BY <1>1, <2>1
  <2> QED BY <1>2, <2>1, <2>2, ReadsFrame
<1>7. ASSUME NEW op \in Bumping, Reads(r, op, r, {t \in Requests : Live(t)}) PROVE ReadFrame(r)
  <2> DEFINE saw == {t \in Requests : Live(t)}
  <2>1. saw \in SUBSET Issued /\ \A u \in Issued : Live(u) => u \in saw
    BY <1>1
  <2>2. Reads(r, op, r, saw)
    BY <1>7
  <2> HIDE DEF saw
  <2> QED BY <1>2, <2>1, <2>2, ReadsFrame
<1>8. ASSUME NEW a \in Requests, LogoutAllRead(r, a) PROVE ReadFrame(r)
  BY <1>2, <1>7, <1>8 DEF LogoutAllRead
<1>9. ASSUME NEW a \in Requests, ChangePasswordRead(r, a) PROVE ReadFrame(r)
  BY <1>2, <1>7, <1>9 DEF ChangePasswordRead
<1>10. CASE ResetPasswordRead(r)
  BY <1>2, <1>7, <1>10 DEF ResetPasswordRead
<1> QED BY <1>3, <1>4, <1>5, <1>6, <1>8, <1>9, <1>10 DEF Read

LEMMA CommitsRow ==
  ASSUME IInv, NEW r \in Requests, NEW ops, Commits(r, ops)
  PROVE  /\ req[r].pc = "read" /\ req[r].op \in ops
         /\ clock' = clock + 1
         /\ req' = [q \in Requests |-> IF q # r THEN req[q] ELSE
              [pc |-> "done", op |-> req[r].op, uses |-> req[r].uses, saw |-> req[r].saw,
               version |-> req[r].version, began |-> req[r].began, at |-> clock + 1]]
         /\ r \notin Issued /\ token[r].state = "none"
<1>1. req[r].pc = "read" /\ req[r].op \in ops /\ clock' = clock + 1
  BY DEF Commits
<1>2. r \notin Issued
  BY <1>1 DEF IInv, Lineage, Done
<1> DEFINE row == [pc |-> "done", op |-> req[r].op, uses |-> req[r].uses, saw |-> req[r].saw,
                   version |-> req[r].version, began |-> req[r].began, at |-> clock + 1]
<1> DEFINE half == [req[r] EXCEPT !.pc = "done"]
<1>3. [half EXCEPT !.at = clock + 1] = row
  <2>1. req[r] \in ReqRows
    BY DEF IInv, TypeOK
  <2>2. half = [pc |-> "done", op |-> req[r].op, uses |-> req[r].uses, saw |-> req[r].saw,
                version |-> req[r].version, began |-> req[r].began, at |-> req[r].at]
    BY <2>1 DEF ReqRows
  <2> HIDE DEF half
  <2> QED BY <2>2
<1>4. req' = [q \in Requests |-> IF q # r THEN req[q] ELSE row]
  <2>1. req' = [req EXCEPT ![r] = [half EXCEPT !.at = clock + 1]]
    <3>1. req' = [[req EXCEPT ![r].pc = "done"] EXCEPT ![r].at = clock + 1]
      BY DEF Commits
    <3>2. [req EXCEPT ![r].pc = "done"] = [req EXCEPT ![r] = half]
      BY DEF IInv, TypeOK
    <3> HIDE DEF half
    <3>3. req' = [[req EXCEPT ![r] = half] EXCEPT ![r].at = clock + 1]
      BY <3>1, <3>2
    <3> QED BY <3>3 DEF IInv, TypeOK
  <2>2. req' = [req EXCEPT ![r] = row]
    BY <1>3, <2>1
  <2> HIDE DEF row
  <2> QED BY <2>2 DEF IInv, TypeOK
<1> QED BY <1>1, <1>2, <1>4 DEF Issued

\* The commits that issue no token revoke the ones that they saw.
LEMMA RevokesFrame ==
  ASSUME IInv, NEW r \in Requests, NEW reason \in Reasons,
         Commits(r, Ops \ Issuing), Revokes(r, reason),
         version' = IF req[r].op \in Bumping THEN req[r].version + 1 ELSE version
  PROVE  CommitFrame(r)
<1>1. req[r].saw \subseteq Issued
  BY DEF IInv, InFlight
<1>2. ASSUME NEW q \in Requests
      PROVE  /\ token'[q] \in TokenRows
             /\ token'[q].family = token[q].family
             /\ token'[q].parent = token[q].parent
             /\ q \in req[r].saw => token'[q].state = "revoked"
             /\ q \notin req[r].saw => token'[q] = token[q]
  <2>1. token[q] \in TokenRows
    BY DEF IInv, TypeOK
  <2>2. token'[q] = IF q \in req[r].saw THEN [token[q] EXCEPT !.state = "revoked", !.reason = reason]
                                        ELSE token[q]
    BY DEF Revokes, Revoked
  <2> QED BY <2>1, <2>2 DEF TokenRows
<1>3. token' \in [Requests -> TokenRows]
  <2>1. token' = [q \in Requests |-> token'[q]]
    BY DEF Revokes
  <2> QED BY <1>2, <2>1
<1>4. \A q \in req[r].saw : token[q].state # "none" /\ q \in Requests
  BY <1>1 DEF Issued
<1>5. r \notin req[r].saw /\ token'[r] = token[r]
  BY <1>1, <1>2, CommitsRow
<1>6. ASSUME NEW q \in Requests \ {r}
      PROVE  /\ token'[q].state = "none" <=> token[q].state = "none"
             /\ token'[q].state = "live" => token[q].state = "live"
  BY <1>2, <1>4
<1>7. req[r].op \notin Issuing /\ req[r].op # "login" /\ req[r].op # "rotate"
  BY CommitsRow DEF Issuing
<1> QED BY <1>2, <1>3, <1>4, <1>5, <1>6, <1>7, CommitsRow DEF CommitFrame

LEMMA LoginFrame ==
  ASSUME IInv, NEW r \in Requests, LoginCommitted(r)
  PROVE  CommitFrame(r)
<1>1. Commits(r, {"login"}) /\ version' = version
      /\ token' = [token EXCEPT ![r] = NewToken(r, r)]
  BY DEF LoginCommitted
<1>2. NewToken(r, r) \in TokenRows
  BY DEF NewToken, TokenRows
<1>3. token' \in [Requests -> TokenRows] /\ \A q \in Requests \ {r} : token'[q] = token[q]
  BY <1>1, <1>2 DEF IInv, TypeOK
<1>4. token'[r].state = "live" /\ token'[r].family = r /\ token'[r].parent = r
  BY <1>1 DEF IInv, TypeOK, NewToken
<1>5. req[r].op = "login"
  BY <1>1, CommitsRow
<1> QED BY <1>1, <1>3, <1>4, <1>5, CommitsRow DEF CommitFrame, Issuing, Bumping

LEMMA RotateFrame ==
  ASSUME IInv, NEW r \in Requests, RotateCommitted(r)
  PROVE  CommitFrame(r)
<1> DEFINE t == req[r].uses
<1>1. /\ Commits(r, {"rotate"}) /\ version' = version
      /\ token' = [q \in Requests |-> CASE q = r -> NewToken(token[t].family, t)
                                        [] q = t /\ q # r -> Revoked(t, "rotated")
                                        [] OTHER -> token[q]]
  BY DEF RotateCommitted
<1>2. req[r].op = "rotate" /\ req[r].pc = "read" /\ r \notin Issued
  BY <1>1, CommitsRow
<1>3. t \in Issued
  BY <1>2 DEF IInv, InFlight
<1> HIDE DEF t
<1>4. t \in Requests /\ t # r /\ token[t] \in TokenRows /\ token[t].state # "none"
  BY <1>2, <1>3 DEF IInv, TypeOK, Issued
<1>5. token'[r] = NewToken(token[t].family, t)
  BY <1>1
<1>6. token'[t] = Revoked(t, "rotated")
  BY <1>1, <1>4
<1>7. \A q \in Requests \ {r, t} : token'[q] = token[q]
  BY <1>1
<1>8. /\ NewToken(token[t].family, t) \in TokenRows
      /\ NewToken(token[t].family, t).state = "live"
      /\ NewToken(token[t].family, t).family = token[t].family
      /\ NewToken(token[t].family, t).parent = t
  BY <1>4 DEF NewToken, TokenRows
<1>9. /\ Revoked(t, "rotated") \in TokenRows
      /\ Revoked(t, "rotated").state = "revoked"
      /\ Revoked(t, "rotated").family = token[t].family
      /\ Revoked(t, "rotated").parent = token[t].parent
  BY <1>4 DEF Revoked, TokenRows, Reasons
<1>10. token' \in [Requests -> TokenRows]
  <2>1. token' = [q \in Requests |-> token'[q]]
    BY <1>1
  <2>2. \A q \in Requests : token'[q] \in TokenRows
    BY <1>5, <1>6, <1>7, <1>8, <1>9 DEF IInv, TypeOK
  <2> QED BY <2>1, <2>2
<1>11. ASSUME NEW q \in Requests \ {r}
       PROVE  /\ token'[q].family = token[q].family
              /\ token'[q].parent = token[q].parent
              /\ token'[q].state = "none" <=> token[q].state = "none"
              /\ token'[q].state = "live" => token[q].state = "live"
  BY <1>4, <1>6, <1>7, <1>9
<1>12. /\ token'[r].state = "live" /\ token'[r].family = token[t].family /\ token'[r].parent = t
       /\ token'[t].state = "revoked"
  BY <1>5, <1>6, <1>8, <1>9
<1> QED BY <1>1, <1>2, <1>10, <1>11, <1>12, CommitsRow DEF CommitFrame, Issuing, Bumping, t

LEMMA CommitIInv ==
  ASSUME IInv, NEW r \in Requests, Commit(r)
  PROVE  IInv'
<1> SUFFICES CommitFrame(r)
  BY CommitFrameIInv
<1>1. CASE LoginCommitted(r)
  BY <1>1, LoginFrame
<1>2. CASE RotateCommitted(r)
  BY <1>2, RotateFrame
<1>3. \A ops \in SUBSET (Ops \ Issuing) : Commits(r, ops) => Commits(r, Ops \ Issuing)
  BY DEF Commits
<1>4. CASE ReuseCommitted(r)
  <2>1. Commits(r, {"reuse"}) /\ Revokes(r, "reuse_detected") /\ version' = version
    BY <1>4 DEF ReuseCommitted
  <2>2. req[r].op \notin Bumping
    BY <2>1 DEF Commits, Bumping
  <2>3. Commits(r, Ops \ Issuing)
    BY <1>3, <2>1 DEF Ops, Issuing, Bumping
  <2> QED BY <2>1, <2>2, <2>3, RevokesFrame DEF Reasons
<1>5. CASE LogoutCommitted(r)
  <2>1. Commits(r, {"logout"}) /\ Revokes(r, "logout") /\ version' = version
    BY <1>5 DEF LogoutCommitted
  <2>2. req[r].op \notin Bumping
    BY <2>1 DEF Commits, Bumping
  <2>3. Commits(r, Ops \ Issuing)
    BY <1>3, <2>1 DEF Ops, Issuing, Bumping
  <2> QED BY <2>1, <2>2, <2>3, RevokesFrame DEF Reasons
<1>6. CASE LogoutAllCommitted(r)
  <2>1. Commits(r, {"logout_all"}) /\ Revokes(r, "logout_all") /\ version' = req[r].version + 1
    BY <1>6 DEF LogoutAllCommitted, Bumps
  <2>2. req[r].op \in Bumping
    BY <2>1 DEF Commits, Bumping
  <2>3. Commits(r, Ops \ Issuing)
    BY <1>3, <2>1 DEF Ops, Issuing, Bumping
  <2> QED BY <2>1, <2>2, <2>3, RevokesFrame DEF Reasons
<1>7. CASE PasswordCommitted(r)
  <2>1. Commits(r, {"password"}) /\ Revokes(r, "password_changed") /\ version' = req[r].version + 1
    BY <1>7 DEF PasswordCommitted, Bumps
  <2>2. req[r].op \in Bumping
    BY <2>1 DEF Commits, Bumping
  <2>3. Commits(r, Ops \ Issuing)
    BY <1>3, <2>1 DEF Ops, Issuing, Bumping
  <2> QED BY <2>1, <2>2, <2>3, RevokesFrame DEF Reasons
<1> QED BY <1>1, <1>2, <1>4, <1>5, <1>6, <1>7 DEF Commit

-----------------------------------------------------------------------------
(* The theorems.                                                           *)

LEMMA InitIInv == Init => IInv
<1> SUFFICES ASSUME Init PROVE IInv
  OBVIOUS
<1>1. TypeOK
  BY DEF Init, TypeOK, ReqRows, TokenRows
<1>2. Issued = {} /\ \A r \in Requests : req[r].pc = "idle" /\ req[r].saw = {}
  BY DEF Init, Issued
<1>3. Lineage
  BY <1>2 DEF Lineage, Done
<1>4. InFlight
  BY <1>2 DEF InFlight
<1>5. SiblingsOverlap /\ OneLeafPerFamily /\ EndingsAreComplete /\ VersionsGrow
  BY <1>2 DEF SiblingsOverlap, Siblings, OneLeafPerFamily, EndingsAreComplete, VersionsGrow, Done
<1> QED BY <1>1, <1>3, <1>4, <1>5 DEF IInv

LEMMA NextIInv == IInv /\ [Next]_vars => IInv'
<1> SUFFICES ASSUME IInv, [Next]_vars PROVE IInv'
  OBVIOUS
<1>1. ASSUME NEW r \in Requests, Read(r) PROVE IInv'
  BY <1>1, ReadIInv
<1>2. ASSUME NEW r \in Requests, Commit(r) PROVE IInv'
  BY <1>2, CommitIInv
<1>3. CASE UNCHANGED vars
  BY <1>3 DEF vars, IInv, TypeOK, Lineage, InFlight, SiblingsOverlap, Siblings, Overlap,
     OneLeafPerFamily, Leaf, EndingsAreComplete, Ended, VersionsGrow, BumpsOverlap,
     Done, Live, Issued, Family
<1> QED BY <1>1, <1>2, <1>3 DEF Next

\* The conjunction of type correctness, the shape of the token families and
\* what requests in flight may rely on is preserved by every snapshot and commit.
THEOREM SessionsInvariance == Spec => []IInv
BY InitIInv, NextIInv, PTL DEF Spec

\* The tables and the requests keep their types.
THEOREM SessionsTypeCorrect == Spec => []TypeOK
<1>1. IInv => TypeOK
  BY DEF IInv
<1> QED BY <1>1, SessionsInvariance, PTL

\* A refresh token is rotated twice only by refreshes that overlap (refresh).
THEOREM RotationIsSingleUse == Spec => []SiblingsOverlap
<1>1. IInv => SiblingsOverlap
  BY DEF IInv
<1> QED BY <1>1, SessionsInvariance, PTL

\* Without such a double rotation a family never has two live tokens, whatever
\* logins, logouts, revocations and password changes are interleaved with it.
THEOREM FamiliesHaveOneLiveToken == Spec => []OneLivePerFamily
<1>1. ASSUME IInv, NEW t \in Requests, Live(t)
      PROVE  t \in Issued /\ Leaf(t)
  <2>1. t \in Issued /\ token[t].state = "live"
    BY <1>1 DEF Live, Issued
  <2>2. \A u \in Issued : (u # t /\ token[u].parent = t) => token[t].state = "revoked"
    BY <1>1 DEF IInv, Lineage
  <2> QED BY <2>1, <2>2 DEF Leaf
<1>2. IInv => OneLivePerFamily
  BY <1>1 DEF OneLivePerFamily, IInv, OneLeafPerFamily
<1> QED BY <1>2, SessionsInvariance, PTL

\* A reuse, a logout-all or a password change leaves no token live that was
\* issued before it read the table.
THEOREM EndingsRevokeAll == Spec => []EndingsAreComplete
<1>1. IInv => EndingsAreComplete
  BY DEF IInv
<1> QED BY <1>1, SessionsInvariance, PTL

\* Unless two bumps of token_version overlap, no access token whose issuer read
\* the version before a bump is accepted after it (get_current_user).
THEOREM BumpedTokensAreRefused == Spec => []BumpsEndAccess
<1>1. ASSUME IInv, ~BumpsOverlap, NEW a \in Requests, NEW e \in Requests,
             Done(e, Bumping), req[a].began < req[e].at, Accepted(a)
      PROVE  FALSE
  <2>1. req[a].pc # "idle" /\ req[a].version = version
    BY <1>1 DEF Accepted, Done
  <2>2. req[e].at > req[a].began
    BY <1>1 DEF IInv, TypeOK, ReqRows
  <2> QED BY <1>1, <2>1, <2>2 DEF IInv, VersionsGrow
<1>2. IInv => BumpsEndAccess
  BY <1>1 DEF BumpsEndAccess
<1> QED BY <1>2, SessionsInvariance, PTL
=============================================================================
