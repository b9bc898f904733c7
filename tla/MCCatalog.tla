----------------------------- MODULE MCCatalog -----------------------------
(* What companies work with: content review, social accounts and their     *)
(* providers, products, brand profiles, the rate limiter and the           *)
(* compliance gate, one scene each.                                        *)
EXTENDS ContentReview, SocialAccounts, ProductTree, BrandProfiles, RateLimit, ComplianceGate,
        SocialLogin

\* For NameLists and NewNames: names that repeat, and one that is another's second slug.
CareTwice == {<<<<"care">>, <<"care">>>>, <<<<"care">>, <<"care", 2>>>>, <<<<"home">>>>}
CareNames == {<<"care">>, <<"care", 2>>}

CONSTANT Scenes   \* the scenes of this run

VARIABLE scene

\* For Profiles: one account under two handles, and another with the second handle.
OneRenamed == {[handle |-> "h1", external |-> "e1"], [handle |-> "h2", external |-> "e1"],
               [handle |-> "h2", external |-> "e2"]}

vars == <<scene, reqVars, reviewVars, accountVars, rows, brandVars, limitVars, gateVars,
          loginVars>>

Init ==
  /\ scene \in Scenes
  /\ ReqInit /\ ReviewDB /\ AccountsDB /\ TreeDB /\ BrandDB
  /\ LimitInit /\ GateInit /\ LoginInit
  /\ scene # "login" => setup = "auth0_only"

\* Bounds: requests that begin, and requests in flight.
Calls == [review |-> 3, accounts |-> 4, tree |-> 4, brand |-> 4, limit |-> 0, gate |-> 0, login |-> 0]
Flight == [review |-> 3, accounts |-> 2, tree |-> 2, brand |-> 3, limit |-> 0, gate |-> 0, login |-> 0]

\* Requests are interchangeable: numbering them as they begin loses no behaviour.
InTurn ==
  /\ \A r \in Requests : req'[r].pc # "idle" =>
       r <= Calls[scene] /\ \A q \in 1..(r - 1) : req'[q].pc # "idle"
  /\ Cardinality(InFlight') <= Flight[scene]

Next ==
  /\ \/ /\ scene = "review" /\ ReviewNext
        /\ UNCHANGED <<accountVars, rows, brandVars, limitVars, gateVars, loginVars>>
     \/ /\ scene = "accounts" /\ AccountsNext
        /\ UNCHANGED <<reviewVars, rows, brandVars, limitVars, gateVars, loginVars>>
     \/ /\ scene = "tree" /\ TreeNext
        /\ UNCHANGED <<reviewVars, accountVars, brandVars, limitVars, gateVars, loginVars>>
     \/ /\ scene = "brand" /\ BrandNext
        /\ UNCHANGED <<reviewVars, accountVars, rows, limitVars, gateVars, loginVars>>
     \/ /\ scene = "limit" /\ LimitNext
        /\ UNCHANGED <<reviewVars, accountVars, rows, brandVars, reqVars, gateVars, loginVars>>
     \/ /\ scene = "gate" /\ GateNext
        /\ UNCHANGED <<reviewVars, accountVars, rows, brandVars, limitVars, reqVars, loginVars>>
     \/ /\ scene = "login" /\ LoginNext
        /\ UNCHANGED <<reviewVars, accountVars, rows, brandVars, limitVars, reqVars, gateVars>>
  /\ UNCHANGED scene
  /\ InTurn

Spec == Init /\ [][Next]_vars

\* The type invariant of every module here.
TypeOK ==
  ReviewTypeOK /\ AccountsTypeOK /\ TreeTypeOK /\ BrandTypeOK /\ LimitTypeOK /\ GateTypeOK
  /\ LoginTypeOK
=============================================================================
