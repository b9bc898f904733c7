---------------------------- MODULE CatalogProofs ----------------------------
(***************************************************************************)
(* MCCatalog: the parts that companies work with, side by side.  Requests  *)
(* are shared, and every part keeps its own rows.  Whichever part is at    *)
(* work, its invariant holds by its own proof and the others are as they   *)
(* were at first.                                                          *)
(***************************************************************************)
EXTENDS MCCatalog, ContentReviewProofs, ProductProofs, ServiceProofs

ReviewScene == IF scene = "review" THEN ReviewInv ELSE ReviewDB
AccountsScene == IF scene = "accounts" THEN AccountsInv ELSE AccountsDB
TreeScene == IF scene = "tree" THEN TreeInv ELSE TreeDB
BrandScene == IF scene = "brand" THEN BrandInv ELSE BrandDB

\* The parts that keep no requests need no scene of their own.
CatalogInv ==
  /\ ReviewScene /\ AccountsScene /\ TreeScene /\ BrandScene
  /\ LimitInv /\ GateInv /\ LoginInv
  /\ scene \notin {"review", "accounts", "tree", "brand"} => ReqInit

LEMMA CatalogInit == Init => CatalogInv
<1> SUFFICES ASSUME Init PROVE CatalogInv
  OBVIOUS
<1>1. ReqInit /\ ReviewDB /\ AccountsDB /\ TreeDB /\ BrandDB
  BY DEF Init
<1>2. LimitInv /\ GateInv /\ LoginInv
  BY LimitStarts, GateStarts, LoginInitHolds DEF Init
<1>3. ReviewInv /\ AccountsInv /\ TreeInv /\ BrandInv
  BY <1>1, ReviewInit, AccountsInit, TreeStarts, BrandStarts
<1> QED
  BY <1>1, <1>2, <1>3 DEF CatalogInv, ReviewScene, AccountsScene, TreeScene, BrandScene

\* What is left alone stays as it was.
LEMMA CatalogRest ==
  /\ (ReviewDB /\ UNCHANGED reviewVars) => ReviewDB'
  /\ (AccountsDB /\ UNCHANGED accountVars) => AccountsDB'
  /\ (TreeDB /\ UNCHANGED rows) => TreeDB'
  /\ (BrandDB /\ UNCHANGED brandVars) => BrandDB'
  /\ (ReqInit /\ UNCHANGED reqVars) => ReqInit'
BY DEF ReviewDB, reviewVars, AccountsDB, accountVars, TreeDB, BrandDB, brandVars, ReqInit, reqVars

\* The parts without requests, when they rest.
LEMMA ServicesRest ==
  /\ (LimitInv /\ UNCHANGED limitVars) => LimitInv'
  /\ (GateInv /\ UNCHANGED gateVars) => GateInv'
  /\ (LoginInv /\ UNCHANGED loginVars) => LoginInv'
BY LimitSteps, GateSteps, LoginSteps

LEMMA CatalogSteps == ASSUME CatalogInv, [Next]_vars PROVE CatalogInv'
<1> USE DEF CatalogInv, ReviewScene, AccountsScene, TreeScene, BrandScene
<1>1. CASE /\ scene = "review" /\ scene' = scene /\ ReviewNext
           /\ UNCHANGED <<accountVars, rows, brandVars, limitVars, gateVars, loginVars>>
  <2>1. ReviewInv' /\ AccountsDB' /\ TreeDB' /\ BrandDB'
    BY <1>1, ReviewSteps, CatalogRest
  <2>2. LimitInv' /\ GateInv' /\ LoginInv'
    BY <1>1, ServicesRest
  <2> QED BY <1>1, <2>1, <2>2
<1>2. CASE /\ scene = "accounts" /\ scene' = scene /\ AccountsNext
           /\ UNCHANGED <<reviewVars, rows, brandVars, limitVars, gateVars, loginVars>>
  <2>1. ReviewDB' /\ AccountsInv' /\ TreeDB' /\ BrandDB'
    BY <1>2, AccountsSteps, CatalogRest
  <2>2. LimitInv' /\ GateInv' /\ LoginInv'
    BY <1>2, ServicesRest
  <2> QED BY <1>2, <2>1, <2>2
<1>3. CASE /\ scene = "tree" /\ scene' = scene /\ TreeNext
           /\ UNCHANGED <<reviewVars, accountVars, brandVars, limitVars, gateVars, loginVars>>
  <2>1. ReviewDB' /\ AccountsDB' /\ TreeInv' /\ BrandDB'
    BY <1>3, TreeSteps, CatalogRest
  <2>2. LimitInv' /\ GateInv' /\ LoginInv'
    BY <1>3, ServicesRest
  <2> QED BY <1>3, <2>1, <2>2
<1>4. CASE /\ scene = "brand" /\ scene' = scene /\ BrandNext
           /\ UNCHANGED <<reviewVars, accountVars, rows, limitVars, gateVars, loginVars>>
  <2>1. ReviewDB' /\ AccountsDB' /\ TreeDB' /\ BrandInv'
    BY <1>4, BrandSteps, CatalogRest
  <2>2. LimitInv' /\ GateInv' /\ LoginInv'
    BY <1>4, ServicesRest
  <2> QED BY <1>4, <2>1, <2>2
<1>5. CASE /\ scene \in {"limit", "gate", "login"} /\ scene' = scene
           /\ UNCHANGED <<reviewVars, accountVars, rows, brandVars, reqVars>>
           /\ [LimitNext]_limitVars /\ [GateNext]_gateVars /\ [LoginNext]_loginVars
  <2>1. ReviewDB' /\ AccountsDB' /\ TreeDB' /\ BrandDB' /\ ReqInit'
    BY <1>5, CatalogRest
  <2>2. LimitInv' /\ GateInv' /\ LoginInv'
    BY <1>5, LimitSteps, GateSteps, LoginSteps
  <2> QED BY <1>5, <2>1, <2>2
<1>6. CASE UNCHANGED vars
  <2>1. scene' = scene /\ UNCHANGED <<reqVars, reviewVars, accountVars, rows, brandVars,
                                      limitVars, gateVars, loginVars>>
    BY <1>6 DEF vars
  <2>2. /\ ReviewInv => ReviewInv'
        /\ AccountsInv => AccountsInv'
        /\ TreeInv => TreeInv'
        /\ BrandInv => BrandInv'
    BY <2>1, ReviewSteps, AccountsSteps, TreeSteps, BrandSteps
  <2>3. LimitInv' /\ GateInv' /\ LoginInv'
    BY <2>1, ServicesRest
  <2> QED BY <2>1, <2>2, <2>3, CatalogRest
<1> QED BY <1>1, <1>2, <1>3, <1>4, <1>5, <1>6 DEF Next

\* A request about content is no request about accounts, and the other way round.
LEMMA CallsStayInTheirScene ==
  ASSUME CatalogInv, NEW r \in Requests
  PROVE  /\ req[r].op \in ReviewOps \cup {"set_policy"} => scene = "review"
         /\ req[r].op \in Connecting \cup {"remove_account"} => scene = "accounts"
<1> DEFINE ops == ReviewOps \cup {"set_policy"} \cup Connecting \cup {"remove_account"}
<1>1. NotBegun.op \notin ops
  BY DEF NotBegun, ReviewOps, Guarded, Verdicts, Connecting
<1>2. CASE scene = "review"
  <2>1. ReviewInv
    BY <1>2 DEF CatalogInv, ReviewScene
  <2>2. req[r].pc = "idle" => req[r] = NotBegun
    BY <2>1 DEF ReviewInv, LogOK
  <2>3. req[r].pc # "idle" => req[r].op \notin Connecting \cup {"remove_account"}
    BY <2>1 DEF ReviewInv, ReviewCalls, ReviewOps, Guarded, Verdicts, Connecting
  <2> QED BY <1>1, <1>2, <2>2, <2>3
<1>3. CASE scene = "accounts"
  <2>1. AccountsInv
    BY <1>3 DEF CatalogInv, AccountsScene
  <2>2. req[r].pc = "idle" => req[r] = NotBegun
    BY <2>1 DEF AccountsInv, LogOK
  <2>3. req[r].pc # "idle" => req[r].op \notin ReviewOps \cup {"set_policy"}
    BY <2>1 DEF AccountsInv, AccountCalls, AccountOps, Connecting,
                ReviewOps, Guarded, Verdicts
  <2> QED BY <1>1, <1>3, <2>2, <2>3
<1>4. CASE scene = "tree"
  <2>1. TreeInv
    BY <1>4 DEF CatalogInv, TreeScene
  <2>2. req[r].pc = "idle" => req[r] = NotBegun
    BY <2>1 DEF TreeInv, LogOK
  <2>3. req[r].pc # "idle" => req[r].op \notin ops
    BY <2>1 DEF TreeInv, TreeCalls, TreeOps, Connecting, ReviewOps, Guarded, Verdicts
  <2> QED BY <1>1, <2>2, <2>3
<1>5. CASE scene = "brand"
  <2>1. BrandInv
    BY <1>5 DEF CatalogInv, BrandScene
  <2>2. req[r].pc = "idle" => req[r] = NotBegun
    BY <2>1 DEF BrandInv, LogOK
  <2>3. req[r].pc # "idle" => req[r].op \notin ops
    BY <2>1 DEF BrandInv, BrandCalls, BrandOps, Connecting, ReviewOps, Guarded, Verdicts
  <2> QED BY <1>1, <2>2, <2>3
<1>6. CASE scene \notin {"review", "accounts", "tree", "brand"}
  <2>1. req[r] = NotBegun
    BY <1>6 DEF CatalogInv, ReqInit
  <2> QED BY <1>1, <2>1
<1> QED BY <1>2, <1>3, <1>4, <1>5, <1>6

\* The rows that every part starts with have their types.
LEMMA FirstRows ==
  /\ ReviewDB => concept \in ConceptRow /\ policy \in Policies /\ comments \subseteq Requests
  /\ AccountsDB => productDeleted \in BOOLEAN /\ account \in [Requests -> AccountRows \cup {NoRow}]
  /\ TreeDB => TreeTypeOK
  /\ BrandDB => BrandTypeOK
<1>1. ReviewDB => concept \in ConceptRow /\ policy \in Policies /\ comments \subseteq Requests
  BY ReviewConstants DEF ReviewDB, ConceptRow, ContentStatuses
<1>2. AccountsDB => productDeleted \in BOOLEAN /\ account \in [Requests -> AccountRows \cup {NoRow}]
  BY DEF AccountsDB
<1>3. TreeDB => TreeTypeOK
  BY DEF TreeDB, TreeTypeOK, RowsOK
<1>4. BrandDB => BrandTypeOK
  BY ProfileFacts DEF BrandDB, BrandTypeOK
<1> QED BY <1>1, <1>2, <1>3, <1>4

\* Whichever part of the catalogue is at work, the rows of all keep their types.
THEOREM CatalogTypeCorrect == Spec => []TypeOK
<1>1. CatalogInv => TypeOK
  <2> SUFFICES ASSUME CatalogInv PROVE TypeOK
    OBVIOUS
  <2>1. ReviewTypeOK
    <3>1. CASE scene = "review" BY <3>1, ReviewTyped DEF CatalogInv, ReviewScene
    <3>2. CASE scene # "review"
      <4>1. concept \in ConceptRow /\ policy \in Policies /\ comments \subseteq Requests
        BY <3>2, FirstRows DEF CatalogInv, ReviewScene
      <4> QED BY <3>2, <4>1, CallsStayInTheirScene DEF ReviewTypeOK
    <3> QED BY <3>1, <3>2
  <2>2. AccountsTypeOK
    <3>1. CASE scene = "accounts" BY <3>1, AccountsTyped DEF CatalogInv, AccountsScene
    <3>2. CASE scene # "accounts"
      <4>1. productDeleted \in BOOLEAN /\ account \in [Requests -> AccountRows \cup {NoRow}]
        BY <3>2, FirstRows DEF CatalogInv, AccountsScene
      <4> QED BY <3>2, <4>1, CallsStayInTheirScene DEF AccountsTypeOK
    <3> QED BY <3>1, <3>2
  <2>3. TreeTypeOK
    BY FirstRows DEF CatalogInv, TreeScene, TreeInv
  <2>4. BrandTypeOK
    BY FirstRows DEF CatalogInv, BrandScene, BrandInv
  <2>5. LimitTypeOK /\ GateTypeOK /\ LoginTypeOK
    BY LoginTyping DEF CatalogInv, LimitInv, GateInv
  <2> QED BY <2>1, <2>2, <2>3, <2>4, <2>5 DEF TypeOK
<1>2. CatalogInv /\ [Next]_vars => CatalogInv'
  BY CatalogSteps
<1> QED BY <1>1, <1>2, CatalogInit, PTL DEF Spec
=============================================================================
