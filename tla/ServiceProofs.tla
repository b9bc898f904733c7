--------------------------- MODULE ServiceProofs ---------------------------
(***************************************************************************)
(* Proofs about the parts that work outside a database session: the login  *)
(* with a provider and the lookup of pages (SocialLogin, PageLookup), the  *)
(* rate limiter (RateLimit) and the compliance gate (ComplianceGate), for  *)
(* every value of their constants.                                         *)
(***************************************************************************)
EXTENDS SocialLogin, RateLimit, ComplianceGate, FiniteSetTheorems, SequenceTheorems, TLAPS

(***************************************************************************)
(* SocialLogin and PageLookup.  Up to the connection the expiry in hand is *)
(* that of the token in hand, but for one case; and a lookup ends only     *)
(* when every page that is known without a token has been asked for by     *)
(* itself.                                                                 *)
(***************************************************************************)

\* What the last pass of the lookup has left to do.
SinglesLeft ==
  /\ stage = "single" => todo \subseteq Known /\ Known \ WithToken \subseteq todo \cup asked
  /\ stage = "found" => Known \ WithToken \subseteq asked

QueriesLeft ==
  /\ stage = "accounts" => query \in 1..(4 * GraphVersions)
  /\ stage = "edges" => query \in 1..(4 * MaxBusinesses)

LookupInv == LookupTypeOK /\ SinglesLeft /\ QueriesLeft

LEMMA PageFacts ==
  /\ \A row \in PageRows : /\ row.listed \in BOOLEAN /\ row.token \in BOOLEAN
                           /\ row.instagram \in BOOLEAN
                           /\ row = [listed |-> row.listed, token |-> row.token,
                                     instagram |-> row.instagram]
                           /\ row.token => row.listed
  /\ \A t, i \in BOOLEAN : [listed |-> TRUE, token |-> t, instagram |-> i] \in PageRows
  /\ NoPage \in PageRows /\ ~NoPage.listed /\ ~NoPage.token
  /\ \A full : PageAnswers(full) \subseteq PageRows
<1>1. ASSUME NEW row \in PageRows
      PROVE  /\ row.listed \in BOOLEAN /\ row.token \in BOOLEAN /\ row.instagram \in BOOLEAN
             /\ row = [listed |-> row.listed, token |-> row.token, instagram |-> row.instagram]
             /\ row.token => row.listed
  <2>1. CASE row = NoPage
    BY <2>1 DEF NoPage
  <2>2. CASE row \in [listed : {TRUE}, token : BOOLEAN, instagram : BOOLEAN]
    <3>1. row.listed = TRUE /\ row.token \in BOOLEAN /\ row.instagram \in BOOLEAN
      BY <2>2
    <3>2. row = [listed |-> row.listed, token |-> row.token, instagram |-> row.instagram]
      BY <2>2
    <3> QED BY <3>1, <3>2
  <2> QED BY <2>1, <2>2 DEF PageRows
<1>2. ASSUME NEW t \in BOOLEAN, NEW i \in BOOLEAN
      PROVE  [listed |-> TRUE, token |-> t, instagram |-> i] \in PageRows
  BY DEF PageRows
<1>3. NoPage \in PageRows /\ ~NoPage.listed /\ ~NoPage.token
  BY DEF PageRows, NoPage
<1>4. \A full : PageAnswers(full) \subseteq PageRows
  BY DEF PageAnswers
<1> QED BY <1>1, <1>2, <1>3, <1>4

LEMMA ListingKeepsPages ==
  ASSUME page \in [Pages -> PageRows], NEW full, NEW a \in Listings(full), Listed(a)
  PROVE  page' \in [Pages -> PageRows]
<1>1. \A p \in Pages : a[p] \in PageRows
  BY PageFacts DEF Listings
<1> QED BY <1>1 DEF Listed

LEMMA LookupKeeps ==
  ASSUME LookupInv, NEW configured, LookupStep(configured) PROVE LookupInv'
<1> DEFINE GV == 4 * GraphVersions
           MB == 4 * MaxBusinesses
<1>1. /\ stage \in Stages /\ query \in 0..(GV + MB)
      /\ todo \subseteq Pages /\ asked \subseteq Pages /\ page \in [Pages -> PageRows]
      /\ GV \in Nat /\ MB \in Nat /\ GV >= 1
      /\ stage = "accounts" => query \in 1..GV
      /\ stage = "edges" => query \in 1..MB
      /\ \A n \in 0..MaxBusinesses : 4 * n \in 0..MB /\ (n # 0 => 4 * n \in 1..MB)
  BY PagesConstants DEF LookupInv, LookupTypeOK, QueriesLeft
<1>2. LookupInv' <=>
        /\ stage' \in Stages /\ query' \in 0..(GV + MB)
        /\ todo' \subseteq Pages /\ asked' \subseteq Pages /\ page' \in [Pages -> PageRows]
        /\ stage' = "accounts" => query' \in 1..GV
        /\ stage' = "edges" => query' \in 1..MB
        /\ SinglesLeft'
  BY DEF LookupInv, LookupTypeOK, QueriesLeft
<1> HIDE DEF GV, MB
<1>3. CASE AccountsAsked
  <2>1. page' \in [Pages -> PageRows]
    BY <1>1, <1>3, ListingKeepsPages DEF AccountsAsked
  <2>2. /\ stage' \in {"accounts", "businesses"} /\ todo' = todo /\ asked' = asked
        /\ \/ stage' = "businesses" /\ query' = 0
           \/ query' = query + 1 /\ query # GV
        /\ query \in 1..GV
    BY <1>1, <1>3 DEF AccountsAsked, GV
  <2>3. query' \in 0..(GV + MB) /\ (stage' = "accounts" => query' \in 1..GV)
    BY <1>1, <2>2
  <2> QED BY <1>1, <1>2, <2>1, <2>2, <2>3 DEF Stages, SinglesLeft
<1>4. CASE BusinessesAsked
  <2>1. /\ todo' = todo /\ asked' = asked /\ page' = page
        /\ stage' \in {"debug", "edges"} /\ query' \in 0..MB
        /\ stage' = "edges" => query' \in 1..MB
    BY <1>1, <1>4 DEF BusinessesAsked
  <2> QED BY <1>1, <1>2, <2>1 DEF Stages, SinglesLeft
<1>5. CASE EdgeAsked
  <2>1. page' \in [Pages -> PageRows]
    BY <1>1, <1>5, ListingKeepsPages DEF EdgeAsked
  <2>2. /\ stage' \in {"edges", "debug"} /\ todo' = todo /\ asked' = asked
        /\ query' = query - 1 /\ query \in 1..MB
        /\ stage' = "edges" => query' # 0
    BY <1>1, <1>5 DEF EdgeAsked
  <2> QED BY <1>1, <1>2, <2>1, <2>2 DEF Stages, SinglesLeft
<1>6. CASE DebugAsked(configured)
  <2>1. /\ stage' = "targets" /\ todo' \subseteq Pages
        /\ query' = query /\ asked' = asked /\ page' = page
    BY <1>6 DEF DebugAsked
  <2> QED BY <1>1, <1>2, <2>1 DEF Stages, SinglesLeft
<1>7. CASE TargetAsked
  <2> PICK p \in todo :
        /\ todo' = todo \ {p}
        /\ \E row \in IF page[p].token THEN {NoPage} ELSE PageAnswers(FALSE) :
             page' = [page EXCEPT ![p] = IF row.listed THEN Merged(page[p], row) ELSE page[p]]
    BY <1>7 DEF TargetAsked
  <2> PICK row \in IF page[p].token THEN {NoPage} ELSE PageAnswers(FALSE) :
        page' = [page EXCEPT ![p] = IF row.listed THEN Merged(page[p], row) ELSE page[p]]
    OBVIOUS
  <2>1. row \in PageRows /\ p \in Pages /\ page[p] \in PageRows
    BY <1>1, PageFacts
  <2>2. Merged(page[p], row) \in PageRows
    BY <2>1, PageFacts DEF Merged
  <2>3. page' \in [Pages -> PageRows]
    BY <1>1, <2>1, <2>2
  <2>4. stage' = "targets" /\ query' = query /\ asked' = asked /\ todo' \subseteq Pages
    BY <1>1, <1>7 DEF TargetAsked
  <2> QED BY <1>1, <1>2, <2>3, <2>4 DEF Stages, SinglesLeft
<1>8. CASE TargetsDone
  <2>1. /\ stage' = "single" /\ todo' = Known \ WithToken
        /\ query' = query /\ asked' = asked /\ page' = page
    BY <1>8 DEF TargetsDone
  <2>2. Known \subseteq Pages /\ Known' = Known /\ WithToken' = WithToken
    BY <2>1 DEF Known, WithToken
  <2> QED BY <1>1, <1>2, <2>1, <2>2 DEF Stages, SinglesLeft
<1>9. CASE SingleAsked
  <2> PICK p \in todo, given \in BOOLEAN :
        /\ page' = [page EXCEPT ![p].token = given]
        /\ todo' = todo \ {p} /\ asked' = asked \cup {p}
    BY <1>9 DEF SingleAsked
  <2>1. /\ stage = "single" /\ stage' = stage /\ query' = query
        /\ todo \subseteq Known /\ Known \ WithToken \subseteq todo \cup asked
        /\ p \in Pages /\ page[p] \in PageRows /\ page[p].listed
    BY <1>1, <1>9 DEF SingleAsked, LookupInv, SinglesLeft, Known
  <2> DEFINE row == [page[p] EXCEPT !.token = given]
  <2>2. row = [listed |-> TRUE, token |-> given, instagram |-> page[p].instagram]
    <3>1. ASSUME NEW known \in PageRows, NEW token_
          PROVE  [known EXCEPT !.token = token_]
                   = [listed |-> known.listed, token |-> token_, instagram |-> known.instagram]
      BY PageFacts
    <3>2. page[p].listed = TRUE
      BY <2>1, PageFacts
    <3> QED BY <2>1, <3>1, <3>2
  <2>3. row \in PageRows /\ row.listed /\ row.token = given
    BY <2>1, <2>2, PageFacts
  <2>4. page' = [page EXCEPT ![p] = row]
    OBVIOUS
  <2> HIDE DEF row
  <2>5. page' \in [Pages -> PageRows] /\ page'[p] = row /\ \A q \in Pages \ {p} : page'[q] = page[q]
    BY <1>1, <2>1, <2>3, <2>4
  <2>6. Known' = Known /\ \A q \in Pages \ {p} : q \in WithToken' <=> q \in WithToken
    BY <2>1, <2>3, <2>5 DEF Known, WithToken
  <2>7. Known \subseteq Pages
    BY DEF Known
  <2>8. SinglesLeft'
    BY <2>1, <2>6, <2>7 DEF SinglesLeft
  <2> QED BY <1>1, <1>2, <2>1, <2>5, <2>8
<1>10. CASE SinglesDone
  <2>1. /\ stage = "single" /\ todo = {} /\ stage' = "found"
        /\ query' = query /\ todo' = todo /\ asked' = asked /\ page' = page
    BY <1>10 DEF SinglesDone
  <2>2. SinglesLeft'
    BY <2>1 DEF LookupInv, SinglesLeft, Known, WithToken
  <2> QED BY <1>1, <1>2, <2>1, <2>2 DEF Stages
<1>11. CASE LookupBroken
  <2>1. stage' = "broken" /\ UNCHANGED <<query, todo, asked, page>>
    BY <1>11 DEF LookupBroken
  <2> QED BY <1>1, <1>2, <2>1 DEF Stages, SinglesLeft
<1> QED BY <1>3, <1>4, <1>5, <1>6, <1>7, <1>8, <1>9, <1>10, <1>11 DEF LookupStep

\* A lookup that begins, or that is put away.
LEMMA FreshLookup ==
  ASSUME \/ LookupBegins
         \/ stage' = "off" /\ query' = 0 /\ todo' = {} /\ asked' = {} /\ page' = Unlisted
  PROVE  LookupInv'
<1>1. page' \in [Pages -> PageRows]
  BY PageFacts DEF LookupBegins, Unlisted
<1>2. /\ stage' \in {"off", "accounts"} /\ todo' = {} /\ asked' = {}
      /\ query' \in 0..(4 * GraphVersions + 4 * MaxBusinesses)
      /\ stage' = "accounts" => query' \in 1..(4 * GraphVersions)
  BY PagesConstants DEF LookupBegins
<1> QED BY <1>1, <1>2 DEF LookupInv, LookupTypeOK, SinglesLeft, QueriesLeft, Stages

LEMMA LookupUnchanged == ASSUME LookupInv, UNCHANGED pageVars PROVE LookupInv'
BY DEF pageVars, LookupInv, LookupTypeOK, SinglesLeft, QueriesLeft, Known, WithToken

-----------------------------------------------------------------------------
(* The login and the test post.                                            *)

Late == {"connected", "kind", "choose", "page_token", "publish", "posted", "refused"}
UserTokens == {UserToken, LongToken}

\* Steps that lead to an account without a page of its own.
Direct == {"graph", "channel", "accounts", "locations"}

LoginTyped ==
  /\ setup \in AllSetups /\ platform \in Platforms \cup {"none"} /\ step \in Steps
  /\ broker \in {"none", "facebook", "instagram"}
  /\ token \in Tokens \cup {NoToken} /\ expiry \in Tokens \cup {NoToken}
  /\ left \in [accounts : 0..MaxListed, found : BOOLEAN]
  /\ linked \in LinkedAccounts
  /\ target \in Pages \cup {"none"}

\* The token in hand and its expiry, on the way to a connection.
InHand ==
  /\ step = "idle" => linked = NoAccount /\ expiry = NoToken
  /\ step # "idle" => platform \in Platforms
  /\ step \notin Late =>
       /\ expiry \in UserTokens \cup {NoToken}
       /\ step \notin {"idle", "exchange"} => token \in UserTokens
       /\ expiry \notin {NoToken, token} => ViaAuth0 /\ token = LongToken /\ expiry = UserToken
  /\ step \in {"idle", "exchange"} => expiry = NoToken
  /\ step \in Direct => platform # "facebook"
  /\ step = "identity" => ViaAuth0 /\ token = UserToken
  /\ step = "extend" =>
       /\ token = UserToken
       /\ expiry = NoToken \/ (expiry = UserToken /\ ViaAuth0)

\* Which pages are spoken of when a post is made.
PostsKnown ==
  /\ linked.platform = "facebook" => linked.page \in Pages
  /\ step \in {"kind", "choose", "page_token"} => linked.platform = "facebook"
  /\ (step \in {"publish", "posted"} /\ target # linked.page) =>
       /\ stage = "found"
       /\ linked.page \notin WithToken
       /\ linked.page \in Known => linked.page \in asked

LoginInv == LookupInv /\ LoginTyped /\ InHand /\ PostsKnown /\ ExpiryIsTheTokens

LEMMA TokenFacts ==
  /\ UserTokens \subseteq Tokens /\ \A p \in Pages : PageToken(p) \in Tokens
  /\ UserToken # LongToken /\ UserToken.of = "user" /\ LongToken.of = "user"
  /\ NoAccount \in LinkedAccounts /\ NoAccount.platform = "none" /\ NoAccount.expiry = NoToken
  /\ \A account \in LinkedAccounts : account # NoAccount =>
       /\ account.platform \in Platforms /\ account.token \in Tokens
       /\ account.page \in {"user"} \cup Pages
<1>1. UserTokens \subseteq Tokens /\ \A p \in Pages : PageToken(p) \in Tokens
  BY DEF UserTokens, UserToken, LongToken, PageToken, Tokens
<1>2. UserToken # LongToken /\ UserToken.of = "user" /\ LongToken.of = "user"
  BY DEF UserToken, LongToken
<1>3. NoAccount \in LinkedAccounts /\ NoAccount.platform = "none" /\ NoAccount.expiry = NoToken
  BY DEF NoAccount, LinkedAccounts
<1>4. ASSUME NEW account \in LinkedAccounts, account # NoAccount
      PROVE  /\ account.platform \in Platforms /\ account.token \in Tokens
             /\ account.page \in {"user"} \cup Pages
  BY <1>4 DEF LinkedAccounts
<1> QED BY <1>1, <1>2, <1>3, <1>4

\* A step on the way that leaves the connection and the post alone.
LEMMA OnTheWay ==
  ASSUME LoginInv, LookupInv', step \notin Late, step' \in Steps \ {"idle", "exchange"},
         step' \notin Late \ {"refused"},
         UNCHANGED <<setup, linked, target>>,
         platform' \in Platforms, broker' \in {"none", "facebook", "instagram"},
         left' \in [accounts : 0..MaxListed, found : BOOLEAN],
         platform' = platform, step' \in Direct => platform # "facebook",
         token' \in UserTokens, expiry' \in UserTokens \cup {NoToken},
         expiry' \notin {NoToken, token'} =>
           ViaAuth0 /\ token' = LongToken /\ expiry' = UserToken,
         step' = "identity" => ViaAuth0 /\ token' = UserToken,
         step' = "extend" =>
           token' = UserToken /\ (expiry' = NoToken \/ (expiry' = UserToken /\ ViaAuth0))
  PROVE  LoginInv'
<1>1. ViaAuth0' <=> ViaAuth0
  BY DEF ViaAuth0
<1>2. LoginTyped'
  BY TokenFacts DEF LoginInv, LoginTyped
<1>3. InHand'
  BY <1>1 DEF InHand, Late, Direct
<1>4. PostsKnown'
  BY DEF LoginInv, PostsKnown, Late
<1>5. ExpiryIsTheTokens'
  BY <1>1 DEF LoginInv, ExpiryIsTheTokens
<1> QED BY <1>2, <1>3, <1>4, <1>5 DEF LoginInv

\* Connects, with the token and the expiry in hand or those of a page.
LEMMA ConnectsKeeps ==
  ASSUME LoginInv, step \notin Late \cup {"idle", "exchange"},
         NEW page_ \in {"user"} \cup Pages, NEW token_ \in Tokens, NEW expiry_,
         Connects(page_, token_, expiry_),
         platform = "facebook" => page_ \in Pages /\ expiry_ = expiry,
         expiry_ \in {NoToken, expiry},
         platform # "facebook" => expiry_ = NoToken \/ token_ = token
  PROVE  LoginInv'
<1>1. /\ linked' = [platform |-> platform, page |-> page_, token |-> token_, expiry |-> expiry_]
      /\ step' = "connected"
      /\ UNCHANGED <<setup, platform, broker, token, expiry, left, target>>
  BY DEF Connects
<1>2. LookupInv'
  BY FreshLookup DEF Connects
<1>3. /\ platform \in Platforms /\ expiry \in UserTokens \cup {NoToken} /\ token \in UserTokens
      /\ expiry \notin {NoToken, token} => ViaAuth0 /\ token = LongToken /\ expiry = UserToken
  BY DEF LoginInv, InHand
<1>4. expiry_ \in Tokens \cup {NoToken}
  BY <1>3, TokenFacts
<1>5. linked' \in LinkedAccounts
  BY <1>1, <1>3, <1>4 DEF LinkedAccounts
<1>6. LoginTyped'
  BY <1>1, <1>5 DEF LoginInv, LoginTyped, Steps
<1>7. InHand'
  BY <1>1, <1>3 DEF InHand, Late, Direct
<1>8. PostsKnown'
  BY <1>1 DEF PostsKnown
<1>9. ViaAuth0' <=> ViaAuth0
  BY <1>1 DEF ViaAuth0
<1>10. ExpiryIsTheTokens'
  BY <1>1, <1>3, <1>9, TokenFacts DEF ExpiryIsTheTokens, UserTokens
<1> QED BY <1>2, <1>6, <1>7, <1>8, <1>10 DEF LoginInv

\* A step of the test post, or a refusal: the connection stays.
LEMMA AfterConnection ==
  ASSUME LoginInv, LookupInv', step' \in Late, step # "idle",
         UNCHANGED <<setup, platform, broker, expiry, left, linked>>,
         token' \in Tokens \cup {NoToken}, target' \in Pages \cup {"none"},
         PostsKnown'
  PROVE  LoginInv'
<1>1. ViaAuth0' <=> ViaAuth0
  BY DEF ViaAuth0
<1>2. LoginTyped'
  BY DEF LoginInv, LoginTyped, Late, Steps
<1>3. InHand'
  BY DEF LoginInv, InHand, Late, Direct
<1>4. ExpiryIsTheTokens'
  BY <1>1 DEF LoginInv, ExpiryIsTheTokens
<1> QED BY <1>2, <1>3, <1>4 DEF LoginInv

-----------------------------------------------------------------------------
LEMMA LoginInitHolds == LoginInit => LoginInv
<1> SUFFICES ASSUME LoginInit PROVE LoginInv
  OBVIOUS
<1>1. LookupInv
  BY PagesConstants, PageFacts
     DEF LoginInit, LookupOff, LookupInv, LookupTypeOK, SinglesLeft, QueriesLeft, Stages, Unlisted
<1>2. LoginTyped
  BY TokenFacts, LoginConstants DEF LoginInit, LoginTyped, Steps
<1>3. InHand /\ PostsKnown /\ ExpiryIsTheTokens
  BY TokenFacts DEF LoginInit, InHand, PostsKnown, ExpiryIsTheTokens, Late, Direct, Platforms
<1> QED BY <1>1, <1>2, <1>3 DEF LoginInv

LEMMA TheWayKeeps ==
  ASSUME LoginInv,
         \/ \E p \in Platforms : CallbackArrives(p)
         \/ Exchanged \/ IdentityFetched \/ Extended \/ AccountsListed \/ LocationsListed
  PROVE  LoginInv'
<1>1. LoginTyped /\ InHand /\ LookupInv
  BY DEF LoginInv
<1>2. ASSUME NEW p \in Platforms, CallbackArrives(p) PROVE LoginInv'
  <2>1. /\ step = "idle" /\ step' = "exchange" /\ platform' = p /\ linked = NoAccount
        /\ expiry = NoToken
        /\ UNCHANGED <<setup, broker, token, expiry, left, linked, target, pageVars>>
    BY <1>1, <1>2 DEF CallbackArrives, InHand
  <2>2. LookupInv' BY <1>1, <2>1, LookupUnchanged
  <2>3. LoginTyped' BY <1>1, <2>1 DEF LoginTyped, Steps
  <2>4. InHand' BY <2>1 DEF InHand, Late, Direct
  <2>5. PostsKnown' BY <2>1, TokenFacts DEF PostsKnown
  <2>6. ExpiryIsTheTokens' BY <2>1 DEF ExpiryIsTheTokens
  <2> QED BY <2>2, <2>3, <2>4, <2>5, <2>6 DEF LoginInv
<1>3. CASE Exchanged
  <2>1. /\ step = "exchange" /\ token' = UserToken
        /\ UNCHANGED <<setup, platform, broker, left, linked, target, pageVars>>
        /\ platform \in Platforms /\ linked' = linked
    BY <1>1, <1>3 DEF Exchanged, InHand
  <2>2. /\ expiry' \in {UserToken, NoToken}
        /\ platform \notin {"youtube", "google"} => expiry' = NoToken
    BY <1>3 DEF Exchanged
  <2>3. \/ step' = "channel" /\ platform = "youtube"
        \/ step' = "accounts" /\ platform = "google"
        \/ step' = "identity" /\ ViaAuth0
        \/ step' = "extend" /\ platform \notin {"youtube", "google"}
    <3>1. CASE platform = "youtube" BY <1>3, <3>1 DEF Exchanged
    <3>2. CASE platform = "google" BY <1>3, <3>2 DEF Exchanged
    <3>3. CASE platform \notin {"youtube", "google"} /\ ViaAuth0
      BY <1>3, <3>3 DEF Exchanged
    <3>4. CASE platform \notin {"youtube", "google"} /\ ~ViaAuth0
      BY <1>3, <3>4 DEF Exchanged
    <3> QED BY <3>1, <3>2, <3>3, <3>4
  <2>4. LookupInv' BY <1>1, <2>1, LookupUnchanged
  <2>5. step' \in Steps \ {"idle", "exchange"} /\ step' \notin Late /\ step \notin Late
    BY <2>1, <2>3 DEF Steps, Late
  <2>6. /\ token' \in UserTokens /\ expiry' \in UserTokens \cup {NoToken}
        /\ step' \in Direct => platform # "facebook"
    BY <2>1, <2>2, <2>3 DEF UserTokens, Direct
  <2>7. /\ broker' \in {"none", "facebook", "instagram"}
        /\ left' \in [accounts : 0..MaxListed, found : BOOLEAN]
    BY <1>1, <2>1 DEF LoginTyped
  <2> QED BY <2>1, <2>2, <2>3, <2>4, <2>5, <2>6, <2>7, OnTheWay
<1>4. CASE IdentityFetched
  <2>1. /\ step = "identity" /\ step' = "extend" /\ token' = token /\ token = UserToken /\ ViaAuth0
        /\ UNCHANGED <<setup, platform, left, linked, target, pageVars>>
        /\ broker' \in {"none", "facebook", "instagram"}
        /\ expiry' \in {UserToken, NoToken} /\ platform \in Platforms
    BY <1>1, <1>4 DEF IdentityFetched, InHand
  <2>2. LookupInv' BY <1>1, <2>1, LookupUnchanged
  <2>3. step' \in Steps \ {"idle", "exchange"} /\ step' \notin Late /\ step \notin Late
    BY <2>1 DEF Steps, Late
  <2>4. token' \in UserTokens /\ expiry' \in UserTokens \cup {NoToken} /\ step' \notin Direct
    BY <2>1 DEF UserTokens, Direct
  <2>5. left' \in [accounts : 0..MaxListed, found : BOOLEAN]
    BY <1>1, <2>1 DEF LoginTyped
  <2> QED BY <2>1, <2>2, <2>3, <2>4, <2>5, OnTheWay
<1>5. CASE Extended
  <2>1. /\ step = "extend" /\ UNCHANGED <<setup, platform, broker, left, linked, target>>
        /\ token = UserToken /\ (expiry = NoToken \/ (expiry = UserToken /\ ViaAuth0))
        /\ platform \in Platforms
    BY <1>1, <1>5 DEF Extended, InHand
  <2>2. step' = FirstPlace /\ FirstPlace \in {"pages", "graph"}
        /\ (step' \in Direct => platform # "facebook")
        /\ (LookupBegins \/ UNCHANGED pageVars)
    BY <1>5 DEF Extended, Seek, FirstPlace, Direct
  <2>3. LookupInv' BY <1>1, <2>2, FreshLookup, LookupUnchanged
  <2>4. step' \in Steps \ {"idle", "exchange"} /\ step' \notin Late /\ step \notin Late
        /\ step' \notin {"identity", "extend"}
    BY <2>1, <2>2 DEF Steps, Late
  <2>5. \/ token' = token /\ expiry' = expiry
        \/ token' = LongToken /\ expiry' \in {NoToken, LongToken, expiry}
    BY <1>5 DEF Extended
  <2>6. /\ token' \in UserTokens /\ expiry' \in UserTokens \cup {NoToken}
        /\ expiry' \notin {NoToken, token'} =>
             ViaAuth0 /\ token' = LongToken /\ expiry' = UserToken
    BY <2>1, <2>5 DEF UserTokens
  <2>7. /\ broker' \in {"none", "facebook", "instagram"}
        /\ left' \in [accounts : 0..MaxListed, found : BOOLEAN]
    BY <1>1, <2>1 DEF LoginTyped
  <2> QED BY <2>1, <2>2, <2>3, <2>4, <2>6, <2>7, OnTheWay
<1>6. CASE AccountsListed \/ LocationsListed
  <2>1. /\ step \in {"accounts", "locations"} /\ step' = "locations"
        /\ UNCHANGED <<setup, platform, broker, token, expiry, linked, target, pageVars>>
        /\ platform \in Platforms /\ platform # "facebook"
        /\ token \in UserTokens /\ expiry \in UserTokens \cup {NoToken}
        /\ expiry \notin {NoToken, token} =>
             ViaAuth0 /\ token = LongToken /\ expiry = UserToken
    BY <1>1, <1>6 DEF AccountsListed, LocationsListed, InHand, Late, Direct
  <2>2. left' \in [accounts : 0..MaxListed, found : BOOLEAN]
    <3>1. CASE AccountsListed
      BY <3>1, LoginConstants DEF AccountsListed
    <3>2. CASE LocationsListed
      <4>1. left.accounts \in 0..MaxListed /\ left.accounts > 0 /\ left.found \in BOOLEAN
        BY <1>1, <3>2 DEF LocationsListed, LoginTyped
      <4> PICK some \in BOOLEAN :
            left' = [accounts |-> left.accounts - 1, found |-> left.found \/ some]
        BY <3>2 DEF LocationsListed
      <4>2. left.accounts - 1 \in 0..MaxListed /\ (left.found \/ some) \in BOOLEAN
        BY <4>1, LoginConstants
      <4> QED BY <4>2
    <3> QED BY <1>6, <3>1, <3>2
  <2>3. LookupInv' BY <1>1, <2>1, LookupUnchanged
  <2>4. step' \in Steps \ {"idle", "exchange"} /\ step' \notin Late /\ step \notin Late
    BY <2>1 DEF Steps, Late
  <2>5. broker' \in {"none", "facebook", "instagram"}
    BY <1>1, <2>1 DEF LoginTyped
  <2> QED BY <2>1, <2>2, <2>3, <2>4, <2>5, OnTheWay
<1> QED BY <1>2, <1>3, <1>4, <1>5, <1>6

\* A place that did not have the account: the next one, or a refusal.
LEMMA NotHereKeeps ==
  ASSUME LoginInv, step \in {"graph", "pages"}, NotHere(step) PROVE LoginInv'
<1>1. LoginTyped /\ InHand /\ LookupInv
  BY DEF LoginInv
<1>2. /\ UNCHANGED <<setup, platform, broker, token, expiry, left, linked, target>>
      /\ step' \in {"refused", "pages", "graph"}
      /\ LookupBegins \/ UNCHANGED pageVars
  BY DEF NotHere, LastPlace
<1>3. LookupInv' BY <1>1, <1>2, FreshLookup, LookupUnchanged
<1>4. /\ platform \in Platforms
      /\ token \in UserTokens /\ expiry \in UserTokens \cup {NoToken}
      /\ expiry \notin {NoToken, token} => ViaAuth0 /\ token = LongToken /\ expiry = UserToken
  BY <1>1 DEF InHand, Late
<1>5. step' \in Direct => platform # "facebook"
  <2>1. CASE step = "graph"
    BY <1>1, <2>1 DEF InHand, Direct
  <2>2. CASE step = "pages" /\ platform = "facebook"
    <3>1. step' = "refused"
      BY <2>2 DEF NotHere, LastPlace
    <3> QED BY <3>1 DEF Direct
  <2> QED BY <2>1, <2>2
<1>6. step' \in Steps \ {"idle", "exchange"} /\ step' \notin Late \ {"refused"} /\ step \notin Late
      /\ step' \notin {"identity", "extend"}
  BY <1>2 DEF Steps, Late
<1>7. /\ broker' \in {"none", "facebook", "instagram"}
      /\ left' \in [accounts : 0..MaxListed, found : BOOLEAN]
  BY <1>1, <1>2 DEF LoginTyped
<1> QED BY <1>2, <1>3, <1>4, <1>6, <1>7, <1>5, OnTheWay

LEMMA ConnectionKeeps ==
  ASSUME LoginInv, GraphAsked \/ PagesLookedUp \/ ChannelFetched \/ LocationTaken
  PROVE  LoginInv'
<1>1. LoginTyped /\ InHand /\ LookupInv
  BY DEF LoginInv
<1>2. ASSUME step \in {"graph", "pages", "channel", "locations"}
      PROVE  /\ step \notin Late \cup {"idle", "exchange"}
             /\ token \in Tokens /\ token \in UserTokens
  BY <1>1, <1>2, TokenFacts DEF InHand, Late
<1>3. ASSUME step \in Direct, Connects("user", token, expiry) PROVE LoginInv'
  <2>1. step \in {"graph", "pages", "channel", "locations", "accounts"} /\ platform # "facebook"
    BY <1>1, <1>3 DEF InHand, Direct
  <2>2. step \notin Late \cup {"idle", "exchange"} /\ token \in Tokens
    BY <1>1, <2>1, TokenFacts DEF InHand, Late
  <2> QED BY <1>3, <2>1, <2>2, ConnectsKeeps
<1>4. CASE GraphAsked
  BY <1>3, <1>4, NotHereKeeps DEF GraphAsked, Direct
<1>5. CASE ChannelFetched
  BY <1>3, <1>5 DEF ChannelFetched, Direct
<1>6. CASE LocationTaken
  BY <1>3, <1>6 DEF LocationTaken, Direct
<1>7. CASE PagesLookedUp
  <2>1. step = "pages"
    BY <1>7 DEF PagesLookedUp
  <2>2. ASSUME NEW p \in Pages, platform = "facebook", Connects(p, PageToken(p), expiry)
        PROVE  LoginInv'
    BY <1>2, <2>1, <2>2, ConnectsKeeps, TokenFacts
  <2>3. ASSUME NEW p \in Pages, platform # "facebook",
               Connects("user", OfPage(p).token, OfPage(p).expiry)
        PROVE  LoginInv'
    <3>1. CASE page[p].token
      <4>1. OfPage(p).token = PageToken(p) /\ OfPage(p).expiry = NoToken
        BY <3>1 DEF OfPage
      <4> QED BY <1>2, <2>1, <2>3, <4>1, ConnectsKeeps, TokenFacts
    <3>2. CASE ~page[p].token
      <4>1. OfPage(p).token = token /\ OfPage(p).expiry = expiry
        BY <3>2 DEF OfPage
      <4> QED BY <1>2, <2>1, <2>3, <4>1, ConnectsKeeps
    <3> QED BY <3>1, <3>2
  <2>4. CASE NotHere("pages")
    BY <2>1, <2>4, NotHereKeeps
  <2> QED BY <1>7, <2>2, <2>3, <2>4 DEF PagesLookedUp, WithToken
<1> QED BY <1>4, <1>5, <1>6, <1>7

LEMMA LookupGoesOnKeeps ==
  ASSUME LoginInv, LookupGoesOn PROVE LoginInv'
<1>1. /\ step \in {"pages", "choose"}
      /\ UNCHANGED <<setup, platform, broker, token, expiry, left, linked, target, step>>
  BY DEF LookupGoesOn
<1>2. LookupInv'
  BY LookupKeeps DEF LoginInv, LookupGoesOn
<1>3. ViaAuth0' <=> ViaAuth0
  BY <1>1 DEF ViaAuth0
<1>4. LoginTyped'
  BY <1>1 DEF LoginInv, LoginTyped
<1>5. InHand'
  BY <1>1, <1>3 DEF LoginInv, InHand
<1>6. PostsKnown'
  BY <1>1 DEF LoginInv, PostsKnown
<1>7. ExpiryIsTheTokens'
  BY <1>1, <1>3 DEF LoginInv, ExpiryIsTheTokens
<1> QED BY <1>2, <1>4, <1>5, <1>6, <1>7 DEF LoginInv

LEMMA PostKeeps ==
  ASSUME LoginInv,
         Refused \/ PostBegins \/ KindAsked \/ PageChosen \/ PageTokenGiven \/ Posted
  PROVE  LoginInv'
<1>1. LoginTyped /\ InHand /\ LookupInv /\ PostsKnown
  BY DEF LoginInv
<1>2. linked.platform = "facebook" => linked.page \in Pages /\ linked.token \in Tokens
  BY <1>1, TokenFacts DEF LoginTyped, PostsKnown
<1>3. ASSUME LookupInv', step' \in Late, step # "idle",
             UNCHANGED <<setup, platform, broker, expiry, left, linked, target>>,
             token' \in {token, linked.token}, linked.platform = "facebook" \/ token' = token,
             PostsKnown'
      PROVE  LoginInv'
  <2>1. token' \in Tokens \cup {NoToken} /\ target' \in Pages \cup {"none"}
    BY <1>1, <1>2, <1>3 DEF LoginTyped
  <2> QED BY <1>3, <2>1, AfterConnection
<1>4. ASSUME NEW p \in Pages, PostsTo(p), step \in {"kind", "choose", "page_token"},
             p # linked.page =>
               /\ stage = "found" /\ linked.page \notin WithToken
               /\ linked.page \in Known => linked.page \in asked
      PROVE  LoginInv'
  <2>1. /\ target' = p /\ step' = "publish"
        /\ UNCHANGED <<setup, platform, broker, token, expiry, left, linked, pageVars>>
    BY <1>4 DEF PostsTo
  <2>2. LookupInv' BY <1>1, <2>1, LookupUnchanged
  <2>3. PostsKnown'
    BY <1>1, <1>4, <2>1 DEF PostsKnown, pageVars, Known, WithToken
  <2>4. token' \in Tokens \cup {NoToken} /\ target' \in Pages \cup {"none"}
    BY <1>1, <2>1 DEF LoginTyped
  <2> QED BY <1>4, <2>1, <2>2, <2>3, <2>4, AfterConnection DEF Late
<1>5. CASE Refused
  <2>1. /\ step # "idle" /\ step' = "refused"
        /\ UNCHANGED <<setup, platform, broker, token, expiry, left, linked, target, pageVars>>
    BY <1>5 DEF Refused, AtRest
  <2>2. LookupInv' BY <1>1, <2>1, LookupUnchanged
  <2>3. PostsKnown' BY <1>1, <2>1 DEF PostsKnown
  <2> QED BY <1>3, <2>1, <2>2, <2>3 DEF Late
<1>6. CASE PostBegins
  <2>1. /\ step = "connected" /\ step' = "kind" /\ linked.platform = "facebook"
        /\ token' = linked.token
        /\ UNCHANGED <<setup, platform, broker, expiry, left, linked, target, pageVars>>
    BY <1>6 DEF PostBegins
  <2>2. LookupInv' BY <1>1, <2>1, LookupUnchanged
  <2>3. PostsKnown' BY <1>1, <2>1 DEF PostsKnown
  <2> QED BY <1>3, <2>1, <2>2, <2>3 DEF Late
<1>7. CASE KindAsked
  <2>1. step = "kind" /\ linked.platform = "facebook"
    BY <1>1, <1>7 DEF KindAsked, PostsKnown
  <2>2. CASE PostsTo(linked.page)
    BY <1>2, <1>4, <2>1, <2>2
  <2>3. CASE ~PostsTo(linked.page)
    <3>1. /\ step' = "choose" /\ LookupBegins
          /\ UNCHANGED <<setup, platform, broker, token, expiry, left, linked, target>>
      BY <1>7, <2>3 DEF KindAsked
    <3>2. LookupInv' BY <3>1, FreshLookup
    <3>3. PostsKnown' BY <1>1, <2>1, <3>1 DEF PostsKnown
    <3> QED BY <1>3, <2>1, <3>1, <3>2, <3>3 DEF Late
  <2> QED BY <2>2, <2>3
<1>8. CASE PageChosen
  <2>1. step = "choose" /\ stage = "found" /\ linked.platform = "facebook"
    BY <1>1, <1>8 DEF PageChosen, PostsKnown
  <2>2. ASSUME NEW p \in Chosen, PostsTo(p) PROVE LoginInv'
    <3>1. p \in Pages /\ (p # linked.page => linked.page \notin WithToken)
      BY <1>2, <2>1 DEF Chosen, WithToken
    <3>2. Known \ WithToken \subseteq asked
      BY <1>1, <2>1 DEF LookupInv, SinglesLeft
    <3> QED BY <1>4, <2>1, <2>2, <3>1, <3>2
  <2>3. ASSUME step' = "page_token",
               UNCHANGED <<setup, platform, broker, token, expiry, left, linked, target, pageVars>>
        PROVE  LoginInv'
    <3>1. LookupInv' BY <1>1, <2>3, LookupUnchanged
    <3>2. PostsKnown' BY <1>1, <2>1, <2>3 DEF PostsKnown
    <3> QED BY <1>3, <2>1, <2>3, <3>1, <3>2 DEF Late
  <2> QED BY <1>8, <2>2, <2>3 DEF PageChosen
<1>9. CASE PageTokenGiven
  <2>1. step = "page_token" /\ PostsTo(linked.page) /\ linked.platform = "facebook"
    BY <1>1, <1>9 DEF PageTokenGiven, PostsKnown
  <2> QED BY <1>2, <1>4, <2>1
<1>10. CASE Posted
  <2>1. /\ step = "publish" /\ step' = "posted"
        /\ UNCHANGED <<setup, platform, broker, token, expiry, left, linked, target, pageVars>>
    BY <1>10 DEF Posted
  <2>2. LookupInv' BY <1>1, <2>1, LookupUnchanged
  <2>3. PostsKnown' BY <1>1, <2>1 DEF PostsKnown, pageVars, Known, WithToken
  <2> QED BY <1>3, <2>1, <2>2, <2>3 DEF Late
<1> QED BY <1>5, <1>6, <1>7, <1>8, <1>9, <1>10

LEMMA LoginStutter == ASSUME LoginInv, UNCHANGED loginVars PROVE LoginInv'
<1>1. /\ UNCHANGED <<setup, platform, step, broker, token, expiry, left, linked, target>>
      /\ UNCHANGED pageVars
  BY DEF loginVars
<1>2. LookupInv' BY <1>1, LookupUnchanged DEF LoginInv
<1>3. LoginTyped' BY <1>1 DEF LoginInv, LoginTyped
<1>4. InHand' BY <1>1 DEF LoginInv, InHand, ViaAuth0
<1>5. PostsKnown' BY <1>1 DEF LoginInv, PostsKnown, pageVars, Known, WithToken
<1>6. ExpiryIsTheTokens' BY <1>1 DEF LoginInv, ExpiryIsTheTokens, ViaAuth0
<1> QED BY <1>2, <1>3, <1>4, <1>5, <1>6 DEF LoginInv

\* Every step keeps the invariant.
LEMMA LoginSteps == ASSUME LoginInv, [LoginNext]_loginVars PROVE LoginInv'
BY TheWayKeeps, ConnectionKeeps, LookupGoesOnKeeps, PostKeeps, LoginStutter DEF LoginNext

LEMMA LoginInvariance == LoginSpec => []LoginInv
<1>1. LoginInit => LoginInv
  BY LoginInitHolds
<1>2. LoginInv /\ [LoginNext]_loginVars => LoginInv'
  BY LoginSteps
<1> QED BY <1>1, <1>2, PTL DEF LoginSpec

-----------------------------------------------------------------------------
LEMMA LoginTyping == LoginInv => LoginTypeOK
BY DEF LoginInv, LookupInv, LoginTyped, LoginTypeOK

\* The login, the lookup of pages and the test post keep their types.
THEOREM LoginTypeCorrect == LoginSpec => []LoginTypeOK
BY LoginTyping, LoginInvariance, PTL

\* The expiry stored with an account is that of its token, but for Facebook pages and
\* for an extended token without a lifetime (extend_meta_token, complete_oauth).
THEOREM ExpiryBelongsToToken == LoginSpec => []ExpiryIsTheTokens
<1>1. LoginInv => ExpiryIsTheTokens
  BY DEF LoginInv
<1> QED BY <1>1, LoginInvariance, PTL

\* A test post leaves the account's page only when no way of asking gave its token
\* (lookup_facebook_pages, publish_test_facebook_post).
THEOREM PostsStayOnTheirPage == LoginSpec => []PostsGoToTheirPage
<1>1. LoginInv => PostsGoToTheirPage
  BY DEF LoginInv, PostsKnown, PostsGoToTheirPage
<1> QED BY <1>1, LoginInvariance, PTL

(***************************************************************************)
(* The rate limiter.                                                       *)
(***************************************************************************)

\* The smallest element of a set of numbers.
LEMMA SmallestNumber ==
  ASSUME NEW S, S \subseteq Nat, S # {}
  PROVE  \E m \in S : \A x \in S : m <= x
  <1>1. \E x \in S : \A y \in S : ~ (<<y, x>> \in OpToRel(<, Nat))
    BY NatLessThanWellFounded, WFMin
  <1>2. PICK x \in S : \A y \in S : ~ (<<y, x>> \in OpToRel(<, Nat))
    BY <1>1
  <1>3. \A y \in S : ~ (y < x)
    BY <1>2 DEF OpToRel
  <1>4. \A y \in S : x <= y
    BY <1>3
  <1>5. QED
    BY <1>4

\* The i-th element of the bucket is accepted hit f[i], in the order of the calls.
Recorded(f) ==
  /\ f \in [DOMAIN bucket -> log]
  /\ \A i \in DOMAIN bucket : f[i].accepted /\ f[i].time = bucket[i]
  /\ \A i, j \in DOMAIN bucket : i < j => f[i].n < f[j].n
  /\ \A h \in log : h.accepted => h.time < tick - Window \/ \E i \in DOMAIN bucket : f[i] = h

\* Calls are numbered in order, and time does not run backwards.
LogInOrder ==
  /\ IsFiniteSet(log)
  /\ \A h \in log : h.n < Cardinality(log) /\ h.time <= tick
  /\ \A g, h \in log : g.n < h.n => g.time <= h.time
  /\ \A g, h \in log : g.n = h.n => g = h

LimitInv == LimitTypeOK /\ LogInOrder /\ LimitIsExact /\ \E f : Recorded(f)

\* The bucket is sorted.
LEMMA BucketInOrder ==
  ASSUME LimitInv
  PROVE  \A i, j \in DOMAIN bucket : i <= j => bucket[i] <= bucket[j]
  <1>1. PICK f : Recorded(f)
    BY DEF LimitInv
  <1>2. ASSUME NEW i \in DOMAIN bucket, NEW j \in DOMAIN bucket, i <= j PROVE bucket[i] <= bucket[j]
    <2>1. i \in Int /\ j \in Int /\ bucket[i] \in Int
      <3>1. bucket \in Seq(0..LastTick)
        BY DEF LimitInv, LimitTypeOK
      <3>2. DOMAIN bucket = 1..Len(bucket) /\ Len(bucket) \in Nat
        BY <3>1, LenProperties
      <3>3. bucket[i] \in 0..LastTick
        BY <3>1, <3>2, ElementOfSeq
      <3>4. QED
        BY <3>2, <3>3
    <2>2. CASE i = j
      BY <2>1, <2>2
    <2>3. CASE i < j
      BY <1>1, <2>3 DEF Recorded, LimitInv, LogInOrder
    <2>4. QED
      BY <1>2, <2>1, <2>2, <2>3
  <1>3. QED
    BY <1>2

\* The hits that are kept: those within the window, in their order.
LEMMA KeptFacts ==
  ASSUME LimitInv, NEW k, k = FirstKept(bucket)
  PROVE  /\ k \in 1..(Len(bucket) + 1) /\ Len(bucket) \in Nat /\ DOMAIN bucket = 1..Len(bucket)
         /\ Kept(bucket) \in Seq(0..LastTick)
         /\ Len(Kept(bucket)) = Len(bucket) - k + 1
         /\ \A i \in 1..(Len(bucket) - k + 1) : Kept(bucket)[i] = bucket[i + k - 1]
         /\ \A i \in 1..Len(bucket) : bucket[i] < tick - Window <=> i < k
  <1>1. /\ bucket \in Seq(0..LastTick) /\ Len(bucket) \in Nat /\ DOMAIN bucket = 1..Len(bucket)
        /\ tick \in Int /\ Window \in Int
        /\ \A i \in 1..Len(bucket) : bucket[i] \in Int /\ bucket[i] \in 0..LastTick
    BY LimitConstants DEF LimitInv, LimitTypeOK
  <1> DEFINE S == {i \in 1..Len(bucket) : bucket[i] >= tick - Window} \cup {Len(bucket) + 1}
  <1>2. k \in S /\ \A i \in S : k <= i
    <2>1. S \subseteq Nat /\ S # {}
      BY <1>1
    <2>2. k = Min(S)
      BY DEF FirstKept
    <2> HIDE DEF S
    <2>3. \E m \in S : \A x \in S : m <= x
      BY <2>1, SmallestNumber
    <2>4. QED
      BY <2>2, <2>3 DEF Min
  <1>3. k \in 1..(Len(bucket) + 1)
    BY <1>1, <1>2
  <1>4. ASSUME NEW i \in 1..Len(bucket) PROVE bucket[i] < tick - Window <=> i < k
    <2>1. CASE i < k
      BY <1>1, <1>2, <1>3, <2>1
    <2>2. CASE i >= k
      <3>1. k \in 1..Len(bucket) /\ bucket[k] >= tick - Window
        BY <1>1, <1>2, <1>3, <2>2
      <3>2. bucket[k] <= bucket[i]
        BY <1>1, <2>2, <3>1, BucketInOrder
      <3>3. QED
        BY <1>1, <2>2, <3>1, <3>2
    <2>3. QED
      BY <1>1, <1>3, <2>1, <2>2
  <1>5. /\ Kept(bucket) \in Seq(0..LastTick)
        /\ Len(Kept(bucket)) = IF k <= Len(bucket) THEN Len(bucket) - k + 1 ELSE 0
        /\ \A i \in 1..(Len(bucket) - k + 1) : Kept(bucket)[i] = bucket[i + k - 1]
    BY <1>1, <1>3, SubSeqProperties DEF Kept
  <1>6. Len(Kept(bucket)) = Len(bucket) - k + 1
    BY <1>1, <1>3, <1>5
  <1>7. QED
    BY <1>1, <1>3, <1>4, <1>5, <1>6

\* The order of the log outlives a new entry.
LEMMA LogGrows ==
  ASSUME LimitInv, NEW a \in BOOLEAN, Logged(a), tick' = tick,
         NEW new, new = [time |-> tick, n |-> Cardinality(log), accepted |-> a]
  PROVE  /\ log' = log \cup {new} /\ new \notin log /\ new \in Hits
         /\ log' \subseteq Hits /\ LogInOrder'
         /\ \A h \in log : h.n < new.n /\ h.n \in Nat /\ h.time \in Int /\ h.accepted \in BOOLEAN
  <1>1. /\ IsFiniteSet(log) /\ Cardinality(log) \in Nat /\ tick \in 0..LastTick
        /\ \A h \in log : h.n < Cardinality(log) /\ h.time <= tick
        /\ log \subseteq Hits
    BY FS_CardinalityType DEF LimitInv, LimitTypeOK, LogInOrder
  <1>2. \A h \in log : h.n \in Nat /\ h.time \in 0..LastTick /\ h.accepted \in BOOLEAN
    BY <1>1 DEF Hits
  <1>3. new \in Hits /\ new.n = Cardinality(log) /\ new.time = tick
    BY <1>1 DEF Hits
  <1>4. log' = log \cup {new}
    BY DEF Logged
  <1>5. new \notin log
    BY <1>1, <1>3
  <1>6. IsFiniteSet(log') /\ Cardinality(log') = Cardinality(log) + 1
    BY <1>1, <1>4, <1>5, FS_AddElement
  <1>7. \A h \in log' : h.n < Cardinality(log') /\ h.time <= tick
    BY <1>1, <1>2, <1>3, <1>4, <1>6, LimitConstants
  <1>8. \A g, h \in log' : g.n < h.n => g.time <= h.time
    BY <1>1, <1>2, <1>3, <1>4, LimitConstants DEF LimitInv, LogInOrder
  <1>9. \A g, h \in log' : g.n = h.n => g = h
    BY <1>1, <1>2, <1>3, <1>4 DEF LimitInv, LogInOrder
  <1>10. LogInOrder'
    BY <1>6, <1>7, <1>8, <1>9 DEF LogInOrder
  <1>11. QED
    BY <1>1, <1>2, <1>3, <1>4, <1>5, <1>10, LimitConstants

\* The kept hits are the accepted ones that a hit now has within its window.
LEMMA KeptAreRecent ==
  ASSUME LimitInv, NEW f, Recorded(f)
  PROVE  LET recent == {g \in log : g.accepted /\ g.time >= tick - Window} IN
           IsFiniteSet(recent) /\ Cardinality(recent) = Len(Kept(bucket))
  <1> DEFINE recent == {g \in log : g.accepted /\ g.time >= tick - Window}
             k == FirstKept(bucket)
             m == Len(bucket) - k + 1
             g == [i \in 1..m |-> f[i + k - 1]]
  <1>1. /\ k \in 1..(Len(bucket) + 1) /\ Len(bucket) \in Nat /\ DOMAIN bucket = 1..Len(bucket)
        /\ Len(Kept(bucket)) = m
        /\ \A i \in 1..Len(bucket) : bucket[i] < tick - Window <=> i < k
    BY KeptFacts
  <1> HIDE DEF k
  <1>2. m \in Nat /\ \A i \in 1..m : i + k - 1 \in 1..Len(bucket) /\ ~(i + k - 1 < k)
    BY <1>1
  <1>3. /\ \A i \in 1..Len(bucket) : /\ f[i] \in log /\ f[i].accepted
                                     /\ f[i].time = bucket[i] /\ f[i].n \in Nat
        /\ \A i, j \in 1..Len(bucket) : i < j => f[i].n < f[j].n
        /\ \A h \in log : h.accepted => h.time < tick - Window
                                        \/ \E i \in 1..Len(bucket) : f[i] = h
        /\ \A h \in log : h.time \in Int
        /\ tick - Window \in Int
    <2>1. /\ \A h \in log : h.n \in Nat /\ h.time \in Int
          /\ tick - Window \in Int
      BY LimitConstants DEF LimitInv, LimitTypeOK, Hits
    <2>2. \A i \in 1..Len(bucket) : f[i] \in log
      BY <1>1 DEF Recorded
    <2>3. QED
      BY <1>1, <2>1, <2>2 DEF Recorded
  <1>4. \A i \in 1..m : f[i + k - 1] \in recent
    <2>1. ASSUME NEW j \in 1..Len(bucket), ~(j < k) PROVE f[j] \in recent
      <3>1. f[j] \in log /\ f[j].accepted /\ f[j].time = bucket[j]
        BY <1>3
      <3>2. f[j].time \in Int /\ tick - Window \in Int
        BY <1>3, <3>1
      <3>3. ~(bucket[j] < tick - Window)
        BY <1>1, <2>1
      <3>4. f[j].time >= tick - Window
        BY <3>1, <3>2, <3>3
      <3>5. QED
        BY <3>1, <3>4
    <2> HIDE DEF m, recent
    <2>2. QED
      BY <1>2, <2>1
  <1>5. ASSUME NEW i \in 1..m, NEW j \in 1..m, i # j PROVE f[i + k - 1] # f[j + k - 1]
    <2>1. i + k - 1 < j + k - 1 \/ j + k - 1 < i + k - 1
      BY <1>1, <1>2, <1>5
    <2>2. f[i + k - 1].n # f[j + k - 1].n
      BY <1>2, <1>3, <2>1
    <2>3. QED
      BY <2>2
  <1>6. ASSUME NEW h \in recent PROVE \E i \in 1..m : f[i + k - 1] = h
    <2>1. PICK i \in 1..Len(bucket) : f[i] = h
      BY <1>3
    <2>2. ~(i < k)
      BY <1>1, <1>3, <2>1
    <2>3. i - k + 1 \in 1..m /\ (i - k + 1) + k - 1 = i
      BY <1>1, <2>2
    <2>4. QED
      BY <2>1, <2>3
  <1> HIDE DEF m, recent
  <1>7. g \in Bijection(1..m, recent)
    <2>1. g \in [1..m -> recent]
      BY <1>4
    <2>2. IsInjective(g)
      BY <1>5 DEF IsInjective
    <2>3. \A h \in recent : \E i \in 1..m : g[i] = h
      BY <1>6
    <2>4. QED
      BY <2>1, <2>2, <2>3 DEF Bijection, Injection, Surjection
  <1>8. ExistsBijection(1..m, recent)
    BY <1>7 DEF ExistsBijection
  <1>9. IsFiniteSet(recent) /\ Cardinality(recent) = m
    BY <1>2, <1>8, FS_NatBijection, FS_CountingElements
  <1>10. QED
    BY <1>1, <1>9 DEF recent

\* A logged hit changes what precedes it for no earlier one.
LEMMA ExactStays ==
  ASSUME LimitInv, NEW a \in BOOLEAN, Logged(a), tick' = tick,
         a <=> Len(Kept(bucket)) < Limit
  PROVE  LimitIsExact'
  <1> PICK new : new = [time |-> tick, n |-> Cardinality(log), accepted |-> a]
    OBVIOUS
  <1>1. /\ log' = log \cup {new}
        /\ \A h \in log : h.n < new.n /\ h.n \in Nat
        /\ new.n \in Nat
    BY LogGrows DEF Hits
  <1>2. ASSUME NEW h \in log PROVE Recent(h)' = Recent(h)
    BY <1>1 DEF Recent
  <1>3. Recent(new)' = {g \in log : g.accepted /\ g.time >= tick - Window}
    <2>1. new.time = tick /\ ~(new.n < new.n)
      BY <1>1
    <2>2. QED
      BY <1>1, <2>1 DEF Recent
  <1>4. Cardinality(Recent(new)') = Len(Kept(bucket))
    BY <1>3, KeptAreRecent DEF LimitInv
  <1>5. new.accepted = a
    OBVIOUS
  <1>6. ASSUME NEW h \in log' PROVE h.accepted <=> Cardinality(Recent(h)') < Limit
    <2>1. CASE h = new
      BY <1>4, <1>5, <2>1
    <2>2. CASE h \in log
      <3>1. h.accepted <=> Cardinality(Recent(h)) < Limit
        BY <2>2 DEF LimitInv, LimitIsExact
      <3>2. QED
        BY <1>2, <2>2, <3>1
    <2>3. QED
      BY <1>1, <2>1, <2>2
  <1>7. QED
    BY <1>6 DEF LimitIsExact

\* What is left of the bucket still records the accepted hits.
LEMMA KeptRecorded ==
  ASSUME LimitInv
  PROVE  \E g \in [1..Len(Kept(bucket)) -> log] :
           /\ \A i \in 1..Len(Kept(bucket)) : g[i].accepted /\ g[i].time = Kept(bucket)[i]
           /\ \A i, j \in 1..Len(Kept(bucket)) : i < j => g[i].n < g[j].n
           /\ \A h \in log : h.accepted =>
                h.time < tick - Window \/ \E i \in 1..Len(Kept(bucket)) : g[i] = h
  <1> PICK f : Recorded(f)
    BY DEF LimitInv
  <1> PICK k : k = FirstKept(bucket)
    OBVIOUS
  <1> DEFINE m == Len(bucket) - k + 1
             g == [i \in 1..m |-> f[i + k - 1]]
  <1>1. /\ k \in 1..(Len(bucket) + 1) /\ Len(bucket) \in Nat /\ DOMAIN bucket = 1..Len(bucket)
        /\ Len(Kept(bucket)) = m
        /\ \A i \in 1..m : Kept(bucket)[i] = bucket[i + k - 1]
        /\ \A i \in 1..Len(bucket) : bucket[i] < tick - Window <=> i < k
    BY KeptFacts
  <1>2. /\ \A i \in 1..Len(bucket) : f[i] \in log /\ f[i].accepted /\ f[i].time = bucket[i]
        /\ \A i, j \in 1..Len(bucket) : i < j => f[i].n < f[j].n
        /\ \A h \in log : h.accepted => h.time < tick - Window
                                        \/ \E i \in 1..Len(bucket) : f[i] = h
    BY <1>1 DEF Recorded
  <1>3. m \in Nat /\ \A i \in 1..m : i + k - 1 \in 1..Len(bucket)
    BY <1>1
  <1>4. \A i \in 1..m : f[i + k - 1].accepted /\ f[i + k - 1].time = Kept(bucket)[i]
    BY <1>1, <1>2, <1>3
  <1>5. ASSUME NEW i \in 1..m, NEW j \in 1..m, i < j PROVE f[i + k - 1].n < f[j + k - 1].n
    <2>1. i + k - 1 < j + k - 1
      BY <1>1, <1>3, <1>5
    <2>2. QED
      BY <1>2, <1>3, <2>1
  <1>6. ASSUME NEW h \in log, h.accepted, ~(h.time < tick - Window)
        PROVE  \E i \in 1..m : g[i] = h
    <2>1. PICK i \in 1..Len(bucket) : f[i] = h
      BY <1>2, <1>6
    <2>2. ~(i < k)
      BY <1>1, <1>2, <1>6, <2>1
    <2>3. i - k + 1 \in 1..m /\ (i - k + 1) + k - 1 = i
      BY <1>1, <2>2
    <2>4. g[i - k + 1] = h
      BY <2>1, <2>3
    <2>5. QED
      BY <2>3, <2>4
  <1>7. g \in [1..m -> log]
    BY <1>2, <1>3
  <1>8. \A i \in 1..m : g[i] = f[i + k - 1]
    OBVIOUS
  <1> HIDE DEF m, g
  <1>9. g \in [1..Len(Kept(bucket)) -> log]
    BY <1>1, <1>7
  <1>10. \A i \in 1..m : g[i].accepted /\ g[i].time = Kept(bucket)[i]
    BY <1>4, <1>8
  <1>11. \A i, j \in 1..m : i < j => g[i].n < g[j].n
    BY <1>5, <1>8
  <1>12. \A h \in log : h.accepted => h.time < tick - Window \/ \E i \in 1..m : g[i] = h
    BY <1>6
  <1>13. m = Len(Kept(bucket))
    BY <1>1
  <1>14. QED
    BY <1>9, <1>10, <1>11, <1>12, <1>13

\* A refused hit leaves the record as it is, but for what has expired.
LEMMA RefusalKeeps ==
  ASSUME LimitInv, HitRefused
  PROVE  LimitInv'
  <1> PICK new : new = [time |-> tick, n |-> Cardinality(log), accepted |-> FALSE]
    OBVIOUS
  <1>1. /\ Len(Kept(bucket)) >= Limit /\ bucket' = Kept(bucket) /\ Logged(FALSE) /\ tick' = tick
    BY DEF HitRefused
  <1>2. /\ Kept(bucket) \in Seq(0..LastTick) /\ Len(Kept(bucket)) \in Nat
        /\ DOMAIN Kept(bucket) = 1..Len(Kept(bucket))
    BY KeptFacts
  <1>3. LogInOrder' /\ log' = log \cup {new} /\ log' \subseteq Hits
    BY <1>1, LogGrows
  <1>4. LimitTypeOK'
    BY <1>1, <1>2, <1>3 DEF LimitInv, LimitTypeOK
  <1>5. LimitIsExact'
    <2>1. FALSE <=> Len(Kept(bucket)) < Limit
      BY <1>1, <1>2, LimitConstants
    <2>2. QED
      BY <1>1, <2>1, ExactStays
  <1>7. PICK g \in [1..Len(Kept(bucket)) -> log] :
        /\ \A i \in 1..Len(Kept(bucket)) : g[i].accepted /\ g[i].time = Kept(bucket)[i]
        /\ \A i, j \in 1..Len(Kept(bucket)) : i < j => g[i].n < g[j].n
        /\ \A h \in log : h.accepted =>
             h.time < tick - Window \/ \E i \in 1..Len(Kept(bucket)) : g[i] = h
    BY KeptRecorded
  <1>8. g \in [DOMAIN bucket' -> log']
    BY <1>1, <1>2, <1>3, <1>7
  <1>9. Recorded(g)'
    <2>1. \A h \in log' : h.accepted => h.time < tick - Window
                                         \/ \E i \in 1..Len(Kept(bucket)) : g[i] = h
      BY <1>3, <1>7
    <2>2. QED
      BY <1>1, <1>2, <1>7, <1>8, <2>1 DEF Recorded
  <1>10. QED
    BY <1>3, <1>4, <1>5, <1>9 DEF LimitInv

\* An accepted hit is the newest of the bucket and of the log.
LEMMA AcceptanceKeeps ==
  ASSUME LimitInv, HitAccepted
  PROVE  LimitInv'
  <1> PICK new : new = [time |-> tick, n |-> Cardinality(log), accepted |-> TRUE]
    OBVIOUS
  <1> DEFINE kpt == Kept(bucket)
             m == Len(kpt)
  <1>1. /\ m < Limit /\ bucket' = Append(kpt, tick) /\ Logged(TRUE) /\ tick' = tick
        /\ tick \in 0..LastTick
    BY DEF HitAccepted, LimitInv, LimitTypeOK
  <1>2. /\ kpt \in Seq(0..LastTick) /\ m \in Nat
        /\ DOMAIN kpt = 1..m
    BY KeptFacts
  <1>3. /\ LogInOrder' /\ log' = log \cup {new} /\ log' \subseteq Hits
        /\ \A h \in log : h.n < new.n
    BY <1>1, LogGrows
  <1>4. /\ bucket' \in Seq(0..LastTick) /\ DOMAIN bucket' = 1..(m + 1)
        /\ \A i \in 1..m : bucket'[i] = kpt[i]
        /\ bucket'[m + 1] = tick
    <2>1. /\ Append(kpt, tick) \in Seq(0..LastTick) /\ Len(Append(kpt, tick)) = m + 1
          /\ \A i \in 1..m : Append(kpt, tick)[i] = kpt[i]
          /\ Append(kpt, tick)[m + 1] = tick
      BY <1>1, <1>2, AppendProperties
    <2>2. DOMAIN Append(kpt, tick) = 1..(m + 1)
      BY <2>1, LenProperties
    <2>3. QED
      BY <1>1, <2>1, <2>2
  <1>5. LimitTypeOK'
    BY <1>1, <1>3, <1>4 DEF LimitTypeOK
  <1>6. LimitIsExact'
    BY <1>1, ExactStays
  <1>8. PICK g \in [1..m -> log] :
        /\ \A i \in 1..m : g[i].accepted /\ g[i].time = kpt[i]
        /\ \A i, j \in 1..m : i < j => g[i].n < g[j].n
        /\ \A h \in log : h.accepted => h.time < tick - Window \/ \E i \in 1..m : g[i] = h
    BY KeptRecorded
  <1> HIDE DEF m, kpt
  <1> PICK e : e = [i \in 1..(m + 1) |-> IF i = m + 1 THEN new ELSE g[i]]
    OBVIOUS
  <1>9. /\ \A i \in 1..m : e[i] = g[i] /\ i # m + 1
        /\ e[m + 1] = new
        /\ \A i \in 1..(m + 1) : i \in 1..m \/ i = m + 1
    BY <1>2
  <1>10. e \in [1..(m + 1) -> log']
    BY <1>3, <1>8, <1>9
  <1>11. \A i \in 1..(m + 1) : e[i].accepted /\ e[i].time = bucket'[i]
    <2>1. ASSUME NEW i \in 1..m PROVE e[i].accepted /\ e[i].time = bucket'[i]
      <3>1. g[i].accepted /\ g[i].time = kpt[i] /\ e[i] = g[i]
        BY <1>8, <1>9
      <3>2. QED
        BY <1>4, <3>1
    <2>2. e[m + 1].accepted /\ e[m + 1].time = bucket'[m + 1]
      BY <1>4, <1>9
    <2>3. QED
      BY <1>9, <2>1, <2>2
  <1>12. ASSUME NEW i \in 1..(m + 1), NEW j \in 1..(m + 1), i < j PROVE e[i].n < e[j].n
    <2>1. i \in 1..m
      BY <1>2, <1>12
    <2>2. CASE j \in 1..m
      BY <1>8, <1>9, <1>12, <2>1, <2>2
    <2>3. CASE j = m + 1
      BY <1>3, <1>8, <1>9, <2>1, <2>3
    <2>4. QED
      BY <1>9, <2>2, <2>3
  <1>13. \A h \in log' : h.accepted => h.time < tick - Window \/ \E i \in 1..(m + 1) : e[i] = h
    <2>1. 1..m \subseteq 1..(m + 1) /\ m + 1 \in 1..(m + 1)
      BY <1>2
    <2>2. QED
      BY <1>3, <1>8, <1>9, <2>1
  <1>14. Recorded(e)'
    BY <1>1, <1>4, <1>10, <1>11, <1>12, <1>13 DEF Recorded
  <1>15. QED
    BY <1>3, <1>5, <1>6, <1>14 DEF LimitInv

\* An expired hit stays expired.
LEMMA ElapseKeeps ==
  ASSUME LimitInv, Elapse
  PROVE  LimitInv'
  <1>1. /\ tick \in 0..LastTick /\ tick' = tick + 1 /\ tick' \in 0..LastTick
        /\ bucket' = bucket /\ log' = log
        /\ \A h \in log : h.time \in Int
        /\ Window \in Int /\ LastTick \in Int
    BY LimitConstants DEF Elapse, LimitInv, LimitTypeOK, Hits
  <1>2. LimitTypeOK'
    BY <1>1 DEF LimitInv, LimitTypeOK
  <1>3. LogInOrder'
    BY <1>1 DEF LimitInv, LogInOrder
  <1>4. LimitIsExact'
    BY <1>1 DEF LimitInv, LimitIsExact, Recent
  <1>5. PICK f : Recorded(f)
    BY DEF LimitInv
  <1>6. Recorded(f)'
    BY <1>1, <1>5 DEF Recorded
  <1>7. QED
    BY <1>2, <1>3, <1>4, <1>6 DEF LimitInv

LEMMA LimitStarts == ASSUME LimitInit PROVE LimitInv
  <1>1. tick = 0 /\ bucket = <<>> /\ log = {} /\ DOMAIN bucket = {}
    BY DEF LimitInit
  <1>2. IsFiniteSet({}) /\ Cardinality({}) = 0
    BY FS_EmptySet
  <1>3. LimitTypeOK
    BY <1>1, LimitConstants, EmptySeq DEF LimitTypeOK
  <1>4. LogInOrder /\ LimitIsExact
    BY <1>1, <1>2 DEF LogInOrder, LimitIsExact
  <1>5. Recorded([i \in {} |-> 0])
    BY <1>1 DEF Recorded
  <1>6. QED
    BY <1>3, <1>4, <1>5 DEF LimitInv

LEMMA LimitStutters == ASSUME LimitInv, UNCHANGED limitVars PROVE LimitInv'
  <1>1. tick' = tick /\ bucket' = bucket /\ log' = log
    BY DEF limitVars
  <1>2. PICK f : Recorded(f)
    BY DEF LimitInv
  <1>3. Recorded(f)'
    BY <1>1, <1>2 DEF Recorded
  <1>4. QED
    BY <1>1, <1>3 DEF LimitInv, LimitTypeOK, LogInOrder, LimitIsExact, Recent

\* Every step keeps the invariant.
LEMMA LimitSteps == ASSUME LimitInv, [LimitNext]_limitVars PROVE LimitInv'
  BY LimitStutters, ElapseKeeps, AcceptanceKeeps, RefusalKeeps DEF LimitNext

LEMMA LimitInvariance == LimitSpec => []LimitInv
  <1>1. LimitInit => LimitInv
    BY LimitStarts
  <1>2. LimitInv /\ [LimitNext]_limitVars => LimitInv'
    BY LimitSteps
  <1>3. QED
    BY <1>1, <1>2, PTL DEF LimitSpec

\* The limiter's clock, bucket and log keep their types.
THEOREM LimitTypeCorrect == LimitSpec => []LimitTypeOK
  <1>1. LimitInv => LimitTypeOK
    BY DEF LimitInv
  <1>2. QED
    BY <1>1, LimitInvariance, PTL

\* InMemoryRateLimiter.hit refuses exactly the calls that come when the limit is used
\* up within the window, for any limit and any window.
THEOREM RefusesExactly == LimitSpec => []LimitIsExact
  <1>1. LimitInv => LimitIsExact
    BY DEF LimitInv
  <1>2. QED
    BY <1>1, LimitInvariance, PTL

(***************************************************************************)
(* The compliance gate.                                                    *)
(***************************************************************************)

\* The items of an answer.
LEMMA ItemFacts ==
  ASSUME NEW items \in SUBSET (1..MaxItems)
  PROVE  /\ MaxItems \in Nat /\ IsFiniteSet(items) /\ Cardinality(items) \in Nat
         /\ \A k \in items : k \in Nat /\ 1 <= k /\ k <= MaxItems
  <1>1. MaxItems \in Nat /\ IsFiniteSet(1..MaxItems)
    BY GateConstants, FS_Interval
  <1>2. IsFiniteSet(items)
    BY <1>1, FS_Subset
  <1>3. Cardinality(items) \in Nat
    BY <1>2, FS_CardinalityType
  <1>4. QED
    BY <1>1, <1>2, <1>3

\* The i-th valid item exists, for i up to the number of items.
LEMMA NthFacts ==
  ASSUME NEW items \in SUBSET (1..MaxItems), NEW i \in 1..Cardinality(items)
  PROVE  Nth(items, i) \in items /\ Cardinality({k \in items : k <= Nth(items, i)}) = i
  <1> DEFINE upTo(m) == {k \in items : k <= m}
             S == {m \in Nat : Cardinality(upTo(m)) >= i}
  <1>1. /\ MaxItems \in Nat /\ IsFiniteSet(items) /\ Cardinality(items) \in Nat
        /\ \A k \in items : k \in Nat /\ 1 <= k /\ k <= MaxItems
    BY ItemFacts
  <1>2. \A m \in Nat : IsFiniteSet(upTo(m)) /\ Cardinality(upTo(m)) \in Nat
    BY <1>1, FS_Subset, FS_CardinalityType
  <1>3. MaxItems \in S
    <2>1. upTo(MaxItems) = items
      BY <1>1
    <2>2. QED
      BY <1>1, <2>1
  <1> HIDE DEF S
  <1>4. PICK m \in S : \A x \in S : m <= x
    <2>1. S \subseteq Nat
      BY DEF S
    <2>2. QED
      BY <1>3, <2>1, SmallestNumber
  <1>5. m \in Nat /\ Cardinality(upTo(m)) >= i /\ i \in Nat /\ i >= 1
    BY <1>1 DEF S
  <1>6. m # 0
    <2>1. \A k \in items : ~(k <= 0)
      BY <1>1
    <2>2. upTo(0) = {}
      BY <2>1
    <2>3. Cardinality(upTo(0)) = 0
      BY <2>2, FS_EmptySet
    <2> HIDE DEF upTo
    <2>4. QED
      BY <1>5, <2>3
  <1>7. m - 1 \in Nat /\ m - 1 \notin S
    BY <1>4, <1>5, <1>6
  <1>8. Cardinality(upTo(m - 1)) < i
    <2> HIDE DEF upTo
    <2>1. ~(Cardinality(upTo(m - 1)) >= i)
      BY <1>7 DEF S
    <2>2. Cardinality(upTo(m - 1)) \in Nat
      BY <1>2, <1>7
    <2>3. QED
      BY <1>5, <2>1, <2>2
  <1>9. upTo(m - 1) = upTo(m) \ {m}
    <2>1. \A k \in items : k <= m - 1 <=> k <= m /\ k # m
      BY <1>1, <1>5
    <2>2. QED
      BY <2>1
  <1> DEFINE c == Cardinality(upTo(m))  d == Cardinality(upTo(m - 1))
  <1>10. d = IF m \in upTo(m) THEN c - 1 ELSE c
    BY <1>2, <1>5, <1>9, FS_RemoveElement
  <1>11. c \in Nat /\ d \in Nat /\ c >= i /\ d < i
    BY <1>2, <1>5, <1>7, <1>8
  <1>12. m \in items /\ c = i
    <2> HIDE DEF c, d
    <2>1. m \in upTo(m) /\ c = i
      BY <1>5, <1>10, <1>11
    <2>2. QED
      BY <2>1
  <1>13. \E j \in items : Cardinality({k \in items : k <= j}) = i
    BY <1>12
  <1>14. QED
    BY <1>13 DEF Nth

\* An answer's items as the gate's list: distinct, and in their place if no item before
\* them is invalid.
LEMMA NthInPlace ==
  ASSUME NEW items \in SUBSET (1..MaxItems), NEW i \in 1..Cardinality(items)
  PROVE  /\ Nth(items, i) \in 1..MaxItems
         /\ \A j \in 1..Cardinality(items) : Nth(items, i) = Nth(items, j) => i = j
         /\ Nth(items, i) = i \/ \E j \in 1..(Nth(items, i) - 1) : j \notin items
  <1> DEFINE n == Nth(items, i)
  <1>1. n \in items /\ Cardinality({k \in items : k <= n}) = i /\ n \in 1..MaxItems
    BY NthFacts
  <1>2. \A j \in 1..Cardinality(items) : Nth(items, i) = Nth(items, j) => i = j
    BY <1>1, NthFacts
  <1> HIDE DEF n
  <1>3. ASSUME \A j \in 1..(n - 1) : j \in items PROVE n = i
    <2>1. n \in Nat /\ n >= 1
      BY <1>1, GateConstants
    <2>2. \A k \in 1..n : k \in items
      <3>1. \A k \in 1..n : k = n \/ k \in 1..(n - 1)
        BY <2>1
      <3>2. QED
        BY <1>1, <1>3, <3>1
    <2>3. {k \in items : k <= n} = 1..n
      <3>1. \A k \in items : k \in Nat /\ 1 <= k
        BY ItemFacts
      <3>2. \A k \in items : k <= n => k \in 1..n
        BY <2>1, <3>1
      <3>3. QED
        <4>1. \A k \in 1..n : k \in items /\ k <= n
          BY <2>1, <2>2
        <4>2. QED
          BY <3>2, <4>1
    <2>4. Cardinality(1..n) = n
      BY <2>1, FS_Interval
    <2>5. QED
      BY <1>1, <2>3, <2>4
  <1>4. QED
    BY <1>1, <1>2, <1>3 DEF n

\* The code finds a violation in every outcome but PASS and an empty FAIL.
LEMMA WhatPasses == ASSUME NEW o \in Outcomes PROVE Violates(o) <=> o \notin Passed
  BY DEF Outcomes, Replies, Violates, Verdict, Passed

\* What a delivery relies on: up to it the slots are those of the first answer, and
\* every slot that has been checked has an outcome.
GateInv ==
  /\ GateTypeOK
  /\ phase # "delivered" => \A i \in DOMAIN slots : slots[i].text[1] = 1 /\ ~slots[i].rejected
  /\ phase = "retrying" =>
       /\ \A i \in DOMAIN slots : \E o \in Outcomes : <<slots[i].text, o>> \in verdict
       /\ \A v \in verdict : v[1][1] = 1
  /\ AcceptedWasCleared
  /\ RevisionsKeepTheirSlot

Slot == [text : Texts, rejected : BOOLEAN]

LEMMA SlotsAre ==
  ASSUME GateTypeOK
  PROVE  /\ Len(slots) \in Nat /\ DOMAIN slots = 1..Len(slots)
         /\ \A i \in DOMAIN slots : slots[i] \in Slot /\ slots[i].text \in Texts
         /\ Failing \subseteq DOMAIN slots
  <1>1. slots \in Seq(Slot)
    BY DEF GateTypeOK, Slot
  <1>2. Len(slots) \in Nat /\ DOMAIN slots = 1..Len(slots)
    BY <1>1, LenProperties
  <1>3. \A i \in DOMAIN slots : slots[i] \in Slot
    BY <1>1, <1>2, ElementOfSeq
  <1>4. QED
    BY <1>2, <1>3 DEF Failing, Slot

LEMMA IdeatedKeeps == ASSUME GateInv, Ideated PROVE GateInv'
  <1>1. PICK items \in Answers :
          /\ kept' = [kept EXCEPT ![1] = items]
          /\ slots' = [i \in 1..Cardinality(items) |->
                         [text |-> <<1, Nth(items, i)>>, rejected |-> FALSE]]
    BY DEF Ideated
  <1>2. /\ phase' = "checking" /\ attempt' = 0 /\ verdict' = verdict /\ GateTypeOK
        /\ items \in SUBSET (1..MaxItems)
    BY DEF Ideated, GateInv, Answers
  <1>3. Cardinality(items) \in Nat
    BY <1>2, ItemFacts
  <1>4. \A i \in 1..Cardinality(items) : <<1, Nth(items, i)>> \in Texts
    BY <1>2, NthInPlace DEF Texts
  <1>5. slots' \in [1..Cardinality(items) -> Slot]
    BY <1>1, <1>4 DEF Slot
  <1>6. slots' \in Seq(Slot)
    BY <1>3, <1>5, SeqDef
  <1>7. kept' \in [{1, 2} -> SUBSET (1..MaxItems)]
    BY <1>1, <1>2 DEF GateTypeOK
  <1>8. GateTypeOK'
    BY <1>2, <1>6, <1>7, GateConstants DEF GateTypeOK, Phases, Slot
  <1>9. \A i \in DOMAIN slots' : slots'[i].text[1] = 1 /\ ~slots'[i].rejected
    BY <1>1
  <1>10. AcceptedWasCleared' /\ RevisionsKeepTheirSlot'
    BY <1>2, <1>9 DEF AcceptedWasCleared, RevisionsKeepTheirSlot
  <1>11. QED
    BY <1>2, <1>8, <1>9, <1>10 DEF GateInv

LEMMA CheckedKeeps == ASSUME GateInv, Checked PROVE GateInv'
  <1>1. PICK o \in [DOMAIN slots -> Outcomes] :
          /\ verdict' = {<<slots[i].text, o[i]>> : i \in DOMAIN slots}
          /\ phase' = IF \A i \in DOMAIN slots : ~Violates(o[i]) THEN "delivered" ELSE "retrying"
    BY DEF Checked
  <1>2. /\ phase = "checking" /\ attempt' = 0 /\ slots' = slots /\ kept' = kept /\ GateTypeOK
        /\ \A i \in DOMAIN slots : slots[i].text[1] = 1 /\ ~slots[i].rejected
        /\ \A i \in DOMAIN slots : slots[i].text \in Texts /\ o[i] \in Outcomes
    BY SlotsAre DEF Checked, GateInv
  <1>3. verdict' \subseteq Texts \X Outcomes
    BY <1>1, <1>2
  <1>4. GateTypeOK'
    BY <1>1, <1>2, <1>3, GateConstants DEF GateTypeOK, Phases
  <1>5. RevisionsKeepTheirSlot'
    BY <1>2 DEF RevisionsKeepTheirSlot
  <1>6. AcceptedWasCleared'
    <2>1. ASSUME phase' = "delivered", NEW i \in DOMAIN slots
          PROVE  /\ \E out \in Passed : <<slots[i].text, out>> \in verdict'
                 /\ \A out \in Outcomes \ Passed : <<slots[i].text, out>> \notin verdict'
      <3>1. \A k \in DOMAIN slots : o[k] \in Passed
        BY <1>1, <1>2, <2>1, WhatPasses
      <3>2. QED
        BY <1>1, <3>1
    <2>2. QED
      BY <1>2, <2>1 DEF AcceptedWasCleared
  <1>7. /\ \A i \in DOMAIN slots : \E out \in Outcomes : <<slots[i].text, out>> \in verdict'
        /\ \A v \in verdict' : v[1][1] = 1
    BY <1>1, <1>2
  <1>8. QED
    BY <1>2, <1>4, <1>5, <1>6, <1>7 DEF GateInv

LEMMA RetriedKeeps == ASSUME GateInv, Retried PROVE GateInv'
  <1>1. PICK items \in Answers, o \in [Failing -> Outcomes] :
          LET shown == {i \in Failing : i <= Cardinality(items)} IN
          /\ \A i \in Failing \ shown : o[i] = "PASS"
          /\ kept' = [kept EXCEPT ![2] = items]
          /\ verdict' = verdict \cup {<< <<2, Revision(items, i)>>, o[i]>> : i \in shown}
          /\ slots' = [i \in DOMAIN slots |-> Resolved(items, o, i)]
    BY DEF Retried
  <1> DEFINE shown == {i \in Failing : i <= Cardinality(items)}
             fresh == {<< <<2, Nth(items, i)>>, o[i]>> : i \in shown}
  <1>2. /\ phase = "retrying" /\ phase' = "delivered" /\ attempt' = 0 /\ GateTypeOK
        /\ items \in SUBSET (1..MaxItems)
        /\ \A i \in DOMAIN slots : slots[i].text[1] = 1 /\ ~slots[i].rejected
        /\ \A i \in DOMAIN slots : \E out \in Outcomes : <<slots[i].text, out>> \in verdict
        /\ \A v \in verdict : v[1][1] = 1
    BY DEF Retried, GateInv, Answers
  <1>3. /\ Len(slots) \in Nat /\ DOMAIN slots = 1..Len(slots)
        /\ \A i \in DOMAIN slots : slots[i] \in Slot /\ slots[i].text \in Texts
        /\ Failing \subseteq DOMAIN slots
    BY <1>2, SlotsAre
  <1>4. Cardinality(items) \in Nat
    BY <1>2, ItemFacts
  <1>5. \A i \in shown : i \in 1..Cardinality(items) /\ i \in DOMAIN slots /\ o[i] \in Outcomes
    BY <1>3, <1>4
  <1>6. \A i \in shown : Nth(items, i) \in 1..MaxItems
    BY <1>2, <1>5, NthInPlace
  <1>7. /\ kept' = [kept EXCEPT ![2] = items]
        /\ verdict' = verdict \cup fresh
        /\ slots' = [i \in DOMAIN slots |-> Resolved(items, o, i)]
    BY <1>1 DEF Revision
  \* The three ways a slot comes out of the retry.
  <1>8. /\ \A i \in DOMAIN slots \ Failing : slots'[i] = slots[i]
        /\ \A i \in Failing : i \notin shown \/ Violates(o[i]) =>
             slots'[i] = [text |-> slots[i].text, rejected |-> TRUE]
        /\ \A i \in shown : ~Violates(o[i]) =>
             slots'[i] = [text |-> <<2, Nth(items, i)>>, rejected |-> FALSE]
    <2>1. ASSUME NEW i \in DOMAIN slots \ Failing PROVE slots'[i] = slots[i]
      BY <1>7, <2>1 DEF Resolved
    <2>2. ASSUME NEW i \in Failing, i \notin shown \/ Violates(o[i])
          PROVE  slots'[i] = [text |-> slots[i].text, rejected |-> TRUE]
      <3>1. i > Cardinality(items) \/ Violates(o[i])
        BY <1>3, <1>4, <2>2
      <3>2. QED
        BY <1>3, <1>7, <3>1 DEF Resolved
    <2>3. ASSUME NEW i \in shown, ~Violates(o[i])
          PROVE  slots'[i] = [text |-> <<2, Nth(items, i)>>, rejected |-> FALSE]
      <3>1. ~(i > Cardinality(items)) /\ i \in Failing
        BY <1>4, <1>5
      <3>2. QED
        BY <1>3, <1>7, <2>3, <3>1 DEF Resolved, Revision
    <2>4. QED
      BY <2>1, <2>2, <2>3
  <1>9. DOMAIN slots' = DOMAIN slots
    BY <1>7
  <1> HIDE DEF shown
  <1>10. \A i \in DOMAIN slots : \/ i \in DOMAIN slots \ Failing
                                 \/ i \in Failing /\ (i \notin shown \/ Violates(o[i]))
                                 \/ i \in shown /\ ~Violates(o[i])
    OBVIOUS
  <1>11. GateTypeOK'
    <2>1. ASSUME NEW i \in DOMAIN slots PROVE slots'[i] \in Slot
      <3>1. CASE i \in DOMAIN slots \ Failing
        BY <1>3, <1>8, <3>1
      <3>2. CASE i \in Failing /\ (i \notin shown \/ Violates(o[i]))
        <4>1. slots'[i] = [text |-> slots[i].text, rejected |-> TRUE] /\ slots[i].text \in Texts
          BY <1>3, <1>8, <3>2
        <4>2. QED
          BY <4>1 DEF Slot
      <3>3. CASE i \in shown /\ ~Violates(o[i])
        <4>1. <<2, Nth(items, i)>> \in Texts
          BY <1>6, <3>3 DEF Texts
        <4>2. slots'[i] = [text |-> <<2, Nth(items, i)>>, rejected |-> FALSE]
          BY <1>8, <3>3
        <4>3. QED
          BY <4>1, <4>2 DEF Slot
      <3>4. QED
        BY <1>10, <3>1, <3>2, <3>3
    <2>2. slots' \in [1..Len(slots) -> Slot]
      BY <1>3, <1>7, <2>1
    <2>3. slots' \in Seq(Slot)
      BY <1>3, <2>2, SeqDef
    <2>4. fresh \subseteq Texts \X Outcomes
      BY <1>5, <1>6 DEF Texts
    <2>5. kept' \in [{1, 2} -> SUBSET (1..MaxItems)]
      BY <1>2, <1>7 DEF GateTypeOK
    <2>6. QED
      BY <1>2, <1>7, <2>3, <2>4, <2>5, GateConstants DEF GateTypeOK, Phases, Slot
  <1>12. RevisionsKeepTheirSlot'
    <2>1. ASSUME NEW i \in DOMAIN slots, slots'[i].text[1] = 2
          PROVE  \/ slots'[i].text[2] = i
                 \/ \E j \in 1..(slots'[i].text[2] - 1) : j \notin kept'[2]
      <3>1. i \in shown /\ slots'[i].text[2] = Nth(items, i)
        <4>1. ASSUME slots'[i].text = slots[i].text PROVE FALSE
          BY <1>2, <2>1, <4>1
        <4>2. i \notin DOMAIN slots \ Failing
          BY <1>8, <4>1
        <4>3. ~(i \in Failing /\ (i \notin shown \/ Violates(o[i])))
          <5>1. ASSUME i \in Failing /\ (i \notin shown \/ Violates(o[i])) PROVE FALSE
            <6>1. slots'[i] = [text |-> slots[i].text, rejected |-> TRUE]
              BY <1>8, <5>1
            <6>2. QED
              BY <4>1, <6>1
          <5>2. QED
            BY <5>1
        <4>4. slots'[i] = [text |-> <<2, Nth(items, i)>>, rejected |-> FALSE] /\ i \in shown
          BY <1>8, <1>10, <4>2, <4>3
        <4>5. slots'[i].text = <<2, Nth(items, i)>>
          BY <4>4
        <4>6. QED
          BY <4>4, <4>5
      <3>2. kept'[2] = items
        BY <1>2, <1>7 DEF GateTypeOK
      <3>3. QED
        BY <1>2, <1>5, <3>1, <3>2, NthInPlace
    <2>2. QED
      BY <1>9, <2>1 DEF RevisionsKeepTheirSlot
  <1>13. AcceptedWasCleared'
    <2>1. \A v \in fresh : v[1][1] = 2
      OBVIOUS
    <2>2. ASSUME NEW i \in DOMAIN slots, NEW out
          PROVE  <<slots[i].text, out>> \in verdict' <=> <<slots[i].text, out>> \in verdict
      BY <1>2, <1>7, <2>1
    <2>3. ASSUME NEW i \in DOMAIN slots \ Failing
          PROVE  /\ \E out \in Passed : <<slots[i].text, out>> \in verdict'
                 /\ \A out \in Outcomes \ Passed : <<slots[i].text, out>> \notin verdict'
      <3>1. \A x \in Outcomes : <<slots[i].text, x>> \in verdict => x \in Passed
        BY WhatPasses DEF Failing
      <3>2. PICK x \in Outcomes : <<slots[i].text, x>> \in verdict
        BY <1>2
      <3>3. QED
        BY <2>2, <3>1, <3>2
    <2>4. ASSUME NEW i \in Failing
          PROVE  \E out \in Outcomes \ Passed : <<slots[i].text, out>> \in verdict'
      <3>1. PICK x \in Outcomes : <<slots[i].text, x>> \in verdict /\ Violates(x)
        BY DEF Failing
      <3>2. QED
        BY <1>7, <3>1, WhatPasses
    <2>5. ASSUME NEW i \in shown, ~Violates(o[i])
          PROVE  /\ \E out \in Passed : << <<2, Nth(items, i)>>, out>> \in verdict'
                 /\ \A out \in Outcomes \ Passed : << <<2, Nth(items, i)>>, out>> \notin verdict'
      <3>1. o[i] \in Passed /\ << <<2, Nth(items, i)>>, o[i]>> \in verdict'
        BY <1>5, <1>7, <2>5, WhatPasses
      <3>2. ASSUME NEW out, << <<2, Nth(items, i)>>, out>> \in verdict' PROVE out \in Passed
        <4>1. << <<2, Nth(items, i)>>, out>> \in fresh
          <5>1. << <<2, Nth(items, i)>>, out>>[1][1] = 2
            OBVIOUS
          <5>2. QED
            BY <1>2, <1>7, <3>2, <5>1
        <4>2. PICK k \in shown : << <<2, Nth(items, i)>>, out>> = << <<2, Nth(items, k)>>, o[k]>>
          BY <4>1
        <4>3. Nth(items, i) = Nth(items, k) /\ out = o[k]
          BY <4>2
        <4>4. i = k
          BY <1>2, <1>5, <4>3, NthInPlace
        <4>5. QED
          BY <3>1, <4>3, <4>4
      <3>3. QED
        BY <3>1, <3>2
    <2>6. ASSUME NEW i \in DOMAIN slots
          PROVE  IF slots'[i].rejected
                   THEN \E out \in Outcomes \ Passed : <<slots'[i].text, out>> \in verdict'
                   ELSE /\ \E out \in Passed : <<slots'[i].text, out>> \in verdict'
                        /\ \A out \in Outcomes \ Passed : <<slots'[i].text, out>> \notin verdict'
      <3>1. CASE i \in DOMAIN slots \ Failing
        BY <1>2, <1>8, <2>3, <3>1
      <3>2. CASE i \in Failing /\ (i \notin shown \/ Violates(o[i]))
        <4>1. slots'[i] = [text |-> slots[i].text, rejected |-> TRUE]
          BY <1>8, <3>2
        <4>2. slots'[i].rejected /\ slots'[i].text = slots[i].text
          BY <4>1
        <4>3. QED
          BY <2>4, <3>2, <4>2
      <3>3. CASE i \in shown /\ ~Violates(o[i])
        <4>1. slots'[i] = [text |-> <<2, Nth(items, i)>>, rejected |-> FALSE]
          BY <1>8, <3>3
        <4>2. ~slots'[i].rejected /\ slots'[i].text = <<2, Nth(items, i)>>
          BY <4>1
        <4>3. QED
          BY <2>5, <3>3, <4>2
      <3>4. QED
        BY <1>10, <3>1, <3>2, <3>3
    <2>7. QED
      BY <1>9, <2>6 DEF AcceptedWasCleared
  <1>14. QED
    BY <1>2, <1>11, <1>12, <1>13 DEF GateInv

LEMMA CallKeeps == ASSUME GateInv, CallRetried \/ CallRaised PROVE GateInv'
  <1>1. /\ slots' = slots /\ kept' = kept /\ verdict' = verdict
        /\ phase \in {"ideating", "checking", "retrying"} /\ phase' \in {phase, "raised"}
    BY DEF CallRetried, CallRaised, Calling
  <1>2. attempt' \in 0..(MaxAttempts - 1)
    BY GateConstants DEF CallRetried, CallRaised, GateInv, GateTypeOK
  <1>3. GateTypeOK'
    BY <1>1, <1>2 DEF GateInv, GateTypeOK, Phases
  <1>4. AcceptedWasCleared' /\ RevisionsKeepTheirSlot'
    BY <1>1 DEF GateInv, AcceptedWasCleared, RevisionsKeepTheirSlot
  <1>5. QED
    BY <1>1, <1>3, <1>4 DEF GateInv

LEMMA GateStarts == ASSUME GateInit PROVE GateInv
  <1>1. slots = <<>> /\ DOMAIN slots = {} /\ phase = "ideating"
    BY DEF GateInit
  <1>2. GateTypeOK
    BY <1>1, EmptySeq, GateConstants DEF GateInit, GateTypeOK, Phases
  <1>3. QED
    BY <1>1, <1>2 DEF GateInv, AcceptedWasCleared, RevisionsKeepTheirSlot

\* Every step keeps the invariant.
LEMMA GateSteps == ASSUME GateInv, [GateNext]_gateVars PROVE GateInv'
  <1>1. CASE UNCHANGED gateVars
    BY <1>1 DEF gateVars, GateInv, GateTypeOK, AcceptedWasCleared, RevisionsKeepTheirSlot
  <1>2. QED
    BY <1>1, CallKeeps, IdeatedKeeps, CheckedKeeps, RetriedKeeps DEF GateNext

LEMMA GateInvariance == GateSpec => []GateInv
  <1>1. GateInit => GateInv
    BY GateStarts
  <1>2. GateInv /\ [GateNext]_gateVars => GateInv'
    BY GateSteps
  <1>3. QED
    BY <1>1, <1>2, PTL DEF GateSpec

\* Slots, answers and verdicts keep their types.
THEOREM GateTypeCorrect == GateSpec => []GateTypeOK
  <1>1. GateInv => GateTypeOK
    BY DEF GateInv
  <1>2. QED
    BY <1>1, GateInvariance, PTL

\* run_compliance_gate delivers nothing as accepted that was not checked in the delivered
\* wording, with PASS or a FAIL without description as the only outcomes, and rejects
\* nothing without a violation found in it, for any number of concepts.
THEOREM DeliveredWasCleared == GateSpec => []AcceptedWasCleared
  <1>1. GateInv => AcceptedWasCleared
    BY DEF GateInv
  <1>2. QED
    BY <1>1, GateInvariance, PTL

\* A revision lands in its own slot unless an invalid item before it was left out.
THEOREM RevisionsStayInPlace == GateSpec => []RevisionsKeepTheirSlot
  <1>1. GateInv => RevisionsKeepTheirSlot
    BY DEF GateInv
  <1>2. QED
    BY <1>1, GateInvariance, PTL
=============================================================================
