---------------------------- MODULE SocialLogin ----------------------------
(***************************************************************************)
(* One account connected by OAuth, and a test post with it: complete_oauth *)
(* with the clients of Meta, Auth0 and Google up to the profile they give  *)
(* (SocialAccounts takes it from there), then test_facebook_post.          *)
(*                                                                         *)
(* A step is one answer of a provider, or several that only fail together. *)
(* Providers are external: any answer may come, or none within the timeout. *)
(* Names, scopes and the wording of errors are left out.                   *)
(***************************************************************************)
EXTENDS PageLookup

CONSTANTS
  Setups,      \* how the deployments of this instance are configured
  MaxListed,   \* bound: Business Profile accounts of a Google login
  NoToken      \* NULL, for a token or an expiry time

\* Meta login; Auth0 with the secret of a Meta app; Auth0 alone.  Google in all.
AllSetups == {"meta", "auth0", "auth0_only"}

ASSUME LoginConstants == Setups \subseteq AllSetups /\ MaxListed \in Nat

VARIABLES
  setup,      \* the deployment's configuration
  platform,   \* the platform being connected
  step,       \* what happens next
  broker,     \* the provider of the Auth0 identity
  token,      \* the token in hand
  expiry,     \* the token whose lifetime token_expires_at is
  left,       \* Business Profile accounts to look at, and whether a location was found
  linked,     \* the account connected
  target      \* the page a test post goes to

loginVars == <<setup, platform, step, broker, token, expiry, left, linked, target, pageVars>>

Platforms == {"instagram", "facebook", "youtube", "google"}

\* A token acts for the user who logged in or for a page; long: it was extended.
Tokens == [of : {"user"} \cup Pages, long : BOOLEAN]
UserToken == [of |-> "user", long |-> FALSE]
LongToken == [of |-> "user", long |-> TRUE]
PageToken(p) == [of |-> p, long |-> FALSE]

NoAccount == [platform |-> "none", page |-> "user", token |-> NoToken, expiry |-> NoToken]
LinkedAccounts ==
  [platform : Platforms, page : {"user"} \cup Pages, token : Tokens,
   expiry : Tokens \cup {NoToken}] \cup {NoAccount}

Steps ==
  {"idle", "exchange", "identity", "extend", "graph", "pages", "channel", "accounts",
   "locations", "connected", "kind", "choose", "page_token", "publish", "posted", "refused"}

LoginInit ==
  /\ setup \in Setups
  /\ platform = "none" /\ step = "idle" /\ broker = "none"
  /\ token = NoToken /\ expiry = NoToken
  /\ left = [accounts |-> 0, found |-> FALSE]
  /\ linked = NoAccount /\ target = "none"
  /\ LookupOff

MetaSecret == setup # "auth0_only"
ViaAuth0 == platform = "instagram" /\ setup # "meta"

-----------------------------------------------------------------------------
\* Any error: the caller is sent back, or answered, with its message.  The lookup
\* passes a transport error on.
AtRest == {"idle", "connected", "posted", "refused"}

Refused ==
  /\ step \notin AtRest
  /\ step' = "refused"
  /\ UNCHANGED <<setup, platform, broker, token, expiry, left, linked, target, pageVars>>

\* start_oauth and the callback's checks: the platform is configured, the state valid,
\* the user and the product still there, the user still a member of it.
CallbackArrives(p) ==
  /\ step = "idle"
  /\ p = "facebook" => setup = "meta"
  /\ platform' = p
  /\ step' = "exchange"
  /\ UNCHANGED <<setup, broker, token, expiry, left, linked, target, pageVars>>

\* The code is exchanged.  Meta's clients do not read the lifetime here.
Exchanged ==
  /\ step = "exchange"
  /\ token' = UserToken
  /\ expiry' \in IF platform \in {"youtube", "google"} THEN {UserToken, NoToken} ELSE {NoToken}
  /\ step' = CASE platform = "youtube" -> "channel"
               [] platform = "google"  -> "accounts"
               [] ViaAuth0             -> "identity"
               [] OTHER                -> "extend"
  /\ UNCHANGED <<setup, platform, broker, left, linked, target, pageVars>>

\* Auth0: the management token, cached or asked for, and the identity it shows.
IdentityFetched ==
  /\ step = "identity"
  /\ broker' \in {"facebook", "instagram"}
  /\ expiry' \in {UserToken, NoToken}
  /\ step' = "extend"
  /\ UNCHANGED <<setup, platform, token, left, linked, target, pageVars>>

-----------------------------------------------------------------------------
\* Where the account is looked for, at first and if it was not found there.
FirstPlace == IF platform = "facebook" \/ broker = "facebook" THEN "pages" ELSE "graph"
LastPlace ==
  CASE platform = "facebook"  -> "pages"
    [] broker = "instagram"   -> "pages"
    [] OTHER                  -> "graph"

Seek(place) ==
  /\ step' = place
  /\ IF place = "pages" THEN LookupBegins ELSE UNCHANGED pageVars

\* extend_meta_token: a failure keeps the token in hand; a new token without a
\* lifetime keeps the expiry in hand.  Instagram Login drops the expiry.
Extended ==
  /\ step = "extend"
  /\ \/ UNCHANGED <<token, expiry>>
     \/ /\ MetaSecret
        /\ token' = LongToken
        /\ expiry' \in IF platform = "instagram" /\ ~ViaAuth0 THEN {NoToken}
                       ELSE {LongToken, expiry}
  /\ Seek(FirstPlace)
  /\ UNCHANGED <<setup, platform, broker, left, linked, target>>

Connects(page_, token_, expiry_) ==
  /\ linked' = [platform |-> platform, page |-> page_, token |-> token_, expiry |-> expiry_]
  /\ step' = "connected"
  /\ stage' = "off" /\ query' = 0 /\ todo' = {} /\ asked' = {} /\ page' = Unlisted
  /\ UNCHANGED <<setup, platform, broker, token, expiry, left, target>>

NotHere(place) ==
  /\ step' = IF place = LastPlace THEN "refused" ELSE LastPlace
  /\ IF step' = "pages" THEN LookupBegins ELSE UNCHANGED pageVars
  /\ UNCHANGED <<setup, platform, broker, token, expiry, left, linked, target>>

\* fetch_instagram_graph_account
GraphAsked == step = "graph" /\ (Connects("user", token, expiry) \/ NotHere("graph"))

\* A variant of OfPage that keeps the expiry of the user's token.
OfPageKeepingExpiry(p) ==
  IF page[p].token THEN [token |-> PageToken(p), expiry |-> expiry]
                   ELSE [token |-> token, expiry |-> expiry]

\* What the Auth0 client stores of an Instagram account linked with page p.
OfPage(p) ==
  IF page[p].token THEN [token |-> PageToken(p), expiry |-> NoToken]
                   ELSE [token |-> token, expiry |-> expiry]

\* The first page that will do is taken, in the order of the answers.
PagesLookedUp ==
  LET fit == IF platform = "facebook" THEN WithToken ELSE {p \in Pages : page[p].instagram} IN
  /\ step = "pages" /\ stage = "found"
  /\ \/ \E p \in fit :
          IF platform = "facebook" THEN Connects(p, PageToken(p), expiry)
                                   ELSE Connects("user", OfPage(p).token, OfPage(p).expiry)
     \/ fit = {} /\ NotHere("pages")

LookupGoesOn ==
  /\ step \in {"pages", "choose"}
  /\ LookupStep(MetaSecret)
  /\ UNCHANGED <<setup, platform, broker, token, expiry, left, linked, target, step>>

\* YouTube: the channel, the managed channel, the owner's address.
ChannelFetched == step = "channel" /\ Connects("user", token, expiry)

\* Google Business Profile: the accounts, then the locations of each.
AccountsListed ==
  /\ step = "accounts"
  /\ \E n \in 1..MaxListed : left' = [accounts |-> n, found |-> FALSE]
  /\ step' = "locations"
  /\ UNCHANGED <<setup, platform, broker, token, expiry, linked, target, pageVars>>

LocationsListed ==
  /\ step = "locations" /\ left.accounts > 0
  /\ \E some \in BOOLEAN : left' = [accounts |-> left.accounts - 1, found |-> left.found \/ some]
  /\ UNCHANGED <<setup, platform, broker, token, expiry, linked, target, step, pageVars>>

LocationTaken ==
  step = "locations" /\ left.accounts = 0 /\ left.found /\ Connects("user", token, expiry)

-----------------------------------------------------------------------------
(* test_facebook_post.                                                     *)

PostBegins ==
  /\ step = "connected" /\ linked.platform = "facebook"
  /\ token' = linked.token
  /\ step' = "kind"
  /\ UNCHANGED <<setup, platform, broker, expiry, left, linked, target, pageVars>>

PostsTo(p) ==
  /\ target' = p
  /\ step' = "publish"
  /\ UNCHANGED <<setup, platform, broker, token, expiry, left, linked, pageVars>>

\* debug_token says that the token is a page's, or it does not, or does not answer.
KindAsked ==
  /\ step = "kind"
  /\ \/ PostsTo(linked.page)
     \/ /\ step' = "choose" /\ LookupBegins
        /\ UNCHANGED <<setup, platform, broker, token, expiry, left, linked, target>>

\* A variant of Chosen that takes any page with a token.
ChosenAny == WithToken

\* The account's own page if the lookup has its token, else another with one.
Chosen == IF linked.page \in WithToken THEN {linked.page} ELSE WithToken

PageChosen ==
  /\ step = "choose" /\ stage = "found"
  /\ \/ \E p \in Chosen : PostsTo(p)
     \/ /\ Chosen = {} /\ step' = "page_token"
        /\ UNCHANGED <<setup, platform, broker, token, expiry, left, linked, target, pageVars>>

\* _page_access_token gives a token other than the one in hand.
PageTokenGiven == step = "page_token" /\ PostsTo(linked.page)

Posted ==
  /\ step = "publish"
  /\ step' = "posted"
  /\ UNCHANGED <<setup, platform, broker, token, expiry, left, linked, target, pageVars>>

-----------------------------------------------------------------------------
LoginNext ==
  \/ Refused
  \/ \E p \in Platforms : CallbackArrives(p)
  \/ Exchanged
  \/ IdentityFetched
  \/ Extended
  \/ GraphAsked
  \/ LookupGoesOn
  \/ PagesLookedUp
  \/ ChannelFetched
  \/ AccountsListed
  \/ LocationsListed
  \/ LocationTaken
  \/ PostBegins
  \/ KindAsked
  \/ PageChosen
  \/ PageTokenGiven
  \/ Posted

LoginSpec == LoginInit /\ [][LoginNext]_loginVars

-----------------------------------------------------------------------------
LoginTypeOK ==
  /\ LookupTypeOK
  /\ setup \in AllSetups
  /\ platform \in Platforms \cup {"none"}
  /\ step \in Steps
  /\ broker \in {"none", "facebook", "instagram"}
  /\ token \in Tokens \cup {NoToken} /\ expiry \in Tokens \cup {NoToken}
  /\ left \in [accounts : 0..MaxListed, found : BOOLEAN]
  /\ linked \in LinkedAccounts
  /\ target \in Pages \cup {"none"}

\* The expiry that an account shows is that of the token stored with it, except for a
\* Facebook page, whose row has the lifetime of the user's token, and for a token that
\* Auth0's client extended without being told a lifetime, whose row has the old one.
ExpiryIsTheTokens ==
  (linked # NoAccount /\ linked.expiry \notin {NoToken, linked.token}) =>
    \/ linked.platform = "facebook" /\ linked.expiry.of = "user"
    \/ ViaAuth0 /\ linked.token = LongToken /\ linked.expiry = UserToken

\* A test post appears on the page of the account, or on another page only after Meta
\* gave no token for the account's page: it was not listed, or was asked for by itself
\* after the last listing.
PostsGoToTheirPage ==
  (step = "posted" /\ target # linked.page) =>
    /\ stage = "found"
    /\ linked.page \notin WithToken
    /\ linked.page \in Known => linked.page \in asked
=============================================================================
