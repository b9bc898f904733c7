----------------------------- MODULE PageLookup -----------------------------
(***************************************************************************)
(* lookup_facebook_pages: which Facebook Pages a token can act for, and    *)
(* with which tokens of their own.  Meta is asked in several ways, each of *)
(* which may answer with some of the pages, with or without their tokens;  *)
(* a later answer about a page replaces an earlier one.                    *)
(*                                                                         *)
(* Meta is external: any answer is possible.  An error, and an answer that *)
(* cannot be read, list no page.  Only a transport error ends the lookup.  *)
(***************************************************************************)
EXTENDS Integers, FiniteSets

CONSTANTS
  Pages,           \* pages that Meta may speak of
  GraphVersions,   \* the number of _GRAPH_VERSIONS
  MaxBusinesses    \* bound: businesses of the user

ASSUME PagesConstants == GraphVersions \in Nat \ {0} /\ MaxBusinesses \in Nat

VARIABLES
  stage,   \* what is asked next
  query,   \* the number of the query, or of those left
  todo,    \* pages left to ask for one by one
  asked,   \* pages asked for, one by one, in the last pass
  page     \* page[p] : what pages_by_id holds of page p

pageVars == <<stage, query, todo, asked, page>>

Stages == {"off", "accounts", "businesses", "edges", "debug", "targets", "single", "found", "broken"}

NoPage == [listed |-> FALSE, token |-> FALSE, instagram |-> FALSE]
PageRows == [listed : {TRUE}, token : BOOLEAN, instagram : BOOLEAN] \cup {NoPage}

Unlisted == [p \in Pages |-> NoPage]

LookupOff ==
  stage = "off" /\ query = 0 /\ todo = {} /\ asked = {} /\ page = Unlisted

-----------------------------------------------------------------------------
\* _PAGE_FIELDS asks for the linked Instagram account, _PAGE_FIELDS_BASIC does not.
PageAnswers(full) ==
  {row \in PageRows : row.instagram => full}

Listings(full) == [Pages -> PageAnswers(full)]

\* pages_by_id[page["id"]] = page, for every page listed.
Listed(a) == page' = [p \in Pages |-> IF a[p].listed THEN a[p] ELSE page[p]]

Known == {p \in Pages : page[p].listed}
WithToken == {p \in Pages : page[p].token}

LookupBegins ==
  /\ stage' = "accounts" /\ query' = 1 /\ todo' = {} /\ asked' = {}
  /\ page' = Unlisted

\* _collect_account_pages: two paths and two sets of fields per version, until a
\* version has listed a page.
AccountsAsked ==
  /\ stage = "accounts"
  /\ \E a \in Listings(query % 2 = 0) : Listed(a)
  /\ IF query = 4 * GraphVersions \/ (query % 4 = 0 /\ page' # Unlisted)
       THEN stage' = "businesses" /\ query' = 0
       ELSE stage' = stage /\ query' = query + 1
  /\ UNCHANGED <<todo, asked>>

BusinessesAsked ==
  /\ stage = "businesses"
  /\ \E n \in 0..MaxBusinesses :
       /\ query' = 4 * n
       /\ stage' = IF n = 0 THEN "debug" ELSE "edges"
  /\ UNCHANGED <<todo, asked, page>>

\* owned_pages and client_pages, with both sets of fields.
EdgeAsked ==
  /\ stage = "edges"
  /\ \E a \in Listings(query % 2 = 1) : Listed(a)
  /\ query' = query - 1
  /\ stage' = IF query' = 0 THEN "debug" ELSE stage
  /\ UNCHANGED <<todo, asked>>

\* The ids that debug_token names, without an app id and secret none.
DebugAsked(configured) ==
  /\ stage = "debug"
  /\ todo' \in IF configured THEN SUBSET Pages ELSE {{}}
  /\ stage' = "targets"
  /\ UNCHANGED <<query, asked, page>>

\* What is known of a page, and a record of it without the Instagram account.
Merged(known, row) ==
  [listed |-> TRUE, token |-> row.token \/ known.token, instagram |-> row.instagram]

TargetAsked ==
  /\ stage = "targets"
  /\ \E p \in todo :
       /\ todo' = todo \ {p}
       /\ \E row \in IF page[p].token THEN {NoPage} ELSE PageAnswers(FALSE) :
            page' = [page EXCEPT ![p] = IF row.listed THEN Merged(@, row) ELSE @]
  /\ UNCHANGED <<stage, query, asked>>

TargetsDone ==
  /\ stage = "targets" /\ todo = {}
  /\ stage' = "single"
  /\ todo' = Known \ WithToken
  /\ UNCHANGED <<query, asked, page>>

\* The last pass: pages that have no token yet.
SingleAsked ==
  /\ stage = "single"
  /\ \E p \in todo, given \in BOOLEAN :
       /\ page' = [page EXCEPT ![p].token = given]
       /\ todo' = todo \ {p}
       /\ asked' = asked \cup {p}
  /\ UNCHANGED <<stage, query>>

SinglesDone ==
  /\ stage = "single" /\ todo = {}
  /\ stage' = "found"
  /\ UNCHANGED <<query, todo, asked, page>>

\* httpx.HTTPError is not caught here.
LookupBroken ==
  /\ stage \in Stages \ {"off", "found", "broken"}
  /\ stage' = "broken"
  /\ UNCHANGED <<query, todo, asked, page>>

LookupStep(configured) ==
  \/ AccountsAsked
  \/ BusinessesAsked
  \/ EdgeAsked
  \/ DebugAsked(configured)
  \/ TargetAsked
  \/ TargetsDone
  \/ SingleAsked
  \/ SinglesDone
  \/ LookupBroken

LookupTypeOK ==
  /\ stage \in Stages
  /\ query \in 0..(4 * GraphVersions + 4 * MaxBusinesses)
  /\ todo \subseteq Pages /\ asked \subseteq Pages
  /\ page \in [Pages -> PageRows]
=============================================================================
