# TLA+ verification of the planner backend

The backend (`src/app`, FastAPI, SQLAlchemy async, MySQL InnoDB, arq on Redis) lets
companies keep products, brands and social accounts, and generates marketing content for
them: a request is stored as a job, a worker asks a language model for concepts, gates
them, renders images and reels, and people review, schedule and publish the result.

Its difficulty is not in its algorithms. Every API request and every worker run is an
`AsyncSession` of its own (`db/session.py`): a REPEATABLE READ snapshot taken at the first
read, changes written at `commit`, no `SELECT ... FOR UPDATE`, no version columns, no
autoflush. So every operation is *read, decide, write what was decided*, and any other
operation may commit in between. The worker adds at-least-once delivery, timeouts,
shutdowns and crashes. The modules below make exactly these steps explicit.

## Inventory

| Component (under `src/app/`) | State | Operations | Correct when |
|---|---|---|---|
| Generation jobs: `modules/creatives/service.py` (to line 280), `queue.py`, `worker.py` | `generation_jobs`, `creative_concepts`, `creative_assets`, stored objects, arq messages | `request_generation`, `render_assets`, the worker's ideation and rendering, their handlers for failure, timeout and shutdown | a status never promises rows that do not exist; every job a worker took comes to an end; a reel is rendered only on request; idempotency and spending caps hold |
| Sessions: `modules/auth/service.py` (login, refresh, logout, logout-all, passwords), `token_issuance.py`, `core/deps.py:25-48` | `refresh_tokens`, `users.token_version` | issue, rotate, detect reuse, revoke, bump, check | rotation is single-use; a family has one live token; endings end everything |
| One-time codes: `modules/auth/service.py:443-599` | `email_verification_otps`, `password_reset_otps`, `password_reset_tokens` | issue, guess, use, exchange | a code is used once, guesses are bounded |
| Registration and company approval: `auth/service.py:77-135`, `admin/service.py:342-447`, `companies/onboarding.py` | `companies` (status, reason, onboarding step) | register, approve, reject, suspend, delete, advance | the row is the result of one decision; onboarding never goes back |
| Company members: `companies/service.py`, `products/service.py` (members) | `company_members`, `product_members` | add, change, remove, invite | a company keeps an admin; members of a product are in its company |
| Access rules: `core/deps.py`, the `Depends` of the routes, login's context and `/auth/me` | none of its own | guards, answers | what a user is told and shown agrees with what the guards let them do |
| Content review: `creatives/service.py:381-572` | concept status, review and publication times, comments | submit, approve, reject, schedule, publish | nothing is published that was not approved, by someone with authority |
| Products and sub-products: `products/`, `sub_products/` | those rows | create, rename, delete | slugs are unique, and a free name is not refused |
| Social accounts and OAuth: `social_accounts/` | `social_accounts` with tokens and their expiry | add, remove, connect, cascade, test post | nothing stays connected under a deleted product; one row per account; token, expiry and page belong together |
| Brand profiles: `brand_profiles/`, `brand_analysis/` | `brand_profiles`, stored images | save, upload, analyse, resolve by inheritance | an analysis leaves alone what people entered |
| Compliance gate: `creatives/pipeline/ideate.py`, `compliance.py`, `providers/gemini*.py` | the run's concepts and verdicts | ask, check, revise, check again | nothing is accepted unchecked; a revision replaces what it revises |
| Briefs, pricing, posting time: `creatives/domain.py`, `pricing.py`, `posting_time.py` | none (pure) | validation, estimates, weekdays | not modelled |
| Rate limiter: `core/rate_limit.py` | per-process windows | `hit` | at most `limit` accepted hits in a window |
| Adapters: email, storage, providers, webhooks, audit, listings, wiring | – | I/O | not modelled |

How they interact. API handlers and worker meet only in the database and in the arq queue:
`request_generation` commits a job and then enqueues a message, the worker finds the job by
the id in the message. Review acts on the concepts that the worker committed. Sessions
guard every route through `get_current_user`; a password reset is a one-time code followed
by a bump of `token_version`. Approving a company opens its members' login. Deleting a
product cascades to its social accounts. Publishing a
concept sets its status; no code posts it to a connected account yet (`publish.py` posts a
test image). The hazards this brings are listed, each at its
line, in `PROJECT.json`.

## Plan

The order was that of importance: the generation pipeline, the sessions, what people edit
concurrently, then providers and pure parts.

1. `GenerationJobs`, and the abstract `JobBoard` that it implements.
2. `Sessions`.
3. `Snapshots`, what a request is to the database, and on it `OneTimeCodes`,
   `CompanyApproval`, `CompanyMembers`, `ContentReview`, `SocialAccounts`, `ProductTree` and
   `BrandProfiles`.
4. `Access`, the guards and what users are told about them.
5. `ComplianceGate`, `RateLimit`, `SocialLogin` with `PageLookup`.
6. The theorems listed under Proofs.

Left to do: one behaviour from a code of `OneTimeCodes` to the bump of `Sessions`; the brand
that a brief resolves to, prices and posting times as functions against a reference.

## Modules

### GenerationJobs

| In the module | In the code |
|---|---|
| `api[r]` | one call of `generate` or `render-assets`: idle, checked, committed, done |
| `job`, `concepts`, `assets` | rows of `generation_jobs`, `creative_concepts`, `creative_assets` |
| `files` | the keys of stored objects |
| `task[r]` | the arq message of request `r`: its phase (queued, a phase of its run, being acknowledged, done, abandoned) and its deliveries |
| `task[r].pending` | the rows that a run holds in its session and has not committed |
| `GenerateChecked`, `GenerateAnswered`, `GenerateCommitted`, `RenderRequested`, `Enqueued`, `EnqueueFailed` | `request_generation`, `render_assets` up to and after their commit |
| `IdeationStarted` ... `IdeationFailed` | `_run_ideation` between its commits |
| `RenderStarted`, `ImagesRendered`, `ReelAssembled`, `RenderCommitted`, `RenderFailed` | `_run_asset_rendering` |
| `TimedOut`, `ShutDown`, `Crashed` | `job_timeout`, cancellation, death of the process |
| `Deliver`, `Acked`, `Abandoned` | arq, modelled from how `WorkerSettings` uses it |

A step ends where another session can see something: at a commit, at an object stored, at a
message queued. A batch of provider calls whose objects only this run touches is one step;
a partly uploaded batch is therefore not distinguished from one not begun. Jobs are ordered
by their commit, which stands for `created_at`. One company and one day: the cap and the
idempotency lookup never look beyond them. Texts, prices and media are values.
An ideation (`Ideations`) keeps an arbitrary nonempty list of concepts, each rejected, accepted
or, for a reel, accepted with a `reel_script`: the model may send fewer or more items than
asked for, invalid ones are dropped, `reel` is optional in `GeneratedConcept`, and the next
delivery of the same message may bring another list. `Drafts` are its rows. Every accepted
concept gets its image or cover; `ReelAssembled` adds clips and video for those with a script,
as `reel_concepts` in `worker.py:358-361` does, and a reel whose concepts have none succeeds
with covers only.

`JobBoard` is what a client that polls `GET .../jobs/{id}` can rely on: a status changes
only by a run that is open, `running` means that a run is open, and every status but
`queued`, `running` and `failed` means that the job's concepts exist and stay. Runs of one
job report blindly and the last report wins; the board says so, because the code does.

### Sessions

One user. A request is its snapshot (`Reads`: operation, presented token, the live tokens
seen, `token_version` seen) and then its commit, which writes absolute values computed from
the snapshot. `LoginRead`/`LoginCommitted` is `login` with `issue_token_pair`;
`RefreshRead`, `ReuseRead`, `RotateCommitted`, `ReuseCommitted` are the branches of
`refresh`; `LogoutRead`, `LogoutAllRead`, `ChangePasswordRead`, `ResetPasswordRead` and their
commits the operations of those names. `Accepted` is the check of `get_current_user`.
Refused requests change nothing and are no step. Not in the model: expiry by time (a token
that has expired is one nobody presents), account status (`get_current_user` and `refresh`
check it; no code takes it back from active), other users (every query names the user or a
token of theirs).

### Snapshots, and the modules about rows

`Snapshots` is the session of one API request: `req[r]` says what request `r` does (`op`), on
what (`on`), what its snapshot showed (`saw`), and between which commits it lived (`began`,
`at`, counted by `clock`). `Begins` is the load of the rows, `Commits` the commit, `Fails` a
commit that a unique key refuses, `Overlap` two requests of which each began before the other
was done. SQLAlchemy sends only the columns that differ from the loaded row; `Column` is that
merge. A request that is refused on what it read changes nothing and is no step.

| Module | State | Actions (each a `...Read` and a `...Committed` or `...Failed`) |
|---|---|---|
| `OneTimeCodes` | `account`: `users.status`; `code[r]`: the code that request `r` issued; `resetToken[r]` | `register`, `resend_verification`, `forgot_password`; a guess at the newest unused code, wrong (`miss`, counted) or right (`redeem`); `reset_password` |
| `CompanyApproval` | `company`: status, who approved, who rejected, step, deleted | `approve`, `reject`, `suspend`, `delete`, `advance` (onboarding), merged by column |
| `CompanyMembers` | `member[u]`, `productMember[u]` | `add_member`, `update_member`, `remove_member`; adding to, inviting to and removing from a product |
| `ContentReview` | `concept`, `policy`, `comments` | `submit_for_review`, `approve`, `reject`, `schedule`, `publish`, `approve_and_publish`, `add_comment`, a change of `approval_policy` |
| `SocialAccounts` | `productDeleted`, `account[r]`: the row that request `r` inserted | `add_account`, `remove_account`, `delete_product` with its cascade, `complete_oauth` |
| `ProductTree` | `rows[table]`: slug, live, inserted by whom | creating (several names at once), renaming, deleting; a refusal by the unique key |
| `BrandProfiles` | `profile`: the row; `image[t]`: the object under the key of type `t`; `stored` | saving, `upload_image`, `analyze`; `ImageStored` is the upload that precedes the commit |

A code that has expired is one nobody presents; the newest of a kind expires last. The founder
of the company is there from the start. The OAuth callback's snapshot precedes its exchange with the
provider, an analysis's snapshot its fetch and its model call: both are simply long requests.

### Access

`status`, `deleted`, `seat`, `live`, `liveSubs`, `joined` are the rows of one user's companies,
seats, product, sub-products and product membership. Every action is one committed change by
someone else. Nothing here is a step of the user: `CompanyRoute`, `ProductRoute` and
`SubProductRoute` are `require_company_role`, `require_product_access` and the sub-product
guard; `CompanyRoutes`, `CompanyProductRoutes` and their like are the roles of every route as
their `Depends` names them; `Blocked` is login's gate, `LoginContext`, `MeRole` and
`ListsProduct` are the answers. `ToldIsSo` compares the two sides in every state.

### Providers and pure parts

`ComplianceGate` is one ideation: `phase`, the `attempt` of the current call, `slots` (the
list that the gate works on), `kept` (which items of each answer were valid) and `verdict` (what
was checked, with which outcome).
A reply of the reviewer is told apart as far as `parse_reviewer_verdict` does: `Verdict` is what
it returns, and `Violates` what `run_llm_review` makes of that, an empty description included.
`Ideated`, `Checked` and `Retried` are `run_ideation` and `run_compliance_gate`,
`CallRetried` and `CallRaised` `create_interaction`. The model may answer anything.

`RateLimit` is `hit` for one key under an integer clock; `log` is the history that the
property is about. `hit` never awaits between the clock and the append, so it is one step.

`SocialLogin` is one callback with the client of Meta, Auth0 or Google: `token` and `expiry`
in hand, `broker` and `left` (where else to look), then the account `linked` and the test
post's `target`. `expiry` names the token whose lifetime it is, which is what
`ExpiryIsTheTokens` compares. `PageLookup` is `lookup_facebook_pages`, pass by pass; both use
it, the post a second time. Providers may answer anything, in any order, or not at all.

### Instances

`MCGenerationJobs` and `MCSessions` give constants and symmetry sets. `MCTenants` composes
`OneTimeCodes`, `CompanyApproval`, `CompanyMembers` and `Access`; `MCCatalog` the rest. Their
components share no state except `req` and `clock`, so each behaviour plays one of them,
chosen by `scene`: the components are checked one after the other and not multiplied.
Requests are interchangeable; `InTurn` numbers them as they begin, which loses nothing.
The theorems on the two compositions (see Proofs) say that no component disturbs another.

## Runs

| Run | Question | Bounds |
|---|---|---|
| `jobs_safety` | Do status, rows and stored objects always agree? Is what a rendering commits whole, and a succeeded job complete for what its run read? | 3 requests, one job per behaviour (post or reel), up to 2 concepts per ideation, 2 deliveries, 1 stopped run |
| `jobs_admission` | What do idempotency and the daily cap still guarantee when requests overlap? | 4 requests, 2 in flight, unequal costs, cap 4 |
| `jobs_liveness` | Has a running job always a run that can still report? Does every message, and every running job, come to an end? Does the system implement `JobBoard`? | 2 requests, 1 concept per ideation, 2 deliveries, 2 stopped runs, fairness |
| `jobs_double_render` | Can `render-assets` be accepted twice for one reel? (it can) | 3 requests, 2 in flight, 1 concept per ideation |
| `jobs_lost_assets` | Do rendered assets survive a later failure? (they do not) | same |
| `sessions_safety` | Single use, one live token, complete endings, dead access tokens | 5 requests, 3 in flight |
| `sessions_outlive_bump` | Can a session outlive a logout-all? (it can) | same |
| `sessions_revived_access` | Can an ended access token be accepted again? (it can) | same |
| `tenants` | Codes, approval, members, access: what holds unless requests overlap, and does what users are told agree with the guards? | codes: 5 requests, 3 in flight, 2 attempts; company and members: 4 and 2, two users; access: 2 companies, 2 sub-products, every sequence of changes |
| `tenants_no_admin` | Does a company keep an active admin? (it does not) | as `tenants` |
| `catalog` | Review, accounts, names, logos, limiter, gate, login: what holds, up to overlaps? | review: 3 requests; accounts and names: 4, 2 in flight; brand: 4, 3 in flight; window 2, limit 2, 6 ticks; 3 items, 4 attempts; 2 pages, 2 Graph versions, 1 business |
| `gate_silent_pass` | Does a concept pass only on PASS? (it does not) | gate alone |

Why the bounds are enough. In the generation pipeline every race found or excluded so far
involves two runs of one job or two overlapping requests, plus one that observes. Two
deliveries are one more than the first, and arq treats the second no differently from the
third.

`jobs_safety` has two concepts, so that one delivery may bring fewer or more than the other, one
index be rejected and another not, one concept have a script and another none. Its three
requests make one job and two renders of it, next to the ideation and its second delivery, and
`DayCap` admits one job: jobs meet only in the caps and the idempotency lookup, which
`jobs_admission` is about. Therefore `JobsSpec` leaves out the requests that get no job of their
own and `force`. One stopped run brings the second delivery; after two arq gives a message up,
and these are in `jobs_liveness`. That run asks whether runs and messages end, whatever the
concepts: one per ideation suffices, and the two requests make two jobs or a job and its render.

The counterexample for revived access needs three bumps and a login; five session requests
leave one more. In the modules on `Snapshots` a violation needs one request to prepare, two
that overlap and one that follows; the codes need a fifth, for a code, a newer one, two guesses
and a reset. Two pages show one page taken for another, two Graph versions the difference
between the first answer and a later one; four attempts are those of `create_interaction`. That
nothing depends on these numbers is shown by the theorems where there are any: they hold for
any sets of requests, users, companies and pages, and any number of concepts.

`EqualCost`, `UnequalCost` and `DayCap` choose whether the cap bites; `MaxStops` bounds
shutdowns and crashes together (timeouts are not bounded), `MaxConcepts` what one ideation
keeps, `MaxTries` deliveries, `MaxInFlight` the requests between snapshot and commit (at least
one for the jobs), `Calls` and `Flight` both for each scene, `LastTick` and `MaxHits` the
limiter's clock and history, `MaxListed` the accounts of a Business Profile login. `CareTwice`
and `CareNames` choose names that collide with each other's second slug, `OneRenamed` an
account that changed its handle and another that took it over. Deadlock is not checked where
the bounded number of requests lets the system stop; `jobs_liveness` says what has to have
happened by then.

## Fairness

`jobs_liveness` assumes weak fairness of the worker and of nothing else: it keeps polling
the queue (`arq.run_worker`), and a run that has started ends, because every provider call
answers, raises, or is cancelled by `job_timeout` in `WorkerSettings`. Clients owe nothing:
a reel may wait at `awaiting_render` for ever, and a job whose enqueue failed stays queued
for ever, which is the reason why no property promises that every job ends. A process that
dies on every delivery is cut off by `max_tries`, so `MaxStops` bounds the instance and is
not what makes messages end. Elsewhere there is no liveness: every step is a client's, and
no code runs by itself (nothing publishes a concept at `scheduled_at`, nothing expires rows).

## Where code and documentation differ

Shown by a run:

* `README.md:155` says a second `render-assets` call is refused. The call leaves the job at
  `awaiting_render` until the worker starts, so it is accepted twice (`jobs_double_render`).
* `README.md:153` says assets already rendered survive a later failure. The handler rolls
  back the rows of all assets of the run; the objects stay in storage with no row
  (`jobs_lost_assets`).
* `README.md:107` says logout-all and password changes revoke all refresh tokens in the same
  operation. A refresh that overlaps them leaves a live token (`sessions_outlive_bump`).
* `README.md:107` says every access token issued before a bump fails. With overlapping bumps
  `token_version` can be written back to a value an ended token carries
  (`sessions_revived_access`).
* `README.md:121` says a company never ends up with zero active admins. `update_member` asks
  for another admin only when the role changes; it suspends the last one unasked
  (`tenants_no_admin`).
* `creatives/compliance.py:95` says that a concept passes only on an explicit pass, "never as a
  silent pass". For a first line `FAIL:` with nothing after the colon the description is empty,
  and an empty description counts as no violation: the concept is accepted (`gate_silent_pass`).

Where requests overlap, `SiblingsOverlap`, `OneLivePerFamily`, `BumpsEndAccess`,
`DuplicatesOverlap`, `SpendOvershootBounded`, `AdminsLostByOverlap`, `DecisionIsWhole` and
their like say what is left: the guarantee holds except for requests that overlap, and in the
way stated. `DecisionIsWhole` excludes overlapping decisions altogether: an approval and a
rejection at once may well leave the columns of both.

Seen while modelling, and part of the models as they are:

* A reel job succeeds with nothing but covers when the model gave no accepted concept a
  `reel_script`, and any job succeeds with nothing when all its concepts were rejected.
* A redelivered ideation of a reel adds its concepts to those of the first delivery, also to a
  job that was rendered meanwhile: nothing renders them, and `SuccessIsComplete` says so.
* A member removed from the company keeps the row in `product_members`, and with it access to
  the product: `require_product_access` looks at neither company membership nor company
  deletion, no guard looks at the company's status, and no code looks at `membership.status`.
* A plain member who is promoted while a removal of them is in flight is removed as an admin,
  uncounted.
* Login's context may name a deleted company (it asks for the status alone); `/auth/me` leaves
  out the products of a deleted company although the guards let their members in, against the
  comment at `auth/service.py:395`.
* `submit_for_review`, `approve` and `reject` look at no status: a published concept can be
  submitted or rejected.
* `creatives/service.py:405` says that an approver may approve under `one_approver`, and the
  service would let them; the routes approve, reject and approve-and-publish let only creators
  and product managers in (`RouteLets` and `Authority` of `ContentReview`).
* An account removed by hand keeps its handle: adding it again by hand hits the unique key,
  an internal error; only a callback revives it.
* `delete_product` deletes the social accounts and nothing else below the product.
* A rename or a second name in one payload that is taken at the same time, or twice in one
  payload, hits the slug's unique key.
* An analysis whose snapshot is older than an upload replaces the uploaded logo. An image is
  stored before its row: if the insert fails, the object stays.
* `generate_concepts` drops items that are not valid concepts, so a revision may replace
  another concept than the one it revises; the model may also return more concepts than asked.
* A test post goes to another listed page when the account's own has no token
  (`publish.py:105-142`), and it is posted before its audit row is committed.
* `token_expires_at` may be another token's: a page's row has the lifetime of the user's token,
  and Auth0's client keeps the old expiry when an extension names none. A record of a page
  found through `debug_token` replaces one that had the Instagram account
  (`oauth.py:665-670`), and a later listing without a token one that had it (`oauth.py:596`).
* Concepts are scheduled, but nothing publishes at `scheduled_at`;
  `GoogleYouTube.refresh_access_token` has no caller.
* `README.md:115-123` names the guards `require_project_access` and `project_members`;
  `README.md:135` and `README.md:195` say that there is no OAuth, token storage or posting.

## Proofs

Every theorem assumes only the named assumptions about the constants, in the modules that
declare them, and holds for any sets and any bounds that satisfy them. None of the properties
is inductive by itself; each proof module defines the invariant that is.

**GenerationJobs** (`GenerationJobsProofs`). That `awaiting_render` has concepts depends on
what the run in progress has written but not committed. `IInv` adds, for every request and
every run, what its program counter and its message imply about the rows. A run's step is
described by a frame (`WorkerFrame`: whose rows it may change, and how), a handler's by
`ApiFrame`; each conjunct of `IInv` is shown to be kept by the frame, and each action to be an
instance of it. From it: `TypeCorrect`, `ConceptsBackStatus`, `RunningJobsAreOwned`,
`ReelsWaitForRequest`, `CommittedAssetsAreServable`, `Invariance`. Three more invariants rest
on it. `IdempotencyInv`: what a request's snapshot showed of jobs for its brief is still all
there is, but for jobs committed since; hence `OnlyOverlapsDuplicateJobs`. `GrantsBounded`: a request that
has passed the check spends already, so a check starts with less than the cap granted to the jobs
that its snapshot shows, and only the others in flight come on top; hence
`SpendOvershootBounded` (`OvershootIsBounded`). Its sum is over a finite set, and no induction
schema can be instantiated here: what it needs (adding an element, the sum over a subset, n
terms of at most c) is proved from a minimal counterexample, which exists because strict
inclusion is well-founded on finite sets. `RenderingInv`: the
rows that a run holds are its own, of every kind its phase and the concept's script ask for,
and of one accepted concept for every index that it read. What it read is all that the first
n deliveries of the ideation committed, for some n after which none of them commits more
(`Settled`, `ReadUpTo`); for a post or carousel these are all concepts of the job, because
the message that renders them is the one that ideates (`Origins`). A job keeps such a
reading for as long as it says `succeeded` (`Finished`); hence `RenderingsAreWhole` and
`SucceededIsComplete`. `BoardInv`: a
message that was not delivered has no deliveries, one that was has taken its job out of the
queue; hence `BoardIsImplemented`, step by step for every action under the mapping of
`Board`.

**Sessions** (`SessionsProofs`). `IInv` adds `Lineage` (families are trees whose inner tokens
are revoked), `InFlight` (what a request between snapshot and commit can have missed was
committed after its snapshot), `OneLeafPerFamily` and `VersionsGrow`. Every read is an instance
of `ReadFrame`, every commit of `CommitFrame`. A rotation replaces the only leaf of its family,
unless its token has a child already, and `InFlight` says that this child was committed during
the rotation: hence single use, and from it one live token. A live token is a leaf, so
`OneLivePerFamily` follows. A bump that overlaps no other has seen the current version, so
versions grow and old access tokens stay dead.

**The modules on Snapshots.** `SnapshotsProofs` has what all need: `LogOK` (the log of requests
is well-typed and no two commit at one time) is kept by `Begins`, `Commits` and `Fails`, and
what is done stays done. The rest is one argument: *what a snapshot showed still holds, unless
another request committed since, and then that one overlaps*.

* `TenantsProofs`, the company and its members: `JudgementCurrent` and `OneStory` for the
  company's row, `StepsKeptInFlight` for onboarding; `AdminCounted` (a leaving request counted
  an admin who is still there, or one left since) and `SeatSeen` for members. The theorems
  on `Access` are not temporal arguments: `AnswersMatchGuards` compares the guards and the
  answers over every role table in any state of the rows.
* `TenantsProofs`, the codes: `Spent` and `UnusedThen` (a code or token is unused until the commit
  that redeems it), `NewerWereUsed`, `MissesCounted` (without overlapping guesses `attempts`
  counts all misses).
* `ContentReviewProofs`: `PolicyLogged` reconstructs the policy of any past time from the
  requests that set it; `ClearedWasApproved` says that a concept is approved, scheduled or
  published only after an approval under the policy its approver saw; `RejectionsExcused` keeps
  for every rejection the later approval or the overlapping request that undid it.
* `ProductProofs`, the accounts: `ExternalsSeen` and `CallbacksLooked` (the rows that a callback
  matched are the only ones for its account, but for callbacks that committed since),
  `LiveOutlived` and `GoneSince` (an account that a snapshot showed as connected and that is not
  any more was removed, or deleted with the product, since).
* `ProductProofs`, the names: `RowsUnique` (two rows of a table have different slugs) and
  `SlugsStillFree` (the slug a request chose is in no row, unless one took it since). A free
  slug is found because there is one candidate more than rows, so a refusal by the unique key
  has an overlapping request or a second equal name to blame: `NamesAreFound`.
* `ProductProofs`, the brand: `UploadsSeen` (once a logo is uploaded, every later snapshot shows
  one, and an analysis that sees a logo stores none), with `LogoStored` (the row's key has an
  object) and `LogoStays` (a logo is replaced, never taken away); hence `UploadedLogoShows`.

**Providers and pure parts** (`ServiceProofs`). For the login, `InHand` says for each step what
token and expiry are in hand; `SinglesLeft`, that a page known without a token was asked for by
itself or still will be. For the limiter, `LimitInv` relates the bucket to the history that the
code does not keep: the bucket holds accepted calls only, in the order of the calls, with every
one that is still in the window (`Recorded`, `LogInOrder`); hence `RefusesExactly`. For the
gate, `GateInv` says that until delivery every slot holds a concept of the first answer, that
none is rejected yet, and that while revisions are asked for each of them has been checked;
hence `DeliveredWasCleared` (what is delivered as accepted was checked, and passed or failed
without a description) and `RevisionsStayInPlace`.

**The compositions** (`TenantsProofs`, `CatalogProofs`). `TenantsTypeCorrect` and
`CatalogTypeCorrect` are type correctness of `MCTenants` and `MCCatalog` for every instance:
the component of the scene keeps its own invariant and the others stay as they were at first
(`TenantsInv`, `CatalogInv`), from the step lemmas of the components.

**Only model-checked.** Liveness (`MessagesAreFinished`, `NoJobRunsForever`), which the proof
system cannot reason about. Every other property of a passing run is a theorem.

## Not modelled

Briefs, prices and posting times are functions of one brief and tables, which unit tests
reach; the brand that a brief resolves to (`resolution.py`) is a lookup in a fixed order.
The media pipeline transforms data; `GenerationJobs` has its outcomes. Platform
administration, listings and audit only read, or write rows that no code reads back. Email,
storage, webhooks, configuration and wiring keep no state of the system. Of the components
marked as partly modelled, what is missing are columns that one request writes and no other
decides on (descriptions, contact data, roles of product members, the face image), the
signature of the OAuth state and the scopes.

Nowhere modelled: database failures other than those that roll back a session (a failed commit
is a request that never happened), the contents of texts and images, and time except as the
order of commits and the limiter's clock. No property covers a job whose message was never
enqueued (`creatives/service.py:188`): nothing in the code finds such a job again, so there
is nothing to promise.
