# Formal model of the marketing backend

TLA+ modules, TLC configurations and TLAPS proofs about the FastAPI/Celery
backend in `src/`. Each module is translated from the code; `PROJECT.json` names
the source lines behind every definition ("map"), the runs, the mutations every
property was tried against, the hazards and the theorems. Paths below are
relative to `src/app/`.

## 1. The system

### Components

| Component (code) | State it keeps | Operations | Modelled in |
|---|---|---|---|
| Background jobs (`jobs/`, `infrastructure/celery/`, `operations/admin/`) | `job_executions` rows; messages in the Redis broker; executions on workers | enqueue; deliver, execute, retry; cancel | JobQueue, JobContract |
| Circuit breaker and retry policy (`integrations/circuit_breaker`, `integrations/retry`) | per process and provider: state, failure count, time of last failure | call (admit, refuse, success, failure), retry loop | CircuitBreaker, OAuthConnect |
| OAuth connections (`integrations/oauth`) | one-shot states in memory; `integration_connections` rows; the provider's view of each code | authorization URL, callback, disconnect | OAuthConnect |
| Workspace membership (`services/workspace_member.py`, `services/workspace.py`, `api/dependencies/auth.py`) | `workspace_members` rows, `owner_id`, `deleted_at` | change role, suspend, reactivate, remove, transfer ownership, delete | Membership |
| Invitations (`services/workspace_invitation.py`) | `workspace_invites` rows | create, revoke, resend, accept, expiry | Invitations |
| Campaign content (`services/ai_content.py`, `repositories/campaign_content.py`) | `campaign_contents` rows: version, parent, is_current, slot, deleted | create a version, edit, delete | ContentVersions |
| Campaigns (`services/campaign.py`) | `campaigns` rows | create, edit, status, delete | only deletion, in ContentVersions |
| Scheduler (`services/campaign_scheduler.py`) | nothing lasting: its endpoints never commit | schedule, reschedule, cancel | no |
| Publishing, social providers (`services/publishing.py`, `services/social/`) | tokens in `social_accounts` and `integration_connections` rows; the provider's view of tokens and posts | publish, refresh the tokens | Publishing |
| Video uploads (`connectors/google/youtube.py`, `connectors/twitter/publisher.py`) | an upload loop per request; the site's half of the upload | resumable upload; INIT, APPEND, FINALIZE, STATUS | VideoUpload |
| Database schema (`../alembic/`, `models/`) | `alembic_version`; tables, enum types | upgrade, downgrade | Migrations, SchemaTables, Models |
| Sync engine (`integrations/sync/engine.py`) | nothing lasting: the session of its job (`infrastructure/celery/tasks/integration.py:27-30`) is never committed | trigger sync, run sync | no (its job is JobQueue's) |
| Connectors, the rest (`integrations/connectors/`) | none | connect, disconnect: HTTP translation | as one call that succeeds or fails, in OAuthConnect |
| Webhooks, rate limiter | buckets in memory; nothing calls the limiter | verify, dispatch | no |
| Domain events (`events/`) | handlers in memory; no service publishes | publish, dispatch | no |
| Notifications, plans, analytics, AI generation, operations (audit, flags, announcements, metrics) | single rows, no rule connects them | reads and single-row writes | no |
| Persistence (`db/session.py`, `repositories/base.py`) | a session per request: identity map, dirty columns | commit when the endpoint says so | inside every module that has rows |

### How they interact

* An HTTP request owns one SQLAlchemy session. It loads rows, decides, writes and
  commits, with `await`s between; other requests run in between and in other
  processes. No code path locks rows before it reads them. A session answers a
  second look for a loaded row with the object it has (identity map), and an
  UPDATE contains only columns whose value differs from the *loaded* one and goes
  by primary key. These three facts make most of the interleavings below.
* `QueueService.enqueue` commits a row and then publishes a message. From then on the row
  (attempts, max_attempts) and the message (retries, max_retries, late acknowledgement)
  live in two systems that never read each other; only the worker touches both.
* `IntegrationService` calls a connector through a retry loop that is around a breaker that
  is shared by every request of the process.
* Invitations add rows to the table membership reads and writes; both ask
  `get_current_workspace` and `require_permission` who may act.
* `AIContentService` reads the latest version and later writes two rows from what it read.
* `PublishingService` works on an account it loaded first; a social provider that finds the token about to
  expire refreshes it and stores the new pair in *a session of its own*, in two rows, before it posts. A provider that
  publishes a video streams the asset from its host to the site, in an upload loop that is itself part of the request.
* The migrations make the tables all other components use, and run against rows those have written.

### What is hard, and what must hold

* **Jobs.** Crashes between commit and publish, redelivery, lost processes, failing
  sessions, a racing cancel. A job no fault touched must never stall or run twice;
  a status must have a cause; attempts must be counted; messages must not circulate.
* **Breaker and OAuth.** Late results of overlapping calls, restarts, repeated callbacks,
  rows created or changed under a request. The breaker must spare a dead provider; a flow
  must be used once; status and token must agree; every request must end.
* **Membership and invitations.** Check-then-write races, unrevoked rights, soft-deleted
  rows under a unique key. An active owner must remain; the owner must not be locked out by others; a removed
  member must stay out; admissions and spent invitations must agree.
* **Content.** Creates that overlap, versions that leave their slot. Numbers must follow
  parents; a slot must have one current version, its newest.
* **Publishing.** Two requests refresh one token that rotates; answers are lost after the provider has acted;
  an upload breaks off anywhere, and the host may ignore a range. The refresh token that works must not get lost, PUBLISHED and
  FAILED must be true, an uploaded video must be whole, every request must end.
* **Migrations.** Fifteen revisions in any order up and down, over data: what a downgrade leaves behind, what PostgreSQL
  refuses. The schema must depend on the revision alone, the head must be what the classes declare, rows must survive.

`PROJECT.json` "hazards" lists these at their lines, with the properties aimed at each.

## 2. Modules

**JobQueue** - one job is one row, one enqueue call and any number of messages and
executions. Each `async with session_factory()` block is one action, because between
its start and its commit nothing else can be observed, with the exception of three
values used after a later await: `attempts`, which `mark_started` reads and the session
still holds when `mark_failed` increments it (`exec[w].attempts`), the same column as the report of a
failed publish reads it (`loaded`), since a worker may be running the job by then, and the status a
cancel request saw (`cancelling`). Code to actions: `QueueService.enqueue` is
EnqueueCommit, EnqueuePublish, EnqueuePublishFails, EnqueueReport and EnqueueMarkFailed (the read and the UPDATE of `mark_failed`), EnqueueCrash;
`WorkerBase.execute_job` is Start, Complete, Fail, SessionFails; Celery's part
(`BaseTask`, `celery_app`), an external system, is Receive, DiscardUnknown, Acknowledge,
AutoRetry, AutoRetryFails, GiveUp, Redeliver, NodeCrash, ProcessLost; `cancel_job` is
CancelRead, CancelWrite. `kind` says whether a job's name is a registered task on a
consumed queue, an unregistered one, or on a queue no worker consumes. `faulted`,
`failures`, `returned` and `cancelled` are history the properties read.

**JobContract** - what a `job_executions` row, read alone, promises: the abstract
specification. **MCJobQueue** maps JobQueue's rows to it.

**CircuitBreaker** - one breaker and all its callers. Reading the `state` property and
starting the call is one step (no await between), the result is another; what the clock means to the
code is one bit, `cooled`. **OAuthConnect** extends it: `get_oauth_url`, `oauth_callback`
(pops the state), Call/CallRefused/CallSucceeds/CallFails/Wake (retry loop, breaker,
connector), SaveRead/SaveWrite (`save_connection`), `disconnect_integration` and
DisconnectWrite, Restart. `changed` is the ORM's update of the columns that differ
from what was read. The rows are those of one workspace and one provider; other
workspaces matter only because they share the breaker, which the callers cover.

**Membership** - Begin authorizes and loads, Check is `_protect_owner_role` and the Owner-role rule,
WriteMember/WriteTransfer/WriteDelete write and commit. A refused request changes nothing and
appears only when it is refused after it began (CheckFails). `roleSeen` is the session's identity map, which is weak:
the target's row is held by the request and keeps what it was loaded with; the actor's is held only by locals of the dependencies that authorize him, so Check, CheckFails
and WriteTransfer leave open whether it is still held (`held`) or read again.
**Team** - what a workspace promises whose members are changed by one request after the other: each change in one step, by someone who may
make it, on the team as it is. Membership implements it up to the first overlap (ChangesAreSerial); the mapping shows of a row its place (active,
suspended, out) and its role, and nothing of the requests in progress.
**Invitations** extends Membership with the rows of `workspace_invites` and the rows acceptance adds. Each query another request may precede is a step:
CreateRead (the member with that address), CreateLook (`get_pending_invites`), CreateWrite or CreateConflict; AcceptRead (the invitation),
AcceptLook (`get_member`), AcceptWrite or AcceptConflict; RevokeRead and RevokeWrite, ResendRead and ResendWrite. Expire is the clock.

**ContentVersions** - CreateRead (`get_latest_version`) and CreateWrite, UpdateRead and UpdateWrite,
delete_content, delete_campaign. A slot is a pair of content type and language; `Null` is the
slot of rows stored without a language, which a create looks up as "en".
**VersionHistory** - what undisturbed content promises: per slot a history that only grows, its n-th version numbered n and current until the
next, deleted versions leaving their numbers unused. ContentVersions implements it up to the first disturbance (VersionsAreHistory).

**VideoUpload** - each request's upload has the publisher's half (`up`: file_size, what was sent, the retries
left), the site's half (`site`: blocks taken, whether they are the asset's blocks in their places, processing) and
`noted`, what happened that the code does not notice. One PUT with the stream inside it is one
step, since only the site and this request see it: PutComplete (200 and 201), PutIncomplete (308; its Range may cover the whole file, after which the loop ends without
having heard of the video), PutUnread (any other answer below 400: the loop sends the same again), PutFails (a break, a body that does not fit, an error: the
`except` that counts a retry and asks for the status), PutForbidden (401 and 403, which pass the handler), LoopEnds; then
StatusComplete, StatusIncomplete, StatusUnread (another answer below 400: the loop goes on from where it was), StatusFails. Twitter's half is append, finalize, poll, PollSaysNothing,
MediaFails. The `file_size` of the asset's row and the length of the file at its URL are two numbers, chosen freely.

**Publishing** extends it with the account. `publish_content` loads it; TokenIsFresh or RefreshGranted/RefreshRefused/RefreshUnanswered
is `_refresh_if_needed` of the Google, LinkedIn and Twitter providers (the others never look at `expires_at`), Store and StoreFails their own
session, StartUpload to UploadRaises the video, PostAnswered/PostUnanswered/PostRefused the post itself (images are uploaded in
the same step), Unsuitable the checks of the content. Tokens are numbers in the order the provider issued them. Three facts of the code shape it:
`connect_account` stores accounts of the mock provider only and the sync job commits nothing, so the initial rows are those the providers' tests set up;
a connection stored by the OAuth callback has the provider's lower-case name while the refresh looks it up under the
enum's upper-case value, so the row may be missing (`connection = NoRow`) and then StoreFails is the only way on; and `GoogleProvider.publish_content` takes
`(db, account, content)` where the service passes two arguments (GoogleTypeError), so the Google upload is that of callers of the provider itself.
The request's `publish_history` row is never committed: its status is the answer the request gives.

**SchemaTables** - the tables as the revisions create them: columns by nullability, foreign keys, indexes, unique
keys, enum types. **Models** - what the mapped classes declare, mixins included. **Migrations** - every
revision's `upgrade` and `downgrade` as a sequence of create, drop and alter steps; a step is refused for what PostgreSQL refuses
(CanCreate, CanDrop, CanAlter); `upgrade(to)` and `downgrade(to)` run all revisions on the way in one transaction, as `env.py`
does, so a refusal anywhere leaves the database as it was. Rows come and go (insert, delete) as far as NOT NULL foreign keys allow.

**JobQueueProofs, OAuthConnectProofs, MembershipProofs, InvitationsProofs, ContentVersionsProofs, VideoUploadProofs, PublishingProofs,
MigrationsProofs** hold the theorems.
**MC...** modules add symmetry sets or the refinement mapping and nothing else.
Definitions whose name ends in `Bug` are plausible slips, used to see that each property
notices; no specification uses them.

## 3. Runs

| Run | Bounds | States | What it shows |
|---|---|---|---|
| jobs_faults | 1 job, 2 workers, limits 2/2, 2 faults, 3 kinds of job, a cancel | 344,810 | TypeOK, NoStalledJob, SingleCarrier, AttemptsCountFailures, OutcomeHasCause, CompletedIsFinal, MessagesDrain under every pair of faults |
| jobs_clean | 2 jobs, 2 workers, the code's limits 3/3, no fault | 1,337 | ImplementsContract: the machinery implements JobContract, its fairness included; JobsSettle |
| jobs_cancel | 1 job, 1 worker | violated | CancelledIsNotRun fails: see findings |
| oauth_connect | 3 requests, 2 flows, threshold 2, 2 retries, 1 recovery timeout, 1 restart | 313,868 | TypeOK, FailuresBounded, ClosedBelowThreshold, FlowUsedOnce, RowsCoherent, RequestsEnd, RequestsAdvance: a step of a request uses up one of the steps it has |
| oauth_disconnect | 3 requests, no failure needed | violated | DisconnectRevokes fails |
| membership | 3 users, 2 roles, 2 requests, all six operations | 1,520,848 (up to symmetry) | MemberTypeOK, OwnerRemains, OwnerNotLockedOut; ChangesAreSerial: requests that do not overlap implement Team |
| last_owner | the same without transfer and delete | violated | LastOwnerKept fails |
| invitations | 2 users, 3 invitations, 2 requests about them and 1 about members | 548,552 (up to symmetry) | TypeOK, AdmissionsAgree, InviteOutcomeFinal, RemovalFinal |
| content_versions | 3 rows, 2 slots, 2 requests | 930,976 (up to symmetry) | TypeOK, VersionsFollowParents, OneCurrentVersion, CurrentIsNewest; VersionsAreHistory: undisturbed, the rows implement VersionHistory |
| content_latest | 3 rows, 1 slot, 1 request | violated | LatestIsFound fails |
| publishing | 2 requests, one with a video, all 6 providers, the code's 3 retries, files of up to 3 blocks, 1 stall, 2 expiries | 442,440 | TypeOK, TokensReachTheRow, AnswersAreTrue, UploadedIsWhole, RequestsEnd, UploadsAdvance: no upload comes back to where it was |
| migrations | all 15 revisions, rows in users, workspaces, audit_logs, campaigns | 280 | RevisionFixesSchema, WhatBlocksUpgrades, WhatBlocksDowngrades, HeadMatchesModels, DataSurvives |

Why the bounds are enough. *Jobs do not interact*, so one job shows all faults
(`jobs_faults`); `jobs_clean` has two because fairness is per worker and the workers
are shared. Two workers allow two overlapping executions and two faults the
combinations that need a pair (redelivery, then a crash). The limit 2 instead of 3 leaves a
first failure, a last one, and none between that differs; `jobs_clean` uses 3. *Requests race in
pairs*: a read and a write disturbed by one other request, hence two requests for
membership, invitations and content; three in `oauth_connect`, so that two racing callbacks can meet
a disconnect and the threshold of 2 can be passed by calls in flight. Three users are an owner,
a second owner and a bystander; three contents are a version, its successor and a competitor. Counters
bounded only for TLC: MaxFaults, MaxCoolings, MaxRestarts, MaxExpiries, MaxSize, MaxStalls; the theorems hold for every value of them.

In `publishing` two requests are what a race for one refresh token needs, and two expiries let the winner's token expire before the
loser moves; one request has a video, because uploads do not meet each other; three blocks are a first, a middle and a last one.
`migrations` has no bound but the tables that may hold rows: two whose rows stand in a revision's way (users, audit_logs), the
workspaces they reference, and campaigns, which a downgrade drops with its rows. Its graph is every combination of revision, leftover
types and rows, and the invariants evaluate every upgrade and downgrade from each.

CHECK_DEADLOCK is FALSE everywhere: every model may come to rest (all jobs settled, all
rows used, all requests ended; a database at its base with leftover enum types and nothing to insert into).

**Properties qualified by history.** Several invariants hold "unless": `faulted` (a fault of the
environment hit this job), `raced`, `hasty`, `excuses`. The code has no mechanism that would
repair such a state, so the qualification is the content of the property: it names every way the
rule can break, and the run shows there is no other. The races themselves (two callbacks of one workspace, two demotions, two creates, the lost
increment of overlapping executions) are thus excused there and not caught. Where a docstring or endpoint promises
the rule without a qualification, a violation run shows what the code does.

**Fairness.** JobQueue's FairSpec: an enqueue call that has begun goes on (WF of its own step) and
each worker goes on (WF of WorkerStep): Celery workers consume while they run, and every await in
`execute_job` ends. Nothing forces anyone to enqueue, cancel or fail, and nothing is assumed of
which way an execution ends: it may fail every time. OAuthConnect's FairSpec: a request that
has begun goes on, since every await in it (provider with a timeout, sleep, database) ends; no fairness for users, the
clock (Cool), or Restart. Publishing's FairSpec: a request that has begun goes on, for every await in it is an HTTP call with a timeout, a sleep or a
database call. Nothing in the code limits the answers of a site that reports no progress (308 without a new Range, an answer the loop does not read; a media
that stays pending), so RequestsEnd holds relative to MaxStalls: as long as a site does not do so for ever. No fairness for expiry. Membership, Invitations, ContentVersions and Migrations have no liveness property and no fairness.

## 4. Proofs

TLC checks the instances above; TLAPS proves the following for every value of the constants.

**JobQueueProofs** (`JobQueueTypes`, `OutcomesHaveCause`, `UntouchedJobsNeverStall`,
`UntouchedJobsRunAlone`, `AttemptsAreCounted`). The invariants are not inductive: nothing in
NoStalledJob says why the *last* retry finds the row's attempts exhausted. The inductive
invariant IInv adds, for every job no fault has touched, `Chain`: there is one carrier, and
its Celery retry number equals the attempts on the row (one less for an execution that has raised). So
when Celery gives up (retries = MaxRetries) the row has MaxRetries + 1 >= MaxAttempts attempts and is FAILED. That
inequality, `MaxAttempts <= MaxRetries + 1`, is the one assumption that ties the two systems; the
code has 3 and 3, so a job whose row is FAILED is run once more.
`Identified` ties executions and requests to their rows. The other assumptions on the constants say what
they are (numbers, disjoint values). `CompletionsAreFinal` (CompletedIsFinal) adds `Over` to IInv: a COMPLETED row of an untouched job
has no message and no execution but the one about to be acknowledged, because the one carrier is the one that completed.
`RowsKeepTheContract` is the step simulation from JobQueue to JobContract: where nobody cancels and no fault occurs, a row says RUNNING while and only while
one execution runs its job (`Truthful`), so Start, Complete, Fail and EnqueueCommit are the contract's Run, Succeed, Fail and Submit and all other steps leave
the rows alone; that a job is run once more only while fewer than MaxRetries + 1 failures are counted is `Chain` again.

**OAuthConnectProofs**. `BreakerBounds` proves the two breaker properties of CircuitBreaker alone: the
strengthening bounds failures plus calls in flight by what the recovery periods so far have allowed, period by
period, which needs the cardinality facts about adding and removing a caller.
`ConnectUsesBreaker` proves that OAuthConnect implements CircuitBreaker (every step is a breaker step or
leaves it alone), so `ConnectFailuresBounded` and `ConnectClosedBelowThreshold` follow without another induction.
`ConnectTypes` includes that the retry count never passes its limit. `OneRequestPerFlow` is
FlowUsedOnce, strengthened (`FlowInv`) by where a flow can be: its state still valid, held by one request,
or, once that request is done, its token stored in one row. `RowsStayCoherent` (RowsCoherent) needs what a request holds between its read and
its write: a connect brings a flow, and whoever has read a row has read one that exists (`Held`); an undisturbed write then puts both columns there at once.
`RequestsComeNearer` (RequestsAdvance) is the part of RequestsEnd that needs no fairness: `left` counts the steps a request can still take, is zero exactly before
it begins and after it ends (`LeftBounds`), and every step of the request lowers it (`ContinueAdvances`) while all others leave it alone or end the request (Restart).
That it is lowered again and again is the fairness TLC checks RequestsEnd under.

**ContentVersionsProofs**. `ContentTypes`, `ParentsAreFollowed` (VersionsFollowParents), `OneIsCurrent` (OneCurrentVersion), `NewestIsCurrent` (CurrentIsNewest). The
strengthening `ReadsHold` says that what a request has loaded still names an existing row with the version it
was loaded with; versions and parents never change once written, so a late write still
numbers its row after its parent. `Order` says the rest: undisturbed, the versions of a slot have one current among them and it has the greatest number, so a
number that follows the current one's is new and greater than all; no finiteness of the table is needed.
`UndisturbedVersionsAreHistory` (VersionsAreHistory) is the refinement of VersionHistory. Order speaks of versions that are not deleted; `Counted` adds that
of all rows made in a slot, deleted ones included, each number from 1 to their count belongs to one, the greatest to the current version. So the number
that `create` read in one query and writes in another is the count of the rows made plus one (`CreateFollows`), and the step is VersionHistory's Make.

**MembershipProofs**. `MemberTypes`, `AnOwnerRemains`, `OwnersAreNotLockedOut`. OwnerRemains is not inductive: a request counts the owners
in one step and writes in a later one. The strengthening says that while no other request commits (the request is not in
`dirty`), what it has loaded is what the rows hold (`Current`), so that the owners it counts are the active owners (`CountedOwners`) and,
once it may write, another active owner is left than the one it takes away (`Spared`; a set of more than one element is no singleton). A
commit makes every other request in progress dirty, which is the excuse the property allows. A transfer promotes before it demotes; the
lemma `WithRole` says that writing a role only where it differs from what was loaded still writes it when that is current. For OwnerNotLockedOut,
`Entitled` says that while a request is not dirty, the owner it was authorized by is the owner still; only a change of the owner's role can take his rights away.
`UndisturbedChangesAreSerial` (ChangesAreSerial) is the refinement of Team: `Allowed` says that everything a request was authorized by and has asked of its target is
true of the rows while it is not dirty, so that its write is the atomic change of Team by its actor (`WriteMemberSerial`, `WriteTransferSerial`), its earlier steps show
nothing, and the write of a dirty request is Team's Overlap.

**InvitationsProofs**. `InvitationTypes`, `AdmissionsHold` (AdmissionsAgree), `OutcomesAreFinal`, `RemovalsAreFinal`, `OwnersRemainUnderInvitations`. It carries
the invariant of MembershipProofs over to the composition: an acceptance is a write to the members' table that makes nobody dirty, so `MemberInv` has to say
that no request in progress has loaded a row that is not there (`Present`) and that such a row is not deleted. `Loaded` says what a request about an invitation
holds: it was PENDING and exists, and a user seen as a member is one still. Every step then keeps three action formulas (`RowsStay`, `InvitesStay`,
`OutcomesStay`), of which the two action properties are parts.

**VideoUploadProofs**. `UploadTypeCorrect`, `UploadsAreWhole`, `RaisesAreSilent`. The strengthening `Sound` relates the two halves of an
upload: in the loop the publisher believes sent no more than the site has, and less only after an answer that did not say how far it is (`silent`);
unless a range was ignored every block taken is the asset's, in its place, blocks sent a second time included; and whoever
asks for the status knows that the last exchange was silent. Uploads are independent, so one lemma (`OneUpload`) lifts a step of one
request to the whole state. `UploadsGoOn` (UploadsAdvance) says why the loops end: a step leads `Further` in the order of retries, phase, blocks sent and
answers that brought nothing, all of which are bounded; asking the site where to go on may send the upload back to its first block, but only for a retry.

**PublishingProofs**. `TypeCorrect`, `TokensAreKept` (TokensReachTheRow), `AnswersHold` (AnswersAreTrue). What the invariants lack, the
strengthening adds: token numbers are bounded by what was issued (`Bounded`), a provider that does not rotate never changes its refresh token
(`Steady`), a rotated pair in hand is the live one and nobody else can refresh until it is stored (`Turn`), and how far a request is says how far its
upload and its post are (`Link`). `PublishingUploads` shows that every step of Publishing is a step of VideoUpload or leaves it alone; therefore `PublishedIsWhole` follows from
`UploadsAreWhole` and `PublishingGoesOn` from `UploadsGoOn` without another induction. The only assumptions are that the bounds are numbers and Video a set of requests.

**MigrationsProofs**. `RevisionFixesSchemaHolds`, `WhatBlocksUpgradesHolds`, `WhatBlocksDowngradesHolds`, `HeadMatchesModelsHolds`,
`DataSurvivesHolds`: the four invariants and the action property of the run, for every set of tables that may hold rows (`Stored`; the run has
the four of which something depends), so that no revision was overlooked whose steps would be refused over data.
The inductive invariant IInv is: the tables are those `Fits` says of the revision, up to one thing history decides (`old`: whether the index on
`last_login` is gone, which 2e drops and its downgrade does not restore); the enum types include those of the tables that exist and are among those
the 33 creations make, because a downgrade leaves its types behind; rows are in existing tables. None of the four invariants is inductive:
that an upgrade is blocked by a left-over type, say, cannot be seen from the revision before it without knowing which types its creations would make.
Everything an upgrade or downgrade does is the result of running a list of steps with a recursive function, so the argument is by induction over data,
which here is possible without the library's induction theorems (they take an operator): `LeastNumber` follows from the well-founded
order of finite sets, `Induction` from it, and `RunHasTrace` says that the recursive function exists and obeys its equation. On these rest, in this order:
`Creations` and `Drops` (what a run of create steps and of drop steps makes of any database, and exactly which type or row refuses it), `UpStep` and `DownStep` (the
program of each revision, over any database that Fits), `Upgrades` and `Downgrades` (all revisions on the way, in one transaction),
`UpgradeEffect` and `DowngradeEffect` (in terms of the revisions only). HeadMatchesModels compares 33 tables with what the classes
declare, one lemma for tables no revision alters, one for those 6d96 adds soft deletion to, and one by one for the others.

Only model-checked: everything with fairness (JobsSettle, MessagesDrain, both RequestsEnd, the fairness in ImplementsContract), since liveness
under fairness is beyond the prover; RequestsAdvance and UploadsAdvance are what of it can be proved. Every other invariant and action property a passing run checks is a theorem.

## 5. Findings

1. *A cancelled job runs.* `cancel_job` (`operations/admin/service.py:58`) writes FAILED and neither revokes the
   message nor does the worker look at the row before it runs the task; the endpoint says "Cancel a pending/queued job."
   (`operations/admin/router.py:52`). Run jobs_cancel.
2. *A disconnected workspace stays connected.* Two overlapping callbacks insert two rows; the disconnect clears
   whichever `.first()` returns. The endpoint says "Disconnect and revoke an integration."
   (`api/v1/endpoints/integrations.py:108`). Run oauth_disconnect.
3. *The last owner goes.* Two requests each count two owners (`services/workspace_member.py:53`); the docstring
   says "Ensures that the workspace has at least one active owner before removing or demoting an owner." (line 39). Run last_owner.
4. *No latest version.* `get_latest_version` asks for `is_current` too, and nothing becomes current again; the docstring
   says "Get the latest non-deleted version of a specific content type and language." Run content_latest.

Seen while reading, without a run of their own because the state they would be about is never stored or the
code raises at once: endpoints that never commit (campaign status and edit, schedule, publish, notifications, `run_sync`)
although ARCHITECTURE.md:144 says the session is "committed if successful"; `retry_job` calls `enqueue` with
arguments it does not take; the comment at `jobs/queue.py:68` speaks of FAILED where the row becomes
RETRYING; `expire_invites` has no caller.

Also seen: every insert into `campaign_schedules` is refused, because the class casts its status to an enum type
`schedulestatus` (`models/campaign_schedule.py:37`) no revision creates (the second part of HeadMatchesModels states it); `downgrade` of 2e does
not restore the index on `last_login`; no `downgrade` drops enum types, so going down past a table that has one and up again is refused
(WhatBlocksUpgrades); a host that answers 200 to a Range request is accepted, and the asset's beginning is sent for its end
(`ignored` in UploadedIsWhole); a FINALIZE that answers "failed" counts as success (`unread`); an answer without an `id` may publish under the id "None"; the
provider's name is upper-case where a refresh looks and lower-case where the callback stores; the arguments of `GoogleProvider.publish_content`;
a first login through an endpoint that only reads is not stored (`get_or_create_user` flushes, `services/supabase_auth.py:85`, and nobody commits).
No document promises otherwise, so they are parts of the models and no violated runs.

## 6. Not modelled, and why

* Data: PKCE values, encryption, credentials, titles and bodies, slugs, permissions finer than "may manage", the column types and
  server defaults of the tables. No property here tells two of their values apart.
* Refused requests: they change nothing (a read-only transaction).
* Order of messages: the broker is a bag per retry number; retries are delayed and workers prefetch, so the code cannot
  rely on an order.
* Sync engine, scheduler, notifications and the transition table of campaigns: their sessions are never committed, so no state
  of theirs outlives the request or job. `retry_job` raises at its call of `enqueue`.
* Components with single-row writes and no rule between rows (plans, flags, configuration, announcements, audit), pure
  calls (AI generation, webhook verification) and code without a caller (domain events, rate limiter).
* The database is trusted: a commit is atomic and durable; unique keys hold.

## 7. Plan

Done: JobQueue with JobContract, CircuitBreaker and OAuthConnect, Membership and Invitations (composed), ContentVersions,
VideoUpload and Publishing (composed), Migrations with SchemaTables and Models, the abstract specifications Team and VersionHistory; the proofs above.

Next, in this order:

1. What RequestsAdvance is for a request, for a job: between two faults its carrier's retry number and place only go up.
2. What two overlapping requests can do at worst, in place of Team's Overlap: a serial order of the two exists for all but the pairs
   the excuses name.
3. SyncEngine as the task JobQueue runs, once its session is committed: the refresh of the connection's tokens there would then race with Publishing's Store.
