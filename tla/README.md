# Sortera: a verification project

TLA+ models of the Sortera archive (NestJS over Prisma/Postgres, Redis and BullMQ, S3), the
TLC configurations that check them, and proofs that TLAPS checks. Paths are those of the
repository; `PROJECT.json` maps every definition to the lines it translates.

## The system

The archive is one Node process in front of Postgres. A request runs without
interruption until its next `await`; there it may be overtaken by any other request, cron job
or queue worker. **No handler opens a transaction.** So nearly everything that is hard here is one of:
a value read in one database call and used in a later one, a sequence of calls that stops in
the middle, or a cron or a worker that meets a request half way.

| component | state | operations | hard part | what makes it correct | where |
|---|---|---|---|---|---|
| `RateLimitService` | Redis counters with an expiry | `consume` (INCR, then EXPIRE on the first hit), `reset` (DEL) | three commands, interleaved and interruptible | the limit holds however requests race; a blocked key reopens | `RateLimit` |
| `AuthService`, `ActiveSessionsService` | `users` (password, TOTP secret, enabled flag, reset link), `active_sessions`, JWTs | login, 2FA setup and verification, trusted devices, revocation, forgotten and reset passwords | a login in flight during a reset; a reset that dies; two enrolments | a full token lets in only the user of a live session, opened by a code where one is needed; a reset ends old sessions; a used link is in no row any more; nobody ends another user's sessions | `AuthSessions` |
| `TenantMiddleware`, `TenantContextService` | the request's tenant, user and role | `use`, `run`, `requireTenantId` | a session row is looked up once, then the request goes on | pending tokens reach two routes only; audiences never mix | `AuthSessions` (admission of staff tokens), `TenantScoping` (a context without a tenant) |
| `PrismaService` | none of its own | rewrites the arguments of every scoped query | scoping is decided by the name of the operation | no query whose operation it knows runs without the caller's tenant (`findFirstOrThrow`, which the document worker calls, it does not know); append-only tables stay so | `TenantScoping`, used by `Sharing` and `Dashboard` |
| `PolicyService`, `RolesGuard` | none | `can(action, subject, resource)` | rules that veto in sequence, then a matrix | a deny is final; a share never opens RESTRICTED items | `Policy`, used by `Sharing` |
| `ContentItemsService` | `content_items`, `event_revisions`, `status_transitions` | `create`, `transitionLifecycle`, reads | five calls without a transaction, numbering from an earlier read | history has no gaps, and every change is explained by it | `LifecycleHistory`; `create` in `DocumentRetention` and `SearchIndex`, `findOne` in `Sharing` |
| `RetentionPoliciesService`, `RetentionEnforcementService` | `retention_policies`, snapshots on items, `deletedAt` | `upsert`, `computeForNewItem`, the daily cron | cron against requests; failures skipped until the next day; what is treated every day again | expired items are archived, or deleted and, after the grace period, scrubbed | `LifecycleHistory` (ARCHIVE), `DocumentRetention` (the rest) |
| `DocumentsService`, `DocumentProcessor` | `content_items`, `document_files`, the bucket, a queue | `upload`, `process` | crash between row and queue; metadata read and written back | a document is processed or says why not; scrubbed text stays away | `DocumentRetention` |
| `ResearcherPortalService`, `AccessRequestsAdminService` | `access_requests` | `requestAccess`, `approve`, `reject`, `assertViewable`, `requestDownload`, `getWatermarkJob` | access that ends between the request and the link | a link goes to the researcher it was made for, who was given leave to view | `AccessRequests`, `ResearcherPortal` |
| `WatermarkProcessor`, `WatermarkCleanupService` | `watermark_jobs`, the bucket, a queue | `process`, `run` every ten minutes | two workers, the cleanup and crashes on the same rows and copies | a finished copy is there until it expires, or its twin of the same millisecond does; rows go, and the copies they name | `WatermarkPipeline` |
| `ResearcherAuthService` | `researcher_accounts` | `register`, `login` | none: the unique index decides the one race | | not modelled |
| `SearchService`, trigger | `content_items.search_vector` | `search`, `reindex`, the trigger on every write | two writers of one column; ids first, rows later | what was approved can be found, what was scrubbed cannot | `SearchIndex` |
| `AiPredictionsService` | `ai_predictions` | `create`, `approve`, `reject` | two reviewers at once | the index agrees with the queue | `SearchIndex` |
| `SavedSearchesService`, `MergeSuggestionsService` | `saved_searches`, `pending_merge_suggestions` | a row each | nothing to interleave | | not modelled |
| `SharedResourcesService` | `shared_resources` | `share`, `revoke`, `getSharedItem` | share, item and policy are read one after the other | only what is shared, at the level it is shared; a revocation ends it | `Sharing` |
| `AuditService`, `AuditInterceptor` | `audit_logs` | `record` | failures are swallowed on purpose | nothing reads it back | not modelled |
| `DashboardService` | `dashboard_snapshots` | hourly refresh, compute on demand | five queries beside writes; a tenant whose computation always fails | figures are the tenant's own; the other tenants are refreshed all the same | `Dashboard` |
| `MediaService`, `StorageService`, `NotificationService` | S3, SMTP | upload, signed links, mails | outside services | | the watermark cache, in `WatermarkPipeline`; `MediaService.upload`, in `DocumentRetention` |
| tasks, event types, nav sections, characters, brands, relations, audit-log listing | a table each | single-row CRUD | nothing to interleave | | not modelled |
| `public/`, seed, migrations, bootstrap | | | | | not modelled |

How they interact: controllers call services; `TenantMiddleware` runs before all of them and
asks `active_sessions`, which `AuthService` and `ActiveSessionsService` write.
`AuthService` calls `RateLimitService`. `ContentItemsService`, the retention cron and
`DocumentProcessor` share `content_items`. The portal hands `WatermarkProcessor` work through
BullMQ, and `WatermarkCleanupService` deletes behind it. `AiPredictionsService` calls
`SearchService.reindex`, whose update fires the trigger on the same row.
`SharedResourcesService` and `ContentItemsService` ask `PolicyService`, and all of them but the raw
client of sharing go through the query extension of `PrismaService`.

## Modules

| module | models | composed of |
|---|---|---|
| `RateLimit` | the counters and the requests that charge them | |
| `RateLimitProofs` | theorems about it | extends `RateLimit` |
| `AuthSessions` | staff authentication | |
| `MCAuthSessions` | the addresses of the users of its runs | extends `AuthSessions` |
| `AuthSessionsProofs` | theorems about it | extends `AuthSessions` |
| `RevisionLog` | abstract: a log per item that only grows at its end | |
| `LifecycleHistory` | transitions and the archiving cron | implements `RevisionLog` |
| `LifecycleHistoryProofs` | theorems about it | extends `LifecycleHistory` |
| `DocumentRetention` | uploads, document processing, policies, deletion and scrub | |
| `DocumentRetentionProofs` | theorems about it | extends `DocumentRetention` |
| `WatermarkPipeline` | jobs, queue, workers, bucket, cleanup | |
| `AccessRequests` | publication, access requests, `assertViewable` | |
| `ResearcherPortal` | the portal | extends `WatermarkPipeline`, instance of `AccessRequests` |
| `MCPortal` | the symmetry of its run | extends `ResearcherPortal` |
| `ResearcherPortalProofs` | theorems about the pipeline and the portal | extends `ResearcherPortal` |
| `SearchIndex` | the search column, its trigger, reindexing, reviews, searches | |
| `SearchIndexProofs` | theorems about it | extends `SearchIndex` |
| `Policy` | `PolicyService.can`, `RolesGuard` | |
| `TenantScoping` | the query extension of `PrismaService` | |
| `Sharing` | items of several tenants, shares, the scoped client | extends `Policy`, `TenantScoping` |
| `MCSharing` | the symmetry of its run | extends `Sharing` |
| `SharingProofs` | theorems about `Policy` and `Sharing` | extends `Sharing` |
| `Dashboard` | snapshots of the figures of every tenant | extends `TenantScoping` |
| `DashboardProofs` | theorems about it | extends `Dashboard` |

Throughout, an action is what happens between two awaited calls, a crash or an error is an
action (`Fail`, `CallFails`, `Crash`, ...) that may strike before any of them, and time is an
action by which something expires. Definitions whose name ends in `_Something` are plausible
slips of the definition they precede; nothing uses them.

**RateLimit.** `count` and `ttl` are Redis: 0 is no key, or no expiry. `Incr`, `Expire` and
`Reset` are the three commands, `call` is where each login or forgot-password request is.
A counter stops at one past its limit, since the code asks only whether it is 1 and whether it is
within the limit. Time is in ticks; a key whose last tick passes is deleted.

**AuthSessions.** `password` counts resets, so comparing it tells an old credential from the
present one. `req` is what each request has read and not yet written: `pc` names the call it is
about to make. A session row remembers, for the properties only, the password its login
matched (`cred`), the one in force when it was made (`epoch`) and the secret that was proved
(`factor`). A token that has expired is one nobody presents any more: every action that takes a
token may equally not be taken. The roles of `enforceTwoFactorForRoles` are constant. The rate
limit of login is `RateLimit`, and is left out here. `active_sessions.lastActive` is left
out: `login` reuses a trusted session without writing to it (whatever the comment at
`auth.service.ts:108` says), and the update in the middleware is never awaited.

**LifecycleHistory.** `ReadItem` to `UpdateStatus` are the five calls of
`transitionLifecycle`; `Taken` is the unique index on (`resourceId`, `versionNumber`). The code
lets any status follow any other, although the comment at `content-items.service.ts:62-64` speaks of
enforcing a pipeline; the model lets it too. `CronFind` and `CronArchive` are
`applyExpiryActions` for items with action ARCHIVE (the set `Expiring`), which it finds again every day.

**DocumentRetention.** `upload` is where the call that makes an item has got to; another item is made
by `MediaService` (`"media"`: its file is still to be stored, and the item stays if that fails) or by `ContentItemsService`. `policy` is the action of the one content type of the model, and
`item.applied` the snapshot an item was made with. `item.deleted` is 0 or counts days since `deletedAt`
up to the one on which the scrub is due, and `Grace` stands for the seven days; an item's two parts that a scrub
empties are two flags. `worker` and `entry` are as in `WatermarkPipeline`. Reading the metadata and writing it back with the
text is one step: an uploaded document has no metadata but its text, and the write sets the text, whatever was
read. `cron.todo` is what the running pass has read; runs do not overlap, being a day apart. An item
expires after its upload is over, since a period is at least a day (`@Min(1)`). Audit records and mail have no effect here.
`hurt` is history: the documents whose queueing, or whose status, was lost to an error or a crash.

**WatermarkPipeline.** A job of the model is one call of `requestDownload`: `job` holds its row
in `watermark_jobs`, `entry` its BullMQ job, `worker` the concurrent runs of `process`,
`objects` the bucket, `todo` the rows the running cleanup has read, each with the copy still to be deleted. A job whose worker died is
handed out again once (`maxStalledCount` 1 is BullMQ's default, and the code leaves it); a
job that threw is not (`attempts` is left at 1). The name of a copy ends in `Date.now()`, which `PutRaw` takes from the set `Millis`: stamps may
repeat, and a copy stamped earlier may be stored later. Two copies of one researcher and item that are of one millisecond are one object
of the bucket; their jobs are twins (`Twin`). `named` is history: the stamps in the names each row has had. Cleanups do not overlap: the
next is ten minutes away.

**AccessRequests, ResearcherPortal.** `assertViewable` is `Viewable`; its two reads are one
step, and so are the read and the update of `approve` and `reject`, whose reads nothing can change to
matter. `requestDownload` checks in one step, creates the row in the next and queues in a third. `ResearcherPortal` is
`WatermarkPipeline` with its own names (`PortalInit`, `PortalNext`, ...) for what it adds.
`admitted` and `urls` are history: who was ever given leave to view what, and which links were handed out.

**SearchIndex.** An item is the set of its words, one for the title and one for the text in its
metadata; `vector` is `search_vector`. Every statement that writes a row goes through `Store`, and `Store` through
`Trigger`, which is a BEFORE trigger: what the statement itself sets the column to is lost. `review` is
where each `resolve` is: found, about to update, about to reindex. `resolve` looks at no status, so two
reviewers may decide on one prediction in any order. `search` reads ids and then rows; ranking, filters and the limit are
left out. `answered` is history: texts whose approval has been answered and that nobody rejected since.

**Policy, TenantScoping.** Operators without state. `Can` is the three rules that deny and the matrix
that follows them; a rule sees the permission of the share that its caller has found. `Reaches`, `Refused` and `Stamped`
say what the query extension does to an operation, by its name: `findFirstOrThrow`, which the
document worker calls, is in none of its sets and runs as written.

**Sharing.** `share` keeps a row's content after its deletion, `live` says which rows exist. A request is
between two queries (`req.pc`), with what it has read so far; in between, any request of any tenant may
run. `Taken` is the unique index on item and tenant. `findOne`'s one query and the check that follows are one step.
`reached` is history: in whose context a scoped query has touched whose item. Deletion is left out: no
query here looks at it.

**Dashboard.** `table` is what there is to count, per tenant and figure, `comp` the computation that the
cron or a visitor has in flight, with the answers it has got: the queries of the `Promise.all` are answered in any
order. `Write` stands for every service that writes a counted table, the services for items, predictions and tasks among
them, and lets a count become anything: more than any of them does. The cron takes the tenants in turn, each in a context of its own; a failure is logged and the next
tenant follows. `comp.past` is history: the counts since the computation began.

## Runs

| run | module, bounds | checks | shows |
|---|---|---|---|
| `rate_limit` | `RateLimit`: 2 requests, one key of each kind, limits 2/6 and 1, window 2, 1 failure | `TypeOK`, `TtlOwed`, `AdmittedWithinLimit`, `FixedWindow`, `BlockedReopensUnlessOrphaned` | racing INCR/EXPIRE/DEL keep the limit and the window; a key reopens unless its EXPIRE was lost |
| `auth_second_factor` | `MCAuthSessions`: 2 users with one address, 2 requests, 2 sessions, 2 secrets | `TypeOK`, `AdmittedByOwnSession`, `SessionEndedByOwner` | a full token lets in only the user of a live session, opened by a right code where one is needed, whatever devices, revocations and enrolments do; sessions are revoked by their owner (no links here: that a reset ends only its own user's is `EndedByOwner`) |
| `auth_reset` | the same users, 2 requests, 1 session, 2 links | `StaleSessionsDoomed`, `SpentLinkIsDead`, `StaleSessionsEnd` | resets end what was there before them, and a link that was used is in no row afterwards (two resets that have both found the user by it both succeed) |
| `auth_reset_late` | 1 user, 2 sessions, 1 link | `NoSessionFromOldPassword` fails | finding 1 |
| `lifecycle_history` | `LifecycleHistory`: 2 items, 3 calls, one item expires | `TypeOK`, `VersionsContiguous`, `TransitionHasRevision`, `ChangesAreExplained`, `ExpiredIsArchived`, `ImplementsRevisionLog` | the history is a log, and explains every change |
| `documents` | `DocumentRetention`: a document and another item, 1 worker, 2 days of grace, 1 stall, 2 crashes | `TypeOK`, `DoneHasText`, `GraceRespected`, `EventuallyErased`, `PendingEnds` | content is lost by the item's own snapshot and after the grace period only, and in the end for good; documents end, unless a step was lost |
| `watermark` | `WatermarkPipeline`: 2 jobs of one researcher and item, 1 worker, 2 milliseconds, 1 stall, 1 crash | `DoneIsServable`, `RowsGo`, `CopiesGo`, `JobsEnd` | the copy a DONE job names is there until it or a twin expires; all rows go, and the copies they name for good |
| `portal` | `MCPortal`: 2 researchers, 1 item, 2 jobs, 2 workers, 1 millisecond | `PortalTypeOK` (with the pipeline's `TypeOK`), `UrlsRightful`, `DoneIsServable` | links lead only to copies made for their researcher, who was given leave; copies made at once under one name are lost to a twin's cleanup and to nothing else |
| `search` | `SearchIndex`: 2 items, 2 predictions, 2 reviews, 1 search | `TypeOK`, `IndexFollowsRow`, `AnswersMatch` | the index follows title and metadata through every order of writes and reindexings; a row that no longer matches its query is handed out only if it was scrubbed in between |
| `search_approved` | 1 of each | `ApprovedIsFound` fails | finding 2 |
| `sharing` | `MCSharing`: 2 tenants, 2 items, 2 rows, 2 requests, 3 roles, 3 levels | `TypeOK`, `Confined`, `SeenRightful`, `RevokeEndsSharing`, `OwnerDecides` | scoped queries stay in their tenant, items are seen by right only, a revocation ends the sharing, only owners share |
| `dashboard` | `Dashboard`: 2 tenants, one of which may fail every time, 1 visitor, 2 figures, 2 writes, 1 other failure | `TypeOK`, `FiguresPlausible`, `SnapshotsRefresh` | figures are the tenant's own and of the time of the computation; a healthy tenant's snapshot catches up |

Why the bounds are enough to meet the hard cases: each race here is between two parties (two
commands on one key, a login and a reset, two transitions and the cron, a worker and the
cleanup), and every run has both. The third call of `lifecycle_history` lets a call start after two
have collided on a number. One session in `auth_reset` is enough to be stale; two links let a
newer one replace, and be nulled by, a reset on an older one. Two users with one address are
what `login`'s loop over candidates exists for. In `documents` the second crash is what makes BullMQ give a document up, and two
days of grace tell the day of the deletion, a day within and the day after apart. In `watermark` two milliseconds give a job that runs twice two copies, or one, and two jobs twins, or not.
The limits 2 and 1 tell the first hit, the last admitted one and the first refused one apart.
In `search` two reviews can decide against each other on one prediction while each has a reindex to do, and two predictions
can be of one item or of two. In `sharing` two requests are enough to look before either inserts, and to delete
what the other has found; a second tenant is the boundary, and the roles and levels are those that the rules tell
apart (SUPER_ADMIN counts as OWNER, MEDIA_ADMIN may view what ADMIN may, PUBLIC is INTERNAL to every rule). Its
names are symmetric, and it checks safety only. In `dashboard` a count is 0 or 1 and two writes take it there and back,
the first of them between two queries of one computation.

`portal` has two workers at once, always in the same millisecond, and no crash; it checks safety only, and its names are symmetric.
`watermark` has the crash and the liveness, with one worker. The second crash that would make BullMQ give a job up is not in it;
`CopiesServable` and `NamedUntilGone` hold for any number of workers, stamps and crashes. No run has `CHECK_DEADLOCK FALSE`.

### Fairness

- `RateLimit`: time passes (Redis), and a request whose command has answered goes on (Node). A
  failure is never forced and never forbidden.
- `AuthSessions`: the same for every request in flight. Whether anybody logs in, resets or mails
  is never assumed.
- `LifecycleHistory`: the cron runs every day (weak fairness of `CronFind`), and the update of an
  item that is found again and again does not throw every time (strong fairness of
  `CronArchive`). Without the second an item whose update always fails is, rightly, never archived.
- `DocumentRetention`: time passes, requests and workers go on, BullMQ hands out jobs, the cron
  starts every day. As errors are logged and met again the next day, what is strong is that the cron reaches its second pass
  every now and then (strong fairness of `CronGoesOn`) and does not fail every time on the same item
  (`ApplyAction`, `Scrub`).
- `Dashboard`: the cron starts every hour and what has been awaited settles (weak fairness of `Cron` and of
  each visitor's computation). The tenants outside `Healthy` may fail every time; a healthy one's computation and the
  process fail at most `MaxFailures` times, since nothing refreshes a tenant whose every computation throws.
- `WatermarkPipeline`: time passes, BullMQ hands out waiting jobs, workers run, the cleanup runs
  and neither the bucket nor the database fails every time on the same row (strong fairness of `CopyOf` and `RowOf`, whose failures
  are logged and retried ten minutes later).

## Findings

1. *A session from the old password outlives the reset* (`auth_reset_late`). A login that has
   matched the old password creates its session after `deleteMany`. The comment at
   `auth.service.ts:298-300` says a reset shouldn't leave old sessions valid.
   `StaleSessionsDoomed` says what does hold: rows that existed when the password changed are doomed.
2. *Approved text is not searchable* (`search_approved`). `reindex` sets `search_vector` by an UPDATE, before which the
   trigger (`fulltext_search.sql:18-28`) computes it anew without the approved texts; the comment at
   `search.service.ts:62-65` says approved text becomes searchable. `IndexFollowsRow` says what does hold.

Met while modelling, and the reason why the properties checked say no more than they do:

- `setupTwoFactor` replaces the secret of an enabled factor without asking for a code (`auth.service.ts:123-130`), and a pending
  token, which a password alone is worth, may call it. So an unconfirmed secret may be in force (`schema.prisma:66-69` says the flag
  is there to rule that out), and the second factor can be one that the holder of the password has set a moment ago
  (`tenant.middleware.ts:38-41` says there is no way on but finishing 2FA). `AdmittedByOwnSession` therefore
  says that a code was right, not for which of the user's secrets.
- Of two overlapping transitions the second records, and leaves, a status that is no longer the item's
  (`content-items.service.ts:62-68` promises a row with from and to for every change). `ChangesAreExplained` and
  `TransitionHasRevision` speak of the call's own view.
- The cleanup deletes an expired row whatever its worker is doing. A copy that is stored, or named, after the cleanup has read the row
  is left in the bucket, and so is the first copy of a job that runs again after a crash, or whose last update failed
  (`schema.prisma:693-694` promises that the cleanup deletes both). `CopiesGo` speaks of copies that their row names for good.
- `watermarkCacheKey` tells copies apart by `Date.now()` (`storage.service.ts:53-55`), while two workers run at once
  (`watermark.processor.ts:37`): two jobs of one researcher and item may share a copy, and the cleanup of the first takes that of the
  second before it expires. `DoneIsServable` names that exception.
- Two resets that have both found the user by one link both change the password (`auth.service.ts:285-296`). `SpentLinkIsDead`
  speaks of the rows afterwards.
- A request that the middleware has let in goes on when its session is revoked; `AdmittedByOwnSession` is about the moment it is let in.
- A share that is revoked between the two queries of `getSharedItem` still counts. `SeenRightful` speaks of shares that were found.
- `getWatermarkJob` does not ask again whether access was withdrawn (`schema.prisma:663-664` says it is checked on every view and
  download). `UrlsRightful` speaks of leave that was once given.

Two more of the kind show in exceptions that properties had to make. A request that dies between INCR
and EXPIRE (`rate-limit.service.ts:24-27`) leaves a counter without an expiry: only a successful login deletes
it, and none is admitted once the limit is reached; IP and forgot-password counters are never
deleted. `TtlOwed` and `BlockedReopensUnlessOrphaned` say that this is the only way a key stays blocked. And a
document whose `queue.add` fails, or whose process dies before it (`documents.service.ts:66`) or twice while it is
processed, says PENDING or PROCESSING for good; `PendingEnds` says that there is no other way.

## Proofs

TLAPS checks these for all values of the constants that satisfy the modules' assumptions: names that stand for nothing
(`None`, `NoKey`, ...) are none of the things they stand beside (`KeysAssumption`, `UsersAssumption`, `ItemsAssumption`,
`NoneAssumption`, `NamesAssumption`, `SharingAssumption`, `DashboardAssumption`), bounds are naturals
(`BoundsAssumption`, `NumbersAssumption`). TLC evaluates all of them in the runs.

- **RateLimitProofs.** `TypeCorrect` needs `KeyNamed` (a request that is to run a command names its
  key). `LimitHolds`: `admitted[k] <= Limit(k)` is not inductive by itself, as a counter that
  was reset would let more through; `AdmittedInv` adds `admitted[k] <= count[k]`, which INCR, DEL and expiry keep.
  `ExpiryOwed`: `TtlOwed` is inductive with the types. `WindowFixed` needs that an
  EXPIRE in flight on an IP or forgot-password key is for a key that still has no expiry
  (`FirstHitPending`), which is where the exception for e-mail keys comes from: `reset` breaks it.
- **AuthSessionsProofs.** `TypeCorrect` needs that a request past its first step acts for a user
  (`Acting`) and has found what it deletes (`Found`). `EndedByOwner` needs `RowInv` (rows are made in
  order and have a user) and `OwnerInv` (a revocation in flight came with a full token and has found a
  row of its own user; `RowKept` says no row changes hands). `OldSessionsDoomed` is
  inductive over the types: passwords change only by `ResetUpdate`, which leaves its request about to
  delete. `EndedForGood` says what a revocation, or a reset, is worth: as no step revives a row (`RowKept`), no token that names
  an ended session is ever admitted again, whenever it was signed. `AdmissionsBacked` needs `ReqFactor` (a request about to create a session for a role
  with a second factor has proved one of the user's secrets), `TokenFactor` (every full or
  device token is backed by a row of its own user that rests on a proved secret) and `RestInv` (a request at rest carries no bearer);
  that the row is live is what `Admits` asks.
  `SpentLinksDead` needs `LinkInv`: links are numbered as mailed, no two users hold the same one, and a
  reset that has read a link is the only user's who may still hold it.
- **LifecycleHistoryProofs.** `TypeCorrect` needs `HasLatest` (the highest version exists, so that
  `Max` is one) and `Numbered`. `VersionsAreContiguous` needs `NumbersBelowTaken`: a number a call
  has computed has all numbers below it taken, now and later, since revisions are never deleted (together: `Contiguous`).
  `TransitionsHaveRevisions` and `ChangesExplained` rest on `TraceInv`, what each call has already written at each step.
  `RefinesRevisionLog` is the refinement: the log of an item (`LogOf`) is the sequence of its snapshots in version order, as long as
  there are revisions of it. Contiguity is what makes that a mapping: the versions are the interval from 1 (`VersionsInterval`), so
  their number is the highest of them, and each is of one revision (`SnapshotIs`). Then the insertion of a revision appends to one log
  (`LogGrows`) and leaves the others (`LogKept`), and every other step stutters.
- **DocumentRetentionProofs.** The invariant adds to the types that an item without a row has nothing (`Fresh`), that only
  documents whose upload is over are queued and worked on (`Queued`), and that what the running cron has read is still as it
  read it: not deleted in the first pass, deleted for longer than the grace period in the second, and whatever is deleted has a
  snapshot that says DELETE (`CronAt`). `Changes` classifies what a step may do to one item, in eight cases from which the
  rest follows. `TextsComplete` needs that a worker about to say DONE has written the text (`TextInv`); `GraceKept` is
  an action property that `CronAt` implies. Two more theorems are the safety half of `EventuallyErased`, which TLC checks whole:
  `SnapshotsLast` (an item, and the policy it was made under, are never changed), and `ErasedForGood` (an item that is scrubbed
  and whose document has no job running or to run stays empty). The second needs `Busy`: every worker has an active job, and no
  two have the same, so a job that is over has no worker left to write a text.
- **ResearcherPortalProofs.** First the pipeline. `TypeCorrect` needs that what is queued or worked on was made and that each row is
  read once by a cleanup (`InHand`, `ReadOnce`). `CopiesServable`
  rests on `ServableInv`: a row and the running cleanup hold only names that were given to that row (`NamesInv`, over the
  history `named`), and what a worker is about to record is in the bucket or was taken by the cleanup of an expired twin
  (`Stored`, `There`), so a cleanup deletes no copy but those of its own job and its twins. `NamedUntilGone`, the safety half
  of `CopiesGo`, needs that a job which is over has no worker on it (`Busy`). Then the portal.
  Every step of it is a step of the pipeline or none (`PipelineSteps`), so that `PortalRunsPipeline` carries every theorem of the
  pipeline over; `LinksLead` is one that the portal gets that way, with the exception of twins. `LinksRightful` adds that jobs were asked for by researchers
  given leave (`Granted`) and that every copy a job has to do with bears its researcher and item (`OwnCopies`).
- **SearchIndexProofs.** `Steps` sorts the steps by what they write; `IndexFollows` is then one lemma about `Store`. `AnswersMatching`
  needs more: what a search has found has, from then on, the word it was found by or no title (`FoundInv`), since a scrub takes the title with
  the text and no write takes the text alone.
- **SharingProofs.** About the policy alone: a share adds nothing to what the role could do at home
  (`SharingAddsNothing`), and more confidentiality only takes (`SecrecyOnlyTakes`). The invariant says what a request may go on relying
  on between its queries (`RequestOK`): items keep owner and level, rows of `shared_resources` keep item and tenant (`Kept`),
  `Unique` is the unique index. `RevocationEnds` is `Unique` before and after the step.

- **DashboardProofs.** `FiguresScoped` is about the query extension: all that `computeForTenant` asks are read operations on scoped
  models, which reach the rows of the context's tenant only, so the sum over the tenants that a query reaches is one count
  (`SumOfOne`, the fold unrolled over a set of one). `SnapshotsPlausible` then needs that a computation was told, and would now be
  told, counts that its tenant has had since it began (`Answers`).

Every invariant and every action property that a passing run checks is also a theorem. Only model-checked are the liveness properties
(`BlockedReopensUnlessOrphaned`, `StaleSessionsEnd`, `ExpiredIsArchived`, `EventuallyErased`, `PendingEnds`, `RowsGo`, `CopiesGo`, `JobsEnd`,
`SnapshotsRefresh`), because the prover has no ENABLED and so no fairness. The two findings are counterexamples of TLC.

## Not modelled

- `ResearcherAuthService`: `register` writes one row, and the unique index decides the one race; `login` reads.
- Saved searches and merge suggestions: one row each, that nothing else reads to decide anything.
- The listings (`list`, `listIncoming`, `listOutgoing`, `listPending`, ...), which are single reads. `ContentItemsService.list` asks
  the policy for no item, so `SeenRightful` is about `findOne` and `getSharedItem`.
- The paths and audiences of `TenantMiddleware` (functions of a path and a token) and `AsyncLocalStorage`, which is taken to
  carry its context through every `await`.
- Audit records: written and never read back, their failures swallowed on purpose.
- S3, SMTP, bcrypt, JWT signatures, TOTP: taken to work or to throw.
- Tasks, event types, nav sections, characters, brands, relations, the audit-log listing: single-row reads and writes.
- Static pages, seed, migrations, bootstrap: no state the server depends on.

## Plan

Done, in this order: `RateLimit`, `AuthSessions`, `LifecycleHistory` with `RevisionLog`,
`WatermarkPipeline`, `AccessRequests`, `ResearcherPortal`, `DocumentRetention`; `SearchIndex`, `Policy`,
`TenantScoping`, `Sharing`, `Dashboard`; proofs of all of them.

What is left: the safety halves of the other liveness properties (that an archived item stays archived until a call moves it, that
a deleted row of the portal never comes back), and the two clients (staff, researchers) of `TenantMiddleware` in one model if
researchers' sessions ever come to be stored.
