# A TLA+ model of the platform

The platform turns a merchant's prompt into a Shopify app: a generator writes
the code, a deployer puts it into a container with a Postgres schema of its own,
and gateway, worker and API carry webhooks, schedules, files and mail between
Shopify, the platform and that container. What is hard about it is not the code
of one request but what several processes do to the same rows: Postgres,
Redis, Pub/Sub, GCS and Cloud Run take part in most operations, no transaction
spans two of them, and every `await` is a place where another process may run
or this one may die.

This directory holds TLA+ modules of the parts where that matters, the TLC
configurations that check small instances of them and TLAPS proofs of their
main properties for every instance.

- `PROJECT.json` lists the components of the repository, the runs, the source
  lines behind every definition, the hazards and the theorems.
- Paths below are relative to `src/platform-back` unless they start with `src/`.

## 1. Inventory

| component | state it keeps | operations | interacts with |
|---|---|---|---|
| Cron queue and runner (`templates/handler/src/lib/cron-runner.ts`, `cron-enqueue.ts`, baseline migration) | table `cron_queue`; per process `stopping`, `inFlight`, listener, poll timer | insert by pg_cron and `enqueueJob`; boot, notify, poll, claim, run, settle, retry, sweep, stop | pg_cron (INSERT, NOTIFY), the app's job functions, other instances through the table |
| Webhook gateway (`apps/webhook-gateway`) | rows of `webhook_invocation_logs`, `usage_records` | resolve, verify, log, check quota, count, enqueue | Shopify (retries on 5xx), Redis queue |
| Webhook worker (`apps/worker`) | BullMQ job and its lock | take a job, mark running, post, log the result, settle | queue, log, handler container |
| Webhook route of the handler (`templates/handler/src/routes/webhook.ts`, `server.ts`) | table `processed_webhooks` | gate, dispatch, answer, time out | worker, app code |
| Usage counters (`packages/db/src/usage.ts`) | `usage_records` per tenant and period | period start, check, increment | gateway, mail, files, generation gate |
| Generation lifecycle (`apps/api/src/routes/generation.ts`, `generations.ts`, `pubsub/`, `packages/db/src/generations.ts`, `lib/bundle-storage.ts`) | table `generations`, bundle objects per job and per app | start, revise, cancel, complete, approve, deploy, stream progress | generator through Pub/Sub, deployer, dashboard |
| Generator contract (`src/platform-ai/contract`) | none durable | pull a request, acknowledge, run the crew, publish progress and completion | Pub/Sub |
| Generator agents (`src/platform-ai/cli`, `subagents`) | `state.json` of a session, the scaffold on disk | analyse, design, review, revise, code, resume | language models, `tsc` |
| Dashboard (`src/platform-front`) | React state of the page, `stateRef`, an EventSource, query cache | start, stop, stream, reconnect, poll, hydrate, navigate | API instances, events |
| Deployer (`packages/deployer`) | in-memory deploy jobs; `deployed_functions`, `app_versions`, `webhook_subscriptions`, service accounts, Cloud Run services, pg_cron jobs | nine-step deploy; teardown, reactivation, deletion, re-registration | GCP, Shopify, platform database, app schema |
| App status (`apps/api/src/routes/tenants.ts`) | `apps.status` | activate (seat gate), deactivate, delete | deployer, fire and forget |
| Theme injection (`apps/api/src/routes/tenants.ts`, `lib/theme-injector.ts`) | the theme id in `apps`; a theme at Shopify | copy the active theme, write and verify blocks, record, delete | Shopify's theme API and its background copy job |
| Files (`apps/api/src/routes/services/files.ts`, `lib/files-orphan-gc.ts`, `packages/db/src/files.ts`) | `files` rows, GCS objects | upload, reserve, finalize, cancel, orphan sweep | handler SDK, GCS |
| Billing (`apps/api/src/routes/billing.ts`) | `tenants` plan columns, `billing_events` | subscribe, callback, cancel, status webhook | Shopify billing |
| Email (`packages/email`, `routes/services/email.ts`, `routes/webhook/resend.ts`) | `email_deliveries`, suppressions | send, batch, status events, unsubscribe | Resend |
| Tenants and OAuth (`apps/api/src/routes/oauth.ts`, `packages/db/src/tenants.ts`) | `tenants` rows, Secret Manager | install, reinstall, read of the secrets a row names | Shopify, handlers |
| Shopify client of the handler (`templates/handler/src/lib/shopify.ts`) | cached token of a container | call, refresh, retry, back off, bulk query | `/services/shopify`, Shopify |
| Workflow helper (`templates/handler/src/lib/workflow.ts`) | workflow tables of the app | claim, attempt, complete, fail, sweep | app code |
| Identity of handlers at `/services` (`apps/api/src/lib/sa-to-app.ts`, `packages/deployer/src/sa-provisioner.ts`) | `apps.handler_sa_email`, service accounts, a cache in each API process | give out an account, bind it, resolve a caller | deploys, deletions, every `/services` route |
| Proxies to the handler (`apps/api/src/routes/admin.ts`, `widget.ts`, `plugins/auth.ts`, `lib/forward.ts`, `lib/id-token.ts`; `templates/handler/src/middleware/verify-platform.ts`) | per process one ID-token client per audience | verify, look up, mint a token, forward, time out | browsers, Cloud Run, handler |
| Page in Shopify's admin (`src/platform-shopify-admin/src/components`) | React state, refs and the DOM of one page, Blob URLs | list the apps, ask for the shop, fetch, import, mount and unmount a module | API, module of the app |
| Value helpers, model adapter, catalogs, prompts | none | – | – |

### What is hard in each, and what makes it correct

- **Cron queue.** Several drains per instance, several instances, crashes in the
  middle of a batch, leases that run out under a live runner, SQL calls that
  reject after taking effect. Correct: a claimed row is worked on by one drain;
  in-flight deduplication; a bounded number of attempts; `done` is final; every
  row is settled in the end.
- **Webhook path.** Shopify repeats, BullMQ retries and re-runs stalled jobs, a
  504 leaves the handler running, three stores change one after the other.
  Correct: the app's code runs at most once per delivery, only for counted
  deliveries; the quota is exceeded by no more than the concurrency; log, queue
  and handler agree; every job settles; a delivery told `duplicate` was not lost.
- **Generation.** The request is acknowledged before it runs, completion is
  delivered at least once and unordered, cancel races completion, bundles are
  stored per app at completion and not at approval, progress reaches one API
  instance, the page keeps two copies of its state and does not say
  whose answers its calls bring. Correct: a row names only a stored bundle, a deploy is
  of a success that names one; the surfaces an archetype promises are served; the page
  shows a job as completed only if that job was; every generation ends.
- **Agents.** Bounded loops around answers nobody controls, any number of tool
  calls in a turn, a session killed and resumed anywhere. Correct: one revision
  per plan; a run reported clean type checks.
- **Deployer and app status.** Nine steps over five systems with no undo;
  teardown and reactivation run detached from the request that started them and
  may overlap. Correct: an operation that ran undisturbed leaves what it was
  asked for, whatever failed or overlapped before it; one that failed early
  leaves the routing alone.
- **Theme injection.** Shopify's copy job overwrites what was just written.
  Correct: the theme on record shows the widget.
- **Files.** Reservation, upload, finalize, cancel and sweep of one object.
  Correct: an active row has its object; storage stays within the plan up to
  concurrency; the sweep finishes.
- **Billing, email, workflow, install.** Events of another system arrive late,
  twice or for something already replaced; read, remote call and write are three
  steps. Correct: a plan that Shopify stopped goes; a bounced recipient is suppressed;
  mails overrun their limit by no more than the concurrency; a row runs twice
  only after a sweep; a tenant's secrets hold its own shop's token.
- **Identity of handlers.** Numbers of accounts are given out again after a deletion,
  each process caches an account's app, the query's answer may be late. Correct: a
  call is served as an app only if the account was that active app's within the TTL.
- **Proxies.** Verification, lookup, minting and forwarding are separate awaits, the
  app may be paused or torn down between them, and the waiters share one promise per
  service. Correct: every request is answered, whatever becomes of the app, of the
  token's client and of the handler.
- **Page in the admin.** The effect that loads a module runs two or three times, and
  loads that were cancelled go on. Correct: the page shows the module of the last run.
- **Shopify client.** One token cache under concurrent calls, nested retry loops,
  one bulk operation per shop. Correct: 401 reaches the app only if the stored
  token is bad; a bulk query returns its own rows.

The hazards behind these sentences are in `PROJECT.json`, each at its line and
with the properties that watch it.

## 2. Modules

| module | what it is | proved in |
|---|---|---|
| `CronRunner` | the cron queue, its producers and the runners of all instances | `CronRunnerProofs` |
| `JobQueue` | abstract: what a queue in one table promises of its jobs | `CronRunnerProofs` |
| `WebhookPipeline` | a delivery through gateway, queue, worker and handler | `WebhookPipelineProofs` |
| `DeliveryLedger` | abstract: what log, queue and handler promise of a delivery | `WebhookPipelineProofs` |
| `FileStorage` | uploads, reservations, finalize, cancel and the orphan GC over rows and objects | `PlatformProofs` |
| `GenerationLedger` | abstract: what the generations table promises | `GenerationProofs` |
| `GenerationPipeline` | API, Pub/Sub, generator contract, subscriber, bucket and deploys of an app's generations | `GenerationProofs` |
| `GenerationClient` | the dashboard's page and the API's event streams on top of the pipeline | `GenerationProofs` |
| `GeneratorAgents` | the command line of the agents with its state file | `GenerationProofs` |
| `AppLifecycle` | deploy, teardown, reactivation, deletion and re-registration of one app | `AppProofs` |
| `ThemeInjection` | the test theme against Shopify's copy job | `AppProofs` |
| `Install` | OAuth callbacks of several shops, secrets and tenant rows | `TenantProofs` |
| `Billing` | plan and subscription | `TenantProofs` |
| `UsagePeriod` | the billing period a use is counted in | `SeatsProofs` |
| `Seats` | the active apps of a tenant against its plan | `SeatsProofs` |
| `EmailService` | sends, Resend's webhooks, suppressions | `TenantProofs` |
| `ShopifyClient` | token cache, retries and bulk queries of a container | `HandlerProofs` |
| `Workflow` | rows claimed, attempted, settled and swept | `HandlerProofs` |
| `ServiceIdentity` | the accounts handlers run as and the app an API process takes a caller for | `PlatformProofs` |
| `HandlerEdge` | browsers' requests on their way to a handler | `PlatformProofs` |
| `AdminShell` | the embedded page and the module it mounts | `PlatformProofs` |
| `MCCronRunner`, `MCWebhookPipeline`, `MCFileStorage`, `MCAppLifecycle` | instances of one component | |
| `MCServices`, `MCQuotas`, `MCGeneration`, `MCPlatform`, `MCLive` | instances of several components, see section 3 | |

Components that interact are one module, or one extends the other: gateway,
queue, worker and handler; API, bus, generator contract, subscriber and deploys, with
the page on top; deployer and routing; mails and their webhooks. What is left
between the modules is a value one reads and no property of the other speaks of
(the handler's code calls the files service, a webhook may enqueue a cron row, a
plan sets a limit).

### CronRunner

State: the columns of `cron_queue` that decide something (`status`, `attempts`;
`next_visible_at` and `started_at` reduced to the two comparisons the SQL makes
with them, `visible` and `expired`); per instance its boot phase, `stopping`,
whether it listens and whether a NOTIFY is on its way; per drain (one call of
`drainOnce`) where it is, the row it runs, the rest of its batch and the
`attempts` value its claim returned. One SQL statement or one job body is one
step. Everything between two awaits may interleave.

| action | code |
|---|---|
| `Enqueue`, `CronTick` | `enqueueJob`; the command `scheduleAppCron` registers |
| `Start`, `Notified`, `Poll` | boot sequence, LISTEN callback, safety poll: the three ways a drain begins |
| `Sweep`, `Claim`, `NextRow`, `Body`, `Settle`, `Retry`, `GiveUp` | `sweepStale`, `claimBatch`, the loop, `runJob` and its three updates |
| `Stop`, `Exit`, `Crash` | `stop`, the `process.exit` after it, a process that disappears |
| `BackoffEnds`, `LeaseEnds`, `LeaseOverruns` | time passing a row's `next_visible_at` or its lease |

Things the model keeps because the code has them: `awaken` does not look for a
drain already running; the boot drain's rejection ends the boot; `runJob`'s
catch also catches a failed `done` update; a rejected call may have taken
effect; updates name the row by id alone; the dedup index can reject a requeue.
`overran` and `sweeps` are history variables the properties speak of, `retried`
is one the proof of `ClaimsBounded` needs.

`JobQueue` is the queue without instances, phases, clocks and batches: jobs are added
while their key is free, taken while pending, finished, put back or reclaimed, and
workers hold sets of jobs. Two flags say how far its promise is weakened: `late`, a lease
ran out under a worker, and `lost`, a worker did not hear of its own write. As long as
neither is set, a job is taken and reclaimed only while nobody holds it, written only
while it is `processing`, put back only below `MaxTries` tries and failed only at
`MaxTries` or if nobody knows it; with either set, it still is taken only while pending,
written only by one who holds it and put back only while its key is free. The mapping
takes `hold` from the batch and the row of each drain, `late` from `overran`, `lost` from
a rejected SQL call.

### WebhookPipeline

State: the log row, the usage counter, the requests of the gateway, the BullMQ
job with `attemptsMade`, its stall count and the holder of its lock, the worker's
place in `processWebhookJob`, the calls in progress in the handler containers
and `processed_webhooks`. Payloads, topics and signatures do not matter to the
properties; a delivery is its id.

| action | code |
|---|---|
| `Deliver`, `CheckQuota`, `Count`, `EnqueueWebhook`, `RequestFails` | `webhookHandler`, one action per await |
| `Take`, `Complete`, `Fail`, `LockRunsOut`, `Stalled` | BullMQ as the options in `webhook-queue.ts` and `worker.ts` use it (external) |
| `MarkRunning`, `Post`, `PostFails`, `LogSuccess`, `LogFailed`, `WorkerCrash` | `processWebhookJob`, `invokeHandler` |
| `Gate`, `Body`, `Timeout`, `ContainerCrash` | the webhook route under `server.ts` |
| `PeriodBegins` | a period with a usage record of its own |

An answer after the 504 throws in the `try`, then in the `catch`; Express 4 does
not handle the rejection and the process ends: `Respond` of a late call is
`Crash` of its container, which ends the other calls of it too.

`DeliveryLedger` is what three stores without a common transaction promise together: a
delivery is recorded, charged, queued and let through to the app, each at most once and
in this order; the app's code starts at most once, as the delivery is let through (and
may not start at all: the gate's row is written first); the log says `success` and the
queue "completed" only of what was let through; the queue's verdict is final and the
log's status is not. The mapping reads the log, the counted executions, the job,
`processed_webhooks` and the starts of the app's code.

### FileStorage

State: the row (`row`, `size`), the GCS object by its size, and whether two hours
have passed (`old`: the row is stale and its one-hour URL long expired); where the
request that creates a file is, the tenant's advisory lock and whether the signed
PUT URL was handed out; per finalize or cancel call its place, its file and the size
it read; per sweep its place, the rest of its batch and the row of the callback, and
which sweep's transaction locks a row; the DELETE statements at the server.
One tenant, because lock, sum and limit are the tenant's.

| action | code |
|---|---|
| `Begin` | the pre-check of `uploadHandler` and `createUploadUrlHandler` |
| `Store`, `LockTenant`, `Commit`, `CommitFails`, `Undo`, `Sign` | `uploadHandler` with `insertActiveFileAtomic`; the conditional INSERT decides in `LockTenant` and takes effect in `Commit` |
| `Reserve`, `Mint`, `Rollback` | `createUploadUrlHandler` |
| `CreateFails`, `CallFails` | a request that ends at some await: crash, or a rejection after which the handler changes nothing |
| `Put` | a handler's PUT to the signed URL, at any time before it expires, once or again |
| `ReadForFinalize`, `Head`, `Flip`, `Finalized` | `finalizeUploadHandler`; `Flip` is the transaction of `finalizeFile` |
| `ReadForCancel`, `Erase`, `Remove`, `Answer` | `cancelUploadHandler` |
| `RunDelete` | Postgres executes `DELETE FROM files WHERE id = ...`, sent by cancel, sweep or rollback; it outlives its sender |
| `Claim`, `EraseRow`, `RemoveRow`, `RowRemoved`, `RemoveFails`, `Finish` | `sweepStalePendingFiles` with the callback of `runSweep` |
| `LocksLost`, `SweepCrashes` | the transaction's connection breaks under a loop that goes on; the replica ends |
| `Age` | time |

What the model keeps because the code has it: `deleteFileRow` does not ask for the
status and runs on another connection than the sweep's transaction; cancel swallows a
failed object delete, the sweep does not; a failed insert may have committed;
finalize overwrites the size each time. What it leaves out: the sweep's limit of 200
rows and their order (a batch takes every stale row; the loop takes them in any
order), the advisory lock of `finalizeFile` (one UPDATE is atomic without it), and
that two DELETEs of one row are two statements (`deletes` is a set: the second would
find no row). A handler is assumed to finalize or cancel only files it was told of
(`Known`), a fresh UUID nobody else has. `acked`, `cancelled` and `claimed` are history.

### GenerationPipeline, GenerationLedger

State: the `generations` row of each job (`status`, `error`, whether
`bundle_gcs_path` is set, `deployed`, `version`); the three topics (requests,
progress events, completions with the place of each message in the subscriber);
running generations; the bucket (`stored`: `bundle.json` per job, `served`: per
surface of the app the job whose module lies under the app's path); the app's
archetype; deploy requests in progress.

| action | code |
|---|---|
| `Accept`, `createPendingGeneration`, `Publish`, `PublishFails`, `Refuse` | `POST /generation` and `/revise`, one action per await |
| `Cancel`, `CancelRow` | the cancel route; `CancelRow` is its conditional UPDATE |
| `Deliver`, `Report`, `Finish`, `RunLost` | the generator's contract: acknowledge, then run; publish progress and verdict, each with or without a bundle (`FeatureBundleMessageSchema` has it optional); a killed container |
| `Take`, `Store`, `Upload`, `updateAppArchetype`, `upsertGeneration`, `Ack`, `Redeliver` | the completed-subscriber, in its order and by the bundle, not the status (`subscriber.ts:57`), with nack, crash and repeated delivery |
| `Check`, `startDeploy`, `DeployRefused`, `Mark` | approve and deploy: read and guard, start, refusal, bookkeeping whose failure is swallowed |
| `Pull` | a progress event leaves the subscription |

`GenerationLedger` says what dashboard and deployer rely on: a job is requested
once, a row names only a kept bundle, a deploy is begun only for a success that names
its bundle, only what was begun is marked, and bundle and mark stay. A success without
a bundle is possible: its row names none, approve answers 409 and deploy 500
(`generations.ts:103-109`). So is a failure with one, which neither takes. The code
breaks the intuitive "a cancelled job stays cancelled": the generator is not told
and its verdict replaces the cancellation, so the ledger calls a cancellation
provisional. The mapping reads `verdict` from status and error, `kept` from the
bucket, `named` from `bundle_gcs_path`, `deploying` from the deploy requests under way
and `deployed` from either mark. What makes it hold is `Store` before
`upsertGeneration`, the status guard of the cancel's UPDATE and the guards of a deploy,
which the mutants drop.

### GenerationClient

Extends the pipeline with one open page: `ui` (what React renders), `ref`
(`stateRef`), the EventSource per job and the instance it is on, polls and
reconnections left, the start and cancel requests awaited, the generation card, the
query of the latest session and whether the page was hydrated from it. `Begin`,
`Started`, `StartRejected`, `Stop`, `Cancelled`, `Receive`, `Drop`, `PollAnswered`,
`PollUnauthorized`, `PollBails`, `PollErrs` are the hook; `Navigate`, `Refetch`,
`Hydrate` the page; `Pull` hands an event to every stream of one instance. `RunEnds` is
the run's terminal event. `Navigate` is the layout effect of `NewAppPage.tsx:192-204`: the
component stays mounted and only its state is reset, so requests, waiting polls and the
streams they reopen go on; a real unmount lets them go on too, with no page to show it.
`explained` and `astray` are history: which jobs a run explained, and that the page
turned to something else (`Stop`, `Navigate`, `Hydrate`) while a call of its own was out.

### GeneratorAgents

State: `state.json`, what the invocation read of it (`loaded`), the stage, turns used and the
tool calls pending in a turn, the current plan and review, the scaffold by what
`done()` checks of it, and the outcome of the final check. `Start` decides the
first stage from the file; `SaveIntent`, `Design`, `DesignFails`, `Review`,
`Revise`, `Dispatch`, `EndTurn` are the loops; `Die` and `Tear` end an invocation
between two steps or in the middle of rewriting the file.

### AppLifecycle

An operation is at a step (`op[o].at`): `FirstStep` and `Then` are the sequence of
steps of each kind, read off `runDeploy`, `teardownApp`, `reactivateApp`,
`permanentDeleteApp` and `reregisterTenantWebhooks`. Each step is an action named after
the function it calls, which ends in `Done` (the next step), `Abort` (the operation is
over) or `SkipTo` (a failure the surrounding catch swallows); `StepFails` is a step that
fails without effect, `createRefused` the one that leaves something behind. Of the reads
a teardown or deletion begins with, the app's and the tenant's end it when they reject;
only the listing of the subscriptions is inside the catch (`subscriptionsUnread`). A
deletion frees the account it read then, not the one current at that step. State: the app's
row, `deployed_functions`,
`webhook_subscriptions`, Shopify's own subscriptions with their ids, service
accounts, the pg_cron job, the schema and what runs under the function URL.

Kept because the code has it: `deactivateAppInfrastructure` updates a column that
does not exist and always rolls back, and teardown swallows that; a redeploy
always makes a new service account; a deploy without topics leaves Shopify's old
subscriptions; `buildCloudBuild` throws, so only a local process gets past
`build_image`, and a cloud instance starts from the deployed app of
`lifecycle.test.ts:66-97`; local deploys skip `provision_sa` and `grant_invoker`.
`alone` and `faulty` are history: the properties speak of operations no other
overlapped.

### ThemeInjection

State: copies at Shopify, which blocks each holds, how many more writes the copy
job makes to each template, the theme on record, the progress of each request.
`duplicateTheme`, `FirstRead`, `SecondRead`, `Write`, `ReadBack`, `Verify`,
`setThemeInjection` are the injection (`AwaitCopy` is the wait for the copy),
`BeginRemoval`, `DeleteTheme`, `clearThemeInjection` the removal, `SyncWrites`
Shopify.

### Install, Billing, UsagePeriod, Seats, EmailService, ShopifyClient, Workflow

- `Install`: callbacks go through `exchangeCodeForToken`, `persistAccessToken`,
  `provisionStorefrontToken`, `getTenantByShopDomain`, and then update or create.
  Secrets are versions under an id derived from the domain; the row is refused if
  another shop's slug is the same. `Reauthorize` invalidates the older tokens.
- `Billing`: `BeginBilling`, `createSubscription`, `cancelSubscription`,
  `updateTenantBilling`, `Callback`, `Webhook`, `BillingRequestFails`; Shopify is `Approve` and
  `ShopifyChanges`. `Callback` has no guard, as the route has none: whoever loads it with a
  known plan gives the tenant that plan. `billed` is the mode: with
  `SHOPIFY_BILLING_MODE=disabled`, the default, subscribing applies the plan directly
  (kind `override`). `stopped` is history: Shopify stopped a paid plan and the API gave
  none since.
- `UsagePeriod`: `getBillingPeriodStart` with JavaScript's carry of days past the
  end of a month, walked day by day; the calendar is the table of days before each month.
- `Seats`: `PATCH /tenants/:tenantId/apps/:appId` as `BeginPatch`, `ReadPlan`,
  `canActivateApp`, `updateAppStatus`, one await each, over several apps, beside
  `createApp`, `hardDeleteApp` and changes of the plan. `granted`, the highest limit
  the tenant had, is history.
- `EmailService`: `sendEmail` with one action per await (`isEmailSuppressed`,
  `checkUsageQuota`, `insertEmailDelivery`, `Submit`, `recordSent`,
  `incrementUsage`, `recordFailed`), the webhook in its two statements, the
  unsubscribe page. Resend repeats a webhook that was not answered 200.
- `ShopifyClient`: one `graphql` or `bulkQuery` call per operation slot, the
  container's cache, waits as units against the budgets, Shopify's single bulk
  operation (others may start one). An operation's `hint` is the token of the header its
  helper was made with, which every later operation of that helper starts with
  (`shopify.ts:143-148`): any token that was ever on file, or none. `aged` is history: while the
  call was under way, the platform did not have the token Shopify accepts.
- `Workflow`: `claim`, `Callback`, `Terminate`, `sweepStale`, `KillAttempt`, `Age`.
  `complete` and `fail` are unconditional, as in `workflow.ts:182`.

### ServiceIdentity

State: the status of each app, the account number in its row, the accounts that exist,
the number a deploy has picked and not yet written, each API process's cache, the
requests at `/services`, and the time. Apps of one name prefix share the numbers. The
model is the platform in the cloud; locally no account is written.

| action | code |
|---|---|
| `provisionHandlerSa`, `writeHandlerSaEmail`, `ProvisioningFails` | the deployer's step: pick a number, create the account, bind it; the unique column refuses the second of two |
| `SetStanding`, `DeleteRow` | `updateAppHandler`, `hardDeleteApp`: the account outlives the row |
| `callPlatformService`, `RejectToken` | a container's call, as any account that exists |
| `Hit`, `Miss`, `ReadBinding`, `Resolve`, `Forbid` | `resolveAppFromSaEmail`: cache, query at the database, its answer; an entry's age counts from the look into the cache |
| `Restart`, `Tick` | a process ends; time |

`bound`, the last instant an account was an active app's, is history.

### HandlerEdge

State: which apps are active, deployed and answering, the ID-token client of each
service, and each request with the shop it stands for and its timer.

| action | code |
|---|---|
| `SwitchStatus`, `StartService`, `recordDeploy`, `StopService`, `deactivateInfrastructure` | what `AppLifecycle` does to the app, reduced to what a request can tell |
| `Arrive`, `Lookup` | the credential (session token, App Proxy signature, platform JWT) and `resolveAppHandler` |
| `getClient`, `ClientResolves`, `ClientRejects`, `MintFails` | `id-token.ts`: one promise per audience, dropped when it fails, for all who wait |
| `forwardToHandler`, `FetchFails`, `TimesOut`, `HandlerAnswers`, `BodyArrives` | `forward.ts`: the timer covers the head of the answer; the handler verifies the token again |

A timer that is on may fire at any time; the module has no clock.

### AdminShell

State: what `AdminShell` renders, the runs of `ModuleFrame`'s effect (`loads`, each
with the bridge's metadata and its `cancelled` flag), the two refs, the Blob URLs not
revoked and the modules in the container. `AppsFail`, `AppsArrive`, `ShopFails`,
`ShopArrives` are the shell's requests; `FirstEffect` and `EffectAgain` the effect at
mount and its next run; `FetchPanelFails`, `FetchPanel`, `ImportFails`, `ImportedLate`,
`Mount`, `MountThrows` the awaits of a load, late or not.

## 3. Runs

Where a run holds several components, they share no state and each behaviour runs
the one its constant variable `component` names: the state space is the sum of the
components', an invariant guarded by `component` is the component's own, and
nothing is lost, as no step of one could enable or disable a step of another.

| run | instance | question and answer |
|---|---|---|
| `services` | cron: 2 instances, 2 rows of one key, batch 2, 2 attempts, 1 disruption, 1 SQL error; lifecycle: 3 operations, 2 at a time, 1 topic, 3 versions, 1 fault; installs: 2 shops with one slug, 2 callbacks, 2 authorizations, 1 fault; Shopify client: a plain call and a bulk query, 2 tokens, 1 trouble; workflow: 2 rows, 3 attempts, 1 fault; themes: 2 injections of two sections, a removal, 2 writes of the copy job | `DedupUnique`, `ExclusiveDispatch`, `ClaimsBounded`, `DoneIsFinal`, `ImplementsQueue` (refinement); `DeployedAsAsked`, `FailureKeepsRouting`, `ReactivationRestores`, `DeletionLeavesNothing`; `TokenIsOwn`; `UnauthorizedIsReal`, `RowsAreOwn`; `OverlapWasSwept`; `RecordedShowsBlocks`: hold, 1.0 million states |
| `quotas` | webhooks: 3 deliveries (one of an unknown topic), 2 requests, limit 1, 1 new period; email: 3 mails to one address, 2 senders, limit 1, 1 fault; billing: 1 paid plan, 2 subscriptions, 1 call at a time, billing on and disabled, 1 fault; periods: anchors 1, 2, 15, 28, 31, 400 days; seats: 3 apps, 2 calls, plans of 1 and 2 | `QuotaOvershoot`, `OverrunBounded`, `BounceSuppresses`, `StoppedLosesPlan`, `CountedInItsCycle`, `SeatsOvershoot` hold, 1.46 million states |
| `generation` | pipeline: 2 jobs, 1 fault, 1 deploy request, any verdict with or without bundle (job 2: success with, failure without); page: 2 jobs, 2 API instances, 2 poll attempts, 1 reconnection, 1 lost run; agents: 3 sessions, 2 turns each, a kill | `ArchetypeIsServed`, `ImplementsLedger` (refinement), `NoFalseSuccess`, `PlanRevisedOnce`, `CleanBuilds` hold, 1.24 million states |
| `live` | cron: 2 drains, a row of an unknown job and a plain one, 2 disruptions; webhook: 1 delivery, 2 workers, 3 calls in 2 containers, 2 faults; generation: 1 job, 2 faults; edge: 1 app, 2 shops, 2 requests | `RowsSettle` when no SQL call rejects, `JobsSettle`, `GenerationsSettle`, `RequestsSettle` hold, 136,274 states |
| `webhook_safety` | 2 deliveries, requests, workers and calls in one container, limit 1, 2 attempts, 1 stall, 1 fault, 1 new period | `ImplementsDelivery` (refinement), `AtMostOnce`, `RunsAreCounted`, `CompletedIsLogged`, `SuccessIsProcessed` hold, 922,708 states |
| `platform` | files: 2 inline uploads of size 2, a resumable one of size 1, limit 3, 2 calls, 2 sweeps, 2 faults; identity: 2 apps, 1 account, 2 calls, 1 process, TTL 1, clock to 2, 2 changes; page: 2 apps | `InlineWithinQuota`, `InlineCompensated`, `AckedIsStored`, `SweptLeavesNothing`; `ServedAsBound`; `ShowsLatest`: hold, 651,949 states |
| `cron_double_dispatch` | 2 instances, leases overrun only for rows *queued* behind a running one | **violated**: `NoDoubleDispatch`, which `cron-runner.ts:8-10` promises |
| `cron_boot` | 1 instance, 1 SQL error | **violated**: `PendingIsClaimed`, which `cron-runner.ts:11-13` promises |
| `webhook_lost` | 2 deliveries, 1 fault | **violated**: `DuplicateWasProcessed`, which `packages/db/src/webhooks.ts:142-143` says |
| `files_gc` | 1 reservation, 1 call, 1 sweep, no fault | **violated**: `StaleReservationsFreed`, the "safety net" of `files-orphan-gc.ts:11` |
| `deploy_fk` | 2 operations, one at a time, no fault | **violated**: `HealthyDeploySucceeds`, which `routes/generations.ts:138-141` takes for granted |
| `billing_sync` | 1 paid plan, 2 subscriptions, no fault | **violated**: `PayerIsInSync`, the "in sync with Shopify's billing state" of `billing.ts:266-268` |

The type invariants (`TypeOK`, `...TypeOK`) are in no run's list: they are theorems for
every module with a proof module, the inductive invariants having been checked with TLC
before they were proved.

Bounds. The constants named `Max...Faults`, `MaxDisruptions`, `MaxDbErrors`,
`MaxLosses`, `MaxTroubles`, `MaxPeriods`, `MaxTokens`, `MaxBulk`, `MaxReports`,
`MaxCalls`, `MaxRunning`, `MaxSessions`, `MaxToolCalls`, `MaxAuthorizations`,
`MaxSyncWrites`, `MaxInstant`, `MaxAccounts`, `MaxChanges`, `MaxTime` and `LastDay` are
the only bounds on behaviour; every other limit is the code's. Two rows of one key and two
drains are the least with which a row can be
taken over and its key reused; batch 2 lets a row wait in a batch; two attempts make
both branches of a retry happen. Three operations on an app are one that leaves it
broken and two that overlap after it. Two jobs let an older completion arrive after a
newer one and an answer meant for one job find the page at the next. The page's part keeps the
two jobs one after the other: it is not deployed from, the servers' steps it cannot see run
at once, a run is lost only before there is a second job, a page that went astray starts
no second one (the property says nothing of it), and one instance holds the streams while
events may come to either. Two tokens are one reinstall; two bulk operations are the call's own and
somebody else's. Two subscriptions are the one paid and another. Two sections in one
template and one in another let a section be
written over together with its neighbour. Two copy-job writes pass between two equal
reads. 400 days from a first of January
pass every month's end and the end of the year. One account is enough to be given out
twice, a clock of twice the TTL lets an entry expire while a query is under way, and
three loads are all the page can start. The real limits (3 attempts, batches of 10, 5 queue
attempts,
12 pairs of reads) repeat these cases. In `platform` two inline uploads do not fit the
limit together, so one of them loses the race after its pre-check; the second fault
is what lets a sweep get past its own lock after the first. Faults can strike at any
step, and the theorems below drop all bounds.
`CHECK_DEADLOCK` is off because the systems may really stop: rows, deliveries, jobs
and requests are finite and all of them may be settled; a sweep that blocks itself
stops too.

Symmetry (`webhook_safety`, `quotas`, `platform`) permutes deliveries of
known topics, requests, workers and calls where all calls share one container, files
of one kind and size, and sweeps; it is used for invariants and step
properties (the refinement in `webhook_safety` is one), never with fairness.

Fairness. A drain in progress, a sweep, BullMQ's hand-out and stall check and the
worker's next statement are events a live Node or Redis process does run
(`WF`). The poll is a timer of a booted instance, the request timeout a timer of a
request; so is the 30 s abort of a forward. A client of the Google library settles (its own
timeouts), and a body ends at the latest when Cloud Run ends the request (`timeoutSec` of
`cloud-run-ops.ts:42,62`). Cloud Run replaces an instance (`Start`) and a process that got SIGTERM
exits. Clocks pass deadlines (`BackoffEnds`, `LeaseEnds`). The API publishes what it
accepted, Pub/Sub delivers, a generator run ends (its loops have turn limits and Cloud
Run a timeout) and the subscriber goes on with a message it holds or is handed again.
Not assumed: that Shopify delivers, that a producer inserts, that a lease overruns,
that anything crashes, and, in the webhook path and behind a forward, that the app's code
returns or answers. In the
cron path a job body does return or throw: the code has no timeout for it, and without
that the row it blocks can hold its drain for ever. `GenerationsSettle` is checked
without lost publishes and lost runs (`MaxLosses` 0): a request is acknowledged before
it runs, and with one lost run the row stays pending for good, as nothing in the code
times it out. In the files service started requests and sweeps go on, the sweeper's
timer fires, and Postgres runs a statement no lock blocks; handlers owe nothing.
`files_gc` fails under all of that: the trace ends in a state with no fair step left.

## 4. Proofs

TLC checks the instances above; TLAPS proves the properties for every value of the
constants that satisfies the assumption of their module (`ConstantsOK`, `SeatsConstantsOK`
or `...Assumption`: finite sets where a cardinality is taken, limits that are naturals,
null values that are not ids, and the relations the code has between its tables; nothing
else). Every safety property that a run finds to hold is a theorem, and so is every
refinement. Below each property is the inductive
invariant it needs; the proofs have a lemma for its parts and in that a case for each action.

`CronRunnerProofs`

- `TypeCorrect`: `Spec => []TypeOK`.
- `DispatchIsExclusive`: `Spec => []ExclusiveDispatch`. Exclusiveness is not inductive: the
  sweeper must be kept from returning a held row. `DispatchInv` adds `DrainShape`
  (where a drain is tells which rows it can hold) and, while no lease has overrun,
  `HeldIsLocked` (a held row is `processing` and not expired) and `Disjoint`.
- `DedupHolds`: `Spec => []DedupUnique`: whatever makes a row active checks the
  index, or the row was active before.
- `ClaimsAreBounded`: `Spec => []ClaimsBounded`. A count is hard to bound directly when
  crashes, sweeps and stale runners all move it. `CountInv` gives every past claim of
  a row an owner: an attempt number that ended in a requeue (below `MaxAttempts`, and
  no number twice), a sweep, or the claim now in progress.
- `DoneStaysDone`: `Spec => DoneIsFinal`, an action property, from `FinalInv`: while no
  lease has overrun and no call has rejected, whoever updates a row holds it, and a
  held row is not `done`.
- `RunnerImplementsQueue`: `Spec => ImplementsQueue`, the refinement. `QueueInv` adds to
  `FinalInv` that the attempt number a drain read from its claim is still the table's
  while no lease has overrun (`NumberIsKept`), which is what makes "fewer than
  `MAX_ATTEMPTS` tries" true of the row and not only of the drain, and that the branch a
  row has taken tells whether its job is in the map (`BodyIsKnown`). There is one lemma for
  each kind of step of the queue (`QueueAdds`, `QueueTakes`, `QueueFinishes`,
  `QueueRetries`, `QueueReclaims`, `QueueDrops`); each action of the runner is then shown to
  be one of these, or to leave the queue alone.

`WebhookPipelineProofs`

- `TypeCorrect`; its base invariant `Base` adds `Slots` (the shape of requests and
  calls in progress) and `Locks` (an owner's job is the one it works on).
- `HandlerRunsAtMostOnce`, `RunsCounted` from `OnceInv`: a delivery is in `processed`
  before its handler starts and no step takes it out; the log row makes a second
  pass through the gateway impossible, so at most one request counts it, and a job
  exists only for a counted delivery.
- `OvershootIsBounded` from `QuotaInv`: `usage` plus the requests that have passed the check
  and not yet counted stays within `Limit + |Requests| - 1`; the cardinality lemmas
  say how that set changes when one request moves.
- `SuccessPassedGate` from `PastGate`: a worker that heard "ok" carries a processed
  delivery.
- `CompletedLogged` from `LoggedInv`: while no lock was lost one worker at most acts
  for a job, so nobody overwrites the log after `success`.
- `PipelineImplementsDelivery`: `Spec => ImplementsDelivery`, the refinement, from
  `DeliveryInv`: `OnceInv` (each step happens once and in order) with `PastGate` and
  `DoneGate`: a worker writes `success` and completes a job only for a delivery that is
  through the gate.

`HandlerProofs`

- `OverlapsWereSwept`, `WorkflowTypeCorrect`: only a sweep takes a row from its worker, so
  a worker on a row never swept finds it `running` (`HoldsRow`), which is what keeps the
  next claim out.
- `UnauthorizedWasReal`, `RowsWereOwn`, `ShopifyTypeCorrect` from `Sound`, an invariant of
  each operation. `HealthyToken` says that, as long as the platform has had the good token
  all through the operation, it has it now, and the token fetched past a first 401 is it,
  so a second 401 needs a time at which it had not; `OwnRows` that what the call reads is
  what it started. `RetriedSound` treats the nested retry loops once for all callers.

`TenantProofs`

- `TokensAreOwn`: `NamesOwn` adds to the property what a callback knows between its writes
  and the row: past `persistAccessToken` the secret of its shop holds its shop's token, the
  storefront secret once it has a name, and a row names the secrets of its own shop.
- `StoppedPlansGo`: the property is inductive together with the types and "a request past
  its start has a kind" (`Asked`): every step that stops a plan at Shopify leaves a notice
  of a kind that ends it, every handling of such a notice ends with the free plan, and no
  step but those that clear `stopped` gives a plan.
- `BouncesSuppress`: inductive with `MailsOK`, which says what a send's mail, a taken mail
  and a notice are, and that a webhook in its second statement is one that suppresses.
- `MailOverrunBounded`: as for the webhook quota, sends past the check are counted together
  with mails counted already; `CountsOK` bounds that sum, and the mails Resend took by the
  counted ones, those whose send is still to count them, and one for each fault.

`GenerationProofs`

- `ArchetypesAreServed` from `Serving`: while a message uploads, the surfaces it is through
  with are served, and past its uploads all of its job's are, by whichever job wrote last.
- `PipelineImplementsLedger`: `Spec => ImplementsLedger`, the refinement. `PipelineInv` adds
  `Asked` (a job with a request, run, message or deploy has a row), `Kept` (a message past
  `Store` that brought a bundle, a row that names one and a started deploy have it) and
  `Explained` (an error only with a failure); under it each action is a step of the ledger
  or leaves its variables alone.
- `SuccessWasReal`: the property is inductive with "an event that explains comes from a run
  that did", `PipelineInv`, which the client's steps keep as each is a step of the
  pipeline or leaves it alone (`ClientStepsPipeline`), and `~astray => Orderly`: a page
  that never turned to something else has one call out at a time (a request, a stream or a
  poll), for the job it shows as running or is starting, so what an answer makes it show is
  of that job. `AstrayStep` says which steps may end that, `OrderlyStep` that no other does,
  `StoredGrows` and `ExplanationsStep` that what was seen stays true.
- `PlansRevisedOnce`, `CleanRunsBuild`: `PhaseKnows` says, stage by stage, what plan,
  review and file have to do with each other (`SoundFile`), `FailedCalls` bounds the failed
  `done()` calls by the turns, which the gate's type needs.

`AppProofs`

- `RecordedThemeShowsBlocks`: an injection's progress says which sections it has verified
  (`VerifiedThere`), what it read holds every block of the template (`ReadHoldsBlocks`), so
  writing it back loses none, and a recorded theme is a finished injection's
  (`RecordedIsDone`).
- `DeploysAsAsked`, `FailuresKeepRouting`, `ReactivationsRestore`, `DeletionsLeaveNothing`
  from `LifecycleInv`. The properties speak of an operation's end; the invariant says what
  a lone operation has done at every step on its way (`SoFar`), and nothing of one that was
  overlapped. `Solo` makes "alone" usable: nothing else is under way then. `OnCourse` keeps
  each operation on the steps of its kind; `InPlace` says what a cloud process cannot reach,
  as it cannot build, and `GoneIsEmpty` that a deleted app has no rows.

`SeatsProofs`

- `SeatsTypeCorrect`, and `SeatsOvershootBounded`:
  `SeatsSpec => []SeatsOvershoot`. The count of active apps alone is not inductive, as a
  call that passed the gate writes later; `SeatsInv` counts such calls (`Cleared`)
  together with the active apps, and a call at the gate is not one of them yet, which is
  where the "minus one" comes from.
- `PeriodCounted`: `PeriodSpec => []CountedInItsCycle`, for every anchor and every day, by
  arithmetic on the calendar and not by induction over the days: a day of the year lies in
  one month (`MonthInYear`, `MonthOfDay`), months are 28 to 31 days (`MonthLength`), and so
  the anchor day of this month or of the one before is the start of the cycle.

`PlatformProofs`

- `TypeCorrect` also bounds every stored size by its reservation; what finalize writes
  is what GCS accepted, so the bound needs the object's size and the call's `seen` too.
- `UploadsCompensated`, `AckedStored` and `SweptClean` follow from one `IInv`. `Creation` says
  what holds while the request that creates a file runs, and that everyone else comes
  after it; `Call` and `Sweep` say what a call or a sweep may rely on between its read
  and its effect (a finalize past `Head` has its object unless somebody read the row as
  pending in order to delete it); `Statement` says that a DELETE at the server was sent
  for such a row, or by the rollback of a request whose URL nobody has; `Kept` and `Gone`
  are the two properties file by file. `Clean` is the case without faults. The step
  proof treats them by part: types, files, clean uploads, actors.
- `InlineQuotaKept`: the bytes of a set of rows are the cardinality of the set of their
  bytes, so that adding a row adds its size (`BytesAdded`) and no induction over the rows is
  needed. `QuotaInv` says that a row has the size asked for (`ExactInv`), that the rows fit,
  and that an upload that holds the advisory lock past its sum still fits with them
  (`RoomInv`), as nobody else inserts an inline row meanwhile.
- `ServedWithinTTL`: `EntriesAge` says that a cache entry expires at most one TTL after
  its account was last the app's, `CallsKnow` that a row read was bound no earlier than the
  look into the cache, and `BoundPast` that the history never lies in the future.
- `RequestsAreNotStranded`: `EdgeSpec => []EveryWaitEnds`: who waits for an ID token waits
  for a client that is there, and who was sent has its timer running. The client is shared
  and dropped when it fails, so the step that drops it must answer all who wait for it. It
  is the safety half of `RequestsSettle`: every wait has an event that ends it.
- `FrameShowsLatest`: only the last run of the effect is not cancelled (`LastLoadIsLive`),
  and `moduleRef` holds its module or nothing, the container what it mounted or what threw,
  and its URL is alive (`RefsFollow`). Nothing of the kind holds of `blobUrlRef`, see
  section 5.

Only model-checked: liveness (`RowsSettle`, `JobsSettle`, `GenerationsSettle`,
`RequestsSettle`), which
is out of the prover's reach, and the refutations of section 3, which are single
behaviours.

## 5. What the runs found

- **Rows are dispatched twice.** `started_at` is stamped for a whole batch of up to
  ten rows that then run one after the other; a row behind slow ones outlives its
  lease although each job meets it (`cron_double_dispatch`).
- **A runner that never runs.** One rejected statement in the boot drain, and neither
  LISTEN nor the poll is installed (`cron_boot`).
- **A delivery that is lost.** The row that marks it as seen is written first; a failure
  before the enqueue turns Shopify's retry into a `duplicate` (`webhook_lost`).
- **The orphan GC stops at the first row.** Its DELETE goes out on a second connection
  and waits for the row lock of the transaction that waits for it; Postgres sees an
  idle transaction, not a deadlock, and no timeout is set. A blocked sweep holds two of
  the pool's five connections (`files_gc`).
- **No deploy reaches its database step's end.** `deployed_functions.app_version_id`
  references a table nothing in the repository inserts into (`deploy_fk`).
- **A payer without a plan.** A notice about any subscription of the shop, also one that was
  replaced or never approved, puts the tenant on the free plan; nothing puts it back
  (`billing_sync`).

Met while modelling and not the subject of a run:

*Files.* Reservations of `create-upload-url` are checked without the advisory lock, so
counting pending rows does not keep concurrent ones within the cap as
`packages/db/src/files.ts:268-269` says; `InlineWithinQuota` is about the inline path for
that reason. A second finalize is not the no-op of `packages/db/src/files.ts:111-112`: it
writes the size again. A finalize that overlaps a cancel or a sweep answers 200 for a file
whose object is gone, or meets the "should be impossible" of `routes/services/files.ts:555`;
`AckedIsStored` excepts exactly these files. A PUT after a cancel, before the URL expires,
leaves an object no row names.

*Generation.* The hook's calls do not say whose they are: after a stop, a navigation or a
restored session a waiting poll of the old job goes on, and its answer, or the end of a
cancel request (`useGeneration.ts:232`, a plain `setState`), lands on the job the page shows
by then, which is then shown completed or cancelled though it is running. `NoFalseSuccess`
excepts pages that went astray this way, and no others. A success without a bundle is
stored as such, and no approve or deploy takes it; a failed run that sent a bundle is
shown as completed by a poll, which looks at the bundle alone. The hook's poll after a
dropped stream takes every status but `running` for
the end, while the API calls a running generation `pending`: a healthy generation is shown
as failed (`HealthyIsNotFailed` in `GenerationClient` is refuted). Approving passes no
`cronSchedule`. The counter behind `canStartGeneration` is never incremented.

*Lifecycle.* Two deploys that overlap can leave two active rows; a reactivation revives
topics a later deploy dropped (`handlers.ts:451-458`) and starts the container without its
cron environment (`lifecycle.ts:317-334`); a failed `docker run` leaves no container, and a
deploy that fails after `db_writes` leaves webhooks unrouted; a reinstall re-registers the
hooks of inactive apps.

*Billing and usage.* Concurrent activations do exceed the plan's seats, by the calls under
way minus one and no further (`SeatsOvershoot`); an app that is active already is refused at
the limit; a cheaper plan deactivates nothing. A CANCELLED of a replaced subscription is
resolved by shop domain
(`billing.ts:308-314`) and downgrades a payer, ACTIVE after FROZEN does not bring the plan
back, and a lost redirect leaves a payer on the free plan. `GET /billing/callback` looks at the
plan its query names and at nothing else (`billing.ts:193-231`), although `auth.ts:17-19` and
`106-109` say that it verifies itself against `shopify_subscription_id` and `billing.ts:7` that
it follows an approval or a refusal; with billing disabled, the default, no approval
takes place at all (148-169). So no property here says that a plan was approved;
`StoppedLosesPlan` says that one that was stopped goes. A second cancel is a 500. With
anchors 29 to 31 `getBillingPeriodStart` (`usage.ts:25-33`) can return a day in the future or
start a period in mid-cycle; `CountedInItsCycle` speaks of the anchors every month has.

*Email.* A late `sent` overwrites `delivered`, and `recordSent` overwrites a webhook's status
(`DeliveredStays` in `EmailService` is refuted). A webhook that comes before the provider's id
is stored is answered 200 and lost. A failure after the send marks a delivered mail `failed`,
uncounted. Resend's error object is recorded as `sent`. `createAppEmailConfigFromStarter` is
called by nothing.

*Install.* `upsertTenant` checks and then inserts: of two first installs of a shop the loser
gets a 500 after it wrote the secrets. The slug is not injective, so the second of two shops
that share one can never install. Crossing callbacks may leave the older token.

*Themes.* `duplicateTheme` goes on after 30 polls whether or not the copy is ready; two equal
reads do not mean that the copy job is through, as `theme-injector.ts` takes them to
(`EqualReadsAreSettled` is refuted; `RecordedShowsBlocks` rests on the reads after the write
and excepts the blocks the job writes over after the last of them). Failed and repeated
injections and lost answers leave copies nobody records; the
status of the DELETE is ignored (`tenants.ts:495`).

*Identities and proxies.* The handler expects `PLATFORM_URL` as the audience
(`orchestrator.ts:383`) of a token that `id-token.ts` mints for the root of the handler's own
URL, so in the cloud `verifyPlatform` refuses every forwarded request: `HandlerAnswers` has
200 only in development. There no account is written, so a `/services` call is refused,
although `verify-id-token.ts:7-9` says that `""` matches. `cachedAuthHeader`
(`platform-call.ts:18`) is kept for the container's life and never refreshed. The "total
budget" of `forward.ts:28` excludes minting and the body. Nothing passes
`provisionHandlerSa` the `existingEmail` it would reuse, so a redeploy makes a new account,
and `invalidateSaCache` and `clearSaCache` are called by tests only: an app that is paused
is resolved until its entry expires, which is what `ServedAsBound` bounds.

*Page in the admin.* `makeBridge(...)` in `render` (`AdminShell.tsx:301`) makes the effect of
`ModuleFrame` run again at every render of the shell. A late import of a cancelled load sets
`blobUrlRef` to null although it holds the live load's URL, which is then never revoked, and
evaluates the module once more. `GET /admin/shop`, which the shell asks, does not exist.

*Agents and templates.* A `tsc` that cannot start counts as clean; the fourth failed `done()`
is accepted; a failed review is saved as a review without findings; `_save_state` rewrites the
file in place. `complete` and `fail` of the workflow helper overwrite whatever a sweep or a
second attempt wrote. A bulk mutation whose answer is lost is sent again. `money.ts` documents
"ties away from zero" and uses `Math.round`.

## 6. Plan

Modelled and checked: everything in section 2. Left, in this order:

1. The conversation of `NewAppPage` (analysis and confirmation with closures that
   survive a navigation, creation of the draft app). Read but not modelled: an analysis
   answered after a navigation lands on the other app's page, the flag that guards
   confirmation is not reset by a navigation, and the last save of the chat within its
   delay is lost by one.
2. An abstract specification of an upload (reserved, stored, answered or undone), refined
   by `FileStorage`, as `JobQueue`, `DeliveryLedger` and `GenerationLedger` are by theirs.

## 7. Not modelled, and why

- Request-local checks (signatures, schemas, HMAC, state): they turn a request away and
  change nothing. `HandlerEdge` keeps of a credential the shop it stands for.
- The build context, the validator of migrations, the rendering of mails, the value
  helpers: input and output only.
- Single-row routes (rename, email configuration and templates, reads).
- The block's position in its section, the list of templates with its five-minute cache,
  and merchants who edit the copy.
- What a model answers, prompts, catalogs, token accounting, the model adapter. The crew
  the generator's contract calls is not in the repository.
- The front ends beyond the generation card and the frame in Shopify's admin: rendering,
  and calls of the operations modelled on the API's side.
- Anything about security.
