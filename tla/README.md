# Formbricks, specified in TLA+

This directory holds TLA+ models of the parts of Formbricks whose correctness
depends on what happens *between* two steps: jobs that are delivered twice,
processes that die after sending and before recording, answers that are queued
offline, webhooks that arrive out of order, users who change while an update is
on its way, caches that outlive what they copied. Each module translates the TypeScript source, action by
action; `PROJECT.json` maps every definition to its lines.

## The system and its parts

Formbricks is a survey platform: a Next.js application (`apps/web`) over
PostgreSQL and Redis, background jobs on BullMQ, a survey renderer that runs in
the respondent's browser, and a JavaScript SDK that decides when to show it.

| Part | State it keeps | Operations | Talks to | What is hard |
|---|---|---|---|---|
| **Workflow runner** (`apps/web/modules/ee/workflows/lib/runner`) | `WorkflowRun` and `WorkflowRunLog` rows | enqueue runs of a finished response; execute a run; two reconcile sweeps | jobs queue, mail server, billing | redelivery, retries, crashes between claim, send and record, sweeps racing live handlers |
| **Jobs package** (`packages/jobs`) | BullMQ jobs in Redis, a producer connection singleton | add, schedule, process, shut down | every background job | stalls, lock loss, eviction, init races |
| **Matching and planning** (`match-workflows.ts`, `execution/plan.ts`) | none | which workflows a response triggers; the order of a definition's steps | runner | graph edge cases |
| **Response queue** (`packages/surveys/src/lib`) | in-memory queue, IndexedDB entries, survey state | add an answer, send with retry, sync after being offline | client API | two senders, offline flicker, reloads, a lost reply to a create |
| **JS SDK** (`packages/js-core`) | config in local storage, command queue, debounced user updates, one widget | setup, track, setUserId, setAttributes, logout | client API, renderer | commands overlapping set-up, updates merged while one is in flight |
| **Cache** (`packages/cache`) | Redis keys with TTL | get, set, withCache, tryLock | license, entitlements | expiry of a lock under its holder |
| **License check** (`ee/license-check`) | memory per process; fetch result, previous result and fetch lock in Redis | evaluate for a page, recheck | cache, license server | processes overwriting each other's results, grace boundary, a cache that fails |
| **Response pipeline** (`response-pipeline`) | none of its own | side effects of a response event, in order | webhooks, e-mail, runner, billing | partial failure and replay |
| **Response service and quotas** (`lib/response`, `ee/quotas`) | responses, quota links | create, merge update, count screened-in responses | pipeline | two updates of one response, the last place of a quota |
| **Workflow documents** (`packages/workflows/services`) | workflows and versions | create, save, publish, enable, archive | runner | concurrent edits, version numbers |
| **Billing** (`ee/billing`) | billing snapshot per organisation, its cached copy, a refresh lease | webhook-driven sync, reconciliation, trial, change of plan with rollback | Stripe, cache | reordered and duplicated webhooks, lost updates of the row, idempotency keys, half a change of plan |
| **Rate limiting** (`core/rate-limit`) | counters per window | check and count | Redis | window boundary |
| **Survey scheduling, archive purge** | survey status and dates | publish, close, purge | jobs | two runs of one tick |
| **Data migrations** (`packages/database/src/scripts`) | `_prisma_migrations`, `DataMigration` | apply schema and data migrations when a container starts | every container, `prisma migrate deploy` | two containers at once, a run cut off half-way, upgrades |
| **Survey logic** (`surveys/lib/logic.ts`, `lib/surveyLogic`) | none | evaluate conditions, jumps | renderer, editor, server | two implementations that must agree |
| Contacts and segments, authentication, storage, e-mail rendering, integrations, feedback hub, MCP, management API, editor and UI | CRUD or I/O | | | listed in `PROJECT.json`, not modelled |

What makes each correct: no e-mail twice and every run decided (runner); no
answer lost, duplicated or out of order (response queue); commands in order,
every attribute change sent (SDK); one holder of a lock, a stale license never
past its grace period (cache, license); quota counts that match the responses
(quotas); a billing snapshot that ends up at the latest webhook's state
(billing); one window's count never above its limit (rate limiting); each survey
transitioned once per date (scheduling); each data migration once and on its own
schema (migrations); client and server agreeing on a jump
(survey logic).

## The modules

`RunContract` is the abstract promise; the other modules are the code.

* **`JobQueue`**: what the runner relies on of BullMQ as `packages/jobs` uses
  it. A job's id is chosen by the producer (`jobId = run id`), so a second add is
  dropped while the first is retained; attempts; a lock whose holder's report
  alone counts; the stalled-job check (first stall: back to waiting, second:
  failed); eviction of finished jobs. A waiting job covers a delayed retry.
* **`RunTables`**: the `WorkflowRun` row (`run`, `dispatchedAt`, and of its
  timestamps only what the sweeps compare: `age` against the two orphan
  thresholds, `idle` for an `updatedAt` over an hour old), the `WorkflowRunLog`
  rows (`log`), the guarded `updateMany`, and two budgets (`faults`, `crashes`).
* **`RunProducer`**: `enqueueResponseCompletedWorkflowRuns`: persist, meter,
  dispatch, stamp, one match after the other (in any order: matches do not
  depend on each other). `Passes` are the pipeline job and its replays.
* **`RunExecutor`**: `processWorkflowRunJob`: one record per worker, one action
  per database call or send, with every early return and error path.
* **`RunReconciler`**: both sweeps of `processWorkflowRunReconcileJob`. What a
  sweep scanned is a copy it goes on to act on.
* **`WorkflowRunner`**: composes them with time, eviction, deletion (a cascade
  from workflow, workspace or response), crashes and lost locks; states the
  properties and the fairness.
* **`MCWorkflowRunner`**: sets and symmetries for TLC.
* **`WorkflowRunnerProofs`, `SendOnceProofs`, `DrainProofs`**: the proofs.

How a call fails: `CallFails` makes a call return an error. A write may also
have taken effect before its error came back (a lost reply); both are modelled.
`Crash` covers a dead process and a lock lost by a live worker, which goes on
running its handler while the queue gives the job to somebody else.

The second system, a link survey with offline support:

* **`ResponseApi`**: the server as the queue meets it. POST creates a response
  for a display that has none, PUT merges an answer into an unfinished one; a
  404, a final 4xx, a failed recaptcha check, no reply, a lost reply.
* **`QueueStore`**: the state both senders and the page share: memory, the two
  locks, IndexedDB. `idb` is the sequence of IndexedDB requests under way;
  IndexedDB answers the oldest. An action is one turn of the event loop: the
  code from one `await` to the next.
* **`ResponseQueue`**: `processQueue` with `sendResponseWithRetry`. `req` is the
  call that holds the request lock.
* **`ResponseSync`**: `syncPersistedResponses` and the page effect that starts
  it. `syn` is the call that holds the sync lock.
* **`SurveyPage`**: answers, the display, the retry button, the connection, a
  reload with or without the saved progress, the owner deleting the response.
* **`OfflineSurvey`**: composes them; properties and fairness.
* **`AnswerChannel`**: what the survey promises of the answers, abstractly: a
  channel that holds an answer until it arrived or was refused, delivers in order
  and, after a reload, goes on behind the last answer that was stored.
* **`MCOfflineSurvey`**: the visits TLC follows (see the runs).
* **`OfflineSurveyProofs`**: every property of the run `queue`, for all constants.

Billing of one organisation (`ee/billing`):

* **`StripeCustomer`**: the billing service: subscriptions with schedule,
  cancellation and pending update, events, idempotency keys, and what happens
  there by itself (the portal, payments, the ends of trials and periods).
* **`BillingRow`**: the `OrganizationBilling` row, its read-through copy, the
  refresh lease and the calls under way (`proc`). A call is one record; an action
  is one call of the service, the database or Redis.
* **`BillingSync`**: `syncOrganizationBillingFromStripe`, the payment and
  pending-change writers, the read-through with its lease.
* **`BillingReconcile`**: `reconcileCloudStripeSubscriptionsForOrganization` and
  the start of a trial.
* **`BillingPlanChange`**: upgrades, downgrades, undo, and the rollback of a
  schedule.
* **`Billing`** composes them; **`MCBilling`** lists the customers TLC starts
  from; **`BillingProofs`** proves types and keys.

The JavaScript SDK on one page (`packages/js-core`):

* **`UpdateQueue`**: merged updates, the debounced flush, the request, and the
  contact behind the user endpoint.
* **`SurveyWidget`**: `triggerSurvey` and `renderWidget` from the wait for the
  identification to the close, the delay timers, the flag of a running survey.
* **`JsSdk`**: `CommandQueue` and the commands, setup, reload, with the
  scheduling of a browser; **`MCJsSdk`**, **`JsSdkProofs`**.

The license check of a self-hosted installation (`ee/license-check`):

* **`RedisCache`**: `get`, `set`, `del`, `tryLock` of `packages/cache`: an error
  is a result, a write may have happened before its timeout, keys expire.
* **`License`**: several processes with one evaluation for pages and one recheck
  each; **`MCLicense`**, **`LicenseProofs`**.

The migrations of one database (`packages/database/src/scripts/migration-runner.ts`):

* **`MigrationTables`**: the two tables that say what was applied, the runs under
  way, `prisma migrate deploy` with its advisory lock and the migration it may
  leave half-applied.
* **`MigrationRunner`**: `applyMigrations`: the fast path of a new database, the
  interleaved path, `runDataMigration` with its transaction, the failure written
  after it, containers that die or are stopped after five minutes
  (`next-start.sh:58`), and upgrades; **`MCMigrationRunner`**,
  **`MigrationProofs`**.

What is abstracted. In the runner: what an e-mail says and to whom it goes; a
run's steps are numbers, and loading its context either works or fails.

In the offline survey: an answer is its number, given in order, and the last one
finishes the response; only `persistOffline` is modelled (without it the same
sender runs with no database); an answer's write and the save of the progress
behind it are one IndexedDB request, and so are the removals that precede a
count or a read; restoring at load is one step, and a page that starts over is
followed only until what it still holds is sent; a reload aborts the unfinished
IndexedDB requests, and the server may still see the calls under way
(`StrayArrives`); the effect's own `isSyncingRef` is left out, since going
offline resets it; quota-full replies, file uploads, a survey whose blocks
changed between two loads and a second tab are not modelled. `over`, `unheard`,
`turnedDown`, `refused`, `stale` and `budget` are history and bounds, not state of
the program: `turnedDown` has the answers the server refused for what they are,
`refused` those it refused for whatever reason.

In billing: prices, limits, entitlements and intervals are left out (a
subscription is its plan, status and what is scheduled); `setup` of a new
organisation does what `startHobbyAction` does and is not a second action; the
snapshot of the row is fresh or stale, its copy there or not. A key is
pruned only while no create call that may use it is under way
(`PruneIdleKeys`): a request does not last 24 hours.

In the SDK: a user state is the user, a version and a language; a survey is
segmented or not, guarded by recaptcha or not; which surveys an action triggers
is an input of `track`. `wanted`, `failed`, `dropped`, `owner`, `calm`, `freed`
and `blocked` are history. `calm` becomes false when the website's calls cross a
request or change the user under pending updates, and the attribute properties
speak of calm histories only. `failed` has the attributes whose failure was
logged, `dropped` those that the SDK gives up without a word, in calm histories
too: a language that is set after the identification of its user failed
(`update-queue.ts:116-139`: kept in the browser and logged as updated), and what
waits or is under way at a reload (the queue is in memory only). `AttributesKept`
names both. `freed` and `blocked` record that the flag was freed with a survey
still under way and that the recaptcha script never came. Requests under way at
a reload reached the endpoint before or are lost. Two tabs
share the configuration in local storage and are not modelled.

In the license check: time is a number, one unit as coarse as the instance needs;
expired keys are dropped as time passes, and a result in memory when it is too
old to be read; requests that join an evaluation or the shared read of the
previous result are one with it; a process has at most one recheck. The instance
has `MaxCall = 0`: from the server's answer to the last write an evaluation takes
seconds, against limits of a minute to four days, so a late writer acts within
its unit of time, in any order with the others; what it writes stays for as long
as its limit says. The proofs cover every `MaxCall`. `confirmed`, `activeFrom`,
`earned` and `raced` are history.

In the migrations: a migration is its place in the history and its kind; what it
changes is left out, except that one that meets another schema than its own may
throw. A transaction's row is what the other runs can notice of it: an insert of
the same id waits. `runs`, `misplaced`, `failedOnce`, `baselined` and `torn` are
history. A migration without a `run` function would stay `pending` for ever;
none is checked in.

## The runs

Constants are kept to one run (the rows of two runs do not interact: every
statement names one run, and a scan treats each row by itself), one page of one
survey, one customer, one page with the SDK.

| Run | Instance | Shows |
|---|---|---|
| `runner_executor` | 1 run of 2 steps, 2 workers, 1 pass, 1 tick, 2 attempts, 1 crash or lost lock, no failed call | `TypeOK`, `AtMostOnceEmail`, `CompletedMeansAllSent`, `DrainedMeansDecided`: retries, stalls, two handlers of one job |
| `runner_faults` | the same with 1 step and 1 failed call | `SendInv` (the inductive invariant), `DispatchMarkerTruthful`, `TerminalIsFinal`, `ImplementsContract` |
| `runner_live` | 2 passes, 1 worker, 1 crash, fairness | `MeteredAtMostOnce`, `EveryRunSettles` |
| `runner_liveowner` | every owner finishes within the hour | `SkipSparesLiveOwner` is violated |
| `queue` | 3 answers, 2 attempts, 1 answer that cannot be stored, 1 other failed IndexedDB request, 2 displays; visits with 2 failed calls and 1 loss of the connection, with 2 losses, with a reload (also a day later) and 1 loss or failed call, or with 1 loss and a response that the survey's owner deletes | `TypeOK`, `OneSender`, `HeadIsSent`, `AnswersKept`, `OneResponse`, `InOrder`, `LocksReleased`, `ImplementsChannel` |
| `queue_lost` | replies may be lost | `NothingLost` is violated |
| `queue_latesync` | 2 answers, fairness, 1 loss of the connection, no fault | `EveryAnswerSynced` is violated |
| `billing` | a webhook handler, a page, two admins, 3 subscriptions, nine customers: new ones, with a trial, with a paid plan in each state, each with its own budget of admin actions, failures and outside changes | `TypeOK`, `OneTrial`, `OneHobbyUntilCancel`, `BillingSettles` |
| `billing_rollback` | a paid subscription that is to end, one failed call | `FailedChangeKeepsCancellation` is violated |
| `sdk` | 2 users, 2 attributes, 2 surveys; every website of three commands after a set-up, with or without a user, 1 failed request and 1 interaction; a user who comes back to a page after any command, also with something that was not sent, and gives another one | the nine properties of `JsSdk` |
| `migrations` | 2 containers, three releases of S D S S, then D, then S (S schema, D data), 2 failed statements or deaths, fairness | `TypeOK`, `InOrder`, `OnceUnlessFailed`, `AppliedMeansDone`, `Upgraded` |
| `license` | 2 processes with a page each and one recheck, two evaluations at a time; limits of memory, lock and failed fetch 2, fetch 3, grace 3, previous result 4 units, a clock up to 7; 2 changes of the server, restarts, rechecks or failed calls (at most 1 of these) | `TypeOK`, `GraceBound`, `RenewalShows`, `GraceHeld` |

Why these bounds, for the runner: two workers are enough for two handlers of one job (a third
would repeat the second); two steps are the least at which one step is finished
and another is not; two attempts give a retry and a last attempt; one crash or
lost lock gives a stall and a redelivery; one failed call reaches every error
path once. `CHECK_DEADLOCK FALSE`: the system stops when its run is decided, its
job evicted and its pass done, or when every answer is sent and the bounds are
used up. For the queue: three answers give a sync an answer before, during and
after the one it sends; two attempts give a retry and a last attempt; two
losses of the connection give a second sync while the first is still at work.
A reload and the second failed call are in different visits to keep the run
short.

For billing: two admins give two starts at once, three subscriptions a hobby, a
trial and one more; each customer has the one change or failure its story needs,
since all of them together do not fit. For the SDK: three commands are enough to
set a user, set an attribute and change or end the user, with a request, a
survey or both under way. For the license: two processes give every overwriting
of one by the other. A limit of *n* units holds for *n* - 1 of them, the tests
being strict, so a result in memory, a lock and a failed fetch outlive one tick,
a fetch and the grace two, the previous result three: a fetch is evaluated again
two ticks later and starts a new grace, which is then remembered for one more,
and an answer from before a renewal is still served after it. The limits keep the
code's order only weakly (memory, lock and failed fetch are equal, and so are
fetch and grace; a grace shorter than what Redis keeps is strict); the proofs
have it for all values. The bounds of `GraceBound` and `RenewalShows` are
sharp in this instance: a page does show the paid features at `confirmed + Life`, and
one does not show them `Cached + MaxCall + MemTTL - 1` after a renewal. Two
events are an outage and a restart or recheck, or an outage and its end. For the migrations: two containers give every
overlap of two runs; the releases give a history with a data migration between
schema migrations, one that adds only a data migration, and one that moves the
schema past it; two faults are a run cut off and a failure in the next.

Fairness (`FairSpec`): a handler or sweep that can go on does, a waiting job is
taken, a stalled job is found, the reconcile schedule fires every three minutes,
and time passes. These are what a running worker process, BullMQ and the clock
provide. Nothing is assumed of the producer, of failures, evictions or
deletions. `TimelyOwners` (a handler at work never sits on a run for an hour) is
the assumption `reconcile-constants.ts:23-24` states; the safety runs do without.

For the queue, `FairSpec` says that the event loop goes on (IndexedDB requests
and calls are answered or fail, backoffs end) and that the connection comes
back. Nothing is assumed of the respondent, who need not press Retry.

For billing: calls go on, an event is delivered again until it is acknowledged,
pages are opened, snapshots, copies and leases age. `BillingSettles` is claimed
for organisations whose pages are opened: a webhook that loses its write to an
older one is only corrected by the read-through of a page. For the SDK: the
browser runs its timers and promises, and requests are answered or fail; the
website and the visitor need not act. The license check has no liveness property:
nothing in it runs unless a page is opened. For the migrations: a container goes on, and is
started again when its run failed, as an orchestrator does.

Three properties of the migrations name the cases in which they do not hold, and
fail without them: a fast path cut off in the middle of its deploy, or a second
container beside it, lets data migrations meet a schema that is ahead of them
(`torn`, `Ahead`); a failure is marked outside of the transaction, whatever is
there by then (`failedOnce`); a schema migration that was left half-applied
needs an operator.

### Findings

* Not a run: every error of `sendEmail` becomes a `failed` step that a retry
  sends again, also when the server had taken the message (`AmbiguousSmtp =
  TRUE` violates `AtMostOnceEmail`). The comments at
  `process-workflow-run-job.ts:282` and `:380` say it never happens.
* `runner_liveowner`: a redelivery that resumes a `running` run writes nothing
  to its row, and the failing write of the stuck sweep looks at the status only,
  so a run stale at the scan is failed, and its step skipped, under a live
  handler. `reconcile-stuck-running-runs.ts:42` says never.
* Not a run of its own: the orphan sweep's marker write
  (`mark-dispatched.ts:26`) has no status condition, where
  `reconcile-orphaned-runs.ts:57` says every write has one; the marker it stamps
  on a run claimed meanwhile is still truthful.
* `queue_lost`: the server stores a create whose reply is lost. The client does
  not know the response; each later create names the same display and is refused
  with a 400, which the queue takes for final, and the answers are dropped one by
  one. `offline-support.mdx:13` says all pending responses are synced. (On a
  reload the response is looked up by its display, but only when nothing is
  pending.)
* `queue_latesync`: the call of `processQueue` at the end of a sync comes before
  the `finally` block that frees the lock, so it does nothing, and an answer
  stored during the sync waits for the next answer, reconnection or load. With
  the lock freed before the call the property holds in the same instance.
* Not a run: after 24 hours only the progress is discarded; the pending answers
  are still sent. `offline-support.mdx:37` says stale data is discarded.
* `billing_rollback`: a downgrade takes a cancellation back before it reads the
  items and the schedule, and only the update after these is guarded; when one
  of the reads fails the customer's cancellation is gone.
* Not a run: `lastChecked` of a license is the time of the evaluation, not of the
  server's answer, so a fetch result reused on its last hour starts three full
  days of grace: close to four days after the last confirmation, where
  `docs/self-hosting/advanced/license-activation.mdx:38` says three.
* Not a run: a language that is set after the identification of its user failed
  is kept in the browser only. `update-queue.ts:130` logs "Updated language
  successfully", nothing sends it later, and the next answer of the endpoint
  replaces it. Nor does anything report the updates that wait for the debounce
  when the page is reloaded. `AttributesKept` holds with these two cases named
  and fails without either.
* Not a run: `migration-runner.ts:203-211` calls the fast path resume-safe, which
  it is between its deploy and its baseline, but not within the deploy: the next
  run takes the interleaved path on a schema that is ahead, where
  `packages/database/README.md:53` says that migrations are executed by their
  timestamps (`InOrder` without `torn` fails).

`queue_lost` is also why two passing properties have a condition:
`AnswersKept` and `OneResponse` are claimed while the client has heard of every
response it created (`~unheard`) and none was deleted. `AnswersKept` and
`InOrder` also need that IndexedDB could store every answer. `InOrder` excuses
exactly the answers that the server refused: an answer is never on the server
while an earlier one is neither there nor refused. (That an earlier answer which
is still pending must have been *turned down* is too much: it holds on small
instances, and not with four answers, a deleted response and removals that fail.)

## What is proved

For all values of the constants (any number of runs, workers, passes, ticks,
steps, attempts, failures and crashes):

* `TypeCorrect`: `Spec => []TypeOK`.
* `SendInvariant`, `AtMostOnce`, `CompletedSentAll`, under `~AmbiguousSmtp`: no
  step is sent twice and a completed run has every step sent and recorded.
* `VerdictsAreFinal`: no step overwrites a verdict, with no assumption on mail.
* `RunnerImplementsContract`, under `~AmbiguousSmtp`.
* `MeteredOnce` and `MarkerTruthful`: a run is billed at most once, and marked as
  dispatched only if its job was in the queue, whatever overlaps, fails or dies.
* `DrainedDecided`: a job leaves the queue only with its run decided, as long as
  no call fails, no process dies and no lock is lost. With it every safety
  property the runs check of the runner is proved.
* Offline survey: `TypeCorrect`, `SendersExclude`, `HeadHolds`, `LocksHold`,
  `OneResponseHolds`, `InOrderHolds`, `AnswersKeptHolds`, `ChannelImplemented`,
  for any number of answers, attempts, displays, failed calls, lost replies,
  failed IndexedDB requests, losses of the connection, reloads and deletions: all that the run
  `queue` checks. The conditions of the last four are those of the properties.
* Billing: `TypeCorrect`; `TrialOnce` (there is never a second pro trial) and
  `HobbyOnce` (concurrent reconciliations create one hobby subscription until one
  was canceled), for any number of handlers, pages and admins.
* SDK: `TypeCorrect`, `LogoutHolds`, `OrderHolds`, `FlagHolds`, `OneHolds`,
  `AttributesHold`, `AttributesOwned`, for any websites, users, attributes and surveys.
* License: `TypeCorrect`, `GraceBoundHolds`, `RenewalHolds`, `GraceHolds`, for any
  processes, limits, clock and number of failures. They assume that the grace is
  shorter than what Redis keeps of the previous result (`validateConfig` checks
  it) and that a failed fetch is not kept longer than a good one.

* Migrations: `TypeCorrect`, `OnceHolds`, `AppliedHolds`, `InOrderHolds`, for any
  history, releases, containers and faults. They assume that the first release
  ships a data migration, as the comment at `migration-runner.ts:211` does.

`AtMostOnceEmail` is not inductive: that a message may still be sent says
nothing about who else could send it. `SendInv` adds the argument. A handler
between its claim and its record *owns* its step; owners are unique and the row
of an owned step reads `running` (or `skipped`, by a sweep), which no claim
accepts (`OwnerInv`). A row that can be claimed (`none`, `failed`) stands for a
message that never went out, and `succeeded` for one that did (`LogInv`). Behind
a handler at step `s` every earlier step went out (`HandlerInv`). The proof
classifies every action by its effect on rows and messages (claims, sends,
records, skips, deletes, completes, leaves alone) and shows once per effect that
the invariant survives. `~AmbiguousSmtp` is needed exactly where `LogInv` reads
`failed` as "never went out".

The invariants of the offline survey rest on each other in this order.

1. `CoreInv`: types, `SenderInv` and `HeadIsSent`, which need one another: the
   head of the queue is an answer because the queue is sorted, the head being
   sent stays because a sync, which filters the queue, excludes the sender, and
   a lock is taken in the turn that saw both free. `Unprocessed`, the recursive
   function of the sync's filter, yields a sorted sequence of what was not done:
   by its least prefix that does not (`LeastExists`), since the induction
   theorems of the library cannot be instantiated.
2. `LocksReleased` is inductive on top: nothing takes away the request that a
   sender waits for but its own turn (`AwaitedStay`).
3. `IdsInv`: what the client holds, saved or in flight, names rows that exist;
   and in *calm* states (no create unheard of, nothing deleted) the page and its
   requests name the one row there is, so no create can be stored.
4. `ProgressInv`: the saved progress ends exactly where the writes under way
   begin, so a reload goes on with the answers that were written.
5. `FlowInv`, while IndexedDB stores every answer. An answer is *settled* when it
   is delivered or refused; a set of answers is `Behind` when every answer before
   one of them is settled or in it. Every answer is settled, stored or being
   written (`SettledInv`); what is queued is stored or being written
   (`QueuedInv`); a sync's rest is stored, sorted and `Behind` (`SyncInv`); what
   processQueue sends has only settled answers before it (`SendInv`); and no
   count that may start it gets ahead of the write of the head (`CountInv`):
   without that, processQueue could count one stored answer, older than a head
   that is not written yet, and send the head first. What is on the server is
   `Behind` (`OrderInv`), which is `InOrder`.
6. `KeptInv`: in calm states what was refused is delivered or was turned down.
   A create is refused for its display only if a row exists, an update only if
   the response is finished, and then all before it is settled.

`ImplementsChannel` follows from 1 and 3 to 5 with one lemma per kind of step:
`given` is `asked`, `written` the answers whose write has ended, `held` the
answers that are queued, stored or being written, `whole` that none failed to be
stored. It adds to the invariants what steps may do: an answer leaves the client
only when it was settled before the step, and a reload, which takes `asked` from
the saved progress (or, without it, keeps what was stored), asks for no answer
that is stored and skips none that is not (an answer's write and the save of the
progress being one request, as said above). A failed request may have been served
(`LostReplies`) in the step that ends the sync, so the channel's `Serve` delivers
and releases together.

TLC confirmed these invariants before they were proved, on the run's instance and by
simulation with five answers, lost replies and three faults of each kind.

The other arguments in a sentence each. Metering: a pass that saw its own insert
make the row is the only one, and has not billed yet (`MeterInv`). Marker:
whoever is about to stamp a run has seen its job added (`MarkerInv`). Drained: in a
calm history a handler holds its lock and knows its attempt (`LockInv`), a row
that reads running is a live handler's (`OwnedInv`), and what a handler has read
still holds but for sweeps and deletions (`ReadHolds`), so each way to end
decides the run or leaves an attempt. Trial: as long as a call that found no
trial may still create one, a trial that exists is the one its key answers with
(`TrialKeyed`). Hobby: until a cancellation, a call that found none live found
none at all and uses the first key (`HobbyKeyed`). Logout: a logout runs only
when no update waits, and without updates no request is on its way. Attributes:
while calls do not cross, what waits or is on its way is the owner's, what is on
its way is what waits, and an answered request stands for attributes the contact
has (`WishInv`); a loss nobody is told of is in `dropped`, and the proof shows
that there is no third. Grace bound:
every place an active result can be in (fetch, evaluation, previous result,
memory) is no older than the limits that led there. Grace held: while the grace
of a saved confirmation lasts, Redis still has it, and the evaluations that
would overwrite it read it first, unless they were already giving up (`raced`).
Renewal: what an older answer can still be in expires before the day is over.
Once: a run at the changes of a migration that never failed has the row, so the
insert of another one waits and then fails (`OnceInv`). Applied: a database in
use has a record of every data migration a fast run would mark (`DoneInv`). In
order: a run's directory is the schema before its place, all of it applied
(`OnPath`), and whatever anyone deploys meanwhile is behind the migrations that
are still open, unless a fast run is at work beside it (`OrderInv`).

Only model-checked: `EveryRunSettles`, `BillingSettles`, `CommandsRun`,
`SurveyComes` and `Upgraded`, which are liveness under fairness. The four runs
that expect a violation show counterexamples, which is not a matter of proof.

## Not modelled

`PROJECT.json` has the reason for each part. In short: contacts and segments,
storage, e-mail rendering, integrations, the feedback hub, the MCP server, the
management API, the editor and the user interface are requests that read or
write one row, render or call out; templates, schemas and translations are data.
Left out although they have state worth a model: quotas and the response service
(a count and a link written next to a response), workflow documents (versions
under concurrent edits), rate limiting (one Lua script, atomic in Redis), survey
scheduling, survey logic as operators.

Within the parts that are modelled: in the runner, a job without a processor
(`registry.ts:14-35`), and a payload that does not parse other than as a failed
call before the claim; in the offline survey, the count of failed answers and the
place in the survey when they are restored at load; in billing, the writers
`addOptimisticBillingFeature` and `handleSetupCheckoutCompleted`; in the SDK, the
set-up with a user id that older websites still call; in the migrations, a
container of an old release that starts after an upgrade.

## The plan

1. (done) The workflow runner, with proofs.
2. (done) The offline survey and the channel it implements, with proofs of all
   its properties. Left: a second tab; a restoration that awaits its lookup.
3. (done) The SDK; the cache as the license check and billing use it.
4. (done) Billing. Left: the creation of the customer, checkout sessions.
5. (done) The license check; the data migrations.
6. Response service with quotas; workflow documents; survey scheduling.
7. Matching, planning and survey logic as operators checked against reference
   definitions.
