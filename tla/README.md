# TLA+ models of the Kenarhin Labs backend, public site and PWA

This directory specifies the parts of the repository whose correctness depends on the order of
things: queues that deliver twice, workers that die between two database calls, cron passes that
overlap, transactions that wait for each other, browser tabs that share a store. Paths below are
relative to the repository root.

| File | What it is |
|---|---|
| `EmailOutbox.tla` | the transactional outbox of email and the passes that publish it |
| `EmailDelivery.tla` | the Cloudflare Queue, its consumers, the durable claim on a message row |
| `EmailPipeline.tla` | the two composed, from an accepted request to a decided email |
| `EmailPromise.tla` | abstract: what "accepted" promises; the pipeline implements it |
| `Requests.tla` | the HTTP requests that write: forms, leads, admin replies, changes and commands |
| `Correspondence.tla` | what a form, a reply or an inbound email becomes, up to the rendered email |
| `Conversations.tla` | how the answer to an email finds its thread |
| `Inbox.tla` | receipts of inbound email, threads, unread counts, attachments, admins |
| `Content.tla` | canonical content in Postgres: concurrent statements, policies, revisions, events |
| `Policies.tla`, `PolicyTables.tla` | row-level security of every table, before and after its rewrite |
| `Deletions.tla`, `SchemaKeys.tla` | foreign keys, their actions and the triggers a delete sets off |
| `OrmSchema.tla` | the Drizzle declarations, compared with the database |
| `ReadModel.tla` | abstract: the guarded batch that applies one event to the public D1 database |
| `PublicTables.tla`, `PublicSchema.tla` | the D1 tables with their constraints; implement `ReadModel` |
| `Projection.tla` | queue consumers and workflow steps that apply events to `ReadModel` |
| `Webhooks.tla` | webhook ingestion over an idempotency store |
| `MediaQueue.tla` | the consumer of the media queue |
| `ObjectStorage.tla` | the adapter over R2: writes, ranges, deletes, the paged listing |
| `RetryQueue.tla` | the retry queue that several tabs of the admin PWA share in IndexedDB |
| `Drafts.tla` | the draft store of the admin PWA, in the same database |
| `PwaClient.tla` | registration and updates of the service worker in several tabs |
| `InstallPrompt.tla` | the controller of the installation prompt |
| `PwaCaching.tla`, `WorkerRules.tla` | the runtime rules of both service workers and the caches they fill |
| `PublicForms.tla` | the client lifecycle of the public site, Turnstile, the intake form |
| `SiteShell.tla` | theme menus, mobile menu and animations over page changes |
| `EmailOutboxProofs.tla`, `EmailDeliveryProofs.tla`, `EmailPipelineProofs.tla` | theorems about the halves of the email path and about the whole |
| `PublicSiteProofs.tla` | theorems about the tables of the read model with their constraints, and the forms |
| `WorkerProofs.tla` | theorems about the read model, alone and behind its queue, webhooks and the media queue |
| `InboxProofs.tla` | theorems about the inbox, conversations and correspondence |
| `StoresProofs.tla` | theorems about requests, content, deletions, policies, object storage and drafts |
| `BrowserProofs.tla` | theorems about the retry queue, the service workers, the installation prompt and the shell |
| `MC*.tla`, `MC*.cfg` | small instances for TLC |
| `PROJECT.json` | components, runs, mutants, hazards, findings, theorems, and the source lines of every definition |

To check a run: `tlc -config MCInbox.cfg MCMail` (section 4 says which module a configuration
belongs to). To check proofs: `tlapm PublicSiteProofs.tla`.

## 1. Inventory

### The path of an email

**Requests** (`apps/api/src/routes`, `middleware`, `services/turnstile.ts`, `intake.ts`,
`communications.ts`, `unavailable.ts`). State: what was committed, which Turnstile tokens were
redeemed, who is active and granted what. Each awaited call of a handler is a step: rate
limiter, siteverify, the two reads that resolve an admin, the thread, the accepting transaction,
the publication. Hard: the caller repeats what it has not heard of; answers are lost after their
effect; a role goes between two reads. Correct means: accepted is stored; stored twice only for
a sender that could not know; nothing stored for who was never entitled.

**Intake, replies and templates** (`services/intake.ts`, `communications.ts`,
`packages/email/src/templates.ts`, `channels.ts`, `email-job.ts`, `validators/src/public.ts`,
`db/src/queries/intake.queries.ts`). One transaction writes the domain row, the message rows and
their outbox rows. Hard: planner and consumer each check the same job by their own rules.
Correct means: together they keep what the 202 promises, and no job is committed that the
consumer refuses.

**Email outbox** (`packages/db/src/queries/email-outbox.queries.ts`,
`apps/api/src/services/email-outbox.ts`). State: the rows of `sync.outbox_events` of type
`email.transactional.requested.v1`: status, attempts, `available_at`, `locked_at`. Operations:
claim due rows with `FOR UPDATE SKIP LOCKED`, complete, fail (with backoff, dead-lettered after
ten claims), dead-letter. `publishPendingEmailOutbox` strings them together around one
`queue.sendBatch`. It runs from cron every minute (`apps/api/src/index.ts`, 100 rows) and after
each accepted intake or reply (10 rows), so passes overlap. Hard: a pass may die with rows
leased; no closing update tests whose lease it is. Correct means: a processed row was published;
overlapping passes exclude each other within a lease; a row is given up only after all its
attempts; every row is settled in the end.

**Email queue consumer and delivery** (`packages/email/src/queue-consumer.ts`,
`packages/db/src/queries/email-delivery.queries.ts`). State: the queue and its dead-letter
queue; status, `retryable` and `last_attempt_at` of `comms.email_messages`. Hard: at-least-once
delivery, concurrent consumers, a fifteen-minute lease that a slow sender outlives, calls that
fail after they took effect. Correct means: one acceptance by the provider, no email lost by an
acknowledgement, no outcome overwritten, no false success.

**Inbox** (`services/inbound-email.ts`, `email-inbox.queries.ts`,
`packages/email/src/thread-address.ts`). State: threads with status and unread count, messages,
R2 objects. A receipt finds the thread, uploads attachments, files message and thread in a
transaction, and cleans up after itself. Hard: the thread is chosen in an earlier call than it
is used in, uploads precede the transaction that refers to them, senders deliver again after
errors, Message-IDs are learned late or never. Correct means: accepted mail is filed, at the
right party's thread, in the conversation it answers, and counts as unread until seen.

### Canonical content and the public read model

**Content, roles and policies** (`supabase/migrations`). State: content items with status, slug
and publication date, revisions, projection events, roles and profiles. The Data API sends one
statement per transaction; triggers number revisions and write events in it; row-level policies
decide at the row as it is by then. Hard: READ COMMITTED re-reads rows after waiting; event
versions are drawn before commit; cascades reach tables whose triggers refuse. Correct means:
what is visible was permitted; history is complete and in commit order; a delete leaves history
and tells the read model.

**Public read model** (`packages/sync/src/d1-writer.ts`, `projectors.ts`, `registry.ts`, the D1
migration). One operation: the batch of one event, mutation and receipt, guarded by the receipts
of the aggregate. Hard: events come late, twice and out of order; a unique slug or a foreign key
refuses a batch; a cascade takes rows whose events are recorded. Correct means: the newest event
wins, stale ones are suppressed, and the tables converge to what is published.

**Projection consumers and workflow** (`packages/sync/src/processor.ts`, `queue-consumer.ts`,
`workflow.ts`). Load the event, project it, apply it, tell the source; retry, dead-letter or
acknowledge. Hard: queue and workflow run one event concurrently, every call may fail after it
took effect.

**Webhooks, media queue, object storage** (`apps/api/src/routes/webhooks.routes.ts`,
`services/media-jobs.ts`, `packages/storage`). Small consumers of unreliable deliveries. The
idempotency store, the webhook handler and the media processor are ports without an
implementation, modelled from their use.

### Browsers

**Retry queue and drafts** (`packages/pwa/src/storage`). State: items and drafts in IndexedDB,
shared by tabs. Hard: reads and writes in separate transactions, tabs that close, logout in
between. Correct means: an operation succeeds once and is not lost; drafts stay within the limit
and never outlive a logout.

**Service worker, caches and installation** (`packages/pwa/src/client`, `config`, `security`,
`apps/web/src/lib/pwa/register.ts`). Hard: a worker is shared by tabs, a prompt may be used
once, the first matching rule wins. Correct means: no page is taken over unasked, no private
answer is cached.

**Public site** (`apps/web/src/lib`). State: the starts and cleanups of pages, the Turnstile
script and its tokens, submissions, theme, menu, animations. Hard: every import is an await that
a page change may overtake. Correct means: each handler has one owner, a success is that of the
newest submission, controls say what they control.

### How they interact

```
 form / lead / reply ──(Requests)──transaction (Correspondence)──▶ email_messages + outbox_events
                                      │ claim, sendBatch, complete        (EmailOutbox)
 cron, waitUntil ─────passes─────────▶│
                                      ▼
                             EMAIL_QUEUE ──▶ consumer ──claim/mark──▶ email_messages
                                      └──▶ dead-letter queue              (EmailDelivery)
 Email Routing ──▶ receive ──▶ R2, threads, messages ◀── admins  (Inbox, Conversations)
 Data API ──policies──▶ content tables ──triggers──▶ outbox_events   (Content, Policies, Deletions)
 content events ──▶ CONTENT_QUEUE / Workflow ──▶ processOutboxEvent       (Projection)
                                                    └──▶ D1 batch  (ReadModel, PublicTables)
 browser tabs ──▶ IndexedDB (RetryQueue, Drafts); service worker (PwaClient, PwaCaching)
 pages ──▶ lifecycle, form, shell (PublicForms, SiteShell) ──▶ Requests
```

`EmailPipeline` composes outbox and delivery, which share the message row and the queue.
`Projection` and `PublicTables` each instantiate `ReadModel`. Other modules meet by assumption:
`ReadModel` takes it for granted that events of an aggregate are numbered in the order of their
commits, which is `EventsInCommitOrder` of `Content`; `Inbox!Reply` and `EmailPipeline!Accept`
are two sides of one transaction, whose content is in `Correspondence`; `PublicForms!Serve` is
all of `Requests` that the page sees. The projection and the email outbox use one database table
but different event types; `sync.claim_outbox_events`
(`supabase/migrations/20260710000200_create_functions_and_triggers.sql:168`) would claim both,
and has no caller in the repository.

## 2. Plan

Done, in this order: the email path; the read model and its consumers; the inbox; the retry
queue; drafts, forms, requests and webhooks; content, policies and deletions; conversations and
correspondence; storage, media queue, service worker and shell; the D1 tables. Proofs of the
email path and its promise, the read model, its tables and its consumers, the forms, the inbox
and conversations, correspondence, the retry queue and the rest of the browser, webhooks, the
media queue, requests, content, policies, deletions, storage and drafts: every safety property
that a passing run checks is proved.

Left:

1. `LeaseTiming`: the backoff of busy copies (30+60+120+240+480 = 930 s) against the lease of
   900 s, with durations as numbers.
2. When a publisher of projection events exists in the repository: `Content`, the publisher and
   `Projection` composed.
3. When the ports of `apps/api/src/services/unavailable.ts` get implementations: the admin
   commands behind `Requests`, the media processor and the webhook handler.

## 3. How the models correspond to the code

The `map` of `PROJECT.json` gives the lines of every definition. Conventions common to all
modules:

* **A step is one call.** Each awaited call of the database, queue, provider, R2 or IndexedDB is
  one action, and what other actors do comes between any two. A transaction, or a D1 batch, is
  one action, except in `Content`, which is about what happens inside.
* **Calls fail in two ways.** `...Throws`, `...Fails`, `...Unconfirmed` are the failures of a
  call, and they choose whether it took effect first: `withDatabase` closes its pool after the
  statement ran, and an answer can be lost. `Crash`, `Die` and `Abandon` end an invocation
  anywhere.
* **Time is a flag.** `due` (backoff over), `stale`/`expired`/`lapsed` (lease over), `aged`
  (expired) become true at any moment after the code sets the clock, so every race of a timer
  with an answer is covered. Real durations are not modelled.
* **The queue** is a number of copies per message and delivery number, unordered. A copy that is
  not acknowledged comes back with the next number, or is parked after the last.
* **History variables** (`published`, `sends`, `answers`, `stolen`, `runs`, `seen`, ...) are
  read by properties only, never by a guard of the code.
* **`Mutant of X`** comments mark an operator that is `X` with a plausible bug. No specification
  uses it. It is there to show that the property it is listed with in `PROJECT.json` can fail:
  with the mutant in place of `X`, TLC finds the property violated.

### Email: EmailOutbox, EmailDelivery, EmailPipeline, EmailPromise

`pass[p]` is where a publisher is in `publishPendingEmailOutbox`, `batch[p]` what it holds.
`ClaimOutbox` takes any claimable subset up to `Limit`: `SKIP LOCKED` may pass over rows, and
which come first does not matter to the properties. `DeadLetterOutbox`, `SendBatch`,
`CompleteOutbox`, `FailOutbox` are the other calls in their order; `CompleteFails` goes to
`FailOutbox` as the catch clause does. A claim whose answer is lost (`ClaimLost`) and a pass
that dies (`Abandon`) leave rows leased with nobody to work on them. `attempts` is counted to
`DeadLetterAttempts`, beyond which only `>=` is tested.

`step[w]` is where a consumer is in `consumeEmailBatch`; it works on one copy at a time, so the
rest of a batch is still in the queue. `Send`, `SendRefused` and `SendUnconfirmed` are the
binding's outcomes: only errors with a provider code can be retryable. `MarkSent` demands that
the row is `processing`, and throws otherwise. `next_attempt_at` is the failing consumer's own
clock at that moment, so it never delays a later claim and no variable stands for it.

`EmailPipeline` instantiates both halves; its actions of a pass are `ClaimBatch`, `Publish` and
`LosePass`, those of a consumer `Deliver`. The halves meet in `Accept` (both rows or neither)
and `Handoff` (the stored batch becomes copies in the queue). `EmailPromise` says what a caller
is owed: none, owed, parked with an operator, final. The refinement maps a message to `final`
when its row is terminal, to `parked` when a copy is in the dead-letter queue or its outbox row
is dead-lettered, and to `owed` otherwise; `exposed` is the delivery's `stolen`.

### Requests, Correspondence, Conversations, Inbox

`Requests!Handle` is the disjunction of the handler's steps, which go by `step[r]`. Kinds of a
request are what a sender may send (`KindsOf`): lead, form, reply, update of a thread, and
command, which stands for every admin route whose service is a port that throws. A token is
spent by siteverify whether or not its answer arrives.

`Correspondence` follows the data: `Submit`, `ReceiveNew`, `ReceiveAnswer`, `ReplyInThread` are
the planners with the validation in front of them, `Commit` the rows they write, `Consume` the
consumer's parser and renderer. Texts are records of what limits can tell apart.
`SentAsRecorded` compares what is mailed with its row.

`Conversations` names a thread by its first message and a message by its Message-ID. `known` is
what the table has learned of Message-IDs, `order` the order of filing. `FindConversation` looks
at the signed address first, then at the newest filed message of the sender's that the headers
name, as `findThread` does.

In `Inbox`, a receipt is one invocation and names what it generates. `Persist` is the
transaction; `PersistDuplicate` its conflict path; `Discard`, `CleanUp` and `PersistThrows` the
ways out. `UploadThrows` may have stored some attachments of the email before the one that
failed; the catch clause takes them back. `closed` stands for `archived` too. `OpenThread` is a
read by an admin; it changes only the history `seen`.

### Content, Policies, Deletions, OrmSchema

`Content!Begin` takes the statement's snapshot, `Write` is the moment its row lock and slug are
free: the row is read again, policies judge it, triggers run; `Commit` and `Rollback` end it.
`Claims` is the unique index on live rows. How Postgres orders these is external and named so in
the map.

`PolicyTables` transcribes the policies of both migrations per table; `Policies` evaluates one
statement at a time under them. A row is `shown` or `hidden`, which is what a policy's condition
on columns amounts to. `Deletions` holds rows as table and number with their references; `Gone`
and `Changed` are the closure of a delete under the keys' actions, `IsRefused` and `Told` what
the triggers make of it. `Grounds` is the set of rows that history and the system roles rest on
through required or protected references, which can never go. `OrmSchema` has no state: it lists
what each file of `packages/db/src/schema` declares, and its assumption `OrmAgrees` compares
that with `SchemaKeys`, the unique columns and the states of the migrations. A profile stands
there for its user, and a declaration may leave out a key, not invent one.

### ReadModel, PublicTables, Projection

An event is a version with aggregate, action and key; events of one aggregate are emitted with
growing versions. `Fresh` is the watermark of the guard (`Newer` in `PublicTables`), `Shown` the
mutation, `ApplyBatch` the batch. `KeysOf` says which keys an aggregate may use: a singleton of
its own for tables keyed by id, shared keys for tables keyed by path. A version the registry
rejects stays unprojected.

`PublicTables` adds what D1 does with a batch: `Refused` is a unique slug, a reference to a row
that is not there, which throws and leaves everything to the retry; `Deleted` includes the
actions of the references. That every projector fills the required columns is an assumption of
`PublicSchema` that TLC evaluates (`ProjectorsFillTheTables`). A projected value is its slug,
its reference and whether it carried the optional columns, whose older values an upsert keeps.
An event is assumed to state its reference, null for none: the repository has no publisher that
could leave out `tool_id` or `parent_id`, which would keep the old one. Batches are ReadModel's
(`TablesKeepReadModel`) but where a cascade takes a row along: that row is absent although its
newest event says otherwise.

`Projection` extends `ReadModel` with runners: `durable` ones are workflow steps (no catch
clause, bounded reruns), the others queue deliveries. `LoadMissing` is the "missing" answer for
an id the source does not know yet (`Early`). `DrainedIsCurrent` relates the two: a queue that
has run dry leaves the tables as what was published last. Messages whose body does not parse,
which the consumer logs and acknowledges, are left out: nothing but the relay writes this queue.

### Webhooks, MediaQueue, ObjectStorage

`Webhooks!Process` is the next step of `processWebhook`: verify, claim, handle, complete, or
release in the catch clause; `HookCrash` ends it anywhere. `MediaQueue` hands a batch over
(`HandOver`), works through it (`ProcessMedia`, `Fail`) and settles it message by message
(`Fate`); an invocation that dies loses its verdicts or keeps them (`kept`).
`ObjectStorage!ListPage` is one call of the generator behind `listAll`; R2's pages are any run
of keys after the cursor.

### RetryQueue, Drafts

`process` is `ReleaseExpiredLeases`, `PruneExpired`, `ClaimReady` and, per item, `Begin`, then
`ExecuteResolves` or `ExecuteThrows`, then `complete` (`CompleteReads`, `CompleteDeletes`) or
`fail` (`FailReads`, `FailPuts`). `copy` is the item as `fail` read it. `ClearOwner` is logout.
In `Drafts`, `save` is `SaveBegins` (the times are taken; no two saves fall into one
millisecond), `SaveReads`, `SavePuts`, `PruneExpired`, `EnforceLists`, `EnforceDeletes`, and
`CloseTab` may come between any two; `overtaken` marks a tab whose list another tab has
outdated.

### PwaClient, InstallPrompt, PwaCaching, PublicForms, SiteShell

`PwaClient` has the worker lifecycle of the browser and the callbacks of `registerPublicPwa` per
tab. `PwaCaching` enumerates requests by method, origin, what follows a listed prefix, use and
whether they carry a secret header; `Route` takes the first rule that matches, `Classify` tests
what `classifyRequest` tests, in its order. The rules look at the method and the address alone,
so `Unseen` names what they store although the classification refuses it.

`PublicForms` numbers pages, starts, tokens and requests; a start is `importing`, then waits for
the script, then has handed over its cleanup. `SiteShell` sets up the enhancements of a page one
after the other and hands them over together; `live[s][e]` is the document an animation was
bound to. In both, `ImportRejected` ends a start (`lost`) without handing anything over: what it
had bound stays, and `cleanup` remains the older start's. `overlapped` is the set of starts that
another start, or a page change, interfered with during their setup; properties of a start
except that start alone, and not the behaviour.

## 4. The runs

Some runs check several modules at once: their MC module declares the variables of all of them
and a variable `part` that is chosen initially and never changes, so a behaviour is one of one
part, and the state space is the sum of the parts. A part that is not looked at rests in one
initial state. Properties of a part hold trivially of the others.

| Run | Module and instance | States | Properties |
|---|---|---|---|
| `MCEmailOutbox` | `MCStores`: outbox (3 rows, one malformed, 2 passes, 2 rows a pass, 2 attempts, 2 lost leases); content (2 items, 2 slugs, 2 users, 3 roles, 6 statements, 3 versions); requests (2 requests, 2 tokens, 3 senders); drafts (2 tabs, 2 keys, limit 1, 3 saves); policies (every table and caller); deletions (3 rows, 2 of a table); storage (5 keys, pages of 2) | 1.0 million | `ReferencesHold`, `SettledTruthfully`, `OneHolderUnlessStolen`, `VisibleWasPermitted`, `HistoryInOrder`, `StoredAsEntitled`, `DraftsHold`, `NothingOpened`, `HistoryAloneLasts`, `StorageKeepsItsWord`; `OrmAgrees` |
| `MCEmailDelivery` | `MCDelivery`: delivery (2 messages, one malformed, 2 consumers, 3 deliveries); passes (1 email, 2 passes, 1 consumer); consumers (1 email, 1 pass, 2 consumers); media (3 messages, one malformed, batches of 2) | 828 thousand | `SentOnceUnlessStolen`, `NeverStranded`, `NeverForgotten`, `KeepsPromise`, `JobsSettledApart` |
| `MCReadModel` | `MCPublicSite`: rows (2 aggregates by id, 5 versions); pages, offers, menu (2 or 3 aggregates, 4 events, constraints); forms (2 pages, 3 starts, 2 tokens, 2 requests) | 203 thousand | `NewestWins`, `Converges`, `TablesConverge`, `TablesKeepReadModel`, `FormsOwned`, `SuccessIsNewest`, `FormSettles` |
| `MCProjection` | `MCWorker`: projection (2 runners, 1 event that a message may name early, 3 deliveries, 3 runs); webhooks (3 deliveries of an event); mail (1 email, 1 pass, 1 consumer); with fairness | 162 thousand | `NothingDropped`, `RecordsAreTrue`, `EventuallyHandled`, `AcknowledgedIsHandled`, `MailSettles` |
| `MCInbox` | `MCMail`: receipts (4 mails, 3 receipts); conversations (4 messages, 2 parties); correspondence (texts on both sides of every limit, 1 thread, 2 replies); projections (1 aggregate, 2 events, 1 consumer, 2 deliveries) | 1.02 million | `AcceptedIsFiled`, `RightParty`, `UnseenIsUnread`, `AttachmentsKept`, `AnswersReturn`, `CorrespondenceHolds`, `DrainedIsCurrent` |
| `MCRetryQueue` | `MCBrowser`: queue (2 tabs, an automatic item with 2 attempts and a manual one with 1, steps taken while at most 2 leases were overtaken, successes unrecorded or items cleared); client (2 tabs, 3 builds); install (2 calls, 3 offers); caching (caches of one entry, both sites); shell (2 documents, 3 starts); themes (2 documents, 2 starts, themes chosen here and in another tab) | 955,000 | `SucceedsOnce`, `NothingVanishes`, `UpdatedOnRequest`, `OfferedOnce`, `OnlyPublicKept`, `ControlsTellTheTruth` |
| `MCEmailDeliveryBinding` | `MCEmailDelivery` | | violates `BindingSuccessRecorded`, section 7 |
| `MCReadModelByPath` | `MCReadModel`: 2 aggregates sharing paths, 3 versions | | violates `StaleSuppressed` |
| `MCInboxMailbox` | `MCInbox` | | violates `FiledInItsMailbox` |
| `MCRetryQueueCleared` | `MCBrowser` | | violates `ClearedIsGone` |
| `MCPolicies` | `Policies` | | violates `TaxonomyIsEditable` |
| `MCDeletions` | `Deletions` | | violates `KeysMeanWhatTheySay` |

`CHECK_DEADLOCK FALSE` is everywhere: all these systems stop when there is no more work. The
type invariants of `PwaClient`, `InstallPrompt`, `PwaCaching`, `SiteShell`, `PublicForms` and
`PublicTables` are parts of `UpdatedOnRequest`, `OfferedOnce`, `OnlyPublicKept`,
`ControlsTellTheTruth`, `FormsOwned` and `TablesConverge`; all others are proved instead.

**What the safety properties say, and what they do not.** Several hold "unless stolen": a claim
was taken from a holder whose lease had expired, and which may still be working. That is the
exact limit of the code. Leases have no fencing token, and the closing updates match on the id,
so beyond it duplicates are possible, and the models contain them; the properties say that
nothing but a lease overrun leads there. In the same way `AcknowledgedIsHandled` names the two
ways in which a "duplicate" is answered too early, `FormsOwned` and `ControlsTellTheTruth`
except starts that another one overlapped or whose import was rejected, `FormSettles` a loader
that waits for a script that failed before, `OnlyPublicKept` what its rules do not see (a
fragment right after a prefix, a secret header at a media origin), `DraftsHold` saves in flight
and decisions another tab has outdated, `UnseenIsUnread` what a reply buried, and
`TablesConverge` what withdrawals above a row take along: each exception is a history variable
or a condition, it stands for something the code really does, and nothing else may lead there.

**Bounds.** Two actors of a kind are enough to interleave, and each property relates two at
most. Two attempts or deliveries give a first, a middle (three) and a last. Rows are coupled
only by a pass's batch and limit: three rows, two per pass, let batches overlap and one be
malformed. Copies per message and delivery number are counted to `MaxCopies = 1`: a further copy
of the same number behaves as one that comes later, which redelivery by the publisher covers.
`MaxFaults` bounds the failures that leave a row leased with nobody there. In the pipeline one
email suffices, since emails meet only in batches, which the outbox part covers; two passes and
two consumers are looked at apart, since each half meets the other through one row. In the read
model five versions let two aggregates be created, deleted and created again; with constraints
four events are enough for two pages to exchange slugs and for a tool to go and come back under
its offer. The projection part with its liveness has one event and spends its states on runners,
redeliveries and early messages; the projections part has two, one of which may delete or
replace what the other wrote, and one consumer whose deliveries bring them in any order. Three
receipts let an email be delivered twice around another one; four messages are a form, a reply,
an answer and one more. In content, two items contend for a slug and two users for a row; three
versions let one commit overtake another. Three saves with a limit of one make two drafts too
many. Three rows of the schema are a row, one that refers to it, and one that refers to that.
Pages of two list four keys in two or more calls. `Expiring` limits which retry items may reach
their expiry and `MaxMishaps` after how many mishaps the queue is left alone: what excuses an
item is a mishap of its own, so two, one for each item, meet already; `runs` counts to one past
the limit and `successes` to 2. The theorems need neither.

**Symmetry** is over publishers, consumers, tabs, receipts, items and requests, in runs whose
properties are safety properties. Where several parts have a pair to swap, the pairs are swapped
together: a behaviour is of one part, so this group acts on each part as its own.

## 5. Fairness

`PipelineFairness` of `EmailPipeline` assumes: timers fire; some pass claims when rows stay
claimable (cron fires every minute); a running pass or consumer goes on (weak fairness per
invocation); the queue delivers a copy it keeps holding whenever consumers are free again and
again (strong fairness per copy, since consumers may be busy in between). Nothing is assumed of
clients, of crashes, or of calls succeeding. `MailSettles` needs the bound on lost leases: a
pass that dies every time leaves rows leased forever, and only the failures it records count
towards dead-lettering. It means decided or with an operator: a job whose every delivery fails
ends in the dead-letter queue, which has no consumer.

`Projection!Fairness` is the same for deliveries and running invocations. Workflows are not
assumed to start.

`FormsFairness` of `PublicForms`: events that are due fire, a script loads or fails, a setup
that can go on does, a challenge that is being solved calls back, and a request that is out is
answered, fails, or is aborted (the code sets a timeout of its own). Nothing is assumed of the
visitor.

The retry queue has no liveness property: nothing in the repository schedules `process`. The
inbox, webhooks and requests have none: what happens next is up to the sender.

## 6. The proofs

The proofs hold for all values of the constants, from the named assumptions of the module they
extend, which TLC evaluates in the runs. The assumptions say which sets a constant lies in, that
bounds are naturals and that `Nothing` and its like are no members of the sets they stand
beside; in `Drafts` also that one browser has finitely many tabs and keys, since the limit
counts them; in `Correspondence` that a Message-ID of the provider has a character; in
`ObjectStorage` that keys are numbers in the order of their names. Each component has an
inductive invariant, one lemma per conjunct or per action that disturbs it, and a last step by
temporal logic.

* **`EmailOutboxProofs`**: `SettledIsTrue`, `LeasesExclude`, `SettledStays`. `TypeOK` and the
  properties do not carry themselves: a step of a pass needs to know what it holds. `Held` says
  which rows are in a batch at which step, `HeldIsLeased` that, unless stolen, they are
  `processing`, or `processed` already.
* **`EmailDeliveryProofs`**: `SentOnce` is strengthened by `SingleSender`: without theft, at
  most one consumer can still make the provider take the message or reopen its row for another,
  and neither can happen after an acceptance. It covers the catch clause: a consumer about to
  record a *retryable* failure counts as a possible sender, because the row it reopens may be
  sent again. `NothingStranded`: the case to look at is the acknowledgement, which is taken only
  after the row is seen, or made, final. Also `TypeCorrect` (with `JobsInHand`: a consumer can
  return its copy only because it has one), `FinalOutcomes`, `AcceptedTruthfully`.
* **`EmailPipelineProofs`**: `ImplementsHalves` shows the pipeline to be a behaviour of
  `EmailOutbox` and one of `EmailDelivery` at once, so the invariants above hold of it.
  `NothingForgotten` joins them: a settled outbox row was published, so its job was enqueued,
  and what was enqueued is pursued. `Refinement`: seen as `EmailPromise`, a step accepts, parks,
  releases, mails or decides one email, and every other step leaves the promise alone; that a
  second mail needs `exposed` is `SentOnce`'s invariant once more.
* **`PublicSiteProofs`**: of `PublicTables`, `TablesAlwaysConverge`: `RowFollows` says what a
  row is after the recorded events, gone ones included: the newest event's, without a reference
  that was withdrawn, or no row where a cascade took it. `ShownFollows` says the same of what is
  published, `SlugsFree` that an upsert takes a slug that none of its rivals had when it was
  emitted. With `EventsInOrder` a refusal therefore means that an older event is missing, or a
  row it refers to. `SchemaFacts` are the few facts about the schema that this needs: only
  navigation refers to itself, and what is cut loose there cascades. `TablesRefineReadModel`: a
  step that meets no row of a cascading table is one of `ReadModel` or leaves its variables
  alone. Of `PublicForms`, `FormsAlwaysOwned` and `SuccessIsAlwaysNewest` rest on `InTurn`,
  whose parts speak of each start that no other one overlapped, whatever the others do:
  `SetupAlone` (it sets up alone, and what it bound is bound while the lifecycle holds its
  cleanup, or its import was rejected), `WaitingIsNewest` (what it waits for was sent from this
  page and is the newest request of the starts that may speak for the page) and `TokensFresh` (a
  token belongs to one start, and what the enabled button would send was not sent before).
* **`WorkerProofs`**: of `ReadModel`, `NewestAlwaysWins` rests on `KeysAreOwn`: an event's key
  is one its aggregate may have. `AlwaysConverges` needs that `published` is what the newest
  projectable event says, and that versions are used without gaps. `StaleNeverShows` is the
  action property that fails for tables keyed by path. Of `Projection`, `NeverDropped` and
  `RecordedTruthfully`, whose invariant adds what a runner knows of its event at each step
  (`Working`, `Known`), and `DrainedShowsPublished`, which joins both halves: a projectable
  event that was handed over and is neither under way nor parked has its receipt, because
  nothing is dropped and what is recorded is true; and with all receipts there the rows are what
  was published. Of `Webhooks`, `AcknowledgedWasHandled`, up to the two early answers of section
  7: `ClaimedByOne` says whose claim it is, `OnRecord` that a second handling has left its mark
  in `unrecorded`. Of `MediaQueue`, `SettledApart`: it needs that a held message is in exactly
  one batch, and that its verdict agrees with its effects.
* **`InboxProofs`**: of `Inbox`, `PartiesApart`, `AcceptedKept`, `UnreadIsDurable`,
  `AttachmentsStay`. `ChoseWell` carries the choice of `FindThread` over the upload to the
  transaction that uses it; `DiscardsFiled` says that a receipt that discards has seen its
  duplicate filed. Of `Conversations`, `AnswersAlwaysReturn`: `Listed` relates the order of
  filing to the stages, `Wellformed` says what references may name, `InOrder` that a known
  ancestor was filed before, unless it is late, `Placed` where each message is. The lookup in a
  sequence is a `CHOOSE` of the last known reference, so no induction over chains is needed. Of
  `Correspondence`, `SentAsItWasRecorded`, for texts and chains of any length: every thread can
  be answered (`GoodThreads`: its subject is not empty, what it refers to is a chain), and every
  job in the queue has its row and passes the consumer's parser already when it is committed.
  `ReferencesAreReadable` is what that rests on: of the suffixes of a chain that
  `replyReferences` tries the empty one always fits, so there is a longest that does, and it is
  within the parser's limit; a header that names anything is not empty.
* **`StoresProofs`**: six components.
  - `Requests`: `StoredOnlyAsEntitled`. `Coherent` ties a handler's step to what was sent and
    told, and what has `Passed` the last check to the token it spent or the grants it read. A
    sender begins again only after an answer that says so, which bounds what is stored.
  - `Content`: `VisibleOnlyIfPermitted` and `HistoryKept`. What a transaction has written stays
    true of its row until it ends, because the row is locked: its revision is the next one, its
    version is above those of committed events of that row, and of every event that had the slug
    it takes, because the index made it wait for them.
  - `Deletions`: `ReferencesKept` is referential integrity: what a cascade leaves refers to
    nothing it took (`Gone` is closed), and what "set null" clears may be empty. The second half
    is not a fact about Postgres but about this schema, and `SoundKeys` goes through it key by
    key: a key that clears a column clears one without "not null", and a link goes with what it
    names, so its check is not left without both. `HistoryIsKept` is the first half of
    `HistoryAloneLasts`: no series of deletes ever takes a row that history or a system role
    rests on, however indirectly. What a delete leaves is a set that lasts and is closed under
    what its rows must refer to, so it contains the least such set (`GroundsLeft`).
  - `Drafts`: `DraftsAreCurrent`. The number of current drafts is bounded although several tabs
    act on lists that are out of date: `LimitKept` says it for *every* set of tabs that might
    yet delete what they have listed, which is what makes it inductive, and `NewestAreFew` (by
    induction over the drafts' times) that a fresh list leaves at most the limit.
    `DecisionsHold` says when an old decision is still right: the owner's drafts are the same,
    or the tab is `overtaken`. What `DraftsHold` leaves open are saves in flight or cut short,
    which count beyond the limit, saves a logout spared, and deletes by an overtaken list.
    `TimesDiffer` orders the drafts, `AfterLogout` is about the saves in flight.
  - `Policies`: `NothingIsOpened`. `NoLooser` compares two policies permission by permission,
    `DoneMonotone` says that a statement passes under the looser one too, whatever its caller
    holds, and `OptimizedTighter` goes through the rewrites of every table.
  - `ObjectStorage`: `StorageWordKept`, for any keys, sizes, pages and writes. `GivenSoFar`:
    what was listed is in order and up to the cursor, and of what was there all the time
    everything up to the cursor was given; a page that is cut short is therefore followed by one
    that starts where it ended, even if its last key is gone by then. `RangeIsTrue` is the
    arithmetic of ranges.
* **`BrowserProofs`**: five components.
  - `RetryQueue`: `LeaseGuards`, `NothingIsLost`, `FinishedIsFinal`. `Exclusive`: while leases
    are kept, one tab has an item in hand; `Counted`: runs are attempts; `Succeeded` and
    `Accounted`: a success is followed by nothing but the deletion of its item.
  - `PwaClient`: `AlwaysUpdatedOnRequest`, with `BuildsInOrder`: nothing waits before a first
    worker is active, and no page is younger than the active one.
  - `InstallPrompt`: `AlwaysOfferedOnce`. `OffersTaken`: the call that shows an offer took it
    out of the controller before it waited, so no two calls hold the same one.
  - `PwaCaching`: `AlwaysOnlyPublicKept`. `PublicRoute` and `AdminRoute` go through the rules in
    their order and say of every request that its first rule keeps nothing, or keeps what the
    classification allows or does not see (`Unseen`); `CachesFit` adds that caches are finite.
  - `SiteShell`: `ControlsAlwaysTell`. `RailsTold` says what the flags of a rail are while it
    runs, and that one which does not run has none, since a revert forgets them. `OneSetUp` says
    of a start that was not overtaken that it sets up alone (`Alone`), and that what it runs is
    its own, the cleanup's, or lost with its import. `PressedTold` needs it: of such starts one
    at most has a rail on the document, the one to be cleaned up (`OneRail`).

**Only model-checked**: liveness (`MailSettles`, `EventuallyHandled`, `FormSettles`), since the
prover handles neither fairness nor `ENABLED`; `RestIsErasable`, the second half of
`HistoryAloneLasts` (what history does not rest on can be erased, which needs an order in which
the rows are taken, one after the other); and `OrmAgrees` and `ProjectorsFillTheTables`, which
are assumptions about two given schemas that TLC evaluates. No module that is proved about uses
a recursive definition.

## 7. Where code and documentation disagree

Six disagreements have a run whose counterexample shows them:

1. `MCEmailDeliveryBinding`: the binding resolves, `markSent` throws a database error, the error
   has no provider code and is classified as final, and the row is closed as failed
   (`packages/email/src/queue-consumer.ts:94`). `docs/backend-architecture.md:414` says binding
   success updates the row to `provider_accepted`.
2. `MCReadModelByPath`: the guard of a delete looks at the receipts of its own aggregate, not at
   the row (`packages/sync/src/d1-writer.ts:92`). In a table keyed by path a late delete removes
   the newer row that another aggregate published at that path. `packages/sync/README.md:9-10`
   says watermarks suppress stale versions.
3. `MCInboxMailbox`: digest and Message-ID are unique over all mailboxes
   (`packages/db/src/queries/email-inbox.queries.ts:262`), so an email sent to two mailboxes is
   filed in one, and the other receipt is confirmed as a duplicate.
   `docs/backend-architecture.md:423` describes matching a thread or creating a channel-aware
   new one.
4. `MCRetryQueueCleared`: `fail` writes back a copy it read before `clearOwner` deleted the item
   (`packages/pwa/src/storage/retry-queue.ts:280`), so the record is stored again after logout.
   `packages/pwa/README.md:75` says every record should be cleared on logout.
5. `MCPolicies`: the optimization of the policies leaves `content_categories` and `content_tags`
   with a SELECT policy for published items only, so who may write a link of a draft can neither
   see nor remove it (`supabase/migrations/20260711000600_optimize_rls_policies.sql:46`); the
   seed grants content.write "Create and edit content and taxonomy".
6. `MCDeletions`: the append-only triggers refuse the deletes and updates of referential actions
   too, so an item with a revision can never be deleted, nor a user with an audit log
   (`supabase/migrations/20260710000200_create_functions_and_triggers.sql:115`), whatever the
   keys say.

Met while modelling, part of the models, without a run of their own.

Email:

* A database error while claiming or reading closes the row as a terminal failure although
  nothing was sent, if a claim then exists (`queue-consumer.ts:72`,
  `email-delivery.queries.ts:115`). `NeverStranded` counts that row as final.
* If the commit of a receipt succeeds and its answer is lost, the catch clause deletes the
  attachments of the filed message (`inbound-email.ts:298`). `AttachmentsKept` excepts it
  (`unsure`).
* A reply clears the unread count of messages its author never loaded
  (`email-inbox.queries.ts:315`), though "unread thread state is the durable alert"
  (`apps/api/src/services/intake.ts:151-152`). `UnseenIsUnread` excepts it (`buried`).
* The thread id returned for a duplicate may name a thread that was never kept
  (`email-inbox.queries.ts:279`); nothing but a log reads it.
* A changed or lower-cased plus-address is rejected instead of being looked up by its headers
  (`thread-address.ts:85`, `inbound-email.ts:163`). An email that is filed after one that refers
  to it can draw later answers into its own thread. The Message-ID of an email is learned after
  it was sent, so an early answer opens a thread of its own.
* Every request has a fresh id, so a message sent again is stored again (`FiledOnce` says when).
  The answer of siteverify that is lost costs the visitor the token. Publish and schedule routes
  ask for content.publish and content.schedule, where SQL also wants content.write.
* A form's row and its confirmation have one `created_at`, so which is the latest depends on
  random ids. The templates `lead-received`, `project-update` and `content-workflow` have no
  producer.

Content and read model:

* Three records that pass a slug around, with events out of order, can refuse each other's
  batches until their retries end; replaying final states has the same limit
  (`docs/backend-platform-provisioning.md:278` speaks of rebuilding by replay). `TablesConverge`
  is about events that are all recorded.
* A tool withdrawn and published again leaves its offers without it; a hidden navigation entry
  takes its children along; an offer of an unpublished tool is refused on every attempt; a
  column an upsert does not carry keeps an older value (`packages/sync/src/projectors.ts:76`).
* `apply` answers "applied" for an event the guard suppressed while another receipt is newer
  (`d1-writer.ts:184` against `:147`); the answer is only logged.
* The transition table of `packages/core/src/content/workflow.ts` is called by nothing, and SQL
  takes any change of status. A publication date in the future becomes visible without an event.
  Events of canonical tables have a type no projector knows.
* `users.manage` without `users.read`, and `crm.write` without `crm.read`, can no longer update
  rows since the policies were rewritten. Inactive redirects and navigation entries are
  invisible to everyone. `002_security.test.sql` expects 85 policies, the documentation 139.
* The mapper's declarations leave out some keys (avatars, assigned_by, updated_by, uploaded_by,
  created_by, revision and audit actors) and the unique (provider, name) of integrations; what
  they do declare agrees.

Consumers and browsers:

* A repeated webhook delivery is answered as a duplicate while the first is in hand, whose
  handler may still throw; a claim left by a crash blocks its event for ever
  (`webhooks.routes.ts:57`).
* The media queue has no producer in the repository.
* A lease that expires on the last attempt leaves the retry item `failed` for good
  (`retry-queue.ts:308`), where `docs/pwa/pwa-offline-data-and-retries.md:323` and
  `docs/pwa/pwa-package-reference.md:371` speak of exhausted items as dead. A save of a draft
  under way at a logout stores it again.
* "Update now" in one tab reloads the other tabs without asking for unsaved input
  (`docs/pwa/pwa-public-site.md:110`); a page loaded before any worker does not reload at all;
  an offline hint hides the update's buttons. A rule for "/preview" does not match "/preview#x",
  so that page is kept although `classifyRequest` calls it sensitive.
* The rules of both workers look at the method and the address alone: a GET to a media origin
  with an authorization header is stored, though `classifyRequest` calls it sensitive
  (`request-policy.ts:75`), and so are opaque and private responses that `isResponseSafeToCache`
  refuses (`request-policy.ts:86`): the rules keep what has status 0 or 200.
* An import that is rejected ends `start` before it hands over its cleanups, and nothing catches
  it (`lifecycle.ts:16`, `:52`): listeners and animations outlive their page, and a form has no
  listener and says nothing. Two overlapping starts of the first page lose a cleanup
  (`lifecycle.ts:52`). A Turnstile script that failed and is found again in the same document
  never settles (`contact.ts:53`). With storage blocked, the theme menus name "System" after the
  second start. A start while the mobile menu is open removes its scroll lock.

## 8. Not modelled

* **Durations** (`queue-consumer.ts:42`, `retry-queue.ts:308`): timers fire at any moment here,
  so properties that need one timer to be longer than another are left to the plan.
* **A publisher of projection events** does not exist in the repository; `Projection` starts
  with a message to a queue.
* **Ports without implementation**: the event source, media processor, webhook handler and the
  admin services of `unavailable.ts` are modelled by the way they are called.
* **HTTP plumbing** (routing, CORS, headers, bearer parsing, JWT verification, health checks,
  cache headers) keeps no state; a rate limit and a session are steps that may refuse.
* **Wording and layout**: templates beyond what they need of a job, pages, components, styles,
  the drawing of animations. The components of the admin application are a generated component
  library with no data behind them.
* **Build files, tests, seeds other than grants**, and what only displays constants.
