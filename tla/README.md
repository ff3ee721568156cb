# Trackr platform: TLA+ models, checks and proofs

This directory holds a verification project for the Trackr platform
(`trackr_app/`, its GitHub workflows and the historical collectors). Modules
are written from the code at this commit; line numbers below refer to it.
`PROJECT.json` maps every definition to the lines it stands for.

- [The system](#the-system): components, state, operations, interactions
- [Modules](#modules): how each corresponds to the code, and what it leaves out
- [Runs](#runs): what is checked, within which bounds
- [Fairness](#fairness)
- [Proofs](#proofs)
- [Findings](#findings): where the code and its documentation disagree, or where
  a property had to be weakened because the code does not provide it
- [Not modelled](#not-modelled) and [Plan](#plan)

## The system

Subscribers keep alert preferences. Collectors fetch offers from trackers,
matching decides who is to hear of which offer, and workers mail the alerts and
write Notion pages. There is no long-running process: web requests run on
Vercel, and everything else is a command started every ten minutes by a GitHub
workflow, which is bounded (`alarm(90)`, a work budget of 80 s, a shell `timeout`)
and may be killed at any point. All coordination goes through PostgreSQL: rows
of work with a status, an attempt counter, a lease (`lease_until` or
`next_attempt_at`) and, for some, a token. Network calls are never made inside a
transaction, so every worker is a sequence claim transaction -> remote call ->
outcome transaction, and anything may happen between the three.

| Component | State | Operations | Talks to |
|---|---|---|---|
| Durable queue (`durable.py`) | `durable_jobs`: status, payload, cursor, attempts, lease token, backoff | `enqueue_job`, `process_jobs`, `match_batch`, `create_notion` | filled by collection, preferences, Notion routes; writes `matches`, `deliveries`, `notion_syncs` |
| Preferences (`preferences.py`) | `preferences`, `matches` | `activate_preference`, `reconcile_delivery` | enqueues a user's match job; revives and cancels deliveries |
| Alert mail (`workers.py`) | `deliveries`: status, mode, attempts, claim instant; `last_digest_date` | `process_immediate_alerts`, `process_digests` | SMTP |
| Account mail (`auth_mail.py`, `invitations.py`) | `auth_mail`, `invitations`, `magic_links`, `password_tokens` | `enqueue`, `process_auth_mail`, `deliver_invitation` | SMTP; revocation by `sessions.py` |
| Sign-in (`sessions.py`, `auth.py`, `main.py`) | `users`, `sessions`, password hash, links | consume a link, first password, reset, login, logout, disable, promote | revokes account mail |
| Collection (`sources.py`, `scraper.py`) | `source_snapshots` (generation, token, lease), `offer_sources`, `offers` | `reserve`, `owned`, `scrape_all` | trackers; enqueues offer match jobs |
| Notion destination (`notion.py`, `durable.py`, `main.py`) | `notion_connections`, creation jobs | connect, ask for a database, `create_notion`, recover, disconnect | Notion API; enqueues the user's match job |
| Notion pages (`notion.py`, `durable.py`) | `notion_syncs`: status, attempts, page id, `next_attempt_at` (retry instant and lease) | `_process_notion_job`, requeueing by `match_batch`, cancel, retry | Notion API |
| What is listed (`trackr_common.py`) | none: responses to lists of offers | accept or reject a response, canonical addresses, deduplication | feeds both kinds of collectors |
| Opportunities (`preferences.py`, `opportunities.py`) | none: queries over `offers` and `offer_sources` | `offer_matches`, `matching_query`, `browse_database`, cards, pages | decides who is alerted and what the dashboard shows |
| Historical collectors (`legacy.py`, `test.py`) | `source_snapshots` (`legacy/...`), `legacy_tasks` | `run_collector`, `process_tasks`, remediation | trackers, SMTP, the shared Notion database |
| Deployment gate (`runtime.py`, `scripts/`) | `worker_states`: `runtime/gate`, `runtime/active/*`; schema revision | `invocation`, `migrate`, `release` | every command |
| Operations (`admin_jobs.py`, `maintenance.py`, `cli.py`) | all of the above | retry, purge, promote, import | |
| Rate limits, monitoring, configuration, scripts | `auth_limits`; the rest has no protocol | | |

What makes it hard, and what each component must therefore guarantee:

- *Queue.* Producers replace the payload of a job while a worker runs the old
  generation; leases end under running workers; batches cover part of the users.
  No match may be lost, no attempt charged to the wrong generation, and every job
  must end.
- *Alerts.* A message is under way while its rows are cancelled, moved to the other
  mode, revived by a reconciliation or taken over. Nothing may be recorded as sent
  that was not accepted, a disabled account must have no work left, and every
  alert must end.
- *Access.* A revocation must win against messages and requests that read the older
  state; a link opens one session.
- *Collection.* Snapshots may arrive out of order and one offer has several
  sources; an offer closes after its last source missed it twice, and every
  published change is matched.
- *Notion setup.* A database may exist although the answer was lost. It must not be
  created twice, nor given to somebody else, nor be forgotten.
- *Notion pages.* The claim is kept in `next_attempt_at`, a column that retries and
  requeueing also write; the page may exist although its id was never recorded, and it
  may change while it is written. A database must not have two pages of an offer, and
  a page recorded as synced must show what was collected last.
- *Selection.* Whether an offer is for a subscriber is decided four times, in Python and
  in SQL. The four must agree, or somebody is alerted of an offer the dashboard hides.
- *Responses.* A truncated or malformed response, taken for a complete list, closes every
  offer it lacks.
- *Historical tasks.* A page takes new data while the old is being written, and
  collectors overlap. A page recorded as sent must show its data, and the snapshot
  must not run ahead of the tasks.
- *Gate.* A migration runs alone, although commands die and leases lapse.

## Modules

| Module | Models | Refines / used by |
|---|---|---|
| `DurableJobs` | the row of a match job and the transitions code makes on it (operators only) | extended by `MatchQueue` |
| `MatchQueue` | `enqueue_job`, `process_jobs`, `match_batch` and their producers | extends `DurableJobs` |
| `Outbox` | what every queue of remote work promises: claim, call, outcome fenced by the claim, withdrawal at any time | abstract |
| `AlertDelivery` | `deliveries` with both mail workers and reconciliation | implements `Outbox` |
| `AccountAccess` | account mail, links, sessions, passwords, revocation | implements `Outbox` |
| `SourceCollection` | reservations, snapshots, sources, offers, match requests | starts from what `Acquisition` lists |
| `Acquisition` | which responses are complete, canonical addresses, deduplication (operators only) | used by collection |
| `NotionSetup` | connections, creation jobs, recovery, the databases in Notion | |
| `NotionSync` | `notion_syncs` with their workers, matching, the connection and the pages in Notion | implements `Outbox` |
| `LegacyTasks` | `run_collector` and `process_tasks` | implements `Outbox` |
| `Listing` | the selection of offers in matching, preview and dashboard, its order and pages (operators only) | the set of fitting offers of the state machines |
| `RuntimeGate` | commands, leases, releases, the schema revision | implements `MigrationLock` |
| `MigrationLock` | the lock the gate promises: commands share, a migration is alone | abstract |
| `MatchQueueProofs` (with `DurableJobs`), `AlertDeliveryProofs` (with `Listing`), `AccountAccessProofs`, `SourceCollectionProofs` (with `Acquisition`), `NotionSetupProofs`, `NotionSyncProofs`, `LegacyTasksProofs`, `RuntimeGateProofs` | theorems | |
| `MC*` | instances: symmetry, views, constant values | |

Conventions. A transaction, from its first row lock to its commit, is one action;
a remote call is one action, with the outcomes *accepted and answered*, *refused*,
and *accepted but the answer is lost*. A crash may happen at any point of a worker
and leaves the committed rows. Instants are reduced to "due" and "not yet due",
and the passing of time is an action. Operators of a module with names such as
`OwnsAny` or `EnqueueDueNow`, commented "Faulty variant", are not part of the
system: each is a plausible bug that the runs were seen to catch. Every module
bounds its environment with `MaxEdits` (what users, operators and trackers do) and
`MaxFaults` (errors, lost answers, crashes); both are counted in the state.

**DurableJobs, MatchQueue.** `job[k]` is a row of `durable_jobs`, for offer keys and
user keys; `EnqueueMatch` is `enqueue_job`, with its two ways of replacing a row
(an identical pending payload is left alone, everything else restarts the cursor
and clears attempts). `Select`, `Claim`, `Evaluate`, `FinishMatch`/`FinishReconcile`
are the steps of `process_jobs`/`match_batch`; a batch that was replaced finds that
it no longer `Owns` the row, still records its matches, and gives the lease up.
`FailBatch` and `FailBeforeClaim` are the two exception handlers. `UpdateReachesNotion`
uses `sync`, the state of a page. Abstractions: filters are the set of kinds of offer
a user accepts, snapshots change one offer per step, evaluation reads in one step,
deliveries have one mode and are numbered by offer, a row that was sent and purged
counts as sent, and a page is written in one step (`NotionSync` has the steps).

**Outbox.** Four queues are built alike: rows are claimed under a lock, the call is made
without one, and the outcome is recorded on the rows whose claim still stands. `Outbox`
says so once: `holder`, `work`, `answered`, `done`; `Claim`, `Answer`, `Finish`, and
`Withdraw`, by which anybody takes claims back or reopens what was done. Each queue
states `OutboxSpec`, an instance whose `holder` is computed from its own
columns: the claim instant (alerts), attempt and start of processing (account mail),
`next_attempt_at` (pages and historical tasks). What it forbids is a row recorded as
done by a worker that lost it, or whose call was not accepted; a claim on a row that
is done or held; and a worker that takes new work before it is through with the old.

**AlertDelivery.** One subscriber, both modes. `Take` is a claim of one group under
the user lock, `Send` the message, `Finalise` the outcome with the re-check of each
row; `Deferred`/`FailTake`/`FailFinalise` are the error handlers, `FailExhausted` the
cleanup of `_user_ids`. A claim is identified by its worker, which stands for the
claim instant. The user's durable job is `rec`, its status, cursor and lease while its
payload has a reconciliation left: `ClaimReconciliation`, then `ReconcileBatch` or
`ReconcileFails`, as `match_batch` walks the rows. `Reconsider` is `enqueue_job`: a job that
waits with the same payload keeps its cursor, every other starts over, and a batch that
runs finds itself `Replaced`. `NotionReady` takes the place of a reconciliation. The ghost
`skipped` remembers the alerts which these two ways leave out. The attempts and the backoff of
the job are in `MatchQueue`; matching is reduced to `QueueAlert`.

**AccountAccess.** One account. `epoch` counts revocations and is a ghost that says
when a session or link was issued. A request is two actions, what it reads before
it locks the user and the transaction after it, so revocation falls between them.
`Claim`, `Recheck`, `Send`, `Finalise` are the steps of `process_auth_mail`. A settled
job or link row may be used again for a new one; one invitation.

**SourceCollection.** `Reserve`, `Fetch`, `Apply`/`Discard`, `RecordFailure` follow
`scrape_all` for each tracker in turn; `ReserveRaises` keeps the claim of the tracker
before, as the `except` branch does. `history` (the last two complete snapshots of each tracker)
and `applied` are ghosts. The season is fixed and metadata is one value.

**NotionSetup.** A connection of one account, its creation jobs (one per connection
number, as in the key `notion/{id}`), the databases that exist, and `era`, a ghost
that counts connections to a new workspace. A recovery is two transactions with a question to
Notion between them, `StartRecovery` and `FinishRecovery` or `AbandonRecovery`, so the connection, the job
and the account may change in between. Parent page is reduced to workspace;
the nonce, `database_id` hints and the schema check are reduced to their outcome;
`next_attempt_at` of a creation job is left out (a retry may start at any time).

**NotionSync.** One subscriber. `Claim` reads version, page id and database under the lock,
`Lookup` finds the page by URL when its id is not known, `Write` patches or creates it, `Finalise`
records the outcome if the row `Holds`: its status is `processing` and `next_attempt_at` still is
the instant of the claim, represented by the worker. `CallFails` loses the call or its
answer, `GiveUp` is the cleanup of a row without attempts, `LeaseExpires` the end of the five minutes.
`MatchOffer` and `MatchUser` are the effect of whole match jobs on the rows (their batches are in
`MatchQueue`); `Disable`, `Enable`, `Disconnect`, `Attach`, `Reconnect`, `Activate` and `AdminRetry` are
the routes that touch rows, and `Purge` deletes a row that was synced thirty days ago. A version number stands for the properties of a page. Two assumptions:
an invocation (80 s) ends before its lease (5 minutes), and a database that is attached
again is not still being written to by an older invocation (guard of `Attach`).
`skipped` and `replaced` are ghosts for the two cases in which the code leaves a page behind.

**Listing.** An offer is a record with the set of its sources, a date an integer or `None`. Each predicate is
written as the code writes it, in Python (`OfferMatches`, `SourceOpen`, cards) and in SQL
(`MatchingQuery`, `Browse`, `Options`, `SortDeadline`), where a comparison with null holds of nothing.
The text search is left out.

**Acquisition.** A response is an object or a list of items, well formed or not; `Accepted` are
the checks that reject it as a whole, `OpenProgrammes` and `OpenSpringWeeks` what is taken from it,
`Deduplicated` the first offer of each canonical address. An address has the parts
that `canonical_offer_url` tells apart.

**LegacyTasks.** One source, one recipient. A run goes `Reserve`, `Fetch`, `Apply` (or
`Discard`, `Fail`), then `Select`, and per task `Claim`, `Write`, `Finalise` (or `Skip`,
`GiveUp`, `Cancel`, `Defer`); it may `Crash` anywhere. `next` is `next_attempt_at`: the
run whose five minutes it ends, an instant of retry (`Later`), or none (`Now`).
A version of an offer is of the start term the collector is for (`Selected`) or not; the
snapshot takes in every offer, the tasks are those of the selected ones.
`exempt` remembers which tasks the run that found their offer new did not owe (another start
term, a channel switched off, or a baseline), `unleased` which offer a remediation met with a
write under way, and both are ghosts. The adapter is an upsert by URL (pages) and a message
that is accepted or not. `FORCE_EMAIL_ALL`, which mails offers that are not new, CSV export and the
sharing of e-mail keys by several sources are left out. Switches are read once per
run, and the budget always covers one task. The lease of a task does not end
under a run that still writes it (five minutes against a budget of ninety
seconds); the lease of a source may, and costs a fault.

**RuntimeGate.** `CheckSchema` and `Enter` are the two steps of `invocation`: the
revision is read before the gate is locked. A scheduled command stops before its lease
lapses (`HARD_TIMEOUT_SECONDS`, shell timeouts of 100-180 s against five minutes);
administrators' commands, which no timeout bounds, are the set `Unbounded` and are excluded
from what is promised. `Pause`, `Drain`, `Migrate`, `Reopen` and the failures are
`migrate` and `release`. Nested invocations reuse the outer lease and are left out.

## Runs

Distinct states are those TLC reports; each run takes well under five minutes.
`CHECK_DEADLOCK FALSE` everywhere: edits and faults are bounded, so each system comes to
rest when there is nothing left to do.

| Run | Instance | Shows |
|---|---|---|
| `match_users` (1.9M) | 2 users, 1 offer, 2 workers, batches of 1, 2 attempts, 3 edits, 1 fault | `EveryMatchCovered`, `AttemptsAreSound`, `OneGenerationRuns`, `MatchedWhileActive`, `BackoffChargedToOwner` |
| `match_drains` (0.5M) | 1 user with a destination, 1 offer, 2 workers, 2 edits, 2 faults, statements before a claim fail, fair | `UpdateReachesNotion`, `Drains` |
| `match_resume` | 1 user, 2 offers, 1 worker, 7 edits | violates `ResumesUnsent` (finding 1) |
| `alerts` (0.6M) | 1 offer, 2 mail workers, batches of 2, 2 attempts, 3 edits, 2 faults | `DisabledHasNoWork`, `DeliveredHasNoWork`, `Resumed`, `OutboxSpec` |
| `alerts_settle` (59k) | 2 offers, 1 worker, batches of 1, retries, 2 edits, 2 faults, fair | `ImmediateSettles` |
| `access` (1.1M) | 1 mail job row, 2 links, 2 workers, 2 visitors, 3 edits, 1 fault | `AccessIsCurrent`, `PasswordByCurrentAccess`, `LinkUsedOnce`, `NoRevokedLinkSent`, `OutboxSpec`, `TypeOK` |
| `sources` (0.9M) | 2 trackers, 1 offer in 2 versions, 2 collectors, 3 collections, 1 fault | `ClosedAfterTwoMisses`, `OpenWhileListed`, `MatchedAsPublished`, `SupersededIsSilent` |
| `notion` (0.8M) | 2 workspaces, 2 workers, 2 connections, 5 edits, 2 faults, fair | `CreatedOnce`, `NoneForgotten`, `DisabledGetsNone`, `SetupSettles`, `TypeOK` |
| `notion_workspace` | the same, 4 edits, 1 fault | violates `DestinationInWorkspace` (finding 2) |
| `pages` (0.7M) | 1 offer, 2 workers, 2 databases, 2 attempts, 4 edits, 2 faults, fair | `OnePage`, `SyncedIsCurrent`, `DisabledHasNoPages`, `OutboxSpec`, `PagesSettle` |
| `legacy` (0.6M) | 1 offer in 3 versions, 1 of another start term, 2 runs, 2 attempts, 1 edit, 2 faults, fair | `PageIsCurrent`, `EmailedOnce`, `NothingDropped`, `OutboxSpec`, `TasksSettle` |
| `gate` (2.8k) | an old, a new and an administrator's command, two releases, 2 faults, fair | `GateHeld`, `LockSpec` (refinement), `GateReopens` |

Why the bounds are enough for the cases that matter:

- Two workers are what overlap, takeover and replacement need; a third only
  repeats one of the roles. Two users (or two offers) with batches of one give a job
  two batches, so that everything may happen in the middle of one.
- `MaxAttempts` 2 instead of 5 has a first, a retried and a last attempt, and the
  exhaustion of a row is reached in every run.
- Edits and faults are the product that makes state spaces large. In `match_users`
  three edits suffice for collect, replace during a batch, and replace again; with
  one fault each error path and each crash point is met once, and `match_drains`,
  `alerts`, `alerts_settle`, `notion`, `pages` and `legacy` repeat faults until attempts are used up.
- `alerts` has one offer. Its two rows are what a mode change relates, and a batch covers both
  (see *Split reconciliation*). The second row is made by the first batch and lies beyond it, so the job has
  three claims, each of which may be rolled back, killed, queued anew or replaced, with a row behind its cursor and one
  ahead. Three edits change the mode twice with a destination in between, or disable and enable the account.
  `Resumed` holds as well with two offers in batches of one (1.7M states), and is proved without bounds.
- In `pages` four edits suffice to collect twice and disable and enable in between, or to
  disconnect, connect another database and come back; two databases are what a
  move needs, and rows of two offers share only the account.
- The runs keep leases longer than the work they cover (`LeaseOutlived = FALSE`); that no match is
  lost when a lease ends under a running worker is covered by the proofs
  (`MatchesCovered`, `NoMatchLost`), which assume nothing of it.
- Tokens are only compared, so a view identifies states that differ in names of
  tokens (`TokenView`), and generations and fetch numbers only ordered (`OrderView`).
  Five tokens are never used up (a fresh one always exists, see `FreshTokenUnused`).
- `MaxRuns` 3 lets a source be missed twice after it was listed.
- `legacy` has three versions: two of the selected term, so that a page is replaced, and one of
  another, so that an offer is left out or changes its term. Selected versions are alike, and so are the
  others, so the first one published is one of each (`FirstSpec`). One edit, because liveness needs
  the whole graph; the safety properties hold as well from every first version and are proved
  without bounds, as are those of `pages`.

## Fairness

Fairness is assumed of what the deployment repeats, and never of a user, an operator
or a fault.

- Workers (`WorkerStep(w)`, `RunStep(r)`, `Works(w)`): workflows start the commands
  every ten minutes (`*/10`, `8-59/10` for the historical ones), and each command
  has a budget within which it takes at least one item. Weak fairness is
  enough: a worker that has work stays able to take it.
- Lapses and retry instants (`LeaseExpires`, `LeaseLapses`, `ClaimStale`, `RetryDue`,
  `SnapshotLapses`, `DigestHour`, `NextDay`): time passes.
- `AlertDelivery` also assumes the claims and batches of a reconciliation (the matching
  command) and the cleanup that opens each mail command.
- `NotionSync` also assumes the matching commands (`Matching`), and the cleanup of rows without
  attempts (`GiveUp`), with which every page command meets the rows it lists. Without
  weak fairness of `GiveUp` a row whose last worker died would wait for ever; nothing is
  assumed of calls, which may fail until the attempts are used up.
- `RuntimeGate`: `Proceeds(m)`, a release that goes on comes to its next step; nothing
  is assumed about commands, since the drain has a timeout.

## Proofs

TLAPS checks every theorem, for all values of the constants that satisfy the
assumption of its module (`MatchQueueAssumption`, `AlertDeliveryAssumption`,
`AccountAccessAssumption`, `SourceCollectionAssumption`, `NotionSetupAssumption`,
`NotionSyncAssumption`, `RuntimeGateAssumption`, `LegacyTasksAssumption`: positive bounds, distinct
null values, users and offers numbered from 1, at least one workspace and one version, settings and archives of
the right type). TLC evaluates the assumptions in the runs. The theorems about `Listing` and
`Acquisition` carry theirs as hypotheses (`NullIsApart`, `NothingIsApart`: the null value is none
of the others). Five theorems have a hypothesis that the code does not always meet; it
is named, and what happens without it is in Findings:

| Hypothesis | Theorems | Meaning |
|---|---|---|
| `ClaimsUndisturbed` | `RunsOneGeneration`, `OwnerIsCharged` | leases outlive their batches, and no error clears a lease before the claim |
| `OneBatch` | `SentIsNotSentAgain` | one batch of a reconciliation takes all rows of the account |
| `[]PagesFit` | `ChangesReachPages` | while an offer has a page it fits the account, which stays enabled; it may close and reopen |
| `OffersStay` | `ResumesUnsentWork` | no offer that was closed opens again: nothing starts a reconciliation over for it |

**`MatchQueueProofs`.** The first section states, for each operator of `DurableJobs`, what it keeps: types, the
soundness of attempts, and who owns the row afterwards. The rest cites these
lemmas and expands rows nowhere else.
`TypeCorrect`, `AttemptsStaySound`, `MatchesCovered` (`EveryMatchCovered`), `NoMatchLost`
(`NoMissedMatch`) and `MatchesWhileActive` (an action property). "Settled jobs imply
recorded matches" is not inductive: it says nothing while a job is under way. The
invariant is built in three layers. `TypeInv` adds to the types that rows are sound,
selected keys exist and live tokens differ. `ClaimInv` adds that a worker with the
current token holds the claim (`ClaimHolds`), that the pairs it carries lie beyond the
cursor (`HitsAhead`), and that an offer that does not exist has no work. On these,
`EveryMatchCovered` is inductive: each pair that fits is recorded, in the hands of the worker of
a current generation, or ahead of the cursor of the offer's or of the user's job.
One lemma per action shows how it passes a pair from one of the three to another; a
replacement restarts the cursor and so puts every pair ahead again. When both
jobs are settled nothing is ahead and nobody is current, hence `NoMissedMatch`.
`MatchedWhileActive` follows from `HeldActive`: the users a batch has locked cannot be
disabled before its commit.

`RunsOneGeneration` (`OneGenerationRuns`) and `OwnerIsCharged` (`BackoffChargedToOwner`) are about leases,
not tokens: a producer that replaces a row gives it a new token and leaves the lease, so the
worker of the old generation is no longer the owner and still keeps others out. `HasLease`: the row of a running worker
has a live lease. `FailedIsFree`: a row that failed has none, so that a retry finds nobody at work. Only
one worker takes a free row, and only the owner puts a row off or gives up its lease early.

`ChangesReachPages` (`UpdateReachesNotion`) adds to the invariant of the matches that a page which lacks a change is, unlike
a match, covered by one job only, the offer's: either its payload says `updated` and the user is ahead of
its cursor, or the worker of its current generation read such a payload and has the pair in hand (`UpdatesCovered`). The
hypothesis is about states, not constants: it excludes the moments in which `match_batch` passes over a page
(Findings, *A skipped update*). That `enqueue_job` keeps `updated` from the payload it replaces (`UpdatesStand`) is what makes each
replacement safe.

**`AlertDeliveryProofs`.** What a step makes of a row is one of four things: it keeps its
claim, loses it, is claimed, or is settled by its claimant. Only `Take` claims and
only `Finalise` records a message as sent, so `Inv` says just what these two need: types
(`Shapes`) and `ClaimsSound` (a worker has claims exactly while it is busy, and a claim
that is still the row's has not gone stale). One lemma per kind of step shows that it
keeps `Inv`; reconciliation, which may turn one row into any other, is among the
steps that only take claims away. `DisabledIsQuiescent` (`DisabledHasNoWork`) adds that
every row such a step leaves waiting needs an active account, and `ImplementsOutbox` that
each kind is a step of `Outbox` or none. The attempts are not bounded by this
invariant, and need not be.

A reconciliation walks over the rows in the order of their creation, in batches, with a cursor,
while workers go on, so both results about it relate a row to the cursor. `ResumesUnsentWork` (`Resumed`) rests on `Resumption`: rows are numbered
apart (`Placed`), an alert of either mode was recorded when its offer was matched (`Recorded`), and
an alert that is still to be moved has a row beyond the cursor, or is one of those `skipped` (`Covered`). When the reconciliation
has ended nothing is beyond it. A batch that is rolled back or killed leaves the cursor, and one
that was replaced leaves the cursor of its replacement. The proof of a batch shows that what it moves is on its way, and that what it
does not reach keeps its row ahead. `SentIsNotSentAgain` (`DeliveredHasNoWork`) rests on `Done`: at
most one row of an offer waits (`OneAlert`), one behind the cursor in the mode that
was left waits no more (`HandedOver`), and a delivered offer has none that waits (`Unheard`). It is
false when the two rows of an offer fall into different batches (Findings, *Split reconciliation*), hence `OneBatch`.

**`NotionSyncProofs`.** The argument is about who writes where. `Leases`: a worker that still has
the lease of its row writes to the connected database (or the row survived a recovery), one that
lost it is `Away`, in a database that is neither the connection's nor that of the row's
page. `Apart`: no two workers write to one database for one offer. So nothing moves
under a worker between its lookup and its creation (`CallsSound`), which gives `PagesAreUnique`
(`OnePage`); and nothing overwrites the page of a row recorded as synced, which
with `ClaimsCurrent` (a lease ends when its offer changes and is matched) gives
`PagesAreCurrent` (`SyncedIsCurrent`). `DisabledIsQuiescent` and `ImplementsOutbox` follow from the
same invariant: what a worker records, it holds.

About `Listing`: `MatchingAgrees`: the SQL of matching selects exactly the offers that the
Python predicates accept, nulls included, for all offers and preferences. `AlertedIsListed`: an
offer one is alerted of is on the dashboard, on a card that says open. `CardsHaveSources`: the dashboard query
selects exactly the offers whose card has something to show. `OptionsLeadSomewhere`: a filter on
offer finds something. `SortedAsDisplayed`: offers are ordered by the deadline their card shows (in the
history, provided a closed offer has no open source of the current season). `PagesPartition`: each offer is on
one page, and the labels of a page say what is on it.

**`AccountAccessProofs`.** A revocation commits while messages and requests that read before it are under way,
so the invariant says what it did to each of them. `ClaimsSound`:
a worker that still owns its job has a link that no revocation touched, because a revocation takes every
job away in the same transaction. `Presented`: a visitor's credential names the epoch in which it was
issued, and a link never changes its own. `OpenedSound`: a link that opened a session cannot be opened again. With these
`AccessIsCurrent` is inductive (`RevocationIsFinal`), and `OpensOnce`, `PasswordIsCurrent` and
`SendsNoRevokedLink` follow; the last two are action properties, proved from the one step that can set a
password or start a message. `ImplementsOutbox`: a claim is the attempt and the start of processing, and what
cancels, invites again or retries is a `Withdraw`.

**`SourceCollectionProofs`.** About one response (`Acquisition`): `AbsenceIsReal`: when a response is accepted, every open programme
in it is in the list, and the response did not announce more than it holds; so what is
missing was not listed. `EmptyIsExplicit`, `SpringWeeksAreListed` (two spring weeks never share an address),
`KeysAreCanonical` (canonicalisation is idempotent and merges only addresses that differ in case, trailing
slashes or tracking parameters) and `OffersAreDistinct` complete it.
About the catalogue: `HistorySound` says what the columns of a source record mean in terms of the last two lists that were
applied (open and not missing: in the last; missing once: in the one before; closed: in neither),
which gives `ClosesAfterTwoMisses`; `CatalogueSound` adds that an offer is open while a source is
(`OpensWhileListed`) and that a change is queued or was matched (`MatchesAsPublished`). `LeasesSound`: no two collectors
hold the same generation, and the holder of the newest one fetched after everything that was
applied. Hence `SupersededAreSilent`: a list never replaces one that was fetched after it.

**`NotionSetupProofs`.** The argument is about the *era*, the time between two changes of workspace.
Creation starts with a claim. Once it has started in this era, either there is a destination or the connection and its
job say that there may be one (`Remembered`), so no claim follows and no page offers a creation
(`ForgetsNone`). The one way back is the answer that nothing was made; it is recorded by the worker
that holds the claim, and whatever was made in this era would have been made by that worker (`ClaimsSound`,
`Alone`). Hence `CreatesOnce`. `DisabledIsGivenNone` is an action property: a creation and a recovery check the
account when they record the database.

**`RuntimeGateProofs`.** The invariant is the types, a live lease for every
scheduled command under way, `GateHeld` and `MigrationExclusive`. `MigratesAlone`,
`GateStaysHeld`, and `ImplementsLock`: every step of the gate is a step or a
stutter of `MigrationLock`. (The safety part of the refinement; `GateReopens` is
liveness and stays with TLC.)

**`LegacyTasksProofs`.** The argument is about who holds a task.
`Counted` (a task under way has an attempt to give back) and `HasTask` carry the types
(`TypeCorrect`). `Held` says that the run that writes a task has its lease and the
task is not settled, unless a remediation dropped the lease; so no other run writes it,
and no action but its outcome settles it (`HeldStays`). From `Held` and `Written` (an
answered page shows what its run wrote) follows `PagesAreCurrent`; from `MailHeld` (mail is
never replaced while it is sent) and `Mailed` (a message no fault explains belongs to a task that is
sent or about to be recorded) follows `MailedOnce`. `OffersAreKept` rests on `Current`:
the run that owns the source compares with the snapshot as it is saved, since nobody else moves
it, and no task goes back to being absent. `ImplementsOutbox` follows from `Held`: a remediation that drops a lease is a `Withdraw`.

Only model-checked: liveness (`Drains`, `ImmediateSettles`, `GateReopens`, `SetupSettles`,
`PagesSettle`, `TasksSettle`), since fairness and ENABLED are out of the prover's reach. Every
invariant, action property and refinement of a passing run is a theorem. Only
proved: `NoMissedMatch` (theorem `NoMatchLost`), which a run would show only with leases
that end under running workers, the type invariants of `MatchQueue`, `AlertDelivery`, `SourceCollection`, `NotionSync`,
`LegacyTasks` and `RuntimeGate`, and what `Listing` and `Acquisition` state of data.

## Findings

Two disagreements with the documentation have a run of their own.

1. `match_resume`: README.md:38 promises that "reactivating an account resumes matching
   unsent work". `enqueue_job` (durable.py:19) leaves a pending job with the same payload
   alone, cursor included. An account that is disabled and enabled again between two
   batches of its reconciliation keeps the old cursor, and the alerts before it stay
   cancelled.
2. `notion_workspace`: README.md:84 promises that "a changed workspace resets local destination
   references". `create_notion` (durable.py:113) finalises with the connection it
   finds by number and compares neither workspace nor credential; a creation under
   way when the account connects to another workspace attaches the database
   of the workspace it left. `notion_recover` does compare (main.py:447).

The following were found while modelling. They have no run, because they need
detail a property would only restate or because a passing property was stated around them;
the models follow the code in each case.

- *Two digests on a date.* README.md:55: "Daily digests are sent at most once per local date".
  `process_digests` (workers.py:162) closes the date only when no other digest row is open, so an
  alert matched while the message is being sent, or left over from a group of 100, leads
  to a second digest; `tests/test_workers.py` asserts two sends.
- *A lease cleared by someone else.* The handler at durable.py:66 clears the lease of a
  pending row after an error before the claim, without owning it. If the row was replaced
  during a batch, the lease belongs to a worker that still runs, and two generations
  may run together. `OneGenerationRuns` is therefore checked with `PreClaimErrors = FALSE` and proved under `ClaimsUndisturbed`;
  that no match is lost is proved with such errors too (`NoMatchLost`).
- *A lost reconciliation.* `create_notion` (durable.py:128) and `notion_recover` (main.py:454) enqueue the
  baseline under the user's key and overwrite a waiting activation with its reconciliation.
- *A row nobody takes.* `reconcile_delivery` (preferences.py:197) copies five used attempts into
  a pending row of the new mode; no worker takes it, none fails it.
- *Split reconciliation.* When the two rows of an offer fall into different batches of 100,
  preferences.py:201 may revive one while the message of the other is under way, and the
  offer is mailed twice. `DeliveredHasNoWork` is checked with batches that cover both rows and proved under `OneBatch`.
- *An offer that comes back.* An alert is cancelled when its offer is closed at the moment a reconciliation
  (preferences.py:184) or a worker (workers.py:84) looks at it. When the offer opens again, `match_batch` queues
  nothing, since the match exists (durable.py:189): nobody is told until the next activation. `Resumed` is checked
  without closing offers and proved under `OffersStay`.
- *A message under way.* An account disabled and enabled again, or moved to the other
  mode, while a message is being sent may be sent the same offer again without any crash.
- *A stuck setup.* A creation cancelled because the account was disabled leaves
  `setup_status` at `pending` or `creating`, and every later request is refused (main.py:401)
  until the account disconnects. `SetupSettles` excludes cancelled jobs.
- *Schema read before the gate.* `invocation` reads the revision (runtime.py:29) before it
  locks the gate: a command may be admitted after a migration it was not reviewed for.
  `MigrationLock` promises that nobody runs during a migration, no more.
- *An unbound claim.* scraper.py:185: if `reserve` raises for the first tracker, `claim` is
  unbound; for a later one it is that of the tracker before. The failure is recorded for nobody.
- *Closed offers.* `match_batch` skips offers that are not open (durable.py:187), and
  `queue_notion_update` is not called by anything, so a Notion page of a closed offer keeps its last state.
- *A skipped update.* An update that is matched while the offer is closed or does not fit, or
  while the account is disabled, passes over the page (durable.py:187), and nothing brings
  it back: the page stays as it was. `SyncedIsCurrent` exempts such rows (`skipped`).
- *A recovery over an attached database.* `notion_recover` (main.py:449) replaces the database and
  leaves `notion_syncs` alone. Rows then name pages of the old database, and are patched
  there. `SyncedIsCurrent` exempts such connections (`replaced`).
- *A quick return.* An invocation that lost its connection goes on writing to the old database. If
  that database is attached again within its budget, two workers may write the same page, or
  create it twice. The guard of `Attach` excludes this; the code relies on the time it takes.
- *A page archived by its reader* cannot be patched; its row fails five times and then for
  good, until somebody retries it. The id is kept, so the lookup by URL is not tried.
- *Unreachable and unused code.* `_process_notion_job` cancels a row of an inactive user, which
  `DisabledHasNoPages` shows never to wait; `create_offer_database` is used by tests alone,
  and `browse_opportunities` by nothing.
- *An empty list of spring weeks* is accepted as complete, with nothing to say that it is meant,
  unlike an empty list of programmes (`EmptyIsExplicit`).
- *History.* In the history, an offer that is closed although a source of the season is open is sorted by a
  deadline that its card does not show; `SortedAsDisplayed` has this as a hypothesis.
- *Deferred reactivation and Notion.* With a deferred reconciliation (preferences.py:85) rows of
  `notion_syncs` cancelled by a deactivation are not resumed.
- *Promotion leaves an invitation pending.* `promote-admin` (cli.py:111-121) cancels account
  mail but not the invitation, which then queues its message again (invitations.py:28-31).
- *Attempt numbers coincide.* Attempts start over when an invitation is sent again. Ownership
  (auth_mail.py:86, 105) compares the attempt and the start of processing, but the cancellation
  that follows a failed re-check (line 87) compares the attempt alone: a worker of an older claim
  that finds the request void may cancel the job of a newer claim with the same number.
- *Remediation during a replaced write.* `cancel_legacy_notion_window` (legacy.py:282) drops
  the lease of a task whose payload was replaced while the old one is being written; after a retry
  the old payload may arrive last. `PageIsCurrent` exempts such offers.
- *Stale page index.* `process_tasks` reads the index of pages once (legacy.py:75); two
  overlapping invocations could create a page twice (test.py:1018). The workflow's concurrency group
  prevents the overlap in production; the model's adapter is an upsert.
- *A term that changes.* `run_collector` saves every offer it lists (legacy.py:153) and makes tasks for those of
  its start term only (legacy.py:142-151). An offer that is listed with another term, or with
  none yet, and takes the selected one later is no longer new: it gets no task, and the recipients of
  that collector are not told. `NothingDropped` exempts it (`exempt`).
- *Channels switched off.* Offers collected while a historical channel is off are never
  sent when it is switched on again (`exempt` in the model; by the code's design).

## Not modelled

Rate limits (`limits.py`; fixed windows admit twice the budget across a boundary, by design),
session renewal and expiry, CSRF and cookies, the synchronous branch of `activate_preference`,
execution reports and monitoring (read only), the text search of the dashboard, rendering,
configuration, encryption, schema migrations beyond the revision they reach, the browser
and mail adapters of `test.py` beyond what they do to a page or a mailbox, and the one-shot
audit and release scripts other than the gate. `PROJECT.json` lists each with its reason.

## Plan

Written so far, in this order: the queue (`DurableJobs`, `MatchQueue`) and its proofs, alert mail,
account access, collection, the gate with its abstract lock and proofs, Notion setup, historical
tasks and their proofs; then the pages (`NotionSync`) with their proofs, the abstract `Outbox` and its four
refinements, the selections (`Listing`) and the responses (`Acquisition`) with theirs,
and the proofs of alert mail, account access, collection and Notion setup. Next, most important first:

1. Rate limits: how many attempts two adjacent windows admit, and refunds that race with the end of a window.
2. Renewal and expiry of sessions in `AccountAccess`, and liveness of account mail.
