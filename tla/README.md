# A TLA+ model of ReviewReady

ReviewReady decides whether a pull request carries the evidence that a
repository's policy asks for (checks, maintainer reviews, linked issues, body
text), reports the decision from a GitHub Action or a CLI, audits a
repository's own protection settings, and has libraries for a GitHub App
deployment: webhook ingress and the durable "TA-3" ingress store.  This
directory models the parts of it where order, retries, concurrent change and
the combination of evidence matter.  Paths such as `src/src/github.ts` are relative to the directory that
holds both `src/` (the repository) and `tla/`.

Contents: [inventory](#inventory), [modules](#modules), [runs](#runs),
[proofs](#proofs), [what the model found](#divergences),
[plan](#plan), [limits](#limits).

## Inventory

| Component | Source | State | Operations | What is hard | What makes it correct |
|---|---|---|---|---|---|
| TA-3 ingress store | `ta3-ingress.ts` 462-900 | maps of replay keys, records, slots, outbox | claim, lease, prepare, commit, reconcileCheckRun, completeCheckRun, cleanup, acknowledgeOutbox | redelivery, reclaimed leases, late calls, ambiguous claims, cleanup against pending work | one evaluation per body; superseded receipts are frozen; published results are earned and final; replay keys and records agree |
| publication mode | `ta3-ingress.ts` 1023-1054 | current mode | observeProfile, canPublishSuccess | drift between commit and completion | success only in required mode |
| acceptance handshake | `ta3-ingress.ts` 405-432, 581-606 | none of its own | acceptTrustedDelivery, reconcileAcceptance | an answer that is lost | no retry before reconciliation |
| pull request loader | `github.ts` 370-563 | one attempt's readings | loadGitHubPullRequest | the repository changes during the reads | the result was true at one instant; a quiet repository is not retried; it ends |
| concurrent map | `github.ts` 261-282, `github-audit.ts` 401-417, `github-audit-api.ts` 815-843 | shared cursor, results, the error that was caught | mapWithConcurrency, a deadline | workers interleave between awaits; two ways to fail | every value once, every result in its place; a caught error is thrown, after the last call |
| GitHub API gateway | `github-api.ts` | pages of one list, one abort timer | collectApiPages, allCheckEvidence, withGitHubRetry | lists shift between pages; retries | an incomplete list is refused, never returned as complete |
| readiness engine | `engine.ts`, `matcher.ts`, `domain.ts` | operation budget | evaluate | latest review of each maintainer, boundaries of the budget | each requirement's result is what the policy says |
| policy and input | `policy.ts`, `input.ts` | none | parsePolicy, normalizeInput | text | refuses what it does not know |
| Action runner | `action-runner.ts` | outputs written so far | runAction | three writes, one may fail | status never says more than the report |
| file reader, CLI | `file-reader.ts`, `cli.ts` | one open file | readBoundedBytes, runCli | the path changes while it is read | the bytes are of one regular file within the limit |
| webhook library | `webhook.ts`, `http-contract.ts`, `trust.ts` | the host's store | receiveGitHubWebhook, commitEvaluationIfCurrent | the store's answer is lost | accepted only when the store said new |
| App token | `github-app.ts` | none | createInstallationAccessToken | none | scope equals the request |
| audit collector | `github-audit.ts` | one snapshot | collectRepositoryAuditSnapshot | settings change while sources are read | an inconsistent snapshot says it is incomplete |
| audit API client | `github-audit-api.ts` | request, retry, byte, time budgets | read, collectPages | budgets shared by concurrent reads | no budget is exceeded |
| audit rules, reports | `audit.ts`, `workflow-security.ts`, `report.ts` | none | auditRepository, render... | rule tables | findings follow from the snapshot |
| evidence bundle | `audit-evidence*.ts` | none | build, verify, canonicalise | byte-level forms | one canonical form |
| release tooling | `scripts/*.mjs` | a directory of files | promote, review, checks run by hand or by CI | others write to the directory, calls fail half-way | nobody else's file is lost, nothing stays unreported, an accepted directory is right |

How they interact.  `runAction` and the CLI create a gateway
(`createGitHubGateway`), pass it to `loadGitHubPullRequest`, give the loaded
policy and input to `evaluate`, and publish the rendered result.  The audit
command creates an audit client and runs the collector over it.  Neither shares
state with the webhook library or the TA-3 store; those are libraries that a
host composes: an HTTP listener hands a request to
`handleGitHubWebhookHttp`, which hands the delivery to the host's durable store,
whose library half is `acceptTrustedDelivery` and `claim`; the host calls `claim` for a delivery, workers call `lease`,
`prepare` and `commit`, a provider client calls `reconcileCheckRun` and
`completeCheckRun`, a timer calls `cleanup`, a sender drains the outbox.

All code runs on one JavaScript thread: between two awaits nothing interleaves.
The store's methods (but for the first tick of `claim`) have no await inside, so
each is one atomic step of the model; the loader and the map give up control at
every request, so each request is a step.

`PROJECT.json` lists the components again with their status, the hazards at
their lines, and for every definition the lines it models.

## Modules

### TrustedIngress: the durable store

`VARIABLES` are the class's maps and the mode of the publication gate; `clock`
is the `nowMs` that callers pass.  One action is one public method:

| Action | Method | Notes |
|---|---|---|
| `Claim` | `claim`, `claimKnown` | `ClaimNew`, `ClaimAlias` and `ClaimRefused` are its three outcomes; `acceptFault` decides whether it happens at all |
| `Lease` | `lease` | not published, attempts left, no lease running |
| `Prepare` | `prepare` | sets the external id and enqueues the outbox event in one step |
| `Commit` | `commit` | fenced by generation, slot and attempt |
| `ReconcileCheckRun` | `reconcileCheckRun` | exactly one match, equal to the expected run |
| `CompleteCheckRun` | `completeCheckRun` | reads the gate in the same step |
| `AcknowledgeOutbox` | `acknowledgeOutbox` | |
| `Cleanup` | `cleanup` with `canPurge`, `purge` | all due receipts in one call |
| `SetAcceptFault`, `ObserveDrift`, `Tick` | `setAcceptFault`, `observeProfile`, the clock | |

A call that returns without changing the store is a stuttering step.  Callers are
not trusted: any receipt, any attempt number, any generation may be passed at
any time, which is how stale workers, retries and reordered answers are in the
model without being written down one by one.

Abstractions: a binding is (tenant, pull, revision), where tenant is the
replay namespace, pull the slot within it and revision all other bound fields;
a digest is the value digested, so an external id is (binding, generation);
`enqueued` stands for `externalId` and `outboxEnqueued`, set together by
`prepare`; an absent lease is one that ended at time 0.  Counters that only
`inspect()` returns are left out.  `cleanup` visits receipts in map order, which
matters only for two receipts with one external id (below): `PurgeSets` leaves
it open.

`SlotLedger` is the promise in one variable: a slot's verdict is superseded,
decided, reopened, published or forgotten.  `TrustedIngress` is shown to
implement it (`Ledger == INSTANCE SlotLedger WITH verdict <- ...`).  `Reopen`
is there because the code does it (see the first divergence).

`TrustedIngressHistory` adds history variables for promises about claims the
store has forgotten: when a body was accepted, when a GUID was answered, which
generations a slot was given.

### PullRequestLoader: one load against a changing repository

Every gateway call is one step that reads `world` once; the reads of
`Promise.all` and the permission lookups answer in any order.  Between any two
steps the world may change: a push, an edit, a check's conclusion, a review, a
link, a permission.  `pc` names the call the loader waits for; `attempt`,
`initial`, `files`, `first` and `second` are the code's variables (the final
snapshot equals the initial one when the code goes on, so it needs none).
`past`, `reverted`, `mid` and `pulls` are history for the properties.

Abstracted: payload validation (a failing payload is `GatewayFails`), the
choice of the latest review per login (the model's reviews are the set of
actionable reviewers), and the pages inside one gateway call.

`AtomicSnapshot` and `PairedWithHead` carry the proviso `~reverted`: no
comparison of two readings can see a value that changes and changes back in
between.  The proviso is per attempt and names each part of the repository
separately, and without it TLC shows the A-B-A behaviour at once.

### ConcurrentMap

The worker loop with its shared cursor, for any number of values and workers.
`src/src` has three copies of it, and `copy` says which one runs; they fail in two
ways:

| `copy` | Source | When the mapper rejects | The cursor |
|---|---|---|---|
| `"permissions"` | github.ts:261-282, raced against a timer at 351-367 | the map is rejected at once; the other workers go on | moved only below the length |
| `"sources"` | github-audit.ts:401-417 | the same, without a timer | the same |
| `"rulesets"` | github-audit-api.ts:815-843 | the error is caught (`firstError`), each worker stops at its next turn, and after `Promise.all` it is thrown (`Verdict`) | moved before it is compared, so each worker that returns at the end takes it one further |

The result of value i is i, so a result in the wrong place shows.  In the first
two copies requests go on after the caller was answered; in the third they
never do (`NothingRunsOn`), and what makes its results complete is the throw at
838-841 and not the rejection.  The re-check `index >= values.length` in
github.ts:273 can never hold, because nothing runs between the loop's condition
and it; the second copy does not have it, and in the third (line 827) the same
comparison is the only bound.

### ApiPagination: one list read page by page

`PullRequestLoader` takes each gateway call for one reading.  This module looks
inside: `collectApiPages` asks for page after page (`PageArrives`), then for one
page more that must be empty (`ExtraArrives`), and refuses the list on any
disagreement.  Each answer is cut from the list of its own instant, and the list
changes between requests.  `call` holds the function's locals and `allCheckRuns`'
`reportedTotal`; `attempt` is that of `withGitHubRetry`.  Three kinds of list
differ in what GitHub does to them: Check Runs come and go anywhere (the query
is `filter=latest`) and carry a `total_count`, statuses are added in front,
reviews at the end.  The file list is not a kind of its own: it changes only with
the head or base, which the loader compares.  The Link header of an answer is
proper (in one of three styles), unreadable, or missing.  `held`, `start` and
`disturbed` are history.

What it shows: a read of a list that only grows misses nothing that was there
when it began, and is the list of one instant unless a record is repeated (and
of a name whose latest record is repeated the merge answers null).  For
Check Runs `total_count` catches a read disturbed by additions alone or by
removals alone, but not one removed for one added: a single read may then be a
list that never existed.  Two agreeing reads without repetition cannot
(`AgreeingReadsWereHeld`), for any kind of list, because every record of both
was there between them; that is what entitles the loader to one reading.

### CheckEvidence, MarkdownVisibility, ReadinessEngine, ActionRunner: from evidence to a status

`CheckEvidence` is `mergeCheckAndStatusEvidence`: which record of a name and app
is the latest, when several records cannot be ordered in time, when a name is
answered for by several apps or by a Check Run and a status, and what
conclusion is left.  `MarkdownVisibility` is the line scanner of `engine.ts`: a
body is a sequence of lines and a line one of the kinds the scanner tells apart
(a fence that opens or closes, a comment's ends, a tag, a tag that goes on, a
link definition, a heading, the box of an attestation, ...); the state after
each line is a recursive function of the lines before it.  `ReadinessEngine` is
`matchesRule` and `evaluate` over both: rules match by paths, old names of
renamed files and labels; the latest reviews are a recursive function of how many
have been taken; equal requirements are evaluated once.

`ActionRunner` puts `runAction` around them.  While it loads, checks open and
complete, statuses are posted, reviews are listed in any order, or the author
writes lines, each kind in cases of its own (`moving`), because the kinds do not
interact.  `Load` then merges and evaluates in one step (the load's own
interleavings are `PullRequestLoader`'s), and the summary, the report and the
status are three steps, each of which may fail.

Abstracted: what a line looks like character by character, glob matching (the
constant `Hits`), the budgets of the evaluation (a budget that is used up ends
the run like any other error: `Fail`), the wording of results.

### DeliveryIntake: from a request to a receipt

Handlers take requests side by side (`Arrive`: all refusals of
`http-contract.ts` and `webhook.ts`), claim (`AcceptTrusted`: `ClaimKnown` of the
store of `TrustedIngress`, with an ambiguous answer whether it took effect or
not), reconcile (`ReconcileAcceptance`) and answer (`Answer`; the answer may be
lost).  The module EXTENDS `TrustedIngress`: its steps are the store's own.  The
listener that joins `webhook.ts` to `ta3-ingress.ts` (the durable store is
`acceptTrustedDelivery`; after an ambiguous answer it reconciles or answers 503)
is not in `src/src` and is marked external in `map`.  No worker leases a receipt
here, so no outbox event holds up a cleanup and all due receipts are purged
together; a receipt that outlives the others because its event is pending is
covered by `TrustedIngress` alone.  A claim that is repeated
after a reconciliation keeps the time its request captured (`nowMs`), so
freshness is judged once, as in the code.  `told`, `claimed` and `accepted` are
history.

### AuditRequests: the budgets the reads of an audit share

`read` of `github-audit-api.ts` under the two copies of `ConcurrentMap` that an
audit uses, for workflow sources and for rulesets: each worker's call is
sent, asleep before a retry, or rejected; requests are counted before they are
sent, bytes when they have come, and `withDeadline` rejects whatever is awaited
once the audit is `late`.  A unit of `bytes` is a unit of response size; a
response is cut off at `MaxResponse`; the transport underneath may send a
request again, and the answer it gave up has no body.  Mapping and validation of
answers are `AuditProvider`'s.  Where errors are caught, a read under way when
another one failed goes on with its retries, and its worker starts no other.

### AuditProvider, AuditRules, EvidenceBundle, AuditCollection: an audit

`AuditProvider` maps GitHub's answers to facts (protection, rulesets, tags, what
the token may not see).  `AuditRules` is `auditSnapshot`: scopes of rulesets,
every finding, the status.  A rule on reviews, and a rule on status checks that
says when it applies, enter only as `versioned`: no finding depends on them, the
version of the bundle does.  `EvidenceBundle` builds, projects, validates and
hydrates a bundle and audits it again; a digest is what it digests.
`AuditCollection` is the collector request by request: the repository, the
branch, the first settings (two requests side by side, then the rulesets one by
one), the tree of the base commit, the second settings, the repository and the
branch again, while owners change settings, push and replace the repository.
The sources of a commit are read in one step, because what a commit holds does
not change.  Its exit is that of `audit --github` or `audit collect`.

### EvidencePromotion, EvidenceReview: the release scripts with a directory

`EvidencePromotion` runs `runPromotion` as the `Program` of its file operations:
collect, write, own, replay twice, compare, remove, and the catch block.  A file
operation is split where another process can act between two calls of the file
system: a write into its creation, its second look, and its clean-up; a removal
into the quarantine, the check, and the unlink or the restoration, whose own look
and rename may fail and are then swallowed.  `Meddle` is
that other process; `Mishap` counts its acts and the calls that fail.
`EvidenceReview` is `reviewSavedEvidence`, after a promotion or over any saved
directory.

Two look-open-read-look protocols (`assertEvidenceOwnership` and
`readStableFile`) are placed at their last look: all that they compare agrees
only if the name led to that file with those bytes then.  Assumed: an inode
number is not reused while a run lasts; nobody else knows the random name of a
quarantine or renames files back; the `fstat` right after an `open` does not
fail.

## Runs

| Run | Expect | Question | Bounds |
|---|---|---|---|
| `ingress_processing` | pass | Can interleaved workers, providers and deliveries break a verdict? | 2 GUIDs, 2 bodies, 1 slot, 2 digests, 2 attempts, clock 0..2, lease of 1, one kind of ambiguous claim, mode required with drift |
| `ingress_retention` | pass | Can claims and cleanup lose or keep the wrong replay key? | 2 GUIDs, 2 bodies, 1 slot, replay age 1, retention 2, clock 0..4, generations up to 3 |
| `pull_request_load` | pass | Is what a load returns true at one instant, and does it end? | 2 heads, 2 texts, 2 reviewers, 2 values, 1 lookup allowed, 2 attempts, 2 changes |
| `concurrent_map` | pass | Is every value asked once and every caller answered, within the budgets? | 5 values, 3 workers; the copy with a deadline, or one of the audit's two with 6 requests, 1 retry, 5 units of bytes and responses of up to 2 |
| `api_pagination` | pass | Is a paginated list one that GitHub held? | 7 records, pages of 2, maximum 6, 1 retry, 2 changes, 2 reads |
| `action_run` | pass | Does only standing, visible evidence make a pull request ready? | 3 check records of 2 apps and a status over a clock of 2; 3 reviews of 2 people in 3 spellings; a first line and 3 lines of every kind; 48 combinations of paths and labels |
| `audit_evidence` | pass | Does an audit judge a state that existed, and does promotion harm nothing? | 4 edits of 9 kinds; every kind of protection with every kind of ruleset; 3 mishaps during a promotion; every saved directory with one mishap |
| `delivery_intake` | pass | Is what was acknowledged held, and nothing accepted twice? | 2 handlers, 3 sends of 4 requests, both ambiguities, replay age 1, retention 2, clock 0..2 |
| `committed_regress`, `shared_guid`, `alias_tombstone`, `generation_reset` | violation | the divergences below | as above; two tenants for `shared_guid` |

Why the bounds are enough to be interesting.  Two deliveries with two bodies give a
new claim, an alias, a conflict and a superseding delivery; two attempts give a
reclaim and a late worker of the first attempt; clock 0..2 with leases of 1
gives a lease that is running, one that ended, and a reclaimed one that ended.
In the retention run the clock reaches twice the retention, so a body is
accepted, purged and accepted again.  For the loader, two changes are needed to
change something and change it back, or to change the snapshot and an evidence
item; two reviewers with one permitted lookup reach the refusal.  Five values
over three workers give workers different numbers of rounds.  Named bounds that
are not in the code: `MaxClock`, `MaxGeneration` (new deliveries only;
everything else goes on), `MaxChanges`, `Records`, `MaxEdits`, `MaxSends`
(requests that arrive and claims that are repeated), `MaxRecords`, `MaxReviews`,
`MaxLines`, and `mishaps` of a case.  Three pages of two
with a seventh record reach a list at and beyond the maximum, a full and a partial last
page and the empty list; two changes are an addition with a removal inside one
read.  Six requests over five values leave one for a retry or a request the
transport repeats, and the byte budget runs out in the middle.  Three check records
are two runs of one app with one of another or a status, in every order of
starting and ending, with missing and unreadable times.  Three reviews are an
approval, its withdrawal and a third in any order and spelling.  Three lines after
the first open a region, hide a line, and close it or leave it open.  Four edits
change a setting, change it back, and change another and back, or a push and a
setting, during one collection.
Three mishaps put a file in the way, fail the call that follows, and fail the
clean-up.  Three sends are a delivery, its redelivery and a conflicting one (or a
claim repeated after a reconciliation), and clock 2 reaches the end of the
retention with cleanup.

`action_run` has a `VIEW`: once the summary is written nothing but the result's
status, the outputs and the failure flag is read again, so the evaluated pull
request, whose properties were checked in the state before, is left out of the
fingerprint.  The cases of `action_run` and `audit_evidence` are separate initial
states of one run rather than runs of their own; each case moves the evidence
that one set of properties is about.

The store runs are split because processing needs no retention and retention
needs no results: `Digest` is empty in the retention run (nothing is committed),
and the retention is never reached in the processing run.  Symmetry is used on
GUIDs, bodies, revisions and digests, which the code only compares, and on
the handlers of the intake, and only where every property is an invariant or an
action property.

`CHECK_DEADLOCK FALSE`: the store may be idle with the clock at its bound, and
a load, a paginated read, a map, a run of the Action, an audit, a promotion and
a review end.

Fairness.  The store's specification has none: nothing obliges anyone to call
it.  `PullRequestLoader` has weak fairness on the loader's own steps: every
request is answered, rejected or aborted, because the gateway is created with
`AbortSignal.timeout(60_000)` (github-api.ts:926), which also ends requests that
are still waiting; nothing is assumed of the world.  `ApiPagination` has it on
the client's steps for the same reason.
`ConcurrentMap` has weak fairness on the mapper's
answers, for the same reason (the third copy needs the answer of every worker
before it answers its caller); in `AuditRequests` it is `withDeadline`'s timer
(github-audit-api.ts) that settles every request.  The Action's run, the audit,
the promotion and the intake are checked for safety only.

## Proofs

`TypeCorrect` and `EarnedAlways` (`TrustedIngressProofs`) hold from the
assumptions on the constants alone.  `EarnedAlways` needs one conjunct that no
reader would ask for: an enqueued event implies an attempt, without which a
reconciled receipt could be in a state past "accepted" with no attempt.

`Index`, the second part of the module, says that a record is found
under each of its GUIDs and under its body (`ReceiptsIndexed`), and that every
replay key and slot points at a live record of its own tenant
(`TenantIsolation`).  Neither half is inductive alone.  Claiming a new receipt
under GUID d must not overwrite a live record named d: that needs the first
half, and the assumption `DisjointDeliveries` that no GUID is sent to two
tenants.  Purging must delete every key of a receipt and no key of another:
that needs both.  From `Index` follow `OneEvaluationPerBody` and the two action
properties: `StepKind` says that a step leaves the records and indexes alone, creates a
receipt, aliases one, rewrites one current receipt, or purges some; a
superseded receipt is not current, so it is only ever purged
(`SupersededStaysFrozen`), and a published one is rewritten by no method
(`PublishedStaysFinal`, which also needs `EarnedAlways`: a published receipt
already has its adopted Check Run, so a second answer changes nothing).
`DisjointDeliveries` cannot be dropped: the run `shared_guid` is the
counterexample.

Under the same assumption the store implements `SlotLedger`
(`StoreImplementsLedger`): `Index` names the one slot a record can be current
for, and the cases of `StepKind` map to the ledger's actions.  A created
receipt is `Supersede`; a rewritten one is `Decide`, `Reopen`, `Publish` or a
stutter, as `MovesVerdict` splits them; a purge is `Forget`; an alias and an
untouched store are stutters.

`NoPendingEventLost` needs no such assumption, only that the outbox holds one
event for an external id (`OutboxKeyed`): then an event that is purged is one that
was acknowledged, and one that is replaced has a successor of its id.  `ReplayRefused` is about bodies the store may have
forgotten, so the invariant ties history to state (`Remembered`): while the key
of a body lives, its receipt remembers when it was received; once the key is gone
the last acceptance is older than the retention, which is at least the replay age,
and from then on the clock only moves away from it (`ClockAdvances`).

`AuditRequestsProofs` starts with `ConcurrentMap`, in all three copies: for any
number of values and workers each value is asked for once, a resolved map is
complete, and where errors are caught the caller is answered after the last call.
The strengthening is `TakenIsHeld`: no two workers hold one index, each index before
the cursor is held or answered while the map has not failed, and a caught error
and a resolved map exclude each other.  That the cursor passes the end no further
than there are workers that returned is counted with the cardinality of `Returned`.
It goes on with
`BudgetsHold`, for any budgets.  The invariant: every request is counted before it
is sent, and what came over the wire is at most what was charged and one response
for each worker that has returned, because the only answer that is not charged is the one
that ends its worker.  That the map stays complete under the budgets follows from
the invariant of the first part, whose steps `AuditRequests` refines.

`PullRequestLoaderProofs` proves the type invariant (with the bound on attempts;
no run checks it on its own), `AtomicSnapshot`,
`PairedWithHead` and `RetryIsJustified` for any repository and any number of
changes.  `ReadSoFar` says that every reading is of some moment of the attempt,
`PullMoved` that a pull request which was not the initial one is not so again,
`Collected` that what a reading lacks is pending, and `LostForGood`, the heart of
it, that a value of the first reading which was no longer there at the final
snapshot cannot be in the second reading either: unless something changed back,
two equal readings around a snapshot are the state at that snapshot.
`RetryIsJustified` is the converse: in a world that did not change all readings
agree.

`ApiPaginationProofs` proves all six invariants of the pagination for lists of any
length, pages of any size and any number of changes.  `Progress` says how much of
the list a read has passed.  `Grown`: of a list that only grows, what was read is
the list's beginning or has a repetition, and whatever stood in it at the start is
read or still ahead.  `Counted`: the first page's `total_count` against the list
as it is, from which a disturbance by additions alone or removals alone shows in
the count.  `Between`, for two reads: when the first returned, the list
had as many records as the read, and a record of the read that it lacked is gone for
good, because an id is not used again; so two equal reads are that list.  `Quiet`:
an undisturbed read is the beginning of the list, with the right number of pages.
The proof did not go through until `LimitsAssumption` excluded a maximum of 0, which
no caller passes, and a marker for "nothing" that is a number.

`ActionRunnerProofs` proves `PublishedTogether` (from `WrittenSoFar`, which says
for each `pc` what has been written), `MatchedRulesHold` (evaluating equal
requirements once loses none) and `GreenIsNewest`.  The last needs that the check
records are a finite set with distinct ids, so that the smallest id exists which
`LatestOf` falls back to, that an unfinished run has no conclusion, and
`RunnerAssumption`, by which no policy accepts the absence of a conclusion; then
a record that gives a group its conclusion is later than every other one of the
group, and an aggregated conclusion later than every group's.

Two theorems of it are about data of any length.  The library's induction
theorems have an operator as parameter, which the provers here do not take; a set
of numbers that holds 0 and with each number the next is all of them
(`NaturalInduction`, by the least number that is missing), and with a set in
place of a predicate both inductions go through.
`ApprovalsAreLastWords`: after any number of reviews, what is known of a person is
that nothing was said, the last review of those without a time, or, of those with
one, whether all of the latest approve (`KnowsLast`).
`HiddenNeverCounts`: the scanner goes from line to line, the property speaks of
pairs of lines (one that opens, a later one that is hidden).  `Covers` joins them: as long as
nothing has closed what line j opened, the state at each line after j is inside it
(by induction over those lines, with one case per kind of region); visible lines
are outside, and only visible lines are counted.

`AuditCollectionProofs` proves `FactsHeldTogether` and `PassMeansProtected` for any
settings, any rulesets and any number of edits.  `CollectionInv` says
that what was read lies between two moments of the repository's past; from the
tree on there is one moment m (`TurnedAt`) with the first settings read before it
and the second ones since.  A fact that is the same in both and not at m
has changed and changed back.  The first attempt at it failed for a good reason: the
proviso `Reverted` was about settings as GitHub holds them, while the code compares
the facts it makes of them, and two settings may give the same facts; it is now
about facts.

`EvidenceReviewProofs` proves the two promises of a promotion and that of a review,
for any cases and any number of mishaps.  Three invariants stand on one
another.  `LossInv` (`AtHome`, `ComesLater`): a file the run owns has its
own name and no other, and what stands under a name that a clean-up is about to
take is the run's or came after it looked.  `ReportInv` (`Accounted`): a file of
the run under a public name is reported, being written, or still to be removed.
`ReviewInv` (`Undisturbed`, `ReadShaped`): what the last checks of an undisturbed
promotion have seen is what a review then reads.

`DeliveryIntakeProofs` proves the three properties of the intake, for any number of
handlers and under `DisjointDeliveries`.  The store's `TypeOK` and `Index` hold in
the composition (the lemmas about claims and purges are used again); `Backed`
says that each receipt and each GUID it answers to comes from a request,
`Held` that what was accepted has its receipt until the retention ends,
and `Truthful` that an outcome a handler holds, and a status that was sent, was
found and stays true.  A second acceptance within the retention would need an
unknown body, and `Held` with `Index` says that it is known.

Assumptions on constants are named and stand in the modules that declare the
constants; TLC evaluates each of them in the runs.  `NamesAssumption`,
`LimitsAssumption`, `IntakeAssumption`, `MapAssumption`, `RequestsAssumption`,
`LoaderAssumption` and `TimesAssumption` bound numbers and keep markers apart from values.
Three say something of the data:

- `RunnerAssumption`: every login is someone's, lines are of the scanner's kinds,
  path patterns are those that `Hits` answers for, and no policy accepts a missing
  conclusion (`policy.ts` takes names of conclusions only).
- `CollectionAssumption`: a list of actors is finite, and a ruleset for repositories
  has no required checks (GitHub's, external: such rulesets hold other rules).
- `PromotionAssumption`: what parses as a manifest has the members of one and no
  more; the marker for "nothing" is no file and no document.

Checked by TLC only: liveness (`LoadEnds`, `ReadsEnd`, `Settles`), because fairness
is beyond the prover.  Every invariant and action property of the passing runs
has its theorem; the properties of the violation runs are false.

## Divergences

What the code does and a document or test says otherwise, each with a run:

1. `committed_regress`: `lease` (ta3-ingress.ts:641) takes a committed receipt back to
   processing once its lease has ended; a different digest can then be
   committed.  The test at test/ta3-ingress.test.ts:381 and ADR 0011:150 say
   that a committed result does not regress and that only accepted or retryable
   receipts are leased.
2. `shared_guid`: records are keyed by the bare GUID (ta3-ingress.ts:571), replay
   keys by tenant and GUID; ADR 0011:124-126 describes separate namespaces.
3. `alias_tombstone`: an alias's tombstone goes with the first receipt of its
   body (ta3-ingress.ts:887), however recent; ADR 0011:223 gives every
   tombstone the seven-day window.
4. `generation_reset`: purging the current receipt deletes its slot
   (ta3-ingress.ts:893), and generations restart at 1; ADR 0011:131 calls them
   monotonically increasing.  With an unchanged binding the external id repeats.

Observed without a run: ADR 0011:133 calls a new delivery with the same binding
a duplicate, the code gives it a new generation; ADR 0011:169 turns a receipt
with too many attempts into a terminal failure, the code leaves it in its last
state and answers "exhausted"; a profile drift in mode disabled or shadow moves
the mode to advisory.  Further:

- A Check Run that has not ended is placed at its start (github-api.ts:298).  A
  rerun that started before an older run of the name completed counts as older
  than that success, although SECURITY.md:114-116 and
  docs/architecture.md:131-133 say that a newer pending result cannot fall back
  to an older success.  `GreenIsNewest` states what the code guarantees.
- ta2-promotion.mjs:723-724 says that a replacement can never be the file that is
  removed.  The restoration renames over whatever came to the name after it was
  looked at; `LosesNothingSeen` therefore is about files that were there when the
  run last looked.
- A policy names the app of a check by its slug and GitHub's settings name it by its
  id, so a check with an app always gives `check_provenance_mismatch` (audit.ts:701).
- `firstError` of github-audit-api.ts:833 holds the last error that was caught, not
  the first: a later rejection overwrites it, so of two failures the audit reports
  the one that came last.
- A complete collection whose report is incomplete for another reason yields no
  bundle: `validateReport` refuses it.
- A redelivery whose binding differs in what the host derives (a moved base) is
  answered 409 by `claimKnown`, not as a duplicate.
- `findFencedCodeLineIndexes` (engine.ts:587) does not know HTML comments: a fence
  inside a comment opens a region for the second pass as well.

## Plan

Done: all components that keep state or decide (see [modules](#modules)), with
proofs of every safety property of the passing runs.  What would come next, in
this order:

1. `BoundedFileRead` (`file-reader.ts`) on its own, with the steps between its
   looks instead of the one step `EvidenceReview` gives the same protocol.
2. `commitEvaluationIfCurrent` of `webhook.ts`, once a store that implements its
   interface is in the repository.
3. `workflow-security.ts`: which jobs of a workflow are unsafe, as rules over
   kinds of steps.

## Limits

By component, what is not modelled and why:

- Pull request loader: validation of payloads (a payload that fails is
  `GatewayFails`); the spelling of logins in permission lookups (github.ts:546).
- GitHub API gateway: requests of a single object and the parsers of headers and
  times, which validate data; `collectCheckRunPages`, which nothing calls.
- Readiness engine: characters within a line, globs, the operation budgets.
- Policy and input normalisation, the installation token profile and the snapshot
  digest, the App token: checks of data or one request, without state.
- CLI and file reader: argument parsing; the reader is represented by
  `readStableFile`.  A file exchanged between two of its looks is a hazard without
  a property (`file-reader.ts:88`).
- Webhook library: `commitEvaluationIfCurrent`, `bindingMatches` and
  `acceptWebhookDelivery` need a store of the host's that is not in `src/src`.
- Audit client: its `collectPages` follows the protocol of `ApiPagination` with a
  stricter link; the checks of URLs and headers.
- Audit rules: the scan of a workflow's text (a workflow is its outcome), grouping,
  ordering and wording of reports, `MAX_AUDIT_FINDINGS`.
- Bundle: canonical JSON, base64url and bounds of texts and lists.
- Release tooling: `release-preflight`, `verify-public-baseline`, `verify-dist`,
  `verify-package`, `verify-markdown-bounds` and `package-smoke` check files and
  recorded evidence and leave nothing behind.
- `dist/` is built from `src/`; fixtures and documents are data.

What the models cannot show: a value that changes and changes back between two
readings (the proviso `~reverted` of the loader and `~Reverted` of the audit names
exactly that); real time, which enters only as "may fail at any moment" or as
a small clock; and anything about hosts beyond the calls they make.
