# Verification of the superlatif web application

TLA+ models of the parts of the application where requests race, die and
repeat, the TLC configurations that check them on small instances, and TLAPS
proofs of what matters most for every instance. All paths below are relative to
the repository (`src/` in `PROJECT.json`); `packages/db/src/` is written `db/`
and `packages/domain/src/` is written `domain/`.

## 1. The system

A Next.js application (`apps/web`) calls services in `db/` that run SQL against
one PostgreSQL database; pure rules live in `domain/`. A WordPress plugin
(`wordpress-plugins/superlatif-app-bridge`) signs learners in and reports order
events. There is a worker process, but it starts no job.

What makes it hard is the same everywhere:

* Every request is a sequence of SQL statements. Transactions run at READ
  COMMITTED, and hardly any row is locked: what a request read may be stale
  when it writes. Unique indexes are often the only arbiter of a race.
* A request may die between two of its commits. Nothing resumes it; only a
  later request can.
* Many rows are append-only and the status shown is derived from them, so what
  must be consistent is spread over several tables.
* Some state is per process (the effective-access cache, the rate limiter's
  local batch) while the rows behind it are shared.
* Between the application and the shop there is a network: an answer may be
  lost after the other side has acted.

### Components

| Component | Operations | Talks to | Hard part | What makes it correct | Modules |
|---|---|---|---|---|---|
| Attempt engine (`db/exam/attempt`) | start or resume, renew and take over the lease, save, submit, finalise an expired attempt | access, scoring | checks outside transactions, two browsers, retries by mutation id, deadlines, death between commits | one submission; the paper marked is the paper handed in; no save counted twice; no late answer | `Attempt`, `AttemptPromise` |
| Scoring, results, release (`db/exam/scoring`) | score, compute thresholds, show a result, show the review | attempt, correction, batch windows | score and review page are computed by different code at different times | what the review shows adds up to the score | `Attempt`, `Marking` |
| Result correction | request, decide | ranking reads it | check, execution and record are separate commits; several deciders | one current result; a correction replaces what was challenged | `Correction` |
| Ranking | generate a snapshot | results, access, attempts | reads spread over many statements while corrections run | ranks right for what it read; entries trace to versions | `Ranking` |
| Access grants and effective access | query, issue, record an event, invalidate | purchases, manual changes, start, delivery | a cache fill races an invalidation | a grant ends by its own source; one grant per key; the cache is fresh when nothing overlaps | `Access`, `Entitlement` |
| Manual access changes | request, decide (execute) | access | as correction | an executed change took effect | `Access` |
| Entitlement rebuild | recompute and compare; find paid orders without a grant | access, reconciliation | many reads while payments commit | an alarm is true, and a clean bill too | `Entitlement` |
| Authorization | assign, revoke, reinstate a role; authorize | every staff operation | a decision in several reads, acted on later | who acts had a role for it when the decision was made | `Roles` |
| Commerce events and purchases | receive, process, claim on sign-in | access, identity, catalogue | redelivery, reordering, unsigned copies, unlocked reads, three ways to bind a buyer | one buyer; each event once; grants only for payment; nothing paid is lost without a case | `Commerce` |
| Catalogue | plan, apply a file of products | purchases read it | two loaders race, people change rows between plan and apply | a load is whole or leaves nothing | `Catalogue` |
| Reconciliation | assign, repair, resolve | purchases, grants | a repair reads, then writes, while events arrive | as for purchases | `Commerce` |
| WordPress bridge plugin | authorize, issue and exchange a code; enqueue and deliver order events | sign-in and webhook of the application | inserts that fail unnoticed, overlapping runs, a stale lock, a killed run, a lost answer | a code is used once; every queued event is delivered or dead-lettered | `Bridge`, `Outbox` |
| Bridge sign-in and sessions | start, callback, log in or link, validate, revoke | plugin, claim | two first sign-ins at once, cookies of several requests in flight | a code signs in the browser that asked, once; one user per shop account | `Bridge` |
| Exam batches | draft, windows, approve, open, close, void | attempt, ranking, release | approval reads windows that may be replaced | an approved batch is a whole paper; its windows never show the key early | `BatchWindows`, `Publication` |
| Exam configuration, question bank and review | versions with a draft-to-published life | batches, attempts | publication of something edited in between | what is pinned was reviewed; the review history ends with the status | `Publication`, `AnswerKeys` |
| Question import | check, plan, write, record | question bank | reviewers move on between plan and write, a row fails half-way, a crash before the ledger | all of a file or nothing; approved questions untouched | `Import` |
| Programs, curriculum, enrolment | build, publish, sync, show | access | publication and entitlement change under a page request | a learner sees one published version | `Curriculum`, `ProgramNames` |
| Delivery and live sessions | ask for and redeem a reference; schedule, join, record | access, curriculum | access or the session changes between the checks | handed out only under access | `Learning`, `ProgramNames` |
| Attempt player (browser) | open the page, choose, take the reply | save of the attempt engine | a choice is shown before it is taken; refusals, other tabs, reloads | what is shown was taken by the server | `Player` |
| Rate limiting | consume | every public route | several processes, flushes in flight, failing open | a bounded overshoot | `RateLimit` |
| Web shell, worker, contracts, flags, observability, UI, scripts | - | - | - | - | not modelled |

`PROJECT.json` lists each with its files and status, and every hazard at its
line with the properties that would catch it.

## 2. Modules

`AttemptProofs`, `CorrectionProofs`, `AccessProofs`, `CommerceProofs`,
`PublicationProofs`, `BridgeProofs`, `CurriculumProofs` and `RolesProofs` hold the
theorems about the module they name; `CorrectionProofs` those about `Ranking` too,
`CommerceProofs` about `Catalogue`, `PublicationProofs` about `Marking` and `Import`,
`BridgeProofs` about `Outbox` and `RateLimit`, `CurriculumProofs` about `Learning`,
and `RolesProofs` about `Player` and `Entitlement`. `MCAttempt`,
`MCCommerce`, `MCAccess`, `MCPublication` and `MCPlayer` are TLC instances of one
module; `MCResults` (correction, and ranking which extends it), `MCDelivery` (outbox,
commerce and limiter), `MCBackOffice` (import, marking, catalogue,
entitlement) and `MCServices` (bridge, roles, curriculum,
learning, player) hold several: the last three put modules
that share no row beside each other. There one behaviour runs one of them,
chosen by `scene` in the initial state, because interleaving modules that cannot
affect each other would only multiply states.

In every module one action is one group of statements that commits together,
or one read whose result is used later. A request's program counter and what
it has read are the record held by its slot (`call`, `deciding`, `generating`,
`delivery`, `repair`, `reading`, `paying`, `job`, `load`, `desk`, `page`,
`asking`, `task`, `run`). `Crash`, `Die`, `Killed`, `Abort...` and `RollBack...`
drop such a record: what was committed stays. Definitions that
weaken the operator below them, most with a comment that begins "A broken", are
plausible bugs used to test the properties; they are part of no specification.
Variables marked "history" record what happened for a property to refer to and
are read by no action's guard.

### Attempt

One learner's attempt at one batch. `status`, `startedAt`, `revision` are the
attempts row; `lease` is the active attempt_writer_leases row (`minted` counts
the tokens issued), `cookie` the token each browser holds; `answers` and `log`
are answer_states and answer_mutations; `submission`, `job`, `result` are the
submission, the outbox row and the first result version.

* Start: `StartArrives`, `InsertAttempt` (unique on user and batch),
  `Activate`, `IssueLease`, `SetCookie`: four commits of `createAttempt`, each of
  which may be the last.
* Takeover: `TakeoverArrives`, `RevokeLease`, `IssueLease`, `SetCookie`.
* Save: `SaveArrives`, `RenewLease`, `CheckSave` (replay by mutation id, status,
  lease, timing), `StoreLateCandidate`, or `ReadAnswer` and `CommitSave`, the
  transaction's read of the answer and its write.
* Hand-in: `SubmitArrives` or `TimeoutArrives`, `Freeze` (the checksum of the
  answers), `CommitSubmission`; then `Score` and `MarkDelivered` in the same
  request, or in a repeated one (`AfterSubmit`).

The clock reading a request uses is the one it took on arrival (`at`).
`AttemptPromise` is what the engine promises a learner, in three steps: `Begin`,
`HandIn`, `Mark`. `Attempt` implements it under a refinement mapping.

### Correction and Ranking

`versions[a]` is the sequence of result_versions of attempt `a`; a score is
identified with the policy version that produced it. A decision request runs
`DecideArrives` (pending check), `CheckCurrent` (stale check), `Execute`
(supersede and insert in one transaction, refused by the unique indexes when the
base is no longer the newest), `RecordDecision`. Decisions carry their arrival
time because the status of a case is its latest decision.

`Ranking` extends `Correction` with generations: `GenerateArrives`, one `Collect`
per attempt, `ReadPrior`, `ReadVersion`, `Publish`. `RankCandidates` is the
code's rank function: the candidates sorted, and each ranked by its place unless it
ties with the one before; which of the sortings of a tie the code has depends on the
order of the rows, so `Publish` takes any. `RanksCountWhoIsAhead` is its
reference definition.

### Marking and AnswerKeys

`AnswerKeys` has the keys of the five question types and `ValidAnswerKey`, shared
by `Publication`, `Import` and `Marking`. `Marking` takes one paper:
`CheckSave` accepts an answer that fits its question while the attempt is open, and
`CommitSave` writes it, perhaps after the hand-in or the scoring. `ScoreSubmission`
computes section scores, thresholds and the verdict, `Correct` recomputes them under
another policy, and both refuse answers that are not those handed in. `WindowOpens`
moves the batch on. A page is two requests' worth of reads
(`AskReview`, `ShowReview`), and a correction or a window may come between.
`ReviewAnswer` is the review page's own account of an answer, written in the
code apart from `GradeAnswer`; the page reads the answers as they are by then, and `review`
keeps which it read (`seen`).

### Access and Entitlement

In `Access`, `grants` and `events` are access_grants and grant_events; `Status`
derives a grant's status and `Supporting` the grants that make a decision allow.
`cache[p]` is the in-memory cache of process `p`. A query that misses runs
`QueryArrives`, `ListGrants`, one `ListEvents` per grant, `StoreDecision`. A
purchase's transaction invalidates when it runs (`PaymentArrives`) and commits
later (`PaymentCommits`). A manual change is decided by `DecideArrives`,
`ExecuteGrant` / `ExecuteRevocation` / `ExecutionFails`, `InvalidateDecided`,
`RecordDecision`. `serial` is a history variable: true while requests have run
one at a time on the only process with a cache.

`Entitlement` has what `Access` abstracts: validity windows by policy mode
(`ComputeValidityWindow`), claims and their narrowing (`NarrowedWindow`), the
decision with its reason and window (`ResolveEffectiveAccess`); and the two
checks of the rebuild service, `CheckDrift` / `RepairDrift` against the cache and
`ListPurchases`, `ListPaid`, `ListGranted`, `FindCase`, `RaiseCase` against the
purchases, one read a step. Grants come from two places: a payment of an order that has
an offer (`PaymentCommits`), and the repair of an order whose SKU had none
(`RepairArrives`, `RepairCommits`); `Unmapped` are the orders that may begin so.

### Commerce

One order. `Events` are what the shop can say of it: the sender may deliver any
of them any number of times, in any order, with or without a valid signature.
`Receive` is the receipt: the lookup by event key, the raw row, and the normalized row
or the quarantine of an event whose type the status map lacks (`Unreadable`);
a request goes on only with a normalized row, its own or one a request that died left
behind. `Accept` is the answer 202, and `accepted` the history of what was answered so.
`ReadPurchase` and
`ReadIdentity` the lifecycle transaction's reads, `Create` / `Apply` /
`RefuseBuyer` its writes. `Claim` binds an order when its buyer signs in.
`PickCase`, `RepairRead` and the `Repair...` actions are an operator's repair.
`GrantEffect` and `CaseEffect` are `applyPurchaseStatusEffects`.

### Catalogue

`PlanCatalogue` reads what exists and classifies each product of a file;
`ApplyCatalogue` writes the plan unless a unique key refuses; between them
another loader or the people's actions (`CreateProduct`, `CreateSkuMapping`,
`PublishPolicyVersion`, ...) may commit. `ResolveSkuMapping` is the lookup a
purchase uses.

### Bridge and Outbox

`Bridge` follows a sign-in through three parties. The browser has a jar with
the state and session cookies and, at the shop, a tab (`tab`) with the logged-in
account and the pending visit kept through the login page. The shop issues a code
(`IssueCode`) and exchanges it once (`RestExchange`). The application's callback
is `Callback`, `ExchangeBridgeCode`, `BeginLogin`, `CommitLogin` or
`LoginCollides` (the unique index on the external identity), `DeliverAnswer`. The
request to the shop lives in `wire` on its own: the application may give up on it
(`GiveUp`) and the shop still act on it, or act and the answer be lost
(`heard = FALSE`).

`Outbox` is the plugin's `commerce.php`. A request that changes an order's status
(`OnOrderStatus`) inserts a row for each client that lists the product, one at a time
(`Enqueue`); an insert may fail, unnoticed, and the request may be killed between two. If it
queued any it delivers before it ends (`OnShutdown`), as WP-Cron does (`DeliverNow`): a
run does `TakeLock`, `CheckLock` when another holds the lock, `StealLock` when it is stale,
`ReadDue`, then `Send` and `RecordAttempt` row by row, and `ReleaseLock`. Times are
relative (what is left of a back-off, the age of the lock), so the clock needs
no bound.

### Publication and BatchWindows

One module for the life of question and stimulus versions, scoring policies,
blueprints, forms and batches: they share the status machine (`Edges`) and the
shape of their handlers, and pin one another. A create that reads first
(`CreateExamFormDraft`, `CreateExamBatchDraft`) is followed by `Insert`; an edit
is `BeginEdit` (status read) and `Edit` (update by id); an approval is `Vet`
(`Publishable`, `Composable`) and then `ApproveVetted`; a move is
`Transition` (read and edge check) and `Write`. `BatchWindows` is the pure part:
`Coherent` is the check on a set of windows, `BatchState` the state derived from
it at an instant.

### Import

`LookUp` (the ledger, by checksum), `Plan` (validation against the file and the
bank) or `Refuse`, then the transaction in two steps or `RollBack`, `Record` (the ledger, a
statement of its own) and `Die`. `CheckDrafts` is what the transaction reads of rows it
does not hold yet: the status of each version it will update, and of each kept passage it
will add assets to. A review may commit before `Commit`, the writes, which name a version by
its id alone; what is read again after the row is held (the status when a question's key is
stored or an image is added to a passage) is part of `Commit`, a numbered run of writes
(`NthWrite`): the passages (`WritePassage`), the questions (`WriteRow`), the passages'
listed assets (`WritePassageAssets`). Each maps a state to its results, none when
the code throws, and `Results` is what is left after the last. `Review` is what
reviewers do to versions meanwhile.

### Roles

`AssignRole`, `InsertAssignment`, `RecordRoleAssignmentEvent`, `InsertEvent` write;
`ListRoles`, `ListActiveRoleHoldings` and `Decide` are a service that asks and
acts. `Authorize` is the domain decision: maker-checker, audit of risky
permissions, the permission table.

### Curriculum, Learning

`Curriculum`: staff build a version's tree and publish it, a page request syncs
the enrolments of its learner (`pin` to the current version) and chooses the
primary program. `Learning`: release rules, references to assets and to live
sessions, which are asked for under one set of checks and redeemed under another.

### Player

`answers` is the state of the component `AttemptRunner` in each tab, `saves` what it
waits for: each with the entry it replaced (`previous`) and the revision it expects.
`Select` is `select`; `ReadRow` and `CommitSave` are the save's transaction on the
server, `RefuseSave` every guard before it, `Acknowledge` and `Restore` the two
branches of the reply, `Fail` an error that takes the page down, `ServeOrphan` a save
whose page is gone. `Attempt` has the same save with its lease, times and mutation
log; here they are one refusal. That a tab's saves go out one after the other is
how the framework runs server actions (external).

### RateLimit

`ConsumeRateLimit` counts in the instance's buffer or goes to the shared counter,
`Answer` brings its verdict, `FailOpen` is a failing store, `DeleteExpired` the
daily job.

## 3. Runs

| Run | Instance | Shows | Distinct states |
|---|---|---|---|
| `attempt` | 2 requests, 1 browser, 1 question, 2 mutations | submission, status, job and result agree; the revision counts accepted saves; each answer has its mutation; `Attempt` implements `AttemptPromise` | 752,954 |
| `attempt_devices` | 2 requests, 2 browsers, 3 tokens, clock to 2 | a browser loses the lease only to a takeover asked for while it held it; deadline and cutoff hold | 2,185,883 |
| `results` | corrections: 1 attempt, 3 cases, 2 deciders, 4 decisions; rankings: 3 attempts with a tie, 1 case against the one scored last, 2 generations, 2 snapshots | one current result; a correction replaces what its requester saw; executed means a version exists; competition ranks; entries trace to versions | 758,106 |
| `commerce` | 3 events (a payment, also unsigned, a chargeback, a payment naming someone else), 2 deliveries, 1 operator | one buyer; paid is served or queued; unbound is queued; grants mean payment; an event answered as accepted is recorded | 1,403,680 |
| `access` | 1 student, 1 order, 2 requests, 2 staff, 1 process; 2 of a query, a purchase and 2 deciders at once | a grant ends by its own source; one grant per key; executed took effect; the cache is fresh when requests do not overlap | 1,101,444 |
| `publication` | a whole paper from its questions to its batch; a question with its passage; two requests at once over policy, blueprint and form | pins were reviewed; a review history ends with the status; an approved batch is a complete paper; its windows never show the key before a release | 273,548 |
| `delivery` | outbox: 1 order change, 2 clients, one of which cannot read it, 2 PHP processes, one killed; limiter: 2 instances, 2 requests at a time and 6 in all, both kinds of scope; commerce: 6 events, one of unknown type, 1 delivery at a time, unsigned copies | no queued row is lost; every queued event settles (liveness); the limiter's overshoot is bounded; a purchase shows its newest event | 491,210 |
| `back_office` | four uploads and two importers; six papers under four policies; four catalogue files and two loaders; three orders, one without an offer, two drift checks | an import is whole or leaves nothing and keeps approved questions; the review explains the score on what was handed in; a load is whole; a drift check's clean bill and its alarm are true | 1,046,147 |
| `services` | 2 browsers, 2 shop accounts, 2 codes; 2 people and 2 permissions; 2 programs of 2 versions; 2 placements and 2 live sessions; 2 tabs, 1 question, 3 choices, 3 pages | a code signs in once; a subject is one user; an act had its role; a learner sees one version; an asset had its access; an answer shown was taken | 983,726 |

`frozen_after_submit`, `player_looks_saved` and `reopened_order` check sentences of
the repository that the code does not keep; see Findings. `reopened_order` has three
events of one order (two payments and a cancellation), two deliveries that
overlap, and nobody who repairs by hand.

### Bounds, and why they are enough

Every constant named `Max...`, `Last...`, `ExamClose`, `Duration`, `Grace`,
`...Ttl` is given in the `.cfg`; no bound is hidden in a module.

* Two concurrent requests (`Slots`, `Deciders`, `Generators`, `Deliveries`,
  `MaxBusy`, `Calls`, `Requests`, `Importers`, `Loads`, `Tasks`, `Desks`, `Pages`,
  `Askers`, `Runs`): each conflict in this code is between one request that read
  and one that wrote since. Two at a time, any number in sequence, give every such
  pair; two may also both die.
* Clocks need only tell before and at each boundary apart, and each boundary is reached:
  code that tests `<` where it should test `<=` differs at the boundary itself. In
  `attempt_devices` Duration, Grace and TTL are 1, so that deadline, cutoff and
  lease expiry each fall on a reachable tick, and `MaxTime` is the cutoff. In
  `services` a code and a pending visit expire after one tick, the state cookie and
  the session after two; in its learning scenes `LastTick` is 2, the lifetime of a
  reference, so that one issued at the start has expired at the end and one issued later
  has not.
* `MaxTokens` = 3 is a first lease and a takeover by each browser; `MaxExpected` is
  how far ahead of the server a client may claim to be.
* `Correction`: three cases against one attempt let two compete and a third
  challenge the outcome; `MaxDecisions` = 4 decides each and repeats one. In the
  scene with rankings a generation collects the attempts in the order the batch lists
  them and starts once two of the three are scored: what it reads apart from the
  others is the third score and its correction.
* `RateLimit`: the buffered scope may pass its limit of 2 by one request in each of two
  instances and so admits 4 when nothing fails; six arrivals in all go beyond that.
* `Marking`: two saves are one that lands in time and one that lands late, in one section or
  in two; two results are the first and its correction.
* `Commerce`: the events of a run are chosen so that each transition that the
  run's properties concern can happen in each order.
* `Publication`: a scene bounds what may be edited at once (`parts`), how many
  requests overlap (`width`) and how many review rows are written (`reviews`). The
  whole paper needs eleven versions' steps in sequence, so it runs one request
  at a time; the scene with two requests has the three kinds whose checks cross.
* `Import`, `Marking`, `Catalogue`, `Entitlement`: the documents are few and each is
  there for a case: a workbook with every part; a retyped question; one without
  its image; one without weights; an option set replaced under its key; a section
  whose scorer cannot grade what it allows; swapped SKUs; colliding policy codes;
  a fixed window, an endless one and one that cannot be resolved.
* `Player`: three choices over two tabs let one hurry, a second tab overtake it and
  a conflict follow; three pages let a tab be reloaded with a save on the way.
* `Learning` runs as two scenes, `content` and `timetable`: assets and live sessions
  meet in the access they ask for and in nothing else. The timetable scene takes one
  input fewer than `MaxAsked` and has no enrolment dates; a reference's whole life
  (issue, expiry, redemption, a change of access between them) fits in the content scene's five.
* `MaxInputs`, `MaxSteps`, `MaxBegun`, `MaxChanges`, `MaxAsked`, `MaxRequests` bound what
  people start, never what a started request may do.
* `MaxDeaths` = 1 in `delivery`: a process that is killed without end delivers
  nothing, so liveness needs a bound on deaths, and one death while holding the
  lock already reaches the stale lock and the overlap.
* Symmetry is declared for sets whose members the modules never tell apart, and
  only with safety properties. In `MCResults` attempts are not symmetric, because
  they have different scores, nor cases, which are numbered as they are requested. In
  `MCAccess` grants are numbered by creation, not by name, so requests remain
  symmetric.

`CHECK_DEADLOCK FALSE` everywhere: each instance really ends, when its orders are
settled, its cases decided, its inputs used up and its clock run out.

### Fairness

Only the plugin's outbox is run by something that keeps running it, WP-Cron, and
only there is liveness claimed (`EveryEventSettles`). `OutboxFairness` assumes that a
PHP process takes its next step unless it is killed (weak fairness of `Step` for
each process), that WP-Cron starts a run when one can start (weak fairness of
`DeliverNow` by some process), and that time passes. It assumes nothing of the
application: it may answer "later" for ever, and the event then settles as a
dead letter after its last attempt.

Elsewhere nothing in the repository schedules anything: the worker starts no
job, and `drainAllPendingScoringJobs` and `finalizeExpiredAttemptIfDue` are called
by nothing but tests. A pending scoring job is served only if its learner
submits again. What one would want to happen eventually depends on a person.

### Mutants

For each property of each passing run `PROJECT.json` names a definition and a broken
form of it, such as a transaction without its unique index, a retry that is not
recognised, a failure that is not noticed. TLC finds the property violated with
it, under the same configuration.

## 4. Proofs

TLAPS checks these for every value of the constants. The assumptions are the ones
named in the modules: times and bounds are natural numbers, `Instances` and
`Mutations` are finite (for the count only), the requests at work on access
at once (`Readers`, `Deciders`, `Payments`) are finite, the pinned policy is a policy, order and
request identifiers are distinct and every order has a buyer, windows are times,
an absent row is no row, a closed tab no page and no passage no link, what a workbook, a structure or a
catalogue file contains has its type, the plugin's clients are finitely many. One
assumption says what the code does *not* promise, and only the three theorems that
need it make it: `OneAtATime`, below.

The type invariant of a module is a theorem (`TypeCorrect`) or part of the
inductive invariant, not a property of its run.

**AttemptProofs.** `TypeCorrect`, `FinalStateIsCoherent`, `PromiseKept`
(refinement), `LogAppendOnly`, `RevisionCounts`, `AnswersHaveMutations`,
`DeadlinesAreKept`.
`FinalStateCoherent` is not inductive: a request about to mark the job delivered
must already have its result. `MarkHasResult` says so, and the two together
are `FinalInv`. The refinement then follows step by step: every action either
leaves `phase`, `paper` and `marked` alone (`Invisible`) or is exactly `Begin`,
`HandIn` or `Mark`; `Score` is `Mark` because it verifies the checksum.
`RevisionCounts` is about a cardinality: an accepted save adds one row to a
finite set of accepted rows, since `CommitSave` takes only a mutation not yet in
the log. `DeadlineInv` says
that a request keeps the timing verdict of its arrival and that the deadline, once
the attempt exists, never moves.

**CorrectionProofs.** `TypeCorrect`, `OneResultIsCurrent`,
`EveryVersionIsChallenged`, `ExecutionsHaveVersions`, and of `Ranking`
`SnapshotsTraceToResults` and `RanksAreCompetitionRanks`. The inductive invariant adds
that a case challenges a version that exists by another policy
(`CaseGrounded`), that a decider works on a case of the table (`DecidesCases`),
and that a decision about to be recorded as executed has its version
(`ExecutedUnderWay`). The heart is `ReplaceInv`: the transaction commits only
when its base is the newest version, so the version it supersedes is the current
one. The stale check alone would not do, because it reads before the transaction.
For `Ranking`, a version once there stays, with its policy (`VersionsStay`), so what a
generation picked is still true when it publishes (`TraceStays`), and superseding a
snapshot touches no entry (`PublishTraces`). `RanksAreCompetitionRanks` is about the
rank function for any number of candidates. In a sorted list the rank at each place is
the first place of its tie (`RanksAreFirstPlaces`, by the least place where it would
not be), whoever is ahead stands exactly before that place, and a bijection counts
them (`RanksCount`). The scores an entry shows are those it was ranked by, so it is so
of every snapshot ever published (`Ranked`).

**AccessProofs.** `TypeCorrect`, `GrantsEndBySource`, `KeyHasOneGrant`,
`ExecutedIsEffective`, `CacheIsFresh`. The inductive invariant adds that a revocation names a
grant that exists and request ids are unique (`RequestsGrounded`), that deciders
and decisions refer to requests of the table (`DecidesRequests`), that the source
of a grant follows from its key (`KeysFitSources`), and what a decider in progress
knows (`EffectKnown`). `EffectStays` is why death between commits is harmless:
grants and events are append-only, so what took effect stays in effect.
`CacheIsFresh` needs to know what is stale between two commits: `SerialInv` has one
case for each request that may be at work. With none, or a query, every entry is
fresh; a decision between its execution and its invalidation leaves one student's
entry behind and is about to drop it; a payment has dropped its buyer's entry before
its grants are written.

**CommerceProofs.** `TypeCorrect`, `OrderHasOneBuyer`, `EventsCountOnce`,
`GrantsArePaid`, `UnboundHasCase`, `AcceptedGetsRecorded`. `Order` strengthens the
properties: an order that exists has accepted an event, the events it accepted
name one buyer, a paid status is accounted for by an accepted event, and a case
is about an accepted event unless it is about a refused buyer. `DeliveryFits` and
`RepairFits` say what survives of a stale read: a row read earlier may be out of
date in status and time, but its buyer, if it had one, is still the buyer, and
a paid status it shows was paid for (`RowFits`); a verdict that the buyer matches
stays true, because accepting an event never changes the one subject. That is why
transactions which write back the status they read can lose a transition
(see Findings) but never misplace a grant. `Receipts` is the crash between the receipt and
the lifecycle: a verified row of an event with a known type has its normalized row, because
one transaction writes both, so whichever request comes next goes on to the lifecycle, and
none is accepted before its event is recorded. `OrderStep` and `QuietStep` reduce each
action to what it writes.

`StatusFollowsNewest`, `ClosedOrdersStayClosed` and `PaidOrdersAreServed` hold of an
order whose deliveries are worked on one at a time and which nobody repairs by hand
meanwhile (`OneAtATime`: one delivery process, any number of events, any order,
repeats and deaths; sign-ins and claims overlap it freely). Without it all three are
false: `StatusIsNewest` because a stale read is written back, the other two as
`reopened_order` shows, a counterexample that the attempt to prove them found. The
inductive invariant `Serial` takes the three together, since each needs the others (a
closed order is not reopened because its status is its newest event's, a paid one
keeps its grant because it was not closed), and adds `AsRead`: what the one delivery
has read is what it writes over.

`ProductsAreLoadedWhole` is about `Catalogue`. The invariant adds what a run planned,
as far as the database still bears it out when the run commits (`PlanStands`), and
that a version is named by the product that made it (`VersionsAreNamed`): between
plan and apply rows are only added, so a key that was taken stays taken, and
the unique keys refuse a plan whose free key was taken since.

**PublicationProofs.** `TypeCorrect`, `PinsWereReviewed`, `HistoryEndsWithStatus`,
`ReleasesComeInOrder`, `ApprovedPapersAreComplete`. The invariant says of each request what its check found and
of each row what it pins (`RowsFit`, `CallsFit`). The pins of a draft are published
versions, and publication is never undone except by archiving, so what was
vetted stays reviewed whatever is done to it between check and write; a write
that carries a stale status cannot unlock a locked row (`Grows`). `ReleasesComeInOrder` is
about instants only: `KeyComesLast` and `StatesMoveOn` hold for every coherent set
of windows. `ApprovedPapersAreComplete` is stated for requests in turn, as is the
property: what an approval vetted (`Ready`) rests on final versions, which keep their
content, so it is still so when the status is written (`CallStands`) and ever after
(`Stands`).

`ReviewsExplainScores` is about `Marking`. Every version of a result, the released and the
corrected ones too, is what the answers handed in score under its policy
(`ResultsFit`): not because answers stay as they were, for a save may land late, but
because scoring compares them. A review is the review of the answers as it found them
(`ReviewFits`), shown only of papers it can explain. What is left is that the two
computations agree answer by answer (`AnswerIsExplained`), so in a section without a late
save their sums are sums of the same function.

`ImportsAreWhole` and `ApprovedQuestionsStay` are about `Import`, for workbooks of any
length. The hard part is the transaction. `Written` says what holds after the first
`i` of its writes: the bank follows the one it began with (`Follows`: codes only gain
versions, locked questions are untouched, every version written is of this document
and right by its own type and options), the passages written so far have a version to
link to (`Placing`), and the questions written so far are in the bank and in the
lists (`Rowing`, `Listing`). One lemma per kind of write takes `i - 1` to `i`
(`PassageWritten`, `RowWritten`, `AssetsWritten`). The prover has no induction, so
`StepByStep` takes the least number a property of numbers fails at, from the
well-foundedness of `<`, and `TrailIsThere` shows in the same way that the function
`Results` defines by recursion exists. The invariant (`ImportInv`) then says of a
request that its plan was made on a bank the present one has grown from
(`PlanFits`, kept because banks only widen), which is why a plan that is stale when
its transaction starts can lead to a rollback and not to half an import.
`ApprovedQuestionsStay` does not rest on the status the transaction read first, which may be
stale by the time it updates: the update takes the row, so when the key is stored the status
read is the current one, and a question approved meanwhile undoes the transaction (`Fill`).

**BridgeProofs.** `CodesSignInOnce`, `SubjectsHaveOneUser`. A code is held by one
request at a time, from the shop's answer to the session (`OneHolder`), because the
row is marked used in the statement that answers; the browser that holds it is
the one whose cookie had its state (`CallFits`, `Jars`); and links are one to one
because a request inserts only when the unique index finds the subject free.
`QueuedRowsAreKept` needs to know what a cron run holds: a row it read as due
exists, and what it is about to record is an answer the client's application gave
(a receipt before "delivered", malformed content before "refused"); a run that
was overtaken may write an older count of attempts, which is why the property does not say
that a delivered row stays delivered. `AdmissionsAreBounded` counts: each request admitted
is in the shared counter or owed to it (`Debt`): by a buffer, a flush on its way,
a refused flush or a failing store. What buffers owe is counted as places, pairs of a
process and a number below the batch size (`Unflushed`), so a step adds or removes
places of one process and the bound is a cardinality of a finite set.

**CurriculumProofs.** `OneVersionIsShown`. A pin once set is never changed, so what a
page has shown is still what is pinned (`ShownIsPinned`), and a version that was
published when the sync read it stays published (`SyncsPublished`).
`HandOutsAreUnderAccess`: what a request has checked was true at some moment since it
arrived, and `held` and the closing of a session are histories that only grow.

**RolesProofs.** `ActorsHaveRoles`. What a request has read is what stood at some moment
since it asked (`ReadsFit`), and an assignment is active exactly when its newest event
says so, however late an older one is written (`ActiveStands`, `NewestStays`).
`AnswersShownWereSaved`: a save that waits keeps the entry it replaced, and that is blank
or was taken by the server unless the learner hurried (`SaveFits`), so what a refusal
puts back is too; a reply is to the first save of the page that is open (`PageFits`).

`DriftChecksVouch` and `AlarmsAreReal` are about `Entitlement`. Whatever a request has
read of grants, events and validity was true when it read it and a cached decision was
resolved from such reads (`TaskFits`, `Kept`); a drift check that nothing disturbed still
holds what a fresh read would find (`QuietFits`, `QueriesFit`), and so does what it
vouched for, until the next change takes the voucher away (`VouchedFits`). For the alarm,
an order listed as paid was paid, and if it was then found without a grant it gets one only
from the repair of its SKU: a payment sets the status and grants in one transaction, so what
the payment of a listed order grants was there to be read (`Unserved`, `AlarmFits`).

Proved only: `EventOnce`, that no event of an order is recorded twice.

Model-checked only: `EveryEventSettles`. Liveness under fairness and ENABLED are out of
reach of the prover.

## 5. Findings

Three runs have `expect: violation`; each checks one sentence of the repository.

* `frozen_after_submit`: a save that passed its status check commits after the
  hand-in and changes the answers; the attempt can then never be scored, as the
  checksum no longer matches. `scoring-service.ts:82` says this should be impossible.
* `player_looks_saved`: a learner chooses twice before the first reply and both
  saves are refused (lease, deadline, rate limit, write guard). Each refusal puts back
  what its own choice replaced, so the page ends with the first choice, and counts
  it as answered and saved, though the server has neither. `AttemptRunner.tsx:107`
  says an unacknowledged answer is never left looking saved. `ShownWasSaved` is
  checked for learners who wait for the reply.
* `reopened_order`: a repeated payment report reads its order as paid, a cancellation
  commits, and the report's transaction writes back the status it read
  (`purchase-lifecycle-service.ts:454`, read without a lock at `:292`). The cancelled
  order is paid again, without a case; if it was bound, with its grant revoked, and if
  its buyer claims it only now, with neither a grant nor a case.
  `purchase-transition.ts:56` says that reopening a terminal order is "always a
  reconciliation case, never an automatic transition".

Observed while modelling; they have no run of their own.

Attempts and results

* Two saves of one question that both read revision r are both accepted as r + 1
  and the first payload is lost (`attempt-service.ts:615`); `answer-save-cas.ts:11`
  says a save must be revision-safe. (`Attempt`)
* `createAttempt` that dies after its first commit leaves the attempt in
  "created": nothing activates it later. (`Attempt`)
* The deadline of an attempt is not capped by the end of the batch's attempt
  window; a form archived after its batch was published makes the branch that
  `attempt-eligibility.ts` calls unreachable reachable. (`Attempt`, `Publication`)
* An approval and a rejection of one case both pass the pending check. The case
  ends rejected, with a new result (`result-correction-service.ts:163`);
  `corrections.ts:78` says a rejection executes nothing. (`Correction`)
* The review page reads the answers without comparing them with those handed in
  (`attempt-review-service.ts:87-91`, where scoring compares a checksum): after a save that
  landed once the attempt was scored, it shows an answer that the score does not count.
  `ReviewExplainsScore` is about the sections no such save touched. (`Marking`)
* A section that allows both choice types passes the policy check and scoring
  throws after hand-in, where `answer-grading.ts:106-111` says it "structurally
  should never fire". (`Marking`)
* Two threshold rules for one section share a key and the last wins;
  `sectionMaxScores` bounds no score; `releaseResult` may stamp a superseded
  version. (`Marking`)
* A ranking generation that read before a correction may publish after one that
  read it; two renewals of a lease may commit in the opposite order. Both are
  repaired by the next one.

* Where the first of two quick choices is accepted, the second expects the old
  revision, conflicts, and puts back the first choice at that old revision: every
  later choice of that question conflicts until the page is reloaded. (`Player`)
* A refused save takes the choice off the screen, where `actions.ts:180-184` and the
  message for `rate_limited` say the selection stays. (`Player`)

Publication and import

* Review rows are ordered by the start of their transaction: overlapping
  decisions may list in another order than they committed
  (`question-service.ts:194-195` says the trail can never disagree with the status).
  `HistoryMatchesStatus` is therefore stated for requests in turn.
* An edit that read a draft may land on the version after it was approved
  (`exam-config-lifecycle.ts:21-22`): a locked version changes in place.
* A question's stimulus need not be approved, and its key is not rechecked when
  its options are replaced.
* A job in update_draft mode reads a passage's status, a reviewer approves the passage, and the
  job's update, by id alone, replaces the approved text
  (`stimulus-repository.ts:150-163`), unless the row also has an image, whose insert reads the
  status again; `stimulus-repository.ts:144` says the window is the same as a question's.
  An image may be added in the same way to a passage the job keeps. (`Import`)
* Two identical imports in create_revision mode that overlap both commit, where
  `question-imports.ts:7-8` says the ledger "can never double-import". A crash
  between commit and ledger, or a second ledger row, leaves a job recorded as failed
  whose rows exist; a transient failure is replayed as failed for ever.
* `update_draft` never changes a question's type and adds its assets again; an
  asset row for a passage that is kept because it is locked fails the whole job.

Commerce, access, catalogue

* A cancellation and an older payment both read the pending row; the payment
  commits last and the cancelled order is paid again
  (`purchase-lifecycle-service.ts:416`); `purchase-transition.ts:22` says a late
  webhook must never move the timeline backward. `StatusIsNewest` is checked for
  deliveries in turn.
* An order whose buyer and SKU are both unknown, bound at sign-in, ends paid
  without a grant and without an open case (`:549`);
  `docs/gates/23_SEJOLI_WORDPRESS_INTEGRATION.md:311` says it enters a queue.
* A repair writes back the status it read before its update, over an event that committed in
  between (`reconciliation-repair-service.ts:106`).
* A refund that read its order unbound while a claim binds it revokes nothing;
  rejecting a chargeback review leaves the grants suspended.
* A query that read the grants before a revocation commits may store its decision
  after the invalidation, a purchase invalidates before its transaction commits,
  other processes are not invalidated at all and entries have no expiry:
  `manual-change-service.ts:3` says effective access reflects a manual change
  immediately. A cached decision also outlives the expiry of its grant.
* A manual change that dies between executing and recording is still pending. An
  approval repeats harmlessly; a rejection then leaves a rejected request with a
  grant.
* `availabilityOverride` never denies, although a test is titled so
  (`effective-access.test.ts:261`): it narrows the reported end only. Only the first
  matching claim of a grant counts. `through_program_or_batch_end` always ends
  unresolved, and a grant by duration after activation stays scheduled, because
  no caller passes what they need. (`Entitlement`)
* `detectPurchaseGrantDrift` may report a purchase that the repair of its SKU granted after the
  check read the grants; and its alarm, once raised, stays open when the repair grants the
  order it is about. (`Entitlement`)
* Two runs of `detectPurchaseGrantDrift` at once both raise a case for the same
  purchase.
* A file with two SKUs swapped is reported as existing (`catalogue-loader.ts:275`;
  the header says a change of a mapping is a conflict). Two loaders may give one
  SKU to two products, and which one it resolves to is then arbitrary.
  (`Catalogue`)

Sign-in, outbox, limits, roles, programs

* One state serves two callbacks in flight, and reloading the authorize page
  issues a second code: two sessions live at once (`db/identity/service.ts:52-54` says
  exactly one). A lost answer burns the code. (`Bridge`)
* The result of the outbox insert is used only to decide whether to deliver
  (`commerce.php:532`): when it fails, or the request is killed between two clients' rows, the
  status change is never sent to that client and nothing tries again. (`Outbox`)
* Two overlapping runs of the outbox may turn a delivered row back to pending or
  dead: the event is sent again, and the application deduplicates it. (`Outbox`)
* The overshoot that the limiter's comment states is exceeded by flushes in flight;
  `AdmissionIsBounded` counts them.
* No caller of `authorize` passes a scope, so a role's scopes narrow nothing.
  Assigning a role that was revoked returns the revoked row. (`Roles`)
* A check that a version is a draft races its publication: a published tree may
  still grow. Two page requests may leave a learner two primary programs.
  (`Curriculum`)
* Rescheduling and cancelling a session have no status guard; a reminder may be
  planned for a cancelled session; an item that opens after a prerequisite never
  opens; an archived module is delivered until its reference expires. (`Learning`)

## 6. Not modelled, and why

* Web shell, worker, contracts, environment, flags, observability, UI and scripts:
  configuration, wording and I/O, without state that another operation races for.
* Inside the modelled parts: views and listings that only read (leaderboard,
  reviewer's queues, home page, reports); audit rows; the wording of messages;
  payload redaction and checksums (a checksum is its content); attempt allowance;
  comments and checklists of a review; assignment of a case to an operator; admin
  pages of the plugin; reminders' delivery; parsing of spreadsheets and archives
  (an upload is what it parses to); what signatures protect (a message is signed or
  it is not).
* The purge of delivered outbox rows (30 days) and of old codes lies beyond the
  horizon of the runs.
* In `Attempt` the batch is open before `ExamClose`, and in `Ranking` its windows
  are open; that the windows are coherent is `Publication`'s.

## 7. Plan

All modules planned are written: the attempt engine, correction, ranking,
commerce and access; then the bridge and its outbox, batches and publication, the
limiter, import, marking, catalogue, entitlement, roles, curriculum,
learning and the player. What remains would deepen them:

1. `Attempt` taking its opening from `BatchWindows`, so that closing a batch early
   and a running attempt meet in one run.
2. `Bridge` composed with the claim of `Commerce`: the first sign-in and the claim
   are one request in the code.
