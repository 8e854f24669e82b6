# TeamTaler: verification project

TLA+ models of the parts of TeamTaler in which order, concurrency, failure or
arithmetic can go wrong, TLC runs that check them on small instances, and TLAPS
proofs that hold for every value of the constants.

TeamTaler is a modular monolith: one Go process, one SQLite database, an HTTP
API in front of domain services, and background workers in the same process.
`storage.WithTx` (internal/storage/database.go) opens every transaction as
`BEGIN IMMEDIATE`, so write transactions are serialised. Every model rests on
that: **a transaction is one action**. What the code does outside a transaction
(reads and checks before it, queries of a list, files, mail, calls of a
listener) is a step of its own wherever other actors can come in between.

## Inventory

| Part | State | Operations | What is hard | What makes it correct |
|---|---|---|---|---|
| Bookings (`bookings`) | bookings, append-only ledger | create, batch, bulk with new guests, void | voids after a settlement, double voids | ledger = documents, settled periods final |
| Payments (`finance`) | payments, ledger | create (self-service, finance), reverse | double reversals, deleted payers | ledger = documents, debts reconcile |
| Allocation (`ledger`) | allocation rows, derived | rebuild | every writer must rebuild; order of money and claims | rows current, equal to a reference |
| Settlement (`periods`) | periods, statements | close | races with bookings and voids | statements = ledger |
| External accounts (`externalaccounts`, `groups`) | accounts, links, movements, version | configure, post, reverse, restore | outdated views, tombstones, relinked methods | money conserved, none hidden; version identifies the configuration |
| Exports (`exporting`, `exportnotifications`) | jobs, files, leases | request, run, publish, complete, clean up | leases, crashes, files against rows | lease token decides; archives neither lost nor left |
| Planning events (`planning`) | event, audience, responses, tasks | edit, respond, close, complete, deliver | capacity against edits, waitlist, outdated tasks | capacity, queue order, progress |
| Planning series (`planning`) | revisions, occurrences, ranges, recipients | revise, cancel, materialise | exceptions and answers against revisions; calendar arithmetic | history spared, one notice, ordinals stable |
| Reminders (`notifications`) | statements, created reminders | poll | outages, schedule changes, nine o'clock | caught up once |
| Outboxes (`email`, `webpush`) | leased delivery jobs | enqueue, claim, check, send, retry, cancel | crash after sending, late answers, resends, expiry | at least once, in the current wording; settled |
| Accounts (`auth`) | accounts, sessions, one-time actions | login, reset, change | credentials checked before the write | a change revokes everything older |
| Joining (`groups`, `auth`) | invitations, guests, links, registrations | invite, renew, import, accept, claim, register, confirm | anything between preview and acceptance | one person, one membership, invited roles |
| Roles (`groups`, `authorization`, `system`) | roles, grants, assignments | edit, replace, delete | outdated screens, the last administrator | administration only by administrators |
| Groups and files (`system`, `media`, `paymentattachments`) | groups, files, references, jobs | provision, archive, restore, purge, upload, collect | uploads against collection, shared content | referenced files exist, archived groups closed |
| System settings (`system`) | overrides, revisions, test result | edit, reset, test, resolve | two-query snapshots, tests of replaced connections | only tested connections send |
| Catalog (`catalog`, `kiosk`) | categories, products, codes, posters | edit, reorder, book | three-query lists | versions identify, codes unique |
| Backup (`backup`, `storage`) | data directory, archive | create, restore, migrate | renames cut off, logs left behind, releases | data complete or recoverable |

How the parts interact. `bookings`, `finance`, `periods` and the member
lifecycle share the ledger and call `ledger.RebuildPaymentAllocations` inside
their transactions. `finance` calls `externalaccounts.PostPaymentTx` and
`ReversePaymentTx` inside its own transaction; `groups.UpdateSettings` rewrites
the links that `externalaccounts` guards by version. The export worker calls the
completion listener outside its transaction. `planning` leaves rows in
`planning_notification_tasks`, which a worker of `notifications` polls. Producers
of mail leave rows in the outboxes in their own transactions. Uploads publish a
file first and its row afterwards, under a mutex shared with the collector.
`PROJECT.json` lists every component, and under `hazards` each place where this
can go wrong, with the properties that watch it.

## Modules

### Allocation, AllocationCheck

`Allocation` is `RebuildPaymentAllocations` as a function from a membership's
claim entries and active payments to its two sets of rows. `AllocationRound` is
one round of the inner loop; `Drain` repeats it, first for the corrections, then
for the payments over the claims as the corrections left them. Amounts are minor
units. An instant is a number of tenths of a second, compared as the code
compares it: as the text that `platform.Timestamp` writes, in which a zero
fraction is missing and therefore sorts after the other fractions
(`FractionRank`). `AllocationCheck` compares the result with a declarative
definition: money and claims are laid end to end, and a row is where they
overlap.

### Accounting

The tables `periods`, `bookings`, `payments`, `ledger_entries`, the allocation
tables, `period_statements` and the membership status, with one action per
command. Each posts its ledger entries and rebuilds the allocations of the
memberships that its code rebuilds. A period is its number. The code orders
periods by `starts_at`, a timestamp as text, so two settlements within one second
could swap two periods there; the model does not have this. A product is a price.
Permissions, the reason window of voids and the settlement switch only refuse
commands.

### ExternalAccounts

Accounts with tombstones, payment-method links, movements with their legs, the
shared collection version and the views clients hold. A view is of the accounts or
of the payment methods and is read query by query: the version first, then what it
shows. An accepted command answers with a view of its own kind only, so a client
may know the current version from an answer about payment methods while its list
of accounts is old; a command may come with a version from anywhere. What is
stated is therefore about each view by itself: under a current version it shows
what is stored (`VersionIdentifiesConfiguration`). A leg
outside the accounts belongs to an offset account. `MaxMinor` stands for the
64-bit limit of a balance. A payment is reduced to its posting; its receivable
side is in `Accounting`.

### ExportJobs

Rows of `export_jobs`, archives and temporary files with their ages, workers as
program counters through `ProcessNext`, `Cleanup` as a second process, the
listener's notices, and crashes between any two steps. Leases, timeouts and
retention count down in ticks. The code guarantees `Lease > GenerationTimeout`
(`NewService`), which is an assumption of the module. How long a worker may take
from publishing to completing is not bounded by the code; it is the constant
`CommitDelay`. Left out: the limit of requests per hour, replays of `Create`,
database errors other than a crash, the row limit of `Cleanup`, downloads.

### PlanningEvents

One event (events share no state) with its audience, responses, pending
notification tasks, the members with access, the planning switch and a clock.
Editing commands carry the version their client read and are refused when it is
outdated, so the actions are the accepted commands. A role stands for its
members, the start of an event is folded into its end, and equal pending tasks
count once.

### PlanningSeries, Recurrence, RecurrenceCheck

`PlanningSeries` has a series with its revisions, the rows of its occurrences by
sequence number, cancelled ranges, recipients and bundled notices. The worker
materialises up to a rolling horizon, a calendar read any window it shows; edits
and cancellations address all of the series or this and the following
occurrences. Single occurrences become exceptions, are closed, cancelled or
answered. A day is the unit of time and a rule is a step and a count.

`Recurrence` is the arithmetic of planning/recurrence.go on civil days: seeking
to a window by whole units, counting the valid units before it over the 400-year
cycle, and resolving a wall time in a zone with offset shifts. `RecurrenceCheck`
compares it with a scan of every day since the anchor and with a search over
instants. A date is the number of its day. The code represents it by the instant
`time.Date` gives for its midnight in the zone (recurrence.go:202, 233, 366), which
is moved by an hour in a zone that skips midnight; the model does not have this.

### Reminders

The settlement reminders of one statement in half days (before and after nine
o'clock), with a worker that polls or is down, payments, the member's preference,
changes of the group's schedule, and the zone of the group against the worker's
clock.

### Outbox, Delivery

The four email outboxes and web push are one module with a variable `queue` that
says which, because they share the protocol and differ in detail: which rows a
claim recovers, whether it compares the attempts, what the check before sending
looks at, what a refusal, a retry and an expiry do, and what a producer may do to
a queued message (renew its link, resend, withdraw, reopen). A worker claims,
checks, sends and records, with a crash, a stall beyond the lease or a lost answer
in between. Time is kept as its effects: a due row stands in line, a lease has
lapsed, a subject has expired.

`Delivery` is the abstract specification of an outbox: a message reported
delivered was accepted by the relay in its current wording, and this report is only
taken back together with the link the message was sent with. A resend replaces the
link and either queues the message or, when the SMTP setting read with the request
says that no mail is sent, hands the new link out on the screen and cancels the row,
a sent one included (`LinkHandedOut`). `KeepsPromise` is the refinement
(`Abstract == INSTANCE Delivery WITH ...` in `Outbox`): `Phase` maps the status of
a row, the generation of its secret link is the wording.

### AccountSecurity

Accounts, sessions, one-time actions with their mail, and requests that have
verified a password or a token and not yet committed. A hash is a password with
the change that made it, so that the same password chosen twice gives two hashes.

### Joining

Invitations with renewals, imports and claims of guests, the public link with its
versions and registrations, memberships and accounts, and previews held open by
people. Expiry is a step that may come at any time.

### Roles

Roles with versions and grants, members and an invitation holding them, the
screens of editors, the deprecated role updates, the default role, and system
administrators. `Can` is the effective permission, with its prerequisites.

### GroupLifecycle, ManagedFiles

`ManagedFiles` has files by content address, their variants, references from
rows, uploads that hold a store's mutex, deletion jobs and collectors.
`GroupLifecycle` extends it with groups: provisioning, activation, archive,
restoration, purge, the paths into a group and its messages, preferences checked
before they are written, and the checkpoint after a purge. A group is purged by
the server or by an operator's command, which is run beside the server and
collects in a process of its own (`operator`), where the server's mutex does not
reach: its check and its removal are two steps, between which an upload may come.
`exposed` records the contents with an upload that such a process overlapped; a
file that is missing under a reference must be one of them. At most one such
process runs at a time.

### SystemSettings

Overrides on the host's values, the revision counters, the SMTP test as a
delivery between two transactions, snapshots read in two queries by editors, the
test and the workers, the storage key after a restart, operator commands, and
legal texts.

### Catalog

Categories, products with versions, prices, barcodes under their normalised key,
positions (stored as a client sends them, `Positions`; a new row goes `Behind` the
others), kiosk posters, clients that list the catalog in three queries and edit
from what they saw, and bookings that take the stored product.

### Backup

The data directory as four items (database, log, images, attachments), the
server opening, migrating, serving and stopping cleanly or not, releases by
their last migration, `backup create` step by step beside the server, and
`restore` rename by rename with interruptions. `OperatorStartsEarly` allows a
start of the server on a half restored directory.

## Runs

All numbers are bounds of the instance, not of the modules. A run that holds
several components picks one of them initially (`part`, `cast`, `scope`,
`queue`): they share no state, so this loses no behaviour of any of them.

| Run | Instance | Shows |
|---|---|---|
| `accounts_and_calendars` | allocation over 3 periods and 2 payments; recurrence rules of every frequency from 4 anchors over windows up to a calendar cycle ahead; two zones; reminders over 8 days; a series of up to 3 occurrences with 3 revisions for one member, with 2 revisions and two audiences; 2 external accounts, 1 method, 1 payment and 3 movements; 1 view of either kind over 3 movements of one account or 2 of two | algorithms equal their references, reminders are caught up once, history is spared, one notice per revision; configuration, money and views of the external accounts |
| `accounting` | alone: 1 member, 3 periods, 2 bookings, 2 payments; together: 2 members, 1 guest, bookings with 2 targets and 2 items, lifecycle; leaving: 1 member, deleted at a zero balance, 2 periods, payments of half the price | ledger = documents, allocations current, debts reconcile, statements match, settled periods frozen |
| `exports` | 1 job, 2 attempts; two prompt workers, one that crashes, two slow ones | the last claim decides; archives are there; jobs end, outcomes are told, orphans go |
| `planning_waitlist` | 3 members, capacities none, 1 and 2 | capacity, queue, order of promotions, edits keep news |
| `planning_progress` | 2 members, all event types | events end, tasks settle |
| `delivery` | each of 5 queues; 1 message and 2 workers, or 2 messages and 1 worker; 2 attempts, 1 fault, 2 renewals | the promise of `Delivery`, no needless duplicate, messages settle |
| `administration` | 18 parts, see below | accounts, joining, roles, groups and files, settings, catalog, backup |

The parts of `administration`: two accounts with at most three requests and
actions; two invitations with one member, one invitation with two members, the
public link alone, and one of each; four role commands of two administrators; one
group with its messages; an image and a receipt shared by two groups; SMTP,
web-push and legal settings; a shelf of two products, two categories, two readers
of one product, posters; two restores with one release, one with two.

Why the bounds are enough. Two bookings and two payments over three periods give
every relation of a correction, a claim and money: older, same period, newer,
larger, equal, smaller. Three movements are the shortest history in which an
account is emptied, deleted and hit by a late reversal. Two workers and two
attempts give one takeover, and the attempt limit after it. Three members give a
participant, a first and a second waiter. Three occurrences with a horizon of one
day give one that has begun, one inside and one beyond the horizon. One fault is
what separates a worker from its lease once. Two restores are one that is cut off
and its repetition. A reader who holds a version while two edits pass is within
the version bounds of roles, settings and catalog. Each property has a mutant in
`PROJECT.json`, a plausible bug that its run detects, so the interesting cases do
occur within the bounds.

Five runs expect a violation. Each states what a document or a comment says and
finds the code doing something else:

- `export_worker_exit`: a job that is deleted while it is generated makes
  `Run` return an error, which stops the process.
- `planning_promotions`: closing an event outdates pending news of a place; the
  worker then cancels it and the promoted member is not told.
- `join_queue_blocks`: a registration message whose lease runs out in its last
  attempt is claimed again, the table rejects the sixth attempt, and the queue
  stops at it.
- `series_horizon`: an edit that moves no occurrence cancels those beyond the
  rolling horizon.
- `operator_purge`: the collection of an operator's purge removes a file that was
  uploaded and attached between its check and its removal.

### Deadlock

TLC checks for deadlock in the planning and export runs, whose workers and clocks
always have a step. In the others every command comes from people and every
history is bounded, so a state with nothing left to do is no error; what must
happen there is stated as a liveness property (`MessagesSettle`).

### Fairness

Liveness is checked for `ExportJobs`, `PlanningEvents` and `Outbox` under weak
fairness of the clock, of each worker and of `Cleanup`. The code justifies it:
workers poll in loops started by `main`, `Cleanup` runs on a ticker, each takes
the oldest due row first, and leases, retries and expiry end with time. For
exports it includes the restart of a process that has exited, which is the
deployment's supervisor and not part of the repository. `EventsEnd` also assumes
that planning stays enabled from some point on, and `MessagesSettle` that
delivery stays available from some point on, because the workers skip work
otherwise. Commands of people and faults are never assumed to happen.

## Proofs

Each theorem holds for every value of the constants that satisfies the named
assumptions of its module. `Spec` below is the specification of the component;
the modules checked together in the run `administration` have one of their own
(`RolesSpec`, `AccountsSpec`, ...) made of the same `Init` and steps that the run
uses.

| Module | Theorem | Statement |
|---|---|---|
| `AccountingProofs` | `TypeCorrect` | rows keep their shape and the newest period is the open one |
| | `LedgerIsItsDocuments` | `[]LedgerMatchesDocuments`: balanced, mirrored at most once, nothing else posted |
| | `AllocationsNeverStale` | `[]AllocationsCurrent` |
| | `SettledPeriodsAreFinal` | `ClosedPeriodsFrozen`, an action property |
| | `StatementsStayTrue` | `[]StatementsMatchLedger` |
| | `DebtsAlwaysReconcile` | `[]DebtsReconcile` |
| | `OldDebtsStaySettled` | `ClosedDueRisesOnlyByCorrection`, an action property |
| | `RebuildGuarantees` | what the loops of the rebuild do to any claims, corrections and payments |
| | `RebuildIsReference`, `RebuildsMatch` | the rebuild equals its declarative reference, for any inputs: `RebuildMatchesReference` |
| | `InvariantHolds` | `[]IInv`, the inductive invariant behind them |
| `OutboxProofs` | `WorkersHoldTheirClaims` | `[]PromiseInv` |
| | `OutboxImplementsDelivery` | `KeepsPromise`: `Outbox` implements `Delivery` |
| | `NobodyGetsAMessageTwice` | `NoNeedlessDuplicate` |
| `PlanningEventsProofs` | `NeverOverbooked`, `WaitlistStaysAQueue`, `CloseFillsThePlaces` | `CapacityRespected`, `WaitlistIsQueue`, `ClosedLeavesNoFreePlace` |
| | `NobodyOvertakes`, `EditsCarryPromotions` | the action properties `PromotedInOrder`, `EditKeepsPromotions` |
| `ExportJobsProofs` | `ExportsFit` | `[]Lasting` |
| | `PromptHostsKeepArchives`, `PromptCastsKeepArchives` | `PromptlyReadyHasArchive` |
| | `LastClaimDecides`, `EndedForGood` | `OutcomeByLastClaim`, and the action property `EndedStaysEnded` |
| `PlanningSeriesProofs` | `SeriesFits` | `[]SeriesInv` |
| | `RemindersFollowTheCalendar` | `RemindersFollowCalendar` |
| | `ToldOncePerRevision`, `HistoryStays` | `OneNoticePerRevision`, and the action property `HistorySpared` |
| `ExternalAccountsProofs` | `CollectionFits` | `[]CollectionInv` |
| | `MoneyIsConserved` | `MoneyConserved` |
| | `LinksNeverDangle`, `CurrentViewsShowWhatIsStored` | `ConfigurationConsistent`, `VersionIdentifiesConfiguration` |
| `AdministrationProofs` | `RolesFit`, `SomebodyAdministers`, `AdministratorsGovern` | `[]RolesInv`, `AdministratorsRemain`, and the action property `AdministrationByAdministrators` |
| | `AccountsFit`, `ChangesRevoke` | `[]AccountsInv`, `ChangeRevokesEverything` |
| | `SettingsFit`, `TestedAndSeen` | `[]SettingsInv`, `SettingsAsTestedAndSeen` |
| | `GroupsFit`, `FilesAndGroupsAgree` | `[]GroupsInv`, `GroupsAndFilesConsistent` |
| | `MembershipsFit`, `OnePersonOneMembership`, `InvitedRolesGiven` | `[]JoinInv`, `MembershipsConsistent`, and the action property `AcceptanceGivesInvitedRoles` |
| | `CatalogFits`, `ShownIsCharged` | `[]CatalogInv`, `CatalogConsistent` |
| | `BackupsFit`, `RestoresLoseNothing` | `[]BackupInv`, `RestoreKeepsData`, both with `~OperatorStartsEarly` |

`Counting` holds the lemmas about finite sets that these proofs share: a finite set
of numbers has a least and a greatest member (`LeastNumber`, `GreatestNumber`), a
finite set has a first and a last member under any injective rank (`Foremost`,
`Hindmost`), and the first `n` in that order (`FirstPlaces`). `Max`, `Min` and
`CHOOSE` of the models rest on them, as does the order of the waiting line. Its
second part is about sums: a sum over a finite set may be split, regrouped by a
key (`SumGroups`), compared and reordered. What the books of accounts and the
periods of a membership come to rests on these.

**Assumptions.** Those of the modules on their constants. The ones that are there
for the proofs state what the program guarantees by being one: the sets whose
maximum, minimum or size the code takes are finite (`Members` of an event,
`RoleChoices`, `Accounts` of a group, `Categories`, `Products`, `Periods` of
`AllocationCheck`), a version counter can count at least to one, and a value that
stands for "none" is not a member (no payment is called `None`).
`RestoresLoseNothing` adds `~OperatorStartsEarly`, because with a server started on
a half restored directory the property does not hold (Observations).

**Why the invariants are needed.** No property is inductive as it stands.

- `IInv` (Accounting). `LedgerMatchesDocuments` needs that a payment's key names
  one payment (`UniquePayments`), or reversing one payment would mirror the
  entries of another, and that a booking's period exists (`PeriodsExist`), or its
  reversal might precede it. `AllocationsCurrent` needs the ledger to be its
  documents: a command rebuilds only the memberships it names, so one must know
  that its entries touch nobody else. This part treats the rebuild as an opaque
  function of claim entries and active payments.
- The rebuild (`Allocation`) is a loop over a record of sources, claims, index and
  rows. `Run` is a recursive function on those records; `RunKeeps` shows that
  every round lowers an effort, so that the loop ends in a state that is `Spent`
  and satisfies whatever each round keeps. Two loop invariants are put into it.
  `Draining` says that what a source has lost and what a claim has gained are the
  amounts of its rows, that claims behind the index are exhausted, and that a new
  row never coincides with an old one (rows are a set): `RebuildGuarantees`. `Flowing` says that the money has
  flowed up to a point `x` of the line on which sources and claims are laid end to
  end, that the rows are the overlaps below `x`, and that a claim has left what
  lies beyond: `RebuildIsReference`, with one lemma each for dropping a source,
  passing a claim and booking a row.
- `SettledInv` (Accounting) says that the tables are finite, that nothing is posted
  beyond the open period or for a membership that never existed, that a
  membership has at most one statement per period, which still shows its charges,
  and that one without has no entry in it. `DebtsReconcile` follows from it and
  from `RebuildGuarantees`: entries, rows and periods are three ways of adding up
  the same amounts. For `ClosedDueRisesOnlyByCorrection` two rebuilds are
  compared (`NoMoreDue`). If an older period were due with more than before, no
  money is left over and everything before it is settled; so the claims up to it
  took all credits and all payments, of which there are no fewer than before, and
  more cannot be due.
- `PromiseInv` (Outbox) adds `Grip`: a worker whose lease lasts has the message
  with its current link, and what it believes the relay accepted was accepted.
  Without it a row might be marked sent after a send of an older link. The
  refinement maps a row to the phase of `Delivery` and the subject's link to its
  content; each action of a worker, a producer or the maintenance is a lemma that
  its step is one of `Delivery`'s or leaves both alone. `Calm` adds, as long as no
  fault has happened, that a worker with the current wording still holds the row
  or has settled it, and that no two workers have the same wording.
- `QueueInv` (PlanningEvents) is the three invariants and the shape of the event
  together: that the close leaves no free place depends on the line holding
  exactly those who wait, and the capacity on the promotion taking no more of
  them than there are places (`FirstPlaces`).
- `Lasting` (ExportJobs): the outcome of a row depends on the workers and on the
  cleanup. What a worker is about to tell was once the status of the row
  (`ToldTruly`), and the name that the cleanup is about to forget belongs to a job
  that has ended and is not READY (`GoodCleaner`).
- `SeriesInv` (PlanningSeries) adds `Recorded`: whoever was told is a recorded
  recipient, and no notice is of a revision still to come. `HistorySpared` follows
  from one lemma per command on what it leaves of an occurrence.
- `ArchivesSafe` (ExportJobs) says why a READY row has its archive when the workers
  of a cast are prompt (`PromptSpec`: at most a tick passes between publishing and
  completing): a token is never given out again, so a name is published once, and
  an archive is younger than the lease while its worker can still complete the
  job, so that the cleanup does not take it for stale.
- `RemindersInv` (Reminders): every creation is dated at an instant the schedule
  named then, a run of reminders has one per interval, and no two have the same
  day. The calendar enters by one lemma on multiples of an interval (`Multiples`).
- `CollectionInv` (ExternalAccounts) adds that movements name only accounts that
  are stored and that links name active ones, and that each part of a view that
  has been read is what is stored or its version is behind the collection's, never
  ahead of it. `MoneyInv` adds that every movement's header agrees
  with its legs, that a reversal mirrors a movement once, that a payment is posted
  once and is REVERSED only with its reversal, and that all legs together are the
  posted payments. A balance stays within `MaxMinor`, and that of a deleted
  account is zero, because each command looks before it posts.
- `RolesInv` adds that holders and the invitation name existing roles, that the
  default role never holds administration, and that a screen's version is never
  ahead of its row's. Archiving the last holder is refused by a count over
  holders, which is right only if roles and holders agree.
- `AccountsInv` adds to every open one-time action that it carries the mailbox and
  the password hash its account has now, and that no two open ones compete for a
  user or a new mailbox: the code revokes by account and by mailbox, so that an
  action bound to something older would be missed.
- `SettingsInv` adds `Vetted`: what is enabled over an overridden connection was
  tested in the current revision, so an edit that keeps the connection keeps the
  test; and that a snapshot of two queries holds the values of its revision or is
  outdated.
- `GroupsInv` adds that a running upload's file is on disk or its content is
  `exposed`, which it is whenever an operator's process runs beside it
  (`GoodUpload`); that a file it has created anew is named by no row yet, so that
  undoing the upload takes nobody's file; that what the operator's process is
  about to remove is still named by no row unless it is `exposed`
  (`GoodCollector`); and that an archived group comes back with its
  administrator.
- `JoinInv` is `MembershipsConsistent` by tables, with `GoodRoster` (a membership's
  person is there) and `GoodRegistrations` (a registration's version is one the
  link has had, never one to come).
- `CatalogInv` adds `GoodList`: each of the three queries of a list holds what is
  stored, or an older version of it, where the middle one has no codes yet; and
  `GoodBookings`: a tombstone stands for a booking, which is what keeps its
  category.
- `BackupInv` says where a restore is: what it has moved aside is gone from its
  place (`Cleared`), the recovery directory has nothing yet of what it will move
  (`Room`), what it installed is the archive's (`Placed`), and once it installs or
  has finished, everything from before is in a recovery directory (`Rescued`). A
  repeated attempt must not overwrite what the first one put aside, which is why
  the places in the directories are part of it; and while the server runs no
  restore is half way (`Attended`).

There is one lemma per action that it keeps each conjunct it can disturb. TLC
checked every one of these invariants on the instances of the runs before it was
proved.

**Only model-checked**, and why:

- liveness (`EveryJobEnds`, `OutcomesAcknowledged`, `OrphansRemoved`,
  `EventsEnd`, `TasksSettle`, `MessagesSettle`), which is beyond the prover;
- `CalendarMatchesReference`: the civil calendar divides unbounded numbers by
  constants such as 153, 1460 and 146097, several times over in one expression,
  which the SMT solver does not decide; and the search it is compared with has no
  bound that does not come from the calendar itself.

Two things about the prover shape the models. It cannot take apart the operators
of the libraries that sort or filter by a parameter, so `Allocation` states the
order of a query by what it is (`Ordered`) and its loop as a recursive function
(`Run`); TLC evaluates both. And the induction theorems of the libraries take an
operator as parameter, which no prover here instantiates; where a proof needs
induction over numbers or over finite sets, the set of those for which the claim
holds takes the operator's place (`NumberInduction` in `Counting`).

## Observations

Behaviour met while modelling that no document promises otherwise, or that lies
outside the assumptions of the runs.

Money. Two payments within a second may be applied in the wrong order, because
their timestamps are compared as text. The settings page replaces links without
comparing the collection version (`UpdateSettings`), so an outdated page undoes
another administrator's link. The answers about payment methods carry the version
of the whole collection, so their reader may command accounts it has not seen. A failed `Remove` of an export may leave a READY row
without its file; repeating it succeeds.

Planning. After an edit has raised the capacity, a newcomer gets the new place
although members wait, because the edit promotes nobody. A new revision of a
series outdates pending news of a place as the close does. An edit of a series
that asks for a sequence whose row is closed, or was dropped by a shorter rule
before, fails on the unique index for good (`Collides`). `CancelSeries` cancels
published occurrences only and leaves closed ones. An edit of the whole series
with an unchanged count restarts the count at its boundary. A reminder that was
missed is caught up shortly before nine o'clock and followed by the current one.

Joining. Resending an expired claim renews it by its mailbox alone, so one guest
can have two open claims (ARCHITECTURE.md:379 speaks of one). An edit of a public
link's lifetime keeps its token and bumps its version, after which pending
registrations can neither be confirmed nor resent. Open invitations are bound to
a new account by their mailbox, which may be a former one.

Accounts and roles. A login verified before a change of password may insert its
session after it. Deleting a role counts unexpired invitations only, so an expired
one that is renewed later has no role. The deprecated `UpdateInvitation` does not
keep the roles of a claim fixed. The role that stands for the deprecated
self-payment grant is recreated under its old identifier with version 1.

Files. A job is marked done after the mutex was released, so a re-upload and a
purge in between leave a file that nobody removes. A content that was uploaded
while an operator's purge ran beside the server may be missing (`operator_purge`),
and stays so: the store takes a repeated upload as a new file, but nothing repeats
it. A preferred
group checked before an archive may be stored after it.

Settings. A test covers the overrides; host values changed under partial overrides
keep it valid. `loadSettings` makes two queries though its comment calls the
result transactionally consistent; it is safe because the state is read first.

Catalog. An edit of a product or a category stores any position its client sends, 0
if it sends none, so two rows may share a position until the next reordering
(ARCHITECTURE.md:465 asks for zero-based ones only). A retried creation of a product that was deleted meanwhile creates a
second one, because the deletion removes the stored answer.

Backup. Nothing keeps the operator from starting the server after an interrupted
restore: it begins a new database and its sweep removes the old receipts (with
`OperatorStartsEarly` TRUE, `RestoreKeepsData` is violated). After repeated
attempts the old database and its log may lie in different recovery directories.

## Not modelled

- Formatting, rendering and transport: export content, PDF and CSV, mail
  templates, SMTP, push encryption. No state of the kinds above.
- Read models (activities, statistics, audit, table queries) and HTTP decoding:
  queries and translation in front of the services. Handlers that make steps of
  their own are mapped in the module of their component.
- Replays by idempotency key: they return a stored answer and change nothing.
- What a migration does to rows: SQL, one script at a time.
- Plain assignments: appearance, names, most group settings, read marks,
  registration of push devices, the reminder before an event's start.
- The web application, the generator of sample data, flags and printing of
  commands.
- A composition of `Accounting` and `ExternalAccounts` in one ledger: the two
  halves of a payment are written in one transaction and meet only in its
  amount; each half is conserved by itself (`LedgerMatchesDocuments`,
  `MoneyConserved`).
