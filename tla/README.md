# Expendit: a verification project

TLA+ models of Expendit, checked with TLC and, where it matters most, proved
with TLAPS: the asynchronous core of the services, sign-in, and the web client
with the API it runs on in development and in the demo. Paths are relative to
`src/`; `common/` is short for `api/common/internal/`, `web/` for `web/src/`.

- [The system](#the-system) – components, state, interaction, hazards
- [The modules](#the-modules) – which code each one models, and how
- [The runs](#the-runs) – what TLC checks, bounds, fairness
- [The proofs](#the-proofs) – what holds for every instance, and why
- [Findings](#findings) – where code and documentation disagree
- [By hand](#by-hand) – properties stated in the modules that no run checks
- [Not modelled](#not-modelled)

## The system

Three services, a database and a web client. `api/common` (Go) owns Postgres:
every status, every figure, every decision that is stored. `api/statements`
(Node) is a thin gateway that takes the bytes of an upload. `api/analytics`
(Python) runs as two pools, *extract* (files to rows) and *compute* (ratios,
tax, validation); it has no database and answers from what a message carries.
Kafka carries every hand-off, at least once. Cloud Scheduler calls the sweeps
of `common`. The web client (`web`, Next.js) is a set of pages, each with a
controller hook that keeps copies of the server's records; in development and in
the demo it talks to a mock API inside the same Next.js process
(`web/app/api/mock`), which holds the rules once more, in memory.

```
 browser tabs --start/callback/exchange--> common        (sign-in)
 pages --calls--> mock API | common                      (everything else)
 client --POST /import--> common --ticket--> client --POST /uploads--> statements
 statements --upload.received--> common --import.ready--> extract --import.processed--> common
 statements --upload.received--> common --statement.ready--> extract --statement.mapped--> common
 common --compute.requested--> compute --compute.results--> common
 scheduler --> common: reaper (5 min), tmp cleanup (15 min), retention
```

| Component | State it keeps | Operations | What makes it correct |
|---|---|---|---|
| Import jobs (`common/service/imports.go`) | `import_job`, `upload_ticket`, `staged_txn`, `ledger_txn` | create, confirm, discard, upload received, import processed, their failure handlers | one result imported once per job and per Idempotency-Key; a failed import imports nothing; every job ends |
| Upload gateway (`api/statements/src`) | objects and claims in `tmp/` | verify ticket, read, check the file type, store, claim, publish, answer | an accepted upload can be found, whole; a good file is not refused |
| Outbox and transport (`common/outbox`, `common/kafka`, `analytics/kafka`) | `outbox` rows, topic offsets | publish, consume, retry, give up | nothing is handed over before it is committed, nothing committed is forgotten silently |
| Sweeps (`common/sweep`, `common/service/resend.go`) | `processing_at`, `resent_at`, object ages | reap, re-send, clean up, retention | what is stuck ends; nothing still alive is ended; re-sent once |
| Compute exchange (`common/service/compute.go`, `common/repository/compute.go`) | `compute_request` | claim or reuse, first result, fail, expire, re-send | one pending request per question; one result counts; pending ends |
| Figures (`common/service/compute.go`, `common/repository/tax.go`) | `org.data_version`, `ratio_report`, `tax_estimate` | change, read, store | never back to an older version; current means current; recomputing ends |
| Statements (`common/service/statements.go`) | `fin_statement`, `line_item`, stored validation | create, map, edit, confirm, supersede | confirmed rows passed the checks; only the user's edits change rows; one confirmed per period |
| Sign-in (`web/lib/auth/sso.ts`, `web/app/auth/callback`, `common/handler/sso.go`, `common/auth`, `common/cache`) | session storage per tab, shared cookies, hand-off rows, reservations | start, callback, exchange, retry, release | one token per hand-off; a tab enters as the account it chose; no reservation stays behind |
| Chrome (`DashboardShell.tsx`, `AppNav.tsx`, `OrgSwitcher.tsx`, `CommandPalette.tsx`) | rail, drawer, open switchers, palette, path | navigate, collapse, resize, search, switch | a phone's drawer stays a phone's; nobody stays on the pages of another kind of organization |
| Theme (`ThemeProvider.tsx`, `ThemeToggle.tsx`) | the stored preference, one in memory, `data-theme` | toggle, another tab, a refused write | the control shows what the page carries |
| Table tools, saved views (`TransactionsView.tsx`, `TableHeader.tsx`, `TxnTableRow.tsx`, `use-saved-views.ts`) | sorting, focus, row menu, explanation, views per organization | sort, move, open, explain, save, remove | an explanation is of its own row; no view is lost |
| Charts (`chart-scale.ts`, `ChartLine.tsx`, `ChartDonut.tsx`, `RatioGauge.tsx`) | none but the gauge's frame | axis, line, donut, gauge | a picture shows its figures |
| Floating layers (`Select.tsx`, `use-viewport-clamp.ts`, `use-anchored-layer.ts`) | the menu's highlight, a measured place | open, type, move, scroll, resize | a layer is in the window beside its anchor; Enter picks what is highlighted |
| Shell, organizations (`DashboardShell.tsx`, `use-org.ts`, onboarding, settings) | active organization, its stored id, drafts | load, switch, create, save, sign out | the active organization is one of the user's |
| Imports in the client (`ImportsView.tsx`, `JobDetailView.tsx`, `use-imports.ts`) | upload chips, history, one poll timer, staged rows | drop files, poll, sweep, correct, commit | a running job is watched; what is shown is what is imported |
| Bank accounts (`AccountsView.tsx`, `use-accounts.ts`) | the journey's step and timer, links | connect, consent, sync, pause, unlink | no sync without consent; the journey ends |
| Transactions, categories (`TransactionsView.tsx`, `CategoriesView.tsx` and controllers) | copies of rows, filters, cursor, selection, inspector | filter, page, edit, split, bulk, merge, delete | copies agree with the records when nothing is under way |
| Company statements (`CompanyStatementsView.tsx`, `StatementDetailView.tsx`, `statement-engine.ts`) | statements, mapping rows | upload, enter, map, confirm | divergences are warned of; one confirmed per period |
| Ratios (`RatiosView.tsx`, `ratio-engine.ts`) | cached reports, the grid | recompute, deep dive, switch period | a report is of the period it is stored under |
| Taxes (`TaxesView.tsx`, `FilingWizardView.tsx`, `tax-engine.ts`) | estimates, filings, the wizard's step | estimate, draft, generate | what is generated is what was shown |
| Privacy (`settings/sections.tsx`, account routes) | consent, exports, a pending deletion | consent, export and polls, delete, cancel | an export settles; the ledger is frozen while a purge is pending |
| Overview, reports, members | reads per organization, artifacts, roster | load, switch, generate, invite, remove | what is shown belongs to the active organization |
| Date and period pickers (`PeriodPicker.tsx`, `DatePicker.tsx`) | draft, typed text, half a range, the grid's view | type, click, preset, apply | a typed value cannot take the page down |
| Mock API (`web/app/api/mock/v1`, `web/mocks`) | one process's memory | the endpoints | rows enter the ledger once; a purged link leaves nothing |
| Extract and compute pools (`analytics`) | none | parse, map, ratios, tax, validation | a function of file and message |
| Ledger, identity of the Go service, limiter, settle and wake, HTTP, deployment | see [Not modelled](#not-modelled) | | |

What is hard to test here is the order in which independent parties act: the
reaper fails a job while its result is queued; the client retries with the same
key while the first attempt is still alive; two transactions read under READ
COMMITTED what the other is about to write; two tabs overwrite one cookie; an
answer for the organization that was left lands after the one that was asked for
last; a timer goes on after its modal was closed. `PROJECT.json` lists each of
these hazards at its line, with the properties that would notice it, or a note
saying why none does.

## The modules

| Module | Models | About |
|---|---|---|
| `Delivery` | `common/kafka/kafka.go`, the consumers of analytics | the faults, and what a lane keeps after a record was handled |
| `ImportLifecycle` | abstract | what an import promises its user |
| `ImportPipeline` | `imports.go`, `resend.go`, `sweep.go`, the gateway, the extract pool | one import from ticket to ledger; implements `ImportLifecycle` |
| `ComputeRequests` | `compute.go` (requests), `repository/compute.go`, `resend.go`, `sweep.go` | the request/result exchange, for any kind of question |
| `Figures` | `compute.go` (reads, results), `repository/tax.go`, `rulesets.go` | extends `ComputeRequests`: ratios and tax estimates |
| `Statements` | `statements.go`, `repository/statements.go`, the mapping pipeline | extends `ComputeRequests`: mapping review and confirm |
| `FileType` | `api/statements/src/filetype` | what a file is taken for, from its bytes |
| `UploadGateway` | `web/lib/api/uploads.ts`, the proxy route, `api/statements/src/upload` and `kafka` | extends `FileType`: one upload, await by await |
| `SignIn` | the sign-in files above | tabs, cookies, the three handlers, hand-off rows, reservations |
| `MockImports` | `web/app/api/mock/v1/{import,uploads,bank-links,account}`, `web/mocks/store.ts` | jobs, links, automatic commits, the purge |
| `ImportHub`, `StagedReview` | `dashboard/imports`, `use-imports.ts` | uploads with their polls; the review of one job |
| `AccountsPage` | `dashboard/accounts`, `use-accounts.ts`, the link routes | the connect journey and the cards |
| `LedgerPage`, `CategoryPages` | `dashboard/transactions`, `dashboard/categories`, controllers, routes | the ledger and the registry of categories |
| `StatementPage` | `dashboard/company/statements`, `use-statements.ts`, `statement-engine.ts`, routes | list, manual entry, review, the derivations and checks |
| `RatioEngine`, `RatioPages` | `ratio-engine.ts`, `models/registry/ratios.ts`; `RatiosView.tsx`, `use-ratios.ts`, `use-trends.ts`, routes | the engine as pure operators; the grid over it |
| `TaxEngine`, `TaxPages` | `tax-engine.ts`, `models/registry/authorities.ts`; `dashboard/taxes`, `use-tax.ts`, routes | the engine in whole naira; the tax center and the filing wizard over it |
| `OrgWorkspace` | `DashboardShell.tsx`, `use-org.ts`, onboarding, organization profile, org routes | whose organization is active |
| `MembersPage`, `PrivacyPage` | `settings/sections.tsx`, `use-settings.ts`, member and account routes | roster; consent, export, deletion |
| `Overview`, `ReportPages` | `dashboard/overview`, `dashboard/reports`, controllers, report routes | reads per organization; artifacts and their history |
| `PeriodPicker` | `PeriodPicker.tsx`, `DatePicker.tsx` | typing, clicking and presets in five modes |
| `ShellChrome` | `DashboardShell.tsx`, `AppNav.tsx`, `OrgSwitcher.tsx`, `CommandPalette.tsx` | rail, drawer, palette, and where they lead |
| `Theme` | `design/ThemeProvider.tsx`, `ThemeToggle.tsx` | the store, the fallback in memory, other tabs |
| `TableTools`, `SavedViews` | `TransactionsView.tsx`, `TableHeader.tsx`, `TxnTableRow.tsx`, `CategoryChip.tsx`, the anomaly inspector; `use-saved-views.ts` | sorting, keys, menus, comparables; views kept by the browser |
| `Charts` | `chart-scale.ts`, `ChartLine.tsx`, `ChartDonut.tsx`, `OverviewSidePanels.tsx`, `RatioGauge.tsx` | axis, donut and gauge in integers |
| `FloatingLayers` | `Select.tsx`, `use-viewport-clamp.ts`, `use-anchored-layer.ts` | the menu of a select and the three measuring hooks |
| `Lists` | – | what `filter` and `reduce` return |
| `MCImportPipeline`, `MCFigures`, `MCStatements` | – | model values and symmetry for TLC |
| `MCWebPages`, `MCWebBackground` | – | compositions of the modules of the client for TLC |
| `ImportPipelineProofs`, `ComputeRequestsProofs`, `FiguresProofs`, `StatementsProofs` | – | the theorems about the services |
| `BackgroundProofs` | – | ... about the parts of `MCWebBackground` |
| `ShellProofs`, `RecordsProofs`, `PagesProofs` | – | ... about the parts of `MCWebPages`, each on top of the one before: the frame (chrome, pictures, layers, theme, table, views, sign-in, organizations, overview, picker); copies of records (transactions, categories, members, reports); figures (statements, ratios) and all of it together |

### The services

**Steps.** An action is one database transaction of `common` with the storage
call that follows it, or one message handled elsewhere. A request of several
transactions (`Create`, `ResendStuck`) is several actions. Where a transaction
reads rows without locking them, and another may commit between two of its
queries, its reads and writes are separate actions (`Gather` / `AskWithVersion`,
`CheckResult` / `StoreResult`, `BeginConfirm` / `EndConfirm`); a row that is
locked meanwhile disables the others (`handling`, `confirming`).

**Lanes.** The outbox and each event type on a topic are sets. A record stays
deliverable until the transaction that handles it *and* the commit of its offset
(or the mark on its outbox row) happened: with the fault `redelivery` a handled
record may stay (`Committed`). Sets keep no order, which covers retries,
re-sends and different keys; Kafka's order within one key is not assumed, so the
safety results hold for more behaviours than the code has. A consumer tries
three times, then calls its failure handler and commits: this is the pair of
actions `X` and `XFailed` under the fault `outage`.

**Faults** are named in `Delivery` and chosen per configuration: a property is
checked under those it can survive, and the sections below say which it cannot.

**Time.** Ages in ticks, stopped one past the largest threshold they are
compared with, so that a finite state space keeps every comparison. Durations
are constants, related by `TimesAssumption` as 5 min + 30 s, 4 min, 10 min,
5 min and 1 h are in the code. `ResendAfter < ReapAfter` and the sum that must
stay below `TmpMaxAge` are the relations that matter.

**ImportPipeline in the code's terms.** `status`, `confirmed`, `object`,
`resent` and `age` are columns of `import_job` (`deleted` is the row gone);
`sends` counts the outbox rows of `import.ready`. `staged` holds which results
have rows staged, `ledger` what each confirm wrote: enough to tell a mix of two
results, or a second import, from a right one. A ticket also names its object in
`tmp/` (`upload.service.ts` builds the key from the ticket). `creating` and
`retrying` are POST requests between their transactions. `posted` only bounds
how often a client uses a ticket. `listing` and `stuck` are the reaper between
`reap`, `ListStuck` and the transaction per item.

**ComputeRequests.** An id stands for a UUID. It may be used again once its row
has ended and no message bears it (`Unused`), which keeps the instances small
and is only a change of name. `Figures` counts in `stored` how often the result
of a request was stored; `data[s]` numbers the successive contents of what a
figure is computed from, so that an input read too early is visible.

**Statements.** All statements are of one organization, kind and period. Line
items are one of `Rows`, those that pass the checks are `Sound`; the derived rows
are named by the rows they were derived from. The upload ticket of a statement is
the one of `ImportPipeline`: here the taken ticket is `StartProcessing`. The
request for ratios at the end of `Confirm` is `ConfirmStatement` of `Figures`.

**UploadGateway.** `upload[r].step` is the await an upload stands at: the ticket
verified, the file read, its type checked, the object stored, the claim stored, the
message sent. A crash or a failing storage ends it at any of them. `ImportPipeline`
has all of it as the one action `AcceptUpload`; `HandedOverWhole` is what
justifies that.

### The web client

**Calls.** A call takes effect at the server when it is sent, and its answer is a
record that comes later: in order where one connection or an `await` orders them,
in any order where the code starts them independently, and never when it is lost.
The answer carries what the server held *then*; the handler of the answer does
what the code after the `await` does, to the page as it is *now*. This is where
stale copies come from, and what most of the properties are about. Each module's
constant `...Faults` says which calls may be refused, fail, be lost or be
overtaken.

**Pages.** The state of a component lives as long as the page is mounted; what
outlives it (a timer, a navigation after an `await`) is kept apart and named. What
the user cannot reach (a control behind an overlay, a disabled button) is a guard,
and each guard is from the code that draws it.

**Engines.** `RatioEngine`, `TaxEngine` and the first part of `StatementPage` are
pure operators over whole amounts (fractions for ratios, naira for taxes). They are
what the endpoints call, not reimplementations of their results.

**Slips.** An operator whose comment says "Slip:" is a plausible mistake in the
definition that follows it. No specification uses it. It is there to show that the
property which names it in `PROJECT.json` fails with the mistake.

**Composition.** `MCWebPages` and `MCWebBackground` extend several modules that
share no variable. A behaviour is of one of them, chosen by `part` in the initial
state, while the others keep their initial values: the state space is the sum of the
parts, not the product. In `WebPages.cfg` two states are told apart by `PartView`, the
variables of the part that is looked at, since no other ever changes. Interaction inside an area (page, controller, endpoint,
other tabs and sessions) is in the area's own module.

## The runs

| Run | Checks | Instance | Shows |
|---|---|---|---|
| `import_safety` | `TypeOK`, `ImportIsOneResult`, `OnlyCompletedHasRows`, `OneImportPerKey`, `ResentOnce`, `BytesHeldWhileProcessing`, `ImplementsLifecycle` | 2 jobs of one key, 2 tickets, 2 results; loss | different answers for one job never mix, a retry races no past of its own, nothing is left of a failed job, the hour of the cleanup is long enough, every step is one of the lifecycle |
| `import_liveness` | `ProcessingEnds`, `AwaitingEnds`, `RawFileGoes` | 1 job, 1 ticket; every fault | the reaper and the cleanup alone end everything |
| `import_redelivery` | `RedeliveryKeepsFile` (violated) | 1 job, 2 tickets; redelivery | finding 1 |
| `figures_faults` | `TypeOK`, `ResultCountsOnce` | 1 request, ratios and tax, 1 change, 1 release; every fault | re-send, redelivery, expiry, late answers |
| `figures_catch_up` | `FiguresNeverGoBack`, `PendingEnds`, `FiguresCatchUp` | 2 requests, 1 change; loss | results that overtake each other; no figure recomputes for ever |
| `figures_stale` | `CurrentMeansCurrent` (violated) | 2 requests, 2 changes; no fault | finding 2 |
| `statements_review` | `TypeOK`, `ConfirmedPassedChecks`, `OnlyEditsChangeRows` | 1 statement, 2 edits, sound and unsound rows; redelivery, outage | late validations, second mappings, the reaper |
| `statements_supersede` | `OneConfirmed` (violated) | 2 statements; no fault | finding 3 |
| `statements_pending` | `PendingIsInFlight` (violated) | 1 statement, 1 edit; outage | finding 4 |
| `web_pages` | see below | sixteen parts | nothing a page keeps parts from what the server has, nor from whose it is |
| `web_background` | see below | seven areas | what was accepted is whole, what is shown is what happens, journeys settle |
| `picker_typing` | `TypingKeepsThePage` (violated) | 5 modes, 2 openings, texts that name no day or month | finding 5 |

`web_pages`, besides the type invariants (`PagesTypeOK`):

| Property | Area and instance |
|---|---|
| `OneTokenPerHandoff`, `NoStrandedReservation`, `OwnAccount` | `SignIn`: two tabs, two attempts, repeated exchanges, a full limiter |
| `PagesShowTheRecords` | `LedgerPage` (three rows on pages of one, overlapping and refused calls), `CategoryPages` (four categories), `MembersPage` (two people, three memberships, blocked writes), `ReportPages` (two organizations) |
| `OneStatementPerPeriod`, `FiguresAreAccountedFor` | `StatementPage`: two statements of one period, three steps that make or edit one, entered rows, refused confirms (`DivergenceIsWarned`); `RatioPages`: books of two years, one with a degenerate denominator (`StoredHasItsPeriod`); the donut of `Charts`: months of fewer and of more categories than it names (`DonutIsWhole`) |
| `FurnitureIsTrue` | `ShellChrome` (every path it leads to, a late answer, typed addresses, another tab), `Charts` (lines of one sign, of both, of one value; open and closed bands), `FloatingLayers` (room below, above, nowhere; a scroll bar; a window narrower than the panel), `Theme` (a store that is full, blocked, or written by another tab), `TableTools` (two rows, one with an anomaly), `SavedViews` (two organizations, three views) |
| `ActiveIsOwn` | `OrgWorkspace`: two people on one browser, two organizations, lost and refused calls |
| `BadgeIsOfWorkspace` | `Overview`: a company and a person, reads that overtake each other |
| (type only) | `PeriodPicker`: five modes, texts that name no day |

`web_background`, besides `BackgroundTypeOK`:

| Property | Area and instance |
|---|---|
| `HandedOverWhole`, `GoodTextIsTaken` | `UploadGateway`: two uploads on one ticket; crashes, failing storage and Kafka, a request cut while its answer is written |
| `SweepIsWatched` | `ImportHub`: two files, lost answers |
| `DuplicatesOnlyByHand`, `ImportsWhatItShows` | `StagedReview`: three corrections, lost answers |
| `PurgedLinkLeavesNothing`, `LedgerFrozenDuringPurge` | `MockImports`: two jobs, one link, one key |
| `OnlyConsentedLinksSync`, `JourneySettles` | `AccountsPage`: two links, two syncs, failing calls |
| `GeneratesWhatIsShown` | `TaxPages`: an individual and a company, another session that changes the books |
| `ExportSettles` | `PrivacyPage`: two exports, refused calls, reloads |

**Bounds, and why they suffice.** Two answers and two tickets are the least that
can be confused; the key and supersede rules are about pairs of rows; ages pass
every threshold, in every order the assumptions allow. Jobs of different keys,
and organizations, share nothing the models look at but the reaper's pass, which
treats each row alone. `MaxVersion`, `MaxEdits`, `MaxReleases` and `MaxLosses`
bound what users, deployments and Kafka do; two changes are the least in which an
old result can overwrite a new one. In the client two calls under way are the least
that can overtake each other, two organizations or tabs the least that can be
mixed up, and `PageLimit`, `MonthLength` and the like are as small as leaves a
second page or month. `MaxRowEdits` counts statements made and rows edited in a
review together. `UploadedKinds` starts some behaviours of `StatementPage`
with two parsed uploads of one file, which spares the steps that lead there. For
the properties that are proved the bounds do not matter.

**Deadlock** is checked in the runs of the pipeline, where time goes on (a full
clock is a step that changes nothing), and in the figure runs with an endless
reader. It is off in `figures_catch_up`, the statement runs and the runs of the
client: once the bounded changes or calls are used up and everything has settled,
the system has nothing to do.

**Fairness.** `SchedulerFairness` (`import_liveness`) is the least that makes
sense: time passes, Cloud Scheduler keeps calling the reaper and the cleanup, and
a pass that began goes on. Users, consumers, the gateway and Kafka owe nothing,
for any of them may be down: the promise is that a job *ends*, not that it
succeeds. `TmpCleanup` is fair in the sense that it gets rid of some object each
time; a storage that refuses every delete for ever is excluded.

`Fairness` of `Figures` is larger, because a figure only becomes current if
somebody computes it: a user polls while shown "recomputing" (the web client
does), the hand-overs go on (every five minutes the reaper settles publisher,
consumers and pools, `sweep.go` `settlePending`), and time passes. It asks for
strong fairness of `StoreResult` alone: a consumer may die in the middle of a
store, not every time.

`AccountsPageFairness` and `PrivacyPageFairness` ask weak fairness of what the
browser and the server do unasked: a timer that is armed ticks, a call that was sent
is answered (by success or by failure), a sync or an export that runs comes to its
end. The user owes nothing: `JourneySettles` and `ExportSettles` hold whether
the user stays, closes the modal or goes elsewhere.

**What the runs found about reach.** `OneImportPerKey`, `OnlyCompletedHasRows`
and the lifecycle do not hold when the limiter refuses a job (`refusal`) between
its creation and its ticket: `RefuseCreate` deletes the job by id, whatever became
of it, and a concurrent retry with the same key may have uploaded and confirmed
meanwhile (`imports.go:123-135`). It takes a client that sends a request twice at
once and finishes an import while the first one still waits for Redis.
`BytesHeldWhileProcessing` does not hold with `redelivery` (finding 1), nor with
`repost` (a client that posts to one ticket twice), nor with `late`: a reaper that
skips its turn leaves a job processing longer than the cleanup waits.
`ResentOnce` does not hold when two runs of the reaper overlap: the second lists a
job before the first marks it. That is harmless, since a second answer is
dropped. `ImportsWhatItShows` does not hold when answers to corrections overtake
each other (`overtaken`), since each answer replaces the whole row.

## The proofs

Checked by tlapm, for any sets of jobs, tickets, keys, links, tabs and so on,
finite or infinite, any bounds, and any durations that satisfy `TimesAssumption`:

| Module | Theorem | States | Assumes |
|---|---|---|---|
| `ImportPipelineProofs` | `TypeSafe` | `[]TypeOK` | – |
| | `ImportsOneResult` | `[]ImportIsOneResult` | – |
| | `BytesAreHeld` | `[]BytesHeldWhileProcessing` | no `redelivery`, `repost`, `late` |
| | `FailedImportsNothing` | `[]OnlyCompletedHasRows` | no `refusal` |
| | `KeyImportsOnce` | `[]OneImportPerKey` | no `refusal` |
| | `ResendsOnce` | `[]ResentOnce` | runs of the reaper do not overlap |
| | `FollowsLifecycle` | `ImplementsLifecycle` | no `refusal` |
| `FiguresProofs` | `FiguresTyped` | `[]TypeOK` | – |
| | `CountsOnce` | `[]ResultCountsOnce` | – |
| | `NeverGoBack` | `FiguresNeverGoBack` | – |
| `StatementsProofs` | `StatementsTyped` | `[]TypeOK` | – |
| | `PassedChecks` | `[]ConfirmedPassedChecks` | – |
| | `OnlyEdits` | `OnlyEditsChangeRows` | – |
| `BackgroundProofs` | `NothingHalfDone` | `[]HandedOverWhole` | – |
| | `NoGoodTextIsRefused` | `[]GoodTextIsTaken` | – |
| | `SyncsHaveConsent` | `OnlyConsentedLinksSync` | – |
| | `TickedByHand` | `[]DuplicatesOnlyByHand` | – |
| | `PromiseIsKept` | `ImportsWhatItShows` | no `overtaken` |
| | `SweepsAreWatched` | `[]SweepIsWatched` | no `overtaken` |
| | `PurgeIsThorough` | `[]PurgedLinkLeavesNothing` | – |
| | `LedgerIsFrozen` | `LedgerFrozenDuringPurge` | – |
| | `CommitsOnce`, `AutoConfirmIsEarned` | `JobCommitsOnce`, `[]AutoConfirmEarned` | – |
| | `ShownIsGenerated` | `GeneratesWhatIsShown` | – |
| | `BackgroundTypeCorrect` | `[]BackgroundTypeOK` | – |
| `ShellProofs` | `OneToken`, `NoneStranded` | `[]OneTokenPerHandoff`, `[]NoStrandedReservation` | – |
| | `EntersAsItself` | `OwnAccount` | – |
| | `WorksInItsOwn` | `[]ActiveIsOwn` | – |
| | `OrgTyped` | `[]OrgWorkspaceTypeOK` | – |
| | `NamesAdvance` | `NamesOnlyAdvance` | – |
| | `BadgeIsTheirs` | `[]BadgeIsOfWorkspace` | – |
| | `HalfPickedIsForgotten` | `[]HalfPickedIsOfThisOpening` | – |
| | `FurnitureKeepsItsWord` | `[]FurnitureIsTrue` | – |
| | `ChromeIsInOrder`, `NobodyIsLeftThere` | drawer, palette and rail; `[]PersonalLeavesCompany` | – |
| | `LinesAreInside`, `GaugesAreTrue` | `[]LineFits`, `[]GaugeIsTrue` | – |
| | `LayersAreInTheWindow`, `FixedLayersFollow` | `[]LayersFit`, `[]FixedFollows` | – |
| | `MenuOpensOnItsValue` | `OpensOnItsValue` | – |
| | `CarriesWhatItShows`, `PressSwitches` | `[]ThemeIsApplied`, `ToggleSwitches` | – |
| | `ComparesItsOwn` | `[]ComparablesAreItsOwn` | – |
| | `OffersWhatIsKept`, `ViewsAreNotLost` | `[]ViewsAreStored`, `ViewsOnlyGrow` | – |
| `RecordsProofs` | `RowsAreTrue` | `[]ShownRowsAreTrue` | no `lost` |
| | `TabIsTrue` | `[]TabShowsItsRegistry` | – |
| | `RosterShown` | `[]RosterIsTrue` | `EarlyClicks = FALSE` |
| | `HistoryShown` | `[]HistoryIsWhole` | no `lost`, `ReportOverlap = FALSE` |
| `PagesProofs` | `OneIsKept` | `OneStatementPerPeriod` | – |
| | `DivergenceWarned` | `[]DivergenceIsWarned` | – |
| | `ReportsAreComplete` | `[]StoredHasItsPeriod` | – |
| | `FiguresAreKeptAccount` | `[]FiguresAreAccountedFor` | – |
| | `PagesShowWhatIsKept` | `[]PagesShowTheRecords` | the four of `RowsAreTrue`, `RosterShown`, `HistoryShown` |
| | `PagesStayTyped` | `[]PagesTypeOK` | – |

Every invariant that a passing run checks has its theorem here, and so has every action
property of such a run. Beyond the assumptions in the table the theorems use the named
assumptions of the modules, which TLC evaluates on the instances. A theorem is about the
specification of its module (`ShownRowsAreTrue` is one about `LedgerPageSpec`), and where the
run's property joins several modules, the theorem is about the run's `PagesSpec`.

The assumptions are not conveniences: without them TLC finds the theorem false. For
the services this is said above. For the pages it is what the code does: an edit whose
answer is lost is in the ledger while the page reverts it (`lost` of `LedgerPage`); an
invitation answered before the first list is overwritten by that list, which does not
know it (`EarlyClicks`, `use-settings.ts`); a report generated while a list is on its way
goes the same way (`ReportOverlap`), and one whose answer is lost is on the server alone
(`lost` of `ReportPages`). The instances of `WebPages.cfg` have the same values.

**Imports.** Five invariants, each proved on top of the first.

1. `TypeInv` is `TypeOK` and `IssuedUploads`: `upload.received` is only ever sent for
   a ticket issued for a job. Without it a handler could write the row of no job, and
   `TypeOK` alone is not inductive.
2. `ReviewInv` says of each job how its staged rows go with its status: exactly
   one result is staged while it is completed and none in any other status, and the
   ledger holds nothing before the confirm and one result after it. The rows
   a result brings are added (`@ \cup Rows(v)`, as the inserts of the code add); that
   they replace nothing is the content of the invariant, and it rests on the status
   check of `OnImportProcessed`.
3. `KeysInv` (without refusals): a confirmed job is completed, and two jobs of
   one key are not both live. A late result cannot wake a failed job up, so a
   retry never races its own past.
4. `ResendInv` (one sweep): a job not yet re-sent was sent at most once, and one that
   was is on no list any more. With two sweeps the second half fails.

5. `BytesInv` (each message handled once, the reaper on time) is the sum over ages that
   says the hour of the cleanup is long enough. A file is no older than its ticket while
   the ticket can still be used (`StoredInv`), so when processing starts it is younger
   than the ticket's time and its skew; from then on it ages with the job (`HeldFor`),
   and past the threshold it can only wait for the reaper's next turn (`sinceReap`).
   `TimesAssumption` bounds the whole by `TmpMaxAge`. The first half holds in
   every state of a processing job, the second bounds what the first cannot once the job's
   age has stopped counting.

`FollowsLifecycle` then maps each action to a step of `ImportLifecycle` or to
a stutter (`phase` is the refinement mapping: a confirmed job is *imported*), with the
invariants supplying the guards of the abstract actions.

**The compute exchange.** `ComputeRequestsProofs` proves, once, that the exchange
keeps `RequestsInv(Asks)` and what its steps do to `row`, `seen` and `results`, for
any set of questions. `FiguresInv` adds `DataMoves` (what figures are computed from
changes only with the version or the rule sets), `StoredOnceRecorded` (a result that was
stored is recorded as answered, which is why a second one is dropped) and `ReadsAScope`.
`StatementsInv` adds `RowsOnceMapped` (a statement has rows from its mapping on),
`ChecksAreCurrent` (the validation of the latest edit judged the rows of that edit),
`AsksAreEdits` (what is asked is an edit that was made, with its rows) and
`ConfirmsPassed` (while a confirm is open, nothing it checked changes).

**Sign-in.** `SignInInv` numbers everything by the attempt it belongs to:
`AttemptsApart` (an attempt is of one tab, and the API hears of it once the tab left),
`HandoffsFollowLogins` (a hand-off row is written when a login ended, and counts its
tokens), `TabsHoldTheirOwn` (verifier, query and choice of a tab are of its own attempt)
and `ExchangesMatch` (a request, and the answer to it, are for the code their tab asked
with). `OwnAccount` then follows although the cookies are shared.

**The mock's imports.** `MockInv`: rows belong to jobs that exist (`RowsHaveJobs`), jobs
of a link never wait for an upload and confirmed ones are completed
(`JobsRunTheirCourse`), a purged link has no job that may still commit (`PurgedIsOver`),
and the record behind auto-confirm is of jobs confirmed by hand (`RecordIsByHand`).

**The background.** `GatewayInv`: each step of an upload leaves its trace
(`StepsLeaveTraces`: past the store the object is there, past the claim the claim), and
a message describes the file that was stored under its ticket
(`MessagesDescribeFiles`), which two uploads on one ticket could break.
`ContentInv` adds that an upload is refused for its content only where the content, as
`Detect` reads its prefix, does not match. That a text is then never refused is a theorem
about the decoder: a chain of whole characters that starts at the first byte
(`GoOnFrom`) also gets through every prefix, except for a last character that the
prefix cuts, and that one is left out. The prefix may cut a character in two; a decoder
that does not allow for it fails here.
`AccountsInv`: a link that is not pending has consent (`ConsentComesFirst`).
`ReviewInv` and `PromiseInv`: nothing on its way asks for the duplicate before the user
does (`TickedFirst`); the last answer on its way, or the table when there is none, shows
what the server holds (`TableFollows`), so a promise made with nothing on its way is of
the server's rows (`PromiseStands`).
`HubInv`: of each job the page knows there is a timer, a poll, or the last list, on its
way or arrived, shows it finished (`LinkedAreWatched`), and a chip whose history is
finished is not in its sweep (`ChipsFollow`); what was seen finished stays so
(`HubSeesThePast`), which is why a later list cannot undo it. With lists that overtake
each other an old one may arrive last, and the theorem fails.
`PrivacyInv`: exports are numbered as they were asked for, and every poll is for one of
them. `TaxInv`: a filing is a draft until it is generated, and one that the wizard has, or an
answer brings it, is on file with the very same figures (`ShownAreOnFile`), whatever another
session did to books and profile since it was drafted.
`BackgroundInv` is all of them side by side: a step of one part leaves the others.

**The furniture.** `FurnitureInv` has six parts. The chrome's (`ChromeInv`) adds that a
path into a company's statements is only ever asked for from a company's pages while it is
active, or else the history `astray` says why not (`StatementsAreAskedFor`); the other pages
of companies turn whoever has none away. Of the pictures the gauge
alone keeps state, its last frame; that a line fits its plot is a theorem about
`niceScale` for any powers of ten, from what integer division leaves over. A layer
that is shown was measured for the geometry as it is now (`LayerShape`), since every
change of it measures again. Theme, table tools and views have invariants that need no
strengthening but their types.

**Organizations, overview, picker.** `OrgInv`: a list, shown or on its way, has only
organizations of the person signed in (`AnswersOwned`, `ShellOwned`), for a sign-in drops
the calls of the one before, and no name is newer than the last value typed
(`OrgsTyped`). `OverviewInv`: every count on its way is of the active organization, since
a switch cancels the others (`BadgeInv`), and every other read of one that exists.
`PickerInv`: the grid stays within the months there are, a choice is a valid period of its
mode, and half a range belongs to the panel that is open. The text that names no month
(finding 5) does not break it: a draft is not a choice.

**Copies of records.** That a page agrees with the server *once no answer is on its way*
is never inductive: it says nothing while one is. The invariants say what the page *will*
show: the copy, put through the page's own handlers of the answers on their way, ends as
the server's records are. For the transactions, whose answers come in order, `EndsTrue` is a
trace of copies, one per call (`RowsReplay`), of which the last has no row that is not the
ledger's; for a tab of the categories `TabReplays` ends at the registry itself. Every handler
of the server adds a call to the end of such a trace, and every answer takes the first
step off it. The members page is answered in any order, so that there the replay is of sets:
the roster is what is shown, without those whose removal is still to be told, and with those
whose invitation is (`RosterReplay`). The history has one answer on its way at most, and is
the server's list, in its order, once that has come (`HistoryEnds`); that the artifacts of an
organization, picked from a list with one more in front, are the old ones behind the new is
the lemma about `AtPlaces` it rests on.

**Statements and ratios.** `StatementsInv`: one confirmed statement of a kind and period
at most among those on the server, whatever the page shows, polls for or still waits for.
`WarnInv`: a statement's rows are lines, and once it is confirmed every total that is off is
among its warnings, which says something about the engine alone (`RunIsRight`): its
derivations stand in an order in which no total is added up before it is computed, and a
run through that list is a trace of rows (below), along which no later derivation touches
what an earlier one added up. `RatioInv`: the confirmed statements of a stored report's period
are those that were confirmed when it was computed, since a confirm computes and stores the
report of its period.

**Sums and runs through a list** are recursive functions, and induction over data is out
of the provers' reach with an operator. With a *set* it is not: `UpTo` says that a set
with 0, and with every number whose predecessor it has, has all of them (every set of
naturals has a least element), and `StepsExist` that steps, each a function of the one
before, can be taken up to any number. The sums of a donut's slices and the run of the
derivations are such runs, and the decoder of `FileType` is read off backwards in the same
way. The theorems are about lists of any length.

**The whole.** `PagesTyped` and `BackgroundInv` are the conjunctions, and `PagesStayTyped`,
`PagesShowWhatIsKept`, `FiguresAreKeptAccount`, `FurnitureKeepsItsWord` and
`BackgroundTypeCorrect` follow from them for the specifications the two runs check.

**Only model-checked:** `ProcessingEnds`, `AwaitingEnds`, `RawFileGoes`, `PendingEnds`,
`FiguresCatchUp`, `JourneySettles` and `ExportSettles`: liveness, and everything about
fairness, is out of the prover's reach. The five violated properties have no theorem, being
false. Of the properties under [By hand](#by-hand), those said to be kept are
model-checked where no theorem above names them.

## Findings

1. `import_redelivery`. `docs/system-design.md:488` promises consumers idempotent by key.
   `upload.received` handled a second time finds its own ticket used, takes itself for
   a replay and deletes the file of the job it started (`common/service/imports.go:311-316,
   337-342`). The import then fails with "processing_error", and the user starts again.
2. `figures_stale`. D5 promises that a stored figure is tied to its data version. The
   version is read after the inputs, each query with its own snapshot
   (`common/service/compute.go:36` after `121-147`, `193-255`): a commit in between
   leaves a figure that is wrong and current until the next change.
3. `statements_supersede`. Two concurrent confirms of one kind and period supersede
   nothing (`common/repository/statements.go:125`).
4. `statements_pending`. `validation_pending` is answered with no recomputation in
   flight, once the validation of the latest edit failed or expired
   (`common/service/statements.go:263`); only another edit asks again.
5. `picker_typing`. "2026-13" typed in month mode is a draft the picker hands on as an
   Invalid Date; the month grid adjusts its state while rendering by comparing times, and
   NaN differs from NaN on every render (`web/components/ui/PeriodPicker.tsx:121`,
   `DatePicker.tsx:276`). React stops with too many re-renders.

One more divergence has no run of its own: `docs/system-design.md` 6.5 names a change of
the rule sets among what bumps `data_version`; `SeedRulesets`
(`common/service/rulesets.go`) bumps nothing. It is an action of `Figures`.

## By hand

The modules state more properties than the runs check. Each of these has been run
once with TLC, on the instance of its area in `WebPages.cfg` or `WebBackground.cfg`;
to repeat it, set `Parts` to that area and name the property.

Kept: `JobCommitsOnce`, `AutoConfirmEarned`, `NamesOnlyAdvance`,
`HalfPickedIsOfThisOpening`, `OpensOnItsValue`, `ToggleSwitches` and `ViewsOnlyGrow` (also
proved), `NoDegenerateValue`, `DoneShowsGenerated`,
`TicketIsTheOnlyCredential` (two origins; with one origin the browser adds its cookies).

Not kept; most are small, and none is a finding of a run:

| Property | Module | What happens |
|---|---|---|
| `ChipsAdvance` | `ImportHub` | a late answer takes a finished chip back |
| `DoneShowsItsSync` | `AccountsPage` | a journey closed and started again may be finished by the earlier one's timer |
| `CategoryFitsDirection` | `LedgerPage` | the bulk category is checked against the rows as shown, and the inspector may change a direction meanwhile (`TransactionsView.tsx:115-118`, `266-280`) |
| `SelectionIsShown` | `LedgerPage` | a saved view keeps the selection of rows it hides (`TransactionFilters.tsx:346`) |
| `HistoryIsNeverOrphaned`, `TargetFitsSource` | `CategoryPages` | a delete counts the rows as listed; a target survives the change of its source |
| `RefusalsAreTold` | `MembersPage` | some refused writes end in silence (`sections.tsx:335`, `337`, `416`) |
| `OnlyTheOrglessOnboard`, `AddressesOnlyAdvance`, `RefusedUpdatesNothing`, `DraftStaysWithItsOrg` | `OrgWorkspace` | a failed load looks like having no organization (`use-org.ts:38`, `DashboardShell.tsx:169`); an address is completed from the one loaded; a refused update has set some fields; a draft outlives a switch |
| `FiguresAreOfWorkspace`, `RunwayNeedsHistory`, `InvitedIsEmpty` | `Overview` | reads of the organization that was left are not cancelled; a month without transactions counts as history (`report/monthly/route.ts:34-35`, `70-72`); a failed load invites to upload |
| `DeepDiveIsOwn`, `LinksAreAlive` | `ReportPages` | the picked category survives a switch; a listed link expires |
| `RowsFitTheKind`, `DerivedRowsAreCurrent` | `StatementPage` | entered rows keep their key when the kind changes; rows derived at a refused confirm stay when their components change |
| `StoredIsCurrent`, `GridIsOfItsPeriod`, `DeltaColorFollowsDirection` | `RatioPages` | a cached report keeps the books it was computed from; a late answer shows another period's grid; a delta has the color of its sign |
| `CitIsOfConfirmedStatements`, `AuthorityFollowsState` | `TaxPages` | a filing is generated with the figures of its draft; estimates are read with the state of residence before (`use-tax.ts:43-50`) |
| `TypedForThisDeletion`, `BannerIsTrue` | `PrivacyPage` | the typed name survives the closing of the dialog (`Modal.tsx:68`); answers out of order leave a banner behind |
| `RangeRunsForward`, `OneTabStop` | `PeriodPicker` | a typed range may run backwards (`PeriodPicker.tsx:270`); a grid whose day is out of view has no tab stop (`DatePicker.tsx:163`) |
| `RefusedLeftNoMessage` | `UploadGateway` | a send that failed may have been delivered, and a request may be cut after it |

Four properties of the furniture have their exceptions written into them, by a variable
that only records history; without it TLC finds each of them broken. A view saved while
the store is full is shown and not kept, and one saved in another tab is overwritten by the
next one saved here (`adrift`, `use-saved-views.ts:49-62`). A theme chosen in another tab is
not applied, for nothing listens to the store, but a component that renders for another
reason shows it; nor is one applied when the store is blocked or opened again (`unseen`,
`ThemeProvider.tsx:86-101`). The rail that another tab folds stays as it is here until the page is
loaded again (`foreign`, `DashboardShell.tsx:174-187`). An upload that is answered after a
switch to a personal organization, or a typed address, leads to a statement that only
companies have, and that page turns nobody away (`astray`, `DashboardShell.tsx:189-198`).

## Not modelled

- Row-level security and the roles: every model is of one organization's data and of
  users who may do what they do.
- The Go service's ledger, categories, identities, members and consents. Their effect on
  the figures is `Change`; their rules appear in the mock API's version of them. The
  race of two owners who leave at once, and of a merge with an insert, need concurrent
  transactions that the mock does not have: they are hazards without a property.
- Edits of single staged rows in Postgres, retention after 90 days, pruning, claim-check
  payloads, the contract check of messages, the order of outbox rows of one key.
- The arithmetic and parsing of the Python pools: pure functions of a file or a message,
  with unit tests. The web client's version of the rules is modelled.
- The limiter's windows, per-address limits, and the difference between its memory and
  Redis.
- Settle and wake: they hold no state, and show up as fairness.
- Wording, layout, toasts, colors and motion, and of drawing all but axes, donut, gauges
  and the place of floating layers; the gallery of components, the landing page and the
  documentation site.
- Mobile, deployment: placeholders and declarations.
