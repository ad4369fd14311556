# Verification of madzihub's governance platform

madzihub is a FastAPI and SQLAlchemy application in which a water utility plans,
reports, reviews and publishes its performance. Most of its value lies in rules
that no single request can show to be kept: nobody decides on their own work,
what is published was approved, what was signed off does not change afterwards,
one version is in force, a locked period is frozen, no change of a source
system is missed, the figures of two pages agree. This directory holds TLA+
models of the code that keeps those rules, the TLC runs that check them on small
instances, and theorems that TLAPS proves for every instance.

Every definition translates code under `app/`; `PROJECT.json` names its lines
(`map`), the hazards the properties are for (`hazards`), and the places where
the code does not do what its documentation says (`findings`).

## 1. The system

Endpoints are plain functions (`app/modules/*/router.py`, `app/routers/*.py`,
`app/platform/router.py`) that the server runs in a thread pool, with one
database session per request (`app/database.py`, `get_db`). Routers authorise
and commit; the service functions below them check and write. Four facts about
the sessions decide what can go wrong, and all models share them:

* no row is locked and no table has a version column: what a handler has loaded
  may be committed over before it commits;
* a commit writes only the columns whose value differs from the loaded one;
* sessions do not flush by themselves, so a read does not see what the same
  request has yet to write;
* unique constraints are checked by the database at the commit, and the failed
  request rolls back; nothing retries it.

### Components, their state and operations

| Component | State | Operations | Modules |
|---|---|---|---|
| Requests and sessions (`app/database.py`) | the requests in flight | begin, commit, abort | `Requests` |
| Workflow (`platform/workflow.py`) | none; typed flows | check a transition, apply it, record it | `Workflow` |
| Periods (`platform/periods.py`) | which periods are locked | lock, reopen, assert open | `Periods` |
| Reporting cycles (`modules/strategy/service.py`, 509-800) | cycle, assignments, progress updates, published metric values, audit trail | create, generate, name, open, close, reopen, submit, verify, approve, return | `ReportingCycle` |
| Plans (`modules/strategy/service.py`, the rest; `importer.py`) | plan, levels, nodes in two trees, an indicator, its target | draft, activate, switch levels, add, move and retire items, define, version, set targets, import, show | `Plans` |
| Evaluations (`modules/strategy/service.py`, from 942) | an evaluation, its findings and responses | record, start, complete, reopen, respond | `Plans` |
| Scorecard (`modules/scorecard/service.py`) | schemes with bands, score snapshots | draft, edit, sign off, retire; take, override, approve | `Scorecard` |
| Scoring engine (`modules/scorecard/engine.py`) | none | achievement, band, weight, roll-up | `ScoringEngine` |
| People (`modules/people/service.py`) | policies, a performance contract, an appraisal and its trail | switch on; draw up, sign, evaluate, appeal, decide; rate, correct, close | `People` |
| Reporting hub (`modules/reporting/service.py`) | report instances, stored outputs | create, freeze, comment, submit, return, approve, publish, withdraw | `Reports` |
| Regulator packs (`modules/regulatory/service.py`) | packs, returns and their values, league tables | import, edit, approve; create, fill, prefill, submit; run a league | `Regulatory` |
| Document control (`modules/documents/service.py`) | documents, versions, evidence links | create, upload, name people, approve, make effective, withdraw, revise, file and unfile evidence | `Documents` |
| Actions (`platform/actions.py`) | owned follow-up actions | raise, re-assign, start, complete, close, reopen, cancel | `Actions` |
| Audit findings, meetings, risks (`modules/governance/service.py`) | a finding with its two sides; a meeting and its resolutions; matrices, a risk, its ratings | respond, accept, validate; minute, resolve; activate, register, rate, close | `Findings`, `Meetings`, `Risks` |
| Accounts (`routers/users.py`, `auth.py`) | role, active, password to be changed | sign in, create, update, reset, change, delete, first administrator | `Accounts` |
| Scope and organisation units (`platform/scope.py`, `bootstrap.py`) | the tree, grants, duties | enter, move, switch off units; grant; resolve a scope | `Access` |
| Links and comments (`platform/links.py`, `entities.py`) | links between any records | add, remove, list, comment | `Links` |
| Notices (`platform/notifications.py`) | notices, what was sent | the daily command, read | `Notices` |
| Monthly returns (`routers/upload.py`, `records.py`) | rows, previews under a token, upload history | preview, commit, enter, edit, delete, import at start-up | `Returns` |
| Workbooks (`services/excel_parser.py`) | none | map headers, coerce, derive, check, compare | `Workbook` |
| Budgets (`routers/fiscal_years.py`) | years and their lines | enter, copy | `Budgets` |
| Dashboard (`routers/panels.py`, `analytics.py`, `insights.py`, `services/assessment.py`, `insights_engine.py`) | none: computed from the rows | window, carried balances, 25 panels, pivots, alerts | `RecordRows`, `Panels`, `Analytics` |
| Report centre (`routers/report_generator.py`) | none | ten reports | `ClassicReports`, `Analytics` |
| Integration hub (`app/integration/`) | sources with a watermark, runs, key mappings, stored values | pull, upload, map a key, reset, disable | `Sync` |

### How they interact

All governed modules call `periods.assert_open` before a write that belongs to
a period, `Workflow.check` and `apply` around a transition, and `audit.record`.
Findings, resolutions and evaluations raise actions in the shared tracker, in
the transaction of the step that promised them. Contracts are rated by the
scoring engine on the scheme that is signed off at that moment. The strategy
module publishes to `metric_values`, the table the integration hub loads; score
snapshots freeze values and targets from there; reports freeze score snapshots
among other data; regulator returns are prefilled from the monthly records and
from metric values; a document is evidence for any other record, by a link.
Every module asks a scope, which is worked out from accounts, grants, duties and
the tree at the start of each request. In the models these couplings are the
shared modules (`Periods`, `Workflow`, `Requests`, `Actions`, `Accounts`,
`Access`, `ScoringEngine`, `RecordRows`), composed in `Governance`,
`MCPlanning`, `MCAdministration` and `Calculations`, and an environment action
for what a module outside a composition supplies (`DataChanges` in `Scorecard`
and `Reports`).

### What is hard

1. *Checks that are stale at the commit.* Every handler is a read, a check and
   a write without a lock; two of them interleave in ways no test exercises.
2. *Half a lost update.* Since unchanged columns are not written, two handlers
   on one row leave a mixture of both.
3. *Long sequences.* Returned, resubmitted, reopened, superseded, corrected and
   revised records reach states each step of which is legal.
4. *Runs that die, are taken for dead, or overlap* in the integration hub, whose
   watermark decides which rows are never looked at again.
5. *A lock on a longer period* around the period a record belongs to.
6. *Two answers to one question*: what a list offers and what the endpoint
   accepts; what a scope shows and what was granted; the same figure on two
   pages, each with its own sums over rows that lack figures.

### What makes each component correct

* Reporting cycle: four eyes on each revision; only approved figures are
  published, and the approved assignment shows the published one; the audit
  trail is a chain; a locked period is frozen.
* Scorecard: four eyes on schemes and snapshots; an approved score is what its
  hash certifies, under a scheme that was signed off; one in force.
* Reports, packs, documents: sealed by a second person when fit and unchanged
  from then on; one in force; what is served is what was approved.
* Actions, findings, resolutions, evaluations: what was promised is in the
  tracker, and whoever answers for work does not sign it off.
* Risks: the rating shown is the last of its history, in its matrix's band.
* People: a rating is on the scale it was given on, and its history explains it.
* Plans: items form trees, however they are moved.
* Accounts and access: an administrator remains, nobody works on a password
  somebody else knows, scopes show what was granted and no more.
* Links, notices, uploads, budgets: made once, accounted for, copied whole.
* Dashboard and reports: zones and months add up to the cards, pages agree,
  windows are respected, pages that assess a figure do not show what is not
  known.
* Integration hub: the watermark passes over nothing unread; every change is
  read in the end; no second run; loads update what is stored.

## 2. The modules

| Module | Code it stands for | Notes |
|---|---|---|
| `Requests` | `database.py` | `Worker` threads, each `Off`, `Idle` or carrying a request record; `Flush`: the columns a commit writes |
| `Workflow` | `platform/workflow.py` | flows as records of transitions |
| `Periods` | `platform/periods.py` | `locked`, containment, `IsOpen` |
| `Roles`, `Amounts` | `platform/scope.py`; none | accounts with their roles on one unit; whole numbers that may be missing |
| `MakerChecker` | (abstract) | versions filed, one checked by another person, the checked one released |
| `SealedRecord` | (abstract) | a record drafted, edited, sealed by another person if it is fit, then never changed, at last retired |
| `ReportingCycle` | `modules/strategy/service.py` | implements `MakerChecker` |
| `Scorecard`, `Reports`, `Regulatory`, `Documents` | the service of each module | each implements `SealedRecord` |
| `Actions`, `Findings`, `Meetings`, `Risks`, `Governance` | `platform/actions.py`, `modules/governance` | `Governance` composes the four |
| `People`, `Plans`, `ScoringEngine` | `modules/people`, `modules/strategy`, `modules/scorecard/engine.py` | composed in `MCPlanning` |
| `Accounts`, `Access`, `Links`, `Notices`, `Returns`, `Budgets` | see above | composed in `MCAdministration`; `Access`, `Links` build on `Accounts` |
| `RecordRows`, `Panels`, `ClassicReports`, `Analytics`, `Workbook`, `Calculations` | see above | pure calculations as operators over the table `Calculations` keeps |
| `Sync` | `app/integration`, `routers/integration.py` | liveness under fairness |
| `Requests_proofs` | | lemmas on requests in flight, racing and serial, and on least numbers, sums and induction |
| `*_proofs` | | theorems about `ReportingCycle`, `Scorecard`, `Reports`, `Regulatory`, `Documents` (with `Calculations`), `Governance` (with `MCPlanning`) and `MCAdministration` (in `Administration_proofs`, with `Sync`) |
| `MC*` | | constants, symmetry and bounds for TLC of `ReportingCycle`, `Scorecard` and `Regulatory`, and the compositions `MCPlanning` and `MCAdministration`; the other configurations give the constants themselves |

### From handlers to actions

A mutating request is two to four actions. The first makes every check of the
handler and remembers in `req[w]` what the handler holds in locals and loaded
rows; actions in between are further reads that the result depends on (the
count of revisions in `submit_update`, the lookup of the metric value in
`_publish`, extraction and mapping in `run_sync`, the look-up of existing rows
in `execute_commit`); `Commit...` is the transaction's effect, with the columns
that are written as the ORM chooses them and the unique constraints as its
guard. `Abort` (`Crash`, `Fail`, `Conflict` in `Sync`) ends a request without an
effect. Requests that insert or assign a single row without a check that could
be stale in an interesting way are one action.

Rejected requests are not actions: a request whose checks fail changes nothing.
In the governed modules who may do what is a constant (`RoleOn`, `Reviewer`,
`Approver`, `Manager`, ...): scope is resolved once per request. How scopes
follow from grants that change is the subject of `Access`.

The pages of the dashboard and of the report centre read the rows in one query
and compute: `Calculations` enters, deletes and imports rows, and `Ask(w)`
computes everything a window shows into the variable `shown`, which the
properties then look at. Money and volumes are whole numbers and a quotient is
rounded down, where the code rounds floats: the properties compare sums, which
are exact, and whether a rate is there at all.

### One worker or two

A deployment with one worker serves requests one after the other; with more,
they race. `RequestsInit` chooses which workers are on, so each run covers
both. What the code keeps under any interleaving is stated as it stands
(`FourEyes`, `PublishedWasApproved`, `ImplementsMakerChecker`,
`InForceIsServable`, `NothingPassedOver`, `NodesFormTrees`,
`KeptRowsKeepTheirFigures`, ...). What it keeps only when requests do not
overlap begins with `Serial =>`, and its comment names the overlap that breaks
it; the mappings to `SealedRecord` say nothing of racing requests for the same
reason (`IF Serial THEN ... ELSE "none"`). Where the documentation promises such
a property outright it is a finding with a run of its own (`cycle_own_race`).

Data is abstract: a figure, a state of the published data, a pack's content, a
file, a password is a model value or one of a few strings. `Sync` represents a
row by the stamp of its latest version and a stored value by the set of row
versions aggregated into it, which is what a missed, repeated or replaced row
changes.

A property that is a conjunction of named parts is the answer to one question;
the parts say what each hazard could do to it, and are stated beside the
definitions they are about.

## 3. The runs

`tlc -workers 2 -config <cfg> <module>`; each ends within four minutes.

| Run | Configuration | Instance and what it shows |
|---|---|---|
| `cycle` | `ReportingCycle.cfg` | One assignment, two people who may each submit, verify and approve, a month in its quarter, two revisions, up to 7 audit events (serial) or 4 (racing, with no lock, no closed cycle and nobody named). Racing: four eyes, publication only of approved figures, `MakerChecker`. Serial: verified and approved assignments stand on their trail, revisions and published figure; the period's lock or the quarter's freezes decisions. |
| `score` | `Scorecard.cfg` | One version of a scheme with sound or holed bands, two managers who are approvers, three snapshots and a lock on the month or its quarter (serial) or one snapshot and no lock (racing), two states of the data. |
| `report` | `Reports.cfg` | One report that shows a score, an author, a manager and two reviewers, three states of the data and versions (serial), two (racing). |
| `regulatory` | `Regulatory.cfg` | Two versions of a pack, three officers, contents with and without blockers and with a second scored indicator, one return, one league table. |
| `documents` | `Documents.cfg` | Two revisions with two files each, or evidence with one link per version. |
| `governance` | `Governance.cfg` | Two actions, a finding, a meeting with two resolutions, or two matrices and a risk with two ratings. Racing: agreed findings and resolutions have their actions, what is offered is what the server takes, but for the validation of a finding whose follow-up is open. Serial: nobody signs off their own work, the row shows the last rating, and every rating is in a band of its matrix (its two lists of levels and its bands are separate columns, which racing edits may mix). |
| `planning` | `Planning.cfg` | A contract and two schemes with opposite scales, or an appraisal with a history of six events, or a plan with three items in two trees and an indicator of two versions, or an evaluation with two findings. Racing: no loops, an action for each accepted recommendation, offers match guards, but for an evaluation while no scheme is signed off. Serial: ratings are explained, completed evaluations answered. |
| `administration` | `Administration.cfg` | Two accounts, three units with the usual grants, links between two records, two days of reminders, two previews of two months, whose commits may be cut off at every step, two budget years with two lines, one of them money, and a share; amounts in thousandths, one negative and one that rounds, and rates of -50, 0 and 8 percent. Racing: scopes are what was granted, at the highest role granted, pinned links and notices are made once, kept rows are kept. Serial: an administrator remains, given passwords are changed, the history accounts for the rows, a budget is copied whole, to the nearest hundredth. |
| `calculations` | `Calculations.cfg` | Up to three of seven returns - two zones with a scheme of the same name, two fiscal years, gaps and zeros, a month stored by number - five windows, four workbooks. Sums and pages agree, windows are respected, pages that assess do not show the unknown, parsed rows are sound. |
| `sync` | `Sync.cfg` | Two rows, one stored value, two changes, two processes; three failures, crashes or administrative acts when serial, one when racing. |
| `cycle_own_race` | `ReportingCycleOwn.cfg` | finding: a resubmission that races a verification leaves verified, or approved, a revision of the very person whom the trail's last verification or approval names |
| `sync_incremental` | `SyncIncremental.cfg` | finding, without a race: an incremental load replaces a total by the sum of the changed rows |

**Bounds.** Each bound is a named constant (`MaxRevision`, `MaxEvents`,
`MaxSnapshots`, `MaxVersion`, `MaxNode`, `MaxTrail`, `MaxRows`, `MaxDay`, ...)
and occurs in a guard or in a range. Two revisions are the least for a decision
to be about another revision than the current one; three snapshots the least in
which a chain of supersession could fork; three versions of a report let it be
approved, returned and approved again with new data; two pack versions let one
replace another; three items the least for two moves that close a loop through
a third; six events let an appraisal be rated, appealed, decided, closed and corrected; two tokens let one preview meet another's rows; three returns give two
zones with schemes of one name and a month before or after; two rows in one
stored value are the least for which an incremental extract is not the whole.

The `CONSTRAINT Bounds` of a configuration leaves serial behaviours their full
bounds and gives racing ones tighter ones: a race needs two requests and the
few steps before them, and a second worker multiplies the states of every
longer sequence that the serial half already covers. Where a run composes
records that do not depend on one another, `Areas` looks at one kind at a time:
their interleavings could only permute independent steps. `Bounds` is a
constraint on states, so it cuts behaviours only after the state that exceeds
it has been checked. What no property says anything of when requests race is
left to the serial half: the ratings of risks in `Governance.cfg`, budgets and
unlinked access in `Administration.cfg`. `Sync.cfg` has no constraint, because liveness is checked
there. Symmetry is used on workers, tokens and, where no property names them,
on users; never in a run with a liveness property.

**Deadlock** is checked where the system always has another request to serve.
Six configurations switch it off, and say why: records at their bounds take no
further step (`Regulatory`, `Governance`, `Planning`, `Administration`), a
document withdrawn or superseded (`Documents`), a disabled source at rest
(`Sync`).

**Fairness** occurs in `Sync` only; elsewhere people act when they like, and
nothing must happen. A process that does not die goes on (`WF(Proceed(w))`: it
is a straight-line function); time passes, so a run left behind becomes two
hours old (`WF(Age(r))`); and the scheduler that `docs/INTEGRATION_HUB.md` asks
for calls the command every fifteen minutes (`WF(\E w : Scheduled(w))`).
Failures, crashes and what administrators do are not fair and are bounded by
`MaxEvents`, `MaxRacingEvents`: a source whose every run fails is never read.
Stamps of the source system are assumed to increase strictly; the hazard of
equal stamps is listed and not covered.

**Mutants.** For each property of each passing run, `PROJECT.json` names a
plausible bug (`Definition_Variant`, next to the definition it replaces) under
which TLC finds the property violated: the wrong column asked for, a check left
out, a previous record not superseded, a balance looked up across zones, totals
derived before their parts, a watermark kept after a failure.

**Exceptions in `FiguresAddUp`.** `OwnWay` lists the figures a page works out by
another rule than its neighbours (totals filled in from parts zone by zone, staff
added up over months, billing and connections by class, metering): they are
excluded from the comparison and described in section 5.

## 4. The proofs

`tlapm <module>` checks them; they hold for any constants that satisfy the
modules' assumptions: any number of users, records, versions, figures, workers,
and of requests in flight at once. `PROJECT.json` lists the theorems a reader
should know of. Every property of the ten passing runs is one of them but two:
`CatchesUp` (liveness) and `FiguresAddUp` (sums).

**The assumptions** are those of the modules (`ASSUME` next to the constants)
and say what the constants are: sets of people, roles that are subsets of them,
bounds that are natural numbers, markers ("nobody", "nothing") that are outside
the sets they complete, a finite number of workers (`RequestsAssumption`; with
it a `Serial` server has one request in flight, because one worker is on).
TLC evaluates each of them on every run. Five are about `Calculations`: returns,
windows and sheets are well formed (a cell under a figure's header is a number,
a text, blanks or nothing; a year is not negative), the mark of a missing figure
is no number and the fiscal year of today is one, and two say of the fixed
tables of column names that parts are columns, that no total is a part of
another total, and that the rates a page works out are not columns
(`ColumnsAssumption`, `RatesAssumption`). These two
mention no constant that an instance could choose, but the names of columns are
put together from words, which the provers do not evaluate; TLC does, and
completely.

**Induction.** The library's induction theorems take an operator, which the
provers cannot instantiate. `NumberInduction` and `SetInduction` in
`Requests_proofs` are the same facts about sets (a set with 0 and every
successor has all numbers; a set of sets with {} and every one-element
extension has every finite set), proved from a least counterexample. With them
`SumOf` is shown to exist, to go up with an added element and not to depend on
the order; and the commit of a workbook, a recursive function over the rows that
may be written, to exist and to keep one row for each month.

**One shape of argument.** Each component has an inductive invariant in two
parts, because a handler's checks are not repeated at its commit.

* The *racing* part says of a request in flight only what stays true whatever is
  committed beside it: things that no handler writes twice (the author of a row,
  a file once uploaded), states that are never left (a report ever approved has
  the output of its fingerprint), and what the copy it carries is, compared with
  the copy it was made from.
* The *serial* part begins with `Serial =>` and adds that what a request has
  found is what its commit will find (`Found`, `Served`). `Requests_proofs`
  shows why that is kept: of serial requests, one that goes on is the only one
  in flight, so no commit falls between its check and its own.

The properties are not inductive without them: a state in which a row is right
and a request about to commit carries something wrong satisfies the property,
and its successor does not. Each theorem has one lemma per action and, where
commits of different handlers meet, one lemma on what `Flush` leaves of a row
when the columns of two handlers are mixed. To check the invariants below with
TLC, give them as `INVARIANTS` to the run's instance: they hold in all of its
states (cycle 460,343; score 469,752; report 311,284; regulatory 272,599;
documents 254,807; sync 371,768; governance 304,759; planning 228,625;
administration 31,122; calculations 2,015).

| Module | Inductive invariants | What follows |
|---|---|---|
| `ReportingCycle_proofs` | `CycleInvariant`, `SerialInvariant` | types; `FourEyes`; `PublishedWasApproved`; submissions are history; `ImplementsMakerChecker`; serial: `DecisionsStandOnTheTrail`, `LockFreezesDecisions` |
| `Scorecard_proofs` | `ScoreInvariant`, `SerialInvariant` | `FourEyes`; `ProvisionalIsNotApproved`; inputs of a snapshot never change; serial: `OneScoreInForce`, `LockFreezesApprovals`, `ImplementsSealing` |
| `Reports_proofs` | `ReportsInvariant` | types; `InForceIsServable`; serial: `ApprovalIsSound`, `ImplementsSealing` |
| `Regulatory_proofs` | `RegulatoryInvariant`, `SerialInvariant` | types; `ComparisonsAreVouchedFor`; serial: `LeagueIsReproducible`, `ImplementsSealing` |
| `Documents_proofs` | `DocumentsInvariant`, `SerialInvariant` | types; `FilesAreTheApprovedOnes`, `RevisionsSucceedEachOther`; serial: `ImplementsSealing` |
| the same, of `Calculations` | `CalculationsInvariant` | `WindowIsRespected`; `ParsedRowsAreSound`; `UnknownIsNotZero` |
| `Governance_proofs` | `FollowUpInvariant`, `SerialInvariant`, `RatingsInvariant`, `RatedInvariant` | `OffersMatchTheGuards`; `FollowUpIsKept`; serial: `RatingsAreTraced`, `WorkIsVerifiedByOthers` |
| the same, of `MCPlanning` | `TreesInvariant`, `AnsweredInvariant`, `AnsweredOnce`, `PeopleInvariant`, `PeopleAreServed` | `NodesFormTrees`; `EvaluationsAreAnswered`; `PeopleOffersMatchTheGuards`; `AssessmentsAreTraced` |
| `Administration_proofs` | `AccountsInvariant`, `TreeInvariant`, `GrantsInvariant`, `LinksInvariant`, `NoticesInvariant`, `ReturnsInvariant`, `BudgetsInvariant` | `AccountsStayUsable`; `AccessFollowsTheTree`; `NothingIsMadeTwice`; `FiguresAreAccountedFor`; `KeptRowsKeepTheirFigures` |
| the same, of `Sync` | `IInv`, `TurnsAreTaken` | types; `NothingPassedOver`; serial: `RunsTakeTurns` |

**`ReportingCycle_proofs`.** What a verifier or approver was checked against
(the submitter of the revision) is no longer looked at when the request
commits. `CycleInvariant` says why four eyes hold all the same: `InFlightIsTrue`,
what a request has checked is about one submission, and submissions never
change; `CurrentIsLatest`, revisions are 1 to the current one without gap, which
the count before the insert and the unique constraint keep up together; and
`EventsHaveSubmissions`. That the cycle implements `MakerChecker` is proved step
by step, racing requests included. For serial requests `Stands` ties a row to
its trail (`Chain`: each event starts where the one before ended), its
submissions and the published value.

**`Scorecard_proofs`.** `ScoreInvariant` says that what requests checked
concerns columns no handler writes after the insert (author, hash, provisional
flag). `SnapshotsAreChained` is the strengthening for the one score in force:
the superseded snapshots are exactly those another one names, and no two name
the same one.

**`Reports_proofs`.** A report in force keeps its stored output although a
racing refresh may change its content: `OutputsAreStored` speaks of the
fingerprint a report had when it was approved, and `Handled` of what every
handler makes of the row it loaded, approved or not.

**`Regulatory_proofs`.** However requests race, a return or a league table rests
on a pack that was approved, since no request leads back from there; whether that
pack is still the approved one, and complete, is the serial part.

**`Documents_proofs`.** `WholeDocument` counts files with the row's current
version, and keeps the uploader of the approved file apart from the approver
whatever raced; `RevisionsAreInOrder` is what lets one revision make way for the
next.

**`Calculations`.** The table has one row for each month of a scheme: a commit
goes through its rows in order, and each replaces the row of its month, adds one
or leaves all as it is. A preview and the pages are those of the table as it
stands, because an action that changes the table drops them. The rest is about
the operators. For `WindowIsRespected`: no two rows of a window are of one
month, so none is dropped as a duplicate, the base rows stand for the stored
ones one for one (`IsBase`), and carrying a balance keeps that, whichever of the
two passes does it. For `UnknownIsNotZero`: the copy a page reads notes which
figures were missing, so that no set of rows with such a copy is `Complete`; from
there through each card, report, zone and alert that shows a rate. For
`ParsedRowsAreSound`: totals of classes are filled in before totals of which
they are parts, and no later step fills in a part. The proof found the property
wrong as it had been stated: a column in another currency may also hold a ratio
or a total by class that was worked out, not only one of `TOTALS`.

**`Governance_proofs`.** A promise and the action that keeps it are written in
one transaction, but on a copy of a row that others may have moved on.
`FollowUpInvariant` therefore says of a request that carries a finding past its
response, without being the one that accepts it, that the follow-up action is in
the tracker already; and, of resolutions, that actions are numbered without gap,
that no two resolutions name one action, and that as many actions of resolutions
are in the tracker as resolutions have owners. `Answered` counts the decisions on
responses, the one that is pending included. `OffersMatchTheGuards` needs no
invariant: what is offered and what is taken are worked out apart, and shown to
be equal in any state, save for the one step whose guard the offer does not look
at. Two racing edits of a matrix leave the levels of one with the bands of the
other, so `RatingsAreTraced` is about serial requests. There, `BandsLeaveNoGap` shows that every rating
on the scales is in a band of a valid matrix: the bands are put in order by an
unknown permutation, and the last one in that order that starts at or below the
score holds it. The induction over the bands it needs is made with a least
counterexample (`LeastNumber`, from the well-foundedness of the natural numbers),
which no operator has to be handed to.

**`MCPlanning`.** Moves race, and a look for a loop may be stale when the move
commits. What keeps loops out is that an item's type never changes and that an
item hangs from a higher type of its own tree (`Hangs`), which is as true at the
commit as it was at the check: types go up along parents, so nothing is above
itself, and following parents ends. `AnsweredInvariant` says of responses that
each accepted one names an action of its own; the serial `AnsweredOnce` counts:
as many actions are raised as responses accepted. Of ratings,
`WeightedIsWithin` shows that a weighted average is between the lowest and the
highest rating of the scale, from sums in any order; the trail of an appraisal
is a chain of which the row shows the end, and each link was moved by the
appraiser or by somebody of human resources who is neither party.

**`Administration_proofs`.** A step belongs to one area and leaves the tables
and requests of the others alone (`AreasAreApart`), so each area has an
invariant of its own. Accounts: what a request is about to
write leaves an active administrator, as the table stands when it is served alone. The tree: that a unit is
not below another is said by a set, closed under children, that holds the one
and not the other (`Apart`); a move cuts or joins such sets, and the subtrees
that access walks are the units below. What a
scope may do on a unit is shown to be the highest of its grants at or above it
(`RankIsGranted`), by the tree as it is stored at that moment, whatever raced.
Links and reminders: the tables count rows, and the unique keys, which are part
of the commit, keep pinned links and reminders single however requests race; an
unpinned link only if what was looked up is so still. Returns: the log's entries
add up row by row under any interleaving; served alone, the rows of the table
are those entered by hand, those the log counts as inserted, a sum over the log,
and those of commits that were cut off before their entry.
`KeptRowsKeepTheirFigures` is an action property and needs only what a request
carries. Budgets: what a copy has read is what is stored when it writes, and
rounding moves a line by half a hundredth at most, whatever the rate and its sign.

**`Sync`.** A request in flight carries the watermark it will write, so
`IInv` says of that one too that what it passes has been read, by a finished run
or by this one (`Covered`), and that the source system has reached it, so that
later changes are stamped beyond it (`Reached`).

**Model-checked only.** `CatchesUp` of `Sync`: liveness under fairness and
`ENABLED` are beyond the prover. `FiguresAddUp` of `Calculations`: it compares
the sums of some hundred columns over zones and over months with those of the
whole, in twenty-five panels, six pivots and ten reports. One of these facts is
a sum over a partition, which could be proved like the sums above; the property
is as many of them as there are columns, and TLC evaluates them on every table
the run reaches.

## 5. Not modelled

* Wording, layout and rendering: `reporting/layout.py`, `render.py`, the
  narrative engine, titles and colours of panels, Excel and PDF output.
* Pure input and output: `filestore.py`, `backup.py`, opening a workbook and
  choosing its sheet, connectors' transports, file checks and text extraction.
* One-row endpoints without a lifecycle: catalogue, compliance notes,
  configuration, the organisation profile; start-up, middleware and one-way
  migrations; the front end, which enforces nothing.
* Benchmarking against constants and the anomaly model of a library; the
  arithmetic of regulator scores; formulas and positions of the integration
  hub: reads that change nothing, over data the models keep abstract.
* Automatic indicators (their value is read, not entered) and data-quality
  rows change no modelled state. The torn read of `gather` (many queries, no
  snapshot) is a listed hazard without a property.
* Long runs of returns: with three rows the half-year rule of
  the trend alerts (four months at least) is defined but never raises.
* A budget copied onto its own year with overwrite: its lines are deleted before
  they are read (`fiscal_years.py:326, 331`), so `BudgetsAreCopiedWhole` excludes
  the copy of a year onto itself.

### Where the code departs from its documentation or from itself

Two of these have a run (section 3). The others were met while the code was
translated; each is in the models as the code has it, or excluded by a guard that
the comment of the property names.

* A closed cycle still takes verifications, approvals and returns: only
  `reopen` looks at the cycle's state (`strategy/service.py:783`), while
  `docs/PERFORMANCE_GOVERNANCE.md:140` says it refuses them.
* A refresh or comment in flight changes an approved report's content under its
  fingerprint (`reporting/service.py:132`).
* A document whose new revision was withdrawn cannot be revised again, the
  revision's number being taken (`documents/service.py:266`).
* A rejected row whose key is mapped after the watermark passed it is never read
  again (`pipeline.py:92`); a reset of the watermark during a run is written over
  (`routers/integration.py:209`).
* `update_finding` may name the auditor as the owner, which `create_finding`
  refuses (`governance/service.py:198, 229`): nobody may then validate closure.
* A reader is offered the validation of a finding whose follow-up is open, which
  is refused (`governance/service.py:255, 279`), and the evaluation of a contract
  while no scheme is signed off, refused likewise (`people/service.py:175`).
* A risk matrix is three columns, written apart (`governance/models.py:82-84`):
  two racing edits can leave levels without a band.
* A commit that cannot write its history entry, or dies before it, leaves rows
  without one; if it dies before its preview is removed, the preview may be
  committed again (`upload.py:188, 213-219`).
* Lines that are not money are rounded to two decimals when a budget is copied,
  where the endpoint says "copied as-is" (`fiscal_years.py:316, 347`).
* Two runs of the reminders both find a notice not sent. The unique key refuses
  the second run, and with it all of its notices (`notifications.py:65`,
  `platform/models.py:198`).
* Some pages show rates of incomplete figures: collections, revenue by segment
  and profitability (`panels.py:1003, 1120, 1499-1502`), the collection rate of a
  month (448) and its trend (`report_generator.py:456`), the board pack's
  operating ratio of a zone (249). `UnknownIsNotZero` is about the pages that
  assess what they show.
* The supply-continuity panel fails when hours of supply are incomplete (it
  subtracts from a missing average); the pivots of `analytics.py` fail on a
  missing figure, and its latest row by scheme is the one with the largest
  calendar month (305): December rather than the January after it.
* The balance carried into a window is the newest of the fiscal year, which may
  lie after the window (`panels.py:609`).
* The workforce panel adds the staff of a zone up over its months
  (`panels.py:180, 1152`) and its cards do not (569).
* In the reports of zones and schemes the total shows days of debt that the rows
  it totals refuse to show (`report_generator.py:803, 990, 1022`); an
  organisation without active customers is shown as having one (127); the
  distances of the fuel trend are always zero; recommendations ignore the zones
  and months asked for (1189).
* The league of schemes in the budget page adds up schemes of one name in two
  zones (`budget.py:191`).
* A required figure given as text is imported as missing
  (`excel_parser.py:433, 757`); a workbook without pipe columns stores zero
  breakdowns by material (801); a row stored with its month as a number is no
  conflict, and is replaced (`upload.py:347`); a replaced row loses the columns
  the workbook lacks (299).

## 6. Plan

To prove: `FiguresAddUp`, from a lemma on sums over a partition, one page at a
time.

To model next: the composition of `Plans` with `ReportingCycle` through the
active plan; resets of the watermark with their history in `Sync`; positions and
formula measures of the integration hub.
