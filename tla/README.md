# AlphaAgent (`aios`) in TLA+

`aios` is a local, single-operator investment system: a command line and
systemd timers that read market data into a DuckDB file, review it, run a
simulated paper account under frozen policies, and tell the operator by mail
when something breaks. Several processes share the same files: timers, commands
typed by the operator, a dashboard. Each may die at any point. This directory
models the parts whose correctness depends on the order in which such
processes, and the faults they suffer, act on shared state. Paths below are
relative to the repository; modules and configurations are in this directory.

## 1. Inventory

| Component | State it keeps | Operations | Interacts with | Hard because |
|---|---|---|---|---|
| Incident ledger (`alerts.py`) | SQLite tables of incidents and append-only events | emit, acknowledge, resolve, attest, producer recovery, classify | queues mail in the same transaction | evidence hashes read earlier; clock order against append order |
| Notification outbox and mail (`alerts.py`, `notifications.py`) | outbox rows, delivery attempts, the route and its activation | enqueue, claim, send, complete, recover leases, reconfigure, disable | SMTP server; several delivery processes | leases expire while a worker still sends; outcome of a send unknown |
| Email activation (`cli.py`, `scheduler.py`) | route, test message, systemd timer | email-test, -enable, -disable, -deliver | outbox, systemd | several steps, each may fail, compensation |
| Daily cycle and job runs (`daily.py`, `refresh.py`, `alerts.py`, `cli.py`) | job rows, certified sessions, the incident of failed updates | begin_job, refresh by parts, certify, finish_job, recover | price and macro stores, universe, incident ledger, timers | processes die and pids are reused; providers are late, fail or fall back; splits restate what is stored |
| Project maintenance lease (`maintenance.py`) | lock file and owner record | take, release | all commands that change state | in-process guard and file lock |
| Governed forward rollover (`forward_rollover*.py`, `rollover_journal.py`) | active trial file, four outputs, journal of phases | activate, roll back, recover | paper account, backup, lease | crash or error between any two file operations |
| Paper account and forward trial (`paper.py`, `forward.py`, `autopilot.py`) | account, proposals, trial documents | freeze, restart, propose, register, execute, mark | store, lease, document locks | compare-and-set on several files |
| Backup and restore (`operations.py`), local upgrade (`local_state_upgrade.py`) | backup directories, two databases, staged copies, journal | create, verify, restore; upgrade, recover | every file of the project | many files replaced one after the other |
| Anomaly scan and cases (`anomalies.py`, `alerts.py`) | scans, case rows, append-only events | scan, acknowledge, defer, resolve, reopen | store, retained responses | every case is replayed before every command; scans of any date in any order; edits by hand |
| Universe changes (`universe_change*.py`, `universe_rollforward.py`) | reviewed bundles, activation journal, membership rows | prepare, activate, recover, roll forward | store | as the rollover |
| Provider evidence and facts (`raw_snapshots.py`, `ingest/edgar.py`, `companyfacts_*`) | captured responses, facts with a change log, plans, receipts | capture, parse, publish, review, activate, freeze a generation | store, factor reads | the evidence changes between review and activation; two issuers share a ticker |
| Analytical store (`storage/`) | DuckDB tables of versioned rows | insert, refresh, point-in-time reads | everything | a read at a date must not see later knowledge |
| Backtest (`backtest/`) | four books and a benchmark: positions, lots, cash, tax | run a period, rebalance, mark, corporate actions, costs | store, paper account | accounting identities over long sequences; a period that stops in the middle |
| HTTP client (`ingest/http_client.py`) | rate window, retries | request | providers | deadlines, retries |
| Prices and macro series (`ingest/prices.py`, `ingest/fred.py`) | daily prices with split factors, release-dated vintages | incremental fetch, fall back, repair, read as of a day | daily cycle, factors | overlap, restated history, revisions |
| Factors, regime, stress | none of their own | compute | store | numeric, not concurrent |
| Readiness, preflight, dashboard, hosted export | none of their own | report | everything, read-only | none of concurrency |

What makes each correct, in a line: the *outbox* delivers each message at most
once and never silently forgets one; *incidents* are closed only by proofs that
refer to their present generation; the *lease* admits one changing command; a
*rollover* leaves exactly one explained active trial whatever interrupts it; the
*paper account* applies each registered proposal at most once; *upgrade and
restore* end in the old state or in the new one; *point-in-time reads* never
change when later knowledge arrives; the *portfolio* neither creates nor loses
cash or shares; *facts* are what one response said, whole; a *session is
certified* only when what it rests on is there, and in the end it is certified;
a *case* is never closed over evidence nobody read.

## 2. Plan

Modules, in the order in which they are written; one component is one module,
its instances for TLC are in `MC<module>.tla`, its proofs in
`<module>_proofs.tla`, with two exceptions: `GovernedChanges_proofs` has those of
the two governed activations, `ForwardRollover` and `UniverseCoverage`, and
`AnalyticalStore_proofs` those of the two components of the analytical store,
`BackupRestore` and `IssuerFacts` (so that both can be extended there, the
second of each pair carries its name in `CoverageSpec`, `FactsSpec` and the
like). A component that keeps a promise simple enough to be
stated without its mechanism has an abstract specification that it implements.

| | Module | Abstract specification | State |
|---|---|---|---|
| 1 | `NotificationOutbox` | `DeliveryPromise` | written, checked, proved |
| 2 | `ForwardRollover` | `AuthoritySwitch` | written, checked, proved |
| 3 | `IncidentLedger` | `ReviewedClosure` | written, checked, proved |
| 4 | `LocalStateUpgrade`, `BackupRestore` | | written, checked, proved |
| 5 | `PaperTrading` | `SimulatedLedger` | written, checked, proved |
| 6 | `UniverseCoverage`: membership rows, reviews, activation, rebuilding | official membership as known each day | written, checked, proved |
| 7 | `AnomalyRules`, `AnomalyCases`: seven detectors, their scans, the review queue | | written, checked, proved |
| 8 | `TradingBook`, `Backtest`: the book as operators, the run and the paper book over it | | written, checked, proved |
| 9 | `FactParsers`, `FactorReads`, `IssuerFacts`: parsers and reads as operators, evidence, publication, activation | `Truth`: the quarters as they were | written, checked, proved |
| 10 | `PriceStore`, `MacroVintages`, `DailyCycle`: two stores as operators, the update over them | quotes and publications as they were | written, checked, proved |
| 11 | `EmailActivation` (commands, route and timer), `HttpClient` (rate window, retries) | | not written |

`DailyCycle` composes the stores with the job, the incident and the certified
sessions; `IssuerFacts` composes parsers, publication, activation and reads;
`Backtest` the books of a run with the paper account's.

Theorems: of each component marked *proved*, every safety property that its run
checks, and the refinement of its abstract specification. The modules declare no
recursive operator, so that each can be proved about.

## 3. The models

Everywhere: a SQLite transaction, and a rename or exclusive creation of a file,
is one step; a file written in place is several, or one that a fault may leave
torn. A command that the maintenance lease protects runs alone; whoever does not
take the lease may come between any two steps. A crash forgets a process and
nothing else. Contents (documents, hashes, mails, amounts) are what the code
compares of them: equal or not.

The invariants of a component are checked together as one conjunction of named
parts (`RolloverInv` is `TypeOK /\ SuccessorBacked /\ RolledBackClean`): the
type invariant first, then the safety properties. The text names the parts.

### 3.1 Notification outbox

*State.* `incident` holds the row of `incidents` and the anchor of its cycle;
`route` the one row of `notification_routes`; `outbox` and `delivery` the tables
of messages and attempts; `worker` the position of each `email-deliver` process;
`copies` is a history variable, what the mail server took. *Actions.* `Emit`,
`Acknowledge`, `Resolve` are the incident methods with the enqueueing they do
in their own transaction; `EnableRoute`, `EnableUnchanged`, `DisableRoute` the
route; `Claim`, `ClaimNothing`, `Complete`, `CompletionRefused` the delivery
transactions, each with the recovery of expired leases that it starts with;
`ConnectFails` to `Quit` the SMTP dialogue of `send_email` between them, by the
stages the code tracks, and what it reports for each; `Crash`, `Tick`, `SetBack`.

*Run.* `outbox_delivery` (2 workers, 2 messages, 2 attempts, the clock set back
once): `OutboxInv`, the invariant of the proofs, with `TypeOK`, `AuditTrail` and
`QueueOnLiveActivation` among its parts; `NeverSentTwice`, `ExclusiveWorker`,
`SettledForGood`; `RecoveryAfterAlert`, `PromiseSpec`, `QueueDrains`. The
smallest numbers at which a worker can outlive its lease while another takes
the retry, and a recovery wait for its alert with times in either order. A
message that outlives its activation, and three messages over two cycles of the
incident (`MaxActivations = 2`; one worker, `MaxMessages = 3`), were run apart
and are covered by the theorems.
*Fairness.* `FairSpec` has weak fairness of the clock and of the steps of each
worker: the delivery timer fires every five minutes and every SMTP operation
has a timeout. Nothing is assumed about the operator or about crashes.

*Proved* (`NotificationOutbox_proofs`), for every set of incidents, workers and
settings and all bounds: `TypeCorrect`, `Exclusive`, `AuditTrailKept`,
`LiveActivation`, `SettledStay`, and, under `QuitAnswers = {"closing"}`,
`SentAtMostOnce`, `OutboxInvariant`, `RecoveryFollowsAlert` and `PromiseKept`.
None of these is inductive alone. `LeaseInv` adds that rowids are written in order, that a
pending row has an attempt left, and that a busy worker holds the *latest*
attempt of its message, leased or already dead-lettered as ambiguous behind its
back: this is why an expired lease cannot lead to a second sender, a retry is
only granted by the worker itself. `CopiesAccounted` ties what worker and row
say of acceptance to `copies`; with both, every step maps to a step of
`DeliveryPromise` or to a stutter. The assumption about `QUIT` is needed: see
section 4. For `RecoveryAfterAlert` the strengthening (`Alerted`) is that
every live recovery names an alert of its incident and activation, which is
delivered once the recovery is no longer pending.
Only model-checked: `QueueDrains` (liveness).

*Abstracted.* The text of mails, passwords, TLS; one second is one tick;
retry delays are `RetryBase`, `RetryCap` with the code's doubling.

### 3.2 Governed rollover

*State.* `active`, the bytes of the active trial, is who wrote them
(`Predecessor` or an attempt); `output` the four published files; `journal` and
`torn` the phase files of each attempt; `account` whether the paper account is
still the one of the plan; `lease`; `proc`. *Actions.* `Begin` to `Return` are
the activation in its order (prepare, publish each output, record, swap,
record, verify); `Fail` raises at any of these steps and leads to the rollback,
which runs after lease and locks were left: `ReadAuthority`, `Restore`,
`Remove`, `Close`; `Scan`, `TakeLease`, `Reconcile`, `Finish` are the recovery
command with its roll-forward and roll-back branches; `Crash`; `MarkAccount`.

`rollover_recovery` (2 attempts, 2 processes, torn writes, 3 faults, recovery
started only when no activation runs): `RolloverInv` (`TypeOK`,
`SuccessorBacked`, `RolledBackClean`), `AuthorityPromise`, `RecoveryCompletes`. Three faults are a failed activation,
a failed recovery and a failed repetition of it. *Fairness:* a started process
continues and the operator repeats recovery (`WF` of the steps and of `Scan`).
`RecoveryCompletes` exempts what the code does not get past, `Obstructed`: a
torn file, a marked account, the journal of an earlier attempt.

*Proved* (`GovernedChanges_proofs`), for every number of attempts, processes
and faults: `RolloverHolds` (`RolloverInv`) and `AuthorityKept` (the
refinement of `AuthoritySwitch`), under `Premises`: the operator starts recovery
only when no activation runs, and an activation raises nothing after its
verdict. Without the first `VerifiedStands`, without the second `OneVerdict` of
section 4 fails, and the theorems with them. The lease is not what excludes: a
rollback runs without it, and a recovery acts on a journal read before it had
it. `IInv` says what does: at most one attempt is undecided (`OneUndecided`), at
most one process works on it (`NoSharing`), and of each step of that process
which of the files it has reason to rely on (`Place`, `Grounds`).

### 3.3 Incident ledger

One incident, its `events` in append order with their wall clock times, the
`messages` they queue, and two commands at a time. `Read`, taking the time and
the transaction are separate steps, as in the code. `Emit` (severity rises
escalate; a resolved incident reopens), `Acknowledge`, `Resolve` (with the
review of fundamentals cases), `Attest` (a proof for an incident closed before
proofs existed), `Recover` (the producer's recovery, with `Transitions` and
`RecoveryPrepared`) are the transactions; `Classification` is the function by
which the ledger reports a resolution, computed from the events. Synthetic
(test) incidents never block and are left out. `Init` includes an incident that
an earlier version resolved without proof.

`incident_ledger`: `LedgerInv` (`TypeOK`, `ClosedWithProof`, `ClosedOnce`),
`ProofStands`, `ReadPromise`. Three events in addition to an inherited pair, two occurrences
and two clock values are enough for an opening, a proof and a reopening in both
orders of time; one upheaval is either a review of cases or one step of the
clock back.
*Proved* (`IncidentLedger_proofs`), for every bound and without a premise:
`LedgerHolds` (`LedgerInv`), `ProofTheorem` (`ProofStands`) and `ReadTheorem`
(the refinement of `ReviewedClosure`). `Structure` ties the row to the last
events, `Timely` says in which order the times of the events stand until the
clock is first set back, which is when the ledger may no longer tell an
occurrence before a closing from one after it, and `Told` ties the messages of
recovery to the closings, between two of which the incident was always opened
again: from this follows `ClosedOnce`.
`ClosurePromise`, in which looking means observing the timers rather than
reading the row, is stronger and does not hold (section 4).

### 3.4 Upgrade of local state

Two databases, each a schema and a number of rows; verified backups; the
journal of each attempt, whose phases carry the evidence they record; the
command that holds the lease. `Backup` and `Prepare` stand for the attempt up
to its first phase, `MigrateDatabase` (which may be torn between two statements
of the migration), `CertifyDatabase`, `RecordDatabase`, `MigrateOperations`,
`RecordOperations`, `RecordVerified` for the rest; publication may leave a
phase file with two names. `RaiseAlert` migrates the ledger when it opens it
and adds a row: alert commands take no lease. `Restore` is any restore of one
of the backups.

`upgrade_recovery`: `UpgradeInv` (`TypeOK`, `OneStory`, `BothUpgraded`),
`RecoveryResumes`. Two attempts,
two aborts, two alerts, one ingest.
*Fairness:* a started command continues (weak), and the operator repeats the
recovery of each attempt (strong: other commands take the lease in between).

*Proved* (`LocalStateUpgrade_proofs`), for every number of attempts, aborts,
alerts and rows: `UpgradeHolds` (`UpgradeInv`) and `BackedUpFirst`: a database
is never migrated before the backup of the attempt holds it as it was. A phase
is published long after what it records was checked; `CommandInv` carries, from
one step to the next, what the command may still rely on, because whoever else
changes the analytical database or a journal needs the lease, and the ledger,
which changes without it, changes only towards the new schema.

### 3.5 Backup and restore

Facts, one raw file each (absent, torn, whole), the paper directory as the set
of facts its documents rest on, backups and safety backups as copies of live
states, among them one of an earlier installation (`Moved`). A restore is
`StartRestore`, `TakeSafety`, `MarkStale`, the copies of raw files one by one,
`HidePaper`, `InstallPaper`, `SwapDatabase`; `Fail` undoes what the except
branch undoes, `Crash` does not. The renamed directory that a crash leaves is
read by nothing.

`restore_recovery`: `ReplayInv` (`TypeOK`, `FactsReplayable`), `RestoreSound`
(`RestoreAllOrNothing`, `RestoredFits`, `EvidenceMarked`), `WayBack`. Two facts so
that a crash can divide them, one restore of the operator and any number of
further ones out of a broken state. *Fairness:* the process continues, and the
operator answers a broken state with a safety backup (strong).

*Proved* (`AnalyticalStore_proofs`), for every set of facts and all bounds:
`ReplayHolds` (`ReplayInv`) and `RestoreHolds` (`RestoreSound`). `CommandInv`
says for each step of a restore which of the three replacements are done and
that the live files agree with the copy; `TornKept`, that a raw file which a
backup has half written was half written before the restore that runs, is why
the file now being copied is never taken for that one.

### 3.6 Paper trading

Half days: session `k` is open at `2k`, `2k+1` lies after its close.
`account` (version, fills, date), `files` (the proposal of each date), `trial`
(with what it registered), `archived` trials, the version of the frozen policy
files. A document is replaced by a last check and a rename, which are separate
steps: `CreateGuard`/`CreateWrite` for a proposal, `RegisterGuard`/
`RegisterWrite` for its registration, `RestartRead`, `RestartArchive`,
`RestartInstall`, `AccountGuard`/`AccountWrite`. `Refuse` is any of the checks
on data that fail, with the cleanup the command does; `Crash` without it.
`Library` processes call the library without the lease, `Leased` ones are the
commands.

`paper_trading` (one of each, two fills, one change of policy): `LedgerPromise`,
`EvidenceKept` (`TypeOK`, `RegisteredEvidence`, `TrialHistory`), `FillsSound`
(`NoBackfill`, `FillsGoverned`). Three
sessions and three proposals allow a fill, a restart of the trial and a second
fill, with a registered proposal that is missed. Assumed: policy files change
only while no command runs; no session opens between the last check of a write
and its rename; the paper account is not restored from a backup in between (see
3.5); the failure of reading the installed trial back is not modelled.

*Proved* (`SimulatedPortfolio_proofs`), for every number of processes, sessions and
fills: `LedgerTheorem` (`LedgerPromise`, the refinement of `SimulatedLedger`, no
premise); `EvidenceTheorem` (`EvidenceKept`) if the library is not called beside
the commands or no proposal is overwritten; `FillsTheorem` (`FillsSound`) if the
autopilot does not confirm fills. Each premise excludes the counterexample of
its property in section 4. A write is a last check and a rename: `LedgerInv`
says what of the check is still true at the rename thanks to the locks of the
account and of the trial, `EvidenceInv` the same of proposals, whose identifiers
are unique also among those that are written by nobody yet.

### 3.7 Universe coverage

`rows` is `universe_membership`: intervals, the days at which their start and
end became known, the releases that their source names, the mark of the
activated event, and `ref`, the common end of the identity, owner, CIK and
provider windows that the code extends and checks together. `schedule` is what
the index provider will announce, from which `Official(k, e)` says who is a
member on day e as known on day k; `published` is the day whose set the
community component file shows, which may lag without limit. `Extend` and
`Block` are a review that accepts and one that records the governed release
(others change nothing that is read later), `Prepare` and `Activate` the two
commands of the activation, `Rebuild` the building and import of the rows from
events and reference, `RebuildReferences` the import of the other windows.
All hold the maintenance lease and commit once, so each is one action. Only one
release can be activated: the code names its pair of tickers. `Activatable` is
what `Activate` demands: the sources still give the reviewed plan
(`BasisStands`), the rows are those it was made from (`LiveStands`) and
activating a copy gives what it foretold (`Proved`).

`universe_coverage` (the governed change, alone or with another that is
announced before or after it is effective, five sessions, a page
of the archive reaching all of them, one rebuild before the activation):
`PointInTime`, `StoreInv` (`CoverageTypeOK`, `StoreOpens`), `AcceptedNeverBlocks`. Five
sessions are two after the governed change, so that an allowance with an expiry
would show. *Fairness:* the calendar and the daily review; nothing of publishers
and operators. Assumed: the operator rebuilds from a reference that reaches the
new end; not all members of the first day leave; a release has one effective
date.

*Proved* (`GovernedChanges_proofs`), for every index, number of days, lag of the
publisher and number of rebuilds: `CoverageTrue` (`PointInTime`) and
`StoreHolds` (`StoreInv`), of the schedules that are `Regular` (no ticker enters
or leaves twice, a release has one effective date) and `Noticed` (the archive
reaches over all days, or each change is announced at most one session before
it is effective); the second also if nobody rebuilds after an activation
(`LateRebuilds = FALSE`). Each premise excludes a counterexample of section 4,
and the instance of the run satisfies them (`CoursesAssumption`, which TLC
evaluates). Neither property is inductive: the rows are extended day by day, by
reviews of sets that lag behind. `CoverageIInv` says that every row tells of its
ticker what was officially known on some day (`AsOf`), and the rows that start
within the coverage what was known on its last day (`RowsKept`); that the
changes which block a review are the candidates it recorded (`BlockedKept`); and
that the rows bear the receipt out, whatever later reviews did to their ends
(`ReceiptKept`).

### 3.8 Anomaly cases

`AnomalyRules` has the seven detectors as operators: from what the store holds
on a date and the responses retained for it, a detector withholds its scan or
returns findings, the boundary of its evidence and the proofs that clear
earlier findings. `AnomalyCases` is the queue: `world` is that store, `scans`,
`cases` and `events` the three tables, `factors` the baselines which one rule
reads, `pending` a scan built and not yet recorded. *Actions.* `Ingest` (a
provider's answer, retained and stored), `Edit` and `Damage` (the store or a
retained response changed by hand), `Scan`, then `Record`, `Repeat` (a known
identity and payload) or `Discard` (any refusal); `Review` is
acknowledge, defer and resolve against evidence read earlier; `Tick`, `SetBack`.
`Verified` is the replay with which every command begins, of every case.

`anomaly_cases`: `QueueInv` (`TypeOK`, `CaseReplays`), `CorrectionHolds`,
`NothingHidden`. A behaviour schedules one of the seven rules, which the ledger
never relates to each other; three scans are a finding, its absence and its
return; two days and two kept responses allow scans of dates in either order
and a correction newer than its finding; three events an opening, a decision
and a reopening. `None` of a finding's numbers matter, only whether two are
equal. No fairness: nothing is promised about the operator. Deadlock is checked:
the days can always be set back. `CorrectionHolds` asks of a corrected price
for two retained responses, one for each of the two sessions whose move was
reported: the code replays each row of the pair on its own
(`anomalies.py:2388`), and the store may hold rows of two responses.

*Proved* (`AnomalyCases_proofs`), for every rule, store, set of answers and
edits, owners and bounds, without a premise: `QueueHolds` (`QueueInv`),
`CorrectionTrue` (`CorrectionHolds`), `NothingHides` (`NothingHidden`).
`ScansKept` is what the detectors guarantee of each scan they build (one
finding of a subject at most, and of each proof the responses that bear it
out); `CasesKept` is what ties a case to the scans: none after its last one
finds it, that one found it with the evidence the case has, a correction is
verified by a later one. Neither property is inductive alone, since an edit of
the store or a step of the clock between building and recording changes what
the detectors would say now. `CaseReplays` is carried by the guard of each
transaction for the cases it touches, and for the others by `ReplayStays`: a
replay reads only scans that are recorded already. The fold of the replay is
taken apart (`ReplayRuns`) by induction in the form of a least counterexample
(`Smallest`). Assumed of the constants: rows of share counts have their types, a
rule starts with responses of the first day, the scan inherited from the older
policy had found something (`SharesAssumption`, `WorldAssumption`,
`LegacyAssumption`).

### 3.9 Backtest and the paper book

`TradingBook` is the book as operators: FIFO lots, purchases scaled to the cash,
taxes by holding period, dividends, splits, conversions and liquidations,
marking over every stored session. `Backtest` advances the four books of a run
(`RunPeriod`: evaluate, simulate copies, keep all or none) and a benchmark, and
beside it the paper account's book (`PaperExecute`, `PaperMark`); the two do not
meet and are explored apart (`Apart`). The stored history, `world`, is chosen
once and does not change.

`backtest`: `BooksInv` (`BacktestTypeOK`, `BooksBalance`), `PairedBooks`,
`ReportAddsUp`. Three periods of three days (a completed, a failed and a later
one), thirteen histories, four boards, two securities held of three. Money and
shares are whole numbers, a lot keeps its total basis; rounding to cents is left
out. Scores are the two weighted factors the policies differ in.

*Proved* (`SimulatedPortfolio_proofs`), for every calendar, price history, set of
conversions, factor table, number of decisions and of holdings, costs and tax
rates: `BooksTrue`, `PairedTrue`, `ReportTrue`. The assumptions (`History`,
`TradingBookAssumption`, `BacktestAssumption`) are what the store's schema and
imports refuse otherwise: a security is converted once and not into itself,
rates lie between none and all, decisions are in the order of their days. That a
conversion does not lead to its own source was missing at first; the lemma about
`Convert` does not hold without it, since the old shares would be dropped.

- *A book*: `Sound` says that it adds up, that the taxes set aside are those due
  and that no cash is borrowed. Every operation keeps it: a sale because the
  lots consumed and kept divide the basis without remainder (`Selling`, the
  invariant of the loop over the lots); cash because a tax set aside grows by no
  more than the gain or the dividend it is due on (`OwedGrows`), and purchases
  are scaled to the cash that is left.
- *A loop* is a fold over a sequence: the steps lemma of each is a least
  counterexample over its prefixes, since an induction theorem of the library
  takes an operator. That the keys and days come in order, each once, follows
  from `Ordered` (`PositionGrows` and the lemmas after it).
- *The run*: `BacktestIInv` is `RunShape`, `BooksRest` (between two operations
  every book shows what it is worth), `OnlyRefused`, and `Progress(c)` for some
  `c`: the first `c` periods are complete and no other is, the four books have
  the same days, those up to the exit of period `c`, and the reported equities
  are chained. `Timed` gives the days that an interval adds to a curve, so that
  all books which complete it stay alike, and `Aligned` cannot fail.

### 3.10 Issuer facts

`FactParsers` has the parsers v2s1, v2s2, v3 and v4 over a response as a
sequence of provider rows; `FactorReads` the route from a ticker and a date to
an issuer, the history a decision sees and the trailing year. `IssuerFacts`:
`runs` are the captured responses and what became of them, `facts` the table,
`versions` its append-only log, `generations` named positions of it, `plans`
and `accepted` the reviewed activations. `Capture`, `Attach` (the parser
outcome), `Commit` are a refresh, `FailIngest` and `ProcessCrash` its ends; `PurgeEbitda`,
`QuarantineInvalidPeriods` the repairs; `PrepareV3`, `PrepareV4`, `Check` (live
state, rehearsal on the backup, live state again) and `Activate` an activation.
The embedded database has one writer, so a command is one action except where
it closes the database: between `Check` and `Activate`.

`issuer_facts`: `FactsInv` (`FactsTypeOK`, `WholeRelation`), `GenerationsFrozen`,
`TrailingYearTrue`, `ActivationExact`. A predecessor and a successor under one
ticker; three responses (complete, with a contradiction, shrunken), so that a
relation could be widened, narrowed or mixed; two refreshes of the one and one
of the other, one fault, two plans: a plan may go stale, v4 may follow v3. Two
metrics stand for all: `revenue` (a flow with cohorts of concepts) and
`shares_out` (an instant). `Truth` is what the quarters were. `TrueFigures` says
what `TrailingYearTrue` needs of the responses, and it is about figures alone:
the single period that a parser gives a quarterly row is the revenue of the
quarter that ends there, and an annual row under the label of its own year is
the revenue of that year. Labels are free, as nothing in the code compares one
with the dates of its row: the SEC repeats last year's quarter under the label
of the report that contains it, and the shrunken response of the instance does
so for a quarter and for a year. (TLC evaluates `TrueFigures` for these
responses.) `TrailingYearTrue` then says of both reads of a history, the cached
one and `fundamental_history`, what a trailing year is that adds rows under
their own labels (`Added`): the four quarters up to the last period the decision
knows, except that each repeated row among those it subtracts (`Subtracted`)
counts as its own quarter in place of the one its label names. With no such row
it is right; with one it is wrong, by that difference and no more. That no such
row is ever subtracted is what the code's own comment claims; it does not hold
(`QuarterIdentity` in section 4). What the property does not say: anything of a
trailing year whose last annual row or whose added quarters are under another
period's label, which takes a report whose own row was withheld.

*Proved* (`AnalyticalStore_proofs`), for every set of issuers and shared
tickers, all responses, rows of older versions and bounds: `FactsHold`
(`FactsInv`), `GenerationsHold` (`GenerationsFrozen`), `ActivationHolds`
(`ActivationExact`), and `TrailingYearHolds` (`TrailingYearTrue`) under
`TrueFigures`. Assumed of the constants: they have their types, and the
inherited rows belong to no reviewed issuer (`FactsAssumption`). `LogKept` says
that the log of versions replays to the table and each generation to what the
table was when it was named; `RowKept`, that every row of a reviewed issuer is
one that the run it cites parses to; `PlanKept`, that a plan carries what its
evidence says, which no later outcome of that run changes. A plan is activated
issuer by issuer: the fold over the issuers is taken apart by induction on how
many are done, and the issuers do not meet in the table although they may in
the ticker. For the trailing year, `RowKept` leads from what a decision reads
back to rows of the issuer's own responses, at most one for a period end: two of
them would have one filing date, so one key. The sum is a fold in an unknown
order, shown to be the same in any order and to add up over parts (`SumUnion`);
the rank of a row (`Ranks`) turns labels that follow one another into period
ends ten days apart, and each of the three ways to build the year (four
quarters, an annual value, an annual value rolled forward) into the sum over the
quarters between two dates. Of the quarters subtracted only the labels are known
to follow one another: they name each quarter up to the last one just once, so
that their own rows add up to the line without the repeated ones (`RolledTrue`),
and what remains is the difference the property names. What is assumed is the
figures, not the labels and not the code: the selection of rows by the parsers,
the route from ticker to issuer and the checks of labels and order are all as in
the model.

### 3.11 Daily cycle

`PriceStore` and `MacroVintages` are the adapters, tables and reads of prices
and macro series; `DailyCycle` the update over them: `Start` (with the recovery
of a run that was killed), `Refused` (a live process, or the recorded pid in use
again), `Benchmark`, `Universe`, `Macro`, one `Member` after the other,
`Readiness`, `Finish`, then what the command reports (`Report`, `Recover`);
`Kill` between any two; `RefreshActions` the repair of split factors. Time `2d`
is the evening of session `d`, `2d+1` the morning after. A price is the number
of its halvings, every split is two for one.

`daily_cycle` (`FairSpec`): `PricesInv` (`TypeOK`, `GapFree`), `QuotedBasis`,
`MacroKnown`, `CertifiedTrue`, `EventuallyCertified`, `IncidentCloses`. Two new
sessions, the split on one of them, two members, a circuit that opens at once,
an overlap of one day, two faults (a provider behind, down or falling back, a
kill, an announcement to review), one repair. One of the series is a yield that
the Treasury publishes too: its rows lie beside those of FRED in the same table
and stand in for a fetch of FRED that fails (the history lies within the one
year the Treasury answers for); `fetched` is the last complete fetch of FRED,
up to which `MacroKnown` asks that a Treasury row neither shows before its day
nor hides what FRED has published. Two faults are a failed run and
the failed repetition that finds what it left. *Fairness:* the timer runs the
update on every day, systemd starts it again after a failure and at boot; days
pass; a foreign process that has the pid ends. *Assumed:* no weekends; Yahoo
normalises all it returns by the newest session of its answer; retries within a
request are part of the answer; a repair window starts at a stored session. Left
out: the incident that reports an interrupted run, and the two commands that
ingest a ticker by hand.

*Proved* (`DailyCycle_proofs`), for every calendar, history, set of members and
series, overlap and bounds: `PricesHold` (`PricesInv`), `MacroTrue`
(`MacroKnown`), `CertifiedHolds` (`CertifiedTrue`) without a premise, and
`QuotesTrue` (`QuotedBasis`) under `Premises`: what is stored at the start is
quoted, and a line that the repair of actions can reach has no split after the
start of a repair window, or is a member with only reviewed rows. `PricesKept`
says of each series that it has no hole and ends where, `MacroKept` that a row
of FRED is what FRED had published on its day with none missing up to the last
complete fetch, `RunKept` what a run has behind it at each of its steps: the
session it certifies is the one its benchmark reached, although providers and
the clock move on below it. Only model-checked: the two liveness properties.

## 4. Findings

One finding has a run, whose counterexample follows the code; PROJECT.json
quotes the sentence it contradicts.

| Run | Where | What happens |
|---|---|---|
| `daily_split` | `ingest/prices.py:1007` | only the last five days are fetched again, while Yahoo restates every close before a split: the return at the edge of the overlap is the split, and the gate of the price factors does not see it |

The modules state more claims of the documentation that do not hold. Each is
violated under the passing run's constants with the changes given here (paths
of the package without `src/src/aios/`, of documents without directories).

| Claim | Constants | Where | Contradicts |
|---|---|---|---|
| `NeverSentTwice` | `QuitAnswers = {"closing", "refused_4xx", "refused_5xx"}` | `notifications.py:271`: a 4xx answer to `QUIT`, after acceptance, counts as retryable | `ARCHITECTURE.md:473` |
| `NothingSentWhileOff` | none | `alerts.py:3594`: disable does not wait for a worker that is sending | `cli.py:3604` |
| `RecoveryOfSameCycle` | `MaxMessages = 3`, one worker, `MaxAttempts = 1` | `alerts.py:4244`: the alert is looked up by second-granular time | `ARCHITECTURE.md:484` |
| `VerifiedStands` | `PatientOperator = FALSE`, `Attempt = {1}`, `TornWrites = FALSE`, `PaperUse = FALSE`, `MaxFaults = 1` | `forward_rollover_activation.py:237`: the rollback of a failed activation runs outside of the lease and reverts what a recovery verified | `FORWARD_ROLLOVER_V2_SPEC.md:231` |
| `OneVerdict` | `FailingSteps <- AllSteps` | `forward_rollover_activation.py:220`: an exception after the verdict starts a rollback | the journal's own rule |
| `EveryAttemptSettles` | `TornWrites`, or two attempts | `:1130`, `:311` | `FORWARD_ROLLOVER_V2_SPEC.md:237`, `:136` |
| `ClosedWithProof` without `setBacks = 0` | none | `alerts.py:1272`: times are compared | `alerts.py:1245` |
| `ClosurePromise` | none | `cli.py:448`: the timers are observed before the incident is read, a failure in between is closed by the older observation | `cli.py:440` |
| `EveryAttemptResumes` | `TornMigration`, or an alert, or `TornPublish` | `local_state_upgrade.py:342`, `:384`, `:512` | `ARCHITECTURE.md:212` |
| `OperationsBackupFirst` | one alert | `alerts.py:541`: opening the ledger migrates it | `FUTURE_BUILD_PLAN.md:152` |
| `SafetyRestorable` | `MaxRollovers = 1` | `operations.py:574` | `README.md:764` |
| `RawImmutable` | none | `operations.py:596`: a crash leaves half a raw file under its final, content-addressed name | `operations.py:590` |
| `FillsGoverned` | `Library = {}`, `AutopilotConfirms = {TRUE}` | `autopilot.py:172`: `autopilot --confirm-simulated` fills although the frozen policy changed | `ARCHITECTURE.md:565` |
| `NoBackfill` | `AutopilotConfirms = {TRUE}` | `autopilot.py:197`: the last check uses the moment the cycle started | `paper.py` windows |
| `RegisteredEvidence` | `Overwrites = {TRUE}` | `cli.py:4843`: looked at long before the write | `cli.py:4845` |
| `PointInTime` | `Schedules <- Alone`, `ArchiveReach = 1`, `MaxRebuilds = 0` | `universe_rollforward.py:581`: a pending change older than the page of the archive that reaches the coverage is not read at its effective date, coverage is extended over it | `ARCHITECTURE.md:171` |
| `PointInTime` | a release with two effective dates, imported between them | `universe_rollforward.py:242`: the release counts as reviewed for both | `universe_rollforward.py:694` |
| `StoreOpens` | `LateRebuilds = TRUE` | `storage/store.py:981`: importing the membership after an activation drops the event marks that the receipt is verified against | `universe_change_activation.py:516` |
| `RecurrenceReopens` | `Rules = {"sec"}` | `alerts.py:3002`: replay derives the contract of a past acceptance from the present row; once a successor's missing coverage was accepted, every scan with other evidence (the date is part of it) is refused | `ARCHITECTURE.md:295` |
| `RescanIdempotent` | none | `anomalies.py:3923`: the identity of a scan leaves out its context and its proofs; a repetition that differs in these is refused as a contradiction | `ARCHITECTURE.md:294` |
| `QuarterIdentity` | none | `factors/common.py:318`, `ingest/edgar.py:1262`: a report that repeats the same quarter of the year before labels it with this year, the newest filing of a period end wins, and the roll-forward subtracts the quarter that then carries the label of the annual year, which is the one of a year earlier | `factors/common.py:267` |
| `SharesMoveOn` | `World <- MCChain` | `backtest/portfolio.py:665`: conversions of one day are applied in key order, not along the chain: the book keeps shares that no longer exist | `storage/store.py:1589` |

A crash in `RestartInstall` leaves no active trial (`forward.py:229`), although
the docstring at `forward.py:159` says that the successor is activated
atomically; the commands then refuse, nothing recorded is lost (`TrialHistory`).

Observed while reading, without a run:

- After an activation under v3 or v4 the ordinary refresh, which parses under
  v2, is refused for an issuer whose relation would shrink (`store.py:2990`),
  and otherwise puts the v2 values back (`Commit` allows both; `refresh.py:83`
  presents the refresh as safe to repeat).
- `enable ∥ disable`, and a failing step of `email-enable` after the route was
  enabled, leave timer and route apart (`cli.py:3570`).
- A blocked review that also read the detail of a later change cannot be
  planned on: `_build_latest_base_plan` binds every detail to the address of
  the governed release (`universe_change_activation.py:750`), so that
  `build_universe_change_plan` finds two of them (`universe_change.py:582`),
  although it is written, and tested (`tests/test_universe_change.py:747`), to
  carry pending changes along. `OneBlocked` follows the code; the coverage then
  waits for the operator to rebuild the rows.
- The benchmark's fallback to Stooq replaces reviewed rows of the overlap
  (`PriceStore`), which then hold certification up until Yahoo answers again.
- `refresh-price-actions` of the benchmark over a window that starts after the
  stored end leaves a hole that no incremental refresh fills (excluded by the
  bound in `RefreshActions`).
- Should Yahoo restate its history before its answer reaches the session of the
  split, the rows fetched then keep a wrong factor beyond the overlap (excluded
  by the assumption in 3.11).
- `refresh-price-actions` of rows that precede a later split stores them with
  the factor of their own session (`parse_yfinance_normalized_export_v4`,
  `ingest/prices.py:273`), while Yahoo has restated their closes by then: the
  docstring's "exports contemporaneous OHLC values" fails for them. `QuotedBasis`
  is violated if a member splits on two days and the repair covers the first
  (the premise of `QuotesTrue`).
- A kill between the failed job row and its report opens no incident for that
  failure; the next failing run does.

## 5. What is checked how

Proved for all values of the constants that satisfy the named assumptions:
the theorems of 3.1 to 3.11, thus every safety property of the eleven runs that
are to pass. Each proof goes
the same way: an invariant `IInv` (`CoverageIInv`, `FactsIInv`, `BacktestIInv`)
that TLC checked first on the run's instance, one lemma per action that preserves it, and it
implies the property; a refinement maps every step to a step of the
abstract specification or to a stutter, from the same invariant. Assumptions on
constants stand in the components' modules, where TLC evaluates them
(`...Assumption`, `...Bounds`): the bounds are natural numbers, the sets of
names are disjoint. A hypothesis of a single theorem is written in the theorem;
each such one excludes a behaviour of the code that section 4 shows to violate
the property, except `TrueFigures`, which asks of the responses that their
figures are true.

Checked by TLC on the instances of section 3 alone: liveness (`QueueDrains`,
`RecoveryCompletes`, `RecoveryResumes`, `WayBack`, `EventuallyCertified`,
`IncidentCloses`, `AcceptedNeverBlocks`), which rests on ENABLED and fairness,
outside of the proof system.

No state constraint is used: every bound is a named constant (`Max...`) in the
guard of the action that it limits, and the properties are such that a longer
behaviour repeats the interleavings of a short one with more messages, attempts,
facts or days. `CHECK_DEADLOCK FALSE` is set, except in `anomaly_cases`, because
the bounds let the system stop. PROJECT.json pairs every property with a fault
of the code that violates it in the same run; the faulty definitions
(`..._Fault` and the like) stand before the ones they replace.

## 6. Not modelled

- *Email activation*: the commands that send the test message and install the
  timer, in steps that each may fail and are compensated. Planned.
- *HTTP client*: the rate window and retries within one request; a request is
  one answer here. Planned.
- *Maintenance lease*: modelled as its holder wherever a command takes it; the
  owner record and the recovery of a stale one are not.
- *Factors, regime, stress and risk statistics*: functions of their inputs,
  without state or concurrency; the reads they rest on are in 3.10 and 3.11.
- *One-off importers* of references, identities, security events, warm-up and
  liquidation evidence: they write the reviewed inputs that 3.7 to 3.11 take as given.
- *Readiness reports* other than the certification of a session, preflight,
  dashboard, hosted export, experiments registry: they read and report.
- *Scheduler units*: rendered text; that the timers fire is the fairness of 3.11.
- *Configuration and small helpers*: parsing and constants.

Of the notification path the tables of the service manager, of backups the
checksums of manifests, and everywhere the formats of files are left out.
