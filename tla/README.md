# Verification of vault-clm-discovery

TLA+ models of the certificate lifecycle service in this repository, the TLC
runs that check them on small instances, and proofs checked by TLAPS. Paths are
relative to the repository; `PROJECT.json` lists for every definition the lines
it models.

## The system

A Go API (`cmd/clm-discovery`, `internal/`) over one PostgreSQL database, any
number of replicas of it, and a Next.js dashboard. It discovers certificates by
scanning networks or asking collectors, records them, judges them, and renews
or migrates them through an Ansible controller (AAP). All coordination between
replicas goes through rows of the database: rows are claimed with
`FOR UPDATE SKIP LOCKED` and a lease or claim time, worked on without a
transaction, and given back.

| Component | State | Operations | Talks to | What is hard | What makes it correct |
|---|---|---|---|---|---|
| lifecycle jobs (`store/lifecycle_jobs.go`, `lifecyclejobs/`, handlers in `api/server.go`) | `lifecycle_jobs`: status, AAP id, lease, next probe, deadline, attempt | renew, migrate (interactive, batch), claim callback; worker tick: sweep, claim, launch, wait, probe, back off, close | AAP, outbox, inventory, EDA rulebook | two workers, leases that end in mid-batch, snapshots used after a call of minutes, lost answers, crashes between launch and record | one holder, one launch, verified only with a successor, outcomes final, every job closes; that outcomes keep their events does not hold |
| event outbox and dispatcher (`store/store.go`, `eventbus/`, `itsm/`) | `events`: delivered, attempts, lease | append, claim batch, post to EDA and ITSM, record | webhooks | slow batch against lease, crash after a post, one of two sinks failing | at-least-once promise, one holder, bounded redelivery, every event settles |
| scan queue and worker (`store/store.go`, `api/scan_worker.go`, `scanrunner/`) | `scans`: status, claimed_by, claimed_at | create (capped), claim, heartbeat, run, release, collect, delete | scanner, inventory, posture, Vault | heartbeats against claims, shutdown in mid-batch, deletion of a claimed scan, collectors writing the same table | one runner, healthy claims kept, outcomes final, queue bounded by cap and requests, every scan ends |
| scan runner (`scanrunner/`, `store/diagnostics.go`), collectors | counters of one run, slots of its semaphore | parallel probes, progress updates, completion; items of a collector request one by one | scanner, inventory | goroutines, updates out of order, deletion of the scan | the summary equals what was probed, no slot is lost, every run ends |
| certificate inventory (`store/store.go`, `store/certificates.go`) | certificates, issuers: status, revocation marker, managed status | upsert, mark revoked, set managed status, renewal config, import, delete | outbox, Vault, responders | probes, checks, reconcile and imports writing one row, each on what it read earlier | verified revocations kept; that they are true of the leaf, and that every row keeps its event, does not hold |
| Vault reconcile and import (`vault/`, `api/server.go`) | none of its own | list mounts, read certificates, mark managed; import a CA | Vault, inventory | mounts read one after the other, lost answers | a pass that says ok is complete; nothing recorded that Vault lacks |
| posture, findings, waivers (`posture/`, `store/findings.go`, `store/waivers.go`, `compliance/`) | findings, waivers, risk score | recompute, waive, revoke, enrich | inventory, compliance packs | two recomputes in one row's transaction, inputs that change under them, deadlock | findings, waivers and score agree with the rules; recomputes end |
| connections and settings (`store/connections.go`, `api/handlers_settings.go`) | connections: metadata, sealed secrets, `secrets_set` | PUT, PATCH target by target; GET, tests and options read | the settings page; the clients of Vault, AAP and EDA are built from the environment at startup | read, merge and write in separate statements; restarts under another key | what was written is what is stored, the flag and the ciphertext agree; that secrets left out are kept does not hold under concurrent writes |
| RBAC, auth, audit | role table, audit log | decide, append | every handler | little: one step per request | deny by default |
| reports, renewal kit, CLI, dashboard | none | pure functions, formatting, I/O | | | |

## Modules

| Module | Models |
|---|---|
| `LifecycleJobs` | jobs table, worker replicas, renew/migrate/claim handlers, AAP, the successor in the inventory |
| `LifecycleJobs_proofs` | type correctness and two safety invariants of it |
| `LifecycleLeases_proofs` | exclusive leases, one launch by workers, final outcomes, over `LifecycleJobs_proofs` |
| `OutboxPromise` | abstract specification: what the outbox promises to whoever appends an event |
| `EventOutbox` | events table, dispatcher replicas, both sinks; refines `OutboxPromise` |
| `EventOutbox_proofs` | the refinement, lease exclusion, bounded redelivery |
| `ScanQueue` | scans table, scan worker replicas with slots, create/collect/delete handlers |
| `ScanQueue_proofs` | one runner, healthy claims, final outcomes, bounded queue |
| `ScanRun` | one run of a scan: probe goroutines, shared counters, progress row; a collector's run |
| `ScanRun_proofs` | truthful counters, conserved slots |
| `CertificateInventory` | certificates and issuers tables and all who write them: upserts, revocation checks, reconcile, catalog and CA import, deletion |
| `CertificateInventory_proofs` | kept revocations, complete passes, true imports |
| `CompliancePacks` | the compliance rules, severities, scores and status computation as operators |
| `PostureFindings` | findings, waivers and risk scores under concurrent recomputes, over `CompliancePacks` |
| `PostureFindings_proofs` | what the rules return; scores and findings that follow rules and waivers |
| `Connections` | stored settings, their merging and sealing, requests that write them |
| `Connections_proofs` | writes kept, truthful flag |
| `MC...` | constants, symmetry and the guards that keep an instance small, for TLC, one per specification |

### Conventions

One action is one SQL statement, one transaction, or one call to another system.
What a process read earlier lives in its own state (`wk`, `disp`, `run`,
`requests`), so it acts on what it read and not on the present row. A fault is a
crash, a lost answer, a refused post or a failed statement; `MaxFaults` bounds
their number, and their place is free. Errors the code ignores or only logs are
the second disjunct of `Stmt`.

Times are relative to the present and `Elapse` moves them, so that no clock
grows. History variables record what excuses a property: `lapsed` (a lease or
claim ended under its holder), `hurt` (a fault hit the row), `proven` (a successor was seen).
They are written and never read by the actions.

### LifecycleJobs

`jobs` is the table by idempotency key. A tick of a worker is `StartTick` (the
sweep, which ignores leases), `ClaimLifecycleJobs`, `ReadClaimed` per row, one
of the `process` cases per row, then the same with `ClaimDueVerifyJobs` and the
`now` of the tick. A launch is `LaunchRenewal`, `RecordLaunch`, `EmitEvents`,
`UnlockLaunched`: four steps a crash may separate. `WaitForJob` is `StartWait`
and one of `WaitSuccessful`, `WaitFailed`, `WaitGivesUp`. The interactive
handlers launch first and persist after, as the code does; the claim callback
reads (`ClaimByIdempotency`) and writes (`AttachClaim`). Init also has rows of an
earlier release ("Legacy M2 path"), which no current code writes. The restart
recovery branch of `launch` (a launching row with an AAP id) has no action: the id
and the status are written together, so no row is ever in that state.

A step that commits an outcome leaves its events in `wk[w].out`, and `EmitEvents`
appends them in transactions of their own: all of them, or some when a fault or a
crash comes between; the foreign key of `events` refuses them when the certificate was
deleted. Two pairs of statements are one action each. The lookup of an open migration
and its launch (`MigrateCertificate`): two requests that both look before either launches
launch twice in the code, which `renew_second_launch` shows for the renew handler. The
SELECT of the successor and the UPDATE of the job it decides (`ProbeVerifies`,
`ProbeMisses`): a successor that appears in between is found by the next probe.

Left out: the write-only tables (timeline, approvals, audit); `lease_owner`,
which is never read; eligibility and parameter checks; the batch limit (at least
the number of rows); the page limit of the successor query; the missing
renewal-config branch of `launch`, unreachable because the config is written
with the row and never cleared. Each key has its own predecessor and inventory.

### EventOutbox

`present`, `delivered`, `attempts` and `lease` are columns of `events`. A
dispatcher claims a batch, takes its events in order and posts each to EDA and
then ITSM. A post may be refused, or accepted with the answer lost. Refinement
mapping: an event is absent, pending, delivered or dead by its columns, and a
sink has it when its receipt count is positive.

### ScanQueue

`scans` is the table, `poll` the claimed batch of a worker between its claim
transaction and the start of the runs, `run` the slots. The heartbeat of a run
is due every `Interval` (half the lease, at least `Second`) and time does not
pass over a due heartbeat of a live run: a stalled heartbeat is a fault, which
puts the scan in `lapsed`. A scan is also `lapsed` when a batch starts so late,
or a cancelled run ends so late, that the claim may go stale first. The capped
insert is two steps, because the count of one statement does not see the
uncommitted insert of another. Collector requests insert past the cap and go
through running and completed on their own.

`HeartbeatInTime` says that the interval is not longer than the lease. It holds for
every lease of a second or more; the configuration also takes shorter ones.

Left out: counters and progress (`ScanRun`), posture recompute and reconcile after
a run (`PostureFindings`, `CertificateInventory`), and the expansion of targets, which is pure and merged with the
statement that follows it. Scans are ordered by id.

### ScanRun

`run` and `row` are the run and its row, `stats` is `ScanStats`, `probe` the
goroutine of each target with the counters it read, `slots` the semaphore. Every
critical section of the mutex is a step of its own, and `UpdateScanProgress` is a
later step: two updates may reach the row in either order. A collector request takes
its items in sequence, on the same row and counters; a private key among them ends
it with `FailScan`. The scan may be deleted at any moment, after which upserts fail on
the foreign key. A run of a reclaimed scan finds the progress of the earlier run in its row
(`UpdateScanRunning` does not reset it) and `own` tells whose numbers the row shows. A
cancelled context has no action of its own: it shows as failing probes, upserts and
updates, which may happen anyway. Left out: the dial and the parse (an outcome), the text of the
failure samples (their number is kept, for the cap).

### CertificateInventory

`cert` is the certificates table by fingerprint; a deleted and rediscovered
certificate has a new `id` (`born` counts them), so a process that kept an id is told
from one that finds the row by fingerprint, as in the code. `up` holds the upserts of
probes and collector items: lookup, `INSERT ... ON CONFLICT`, observation, events,
staple, issuer, each a statement that may fail. `check`, `rec`, `catalog` and
`import` are the revocation check, the reconcile pass, the catalog import and the CA
import. `revoked`, `pki` and `vaultCA` are the outside world: what CAs have revoked,
what the mounts of Vault hold, whether Vault has the CA. `issuer` has two CAs that the
name in the leaf's issuer DN fits: the one that signed it (`in`) and another one
(`other`, as after a key rollover); `GetIssuerPEMForCert` may pick either when both are
stored. A responder's answer is any result `CheckOCSP` or `CheckCRL` may return. What the
leaf's own CA signed is true, though possibly out of date; what the other CA signed is
about its own certificate with that serial, since neither check binds the leaf to the
issuer; an unverified CRL may say anything. The staple check does bind it. The history
records which revocations were verified, and which rows a mount of Vault called revoked
(`vaultSaid`). Left out: listings, enrichment (in `PostureFindings`), the content of a
certificate, the fetch guards.

Two rules of the code that the properties depend on: an upsert leaves the status of a
row with a revocation marker alone, and a reconcile pass clears only its own marker.
A row that carries Vault's marker beside a verified revocation can lose both when
another mount holds the certificate unrevoked (`VerifiedRevocationSticks` excludes
these rows by `vaultSaid`), and keeps the status revoked until the next upsert.

### CompliancePacks and PostureFindings

The rules are operators on a record of what they look at, with hours and policy years
instead of dates, so that every boundary (14, 60 and 30 days, the validity ceilings
by year, key sizes) is kept. A recompute is `ReadCert` (the row and the rules),
`ReadWaiver` per rule, the transaction (`UpsertFinding` per finding,
`StartResolve`, `ResolveFinding` per row, `Commit`), `ListOpenFindings`,
`UpdateCertificateRisk`. The row locks of the transaction are modelled: upserts lock
in the order of the rules, the resolving UPDATE in any order, so that two recomputes
of one certificate which read it at different times can wait for each other;
`DeadlockVictim` is PostgreSQL's abort. `fresh` is history: the last recompute that
wrote the score read inputs that have not changed since, and no recompute with older
inputs has written after it. Nothing in the code recomputes when a waiver expires or
the inventory writes the row; the findings are then out of date until the next scan
or request, and the properties say nothing of that time.

### Connections

`row` has the metadata and the sealed secrets of a target with the key they were
sealed with (`enc`), `req` the requests in flight. A PUT or PATCH takes its targets in
order; for each it reads the row, prepares it (`Prepared`: carry the ciphertext over
unopened, or open, merge and seal again) and writes it whole. A PATCH merges metadata
with rows it loaded once at the start. `want` is the same sequence of writes applied
in one step each, and `mixed` the targets that two requests wrote over each other:
the code has no version check, so there an update can be lost. Metadata has two kinds of fields: those stored as
given, and those that take a default when they would be empty. Left out: resolution
over the environment, a pure function that only the GET, the connection tests and the
option lists call; and the permission matrix, since a request that `roleAllows` refuses
(at the router, or again in the handler) changes nothing.

## Runs

| Run | Shows | Bounds |
|---|---|---|
| `lifecycle_safety` | exclusive leases, one launch by workers, verified only with a successor, probes scheduled before the deadline, outcomes final | two workers, leases shorter than a batch, no faults, one row at a time (`OneRowTwoWorkers`): a renew row with two launches, or a migrate row with claim callbacks |
| `lifecycle_close` | probes stay scheduled through faults, every job in flight closes | one worker, a renew or a migrate row (`OneRow`), all routes, deletion, one launch, one fault |
| `outbox_delivery` | refinement of the promise, exclusion, bounded redelivery, every event settles | two events in one batch, two dispatchers, two sinks, two attempts, two faults |
| `scan_queue` | one runner, healthy claims kept, the queue over its cap by less than the number of concurrent requests, outcomes final, every scan ends | two scans and a third that tries the cap (`LastFillsQueue`), two requests at a time, a cap of one, two workers with a slot each, one fault |
| `inventory` | verified revocations kept, complete passes, imports that Vault has | one certificate with two rows in turn, two writers, two mounts, two requests, outside events or faults; a namesake of the CA (`NamesakeApart`) |
| `scan_runs` | truthful counters, slots conserved, every run ends | three targets, two slots, an update every two targets, two samples, one failed statement |
| `posture` | score and findings match rules and waivers, expiry reported once, recomputes end | one certificate of two shapes at the boundaries of the rules, two recomputes, one waiver, two changes or faults |
| `connections` | stored settings are what was written, flag and ciphertext agree | two targets, one secret, two requests, two keys or none, three requests, restarts or faults |
| `renew_second_launch`, `outbox_double_delivery`, `outcome_event_lost`, `revoked_by_namesake` | the code does not do what a comment or document says | the smallest instance that reaches it |

The last four are expected to be violated; `findings` in `PROJECT.json` quotes
the sentence each one contradicts:

- `renew_second_launch`: an idempotency key prevents a second AAP launch. The handler
  launches before it writes the key.
- `outbox_double_delivery`: two dispatchers cannot deliver the same event. A slow batch
  outlives its lease.
- `outcome_event_lost`: events are written in the transaction of the change they report,
  "so a committed change can never lose its event" (migration 000006, ADR 0001). The
  worker and the sweep append in a transaction of their own, after the change, and a
  crash or failed statement in between loses the event for good.
- `revoked_by_namesake`: a verified "revoked" is authoritative. The issuer it is verified
  against is picked by name (`store.go:834`), and need not be the one that signed the leaf.

The lost event needs one fault; the others need none, but an order of two actors, or a
state of the tables, that no test of the repository sets up.

Further differences between comments or documents and the code were met while modelling.
They are part of the behaviour of the models, and the properties that hold say where they
exclude them:

- `worker.go:165`: a job whose AAP id is set is never launched a second time. It tests the
  snapshot read after the claim (the launch is at `:211`), so a worker whose lease ended
  in mid-batch launches a row that another one has launched since (`LaunchedOnce`
  excludes lapsed leases).
- `lifecycle_jobs.go:755`: a claim callback with a different AAP id is refused. Two
  callbacks that both read the row before either writes are both accepted, and the
  later id stays.
- `docs/data-model.md:168`, "Transactional outbox": `UpsertCertificate` inserts the row, the
  observation and the events in separate statements (`store.go:513-590`). When one after
  the first fails the row stays, the next scan finds it, and `cert.discovered` is never
  written (`Lookup`, `Insert`, `EmitEvents`). Of the writers of the inventory only
  `MarkRevoked` writes its event in its own transaction.
- `docs/data-model.md:174`: `cert.revoked` is emitted on a Vault reconcile. The reconcile
  pass marks the row and emits nothing (`ReconcileUpdate`).
- `handlers_collect.go:21`: a collector "completes the scan synchronously". Between its
  insert and its end the row can be claimed by a worker (`store.go:291-302`), which
  finds no targets and fails it, also after the collector completed it; `OneRunner` and
  `OutcomeFinal` speak of network scans.
- `scan_worker.go:133`: a healthy worker is never stolen. The heartbeat interval is at
  least a second, and the configuration takes a shorter `SCAN_LEASE_TTL`; the claim is
  then stale before its first heartbeat. The theorems assume `HeartbeatInTime`.
- `handlers_settings.go:173`: a secret left out of a request keeps its stored value. A
  request writes back the ciphertext it read, over a secret stored since by another
  request; `LastWriteKept` excludes such targets (`mixed`).

Why the bounds are enough to be interesting: the hazards need two holders of one
row, one lease that ends under a holder, and one fault; two workers (or dispatchers) and leases of
one unit give every order of the first two, one or two faults every place of the third; on a
lifecycle row faults are tried with one worker, and for two workers the proofs stand in. A second lifecycle row
would only add interleavings of rows that share no state but the worker's batch. In the
inventory, two writers beside the requests give every pair of orders on one row, and
`MaxRows = 2` lets a row be deleted and inserted again under all of them; a second
certificate shares nothing but the issuers. Three targets on two slots make a goroutine
wait and two updates overtake each other. In `posture` a finding may be new, kept or
resolved for each of two recomputes, which is what a lock cycle takes; the shapes lie
an hour or a day beside a limit, so that time passing crosses it. The bound on the queue
is about requests that count before either inserts, so `scan_queue` has two of them and room
for a third scan. Four instances are kept small by a state constraint of their
MC module: `OneRow` and `OneRowTwoWorkers` let one lifecycle row be used at a
time, the second with one launch where there are EDA callbacks and with a successor that
stays once found (that it may go is in `lifecycle_close`); `LastFillsQueue` lets the third scan be
counted, inserted and deleted only while no worker holds a scan and nothing has failed;
`NamesakeApart` has a second CA of the issuer's name only where Vault holds no certificate
and no pass or CA import begins. A constraint only removes behaviours, so what is found is a
behaviour of the specification, and the liveness of the other scans is checked in full. Not
reached by TLC are batches: two lifecycle rows in one, and two scans, which take a worker with two
free slots. Exclusion, launches, outcomes and probes are proved for batches of any size;
that every scan of a batch ends is not.
Every mutant in `PROJECT.json` (a dropped guard, a forgotten status, a cap off by
one, a missing reset) is caught under the same bounds. Longer leases and more of
everything are covered by the proofs.

## Fairness

Workers and dispatchers run on tickers until the process ends, so their steps are
weakly fair; time passes; AAP jobs end (the controller has job timeouts). Scan
runs go on because every probe has a timeout (`WF` on `RunStep`), heartbeats because
they have a goroutine of their own. A recompute is strongly fair: it is disabled while
it waits for a row lock, but PostgreSQL queues the waiters of a row and aborts one
transaction of a cycle, so it is not passed over for ever. Clients, collectors, deletions, callbacks and faults owe
nothing. Per-worker fairness stands for a deployment that restarts a dead
process: `Crash` returns the worker to its idle state.

`EveryScanEnds` is conditional: once a holder was late, two runs may reopen and
complete a scan in turn for ever (`UpdateScanRunning` and `CompleteScan` do not look
at the claim), and the scans behind it wait.

## Proofs

For every value of the constants that satisfies the `ASSUME`s, in particular any
number of rows, workers, slots and faults (and any lease length, but for the scan queue,
below):

- **LifecycleJobs**: `TypeCorrect`, `VerifiedMeansSuccessor`, `ProbesScheduled`.
  The inductive invariant adds to these that a worker in a call has one (`CallSet`) and that an unwritten `renewal.verified` event
  already has its successor (`Proven`): a worker decides on an outcome in one step
  and writes its event in a later one, so the state between them must carry the
  reason. Lemma `NextVerifyAhead` shows that the branch of `verifyPending` for a
  last attempt already over is never taken.
- **EventOutbox**: `TypeCorrect`, `OutboxKeepsPromise`, `DispatchersExclusive`,
  `CapBoundsRedelivery`. The refinement needs that a dispatcher about to record a
  delivery has all receipts; the cap needs that receipts never outrun counted
  attempts plus the one in progress.
- **ScanQueue**: `TypeCorrect`, `OneRunnerAlways`, `HealthyNeverStolen`,
  `OutcomesFinal`, `QueueAlwaysBounded`. The three in the middle are proved from
  `HeartbeatInTime`, that is for every lease no shorter than the heartbeat interval; below
  it they are false. The invariant says where a network scan that
  nobody let lapse may be: in one place (`OnePlace`), under a claim of its holder
  whose age leaves room for the next heartbeat (`FreshPoll`, `FreshRun`,
  `FreshRelease`), while requests keep to rows of their own (`OwnRows`). The age bound
  `LeaseTTL - Interval + beat` is what makes it inductive: a claim that is only
  "not stale" can become stale before the next beat. Lemma `Keep` covers all steps
  by which nobody gets hold of a scan. The queue bound counts the pending network
  scans together with the requests that have already counted.

- **ScanRun**: `TypeCorrect`, `CountersAlwaysTruthful`, `SlotsAlwaysConserved`, for
  any number of targets and slots. While goroutines are under way the counters agree
  with nothing; what every step keeps is each counter plus the number of goroutines
  that still have to count (`Sums`), so the counts come out right when the last one is
  done. Also needed: a run that has ended has nobody at work (`Quiet`), a collector has
  one item in hand (`Alone`), and what a goroutine has read was true earlier
  (`Behind`), which is why no update shows more than was done (`Shows`).
- **Connections**: `TypeCorrect`, `FlagTruthful`, `WritesKept`,
  from `ConnectionsShapes` (the targets of a request are different ones; requests are
  well formed). A request reads, prepares and writes in separate
  steps, so the invariant carries what the writes still to come rest on: what a PATCH
  loaded is still the wanted metadata of the targets nobody wrote meanwhile
  (`Loaded`), and a prepared row is the wanted one with the request applied
  (`Ready`).

- **LifecycleJobs, leases** (`LifecycleLeases_proofs`): `LeasesExclude`,
  `WorkersLaunchOnce`, `OutcomesFinal`. A row that no lease lapsed on and that a worker
  holds, in its batch or in hand, is leased, still open and in one place of one worker;
  a lease that has not ended is what keeps the claim queries away from it. Once a worker
  has launched the row on AAP, no snapshot another step may act on says that it has still
  to be launched, and only the worker that records the launch finds the row launching.
  `CallAssumption` (a call is not `NULL`) holds of the model values.
- **CertificateInventory**: `TypeCorrect`, `RevocationsStick`, `OkPassesComplete`,
  `ImportsInVault`, for any number of certificates, writers, mounts and rows. The invariant
  has one part per piece of state. Row numbers are counted by `born`, so a statement that
  names a row by its id never meets a later row of the same certificate (`TabP`), and a
  verified revocation is of a row that has been inserted (`Sticks`). Vault has the CA once an
  import is about to be recorded (`IssP`). What a pass that is still clean owes is among its
  remaining mounts, the serials listed, or the certificate in hand (`Owing`).
- **PostureFindings**: `TypeCorrect`, `ScoresFollow`, `FindingsFollow`,
  `ExpiryOnceOpen`, for any number of certificates, recomputes and waivers, any
  certificates and any configured number of days. First lemmas on the rules: what
  `EvaluateCertAll` returns has one finding per rule (`EvalOK`) and, when the stored status
  knows of an expiry, exactly one above info about it (`ExpiryOnce`). Then, of a recompute
  whose inputs nobody changed (`Clean`): what it has read is so (`Reads`), every open row
  it does not write is locked or will be (`Resolves`), and after its commit the open rows
  are exactly the verdict of rules and waivers (`Writes`). Two clean recomputes of one
  certificate have read the same, so the second commit changes nothing the first one's
  score rests on; one that is not clean tells all others, and none of them counts.
  `FreshP` carries that over to the state in which they have ended. Needed of the
  constants: `NULL` is neither a certificate nor a rule.

The inductive invariants of the last three were also checked with TLC on the instances of
their runs.

Only model-checked: liveness (`EveryJobCloses`, `EveryEventSettles`, `EveryScanEnds`,
`EveryRunEnds`, `RecomputesEnd`), which is out of the prover's reach. Every safety
property of a passing run has its theorem.

## Not modelled

Pure I/O and formatting: TLS probing and X.509 parsing, target expansion, reports,
renewal kit scripts, the HTTP clients beyond the outcomes of their calls, logging,
wiring, the dashboard; the permission matrix and the resolution of settings, which are pure
functions. Write-only tables (audit, timelines) and read-only listings:
nothing depends on them. The page limit of the successor query (`worker.go:351`): a
name with more than fifty certificates is beyond an instance TLC can enumerate.
`PROJECT.json` gives the reason for each component.

## Plan

1. Done: `LifecycleJobs`, `EventOutbox` with `OutboxPromise`, `ScanQueue`, `ScanRun`,
   `Connections`, `CertificateInventory`, `CompliancePacks`, `PostureFindings`, their runs
   and the proofs of all their safety properties.
2. An abstract specification of the inventory (one row per fingerprint whose verified
   revocation only moves forward) and its refinement, from the invariant of
   `CertificateInventory_proofs`.
3. Lemmas about `CompliancePacks` on their own: severities and scores of every
   certificate the rules can meet, monotone in what is wrong with it.
