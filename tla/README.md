# Verification of power-iot-system

TLA+ models of the power-iot-system backend, the TLC runs that check them on
small instances, and TLAPS proofs of the properties that matter most. The
repository is the reference: every definition is translated from the code that
`PROJECT.json` names for it under `map`.

## 1. The system

power-iot-system collects the readings of power meters ("devices") that are
placed at "measurement points" of shops, and lets administrators of a tenant
("client") move devices around. It consists of a Go backend on
PostgreSQL/TimescaleDB, an MQTT broker, a Flutter app, a device simulator, and
tooling for protected migrations and a deployment cutover.

| Component | State | Operations | Hard behaviour |
|---|---|---|---|
| Admin Binding (`application/adminbinding`, `adapters/persistence/admin_binding.go`, `adapters/http/admin_binding.go`) | `device_assignments`, `measurement_points`, idempotency ledger, audits | create point, bind, replace, relocate, unbind | concurrent transactions, lock order, deadlock and retry, idempotent repetition, transition times |
| Device lifecycle (`application/devicelifecycle`) | `devices.lifecycle_status`, the same ledger | disable, enable, retire | races with Admin Binding and with telemetry |
| Telemetry ingest (`core/iot/telemetry_ingest.go`) | ingest keys, readings, presence, curfew states, alerts | ingest v1, coverage and legacy messages, status | redelivery, reordering, lost acknowledgements, races with moves |
| Alert settings (`adapters/persistence/measurement_point_alerts.go`) | settings, curfew states | set | races with ingest |
| MQTT service (`core/iot/mqtt_service.go`) | bounded queue, connection and gate flags | receive, work, connect, stop | queue overflow, drain, reconnection |
| Refresh sessions (`adapters/persistence/auth.go`, `application/auth`) | session and token families | login, refresh, logout | rotation races, replay detection, clock sampled before a lock |
| Writer fence, migrations (`data/migrations`, `data/private_migrations`) | advisory locks, versions, leases, journals | migrate, bootstrap, recover | crash between steps, writers under way |
| Reconciliation (`data/reconciliation`) | D4 ledger, mapping artefacts | reconcile, apply, recover | crash recovery, partial application |
| Deployment control plane (`power-iot-a3-deployment-control-plane`) | authorizations, their ledger | issue, consume, revoke | a grant that is consumed once |
| Deployment (`deployment`, `runtimegate`, `cmd/d6-*`) | phases, write gate | drain, cut over | order of phases, abort |
| Coverage and billing (`core/coverage`, `core/billing*`, `adapters/persistence/billing_*`) | readings, tariff and plan assignments of a shop | evaluate, show, bill, change tariff and plan | late rows, interval and tier boundaries, plan changes around the end of a month |
| Read APIs, HTTP | none | queries | none of their own |
| Mobile app, simulator | token store, caches, offline queue | refresh, publish | single flight, resend until acknowledged |

The components meet in the database. Every writer of placement and of refresh
sessions runs one PostgreSQL transaction at READ COMMITTED, so a statement sees what is committed
when it starts and everything that must stay true until COMMIT has to be
protected by a row lock, a unique index or an exclusion constraint. Which of
them protects what, and whether that is enough, is the first subject of this
project. The second is what is left when a client and its server session
disagree: an operator, a runner or a service loses its connection while the
server still holds its lock or decides its commit, and has to report something
that is true. Migrations, the control plane, the D1-L ledger and the D4 ledger
are made of such moments.

What makes the components correct, in short: a device is at one point at a time
and a point has one device; history is never rewritten; a device out of service
is neither placed nor heard; a repeated request or message has the effect of
one; what is acknowledged is stored; authority holds until the commit; a login
has one token that can be exchanged, and a replayed token or a logout ends it;
no writer sees a schema change; a report, a lease or a terminal record is true
whatever was lost; a value a device discards is recorded; dashboard, coverage
and bill agree; every request, message and call comes to an end. The complete list of hazards, each at its
line, is `hazards` in `PROJECT.json`.

## 2. The modules

| Module | Models |
|---|---|
| `PlacementStore` | the committed rows, the clock and the row locks (FOR UPDATE, FOR SHARE) |
| `AdminOperations` | administrative requests, one transaction each: five binding and three lifecycle commands |
| `TelemetryIngest` | what an MQTT worker does in the database: telemetry, status, presence, alerts, acknowledgements |
| `PlacementSystem` | the composition over one store, its fairness, and its properties |
| `PlacementRegistry` | abstract: a registry of placements with atomic operations |
| `RefreshSessions` | login, refresh and logout on session and token rows |
| `SessionFamilies` | abstract: token families that are opened, exchanged and ended |
| `WriterFence` | the advisory lock that business writers share and operators take exclusively, with its queue, handles and backends |
| `SchemaMigrations` | extends the fence: public, protected and B-02 migrations, downgrade, recovery, follow-ups and the admission of a server |
| `MqttIngress` | the MQTT service: connection, subscriptions, gate, bounded queue, workers, stop and start |
| `DeviceDelivery` | extends it with one simulated device: offline queue, attempts, ACKs, Paho clients, shutdown |
| `AuthorityLedger` | the authority of the deployment control plane: epochs, Issue, Consume, Resolve, Expire, Revoke |
| `CatalogInstall` | extends it with controller, runner and target: the installation of the control schema |
| `ControlCatalog` | the recognizer of the control schema, against edits by hand |
| `D1LLease` | the D1-L ledger: provenance, leases and boundaries |
| `ProtectedExecutor` | one protected execution: fence, plan, lease, compare-and-swap, verification, capabilities |
| `D4Ledger` | extends it with the D4 record, its journal, the calls of the service and its recovery |
| `EnergyCoverage` | readings of a point around a replacement and the coverage evaluation, with a reference definition |
| `EnergyReaders` | extends it with the energy of the dashboard and of the bill |
| `BillingPlans` | tariff and plan assignments of a shop, the estimate and the configuration page |
| `BillingCharge` | the progressive charge |
| `MCPlacement`, `MCTelemetry`, `MCSessions`, `MCSchema`, `MCDelivery`, `MCProvider`, `MCLedgers`, `MCEnergy`, `MCProgress` | the small instances |
| `PlacementProofs` | theorems about `PlacementSystem`: types, no overlap, lifecycle, the refinement of `PlacementRegistry`, the ledger of keys, the audit, the authority of a request; readings, identities, acknowledgements and alerts; deadlocks |
| `SessionProofs` | theorems about `RefreshSessions` |
| `MigrationProofs` | theorems about `SchemaMigrations` and `WriterFence` |
| `DeliveryProofs` | theorems about `MqttIngress` and `DeviceDelivery` |
| `AuthorityProofs` | theorems about `AuthorityLedger`, `CatalogInstall` and `ControlCatalog` |
| `LeaseProofs` | theorems about `D1LLease`, `D4Ledger` and `ProtectedExecutor` |
| `EnergyProofs` | theorems about `EnergyCoverage` and `EnergyReaders`, and the lemmas about loops and sorting |
| `BillingProofs` | extends it: theorems about `BillingPlans` and `BillingCharge` |

The components that share state are composed: administration with telemetry
(`PlacementSystem`), migrations with the fence, the device with the service, the
runner with the authority, the D4 record with its executor. Components that only
share the database server are checked side by side.

### PlacementStore

`assign` is `device_assignments`, a function from row ids to device, point,
`valid_from` and `valid_to` (`NULL` while current). `lifecycle`, `shopOf`,
`settings` and `readings` are the other tables. `xlock` and `slock` say who
holds a row FOR UPDATE and FOR SHARE; a transaction may upgrade, and COMMIT and
ROLLBACK release everything. Rows that a transaction has written and not yet
committed are seen by nobody else, so a request keeps them to itself and
installs them in its `Commit` step.

### AdminOperations

A request goes through the phases

    new -> admit -> resolve -> claim -> lock -> applied -> done

- `Submit` is the HTTP handler: it resolves the targets and derives the scope of
  the actor (`actorFor`, `lifecycleShopID`).
- `Acquire` and `Deny` lock one row at a time. In `admit` these are the session
  FOR UPDATE, the grants FOR SHARE and, for a binding command, its devices FOR
  SHARE (`revalidateAdminSession`, `revalidateAdminActor`, `authorizeActorTx`);
  in `lock`, devices and then points FOR UPDATE, by id.
- `Load` looks the ledger up; `Resolve` plans for the first time; `Claim`
  inserts the ledger row, waiting for an uncommitted one with the same key, and
  plans again.
- `Apply` plans once more under the locks, samples the clock, checks the
  committed telemetry and writes. `Commit` meets the exclusion constraints and
  publishes rows, audit, ledger and answer.
- `Abort` is a failure at any point; `DeadlockVictim` is 40P01 with the bounded
  retry of `run`; `RevokeSession`, `ExpireSession` and `RevokeScope` change the
  authority under the request.

### TelemetryIngest

A worker goes `idle -> queued -> locked -> acking -> idle`. The receive time is
sampled on delivery; the device row is locked before anything is read;
`Duplicate`, `UnknownAssignment`, `Store`, `LifecycleBlocked` and
`IntervalRefused` are the outcomes of `IngestContext`; `StoreLegacy` and
`ProcessStatus` the paths without an identity; `Publish` sends the application
acknowledgement and `WorkerFails` loses it, or the whole transaction. `Receive`
may deliver any message at any time and any number of times.

### RefreshSessions

`session` and `token` are the committed rows of `refresh_sessions` and
`refresh_tokens`; `holder` says which call holds a session row FOR UPDATE. A call
makes one HTTP request and goes through

    idle -> [identified ->] asked -> locked -> decided -> done

- `Login` checks the credentials and prepares both rows, which nobody else can
  see before they are committed. `Refresh` looks a digest up and only learns
  which rows to lock; any token ever issued may be presented, by any call.
- `AuthenticateAccessToken` and `Logout` are the middleware and the handler of
  the logout route: two transactions, with the time of the revocation sampled at
  the start of the second, before the session row is locked.
- `LockRefreshSession` waits for the session row. `Decide` is everything
  between the lock and COMMIT: `RotateRefreshToken` with its fresh decision time
  (replay, unusable, limited, rotated) or `RevokeSessionFamily`.
- `WithTransaction` commits the rows: denials commit, with the revocation of a
  replay, and a refused revocation is rolled back. `Fail` is any other error.

`SessionFamilies` forgets transactions, locks and times: `status` is absent,
live or revoked, `current` the one token that can be exchanged.

### WriterFence and SchemaMigrations

`queue`, `shared` and `owner` are PostgreSQL's lock manager for one advisory
lock: requests are granted in order, so a waiting operator holds later writers
back. `fstate`, `pid` and `conn` are what an operator's handle believes
(`ExclusiveWriterFence`), `alive` which backends the server still runs; they may
disagree after a lost answer, and `discardUnknown` asks `pg_stat_activity` from
a second session before it calls a fence released. `db` is the metadata row of
golang-migrate and the set of bodies in the catalog; `db.found` are the bodies a
database without metadata had to begin with, since the gate lets `up` adopt a
recognized catalog of V1 to V4 (`migration_gate.go:230`) and apply the bodies
again from the first on: 1 to 3 can be repeated, 4 and 5 fail where their objects
exist (`Repeatable`). `pending` is a commit the server has received and not
decided. An operator's step is one transaction or
one call; `Crash` ends the process after any of them. The commands are `up`,
`down`, `d5` (the protected V5 to V6 migration), `restore5`, `complete6`, `b02`
with its five follow-ups, and `admit`, the start of a server.

### MqttIngress and DeviceDelivery

`Connect`, `OnConnect`, `SubscribeTopic` and `SetSubscriptionsReady` are the
connection callback, one step per access to the guarded flags; `Route`, `Admit`,
`Offer`, `Take`, `Process` and `Done` take a message from the broker through the
bounded queue to the database; `StopIngestion`, `Disconnect`, `Drained` and
`DrainIncomplete` are the drain, `Start` its end. What `Process` does to the
database is reduced to its answer; `TelemetryIngest` has the rest.

The device publishes one value at a time: `Enqueue`, `RegisterAck`,
`AdmitPublish`, `SendTelemetry`, `TokenDone`, `ReleaseAttempt`, `AwaitAck`, with
`Snapshot` and `ReplayNext` for values that wait. Its Paho clients call back at
any point (`BeginRestoration` to `CommitReady`, `OnClientLost`, `OnMessage`,
`ResolveAck`), and `Interrupt`, `BeginShutdown` and `PublishOffline` end it. The
broker keeps the retained status and owes the wills.

### AuthorityLedger, CatalogInstall and ControlCatalog

Authority processes compete for an advisory lock and each opens a new epoch,
poisoning what the old one left. Issue, Inspect, Consume (three transactions),
Resolve, Expire and Revoke are transactions on the session that holds the lock;
a transaction may commit, roll back, or commit and lose its session. The
controller issues an authorization and launches a runner; the runner takes the
target's fence and migration lock, recognizes the catalog, consumes once,
installs in one transaction, upgrades, and writes one frame. `tx` is the
transaction the server still works on after COMMIT was lost.

`ControlCatalog` gives the catalog as a set of entries and the recognizer as the
queries of the code, each with the entries it can see, in the order of the code
(`Recognize`, `OfRow`); `EditByHand` adds, drops or alters entries, manifest rows
or the application's relations.

### D1LLease, ProtectedExecutor and D4Ledger

A D1-L call takes its row lock, reads the clock of the database and commits in
three steps; `CallFails` ends it at any of them with the commit applied or not.
`told` records what callers were promised.

`ProtectedExecutor` follows one execution from the fence through the plan, the
lease, each compare-and-swap item, the disabled and restored trigger, COMMIT,
the second transaction and the exchange of the readiness capability. `D4Ledger`
adds the row and the journal; `Process`, `ResumeMapping`, `FinalizePreClaim`,
the startup classification, `Resolve` and the hand-off of bundles are sequences
of compare-and-swap transitions (`CasHolds`), and a crash can end a call between
any two of them.

### EnergyCoverage, EnergyReaders, BillingPlans and BillingCharge

Rows arrive in any order; a conflict, an unbind, a replacement and a bind may
happen at any time. `LoadEvidence` and `Evaluate` are the query and the scan of
the code; the reference (`Proves`) says what a proven prefix is without sorting
or scanning. `EnergyReaders` adds the candidates of the dashboard and the
observed and expected time of the bill. In `BillingPlans` a request reads clock
and tariff, then waits for the row of the shop; what it does under the lock is
one step. `BillingCharge` lets the usage of a month grow by single kWh.

### Abstractions

- The user, shop and relation rows that admission shares are one `scope` row per
  user; they are locked together and always in the same mode.
- Assignment rows are locked after their device, so the device lock covers them.
- The lifecycle commands lock user and session in the other order than the
  binding commands, on rows that nobody upgrades; the model uses one order.
- The point, settings and curfew rows that ingest locks last are taken in the
  committing step, which waits until the point row is free.
- Requests that fail in the HTTP handler before any transaction, and messages
  that do not decode, change no state and are left out.
- Names, reasons, hashes and measured values are abstracted to what the
  commands compare; `Hash` keeps the fields of the canonical request that
  identify its target. Power is "above the threshold" or not.
- Legacy readings are a set: identical deliveries collapse.
- The token rows that a rotation or revocation locks are always locked after
  their session, so the session lock alone orders the calls of a family.
- A call is also the id of the family and of the token it inserts: uuids and
  random tokens are fresh.
- The limiter is a free choice between acceptance and denial, where its answer
  is used. Application and database share one clock. Signing keys are fixed.
- A lost answer needs no action: the client may present any token at any time.
- The session locks of administrative requests only delay the calls of
  `RefreshSessions`, and `AdminOperations` has its own view of a session (live,
  expired, revoked); the two are not composed.
- The writer fence that every business transaction takes in shared mode is in
  `SchemaMigrations`, where a writer is one step long between taking and leaving
  it; in placement and sessions it is left out, as it only delays them.
- Follow-up migrations and bodies are numbers; a body is in the catalog or not.
  golang-migrate is modelled as the code drives it. Bodies 2 and 3 add no table,
  so the gate sees V1 where only they are missing, and dropping the tables of
  body 1 takes what they did with it (`Dropped`).
- `WriterFence`: a connection is lost when the model says the client notices; that
  the server ends the session of a handle that still says OWNED is not modelled.
  `RequireProtectedWork` would not notice it (it looks at memory only), the next
  statement on that session would fail.
- `ControlCatalog`: one entry stands for each kind of catalog object the queries
  distinguish. Kinds outside the inventory of the queries (operators, statistics,
  grants) and the serializer of expressions, `d1l_pgexpr.go`, are outside the
  model. Running the bootstrap again on an upgraded target reports UNKNOWN.
- `D4Ledger`: one owner tuple; the owner who resolves a record is external,
  truthful, and answers when no executor runs for it; the journal is in the order
  of commits, not of the clocks of the processes; bundles offered before a
  Process carry the correlations `k1` or `k2`, that of a finished one `own`.
- `D1LLease`: generation, digests and owner of a lease are folded into `bound`.
  `CreateLease` has no caller and no code closes a boundary; neither is modelled.
- `EnergyCoverage`: a row is recorded at the start of its interval and every
  ingest key has a digest. An interval that has not ended at the snapshot ends
  the scan before the overlap check, so the reference is stated for evidence in
  which such an interval overlaps no other (`NoLateOverlap`).
- `EnergyReaders`: one point, the current month, the snapshot as cutoff. Two
  identical intervals of equal energy are one observation for the bill; the
  dashboard drops both.
- `BillingPlans`: a request is shorter than a month, so a stale clock may change
  the plan of the month that has just begun, never of one that is over. The
  authorization of the actor is that of the HTTP layer and is left out. Rate sets
  are fixed; they begin and end on days (`FirstDay`) and those of different
  providers may overlap, since the constraint is per provider and the query reads
  all of them. That a selected set has a rate plan and tiers is the catalog's
  business (`ErrCatalogInvariant`) and not modelled.
- `BillingCharge`: whole kWh; money in hundredths.

## 3. The runs

| Run | Instance | Shows |
|---|---|---|
| `placement` | 2 requests, 2 logins of one administrator, 2 devices, every command on them, 1 withdrawal | `LocksPreventOverlap`, `NoOverlap`, `AssignedDeviceInService`, `LedgerIsFaithful`, `AuthorityHeldUntilCommit`, `HistoryIsAppendOnly`, `CommittedKeyIsNeverRefused`; refinement of `PlacementRegistry` |
| `telemetry` | three scenarios: a replacement with two reporting devices and quiet hours; an unbind with 4 coverage messages of 2 identities; disable or unbind with messages of every kind | `TelemetryIsTrue`, `NothingGoesBack`, `BlockedDeviceIsSilent` |
| `liveness` | 2 requests with crossing commands, 1 worker, 3 devices | `DeadlocksAreUpgrades`; everything submitted or delivered comes to an end |
| `sessions` | 3 calls, families live 2 ticks, clock to 3 | `FamilyIsOneChain`, `FamilyEnds`, `NoRotationAfterExpiry`, `RecordsStand`, refinement of `SessionFamilies`; every accepted call is answered |
| `migrations` | 2 operators on 2 backends, 1 writer, 10 databases from empty to B-02, three of them catalogs without metadata, 7 commands of which 3 run, 1 fault | `FenceIsExclusive`, `SchemaIsWhole`, `ReportsStand`, `NoDowngrade` |
| `delivery` | the service alone with 2 workers, stops and starts; the service and a device with 2 values, 2 clients, 4 modes; a queue of 1, 1 loss | `DeliveryIsSound`, `NothingIsLost`, `EndsAreFinal` |
| `provider` | the authority with 2 processes, 2 epochs, 4 calls, 1 fault; 2 runs on one target; the catalog with 2 edits | `LedgerIsConsistent`, `InstallIsTrue`, `CatalogIsExact`, `NothingReopens` |
| `ledgers` | D1-L: 2 callers, 2 attempts, 3 calls, expiry after 1 tick, 1 fault; D4: 3 calls, 1 database error, 1 foreign write, 1 refusal, 1 crash | `LeaseIsTrue`, `RecordIsTrue`, `NothingIsReplaced` |
| `energy` | 3 rows of 4 producers and 5 ticks with one midnight; plans of 2 tariffs and a tariff without plans over 4 months with 7 requests, rate sets of 2 providers that overlap and begin and end inside months; 19 schedules, usage to 14 kWh | `ReadersAgree`, `PlansAgree`, `ChargeIsMarginal`, `BillsStand` |
| `progress` | smaller instances of migrations, service, device, installation, D4 and D1-L | `CallersReturn`, `WaitsEnd` |
| `logout` | 3 calls, clock to 1 | violated: see findings |
| `delivered` | 1 run of the bootstrap, no faults | violated: see findings |

Several properties are conjunctions of named invariants or step properties, each
with its own comment in its module. `DeliveryIsSound`, for example, joins
`DrainedIsQuiet`, `ReadyIsRestored` and `SuccessIsComplete`.

A run over components that do not interact looks at one of them at a time: its
variable `part` (in `telemetry`, `scenario`) is chosen in the initial state and
the components that are not looked at stand still. The steps of the chosen part
are those of its module; where a part is made smaller than the constants of the
run (fewer workers, one authority process), the MC module says so.

Deadlock checking is off, except in `migrations`, because an instance really
stops when its requests are done and its bounds are reached.

**Bounds.** Two requests are what a race needs: every property about placement
relates two rows or two transactions, and the proofs cover any number.
`MaxTime = 2` gives a past, a present and a transition between them; a row can
start, end and be followed by another. `MaxAttempts = 2` instead of 3 keeps both
outcomes of a retry. `MaxWithdrawn = 1` lets a session or grant go at any
moment. Two workers are what reordering and redelivery need. Three calls of
`sessions` are a login and two racing calls on its family; more are covered by
the proofs, which hold for any number. With a family life of 2 and a clock to 3
a family expires while calls wait for it.

In `migrations` one fault at any step, and the death of an operator, meet two
commands of the other operator afterwards: one that recovers and one that finds
what recovery left. In `delivery` a queue of one is full as soon as both workers
are busy, two values make an order, and one loss at any step is followed by a
reconnection on the second client. In `provider` two epochs give one takeover,
and two runs contend for the target. In `ledgers` three calls of D4 are a
worker, a second delivery and a recovery; a lease of one tick expires under a
waiting caller. In `energy` three rows are a gap, an overlap and a late repair;
four months have a past, a present, a scheduled change and one after it, and
with months of two days there is one with a rate set throughout, one in which it
ends, one with two rate sets and one without any.
Constants are named in each `.cfg`; no definition is replaced.

**Fairness.** `FairSpec` of `PlacementSystem` asks strong fairness of the steps
of each request and each worker. PostgreSQL queues lock requests and grants them
in turn, so a request that is again and again able to take its row takes it, and
its deadlock detector aborts one transaction of every cycle; the Go scheduler
runs every goroutine. `FairSpec` of `RefreshSessions` asks weak fairness of each
accepted call. In `progress`, weak fairness is asked of the grants of the lock
manager, the end of a backend whose client is gone, the end of a business
transaction and each step of a command that has started; of the goroutines,
callbacks and timers of service and device and of the broker's delivery; of
runner, target server and controller (each waits with a timeout); of the calls
of D4 and D1-L and the end of an orphaned session. Nothing is assumed of
clients, of the clock, of failures or of changes of authority.

**Mutants.** Each property has mutants in `PROJECT.json`, and one that joins
several parts has one for nearly every part. A mutant is a faulty variant of one
mapped definition (a lock that is not taken, a comparison that is strict, a
claim that is not rolled back) that stands before the definition in its module
and makes TLC refute the property under the same configuration.

## 4. Findings

- `logout`: the code says that "Logout revokes the family identified by an
  already authenticated identity", but samples the revocation time before it
  waits for the session row. A refresh that commits during the wait issues a
  token later than that time, so the revocation is refused, rolled back and
  answered as an infrastructure error, and the family stays live. The rotation
  samples its time after the locks for just this reason.
- `delivered`: a run that installs and upgrades reports the digest of the next
  installer version (`d1l_bootstrap.go:167`), and the controller accepts only
  that of version 1 (`controller.go:485`), so the frame of every fully successful
  run is refused and the controller answers UNAVAILABLE. The comment of
  `RunResult` says that "delivery never rewrites truth".

Other places where the code and what is said about it disagree, met while
modelling. Each is stated as a definition of its module. The first seven are
violated in the instance of the named configuration when they are put in the
place of its properties.

| Definition | Configuration | Said | Done |
|---|---|---|---|
| `AdmittedCleanSchema` | `MCMigrations.cfg` | `runtime_admission.go:74`: a server "admits only a clean pre-existing V6 or B-02 runtime schema" | version and catalog are read in two transactions; a B-02 migration that marks V6 dirty in between is admitted |
| `GuardedDownRestoresV4` | `MCMigrations.cfg` | `000005_security_schema_foundation.down.sql:1`: the runner "restores clean version-4 metadata" | `recoverGuardedDown` restores version 5 |
| `StoppedIsNotReady` | `MCDelivery.cfg` | `mqtt_service.go:84`: "onConnect checks the same denial state" | it does not; a callback during a stop leaves `Ready()` true, although nothing is admitted |
| `EndsOffline` | `MCDelivery.cfg` | `device-simulator/main.go:1699`: "retained offline is the final status publication" | between two clients shutdown publishes nothing and the retained status stays online |
| `BundleCorrelates` | `MCLedgers.cfg` | `d4_postgres.go:127`: the bundle is validated and correlated | the bundle of a completed Process meets the trigger of a terminal row and is refused |
| `ResolutionStored` | `MCLedgers.cfg` | `d4_recovery.go:88`: Resolve takes "a complete safe result" | a successful one needs an empty recovery class in `Resolve` and a class in `Transition`, so it is never stored |
| `OverlapExcluded` | `MCEnergy.cfg` | `dashboard_energy_postgres_test.go:76`: "both are excluded" | with two candidates of equal bounds, a third that overlaps them is counted |
| `IntervalsInsideAssignment` | `MCTelemetry.cfg` with `MaxInterval = 2` | `coverage_ingest_postgres_test.go:95`: an interval that straddles the end of an assignment is refused | a transition compares its time with the start of stored intervals only and cuts one of a device whose clock is ahead |
| `WholeTransactionIsRetried` | `MCLiveness.cfg` under `Spec` with 3 requests, 3 sessions and `TriangleCommands` | `executor.go:35`: a "bounded whole-transaction retry" | a deadlock victim of the admission loses its error code and is not retried |

Two results that are less obvious than they look: a repeated request is never
refused because of what its first execution changed, although the plan is
checked after the ledger was looked up, and the reason is the FOR SHARE lock of
the admission (`CommittedKeyIsNeverRefused` fails without it); and lifecycle
commands and telemetry, which nobody retries, are never part of a deadlock
(`DeadlocksAreUpgrades`).

## 5. What is proved

The theorems hold for every number of devices, points, requests, workers,
commands and messages that satisfy the assumptions `StoreAssumption`,
`CommandAssumption` and `IngestAssumption`: ids are distinct, ids are numbers
where the code locks by id, fresh uuids are fresh, and the database starts with
assignments of different devices and points.

| Theorem | States |
|---|---|
| `TypeCorrect` | `Spec => []TypeOK` |
| `LocksSuffice` | `Spec => []LocksPreventOverlap` |
| `HistoryIsConsistent` | `Spec => []NoOverlap` |
| `AssignedMeansInService` | `Spec => []AssignedDeviceInService` |
| `PlacementRefinesRegistry` | `Spec => ImplementsRegistry` |
| `HistoryAppends` | `Spec => HistoryIsAppendOnly` |
| `RetirementIsFinal` | `Spec => RetiredIsFinal` |
| `LedgerStaysFaithful` | `Spec => []LedgerIsFaithful` |
| `AuthorityIsHeld` | `Spec => []AuthorityHeldUntilCommit` |
| `RetriesAreAnswered` | `Spec => CommittedKeyIsNeverRefused` |
| `TelemetryStaysTrue` | `Spec => []TelemetryIsTrue` |
| `NothingIsTakenBack` | `Spec => NothingGoesBack` |
| `SilenceIsKept` | `Spec => BlockedDeviceIsSilent` |
| `DeadlocksNeedUpgrades` | `Spec => []DeadlocksAreUpgrades` |

For refresh sessions, `SessionProofs` proves for any number of calls, any
lifetimes and any bound of the clock, from `SessionAssumption` alone:

| Theorem | States |
|---|---|
| `SessionTypeCorrect` | `Spec => []TypeOK` |
| `FamilyStaysOneChain` | `Spec => []FamilyIsOneChain` |
| `FamilyEndsAsAWhole` | `Spec => []FamilyEnds` |
| `FamilyHasOneCurrentToken` | `Spec => []OneCurrentToken` |
| `LineageStaysChain` | `Spec => []LineageIsChain` |
| `RevocationIsComplete` | `Spec => []RevokedFamilyIsDead` |
| `ReplayRevokes` | `Spec => []ReplayEndsFamily` |
| `RecordsAreFinal` | `Spec => RecordsStand` |
| `ExpiryIsRechecked` | `Spec => NoRotationAfterExpiry` |
| `SessionsRefineFamilies` | `Spec => ImplementsFamilies` |

The other components:

| Theorem | States | From |
|---|---|---|
| `FenceStaysExclusive` | `Spec => []FenceIsExclusive` | `FenceAssumption`, `MigrationAssumption`, `DatabaseAssumption` |
| `SchemaStaysWhole` | `Spec => []SchemaIsWhole` | the same |
| `ReportsStayTrue` | `Spec => []ReportsStand` | the same |
| `NeverDowngraded` | `Spec => NoDowngrade` | the same |
| `LedgerStaysConsistent` | `LedgerSpec => []LedgerIsConsistent` | `LedgerAssumption` |
| `TerminalRowsStay` | `LedgerSpec => [][TerminalIsFinal]_ledgerVars` | the same |
| `InstallStaysTrue` | `InstallSpec => []InstallIsTrue` | `LedgerAssumption`, `RunAssumption` |
| `CatalogStaysExact` | `CatalogSpec => []CatalogIsExact` | `EditsAssumption` |
| `NothingEverReopens` | `PartsSpec => NothingReopens` | the three above |
| `LeaseStaysTrue` | `LeaseSpec => []LeaseIsTrue` | `LeaseAssumption` |
| `EndedLeasesStay` | `LeaseSpec => [][EndedStays]_leaseVars` | the same |
| `RecordStaysTrue` | `Spec => []RecordIsTrue` | `ExecutorAssumption`, `LedgerAssumption` |
| `NothingIsEverReplaced` | `PartsSpec => NothingIsReplaced` | the three above |
| `DrainIsQuiet` | `IngressSpec => []DrainedIsQuiet` | `IngressAssumption` |
| `DeliveryStaysSound` | `TogetherSpec => []DeliveryIsSound` | `IngressAssumption`, `DeviceAssumption` |
| `DeliveryIsAlwaysSound` | `Spec => []DeliveryIsSound` | the same |
| `NoValueIsLost` | `TogetherSpec => NothingIsLost` | the same |
| `EndsStayFinal` | `TogetherSpec => EndsAreFinal` | the same |
| `RowsInv` | `CoverageSpec => []CoverageInv` | `CoverageAssumption` |
| `ReadersStayAgreed` | `CoverageSpec => []ReadersAgree` | the same |
| `PlansStayAgreed` | `PlanSpec => []PlansAgree` | `PlansAssumption`, `RatesAssumption` |
| `PastStaysFixed` | `PlanSpec => [][PastPlansFixed]_planVars` | the same |
| `ChargeStaysMarginal` | `ChargeSpec => []ChargeIsMarginal` | `ChargeAssumption` |
| `TotalAlwaysGrows` | `ChargeSpec => [][TotalGrows]_chargeVars` | the same |
| `BillsAlwaysStand` | `PartsSpec => BillsStand` | the three above |

`DatabaseAssumption` says that a database starts with bodies applied in order: the
ones its clean marker names, or any if it has no metadata; `RatesAssumption` that
months have days and that a rate set ends after it begins, as the table's check
has it (that rate sets do not overlap is not assumed); `LedgerAssumption` of the authority
that `MaxCalls` is at least 1; `FenceAssumption` that there are finitely many
backends; `DeviceAssumption` that the bound `MaxSeq` leaves room for the values
the modes send (`runReconnect` sends two); `ChargeAssumption` that bounds and
rates of tiers and minimum charges are not negative, which `Calculate` and
`validateTiers` refuse; `CoverageAssumption` that the day begins inside the
horizon and that no reading has negative energy, which the protocol refuses
(`validateEnergyDelta`, `core/iot/protocol.go:181`) and the dashboard and the
bill would skip. The rest of the assumptions says that bounds are numbers, and that
placeholders (`NoProcess`, `NoRun` and the like) are not members of the sets they
stand outside of.

None of them bounds the number of writers, operators, callers, faults or edits:
the bounds of the runs are constants of the theorems.

### Placement

None of the placement invariants is inductive: that a commit keeps `NoOverlap` depends on
checks the request made earlier, on rows others might have changed since. The
inductive invariant `Safe` adds what makes the checks last:

- `AppliedIsReady`: a request that has written its rows still holds every device
  and point of its command FOR UPDATE, and what it checked under those locks
  (`Ready`: the moved row is current and started before the sampled time, no
  other row of the device or point reaches beyond it, the device is in service,
  a lifecycle transition is still allowed) is true of the committed rows now;
- `RowIdsAreFresh`: the row of a request exists only once the request is done.

The argument has three parts. `CheckedIsReady`: `Apply` establishes `Ready`.
`AppliedAreDisjoint` and `InstallKeepsReady`: two requests at the point of commit
work on different rows, so the commit of one leaves the other ready.
`ReadyRespectsConstraints`: a ready request satisfies the exclusion constraints.
Every other step is framed by `FrameKeepsSafe`. The refinement uses the same
invariant: `ReadyIsFree` and `InstalledRows` show that a commit is one operation
of the registry on the state as it is at that moment, and `OnlyCommitWrites` that
nothing else is visible to it.

### Refresh sessions

The inductive invariant `IInv` joins the safety invariants with what makes a
decision last from the lock to the commit: `LockInv` (a call between lock and
commit holds its session row, and nobody else does), `DecisionInv` (what a call
has decided is still true of the committed rows: a token to be exchanged is
current and unexpired, the rows to be revoked are those not yet revoked),
`FreshInv` (the rows of a call exist only once it is answered), `CallInv` and
`RowInv` (what a call knows in each phase; tokens belong to existing sessions,
share their deadline and are not from the future), `TimeInv` (decision times
follow the order of the locks) and `ReplayInv`, which says what each finished
refresh has left behind. There is one lemma per action; the commit is split by
what it writes (`OpenedPreserves`, `RotatedPreserves`, `RevokedPreserves`,
`NoWritePreserves`), and the decision of another call survives it because that
call holds another family (`LockInv`). The refinement and the action properties
follow from the same invariant.

### Keys, audit and authority

`Books` joins what the ledger of idempotency keys rests on: `LocksExclude` (a
row is held FOR UPDATE by one transaction and shared by nobody else), `OneClaim`
(two requests never have the same key claimed), `LedgerSound`
and `AuditSound` (every stored answer, and every change of a row, has its
execution), and for every request `Sound`: from its admission to its end it
keeps its session FOR UPDATE and its grants and devices FOR SHARE. That last
part is why no logout and no withdrawal of a grant commits in between, and why
a retry that waited for its key finds what its first execution left.

### Telemetry

`Records` is `Filed` (a reading lies inside an assignment of its device and
point, and a transition that has passed its check, `Uncut`, has none behind the
time it sampled), `Identified` (one reading for each identity, and an
acknowledgement that was sent is true) and `Raised` (presence and alerts follow
the order of events). It holds because a worker stores a reading with the row of
its device locked (`HoldsDevice`), the row a transition holds from its check to
its commit.

### Deadlocks

`LockOrder` says which rows a transaction can hold where it is: a request in
front of its session holds nothing, one that holds a point holds every row of
its work before that point, a worker holds its device. `KindsOfWaiting` and `KindsOfHolding`
list what can be waited for by whom. In a set in which no part waits only for
itself (`Knot`) nobody waits for a point (`NobodyAtPoint`: the holders would wait
for ever later ones), nobody for a session or as a worker (`NobodyAtSession`:
such a transaction holds nothing anybody waits for), hence no lifecycle command
(`KnotOfBindings`), and what remains waits for a device it shares
(`KnotIsUpgrade`). No transaction is followed along a cycle, so the number of
transactions does not matter.

### Migrations

`IInv` is `FenceInv` (what the server grants, what each handle has been told,
`ServerOK`, `HandlesOK`), `GoodDB` (the marker and the bodies fit), and for each
operator what it remembers of the database while others may have changed it
(`WindowOK`, `Remembers`, `Knows`, `PendingOK`): it is still true because the
fence was held since it was read, or it is rechecked. Where a catalog was found
without metadata, a clean marker of V1 to V3 may stand over more bodies than it
names; `FoundOK` bounds them by what was found, and `Has` says which bodies the
runner relies on between its steps. A catalog found with at most bodies 1 to 3
(`Adoptable`) is caught up with at V3 and goes on to V5; one found with body 4
never gets past a dirty marker 4, because that body cannot be repeated, so it is
never admitted as V4 or V5. `Follows` relates two
databases and gives `NoDowngrade` and the stability of reports.

### The authority, the bootstrap and the catalog

`IInv` of the ledger: `RowsOK` relates authorizations, requests and intents
(`ChildrenFit`, `ParentsFit`, `OneLive`, `Unminted`, `MintedIn`), `OpOK`,
`SecretsOK`, `AnswersOK` and `ResolvesOK` say that what was disclosed or answered
is true. Every transaction `Grows`: it keeps terminal rows and the parent of an
intent, which is what makes an old answer stay true. `InstallInv` adds for every
run `SessionOK`, `StageOK` and `SayingsOK`: what its session holds, what its
stage rests on, and what it has said, and that one run has installed.

`CatalogInv` says what a schema can hold however it is edited: classes and
owners, no entry of the ledger without the ledger. `VerifyIsExact` is the core:
the tests of `verifyD1LPhysical`, each about one class of entries, together
decide equality with the expectation (`NothingExtra`, `NothingMissing`,
`ExpectedIsVerified`). It needs that a name has one entry in an expectation
(`OneEntryPerName`) and, for version 1, which has no expectation about columns
of the ledger, the test for the ledger in front.

### Delivery

`TogetherSpec` lets the service take every step of its own, stops and starts
included, beside the device; `Spec` and the part of the run that has a device are
instances of it. `DeliveryInv` joins what the three layers rest on:

- of the service, `CountIsExact`: the WaitGroup counts the message that is
  routed, those in the queue and the busy workers, so a drain that finds zero
  finds nothing anywhere; `StopHolds`; and `AnswersAreTrue`: a terminal answer
  speaks of a recorded value (`ReceivedIsTrue` carries it to the device);
- of the session, `ReadyIsRestored`, `CallbackFollowsLink`, `PublicationsExclude`
  (publishMu) and `ShutdownHolds`: an online status that was admitted before
  shutdown is published before the offline one;
- of the attempt, `QueueIsOrdered`, `AuthorizedIsWaiting` (the only identity that
  an answer may remove is the one the attempt waits for, in a session that still
  holds), `WaiterIsOfCall`, `ReplayIsOrdered` (what a replay has left to send
  contains all that is pending, its head being the attempt), `CallsAreCounted`
  and `DisconnectIsFirst`, the mode that sends without waiting.

`NoValueIsLost` needs all three: the answer is true because the service recorded
the value first, it is taken only by the attempt it was sent for, and the oldest
value goes first because the snapshot of a replay is in the order of the queue.

### Leases and D4

`IInv` of the lease ledger: `TypeInv`, `TimeInv`, `RowCall` and `LeaseCall`, what
a call knows of its row and lease in each phase. `RecordInv` of D4 joins
`RecordTypes`, `DriversOK`, `RowOK`, `DoubtOK`, `JournalLinks`, `EventOK`,
`ResolveOK`, `CompOK` and `RunOK`; there is one lemma per action, and the
compare-and-swap is split by the kind of event. It also shows that the only
results ever stored are `NotRun`, `Won` and `Partial`.

### Billing plans

`PlanInv` is `HistoryOK` (the assignments of a shop do not overlap, leave no
month without a plan after the first that has one, begin no later than with the
next month and are plans of the tariff) and `RequestsOK` (a request was decided
in the present month or in the one before, which is what a clock that moves
while it waits for its lock can do to it). That only the rate sets decide about a
configured month is then a statement about `selectEstimateRateSet`: a set that
meets the month is in force on one of its days (`MeetingIsInForce`), and one that
is alone and covers the month is the one in force on each (`CoversIsInForce`).

### The charge

The loop of `Calculate` is a fold over the tiers, `ChargeIsMarginal` compares it
with a fold over the single kWh, and both need induction, over the turns of the
loop. The proofs do it by way of the first turn that breaks a claim
(`LeastNumber` in `EnergyProofs`, from the well-foundedness of the numbers). `TurnsExist` shows that
the values a fold is defined by exist, `AllocateTurns` and `SumTurns` that the two
folds are the last of their turns.

After i tiers the loop has charged for the kWh `Upto(kwh, i)`, and what remains is
the rest (`RemainingIsRest`); a tier adds as many times its rate as the sum over
the kWh does on that stretch (`RawIsMarginal`, `Stretch`). A kWh falls in one tier
(`OneTier`, by `TiersAscend`), and up to the end of the last tier in some
(`SomeTier`). That the total grows is shown of two usages at once
(`AllocateGrows`), and truncation, minimum and rounding keep it
(`RoundingKeepsOrder`).

### Coverage, dashboard and bill

`CoverageInv` is all that the state contributes: rows are finitely many and well
formed, a message has one row, no interval crosses midnight, and the assignments
of the point follow each other. It is inductive as it stands. That it implies
`ReadersAgree` is a statement about the algorithms, for any set of rows, and the
larger part of `EnergyProofs`.

Sorting. `SortedBy` places an element by the number of those that precede it, a
definition the provers can use where TLC's `SortSeq` has none.
`SortedByLists` shows that for a total order on a finite set this lists every
element once and in order; `SortedSorts` carries it to the stable sort of
`Evaluate`.

The scan. A claim about a loop is an invariant of its turns (`ScanTurn`,
`SweepTurn`, `JoinTurn`). The invariant of `Evaluate` is `Running` until the scan
stops and `Settled` afterwards:

- `ProvenPrefix`: the proven intervals are consecutive tiles from the start of
  the period to the frontier, attributable and without a discontinuity between
  them. Accepting keeps it (`AcceptPrefix`), and so does what a conflict or
  an overlap takes back (`TakeBack`, `DropPrefix`);
- `Running`: of the rows that were read, each has ended at the snapshot and is a
  tile or lies before the period, so no barrier and no other interval is among the
  tiles;
- `Settled`: no longer prefix can be proved, because the row that stopped the scan
  is a gap, a barrier or an overlap that every longer prefix would contain
  (`GapSettles`, `OverlapSettles`), or because the rows have ended
  (`AllSeenSettles`).

A row that has not ended at the snapshot stops the scan before later rows are
looked at. The invariant therefore speaks of `Early`, the rows that sort before
every such row, and `LateHidesNothing` shows that under `NoLateOverlap` the best
prefix of `Early` is the best of all rows. There is one best prefix (`OneBest`),
which makes the order of arrival irrelevant without following two scans. A best
prefix of the month that reaches into today contains the one of today
(`WindowsAgree`), since no row crosses midnight.

The bill. The sweep of `unionSortedDuration` has, after k intervals, closed or
still open exactly the instants of their union (`Counted`), so a duration is the
number of instants (`SweepCounts`). The groups of `EvaluateObserved` accept an
observation exactly if it is alone (`GroupsAccept`); that needs `maxEnd` to be the
latest end of the group and not the end of its last member. An observation lies
inside an assignment (`ObservedWithin`), hence `ObservedWithinExpected`; and if as
many instants are observed as were expected, the two sets of instants are equal.

The sums. `SumsExist` gives the sum over a finite set a definition that can be
reasoned about; `SumTakesAny`, `SumOfSubset` and `SumOfImage` are what the
comparisons use. The tiles of a best prefix are rows the dashboard and the bill
accept too, one for one (`DashboardCounts`, `BillCounts`), so neither sum is below
the proven one.

Only model-checked: liveness (`EverythingEnds`, `CallsEnd`, `CallersReturn`,
`WaitsEnd`), which needs fairness and ENABLED. Every invariant and every action
property of the passing runs has a theorem.

## 6. Not modelled, and the plan

Components to follow:

1. Deployment cutover (`deployment`, `runtimegate`, `cmd/d6-*`): its phases,
   write gate and drain.
2. The planner of `reconciliation.go`, reduced here to the rows whose owner is
   missing, and the protected admission in front of it.
3. The mobile client's single-flight refresh against `RefreshSessions`, its
   dashboard cache, and the windows of the login limiter.
4. Two clocks for application and database in `RefreshSessions`: with the
   database behind, a rotation right after login is dated before its rows.

Behaviour without a promise to check it against: a V4 catalog without metadata is
admitted for `up` (`migration_gate.go:230`), which then fails at body 4 and leaves
the marker dirty at 4; while `up` catches up with an adopted catalog, clean markers
1 to 3 stand over more bodies than they name, and if it dies there over a V4
catalog the gate refuses the database as ambiguous from then on
(`migration_gate.go:254`); `markDeviceSeen` sets
`is_online` although a newer offline status is stored; a legacy message is
stored again by every redelivery; a full device queue whose ACKs came late
blocks the next value until the device is interrupted; a D4 record whose process
died in ADMITTED, RESULT_RECORDED or CONTINUATION_CONSUMED waits for an owner
event the service does not offer; the journal of D4 is replayed by the clocks of
its writers; nothing fences a worker whose record is resolved early.

Left out for good: pure queries and HTTP routing (no state), token and password
checks (functions of one value), the read-only legacy preflight, command-line
entry points, shell scripts and compose files, user interface code.
