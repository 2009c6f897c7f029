# bithound: models, checks and proofs

bithound is an observability sidecar for Bitcoin and Lightning nodes (Rust, tokio,
SQLite). It polls a node, keeps what it saw, decides which conditions hold, keeps
one incident per condition and tells the operator through Telegram, Discord or a
webhook. This directory holds TLA+ specifications of the parts that carry that
promise, the TLC runs that check them on small instances and the TLAPS proofs of
their main invariants. `PROJECT.json` is the index: components, runs, mutants,
the map from definitions to source lines, findings, hazards and theorems. Paths
below are relative to the repository's root.

    configuration --> boot (id file, database, kinds, collectors, rules, senders)
                        |
    collectors --obs channel--> consumer --notif channel--> notification worker
    (supervisors)               |  append observations        |  senders
                                |  apply read models          |  complete row
                                |  evaluate rules             v
                                |  incident engine         SQLite (attempts)
                                |  save incident, dispatch
                                v
                             SQLite (observations, incidents, attempts)
                                ^                     ^
                       retention sweep          operator API (reads)

    Shutdown: one broadcast, a bounded join, then abort.

## Inventory

| Component | State | Operations | Talks to |
|---|---|---|---|
| Incident engine (`src/incidents/engine.rs`) | map of open incidents by fingerprint | `handle_record_signal` (open, touch, escalate, resolve, ignore), `new` | emits events the consumer carries out |
| Incident repository (`src/storage/sqlite/incident_repository.rs`) | `incidents` rows | `save` (upsert), `load_open`, `get` | consumer, boot, API |
| Consumer (`src/runtime/consumer.rs`) | read models, rules, engine | `run`, `process_batch`, save with three tries, `dispatch_lifecycle` | everything below |
| Notification rules and attempts (`src/notifications`, `.../notification_attempt_repository.rs`) | `notification_attempts` rows | `matches`, `insert_pending`, `complete`, `list_for_incident`, `list_retryable` | consumer, worker |
| Notification worker (`src/runtime/notification_worker.rs`) | the dispatch at hand | `run`, `process_dispatch` | channel of 256, senders, attempts |
| Senders (`src/notifications/targets`) | none | one HTTP request each, classified into an outcome | external services |
| Runtime (`src/runtime/mod.rs`) | channels, task set, broadcast | spawn, shutdown, bounded join, abort | all tasks |
| Supervisors (`src/runtime/supervisor.rs`) | backoff index, receivers | `supervise_polling`, `supervise_subscription` | collectors, obs channel |
| Bitcoin Core collector (`src/collectors/bitcoin_core`) | the request counter | `poll`: four RPCs at once, each with an id | supervisor |
| LND collector (`src/collectors/lnd`) | none between polls | `poll`: three gRPC calls at once | supervisor |
| Read models (`src/read_models`) | latest state, health, capability and signal per key; rings of metrics and heartbeats | `apply`, the queries of the traits | consumer, rules |
| Bitcoin rules (`src/diagnostics/rules/bitcoin`) | debounce entry per subject | `evaluate` | read models, engine |
| LND rules (`src/diagnostics/rules/lnd`) | debounce entry per node or channel | `evaluate` | read models, engine |
| Observation store (`src/storage/sqlite`, `src/storage/memory`) | `observations` rows | `append`, `iter_since`, `get_by_id` | consumer, API |
| Retention (`src/storage/retention.rs`) | none | `run`, `sweep`: one DELETE per table | all three tables |
| Operator API (`src/api`) | none | health, open incidents, detail, evidence | repository, observation store |
| Configuration and bootstrap (`src/config`, `src/main.rs`, `src/runtime/bootstrap.rs`) | id file, database file | load, override, validate, build, `--check-config` | files, environment |
| Kind registry (`src/incidents/kinds.rs`) | kinds by name | `load`, `validate_draft` | boot, engine |
| Observation types and identifiers (`src/observations`, `src/shared`) | none | constructors, names, `EntityRef`, serde validation | all |
| Message rendering; suppression and orchestrator stubs | none | not modelled | |

What is hard here: every event the engine emits is carried out behind an
`await`, with a process that may stop at each of them; memory is mutated before
it is saved and the save may be given up; two bounded channels connect three
kinds of tasks that leave in an order nobody enforces; the shutdown is a
broadcast that a late receiver does not see; the attempt row is written before
and completed after a request whose reply may be lost; rules keep time on one
clock, observations on another; a rule compares two collectors' reports of
different ages; the sweep deletes rows under the requests and completions that
use them; a boot reloads incidents but not what the rules believed; and the
service shares its id file and database with a configuration check. The
`hazards` of `PROJECT.json` name each at its line.

What makes the parts correct:

- engine and repository: memory and rows differ only by a save that was given
  up; one open incident per condition; what was announced is durable; an incident
  only advances; announcements are news;
- delivery: every match has an audit row or a logged failure; rows tell the truth
  about what arrived; nothing is sent twice or out of order; a finished row is
  final; the consumer is never blocked for ever;
- runtime: nothing accepted by the channel is lost when the consumer leaves; the
  shutdown ends by itself;
- diagnosis: rules and engine agree on what is open; debounce and hysteresis are
  never shortened; a condition that lasts is reported and one that is over is
  resolved;
- storage: views hold the newest value whatever order values come in; both
  stores answer alike; nothing is deleted early or while it is in use; an evidence answer leaves out only what is gone;
- bootstrap: the merged configuration depends on what is set and not on the order;
  what runs is complete and what is complete is not refused; the id is stable.

## Modules

| Module | Models | Form |
|---|---|---|
| `IncidentEngine` | engine, its write-through and the boot | one action per case of `handle_record_signal` and per event the consumer carries out |
| `IncidentLedger` | abstract specification: the incidents an operator may rely on | `Open`, `Escalate`, `Resolve` |
| `NotificationSenders` | the three senders as functions from replies to outcomes | operators |
| `NotificationDelivery` | `dispatch_lifecycle`, channel, worker, attempt rows (uses `NotificationSenders`) | one action per await |
| `Runtime` | supervisors, channels, consumer loop, worker loop, API task, shutdown | one action per branch of each `select!` |
| `BitcoinRpc` | one JSON-RPC call, from what comes back to a result or an error | operators |
| `NodeDiagnosis` | collector, projections, the three Bitcoin rules, for one node (uses `BitcoinRpc`) | one action per kind of batch, plus clock and restart |
| `LightningDiagnosis` | LND collector, the two LND rules, beside a bitcoind | one action per collector's poll, plus world, clock and restart |
| `Identifiers` | dotted names, entity references and the columns they are stored in | operators |
| `Observations` | payloads, constructors, validation on the way back (uses `Identifiers`) | operators |
| `ReadModels` | store, six projections, queries (uses `Observations`) | operators on the store's value |
| `NotificationAttempts` | attempt rows, codecs, both repositories | operators on a table |
| `Storage` | tables, memory stores, retention, API (uses `ReadModels`, `NotificationAttempts`) | one action per statement or lookup |
| `Bootstrap` | configuration, id file, kinds, builders, for two processes (uses `Identifiers`) | one action per effect another process or a crash can see |
| `MC*` | instances: model values, rule sets, samples, deployments | constants only |
| `IncidentEngineProofs`, `RuntimeProofs`, `NotificationDeliveryProofs`, `NodeDiagnosisProofs`, `LightningDiagnosisProofs`, `StorageProofs`, `BootstrapProofs` | theorems about the module each is named after | proofs |
| `IdentifierProofs` | lemmas about `Identifiers` that the last two share | proofs |

Three modules (`NodeDiagnosis`, `Storage`, `Bootstrap`) and, for rules and sinks,
`NotificationDelivery` and `LightningDiagnosis` have a variable (`setting`,
`deployed`, `config`) that is chosen in `Init` and never changes: what an operator
deployed, or what the environment does in this behaviour. One run then covers
several deployments, each small enough to be explored completely.

**IncidentEngine.** `open` is `open_incidents`, `repo` the incidents table,
`store` the signal observations. A draft is handled in one step
(`handle_record_signal` has no await); its events follow one by one: `pc` is
`"record"` (append the signal), `"save"` (with `tries`), `"announce"`. `Stop`
may happen between any two and loses everything but `repo` and `store`; `Boot`
is `load_open` and `IncidentEngine::new`, `BootPanic` its assertion on duplicate
fingerprints. A save may be given up after its third try (`SaveExhausted`).
Severities, confidences and the kind's confidence floor are kept; times,
evidence payloads, titles and runbooks are not. Random UUIDs are counters.
`lost`, `unsaved`, `exhausted` and `announced` are history that no action reads; the
properties use `exhausted`, the incidents of which a save was given up, to say what
excuses them.

**IncidentLedger.** One entry per incident: opened only while its condition has
no other open entry, escalated only upwards, resolved once. `LedgerView` in
`IncidentEngine` maps the table to it.

**NotificationSenders.** A reply is whether one came, its status class, the kind
of its body, the error code in it and the size of `retry_after`. Each sender
is its `match` in order. `retry_after` beyond what `Duration::seconds` holds
panics in the worker. `Arrival` says what a reply reveals about whether the
message arrived; it is the environment's side (external).

**NotificationDelivery.** The consumer inserts one `Pending` row per matching
rule, skips those whose insert fails, and awaits room in the channel. The worker
takes one dispatch at a time and, per target, sends and completes the row. The
row's key is the pair of event and rule. At the shutdown both tasks see the
broadcast independently; `WorkerShutdown` may win the `select!` with dispatches
queued. `Stop`/`Boot` restart both with an empty channel; the rows stay.

**Runtime.** `pc[c]` is the supervisor's place; `outer` and `inner` say whether
its two receivers are subscribed, missed the broadcast or hold it. The channel is
its length (`queued`), and the content of batches is in the other modules.
`Deadline` is the join timeout that aborts what is left. A panic in a poll is caught
and answered with a respawn (`PollPanics`); one in a subscription's `run` is not and
ends its task (`SubscriptionPanics`). The worker's panic is in `NotificationDelivery`.

**BitcoinRpc, NodeDiagnosis.** A reply of the node is a record of what can be
wrong with it, outermost first (credentials, connection, status, body, id, error,
result), and `call` is the order in which `BitcoinRpcClient::call` looks. A poll
takes one reply per call; the calls whose reply is `Ok` make the observations of the
batch. Time is counted in poll intervals and kept as ages, each capped where the
code stops telling them apart, so the state space is finite without a bound on
behaviours. `ahead` is how far a latest state's wall-clock time lies beyond the last
poll's, the only thing `Projection::apply` asks. `ru`, `np` and `tl` are the rules'
entries for the node. An append may fail in the middle of a batch. The engine is
reduced to the set of open kinds. The rules' thresholds are
the code's.

**LightningDiagnosis.** The world (heights of bitcoind and LND, the channel and its
peer) changes at any time; in each interval each collector polls once, and any
subset of LND's three calls answers. `feed` says which batches the rules see:
`"poll"` is what the collector sends, whose first observation is always the node's,
so that `process_batch` never evaluates the channel; `"channel"` is a batch that
begins with the channel's observation, as the rule's tests make them. The
rules are not in `main.rs`'s list in this version; the model calls them the way
`process_batch` calls the others. `steady` counts the intervals since anything
changed or failed.

**Identifiers, Observations, ReadModels.** A text is a short sequence of character
classes; `parse_dotted_name` returns the error and the offset the code returns.
A scoped subject is written as `node/sub` and split at the first slash. Read
models are one record; `apply` is a function of it, and rings keep the last
`MetricCapacity` or `HeartbeatCapacity` samples. `WellFormed` is what the constructors
leave possible: names parse, enums have their values, and a signal's name is
`for_incident_kind` of its kind.

**NotificationAttempts, Storage.** Every write goes to the SQLite table as a row
of columns and, beside it, to what the in-memory twin would hold, so that the two
can be compared. A table is a function from its primary key to the row. The sweep reads the clock once and then runs one statement per
table; an evidence request reads the incident and then one observation at a time.
Nothing in this version spawns `retention::run`: the deployments of `storage` have the sweep
running or not, so that what it would do to its neighbours is checked too, and no property says that
it runs. `list_retryable` is the set of rows its
query finds, without `ORDER BY` and `LIMIT`: `NoRetryIsOwed` shows it empty. `AllNewer` compares
what a ring answers as a set; late arrivals are kept in the order they came in, so that
"oldest first" is not claimed.

**Bootstrap.** The service and `--check-config` run side by side on one id file and
one database. A document is its typed scalars (`tables`), its arrays of nodes,
collectors and rules, and the nested keys the inline-secret scan looks at. A variable
that names a section the document has as an array is passed over; where the document
has none, a table is made, and refused when the document is deserialized. The files that
`id_file`, `db_path` and `kinds_config_path` name are one each, so that two spellings
of these keys are left out. A user's catalog may be unreadable or not TOML (`Broken`).
`CreateIdFile` and `WriteIdFile` are the two effects of `std::fs::write`; a crash
or an error between them leaves the file torn; reading it may fail as well (`IoFails`,
like the reads of the document and of the catalog and the calls to the database). `KindRegistry_load`, the builders
and the validators are operators in the order the code calls them.

## Runs

Passing runs:

| Run | Instance | States | Shows |
|---|---|---|---|
| `engine` | two conditions with different floors, 3 drafts, 2 incident ids, saves may be given up | 301 k | memory, rows and announcements stay in step, but for what an exhausted save explains; until there is one the table implements `IncidentLedger` across crashes and no boot panics; the consumer always comes back |
| `delivery` | 2 events, 3 rules; all sinks working with a channel of 2, or one sink missing and one header malformed with a channel of 1; every reply | 339 k | audit rows account for everything; no message twice or out of order; what is enqueued is finished unless the worker left; dispatch returns |
| `runtime` | 1 poller, 1 subscription, channel of 1, 2 batches | 98 k | the consumer leaves last and leaves nothing behind; accepted batches are processed; the shutdown completes unless a collector missed it |
| `diagnosis` | every condition of the peers with backlog and restarts; every condition of the chain without; every class of RPC failure, failing appends, clock step | 44 k | rules and engine agree; debounce and hysteresis hold; a node that stays healthy has every incident resolved |
| `storage` | 3 observations of each pair of payloads, late by up to 1; incident, evidence, 2 attempts of every sink and outcome; sweep and API in between | 105 k | read models, both stores, both audit logs, the sweep and the API agree |
| `lightning` | with bitcoind or alone; public or private channel; each feed; every subset of calls; restarts | 119 k | no early incident; rule and engine agree; everything in time while nothing changes |
| `boot` | sixty deployments with one thing wrong or left out; two processes, two faults anywhere | 343 k | overrides commute; what runs is complete; secrets, catalog and id are safe; the service comes up |

Runs that exhibit a disagreement between the code and what the repository says:

| Run | What the run shows | Against |
|---|---|---|
| `boot_panic` | a resolution whose save was given up leaves an open row; the condition's next incident adds a second, and every later boot panics | comment in `engine.rs`: only corruption can cause it |
| `silent_outage` | a node that stops answering is never reported | operator guide on rpc_unreachable |
| `stuck_after_restart` | an incident open at a restart is not resolved when the node is healthy | `docs/src/operator/incident-catalog.md` (lines 48 and 78): clears when peers return, when neither pattern holds |
| `phantom_lag` | GetInfo fails, ListChannels answers: a lag incident opens on a height of LND that is old but within the freshness window, though LND never was behind | `docs/INCIDENT_CATALOG.md:480-481`: the 90 s window prevents phantom lag |
| `torn_id` | a crash between creating and writing the id file: every later start exits with 78 | `SPEC.md:2076`, `docs/src/adr/x1.md:180-182`: a fresh id is made |

The properties by name, each defined with its comment in the module it is about:

- `engine`: `TypeOK`, `WriteThrough`, `OneOpenRowPerFingerprint`, `AnnouncedIsDurable`,
  `EvidenceRecorded`, `CrashesNeverPanic`, `AnnouncementsAreNews`, `RowsOnlyAdvance`,
  `ImplementsLedger`, `ConsumerReturns`.
- `delivery`: `TypeOK`, `AuditTrail`, `RowsTellTheTruth`, `FinishedIsFinal`,
  `SentInOrderOnce`, `EnqueuedIsFinished`, `DispatchReturns`.
- `runtime`: `TypeOK`, `ConsumerLeavesLast`, `AcceptedIsProcessed`, `ShutdownCompletes`.
- `diagnosis`: `TypeOK`, `RuleAndEngineAgree`, `NoPeersDebounced`, `TipLagHysteresis`,
  `RecoveryResolves`; `lightning`: `RuleAndEngineAgree`, `InTime`,
  `Debounced`.
- `storage`: `ReadModelsAnswer`, `StoresAgree`, `AuditLogsAgree`, `EvidenceIsHonest`,
  `NothingGoesEarly`; `boot`: `OverridesCommute`, `Verdict`,
  `IdentityIsStable`, `ComesUp`.
- Violated: `BootNeverPanics` (`boot_panic`), `OutageIsReported` (`silent_outage`),
  `IncidentsEnd` (`stuck_after_restart`), `NoPhantomLag` (`phantom_lag`),
  `TornIdIsReplaced` (`torn_id`).

`boot_panic`, `stuck_after_restart` and `torn_id` exhibit the exception of a property that
holds: `CrashesNeverPanic` excepts the exhausted save, `RecoveryResolves` the restart and
`ComesUp` the torn id file.
`phantom_lag` needs the freshness window (90 s) to be longer than the debounce (60 s), as
in the code.

Smaller disagreements, in the models as the code has them or outside them, without a
run of their own:

- delivery: the worker may take the shutdown with dispatches queued, which are then never
  sent and whose rows stay Pending (`notification_worker.rs:145`, against
  `docs/src/adr/n2.md:197-198`, "drains any in-flight dispatches and exits"); `EnqueuedIsFinished` excepts them. A Transient outcome is stored as
  FailedPermanent (against the comment at `notification_worker.rs:131`); the statuses
  of the operator guide are not those of the code;
- runtime: a polling supervisor whose inner loop subscribes after the broadcast never hears it
  and polls until the deadline aborts it (`supervisor.rs:100`, against its lines 9-10);
  `ShutdownCompletes` excepts it. With the consumer dead, a subscription
  is restarted for ever (`supervisor.rs:165`, against line 37);
- engine: a given-up save of a resolution is not retried by "the next signal that touches
  this incident" (`consumer.rs:286`), since the incident has left the map;
- diagnosis: a chain sample that fired is evaluated again after a poll without
  getblockchaininfo, so that one sample opens bitcoin.tip_lag_or_ibd_stalled (against
  `docs/src/operator/incident-catalog.md:66-67`, two consecutive polls); `TipLagHysteresis` counts
  evaluations. `lnd.channel_inactive` is never evaluated on a channel, because `process_batch` takes the
  subject of the first observation (`consumer.rs:112`, against
  `docs/INCIDENT_CATALOG.md:322`), which is why `InTime` excepts that feed;
- storage: nothing spawns `retention::run` (`retention.rs:27`, against
  `docs/OPERATOR_GUIDE.md:449-450`, "a background task vacuums"), so that overdue rows stay. A subject
  whose node id contains a slash does not read back as itself (`observation_store.rs:128`
  says "Reverse of"); the signal of a kind whose name is longer than 121 bytes cannot be read
  back (`incident_signal.rs:62` says it always fits); two more show up in a replay of the
  store, and `ReplayIsCurrent` says so by its two conditions. `AgeCoversLag`: with a retention
  age shorter than the lag of the observations (`observations_max_age_days` is a `u32` and may be 0)
  an observation of time 0 that comes in after one of time 1 was swept is replayed as the
  latest. `SubjectsStayApart`: node `a/a` with channel `a` and node `a` with channel `a/a` are
  one subject once read back, and one's value hides the other's;
- bootstrap: `--check-config` accepts
  configurations that the boot refuses, and creates the id file and the database; an override
  of an absent boolean becomes a string, and numeric text for a string key an integer, both
  refused with 78; service and check may each make a first id when both start without one, which
  `IdentityIsStable` excepts; two spellings of one key are applied in any order; a
  `channel_capacity` of 0 panics in tokio, an interval of 0 in the polling task, which is
  restarted for ever; a Telegram rule without the telegram section is accepted.

Some properties gather parts that are stated one by one above them:
`ReadModelsAnswer` is `ViewsAreLatest`, `RingsAreTails`, `RingsAnswer` and
`TypedAccessorsAnswer`; `StoresAgree` is `StreamsAgree`, `ReplayIsCurrent` and `RowsReadBack`;
`AuditLogsAgree` includes `NoRetryIsOwed`, and `Verdict` includes `SecretsAreThere` and `CatalogIsAdditive`.

### Bounds

Each bound is a named constant. `MaxSignals` = 3 and `MaxIncidents` = 2 let an
incident be opened, then escalated and resolved, or resolved and opened again, alone or beside
another condition's, with a stop and a boot between any two steps, and let a low-confidence or
stray draft come at any place (the invariants are proved for any number of drafts).
`MaxEvents` = 2 and a capacity of 1 or 2 make one dispatch wait behind another, fill the
channel and leave one queued at the shutdown. `MaxBatches` counts batches that
are sent: with 2, a poller and a subscription compete for a channel of one, and one
waits behind a full channel while the consumer is busy (`ConsumerLeavesLast` is proved
for any number of collectors and batches). `BackoffSlots` = 2 reaches the end of the schedule at the second
crash in a row (the code has four slots; the theorem covers any number).

In `NodeDiagnosis` the debounce, the flat window and the retention keep their order (a
debounce is shorter than the retention) with a distance of one or two, so that each is
reached, passed and missed; gaps of 0 have batches that arrive together after a wait in
the channel; one step of the clock back makes one poll be ignored. In
`LightningDiagnosis` `LagPersist` < `MaxStateAge` < `Retention` < `ActiveTTL`, as in the
code, and three heights with a threshold of zero blocks let LND fall behind and catch up;
without the order the phantom lag could not arise.

In `Storage` `MaxObs` = 3 and `MaxTime` = 2 give three observations with equal, rising and
falling times, rings of capacity 2 and 1 that overflow, and ages of 0 and 1 that expire
during a sweep; every deployment of the run satisfies the two conditions of
`ReplayIsCurrent`. In `Bootstrap` names have at most `MaxNameLen` = 5 characters, so that
every error of the grammar occurs; `MaxFaults` = 2 lets a crash meet a second one; three
ids suffice for one per process and one on disk. Nothing else in those modules is bounded.

`CHECK_DEADLOCK FALSE` is set only for `Runtime`, whose process ends.

### Fairness

- `IncidentEngine`: weak fairness of the consumer's own steps. The consumer is one
  task, storage calls return (an error is a return), and the backoff between
  tries is finite. New drafts, stops and boots are not fair.
- `NotificationDelivery`: weak fairness of the consumer's steps, of the worker's
  steps on a dispatch (the HTTP client has a timeout of 30 s) and of the worker's
  `select!` as a whole: which ready branch it takes is left open.
- `Runtime`: weak fairness of each task; strong fairness of the shutdown branches,
  because `tokio::select!` polls its branches in random order and a branch that is
  ready at every turn is eventually taken. What a subscription does, the signal,
  panics and the deadline are not fair.
- `NodeDiagnosis`: polls go on and drafts are handled. What a poll finds is not fair.
  Every poll flips `turn` and nothing else does, so fairness of the flip is fairness of
  the poll, and costs TLC less.
- `LightningDiagnosis`: none. "In time" is an invariant over `steady`.
- `Storage`: none, since no task of this version runs the sweep.
- `Bootstrap`: weak fairness of each process's steps, and of starting the service
  (`Restart=on-failure` in the unit). The check, crashes and errors are not fair.

### Mutants

Definitions marked "Slip" in the modules are the code with a plausible mistake
(a dropped guard, a missing reset, a swapped order). `PROJECT.json` pairs each
property of each passing run with the slip that violates it.

## Proofs

`IncidentEngineProofs` (for all fingerprints, floors and bounds):

- `Invariance`: `Spec => []Inv`. None of the invariants is inductive alone. `Inv`
  adds what a step needs to know: `ControlInv` (what `pc`, the event at hand and the
  mode say together), `MapInv` and `KeyInv` (the map holds open incidents under their own
  fingerprint, no incident twice), `RowInv` (rows are filed under allocated ids),
  `CurInv` (the event at hand is the map's entry, or the one just removed),
  `AheadInv` (a row is an earlier state of the same incident in memory, never one
  beside it), `SyncInv` (memory and rows differ only by the event at hand or a
  save given up), `SignalInv`, `UnsavedInv` and `AnnounceInv` (an announcement
  about to be made is newer than all before it). `AheadInv` is the heart: the
  boot replaces memory by rows, and it is what makes later saves an advance.
- from it `TypeCorrect`, `WriteThroughHolds`, `OneOpenRow`, `AnnouncedDurable`,
  `EvidenceIsRecorded`, and the action properties `NewsOnly` and `RowsAdvance`;
- `BootSurvivesCrashes` and `LedgerRefinement`: as long as no save was given up, no crash
  makes a boot panic, and every step of the engine is a step or a stutter of
  `IncidentLedger` (`SavedInv`; by `ExhaustedGrows` a save given up is never forgotten, so the
  condition covers every step before the first). `boot_panic` shows that the condition is
  needed.

`RuntimeProofs` (for any sets of collectors, capacity and schedule): `Invariance` of
`IInv` = `TypeOK`, `Accounting` (accepted = processed + queued + in hand, while the consumer
lives) and `NothingLeft`; from it `TypeCorrect` and `LeavesLast`.

`NotificationDeliveryProofs` (for any number of events and rules, any capacity, any
configuration): `Inv` rests on one order. Sent attempts come before the worker's, those
before the channel's, those before the consumer's, whose event is the last one numbered
(`ConsumerInv`, `EventInv`, `FutureInv`, `ChannelInv`, `WorkerInv`, `SentInv`). So an attempt
is in one place at a time and whoever writes its row writes a row nobody else will; `TruthInv`
and `SettledInv` then say what the rows are. From it `TypeCorrect`, `AuditTrailHolds`,
`RowsAreTrue`, and the action properties `FinishedStaysFinished` and `SendsAreOrdered`.

`NodeDiagnosisProofs` (for any settings: replies, debounces, gaps, clock steps, restarts):
`DraftInv` is what `RuleAndEngineAgree` needs between the evaluation and the engine: of each
kind at most one draft is under way, it has the sense of what its rule believes, and where
there is none rule and engine agree. `NoPeersInv` and `TipLagInv` say that a rule's memory is
never older than what was really seen, `AheadInv` that a state is ahead of the last poll by no
more than the clock stepped back. From them `TypeCorrect`, `RulesAndEngineAgree`,
`NoPeersWaits` and `TipLagWaits`.

`LightningDiagnosisProofs` (for every deployment and any thresholds and ages that
`LightningAssumption` allows): that a rule speaks in time is a safety property here, since
`steady` counts the undisturbed intervals. `ReportInv` says what the read models hold after one
such interval, `TimelyInv` what the rule's entry says after the evaluation in the second and how
its stretch grows in step with `steady`; `OrphanInv`, `CalmInv` and `NoChannelInv` tie the
history variables to the entries. From `Invariant`: `RulesAndEngineAgree`, `DebounceIsKept`,
`ReportsAreInTime`. The assumption asks for `MaxStateAge` > 0, `Retention` > 1 interval and
`ActiveTTL` >= `Retention`; in the code these are 90 s, an hour and a day, against polls 10 to 30 s
apart. With a window of zero no height would ever be fresh.

`BootstrapProofs` (for any documents, variables, secrets and catalogs, any number of faults):
`ParserIsGrammar` is about the parser alone: the byte loop of `parse_dotted_name` accepts, at any
length, exactly the texts that the grammar of dotted names describes.
`IdInv` (only a process that found no id file makes one; whoever is past it has the file's id, unless two raced), `OverrideInv` (until its variable
is applied a key has the document's value) and `ConfigInv` (a process past a check satisfies
it) give `IdentityStays`, `OverridesOrderIrrelevant` and `VerdictIsRight`. `BootAssumption` only
gives documents and catalogs their types.

`StorageProofs` (for any observations, capacities, ages, deployments and times):

- `LogInv`, `RowInv` and `FactInv` say what a row is: the columns of an observation of the
  log, which read back as it. `SweptInv` is the heart of `StoresStayInStep`: what is no longer
  stored was overdue when it went, so that, where the age covers the lag, it is older than
  whatever of its key comes in later. A replay is a recursive function of the stream, and
  what it computes is shown by the least prefix at which the claim would fail (`LeastNumber`).
- `StoreInv` describes each view and each ring by the log of what was applied, and not by how
  it came to be: a view is the newest of its key, a ring the tail. `ReadModelsStayRight` follows.
- Filters and sorts are specified by what they yield and not by how; that there is such a
  sequence is `Ranking`: an element of a finite, totally ordered set has as its place the number of
  those up to it. With it a filter yields each place once and in order (`FilteredFacts`), the
  memory store's stable sort exists, and what the sweep has left of it is one of the orders in
  which SQLite may stream its rows (`StreamsStayAlike`).
- `IncidentInv`, `RequestInv` and `AnswerInv` follow an evidence request across the sweep's
  statements; `EvidenceStaysHonest`. `AuditInv` has the table as the image of what the memory
  repository lists; `AuditLogsStayInStep`. `SweepIsNeverEarly` is the action property.

`IdentifierProofs` has no theorem of its own interest: `LeastNumber`, the facts about the
parser, and `SubjectReadsBack` (a subject without a slash in its node id is read back as itself).

Every inductive invariant was checked by TLC on the instances of its run before it was
proved. The proofs use the named assumptions of the modules (`EngineAssumption`,
`RuntimeAssumption`, `DeliveryAssumption`, `DiagnosisAssumption`, `LightningAssumption`,
`NothingAssumption`, `IdentifierAssumption`, `CapacityAssumption`, `StorageAssumption`,
`BootAssumption`, `BuiltinAssumption`), which TLC evaluates in every run of those modules, and
no other.

Every safety property of the passing runs is proved. Only model-checked is every liveness
property (`ConsumerReturns`, `EnqueuedIsFinished`, `DispatchReturns`, `AcceptedIsProcessed`,
`ShutdownCompletes`, `RecoveryResolves`, `ComesUp`): the prover does not reach
them.

## Not modelled

- Acknowledge and Resolve commands, suppression, the orchestrator: they return an
  error or have no implementation that is wired in.
- Message rendering, JSON and timestamps of the API's answers, logging: texts on which
  no property depends.
- TLS, macaroons and the channel set-up of the gRPC client; the HTTP client.
- Several LND channels at once: each has an entry of its own, and only the pruning
  visits them together.
- Torn writes inside SQLite and its WAL: a statement is atomic here and may fail.
- The composition of `IncidentEngine` and `NotificationDelivery`: they meet in the
  announcement, which the first makes once per saved change and the second receives in any
  order of kinds.

## Plan

Done: engine with ledger; delivery; runtime; both diagnoses; storage, read models,
retention and API; configuration and bootstrap; and proofs of every safety property of
the passing runs.

Left: `Pipeline`, engine and delivery composed, so that "an incident that was opened is
announced or its loss is visible" can be stated across the two tables.

## Running

    tlc -config IncidentEngine.cfg MCIncidentEngine
    tlapm IncidentEngineProofs.tla

Each cfg belongs to the MC module that `PROJECT.json` names with it.
