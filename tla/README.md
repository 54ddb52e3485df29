# IndustryFlow: formal models

TLA+ models of the parts of IndustryFlow whose correctness rests on what happens
*between* steps: a job that dies after it listed a file and before it dropped the
rows, two clients that present one refresh token, a consumer that is rebalanced with
a batch in hand. TLC checks the models on small instances; TLAPS proves the safety
properties of all eleven for every instance.

## The system and its parts

Devices post readings over mTLS to the **ingestion service**, which writes them to
Kafka. The **Spark writer** takes them from there into one TimescaleDB schema per
tenant and aggregates them into windows; the **alert worker** evaluates each tenant's
rules on the same stream, and its ML and drift rules on the latest values. Each night
the **cold export** moves old days from the database to Parquet parts in object
storage. The **API gateway** holds users, **sessions** and companies; suspending a
company must reach all of these, which is the business of the **tenant status stream**
(to ingestion), the suspension marker and the SQL logins. The **ML service** registers,
deploys and serves models. **Notebook servers** reach the platform through handles: the
hub mints and revokes them, the SQL proxy relays a session while one is valid, every use
is written to an **audit stream**, and the **tracking gateway** stands between kernels
and the tracking server. The **delete job** removes a tenant from every store.

| part | source | module | proofs |
|---|---|---|---|
| cold export | `services/cold_export`, `16-cold-layer-raw-retention.sql` | `ColdExport`, abstract `ColdArchive` | `ColdExportProofs` |
| tenant lifecycle | `api_gateway/routers/companies.py`, `company_status.py`, `13-*.sh`, `21-`, `25-*.sql` | `TenantLifecycle` | `TenantProofs` |
| tenant deletion | `services/tenant_delete`, `notebook_hub/reclaim.py`, `25-`..`27-*.sql` | `TenantDeletion` | `TenantProofs` |
| alert worker, drift, retraining | `alert_service/worker` | `AlertWorker` | `AlertWorkerProofs` |
| reading stream, aggregations | `ingestion_service`, `spark_jobs` | `ReadingStream` | `ReadingStreamProofs` |
| tenant status stream | `alert_service/worker/tenant_status_publisher.py`, `ingestion_service/tenant_status.py` | `TenantStatusStream` | `TenantProofs` |
| sessions, alert socket | `api_gateway`: `messaging/refresh_tokens.py`, `routers/auth_tokens.py`, `users.py`, `routers/websocket.py`; `industryflow_contracts/sessions.py` | `Sessions` | `SessionsProofs` |
| notebook hub, SQL proxy | `notebook_hub`, `notebook_sql_proxy` | `Notebooks` | `NotebooksProofs` |
| capability audit | `industryflow_contracts/capability_audit.py`, `messaging/capability_audit_drain.py` | `CapabilityAudit` | `NotebooksProofs` |
| model registry, serving, drift | `ml_service/api` | `ModelServing` | `ModelServingProofs` |
| tracking gateway, offboarding | `notebook_tracking_gateway`, `mlflow/collect_deleted.py` | `Tracking` | `TrackingProofs` |

`PROJECT.json` lists every part with its files, maps each definition to the lines it
stands for, and lists the hazards the models were built to reach. An `MC` module gives a
component's constants their values for TLC; `Notebooks` needs none.

## The models

**ColdExport.** State: each day's rows in the hypertable (a row is its natural key),
the objects, the manifest, `cold_export_drops`, the run lock, and each run's program
counter and locals. A run is `StartRun`, `ListDays`, and per day `ReadManifest`,
`ReadRecord`, `TakeSnapshot`, `WritePart`, `VerifyPart`, `PublishManifest`,
`DropDay`: one action per point where a crash (`Abort`), an insert, a delete or
another run can make a difference. `WritePart` may write less than it was given;
`VerifyPart` reads it back. `DropDay` compares the day with the snapshot as
`cold_export_drop_day` does. `LockCanBeLost` lets the lock's session end under a
live run. `ColdArchive` is what the job promises: rows are inserted, deleted, or a
whole day moves to the archive, and nothing else.

**TenantLifecycle.** One tenant. A company request is one step per database
statement that takes effect on its own (`CheckDeletion` before `UpdateRow` takes the
row's lock) and one per action after the commit (`EndSql`, `Mark`, `ClearMarker`); it
may die at any of them. `now()` is the start of the transaction, which may be open for
up to `MaxOpen` ticks: `suspended_at` is that start, not the UPDATE. A gateway process
reads the registry in two steps and caches the answer with what is left of its life; a
company request is served by it or by one that is not followed. The SQL proxy's enrolment
is the other writer of the login: `EnrolCheck`, `EnrolRead` and `EnrolAlter` are its two
reads of the flag and its write. Time is a tick.

**TenantDeletion.** The job walks the required stores in order and records each;
the hub reclaims the volumes; the tracking server collects, and the operator
revokes, on their own; the nightly export goes on reading the tenant's days.
`ColdExport` is reduced here to what it does to the cold layer.

**AlertWorker.** Replicas of one consumer group on one partition. A reading is what
the consumer can tell apart: its kind, its event time, the dedup scopes it fires. A
replica also evaluates the ML rules on the sensors' latest values and the drift rules,
and recommends retraining from drift alerts and operators' labels. Everything that
fails (database, broker, process, assignment, rule reload) may do so at every step, up
to `MaxFaults` times.

**ReadingStream.** Readings are accepted, planned into micro-batches, looked up,
written tenant by tenant, dead-lettered, replayed; a failed batch runs again in full
with the same offsets. A second query keeps the open windows and the watermark, and
writes the rows of the windows it closes. Structured Streaming's offset, commit and
state logs are external and modelled from how the job uses them.

**TenantStatusStream.** Publishers read the registry and send it on an interval; a send
takes up to `SendLag`, and one that timed out may be written later. Followers age what they
heard and forget it past the limit `Stale`. The code has 10 s between rounds, 60 s for a send
and a limit of 60 s, so the model assumes only that the limit is not shorter than the
interval, and the run has a send as long as the limit. Time is a tick.

**Sessions.** One user's sessions. A request is one action per call of the store:
claiming the presented token, checking for an end, loading the account, issuing the
successor, recording it, minting the access token; replay within the grace and reuse
past it; signing out here and everywhere; password and account changes by an
administrator. A request may stop between two calls. The marks of ended sessions and
the access tokens carry ticks, and `Margin` is the time an end is remembered beyond an
access token's life (`_ended_ttl`). A socket's re-check may get no answer
(`SocketWatchFails`): it then stays open until the next.

**Notebooks.** One server. The hub's spawn, poll and stop are one action per call of
the handle store, against sign-outs, expiry, suspension and a login moved to another
company; a hub that restarts adopts the running server without what its spawner
remembered. The SQL proxy authorises, enrols, opens, relays and watches one session.

**CapabilityAudit.** The repeat counter and its window, each with a life of its own, the
bounded stream, and consumers that read, claim what another left pending, write,
acknowledge and crash.

**ModelServing.** One model name and one feature configuration, and perhaps a model from
before bindings were fixed and scores derived: its baseline need not match the
configuration, and it may be bound to none. A request
(registration, deployment, retirement, scoring, drift) is a coroutine: one action per
stretch between two awaits that touch shared state. A rebuild of the image ends the
process, with the requests in flight and the caches.

**Tracking.** The upload plane (staging, the commit that judges and copies, the
admitted files) and the tracking server (kernels' requests checked and then forwarded,
experiments with their runs and logged models, model versions and their renames). An
offboarding pass is one step per call of the server, and the collector leaves an
experiment that still has live runs, live models or artifacts to its next run.

## The runs

All pass.

| run | properties | what it shows |
|---|---|---|
| `ColdExport` | `NoRowLost`, `ArchivedOnce`, `CommittedNeverRewritten`, `ImplementsArchive` | with crashes, short writes, late rows and deletes no row is lost, none archived twice, committed parts stay, the archive is implemented |
| `ColdExportLive` | `OldRowsLeaveHot` | once rows stop arriving the hypertable is emptied, with crashes, and a lock lost while no second run starts |
| `TenantLifecycle` | `SqlShutOut`, `FlagFades`, `SerialMarker`, `WaitKept` | the SQL sessions a suspension ended stay closed, unless it came into the middle of an enrolment; a cached flag fades; the deletion wait is kept; for requests one at a time the marker is right, whichever of them die |
| `TenantDeletion` | `RecordedEmpty`, `Completes` | a store recorded as emptied is empty, the schema goes last, the deletion completes |
| `AlertWorker` | `CooldownHolds`, `RuledNotSkipped`, `RecommendedOnEvidence`, `AllCommitted` | one alert per cooldown, nothing skipped that met its rules, retraining recommended only on evidence, all committed in the end |
| `ReadingStream` | `NothingDropped`, `WindowsWhole`, `FirstWriteWins`, `SuspendedSettles`, `AckedEndsUp` | redelivered, replayed and retried readings against suspensions and sensor removals; the aggregates hold whole windows |
| `TenantStatusStream` | `ReachesIngestion`, `NotStranded` | a suspension arrives in time and stays known until every publisher is in a round slower than the limit; an active tenant is not refused for ever |
| `Sessions` | `EndedStaysEnded`, `OneLiveToken`, `OldCredentialFades`, `SocketFollowsSession` | two clients refreshing, replaying and signing out while an administrator changes password and account; re-checks of the socket that get no answer |
| `Notebooks` | `SessionFollowsHandle`, `StopNamesItsCompany`, `NeverRevived`, `EmptyServerStops` | no handle is revived, a relayed session follows its handle, a stop names the company of the start, also after a restart of the hub unless a sign-in has replaced the login, an empty server stops |
| `CapabilityAudit` | `RecordedExactly`, `Drained` | every event is recorded once or accounted for, a repeat is lost only with a count nothing followed, the stream drains |
| `ModelServing` | `BoundInputsFixed`, `DeployedWasShownToLoad`, `ScoresOfTheDeployment`, `UsedIsFresh` | registration, deployment, scoring and drift interleaved with edits, rebuilds, failed reads and earlier models |
| `Tracking` | `AdmittedWasJudged`, `BytesOfTheirTenant`, `CollectsOnlyTheDeleted`, `OffboardingEmpties` | uploads rewritten while judged, kernels naming and renaming anything, runs, overlapping offboarding passes |

**Bounds.** Two of each actor is the least that makes races, three log entries the
least that splits into a full and a partial batch.

| run | instance | why |
|---|---|---|
| `ColdExport` | 1 day, 3 keys, 2 runs, 2 parts, 2 failures | an archived, a pending and a late row; a committed part and one being written; a failure while recovering from another |
| `ColdExportLive` | 1 day, 2 keys, 2 runs, 2 parts, 1 failure, the lock may be lost | a day left half done by a crash, and by a run that lost its lock |
| `TenantLifecycle` | 2 requests, 1 gateway followed, wait 2, cache life 2, a transaction open for 1 tick, 1 death | a wait broken half way, an entry half expired, a transaction that started before the tick its UPDATE came after; processes share nothing but the registry and the marker |
| `TenantDeletion` | 2 job runs, 2 old days, 2 failures | a run that dies and its successor, an export on either side of the purge |
| `AlertWorker` | 2 replicas, 3 readings, batches of 2, cooldown 2, cache of 1, 2 failures | event times inside and outside the cooldown in either order, a cache that evicts |
| `ReadingStream` | 2 tenants, 3 entries, batches of 2, width 2, lateness 1, 1 failure, 2 registry changes | a window closed by a later reading and one kept open; suspended and reactivated |
| `TenantStatusStream` | 2 publishers, 1 follower, interval 1, limit 3, send up to 3, 2 changes, 2 failures | a late send overtaken by the next round, a round slower than the limit |
| `Sessions` | 2 clients and an administrator, 3 tokens, 2 sessions, access life 2, margin 1, grace 1, 5 ticks, 4 events | a token claimed, replayed in the grace and past it; an end and its record's expiry |
| `Notebooks` | 2 handles, life 2, re-check 1 | one handle per audience, expiry between two polls |
| `CapabilityAudit` | 2 consumers, 2 events, stream of 1, 3 repeats, window 2, count life 2, 1 crash | trimming, claiming from a crashed consumer; a count that outlives its window, one that expires, one renewed by a repeat |
| `ModelServing` | 2 requests, 2 inputs, 2 images, life 1, 2 ticks, 3 events | an edit between check and insert, a rebuild between gate and status |
| `Tracking` | 2 handles, 2 commits, 2 files, 2 experiments, 2 passes, 3 writes, 1 failure | a file rewritten before and after it was judged; two passes over one experiment; the other experiment is another tenant's and soft-deleted, or not yet created |

Counters of ticks stop where no guard or property can tell them apart. Bounds are
constants named in each module.

**Symmetry** is used where only safety is checked: runs and keys in `ColdExport`,
requests in `TenantLifecycle`, clients in `Sessions`, requests and inputs in
`ModelServing`. **Deadlock** is not checked in `Sessions`, `ModelServing` and `Tracking`,
where the bound on events lets every actor come to rest.

**Fairness.** Weak fairness on the step of each loop the deployment keeps running: the
export's schedule, the worker's loop (its container is restarted when it ends), the
Spark job (restarted, `awaitTermination`), the publisher's loop, the delete job's and
hub's timers, the drain's passes, the tracking server's collector and the offboarding
passes. In `Notebooks` the proxy's and the poll's steps are weakly fair, the clock and the
poll's last step strongly: time passes, and a poll that keeps being tried gets through to
its end again, although single polls fail. `RevokeCertificates` and `CollectTracking` of
`TenantDeletion` are an operator and an external server; a deletion completes only if they
do their part. Failures are not fair, and are bounded in number.

## Where the code and what it says of itself disagree

Each configuration below is run by hand (`tlc -config X.cfg M`) and ends with a
counterexample. The passing runs check the same parts under the condition that excludes
the disagreement (`Overlap`, and the history variables `overlap`, `straddled`, `late`, `lapsed`, `adopted`,
that record it), so
that everything else about them is still established.

- `ColdExportLegacy`, module `MCColdExport`: `exporter.py:178` writes a legacy day's
  manifest back in the new format before a drop that may be deferred. The legacy file then
  has no drop record, the next run takes it for pending and exports under its name what the
  source holds by then; the rows the earlier exporter had dropped are in no object. The
  code says "its file is treated as committed" (`exporter.py:135-136`) and "Committed parts
  are never rewritten" (`exporter.py:155-156`).
- `ColdExportLock`, `MCColdExport`: the run lock is held by a database session
  (`cold_export/source.py:134`); when it ends under a live run, which does not notice, another
  run starts, and one of them writes a part under the name of one the other has committed.
  `exporter.py:62`: "Runs never overlap". The day may then also stay in the hypertable for good,
  because the part no longer agrees with what was recorded of it.
- `TenantEnrolled`, `MCTenantLifecycle`: `ensure_tenant_sql_login` reads whether the tenant is
  suspended and alters the role in a later statement; a suspension that commits between the two
  has switched the login off, and the enrolment switches it on again.
  `13-notebook-sql-proxy-role.sh:134`: "its login stays NOLOGIN until it is reactivated". What
  is opened through it ends with its handle (`SessionFollowsHandle`), and suspending again
  switches it off.
- `TenantReactivated`, `MCTenantLifecycle`: `update_company` looks for a deletion request
  before its UPDATE takes the row's lock, `request_company_deletion` inserts one under that
  lock; a reactivation that has made its check goes through after the request.
  `21-company-provisioning.sql:135-136`: "A deletion, once requested, is irreversible".
- `TenantMarker`, `MCTenantLifecycle`: the marker is written after the commit
  (`routers/companies.py:185`); when a suspension and a reactivation overlap the earlier
  one's write may come last. `company_status.py:124-125`: "it lasts as long as the
  suspension does, and reactivation removes it".
- `TenantDeletionCold`, `MCTenantDeletion`: an export under way (`cold_export/source.py:151`
  lists tenants under deletion too) writes a day after `ColdStore.purge` found nothing left,
  and the store is not looked at again. `ADR-0033-tenant-lifecycle.md:34`: "Delete removes
  the tenant from every store that holds its data."
- `AlertWorkerReload`, `MCAlertWorker`: a failed load of one tenant's rules installs an empty
  list (`repository.py:337`), and its readings are committed unevaluated until the next
  reload. `kafka_consumer.py:157-158`: "unhandled messages are re-delivered rather than
  silently skipped".
- `SessionsContinue`, `MCSessions`: a refresh token issued in a race with the end of its
  session is refused while the end is recorded, which is an access token's life and a margin;
  presented after that it continues the session. `messaging/refresh_tokens.py:252-253`: "is
  refused rather than continuing it"; `docs/operations/authentication.md:67` calls the session
  ended.
- `NotebooksAdopted`, `Notebooks`: a hub that restarted does not know which company a running
  server was started for and takes the login's (`jupyterhub_config.py:212-214`); when the user
  has moved and signed in again the stop is recorded under the new one.
  `jupyterhub_config.py:375`: "Its stop is recorded under the tenant it was started for: by then
  the login may be another's." The comment at `:210` restricts this to a server the process
  started.
- `ModelServingDrift`, `MCModelServing`: the image may be rebuilt after the deployment derived
  the baseline's scores; drift then compares them with predictions of the new image
  (`routers/drift.py:62-128`). `ADR-0035-drift-baseline-derived-scores.md:41-42`: the verdict
  "expires with the serving image (ADR-0027 dec 6), and so does a score computed by the image
  it replaced".

Observations made while modelling, which no document contradicts:

- an enrolment that read that the tenant was suspended and altered the role after a reactivation
  leaves an active tenant's login off until the next enrolment, which its refusal starts;
- the wait before a deletion counts from the start of the transaction that suspended, so it is
  shorter by what that transaction took before its UPDATE (`21-company-provisioning.sql:152`);
- a send may take as long as a replica remembers (`kafka_consumer.py:40`, `STALE_AFTER_SECONDS`):
  when every publisher is in so slow a round, without anything failing, a replica forgets a
  suspension and lets the tenant's readings through until the next status; the writer's own
  lookup still keeps them out (`SuspendedSettles`);
- an open socket outlives its session for as long as its re-checks get no answer
  (`websocket.py:269-271`, and `authentication.md:81` says so);
- an earlier model's baseline may not match its configuration, or it may be bound to none
  (`baseline_gate.py:91-92`): a deployment then leaves it without scores;
- a baseline derived while the feature switch is off is scored on neutral values and marked
  derived all the same (`baseline_gate.py:111`);
- the last UPDATE of a deployment does not look at the status again, so a retirement that
  comes between is undone (`routers/models.py:841`); a model registered with status
  `production` is served without the deployment gate (`routers/models.py:130`);
- two commits of one upload may each put files in place; every file was judged, but by which
  of the two may differ from file to file (`gateway.py:304-363`);
- the alert worker's feature store keeps the reading that arrived last, not the newest
  (`feature_store.py:102`);
- a message delivered twice counts twice in an aggregate, although the measurement is written
  once; a changed number of partitions starts the aggregation at the end of the topic and the
  windows then open are lost, which is why `WindowsWhole` counts from `win.start`;
- the record of an ended session must outlive the clock difference the services allow: 60 s
  against 2 s in the code, `Skew <= Margin` in the model.

## What is proved

The theorems hold for any sets of actors, rows, readings, files and names and any value of
the bounds; the assumptions on constants are the named `ASSUME` of each module, which TLC
evaluates in the module's run. Each rests on an inductive invariant, checked by TLC on the
run's instance before it was proved: none of the properties is inductive by itself, because
whether a step may be taken depends on what its actor read several steps earlier. The
invariants are given with the theorems; the argument of every one is the same, that what was read is
still so, or that what has changed meanwhile makes a later check refuse.

**`ColdExportProofs`**, provided no day has a legacy manifest (`LegacyDays = {}`) and the lock's
session does not end under a live run (`~LockCanBeLost`):

| theorem | states |
|---|---|
| `TypeCorrect` | `Spec => []TypeOK` |
| `NothingLost` | `Spec => []NoRowLost` |
| `NothingTwice` | `Spec => []ArchivedOnce` |
| `CommittedStays` | `Spec => CommittedNeverRewritten` |
| `Refinement` | `Spec => ImplementsArchive` |

`IInv` is `TypeOK` and

- `LockInv`: a run under way holds the lock, so at most one is;
- `DayInv(d)`: a part is written, listed or recorded only after the drops of all the
  parts before it; a recorded part is listed and shares no key with another object of
  the day; and every row the day was ever given and not deleted is in the hypertable or
  in a recorded part;
- `Locals(r)`: what a run has read is still so, because no other run is under way:
  its manifest is the manifest, its base is exactly the recorded parts, its part is
  the next name, its fresh rows are the snapshot's that no base part holds; after
  verification the object holds all of them, and before the drop every row of the
  snapshot is in some part up to its own.

The two provisos are where it fails without them: `ColdExportLegacy` shows the first,
`ColdExportLock` the second.

**`TenantProofs`** has three independent parts; `TenantDeletion` and `TenantStatusStream` are
instances in it, so a theorem about them names their specification.

| theorem | states |
|---|---|
| `SuspendedIsShutOut` | `Spec => []SqlShutOut` |
| `CachedFlagFades` | `Spec => []FlagFades` |
| `MarkerFollowsRegistry` | `Spec => []SerialMarker` |
| `DeletionWaits` | `Spec => WaitKept` |
| `RecordedStoresAreEmpty` | `Deletion!Spec => []Deletion!RecordedEmpty` |
| `SuspensionReachesIngestion` | `Stream!Spec => []Stream!ReachesIngestion` |

The lifecycle's invariant is `Books`, what row, login, sessions and caches say of each other (the
login of an inactive tenant is on, or about to be, only for an enrolment the suspension came into
the middle of; a flag in a cache, or on its way there, that lets the tenant in is no older than the
inactivity; `suspended_at` is no earlier than the inactivity and what its transaction took), and
`Serial`, where the one request in flight stands and what the marker still lacks, which is given
up once two have overlapped. The deletion's, `DInv`: a store is clean from the step that emptied
it on, through the moment before it is recorded. The stream's, `SInv`: while nothing has failed,
what is older than a round is not on its way (`OldNewsEnds`), a follower's memory is no older than
the silence of each publisher (`Repeated`), and a follower told since the change knows it, until all
publishers have been silent for as long as it remembers (`Told`).

**`AlertWorkerProofs`**

| theorem | states |
|---|---|
| `AlertsKeepTheirDistance` | `Spec => []CooldownHolds` |
| `NoReadingIsSkipped` | `Spec => []RuledNotSkipped` |
| `RecommendationsHaveEvidence` | `Spec => []RecommendedOnEvidence` |

`IInv` says for each replica that what lies behind its message, and behind the position it would
go on from, is handled (`Progress`): a rewind may move the position back, a rebalance may hand the
partition to a replica with an older one, and neither skips anything. The cooldown is inductive
because saving looks in both directions in one statement (`Saved`); a recommendation's evidence
only grows, so what was counted before the write is there after it (`Evidenced`).

**`ReadingStreamProofs`**

| theorem | states |
|---|---|
| `NoReadingDropped` | `Spec => []NothingDropped` |
| `MeasurementNeverRewritten` | `Spec => FirstWriteWins` |
| `SuspendedWritesNothing` | `Spec => SuspendedSettles` |
| `RowsOfWholeWindows` | `Spec => []WindowsWhole` |

`IInv` says that a key has one row, that the batch in hand holds no reading its lookup found of
a suspended tenant, and that once it writes, the rest is dead-lettered and every tenant no
longer to do is recorded. The windows have an invariant of their own, `WinInv`: the watermark is
the newest event time less the lateness; the open windows are those beyond the watermark `m` of
the batch before, whole; a row was written after a reading that closed its window, so that in-time
readings cannot add to it; and the windows up to `m` are written. It needs that a finite set of
integers has the maximum `Max` returns (`MaxOfValues`) and how window ends compare with multiples
of the width (`WindowArithmetic`). Assumed of readings: a sensor belongs to one tenant.

**`SessionsProofs`**, provided the record of an end outlives the clock difference
(`Skew <= Margin`) and lasts at least two ticks (a request takes up to one):

| theorem | states |
|---|---|
| `RotationForksNoSession` | `Spec => []OneLiveToken` |
| `EndIsFinal` | `Spec => []EndedStaysEnded` |
| `EarlierPasswordFades` | `Spec => []OldCredentialFades` |
| `SocketClosesInTime` | `Spec => []SocketFollowsSession` |

`IInv` says that of a session there is one live token *or* one request with the right to issue it,
never both (`OneHolder`): the claim of a token hands the right to the claimant, which is why two
clients presenting it cannot fork the session. Further: what a request carries is of its session
and of the password it was opened with; a request past the password check began before a
change it does not know of (`BeforeChange`), so the access token it mints is old enough to fade
(`AccessMinted`); a token presented after the end does not get as far as a successor, because the
record outlasts the request (`LateRefused`); and the socket was re-checked within the interval, if
not always answered.

**`NotebooksProofs`**

| theorem | states |
|---|---|
| `HandlesStayRevoked` | `Spec => NeverRevived` |
| `SessionEndsWithItsHandle` | `Spec => []SessionFollowsHandle` |
| `StopNamedAsStarted` | `Spec => []StopNamesItsCompany` |

`IInv` adds that a session ages only once relayed and is without its capability no longer than its
age and then for good (which needs that nothing revives a handle), that a spawn mints no more handles than it
has room for, and that of a recorded start the spawner remembers the company until the stop is
recorded, or, after a restart of the hub, the login does until a sign-in replaces it
(`StartRemembered`).

The audit is an instance in the same module: `RecordIsExact`, `Audit!Spec =>
[]Audit!RecordedExactly`. The strengthening is that what a consumer is about to acknowledge is
already in the record or skipped (`AckedIsWritten`), also when another consumer claimed it, and
that what is left of a count's life is what has not passed since the last repeatable event
(`CountOutlivesQuiet`).

**`TrackingProofs`**

| theorem | states |
|---|---|
| `OnlyJudgedIsAdmitted` | `Spec => []AdmittedWasJudged` |
| `BytesStayWithTheirTenant` | `Spec => []BytesOfTheirTenant` |
| `OnlyTheDeletedCollected` | `Spec => CollectsOnlyTheDeleted` |

`UploadInv`: one commit at a time holds the event loop, what it copies it has judged, and what it
copied is in place. `ServerInv`: a name is the one of the experiment's location or the fixed name of
what is to be collected, and then the deletion has begun; what a request was let through for is still so when
it is forwarded, because no rename or delete moves an experiment to another tenant; passes and
the collector hold only experiments of the tenant under deletion. Names are any sequences of strings.

**`ModelServingProofs`**

| theorem | states |
|---|---|
| `BoundForGood` | `Spec => []BoundInputsFixed` |
| `DeployedLoads` | `Spec => []DeployedWasShownToLoad` |
| `ScoresAreCurrent` | `Spec => []ScoresOfTheDeployment` |
| `CachedIsFresh` | `Spec => []UsedIsFresh` |

`BoundForGood` assumes nothing of an earlier model's baseline. `IInv` gives each request what it has
shown so far: the row a deployment read is the model's still
but for the scores, its gates passed in the image that is running (a rebuild ends the request), an
upload loads there once it was probed, and the profile is rewritten before the status. For the
caches: a held value that differs from the database's expires within the time to live of the change,
and a value being read is the database's or was when the read began.

### Only model-checked

- Liveness: `OldRowsLeaveHot`, `Completes`, `AllCommitted`, `AckedEndsUp`, `NotStranded`,
  `EmptyServerStops`, `Drained`, `OffboardingEmpties`. Fairness and ENABLED are beyond the prover.
- That the bounds of a run are large enough for these is an argument of this document, not a theorem.

## Not modelled

- **Sign-in throttle**: a counter with a window in Redis, independent of the sessions.
- **Notebook SQL wire protocol**: parsing and building of bytes; no shared state.
- **Notebook cold broker**: exchanges a handle for pre-signed reads and holds no state; the
  handle's life is in `Notebooks`.
- **Gateway data routes**: single statements in one tenant's schema; what an edited rule does
  to the worker is in `AlertWorker`, what a removed sensor does in `ReadingStream`.
- **Migrations, backup and restore**: operator scripts around external tools.
- **Ops agent**: reads, and an incident note by an external language model.
- **Ingestion edge, monitoring**: configuration.
- **Frontend, Python client**: presentation and readers; a client that refreshes and replays as it
  pleases is the client of `Sessions`.
- Within the modelled parts: the replacement of the worker's producer (`kafka_consumer.py:345`) is
  seen only as a send that fails or succeeds; the statistics of drift and the features are floating
  point; Parquet is a set of keys.
