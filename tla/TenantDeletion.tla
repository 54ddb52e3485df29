--------------------------- MODULE TenantDeletion ---------------------------
(***************************************************************************)
(* Carrying out the deletion of one suspended tenant: the operator's job    *)
(* (services/tenant_delete), the notebook hub's reclaim pass, and the       *)
(* nightly cold export, which goes on listing the tenant until its schema   *)
(* is gone.  The database decides what is required and records what was     *)
(* emptied (26-company-deletion-execution.sql); it is emptied itself last.  *)
(*                                                                         *)
(* A store is in "held" while it still holds something of the tenant.  For  *)
(* device_certificates that is a certificate no published CRL, signed since *)
(* the request, revokes.  The export is ColdExport reduced to what it does  *)
(* to the cold layer: one day read, one object written, the day dropped.    *)
(***************************************************************************)
EXTENDS Naturals, Sequences

CONSTANTS
    Jobs,       \* runs of the delete job that may be started
    NoJob,
    OldDays,    \* days past the export horizon still in the database
    MaxFaults   \* bound: crashes, and passes that fail part way

ASSUME ConstAssumption ==
    /\ NoJob \notin Jobs
    /\ OldDays \in Nat
    /\ MaxFaults \in Nat

\* company_deletion_required_stores(), in the order the job walks them.
Required == <<"capability_store", "cold_layer", "tracking_store",
              "notebook_volumes", "device_certificates", "broker">>
Stores == {Required[i] : i \in 1 .. Len(Required)}

VARIABLES
    deletion,   \* company_deletions: "none", "requested" or "completed"
    steps,      \* stores recorded in company_deletion_steps
    held,       \* stores that hold something of the tenant
    trashed,    \* whether the tracking store's contents are marked deleted
    schema,     \* whether the tenant's schema exists
    old,        \* days past the horizon still in it
    lock,       \* who holds the job's run lock
    job,        \* each job run
    hub,        \* the hub's reclaim pass
    export,     \* the export of the day in hand
    late,       \* history: an export wrote a day after the request
    faults

database == <<deletion, steps, schema>>
nightly == <<export, late>>
vars == <<database, held, trashed, old, lock, job, hub, nightly, faults>>

IdleJob == [pc |-> "idle", todo |-> <<>>, waiting |-> FALSE]

Init ==
    /\ deletion = "none"
    /\ steps = {}
    /\ held = Stores
    /\ trashed = FALSE
    /\ schema = TRUE
    /\ old = OldDays
    /\ lock = NoJob
    /\ job = [j \in Jobs |-> IdleJob]
    /\ hub = "idle"
    /\ export = "idle"
    /\ late = FALSE
    /\ faults = 0

\* request_company_deletion, accepted: TenantLifecycle says when.
Request ==
    /\ deletion = "none"
    /\ deletion' = "requested"
    /\ UNCHANGED <<steps, schema, held, trashed, old, lock, job, hub, nightly, faults>>

\* record_company_deletion_step: only while the deletion is pending.
Recorded(s) ==
    IF deletion = "requested" THEN steps \cup {s} ELSE steps
-----------------------------------------------------------------------------
(* The delete job. *)

StartJob_AllStores(j) ==
    /\ job[j].pc = "idle"
    /\ lock = NoJob
    /\ deletion = "requested"
    /\ lock' = j
    /\ job' = [job EXCEPT ![j] = [pc |-> "store", waiting |-> FALSE, todo |-> Required]]
    /\ UNCHANGED <<database, held, trashed, old, hub, nightly, faults>>

\* run: take the lock, or leave; list the tenant with what is not recorded.
StartJob(j) ==
    /\ job[j].pc = "idle"
    /\ lock = NoJob
    /\ deletion = "requested"
    /\ lock' = j
    /\ job' = [job EXCEPT ![j] = [pc |-> "store", waiting |-> FALSE,
          todo |-> SelectSeq(Required, LAMBDA s : s \notin steps)]]
    /\ UNCHANGED <<database, held, trashed, old, hub, nightly, faults>>

\* What the job does next about a store: record it, or leave it for later.
ToRecord(j) == job' = [job EXCEPT ![j].pc = "record"]
LeaveWaiting(j) ==
    job' = [job EXCEPT ![j].todo = Tail(@), ![j].waiting = TRUE]

AtStore(j, s) ==
    /\ job[j].pc = "store"
    /\ job[j].todo # <<>>
    /\ Head(job[j].todo) = s

\* CapabilityStore.purge
PurgeCapabilities(j) ==
    /\ AtStore(j, "capability_store")
    /\ held' = held \ {"capability_store"}
    /\ ToRecord(j)
    /\ UNCHANGED <<database, trashed, old, lock, hub, nightly, faults>>

\* ColdStore.purge: delete what a listing shows until one shows nothing.
PurgeCold(j) ==
    /\ AtStore(j, "cold_layer")
    /\ held' = held \ {"cold_layer"}
    /\ IF "cold_layer" \in held THEN job' = job ELSE ToRecord(j)
    /\ UNCHANGED <<database, trashed, old, lock, hub, nightly, faults>>

PurgeTracking_Marked(j) ==
    /\ AtStore(j, "tracking_store")
    /\ trashed' = TRUE
    /\ ToRecord(j)
    /\ UNCHANGED <<database, held, old, lock, hub, nightly, faults>>

\* TrackingStore.purge: mark everything deleted; done once nothing remains.
PurgeTracking(j) ==
    /\ AtStore(j, "tracking_store")
    /\ trashed' = TRUE
    /\ IF "tracking_store" \in held THEN LeaveWaiting(j) ELSE ToRecord(j)
    /\ UNCHANGED <<database, held, old, lock, hub, nightly, faults>>

\* The job has no step for the volumes: the hub reclaims them.
SkipVolumes(j) ==
    /\ AtStore(j, "notebook_volumes")
    /\ LeaveWaiting(j)
    /\ UNCHANGED <<database, held, trashed, old, lock, hub, nightly, faults>>

\* DeviceCertificates.verify
VerifyCertificates(j) ==
    /\ AtStore(j, "device_certificates")
    /\ IF "device_certificates" \in held THEN LeaveWaiting(j) ELSE ToRecord(j)
    /\ UNCHANGED <<database, held, trashed, old, lock, hub, nightly, faults>>

\* broker_step: nothing to do, the retention is what is recorded.
AgeOutBroker(j) ==
    /\ AtStore(j, "broker")
    /\ ToRecord(j)
    /\ UNCHANGED <<database, held, trashed, old, lock, hub, nightly, faults>>

RecordStore(j) ==
    /\ job[j].pc = "record"
    /\ steps' = Recorded(Head(job[j].todo))
    /\ job' = [job EXCEPT ![j].pc = "store", ![j].todo = Tail(@)]
    /\ UNCHANGED <<deletion, schema, held, trashed, old, lock, hub, nightly, faults>>

\* The end of _delete: wait for the next run, or complete_company_deletion,
\* which checks the record again before it drops the schema.
EndJob(j) ==
    /\ job[j].pc = "store"
    /\ job[j].todo = <<>>
    /\ IF ~job[j].waiting /\ Stores \subseteq steps
       THEN /\ deletion' = "completed"
            /\ schema' = FALSE
            /\ old' = 0
       ELSE UNCHANGED <<deletion, schema, old>>
    /\ job' = [job EXCEPT ![j] = IdleJob]
    /\ lock' = NoJob
    /\ UNCHANGED <<steps, held, trashed, hub, nightly, faults>>

\* The run dies, or a step raises: its connection, and so its lock, goes.
StopJob(j) ==
    /\ job[j].pc # "idle"
    /\ faults < MaxFaults
    /\ faults' = faults + 1
    /\ job' = [job EXCEPT ![j] = IdleJob]
    /\ lock' = NoJob
    /\ UNCHANGED <<database, held, trashed, old, hub, nightly>>
-----------------------------------------------------------------------------
(* The hub, the tracking server, the certificate authority. *)

\* reclaim_once: delete the users, remove the volumes that remain, and leave
\* the tenant for the next pass when the backend still has one.
ReclaimVolumes ==
    /\ hub = "idle"
    /\ deletion = "requested"
    /\ "notebook_volumes" \notin steps
    /\ \/ /\ held' = held \ {"notebook_volumes"}
          /\ hub' = "record"
          /\ faults' = faults
       \/ /\ faults < MaxFaults
          /\ faults' = faults + 1
          /\ UNCHANGED <<held, hub>>
    /\ UNCHANGED <<database, trashed, old, lock, job, nightly>>

\* record_notebook_volumes_reclaimed
RecordVolumes ==
    /\ hub = "record"
    /\ steps' = Recorded("notebook_volumes")
    /\ hub' = "idle"
    /\ UNCHANGED <<deletion, schema, held, trashed, old, lock, job, nightly, faults>>

\* The tracking server collects what was marked deleted.
CollectTracking ==
    /\ trashed
    /\ "tracking_store" \in held
    /\ held' = held \ {"tracking_store"}
    /\ UNCHANGED <<database, trashed, old, lock, job, hub, nightly, faults>>

\* An operator runs device-ca.sh revoke-tenant and publishes the CRL.
RevokeCertificates ==
    /\ deletion = "requested"
    /\ "device_certificates" \in held
    /\ held' = held \ {"device_certificates"}
    /\ UNCHANGED <<database, trashed, old, lock, job, hub, nightly, faults>>
-----------------------------------------------------------------------------
(* The nightly export, which asks nothing about the tenant's status. *)

\* list_tenants, exportable_days, snapshot_day
ReadDay ==
    /\ export = "idle"
    /\ schema
    /\ old > 0
    /\ export' = "write"
    /\ UNCHANGED <<database, held, trashed, old, lock, job, hub, late, faults>>

\* write_part and write_manifest
WriteDay ==
    /\ export = "write"
    /\ held' = held \cup {"cold_layer"}
    /\ export' = "drop"
    /\ late' = (late \/ deletion # "none")
    /\ UNCHANGED <<database, trashed, old, lock, job, hub, faults>>

\* cold_export_drop_day, which fails once the schema is gone.
DropDay ==
    /\ export = "drop"
    /\ old' = IF schema THEN old - 1 ELSE old
    /\ export' = "idle"
    /\ UNCHANGED <<database, held, trashed, lock, job, hub, late, faults>>
-----------------------------------------------------------------------------
JobStep(j) ==
    \/ StartJob(j)
    \/ PurgeCapabilities(j)
    \/ PurgeCold(j)
    \/ PurgeTracking(j)
    \/ SkipVolumes(j)
    \/ VerifyCertificates(j)
    \/ AgeOutBroker(j)
    \/ RecordStore(j)
    \/ EndJob(j)

HubStep == ReclaimVolumes \/ RecordVolumes
ExportStep == ReadDay \/ WriteDay \/ DropDay

Done == deletion = "completed" /\ UNCHANGED vars

Next ==
    \/ Request
    \/ \E j \in Jobs : JobStep(j) \/ StopJob(j)
    \/ HubStep
    \/ CollectTracking
    \/ RevokeCertificates
    \/ ExportStep
    \/ Done

Spec == Init /\ [][Next]_vars

\* The job and the hub's pass run on timers, the tracking server collects on
\* its own schedule, the operator revokes; the export runs nightly.
FairSpec ==
    /\ Spec
    /\ \A j \in Jobs : WF_vars(JobStep(j))
    /\ WF_vars(HubStep)
    /\ WF_vars(CollectTracking)
    /\ WF_vars(RevokeCertificates)
    /\ WF_vars(ExportStep)
-----------------------------------------------------------------------------
\* The state's types; the run lock is held by exactly the run at work.
TypeOK ==
    /\ deletion \in {"none", "requested", "completed"}
    /\ steps \subseteq Stores
    /\ held \subseteq Stores
    /\ trashed \in BOOLEAN
    /\ schema \in BOOLEAN
    /\ old \in 0 .. OldDays
    /\ lock \in Jobs \cup {NoJob}
    /\ \A j \in Jobs :
          /\ job[j].pc \in {"idle", "store", "record"}
          /\ job[j].pc # "idle" <=> lock = j
          /\ job[j].pc = "record" => job[j].todo # <<>>
    /\ hub \in {"idle", "record"}
    /\ export \in {"idle", "write", "drop"}
    /\ late \in BOOLEAN
    /\ faults \in 0 .. MaxFaults

\* A store is recorded as emptied only when it holds nothing of the tenant,
\* and stays so (job.py records after the step; the tracking step answers
\* None until the server collected, the hub asks the backend).  The broker is
\* recorded with the time it keeps the readings until, and the cold layer may
\* be written again by an export of the tenant's days under deletion.  The
\* schema goes last: while anything required is not recorded the tenant's
\* rows, and its users, are still there (ADR-0033 decision 4).
RecordedEmpty ==
    /\ steps \cap held \subseteq {"broker"} \cup (IF late THEN {"cold_layer"} ELSE {})
    /\ schema \/ (deletion = "completed" /\ Stores \subseteq steps)

\* Delete removes the tenant from every store that holds its data (ADR-0033
\* decision 4): after completion only the broker may still hold something.
NothingLeft == deletion = "completed" => held \subseteq {"broker"}

\* Every requested deletion is completed, whatever crashes, and however the
\* job's runs, the hub's passes and the exports interleave.
Completes == deletion = "requested" ~> deletion = "completed"
=============================================================================
