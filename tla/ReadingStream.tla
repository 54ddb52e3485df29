---------------------------- MODULE ReadingStream ---------------------------
(***************************************************************************)
(* A reading's way into the database: the ingestion service appends it to  *)
(* the raw topic (services/ingestion_service), and the streaming job takes *)
(* the topic in micro-batches, dead-letters what cannot be written and     *)
(* upserts the rest tenant by tenant (kafka_to_timescaledb.py,             *)
(* reading_guard.py).  The aggregation job follows the same topic in a     *)
(* query of its own and writes windows (kafka_aggregations.py).            *)
(* The two jobs read nothing the other writes, so a behaviour has one of   *)
(* them, "job", at work.                                                   *)
(*                                                                         *)
(* The engine is Structured Streaming as the job relies on it: a batch's   *)
(* end offset is in the checkpoint before the batch runs, so a batch that  *)
(* fails or dies is run again over the same readings, and the batch counts *)
(* as done only when foreachBatch returned.                                *)
(***************************************************************************)
EXTENDS Integers, Sequences, FiniteSetsExt

CONSTANTS
    Readings,   \* what devices send: tenant, sensor, at (event time), val, kind
    MaxLog,     \* bound: messages on the topic
    BatchMax,   \* maxOffsetsPerTrigger
    MaxFaults,  \* bound: failures and restarts
    MaxChanges, \* bound: suspensions, reactivations and sensor removals
    Width,      \* the width of an aggregation window
    Lateness    \* how late a reading may be for its window

ASSUME ConstAssumption ==
    /\ MaxLog \in Nat
    /\ BatchMax \in Nat \ {0}
    /\ MaxFaults \in Nat
    /\ MaxChanges \in Nat
    /\ Width \in Nat \ {0}
    /\ Lateness \in Nat
    /\ \A r \in Readings : r.kind \in {"ok", "bad"} /\ r.at \in Nat
    /\ \A r, q \in Readings : r.sensor = q.sensor => r.tenant = q.tenant

Tenants == {r.tenant : r \in Readings}
Sensors == {r.sensor : r \in Readings}

\* The natural key of a measurement.
Key(r) == <<r.sensor, r.at>>

VARIABLES
    log,        \* the raw topic
    acked,      \* readings a device was told were accepted
    active,     \* tenants the registry holds as active
    known,      \* registered sensors
    rows,       \* sensor_measurements: key and value
    dlq,        \* offsets on the dead-letter topic
    checkpoint, \* the offset up to which batches are done
    batch,      \* the batch in hand
    settled,    \* history: suspended tenants looked up since they were suspended
    job,        \* the job at work
    win,        \* the aggregation job's checkpoint, window state and batch in hand
    aggs,       \* sensor_aggregations: sensor, window end, and the readings aggregated
    faults,
    changes

registry == <<active, known, changes>>
windows == <<win, aggs>>
measured == <<rows, dlq, checkpoint, batch, settled>>
vars == <<log, acked, registry, rows, dlq, checkpoint, batch, settled, job, windows, faults>>

NoBatch == [pc |-> "idle", last |-> 0, ok |-> {}, todo |-> {}]
NoWindows(from) == [pc |-> "idle", start |-> from, done |-> from, last |-> from, mark |-> 0,
                    open |-> {}, todo |-> {}]

Init ==
    /\ log = <<>>
    /\ acked = {}
    /\ active = Tenants
    /\ known \in {Sensors, Sensors \ {CHOOSE k \in Sensors : TRUE}}
    /\ rows = {}
    /\ dlq = {}
    /\ checkpoint = 0
    /\ batch = NoBatch
    /\ settled = {}
    /\ job \in {"streaming", "aggregations"}
    /\ win = NoWindows(0)
    /\ aggs = {}
    /\ faults = 0
    /\ changes = 0

Fault ==
    /\ faults < MaxFaults
    /\ faults' = faults + 1
-----------------------------------------------------------------------------
(* Ingestion, and the operator's replay of dead letters. *)

\* ingest_sensor_data: accepted once the broker acknowledged the append.
\* Whether the tenant-status stream lets the tenant in is up to that stream.
Ingest(r) ==
    /\ Len(log) < MaxLog
    /\ log' = Append(log, r)
    /\ acked' = acked \cup {r}
    /\ UNCHANGED <<registry, rows, dlq, checkpoint, batch, settled, job, windows, faults>>

\* send_sensor_data failed, perhaps after the append: the device gets a 503.
IngestFails(r) ==
    /\ Fault
    /\ Len(log) < MaxLog
    /\ log' = Append(log, r)
    /\ UNCHANGED <<acked, registry, rows, dlq, checkpoint, batch, settled, job, windows>>

\* scripts/dead-letters.sh replay
Replay(i) ==
    /\ Len(log) < MaxLog
    /\ log' = Append(log, log[i])
    /\ UNCHANGED <<acked, registry, rows, dlq, checkpoint, batch, settled, job, windows, faults>>
-----------------------------------------------------------------------------
(* The registry changes under the stream. *)

Change ==
    /\ changes < MaxChanges
    /\ changes' = changes + 1

Suspend(t) ==
    /\ Change
    /\ t \in active
    /\ active' = active \ {t}
    /\ UNCHANGED <<log, acked, known, rows, dlq, checkpoint, batch, settled, job, windows, faults>>

Reactivate(t) ==
    /\ Change
    /\ t \notin active
    /\ active' = active \cup {t}
    /\ settled' = settled \ {t}
    /\ UNCHANGED <<log, acked, known, rows, dlq, checkpoint, batch, job, windows, faults>>

\* A sensor is deleted: its measurements go with it (ON DELETE CASCADE).
RemoveSensor(k) ==
    /\ Change
    /\ k \in known
    /\ known' = known \ {k}
    /\ rows' = {x \in rows : x.key[1] # k}
    /\ UNCHANGED <<log, acked, active, dlq, checkpoint, batch, settled, job, windows, faults>>
-----------------------------------------------------------------------------
(* The aggregation job. *)

\* parse_readings and rejection_reason: the reading is one by itself.
WellFormed(i) == log[i].kind = "ok"

\* The end of the window a reading falls in.
WindowEnd(i) == (log[i].at \div Width + 1) * Width

WindowBatch == win.done + 1 .. win.last

\* The readings the batch adds to the window state: a window the watermark passed takes none.
Fresh == {i \in WindowBatch : WellFormed(i) /\ WindowEnd(i) > win.mark}

\* The readings of the windows that close: the watermark has reached their end.
Closing == {i \in win.open : WindowEnd(i) <= win.mark}

WindowWork == win.done < Len(log) \/ Closing # {}

NextMark_All == Max({win.mark} \cup {log[i].at - Lateness : i \in WindowBatch})

\* The watermark follows the newest event time, rejected readings left out.
NextMark == Max({win.mark} \cup {log[i].at - Lateness : i \in {j \in WindowBatch : WellFormed(j)}})

\* A trigger fires with new messages, or with windows to close.
PlanWindows ==
    /\ job = "aggregations" /\ win.pc = "idle"
    /\ WindowWork
    /\ win' = [win EXCEPT !.pc = "write", !.last = Min({win.done + BatchMax, Len(log)}),
                          !.todo = {log[i].tenant : i \in Closing}]
    /\ UNCHANGED <<log, acked, registry, measured, job, aggs, faults>>

\* The aggregates of a tenant's closing windows.
Aggregates(S) ==
    {[sensor |-> log[i].sensor, end |-> WindowEnd(i),
      of |-> {j \in S : log[j].sensor = log[i].sensor /\ WindowEnd(j) = WindowEnd(i)}] : i \in S}

\* write_aggregations_to_db, one tenant's transaction: what the registry refuses is left out,
\* the rest replaces what its key held.
WriteWindows(t) ==
    LET S == {i \in Closing : log[i].tenant = t /\ t \in active /\ log[i].sensor \in known}
        new == Aggregates(S)
    IN
    /\ win.pc = "write" /\ t \in win.todo
    /\ aggs' = {x \in aggs : \A y \in new : <<x.sensor, x.end>> # <<y.sensor, y.end>>} \cup new
    /\ win' = [win EXCEPT !.todo = @ \ {t}]
    /\ UNCHANGED <<log, acked, registry, measured, job, faults>>

CommitWindows ==
    /\ win.pc = "write" /\ win.todo = {}
    /\ win' = [win EXCEPT !.pc = "idle", !.done = win.last, !.mark = NextMark,
                          !.open = (win.open \cup Fresh) \ Closing]
    /\ UNCHANGED <<log, acked, registry, measured, job, aggs, faults>>

\* A tenant's write fails or the job dies: the batch runs again from the state before it.
FailWindows ==
    /\ Fault
    /\ win.pc = "write"
    /\ win' = [win EXCEPT !.todo = {log[i].tenant : i \in Closing}]
    /\ UNCHANGED <<log, acked, registry, measured, job, aggs>>

\* The job is started with another partition count: a checkpoint of its own, from the latest
\* offset and without window state.
Repartition ==
    /\ Fault
    /\ job = "aggregations"
    /\ win' = NoWindows(Len(log))
    /\ UNCHANGED <<log, acked, registry, measured, job, aggs>>
-----------------------------------------------------------------------------
(* The streaming job. *)

InBatch == checkpoint + 1 .. batch.last

\* A trigger fires with new messages: the batch's end is checkpointed.
PlanBatch ==
    /\ job = "streaming"
    /\ batch.pc = "idle"
    /\ checkpoint < Len(log)
    /\ batch' = [NoBatch EXCEPT !.pc = "lookup",
                                !.last = Min({checkpoint + BatchMax, Len(log)})]
    /\ UNCHANGED <<log, acked, registry, rows, dlq, checkpoint, settled, job, windows, faults>>

\* A trigger fires with nothing new.
IdleTrigger ==
    /\ IF job = "streaming" THEN batch.pc = "idle" /\ checkpoint = Len(log)
                            ELSE win.pc = "idle" /\ ~WindowWork
    /\ UNCHANGED vars

\* classify_references: the readings that can be written.
Writable(ts, ks) ==
    {i \in InBatch : WellFormed(i) /\ log[i].tenant \in ts /\ log[i].sensor \in ks}

Lookup_Cached ==
    /\ batch.pc = "lookup"
    /\ batch' = [batch EXCEPT !.pc = "letters", !.ok = Writable(Tenants, known)]
    /\ settled' = Tenants \ active
    /\ UNCHANGED <<log, acked, registry, rows, dlq, checkpoint, job, windows, faults>>

\* lookup_references: once per batch, before anything is written.
Lookup ==
    /\ batch.pc = "lookup"
    /\ batch' = [batch EXCEPT !.pc = "letters", !.ok = Writable(active, known)]
    /\ settled' = Tenants \ active
    /\ UNCHANGED <<log, acked, registry, rows, dlq, checkpoint, job, windows, faults>>

\* publish_dead_letters, before any row of the batch is written.
DeadLetter ==
    /\ batch.pc = "letters"
    /\ dlq' = dlq \cup (InBatch \ batch.ok)
    /\ batch' = [batch EXCEPT !.pc = "write", !.todo = {log[i].tenant : i \in batch.ok}]
    /\ UNCHANGED <<log, acked, registry, rows, checkpoint, settled, job, windows, faults>>

Upserted_Replace(S) ==
    {x \in rows : \A i \in S : x.key # Key(log[i])}
        \cup {[key |-> Key(log[i]), val |-> log[i].val] : i \in S}

\* ON CONFLICT (time, sensor_id) DO NOTHING: of several readings of a key the
\* first one there stays; within one statement that is the earliest.
Upserted(S) ==
    rows \cup {[key |-> Key(log[i]), val |-> log[i].val] : i \in
        {j \in S : /\ \A x \in rows : x.key # Key(log[j])
                   /\ \A k \in S : Key(log[k]) = Key(log[j]) => j <= k}}

TenantRows(t) == {i \in batch.ok : log[i].tenant = t}

\* One tenant's rows, whose sensors must still be there (foreign key).
WriteTenant(t) ==
    /\ batch.pc = "write"
    /\ t \in batch.todo
    /\ \A i \in TenantRows(t) : log[i].sensor \in known
    /\ rows' = Upserted(TenantRows(t))
    /\ batch' = [batch EXCEPT !.todo = @ \ {t}]
    /\ UNCHANGED <<log, acked, registry, dlq, checkpoint, settled, job, windows, faults>>

\* A sensor went between lookup and write: the insert fails, and the batch.
WriteRefused(t) ==
    /\ batch.pc = "write"
    /\ t \in batch.todo
    /\ \E i \in TenantRows(t) : log[i].sensor \notin known
    /\ batch' = [batch EXCEPT !.pc = "lookup"]
    /\ UNCHANGED <<log, acked, registry, rows, dlq, checkpoint, settled, job, windows, faults>>

FailBatch_Advances ==
    /\ Fault
    /\ batch.pc # "idle"
    /\ checkpoint' = batch.last
    /\ batch' = NoBatch
    /\ UNCHANGED <<log, acked, registry, rows, dlq, settled, job, windows>>

FailBatch_Parks ==
    /\ Fault
    /\ batch.pc # "idle"
    /\ batch' = [batch EXCEPT !.pc = "failed"]
    /\ UNCHANGED <<log, acked, registry, rows, dlq, checkpoint, settled, job, windows>>

\* The batch fails or the job dies: some partitions of the tenant in hand may
\* have committed.  The same readings are run again, looked up afresh.
FailBatch ==
    /\ Fault
    /\ batch.pc # "idle"
    /\ IF batch.pc = "write" /\ batch.todo # {}
       THEN \E t \in batch.todo :
              \E S \in SUBSET {i \in TenantRows(t) : log[i].sensor \in known} :
                  rows' = Upserted(S)
       ELSE rows' = rows
    /\ batch' = [batch EXCEPT !.pc = "lookup"]
    /\ UNCHANGED <<log, acked, registry, dlq, checkpoint, settled, job, windows>>

CommitBatch ==
    /\ batch.pc = "write"
    /\ batch.todo = {}
    /\ checkpoint' = batch.last
    /\ batch' = NoBatch
    /\ UNCHANGED <<log, acked, registry, rows, dlq, settled, job, windows, faults>>
-----------------------------------------------------------------------------
WindowStep ==
    \/ PlanWindows
    \/ \E t \in Tenants : WriteWindows(t)
    \/ CommitWindows

JobStep ==
    \/ WindowStep
    \/ PlanBatch
    \/ Lookup
    \/ DeadLetter
    \/ \E t \in Tenants : WriteTenant(t) \/ WriteRefused(t)
    \/ CommitBatch

Next ==
    \/ \E r \in Readings : Ingest(r) \/ IngestFails(r)
    \/ \E i \in dlq : Replay(i)
    \/ \E t \in Tenants : Suspend(t) \/ Reactivate(t)
    \/ \E k \in Sensors : RemoveSensor(k)
    \/ JobStep
    \/ IdleTrigger
    \/ FailBatch \/ FailWindows \/ Repartition

Spec == Init /\ [][Next]_vars

\* Triggers keep firing, and a job that ends is restarted.
FairSpec == Spec /\ WF_vars(JobStep)
-----------------------------------------------------------------------------
\* No reading is dropped: every message behind the checkpoint is recorded (by
\* it or by an earlier reading of its key), is a dead letter, or was of a
\* sensor since deleted (process_batch: "Any failure re-raises so Spark
\* retries the batch").
NothingDropped ==
    \A i \in 1 .. checkpoint :
        \/ i \in dlq
        \/ \E x \in rows : x.key = Key(log[i])
        \/ log[i].sensor \notin known

\* A measurement has one value, and once recorded it is never rewritten by a
\* redelivery, a replay or another message of the same key (ADR-0006
\* decision 3, first write wins).
FirstWriteWins ==
    [][\A x \in rows : \A y \in rows' : x.key = y.key => x.val = y.val]_vars

\* A suspended tenant gets rows only from a lookup that preceded its
\* suspension: from the next lookup on the job writes nothing of it, retries
\* included (reading_guard refuses it from the registry, ADR-0033 decision 3).
SuspendedSettles ==
    [][\A r \in Readings :
         r.tenant \in settled =>
             \A y \in rows' \ rows : y.key # Key(r)]_vars

\* An accepted reading ends up recorded or dead-lettered, unless its sensor is
\* deleted (ingest_sensor_data answers 202 "queued for processing").
AckedEndsUp ==
    \A r \in Readings :
        (job = "streaming" /\ r \in acked) ~>
            (\/ \E x \in rows : x.key = Key(r)
             \/ \E i \in dlq : log[i] = r
             \/ r.sensor \notin known)

\* No reading comes later than the lateness allows.
InTime ==
    \A i, j \in 1 .. Len(log) :
        i < j /\ WellFormed(i) /\ WellFormed(j) => log[j].at + Lateness >= log[i].at

\* latest_emitted_window: the newest window whose row is written by event time t.
LatestEmitted(t) == (t - Lateness) \div Width - 1

EmittedBy(i, last) ==
    \E j \in 1 .. last : WellFormed(j) /\ WindowEnd(i) \div Width - 1 <= LatestEmitted(log[j].at)

\* While readings come in time, a window's row holds every reading of the window the topic ever
\* gets, malformed ones and their times moving nothing (aggregate_readings); it is written no
\* earlier than the window contract tells serving and training, and, the registry unchanged and
\* the job caught up, no later (latest_emitted_window, write_aggregations_to_db).
WindowsWhole ==
    InTime =>
        /\ \A x \in aggs : \A i \in win.start + 1 .. Len(log) :
              WellFormed(i) /\ log[i].sensor = x.sensor /\ WindowEnd(i) = x.end => i \in x.of
        /\ \A x \in aggs : \A i \in x.of : EmittedBy(i, win.done)
        /\ win.pc = "idle" /\ ~WindowWork /\ changes = 0 /\ faults = 0 =>
              \A i \in 1 .. win.done :
                  WellFormed(i) /\ log[i].sensor \in known /\ EmittedBy(i, win.done) =>
                      \E x \in aggs : i \in x.of
=============================================================================
