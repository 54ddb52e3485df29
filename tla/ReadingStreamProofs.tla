------------------------ MODULE ReadingStreamProofs -------------------------
(***************************************************************************)
(* The streaming job drops nothing, never rewrites a measurement and, from *)
(* a lookup on, writes nothing of a suspended tenant: for any readings,    *)
(* topic length, batch size, failures and changes of the registry.         *)
(***************************************************************************)
EXTENDS ReadingStream, FiniteSetTheorems, WellFoundedInduction, TLAPS

Batches == [pc : {"idle", "lookup", "letters", "write"}, last : Nat, ok : SUBSET Nat, todo : SUBSET Tenants]

Types ==
    /\ log \in Seq(Readings)
    /\ dlq \subseteq 1 .. Len(log)
    /\ checkpoint \in Nat /\ checkpoint <= Len(log)
    /\ batch \in Batches
    /\ batch.last <= Len(log)
    /\ batch.ok \subseteq 1 .. batch.last

\* A measurement has one row.
OneRow == \A x, y \in rows : x.key = y.key => x = y

\* A reading is accounted for: recorded under its key, or its sensor is gone.
Recorded(i) == (\E x \in rows : x.key = Key(log[i])) \/ log[i].sensor \notin known

\* What the batch in hand has done: it writes what its lookup let through, nothing of a tenant
\* that lookup found suspended; the rest is dead-lettered before the first write, and a tenant
\* no longer to do is recorded.
BatchInv ==
    /\ batch.pc \in {"letters", "write"} =>
         \A i \in batch.ok : log[i].tenant \notin settled
    /\ batch.pc = "write" =>
         /\ \A i \in InBatch : i \in batch.ok \/ i \in dlq
         /\ \A i \in batch.ok : log[i].tenant \in batch.todo \/ Recorded(i)

IInv == Types /\ OneRow /\ BatchInv /\ NothingDropped

\* What an upsert adds has the key of a reading it was given and of no row there was; every
\* reading it was given has its row after it.
LEMMA UpsertedAdds ==
    ASSUME OneRow, NEW S \in SUBSET (1 .. Len(log)), log \in Seq(Readings)
    PROVE  /\ rows \subseteq Upserted(S)
           /\ \A y \in Upserted(S) \ rows :
                 (\E i \in S : y.key = Key(log[i])) /\ \A x \in rows : x.key # y.key
           /\ \A x, y \in Upserted(S) : x.key = y.key => x = y
           /\ \A i \in S : \E x \in Upserted(S) : x.key = Key(log[i])
<1> DEFINE First == {j \in S : /\ \A x \in rows : x.key # Key(log[j])
                               /\ \A k \in S : Key(log[k]) = Key(log[j]) => j <= k}
           Row(i) == [key |-> Key(log[i]), val |-> log[i].val]
<1>1. Upserted(S) = rows \cup {Row(i) : i \in First}
  BY DEF Upserted
<1>2. \A i \in First : Row(i).key = Key(log[i]) /\ i \in S /\ \A x \in rows : x.key # Key(log[i])
  OBVIOUS
<1>3. ASSUME NEW i \in First, NEW j \in First, Key(log[i]) = Key(log[j]) PROVE i = j
  <2>1. i <= j /\ j <= i /\ i \in Int /\ j \in Int
    BY <1>3
  <2> QED BY <2>1
<1>4. \A x, y \in Upserted(S) : x.key = y.key => x = y
  <2> HIDE DEF First, Row
  <2> SUFFICES ASSUME NEW x \in Upserted(S), NEW y \in Upserted(S), x.key = y.key PROVE x = y
    OBVIOUS
  <2>1. CASE x \in rows /\ y \in rows
    BY <2>1 DEF OneRow
  <2>2. CASE x \notin rows /\ y \notin rows
    BY <2>2, <1>1, <1>2, <1>3
  <2>3. CASE (x \in rows) # (y \in rows)
    BY <2>3, <1>1, <1>2
  <2> QED BY <2>1, <2>2, <2>3
<1>5. ASSUME NEW i \in S PROVE \E x \in Upserted(S) : x.key = Key(log[i])
  <2>1. CASE \E x \in rows : x.key = Key(log[i])
    BY <2>1, <1>1
  <2>2. CASE \A x \in rows : x.key # Key(log[i])
    <3> DEFINE T == {k \in S : Key(log[k]) = Key(log[i])}
    <3>1. T \in SUBSET Nat /\ i \in T
      <4>1. S \subseteq Nat
        OBVIOUS
      <4> QED BY <4>1, Zenon
    <3>2. PICK j \in T : \A k \in T : j <= k
      <4> DEFINE R == OpToRel(<, Nat)
      <4>1. PICK j \in T : \A k \in T : <<k, j>> \notin R
        <5> HIDE DEF T, R
        <5>1. IsWellFoundedOn(R, Nat)
          BY NatLessThanWellFounded, Zenon DEF R
        <5> QED BY <3>1, <5>1, WFMin, Zenon
      <4>2. \A k \in T : ~(k < j)
        BY <3>1, <4>1, Zenon DEF OpToRel
      <4>3. \A k \in T : j <= k
        <5> HIDE DEF T
        <5> QED BY <3>1, <4>2
      <4> QED BY <4>3
    <3>3. j \in First
      BY <2>2, <3>2
    <3> QED BY <1>1, <1>2, <3>2, <3>3, Zenon
  <2> QED BY <2>1, <2>2
<1>6. \A y \in Upserted(S) \ rows :
         (\E i \in S : y.key = Key(log[i])) /\ \A x \in rows : x.key # y.key
  <2> HIDE DEF First, Row
  <2> QED BY <1>1, <1>2, Zenon
<1> QED BY <1>1, <1>4, <1>5, <1>6, Zenon

\* The invariant holds throughout.
LEMMA Invariance == Spec => []IInv
<1>1. Init => IInv
  <2> SUFFICES ASSUME Init PROVE IInv
    OBVIOUS
  <2>1. Types
    BY DEF Init, Types, NoBatch, Batches
  <2>2. OneRow /\ BatchInv /\ NothingDropped
    BY DEF Init, OneRow, BatchInv, NoBatch, NothingDropped
  <2> QED BY <2>1, <2>2 DEF IInv
<1>2. IInv /\ [Next]_vars => IInv'
  <2> SUFFICES ASSUME IInv, [Next]_vars PROVE IInv'
    OBVIOUS
  <2> USE DEF IInv
  <2>1. ASSUME \E r \in Readings : log' = Append(log, r),
               UNCHANGED <<known, rows, dlq, checkpoint, batch, settled>>
        PROVE  IInv'
    <3>1. log' \in Seq(Readings) /\ Len(log') = Len(log) + 1 /\ \A i \in 1 .. Len(log) : log'[i] = log[i]
      BY <2>1 DEF Types
    <3>2. Types'
      BY <2>1, <3>1 DEF Types, Batches
    <3>3. \A i \in 1 .. checkpoint : log'[i] = log[i]
      BY <3>1 DEF Types
    <3>4. \A i \in batch.ok : log'[i] = log[i]
      BY <3>1 DEF Types, Batches
    <3>5. OneRow' /\ NothingDropped'
      BY <2>1, <3>3, Zenon DEF OneRow, NothingDropped, Key
    <3>6. BatchInv'
      BY <2>1, <3>4, Zenon DEF BatchInv, Recorded, InBatch, Key
    <3> QED BY <3>2, <3>5, <3>6
  <2>2. ASSUME UNCHANGED <<log, known, rows, dlq, checkpoint, batch>>, settled' \subseteq settled
        PROVE  IInv'
    BY <2>2 DEF Types, OneRow, BatchInv, NothingDropped, Recorded, InBatch
  <2>3. ASSUME NEW k \in Sensors, RemoveSensor(k) PROVE IInv'
    <3>1. /\ UNCHANGED <<log, dlq, checkpoint, batch, settled>>
          /\ known' = known \ {k}
          /\ rows' = {x \in rows : x.key[1] # k}
      BY <2>3 DEF RemoveSensor
    <3>2. Types' /\ OneRow'
      BY <3>1 DEF Types, OneRow
    <3>3. \A i : (\E x \in rows : x.key = Key(log[i])) \/ log[i].sensor \notin known
              => (\E x \in rows' : x.key = Key(log[i])) \/ log[i].sensor \notin known'
      BY <3>1 DEF Key
    <3>4. BatchInv' /\ NothingDropped'
      BY <3>1, <3>3 DEF BatchInv, NothingDropped, Recorded, InBatch
    <3> QED BY <3>2, <3>4
  <2>4. CASE PlanBatch
    <3> DEFINE last == Min({checkpoint + BatchMax, Len(log)})
    <3>1. last \in Nat /\ last <= Len(log)
      BY ConstAssumption DEF Types, Min
    <3>2. batch' = [pc |-> "lookup", last |-> last, ok |-> {}, todo |-> {}]
          /\ UNCHANGED <<log, known, rows, dlq, checkpoint, settled>>
      BY <2>4, Zenon DEF PlanBatch, NoBatch, registry
    <3> HIDE DEF last
    <3> QED BY <3>1, <3>2 DEF Types, Batches, OneRow, BatchInv, NothingDropped
  <2>5. CASE Lookup
    <3>1. /\ batch' = [batch EXCEPT !.pc = "letters", !.ok = Writable(active, known)]
          /\ settled' = Tenants \ active
          /\ UNCHANGED <<log, known, rows, dlq, checkpoint>>
      BY <2>5 DEF Lookup, registry
    <3>2. Writable(active, known) \subseteq 1 .. batch.last
          /\ \A i \in Writable(active, known) : log[i].tenant \in active
      BY DEF Writable, InBatch, Types, Batches
    <3>3. batch'.pc = "letters" /\ batch'.ok = Writable(active, known) /\ batch'.last = batch.last
          /\ batch' \in Batches
      <4>1. Writable(active, known) \in SUBSET Nat
        BY <3>2 DEF Types, Batches
      <4> QED BY <3>1, <4>1, Zenon DEF Types, Batches
    <3>4. Types'
      BY <3>1, <3>2, <3>3 DEF Types
    <3>5. BatchInv'
      BY <3>1, <3>2, <3>3 DEF BatchInv
    <3> QED BY <3>1, <3>4, <3>5 DEF OneRow, NothingDropped
  <2>6. CASE DeadLetter
    <3>1. /\ batch.pc = "letters"
          /\ dlq' = dlq \cup (InBatch \ batch.ok)
          /\ batch' = [batch EXCEPT !.pc = "write", !.todo = {log[i].tenant : i \in batch.ok}]
          /\ UNCHANGED <<log, known, rows, checkpoint, settled>>
      BY <2>6 DEF DeadLetter, registry
    <3>2. InBatch \subseteq 1 .. Len(log) /\ {log[i].tenant : i \in batch.ok} \subseteq Tenants
      BY SMTT(30) DEF Types, Batches, InBatch, Tenants
    <3>3. batch'.pc = "write" /\ batch'.ok = batch.ok /\ batch'.last = batch.last
          /\ batch'.todo = {log[i].tenant : i \in batch.ok} /\ batch' \in Batches
      BY <3>1, <3>2, Zenon DEF Types, Batches
    <3>4. Types'
      BY <3>1, <3>2, <3>3 DEF Types
    <3>5. BatchInv'
      BY <3>1, <3>3 DEF BatchInv, InBatch
    <3> QED BY <3>1, <3>4, <3>5 DEF OneRow, NothingDropped
  <2>7. ASSUME NEW S \in SUBSET (1 .. Len(log)), rows' = Upserted(S), batch' \in Batches, BatchInv',
               batch'.last = batch.last, batch'.ok = batch.ok,
               UNCHANGED <<log, known, dlq, checkpoint>>
        PROVE  IInv'
    <3>1. /\ rows \subseteq rows'
          /\ \A x, y \in rows' : x.key = y.key => x = y
      BY <2>7, UpsertedAdds DEF Types
    <3>2. Types'
      BY <2>7 DEF Types
    <3>3. NothingDropped'
      BY <2>7, <3>1 DEF NothingDropped
    <3> QED BY <2>7, <3>1, <3>2, <3>3 DEF OneRow
  <2>8. ASSUME NEW t \in Tenants, WriteTenant(t) PROVE IInv'
    <3>1. /\ batch.pc = "write"
          /\ rows' = Upserted(TenantRows(t))
          /\ batch' = [batch EXCEPT !.todo = @ \ {t}]
          /\ UNCHANGED <<log, known, dlq, checkpoint, settled>>
      BY <2>8 DEF WriteTenant, registry
    <3>2. TenantRows(t) \in SUBSET (1 .. Len(log))
      BY DEF TenantRows, Types, Batches
    <3>3. rows \subseteq rows' /\ \A i \in TenantRows(t) : \E x \in rows' : x.key = Key(log[i])
      BY <3>1, <3>2, UpsertedAdds DEF Types
    <3>4. batch'.pc = "write" /\ batch'.ok = batch.ok /\ batch'.last = batch.last
          /\ batch'.todo = batch.todo \ {t} /\ batch' \in Batches
      BY <3>1 DEF Types, Batches
    <3>5. ASSUME NEW i \in batch.ok PROVE log[i].tenant \in batch'.todo \/ Recorded(i)'
      <4>1. CASE i \in TenantRows(t)
        BY <4>1, <3>1, <3>3 DEF Recorded
      <4>2. CASE i \notin TenantRows(t)
        BY <4>2, <3>1, <3>3, <3>4 DEF Recorded, BatchInv, TenantRows
      <4> QED BY <4>1, <4>2
    <3>6. BatchInv'
      BY <3>1, <3>4, <3>5 DEF BatchInv, InBatch
    <3> QED BY <2>7, <3>1, <3>2, <3>4, <3>6
  <2>9. ASSUME NEW t \in Tenants, WriteRefused(t) PROVE IInv'
    <3>1. batch' = [batch EXCEPT !.pc = "lookup"] /\ UNCHANGED <<log, known, rows, dlq, checkpoint>>
      BY <2>9 DEF WriteRefused, registry
    <3>2. batch'.pc = "lookup" /\ batch'.ok = batch.ok /\ batch'.last = batch.last /\ batch' \in Batches
      BY <3>1 DEF Types, Batches
    <3> QED BY <3>1, <3>2 DEF Types, OneRow, BatchInv, NothingDropped
  <2>10. CASE FailBatch
    <3>1. batch' = [batch EXCEPT !.pc = "lookup"] /\ UNCHANGED <<log, known, dlq, checkpoint>>
      BY <2>10 DEF FailBatch, registry
    <3>2. batch'.pc = "lookup" /\ batch'.ok = batch.ok /\ batch'.last = batch.last /\ batch' \in Batches
      BY <3>1 DEF Types, Batches
    <3>3. BatchInv'
      BY <3>2 DEF BatchInv
    <3>4. CASE rows' = rows
      BY <3>1, <3>2, <3>3, <3>4 DEF Types, OneRow, NothingDropped
    <3>5. ASSUME NEW t \in batch.todo, NEW S \in SUBSET TenantRows(t), rows' = Upserted(S) PROVE IInv'
      <4>1. S \in SUBSET (1 .. Len(log))
        BY DEF TenantRows, Types, Batches
      <4> QED BY <2>7, <3>1, <3>2, <3>3, <3>5, <4>1
    <3>6. rows' = rows \/ \E t \in batch.todo : \E S \in SUBSET TenantRows(t) : rows' = Upserted(S)
      BY <2>10 DEF FailBatch
    <3> QED BY <3>4, <3>5, <3>6
  <2>11. CASE CommitBatch
    <3>1. /\ batch.pc = "write" /\ batch.todo = {}
          /\ checkpoint' = batch.last /\ batch' = NoBatch
          /\ UNCHANGED <<log, known, rows, dlq, settled>>
      BY <2>11 DEF CommitBatch, registry
    <3>2. Types'
      BY <3>1 DEF Types, Batches, NoBatch
    <3>3. BatchInv'
      BY <3>1 DEF BatchInv, NoBatch
    <3>4. ASSUME NEW i \in 1 .. batch.last
          PROVE  i \in dlq \/ (\E x \in rows : x.key = Key(log[i])) \/ log[i].sensor \notin known
      <4>1. CASE i \in 1 .. checkpoint
        BY <4>1 DEF NothingDropped
      <4>2. CASE i \notin 1 .. checkpoint
        <5>1. i \in InBatch
          BY <4>2 DEF InBatch, Types, Batches
        <5> QED BY <5>1, <3>1 DEF BatchInv, Recorded
      <4> QED BY <4>1, <4>2
    <3>5. OneRow' /\ NothingDropped'
      BY <3>1, <3>4 DEF OneRow, NothingDropped
    <3> QED BY <3>2, <3>3, <3>5
  <2>12. CASE \/ \E r \in Readings : Ingest(r) \/ IngestFails(r)
              \/ \E i \in dlq : Replay(i)
    <3>1. \E r \in Readings : log' = Append(log, r)
      BY <2>12 DEF Ingest, IngestFails, Replay, Types
    <3>2. UNCHANGED <<known, rows, dlq, checkpoint, batch, settled>>
      BY <2>12 DEF Ingest, IngestFails, Replay, registry
    <3> QED BY <2>1, <3>1, <3>2
  <2>13. CASE \E t \in Tenants : Suspend(t) \/ Reactivate(t)
    BY <2>2, <2>13 DEF Suspend, Reactivate
  <2>14. CASE WindowStep \/ IdleTrigger \/ FailWindows \/ Repartition \/ UNCHANGED vars
    <3>1. UNCHANGED <<log, known, measured>>
      BY <2>14, Zenon DEF WindowStep, PlanWindows, WriteWindows, CommitWindows, IdleTrigger, FailWindows,
                   Repartition, registry, measured, vars
    <3> QED BY <3>1, <2>2 DEF measured
  <2> QED BY <2>3, <2>4, <2>5, <2>6, <2>8, <2>9, <2>10, <2>11, <2>12, <2>13, <2>14 DEF Next, JobStep
<1> QED BY <1>1, <1>2, PTL DEF Spec

\* No reading behind the checkpoint is dropped, whatever fails and whatever is suspended or
\* removed meanwhile (process_batch, publish_dead_letters, write_to_db).
THEOREM NoReadingDropped == Spec => []NothingDropped
<1>1. IInv => NothingDropped
  BY DEF IInv
<1> QED BY <1>1, Invariance, PTL

\* What a step of the streaming job does to the measurements: they stay, or they are an upsert of
\* readings its lookup let through, or a sensor's are deleted with it.
LEMMA RowsStep ==
    ASSUME IInv, [Next]_vars
    PROVE  \/ rows' \subseteq rows
           \/ /\ batch.pc = "write"
              /\ \E S \in SUBSET batch.ok : rows' = Upserted(S)
<1>1. CASE \E k \in Sensors : RemoveSensor(k)
  BY <1>1 DEF RemoveSensor
<1>2. CASE \E t \in Tenants : WriteTenant(t)
  BY <1>2, Zenon DEF WriteTenant, TenantRows
<1>3. CASE FailBatch
  <2>1. \A t : TenantRows(t) \subseteq batch.ok
    BY DEF TenantRows
  <2> QED BY <1>3, <2>1 DEF FailBatch
<1>4. CASE \/ \E r \in Readings : Ingest(r) \/ IngestFails(r)
           \/ \E i \in dlq : Replay(i)
           \/ \E t \in Tenants : Suspend(t) \/ Reactivate(t) \/ WriteRefused(t) \/ WriteWindows(t)
           \/ PlanWindows \/ CommitWindows \/ PlanBatch \/ Lookup \/ DeadLetter \/ CommitBatch
           \/ IdleTrigger \/ FailWindows \/ Repartition \/ UNCHANGED vars
  <2>1. UNCHANGED rows
    BY <1>4, Zenon DEF Ingest, IngestFails, Replay, Suspend, Reactivate, WriteRefused, WriteWindows,
                PlanWindows, CommitWindows, PlanBatch, Lookup, DeadLetter, CommitBatch, IdleTrigger,
                FailWindows, Repartition, measured, vars
  <2> QED BY <2>1
<1> QED BY <1>1, <1>2, <1>3, <1>4 DEF Next, JobStep, WindowStep

\* A measurement is never rewritten (ON CONFLICT DO NOTHING), by no redelivery, replay or retry.
THEOREM MeasurementNeverRewritten == Spec => FirstWriteWins
<1>1. ASSUME IInv, [Next]_vars
      PROVE  \A x \in rows : \A y \in rows' : x.key = y.key => x.val = y.val
  <2>1. CASE rows' \subseteq rows
    BY <1>1, <2>1 DEF IInv, OneRow
  <2>2. ASSUME NEW S \in SUBSET batch.ok, rows' = Upserted(S)
        PROVE  \A x \in rows : \A y \in rows' : x.key = y.key => x.val = y.val
    <3>1. S \in SUBSET (1 .. Len(log)) /\ log \in Seq(Readings) /\ OneRow
      BY <1>1 DEF IInv, Types, Batches
    <3>2. rows \subseteq rows' /\ \A x, y \in rows' : x.key = y.key => x = y
      BY <2>2, <3>1, UpsertedAdds
    <3> QED BY <3>2
  <2> QED BY <1>1, <2>1, <2>2, RowsStep
<1> QED BY <1>1, Invariance, PTL DEF Spec, FirstWriteWins

\* From the lookup after a suspension on, no row of the tenant is written (classify_references on
\* the registry as it is), whatever batch fails and is run again.
THEOREM SuspendedWritesNothing == Spec => SuspendedSettles
<1>1. ASSUME IInv, [Next]_vars, NEW r \in Readings, r.tenant \in settled, NEW y \in rows' \ rows
      PROVE  y.key # Key(r)
  <2>1. batch.pc = "write"
    BY <1>1, RowsStep
  <2>2. PICK S \in SUBSET batch.ok : rows' = Upserted(S)
    BY <1>1, RowsStep
  <2>3. S \in SUBSET (1 .. Len(log)) /\ log \in Seq(Readings) /\ OneRow
    BY <1>1 DEF IInv, Types, Batches
  <2>4. PICK i \in S : y.key = Key(log[i])
    BY <1>1, <2>2, <2>3, UpsertedAdds
  <2>5. log[i] \in Readings /\ log[i].tenant \notin settled
    BY <1>1, <2>1, <2>3, <2>4 DEF IInv, BatchInv
  <2>6. log[i].sensor # r.sensor
    BY <1>1, <2>5, ConstAssumption
  <2> QED BY <2>4, <2>6 DEF Key
<1>2. IInv /\ [Next]_vars =>
         [\A r \in Readings : r.tenant \in settled => \A y \in rows' \ rows : y.key # Key(r)]_vars
  BY <1>1
<1> QED BY <1>2, Invariance, PTL DEF Spec, SuspendedSettles
-----------------------------------------------------------------------------
(***************************************************************************)
(* The aggregation job's windows.                                          *)
(***************************************************************************)
Wins == [pc : {"idle", "write"}, start : Nat, done : Nat, last : Nat, mark : Nat,
         open : SUBSET Nat, todo : SUBSET Tenants]

WinTypes ==
    /\ log \in Seq(Readings)
    /\ win \in Wins
    /\ win.start <= win.done /\ win.done <= win.last /\ win.last <= Len(log)
    /\ faults \in Nat /\ changes \in Nat

\* The watermark is the newest event time read, less the lateness.
MarkInv ==
    /\ \/ win.mark = 0
       \/ \E j \in win.start + 1 .. win.done : WellFormed(j) /\ win.mark = log[j].at - Lateness
    /\ \A j \in win.start + 1 .. win.done : WellFormed(j) => log[j].at - Lateness <= win.mark

\* The open windows are those beyond the watermark m of the batch before, whole.
OpenInv(m) ==
    win.open = {i \in win.start + 1 .. win.done : WellFormed(i) /\ WindowEnd(i) > m}

\* A row is of one window, written after a reading that closed it, and whole if readings come in time.
RowInv(x) ==
    /\ \A i \in x.of : /\ i \in 1 .. win.done /\ WellFormed(i)
                       /\ log[i].sensor = x.sensor /\ WindowEnd(i) = x.end
    /\ \E j \in 1 .. win.done : WellFormed(j) /\ x.end <= log[j].at - Lateness
    /\ InTime => \A i \in win.start + 1 .. Len(log) :
          WellFormed(i) /\ log[i].sensor = x.sensor /\ WindowEnd(i) = x.end => i \in x.of

\* Readings in time, the registry unchanged and nothing failed, the windows up to m are written, and of those the
\* batch in hand closes the ones of tenants no longer to do.
CoveredInv(m) ==
    InTime /\ faults = 0 /\ changes = 0 =>
        /\ win.start = 0 /\ active = Tenants
        /\ \A i \in 1 .. win.done :
              /\ WellFormed(i) /\ log[i].sensor \in known
              /\ \/ WindowEnd(i) <= m
                 \/ win.pc = "write" /\ WindowEnd(i) <= win.mark /\ log[i].tenant \notin win.todo
              => \E x \in aggs : i \in x.of

WinInv ==
    /\ WinTypes /\ MarkInv
    /\ \A x \in aggs : RowInv(x)
    /\ \E m \in 0 .. win.mark : OpenInv(m) /\ CoveredInv(m)

\* A nonempty finite set of integers, the values of a function, has a greatest element, and Max is it.
LEMMA MaxOfValues ==
    ASSUME NEW D, IsFiniteSet(D), D # {}, NEW f \in [D -> Int], NEW S, S = {f[x] : x \in D}
    PROVE  Max(S) \in S /\ \A y \in S : y <= Max(S)
<1> DEFINE U(x) == {y \in D : f[y] > f[x]}
           C == {Cardinality(U(x)) : x \in D}
           R == OpToRel(<, Nat)
<1>1. \A x \in D : IsFiniteSet(U(x)) /\ Cardinality(U(x)) \in Nat
  <2> TAKE x \in D
  <2>1. U(x) \in SUBSET D
    OBVIOUS
  <2> HIDE DEF U
  <2>2. IsFiniteSet(U(x))
    BY <2>1, FS_Subset
  <2> QED BY <2>2, FS_CardinalityType
<1>2. PICK c \in C : \A k \in C : ~(k < c)
  <2>1. C \subseteq Nat /\ C # {}
    BY <1>1, Zenon
  <2>2. IsWellFoundedOn(R, Nat)
    BY NatLessThanWellFounded, Zenon DEF R
  <2>3. \E c \in C : \A k \in C : ~(<<k, c>> \in R)
    <3> HIDE DEF C, R
    <3> QED BY <2>1, <2>2, WFMin, Zenon
  <2> HIDE DEF C
  <2> QED BY <2>1, <2>3, Zenon DEF OpToRel
<1>3. PICK x \in D : c = Cardinality(U(x))
  OBVIOUS
<1>4. U(x) = {}
  <2> SUFFICES ASSUME NEW y \in U(x) PROVE FALSE
    OBVIOUS
  <2>1. y \in D /\ U(y) \in SUBSET U(x) /\ y \notin U(y)
    OBVIOUS
  <2>2. Cardinality(U(y)) <= Cardinality(U(x)) /\ Cardinality(U(y)) # Cardinality(U(x))
    <3> HIDE DEF U
    <3> QED BY <1>1, <2>1, FS_Subset
  <2>3. ~(Cardinality(U(y)) < Cardinality(U(x)))
    BY <1>2, <1>3, <2>1, Zenon
  <2> HIDE DEF U
  <2> QED BY <1>1, <2>1, <2>2, <2>3
<1>5. f[x] \in S /\ \A y \in S : f[x] >= y
  <2>1. \A y \in D : ~(f[y] > f[x])
    BY <1>4
  <2> QED BY <2>1
<1> HIDE DEF U, C, R
<1> QED BY <1>5 DEF Max

\* A window ends after each of its readings, and event times compare with it as the job compares
\* them or as the window contract numbers windows, alike.
LEMMA WindowArithmetic ==
    ASSUME NEW a \in Nat, NEW W \in Nat \ {0}
    PROVE  /\ (a \div W + 1) * W \in Nat /\ (a \div W + 1) * W > a
           /\ \A q \in Int : (a \div W + 1) * W <= q
                              <=> ((a \div W + 1) * W) \div W - 1 <= q \div W - 1
<1> DEFINE k == a \div W + 1
           e == k * W
<1>1. k \in Nat /\ e \in Nat
  OBVIOUS
<1>2. e > a
  OBVIOUS
<1> SUFFICES ASSUME NEW q \in Int PROVE e <= q <=> e \div W - 1 <= q \div W - 1
  BY <1>1, <1>2
<1> DEFINE r == q \div W
<1>3. r \in Int /\ e \div W = k
  OBVIOUS
<1>4. W * r <= q /\ q < W * (r + 1)
  OBVIOUS
<1>5. ASSUME NEW i \in Int, NEW j \in Int, i <= j PROVE W * i <= W * j
  <2>1. \A x, y \in Nat : x * y >= 0
    OBVIOUS
  <2>2. W * (j - i) >= 0
    BY <1>5, <2>1
  <2> QED BY <2>2
<1>6. ASSUME k <= r PROVE e <= q
  <2>1. W * k <= W * r
    BY <1>1, <1>3, <1>5, <1>6
  <2> HIDE DEF k, r
  <2> QED BY <1>1, <1>3, <1>4, <2>1
<1>7. ASSUME e <= q PROVE k <= r
  <2>1. ~(r + 1 <= k)
    <3> SUFFICES ASSUME r + 1 <= k PROVE FALSE
      OBVIOUS
    <3>1. W * (r + 1) <= W * k
      BY <1>1, <1>3, <1>5
    <3> HIDE DEF k, r
    <3> QED BY <1>1, <1>3, <1>4, <1>7, <3>1
  <2> QED BY <1>1, <1>3, <2>1
<1> QED BY <1>1, <1>3, <1>6, <1>7

\* Every step keeps the windows' invariant.
LEMMA WinNext == ASSUME IInv, WinInv, [Next]_vars PROVE WinInv'
<1> PICK m \in 0 .. win.mark : OpenInv(m) /\ CoveredInv(m)
  BY DEF WinInv
<1> USE ConstAssumption
<1>1. /\ WinTypes /\ MarkInv /\ \A x \in aggs : RowInv(x)
      /\ win.mark \in Nat /\ win.start \in Nat /\ win.done \in Nat /\ Len(log) \in Nat /\ m \in Nat
      /\ win.start <= win.done /\ win.done <= Len(log)
  BY DEF WinInv, WinTypes, Wins
<1>2. \A i \in 1 .. Len(log) :
        /\ log[i] \in Readings /\ log[i].at \in Nat
        /\ WindowEnd(i) \in Nat /\ WindowEnd(i) > log[i].at
  <2> TAKE i \in 1 .. Len(log)
  <2>1. log[i] \in Readings /\ log[i].at \in Nat
    BY DEF WinInv, WinTypes
  <2> QED BY <2>1, WindowArithmetic, Zenon DEF WindowEnd
<1>3. ASSUME log' = log
      PROVE  (InTime' <=> InTime) /\ \A i : (WellFormed(i)' <=> WellFormed(i)) /\ WindowEnd(i)' = WindowEnd(i)
  BY <1>3 DEF InTime, WellFormed, WindowEnd
<1>same. ASSUME log' = log, aggs' = aggs, win'.start = win.start, win'.done = win.done
         PROVE  \A x \in aggs' : RowInv(x)'
  <2> TAKE x \in aggs'
  <2>1. RowInv(x)
    BY <1>1, <1>same
  <2> QED BY <1>3, <1>same, <2>1, Zenon DEF RowInv
<1>4. ASSUME NEW r \in Readings, log' = Append(log, r), faults' \in Nat, faults <= faults',
             UNCHANGED <<registry, windows>>
      PROVE  WinInv'
  <2>1. /\ log' \in Seq(Readings) /\ Len(log') = Len(log) + 1
        /\ \A i \in 1 .. Len(log) : log'[i] = log[i]
    BY <1>4 DEF WinInv, WinTypes
  <2>2. \A i \in 1 .. Len(log) : (WellFormed(i)' <=> WellFormed(i)) /\ WindowEnd(i)' = WindowEnd(i)
    BY <2>1 DEF WellFormed, WindowEnd
  <2>3. UNCHANGED <<active, known, changes, win, aggs>>
    BY <1>4 DEF registry, windows
  <2>4. ASSUME InTime' PROVE InTime
    <3> SUFFICES ASSUME NEW i \in 1 .. Len(log), NEW j \in 1 .. Len(log),
                        i < j, WellFormed(i), WellFormed(j)
                 PROVE  log[j].at + Lateness >= log[i].at
      BY DEF InTime
    <3>1. i \in 1 .. Len(log') /\ j \in 1 .. Len(log') /\ WellFormed(i)' /\ WellFormed(j)'
      BY <1>1, <2>1, <2>2
    <3>2. log'[j].at + Lateness >= log'[i].at
      BY <2>4, <3>1 DEF InTime
    <3> QED BY <2>1, <3>2, Zenon
  <2>5. WinTypes' /\ MarkInv'
    <3>1. WinTypes'
      BY <1>1, <1>4, <2>1, <2>3, SMTT(30) DEF WinTypes, Wins
    <3>2. \A j \in win.start + 1 .. win.done : j \in 1 .. Len(log)
      BY <1>1
    <3>3. MarkInv'
      BY <1>1, <2>1, <2>2, <2>3, <3>2, Zenon DEF MarkInv
    <3> QED BY <3>1, <3>3
  <2>6. ASSUME NEW x \in aggs' PROVE RowInv(x)'
    <3>1. RowInv(x)
      BY <1>1, <2>3, <2>6
    <3>2. \A i \in x.of : /\ i \in 1 .. win'.done /\ WellFormed(i)'
                          /\ log'[i].sensor = x.sensor /\ WindowEnd(i)' = x.end
      <4> TAKE i \in x.of
      <4>1. i \in 1 .. win.done /\ WellFormed(i) /\ log[i].sensor = x.sensor /\ WindowEnd(i) = x.end
        BY <3>1, Zenon DEF RowInv
      <4>2. i \in 1 .. Len(log)
        BY <1>1, <4>1
      <4> QED BY <2>1, <2>2, <2>3, <4>1, <4>2, Zenon
    <3>3. PICK j \in 1 .. win.done : WellFormed(j) /\ x.end <= log[j].at - Lateness
      BY <3>1 DEF RowInv
    <3>4. j \in 1 .. win'.done /\ WellFormed(j)' /\ x.end <= log'[j].at - Lateness
      BY <3>3, <2>1, <2>2, <2>3, <1>1, SMTT(30)
    <3>5. ASSUME InTime', NEW i \in win'.start + 1 .. Len(log'),
                 WellFormed(i)', log'[i].sensor = x.sensor, WindowEnd(i)' = x.end
          PROVE  i \in x.of
      <4>1. CASE i \in 1 .. Len(log)
        <5>1. InTime /\ i \in win.start + 1 .. Len(log)
          BY <4>1, <3>5, <2>3, <2>4, <1>1
        <5>2. WellFormed(i) /\ log[i].sensor = x.sensor /\ WindowEnd(i) = x.end
          BY <4>1, <3>5, <2>1, <2>2, Zenon
        <5> QED BY <5>1, <5>2, <3>1, Zenon DEF RowInv
      <4>2. CASE i \notin 1 .. Len(log)
        <5>1. i = Len(log) + 1 /\ log'[i] = r /\ r.at \in Nat
          BY <4>2, <3>5, <2>1, <2>3, <1>1, <1>4, SMTT(30)
        <5>2. r.at + Lateness >= log[j].at
          <6>1. j \in 1 .. Len(log') /\ i \in 1 .. Len(log') /\ j < i
            BY <5>1, <2>1, <1>1, <3>3
          <6>2. log'[i].at + Lateness >= log'[j].at
            BY <3>4, <3>5, <6>1, Zenon DEF InTime
          <6>3. j \in 1 .. Len(log)
            BY <1>1, <3>3
          <6>4. log'[j] = log[j]
            BY <2>1, <6>3, Zenon
          <6> QED BY <5>1, <6>2, <6>4, Zenon
        <5>3. x.end > r.at
          BY <3>5, <5>1, WindowArithmetic, Zenon DEF WindowEnd
        <5>4. x.end \in Nat /\ log[j].at \in Nat
          <6>1. x.end \in Nat
            BY <3>5, <5>1, WindowArithmetic, Zenon DEF WindowEnd
          <6>2. j \in 1 .. Len(log)
            BY <1>1, <3>3
          <6> QED BY <6>1, <6>2, <1>2, Zenon
        <5> QED BY <5>1, <5>2, <5>3, <5>4, <3>3, SMTT(30)
      <4> QED BY <4>1, <4>2
    <3> QED BY <3>2, <3>4, <3>5, Zenon DEF RowInv
  <2>7. OpenInv(m)'
    <3>1. \A i \in win.start + 1 .. win.done : (WellFormed(i)' <=> WellFormed(i)) /\ WindowEnd(i)' = WindowEnd(i)
      BY <1>1, <2>2
    <3> QED BY <3>1, <2>3, Zenon DEF OpenInv
  <2>8. CoveredInv(m)'
    <3>1. faults' = 0 => faults = 0
      BY <1>4, <1>1 DEF WinTypes
    <3>2. \A i \in 1 .. win.done : /\ WellFormed(i)' <=> WellFormed(i)
                                   /\ WindowEnd(i)' = WindowEnd(i) /\ log'[i] = log[i]
      <4>1. \A i \in 1 .. win.done : i \in 1 .. Len(log)
        BY <1>1
      <4> QED BY <2>1, <2>2, <4>1, Zenon
    <3> QED BY <3>1, <3>2, <2>3, <2>4, Zenon DEF CoveredInv
  <2> QED BY <2>3, <2>5, <2>6, <2>7, <2>8 DEF WinInv
<1>5. ASSUME UNCHANGED <<log, windows>>, faults' \in Nat, faults <= faults', changes' \in Nat,
             changes' = 0 => UNCHANGED <<active, known, changes>>
      PROVE  WinInv'
  <2>1. win' = win /\ aggs' = aggs /\ log' = log
    BY <1>5 DEF windows
  <2>2. WinTypes' /\ MarkInv' /\ OpenInv(m)'
    BY <1>1, <1>3, <1>5, <2>1, Zenon DEF WinTypes, MarkInv, OpenInv
  <2>3. CoveredInv(m)'
    <3>1. faults' = 0 => faults = 0
      BY <1>5, <1>1 DEF WinTypes
    <3> QED BY <3>1, <1>3, <1>5, <2>1, Zenon DEF CoveredInv
  <2> QED BY <1>same, <2>1, <2>2, <2>3, Zenon DEF WinInv
<1>6. {log[i].tenant : i \in Closing} \in SUBSET Tenants
  <2>1. Closing \subseteq 1 .. Len(log)
    BY <1>1 DEF OpenInv, Closing
  <2>2. \A i \in 1 .. Len(log) : log[i].tenant \in Tenants
    BY <1>2, Zenon DEF Tenants
  <2> QED BY <2>1, <2>2
<1>7. CASE PlanWindows
  <2> DEFINE last == Min({win.done + BatchMax, Len(log)})
             todo == {log[i].tenant : i \in Closing}
  <2>1. last \in Nat /\ win.done <= last /\ last <= Len(log)
    BY <1>1, SMTT(30) DEF Min
  <2>2. win.pc = "idle" /\ win' = [win EXCEPT !.pc = "write", !.last = last, !.todo = todo]
        /\ UNCHANGED <<log, aggs, faults, active, known, changes>>
    BY <1>7 DEF PlanWindows, registry
  <2> HIDE DEF last
  <2>3. /\ win'.pc = "write" /\ win'.last = last /\ win'.todo = todo
        /\ win'.start = win.start /\ win'.done = win.done /\ win'.mark = win.mark /\ win'.open = win.open
        /\ win' \in Wins
    <3> HIDE DEF todo
    <3> QED BY <1>1, <1>6, <2>1, <2>2, Zenon DEF WinTypes, Wins, todo
  <2>4. WinTypes'
    BY <1>1, <2>1, <2>2, <2>3 DEF WinTypes
  <2>5. MarkInv' /\ OpenInv(m)' /\ \A x \in aggs' : RowInv(x)'
    <3>1. MarkInv' /\ OpenInv(m)'
      BY <1>1, <1>3, <2>2, <2>3, SMTT(30) DEF MarkInv, OpenInv
    <3>2. \A x \in aggs' : RowInv(x)'
      BY <1>same, <2>2, <2>3
    <3> QED BY <3>1, <3>2, Zenon
  <2>6. CoveredInv(m)'
    <3> SUFFICES ASSUME InTime, faults = 0, changes = 0, NEW i \in 1 .. win.done, WellFormed(i),
                        log[i].sensor \in known,
                        WindowEnd(i) <= m \/ (WindowEnd(i) <= win.mark /\ log[i].tenant \notin todo)
                 PROVE  win.start = 0 /\ active = Tenants /\ \E x \in aggs : i \in x.of
      BY <1>3, <2>2, <2>3 DEF CoveredInv
    <3>1. win.start = 0 /\ active = Tenants
      BY Zenon DEF CoveredInv
    <3>2. WindowEnd(i) <= m
      <4>1. WindowEnd(i) \in Nat
        BY <1>1, <1>2, SMTT(30)
      <4>2. ASSUME WindowEnd(i) > m, WindowEnd(i) <= win.mark PROVE log[i].tenant \in todo
        BY <3>1, <4>2, <1>1, SMTT(30) DEF OpenInv, Closing
      <4> QED BY <4>1, <4>2, <1>1
    <3> QED BY <3>1, <3>2, Zenon DEF CoveredInv
  <2> QED BY <1>1, <2>3, <2>4, <2>5, <2>6, Zenon DEF WinInv
<1>8. ASSUME NEW t \in Tenants, WriteWindows(t) PROVE WinInv'
  <2> DEFINE S == {i \in Closing : log[i].tenant = t /\ t \in active /\ log[i].sensor \in known}
             new == Aggregates(S)
             kept == {x \in aggs : \A y \in new : <<x.sensor, x.end>> # <<y.sensor, y.end>>}
  <2>1. /\ win.pc = "write" /\ aggs' = kept \cup new
        /\ win' = [win EXCEPT !.todo = @ \ {t}]
        /\ UNCHANGED <<log, faults, active, known, changes>>
    BY <1>8 DEF WriteWindows, registry
  <2>2. /\ win'.pc = "write" /\ win'.last = win.last /\ win'.todo = win.todo \ {t}
        /\ win'.start = win.start /\ win'.done = win.done /\ win'.mark = win.mark /\ win'.open = win.open
        /\ win' \in Wins
    BY <1>1, <2>1, SMTT(30) DEF WinTypes, Wins
  <2>3. \A i : i \in Closing <=> /\ i \in win.start + 1 .. win.done /\ WellFormed(i)
                                 /\ WindowEnd(i) > m /\ WindowEnd(i) <= win.mark
    BY Zenon DEF Closing, OpenInv
  <2>4. ASSUME NEW y \in new
        PROVE  /\ \E i \in S : y.sensor = log[i].sensor /\ y.end = WindowEnd(i)
               /\ \A j : j \in y.of <=> j \in S /\ log[j].sensor = y.sensor /\ WindowEnd(j) = y.end
    <3> HIDE DEF S
    <3>1. PICK i \in S : y = [sensor |-> log[i].sensor, end |-> WindowEnd(i),
             of |-> {j \in S : log[j].sensor = log[i].sensor /\ WindowEnd(j) = WindowEnd(i)}]
      BY <2>4, Zenon DEF Aggregates
    <3> QED BY <3>1, Zenon
  <2>5. ASSUME NEW i \in S PROVE \E y \in new : i \in y.of
    <3> DEFINE y == [sensor |-> log[i].sensor, end |-> WindowEnd(i),
             of |-> {j \in S : log[j].sensor = log[i].sensor /\ WindowEnd(j) = WindowEnd(i)}]
    <3> HIDE DEF S
    <3>1. y \in new
      BY <2>5, Zenon DEF Aggregates
    <3>2. i \in y.of
      BY <2>5, Zenon
    <3> QED BY <3>1, <3>2, Zenon
  <2> HIDE DEF new
  \* All well-formed readings read of a window being written are in its row.
  <2>6. ASSUME NEW y \in new, NEW i \in win.start + 1 .. win.done, WellFormed(i),
               log[i].sensor = y.sensor, WindowEnd(i) = y.end
        PROVE  i \in y.of
    <3>1. PICK k \in S : y.sensor = log[k].sensor /\ y.end = WindowEnd(k)
      BY <2>4, Zenon
    <3>2. i \in 1 .. Len(log) /\ k \in 1 .. Len(log) /\ log[i].tenant = log[k].tenant
      BY <1>1, <1>2, <2>3, <2>6, <3>1, SMTT(30)
    <3>3. i \in S
      BY <2>3, <2>6, <3>1, <3>2, Zenon
    <3> QED BY <2>4, <2>6, <3>3, Zenon
  <2>7. ASSUME NEW y \in new PROVE RowInv(y)'
    <3>1. PICK k \in S : y.sensor = log[k].sensor /\ y.end = WindowEnd(k)
      BY <2>4, Zenon
    <3>2. k \in 1 .. Len(log) /\ y.end <= win.mark /\ y.end \in Nat /\ y.end > 0
      BY <1>1, <1>2, <2>3, <3>1, SMTT(30)
    <3>3. \A i \in y.of : /\ i \in 1 .. win.done /\ WellFormed(i)
                          /\ log[i].sensor = y.sensor /\ WindowEnd(i) = y.end
      <4>1. \A i \in y.of : i \in S /\ log[i].sensor = y.sensor /\ WindowEnd(i) = y.end
        BY <2>4, Zenon
      <4>2. \A i \in S : i \in win.start + 1 .. win.done /\ WellFormed(i)
        BY <2>3, Zenon
      <4>3. win.start \in Nat /\ win.done \in Nat
        BY <1>1
      <4>4. \A i \in win.start + 1 .. win.done : i \in 1 .. win.done
        BY <4>3
      <4> QED BY <4>1, <4>2, <4>4, Zenon
    <3>4. PICK j \in win.start + 1 .. win.done : WellFormed(j) /\ win.mark = log[j].at - Lateness
      <4>1. \/ win.mark = 0
            \/ \E j \in win.start + 1 .. win.done : WellFormed(j) /\ win.mark = log[j].at - Lateness
        BY <1>1, Zenon DEF MarkInv
      <4>2. win.mark # 0
        BY <1>1, <3>2
      <4> QED BY <4>1, <4>2, Zenon
    <3>5. j \in 1 .. win.done /\ j \in 1 .. Len(log) /\ y.end <= log[j].at - Lateness
      <4>1. win.start \in Nat /\ win.done \in Nat /\ Len(log) \in Nat /\ win.done <= Len(log)
        BY <1>1, Zenon
      <4>2. j \in 1 .. win.done /\ j \in 1 .. Len(log)
        BY <4>1
      <4>3. y.end <= log[j].at - Lateness
        BY <3>2, <3>4, Zenon
      <4> QED BY <4>2, <4>3, Zenon
    <3>6. ASSUME InTime, NEW i \in win.start + 1 .. Len(log),
                 WellFormed(i), log[i].sensor = y.sensor, WindowEnd(i) = y.end
          PROVE  i \in y.of
      <4>1. CASE i <= win.done
        <5>1. win.start \in Nat /\ win.done \in Nat /\ i \in Nat /\ win.start + 1 <= i
          BY <1>1, <3>6
        <5>2. i \in win.start + 1 .. win.done
          BY <4>1, <5>1
        <5> QED BY <2>6, <3>6, <5>2, Zenon
      <4>2. CASE ~(i <= win.done)
        <5>1. i \in 1 .. Len(log) /\ j < i
          BY <1>1, <3>6, <4>2, <3>5, SMTT(30)
        <5>2. log[i].at + Lateness >= log[j].at
          BY <3>4, <3>5, <3>6, <5>1, Zenon DEF InTime
        <5>3. log[i].at \in Nat /\ log[j].at \in Nat /\ log[i].at < y.end
          BY <1>2, <3>5, <3>6, <5>1, Zenon
        <5>4. Lateness \in Nat /\ y.end \in Nat
          BY <3>2, ConstAssumption, Zenon
        <5>5. y.end <= log[j].at - Lateness
          BY <3>5, Zenon
        <5> QED BY <5>2, <5>3, <5>4, <5>5, SMTT(30)
      <4> QED BY <4>1, <4>2, Zenon
    <3> QED BY <1>3, <2>1, <2>2, <3>3, <3>4, <3>5, <3>6, Zenon DEF RowInv
  <2>8. ASSUME NEW x \in aggs' PROVE RowInv(x)'
    <3>1. CASE x \in new
      BY <2>7, <3>1
    <3>2. CASE x \in aggs
      BY <1>1, <1>3, <2>1, <2>2, <3>2, SMTT(30) DEF RowInv
    <3> QED BY <2>1, <2>8, <3>1, <3>2
  <2>9. WinTypes'
    BY <1>1, <2>1, <2>2 DEF WinTypes
  <2>10. MarkInv' /\ OpenInv(m)'
    BY <1>1, <1>3, <2>1, <2>2 DEF MarkInv, OpenInv
  <2>11. CoveredInv(m)'
    <3> SUFFICES ASSUME InTime, faults = 0, changes = 0, NEW i \in 1 .. win.done, WellFormed(i),
                        log[i].sensor \in known,
                        WindowEnd(i) <= m \/ (WindowEnd(i) <= win.mark /\ log[i].tenant \notin win.todo \ {t})
                 PROVE  win.start = 0 /\ active = Tenants /\ \E x \in aggs' : i \in x.of
      BY <1>3, <2>1, <2>2 DEF CoveredInv
    <3>1. win.start = 0 /\ active = Tenants
      BY Zenon DEF CoveredInv
    <3>2. CASE i \in S
      <4>1. new \subseteq aggs'
        BY <2>1
      <4> QED BY <2>5, <3>1, <3>2, <4>1, Zenon
    <3>3. CASE i \notin S
      <4>1. WindowEnd(i) <= m \/ (WindowEnd(i) <= win.mark /\ log[i].tenant \notin win.todo)
        BY <1>1, <1>2, <2>3, <3>1, <3>3, SMTT(30)
      <4>2. PICK x \in aggs : i \in x.of
        BY <2>1, <4>1 DEF CoveredInv
      <4>3. CASE x \in kept
        <5>1. x \in aggs'
          BY <2>1, <4>3
        <5> QED BY <3>1, <4>2, <5>1, Zenon
      <4>4. CASE x \notin kept
        <5>1. PICK y \in new : x.sensor = y.sensor /\ x.end = y.end
          BY <4>4, Zenon
        <5>2. log[i].sensor = y.sensor /\ WindowEnd(i) = y.end
          BY <1>1, <4>2, <5>1, Zenon DEF RowInv
        <5>3. i \in y.of
          BY <1>1, <2>6, <3>1, <5>2, SMTT(30)
        <5>4. y \in aggs'
          BY <2>1, <5>1
        <5> QED BY <3>1, <5>3, <5>4, Zenon
      <4> QED BY <4>3, <4>4, Zenon
    <3> QED BY <3>1, <3>2, <3>3, Zenon
  <2> QED BY <1>1, <2>2, <2>8, <2>9, <2>10, <2>11, Zenon DEF WinInv
<1>9. CASE CommitWindows
  <2>1. /\ win.pc = "write" /\ win.todo = {}
        /\ win' = [win EXCEPT !.pc = "idle", !.done = win.last, !.mark = NextMark,
                              !.open = (win.open \cup Fresh) \ Closing]
        /\ UNCHANGED <<log, aggs, faults, active, known, changes>>
    BY <1>9 DEF CommitWindows, registry
  <2> DEFINE J == {j \in WindowBatch : WellFormed(j)}
             Ends == {win.mark} \cup {log[i].at - Lateness : i \in J}
  <2>2. win.last \in Nat /\ win.done <= win.last /\ win.last <= Len(log)
        /\ WindowBatch \subseteq 1 .. Len(log) /\ WindowBatch \subseteq win.start + 1 .. win.last
    BY <1>1, SMTT(30) DEF WinTypes, Wins, WindowBatch
  <2> PICK n \in Nat : n = win.mark
    BY <1>1
  <2>11. \A j \in J : j \in 1 .. Len(log) /\ j # 0 /\ log[j].at - Lateness \in Int
    <3>1. \A j \in J : j \in 1 .. Len(log)
      BY <2>2
    <3> HIDE DEF J
    <3> QED BY <1>1, <1>2, <3>1
  <2>3. NextMark \in Ends /\ \A e \in Ends : e <= NextMark
    <3> DEFINE D == J \cup {0}
               f == [x \in D |-> IF x = 0 THEN win.mark ELSE log[x].at - Lateness]
    <3>1. IsFiniteSet(D) /\ D # {}
      <4>1. IsFiniteSet(0 .. Len(log)) /\ D \in SUBSET (0 .. Len(log))
        <5> HIDE DEF J
        <5>1. IsFiniteSet(0 .. Len(log))
          BY <1>1, FS_Interval
        <5>2. \A j \in D : j \in 0 .. Len(log)
          BY <1>1, <2>11
        <5> QED BY <5>1, <5>2, Zenon
      <4> HIDE DEF D
      <4>2. IsFiniteSet(D)
        BY <4>1, FS_Subset, Zenon
      <4> QED BY <4>2 DEF D
    <3>2. f \in [D -> Int]
      <4> HIDE DEF J
      <4> QED BY <1>1, <2>11
    <3>3. Ends = {f[x] : x \in D}
      <4> HIDE DEF J
      <4> QED BY <2>11, Zenon
    <3> HIDE DEF D, f, J, Ends
    <3>4. Max(Ends) \in Ends /\ \A e \in Ends : e <= Max(Ends)
      BY <3>1, <3>2, <3>3, MaxOfValues, ZenonT(30)
    <3>5. NextMark = Max(Ends)
      BY Zenon DEF NextMark, Ends, J
    <3> QED BY <3>4, <3>5, Zenon
  <2>4. NextMark \in Nat /\ win.mark <= NextMark
    <3>1. win.mark <= NextMark
      BY <2>3, Zenon
    <3>2. Ends \subseteq Int
      <4> HIDE DEF J
      <4> QED BY <1>1, <2>11
    <3> HIDE DEF Ends
    <3> QED BY <1>1, <2>3, <3>1, <3>2
  <2>5. (win.open \cup Fresh) \ Closing
          = {i \in win.start + 1 .. win.last : WellFormed(i) /\ WindowEnd(i) > win.mark}
    <3>1. \A i \in win.start + 1 .. win.last :
             WindowEnd(i) \in Nat /\ (i \in win.start + 1 .. win.done \/ i \in WindowBatch)
      BY <1>1, <1>2, <2>2, SMTT(30) DEF WindowBatch
    <3>2. \A i \in win.start + 1 .. win.done : i \in win.start + 1 .. win.last /\ WindowEnd(i) \in Nat
      BY <1>1, <1>2, <2>2, SMTT(30)
    <3>3. \A i \in WindowBatch : i \notin win.start + 1 .. win.done
      BY <1>1, <2>2 DEF WindowBatch
    <3>4. /\ \A i : i \in win.open <=> i \in win.start + 1 .. win.done /\ WellFormed(i) /\ WindowEnd(i) > m
          /\ \A i : i \in Fresh <=> i \in WindowBatch /\ WellFormed(i) /\ WindowEnd(i) > win.mark
          /\ \A i : i \in Closing <=> i \in win.open /\ WindowEnd(i) <= win.mark
      BY Zenon DEF OpenInv, Fresh, Closing
    <3>5. ASSUME NEW i \in win.start + 1 .. win.last
          PROVE  i \in (win.open \cup Fresh) \ Closing <=> WellFormed(i) /\ WindowEnd(i) > win.mark
      BY <1>1, <3>1, <3>2, <3>3, <3>4, SMTT(30)
    <3>6. (win.open \cup Fresh) \ Closing \subseteq win.start + 1 .. win.last
      BY <2>2, <3>2, <3>4, Zenon
    <3> QED BY <3>5, <3>6, Zenon
  <2> DEFINE op == (win.open \cup Fresh) \ Closing
             mk == NextMark
  <2>6. /\ win'.pc = "idle" /\ win'.last = win.last /\ win'.todo = {}
        /\ win'.start = win.start /\ win'.done = win.last /\ win'.mark = mk /\ win'.open = op
        /\ win' \in Wins
    <3>1. op \in SUBSET Nat
      BY <1>1, <2>2, <2>5, SMTT(30)
    <3> HIDE DEF op, mk
    <3> QED BY <1>1, <2>1, <2>2, <2>4, <3>1, Zenon DEF WinTypes, Wins, op, mk
  <2>7. WinTypes'
    BY <1>1, <2>1, <2>2, <2>6, SMTT(30) DEF WinTypes
  <2>8. MarkInv'
    <3>1. mk = 0 \/ \E j \in win.start + 1 .. win.last : WellFormed(j) /\ mk = log[j].at - Lateness
      <4>1. CASE mk = win.mark
        <5>1. \A j \in win.start + 1 .. win.done : j \in win.start + 1 .. win.last
          BY <1>1, <2>2
        <5> QED BY <1>1, <4>1, <5>1, Zenon DEF MarkInv
      <4>2. CASE \E j \in J : mk = log[j].at - Lateness
        BY <2>2, <4>2, Zenon
      <4> QED BY <2>3, <4>1, <4>2, Zenon
    <3>2. ASSUME NEW j \in win.start + 1 .. win.last, WellFormed(j) PROVE log[j].at - Lateness <= mk
      <4>1. CASE j \in WindowBatch
        BY <2>3, <3>2, <4>1, Zenon
      <4>2. CASE j \notin WindowBatch
        <5>1. j \in win.start + 1 .. win.done /\ log[j].at \in Nat
          BY <1>1, <1>2, <2>2, <4>2, SMTT(30) DEF WindowBatch
        <5>2. log[j].at - Lateness <= win.mark
          BY <1>1, <3>2, <5>1, Zenon DEF MarkInv
        <5> QED BY <1>1, <2>4, <5>1, <5>2, SMTT(30)
      <4> QED BY <4>1, <4>2, Zenon
    <3> HIDE DEF mk
    <3> QED BY <1>3, <2>1, <2>6, <3>1, <3>2 DEF MarkInv
  <2>9. OpenInv(n)'
    BY <1>3, <2>1, <2>5, <2>6 DEF OpenInv
  <2>10. \A x \in aggs' : RowInv(x)'
    <3>1. \A i \in 1 .. win.done : i \in 1 .. win.last
      BY <1>1, <2>2, SMTT(30)
    <3> QED BY <1>1, <1>3, <2>1, <2>6, <3>1, SMTT(30) DEF RowInv
  <2>12. CoveredInv(n)'
    <3> SUFFICES ASSUME InTime, faults = 0, changes = 0, NEW i \in 1 .. win.last, WellFormed(i),
                        log[i].sensor \in known, WindowEnd(i) <= win.mark
                 PROVE  win.start = 0 /\ active = Tenants /\ \E x \in aggs : i \in x.of
      BY <1>3, <2>1, <2>6 DEF CoveredInv
    <3>1. win.start = 0 /\ active = Tenants
      BY Zenon DEF CoveredInv
    <3>2. CASE i \in 1 .. win.done
      BY <2>1, <3>1, <3>2 DEF CoveredInv
    <3>3. CASE i \notin 1 .. win.done
      \* A reading in time is not late for its window.
      <4>1. i \in 1 .. Len(log) /\ log[i].at < WindowEnd(i) /\ log[i].at \in Nat /\ WindowEnd(i) \in Nat
        <5>1. i \in 1 .. Len(log)
          BY <1>1, <2>2, SMTT(30)
        <5> QED BY <1>2, <5>1, Zenon
      <4>2. win.mark > 0
        BY <1>1, <4>1, SMTT(30)
      <4>3. PICK j \in win.start + 1 .. win.done : WellFormed(j) /\ win.mark = log[j].at - Lateness
        BY <1>1, <4>2, SMTT(30) DEF MarkInv
      <4>4. j \in 1 .. Len(log) /\ j < i /\ log[j].at \in Nat
        <5>1. j \in 1 .. Len(log) /\ j < i
          BY <1>1, <2>2, <3>3, <4>3, SMTT(30)
        <5> QED BY <1>2, <5>1, Zenon
      <4>5. log[i].at + Lateness >= log[j].at
        BY <4>1, <4>3, <4>4, Zenon DEF InTime
      <4> QED BY <4>1, <4>3, <4>4, <4>5, SMTT(30)
    <3> QED BY <3>1, <3>2, <3>3, Zenon
  <2>13. n \in 0 .. win'.mark
    BY <2>4, <2>6, SMTT(30)
  <2> QED BY <2>7, <2>8, <2>9, <2>10, <2>12, <2>13, Zenon DEF WinInv
<1>10. CASE FailWindows
  <2> DEFINE todo == {log[i].tenant : i \in Closing}
  <2>1. /\ win' = [win EXCEPT !.todo = todo] /\ faults' = faults + 1
        /\ UNCHANGED <<log, aggs, active, known, changes>>
    BY <1>10 DEF FailWindows, Fault, registry
  <2>2. /\ win'.pc = win.pc /\ win'.last = win.last /\ win'.mark = win.mark /\ win'.open = win.open
        /\ win'.start = win.start /\ win'.done = win.done /\ win' \in Wins
    <3> HIDE DEF todo
    <3> QED BY <1>1, <1>6, <2>1, Zenon DEF WinTypes, Wins, todo
  <2>3. faults' \in Nat /\ faults' # 0
    BY <1>1, <2>1, SMTT(30) DEF WinTypes
  <2>4. WinTypes' /\ CoveredInv(m)'
    <3>1. WinTypes'
      BY <1>1, <2>1, <2>2, <2>3 DEF WinTypes
    <3> QED BY <2>3, <3>1, Zenon DEF CoveredInv
  <2>5. MarkInv' /\ OpenInv(m)' /\ \A x \in aggs' : RowInv(x)'
    <3>1. MarkInv' /\ OpenInv(m)'
      BY <1>1, <1>3, <2>1, <2>2, SMTT(30) DEF MarkInv, OpenInv
    <3> QED BY <1>same, <2>1, <2>2, <3>1
  <2> QED BY <2>2, <2>4, <2>5, Zenon DEF WinInv
<1>11. CASE Repartition
  <2>1. /\ win' = NoWindows(Len(log)) /\ faults' = faults + 1
        /\ UNCHANGED <<log, aggs, active, known, changes>>
    BY <1>11, Zenon DEF Repartition, Fault, registry
  <2>2. /\ win'.start = Len(log) /\ win'.done = Len(log) /\ win'.last = Len(log)
        /\ win'.mark = 0 /\ win'.open = {} /\ win' \in Wins
    BY <1>1, <2>1, Zenon DEF NoWindows, Wins
  <2>3. faults' \in Nat /\ faults' # 0
    BY <1>1, <2>1 DEF WinTypes
  <2>4. WinTypes' /\ CoveredInv(0)'
    <3>1. WinTypes'
      BY <1>1, <2>1, <2>2, <2>3, SMTT(30) DEF WinTypes
    <3> QED BY <2>3, <3>1, Zenon DEF CoveredInv
  <2>5. win'.start + 1 .. win'.done = {}
    BY <1>1, <2>2, SMTT(30)
  <2>6. MarkInv' /\ OpenInv(0)'
    BY <2>2, <2>5, Zenon DEF MarkInv, OpenInv
  <2>7. \A x \in aggs' : RowInv(x)'
    <3>1. \A i \in 1 .. win.done : i \in 1 .. win'.done
      BY <1>1, <2>2
    <3>2. win'.start + 1 .. Len(log') = {}
      BY <1>1, <2>1, <2>2, SMTT(30)
    <3> QED BY <1>1, <1>3, <2>1, <3>1, <3>2, Zenon DEF RowInv
  <2> QED BY <2>2, <2>4, <2>6, <2>7, SMTT(30) DEF WinInv
<1>12. CASE \/ \E r \in Readings : Ingest(r) \/ IngestFails(r)
            \/ \E i \in dlq : Replay(i)
  <2>1. CASE \E r \in Readings : Ingest(r) \/ IngestFails(r)
    BY <1>1, <1>4, <2>1, SMTT(30) DEF Ingest, IngestFails, Fault, WinTypes
  <2>2. ASSUME NEW i \in dlq, Replay(i) PROVE WinInv'
    <3>1. log[i] \in Readings
      BY <2>2, SMTT(30) DEF IInv, Types
    <3>2. PICK r \in Readings : r = log[i]
      BY <3>1, SMTT(30)
    <3>3. log' = Append(log, r) /\ UNCHANGED <<registry, windows, faults>>
      BY <2>2, <3>2, Zenon DEF Replay
    <3>4. faults \in Nat
      BY <1>1, Zenon DEF WinTypes
    <3> QED BY <1>4, <3>3, <3>4
  <2> QED BY <1>12, <2>1, <2>2
<1>13. CASE \/ \E t \in Tenants : Suspend(t) \/ Reactivate(t)
            \/ \E k \in Sensors : RemoveSensor(k)
  <2>1. changes' = changes + 1 /\ UNCHANGED <<log, windows, faults>>
    BY <1>13, Zenon DEF Suspend, Reactivate, RemoveSensor, Change
  <2>2. changes' \in Nat /\ changes' # 0 /\ faults \in Nat
    BY <1>1, <2>1 DEF WinTypes
  <2> QED BY <1>5, <2>1, <2>2, SMTT(30)
<1>14. CASE \/ PlanBatch \/ Lookup \/ DeadLetter \/ CommitBatch \/ FailBatch \/ IdleTrigger
            \/ \E t \in Tenants : WriteTenant(t) \/ WriteRefused(t)
            \/ UNCHANGED vars
  <2>1. UNCHANGED <<log, registry, windows>> /\ (faults' = faults \/ faults' = faults + 1)
    BY <1>14, Zenon DEF PlanBatch, Lookup, DeadLetter, CommitBatch, FailBatch, Fault, IdleTrigger,
                 WriteTenant, WriteRefused, vars
  <2>2. faults' \in Nat /\ faults <= faults' /\ changes \in Nat
    BY <1>1, <2>1 DEF WinTypes
  <2> QED BY <1>5, <2>1, <2>2, Zenon DEF registry
<1> QED BY <1>7, <1>8, <1>9, <1>10, <1>11, <1>12, <1>13, <1>14 DEF Next, JobStep, WindowStep

\* While readings come in time, a window's row holds every reading the topic ever gets of it, is
\* written no earlier than the window contract says and, when nothing fails or changes, no later:
\* for any readings, batches, window width, lateness, failures and restarts (aggregate_readings,
\* write_aggregations_to_db, latest_emitted_window).
THEOREM RowsOfWholeWindows == Spec => []WindowsWhole
<1>1. Init => WinInv
  <2> SUFFICES ASSUME Init PROVE WinInv
    OBVIOUS
  <2>1. /\ win = [pc |-> "idle", start |-> 0, done |-> 0, last |-> 0, mark |-> 0, open |-> {}, todo |-> {}]
        /\ log = <<>> /\ aggs = {} /\ faults = 0 /\ changes = 0 /\ active = Tenants
    BY Zenon DEF Init, NoWindows
  <2>2. WinTypes /\ MarkInv
    BY <2>1, SMTT(30) DEF WinTypes, Wins, MarkInv
  <2>3. OpenInv(0) /\ CoveredInv(0)
    BY <2>1, SMTT(30) DEF OpenInv, CoveredInv
  <2> QED BY <2>1, <2>2, <2>3, SMTT(30) DEF WinInv
<1>2. ASSUME WinInv PROVE WindowsWhole
  <2> PICK m \in 0 .. win.mark : OpenInv(m) /\ CoveredInv(m)
    BY <1>2 DEF WinInv
  <2>1. /\ MarkInv /\ \A x \in aggs : RowInv(x)
        /\ log \in Seq(Readings) /\ Len(log) \in Nat
        /\ win.mark \in Nat /\ win.start \in Nat /\ win.done \in Nat /\ m \in Nat
        /\ win.start <= win.done /\ win.done <= Len(log)
    BY <1>2 DEF WinInv, WinTypes, Wins
  <2>2. \A i \in 1 .. Len(log) : log[i].at \in Nat /\ WindowEnd(i) \in Nat
    <3> TAKE i \in 1 .. Len(log)
    <3>1. log[i].at \in Nat
      BY <2>1, ConstAssumption, SMTT(30)
    <3> QED BY <3>1, ConstAssumption, WindowArithmetic, Zenon DEF WindowEnd
  <2>3. ASSUME NEW i \in 1 .. Len(log), NEW j \in 1 .. Len(log)
        PROVE  WindowEnd(i) <= log[j].at - Lateness
                 <=> WindowEnd(i) \div Width - 1 <= LatestEmitted(log[j].at)
    <3>1. log[i].at \in Nat /\ log[j].at - Lateness \in Int /\ Width \in Nat \ {0}
      BY <2>2, ConstAssumption
    <3> QED BY <3>1, WindowArithmetic, Zenon DEF WindowEnd, LatestEmitted
  <2>4. ASSUME NEW x \in aggs, NEW i \in x.of PROVE EmittedBy(i, win.done)
    <3>1. PICK j \in 1 .. win.done : WellFormed(j) /\ x.end <= log[j].at - Lateness
      BY <2>1, Zenon DEF RowInv
    <3>2. i \in 1 .. Len(log) /\ j \in 1 .. Len(log) /\ WindowEnd(i) = x.end
      BY <2>1, <2>4, <3>1 DEF RowInv
    <3> QED BY <2>3, <3>1, <3>2, Zenon DEF EmittedBy
  <2>5. ASSUME InTime, win.pc = "idle", ~WindowWork, changes = 0, faults = 0,
               NEW i \in 1 .. win.done, WellFormed(i), log[i].sensor \in known, EmittedBy(i, win.done)
        PROVE  \E x \in aggs : i \in x.of
    <3>1. win.start = 0
      BY <2>5, Zenon DEF CoveredInv
    <3>2. PICK j \in 1 .. win.done : WellFormed(j) /\ WindowEnd(i) \div Width - 1 <= LatestEmitted(log[j].at)
      BY <2>5 DEF EmittedBy
    <3>3. i \in 1 .. Len(log) /\ j \in 1 .. Len(log)
      BY <2>1
    <3>4. WindowEnd(i) <= log[j].at - Lateness /\ log[j].at - Lateness <= win.mark
      <4>1. WindowEnd(i) <= log[j].at - Lateness
        BY <2>3, <3>2, <3>3, Zenon
      <4>2. j \in win.start + 1 .. win.done
        BY <3>1, <3>2
      <4>3. \A q \in win.start + 1 .. win.done : WellFormed(q) => log[q].at - Lateness <= win.mark
        BY <2>1, Zenon DEF MarkInv
      <4> QED BY <3>2, <4>1, <4>2, <4>3, Zenon
    <3>5. WindowEnd(i) <= win.mark
      BY <2>1, <2>2, <3>3, <3>4, ConstAssumption, SMTT(30)
    <3>6. WindowEnd(i) <= m
      <4>1. i \notin win.open
        BY <2>5, <3>5, Zenon DEF WindowWork, Closing
      <4>2. ~(WindowEnd(i) > m)
        BY <2>1, <2>5, <3>1, <4>1 DEF OpenInv
      <4> QED BY <2>1, <2>2, <3>3, <4>2
    <3> QED BY <2>5, <3>6, Zenon DEF CoveredInv
  <2> QED BY <2>1, <2>4, <2>5, Zenon DEF WindowsWhole, RowInv
<1> QED BY <1>1, <1>2, WinNext, Invariance, PTL DEF Spec
=============================================================================
