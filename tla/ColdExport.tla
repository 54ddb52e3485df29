----------------------------- MODULE ColdExport -----------------------------
(***************************************************************************)
(* The cold-layer export job (services/cold_export): moves one tenant's    *)
(* raw measurements older than the horizon from the hypertable to Parquet  *)
(* parts, day by day: write the part, verify it, list it in the manifest,  *)
(* then drop the rows if the day still holds exactly what was read.        *)
(*                                                                         *)
(* One action per step between which a crash, an insert, a delete or a     *)
(* second run changes the outcome.  A row is its natural key               *)
(* (time, sensor_id): the writer inserts ON CONFLICT DO NOTHING and never  *)
(* rewrites a reading.  The j-th entry of a manifest names the day's j-th  *)
(* part file (part_file(j-1)) and records its row count.                   *)
(***************************************************************************)
EXTENDS Naturals, FiniteSets, Sequences

CONSTANTS
    Days,           \* days past the horizon; the older the smaller
    Keys,           \* natural keys a day's rows can have
    Runs,           \* executions of the job that may overlap
    NoRun,
    LegacyDays,     \* days whose manifest predates the drop record
    MaxParts,       \* parts a day can have: the names cold_export_drop_day accepts
    MaxFaults,      \* bound: infrastructure failures and kills
    LockCanBeLost   \* whether the lock's session may end under a live run

ASSUME ConstAssumption ==
    /\ Days \subseteq Nat
    /\ IsFiniteSet(Keys)
    /\ NoRun \notin Runs
    /\ LegacyDays \subseteq Days
    /\ MaxParts \in Nat \ {0}
    /\ MaxFaults \in Nat
    /\ LockCanBeLost \in BOOLEAN

VARIABLES
    hot,        \* sensor_measurements of each day
    ever,       \* history: every row a day was ever given
    gone,       \* history: rows deleted from a day by an operator
    files,      \* objects of the cold store: <<day, part, key>>
    manifest,   \* the day's manifest: legacy format or not, row count per part
    drops,      \* public.cold_export_drops: <<day, part>>
    lock,       \* holder of the run-wide advisory lock
    run,        \* each run's progress and locals
    faults

stores == <<hot, ever, gone, files, manifest, drops>>
vars == <<stores, lock, run, faults>>

\* A run that has read at most a manifest; one not under way; one between days.
At(pc, days, d, ps, leg) ==
    [pc |-> pc, todo |-> days, day |-> d, parts |-> ps, legacy |-> leg, base |-> 0,
     snap |-> {}, fresh |-> {}, part |-> 0]
Idle == At("idle", {}, 0, <<>>, FALSE)
Between(days) == At("next", days, 0, <<>>, FALSE)

(***************************************************************************)
(* The cold store and the manifest.                                        *)
(***************************************************************************)
Content(d, i) == {k \in Keys : <<d, i, k>> \in files}

PartRowCount(d, i) == Cardinality(Content(d, i))

\* drop_recorded: the database's own record that the part's drop committed.
DropRecorded(d, i) == <<d, i>> \in drops

\* _check_part: the part's footer still counts what the manifest says.
CheckPart(d, ps, i) == PartRowCount(d, i) = ps[i]

\* A listed part whose rows may no longer be in the hypertable.
Committed(d, i) ==
    /\ i \in 1 .. Len(manifest[d].parts)
    /\ manifest[d].legacy \/ DropRecorded(d, i)

Archived(d) ==
    UNION {Content(d, i) : i \in {j \in 1 .. Len(manifest[d].parts) : Committed(d, j)}}

\* run[r].base is the number of listed parts a run builds on: all of them, or
\* all but a last one that is pending.
Pending(r) == run[r].base < Len(run[r].parts)

InBase_NoAntiJoin(r) == {}

\* The rows already in the parts a run builds on.
InBase(r) == UNION {Content(run[r].day, i) : i \in 1 .. run[r].base}

-----------------------------------------------------------------------------
\* A legacy day was exported before drops were recorded: its one file is
\* listed, and its drop either ran or did not.
Init ==
    /\ drops = {}
    /\ gone = [d \in Days |-> {}]
    /\ \E S \in [LegacyDays -> SUBSET Keys \ {{}}] :
          /\ files = {f \in LegacyDays \X {1} \X Keys : f[3] \in S[f[1]]}
          /\ manifest = [d \in Days |->
                IF d \in LegacyDays THEN [legacy |-> TRUE, parts |-> <<Cardinality(S[d])>>]
                                    ELSE [legacy |-> FALSE, parts |-> <<>>]]
          /\ ever = [d \in Days |-> IF d \in LegacyDays THEN S[d] ELSE {}]
          /\ hot \in [Days -> SUBSET Keys]
          /\ \A d \in Days : hot[d] = {} \/ (d \in LegacyDays /\ hot[d] = S[d])
    /\ lock = NoRun
    /\ run = [r \in Runs |-> Idle]
    /\ faults = 0

-----------------------------------------------------------------------------
(***************************************************************************)
(* The hypertable's writers.                                               *)
(***************************************************************************)
\* The Spark writer's INSERT ... ON CONFLICT DO NOTHING; also a redelivery
\* of a reading whose day was exported and dropped.
Insert(d, k) ==
    /\ k \notin hot[d]
    /\ hot' = [hot EXCEPT ![d] = @ \cup {k}]
    /\ ever' = [ever EXCEPT ![d] = @ \cup {k}]
    /\ UNCHANGED <<gone, files, manifest, drops, lock, run, faults>>

\* A deliberate delete of a row of the hypertable, at most once per key.
DeleteRow(d, k) ==
    /\ k \in hot[d] \ gone[d]
    /\ hot' = [hot EXCEPT ![d] = @ \ {k}]
    /\ gone' = [gone EXCEPT ![d] = @ \cup {k}]
    /\ UNCHANGED <<ever, files, manifest, drops, lock, run, faults>>

-----------------------------------------------------------------------------
(***************************************************************************)
(* A run.                                                                  *)
(***************************************************************************)
StartRun_NoLock(r) ==
    /\ run[r].pc = "idle"
    /\ lock' = r
    /\ run' = [run EXCEPT ![r].pc = "list"]
    /\ UNCHANGED <<stores, faults>>

\* exclusive_run: pg_try_advisory_lock; a run that finds it held does nothing.
StartRun(r) ==
    /\ run[r].pc = "idle" /\ lock = NoRun
    /\ lock' = r
    /\ run' = [run EXCEPT ![r].pc = "list"]
    /\ UNCHANGED <<stores, faults>>

\* The run ends, normally, by an exception or by a kill: the lock's session
\* ends with it.
EndRun(r) ==
    /\ run' = [run EXCEPT ![r] = Idle]
    /\ lock' = IF lock = r THEN NoRun ELSE lock
    /\ UNCHANGED stores

\* exportable_days: the days that hold rows now.
ListDays(r) ==
    /\ run[r].pc = "list"
    /\ run' = [run EXCEPT ![r] = Between({d \in Days : hot[d] # {}})]
    /\ UNCHANGED <<stores, lock, faults>>

FinishRun(r) ==
    /\ run[r].pc = "next" /\ run[r].todo = {}
    /\ EndRun(r)
    /\ UNCHANGED faults

\* The oldest day left: export_day starts by reading its manifest.
ReadManifest(r) ==
    /\ run[r].pc = "next"
    /\ \E d \in run[r].todo :
         /\ \A e \in run[r].todo : d <= e
         /\ run' = [run EXCEPT ![r] = At("record", run[r].todo \ {d}, d, manifest[d].parts,
                                         manifest[d].legacy)]
    /\ UNCHANGED <<stores, lock, faults>>

\* A listed last part without its drop record is pending; every other listed
\* part is committed and its footer must still match the manifest.
ReadRecord(r) ==
    LET d == run[r].day
        ps == run[r].parts
        pend == ps # <<>> /\ ~run[r].legacy /\ ~DropRecorded(d, Len(ps))
        committed == IF pend THEN Len(ps) - 1 ELSE Len(ps) IN
    /\ run[r].pc = "record"
    /\ IF \A i \in 1 .. committed : CheckPart(d, ps, i)
       THEN /\ run' = [run EXCEPT ![r].base = committed, ![r].pc = "snapshot"]
            /\ UNCHANGED <<stores, lock>>
       ELSE EndRun(r)
    /\ UNCHANGED faults

\* The REPEATABLE READ snapshot: count, fingerprint and rows of one moment.
\* A day found empty is done, unless a pending part waits for its record.
TakeSnapshot(r) ==
    LET d == run[r].day
        n == Len(run[r].parts) IN
    /\ run[r].pc = "snapshot"
    /\ \/ /\ hot[d] # {}
          /\ run' = [run EXCEPT ![r].snap = hot[d], ![r].part = run[r].base + 1,
                                ![r].pc = "write"]
          /\ UNCHANGED <<stores, lock>>
       \/ /\ hot[d] = {} /\ ~Pending(r)
          /\ run' = [run EXCEPT ![r] = Between(run[r].todo)]
          /\ UNCHANGED <<stores, lock>>
       \/ /\ hot[d] = {} /\ Pending(r) /\ CheckPart(d, run[r].parts, n)
          /\ run' = [run EXCEPT ![r].part = n, ![r].pc = "drop"]
          /\ UNCHANGED <<stores, lock>>
       \/ /\ hot[d] = {} /\ Pending(r) /\ ~CheckPart(d, run[r].parts, n)
          /\ EndRun(r)
    /\ UNCHANGED faults

WritePart_NothingNewIsDone(r) ==
    LET d == run[r].day
        new == run[r].snap \ InBase(r) IN
    /\ run[r].pc = "write"
    /\ \/ /\ new # {}
          /\ files' = {f \in files : f[1] # d \/ f[2] # run[r].part} \cup ({d} \X {run[r].part} \X new)
          /\ run' = [run EXCEPT ![r].fresh = new, ![r].pc = "verify"]
       \/ /\ new = {}
          /\ run' = [run EXCEPT ![r] = Between(run[r].todo)]
          /\ UNCHANGED files
    /\ UNCHANGED <<hot, ever, gone, manifest, drops, lock, faults>>

\* Rows no committed part holds are written under the part's name, replacing
\* what was there; a failing store may keep fewer rows than it was given.
\* With nothing to write, the drop completes the last committed part.
WritePart(r) ==
    LET d == run[r].day
        i == run[r].part
        new == run[r].snap \ InBase(r) IN
    /\ run[r].pc = "write"
    /\ \/ /\ new # {}
          /\ \E kept \in SUBSET new :
               /\ kept # new => faults < MaxFaults
               /\ faults' = IF kept = new THEN faults ELSE faults + 1
               /\ files' = {f \in files : f[1] # d \/ f[2] # i} \cup ({d} \X {i} \X kept)
          /\ run' = [run EXCEPT ![r].fresh = new, ![r].pc = "verify"]
       \/ /\ new = {}
          /\ run' = [run EXCEPT ![r].fresh = {}, ![r].part = run[r].base, ![r].pc = "publish"]
          /\ UNCHANGED <<files, faults>>
    /\ UNCHANGED <<hot, ever, gone, manifest, drops, lock>>

VerifyPart_Unread(r) ==
    /\ run[r].pc = "verify"
    /\ run' = [run EXCEPT ![r].pc = "publish"]
    /\ UNCHANGED <<stores, lock, faults>>

\* _write_and_verify: the footer read back must count exactly the rows given.
VerifyPart(r) ==
    /\ run[r].pc = "verify"
    /\ IF PartRowCount(run[r].day, run[r].part) = Cardinality(run[r].fresh)
       THEN run' = [run EXCEPT ![r].pc = "publish"] /\ UNCHANGED <<stores, lock>>
       ELSE EndRun(r)
    /\ UNCHANGED faults

\* The manifest is written before the drop, listing the verified part.
Listing(r) ==
    LET base == SubSeq(run[r].parts, 1, run[r].base) IN
    IF run[r].fresh = {} THEN base ELSE Append(base, Cardinality(run[r].fresh))

PublishManifest(r) ==
    /\ run[r].pc = "publish"
    /\ manifest' = [manifest EXCEPT ![run[r].day] = [legacy |-> FALSE, parts |-> Listing(r)]]
    /\ run' = [run EXCEPT ![r].pc = "drop"]
    /\ UNCHANGED <<hot, ever, gone, files, drops, lock, faults>>

DropDay_CountOnly(r) ==
    LET d == run[r].day IN
    /\ run[r].pc = "drop"
    /\ IF Cardinality(hot[d]) = Cardinality(run[r].snap)
       THEN hot' = [hot EXCEPT ![d] = {}] /\ drops' = drops \cup {<<d, run[r].part>>}
       ELSE UNCHANGED <<hot, drops>>
    /\ run' = [run EXCEPT ![r] = Between(run[r].todo)]
    /\ UNCHANGED <<ever, gone, files, manifest, lock, faults>>

\* cold_export_drop_day: under the day's lock, drop and record in one
\* transaction if the day holds exactly the snapshot, else defer.
DropDay(r) ==
    LET d == run[r].day IN
    /\ run[r].pc = "drop"
    /\ \/ /\ run[r].part <= MaxParts
          /\ IF hot[d] = run[r].snap
             THEN hot' = [hot EXCEPT ![d] = {}] /\ drops' = drops \cup {<<d, run[r].part>>}
             ELSE UNCHANGED <<hot, drops>>
          /\ run' = [run EXCEPT ![r] = Between(run[r].todo)]
          /\ UNCHANGED <<ever, gone, files, manifest, lock>>
       \/ run[r].part > MaxParts /\ EndRun(r)
    /\ UNCHANGED faults

\* An infrastructure failure or a kill at any point of the run.
Abort(r) ==
    /\ run[r].pc # "idle" /\ faults < MaxFaults
    /\ faults' = faults + 1
    /\ EndRun(r)

\* The lock's own session dies (a database restart, a cut connection) while
\* the run goes on over its other connections.
LoseLock(r) ==
    /\ LockCanBeLost /\ lock = r /\ faults < MaxFaults
    /\ lock' = NoRun
    /\ faults' = faults + 1
    /\ UNCHANGED <<stores, run>>

-----------------------------------------------------------------------------
RunStep(r) ==
    \/ StartRun(r) \/ ListDays(r) \/ FinishRun(r)
    \/ ReadManifest(r) \/ ReadRecord(r) \/ TakeSnapshot(r)
    \/ WritePart(r) \/ VerifyPart(r) \/ PublishManifest(r) \/ DropDay(r)

Next ==
    \/ \E d \in Days, k \in Keys : Insert(d, k) \/ DeleteRow(d, k)
    \/ \E r \in Runs : RunStep(r) \/ Abort(r) \/ LoseLock(r)

Spec == Init /\ [][Next]_vars

\* The CronJob starts the job again and again, and a started run proceeds.
FairSpec == Spec /\ \A r \in Runs : WF_vars(RunStep(r))

-----------------------------------------------------------------------------
Pcs == {"idle", "list", "next", "record", "snapshot", "write", "verify", "publish", "drop"}

RunState ==
    [pc : Pcs, todo : SUBSET Days, day : Nat, parts : Seq(Nat \ {0}), legacy : BOOLEAN,
     base : Nat, snap : SUBSET Keys, fresh : SUBSET Keys, part : Nat]

\* Type invariant of the stores, the lock and every run's locals; a part that
\* is listed has rows.
TypeOK ==
    /\ hot \in [Days -> SUBSET Keys]
    /\ ever \in [Days -> SUBSET Keys]
    /\ gone \in [Days -> SUBSET Keys]
    /\ files \subseteq Days \X Nat \X Keys
    /\ manifest \in [Days -> [legacy : BOOLEAN, parts : Seq(Nat \ {0})]]
    /\ drops \subseteq Days \X Nat
    /\ lock \in Runs \cup {NoRun}
    /\ run \in [Runs -> RunState]
    /\ faults \in 0 .. MaxFaults

\* export -> verify -> drop loses nothing: whatever fails or interleaves,
\* every row ever written to a day, and not deliberately deleted, is in the
\* hypertable or in a committed part the manifest lists.
NoRowLost == \A d \in Days : ever[d] \ gone[d] \subseteq hot[d] \cup Archived(d)

\* Every row is exported once: no two committed parts hold the same key,
\* however often a reading is redelivered or an export repeated.
ArchivedOnce ==
    \A d \in Days : \A i, j \in 1 .. Len(manifest[d].parts) :
        Committed(d, i) /\ Committed(d, j) /\ i # j => Content(d, i) \cap Content(d, j) = {}

\* Committed parts are never rewritten: no step changes the object of a
\* committed part, takes it off the manifest or forgets its drop.
CommittedNeverRewritten ==
    [][\A d \in Days : \A i \in 1 .. Len(manifest[d].parts) :
          Committed(d, i) => Content(d, i)' = Content(d, i) /\ Committed(d, i)']_vars

\* Weaker than NoRowLost: a row that left the hypertable is at least in some
\* object the manifest lists, whether or not that object counts as committed.
NoRowDestroyed ==
    \A d \in Days : ever[d] \ gone[d] \subseteq
        hot[d] \cup UNION {Content(d, i) : i \in 1 .. Len(manifest[d].parts)}

Archive == INSTANCE ColdArchive WITH archived <- [d \in Days |-> Archived(d)]

\* The job implements the archive's promise: seen from outside, the only steps
\* of a run that matter are the drops, and each moves a day's rows as a whole.
ImplementsArchive == Archive!Spec

\* Two runs are under way at once: the lock was lost under the first.
Overlap == \E r, s \in Runs : r # s /\ run[r].pc # "idle" /\ run[s].pc # "idle"

\* A crash, a deferred drop or a lock lost with nobody starting in the gap never
\* wedges a day: once rows stop arriving, repeated runs archive every old row
\* and leave the hypertable empty (export_day, _write_and_verify).
OldRowsLeaveHot ==
    []~Overlap /\ <>[][\A d \in Days : hot'[d] \subseteq hot[d]]_vars
        => <>[](\A d \in Days : hot[d] = {})
=============================================================================
