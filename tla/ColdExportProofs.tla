-------------------------- MODULE ColdExportProofs --------------------------
(***************************************************************************)
(* The export job loses no row, exports none twice, never rewrites a       *)
(* committed part and implements ColdArchive: for any days, keys, runs and *)
(* bounds, where no day has a legacy manifest and a run's lock lasts as    *)
(* long as the run.                                                        *)
(***************************************************************************)
EXTENDS ColdExport, FiniteSetTheorems, TLAPS

\* Only the run that holds the lock is under way.
LockInv == \A r \in Runs : run[r].pc # "idle" => lock = r

\* Facts about a day's objects, manifest and drop records that every step
\* keeps: a part is written or recorded only after the drops of all the parts
\* before it, a recorded part is listed, and its object shares no key with
\* another object of the day.
DayInv(d) ==
    /\ ~manifest[d].legacy
    /\ hot[d] \subseteq ever[d]
    /\ \A i \in Nat : <<d, i>> \in drops => i \in 1 .. Len(manifest[d].parts)
    /\ \A i \in 1 .. Len(manifest[d].parts) : \A j \in 1 .. i - 1 : <<d, j>> \in drops
    /\ \A i \in Nat, k \in Keys : <<d, i, k>> \in files =>
         k \in ever[d] /\ i > 0 /\ \A j \in 1 .. i - 1 : <<d, j>> \in drops
    /\ \A i, j \in Nat, k \in Keys :
         <<d, i>> \in drops /\ <<d, i, k>> \in files /\ <<d, j, k>> \in files => i = j
    /\ \A k \in ever[d] \ gone[d] :
         k \in hot[d] \/ \E i \in Nat : <<d, i>> \in drops /\ <<d, i, k>> \in files

\* What the run under way knows, step by step.
Locals(r) ==
    LET d == run[r].day
        n == Len(run[r].parts)
        b == run[r].base
        p == run[r].part IN
    /\ run[r].pc \in {"record", "snapshot", "write", "verify", "publish", "drop"} => d \in Days
    /\ run[r].pc \in {"record", "snapshot", "write", "verify", "publish"} =>
         run[r].parts = manifest[d].parts
    /\ run[r].pc = "record" => ~run[r].legacy
    /\ run[r].pc \in {"snapshot", "write", "verify", "publish"} =>
         /\ b <= n
         /\ \A i \in Nat : <<d, i>> \in drops <=> i \in 1 .. b
    /\ run[r].pc \in {"record", "snapshot"} => run[r].snap = {}
    /\ run[r].pc \in {"write", "verify", "publish"} =>
         run[r].snap # {} /\ run[r].snap \subseteq ever[d]
    /\ run[r].pc = "write" => p = b + 1
    /\ run[r].pc \in {"verify", "publish"} => \A k \in Keys :
         k \in run[r].fresh <=> k \in run[r].snap /\ \A i \in 1 .. b : <<d, i, k>> \notin files
    /\ run[r].pc = "verify" =>
         p = b + 1 /\ run[r].fresh # {} /\ \A k \in Keys : <<d, p, k>> \in files => k \in run[r].fresh
    /\ run[r].pc = "publish" =>
         \/ run[r].fresh = {} /\ p = b
         \/ run[r].fresh # {} /\ p = b + 1 /\ \A k \in run[r].fresh : <<d, p, k>> \in files
    /\ run[r].pc = "drop" =>
         /\ p > 0 /\ p = Len(manifest[d].parts)
         /\ \A k \in run[r].snap : \E i \in 1 .. p : <<d, i, k>> \in files

IInv ==
    /\ TypeOK
    /\ LockInv
    /\ \A d \in Days : DayInv(d)
    /\ \A r \in Runs : Locals(r)

-----------------------------------------------------------------------------
(***************************************************************************)
(* Facts used by several actions.                                          *)
(***************************************************************************)
\* While a run is under way, every other run is idle.
LEMMA OthersIdle ==
    ASSUME TypeOK, LockInv, NEW r \in Runs, run[r].pc # "idle"
    PROVE  lock = r /\ \A s \in Runs \ {r} : run[s].pc = "idle"
BY DEF TypeOK, LockInv

\* What is known of a day survives a step that leaves the stores alone.
LEMMA StoresSame ==
    ASSUME \A d \in Days : DayInv(d), UNCHANGED stores
    PROVE  \A d \in Days : DayInv(d)'
<1>1. /\ hot' = hot /\ ever' = ever /\ gone' = gone
      /\ files' = files /\ manifest' = manifest /\ drops' = drops
  BY DEF stores
<1> QED BY <1>1 DEF DayInv

\* Setting any of the fields keeps a run's type.
LEMMA SetType ==
    ASSUME NEW x \in RunState, NEW pc \in Pcs, NEW base \in Nat, NEW snap \in SUBSET Keys,
           NEW fresh \in SUBSET Keys, NEW part \in Nat
    PROVE  /\ [x EXCEPT !.pc = pc] \in RunState
           /\ [x EXCEPT !.base = base, !.pc = pc] \in RunState
           /\ [x EXCEPT !.snap = snap, !.part = part, !.pc = pc] \in RunState
           /\ [x EXCEPT !.part = part, !.pc = pc] \in RunState
           /\ [x EXCEPT !.fresh = fresh, !.pc = pc] \in RunState
           /\ [x EXCEPT !.fresh = fresh, !.part = part, !.pc = pc] \in RunState
BY Zenon DEF RunState

-----------------------------------------------------------------------------
(***************************************************************************)
(* Init and every action keep the invariant.                               *)
(***************************************************************************)
\* The empty stores satisfy the invariant, when no day has a legacy manifest.
LEMMA InitIInv == ASSUME LegacyDays = {}, Init PROVE IInv
<1>1. files = {} /\ manifest = [d \in Days |-> [legacy |-> FALSE, parts |-> <<>>]]
  BY DEF Init
<1>2. ever = [d \in Days |-> {}] /\ hot = [d \in Days |-> {}] /\ drops = {}
  BY DEF Init
<1>3. TypeOK
  <2>1. Idle \in RunState
    BY DEF Idle, At, Pcs, RunState
  <2> QED BY <1>1, <1>2, <2>1, ConstAssumption DEF Init, TypeOK
<1>4. LockInv /\ \A r \in Runs : Locals(r)
  BY DEF Init, LockInv, Locals, Idle, At
<1>5. \A d \in Days : DayInv(d)
  BY <1>1, <1>2 DEF DayInv
<1> QED BY <1>3, <1>4, <1>5 DEF IInv

\* The manifest a run writes lists the parts it builds on and, if it wrote one,
\* the part it verified.
LEMMA ListingType ==
    ASSUME IInv, NEW r \in Runs, run[r].pc = "publish"
    PROVE  Listing(r) \in Seq(Nat \ {0}) /\ Len(Listing(r)) = run[r].part
<1> DEFINE base == SubSeq(run[r].parts, 1, run[r].base)
<1>1. run[r].parts \in Seq(Nat \ {0}) /\ run[r].base \in Nat /\ run[r].fresh \in SUBSET Keys
  BY DEF IInv, TypeOK, RunState
<1>2. run[r].base <= Len(run[r].parts)
      /\ (\/ run[r].fresh = {} /\ run[r].part = run[r].base
          \/ run[r].fresh # {} /\ run[r].part = run[r].base + 1)
  BY Zenon DEF IInv, Locals
<1>3. base \in Seq(Nat \ {0}) /\ Len(base) = run[r].base
  BY <1>1, <1>2
<1>4. CASE run[r].fresh = {}
  BY <1>2, <1>3, <1>4 DEF Listing
<1>5. CASE run[r].fresh # {}
  <2>1. IsFiniteSet(run[r].fresh)
    BY <1>1, ConstAssumption, FS_Subset
  <2>2. Cardinality(run[r].fresh) \in Nat \ {0}
    BY <1>5, <2>1, FS_CardinalityType, FS_EmptySet
  <2>3. Listing(r) = Append(base, Cardinality(run[r].fresh))
    BY <1>5, Zenon DEF Listing
  <2> HIDE DEF base
  <2> QED BY <1>2, <1>3, <1>5, <2>2, <2>3
<1> QED BY <1>4, <1>5

\* Every step keeps the invariant, when a run's lock lasts as long as the run.
LEMMA NextIInv == ASSUME ~LockCanBeLost, IInv, [Next]_vars PROVE IInv'
\* However a run ends, the invariant is kept and the lock is free.
<1>1. ASSUME IInv, NEW r \in Runs, run[r].pc # "idle", EndRun(r), faults' \in 0 .. MaxFaults
      PROVE  IInv'
  <2> USE <1>1
  <2>1. lock = r /\ \A s \in Runs \ {r} : run[s].pc = "idle"
    BY OthersIdle DEF IInv
  <2>2. run' = [run EXCEPT ![r] = Idle] /\ lock' = NoRun /\ UNCHANGED stores
    BY <2>1 DEF EndRun
  <2>3. TypeOK'
    <3>1. Idle \in RunState
      BY DEF Idle, At, Pcs, RunState
    <3> QED BY <2>2, <3>1 DEF IInv, TypeOK, stores
  <2>4. \A s \in Runs : run'[s].pc = "idle"
    BY <2>1, <2>2 DEF IInv, TypeOK, Idle, At
  <2>5. LockInv' /\ \A s \in Runs : Locals(s)'
    BY <2>4, Zenon DEF LockInv, Locals
  <2>6. \A d \in Days : DayInv(d)'
    BY <2>2, StoresSame DEF IInv
  <2> QED BY <2>3, <2>5, <2>6 DEF IInv
\* A run that moves on to another day, or lists its days, carries nothing over.
<1>2. ASSUME IInv, NEW r \in Runs, run[r].pc # "idle", NEW days \in SUBSET Days,
             run' = [run EXCEPT ![r] = Between(days)], UNCHANGED <<stores, lock, faults>>
      PROVE  IInv'
  <2> USE <1>2
  <2>1. lock = r /\ \A s \in Runs \ {r} : run[s].pc = "idle"
    BY OthersIdle DEF IInv
  <2>2. Between(days) \in RunState
    BY DEF Between, At, Pcs, RunState
  <2>3. TypeOK'
    BY <2>2 DEF IInv, TypeOK, stores
  <2>4. run'[r].pc = "next" /\ \A s \in Runs \ {r} : run'[s].pc = "idle"
    BY <2>1 DEF IInv, TypeOK, Between, At
  <2>5. LockInv' /\ \A s \in Runs : Locals(s)'
    BY <2>1, <2>4, Zenon DEF LockInv, Locals
  <2>6. \A d \in Days : DayInv(d)'
    BY StoresSame DEF IInv
  <2> QED BY <2>3, <2>5, <2>6 DEF IInv
\* A row that arrives, at whatever step of a run.
<1>3. ASSUME IInv, NEW d \in Days, NEW k \in Keys, Insert(d, k) PROVE IInv'
  <2> USE <1>3
  <2>1. TypeOK'
    BY Zenon DEF IInv, TypeOK, Insert
  <2>2. LockInv'
    BY Zenon DEF IInv, LockInv, Insert
  <2>3. \A e \in Days : DayInv(e)'
    <3>1. hot'[d] = hot[d] \cup {k} /\ ever'[d] = ever[d] \cup {k} /\ gone' = gone
      BY DEF IInv, TypeOK, Insert
    <3>2. ASSUME NEW e \in Days, e # d PROVE hot'[e] = hot[e] /\ ever'[e] = ever[e]
      BY <3>2 DEF IInv, TypeOK, Insert
    <3>3. files' = files /\ manifest' = manifest /\ drops' = drops
      BY DEF Insert
    <3>4. DayInv(d)'
      BY <3>1, <3>3, Zenon DEF IInv, DayInv
    <3>5. ASSUME NEW e \in Days, e # d PROVE DayInv(e)'
      BY <3>1, <3>2, <3>3, <3>5, Zenon DEF IInv, DayInv
    <3> QED BY <3>4, <3>5
  <2>4. \A r \in Runs : Locals(r)'
    <3>1. run' = run /\ files' = files /\ manifest' = manifest /\ drops' = drops
      BY DEF Insert
    <3>2. \A e \in Days : ever[e] \subseteq ever'[e]
      BY DEF IInv, TypeOK, Insert
    <3> SUFFICES ASSUME NEW r \in Runs PROVE Locals(r)'
      OBVIOUS
    <3>3. Locals(r)
      BY DEF IInv
    <3> QED BY <3>1, <3>2, <3>3, Zenon DEF Locals
  <2> QED BY <2>1, <2>2, <2>3, <2>4 DEF IInv
\* A row that is deleted, at whatever step of a run.
<1>4. ASSUME IInv, NEW d \in Days, NEW k \in Keys, DeleteRow(d, k) PROVE IInv'
  <2> USE <1>4
  <2>1. TypeOK'
    BY DEF IInv, TypeOK, DeleteRow
  <2>2. LockInv'
    BY Zenon DEF IInv, LockInv, DeleteRow
  <2>3. \A e \in Days : DayInv(e)'
    <3>1. hot'[d] = hot[d] \ {k} /\ gone'[d] = gone[d] \cup {k} /\ ever' = ever
      BY DEF IInv, TypeOK, DeleteRow
    <3>2. ASSUME NEW e \in Days, e # d PROVE hot'[e] = hot[e] /\ gone'[e] = gone[e]
      BY <3>2 DEF IInv, TypeOK, DeleteRow
    <3>3. files' = files /\ manifest' = manifest /\ drops' = drops
      BY DEF DeleteRow
    <3>4. DayInv(d)'
      BY <3>1, <3>3, Zenon DEF IInv, DayInv
    <3>5. ASSUME NEW e \in Days, e # d PROVE DayInv(e)'
      BY <3>1, <3>2, <3>3, <3>5, Zenon DEF IInv, DayInv
    <3> QED BY <3>4, <3>5
  <2>4. \A r \in Runs : Locals(r)'
    <3>1. run' = run /\ files' = files /\ manifest' = manifest /\ drops' = drops
      BY DEF DeleteRow
    <3>2. \A e \in Days : ever[e] \subseteq ever'[e]
      BY DEF IInv, TypeOK, DeleteRow
    <3> SUFFICES ASSUME NEW r \in Runs PROVE Locals(r)'
      OBVIOUS
    <3>3. Locals(r)
      BY DEF IInv
    <3> QED BY <3>1, <3>2, <3>3, Zenon DEF Locals
  <2> QED BY <2>1, <2>2, <2>3, <2>4 DEF IInv
\* exclusive_run: a run starts only when no other is under way.
<1>5. ASSUME IInv, NEW r \in Runs, StartRun(r) PROVE IInv'
  <2> USE <1>5
  <2>1. TypeOK'
    BY SetType, Zenon DEF IInv, TypeOK, StartRun, Pcs, stores
  <2>2. \A s \in Runs : run[s].pc = "idle"
    BY ConstAssumption DEF IInv, TypeOK, LockInv, StartRun
  <2>3. lock' = r /\ run'[r].pc = "list" /\ \A s \in Runs \ {r} : run'[s].pc = "idle"
    BY <2>2 DEF IInv, TypeOK, StartRun
  <2>4. LockInv' /\ \A s \in Runs : Locals(s)'
    BY <2>3, Zenon DEF LockInv, Locals
  <2>5. \A d \in Days : DayInv(d)'
    BY StoresSame DEF IInv, StartRun
  <2> QED BY <2>1, <2>4, <2>5 DEF IInv
\* exportable_days: the run's days are days.
<1>6. ASSUME IInv, NEW r \in Runs, ListDays(r) PROVE IInv'
  <2> USE <1>6
  <2>1. {d \in Days : hot[d] # {}} \in SUBSET Days
    OBVIOUS
  <2> QED BY <2>1, <1>2, Zenon DEF ListDays
\* A run with no day left ends.
<1>7. ASSUME IInv, NEW r \in Runs, FinishRun(r) PROVE IInv'
  BY <1>7, <1>1, Zenon DEF FinishRun, IInv, TypeOK
\* export_day reads the manifest: what the run holds of it is current.
<1>8. ASSUME IInv, NEW r \in Runs, ReadManifest(r) PROVE IInv'
  <2> USE <1>8
  <2>1. lock = r /\ \A s \in Runs \ {r} : run[s].pc = "idle"
    BY OthersIdle DEF IInv, ReadManifest
  <2>2. PICK d \in run[r].todo :
          run' = [run EXCEPT ![r] = At("record", run[r].todo \ {d}, d, manifest[d].parts, manifest[d].legacy)]
    BY Zenon DEF ReadManifest
  <2>3. d \in Days /\ d \in Nat /\ run[r].todo \in SUBSET Days /\ ~manifest[d].legacy
        /\ manifest[d].parts \in Seq(Nat \ {0}) /\ manifest[d].legacy \in BOOLEAN
    BY ConstAssumption, Zenon DEF IInv, TypeOK, RunState, DayInv
  <2> DEFINE x == At("record", run[r].todo \ {d}, d, manifest[d].parts, manifest[d].legacy)
  <2>4. x \in RunState
    BY <2>3, Zenon DEF At, RunState, Pcs
  <2>5. run'[r] = x /\ \A s \in Runs \ {r} : run'[s] = run[s]
    BY <2>2, Zenon DEF IInv, TypeOK
  <2>6. UNCHANGED <<stores, lock, faults>>
    BY DEF ReadManifest
  <2>7. TypeOK'
    BY <2>2, <2>4, <2>6, Zenon DEF IInv, TypeOK, stores
  <2>8. LockInv'
    BY <2>1, <2>5, <2>6 DEF LockInv
  <2>9. \A e \in Days : DayInv(e)'
    BY <2>6, StoresSame DEF IInv
  <2>10. Locals(r)'
    <3>1. /\ run'[r].pc = "record" /\ run'[r].day = d /\ run'[r].parts = manifest[d].parts
          /\ run'[r].snap = {} /\ run'[r].legacy = manifest[d].legacy
      BY <2>5, SMTT(30) DEF At
    <3>2. manifest' = manifest
      BY <2>6 DEF stores
    <3> QED BY <2>3, <3>1, <3>2, Zenon DEF Locals
  <2>11. \A s \in Runs \ {r} : Locals(s)'
    BY <2>1, <2>5, Zenon DEF Locals
  <2> QED BY <2>7, <2>8, <2>9, <2>10, <2>11 DEF IInv
\* drop_recorded: the parts a run builds on are exactly the recorded ones.
<1>9. ASSUME IInv, NEW r \in Runs, ReadRecord(r) PROVE IInv'
  <2> USE <1>9
  <2> DEFINE d == run[r].day
             ps == run[r].parts
             n == Len(ps)
             pend == ps # <<>> /\ ~run[r].legacy /\ ~DropRecorded(d, n)
             c == IF pend THEN n - 1 ELSE n
  <2>1. lock = r /\ \A s \in Runs \ {r} : run[s].pc = "idle"
    BY OthersIdle DEF IInv, ReadRecord
  <2>2. CASE EndRun(r)
    <3>1. faults' \in 0 .. MaxFaults
      BY DEF IInv, TypeOK, ReadRecord
    <3> QED BY <2>2, <3>1, <1>1 DEF ReadRecord
  <2>3. CASE run' = [run EXCEPT ![r].base = c, ![r].pc = "snapshot"] /\ UNCHANGED <<stores, lock>>
    <3>1. run[r] \in RunState /\ ps \in Seq(Nat \ {0}) /\ n \in Nat
      BY SMTT(30) DEF IInv, TypeOK, RunState
    <3>2. n = 0 <=> ps = <<>>
      BY <3>1
    <3>3. c \in Nat /\ c <= n
      BY <3>1, <3>2, SMTT(30)
    <3>4. run' \in [Runs -> RunState]
      <4>1. [run[r] EXCEPT !.base = c, !.pc = "snapshot"] \in RunState
        BY <3>1, <3>3, SetType, Zenon DEF Pcs
      <4> QED BY <2>3, <4>1 DEF IInv, TypeOK
    <3>5. TypeOK'
      BY <2>3, <3>4 DEF IInv, TypeOK, ReadRecord, stores
    <3>6. /\ run'[r].pc = "snapshot" /\ run'[r].day = d /\ run'[r].parts = ps
          /\ run'[r].snap = run[r].snap /\ run'[r].base = c
      BY <2>3, <3>1 DEF IInv, TypeOK, RunState
    <3>7. \A s \in Runs \ {r} : run'[s] = run[s]
      BY <2>3 DEF IInv, TypeOK
    <3>8. LockInv'
      BY <2>1, <2>3, <3>7 DEF LockInv
    <3>9. \A e \in Days : DayInv(e)'
      BY <2>3, StoresSame DEF IInv
    <3>10. Locals(r)'
      <4>1. manifest' = manifest /\ drops' = drops
        BY <2>3 DEF stores
      <4>2. d \in Days /\ ps = manifest[d].parts /\ ~run[r].legacy /\ run[r].snap = {}
        BY Zenon DEF IInv, Locals, ReadRecord
      <4>3. \A i \in Nat : <<d, i>> \in drops => i \in 1 .. n
        BY <4>2, Zenon DEF IInv, DayInv
      <4>4. n > 0 => \A j \in 1 .. n - 1 : <<d, j>> \in drops
        BY <3>1, <4>2, SMTT(30) DEF IInv, DayInv
      <4>5. \A i \in Nat : <<d, i>> \in drops <=> i \in 1 .. c
        <5>1. CASE pend
          <6>1. n > 0 /\ <<d, n>> \notin drops /\ c = n - 1
            BY <3>1, <3>2, <5>1 DEF DropRecorded
          <6> HIDE DEF n, c, d
          <6> QED BY <3>1, <4>3, <4>4, <6>1
        <5>2. CASE ~pend
          <6>1. c = n /\ (n > 0 => <<d, n>> \in drops)
            BY <3>1, <3>2, <4>2, <5>2, SMTT(30) DEF DropRecorded
          <6> HIDE DEF n, c, d
          <6> QED BY <3>1, <4>3, <4>4, <6>1
        <5> QED BY <5>1, <5>2, Zenon
      <4> QED BY <3>3, <3>6, <4>1, <4>2, <4>5, Zenon DEF Locals
    <3>11. \A s \in Runs \ {r} : Locals(s)'
      BY <2>1, <3>7, Zenon DEF Locals
    <3> QED BY <3>5, <3>8, <3>9, <3>10, <3>11 DEF IInv
  <2> QED BY <2>2, <2>3 DEF ReadRecord
\* snapshot_day: the rows to export are rows of the day.
<1>10. ASSUME IInv, NEW r \in Runs, TakeSnapshot(r) PROVE IInv'
  <2> USE <1>10
  <2> DEFINE d == run[r].day
             n == Len(run[r].parts)
  <2>1. lock = r /\ \A s \in Runs \ {r} : run[s].pc = "idle"
    BY OthersIdle, Zenon DEF IInv, TakeSnapshot
  <2>2. run[r] \in RunState /\ n \in Nat /\ run[r].base \in Nat
    BY SMTT(30) DEF IInv, TypeOK, RunState
  <2>3. d \in Days /\ run[r].parts = manifest[d].parts /\ run[r].base <= n /\ run[r].snap = {}
        /\ \A i \in Nat : <<d, i>> \in drops <=> i \in 1 .. run[r].base
    BY Zenon DEF IInv, Locals, TakeSnapshot
  <2>4. faults' = faults
    BY Zenon DEF TakeSnapshot
  <2>5. CASE hot[d] # {} /\ UNCHANGED <<stores, lock>>
             /\ run' = [run EXCEPT ![r].snap = hot[d], ![r].part = run[r].base + 1, ![r].pc = "write"]
    <3>1. [run[r] EXCEPT !.snap = hot[d], !.part = run[r].base + 1, !.pc = "write"] \in RunState
      <4>1. hot[d] \in SUBSET Keys /\ run[r].base + 1 \in Nat /\ "write" \in Pcs
        BY <2>2, <2>3, SMTT(30) DEF IInv, TypeOK, Pcs
      <4> HIDE DEF d
      <4> QED BY <2>2, <4>1, SetType, ZenonT(30)
    <3>2. TypeOK'
      BY <2>4, <2>5, <3>1 DEF IInv, TypeOK, stores
    <3>3. /\ run'[r].pc = "write" /\ run'[r].day = d /\ run'[r].parts = run[r].parts
          /\ run'[r].snap = hot[d] /\ run'[r].base = run[r].base /\ run'[r].part = run[r].base + 1
      BY <2>2, <2>5, Zenon DEF IInv, TypeOK, RunState
    <3>4. \A s \in Runs \ {r} : run'[s] = run[s]
      BY <2>5 DEF IInv, TypeOK
    <3>5. LockInv'
      BY <2>1, <2>5, <3>4, Zenon DEF LockInv
    <3>6. \A e \in Days : DayInv(e)'
      BY <2>5, StoresSame DEF IInv
    <3>7. Locals(r)'
      <4>1. manifest' = manifest /\ drops' = drops /\ ever' = ever
        BY <2>5 DEF stores
      <4>2. hot[d] # {} /\ hot[d] \subseteq ever[d]
        BY <2>3, <2>5, Zenon DEF IInv, DayInv
      <4> QED BY <2>3, <3>3, <4>1, <4>2, Zenon DEF Locals
    <3>8. \A s \in Runs \ {r} : Locals(s)'
      BY <2>1, <3>4 DEF Locals
    <3> QED BY <3>2, <3>5, <3>6, <3>7, <3>8 DEF IInv
  <2>6. CASE run' = [run EXCEPT ![r] = Between(run[r].todo)] /\ UNCHANGED <<stores, lock>>
    <3>1. run[r].todo \in SUBSET Days
      BY <2>2 DEF RunState
    <3>2. run[r].pc # "idle" /\ UNCHANGED <<stores, lock, faults>>
      BY <2>4, <2>6, Zenon DEF TakeSnapshot
    <3> QED BY <2>6, <3>1, <3>2, <1>2, Zenon
  <2>7. CASE Pending(r) /\ run' = [run EXCEPT ![r].part = n, ![r].pc = "drop"] /\ UNCHANGED <<stores, lock>>
    <3>1. [run[r] EXCEPT !.part = n, !.pc = "drop"] \in RunState
      BY <2>2, SetType, Zenon DEF Pcs
    <3>2. TypeOK'
      BY <2>4, <2>7, <3>1 DEF IInv, TypeOK, stores
    <3>3. run'[r].pc = "drop" /\ run'[r].day = d /\ run'[r].snap = {} /\ run'[r].part = n
      BY <2>2, <2>3, <2>7, Zenon DEF IInv, TypeOK, RunState
    <3>4. \A s \in Runs \ {r} : run'[s] = run[s]
      BY <2>7 DEF IInv, TypeOK
    <3>5. LockInv'
      BY <2>1, <2>7, <3>4 DEF LockInv
    <3>6. \A e \in Days : DayInv(e)'
      BY <2>7, StoresSame DEF IInv
    <3>7. Locals(r)'
      <4>1. manifest' = manifest
        BY <2>7 DEF stores
      <4>2. n > 0
        BY <2>2, <2>7 DEF Pending
      <4> QED BY <2>3, <3>3, <4>1, <4>2, Zenon DEF Locals
    <3>8. \A s \in Runs \ {r} : Locals(s)'
      BY <2>1, <3>4 DEF Locals
    <3> QED BY <3>2, <3>5, <3>6, <3>7, <3>8 DEF IInv
  <2>8. CASE EndRun(r)
    <3>1. faults' \in 0 .. MaxFaults
      BY <2>4 DEF IInv, TypeOK
    <3> QED BY <2>8, <3>1, <1>1, Zenon DEF TakeSnapshot
  <2> QED BY <2>5, <2>6, <2>7, <2>8, Zenon DEF TakeSnapshot
\* Counting is enough to verify: a part that holds only rows it was given, and
\* as many of them, holds them all.
<1>11. ASSUME IInv, NEW r \in Runs, VerifyPart(r) PROVE IInv'
  <2> USE <1>11
  <2> DEFINE d == run[r].day
             p == run[r].part
  <2>1. lock = r /\ \A s \in Runs \ {r} : run[s].pc = "idle"
    BY OthersIdle DEF IInv, VerifyPart
  <2>2. run[r] \in RunState /\ p \in Nat /\ run[r].fresh \in SUBSET Keys
    BY Zenon DEF IInv, TypeOK, RunState
  <2>3. CASE EndRun(r)
    <3>1. faults' \in 0 .. MaxFaults
      BY DEF IInv, TypeOK, VerifyPart
    <3> QED BY <2>3, <3>1, <1>1 DEF VerifyPart
  <2>4. CASE PartRowCount(d, p) = Cardinality(run[r].fresh)
             /\ run' = [run EXCEPT ![r].pc = "publish"] /\ UNCHANGED <<stores, lock>>
    <3>1. [run[r] EXCEPT !.pc = "publish"] \in RunState
      BY <2>2, SetType, Zenon DEF Pcs
    <3>2. TypeOK'
      BY <2>4, <3>1 DEF IInv, TypeOK, VerifyPart, stores
    <3>3. /\ run'[r].pc = "publish" /\ run'[r].day = d /\ run'[r].parts = run[r].parts
          /\ run'[r].snap = run[r].snap /\ run'[r].base = run[r].base /\ run'[r].part = p
          /\ run'[r].fresh = run[r].fresh
      BY <2>2, <2>4 DEF IInv, TypeOK, RunState
    <3>4. \A s \in Runs \ {r} : run'[s] = run[s]
      BY <2>4 DEF IInv, TypeOK
    <3>5. LockInv'
      BY <2>1, <2>4, <3>4 DEF LockInv
    <3>6. \A e \in Days : DayInv(e)'
      BY <2>4, StoresSame DEF IInv
    <3>7. Content(d, p) = run[r].fresh
      <4>1. Content(d, p) \subseteq run[r].fresh
        BY Zenon DEF IInv, Locals, VerifyPart, Content
      <4>2. IsFiniteSet(run[r].fresh)
        BY <2>2, ConstAssumption, FS_Subset
      <4> QED BY <2>4, <4>1, <4>2, FS_Subset DEF PartRowCount
    <3>8. Locals(r)'
      <4>1. manifest' = manifest /\ drops' = drops /\ ever' = ever /\ files' = files
        BY <2>4 DEF stores
      <4>2. \A k \in run[r].fresh : <<d, p, k>> \in files
        BY <3>7, Zenon DEF Content
      <4>3. Locals(r) /\ run[r].pc = "verify"
        BY DEF IInv, VerifyPart
      <4> QED BY <3>3, <4>1, <4>2, <4>3, Zenon DEF Locals
    <3>9. \A s \in Runs \ {r} : Locals(s)'
      BY <2>1, <3>4 DEF Locals
    <3> QED BY <3>2, <3>5, <3>6, <3>8, <3>9 DEF IInv
  <2> QED BY <2>3, <2>4 DEF VerifyPart
\* The object written is never that of a recorded part, and what it receives is
\* in no recorded part.
<1>12. ASSUME IInv, NEW r \in Runs, WritePart(r) PROVE IInv'
  <2> USE <1>12
  <2> DEFINE d == run[r].day
             p == run[r].part
             b == run[r].base
             new == run[r].snap \ InBase(r)
  <2>1. lock = r /\ \A s \in Runs \ {r} : run[s].pc = "idle"
    BY OthersIdle DEF IInv, WritePart
  <2>2. run[r] \in RunState /\ p \in Nat /\ b \in Nat /\ run[r].snap \in SUBSET Keys
    BY Zenon DEF IInv, TypeOK, RunState
  <2>3. /\ d \in Days /\ run[r].parts = manifest[d].parts /\ b <= Len(run[r].parts)
        /\ run[r].snap # {} /\ run[r].snap \subseteq ever[d] /\ p = b + 1
        /\ \A i \in Nat : <<d, i>> \in drops <=> i \in 1 .. b
    BY Zenon DEF IInv, Locals, WritePart
  <2>4. hot' = hot /\ ever' = ever /\ gone' = gone /\ manifest' = manifest /\ drops' = drops /\ lock' = lock
    BY DEF WritePart
  <2>5. new \in SUBSET Keys
        /\ \A k \in Keys : k \in new <=> k \in run[r].snap /\ \A i \in 1 .. b : <<d, i, k>> \notin files
    <3>1. \A k \in Keys, i \in Nat : k \in Content(d, i) <=> <<d, i, k>> \in files
      BY DEF Content
    <3>2. \A k : k \in InBase(r) <=> \E i \in 1 .. b : k \in Content(d, i)
      BY DEF InBase
    <3>3. \A i \in 1 .. b : i \in Nat
      BY <2>2
    <3>4. \A k \in Keys : k \in InBase(r) <=> \E i \in 1 .. b : <<d, i, k>> \in files
      BY <3>1, <3>2, <3>3, Zenon
    <3> QED BY <2>2, <3>4, Zenon
  <2> HIDE DEF new
  <2>6. CASE new # {} /\ run' = [run EXCEPT ![r].fresh = new, ![r].pc = "verify"]
             /\ \E kept \in SUBSET new :
                  /\ kept # new => faults < MaxFaults
                  /\ faults' = IF kept = new THEN faults ELSE faults + 1
                  /\ files' = {f \in files : f[1] # d \/ f[2] # p} \cup ({d} \X {p} \X kept)
    <3>1. PICK kept \in SUBSET new :
                  /\ kept # new => faults < MaxFaults
                  /\ faults' = IF kept = new THEN faults ELSE faults + 1
                  /\ files' = {f \in files : f[1] # d \/ f[2] # p} \cup ({d} \X {p} \X kept)
      BY <2>6
    <3>2. faults' \in 0 .. MaxFaults
      BY <3>1, ConstAssumption DEF IInv, TypeOK
    <3>3. files' \subseteq Days \X Nat \X Keys
      BY <2>2, <2>3, <2>5, <3>1, Zenon DEF IInv, TypeOK
    <3>4. [run[r] EXCEPT !.fresh = new, !.pc = "verify"] \in RunState
      BY <2>2, <2>5, SetType, Zenon DEF Pcs
    <3>5. TypeOK'
      BY <2>4, <2>6, <3>2, <3>3, <3>4 DEF IInv, TypeOK
    <3>6. /\ run'[r].pc = "verify" /\ run'[r].day = d /\ run'[r].parts = run[r].parts
          /\ run'[r].snap = run[r].snap /\ run'[r].base = b /\ run'[r].part = p
          /\ run'[r].fresh = new
      BY <2>2, <2>6 DEF IInv, TypeOK, RunState
    <3>7. \A s \in Runs \ {r} : run'[s] = run[s]
      BY <2>6 DEF IInv, TypeOK
    <3>8. LockInv'
      BY <2>1, <2>4, <3>7 DEF LockInv
    <3>9. /\ \A e \in Days, i \in Nat, k \in Keys :
               e # d \/ i # p => (<<e, i, k>> \in files' <=> <<e, i, k>> \in files)
          /\ \A k \in Keys : <<d, p, k>> \in files' => k \in new
      BY <3>1
    <3>10. \A e \in Days : DayInv(e)'
      <4>1. ASSUME NEW e \in Days, e = d PROVE DayInv(e)'
        <5>1. DayInv(d)
          BY <2>3, Zenon DEF IInv
        <5>2. <<d, p>> \notin drops /\ p > 0 /\ \A j \in 1 .. p - 1 : <<d, j>> \in drops
          BY <2>2, <2>3, SMTT(30)
        <5>3. \A i \in Nat, k \in Keys : <<d, i, k>> \in files' =>
                 k \in ever[d] /\ i > 0 /\ \A j \in 1 .. i - 1 : <<d, j>> \in drops
          BY <2>2, <2>3, <2>5, <3>9, <5>1, <5>2, ZenonT(30) DEF DayInv
        <5>4. \A i, j \in Nat, k \in Keys :
                 <<d, i>> \in drops /\ <<d, i, k>> \in files' /\ <<d, j, k>> \in files' => i = j
          BY <2>2, <2>3, <2>5, <3>9, <5>1, <5>2, ZenonT(30) DEF DayInv
        <5>5. \A k \in ever[d] \ gone[d] :
                 k \in hot[d] \/ \E i \in Nat : <<d, i>> \in drops /\ <<d, i, k>> \in files'
          <6>1. ever[d] \subseteq Keys
            BY <2>3, Zenon DEF IInv, TypeOK
          <6> QED BY <2>3, <3>9, <5>1, <5>2, <6>1, Zenon DEF DayInv
        <5> QED BY <2>4, <4>1, <5>1, <5>3, <5>4, <5>5, Zenon DEF DayInv
      <4>2. ASSUME NEW e \in Days, e # d PROVE DayInv(e)'
        <5>1. DayInv(e) /\ ever[e] \subseteq Keys
          BY Zenon DEF IInv, TypeOK
        <5>2. \A i \in Nat, k \in Keys : <<e, i, k>> \in files' <=> <<e, i, k>> \in files
          BY <3>9, <4>2, Zenon
        <5> QED BY <2>4, <5>1, <5>2, Zenon DEF DayInv
      <4> QED BY <4>1, <4>2
    <3>11. Locals(r)'
      <4>1. \A k \in Keys : k \in new <=> k \in run[r].snap /\ \A i \in 1 .. b : <<d, i, k>> \notin files'
        <5>1. \A i \in 1 .. b : i \in Nat /\ i # p
          BY <2>2, <2>3, SMTT(30)
        <5>2. \A i \in 1 .. b, k \in Keys : <<d, i, k>> \in files' <=> <<d, i, k>> \in files
          BY <2>3, <3>9, <5>1, Zenon
        <5> QED BY <2>5, <5>2, Zenon
      <4>2. new # {}
        BY <2>6
      <4> QED BY <2>3, <2>4, <3>6, <3>9, <4>1, <4>2, Zenon DEF Locals
    <3>12. \A s \in Runs \ {r} : Locals(s)'
      BY <2>1, <3>7, Zenon DEF Locals
    <3> QED BY <3>5, <3>8, <3>10, <3>11, <3>12 DEF IInv
  <2>7. CASE new = {} /\ UNCHANGED <<files, faults>>
             /\ run' = [run EXCEPT ![r].fresh = {}, ![r].part = run[r].base, ![r].pc = "publish"]
    <3>1. [run[r] EXCEPT !.fresh = {}, !.part = run[r].base, !.pc = "publish"] \in RunState
      BY <2>2, SetType, Zenon DEF Pcs
    <3>2. TypeOK'
      BY <2>4, <2>7, <3>1 DEF IInv, TypeOK
    <3>3. /\ run'[r].pc = "publish" /\ run'[r].day = d /\ run'[r].parts = run[r].parts
          /\ run'[r].snap = run[r].snap /\ run'[r].base = b /\ run'[r].part = b
          /\ run'[r].fresh = {}
      BY <2>2, <2>7 DEF IInv, TypeOK, RunState
    <3>4. \A s \in Runs \ {r} : run'[s] = run[s]
      BY <2>7 DEF IInv, TypeOK
    <3>5. LockInv'
      BY <2>1, <2>4, <3>4, Zenon DEF LockInv
    <3>6. \A e \in Days : DayInv(e)'
      <4>1. UNCHANGED stores
        BY <2>4, <2>7 DEF stores
      <4> QED BY <4>1, StoresSame DEF IInv
    <3>7. Locals(r)'
      <4>1. \A k \in Keys : ~(k \in run[r].snap /\ \A i \in 1 .. b : <<d, i, k>> \notin files)
        BY <2>5, <2>7
      <4>2. files' = files
        BY <2>7
      <4> QED BY <2>3, <2>4, <3>3, <4>1, <4>2, Zenon DEF Locals
    <3>8. \A s \in Runs \ {r} : Locals(s)'
      BY <2>1, <3>4 DEF Locals
    <3> QED BY <3>2, <3>5, <3>6, <3>7, <3>8 DEF IInv
  <2> QED BY <2>6, <2>7, Zenon DEF WritePart, new
\* write_manifest: listing a verified part keeps every recorded part listed.
<1>13. ASSUME IInv, NEW r \in Runs, PublishManifest(r) PROVE IInv'
  <2> USE <1>13
  <2> DEFINE d == run[r].day
             p == run[r].part
             b == run[r].base
  <2>1. lock = r /\ \A s \in Runs \ {r} : run[s].pc = "idle"
    BY OthersIdle DEF IInv, PublishManifest
  <2>2. run[r] \in RunState /\ p \in Nat /\ b \in Nat /\ run[r].snap \in SUBSET Keys
    BY SMTT(30) DEF IInv, TypeOK, RunState
  <2>3. /\ d \in Days /\ run[r].snap # {}
        /\ \A i \in Nat : <<d, i>> \in drops <=> i \in 1 .. b
        /\ \A k \in Keys : k \in run[r].fresh <=> k \in run[r].snap /\ \A i \in 1 .. b : <<d, i, k>> \notin files
        /\ \/ run[r].fresh = {} /\ p = b
           \/ run[r].fresh # {} /\ p = b + 1 /\ \A k \in run[r].fresh : <<d, p, k>> \in files
    BY Zenon DEF IInv, Locals, PublishManifest
  <2>4. Listing(r) \in Seq(Nat \ {0}) /\ Len(Listing(r)) = p
    BY ListingType DEF PublishManifest
  <2>5. /\ hot' = hot /\ ever' = ever /\ gone' = gone /\ files' = files /\ drops' = drops
        /\ lock' = lock /\ faults' = faults
        /\ run' = [run EXCEPT ![r].pc = "drop"]
        /\ manifest' = [manifest EXCEPT ![d] = [legacy |-> FALSE, parts |-> Listing(r)]]
    BY DEF PublishManifest
  <2>6. manifest' \in [Days -> [legacy : BOOLEAN, parts : Seq(Nat \ {0})]]
    BY <2>4, <2>5, Zenon DEF IInv, TypeOK
  <2>7. [run[r] EXCEPT !.pc = "drop"] \in RunState
    BY <2>2, SetType, Zenon DEF Pcs
  <2>8. TypeOK'
    BY <2>5, <2>6, <2>7 DEF IInv, TypeOK
  <2>9. run'[r].pc = "drop" /\ run'[r].day = d /\ run'[r].snap = run[r].snap /\ run'[r].part = p
    BY <2>2, <2>5 DEF IInv, TypeOK, RunState
  <2>10. \A s \in Runs \ {r} : run'[s] = run[s]
    BY <2>5 DEF IInv, TypeOK
  <2>11. LockInv'
    BY <2>1, <2>5, <2>10 DEF LockInv
  <2>12. /\ ~manifest'[d].legacy /\ Len(manifest'[d].parts) = p
         /\ \A e \in Days : e # d => manifest'[e] = manifest[e]
    BY <2>3, <2>4, <2>5 DEF IInv, TypeOK
  <2>13. \A e \in Days : DayInv(e)'
    <3>1. ASSUME NEW e \in Days, e = d PROVE DayInv(e)'
      <4>1. DayInv(d)
        BY <2>3, Zenon DEF IInv
      <4>2. \A i \in Nat : <<d, i>> \in drops => i \in 1 .. p
        BY <2>2, <2>3
      <4>3. \A i \in 1 .. p : \A j \in 1 .. i - 1 : <<d, j>> \in drops
        BY <2>2, <2>3, SMTT(30)
      <4> QED BY <2>5, <2>12, <3>1, <4>1, <4>2, <4>3, Zenon DEF DayInv
    <3>2. ASSUME NEW e \in Days, e # d PROVE DayInv(e)'
      <4>1. DayInv(e) /\ manifest'[e] = manifest[e]
        BY <2>12, <3>2, Zenon DEF IInv
      <4> QED BY <2>5, <4>1 DEF DayInv
    <3> QED BY <3>1, <3>2
  <2>14. Locals(r)'
    <3>1. \A k \in run[r].snap : \E i \in 1 .. p : <<d, i, k>> \in files
      <4> SUFFICES ASSUME NEW k \in run[r].snap PROVE \E i \in 1 .. p : <<d, i, k>> \in files
        OBVIOUS
      <4>1. 1 .. b \subseteq 1 .. p /\ (p = b + 1 => p \in 1 .. p)
        BY <2>2, <2>3, SMTT(30)
      <4>2. k \in run[r].fresh \/ \E i \in 1 .. b : <<d, i, k>> \in files
        BY <2>2, <2>3, Zenon
      <4> QED BY <2>3, <4>1, <4>2, Zenon
    <3>2. p > 0
      BY <2>2, <2>3, <3>1, SMTT(30)
    <3>3. d \in Days /\ files' = files /\ Len(manifest'[d].parts) = p
      BY <2>3, <2>5, <2>12
    <3> QED BY <2>9, <3>1, <3>2, <3>3, Zenon DEF Locals
  <2>15. \A s \in Runs \ {r} : Locals(s)'
    BY <2>1, <2>10 DEF Locals
  <2> QED BY <2>8, <2>11, <2>13, <2>14, <2>15 DEF IInv
\* A drop retires the day into recorded parts: what it drops is in the parts the
\* manifest lists, all of them recorded once it commits.
<1>14. ASSUME IInv, NEW r \in Runs, DropDay(r) PROVE IInv'
  <2> USE <1>14
  <2> DEFINE d == run[r].day
             p == run[r].part
  <2>1. lock = r /\ \A s \in Runs \ {r} : run[s].pc = "idle"
    BY OthersIdle, Zenon DEF IInv, DropDay
  <2>2. run[r] \in RunState /\ p \in Nat /\ run[r].todo \in SUBSET Days
    BY Zenon DEF IInv, TypeOK, RunState
  <2>3. /\ d \in Days /\ p > 0 /\ p = Len(manifest[d].parts)
        /\ \A k \in run[r].snap : \E i \in 1 .. p : <<d, i, k>> \in files
    BY Zenon DEF IInv, Locals, DropDay
  <2>4. faults' = faults
    BY Zenon DEF DropDay
  <2>5. CASE EndRun(r)
    <3>1. faults' \in 0 .. MaxFaults
      BY <2>4 DEF IInv, TypeOK
    <3> QED BY <2>5, <3>1, <1>1, Zenon DEF DropDay
  <2>6. CASE /\ hot[d] = run[r].snap
             /\ hot' = [hot EXCEPT ![d] = {}] /\ drops' = drops \cup {<<d, p>>}
             /\ run' = [run EXCEPT ![r] = Between(run[r].todo)]
             /\ UNCHANGED <<ever, gone, files, manifest, lock>>
    <3>1. Between(run[r].todo) \in RunState /\ Between(run[r].todo).pc = "next"
      BY <2>2, SMTT(30) DEF Between, At, Pcs, RunState
    <3>2. TypeOK'
      <4>1. hot' \in [Days -> SUBSET Keys] /\ run' \in [Runs -> RunState]
        BY <2>6, <3>1, Zenon DEF IInv, TypeOK
      <4>2. drops' \subseteq Days \X Nat
        <5>1. drops \subseteq Days \X Nat
          BY Zenon DEF IInv, TypeOK
        <5>2. <<d, p>> \in Days \X Nat
          BY <2>2, <2>3, Zenon
        <5> QED BY <2>6, <5>1, <5>2, Zenon
      <4> QED BY <2>4, <2>6, <4>1, <4>2, Zenon DEF IInv, TypeOK
    <3>3. run'[r].pc = "next" /\ \A s \in Runs \ {r} : run'[s].pc = "idle"
      BY <2>1, <2>6, <3>1, Zenon DEF IInv, TypeOK
    <3>4. LockInv' /\ \A s \in Runs : Locals(s)'
      BY <2>1, <2>6, <3>3, ZenonT(30) DEF LockInv, Locals
    <3>5. ever' = ever /\ gone' = gone /\ files' = files /\ manifest' = manifest
      BY <2>6, Zenon
    <3>6. hot'[d] = {} /\ \A e \in Days : e # d => hot'[e] = hot[e]
      BY <2>3, <2>6, Zenon DEF IInv, TypeOK
    <3>7. /\ <<d, p>> \in drops'
          /\ \A e \in Days, i \in Nat : e # d \/ i # p => (<<e, i>> \in drops' <=> <<e, i>> \in drops)
      BY <2>2, <2>3, <2>6, Zenon
    <3>8. \A e \in Days : DayInv(e)'
      <4>1. ASSUME NEW e \in Days, e = d PROVE DayInv(e)'
        <5>1. DayInv(d) /\ ever[d] \subseteq Keys /\ hot[d] \subseteq ever[d]
          BY <2>3, Zenon DEF IInv, TypeOK, DayInv
        <5>2. \A j \in 1 .. p - 1 : <<d, j>> \in drops
          <6>1. p \in 1 .. Len(manifest[d].parts)
            BY <2>2, <2>3
          <6>2. \A i \in 1 .. Len(manifest[d].parts) : \A j \in 1 .. i - 1 : <<d, j>> \in drops
            BY <5>1, Zenon DEF DayInv
          <6> QED BY <6>1, <6>2, Zenon
        <5>3. \A i \in Nat : <<d, i>> \in drops' => i \in 1 .. Len(manifest[d].parts)
          <6>1. \A i \in Nat : <<d, i>> \in drops => i \in 1 .. Len(manifest[d].parts)
            BY <5>1, Zenon DEF DayInv
          <6>2. p \in 1 .. Len(manifest[d].parts)
            BY <2>2, <2>3
          <6> QED BY <2>3, <3>7, <6>1, <6>2, Zenon
        <5>4. \A i \in Nat, k \in Keys : <<d, i, k>> \in files /\ i # p => <<d, i>> \in drops \/ <<d, p>> \in drops
          <6>1. \A i \in Nat, k \in Keys : <<d, i, k>> \in files => i > 0 /\ \A j \in 1 .. i - 1 : <<d, j>> \in drops
            BY <5>1, Zenon DEF DayInv
          <6> QED BY <2>2, <2>3, <5>2, <6>1, SMTT(30)
        <5>5. \A i, j \in Nat, k \in Keys :
                 <<d, i>> \in drops' /\ <<d, i, k>> \in files /\ <<d, j, k>> \in files => i = j
          BY <2>2, <2>3, <3>7, <5>1, <5>4, Zenon DEF DayInv
        <5>6. \A k \in ever[d] \ gone[d] : \E i \in Nat : <<d, i>> \in drops' /\ <<d, i, k>> \in files
          <6>1. \A i \in 1 .. p : <<d, i>> \in drops' /\ i \in Nat
            BY <2>2, <2>3, <3>7, <5>2, SMTT(30)
          <6>2. \A i \in Nat : <<d, i>> \in drops => <<d, i>> \in drops'
            BY <2>6, Zenon
          <6>3. \A k \in hot[d] : \E i \in 1 .. p : <<d, i, k>> \in files
            BY <2>3, <2>6, Zenon
          <6>4. \A k \in ever[d] \ gone[d] :
                   k \in hot[d] \/ \E i \in Nat : <<d, i>> \in drops /\ <<d, i, k>> \in files
            BY <5>1, Zenon DEF DayInv
          <6> QED BY <6>1, <6>2, <6>3, <6>4, Zenon
        <5>7. \A i \in 1 .. Len(manifest[d].parts) : \A j \in 1 .. i - 1 : <<d, j>> \in drops'
          BY <2>6, <5>1, Zenon DEF DayInv
        <5>8. \A i \in Nat, k \in Keys : <<d, i, k>> \in files =>
                 k \in ever[d] /\ i > 0 /\ \A j \in 1 .. i - 1 : <<d, j>> \in drops'
          BY <2>6, <5>1, Zenon DEF DayInv
        <5>9. ~manifest[d].legacy
          BY <5>1, Zenon DEF DayInv
        <5> QED BY <3>5, <3>6, <4>1, <5>3, <5>5, <5>6, <5>7, <5>8, <5>9, Zenon DEF DayInv
      <4>2. ASSUME NEW e \in Days, e # d PROVE DayInv(e)'
        <5>1. DayInv(e) /\ hot'[e] = hot[e]
          BY <3>6, <4>2, Zenon DEF IInv
        <5>2. \A i \in Nat : <<e, i>> \in drops' <=> <<e, i>> \in drops
          BY <3>7, <4>2, Zenon
        <5>3. \A i \in Nat : <<e, i>> \in drops => <<e, i>> \in drops'
          BY <5>2
        <5>4. /\ \A i \in 1 .. Len(manifest[e].parts) : \A j \in 1 .. i - 1 : <<e, j>> \in drops'
              /\ \A i \in Nat, k \in Keys : <<e, i, k>> \in files =>
                    k \in ever[e] /\ i > 0 /\ \A j \in 1 .. i - 1 : <<e, j>> \in drops'
          <6>1. \A i \in 1 .. Len(manifest[e].parts) : \A j \in 1 .. i - 1 : <<e, j>> \in drops
            BY <5>1, Zenon DEF DayInv
          <6>2. \A i \in Nat, k \in Keys : <<e, i, k>> \in files =>
                   k \in ever[e] /\ i > 0 /\ \A j \in 1 .. i - 1 : <<e, j>> \in drops
            BY <5>1, Zenon DEF DayInv
          <6>3. \A i \in Nat : \A j \in 1 .. i - 1 : j \in Nat
            OBVIOUS
          <6>4. \A i \in 1 .. Len(manifest[e].parts) : \A j \in 1 .. i - 1 : j \in Nat
            OBVIOUS
          <6> QED BY <5>3, <6>1, <6>2, <6>3, <6>4, Zenon
        <5>5. /\ \A i \in Nat : <<e, i>> \in drops' => i \in 1 .. Len(manifest[e].parts)
              /\ \A i, j \in Nat, k \in Keys :
                    <<e, i>> \in drops' /\ <<e, i, k>> \in files /\ <<e, j, k>> \in files => i = j
          BY <5>1, <5>2, Zenon DEF DayInv
        <5>6. \A k \in ever[e] \ gone[e] :
                 k \in hot[e] \/ \E i \in Nat : <<e, i>> \in drops' /\ <<e, i, k>> \in files
          BY <5>1, <5>2, Zenon DEF DayInv
        <5> QED BY <3>5, <5>1, <5>4, <5>5, <5>6, Zenon DEF DayInv
      <4> QED BY <4>1, <4>2
    <3> QED BY <3>2, <3>4, <3>8 DEF IInv
  <2>7. CASE UNCHANGED <<hot, drops, ever, gone, files, manifest, lock>>
             /\ run' = [run EXCEPT ![r] = Between(run[r].todo)]
    <3>1. run[r].pc # "idle" /\ UNCHANGED <<stores, lock, faults>>
      BY <2>4, <2>7, Zenon DEF DropDay, stores
    <3> QED BY <2>2, <2>7, <3>1, <1>2, Zenon
  <2> QED BY <2>5, <2>6, <2>7, Zenon DEF DropDay
<1>15. ASSUME NEW d \in Days, NEW k \in Keys, Insert(d, k) \/ DeleteRow(d, k) PROVE IInv'
  BY <1>15, <1>3, <1>4
<1>16. ASSUME NEW r \in Runs, RunStep(r) PROVE IInv'
  BY <1>16, <1>5, <1>6, <1>7, <1>8, <1>9,
     <1>10, <1>12, <1>11, <1>13, <1>14, Zenon
     DEF RunStep
<1>17. ASSUME NEW r \in Runs, Abort(r) PROVE IInv'
  <2>1. faults' \in 0 .. MaxFaults
    BY <1>17, ConstAssumption DEF Abort, IInv, TypeOK
  <2> QED BY <1>17, <2>1, <1>1, Zenon DEF Abort
<1>18. CASE UNCHANGED vars
  <2>1. UNCHANGED stores /\ run' = run /\ lock' = lock /\ faults' = faults
    BY <1>18 DEF vars
  <2>2. /\ hot' = hot /\ ever' = ever /\ gone' = gone
        /\ files' = files /\ manifest' = manifest /\ drops' = drops
    BY <2>1 DEF stores
  <2>3. \A d \in Days : DayInv(d)'
    BY <2>1, StoresSame DEF IInv
  <2>4. TypeOK' /\ LockInv'
    BY <2>1, <2>2, Zenon DEF IInv, TypeOK, LockInv
  <2>5. ASSUME NEW r \in Runs PROVE Locals(r)'
    <3>1. Locals(r)
      BY DEF IInv
    <3> QED BY <2>1, <2>2, <3>1, Zenon DEF Locals
  <2> QED BY <2>3, <2>4, <2>5 DEF IInv
<1> QED BY <1>15, <1>16, <1>17, <1>18 DEF Next, LoseLock

\* The recorded parts are exactly the committed ones, and the archive is what
\* they hold.
LEMMA ArchivedIs ==
    IInv => /\ \A d \in Days, i \in Nat : Committed(d, i) <=> <<d, i>> \in drops
            /\ \A d \in Days : \A k :
                 k \in Archived(d) <=> k \in Keys /\ \E i \in Nat : <<d, i>> \in drops /\ <<d, i, k>> \in files
<1> SUFFICES ASSUME IInv, NEW d \in Days
             PROVE  /\ \A i \in Nat : Committed(d, i) <=> <<d, i>> \in drops
                    /\ \A k : k \in Archived(d) <=>
                         k \in Keys /\ \E i \in Nat : <<d, i>> \in drops /\ <<d, i, k>> \in files
  OBVIOUS
<1> DEFINE n == Len(manifest[d].parts)
<1>1. n \in Nat
  BY DEF IInv, TypeOK
<1>2. \A i \in Nat : Committed(d, i) <=> <<d, i>> \in drops
  BY Zenon DEF IInv, DayInv, Committed, DropRecorded
<1>3. \A i \in Nat : <<d, i>> \in drops => i \in 1 .. n
  BY Zenon DEF IInv, DayInv
<1>4. \A k : k \in Archived(d) <=> \E i \in 1 .. n : Committed(d, i) /\ k \in Content(d, i)
  BY DEF Archived
<1>5. \A k, i : k \in Content(d, i) <=> k \in Keys /\ <<d, i, k>> \in files
  BY DEF Content
<1>6. \A i : i \in 1 .. n => i \in Nat
  BY <1>1
<1> HIDE DEF n
<1>7. ASSUME NEW k
      PROVE  k \in Archived(d) <=> k \in Keys /\ \E i \in Nat : <<d, i>> \in drops /\ <<d, i, k>> \in files
  <2>1. ASSUME k \in Archived(d)
        PROVE  k \in Keys /\ \E i \in Nat : <<d, i>> \in drops /\ <<d, i, k>> \in files
    BY <1>2, <1>4, <1>5, <1>6, <2>1, Zenon
  <2>2. ASSUME k \in Keys, NEW i \in Nat, <<d, i>> \in drops, <<d, i, k>> \in files
        PROVE  k \in Archived(d)
    BY <1>2, <1>3, <1>4, <1>5, <2>2
  <2> QED BY <2>1, <2>2, Zenon
<1> QED BY <1>2, <1>7

\* The inductive invariant holds throughout.
THEOREM Invariance == ASSUME LegacyDays = {}, ~LockCanBeLost PROVE Spec => []IInv
<1>1. Init => IInv
  BY InitIInv
<1>2. IInv /\ [Next]_vars => IInv'
  BY NextIInv
<1> QED BY <1>1, <1>2, PTL DEF Spec

\* Type correctness of the stores and of every run, for any days, keys, runs and
\* bounds.
THEOREM TypeCorrect == ASSUME LegacyDays = {}, ~LockCanBeLost PROVE Spec => []TypeOK
<1>1. IInv => TypeOK
  BY DEF IInv
<1> QED BY <1>1, Invariance, PTL

\* export -> verify -> drop loses nothing, whatever fails, is killed or arrives
\* between any two steps.
THEOREM NothingLost == ASSUME LegacyDays = {}, ~LockCanBeLost PROVE Spec => []NoRowLost
<1>1. IInv => NoRowLost
  <2> SUFFICES ASSUME IInv, NEW d \in Days, NEW k \in ever[d] \ gone[d]
               PROVE  k \in hot[d] \cup Archived(d)
    BY Zenon DEF NoRowLost
  <2>1. k \in Keys
    BY DEF IInv, TypeOK
  <2>2. k \in hot[d] \/ \E i \in Nat : <<d, i>> \in drops /\ <<d, i, k>> \in files
    BY Zenon DEF IInv, DayInv
  <2> QED BY <2>1, <2>2, ArchivedIs, Zenon
<1> QED BY <1>1, Invariance, PTL

\* Every row is archived once, however often it is redelivered or exported.
THEOREM NothingTwice == ASSUME LegacyDays = {}, ~LockCanBeLost PROVE Spec => []ArchivedOnce
<1>1. IInv => ArchivedOnce
  <2> SUFFICES ASSUME IInv, NEW d \in Days,
                      NEW i \in 1 .. Len(manifest[d].parts), NEW j \in 1 .. Len(manifest[d].parts),
                      Committed(d, i), Committed(d, j), i # j,
                      NEW k \in Content(d, i) \cap Content(d, j)
               PROVE  FALSE
    BY Zenon DEF ArchivedOnce
  <2>1. i \in Nat /\ j \in Nat /\ k \in Keys
    BY Zenon DEF IInv, TypeOK, Content
  <2>2. <<d, i>> \in drops /\ <<d, i, k>> \in files /\ <<d, j, k>> \in files
    BY <2>1, ArchivedIs, Zenon DEF Content
  <2> QED BY <2>1, <2>2, Zenon DEF IInv, DayInv
<1> QED BY <1>1, Invariance, PTL

-----------------------------------------------------------------------------
(***************************************************************************)
(* What a step may never do, and the refinement.                           *)
(***************************************************************************)
\* No step forgets a drop or touches the object of a recorded part.
LEMMA RecordedStays ==
    ASSUME ~LockCanBeLost, IInv, [Next]_vars, NEW d \in Days, NEW i \in Nat, <<d, i>> \in drops
    PROVE  <<d, i>> \in drops' /\ \A k \in Keys : <<d, i, k>> \in files' <=> <<d, i, k>> \in files
<1>1. CASE files' = files /\ drops \subseteq drops'
  BY <1>1
<1>2. ASSUME NEW r \in Runs, WritePart(r)
      PROVE  <<d, i>> \in drops' /\ \A k \in Keys : <<d, i, k>> \in files' <=> <<d, i, k>> \in files
  <2>1. drops' = drops
    BY <1>2, Zenon DEF WritePart
  <2>2. run[r].day = d => i # run[r].part
    <3>1. run[r].base \in Nat
      BY Zenon DEF IInv, TypeOK, RunState
    <3>2. Locals(r) /\ run[r].pc = "write"
      BY <1>2, Zenon DEF IInv, WritePart
    <3>3. /\ run[r].part = run[r].base + 1
          /\ \A j \in Nat : <<run[r].day, j>> \in drops <=> j \in 1 .. run[r].base
      BY <3>2, Zenon DEF Locals
    <3> QED BY <3>1, <3>3
  <2>3. files' = files \/ \E kept : files' =
           {f \in files : f[1] # run[r].day \/ f[2] # run[r].part} \cup ({run[r].day} \X {run[r].part} \X kept)
    BY <1>2, Zenon DEF WritePart
  <2> QED BY <2>1, <2>2, <2>3, Zenon
<1>3. ASSUME NEW r \in Runs, RunStep(r), ~WritePart(r) PROVE files' = files /\ drops \subseteq drops'
  BY <1>3, Zenon DEF RunStep, StartRun, ListDays, FinishRun, ReadManifest, ReadRecord, TakeSnapshot,
     VerifyPart, PublishManifest, DropDay, EndRun, stores
<1>4. ASSUME NEW r \in Runs, Abort(r) PROVE files' = files /\ drops \subseteq drops'
  BY <1>4 DEF Abort, EndRun, stores
<1>5. ASSUME NEW e \in Days, NEW k \in Keys, Insert(e, k) \/ DeleteRow(e, k)
      PROVE  files' = files /\ drops \subseteq drops'
  BY <1>5, Zenon DEF Insert, DeleteRow
<1>6. CASE UNCHANGED vars
  BY <1>6 DEF vars, stores
<1> QED BY <1>1, <1>2, <1>3, <1>4, <1>5, <1>6, Zenon DEF Next, LoseLock

\* The same description of the archive, after a step.
LEMMA ArchivedIsNext ==
    ASSUME IInv'
    PROVE  /\ \A d \in Days, i \in Nat : Committed(d, i)' <=> <<d, i>> \in drops'
           /\ \A d \in Days : \A k :
                k \in Archived(d)' <=> k \in Keys /\ \E i \in Nat : <<d, i>> \in drops' /\ <<d, i, k>> \in files'
<1>1. (IInv => /\ \A d \in Days, i \in Nat : Committed(d, i) <=> <<d, i>> \in drops
            /\ \A d \in Days : \A k :
                 k \in Archived(d) <=> k \in Keys /\ \E i \in Nat : <<d, i>> \in drops /\ <<d, i, k>> \in files)'
  BY ArchivedIs, PTL
<1> QED BY <1>1

\* Committed parts are never rewritten, unlisted or forgotten by any step.
THEOREM CommittedStays == ASSUME LegacyDays = {}, ~LockCanBeLost PROVE Spec => CommittedNeverRewritten
<1> DEFINE Stays == \A d \in Days : \A i \in 1 .. Len(manifest[d].parts) :
          Committed(d, i) => Content(d, i)' = Content(d, i) /\ Committed(d, i)'
<1>1. ASSUME IInv, IInv', [Next]_vars PROVE Stays
  <2> SUFFICES ASSUME NEW d \in Days, NEW i \in 1 .. Len(manifest[d].parts), Committed(d, i)
               PROVE  Content(d, i)' = Content(d, i) /\ Committed(d, i)'
    OBVIOUS
  <2>1. i \in Nat
    BY <1>1 DEF IInv, TypeOK
  <2>2. <<d, i>> \in drops
    BY <1>1, <2>1, ArchivedIs
  <2>3. <<d, i>> \in drops' /\ \A k \in Keys : <<d, i, k>> \in files' <=> <<d, i, k>> \in files
    BY <1>1, <2>1, <2>2, RecordedStays
  <2> QED BY <1>1, <2>1, <2>3, ArchivedIsNext DEF Content
<1> QED BY <1>1, Invariance, PTL DEF Spec, CommittedNeverRewritten

\* A step that records no drop leaves the archive as it is.
LEMMA ArchiveSame ==
    ASSUME ~LockCanBeLost, IInv, IInv', [Next]_vars, drops' = drops
    PROVE  [d \in Days |-> Archived(d)]' = [d \in Days |-> Archived(d)]
<1> SUFFICES ASSUME NEW d \in Days PROVE Archived(d)' = Archived(d)
  OBVIOUS
<1>1. \A i \in Nat : <<d, i>> \in drops => \A k \in Keys : <<d, i, k>> \in files' <=> <<d, i, k>> \in files
  BY RecordedStays
<1> QED BY <1>1, ArchivedIs, ArchivedIsNext, Zenon

\* A drop that commits is the abstract Retire of its day.
LEMMA DropRetires ==
    ASSUME ~LockCanBeLost, IInv, IInv', NEW r \in Runs, DropDay(r),
           run[r].part <= MaxParts, hot[run[r].day] = run[r].snap
    PROVE  Archive!Retire(run[r].day)
<1> DEFINE S == Archived(run[r].day)'
           arch == [e \in Days |-> Archived(e)]
<1> SUFFICES ASSUME NEW d, d = run[r].day PROVE Archive!Retire(d)
  BY Zenon
<1>1. /\ hot[d] = run[r].snap /\ hot' = [hot EXCEPT ![d] = {}] /\ drops' = drops \cup {<<d, run[r].part>>}
      /\ UNCHANGED <<ever, gone, files, manifest>>
  <2>1. ~(run[r].part > MaxParts)
    BY ConstAssumption DEF IInv, TypeOK, RunState
  <2> QED BY <2>1, Zenon DEF DropDay
<1>2. d \in Days /\ d \in Nat
  BY ConstAssumption, Zenon DEF IInv, Locals, DropDay
<1>3. [Next]_vars
  BY Zenon DEF Next, RunStep
<1>4. \A e \in Days : Archived(e) \subseteq Archived(e)'
  <2>1. \A e \in Days, i \in Nat : <<e, i>> \in drops =>
           <<e, i>> \in drops' /\ \A k \in Keys : <<e, i, k>> \in files' <=> <<e, i, k>> \in files
    BY <1>3, RecordedStays, Zenon
  <2> QED BY <2>1, ArchivedIs, ArchivedIsNext, Zenon
<1>5. ASSUME NEW e \in Days, e # d PROVE Archived(e)' = Archived(e)
  <2>1. \A i \in Nat : <<e, i>> \in drops' <=> <<e, i>> \in drops
    BY <1>1, <1>5, Zenon
  <2>2. files' = files
    BY <1>1, Zenon
  <2> QED BY <2>1, <2>2, ArchivedIs, ArchivedIsNext, Zenon
<1>6. Archived(d)' \subseteq ever[d]
  <2>1. \A k : k \in Archived(d)' => \E i \in Nat : k \in Keys /\ <<d, i, k>> \in files'
    BY <1>2, ArchivedIsNext, Zenon
  <2>2. \A i \in Nat, k \in Keys : <<d, i, k>> \in files => k \in ever[d]
    BY <1>2, Zenon DEF IInv, DayInv
  <2> QED BY <1>1, <2>1, <2>2, Zenon
<1>7. hot[d] \subseteq Archived(d)'
  <2>1. /\ run[r].part \in Nat /\ run[r].part > 0 /\ run[r].part = Len(manifest[d].parts)
        /\ \A k \in hot[d] : \E i \in 1 .. run[r].part : <<d, i, k>> \in files
    BY <1>1, Zenon DEF IInv, TypeOK, RunState, Locals, DropDay
  <2>2. \A i \in 1 .. run[r].part : i \in Nat /\ <<d, i>> \in drops'
    <3>1. \A j \in 1 .. run[r].part - 1 : <<d, j>> \in drops
      <4>1. DayInv(d)
        BY <1>2, Zenon DEF IInv
      <4>2. run[r].part \in 1 .. Len(manifest[d].parts)
        BY <2>1
      <4>3. \A i \in 1 .. Len(manifest[d].parts) : \A j \in 1 .. i - 1 : <<d, j>> \in drops
        BY <4>1, Zenon DEF DayInv
      <4> QED BY <4>2, <4>3, Zenon
    <3>2. \A i \in 1 .. run[r].part : i \in Nat /\ (i \in 1 .. run[r].part - 1 \/ i = run[r].part)
      BY <2>1, SMTT(30)
    <3> QED BY <1>1, <3>1, <3>2, Zenon
  <2>3. hot[d] \subseteq Keys
    BY <1>2, Zenon DEF IInv, TypeOK
  <2>4. files' = files
    BY <1>1, Zenon
  <2> QED BY <1>2, <2>1, <2>2, <2>3, <2>4, ArchivedIsNext, Zenon
<1>8. arch' = [arch EXCEPT ![d] = @ \cup Archived(d)']
  BY <1>2, <1>4, <1>5, Zenon
<1>9. \E T \in SUBSET ever[d] :
        hot[d] \subseteq arch[d] \cup T /\ arch' = [arch EXCEPT ![d] = @ \cup T]
  BY <1>6, <1>7, <1>8, Zenon
<1> QED BY <1>1, <1>9, Zenon DEF Archive!Retire

\* The export job implements the archive's promise, for any days, keys, runs and
\* bounds: every drop moves a day as a whole into the archive and no other step
\* of a run changes either.
THEOREM Refinement == ASSUME LegacyDays = {}, ~LockCanBeLost PROVE Spec => ImplementsArchive
<1>1. Init => Archive!Init
  <2> SUFFICES ASSUME Init PROVE Archive!Init
    OBVIOUS
  <2>1. ever = [d \in Days |-> {}] /\ hot = [d \in Days |-> {}] /\ drops = {} /\ gone = [d \in Days |-> {}]
    BY ZenonT(30) DEF Init
  <2>2. \A d \in Days : Archived(d) = {}
    BY <2>1, InitIInv, ArchivedIs, Zenon
  <2> QED BY <2>1, <2>2, Zenon DEF Archive!Init
<1>2. ASSUME IInv, IInv', [Next]_vars PROVE [Archive!Next]_(Archive!vars)
  <2>1. ASSUME NEW d \in Days, NEW k \in Keys, Insert(d, k) PROVE Archive!Next
    <3>1. drops' = drops
      BY <2>1, Zenon DEF Insert
    <3> QED BY <1>2, <2>1, <3>1, ArchiveSame, Zenon DEF Insert, Archive!Next, Archive!Insert
  <2>2. ASSUME NEW d \in Days, NEW k \in Keys, DeleteRow(d, k) PROVE Archive!Next
    <3>1. drops' = drops
      BY <2>2, Zenon DEF DeleteRow
    <3> QED BY <1>2, <2>2, <3>1, ArchiveSame, Zenon DEF DeleteRow, Archive!Next, Archive!DeleteRow
  <2>3. ASSUME NEW r \in Runs, DropDay(r), run[r].part <= MaxParts, hot[run[r].day] = run[r].snap
        PROVE  Archive!Next
    <3>1. run[r].day \in Days
      BY <1>2, <2>3, Zenon DEF IInv, Locals, DropDay
    <3> QED BY <1>2, <2>3, <3>1, DropRetires, Zenon DEF Archive!Next
  <2>4. CASE UNCHANGED <<ever, gone, drops, hot>>
    BY <1>2, <2>4, ArchiveSame DEF Archive!vars
  <2>5. ASSUME NEW r \in Runs, DropDay(r), ~(run[r].part <= MaxParts /\ hot[run[r].day] = run[r].snap)
        PROVE  UNCHANGED <<ever, gone, drops, hot>>
    BY <2>5, Zenon DEF DropDay, EndRun, stores
  <2>6. ASSUME NEW r \in Runs, RunStep(r) \/ Abort(r), ~DropDay(r) PROVE UNCHANGED <<ever, gone, drops, hot>>
    BY <2>6, Zenon DEF RunStep, StartRun, ListDays, FinishRun, ReadManifest, ReadRecord, TakeSnapshot,
       WritePart, VerifyPart, PublishManifest, EndRun, Abort, stores
  <2>7. CASE UNCHANGED vars
    BY <2>4, <2>7 DEF vars, stores
  <2> QED BY <1>2, <2>1, <2>2, <2>3, <2>4, <2>5, <2>6, <2>7, Zenon DEF Next, LoseLock, RunStep
<1> QED BY <1>1, <1>2, Invariance, PTL DEF Spec, ImplementsArchive, Archive!Spec
=============================================================================
