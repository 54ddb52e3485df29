---------------------------- MODULE TenantProofs ----------------------------
(***************************************************************************)
(* A tenant suspended, reactivated and deleted: for any number of requests *)
(* and gateway processes, any wait and cache life, any runs of the delete  *)
(* job, any alert-worker and ingestion replicas and any intervals.         *)
(*                                                                         *)
(* Three specifications, each theorem about one of them: TenantLifecycle,  *)
(* whose names have no prefix, and the instances Deletion and Stream.  A   *)
(* variable two of them share by name is not otherwise related: no theorem *)
(* takes two of the specifications together.                               *)
(***************************************************************************)
EXTENDS TenantLifecycle, Sequences, TLAPS

\* A flag that lets the tenant in was read while it was active, and dated from before the read.
Allowance(e) == e.val /\ e.ttl > 0 => active \/ quiet + e.ttl <= CacheTTL

\* What the row, the login, the SQL sessions and the caches say of each other: the login of an inactive
\* tenant is on, or about to be, only for an enrolment the suspension came into the middle of.
Books ==
    /\ swept => ~active
    /\ ~active /\ (login \/ enrol = "on") => straddled
    /\ swept /\ ~straddled => ~sqlOpen
    /\ active => quiet = 0
    /\ since # Null => since <= quiet + took
    /\ \A g \in Gateways : Allowance(cache[g]) /\ Allowance(check[g])

AfterCommit == {"end_sql", "mark", "clear"}

\* One request at a time: where it stands says what the marker still lacks.
Serial ==
    /\ \A p, q \in Requests : req[p].pc # "idle" /\ req[q].pc # "idle" => p = q
    /\ \A q \in Requests :
          /\ req[q].pc \in {"end_sql", "mark"} => since # Null
          /\ req[q].pc = "clear" => since = Null
    /\ \/ torn
       \/ \E q \in Requests : req[q].pc \in AfterCommit
       \/ marker <=> since # Null

\* The inductive invariant of TenantLifecycle: what one request at a time adds is given up once two
\* requests have been in flight together.
LInv == TypeOK /\ Books /\ (overlap \/ Serial)

\* The states of a request, of a cached flag and of a registry read in flight.
ReqState == [pc : {"idle", "check", "update", "end_sql", "mark", "clear", "delete"},
             op : Ops, open : 0 .. MaxOpen]
Entry == [val : BOOLEAN, ttl : 0 .. CacheTTL]
Lookup == [pc : {"idle", "read", "store"}, val : BOOLEAN, ttl : 0 .. CacheTTL]

\* Every step of a company route, of a gateway's check and of the clock keeps the row, the login, the
\* SQL sessions, the caches and the marker in what they say of each other (companies.py,
\* company_status.py).
LEMMA LifecycleInvariance == Spec => []LInv
<1>0. /\ Wait \in Nat \ {0} /\ CacheTTL \in Nat \ {0} /\ MaxOpen \in Nat /\ MaxFaults \in Nat /\ Null \notin Nat
      /\ Horizon \in Nat /\ Wait <= Horizon /\ CacheTTL <= Horizon /\ MaxOpen <= Horizon
  BY ConstAssumption DEF Horizon
<1>1. Init => LInv
  <2> SUFFICES ASSUME Init PROVE LInv
    OBVIOUS
  <2>1. TypeOK
    <3>1. NoEntry \in Entry /\ Resting \in Lookup /\ Idle \in ReqState
      BY <1>0 DEF NoEntry, Resting, Idle, Ops, Entry, Lookup, ReqState
    <3>2. cache \in [Gateways -> Entry] /\ check \in [Gateways -> Lookup] /\ req \in [Requests -> ReqState]
      BY <3>1 DEF Init
    <3>3. /\ active \in BOOLEAN /\ deletion \in BOOLEAN /\ login \in BOOLEAN /\ sqlOpen \in BOOLEAN
          /\ marker \in BOOLEAN /\ swept \in BOOLEAN /\ straddled \in BOOLEAN /\ torn \in BOOLEAN /\ overlap \in BOOLEAN
          /\ enrol = "idle"
      BY Zenon DEF Init
    <3>4. since = Null /\ quiet \in Ticks /\ took \in 0 .. MaxOpen /\ faults \in 0 .. MaxFaults
      BY <1>0 DEF Init, Ticks
    <3> QED BY <3>2, <3>3, <3>4 DEF TypeOK, Entry, Lookup, ReqState
  <2>2. Books
    BY <1>0 DEF Init, Books, Allowance, NoEntry, Resting
  <2>3. Serial
    BY DEF Init, Serial, Idle
  <2> QED BY <2>1, <2>2, <2>3 DEF LInv
<1>2. ASSUME LInv, [Next]_vars PROVE LInv'
  <2>0. TypeOK /\ Books /\ (overlap \/ Serial)
    BY <1>2 DEF LInv
  <2>a. /\ active \in BOOLEAN /\ since \in Ticks \cup {Null} /\ (active => since = Null)
        /\ deletion \in BOOLEAN /\ login \in BOOLEAN /\ sqlOpen \in BOOLEAN /\ marker \in BOOLEAN
        /\ swept \in BOOLEAN /\ straddled \in BOOLEAN /\ torn \in BOOLEAN /\ overlap \in BOOLEAN
        /\ enrol \in {"idle", "ensure", "on", "off"} /\ took \in 0 .. MaxOpen
        /\ quiet \in Ticks /\ faults \in 0 .. MaxFaults
    BY <2>0 DEF TypeOK
  <2>b. cache \in [Gateways -> Entry] /\ check \in [Gateways -> Lookup] /\ req \in [Requests -> ReqState]
    BY <2>0 DEF TypeOK, Entry, Lookup, ReqState
  <2>c. Idle \in ReqState /\ Idle.pc = "idle" /\ NoEntry \in Entry /\ ~NoEntry.val
    BY <1>0 DEF Idle, ReqState, Ops, NoEntry, Entry
  \* The parts of the invariant a step that moves only one request has to keep.
  <2>d. ASSUME NEW q \in Requests, NEW new \in ReqState, req' = [req EXCEPT ![q] = new]
        PROVE  /\ req' \in [Requests -> ReqState] /\ req'[q] = new
               /\ \A p \in Requests : p # q => req'[p] = req[p]
    BY <2>b, <2>d
  <2>e. ASSUME UNCHANGED <<active, quiet, cache, check>>
        PROVE  \A g \in Gateways : Allowance(cache[g])' /\ Allowance(check[g])'
    BY <2>0, <2>e DEF Books, Allowance
  <2>f. ASSUME UNCHANGED <<active, since, login, sqlOpen, enrol, quiet, took, swept, straddled, cache, check>>
        PROVE  Books'
    BY <2>0, <2>e, <2>f, Zenon DEF Books
  <2>g. ASSUME NEW g, Forget(g), UNCHANGED <<active, quiet, check>>
        PROVE  /\ cache' \in [Gateways -> Entry]
               /\ \A h \in Gateways : Allowance(cache[h])' /\ Allowance(check[h])'
    <3>1. ASSUME NEW h \in Gateways PROVE cache'[h] = NoEntry \/ cache'[h] = cache[h]
      BY <2>g, Zenon DEF Forget
    <3>2. cache' = [h \in Gateways |-> cache'[h]]
      BY <2>g DEF Forget
    <3>3. ASSUME NEW h \in Gateways PROVE cache'[h] \in Entry /\ Allowance(cache[h])' /\ Allowance(check[h])'
      <4>1. Allowance(cache[h]) /\ Allowance(check[h]) /\ cache[h] \in Entry
        BY <2>0, <2>b DEF Books
      <4> QED BY <2>c, <2>g, <3>1, <4>1, Zenon DEF Allowance
    <3> QED BY <3>2, <3>3
  <2>1. ASSUME NEW q \in Requests, NEW op \in Ops, Submit(q, op) PROVE LInv'
    <3>1. PICK new \in ReqState : req' = [req EXCEPT ![q] = new] /\ new.pc \in {"check", "delete"}
      <4> DEFINE new == [pc |-> IF op = "delete" THEN "delete" ELSE "check", op |-> op, open |-> 0]
      <4>1. new \in ReqState /\ new.pc \in {"check", "delete"}
        BY <1>0 DEF ReqState
      <4>2. req' = [req EXCEPT ![q] = new]
        BY <2>1 DEF Submit
      <4> QED BY <4>1, <4>2, Zenon
    <3>2. UNCHANGED <<active, since, deletion, login, sqlOpen, enrol, marker, cache, check, quiet, took, swept, straddled, torn, faults>>
          /\ overlap' = (overlap \/ \E p \in Requests : req[p].pc # "idle") /\ req[q].pc = "idle"
      BY <2>1 DEF Submit, company, sql
    <3>3. req' \in [Requests -> ReqState] /\ req'[q] = new /\ \A p \in Requests : p # q => req'[p] = req[p]
      BY <2>d, <3>1, Zenon
    <3>4. TypeOK'
      BY <2>0, <3>2, <3>3 DEF TypeOK, ReqState, Ticks
    <3>5. Books'
      BY <2>f, <3>2, Zenon
    <3>6. overlap' \/ Serial'
      <4> SUFFICES ASSUME ~overlap, \A p \in Requests : req[p].pc = "idle" PROVE Serial'
        BY <3>2, Zenon
      <4> QED BY <2>0, <3>1, <3>2, <3>3 DEF Serial, AfterCommit
    <3> QED BY <3>4, <3>5, <3>6 DEF LInv
  <2>2. ASSUME NEW q \in Requests, CheckDeletion(q) PROVE LInv'
    <3>1. PICK new \in ReqState : req' = [req EXCEPT ![q] = new] /\ new.pc \in {"idle", "update"} /\ (deletion => new.pc = "idle")
      BY <2>2, <2>b, <2>c, Zenon DEF CheckDeletion, ReqState
    <3>2. UNCHANGED <<active, since, deletion, login, sqlOpen, enrol, marker, cache, check, quiet, took, swept, straddled, torn, overlap, faults>>
          /\ req[q].pc = "check"
      BY <2>2 DEF CheckDeletion, company, sql, histories
    <3>3. req' \in [Requests -> ReqState] /\ req'[q] = new /\ \A p \in Requests : p # q => req'[p] = req[p]
      BY <2>d, <3>1, Zenon
    <3>4. TypeOK'
      BY <2>0, <3>2, <3>3 DEF TypeOK, ReqState, Ticks
    <3>5. Books'
      BY <2>f, <3>2, Zenon
    <3>6. overlap' \/ Serial'
      BY <2>0, <3>1, <3>2, <3>3 DEF Serial, AfterCommit
    <3> QED BY <3>4, <3>5, <3>6 DEF LInv
  <2>3. ASSUME NEW q \in Requests, UpdateRow(q) PROVE LInv'
    <3> DEFINE op == req[q].op
               open == req[q].open
    <3>0. op \in Ops /\ req[q] \in ReqState /\ open \in 0 .. MaxOpen
      BY <2>b DEF ReqState
    <3>9. ASSUME NEW l \in {"end_sql", "clear"}
          PROVE  [req[q] EXCEPT !.pc = l, !.open = 0] \in ReqState /\ [req[q] EXCEPT !.pc = l, !.open = 0].pc = l
      <4>1. PICK S, x, z : S = 0 .. MaxOpen /\ x = req[q] /\ z = 0
        BY Zenon
      <4>2. z \in S
        BY <1>0, <4>1
      <4>3. x \in [pc : {"idle", "check", "update", "end_sql", "mark", "clear", "delete"}, op : Ops, open : S]
        BY <3>0, <4>1, Zenon DEF ReqState
      <4>4. /\ [x EXCEPT !.pc = l, !.open = z] \in [pc : {"idle", "check", "update", "end_sql", "mark", "clear", "delete"}, op : Ops, open : S]
            /\ [x EXCEPT !.pc = l, !.open = z].pc = l
        <5>1. PICK y : y = [x EXCEPT !.pc = l]
          BY Zenon
        <5>2. y \in [pc : {"idle", "check", "update", "end_sql", "mark", "clear", "delete"}, op : Ops, open : S] /\ y.pc = l
          BY <4>3, <5>1
        <5>3. /\ [y EXCEPT !.open = z] \in [pc : {"idle", "check", "update", "end_sql", "mark", "clear", "delete"}, op : Ops, open : S]
              /\ [y EXCEPT !.open = z].pc = l
          BY <4>2, <5>2
        <5> QED BY <5>1, <5>3, Zenon
      <4> QED BY <4>1, <4>4, Zenon DEF ReqState
    <3>1. PICK new \in ReqState :
             /\ req' = [req EXCEPT ![q] = new]
             /\ op = "deactivate" => new.pc = "end_sql"
             /\ op = "reactivate" => new.pc = "clear"
             /\ op \notin {"deactivate", "reactivate"} => new.pc = "idle"
      <4>1. CASE op = "deactivate"
        <5>1. req' = [req EXCEPT ![q] = [req[q] EXCEPT !.pc = "end_sql", !.open = 0]]
          BY <2>3, <4>1 DEF UpdateRow, AfterUpdate
        <5>2. PICK new \in ReqState : new = [req[q] EXCEPT !.pc = "end_sql", !.open = 0] /\ new.pc = "end_sql"
          BY <3>9, Zenon
        <5> QED BY <5>1, <5>2, <4>1, Zenon
      <4>2. CASE op = "reactivate"
        <5>1. req' = [req EXCEPT ![q] = [req[q] EXCEPT !.pc = "clear", !.open = 0]]
          BY <2>3, <4>2 DEF UpdateRow, AfterUpdate
        <5>2. PICK new \in ReqState : new = [req[q] EXCEPT !.pc = "clear", !.open = 0] /\ new.pc = "clear"
          BY <3>9, Zenon
        <5> QED BY <5>1, <5>2, <4>2, Zenon
      <4>3. CASE op \notin {"deactivate", "reactivate"}
        <5>1. req' = [req EXCEPT ![q] = Idle]
          BY <2>3, <4>3, Zenon DEF UpdateRow, AfterUpdate
        <5> QED BY <5>1, <4>3, <2>c, Zenon
      <4> QED BY <4>1, <4>2, <4>3
    <3>2. /\ UNCHANGED <<deletion, sqlOpen, enrol, marker, cache, check, torn, overlap, faults>>
          /\ req[q].pc = "update"
          /\ active' = (IF op = "rename" THEN active ELSE op = "reactivate")
          /\ active' => since' = Null
          /\ ~active' /\ op = "deactivate" /\ since = Null => since' = open /\ took' = open
          /\ ~active' /\ ~(op = "deactivate" /\ since = Null) => since' = since
          /\ ~(op = "deactivate" /\ since = Null) => took' = took
          /\ login' = (IF op = "rename" THEN login ELSE active')
          /\ quiet' = (IF active' THEN 0 ELSE quiet)
          /\ swept' = (swept /\ op = "rename")
          /\ straddled' = (IF op = "rename" THEN straddled ELSE enrol = "on")
      BY <2>3, Zenon DEF UpdateRow, Noted, FirstSuspension, sql
    <3>7. op = "deactivate" => ~active'
      BY <3>2, Zenon
    <3>3. req' \in [Requests -> ReqState] /\ req'[q] = new /\ \A p \in Requests : p # q => req'[p] = req[p]
      BY <2>d, <3>1, Zenon
    <3> HIDE DEF op, open
    <3>8. open \in Ticks /\ open \in 0 .. MaxOpen /\ 0 \in Ticks
      BY <1>0, <3>0 DEF Ticks
    <3>a. active' \in BOOLEAN /\ since' \in Ticks \cup {Null} /\ (active' => since' = Null) /\ quiet' \in Ticks
          /\ took' \in 0 .. MaxOpen /\ login' \in BOOLEAN /\ swept' \in BOOLEAN /\ straddled' \in BOOLEAN
      <4>1. active' \in BOOLEAN /\ login' \in BOOLEAN /\ swept' \in BOOLEAN /\ straddled' \in BOOLEAN
        BY <2>a, <3>2, Zenon
      <4>2. since' \in Ticks \cup {Null} /\ quiet' \in Ticks /\ took' \in 0 .. MaxOpen
        BY <2>a, <3>2, <3>7, <3>8, Zenon
      <4> QED BY <4>1, <4>2, <3>2
    <3>4. TypeOK'
      BY <2>0, <3>2, <3>3, <3>a DEF TypeOK, ReqState, Ticks
    <3>5. Books'
      <4>0. enrol' = enrol /\ sqlOpen' = sqlOpen
        BY <3>2, Zenon
      <4>1. /\ swept' => ~active'
            /\ ~active' /\ (login' \/ enrol' = "on") => straddled'
            /\ swept' /\ ~straddled' => ~sqlOpen'
            /\ active' => quiet' = 0
        <5>1. /\ swept => ~active
              /\ ~active /\ (login \/ enrol = "on") => straddled
              /\ swept /\ ~straddled => ~sqlOpen
          BY <2>0, Zenon DEF Books
        <5>2. CASE op = "rename"
          <6>1. active' = active /\ login' = login /\ swept' = swept /\ straddled' = straddled /\ (active' => quiet' = 0)
            BY <2>a, <3>2, <5>2, Zenon
          <6> QED BY <4>0, <5>1, <6>1, Zenon
        <5>3. CASE op # "rename"
          BY <3>2, <4>0, <5>3, Zenon
        <5> QED BY <5>2, <5>3
      <4>2. since' # Null => since' <= quiet' + took'
        <5> SUFFICES ASSUME since' # Null PROVE since' <= quiet' + took'
          OBVIOUS
        <5>1. ~active' /\ quiet' = quiet
          BY <3>2, Zenon
        <5>2. CASE op = "deactivate" /\ since = Null
          <6>1. since' = open /\ took' = open /\ quiet \in Nat /\ open \in Nat
            BY <1>0, <2>a, <3>0, <3>2, <5>1, <5>2 DEF Ticks
          <6> QED BY <5>1, <6>1
        <5>3. CASE ~(op = "deactivate" /\ since = Null)
          BY <2>0, <3>2, <5>1, <5>3, Zenon DEF Books
        <5> QED BY <5>2, <5>3
      <4>3. ASSUME NEW g \in Gateways PROVE Allowance(cache[g])' /\ Allowance(check[g])'
        <5>1. Allowance(cache[g]) /\ Allowance(check[g]) /\ (active => quiet = 0)
              /\ cache[g].ttl \in 0 .. CacheTTL /\ check[g].ttl \in 0 .. CacheTTL
          BY <2>0, <2>b DEF Books, Entry, Lookup
        <5>2. cache'[g] = cache[g] /\ check'[g] = check[g] /\ (~active' => quiet' = quiet)
          BY <3>2, Zenon
        <5>3. active /\ ~active' => \A t \in 0 .. CacheTTL : quiet' + t <= CacheTTL
          BY <1>0, <5>1, <5>2
        <5> QED BY <5>1, <5>2, <5>3, Zenon DEF Allowance
      <4> QED BY <4>1, <4>2, <4>3, Zenon DEF Books
    <3>6. overlap' \/ Serial'
      <4> SUFFICES ASSUME ~overlap, Serial PROVE Serial'
        BY <2>0, <3>2, Zenon
      <4>1. \A p \in Requests : p # q => req'[p].pc = "idle"
        BY <3>2, <3>3 DEF Serial
      <4>3. ~torn => (marker <=> since # Null)
        BY <3>2 DEF Serial, AfterCommit
      <4>4. new.pc = "end_sql" => since' # Null
        <5> SUFFICES ASSUME new.pc = "end_sql" PROVE since' # Null
          OBVIOUS
        <5>1. op = "deactivate"
          BY <3>1
        <5>2. ~active'
          BY <5>1, <3>2, Zenon
        <5> QED BY <1>0, <3>0, <5>1, <5>2, <3>2
      <4>5. new.pc = "clear" => since' = Null
        BY <3>1, <3>2, Zenon
      <4>6. new.pc \in {"end_sql", "clear"} \/ (new.pc = "idle" /\ (since # Null <=> since' # Null))
        BY <1>0, <2>a, <3>0, <3>1, <3>2 DEF Ops
      <4> QED BY <4>1, <4>3, <4>4, <4>5, <4>6, <3>2, <3>3, Zenon DEF Serial, AfterCommit
    <3> QED BY <3>4, <3>5, <3>6 DEF LInv
  <2>4. ASSUME NEW q \in Requests, NEW g, EndSql(q, g) PROVE LInv'
    <3>1. PICK new \in ReqState : req' = [req EXCEPT ![q] = new] /\ new.pc = "mark"
      <4> DEFINE new == [req[q] EXCEPT !.pc = "mark"]
      <4>1. req[q] \in ReqState
        BY <2>b
      <4>2. new \in ReqState /\ new.pc = "mark"
        BY <4>1 DEF ReqState
      <4>3. req' = [req EXCEPT ![q] = new]
        BY <2>4 DEF EndSql
      <4> QED BY <4>2, <4>3, Zenon
    <3>2. /\ UNCHANGED <<active, since, deletion, login, enrol, marker, check, quiet, took, straddled, torn, overlap, faults>>
          /\ req[q].pc = "end_sql"
          /\ sqlOpen' = (sqlOpen /\ (active \/ login)) /\ swept' = (swept \/ (~active /\ ~login))
          /\ Forget(g)
      BY <2>4 DEF EndSql, company
    <3>3. req' \in [Requests -> ReqState] /\ req'[q] = new /\ \A p \in Requests : p # q => req'[p] = req[p]
      BY <2>d, <3>1, Zenon
    <3>7. /\ cache' \in [Gateways -> Entry]
          /\ \A h \in Gateways : Allowance(cache[h])' /\ Allowance(check[h])'
      BY <2>g, <3>2, Zenon
    <3>4. TypeOK'
      <4>1. sqlOpen' \in BOOLEAN /\ swept' \in BOOLEAN
        BY <2>a, <3>2, Zenon
      <4> QED BY <2>0, <3>2, <3>3, <3>7, <4>1 DEF TypeOK, ReqState, Entry, Ticks
    <3>5. Books'
      <4>1. (swept' => ~active') /\ (swept' /\ ~straddled' => ~sqlOpen')
        BY <2>0, <3>2, Zenon DEF Books
      <4> QED BY <2>0, <3>2, <3>7, <4>1, Zenon DEF Books
    <3>6. overlap' \/ Serial'
      BY <2>0, <3>1, <3>2, <3>3 DEF Serial, AfterCommit
    <3> QED BY <3>4, <3>5, <3>6 DEF LInv
  <2>5. ASSUME NEW q \in Requests, Mark(q) PROVE LInv'
    <3>1. /\ UNCHANGED <<active, since, deletion, login, sqlOpen, enrol, cache, check, quiet, took, swept, straddled, overlap, faults>>
          /\ req[q].pc = "mark" /\ marker' = TRUE /\ torn' = FALSE /\ req' = [req EXCEPT ![q] = Idle]
      BY <2>5 DEF Mark, company, sql
    <3>2. req' \in [Requests -> ReqState] /\ req'[q].pc = "idle" /\ \A p \in Requests : p # q => req'[p] = req[p]
      BY <2>c, <2>d, <3>1, Zenon
    <3>3. TypeOK'
      BY <2>0, <3>1, <3>2, Zenon DEF TypeOK, ReqState, Ticks
    <3>4. Books'
      BY <2>f, <3>1, Zenon
    <3>5. overlap' \/ Serial'
      BY <2>0, <3>1, <3>2 DEF Serial, AfterCommit
    <3> QED BY <3>3, <3>4, <3>5 DEF LInv
  <2>6. ASSUME NEW q \in Requests, NEW g, ClearMarker(q, g) PROVE LInv'
    <3>1. /\ UNCHANGED <<active, since, deletion, login, sqlOpen, enrol, check, quiet, took, swept, straddled, overlap, faults>>
          /\ req[q].pc = "clear" /\ marker' = FALSE /\ torn' = FALSE /\ req' = [req EXCEPT ![q] = Idle]
          /\ Forget(g)
      BY <2>6 DEF ClearMarker, company, sql
    <3>2. req' \in [Requests -> ReqState] /\ req'[q].pc = "idle" /\ \A p \in Requests : p # q => req'[p] = req[p]
      BY <2>c, <2>d, <3>1, Zenon
    <3>6. /\ cache' \in [Gateways -> Entry]
          /\ \A h \in Gateways : Allowance(cache[h])' /\ Allowance(check[h])'
      BY <2>g, <3>1, Zenon
    <3>3. TypeOK'
      BY <2>0, <3>1, <3>2, <3>6, Zenon DEF TypeOK, ReqState, Entry, Ticks
    <3>4. Books'
      BY <2>0, <3>1, <3>6, Zenon DEF Books
    <3>5. overlap' \/ Serial'
      BY <2>0, <3>1, <3>2 DEF Serial, AfterCommit
    <3> QED BY <3>3, <3>4, <3>5 DEF LInv
  <2>7. ASSUME NEW q \in Requests, RequestDeletion(q) PROVE LInv'
    <3>1. /\ UNCHANGED <<active, since, login, sqlOpen, enrol, marker, cache, check, quiet, took, swept, straddled, torn, overlap, faults>>
          /\ req[q].pc = "delete" /\ req' = [req EXCEPT ![q] = Idle]
          /\ deletion' = (deletion \/ (~active /\ since # Null /\ since >= Wait + req[q].open))
      BY <2>7 DEF RequestDeletion, sql, histories
    <3>2. req' \in [Requests -> ReqState] /\ req'[q].pc = "idle" /\ \A p \in Requests : p # q => req'[p] = req[p]
      BY <2>c, <2>d, <3>1, Zenon
    <3>3. TypeOK'
      <4>1. deletion' \in BOOLEAN
        BY <2>a, <3>1, Zenon
      <4> QED BY <2>0, <3>1, <3>2, <4>1 DEF TypeOK, ReqState, Ticks
    <3>4. Books'
      BY <2>f, <3>1, Zenon
    <3>5. overlap' \/ Serial'
      BY <2>0, <3>1, <3>2, Zenon DEF Serial, AfterCommit
    <3> QED BY <3>3, <3>4, <3>5 DEF LInv
  <2>8. ASSUME NEW q \in Requests, Fail(q) PROVE LInv'
    <3>1. /\ UNCHANGED <<active, since, deletion, login, sqlOpen, enrol, marker, cache, check, quiet, took, swept, straddled, overlap>>
          /\ req[q].pc # "idle" /\ req' = [req EXCEPT ![q] = Idle]
          /\ torn' = (torn \/ req[q].pc \in AfterCommit)
          /\ faults < MaxFaults /\ faults' = faults + 1
      BY <2>8 DEF Fail, company, sql, AfterCommit
    <3>2. req' \in [Requests -> ReqState] /\ req'[q].pc = "idle" /\ \A p \in Requests : p # q => req'[p] = req[p]
      BY <2>c, <2>d, <3>1, Zenon
    <3>3. TypeOK'
      <4>1. torn' \in BOOLEAN
        BY <2>a, <3>1, Zenon
      <4>2. faults' \in 0 .. MaxFaults
        BY <1>0, <2>a, <3>1
      <4> QED BY <2>0, <3>1, <3>2, <4>1, <4>2 DEF TypeOK, ReqState, Ticks
    <3>4. Books'
      BY <2>f, <3>1, Zenon
    <3>5. overlap' \/ Serial'
      BY <2>0, <3>1, <3>2, Zenon DEF Serial
    <3> QED BY <3>3, <3>4, <3>5 DEF LInv
  <2>9. CASE SqlConnect
    <3>1. /\ UNCHANGED <<active, since, deletion, login, enrol, marker, cache, check, req, quiet, took, swept, straddled, torn, overlap, faults>>
          /\ login /\ sqlOpen' = TRUE
      BY <2>9 DEF SqlConnect, company, sql, histories
    <3>2. TypeOK'
      BY <2>0, <3>1 DEF TypeOK, Ticks
    <3>3. Books'
      BY <2>0, <2>e, <3>1, Zenon DEF Books
    <3>4. overlap' \/ Serial'
      BY <2>0, <3>1, Zenon DEF Serial
    <3> QED BY <3>2, <3>3, <3>4 DEF LInv
  <2>13. CASE EnrolCheck \/ EnrolRead \/ EnrolAlter
    <3>1. /\ UNCHANGED <<active, since, deletion, sqlOpen, marker, cache, check, req, quiet, took, swept, straddled, torn, overlap, faults>>
          /\ login' \in BOOLEAN /\ enrol' \in {"idle", "ensure", "on", "off"}
          /\ enrol' = "on" => active
          /\ login' => login \/ enrol = "on"
      <4>1. CASE EnrolCheck
        BY <2>a, <4>1, Zenon DEF EnrolCheck, company, histories
      <4>2. CASE EnrolRead
        BY <2>a, <4>2, Zenon DEF EnrolRead, company, histories
      <4>3. CASE EnrolAlter
        BY <2>a, <4>3, Zenon DEF EnrolAlter, histories
      <4> QED BY <2>13, <4>1, <4>2, <4>3
    <3>2. TypeOK'
      BY <2>0, <3>1 DEF TypeOK, Ticks
    <3>3. Books'
      BY <2>0, <2>e, <3>1, Zenon DEF Books
    <3>4. overlap' \/ Serial'
      BY <2>0, <3>1, Zenon DEF Serial
    <3> QED BY <3>2, <3>3, <3>4 DEF LInv
  <2>10. ASSUME NEW g \in Gateways, StartCheck(g) \/ ReadRegistry(g) \/ StoreCache(g) PROVE LInv'
    <3>1. UNCHANGED <<active, since, deletion, login, sqlOpen, enrol, marker, req, quiet, took, swept, straddled, torn, overlap, faults>>
      BY <2>10 DEF StartCheck, ReadRegistry, StoreCache, company, sql, histories
    <3>2. Resting \in Lookup /\ ~Resting.val
      BY <1>0 DEF Resting, Lookup
    <3>3. /\ check'[g] \in Lookup /\ cache'[g] \in Entry
          /\ check' = [check EXCEPT ![g] = check'[g]] /\ cache' = [cache EXCEPT ![g] = cache'[g]]
          /\ Allowance(check'[g]) /\ Allowance(cache'[g])
      <4>0. cache[g] \in Entry /\ check[g] \in Lookup /\ Allowance(cache[g]) /\ Allowance(check[g])
        BY <2>0, <2>b DEF Books
      <4>1. CASE StartCheck(g)
        <5> DEFINE new == [pc |-> "read", val |-> FALSE, ttl |-> CacheTTL]
        <5>1. new \in Lookup /\ ~new.val
          BY <1>0 DEF Lookup
        <5>2. check' = [check EXCEPT ![g] = new] /\ cache' = cache
          BY <4>1 DEF StartCheck
        <5> HIDE DEF new
        <5> QED BY <5>1, <5>2, <4>0, <2>b DEF Allowance
      <4>2. CASE ReadRegistry(g)
        <5> DEFINE new == [check[g] EXCEPT !.pc = "store", !.val = active]
        <5>1. new \in Lookup /\ new.val = active
          BY <2>a, <4>0, Zenon DEF Lookup
        <5>2. check' = [check EXCEPT ![g] = new] /\ cache' = cache
          BY <4>2, <4>0, Zenon DEF ReadRegistry, Lookup
        <5> HIDE DEF new
        <5> QED BY <5>1, <5>2, <4>0, <2>b DEF Allowance
      <4>3. CASE StoreCache(g)
        <5> DEFINE new == [val |-> check[g].val, ttl |-> check[g].ttl]
        <5>1. new \in Entry /\ new.val = check[g].val /\ new.ttl = check[g].ttl
          BY <4>0 DEF Entry, Lookup
        <5>2. check' = [check EXCEPT ![g] = Resting] /\ cache' = [cache EXCEPT ![g] = new]
          BY <4>3 DEF StoreCache
        <5> HIDE DEF new
        <5> QED BY <5>1, <5>2, <4>0, <3>2, <2>b DEF Allowance
      <4> QED BY <2>10, <4>1, <4>2, <4>3
    <3>4. /\ check' \in [Gateways -> Lookup] /\ cache' \in [Gateways -> Entry]
          /\ \A h \in Gateways : h # g => check'[h] = check[h] /\ cache'[h] = cache[h]
      BY <2>b, <3>3
    <3>5. TypeOK'
      BY <2>0, <3>1, <3>4 DEF TypeOK, Lookup, Entry, Ticks
    <3>6. Books'
      <4>1. ASSUME NEW h \in Gateways PROVE Allowance(cache[h])' /\ Allowance(check[h])'
        BY <2>0, <3>1, <3>3, <3>4 DEF Books, Allowance
      <4> QED BY <2>0, <3>1, <4>1, Zenon DEF Books
    <3>7. overlap' \/ Serial'
      BY <2>0, <3>1, Zenon DEF Serial
    <3> QED BY <3>5, <3>6, <3>7 DEF LInv
  <2>11. CASE Tick
    <3>1. /\ UNCHANGED <<active, deletion, login, sqlOpen, enrol, marker, took, swept, straddled, torn, overlap, faults>>
          /\ since' = (IF since = Null THEN Null ELSE Later(since))
          /\ quiet' = (IF active THEN 0 ELSE Later(quiet))
      BY <2>11 DEF Tick, sql
    <3>a. req' \in [Requests -> ReqState] /\ \A q \in Requests : req'[q].pc = req[q].pc
      <4>1. ASSUME NEW q \in Requests PROVE req'[q] \in ReqState /\ req'[q].pc = req[q].pc
        <5>1. req[q] \in ReqState
          BY <2>b
        <5>2. CASE req[q].pc \in InTransaction
          <6>1. PICK n : n = req[q].open + 1 /\ n \in 0 .. MaxOpen
            BY <1>0, <2>11, <5>1, <5>2 DEF Tick, ReqState
          <6>2. req'[q] = [req[q] EXCEPT !.open = n]
            BY <2>11, <5>2, <6>1 DEF Tick
          <6> QED BY <5>1, <6>1, <6>2, Zenon DEF ReqState
        <5>3. CASE req[q].pc \notin InTransaction
          BY <2>11, <5>1, <5>3, Zenon DEF Tick
        <5> QED BY <5>2, <5>3
      <4>2. req' = [q \in Requests |-> req'[q]]
        BY <2>11 DEF Tick
      <4> QED BY <4>1, <4>2
    <3>2. \A t \in Ticks : Later(t) \in Ticks /\ Later(t) <= t + 1 /\ t <= Later(t)
      BY <1>0 DEF Ticks, Later
    <3>3. \A t \in Ticks, u \in Ticks, n \in Nat : t <= u + n => Later(t) <= Later(u) + n
      BY <1>0 DEF Ticks, Later
    <3>4. \A t \in 0 .. CacheTTL : Sooner(t) \in 0 .. CacheTTL /\ (Sooner(t) > 0 => Sooner(t) = t - 1)
      BY <1>0 DEF Sooner
    <3>5. ASSUME NEW g \in Gateways
          PROVE  /\ cache'[g] \in Entry /\ cache'[g].val = cache[g].val /\ cache'[g].ttl = Sooner(cache[g].ttl)
                 /\ check'[g] \in Lookup /\ check'[g].val = check[g].val /\ check'[g].ttl = Sooner(check[g].ttl)
      <4>1. cache[g] \in Entry /\ check[g] \in Lookup
        BY <2>b
      <4>2. cache'[g] = [cache[g] EXCEPT !.ttl = Sooner(@)] /\ check'[g] = [check[g] EXCEPT !.ttl = Sooner(@)]
        BY <2>11 DEF Tick
      <4>3. Sooner(cache[g].ttl) \in 0 .. CacheTTL /\ Sooner(check[g].ttl) \in 0 .. CacheTTL
        BY <3>4, <4>1 DEF Entry, Lookup
      <4> QED BY <4>1, <4>2, <4>3 DEF Entry, Lookup
    <3>6. cache' \in [Gateways -> Entry] /\ check' \in [Gateways -> Lookup]
      <4>1. cache' = [g \in Gateways |-> cache'[g]] /\ check' = [g \in Gateways |-> check'[g]]
        BY <2>11 DEF Tick
      <4> QED BY <3>5, <4>1
    <3>7. quiet' \in Ticks /\ since' \in Ticks \cup {Null} /\ (since' = Null <=> since = Null)
      BY <1>0, <2>a, <3>1, <3>2 DEF Ticks
    <3>8. TypeOK'
      BY <2>0, <3>1, <3>6, <3>7, <3>a DEF TypeOK, Entry, Lookup, ReqState, Ticks
    <3>9. Books'
      <4>1. since' # Null => since' <= quiet' + took'
        <5> SUFFICES ASSUME since # Null PROVE Later(since) <= Later(quiet) + took /\ ~active
          BY <3>1, <3>7
        <5>1. since <= quiet + took /\ ~active /\ since \in Ticks /\ quiet \in Ticks /\ took \in Nat
          <6>1. \A n \in 0 .. MaxOpen : n \in Nat
            BY <1>0
          <6> QED BY <2>0, <2>a, <6>1, Zenon DEF Books
        <5> QED BY <3>3, <5>1, Zenon
      <4>2. ASSUME NEW g \in Gateways PROVE Allowance(cache[g])' /\ Allowance(check[g])'
        <5>1. Allowance(cache[g]) /\ Allowance(check[g])
              /\ cache[g].ttl \in 0 .. CacheTTL /\ check[g].ttl \in 0 .. CacheTTL
          BY <2>0, <2>b DEF Books, Entry, Lookup
        <5>2. ~active => quiet' <= quiet + 1 /\ quiet' \in Nat /\ quiet \in Nat
          BY <1>0, <2>a, <3>1, <3>2 DEF Ticks
        <5>3. ASSUME NEW t \in 0 .. CacheTTL, Sooner(t) > 0, ~active, quiet + t <= CacheTTL
              PROVE  quiet' + Sooner(t) <= CacheTTL
          <6>1. Sooner(t) = t - 1 /\ t \in Nat /\ CacheTTL \in Nat
            BY <1>0, <3>4, <5>3
          <6> QED BY <5>2, <5>3, <6>1
        <5>4. \A t \in 0 .. CacheTTL : Sooner(t) > 0 => t > 0
          BY <1>0 DEF Sooner
        <5> QED BY <5>1, <5>3, <5>4, <3>1, <3>5, Zenon DEF Allowance
      <4>3. active' => quiet' = 0
        BY <3>1, Zenon
      <4> QED BY <2>0, <3>1, <4>1, <4>2, <4>3, Zenon DEF Books
    <3>10. overlap' \/ Serial'
      BY <2>0, <3>1, <3>7, <3>a, Zenon DEF Serial
    <3> QED BY <3>8, <3>9, <3>10 DEF LInv
  <2>12. CASE UNCHANGED vars
    <3>1. UNCHANGED <<active, since, deletion, login, sqlOpen, enrol, marker, cache, check, req, quiet, took, swept, straddled, torn, overlap, faults>>
      BY <2>12 DEF vars, company, sql, histories
    <3>2. TypeOK' /\ Books'
      BY <2>0, <2>f, <3>1 DEF TypeOK, Ticks
    <3>3. overlap' \/ Serial'
      BY <2>0, <3>1, Zenon DEF Serial
    <3> QED BY <3>2, <3>3 DEF LInv
  <2> QED BY <1>2, <2>1, <2>2, <2>3, <2>4, <2>5, <2>6, <2>7, <2>8, <2>9, <2>10, <2>11, <2>12, <2>13, Zenon DEF Next
<1> QED BY <1>1, <1>2, PTL DEF Spec

\* No SQL session is open once a suspension has ended them, for any requests interleaved with the proxy's
\* connections and enrolments, unless the suspension came between an enrolment's read of the flag and
\* its write of the login (end_suspended_tenant_sql_sessions, ensure_tenant_sql_login).
THEOREM SuspendedIsShutOut == Spec => []SqlShutOut
<1>1. LInv => SqlShutOut
  BY Zenon DEF LInv, Books, SqlShutOut
<1> QED BY <1>1, LifecycleInvariance, PTL

\* No cached flag lets a suspended tenant in for longer than the cache's life, for any number of gateways
\* and any interleaving of their registry reads with suspensions and reactivations (is_company_active).
THEOREM CachedFlagFades == Spec => []FlagFades
<1>1. LInv => FlagFades
  BY Zenon DEF LInv, Books, Allowance, FlagFades
<1> QED BY <1>1, LifecycleInvariance, PTL

\* While company requests come one at a time, whichever of them die, the marker says what the registry
\* says once a request has ended (mark_suspended, clear_suspended).
THEOREM MarkerFollowsRegistry == Spec => []SerialMarker
<1>1. LInv => SerialMarker
  BY DEF LInv, Serial, AfterCommit, SerialMarker, MarkerMatchesRegistry
<1> QED BY <1>1, LifecycleInvariance, PTL

\* A deletion is requested only after the whole wait of unbroken inactivity, less what the suspending
\* transaction took before its UPDATE, for any wait and any number of concurrent requests: suspended_at
\* is never older than that (request_company_deletion).
THEOREM DeletionWaits == Spec => WaitKept
<1>1. ASSUME LInv, [Next]_vars PROVE [deletion' /\ ~deletion => quiet + took >= Wait]_vars
  <2> SUFFICES ASSUME deletion', ~deletion PROVE quiet + took >= Wait
    OBVIOUS
  <2>1. PICK q \in Requests : RequestDeletion(q)
    <3>1. deletion' # deletion
      BY Zenon
    <3> QED BY <1>1, <3>1, Zenon DEF Next, vars, company, Submit, CheckDeletion, UpdateRow, EndSql, Mark, ClearMarker,
          Fail, SqlConnect, EnrolCheck, EnrolRead, EnrolAlter, StartCheck, ReadRegistry, StoreCache, Tick
  <2>2. since # Null /\ since >= Wait + req[q].open
    BY <2>1, Zenon DEF RequestDeletion
  <2>3. since \in Nat /\ quiet \in Nat /\ took \in Nat /\ Wait \in Nat /\ req[q].open \in Nat /\ since <= quiet + took
    BY <1>1, <2>2, ConstAssumption DEF LInv, TypeOK, Ticks, Horizon, Books
  <2> QED BY <2>2, <2>3
<1> QED BY <1>1, LifecycleInvariance, PTL DEF Spec, WaitKept
-----------------------------------------------------------------------------
(* Carrying out a deletion (TenantDeletion). *)

CONSTANTS Jobs, NoJob, OldDays
VARIABLES steps, held, trashed, schema, old, lock, job, hub, export, late

Deletion == INSTANCE TenantDeletion

\* A store that may be recorded: emptied, or one the record makes an exception of.
Clean(s) == s \notin held \/ s = "broker" \/ (s = "cold_layer" /\ late)

\* A run of the job, as a record of its three fields.
JobAs(p, t, u) == [pc |-> p, todo |-> t, waiting |-> u]
JobShape == job = [j \in Jobs |-> JobAs(job[j].pc, job[j].todo, job[j].waiting)]

\* The inductive invariant of TenantDeletion: a store is clean from the step that emptied it, through
\* the moment before it is recorded, for good; and nothing of this happens before a request.
DInv ==
    /\ JobShape
    /\ (steps # {} \/ (\E j \in Jobs : job[j].pc # "idle") \/ hub = "record") => deletion # "none"
    /\ \A j \in Jobs : job[j].pc = "record" => Clean(Head(job[j].todo))
    /\ hub = "record" => "notebook_volumes" \notin held
    /\ \A s \in steps : Clean(s)
    /\ schema \/ (deletion = "completed" /\ Deletion!Stores \subseteq steps)

\* A store is recorded as emptied only when it is, and stays so, and the schema goes last: for any runs
\* of the job at once, crashes, passes of the hub and exports in between (job.py,
\* record_company_deletion_step, the hub's reclaim pass).
THEOREM RecordedStoresAreEmpty == Deletion!Spec => []Deletion!RecordedEmpty
<1>1. Deletion!Init => DInv
  <2> SUFFICES ASSUME Deletion!Init PROVE DInv
    OBVIOUS
  <2>1. JobShape
    BY DEF Deletion!Init, Deletion!IdleJob, JobShape, JobAs
  <2>2. \A j \in Jobs : job[j].pc = "idle"
    BY DEF Deletion!Init, Deletion!IdleJob
  <2> QED BY <2>1, <2>2 DEF Deletion!Init, DInv
<1>2. ASSUME DInv, [Deletion!Next]_(Deletion!vars) PROVE DInv'
  <2>1. /\ JobShape
        /\ (steps # {} \/ (\E j \in Jobs : job[j].pc # "idle") \/ hub = "record") => deletion # "none"
        /\ \A j \in Jobs : job[j].pc = "record" => Clean(Head(job[j].todo))
        /\ hub = "record" => "notebook_volumes" \notin held
        /\ \A s \in steps : Clean(s)
        /\ schema \/ (deletion = "completed" /\ Deletion!Stores \subseteq steps)
    BY <1>2 DEF DInv
  \* A store stays clean while nothing is written to it again.
  <2>2. ASSUME held' \subseteq held, late' = late PROVE \A s : Clean(s) => Clean(s)'
    BY <2>2 DEF Clean
  \* A job moves on.
  <2>3. ASSUME NEW j \in Jobs, NEW p, NEW t, NEW u, job' = [job EXCEPT ![j] = JobAs(p, t, u)]
        PROVE  /\ JobShape'
               /\ job'[j].pc = p /\ job'[j].todo = t
               /\ \A i \in Jobs : i # j => job'[i] = job[i]
    <3>1. job' = [i \in Jobs |-> IF i = j THEN JobAs(p, t, u) ELSE JobAs(job[i].pc, job[i].todo, job[i].waiting)]
      BY <2>1, <2>3, Zenon DEF JobShape
    <3>2. job'[j] = JobAs(p, t, u)
      BY <3>1
    <3>3. \A i \in Jobs : i # j => job'[i] = JobAs(job[i].pc, job[i].todo, job[i].waiting) /\ job'[i] = job[i]
      BY <2>1, <2>3, <3>1, Zenon DEF JobShape
    <3>4. job'[j].pc = p /\ job'[j].todo = t /\ job'[j].waiting = u
      BY <3>2 DEF JobAs
    <3>5. \A i \in Jobs : job'[i] = JobAs(job'[i].pc, job'[i].todo, job'[i].waiting)
      BY <3>2, <3>3, <3>4
    <3>6. job' = [i \in Jobs |-> job'[i]]
      BY <3>1
    <3> QED BY <3>3, <3>4, <3>5, <3>6 DEF JobShape
  <2>4. \A j \in Jobs : job[j] = JobAs(job[j].pc, job[j].todo, job[j].waiting)
    BY <2>1 DEF JobShape
  <2>5. ASSUME NEW j \in Jobs, NEW p, NEW t, NEW u, job[j] = JobAs(p, t, u), Deletion!ToRecord(j)
        PROVE  job' = [job EXCEPT ![j] = JobAs("record", t, u)]
    <3>1. job' = [job EXCEPT ![j] = [JobAs(p, t, u) EXCEPT !.pc = "record"]]
      BY <2>5 DEF Deletion!ToRecord
    <3>2. [JobAs(p, t, u) EXCEPT !.pc = "record"] = JobAs("record", t, u)
      BY DEF JobAs
    <3> QED BY <3>1, <3>2, Zenon
  <2>6. ASSUME NEW j \in Jobs, NEW p, NEW t, NEW u, job[j] = JobAs(p, t, u), Deletion!LeaveWaiting(j)
        PROVE  \E v, b : job' = [job EXCEPT ![j] = JobAs(p, v, b)]
    <3>1. job' = [job EXCEPT ![j] = [[job[j] EXCEPT !.todo = Tail(@)] EXCEPT !.waiting = TRUE]]
      BY <2>6, Zenon DEF Deletion!LeaveWaiting
    <3>2. \A v : [JobAs(p, t, u) EXCEPT !.todo = v] = JobAs(p, v, u)
      BY DEF JobAs
    <3>3. \A v, b : [JobAs(p, v, u) EXCEPT !.waiting = b] = JobAs(p, v, b)
      BY DEF JobAs
    <3>4. JobAs(p, t, u).todo = t
      BY DEF JobAs
    <3>5. PICK v, b : v = Tail(t) /\ b = TRUE
      BY Zenon
    <3>6. job' = [job EXCEPT ![j] = [[JobAs(p, t, u) EXCEPT !.todo = v] EXCEPT !.waiting = b]]
      BY <2>6, <3>1, <3>4, <3>5
    <3>7. [JobAs(p, t, u) EXCEPT !.todo = v] = JobAs(p, v, u)
      BY <3>2
    <3>8. [JobAs(p, v, u) EXCEPT !.waiting = b] = JobAs(p, v, b)
      BY <3>3
    <3>9. job' = [job EXCEPT ![j] = JobAs(p, v, b)]
      BY <3>6, <3>7, <3>8, Zenon
    <3> QED BY <3>9, Zenon
  \* A job handles the store at the head of its list.
  <2>7. ASSUME NEW j \in Jobs, NEW s, job[j].pc = "store", Head(job[j].todo) = s,
               UNCHANGED <<deletion, steps, schema, hub, late>>, held' \subseteq held,
               job' = job \/ (Deletion!ToRecord(j) /\ Clean(s)') \/ Deletion!LeaveWaiting(j)
        PROVE  DInv'
    <3>1. \A r : Clean(r) => Clean(r)'
      BY <2>2, <2>7
    <3>2. CASE job' = job
      <4>1. JobShape'
        BY <2>1, <3>2 DEF JobShape
      <4> QED BY <2>1, <2>7, <3>1, <3>2, <4>1, Zenon DEF DInv
    <3>3. ASSUME NEW p, NEW t, NEW u, job' = [job EXCEPT ![j] = JobAs(p, t, u)], p = "record" => Clean(Head(t))'
          PROVE  DInv'
      <4>1. /\ JobShape' /\ job'[j].pc = p /\ job'[j].todo = t
            /\ \A i \in Jobs : i # j => job'[i] = job[i]
        BY <2>3, <3>3, ZenonT(30)
      <4>2. \A i \in Jobs : job'[i].pc = "record" => Clean(Head(job[i].todo))'
        <5> SUFFICES ASSUME NEW i \in Jobs, job'[i].pc = "record" PROVE Clean(Head(job[i].todo))'
          OBVIOUS
        <5>1. CASE i = j
          BY <3>3, <4>1, <5>1 DEF Clean
        <5>2. CASE i # j
          <6>1. job'[i] = job[i] /\ job[i].pc = "record"
            BY <4>1, <5>2
          <6>2. PICK r : r = Head(job[i].todo)
            OBVIOUS
          <6>3. Clean(r)'
            BY <2>1, <3>1, <6>1, <6>2
          <6> QED BY <6>1, <6>2, <6>3 DEF Clean
        <5> QED BY <5>1, <5>2
      <4>3. deletion # "none"
        BY <2>1, <2>7
      <4> QED BY <2>1, <2>7, <3>1, <4>1, <4>2, <4>3, Zenon DEF DInv
    <3>4. PICK t, u : job[j] = JobAs("store", t, u)
      BY <2>4, <2>7
    <3>5. job[j].todo = t
      BY <3>4 DEF JobAs
    <3>6. CASE Deletion!ToRecord(j) /\ Clean(s)'
      <4>1. job' = [job EXCEPT ![j] = JobAs("record", t, u)]
        BY <2>5, <3>4, <3>6
      <4>2. Head(t) = s
        BY <2>7, <3>5
      <4> QED BY <3>3, <3>6, <4>1, <4>2, Zenon
    <3>7. CASE Deletion!LeaveWaiting(j)
      <4>1. PICK v, b : job' = [job EXCEPT ![j] = JobAs("store", v, b)]
        BY <2>6, <3>4, <3>7
      <4>2. "store" = "record" => Clean(Head(v))'
        OBVIOUS
      <4> QED BY <3>3, <4>1, <4>2, Zenon
    <3> QED BY <2>7, <3>2, <3>6, <3>7
  <2>8. CASE Deletion!Request
    <3>1. UNCHANGED <<steps, schema, held, job, hub, late>> /\ deletion = "none" /\ deletion' = "requested"
      BY <2>8 DEF Deletion!Request, Deletion!nightly
    <3>2. JobShape' /\ \A s : Clean(s) => Clean(s)'
      BY <2>1, <3>1, Zenon DEF JobShape, Clean
    <3> QED BY <2>1, <3>1, <3>2, Zenon DEF DInv
  <2>9. ASSUME NEW j \in Jobs, Deletion!StartJob(j) PROVE DInv'
    <3> DEFINE todo == SelectSeq(Deletion!Required, LAMBDA s : s \notin steps)
    <3>1. UNCHANGED <<deletion, steps, schema, held, hub, late>> /\ deletion = "requested"
      BY <2>9 DEF Deletion!StartJob, Deletion!database, Deletion!nightly
    <3>2. PICK t : job' = [job EXCEPT ![j] = JobAs("store", t, FALSE)]
      BY <2>9, Zenon DEF Deletion!StartJob, JobAs
    <3>3. /\ JobShape' /\ job'[j].pc = "store"
          /\ \A i \in Jobs : i # j => job'[i] = job[i]
      BY <2>3, <3>2, Zenon
    <3>4. \A s : Clean(s) => Clean(s)'
      BY <3>1 DEF Clean
    <3>5. \A i \in Jobs : job'[i].pc = "record" => Clean(Head(job[i].todo))'
      BY <2>1, <3>1, <3>3 DEF Clean
    <3> QED BY <2>1, <3>1, <3>3, <3>4, <3>5, Zenon DEF DInv
  <2>10. ASSUME NEW j \in Jobs,
                \/ Deletion!PurgeCapabilities(j) \/ Deletion!PurgeCold(j) \/ Deletion!PurgeTracking(j)
                \/ Deletion!SkipVolumes(j) \/ Deletion!VerifyCertificates(j) \/ Deletion!AgeOutBroker(j)
         PROVE  DInv'
    <3>1. UNCHANGED <<deletion, steps, schema, hub, late>>
      BY <2>10, Zenon DEF Deletion!PurgeCapabilities, Deletion!PurgeCold, Deletion!PurgeTracking, Deletion!SkipVolumes,
           Deletion!VerifyCertificates, Deletion!AgeOutBroker, Deletion!database, Deletion!nightly
    <3>2. PICK s : Deletion!AtStore(j, s) /\ held' \subseteq held
                   /\ (job' = job \/ (Deletion!ToRecord(j) /\ Clean(s)') \/ Deletion!LeaveWaiting(j))
      <4>1. CASE Deletion!PurgeCapabilities(j)
        BY <4>1 DEF Deletion!PurgeCapabilities, Clean
      <4>2. CASE Deletion!PurgeCold(j)
        BY <4>2 DEF Deletion!PurgeCold, Clean
      <4>3. CASE Deletion!PurgeTracking(j)
        BY <4>3 DEF Deletion!PurgeTracking, Clean
      <4>4. CASE Deletion!SkipVolumes(j)
        BY <4>4 DEF Deletion!SkipVolumes
      <4>5. CASE Deletion!VerifyCertificates(j)
        BY <4>5 DEF Deletion!VerifyCertificates, Clean
      <4>6. CASE Deletion!AgeOutBroker(j)
        BY <4>6 DEF Deletion!AgeOutBroker, Clean
      <4> QED BY <2>10, <4>1, <4>2, <4>3, <4>4, <4>5, <4>6
    <3> QED BY <2>7, <3>1, <3>2, Zenon DEF Deletion!AtStore
  <2>11. ASSUME NEW j \in Jobs, Deletion!RecordStore(j) PROVE DInv'
    <3>1. /\ UNCHANGED <<deletion, schema, held, hub, late>> /\ job[j].pc = "record"
          /\ steps' = Deletion!Recorded(Head(job[j].todo))
      BY <2>11 DEF Deletion!RecordStore, Deletion!nightly
    <3>2. PICK t, u : job[j] = JobAs("record", t, u)
      BY <2>4, <3>1
    <3>3. PICK v : job' = [job EXCEPT ![j] = JobAs("store", v, u)]
      <4>1. job' = [job EXCEPT ![j] = [[JobAs("record", t, u) EXCEPT !.pc = "store"] EXCEPT !.todo = Tail(@)]]
        BY <2>11, <3>2, Zenon DEF Deletion!RecordStore
      <4>2. [JobAs("record", t, u) EXCEPT !.pc = "store"] = JobAs("store", t, u)
        BY DEF JobAs
      <4>3. PICK v : v = Tail(JobAs("store", t, u).todo)
        BY Zenon
      <4>4. [JobAs("store", t, u) EXCEPT !.todo = v] = JobAs("store", v, u)
        BY DEF JobAs
      <4> QED BY <4>1, <4>2, <4>3, <4>4, Zenon
    <3>4. /\ JobShape' /\ job'[j].pc = "store"
          /\ \A i \in Jobs : i # j => job'[i] = job[i]
      BY <2>3, <3>3, Zenon
    <3>5. \A s : Clean(s) <=> Clean(s)'
      BY <3>1 DEF Clean
    <3>6. \A i \in Jobs : job'[i].pc = "record" => Clean(Head(job[i].todo))'
      BY <2>1, <3>1, <3>4, Zenon DEF Clean
    <3>7. steps \subseteq steps' /\ \A s \in steps' : Clean(s)'
      BY <2>1, <3>1, <3>5 DEF Deletion!Recorded
    <3>8. deletion # "none"
      BY <2>1, <3>1
    <3> QED BY <2>1, <3>1, <3>4, <3>6, <3>7, <3>8, Zenon DEF DInv
  <2>12. ASSUME NEW j \in Jobs, Deletion!EndJob(j) \/ Deletion!StopJob(j) PROVE DInv'
    <3>1. UNCHANGED <<steps, held, hub, late>> /\ job' = [job EXCEPT ![j] = JobAs("idle", <<>>, FALSE)]
      BY <2>12, Zenon DEF Deletion!EndJob, Deletion!StopJob, Deletion!nightly, Deletion!database, Deletion!IdleJob, JobAs
    <3>2. /\ JobShape' /\ job'[j].pc = "idle"
          /\ \A i \in Jobs : i # j => job'[i] = job[i]
      BY <2>3, <3>1, Zenon
    <3>3. \/ UNCHANGED <<deletion, schema>>
          \/ deletion' = "completed" /\ Deletion!Stores \subseteq steps
      BY <2>12 DEF Deletion!EndJob, Deletion!StopJob, Deletion!database
    <3>4. \A s : Clean(s) <=> Clean(s)'
      BY <3>1 DEF Clean
    <3>5. \A i \in Jobs : job'[i].pc = "record" => Clean(Head(job[i].todo))'
      <4>1. held' = held /\ late' = late
        BY <3>1
      <4>2. \A i \in Jobs : job'[i].pc = "record" => job'[i] = job[i]
        BY <3>2
      <4> QED BY <2>1, <4>1, <4>2 DEF Clean
    <3>6. (steps' # {} \/ (\E i \in Jobs : job'[i].pc # "idle") \/ hub' = "record") => deletion' # "none"
      BY <2>1, <3>1, <3>2, <3>3, Zenon
    <3>7. schema' \/ (deletion' = "completed" /\ Deletion!Stores \subseteq steps')
      BY <2>1, <3>1, <3>3
    <3> QED BY <2>1, <3>1, <3>2, <3>4, <3>5, <3>6, <3>7, Zenon DEF DInv, Deletion!Stores, Deletion!Required
  <2>13. CASE Deletion!ReclaimVolumes
    <3>1. /\ UNCHANGED <<deletion, steps, schema, job, late>> /\ deletion = "requested" /\ held' \subseteq held
          /\ hub' = hub \/ (hub' = "record" /\ "notebook_volumes" \notin held')
      BY <2>13 DEF Deletion!ReclaimVolumes, Deletion!database, Deletion!nightly
    <3>2. JobShape' /\ \A s : Clean(s) => Clean(s)'
      BY <2>1, <2>2, <3>1 DEF JobShape
    <3> QED BY <2>1, <3>1, <3>2, Zenon DEF DInv
  <2>14. CASE Deletion!RecordVolumes
    <3>1. /\ UNCHANGED <<deletion, schema, held, job, late>> /\ hub = "record" /\ hub' = "idle"
          /\ steps' = Deletion!Recorded("notebook_volumes")
      BY <2>14 DEF Deletion!RecordVolumes, Deletion!nightly
    <3>2. JobShape' /\ \A s : Clean(s) <=> Clean(s)'
      BY <2>1, <3>1, Zenon DEF JobShape, Clean
    <3>3. Clean("notebook_volumes")
      BY <2>1, <3>1 DEF Clean
    <3>4. steps \subseteq steps' /\ \A s \in steps' : Clean(s)'
      BY <2>1, <3>1, <3>2, <3>3 DEF Deletion!Recorded
    <3>5. \A i \in Jobs : job'[i].pc = "record" => Clean(Head(job[i].todo))'
      BY <2>1, <3>1, Zenon DEF Clean
    <3> QED BY <2>1, <3>1, <3>2, <3>4, <3>5, Zenon DEF DInv
  <2>15. CASE Deletion!CollectTracking \/ Deletion!RevokeCertificates \/ Deletion!ReadDay \/ Deletion!DropDay
              \/ UNCHANGED Deletion!vars
    <3>1. UNCHANGED <<deletion, steps, schema, job, hub, late>> /\ held' \subseteq held
      BY <2>15 DEF Deletion!CollectTracking, Deletion!RevokeCertificates, Deletion!ReadDay, Deletion!DropDay,
           Deletion!vars, Deletion!database, Deletion!nightly
    <3>2. JobShape' /\ \A s : Clean(s) => Clean(s)'
      BY <2>1, <2>2, <3>1, Zenon DEF JobShape
    <3> QED BY <2>1, <3>1, <3>2, Zenon DEF DInv
  <2>16. CASE Deletion!WriteDay
    <3>1. /\ UNCHANGED <<deletion, steps, schema, job, hub>>
          /\ held' = held \cup {"cold_layer"} /\ late' = (late \/ deletion # "none")
      BY <2>16 DEF Deletion!WriteDay, Deletion!database
    <3>2. JobShape'
      BY <2>1, <3>1 DEF JobShape
    <3>3. deletion # "none" => \A s : Clean(s) => Clean(s)'
      BY <3>1, Zenon DEF Clean
    <3> QED BY <2>1, <3>1, <3>2, <3>3, Zenon DEF DInv
  <2> QED BY <1>2, <2>8, <2>9, <2>10, <2>11, <2>12, <2>13, <2>14, <2>15, <2>16
        DEF Deletion!Next, Deletion!JobStep, Deletion!HubStep, Deletion!ExportStep, Deletion!Done
<1>3. DInv => Deletion!RecordedEmpty
  BY DEF DInv, Clean, Deletion!RecordedEmpty
<1> QED BY <1>1, <1>2, <1>3, PTL DEF Deletion!Spec
-----------------------------------------------------------------------------
(* How ingestion learns of a suspension (TenantStatusStream). *)

CONSTANTS Publishers, Followers, Interval, Stale, SendLag, MaxChanges
VARIABLES steady, pub, limbo, linked, chan, heard, changes

Stream == INSTANCE TenantStatusStream

\* The states of a publisher, and of what a follower remembers.
PubState == [pc : {"read", "send", "sleep", "gone"}, for : Nat, val : BOOLEAN]
Memory == [known : BOOLEAN, active : BOOLEAN, age : Nat]

\* Ticks since a publisher's last round ended; at least those since the start when none has.
Silence(p) == IF pub[p].pc = "read" THEN Interval
              ELSE IF pub[p].pc = "send" THEN Interval + pub[p].for ELSE pub[p].for

\* The state's types.
StreamTypes ==
    /\ active \in BOOLEAN /\ steady \in Nat /\ faults \in Nat
    /\ pub \in [Publishers -> PubState]
    /\ limbo \in [Publishers -> SUBSET BOOLEAN]
    /\ linked \in [Followers -> BOOLEAN]
    /\ chan \in [Followers -> Seq(BOOLEAN)]
    /\ heard \in [Followers -> Memory]

\* Nothing has failed: every publisher is in a round or between two, and every follower connected.
Working ==
    /\ \A p \in Publishers :
          /\ limbo[p] = {} /\ pub[p].pc # "gone"
          /\ pub[p].pc = "sleep" => pub[p].for < Interval
          /\ pub[p].pc = "send" => pub[p].for <= SendLag
    /\ \A f \in Followers : linked[f]

\* What was read before the suspension is on the topic within a send's time.
OldNewsEnds ==
    ~active =>
      /\ \A p \in Publishers : pub[p].pc = "send" /\ pub[p].val => steady <= pub[p].for
      /\ \A f \in Followers : \A i \in 1 .. Len(chan[f]) : chan[f][i] => steady <= SendLag

\* What a follower remembers is no older than any publisher's silence.
Repeated ==
    \A p \in Publishers, f \in Followers :
        chan[f] = <<>> /\ heard[f].known => heard[f].age <= Silence(p)

\* A publisher that ended a round after the old news ended has told every follower, which knows it until
\* every publisher has been silent for as long as a follower remembers.
AllSlow == \A q \in Publishers : Stream!Slow(q)
Told ==
    ~active => \A p \in Publishers, f \in Followers :
                  steady > SendLag + Silence(p) => Stream!Informed(f) \/ AllSlow

Calm == Working /\ OldNewsEnds /\ Repeated /\ Told

\* The inductive invariant of TenantStatusStream.  It says nothing more once something has failed.
SInv == StreamTypes /\ (faults = 0 => Calm)

\* While nothing fails, a tenant suspended for longer than one interval and the sends of two rounds is
\* known to be so by every ingestion replica, but while every publisher is in a round slower than a
\* replica's memory: for any replicas on either side, any send time, any interval, and any memory that
\* outlasts an interval (tenant_status_publisher.py, ingestion_service/tenant_status.py).
\* The hypothesis is the module's own assumption on its constants.
THEOREM SuspensionReachesIngestion == ASSUME Stream!ConstAssumption PROVE Stream!Spec => []Stream!ReachesIngestion
<1>0. /\ Interval \in Nat \ {0} /\ SendLag \in Nat /\ Stale \in Nat /\ Interval <= Stale
      /\ Publishers # {} /\ Stream!Horizon \in Nat
  BY DEF Stream!ConstAssumption, Stream!Horizon
<1>a. /\ 0 <= SendLag /\ \A k \in Nat : Interval + k \in Nat
      /\ \A k \in Nat : k < Interval /\ k + 1 # Interval => k + 1 < Interval
      /\ \A k \in Nat : k < SendLag => k + 1 <= SendLag
      /\ \A a, g \in Nat : a <= g => a + 1 <= g + 1
      /\ \A a, g \in Nat : a <= g /\ ~(a < Stale) => g + 1 > Stale /\ ~(g + 1 < Interval) /\ g + 1 # Interval
      /\ \A k \in Nat : Interval + k > Stale => Interval + (k + 1) > Stale
      /\ \A s, g \in Nat : s > Interval + 2 * SendLag /\ g <= Interval + SendLag => s > SendLag + g
      /\ \A s, t, g \in Nat : t <= s + 1 /\ t > SendLag + (g + 1) => s > SendLag + g
  BY <1>0
<1>1. Stream!Init => SInv
  <2> SUFFICES ASSUME Stream!Init PROVE SInv
    OBVIOUS
  <2>1. StreamTypes
    <3>1. Stream!Nothing \in Memory
      BY DEF Stream!Nothing, Memory
    <3>2. [pc |-> "read", for |-> 0, val |-> TRUE] \in PubState
      BY DEF PubState
    <3>3. chan \in [Followers -> Seq(BOOLEAN)]
      BY DEF Stream!Init
    <3> QED BY <3>1, <3>2, <3>3, Zenon DEF Stream!Init, StreamTypes
  <2>2. /\ \A p \in Publishers : limbo[p] = {} /\ pub[p].pc = "read"
        /\ \A f \in Followers : linked[f] /\ ~heard[f].known
        /\ active
    BY Zenon DEF Stream!Init, Stream!Nothing
  <2> QED BY <2>1, <2>2, Zenon DEF SInv, Calm, Working, OldNewsEnds, Repeated, Told
<1>2. ASSUME SInv, [Stream!Next]_(Stream!vars) PROVE SInv'
  <2>1. StreamTypes /\ (faults = 0 => Calm)
    BY <1>2 DEF SInv
  <2>2. /\ active \in BOOLEAN /\ steady \in Nat /\ faults \in Nat
        /\ pub \in [Publishers -> PubState] /\ limbo \in [Publishers -> SUBSET BOOLEAN]
        /\ linked \in [Followers -> BOOLEAN] /\ chan \in [Followers -> Seq(BOOLEAN)]
        /\ heard \in [Followers -> Memory]
    BY <2>1 DEF StreamTypes
  <2>3. \A p \in Publishers : pub[p] \in PubState /\ pub[p].for \in Nat /\ Silence(p) \in Nat
    BY <1>0, <2>2 DEF PubState, Silence
  <2>4. ASSUME NEW p \in Publishers, Stream!Sleep(p)
        PROVE  /\ pub' \in [Publishers -> PubState] /\ pub'[p].pc = "sleep" /\ pub'[p].for = 0
               /\ \A q \in Publishers : q # p => pub'[q] = pub[q]
    <3>1. PICK new : new = [[pub[p] EXCEPT !.pc = "sleep"] EXCEPT !.for = 0]
      OBVIOUS
    <3>2. new \in PubState /\ new.pc = "sleep" /\ new.for = 0
      BY <2>3, <3>1, Zenon DEF PubState
    <3>3. pub' = [pub EXCEPT ![p] = new]
      BY <2>4, <3>1, Zenon DEF Stream!Sleep
    <3> QED BY <2>2, <3>2, <3>3
  <2>5. ASSUME NEW v \in BOOLEAN, Stream!Written(v), UNCHANGED linked
        PROVE  /\ chan' \in [Followers -> Seq(BOOLEAN)]
               /\ \A f \in Followers : linked[f] => chan'[f] = Append(chan[f], v)
    <3>1. \A f \in Followers : Append(chan[f], v) \in Seq(BOOLEAN) /\ chan[f] \in Seq(BOOLEAN)
      BY <2>2
    <3> QED BY <2>5, <3>1, Zenon DEF Stream!Written
  <2>6. CASE Stream!Change
    <3>1. active' = ~active /\ steady' = 0 /\ UNCHANGED <<pub, limbo, linked, chan, heard, faults>>
      BY <2>6 DEF Stream!Change
    <3>2. StreamTypes'
      BY <2>2, <3>1, Zenon DEF StreamTypes
    <3>3. ASSUME faults = 0 PROVE Calm'
      <4>1. Working' /\ Repeated'
        BY <2>1, <3>1, <3>3, Zenon DEF Calm, Working, Repeated, Silence
      <4>2. OldNewsEnds'
        BY <1>0, <2>3, <3>1 DEF OldNewsEnds
      <4>3. Told'
        <5>1. \A p \in Publishers : Silence(p)' = Silence(p)
          BY <3>1, Zenon DEF Silence
        <5> QED BY <1>0, <2>3, <3>1, <5>1 DEF Told
      <4> QED BY <4>1, <4>2, <4>3 DEF Calm
    <3> QED BY <3>1, <3>2, <3>3 DEF SInv
  <2>7. ASSUME NEW p \in Publishers, Stream!Read(p) PROVE SInv'
    <3>1. PICK new : new = [pc |-> "send", for |-> 0, val |-> active]
      BY Zenon
    <3>2. pub' = [pub EXCEPT ![p] = new] /\ pub[p].pc = "read"
          /\ UNCHANGED <<active, steady, limbo, linked, chan, heard, faults>>
      BY <2>7, <3>1, Zenon DEF Stream!Read
    <3>3. new \in PubState /\ new.pc = "send" /\ new.for = 0 /\ new.val = active
      BY <2>2, <3>1, Zenon DEF PubState
    <3>4. /\ pub' \in [Publishers -> PubState] /\ pub'[p] = new
          /\ \A q \in Publishers : q # p => pub'[q] = pub[q]
      BY <2>2, <3>2, <3>3, Zenon
    <3>5. StreamTypes'
      BY <2>2, <3>2, <3>4, Zenon DEF StreamTypes
    <3>6. \A q \in Publishers : Silence(q)' = Silence(q)
      BY <1>0, <3>2, <3>3, <3>4 DEF Silence
    <3>7. ASSUME faults = 0 PROVE Calm'
      <4>1. Working'
        BY <1>a, <2>1, <3>2, <3>3, <3>4, <3>7, Zenon DEF Calm, Working
      <4>2. OldNewsEnds'
        BY <2>1, <3>2, <3>3, <3>4, <3>7, Zenon DEF Calm, OldNewsEnds
      <4>3. Repeated'
        BY <2>1, <3>2, <3>6, <3>7, Zenon DEF Calm, Repeated
      <4>4. Told'
        <5>1. ~AllSlow
          BY <3>2, Zenon DEF AllSlow, Stream!Slow
        <5> QED BY <2>1, <3>2, <3>6, <3>7, <5>1, Zenon DEF Calm, Told, Stream!Informed, Stream!Refuses
      <4> QED BY <4>1, <4>2, <4>3, <4>4 DEF Calm
    <3> QED BY <3>2, <3>5, <3>7 DEF SInv
  <2>8. ASSUME NEW p \in Publishers, Stream!Send(p) PROVE SInv'
    <3>1. PICK v \in BOOLEAN : v = pub[p].val
      BY <2>3 DEF PubState
    <3>2. Stream!Written(v) /\ Stream!Sleep(p) /\ pub[p].pc = "send" /\ UNCHANGED <<active, steady, limbo, linked, heard, faults>>
      BY <2>8, <3>1, Zenon DEF Stream!Send
    <3>3. /\ pub' \in [Publishers -> PubState] /\ pub'[p].pc = "sleep" /\ pub'[p].for = 0
          /\ \A q \in Publishers : q # p => pub'[q] = pub[q]
      BY <2>4, <3>2, Zenon
    <3>4. /\ chan' \in [Followers -> Seq(BOOLEAN)]
          /\ \A f \in Followers : linked[f] => chan'[f] = Append(chan[f], v)
      BY <2>5, <3>2, Zenon
    <3>5. StreamTypes'
      BY <2>2, <3>2, <3>3, <3>4, Zenon DEF StreamTypes
    <3>6. ASSUME faults = 0 PROVE Calm'
      <4>1. Working /\ OldNewsEnds /\ Told
        BY <2>1, <3>6 DEF Calm
      <4>2. ASSUME NEW f \in Followers
            PROVE  /\ chan[f] \in Seq(BOOLEAN) /\ chan'[f] = Append(chan[f], v)
                   /\ chan'[f] # <<>> /\ Len(chan'[f]) = Len(chan[f]) + 1 /\ chan'[f][Len(chan'[f])] = v
                   /\ \A i \in 1 .. Len(chan'[f]) : chan'[f][i] = v \/ (i \in 1 .. Len(chan[f]) /\ chan'[f][i] = chan[f][i])
        <5>1. chan[f] \in Seq(BOOLEAN) /\ chan'[f] = Append(chan[f], v)
          BY <2>2, <3>4, <4>1, Zenon DEF Working
        <5>2. PICK c \in Seq(BOOLEAN) : c = chan[f]
          BY <5>1, Zenon
        <5>3. Len(Append(c, v)) = Len(c) + 1 /\ Append(c, v)[Len(c) + 1] = v /\ Len(c) \in Nat
          OBVIOUS
        <5>4. \A i \in 1 .. Len(c) + 1 : Append(c, v)[i] = v \/ (i \in 1 .. Len(c) /\ Append(c, v)[i] = c[i])
          OBVIOUS
        <5>5. Append(c, v) # <<>>
          BY <5>3
        <5> QED BY <5>1, <5>2, <5>3, <5>4, <5>5, Zenon
      <4>3. ~active /\ v => steady <= SendLag
        <5> SUFFICES ASSUME ~active, v PROVE steady <= SendLag
          OBVIOUS
        <5>1. steady <= pub[p].for /\ pub[p].for <= SendLag
          BY <3>1, <3>2, <4>1, Zenon DEF Working, OldNewsEnds
        <5> QED BY <1>0, <2>2, <2>3, <5>1
      <4>4. Working'
        <5>1. ASSUME NEW q \in Publishers
              PROVE  /\ limbo'[q] = {} /\ pub'[q].pc # "gone"
                     /\ pub'[q].pc = "sleep" => pub'[q].for < Interval
                     /\ pub'[q].pc = "send" => pub'[q].for <= SendLag
          <6>1. limbo' = limbo /\ limbo[q] = {} /\ pub[q].pc # "gone"
            BY <3>2, <4>1, Zenon DEF Working
          <6>2. CASE q = p
            BY <1>0, <3>3, <6>1, <6>2
          <6>3. CASE q # p
            <7>1. pub'[q] = pub[q]
              BY <3>3, <6>3, Zenon
            <7> QED BY <4>1, <6>1, <7>1, Zenon DEF Working
          <6> QED BY <6>2, <6>3, Zenon
        <5>2. \A f \in Followers : linked'[f]
          BY <3>2, <4>1, Zenon DEF Working
        <5> QED BY <5>1, <5>2, Zenon DEF Working
      <4>5. OldNewsEnds'
        <5> SUFFICES ASSUME ~active PROVE OldNewsEnds'
          BY <3>2, Zenon DEF OldNewsEnds
        <5>1. \A q \in Publishers : pub'[q].pc = "send" /\ pub'[q].val => steady' <= pub'[q].for
          BY <3>2, <3>3, <4>1, Zenon DEF OldNewsEnds
        <5>2. ASSUME NEW f \in Followers, NEW i \in 1 .. Len(chan'[f]), chan'[f][i] PROVE steady' <= SendLag
          <6>1. CASE chan'[f][i] = v
            BY <3>2, <4>3, <5>2, <6>1, Zenon
          <6>2. CASE i \in 1 .. Len(chan[f]) /\ chan'[f][i] = chan[f][i]
            BY <3>2, <4>1, <5>2, <6>2, Zenon DEF OldNewsEnds
          <6> QED BY <4>2, <6>1, <6>2, Zenon
        <5> QED BY <5>1, <5>2, Zenon DEF OldNewsEnds
      <4>6. Repeated'
        BY <4>2, Zenon DEF Repeated
      <4>7. Told'
        <5> SUFFICES ASSUME ~active, NEW q \in Publishers, NEW f \in Followers, steady > SendLag + Silence(q)'
                     PROVE  Stream!Informed(f)'
          BY <3>2, Zenon DEF Told
        <5>1. Silence(q)' \in Nat
          BY <1>0, <1>a, <3>3, Zenon DEF PubState, Silence
        <5>2. ~v
          BY <1>0, <2>2, <4>3, <5>1
        <5> QED BY <4>2, <5>2, Zenon DEF Stream!Informed
      <4> QED BY <4>4, <4>5, <4>6, <4>7 DEF Calm
    <3> QED BY <3>2, <3>5, <3>6, Zenon DEF SInv
  <2>9. ASSUME NEW p \in Publishers, Stream!RoundFails(p) \/ Stream!Stop(p) PROVE SInv'
    <3>1. faults' = faults + 1 /\ UNCHANGED <<active, steady, linked, chan, heard>>
      BY <2>9 DEF Stream!RoundFails, Stream!Stop, Stream!Fault
    <3>2. pub' \in [Publishers -> PubState]
      <4>1. CASE Stream!RoundFails(p)
        BY <2>4, <4>1, Zenon DEF Stream!RoundFails
      <4>2. CASE Stream!Stop(p)
        <5>1. PICK new : new = [[pub[p] EXCEPT !.pc = "gone"] EXCEPT !.for = 0]
          OBVIOUS
        <5>2. new \in PubState
          BY <2>3, <5>1, Zenon DEF PubState
        <5>3. pub' = [pub EXCEPT ![p] = new]
          BY <4>2, <5>1, Zenon DEF Stream!Stop
        <5> QED BY <2>2, <5>2, <5>3
      <4> QED BY <2>9, <4>1, <4>2
    <3>3. limbo' \in [Publishers -> SUBSET BOOLEAN]
      <4>1. pub[p].val \in BOOLEAN
        BY <2>3 DEF PubState
      <4>2. PICK S \in SUBSET BOOLEAN : limbo' = [limbo EXCEPT ![p] = S] \/ limbo' = limbo
        <5>1. limbo[p] \cup {pub[p].val} \in SUBSET BOOLEAN
          BY <2>2, <4>1
        <5> QED BY <2>9, <5>1 DEF Stream!RoundFails, Stream!Stop
      <4> QED BY <2>2, <4>2
    <3>4. StreamTypes'
      BY <2>2, <3>1, <3>2, <3>3 DEF StreamTypes
    <3> QED BY <2>2, <3>1, <3>4 DEF SInv
  <2>10. ASSUME NEW p \in Publishers, NEW v \in BOOLEAN, Stream!LateWrite(p, v) PROVE SInv'
    <3>1. /\ v \in limbo[p] /\ limbo' = [limbo EXCEPT ![p] = @ \ {v}] /\ Stream!Written(v)
          /\ UNCHANGED <<active, steady, pub, linked, heard, faults>>
      BY <2>10, Zenon DEF Stream!LateWrite
    <3>2. limbo' \in [Publishers -> SUBSET BOOLEAN] /\ chan' \in [Followers -> Seq(BOOLEAN)]
      BY <2>2, <2>5, <3>1, Zenon
    <3>3. faults # 0
      BY <2>1, <3>1, Zenon DEF Calm, Working
    <3>4. StreamTypes'
      BY <2>2, <3>1, <3>2, Zenon DEF StreamTypes
    <3> QED BY <3>1, <3>3, <3>4 DEF SInv
  <2>11. ASSUME NEW f \in Followers, Stream!LoseStream(f) \/ Stream!Reconnect(f) PROVE SInv'
    <3>1. UNCHANGED <<active, steady, pub, limbo, heard>> /\ faults' \in Nat
      BY <2>2, <2>11 DEF Stream!LoseStream, Stream!Reconnect, Stream!Fault
    <3>2. linked' \in [Followers -> BOOLEAN]
      BY <2>2, <2>11, Zenon DEF Stream!LoseStream, Stream!Reconnect
    <3>3. chan' \in [Followers -> Seq(BOOLEAN)]
      <4>1. <<>> \in Seq(BOOLEAN)
        OBVIOUS
      <4>2. chan' = chan \/ chan' = [chan EXCEPT ![f] = <<>>]
        BY <2>11, Zenon DEF Stream!LoseStream, Stream!Reconnect
      <4> QED BY <2>2, <4>1, <4>2, Zenon
    <3>4. faults' # 0
      <4>1. CASE Stream!LoseStream(f)
        BY <2>2, <4>1 DEF Stream!LoseStream, Stream!Fault
      <4>2. CASE Stream!Reconnect(f)
        BY <2>1, <4>2, Zenon DEF Stream!Reconnect, Calm, Working
      <4> QED BY <2>11, <4>1, <4>2
    <3>5. StreamTypes'
      BY <2>2, <3>1, <3>2, <3>3, Zenon DEF StreamTypes
    <3> QED BY <3>4, <3>5 DEF SInv
  <2>12. ASSUME NEW f \in Followers, Stream!Apply(f) PROVE SInv'
    <3>0. ASSUME NEW S, NEW c \in Seq(S), c # <<>>
          PROVE  /\ Len(c) \in Nat \ {0} /\ Head(c) = c[1] /\ Head(c) \in S /\ Tail(c) \in Seq(S)
                 /\ Len(Tail(c)) = Len(c) - 1 /\ \A i \in 1 .. Len(c) - 1 : Tail(c)[i] = c[i + 1]
                 /\ Len(c) = 1 => Tail(c) = <<>>
                 /\ Len(c) # 1 => Tail(c) # <<>>
      <4>1. Len(c) \in Nat \ {0} /\ Head(c) = c[1] /\ Head(c) \in S
        BY <3>0
      <4>2. Tail(c) \in Seq(S) /\ Len(Tail(c)) = Len(c) - 1
        BY <3>0
      <4>3. \A i \in 1 .. Len(c) - 1 : Tail(c)[i] = c[i + 1]
        BY <3>0
      <4>e. \A d \in Seq(S) : d = <<>> <=> Len(d) = 0
        OBVIOUS
      <4>t. PICK d : d = Tail(c) /\ d \in Seq(S) /\ Len(d) = Len(c) - 1
        BY <4>2, Zenon
      <4>n. Len(c) = 1 <=> Len(d) = 0
        BY <4>1, <4>t
      <4>4. Len(c) = 1 => Tail(c) = <<>>
        BY <4>n, <4>t, <4>e, Zenon
      <4>5. Len(c) # 1 => Tail(c) # <<>>
        BY <4>n, <4>t, <4>e, Zenon
      <4> QED BY <4>1, <4>2, <4>3, <4>4, <4>5, Zenon
    <3>1. PICK c : c = chan[f] /\ c \in Seq(BOOLEAN) /\ c # <<>>
      BY <2>2, <2>12, Zenon DEF Stream!Apply
    <3>2. /\ Len(c) \in Nat \ {0} /\ Head(c) = c[1] /\ Head(c) \in BOOLEAN /\ Tail(c) \in Seq(BOOLEAN)
          /\ Len(Tail(c)) = Len(c) - 1 /\ \A i \in 1 .. Len(c) - 1 : Tail(c)[i] = c[i + 1]
          /\ Len(c) = 1 => Tail(c) = <<>>
          /\ Len(c) # 1 => Tail(c) # <<>>
      BY <3>0, <3>1, Zenon
    <3>3. PICK h : h = [known |-> TRUE, active |-> Head(c), age |-> 0]
      BY Zenon
    <3>4. h \in Memory /\ h.known /\ h.active = Head(c) /\ h.age = 0
      BY <3>2, <3>3, Zenon DEF Memory
    <3>5. heard' = [heard EXCEPT ![f] = h] /\ chan' = [chan EXCEPT ![f] = Tail(c)]
          /\ UNCHANGED <<active, steady, pub, limbo, linked, faults>>
      BY <2>12, <3>1, <3>3, Zenon DEF Stream!Apply
    <3>6. /\ heard' \in [Followers -> Memory] /\ chan' \in [Followers -> Seq(BOOLEAN)]
          /\ heard'[f] = h /\ chan'[f] = Tail(c)
          /\ \A g \in Followers : g # f => heard'[g] = heard[g] /\ chan'[g] = chan[g]
      BY <2>2, <3>2, <3>4, <3>5, Zenon
    <3>7. StreamTypes'
      BY <2>2, <3>5, <3>6, Zenon DEF StreamTypes
    <3>8. \A p \in Publishers : Silence(p)' = Silence(p)
      BY <3>5, Zenon DEF Silence
    <3>9. ASSUME faults = 0 PROVE Calm'
      <4>1. Working /\ OldNewsEnds /\ Repeated /\ Told
        BY <2>1, <3>9 DEF Calm
      <4>2. Working'
        BY <3>5, <4>1, Zenon DEF Working
      <4>3. OldNewsEnds'
        <5> SUFFICES ASSUME ~active PROVE OldNewsEnds'
          BY <3>5, Zenon DEF OldNewsEnds
        <5>1. \A p \in Publishers : pub'[p].pc = "send" /\ pub'[p].val => steady' <= pub'[p].for
          BY <3>5, <4>1, Zenon DEF OldNewsEnds
        <5>2. ASSUME NEW g \in Followers, NEW i \in 1 .. Len(chan'[g]), chan'[g][i] PROVE steady' <= SendLag
          <6>1. CASE g = f
            <7>1. Len(Tail(c)) = Len(c) - 1 /\ Len(c) \in Nat
              BY <3>2, Zenon
            <7>2. i \in 1 .. Len(Tail(c))
              BY <3>6, <6>1, Zenon
            <7>3. i \in 1 .. Len(c) - 1 /\ i + 1 \in 1 .. Len(c)
              BY <7>1, <7>2
            <7>4. Tail(c)[i] = c[i + 1]
              BY <3>2, <7>3, Zenon
            <7>5. chan[f][i + 1]
              BY <3>1, <3>6, <5>2, <6>1, <7>4, Zenon
            <7>6. i + 1 \in 1 .. Len(chan[f])
              BY <3>1, <7>3, Zenon
            <7> QED BY <3>5, <4>1, <7>5, <7>6, Zenon DEF OldNewsEnds
          <6>2. CASE g # f
            BY <3>5, <3>6, <4>1, <5>2, <6>2, Zenon DEF OldNewsEnds
          <6> QED BY <6>1, <6>2
        <5> QED BY <5>1, <5>2, Zenon DEF OldNewsEnds
      <4>4. Repeated'
        <5>1. ASSUME NEW p \in Publishers, NEW g \in Followers, chan'[g] = <<>>, heard'[g].known
              PROVE  heard'[g].age <= Silence(p)'
          <6>0. Silence(p)' = Silence(p) /\ Silence(p) \in Nat
            BY <2>3, <3>8, Zenon
          <6>1. CASE g = f
            <7>1. heard'[g].age = 0
              BY <3>4, <3>6, <6>1, Zenon
            <7> QED BY <6>0, <7>1
          <6>2. CASE g # f
            <7>1. heard'[g] = heard[g] /\ chan'[g] = chan[g]
              BY <3>6, <6>2, Zenon
            <7>2. heard[g].age <= Silence(p)
              BY <4>1, <5>1, <7>1, Zenon DEF Repeated
            <7> QED BY <6>0, <7>1, <7>2, Zenon
          <6> QED BY <6>1, <6>2, Zenon
        <5> QED BY <5>1, Zenon DEF Repeated
      <4>5. Told'
        <5> SUFFICES ASSUME ~active, NEW p \in Publishers, NEW g \in Followers, steady > SendLag + Silence(p), ~AllSlow
                     PROVE  Stream!Informed(g)'
          BY <3>5, <3>8, Zenon DEF Told, AllSlow, Stream!Slow
        <5>1. Stream!Informed(g)
          BY <4>1, Zenon DEF Told
        <5>2. CASE g # f
          BY <3>6, <5>1, <5>2, Zenon DEF Stream!Informed, Stream!Refuses
        <5>3. CASE g = f
          <6>1. ~c[Len(c)]
            <7>1. ~chan[f][Len(chan[f])]
              BY <3>1, <5>1, <5>3, Zenon DEF Stream!Informed
            <7> QED BY <3>1, <7>1, Zenon
          <6>2. CASE Len(c) = 1
            <7>0. Head(c) = c[1]
              BY <3>2, Zenon
            <7>1. ~Head(c)
              BY <6>1, <6>2, <7>0, Zenon
            <7>2. chan'[f] = <<>>
              BY <3>2, <3>6, <6>2, Zenon
            <7> QED BY <3>4, <3>6, <5>3, <7>1, <7>2, Zenon DEF Stream!Informed, Stream!Refuses
          <6>3. CASE Len(c) # 1
            <7>0. Len(Tail(c)) = Len(c) - 1 /\ Len(c) \in Nat \ {0}
              BY <3>2, Zenon
            <7>1. Len(Tail(c)) = Len(c) - 1 /\ Len(c) - 1 \in 1 .. Len(c) - 1 /\ (Len(c) - 1) + 1 = Len(c)
              BY <6>3, <7>0
            <7>2. Tail(c)[Len(c) - 1] = c[Len(c)]
              BY <3>2, <7>1, Zenon
            <7>3. chan'[f] # <<>>
              BY <3>2, <3>6, <6>3, Zenon
            <7> QED BY <3>6, <5>3, <6>1, <7>1, <7>2, <7>3, Zenon DEF Stream!Informed
          <6> QED BY <6>2, <6>3
        <5> QED BY <5>2, <5>3, Zenon
      <4> QED BY <4>2, <4>3, <4>4, <4>5, Zenon DEF Calm
    <3> QED BY <3>5, <3>7, <3>9, Zenon DEF SInv
  <2>13. CASE Stream!Tick
    <3>1. /\ \A p \in Publishers : pub[p].pc # "read" /\ (pub[p].pc = "send" => pub[p].for < SendLag)
          /\ \A f \in Followers : chan[f] = <<>>
          /\ steady' = (IF steady < Stream!Horizon THEN steady + 1 ELSE steady)
          /\ UNCHANGED <<active, limbo, linked, chan, faults>>
      BY <2>13, Zenon DEF Stream!Tick
    <3>2. ASSUME NEW p \in Publishers
          PROVE  /\ pub'[p] \in PubState /\ pub'[p].val = pub[p].val
                 /\ pub[p].pc = "gone" => pub'[p].pc = "gone" /\ pub'[p].for = pub[p].for
                 /\ pub[p].pc = "sleep" /\ pub[p].for + 1 = Interval => pub'[p].pc = "read" /\ pub'[p].for = 0
                 /\ pub[p].pc # "gone" /\ ~(pub[p].pc = "sleep" /\ pub[p].for + 1 = Interval) =>
                       pub'[p].pc = pub[p].pc /\ pub'[p].for = pub[p].for + 1
      <4>0. pub[p] \in PubState
        BY <2>3, Zenon
      <4>1. CASE pub[p].pc = "gone"
        <5>1. pub'[p] = pub[p]
          BY <2>13, <4>1, Zenon DEF Stream!Tick
        <5> QED BY <4>0, <4>1, <5>1, Zenon
      <4>2. CASE pub[p].pc = "sleep" /\ pub[p].for + 1 = Interval
        <5>1. PICK new : new = [[pub[p] EXCEPT !.pc = "read"] EXCEPT !.for = 0]
          OBVIOUS
        <5>2. new \in PubState /\ new.pc = "read" /\ new.for = 0
          BY <4>0, <5>1, Zenon DEF PubState
        <5>3. new.val = pub[p].val
          BY <4>0, <5>1, Zenon DEF PubState
        <5>4. pub'[p] = new
          BY <2>13, <4>2, <5>1, Zenon DEF Stream!Tick
        <5> QED BY <4>2, <5>2, <5>3, <5>4, Zenon
      <4>3. CASE pub[p].pc # "gone" /\ ~(pub[p].pc = "sleep" /\ pub[p].for + 1 = Interval)
        <5>1. pub'[p] = [pub[p] EXCEPT !.for = @ + 1]
          BY <2>13, <4>3, Zenon DEF Stream!Tick
        <5> QED BY <4>0, <4>3, <5>1 DEF PubState
      <4> QED BY <4>1, <4>2, <4>3, Zenon
    <3>3. pub' \in [Publishers -> PubState]
      <4>1. pub' = [p \in Publishers |-> pub'[p]]
        BY <2>13, Zenon DEF Stream!Tick
      <4> QED BY <3>2, <4>1, Zenon
    <3>4. ASSUME NEW f \in Followers
          PROVE  /\ heard'[f] \in Memory
                 /\ heard[f].known /\ heard[f].age < Stale =>
                       heard'[f].known /\ heard'[f].active = heard[f].active /\ heard'[f].age = heard[f].age + 1
                 /\ ~(heard[f].known /\ heard[f].age < Stale) => ~heard'[f].known
      <4>0. heard[f] \in Memory /\ heard'[f] = Stream!Aged(heard[f])
        BY <2>2, <2>13, Zenon DEF Stream!Tick
      <4>1. CASE ~heard[f].known
        <5>1. heard'[f] = heard[f]
          BY <4>0, <4>1 DEF Stream!Aged
        <5> QED BY <4>0, <4>1, <5>1, Zenon
      <4>2. CASE heard[f].known /\ heard[f].age < Stale
        <5>1. heard'[f] = [heard[f] EXCEPT !.age = @ + 1]
          BY <4>0, <4>2 DEF Stream!Aged
        <5> QED BY <4>0, <4>2, <5>1 DEF Memory
      <4>3. CASE heard[f].known /\ ~(heard[f].age < Stale)
        <5>1. heard'[f] = Stream!Nothing
          BY <4>0, <4>3 DEF Stream!Aged
        <5> QED BY <4>3, <5>1 DEF Stream!Nothing, Memory
      <4> QED BY <4>1, <4>2, <4>3, Zenon
    <3>5. heard' \in [Followers -> Memory]
      <4>1. heard' = [f \in Followers |-> heard'[f]]
        BY <2>13, Zenon DEF Stream!Tick
      <4> QED BY <3>4, <4>1, Zenon
    <3>6. steady' \in Nat /\ steady' <= steady + 1
      BY <1>0, <2>2, <3>1
    <3>7. StreamTypes'
      BY <2>2, <3>1, <3>3, <3>5, <3>6, Zenon DEF StreamTypes
    <3>8. ASSUME faults = 0 PROVE Calm'
      <4>1. Working /\ OldNewsEnds /\ Repeated /\ Told
        BY <2>1, <3>8 DEF Calm
      <4>2. ASSUME NEW p \in Publishers
            PROVE  Silence(p)' = Silence(p) + 1 /\ Silence(p) + 1 <= Interval + SendLag
        <5>1. /\ pub[p].pc = "sleep" => pub[p].for < Interval
              /\ pub[p].pc = "send" => pub[p].for < SendLag
              /\ pub[p].pc \in {"send", "sleep"}
          BY <2>3, <3>1, <4>1, Zenon DEF Working, PubState
        <5>2. CASE pub[p].pc = "send"
          <6>1. pub'[p].pc = "send" /\ pub'[p].for = pub[p].for + 1 /\ pub[p].for < SendLag
            BY <3>2, <5>1, <5>2, Zenon
          <6> QED BY <1>0, <2>3, <5>2, <6>1 DEF Silence
        <5>3. CASE pub[p].pc = "sleep" /\ pub[p].for + 1 = Interval
          <6>1. pub'[p].pc = "read"
            BY <3>2, <5>3, Zenon
          <6>2. Silence(p)' = Interval
            BY <6>1, Zenon DEF Silence
          <6>3. Silence(p) = pub[p].for
            BY <5>3, Zenon DEF Silence
          <6> QED BY <1>0, <2>3, <5>3, <6>2, <6>3
        <5>4. CASE pub[p].pc = "sleep" /\ pub[p].for + 1 # Interval
          <6>1. pub'[p].pc = "sleep" /\ pub'[p].for = pub[p].for + 1 /\ pub[p].for < Interval
            BY <3>2, <5>1, <5>4, Zenon
          <6>2. Silence(p)' = pub'[p].for
            BY <6>1, Zenon DEF Silence
          <6>3. Silence(p) = pub[p].for
            BY <5>4, Zenon DEF Silence
          <6> QED BY <1>0, <2>3, <6>1, <6>2, <6>3
        <5> QED BY <5>1, <5>2, <5>3, <5>4, Zenon
      <4>3. Working'
        <5>1. ASSUME NEW p \in Publishers
              PROVE  /\ limbo'[p] = {} /\ pub'[p].pc # "gone"
                     /\ pub'[p].pc = "sleep" => pub'[p].for < Interval
                     /\ pub'[p].pc = "send" => pub'[p].for <= SendLag
          <6>1. limbo[p] = {} /\ pub[p].pc # "gone" /\ (pub[p].pc = "sleep" => pub[p].for < Interval)
                /\ (pub[p].pc = "send" => pub[p].for < SendLag)
            BY <3>1, <4>1, Zenon DEF Working
          <6>2. limbo'[p] = {} /\ pub'[p].pc # "gone"
            BY <3>1, <3>2, <6>1, Zenon
          <6> PICK k : k = pub[p].for
            OBVIOUS
          <6>0. k \in Nat
            BY <2>3, Zenon
          <6>3. pub'[p].pc = "sleep" => pub'[p].for < Interval
            <7>1. pub'[p].pc = "sleep" => pub[p].pc = "sleep" /\ k + 1 # Interval /\ pub'[p].for = k + 1
              BY <3>2, Zenon
            <7> QED BY <1>a, <6>0, <6>1, <7>1, Zenon
          <6>4. pub'[p].pc = "send" => pub'[p].for <= SendLag
            <7>1. pub'[p].pc = "send" => pub[p].pc = "send" /\ pub'[p].for = k + 1
              BY <3>2, Zenon
            <7> QED BY <1>a, <6>0, <6>1, <7>1, Zenon
          <6> QED BY <6>2, <6>3, <6>4, Zenon
        <5>2. \A f \in Followers : linked'[f]
          BY <3>1, <4>1, Zenon DEF Working
        <5> QED BY <5>1, <5>2, Zenon DEF Working
      <4>4. OldNewsEnds'
        <5> SUFFICES ASSUME ~active PROVE OldNewsEnds'
          BY <3>1, Zenon DEF OldNewsEnds
        <5>1. ASSUME NEW p \in Publishers, pub'[p].pc = "send", pub'[p].val PROVE steady' <= pub'[p].for
          <6>1. pub[p].pc = "send" /\ pub[p].val /\ pub'[p].for = pub[p].for + 1
            BY <3>2, <5>1, Zenon
          <6>2. steady <= pub[p].for
            BY <4>1, <6>1, Zenon DEF OldNewsEnds
          <6> QED BY <2>2, <2>3, <3>6, <6>1, <6>2
        <5>2. \A f \in Followers : Len(chan'[f]) = 0
          BY <3>1
        <5> QED BY <5>1, <5>2 DEF OldNewsEnds
      <4>5. \A f \in Followers : heard[f].age \in Nat
        BY <2>2, Zenon DEF Memory
      \* What a follower forgets, every publisher has been silent about for as long.
      <4>6. ASSUME NEW f \in Followers, Stream!Refuses(f) PROVE Stream!Refuses(f)' \/ AllSlow'
        <5>1. CASE heard[f].age < Stale
          BY <3>4, <4>6, <5>1, Zenon DEF Stream!Refuses
        <5>2. CASE ~(heard[f].age < Stale)
          <6>1. ASSUME NEW q \in Publishers PROVE Stream!Slow(q)'
            <7>1. heard[f].age <= Silence(q) /\ Silence(q) \in Nat
              BY <2>3, <3>1, <4>1, <4>6, Zenon DEF Repeated, Stream!Refuses
            <7>2. Silence(q)' > Stale /\ ~(Silence(q)' < Interval) /\ Silence(q)' # Interval
              BY <1>a, <4>2, <4>5, <5>2, <7>1, Zenon
            <7>3. pub'[q].pc \in {"read", "send", "sleep"} /\ (pub'[q].pc = "sleep" => pub'[q].for < Interval)
              BY <3>2, <4>3, Zenon DEF Working, PubState
            <7> QED BY <7>2, <7>3, Zenon DEF Silence, Stream!Slow
          <6> QED BY <6>1, Zenon DEF AllSlow
        <5> QED BY <5>1, <5>2
      <4>9. ASSUME AllSlow PROVE AllSlow'
        <5>1. ASSUME NEW q \in Publishers PROVE Stream!Slow(q)'
          <6>1. pub[q].pc = "send" /\ Interval + pub[q].for > Stale /\ pub[q].for \in Nat
            BY <2>3, <4>9, Zenon DEF AllSlow, Stream!Slow
          <6>2. pub'[q].pc = "send" /\ pub'[q].for = pub[q].for + 1
            BY <3>2, <6>1, Zenon
          <6> QED BY <1>a, <6>1, <6>2, Zenon DEF Stream!Slow
        <5> QED BY <5>1, Zenon DEF AllSlow
      <4>7. Repeated'
        <5> SUFFICES ASSUME NEW p \in Publishers, NEW f \in Followers, heard'[f].known
                     PROVE  heard'[f].age <= Silence(p)'
          BY Zenon DEF Repeated
        <5>1. heard[f].known /\ heard'[f].age = heard[f].age + 1
          BY <3>4, Zenon
        <5>2. heard[f].age <= Silence(p) /\ heard[f].age \in Nat
          BY <3>1, <4>1, <4>5, <5>1, Zenon DEF Repeated
        <5> QED BY <1>a, <2>3, <4>2, <5>1, <5>2, Zenon
      <4>8. Told'
        <5> SUFFICES ASSUME ~active, NEW p \in Publishers, NEW f \in Followers, steady' > SendLag + Silence(p)'
                     PROVE  Stream!Refuses(f)' \/ AllSlow'
          BY <3>1, Zenon DEF Told, Stream!Informed
        <5>0. steady \in Nat
          BY <2>2, Zenon
        <5>1. steady > SendLag + Silence(p)
          BY <1>a, <2>3, <3>6, <4>2, <5>0, Zenon
        <5>2. Stream!Informed(f) \/ AllSlow
          BY <4>1, <5>1, Zenon DEF Told
        <5> QED BY <3>1, <4>6, <4>9, <5>2, Zenon DEF Stream!Informed
      <4> QED BY <4>3, <4>4, <4>7, <4>8 DEF Calm
    <3> QED BY <3>1, <3>7, <3>8, Zenon DEF SInv
  <2>14. CASE UNCHANGED Stream!vars
    <3>1. UNCHANGED <<active, steady, pub, limbo, linked, chan, heard, faults>>
      BY <2>14, Zenon DEF Stream!vars
    <3>2. StreamTypes'
      BY <2>2, <3>1, Zenon DEF StreamTypes
    <3>3. ASSUME Calm PROVE Calm'
      <4>1. Working' /\ OldNewsEnds'
        BY <3>1, <3>3, Zenon DEF Calm, Working, OldNewsEnds
      <4>2. Repeated' /\ Told'
        BY <3>1, <3>3, Zenon DEF Calm, Repeated, Told, AllSlow, Silence, Stream!Slow, Stream!Informed, Stream!Refuses
      <4> QED BY <4>1, <4>2, Zenon DEF Calm
    <3> QED BY <2>1, <3>1, <3>2, <3>3, Zenon DEF SInv
  <2> QED BY <1>2, <2>6, <2>7, <2>8, <2>9, <2>10, <2>11, <2>12, <2>13, <2>14 DEF Stream!Next
<1>3. SInv => Stream!ReachesIngestion
  <2> SUFFICES ASSUME SInv, faults = 0, ~active, steady > Interval + 2 * SendLag
               PROVE  (\A f \in Followers : Stream!Informed(f)) \/ AllSlow
    BY Zenon DEF Stream!ReachesIngestion, AllSlow
  <2>1. StreamTypes /\ Working /\ Told
    BY DEF SInv, Calm
  <2>2. PICK p \in Publishers : TRUE
    BY <1>0, Zenon
  <2>3. pub[p] \in PubState /\ pub[p].pc # "gone" /\ steady \in Nat
        /\ (pub[p].pc = "sleep" => pub[p].for < Interval) /\ (pub[p].pc = "send" => pub[p].for <= SendLag)
    BY <2>1, Zenon DEF StreamTypes, Working
  <2>4. Silence(p) \in Nat /\ Silence(p) <= Interval + SendLag
    BY <1>0, <2>3 DEF Silence, PubState
  <2>5. steady > SendLag + Silence(p)
    BY <1>a, <2>3, <2>4, Zenon
  <2> QED BY <2>1, <2>5, Zenon DEF Told
<1> QED BY <1>1, <1>2, <1>3, PTL DEF Stream!Spec
=============================================================================
