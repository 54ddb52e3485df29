-------------------------- MODULE TenantLifecycle ---------------------------
(***************************************************************************)
(* Suspending, reactivating and asking to delete one tenant: the gateway's *)
(* company routes (services/api_gateway/routers/companies.py), the database *)
(* functions they call, and the check every authenticated request makes    *)
(* (company_status.py): the suspension marker in the shared store, then a  *)
(* cached copy of the registry's flag.  The SQL proxy's enrolment of the   *)
(* tenant's login (13-notebook-sql-proxy-role.sh) writes the login too.    *)
(*                                                                         *)
(* A route runs its database function in one READ COMMITTED transaction    *)
(* and the rest after the commit.  update_company tests for a deletion     *)
(* request in a statement of its own, before its UPDATE takes the row's    *)
(* lock, so the two are separate steps; now() is the transaction's start   *)
(* in both.  Enrolment reads the flag and writes the login in statements   *)
(* of their own too.  The users' sessions, which a suspension ends last,   *)
(* belong to Sessions.                                                     *)
(***************************************************************************)
EXTENDS Naturals, FiniteSets

CONSTANTS
    Requests,   \* company requests the gateway may be serving at once
    Gateways,   \* processes whose caches are followed; there may be others
    Null,
    Wait,       \* company_deletion_wait(), in ticks
    CacheTTL,   \* COMPANY_STATUS_CACHE_SECONDS, in ticks
    MaxOpen,    \* bound: ticks a request's transaction stays open
    MaxFaults   \* bound: requests that die part way

ASSUME ConstAssumption ==
    /\ Wait \in Nat \ {0}
    /\ CacheTTL \in Nat \ {0}
    /\ MaxOpen \in Nat
    /\ MaxFaults \in Nat
    /\ Null \notin Nat

VARIABLES
    active,     \* companies.is_active
    since,      \* ticks since companies.suspended_at, or Null
    deletion,   \* whether company_deletions has the tenant
    login,      \* whether the tenant's SQL login can log in
    sqlOpen,    \* whether the tenant has an open SQL session
    marker,     \* the suspension marker in the shared store
    cache,      \* each process's cached flag and the ticks it has left
    check,      \* each process's registry read in flight
    req,        \* each company request, with the ticks its transaction has been open
    enrol,      \* the proxy's enrolment of the login
    quiet,      \* history: ticks since the tenant was last active
    took,       \* history: ticks the transaction that set suspended_at had been open
    swept,      \* history: the last suspension has ended the SQL sessions
    straddled,  \* history: it came between an enrolment's read and its write
    torn,       \* history: a request died between its commit and its end
    overlap,    \* history: two requests were in flight at once
    faults

company == <<active, since, deletion, login>>
sql == <<sqlOpen, enrol>>
histories == <<quiet, took, swept, straddled, torn, overlap>>
vars == <<company, sql, marker, cache, check, req, histories, faults>>

Ops == {"deactivate", "reactivate", "rename", "delete"}
NoEntry == [val |-> FALSE, ttl |-> 0]
Resting == [pc |-> "idle", val |-> FALSE, ttl |-> 0]
Idle == [pc |-> "idle", op |-> "rename", open |-> 0]
InTransaction == {"check", "update", "delete"}

\* Ticks are counted as far as some guard or property can tell them apart.
Horizon == MaxOpen + (IF Wait < CacheTTL THEN CacheTTL ELSE Wait)
Later(t) == IF t < Horizon THEN t + 1 ELSE t
Sooner(t) == IF t = 0 THEN 0 ELSE t - 1

\* provision_company: active or not as asked, never suspended yet.
Init ==
    /\ active \in BOOLEAN
    /\ since = Null
    /\ deletion = FALSE
    /\ login = active
    /\ sqlOpen = FALSE
    /\ marker = FALSE
    /\ cache = [g \in Gateways |-> NoEntry]
    /\ check = [g \in Gateways |-> Resting]
    /\ req = [q \in Requests |-> Idle]
    /\ enrol = "idle"
    /\ quiet = 0
    /\ took = 0
    /\ swept = FALSE
    /\ straddled = FALSE
    /\ torn = FALSE
    /\ overlap = FALSE
    /\ faults = 0
-----------------------------------------------------------------------------
(* The company routes. *)

\* A request arrives.  The delete route is a deactivation.
Submit(q, op) ==
    /\ req[q].pc = "idle"
    /\ req' = [req EXCEPT ![q] = [
           pc |-> IF op = "delete" THEN "delete" ELSE "check",
           op |-> op, open |-> 0]]
    /\ overlap' = (overlap \/ \E p \in Requests : req[p].pc # "idle")
    /\ UNCHANGED <<company, sql, marker, cache, check, quiet, took, swept, straddled, torn, faults>>

\* update_company's first statement: no change once a deletion is requested.
CheckDeletion(q) ==
    /\ req[q].pc = "check"
    /\ req' = [req EXCEPT ![q] = IF deletion THEN Idle ELSE [@ EXCEPT !.pc = "update"]]
    /\ UNCHANGED <<company, sql, marker, cache, check, histories, faults>>

\* company_status.forget in g, the process that serves the request, which may
\* be one whose cache is not followed (Null).
Forget(g) == cache' = [h \in Gateways |-> IF h = g THEN NoEntry ELSE cache[h]]

\* Where the route goes after the commit: _suspended, _reactivated or home.
AfterUpdate(q) ==
    req' = [req EXCEPT ![q] =
        CASE @.op = "deactivate" -> [@ EXCEPT !.pc = "end_sql", !.open = 0]
          [] @.op = "reactivate" -> [@ EXCEPT !.pc = "clear", !.open = 0]
          [] OTHER -> Idle]

\* Whether a deactivation finds no suspended_at, and so sets it.
FirstSuspension(q) == req[q].op = "deactivate" /\ since = Null

\* The histories of an UPDATE: an inactive spell ends, the SQL sessions of a
\* suspension are still to be ended, an enrolment in hand knows another flag.
Noted(q) ==
    /\ quiet' = IF active' THEN 0 ELSE quiet
    /\ took' = IF FirstSuspension(q) THEN req[q].open ELSE took
    /\ swept' = (swept /\ req[q].op = "rename")
    /\ straddled' = IF req[q].op = "rename" THEN straddled ELSE enrol = "on"

UpdateRow_KeepsSince(q) ==
    /\ req[q].pc = "update"
    /\ active' = IF req[q].op = "rename" THEN active ELSE req[q].op = "reactivate"
    /\ since' = IF FirstSuspension(q) THEN req[q].open ELSE since
    /\ login' = IF req[q].op = "rename" THEN login ELSE active'
    /\ Noted(q)
    /\ AfterUpdate(q)
    /\ UNCHANGED <<deletion, sql, marker, cache, check, torn, overlap, faults>>

\* update_company's UPDATE and the SQL login it switches, then the commit.
\* Suspending again keeps the first suspended_at, which is now(), the start
\* of the transaction that set it; reactivating clears it.
UpdateRow(q) ==
    /\ req[q].pc = "update"
    /\ active' = IF req[q].op = "rename" THEN active ELSE req[q].op = "reactivate"
    /\ since' = CASE active' -> Null
                  [] ~active' /\ FirstSuspension(q) -> req[q].open
                  [] OTHER -> since
    /\ login' = IF req[q].op = "rename" THEN login ELSE active'
    /\ Noted(q)
    /\ AfterUpdate(q)
    /\ UNCHANGED <<deletion, sql, marker, cache, check, torn, overlap, faults>>

\* _suspended: end_suspended_tenant_sql_sessions, which acts only on a tenant
\* that is inactive and whose login is off, then forget the cached flag.
EndSql(q, g) ==
    /\ req[q].pc = "end_sql"
    /\ sqlOpen' = (sqlOpen /\ (active \/ login))
    /\ swept' = (swept \/ (~active /\ ~login))
    /\ Forget(g)
    /\ req' = [req EXCEPT ![q].pc = "mark"]
    /\ UNCHANGED <<company, marker, check, enrol, quiet, took, straddled, torn, overlap, faults>>

\* mark_suspended: every other process refuses the tenant from here on.
Mark(q) ==
    /\ req[q].pc = "mark"
    /\ marker' = TRUE
    /\ torn' = FALSE
    /\ req' = [req EXCEPT ![q] = Idle]
    /\ UNCHANGED <<company, sql, cache, check, quiet, took, swept, straddled, overlap, faults>>

ClearMarker_Skipped(q, g) ==
    /\ req[q].pc = "clear"
    /\ Forget(g)
    /\ torn' = FALSE
    /\ req' = [req EXCEPT ![q] = Idle]
    /\ UNCHANGED <<company, sql, marker, check, quiet, took, swept, straddled, overlap, faults>>

\* _reactivated: forget the cached flag and remove the marker.
ClearMarker(q, g) ==
    /\ req[q].pc = "clear"
    /\ Forget(g)
    /\ marker' = FALSE
    /\ torn' = FALSE
    /\ req' = [req EXCEPT ![q] = Idle]
    /\ UNCHANGED <<company, sql, check, quiet, took, swept, straddled, overlap, faults>>

\* request_company_deletion, under the row's lock throughout; its now() is the
\* start of its own transaction.
RequestDeletion(q) ==
    /\ req[q].pc = "delete"
    /\ deletion' = (deletion \/ (~active /\ since # Null /\ since >= Wait + req[q].open))
    /\ req' = [req EXCEPT ![q] = Idle]
    /\ UNCHANGED <<active, since, login, sql, marker, cache, check, histories, faults>>

\* The process dies, or a store fails: an open transaction rolls back, and
\* what would have followed the commit is not done.
Fail(q) ==
    /\ req[q].pc # "idle"
    /\ faults < MaxFaults
    /\ faults' = faults + 1
    /\ torn' = (torn \/ req[q].pc \in {"end_sql", "mark", "clear"})
    /\ req' = [req EXCEPT ![q] = Idle]
    /\ UNCHANGED <<company, sql, marker, cache, check, quiet, took, swept, straddled, overlap>>
-----------------------------------------------------------------------------
(* Everything else that happens to the tenant. *)

\* The proxy opens an SQL session for a notebook.
SqlConnect ==
    /\ login
    /\ ~sqlOpen
    /\ sqlOpen' = TRUE
    /\ UNCHANGED <<company, enrol, marker, cache, check, req, histories, faults>>

\* notebook_sql_proxy_enrol: a suspended tenant is not enrolled.
EnrolCheck ==
    /\ enrol = "idle"
    /\ active
    /\ enrol' = "ensure"
    /\ UNCHANGED <<company, sqlOpen, marker, cache, check, req, histories, faults>>

EnrolRead_Trusting ==
    /\ enrol = "ensure"
    /\ enrol' = "on"
    /\ UNCHANGED <<company, sqlOpen, marker, cache, check, req, histories, faults>>

\* ensure_tenant_sql_login asks again, and keeps the answer ...
EnrolRead ==
    /\ enrol = "ensure"
    /\ enrol' = IF active THEN "on" ELSE "off"
    /\ UNCHANGED <<company, sqlOpen, marker, cache, check, req, histories, faults>>

\* ... and alters the role by it.
EnrolAlter ==
    /\ enrol \in {"on", "off"}
    /\ login' = (enrol = "on")
    /\ enrol' = "idle"
    /\ UNCHANGED <<active, since, deletion, sqlOpen, marker, cache, check, req, histories, faults>>

\* is_company_active past the marker and the cache.  The marker does not
\* stop the read when the shared store cannot be read, which may be any time;
\* the entry's life is counted from here, before the registry answers.
StartCheck(g) ==
    /\ check[g].pc = "idle"
    /\ cache[g].ttl = 0
    /\ check' = [check EXCEPT ![g] = [pc |-> "read", val |-> FALSE, ttl |-> CacheTTL]]
    /\ UNCHANGED <<company, sql, marker, cache, req, histories, faults>>

\* _read_is_active
ReadRegistry(g) ==
    /\ check[g].pc = "read"
    /\ check' = [check EXCEPT ![g].pc = "store", ![g].val = active]
    /\ UNCHANGED <<company, sql, marker, cache, req, histories, faults>>

StoreCache_FromAnswer(g) ==
    /\ check[g].pc = "store"
    /\ cache' = [cache EXCEPT ![g] = [val |-> check[g].val, ttl |-> CacheTTL]]
    /\ check' = [check EXCEPT ![g] = Resting]
    /\ UNCHANGED <<company, sql, marker, req, histories, faults>>

\* The answer is cached with what is left of its life.
StoreCache(g) ==
    /\ check[g].pc = "store"
    /\ cache' = [cache EXCEPT ![g] = [val |-> check[g].val, ttl |-> check[g].ttl]]
    /\ check' = [check EXCEPT ![g] = Resting]
    /\ UNCHANGED <<company, sql, marker, req, histories, faults>>

Tick ==
    /\ \A q \in Requests : req[q].pc \in InTransaction => req[q].open < MaxOpen
    /\ req' = [q \in Requests |->
          IF req[q].pc \in InTransaction THEN [req[q] EXCEPT !.open = @ + 1] ELSE req[q]]
    /\ since' = IF since = Null THEN Null ELSE Later(since)
    /\ quiet' = IF active THEN 0 ELSE Later(quiet)
    /\ cache' = [g \in Gateways |-> [cache[g] EXCEPT !.ttl = Sooner(@)]]
    /\ check' = [g \in Gateways |-> [check[g] EXCEPT !.ttl = Sooner(@)]]
    /\ UNCHANGED <<active, deletion, login, sql, marker, took, swept, straddled, torn, overlap, faults>>

Next ==
    \/ \E q \in Requests :
          \/ \E op \in Ops : Submit(q, op)
          \/ CheckDeletion(q)
          \/ UpdateRow(q)
          \/ \E g \in Gateways \cup {Null} : EndSql(q, g) \/ ClearMarker(q, g)
          \/ Mark(q)
          \/ RequestDeletion(q)
          \/ Fail(q)
    \/ SqlConnect
    \/ EnrolCheck \/ EnrolRead \/ EnrolAlter
    \/ \E g \in Gateways : StartCheck(g) \/ ReadRegistry(g) \/ StoreCache(g)
    \/ Tick

Spec == Init /\ [][Next]_vars
-----------------------------------------------------------------------------
Ticks == 0 .. Horizon

\* The state's types, and the row's: an active company has no suspended_at
\* (update_company clears it), so a wait can never be counted from an older
\* suspension.
TypeOK ==
    /\ active \in BOOLEAN
    /\ since \in Ticks \cup {Null}
    /\ active => since = Null
    /\ deletion \in BOOLEAN
    /\ login \in BOOLEAN
    /\ sqlOpen \in BOOLEAN
    /\ marker \in BOOLEAN
    /\ cache \in [Gateways -> [val : BOOLEAN, ttl : 0 .. CacheTTL]]
    /\ check \in [Gateways -> [pc : {"idle", "read", "store"}, val : BOOLEAN,
                               ttl : 0 .. CacheTTL]]
    /\ req \in [Requests ->
          [pc : {"idle", "check", "update", "end_sql", "mark", "clear", "delete"},
           op : Ops, open : 0 .. MaxOpen]]
    /\ enrol \in {"idle", "ensure", "on", "off"}
    /\ quiet \in Ticks
    /\ took \in 0 .. MaxOpen
    /\ swept \in BOOLEAN
    /\ straddled \in BOOLEAN
    /\ torn \in BOOLEAN
    /\ overlap \in BOOLEAN
    /\ faults \in 0 .. MaxFaults

\* Once a suspension has ended the tenant's SQL sessions none is open before a
\* reactivation: the login is switched off in the transaction that suspends,
\* before the sessions are ended (_suspended), and an enrolment asks for the
\* flag again before it switches the login on.  The exception is a suspension
\* between that read and that write; suspending again ends it ("repeating the
\* request completes a run that failed part way").
SqlShutOut == swept /\ ~straddled => ~sqlOpen

\* The same without the exception: a suspended tenant's login "stays NOLOGIN
\* until it is reactivated" (notebook_sql_proxy_enrol).
LoginStaysOff == swept => ~sqlOpen

\* A process never lets the tenant in on a cached flag for longer than the
\* cache's life after the suspension, with the marker unreadable and the
\* registry's answer however late (company_status.py dates an entry from
\* before its read).
FlagFades ==
    \A g \in Gateways :
        cache[g].val /\ cache[g].ttl > 0 =>
            active \/ quiet + cache[g].ttl <= CacheTTL

\* A deletion is requested only after the tenant has been inactive for the
\* whole wait without a break, whatever was suspended and reactivated before,
\* and whatever overlapped (request_company_deletion, ADR-0033 decision 7).
\* The wait is counted from the start of the transaction that suspended, so
\* what that transaction took before its UPDATE is part of it.
WaitKept == [][deletion' /\ ~deletion => quiet + took >= Wait]_vars

\* A deletion, once requested, is irreversible: the tenant is not reactivated
\* after it (update_company's own comment, ADR-0033 decision 3).
NeverReactivated == [][deletion /\ active' => active]_vars

\* With no request in flight and none left half done, the marker says what
\* the registry says: it "lasts as long as the suspension does, and
\* reactivation removes it" (company_status.py, mark_suspended).
MarkerMatchesRegistry ==
    (\A q \in Requests : req[q].pc = "idle") /\ ~torn =>
        (marker <=> since # Null)

\* The same when company requests come one at a time: a request that ends
\* repairs the marker one that died left behind.
SerialMarker == overlap \/ MarkerMatchesRegistry
=============================================================================
