----------------------------- MODULE Notebooks ------------------------------
(***************************************************************************)
(* One user's notebook server and the capabilities that go with it: the    *)
(* hub that mints, refreshes and revokes handles, the platform that        *)
(* revokes them at sign-out, the suspension of the company, and a SQL      *)
(* session opened through the SQL proxy with a handle.                     *)
(*                                                                         *)
(* The hub's thread, the platform's sign-out, the company's suspension and *)
(* the proxy each take one store or database call at a time.  Lifetimes    *)
(* count down in ticks; a tick is longer than a connection takes to open.  *)
(***************************************************************************)
EXTENDS Naturals, Sequences

CONSTANTS MaxHandles,  \* bound on handles ever minted
          TTL,         \* NOTEBOOK_CAPABILITY_TTL_SECONDS, in ticks
          Revalidate   \* SQL_PROXY_REVALIDATE_SECONDS, in ticks

ASSUME NotebookBounds == MaxHandles \in Nat /\ TTL \in Nat \ {0} /\ Revalidate \in Nat \ {0}

Handles == 1..MaxHandles

VARIABLES entry,    \* entry[h]: ticks the handle's store entry has left; 0 when absent
          bound,    \* bound[h]: the audience and company the handle was minted for
          minted,   \* how many handles were minted
          index,    \* handles in the user's index, all of one server
          indexTTL, \* ticks the index has left
          tenant,   \* the company the platform says the user belongs to
          login,    \* the hub's login: the company of its stored facts, and whether it is still good
          hub,      \* where the hub is with the server
          platform, \* where the platform's revocation at sign-out is
          company,  \* how far company A is suspended
          sqlLogin, \* company A's database login: enrolled, and allowed to log in
          conn,     \* the kernel's connection to the SQL proxy
          env       \* (history) the environment started last: whose it is, whether another hub process
                    \* adopted it, and whether a sign-in replaced the login's facts since its spawn

vars == <<entry, bound, minted, index, indexTTL, tenant, login, hub, platform, company,
          sqlLogin, conn, env>>
storeVars == <<entry, bound, minted, index, indexTTL>>
userVars == <<tenant, login>>
sqlVars == <<company, sqlLogin, conn>>

NoConn == [pc |-> "none", h |-> 0, age |-> 0, gone |-> 0]
Down == [pc |-> "down", todo |-> {}, live |-> FALSE, dead |-> {}, who |-> "none", audit |-> "none",
         left |-> <<>>]
NoEnv == [of |-> "none", adopted |-> FALSE, replaced |-> FALSE]

Init ==
    /\ entry = [h \in Handles |-> 0]
    /\ bound = [h \in Handles |-> [aud |-> "none", company |-> "none"]]
    /\ minted = 0
    /\ index = {} /\ indexTTL = 0
    /\ tenant = "A" /\ login = [of |-> "none", good |-> FALSE]
    /\ hub = Down
    /\ platform = [pc |-> "idle", todo |-> {}]
    /\ company = "active"
    /\ sqlLogin = [enrolled |-> FALSE, can |-> TRUE]
    /\ conn = NoConn
    /\ env = NoEnv

-----------------------------------------------------------------------------
(* The shared store.                                                       *)

\* is_suspended: the marker of a suspended company.
Marked(c) == c = "A" /\ company = "marked"

\* Resolution, the same rule for every verifier: the entry is present, for this audience, and
\* its company carries no suspension marker.
Resolves(h, aud) == entry[h] > 0 /\ bound[h].aud = aud /\ ~Marked(bound[h].company)

\* The entry removed if present (DELETE_RECORDED_SCRIPT).
Remove(h) == entry' = [entry EXCEPT ![h] = 0]

\* _server_handles: what the index lists now.
ServerHandles == index

Hub(pc) == hub' = [hub EXCEPT !.pc = pc]

\* The entry, its index field and the index's lifetime, in one transaction.
SetRecorded(aud, c) ==
    /\ minted' = minted + 1
    /\ entry' = [entry EXCEPT ![minted + 1] = TTL]
    /\ bound' = [bound EXCEPT ![minted + 1] = [aud |-> aud, company |-> c]]
    /\ index' = index \cup {minted + 1}
    /\ indexTTL' = TTL

-----------------------------------------------------------------------------
(* The hub's login and the spawn.                                          *)

\* The platform moves the user to another company (once).
MoveUser ==
    /\ tenant = "A" /\ tenant' = "B"
    /\ UNCHANGED <<storeVars, login, hub, platform, sqlVars, env>>

\* The login handler: the identity the proxy forwards becomes the login's facts.
HubLogin ==
    /\ ~login.good /\ login' = [of |-> tenant, good |-> TRUE]
    /\ env' = [env EXCEPT !.replaced = @ \/ hub.pc \notin {"down", "stopRevoke", "stopRecord"}]
    /\ UNCHANGED <<storeVars, tenant, hub, platform, sqlVars>>

\* refresh_user with a forwarded identity whose facts changed: the running server is stopped and
\* the login ends, its stored facts left.  A server that is pending is left alone.
RefreshUser ==
    /\ login.good /\ login.of # tenant
    /\ login' = [login EXCEPT !.good = FALSE]
    /\ hub' = IF hub.pc = "up" THEN [hub EXCEPT !.pc = "stop"] ELSE hub
    /\ UNCHANGED <<storeVars, tenant, platform, sqlVars, env>>

\* bind_identity_and_profile: the login's facts and profile first.  "left" is what to mint: an
\* authoring profile gets SQL besides the API.
Spawn ==
    /\ hub.pc = "down" /\ login.good
    /\ \E auds \in {<<"api">>, <<"api", "sql">>} :
         /\ minted + Len(auds) <= MaxHandles
         /\ hub' = [Down EXCEPT !.pc = "spawnList", !.left = auds, !.who = login.of]
    /\ env' = NoEnv
    /\ UNCHANGED <<storeVars, userVars, platform, sqlVars>>

\* revoke_server: the handles the index lists now ...
ListHandles(pc, next) ==
    /\ hub.pc = pc
    /\ hub' = [hub EXCEPT !.pc = next, !.todo = ServerHandles]
    /\ UNCHANGED <<storeVars, userVars, platform, sqlVars, env>>

\* ... each revoked in turn, and then exactly those leave the index.
RevokeListed(pc, next) ==
    /\ hub.pc = pc
    /\ \/ \E h \in hub.todo : entry[h] > 0 /\ Remove(h) /\ UNCHANGED <<index, hub>>
       \/ /\ \A h \in hub.todo : entry[h] = 0
          /\ index' = index \ hub.todo
          /\ hub' = [hub EXCEPT !.pc = next, !.todo = {}]
          /\ UNCHANGED entry
    /\ UNCHANGED <<bound, minted, indexTTL, userVars, platform, sqlVars, env>>

\* What an earlier run of the server still holds is revoked before anything is minted.
SpawnRevoke == ListHandles("spawnList", "spawnRevoke") \/ RevokeListed("spawnRevoke", "mint")

\* mint: refused for a suspended company, and the hub stops the failed spawn; else the entry is
\* written by a later call.
MintCheck ==
    /\ hub.pc = "mint"
    /\ Hub(IF hub.left = <<>> THEN "record" ELSE IF Marked(hub.who) THEN "stop" ELSE "mintWrite")
    /\ UNCHANGED <<storeVars, userVars, platform, sqlVars, env>>

MintWrite ==
    /\ hub.pc = "mintWrite"
    /\ SetRecorded(Head(hub.left), hub.who)
    /\ hub' = [hub EXCEPT !.pc = "mint", !.left = Tail(@)]
    /\ UNCHANGED <<userVars, platform, sqlVars, env>>

\* The environment is recorded as started; its stop will be recorded for the same company.
RecordStarted ==
    /\ hub.pc = "record"
    /\ env' = [env EXCEPT !.of = hub.who]
    /\ hub' = [Down EXCEPT !.pc = "up", !.audit = hub.who]
    /\ UNCHANGED <<storeVars, userVars, platform, sqlVars>>

-----------------------------------------------------------------------------
(* The running server.                                                     *)

\* poll_and_notify of a running server: refresh_server lists its handles ...
PollList == ListHandles("up", "poll")

PollExtendAny ==
    /\ hub.pc = "poll"
    /\ \E h \in hub.todo : /\ entry' = [entry EXCEPT ![h] = TTL]
                           /\ hub' = [hub EXCEPT !.todo = @ \ {h}, !.live = TRUE]
    /\ UNCHANGED <<bound, minted, index, indexTTL, userVars, platform, sqlVars, env>>

\* ... extends each in turn, if it still has an entry ...
PollExtend ==
    /\ hub.pc = "poll"
    /\ \E h \in hub.todo :
         IF entry[h] > 0
         THEN /\ entry' = [entry EXCEPT ![h] = TTL]
              /\ hub' = [hub EXCEPT !.todo = @ \ {h}, !.live = TRUE]
         ELSE /\ hub' = [hub EXCEPT !.todo = @ \ {h}, !.dead = @ \cup {h}]
              /\ UNCHANGED entry
    /\ UNCHANGED <<bound, minted, index, indexTTL, userVars, platform, sqlVars, env>>

PollNeverStops ==
    /\ hub.pc = "poll" /\ hub.todo = {}
    /\ index' = index \ hub.dead
    /\ Hub("pollIndex")
    /\ UNCHANGED <<entry, bound, minted, indexTTL, userVars, platform, sqlVars, env>>

PolledHub == [hub EXCEPT !.pc = "up", !.todo = {}, !.live = FALSE, !.dead = {}]

\* ... drops the dead from the index, and extends the index while one is live.  With none live the
\* server stops itself, and its next poll says so.
PollDrop ==
    /\ hub.pc = "poll" /\ hub.todo = {}
    /\ index' = index \ hub.dead
    /\ Hub(IF hub.live THEN "pollIndex" ELSE "selfStopped")
    /\ UNCHANGED <<entry, bound, minted, indexTTL, userVars, platform, sqlVars, env>>

PollIndex ==
    /\ hub.pc = "pollIndex"
    /\ indexTTL' = IF index = {} THEN 0 ELSE TTL
    /\ hub' = PolledHub
    /\ UNCHANGED <<entry, bound, minted, index, userVars, platform, sqlVars, env>>

\* A store that cannot be reached leaves the server alone.
PollFails ==
    /\ hub.pc \in {"poll", "pollIndex"}
    /\ hub' = PolledHub
    /\ UNCHANGED <<storeVars, userVars, platform, sqlVars, env>>

\* The user, the culler or a hub logout stops it; or the hub finds that it stopped itself.
Stop ==
    /\ hub.pc \in {"up", "selfStopped"}
    /\ Hub("stop")
    /\ UNCHANGED <<storeVars, userVars, platform, sqlVars, env>>

StopCompanyOfLogin == login.of

\* revoke_server_capabilities, the post-stop hook: the company it was started for is taken from the
\* spawner, or else from the login ...
StopCompany == IF hub.audit # "none" THEN hub.audit ELSE login.of

StopHook ==
    /\ hub.pc = "stop"
    /\ hub' = [Down EXCEPT !.pc = "stopRevoke", !.audit = StopCompany, !.todo = ServerHandles]
    /\ UNCHANGED <<storeVars, userVars, platform, sqlVars, env>>

\* ... its handles are revoked, and the stop is recorded under that company.
StopRevoke == RevokeListed("stopRevoke", "stopRecord")

RecordStopped ==
    /\ hub.pc = "stopRecord"
    /\ env' = NoEnv
    /\ hub' = Down
    /\ UNCHANGED <<storeVars, userVars, platform, sqlVars>>

\* The hub restarts: a running server is adopted without what its spawner remembered, and a stop
\* that was under way is never seen.
HubRestarts ==
    /\ IF hub.pc \in {"up", "poll", "pollIndex"}
       THEN /\ hub' = [Down EXCEPT !.pc = "up"]
            /\ env' = [env EXCEPT !.adopted = TRUE]
       ELSE /\ hub' = Down
            /\ env' = NoEnv
    /\ UNCHANGED <<storeVars, userVars, platform, sqlVars>>

-----------------------------------------------------------------------------
(* The platform: sign-out and suspension.                                  *)

\* revoke_user_capabilities: the index is read, each handle revoked, and the whole index deleted.
SignOut ==
    /\ platform.pc = "idle"
    /\ platform' = [pc |-> "revoke", todo |-> index]
    /\ UNCHANGED <<storeVars, userVars, hub, sqlVars, env>>

SignOutRevoke ==
    /\ platform.pc = "revoke"
    /\ \/ \E h \in platform.todo : entry[h] > 0 /\ Remove(h) /\ UNCHANGED <<index, indexTTL, platform>>
       \/ /\ \A h \in platform.todo : entry[h] = 0
          /\ index' = {} /\ indexTTL' = 0
          /\ platform' = [pc |-> "idle", todo |-> {}]
          /\ UNCHANGED entry
    /\ UNCHANGED <<bound, minted, userVars, hub, sqlVars, env>>

\* Company A suspended: the registry and NOLOGIN commit together; then its SQL sessions are
\* ended; then the marker.  (Reactivation is TenantLifecycle's.)
CompanyStep ==
    \/ /\ company = "active" /\ company' = "suspended"
       /\ sqlLogin' = [sqlLogin EXCEPT !.can = FALSE]
       /\ UNCHANGED conn
    \/ /\ company = "suspended" /\ company' = "ended"
       /\ conn' = IF conn.pc \in {"setup", "relay"} THEN NoConn ELSE conn
       /\ UNCHANGED sqlLogin
    \/ /\ company = "ended" /\ company' = "marked"
       /\ UNCHANGED <<sqlLogin, conn>>

Suspension == CompanyStep /\ UNCHANGED <<storeVars, userVars, hub, platform, env>>

TenantSuspended == company # "active"

-----------------------------------------------------------------------------
(* The SQL proxy, for handles of company A.                                *)

Conn(pc) == conn' = [conn EXCEPT !.pc = pc]
SqlStep == UNCHANGED <<storeVars, userVars, hub, platform, company, env>>

\* serve_connection: resolve and record; a refused handle opens nothing.
Present(h) ==
    /\ conn = NoConn /\ h <= minted /\ bound[h].company = "A"
    /\ Resolves(h, "sql")
    /\ conn' = [NoConn EXCEPT !.pc = "open", !.h = h]
    /\ UNCHANGED sqlLogin /\ SqlStep

\* PostgresBackend.connect: as the tenant's own login; refused, the login is enrolled exactly once
\* and tried again.
OpenUpstream ==
    /\ conn.pc \in {"open", "reopen"}
    /\ IF sqlLogin.enrolled /\ sqlLogin.can THEN Conn("setup")
       ELSE IF conn.pc = "open" THEN Conn("enrol") ELSE conn' = NoConn
    /\ UNCHANGED sqlLogin /\ SqlStep

\* notebook_sql_proxy_enrol: refused for a suspended company.  The login's attributes and its
\* verifier are written after the registry is read.
EnrolCheck ==
    /\ conn.pc = "enrol"
    /\ IF TenantSuspended THEN conn' = NoConn ELSE Conn("enrolWrite")
    /\ UNCHANGED sqlLogin /\ SqlStep

EnrolWrite ==
    /\ conn.pc = "enrolWrite"
    /\ sqlLogin' = [enrolled |-> TRUE, can |-> TRUE]
    /\ Conn("reopen") /\ SqlStep

\* The setup statements and the record of the session, then the relay with its watchdog.
StartRelay ==
    /\ conn.pc = "setup" /\ Conn("relay")
    /\ UNCHANGED sqlLogin /\ SqlStep

AuthorizedByEntry == entry[conn.h] > 0

\* _watch: what granted the session is asked again; the session ends unless the answer is the same.
Authorized == Resolves(conn.h, "sql")

Watch ==
    /\ conn.pc = "relay" /\ conn.age >= Revalidate
    /\ conn' = IF Authorized THEN [conn EXCEPT !.age = 0] ELSE NoConn
    /\ UNCHANGED sqlLogin /\ SqlStep

\* Either side closes, a setup statement or the record fails, or a re-check cannot be answered.
CloseConn ==
    /\ conn # NoConn /\ conn' = NoConn
    /\ UNCHANGED sqlLogin /\ SqlStep

\* Lifetimes run down.  An open relay's watchdog is never late, and connecting takes less than a
\* tick.
Tick ==
    /\ conn.pc = "none" \/ (conn.pc = "relay" /\ conn.age < Revalidate)
    /\ entry' = [h \in Handles |-> IF entry[h] > 0 THEN entry[h] - 1 ELSE 0]
    /\ indexTTL' = IF indexTTL > 0 THEN indexTTL - 1 ELSE 0
    /\ index' = IF indexTTL <= 1 THEN {} ELSE index
    /\ conn' = IF conn = NoConn THEN conn
               ELSE [conn EXCEPT !.age = @ + 1,
                                 !.gone = IF Resolves(conn.h, "sql") THEN 0 ELSE @ + 1]
    /\ UNCHANGED <<bound, minted, userVars, hub, platform, company, sqlLogin, env>>

PollStep == PollList \/ PollExtend \/ PollIndex
ProxyStep == OpenUpstream \/ EnrolCheck \/ EnrolWrite \/ StartRelay \/ Watch

HubStep == \/ SpawnRevoke \/ MintCheck \/ MintWrite \/ RecordStarted
           \/ PollStep \/ PollDrop \/ StopHook \/ StopRevoke \/ RecordStopped

Next ==
    \/ MoveUser \/ HubLogin \/ RefreshUser \/ Spawn \/ HubStep \/ PollFails \/ Stop \/ HubRestarts
    \/ SignOut \/ SignOutRevoke \/ Suspension
    \/ \E h \in Handles : Present(h)
    \/ ProxyStep \/ CloseConn \/ Tick

\* The hub's pollers and the proxy keep running, a poll's last answer comes from the store again and
\* again, and time passes.
Fairness == SF_vars(Tick) /\ WF_vars(ProxyStep) /\ WF_vars(PollStep) /\ SF_vars(PollDrop)

Spec == Init /\ [][Next]_vars /\ Fairness

-----------------------------------------------------------------------------
(* Properties.                                                             *)

\* A revoked or expired handle never comes back: only minting creates an entry, whatever a poll
\* that listed the handle earlier does to it (refresh_server, revoke_server, revoke_user).
NeverRevived ==
    [][\A h \in Handles : entry[h] = 0 /\ entry'[h] > 0 => h = minted' /\ minted' = minted + 1]_vars

\* A relayed SQL session outlives its capability, revoked, expired or of a suspended company, by
\* at most one re-check, even when enrolment raced the suspension (PostgresBackend._watch).
SessionFollowsHandle == conn.pc = "relay" => conn.gone <= Revalidate

\* An environment's stop is recorded under the company it was started for: always by the hub process
\* that started it, though the login moved to another company meanwhile, and by one that adopted it
\* unless a sign-in has replaced the login's facts since (revoke_server_capabilities,
\* bind_identity_and_profile).
StopNamesItsCompany ==
    hub.pc = "stopRecord" /\ env.of # "none" => hub.audit = env.of \/ (env.adopted /\ env.replaced)

\* "Its stop is recorded under the tenant it was started for" (bind_identity_and_profile), without
\* exception.
StopAlwaysNamesItsCompany == hub.pc = "stopRecord" /\ env.of # "none" => hub.audit = env.of

Up == hub.pc \in {"up", "poll", "pollIndex"}

\* A server whose handles are all gone, revoked by a sign-out elsewhere or expired, does not keep
\* running (poll_and_notify, keep_capabilities_alive).
EmptyServerStops == (Up /\ \A h \in Handles : entry[h] = 0) ~> ~Up
=============================================================================
