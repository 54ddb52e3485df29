--------------------------- MODULE NotebooksProofs --------------------------
(***************************************************************************)
(* A notebook server's capabilities and its SQL session: for any number of *)
(* handles, any lifetime and any re-check interval.  And the record of     *)
(* what those capabilities are used for, which the drain writes: Audit is  *)
(* a specification of its own, and shares no variable with this one.       *)
(***************************************************************************)
EXTENDS Notebooks, TLAPS

Companies == {"none", "A", "B"}
ConnPcs == {"none", "open", "reopen", "enrol", "enrolWrite", "setup", "relay"}
Spawning == {"spawnList", "spawnRevoke", "mint", "mintWrite", "record"}
Running == {"up", "poll", "pollIndex", "selfStopped", "stop"}
Stopping == {"stopRevoke", "stopRecord"}
HubPcs == {"down"} \cup Spawning \cup Running \cup Stopping
HubStates == [pc : HubPcs, todo : SUBSET Handles, live : BOOLEAN, dead : SUBSET Handles,
              who : Companies, audit : Companies, left : Seq({"api", "sql"})]
Logins == [of : Companies, good : BOOLEAN]
Envs == [of : Companies, adopted : BOOLEAN, replaced : BOOLEAN]
Conns == [pc : ConnPcs, h : 0..MaxHandles, age : Nat, gone : Nat]

StoreTypes ==
    /\ entry \in [Handles -> Nat] /\ minted \in 0..MaxHandles /\ index \subseteq Handles
    /\ bound \in [Handles -> [aud : {"none", "api", "sql"}, company : Companies]]

Types ==
    /\ StoreTypes
    /\ tenant \in Companies /\ login \in Logins /\ env \in Envs /\ platform.todo \subseteq Handles
    /\ conn \in Conns /\ hub \in HubStates

\* A spawn mints no more handles than it made sure there was room for.
RoomToMint ==
    /\ hub.pc \in {"spawnList", "spawnRevoke", "mint", "mintWrite"} => minted + Len(hub.left) <= MaxHandles
    /\ hub.pc = "mintWrite" => hub.left # <<>>

\* A session ages only once it is relayed, and never past a re-check interval; it is without its
\* capability for no longer than that, and then for good.
SessionInv ==
    /\ conn.pc = "none" => conn = NoConn
    /\ conn.pc # "none" => conn.h \in 1..minted
    /\ conn.pc # "relay" => conn.age = 0 /\ conn.gone = 0
    /\ conn.gone <= conn.age /\ conn.age <= Revalidate
    /\ conn.gone > 0 => ~Resolves(conn.h, "sql")

\* What a spawner, and the login, remember of a recorded start until its stop is recorded: the login's
\* facts are those of the spawn until a sign-in replaces them, and a hub process that adopted the
\* server has only those to go by.
StartRemembered ==
    /\ hub.pc \in Spawning => env.of = "none" /\ (hub.who = login.of \/ env.replaced)
    /\ env.of # "none" => hub.pc \in Running \cup Stopping
    /\ env.of # "none" /\ hub.pc \in Running =>
         /\ login.of = env.of \/ env.replaced
         /\ hub.audit = env.of \/ (env.adopted /\ hub.audit = "none")
    /\ env.of # "none" /\ hub.pc \in Stopping => hub.audit = env.of \/ (env.adopted /\ env.replaced)

IInv == Types /\ RoomToMint /\ SessionInv /\ StartRemembered

\* An entry appears only by minting, under the next handle.
OnlyMintingCreates == \A h \in Handles : entry[h] = 0 /\ entry'[h] > 0 => h = minted' /\ minted' = minted + 1

\* What no step does to the store: revive a handle, change what one is bound to, lose the count.
LEMMA StoreStep ==
    ASSUME Types, RoomToMint, [Next]_vars
    PROVE  /\ StoreTypes' /\ OnlyMintingCreates
           /\ minted' \in {minted, minted + 1} /\ \A h \in 1..minted : bound'[h] = bound[h]
<1>1. /\ entry \in [Handles -> Nat] /\ minted \in 0..MaxHandles /\ index \subseteq Handles
      /\ bound \in [Handles -> [aud : {"none", "api", "sql"}, company : Companies]]
      /\ hub \in HubStates /\ hub.todo \subseteq Handles /\ MaxHandles \in Nat /\ TTL \in Nat \ {0}
  BY NotebookBounds DEF Types, StoreTypes, HubStates
<1>2. CASE entry' = entry /\ index' \subseteq index /\ UNCHANGED <<bound, minted>>
  BY <1>1, <1>2 DEF StoreTypes, OnlyMintingCreates
<1>3. ASSUME NEW h \in Handles, Remove(h), UNCHANGED <<bound, minted, index>>
      PROVE  /\ StoreTypes' /\ OnlyMintingCreates
             /\ minted' \in {minted, minted + 1} /\ \A g \in 1..minted : bound'[g] = bound[g]
  BY <1>1, <1>3 DEF Remove, StoreTypes, OnlyMintingCreates
<1>4. CASE MintWrite
  <2>1. /\ minted' = minted + 1 /\ entry' = [entry EXCEPT ![minted + 1] = TTL]
        /\ bound' = [bound EXCEPT ![minted + 1] = [aud |-> Head(hub.left), company |-> hub.who]]
        /\ index' = index \cup {minted + 1} /\ hub.pc = "mintWrite"
    BY <1>4 DEF MintWrite, SetRecorded
  <2>2. /\ hub.left \in Seq({"api", "sql"}) /\ hub.left # <<>> /\ hub.who \in Companies
        /\ minted + Len(hub.left) <= MaxHandles
    BY <1>1, <2>1 DEF HubStates, RoomToMint
  <2>3. minted + 1 \in Handles /\ Head(hub.left) \in {"api", "sql"}
    BY <1>1, <2>2 DEF Handles
  <2>4. StoreTypes'
    <3>1. PICK b \in [aud : {"none", "api", "sql"}, company : Companies] :
              b = [aud |-> Head(hub.left), company |-> hub.who]
      BY <2>2, <2>3, Zenon
    <3>2. bound' = [bound EXCEPT ![minted + 1] = b]
      BY <2>1, <3>1
    <3>3. entry' \in [Handles -> Nat] /\ minted' \in 0..MaxHandles /\ index' \subseteq Handles
      BY <1>1, <2>1, <2>3 DEF Handles
    <3>4. bound' \in [Handles -> [aud : {"none", "api", "sql"}, company : Companies]]
      BY <1>1, <3>2, Zenon
    <3> QED BY <3>3, <3>4 DEF StoreTypes
  <2>5. OnlyMintingCreates
    BY <1>1, <2>1 DEF OnlyMintingCreates
  <2>6. \A h \in 1..minted : bound'[h] = bound[h]
    BY <1>1, <2>1 DEF Handles
  <2> QED BY <2>1, <2>4, <2>5, <2>6
<1>5. CASE PollExtend
  <2>1. PICK h \in Handles : /\ entry' = entry \/ (entry[h] > 0 /\ entry' = [entry EXCEPT ![h] = TTL])
                             /\ UNCHANGED <<bound, minted, index>>
    BY <1>1, <1>5, Zenon DEF PollExtend
  <2> QED BY <1>1, <2>1 DEF StoreTypes, OnlyMintingCreates
<1>6. CASE Tick
  <2>1. /\ entry' = [h \in Handles |-> IF entry[h] > 0 THEN entry[h] - 1 ELSE 0]
        /\ index' \subseteq index /\ UNCHANGED <<bound, minted>>
    BY <1>6 DEF Tick
  <2> QED BY <1>1, <2>1 DEF StoreTypes, OnlyMintingCreates
<1>7. CASE SignOutRevoke
  <2>1. platform.todo \subseteq Handles
    BY DEF Types
  <2> QED BY <1>2, <1>3, <1>7, <2>1 DEF SignOutRevoke
<1>8. ASSUME NEW pc, NEW next, RevokeListed(pc, next)
      PROVE  /\ StoreTypes' /\ OnlyMintingCreates
             /\ minted' \in {minted, minted + 1} /\ \A g \in 1..minted : bound'[g] = bound[g]
  BY <1>1, <1>2, <1>3, <1>8 DEF RevokeListed
<1>9. ASSUME NEW pc, NEW next, ListHandles(pc, next)
      PROVE  entry' = entry /\ index' \subseteq index /\ UNCHANGED <<bound, minted>>
  BY <1>9 DEF ListHandles, storeVars
<1>10. CASE SpawnRevoke \/ StopRevoke \/ PollList
  BY <1>2, <1>8, <1>9, <1>10 DEF SpawnRevoke, StopRevoke, PollList
<1>11. CASE \/ MoveUser \/ HubLogin \/ RefreshUser \/ Spawn \/ MintCheck \/ RecordStarted \/ PollIndex
            \/ PollDrop \/ StopHook \/ RecordStopped \/ PollFails \/ Stop \/ HubRestarts \/ SignOut \/ Suspension
            \/ (\E h \in Handles : Present(h)) \/ OpenUpstream \/ EnrolCheck \/ EnrolWrite
            \/ StartRelay \/ Watch \/ CloseConn \/ UNCHANGED vars
  <2>1. entry' = entry /\ index' \subseteq index /\ UNCHANGED <<bound, minted>>
    BY <1>11, Zenon DEF MoveUser, HubLogin, RefreshUser, Spawn, MintCheck, RecordStarted, PollIndex, RecordStopped,
       PollDrop, StopHook, PollFails, Stop, HubRestarts, SignOut, Suspension, Present, OpenUpstream, EnrolCheck,
       EnrolWrite, StartRelay, Watch, CloseConn, SqlStep, storeVars, vars
  <2> QED BY <1>2, <2>1
<1> QED BY <1>4, <1>5, <1>6, <1>7, <1>10, <1>11 DEF Next, HubStep, PollStep, ProxyStep

\* The invariant holds of every behaviour.
LEMMA Invariance == Spec => []IInv
<1>1. Init => IInv
  <2> SUFFICES ASSUME Init PROVE IInv
    OBVIOUS
  <2>1. MaxHandles \in Nat /\ Revalidate \in Nat \ {0}
    BY NotebookBounds
  <2>2. hub \in HubStates /\ hub.pc = "down"
    BY DEF Init, Down, HubStates, HubPcs, Companies, Spawning, Running, Stopping
  <2>3. conn \in Conns
    BY <2>1 DEF Init, NoConn, Conns, ConnPcs
  <2>4. Types
    BY <2>1, <2>2, <2>3 DEF Init, Types, StoreTypes, Companies, Logins, Envs, NoEnv
  <2>5. SessionInv
    BY <2>1 DEF Init, NoConn, SessionInv
  <2>6. StartRemembered
    BY <2>2 DEF Init, StartRemembered, NoEnv, Spawning
  <2> QED BY <2>2, <2>4, <2>5, <2>6 DEF IInv, RoomToMint
<1>2. IInv /\ [Next]_vars => IInv'
  <2> SUFFICES ASSUME IInv, [Next]_vars PROVE IInv'
    OBVIOUS
  <2>1. /\ Types /\ RoomToMint /\ SessionInv /\ StartRemembered
        /\ conn \in Conns /\ hub \in HubStates /\ minted \in 0..MaxHandles
        /\ MaxHandles \in Nat /\ Revalidate \in Nat \ {0} /\ TTL \in Nat \ {0}
    BY NotebookBounds DEF IInv, Types, StoreTypes
  <2>2. /\ StoreTypes' /\ OnlyMintingCreates
        /\ minted' \in {minted, minted + 1} /\ \A h \in 1..minted : bound'[h] = bound[h]
    BY <2>1, StoreStep
  \* What is refused stays refused: no entry of a minted handle comes back, no suspension is lifted.
  <2>3. company = "marked" => company' = "marked"
    BY Zenon DEF Next, MoveUser, HubLogin, RefreshUser, Spawn, HubStep, SpawnRevoke, ListHandles, RevokeListed, MintCheck,
       MintWrite, RecordStarted, PollStep, PollList, PollExtend, PollDrop, PollIndex, StopHook, StopRevoke, RecordStopped, PollFails, Stop,
       HubRestarts, SignOut, SignOutRevoke, Suspension, CompanyStep, Present, ProxyStep, OpenUpstream, EnrolCheck, EnrolWrite,
       StartRelay, Watch, CloseConn, Tick, SqlStep, sqlVars, vars
  <2>4. ASSUME NEW h \in 1..minted, ~Resolves(h, "sql") PROVE ~Resolves(h, "sql")'
    <3>1. h \in Handles /\ h # minted + 1 /\ entry[h] \in Nat /\ entry'[h] \in Nat
      BY <2>1, <2>2 DEF Types, StoreTypes, Handles
    <3>2. entry[h] = 0 => entry'[h] = 0
      BY <2>1, <2>2, <3>1 DEF OnlyMintingCreates
    <3>3. entry[h] = 0 \/ bound[h].aud # "sql" \/ (bound[h].company = "A" /\ company = "marked")
      BY <2>4, <3>1 DEF Resolves, Marked
    <3>4. bound'[h] = bound[h]
      BY <2>2
    <3> QED BY <2>3, <3>2, <3>3, <3>4 DEF Resolves, Marked
  \* The session.
  <2>5. (conn' = conn \/ conn' = NoConn) => SessionInv' /\ conn' \in Conns
    <3>1. CASE conn' = NoConn
      BY <2>1, <3>1 DEF NoConn, SessionInv, Conns, ConnPcs
    <3>2. CASE conn' = conn
      <4>1. conn.pc # "none" => conn.h \in 1..minted'
        BY <2>1, <2>2 DEF SessionInv
      <4>2. conn.gone > 0 => ~Resolves(conn.h, "sql")'
        <5>1. ASSUME conn.gone > 0 PROVE conn.h \in 1..minted /\ ~Resolves(conn.h, "sql")
          BY <2>1, <5>1 DEF SessionInv, NoConn
        <5>2. PICK h : h = conn.h
          OBVIOUS
        <5>3. conn.gone > 0 => ~Resolves(h, "sql")'
          BY <2>4, <5>1, <5>2
        <5> QED BY <3>2, <5>2, <5>3
      <4> QED BY <2>1, <3>2, <4>1, <4>2 DEF SessionInv
    <3> QED BY <3>1, <3>2
  <2>6. ASSUME NEW pc \in ConnPcs \ {"none", "relay"}, conn.pc \notin {"none", "relay"}, conn' = [conn EXCEPT !.pc = pc]
        PROVE  SessionInv' /\ conn' \in Conns
    <3>1. /\ conn' \in Conns /\ conn'.pc = pc /\ conn'.h = conn.h /\ conn'.age = conn.age /\ conn'.gone = conn.gone
      BY <2>1, <2>6 DEF Conns
    <3> QED BY <2>1, <2>2, <2>6, <3>1 DEF SessionInv
  <2>7. SessionInv' /\ conn' \in Conns
    <3>1. CASE \E h \in Handles : Present(h)
      <4>1. PICK h \in Handles : h <= minted /\ conn' = [NoConn EXCEPT !.pc = "open", !.h = h]
        BY <3>1, Zenon DEF Present
      <4>2. /\ conn' \in Conns /\ conn'.pc = "open" /\ conn'.h = h /\ conn'.age = 0 /\ conn'.gone = 0
        <5>1. h \in 0..MaxHandles /\ "open" \in ConnPcs
          BY <2>1 DEF ConnPcs, Handles
        <5> QED BY <4>1, <5>1, Zenon DEF NoConn, Conns
      <4> QED BY <2>1, <2>2, <4>1, <4>2 DEF SessionInv, Handles
    <3>2. CASE OpenUpstream \/ EnrolCheck \/ EnrolWrite
      BY <2>5, <2>6, <3>2 DEF OpenUpstream, EnrolCheck, EnrolWrite, Conn, ConnPcs
    <3>3. CASE StartRelay
      <4>1. /\ conn' \in Conns /\ conn'.pc = "relay" /\ conn'.h = conn.h /\ conn'.age = conn.age
            /\ conn'.gone = conn.gone /\ conn.pc = "setup"
        BY <2>1, <3>3 DEF StartRelay, Conn, Conns, ConnPcs
      <4> QED BY <2>1, <2>2, <4>1 DEF SessionInv
    <3>4. CASE Watch
      <4>1. CASE conn' = NoConn
        BY <2>5, <4>1
      <4>2. CASE Authorized /\ conn' = [conn EXCEPT !.age = 0] /\ conn.pc = "relay"
        <5>1. conn' \in Conns /\ conn'.pc = conn.pc /\ conn'.h = conn.h /\ conn'.age = 0 /\ conn'.gone = conn.gone
          BY <2>1, <4>2 DEF Conns
        <5>2. conn.gone = 0
          BY <2>1, <4>2 DEF SessionInv, Authorized, Conns
        <5> QED BY <2>1, <2>2, <4>2, <5>1, <5>2 DEF SessionInv
      <4> QED BY <3>4, <4>1, <4>2 DEF Watch
    <3>5. CASE CloseConn
      BY <2>5, <3>5 DEF CloseConn
    <3>6. CASE Tick
      <4>1. CASE conn = NoConn
        BY <2>5, <3>6, <4>1 DEF Tick
      <4>2. CASE conn # NoConn
        <5>1. conn.pc = "relay" /\ conn.age < Revalidate
          BY <2>1, <3>6, <4>2 DEF Tick, SessionInv
        <5>2. PICK g \in Nat : /\ g = IF Resolves(conn.h, "sql") THEN 0 ELSE conn.gone + 1
          BY <2>1 DEF Conns
        <5>3. conn' = [conn EXCEPT !.age = conn.age + 1, !.gone = g]
          BY <3>6, <4>2, <5>2 DEF Tick
        <5>4. conn.age \in Nat /\ conn.gone \in Nat
          BY <2>1 DEF Conns
        <5>5. PICK n \in Nat : n = conn.age + 1
          BY <5>4
        <5>6. conn' = [conn EXCEPT !.age = n, !.gone = g]
          BY <5>3, <5>5
        <5>7. conn' \in Conns /\ conn'.pc = conn.pc /\ conn'.h = conn.h /\ conn'.age = n /\ conn'.gone = g
          BY <2>1, <5>6, Zenon DEF Conns
        <5>8. conn.h \in 1..minted
          BY <2>1, <5>1 DEF SessionInv
        <5>9. g > 0 => ~Resolves(conn.h, "sql")
          BY <5>2
        <5>10. g > 0 => ~Resolves(conn.h, "sql")'
          <6>1. PICK h : h = conn.h
            OBVIOUS
          <6>2. g > 0 => ~Resolves(h, "sql")'
            BY <2>4, <5>8, <5>9, <6>1
          <6> QED BY <5>7, <6>1, <6>2
        <5>11. g <= n /\ n <= Revalidate
          BY <2>1, <5>1, <5>2, <5>4, <5>5 DEF SessionInv
        <5> QED BY <2>1, <2>2, <5>1, <5>7, <5>8, <5>10, <5>11 DEF SessionInv
      <4> QED BY <4>1, <4>2
    <3>7. CASE Suspension
      BY <2>5, <3>7 DEF Suspension, CompanyStep
    <3>8. CASE \/ MoveUser \/ HubLogin \/ RefreshUser \/ Spawn \/ HubStep \/ PollFails \/ Stop \/ HubRestarts
               \/ SignOut \/ SignOutRevoke \/ UNCHANGED vars
      <4>1. conn' = conn
        BY <3>8, Zenon DEF MoveUser, HubLogin, RefreshUser, Spawn, HubStep, SpawnRevoke, ListHandles, RevokeListed, MintCheck,
           MintWrite, RecordStarted, PollStep, PollList, PollExtend, PollDrop, PollIndex, StopHook, StopRevoke, RecordStopped, PollFails, Stop,
           HubRestarts, SignOut, SignOutRevoke, sqlVars, vars
      <4> QED BY <2>5, <4>1
    <3> QED BY <3>1, <3>2, <3>3, <3>4, <3>5, <3>6, <3>7, <3>8 DEF Next, ProxyStep
  \* The hub.
  <2> DEFINE HubKept == hub' \in HubStates /\ RoomToMint' /\ StartRemembered'
  <2> DEFINE Same == /\ hub'.left = hub.left /\ hub'.audit = hub.audit /\ hub'.who = hub.who
                     /\ UNCHANGED <<minted, env, login>>
  <2>8. ASSUME hub' \in HubStates, Same,
               hub'.pc \in Spawning => hub.pc \in Spawning /\ (hub.pc = "record" => hub'.pc = "record"),
               hub'.pc = "mintWrite" => hub.left # <<>>,
               \/ env.of = "none"
               \/ hub.pc \in Running /\ hub'.pc \in Running
               \/ hub.pc \in Stopping /\ hub'.pc \in Stopping
        PROVE  HubKept
    <3>1. RoomToMint'
      BY <2>1, <2>8, Zenon DEF RoomToMint, Spawning
    <3>2. StartRemembered'
      BY <2>1, <2>8, Zenon DEF StartRemembered, Running, Stopping
    <3> QED BY <2>8, <3>1, <3>2
  <2>9. (hub' = hub /\ UNCHANGED <<minted, env, login>>) => HubKept
    BY <2>1, Zenon DEF RoomToMint, StartRemembered
  <2>10. /\ hub.todo \in SUBSET Handles /\ hub.dead \in SUBSET Handles /\ index \in SUBSET Handles
         /\ {} \in SUBSET Handles /\ Down \in HubStates /\ Down.audit = "none" /\ Down.pc = "down" /\ env \in Envs
    BY <2>1 DEF HubStates, HubPcs, Companies, Types, StoreTypes, Down
  <2>a. ASSUME NEW pc \in HubPcs, NEW todo \in SUBSET Handles,
               hub' = [hub EXCEPT !.pc = pc, !.todo = todo] \/ hub' = [hub EXCEPT !.pc = pc]
        PROVE  hub' \in HubStates /\ hub'.pc = pc /\ hub'.left = hub.left /\ hub'.audit = hub.audit /\ hub'.who = hub.who
    <3>1. CASE hub' = [hub EXCEPT !.pc = pc, !.todo = todo]
      BY <2>1, <3>1, Zenon DEF HubStates
    <3>2. CASE hub' = [hub EXCEPT !.pc = pc]
      BY <2>1, <3>2, Zenon DEF HubStates
    <3> QED BY <2>a, <3>1, <3>2
  <2>b. Spawning \subseteq HubPcs /\ Running \subseteq HubPcs /\ Stopping \subseteq HubPcs
    BY Zenon DEF HubPcs
  <2> HIDE DEF HubKept
  <2>11. ASSUME SpawnRevoke \/ StopRevoke \/ PollList PROVE HubKept
    <3>1. ASSUME NEW pc \in {"spawnList", "up"}, NEW next \in {"spawnRevoke", "poll"},
                 pc = "spawnList" <=> next = "spawnRevoke", ListHandles(pc, next)
          PROVE  HubKept
      <4>1. /\ hub.pc = pc /\ hub' = [hub EXCEPT !.pc = next, !.todo = index] /\ UNCHANGED <<minted, env, login>>
        BY <3>1, Zenon DEF ListHandles, ServerHandles, storeVars, userVars
      <4>2. next \in HubPcs
        BY <2>b, <3>1, Zenon DEF Spawning, Running
      <4>3. hub' \in HubStates /\ hub'.pc = next /\ Same
        BY <2>a, <2>10, <4>1, <4>2, Zenon
      <4>4. next = "spawnRevoke" => env.of = "none"
        BY <2>1, <3>1, <4>1, Zenon DEF StartRemembered, Spawning
      <4>5. next = "poll" => pc \in Running /\ next \in Running /\ next \notin Spawning
        BY <3>1 DEF Spawning, Running
      <4>6. next = "spawnRevoke" => pc \in Spawning /\ pc # "record"
        BY <3>1 DEF Spawning
      <4> QED BY <2>8, <3>1, <4>1, <4>3, <4>4, <4>5, <4>6, Zenon
    <3>2. ASSUME NEW pc \in {"spawnRevoke", "stopRevoke"}, NEW next \in {"mint", "stopRecord"},
                 pc = "spawnRevoke" <=> next = "mint", RevokeListed(pc, next)
          PROVE  HubKept
      <4>1. /\ hub.pc = pc /\ UNCHANGED <<minted, env, login>>
            /\ hub' = hub \/ hub' = [hub EXCEPT !.pc = next, !.todo = {}]
        BY <3>2, Zenon DEF RevokeListed, userVars
      <4>2. next \in HubPcs
        BY <2>b, <3>2, Zenon DEF Spawning, Stopping
      <4>3. CASE hub' = hub
        BY <2>9, <4>1, <4>3
      <4>4. CASE hub' = [hub EXCEPT !.pc = next, !.todo = {}]
        <5>1. hub' \in HubStates /\ hub'.pc = next /\ Same
          BY <2>a, <2>10, <4>1, <4>2, <4>4, Zenon
        <5>2. next = "mint" => env.of = "none"
          BY <2>1, <3>2, <4>1, Zenon DEF StartRemembered, Spawning
        <5>3. next = "stopRecord" => pc \in Stopping /\ next \in Stopping /\ next \notin Spawning
          BY <3>2 DEF Spawning, Stopping
        <5>4. next = "mint" => pc \in Spawning /\ pc # "record"
          BY <3>2 DEF Spawning
        <5> QED BY <2>8, <3>2, <4>1, <5>1, <5>2, <5>3, <5>4, Zenon
      <4> QED BY <4>1, <4>3, <4>4
    <3> QED BY <2>11, <3>1, <3>2 DEF SpawnRevoke, StopRevoke, PollList
  <2>12. ASSUME MintCheck PROVE HubKept
    <3>1. PICK pc \in {"record", "stop", "mintWrite"} :
              /\ hub.pc = "mint" /\ hub' = [hub EXCEPT !.pc = pc] /\ UNCHANGED <<minted, env, login>>
              /\ pc = "mintWrite" => hub.left # <<>>
      BY <2>12 DEF MintCheck, Hub, storeVars, userVars
    <3>2. env.of = "none" /\ pc \in HubPcs /\ hub.pc \in Spawning
      BY <2>1, <2>b, <3>1, Zenon DEF StartRemembered, Spawning, Running
    <3>3. hub' \in HubStates /\ hub'.pc = pc /\ Same
      BY <2>a, <2>10, <3>1, <3>2, Zenon
    <3> QED BY <2>8, <3>1, <3>2, <3>3
  <2>13. ASSUME MintWrite PROVE HubKept
    <3>1. /\ hub.pc = "mintWrite" /\ minted' = minted + 1 /\ UNCHANGED <<env, login>>
          /\ hub' = [hub EXCEPT !.pc = "mint", !.left = Tail(hub.left)]
      BY <2>13 DEF MintWrite, SetRecorded, userVars
    <3>2. /\ hub.left \in Seq({"api", "sql"}) /\ hub.left # <<>> /\ minted + Len(hub.left) <= MaxHandles
          /\ env.of = "none" /\ (hub.who = login.of \/ env.replaced)
      BY <2>1, <3>1 DEF HubStates, RoomToMint, StartRemembered, Spawning
    <3>3. PICK l \in Seq({"api", "sql"}) : l = Tail(hub.left) /\ Len(l) = Len(hub.left) - 1
      <4>1. Tail(hub.left) \in Seq({"api", "sql"})
        BY <3>2
      <4>2. Len(Tail(hub.left)) = Len(hub.left) - 1
        BY <3>2
      <4> QED BY <4>1, <4>2, Zenon
    <3>4. PICK pc \in HubPcs : pc = "mint"
      BY <2>b, Zenon DEF Spawning
    <3>5. hub' = [hub EXCEPT !.pc = pc, !.left = l]
      BY <3>1, <3>3, <3>4
    <3>6. hub' \in HubStates /\ hub'.pc = pc /\ hub'.left = l /\ hub'.who = hub.who
      BY <2>1, <3>5, Zenon DEF HubStates
    <3>7. RoomToMint'
      <4>1. Len(hub.left) \in Nat
        BY <3>2
      <4> QED BY <2>1, <3>1, <3>2, <3>3, <3>4, <3>6, <4>1 DEF RoomToMint
    <3>8. StartRemembered'
      BY <3>1, <3>2, <3>6, Zenon DEF StartRemembered
    <3> QED BY <3>6, <3>7, <3>8 DEF HubKept
  <2>14. ASSUME RecordStarted PROVE HubKept
    <3>1. /\ hub.pc = "record" /\ env' = [env EXCEPT !.of = hub.who] /\ UNCHANGED <<minted, login>>
          /\ hub' = [Down EXCEPT !.pc = "up", !.audit = hub.who]
      BY <2>14, Zenon DEF RecordStarted, storeVars, userVars
    <3>2. PICK c \in Companies, pc \in HubPcs : c = hub.who /\ pc = "up"
      BY <2>1, <2>b, Zenon DEF HubStates, Running
    <3>3. hub' = [Down EXCEPT !.pc = pc, !.audit = c] /\ env' = [env EXCEPT !.of = c]
      BY <3>1, <3>2
    <3>4. hub' \in HubStates /\ hub'.pc = pc /\ hub'.audit = c
      BY <2>10, <3>3, Zenon DEF HubStates
    <3>5. env'.of = c /\ env'.adopted = env.adopted /\ env'.replaced = env.replaced
      BY <2>10, <3>3, Zenon DEF Envs
    <3>6. hub.who = login.of \/ env.replaced
      BY <2>1, <3>1, Zenon DEF StartRemembered, Spawning
    <3>7. pc \in Running /\ pc \notin Spawning /\ pc \notin Stopping /\ pc # "mintWrite"
      BY <3>2 DEF Running, Spawning, Stopping
    <3>8. StartRemembered'
      BY <3>1, <3>2, <3>4, <3>5, <3>6, <3>7, Zenon DEF StartRemembered
    <3>9. RoomToMint'
      BY <3>4, <3>7, Zenon DEF RoomToMint, Spawning
    <3> QED BY <3>4, <3>8, <3>9 DEF HubKept
  <2>15. ASSUME PollExtend \/ PollDrop \/ PollIndex \/ PollFails \/ Stop PROVE HubKept
    <3>1. /\ hub.pc \in Running /\ hub'.pc \in Running /\ hub' \in HubStates /\ Same
      <4>1. CASE PollExtend
        <5>1. PICK h \in Handles : /\ hub.pc = "poll" /\ UNCHANGED <<minted, env, login>>
                                   /\ \/ hub' = [hub EXCEPT !.todo = hub.todo \ {h}, !.live = TRUE]
                                      \/ hub' = [hub EXCEPT !.todo = hub.todo \ {h}, !.dead = hub.dead \cup {h}]
          BY <2>10, <4>1, Zenon DEF PollExtend, userVars
        <5>2. PICK t \in SUBSET Handles, d \in SUBSET Handles, b \in BOOLEAN :
                  t = hub.todo \ {h} /\ d = hub.dead \cup {h} /\ b = TRUE
          BY <2>10, Zenon
        <5>3. CASE hub' = [hub EXCEPT !.todo = t, !.live = b]
          <6>1. hub' \in HubStates /\ Same /\ hub'.pc = hub.pc
            BY <2>1, <5>1, <5>3, Zenon DEF HubStates
          <6> QED BY <5>1, <6>1, Zenon DEF Running
        <5>4. CASE hub' = [hub EXCEPT !.todo = t, !.dead = d]
          <6>1. hub' \in HubStates /\ Same /\ hub'.pc = hub.pc
            BY <2>1, <5>1, <5>4, Zenon DEF HubStates
          <6> QED BY <5>1, <6>1, Zenon DEF Running
        <5> QED BY <5>1, <5>2, <5>3, <5>4
      <4>2. CASE PollIndex \/ PollFails
        <5>1. /\ hub.pc \in {"poll", "pollIndex"} /\ UNCHANGED <<minted, env, login>>
              /\ hub' = [hub EXCEPT !.pc = "up", !.todo = {}, !.live = FALSE, !.dead = {}]
          BY <4>2, Zenon DEF PollIndex, PollFails, PolledHub, storeVars, userVars
        <5>2. PICK pc \in HubPcs, e \in SUBSET Handles, b \in BOOLEAN : pc = "up" /\ e = {} /\ b = FALSE
          BY <2>b, <2>10, Zenon DEF Running
        <5>3. hub' = [hub EXCEPT !.pc = pc, !.todo = e, !.live = b, !.dead = e]
          BY <5>1, <5>2
        <5>4. hub' \in HubStates /\ Same /\ hub'.pc = pc
          BY <2>1, <5>1, <5>3, Zenon DEF HubStates
        <5> QED BY <5>1, <5>2, <5>4, Zenon DEF Running
      <4>3. CASE PollDrop \/ Stop
        <5>1. PICK pc \in Running : /\ hub.pc \in Running /\ hub' = [hub EXCEPT !.pc = pc]
                                    /\ UNCHANGED <<minted, env, login>>
          BY <4>3 DEF PollDrop, Stop, Hub, Running, storeVars, userVars
        <5>2. pc \in HubPcs
          BY <2>b, <5>1, Zenon
        <5>3. hub' \in HubStates /\ hub'.pc = pc /\ Same
          BY <2>a, <2>10, <5>1, <5>2, Zenon
        <5> QED BY <5>1, <5>3, Zenon
      <4> QED BY <2>15, <4>1, <4>2, <4>3, Zenon
    <3>2. hub'.pc \notin Spawning /\ hub'.pc # "mintWrite"
      BY <3>1 DEF Running, Spawning
    <3> QED BY <2>8, <3>1, <3>2, Zenon
  <2>16. ASSUME RecordStopped \/ HubRestarts PROVE HubKept
    <3>1. minted' = minted /\ login' = login
      BY <2>16, Zenon DEF RecordStopped, HubRestarts, storeVars, userVars
    <3>2. CASE hub' = Down /\ env' = NoEnv
      <4>1. env'.of = "none" /\ hub'.pc = "down" /\ hub' \in HubStates
        BY <2>10, <3>2, Zenon DEF NoEnv
      <4> QED BY <4>1 DEF HubKept, RoomToMint, StartRemembered, Spawning
    <3>3. CASE /\ hub.pc \in {"up", "poll", "pollIndex"} /\ hub' = [Down EXCEPT !.pc = "up"]
               /\ env' = [env EXCEPT !.adopted = TRUE]
      <4>1. PICK pc \in HubPcs : pc = "up"
        BY <2>b, Zenon DEF Running
      <4>2. hub' \in HubStates /\ hub'.pc = "up" /\ hub'.audit = "none"
        <5>1. hub' = [Down EXCEPT !.pc = pc]
          BY <3>3, <4>1
        <5> QED BY <2>10, <4>1, <5>1, Zenon DEF HubStates
      <4>3. env'.of = env.of /\ env'.adopted = TRUE /\ env'.replaced = env.replaced
        BY <2>10, <3>3, Zenon DEF Envs
      <4>4. env.of # "none" => login.of = env.of \/ env.replaced
        BY <2>1, <3>3, Zenon DEF StartRemembered, Running
      <4>5. "up" \in Running /\ "up" \notin Spawning /\ "up" \notin Stopping
        BY DEF Running, Spawning, Stopping
      <4>6. StartRemembered'
        BY <3>1, <4>2, <4>3, <4>4, <4>5, Zenon DEF StartRemembered
      <4>7. RoomToMint'
        BY <4>2 DEF RoomToMint
      <4> QED BY <4>2, <4>6, <4>7 DEF HubKept
    <3> QED BY <2>16, <3>2, <3>3, Zenon DEF RecordStopped, HubRestarts
  <2>17. ASSUME Spawn PROVE HubKept
    <3>1. PICK auds \in {<<"api">>, <<"api", "sql">>} :
              /\ minted + Len(auds) <= MaxHandles /\ hub.pc = "down"
              /\ hub' = [Down EXCEPT !.pc = "spawnList", !.left = auds, !.who = login.of]
              /\ env' = NoEnv /\ UNCHANGED <<minted, login>>
      BY <2>17, Zenon DEF Spawn, storeVars, userVars
    <3>2. PICK l \in Seq({"api", "sql"}), pc \in HubPcs, who \in Companies : l = auds /\ pc = "spawnList" /\ who = login.of
      <4>1. auds \in Seq({"api", "sql"})
        <5>1. <<"api">> \in Seq({"api", "sql"}) /\ <<"api", "sql">> \in Seq({"api", "sql"})
          OBVIOUS
        <5>2. auds = <<"api">> \/ auds = <<"api", "sql">>
          BY <3>1
        <5> QED BY <5>1, <5>2, Zenon
      <4>2. "spawnList" \in HubPcs /\ login.of \in Companies
        BY <2>1, <2>b, Zenon DEF Types, Logins, Spawning
      <4> QED BY <4>1, <4>2
    <3>3. hub' = [Down EXCEPT !.pc = pc, !.left = l, !.who = who]
      BY <3>1, <3>2
    <3>4. hub' \in HubStates /\ hub'.pc = pc /\ hub'.left = l /\ hub'.who = who
      BY <2>10, <3>3, Zenon DEF HubStates
    <3>5. env'.of = "none"
      BY <3>1, Zenon DEF NoEnv
    <3>6. StartRemembered'
      BY <3>1, <3>2, <3>4, <3>5, Zenon DEF StartRemembered
    <3> QED BY <2>1, <3>1, <3>2, <3>4, <3>6 DEF HubKept, RoomToMint
  <2>18. ASSUME RefreshUser PROVE HubKept
    <3>1. /\ UNCHANGED <<minted, env>> /\ login'.of = login.of
          /\ hub' = hub \/ (hub.pc = "up" /\ hub' = [hub EXCEPT !.pc = "stop"])
      BY <2>1, <2>18, Zenon DEF RefreshUser, storeVars, Types, Logins
    <3>2. CASE hub' = hub
      BY <2>1, <3>1, <3>2, Zenon DEF HubKept, RoomToMint, StartRemembered
    <3>3. CASE hub.pc = "up" /\ hub' = [hub EXCEPT !.pc = "stop"]
      <4>1. "stop" \in HubPcs /\ "stop" \in Running /\ "up" \in Running /\ "stop" \notin Spawning /\ "stop" \notin Stopping
        BY DEF HubPcs, Running, Spawning, Stopping
      <4>2. hub' \in HubStates /\ hub'.pc = "stop" /\ hub'.audit = hub.audit
        BY <2>a, <2>10, <3>3, <4>1, Zenon
      <4>3. StartRemembered'
        BY <2>1, <3>1, <3>3, <4>1, <4>2, Zenon DEF StartRemembered
      <4> QED BY <4>2, <4>3 DEF HubKept, RoomToMint
    <3> QED BY <3>1, <3>2, <3>3
  <2>c. ASSUME StopHook PROVE HubKept
    <3>1. /\ hub.pc = "stop" /\ UNCHANGED <<minted, env, login>>
          /\ hub' = [Down EXCEPT !.pc = "stopRevoke", !.audit = StopCompany, !.todo = index]
      BY <2>c, Zenon DEF StopHook, ServerHandles, storeVars, userVars
    <3>2. hub.audit \in Companies /\ login.of \in Companies
      BY <2>1, Zenon DEF HubStates, Types, Logins
    <3>3. PICK pc \in HubPcs, c \in Companies : pc = "stopRevoke" /\ c = StopCompany
      BY <2>b, <3>2, Zenon DEF Stopping, StopCompany
    <3>4. hub' = [Down EXCEPT !.pc = pc, !.audit = c, !.todo = index]
      BY <3>1, <3>3
    <3>5. hub' \in HubStates /\ hub'.pc = pc /\ hub'.audit = c
      BY <2>10, <3>4, Zenon DEF HubStates
    <3>6. pc \in Stopping /\ pc \notin Running /\ pc \notin Spawning /\ hub.pc \in Running
      BY <3>1, <3>3 DEF Stopping, Running, Spawning
    <3>7. env.of # "none" => c = env.of \/ (env.adopted /\ env.replaced)
      BY <2>1, <3>3, <3>6, Zenon DEF StartRemembered, StopCompany
    <3>8. StartRemembered'
      BY <3>1, <3>5, <3>6, <3>7, Zenon DEF StartRemembered
    <3> QED BY <3>3, <3>5, <3>8 DEF HubKept, RoomToMint
  <2>d. ASSUME HubLogin PROVE HubKept
    <3> DEFINE seen == env.replaced \/ hub.pc \notin {"down", "stopRevoke", "stopRecord"}
    <3>1. /\ hub' = hub /\ minted' = minted /\ env' = [env EXCEPT !.replaced = seen]
      BY <2>d, Zenon DEF HubLogin, storeVars
    <3>2. env'.of = env.of /\ env'.adopted = env.adopted /\ env'.replaced = seen
      BY <2>10, <3>1, Zenon DEF Envs
    <3>3. hub.pc \in Running \cup Spawning => seen
      BY DEF Running, Spawning
    <3>4. env.replaced => seen
      OBVIOUS
    <3> HIDE DEF seen
    <3>5. StartRemembered'
      BY <2>1, <3>1, <3>2, <3>3, <3>4, Zenon DEF StartRemembered
    <3> QED BY <2>1, <3>1, <3>5, Zenon DEF HubKept, RoomToMint
  <2>19. ASSUME \/ MoveUser \/ SignOut \/ SignOutRevoke \/ Suspension \/ (\E h \in Handles : Present(h))
                \/ OpenUpstream \/ EnrolCheck \/ EnrolWrite \/ StartRelay \/ Watch \/ CloseConn \/ Tick \/ UNCHANGED vars
         PROVE  HubKept
    <3>1. hub' = hub /\ UNCHANGED <<minted, env, login>>
      BY <2>19, Zenon DEF MoveUser, SignOut, SignOutRevoke, Suspension, Present, OpenUpstream, EnrolCheck,
         EnrolWrite, StartRelay, Watch, CloseConn, Tick, SqlStep, storeVars, userVars, vars
    <3> QED BY <2>9, <3>1
  <2>20. HubKept
    BY <2>11, <2>12, <2>13, <2>14, <2>15, <2>16, <2>17, <2>18, <2>19, <2>c, <2>d DEF Next, HubStep, PollStep, ProxyStep
  <2>21. tenant' \in Companies /\ login' \in Logins /\ env' \in Envs
    <3>1. /\ tenant' \in {tenant, "B"}
          /\ login' = login \/ login' = [of |-> tenant, good |-> TRUE] \/ login' = [login EXCEPT !.good = FALSE]
      BY Zenon DEF Next, MoveUser, HubLogin, RefreshUser, Spawn, HubStep, SpawnRevoke, ListHandles, RevokeListed, MintCheck,
         MintWrite, RecordStarted, PollStep, PollList, PollExtend, PollDrop, PollIndex, StopHook, StopRevoke,
         RecordStopped, PollFails, Stop,
         HubRestarts, SignOut, SignOutRevoke, Suspension, Present, ProxyStep, OpenUpstream, EnrolCheck, EnrolWrite,
         StartRelay, Watch, CloseConn, Tick, SqlStep, userVars, vars
    <3>2. \/ env' = env \/ env' = NoEnv \/ env' = [env EXCEPT !.of = hub.who] \/ env' = [env EXCEPT !.adopted = TRUE]
          \/ env' = [env EXCEPT !.replaced = env.replaced \/ hub.pc \notin {"down", "stopRevoke", "stopRecord"}]
      BY Zenon DEF Next, MoveUser, HubLogin, RefreshUser, Spawn, HubStep, SpawnRevoke, ListHandles, RevokeListed, MintCheck,
         MintWrite, RecordStarted, PollStep, PollList, PollExtend, PollDrop, PollIndex, StopHook, StopRevoke,
         RecordStopped, PollFails, Stop,
         HubRestarts, SignOut, SignOutRevoke, Suspension, Present, ProxyStep, OpenUpstream, EnrolCheck, EnrolWrite,
         StartRelay, Watch, CloseConn, Tick, SqlStep, vars
    <3>3. NoEnv \in Envs /\ hub.who \in Companies
      BY <2>1 DEF Envs, NoEnv, HubStates, Companies
    <3>4. env' \in Envs
      <4>1. CASE \E c \in Companies : env' = [env EXCEPT !.of = c]
        BY <2>10, <4>1, Zenon DEF Envs
      <4>2. CASE \E b \in BOOLEAN : env' = [env EXCEPT !.adopted = b] \/ env' = [env EXCEPT !.replaced = b]
        BY <2>10, <4>2, Zenon DEF Envs
      <4> QED BY <2>10, <3>2, <3>3, <4>1, <4>2, Zenon
    <3>5. login' \in Logins
      <4>1. ASSUME NEW b \in BOOLEAN, login' = [login EXCEPT !.good = b] PROVE login' \in Logins
        BY <2>1, <4>1, Zenon DEF Types, Logins
      <4>2. ASSUME NEW b \in BOOLEAN, login' = [of |-> tenant, good |-> b] PROVE login' \in Logins
        BY <2>1, <4>2, Zenon DEF Types, Logins
      <4> QED BY <2>1, <3>1, <4>1, <4>2, Zenon DEF Types
    <3> QED BY <2>1, <3>1, <3>4, <3>5 DEF Types, Companies
  <2>22. platform'.todo \subseteq Handles
    <3>1. platform' = platform \/ platform' = [pc |-> "revoke", todo |-> index] \/ platform' = [pc |-> "idle", todo |-> {}]
      BY Zenon DEF Next, MoveUser, HubLogin, RefreshUser, Spawn, HubStep, SpawnRevoke, ListHandles, RevokeListed, MintCheck,
         MintWrite, RecordStarted, PollStep, PollList, PollExtend, PollDrop, PollIndex, StopHook, StopRevoke, RecordStopped, PollFails, Stop,
         HubRestarts, SignOut, SignOutRevoke, Suspension, Present, ProxyStep, OpenUpstream, EnrolCheck, EnrolWrite,
         StartRelay, Watch, CloseConn, Tick, SqlStep, vars
    <3> QED BY <2>1, <2>10, <3>1 DEF Types
  <2> QED BY <2>2, <2>7, <2>20, <2>21, <2>22 DEF IInv, Types, HubKept
<1> QED BY <1>1, <1>2, PTL DEF Spec

\* A revoked or expired handle never comes back, for any number of handles and any lifetime
\* (refresh_server, revoke_server, revoke_user_capabilities): every step that writes an entry of a
\* handle listed earlier finds it present when it writes.
THEOREM HandlesStayRevoked == Spec => NeverRevived
<1>1. IInv /\ [Next]_vars => [OnlyMintingCreates]_vars
  BY StoreStep DEF IInv
<1>2. [OnlyMintingCreates]_vars =>
        [\A h \in Handles : entry[h] = 0 /\ entry'[h] > 0 => h = minted' /\ minted' = minted + 1]_vars
  BY DEF OnlyMintingCreates
<1> QED BY <1>1, <1>2, Invariance, PTL DEF Spec, NeverRevived

\* A relayed SQL session outlives its capability by at most one re-check interval, whatever the
\* interval (PostgresBackend._watch): what is once refused is refused at the next re-check too.
THEOREM SessionEndsWithItsHandle == Spec => []SessionFollowsHandle
<1>1. IInv => SessionFollowsHandle
  <2> SUFFICES ASSUME IInv PROVE conn.gone <= Revalidate
    BY DEF SessionFollowsHandle
  <2>1. conn.gone <= conn.age /\ conn.age <= Revalidate
    BY DEF IInv, SessionInv
  <2>2. conn.gone \in Nat /\ conn.age \in Nat /\ Revalidate \in Nat
    BY NotebookBounds DEF IInv, Types, Conns
  <2> QED BY <2>1, <2>2
<1> QED BY <1>1, Invariance, PTL

\* A stop is recorded under the company of its start through moves and sign-ins, and through restarts
\* of the hub too unless a sign-in replaced the login's facts meanwhile (bind_identity_and_profile,
\* revoke_server_capabilities).
THEOREM StopNamedAsStarted == Spec => []StopNamesItsCompany
<1>1. IInv => StopNamesItsCompany
  BY Zenon DEF IInv, StartRemembered, StopNamesItsCompany, Stopping
<1> QED BY <1>1, Invariance, PTL
-----------------------------------------------------------------------------
(* The record of capability use (CapabilityAudit), an instance with variables of its own. *)

CONSTANTS Consumers, MaxEvents, MaxStream, Batch, MaxRepeats, MaxFaults, RepeatWindow, CountTTL
VARIABLES window, count, repeats, quiet, last, stream, kind, seen, pel, drain, rows, skipped, trimmed, faults

Audit == INSTANCE CapabilityAudit

Counts == [presented : Nat, accounted : Nat]
Passes == [pc : {"idle", "read", "write", "ack"}, batch : SUBSET Audit!Ids]

AuditTypes ==
    /\ count \in [n : Nat, left : Nat] /\ quiet \in Nat /\ repeats \in Counts
    /\ last \in Nat /\ last <= MaxEvents
    /\ stream \subseteq 1..last
    /\ drain \in [Consumers -> Passes]
    /\ rows \in [Audit!Ids -> {0, 1}]

\* What a consumer is about to acknowledge is in the record, or is skipped.
AckedIsWritten ==
    \A c \in Consumers : drain[c].pc = "ack" =>
        \A i \in drain[c].batch : rows[i] > 0 \/ i \in skipped

\* What is left of a count's life is what has not passed since the last repeatable event; without
\* this, an expiry could lose one that another followed.
CountOutlivesQuiet ==
    IF count.left = 0 THEN count.n = 0 ELSE count.left + quiet = CountTTL

AuditInv == AuditTypes /\ AckedIsWritten /\ CountOutlivesQuiet /\ Audit!RecordedExactly

\* Every event appended is recorded once or accounted for, and every repeatable event is recorded,
\* reported as suppressed or still counted, unless none followed it for a whole count's life, for any
\* lives of the window and the count (drain_once, record_capability_use, REPEAT_SCRIPT).
THEOREM RecordIsExact == ASSUME Audit!AuditBounds PROVE Audit!Spec => []Audit!RecordedExactly
<1>0. MaxEvents \in Nat /\ CountTTL \in Nat \ {0}
  BY DEF Audit!AuditBounds
\* The empty stream and the empty record.
<1>i. ASSUME Audit!Init
      PROVE  AuditInv
  <2> USE <1>i
  <2>1. AuditTypes
    BY <1>0 DEF Audit!Init, AuditTypes, Counts, Passes, Audit!Idle, Audit!Ids, Audit!NoCount
  <2>2. AckedIsWritten /\ CountOutlivesQuiet /\ Audit!RecordedExactly
    BY <1>0 DEF Audit!Init, AckedIsWritten, CountOutlivesQuiet, Audit!RecordedExactly, Audit!Idle, Audit!Ids, Audit!NoCount
  <2> QED BY <2>1, <2>2 DEF AuditInv
\* An appended event is in the stream, and what it pushed out is noted.
<1>a. ASSUME AuditInv, Audit!Append, UNCHANGED Audit!writeVars
      PROVE  /\ last' \in Nat /\ last' <= MaxEvents /\ stream' \subseteq 1..last'
             /\ \A i \in 1..last' : i \in stream' \/ rows'[i] > 0 \/ i \in skipped' \/ i \in trimmed'
  <2> USE <1>a
  <2>1. PICK old \in SUBSET stream : stream' = (stream \ old) \cup {last + 1} /\ trimmed' = trimmed \cup old
    BY Zenon DEF Audit!Append, Audit!Least
  <2>2. last' = last + 1 /\ last < MaxEvents /\ last \in Nat /\ stream \subseteq 1..last
    BY DEF Audit!Append, AuditInv, AuditTypes
  <2>3. last' \in Nat /\ last' <= MaxEvents /\ stream' \subseteq 1..last'
    BY <2>1, <2>2, <1>0
  <2>4. rows' = rows /\ skipped' = skipped
    BY DEF Audit!writeVars
  <2>5. ASSUME NEW i \in 1..last' PROVE i \in stream' \/ rows'[i] > 0 \/ i \in skipped' \/ i \in trimmed'
    <3>1. CASE i = last + 1
      BY <3>1, <2>1
    <3>2. CASE i # last + 1
      <4>1. i \in 1..last
        BY <3>2, <2>2
      <4> QED BY <4>1, <2>1, <2>4 DEF AuditInv, Audit!RecordedExactly
    <3> QED BY <3>1, <3>2
  <2> QED BY <2>3, <2>5
\* A consumer that starts, or drops what it holds, is well typed and has nothing to acknowledge.
<1>d. ASSUME AuditInv, NEW c \in Consumers, NEW pc \in {"idle", "read", "write"}, NEW b \in SUBSET Audit!Ids,
             Audit!Drain(c, pc, b), rows' \in [Audit!Ids -> {0, 1}], skipped \subseteq skipped',
             \A i \in Audit!Ids : rows[i] > 0 => rows'[i] > 0
      PROVE  drain' \in [Consumers -> Passes] /\ AckedIsWritten'
  <2> USE <1>d
  <2>1. drain' \in [Consumers -> Passes]
    BY DEF AuditInv, AuditTypes, Passes, Audit!Drain
  <2>2. ASSUME NEW d \in Consumers, drain'[d].pc = "ack", NEW i \in drain'[d].batch
        PROVE  rows'[i] > 0 \/ i \in skipped'
    <3>1. d # c /\ drain'[d] = drain[d]
      BY <2>2 DEF AuditInv, AuditTypes, Audit!Drain
    <3>2. i \in Audit!Ids
      BY <2>1, <2>2 DEF Passes
    <3> QED BY <2>2, <3>1, <3>2 DEF AuditInv, AckedIsWritten
  <2> QED BY <2>1, <2>2 DEF AckedIsWritten
\* Rows are inserted once.
<1>r. ASSUME AuditInv, NEW S \in SUBSET Audit!Ids, Audit!Insert(S)
      PROVE  /\ rows' \in [Audit!Ids -> {0, 1}]
             /\ \A i \in Audit!Ids : rows[i] > 0 => rows'[i] > 0
             /\ \A i \in S : rows'[i] > 0
  BY <1>r DEF AuditInv, AuditTypes, Audit!Insert
\* The record stays exact when it grows, the stream the same.
<1>g. ASSUME AuditInv, UNCHANGED <<Audit!planeVars, last, stream, trimmed>>, rows' \in [Audit!Ids -> {0, 1}],
             \A i \in Audit!Ids : rows[i] > 0 => rows'[i] > 0, skipped \subseteq skipped'
      PROVE  Audit!RecordedExactly'
  <2> USE <1>g
  <2>1. \A i \in 1..last : i \in Audit!Ids
    BY <1>0 DEF AuditInv, AuditTypes, Audit!Ids
  <2> QED BY <2>1 DEF AuditInv, AuditTypes, Audit!RecordedExactly, Audit!planeVars
\* What the planes' marker and count hold is not the writer's.
<1>p. ASSUME AuditInv, UNCHANGED Audit!planeVars
      PROVE  CountOutlivesQuiet'
  BY <1>p, Zenon DEF AuditInv, CountOutlivesQuiet, Audit!planeVars
\* Every step keeps the invariant.
<1>n. ASSUME AuditInv, [Audit!Next]_(Audit!vars)
      PROVE  AuditInv'
  <2> USE <1>n
  <2>1. CASE Audit!Record
    <3>1. Audit!Append /\ UNCHANGED <<Audit!planeVars, Audit!writeVars>>
      BY <2>1 DEF Audit!Record
    <3>2. AuditTypes'
      BY <3>1, <1>a DEF AuditInv, AuditTypes, Audit!planeVars, Audit!writeVars
    <3>3. AckedIsWritten'
      BY <3>1 DEF AuditInv, AckedIsWritten, Audit!writeVars
    <3>4. Audit!RecordedExactly'
      BY <3>1, <1>a DEF AuditInv, Audit!RecordedExactly, Audit!planeVars, Audit!writeVars
    <3> QED BY <1>p, <3>1, <3>2, <3>3, <3>4 DEF AuditInv
  <2>a. count.n \in Nat /\ count.left \in Nat /\ quiet \in Nat /\ repeats.presented \in Nat /\ repeats.accounted \in Nat
        /\ repeats.presented = repeats.accounted + count.n
    BY DEF AuditInv, AuditTypes, Counts, Audit!RecordedExactly
  <2>2. CASE Audit!Repeat
    <3>1. /\ count' \in [n : Nat, left : Nat] /\ quiet' \in Nat /\ repeats' \in Counts
          /\ repeats'.presented = repeats'.accounted + count'.n /\ CountOutlivesQuiet'
      <4>1. CASE window > 0
        <5>1. count' = [n |-> count.n + 1, left |-> CountTTL] /\ quiet' = 0
          BY <2>2, <4>1 DEF Audit!Repeat, Audit!Counted
        <5>2. repeats' = [repeats EXCEPT !.presented = @ + 1]
          BY <2>2, <4>1 DEF Audit!Repeat
        <5> QED BY <2>a, <5>1, <5>2, <1>0 DEF CountOutlivesQuiet, AuditInv, AuditTypes, Counts
      <4>2. CASE ~(window > 0)
        <5>1. count' = [n |-> 0, left |-> 0] /\ quiet' = 0
          BY <2>2, <4>2 DEF Audit!Repeat, Audit!NoCount
        <5>2. repeats' = [repeats EXCEPT !.presented = @ + 1, !.accounted = @ + 1 + count.n]
          BY <2>2, <4>2 DEF Audit!Repeat
        <5>3. repeats'.presented = repeats.presented + 1 /\ repeats'.accounted = repeats.accounted + 1 + count.n
          BY <2>a, <5>2 DEF AuditInv, AuditTypes, Counts
        <5>4. repeats' \in Counts
          <6>1. PICK p \in Nat, a \in Nat : p = repeats.presented + 1 /\ a = repeats.accounted + 1 + count.n
            BY <2>a
          <6>2. repeats' = [repeats EXCEPT !.presented = p, !.accounted = a]
            BY <5>2, <6>1
          <6> QED BY <6>2, Zenon DEF AuditInv, AuditTypes, Counts
        <5>5. count' \in [n : Nat, left : Nat] /\ count'.n = 0 /\ CountOutlivesQuiet'
          BY <5>1 DEF CountOutlivesQuiet
        <5> QED BY <2>a, <5>1, <5>3, <5>4, <5>5
      <4> QED BY <4>1, <4>2
    <3>2. UNCHANGED Audit!writeVars
      BY <2>2 DEF Audit!Repeat
    <3>3. /\ last' \in Nat /\ last' <= MaxEvents /\ stream' \subseteq 1..last'
          /\ \A i \in 1..last' : i \in stream' \/ rows'[i] > 0 \/ i \in skipped' \/ i \in trimmed'
      <4>1. CASE window > 0
        BY <4>1, <2>2, <3>2 DEF Audit!Repeat, Audit!logVars, Audit!writeVars, AuditInv, AuditTypes, Audit!RecordedExactly
      <4>2. CASE ~(window > 0)
        BY <4>2, <2>2, <3>2, <1>a DEF Audit!Repeat
      <4> QED BY <4>1, <4>2
    <3>4. AuditTypes'
      BY <3>1, <3>2, <3>3 DEF AuditInv, AuditTypes, Audit!writeVars
    <3>5. AckedIsWritten'
      BY <3>2 DEF AuditInv, AckedIsWritten, Audit!writeVars
    <3>6. Audit!RecordedExactly'
      BY <3>1, <3>2, <3>3, Zenon DEF AuditInv, Audit!RecordedExactly, Audit!writeVars
    <3> QED BY <3>1, <3>4, <3>5, <3>6 DEF AuditInv
  <2>3. CASE Audit!GoIdle \/ UNCHANGED Audit!vars
    <3>1. UNCHANGED <<count, quiet, repeats, last, stream, trimmed, drain, rows, skipped>>
      BY <2>3 DEF Audit!GoIdle, Audit!vars, Audit!planeVars, Audit!logVars, Audit!writeVars
    <3> QED BY <3>1 DEF AuditInv, AuditTypes, AckedIsWritten, CountOutlivesQuiet, Audit!RecordedExactly
  \* A count that expires has gone unfollowed for its whole life.
  <2>8. CASE Audit!RepeatAges
    <3>1. UNCHANGED <<last, stream, trimmed, drain, rows, skipped>>
      BY <2>8 DEF Audit!RepeatAges, Audit!logVars, Audit!writeVars
    <3>2. /\ count' \in [n : Nat, left : Nat] /\ quiet' \in Nat /\ repeats' \in Counts
          /\ repeats'.presented = repeats'.accounted + count'.n /\ CountOutlivesQuiet'
      <4>1. CASE count.left > 1
        <5>1. count' = [count EXCEPT !.left = @ - 1] /\ quiet' = quiet + 1 /\ repeats' = [repeats EXCEPT !.accounted = @ + 0]
          BY <2>8, <2>a, <4>1 DEF Audit!RepeatAges
        <5> QED BY <2>a, <4>1, <5>1, <1>0 DEF CountOutlivesQuiet, AuditInv, AuditTypes, Counts
      <4>2. CASE ~(count.left > 1)
        <5>1. count' = [n |-> 0, left |-> 0] /\ quiet' = 0
          BY <2>8, <4>2 DEF Audit!RepeatAges, Audit!NoCount
        <5>2. repeats' = [repeats EXCEPT !.accounted = @ + count.n]
          <6>1. CASE count.left = 1
            <7>1. quiet + 1 >= CountTTL
              BY <2>a, <6>1, <1>0 DEF AuditInv, CountOutlivesQuiet
            <7> QED BY <2>8, <6>1, <7>1 DEF Audit!RepeatAges
          <6>2. CASE count.left = 0
            <7>1. count.n = 0
              BY <6>2 DEF AuditInv, CountOutlivesQuiet
            <7>2. repeats' = [repeats EXCEPT !.accounted = @ + 0]
              BY <2>8, <6>2 DEF Audit!RepeatAges
            <7> QED BY <7>1, <7>2
          <6>3. count.left = 0 \/ count.left = 1
            <7>1. \A k \in Nat : ~(k > 1) => k = 0 \/ k = 1
              OBVIOUS
            <7> QED BY <2>a, <4>2, <7>1, Zenon
          <6> QED BY <6>1, <6>2, <6>3, Zenon
        <5> QED BY <2>a, <5>1, <5>2 DEF CountOutlivesQuiet, AuditInv, AuditTypes, Counts
      <4> QED BY <4>1, <4>2
    <3>3. AuditTypes' /\ AckedIsWritten'
      BY <3>1, <3>2, Zenon DEF AuditInv, AuditTypes, AckedIsWritten
    <3>4. Audit!RecordedExactly'
      BY <3>1, <3>2, Zenon DEF AuditInv, Audit!RecordedExactly
    <3> QED BY <3>2, <3>3, <3>4 DEF AuditInv
  <2>4. ASSUME NEW c \in Consumers, Audit!ClaimPending(c) \/ Audit!ReadNew(c) \/ Audit!Crash(c) PROVE AuditInv'
    <3>1. UNCHANGED <<Audit!planeVars, last, stream, trimmed, rows, skipped>>
      BY <2>4, Zenon DEF Audit!ClaimPending, Audit!ReadNew, Audit!Crash, Audit!logVars
    <3>2. stream \subseteq Audit!Ids /\ drain[c].batch \subseteq Audit!Ids
      BY <1>0 DEF AuditInv, AuditTypes, Passes, Audit!Ids
    <3>3. PICK pc \in {"idle", "read", "write"}, b \in SUBSET Audit!Ids : Audit!Drain(c, pc, b)
      <4>1. CASE Audit!ClaimPending(c)
        BY <4>1, <3>2, Zenon DEF Audit!ClaimPending, Audit!Least
      <4>2. CASE Audit!ReadNew(c)
        <5> DEFINE fresh == Audit!Least({i \in stream : i > seen}, Batch)
                   got == drain[c].batch \cup fresh
        <5>1. got \in SUBSET Audit!Ids
          BY <3>2, Zenon DEF Audit!Least
        <5>2. Audit!Drain(c, IF got = {} THEN "idle" ELSE "write", got)
          BY <4>2 DEF Audit!ReadNew
        <5> QED BY <5>1, <5>2, Zenon
      <4>3. CASE Audit!Crash(c)
        BY <4>3, Zenon DEF Audit!Crash
      <4> QED BY <2>4, <4>1, <4>2, <4>3, Zenon
    <3>4. rows' \in [Audit!Ids -> {0, 1}] /\ (\A i \in Audit!Ids : rows[i] > 0 => rows'[i] > 0) /\ skipped \subseteq skipped'
      BY <3>1, Zenon DEF AuditInv, AuditTypes
    <3>5. drain' \in [Consumers -> Passes] /\ AckedIsWritten'
      BY <3>3, <3>4, <1>d, Zenon
    <3>6. Audit!RecordedExactly'
      BY <3>1, <3>4, <1>g, Zenon
    <3>7. AuditTypes'
      BY <3>1, <3>4, <3>5, Zenon DEF AuditInv, AuditTypes, Audit!planeVars
    <3> QED BY <1>p, <3>1, <3>5, <3>6, <3>7 DEF AuditInv
  <2>5. ASSUME NEW c \in Consumers, Audit!Write(c) PROVE AuditInv'
    <3> DEFINE b == drain[c].batch
    <3>1. b \in SUBSET Audit!Ids /\ Audit!Accepted(b) \in SUBSET Audit!Ids
      BY DEF AuditInv, AuditTypes, Passes, Audit!Accepted
    <3>2. Audit!Insert(Audit!Accepted(b)) /\ skipped' = skipped \cup (b \ Audit!Accepted(b)) /\ Audit!Drain(c, "ack", b)
          /\ UNCHANGED <<Audit!planeVars, last, stream, trimmed>>
      BY <2>5, Zenon DEF Audit!Write, Audit!logVars
    <3>3. /\ rows' \in [Audit!Ids -> {0, 1}]
          /\ \A i \in Audit!Ids : rows[i] > 0 => rows'[i] > 0
          /\ \A i \in Audit!Accepted(b) : rows'[i] > 0
      BY <3>1, <3>2, <1>r, Zenon
    <3>4. drain' \in [Consumers -> Passes]
      BY <3>1, <3>2, Zenon DEF AuditInv, AuditTypes, Passes, Audit!Drain
    <3>5. ASSUME NEW d \in Consumers, drain'[d].pc = "ack", NEW i \in drain'[d].batch
          PROVE  rows'[i] > 0 \/ i \in skipped'
      <4>1. CASE d = c
        <5>1. i \in b
          BY <3>2, <3>5, <4>1 DEF AuditInv, AuditTypes, Audit!Drain
        <5> QED BY <5>1, <3>2, <3>3, Zenon
      <4>2. CASE d # c
        <5>1. drain'[d] = drain[d]
          BY <3>2, <4>2, Zenon DEF AuditInv, AuditTypes, Audit!Drain
        <5>2. i \in Audit!Ids
          BY <3>4, <3>5 DEF Passes
        <5> QED BY <5>1, <5>2, <3>5, <3>2, <3>3, Zenon DEF AuditInv, AckedIsWritten
      <4> QED BY <4>1, <4>2
    <3>6. Audit!RecordedExactly'
      BY <3>2, <3>3, <1>g, Zenon
    <3>7. AuditTypes'
      BY <3>2, <3>3, <3>4, Zenon DEF AuditInv, AuditTypes, Audit!planeVars
    <3> QED BY <1>p, <3>2, <3>5, <3>6, <3>7 DEF AuditInv, AckedIsWritten
  <2>6. ASSUME NEW c \in Consumers, Audit!WriteFails(c) PROVE AuditInv'
    <3>1. PICK S \in SUBSET Audit!Ids : Audit!Insert(S)
      BY <2>6, Zenon DEF Audit!WriteFails, Audit!Accepted, Audit!Least, Audit!Readable, AuditInv, AuditTypes, Passes
    <3>2. Audit!Drain(c, "idle", {}) /\ UNCHANGED <<Audit!planeVars, last, stream, trimmed, skipped>>
      BY <2>6, Zenon DEF Audit!WriteFails, Audit!logVars
    <3>3. rows' \in [Audit!Ids -> {0, 1}] /\ \A i \in Audit!Ids : rows[i] > 0 => rows'[i] > 0
      BY <3>1, <1>r, Zenon
    <3>4. drain' \in [Consumers -> Passes] /\ AckedIsWritten'
      BY <3>2, <3>3, <1>d
    <3>5. Audit!RecordedExactly'
      BY <3>2, <3>3, <1>g, Zenon
    <3>6. AuditTypes'
      BY <3>2, <3>3, <3>4, Zenon DEF AuditInv, AuditTypes, Audit!planeVars
    <3> QED BY <1>p, <3>2, <3>4, <3>5, <3>6, Zenon DEF AuditInv
  <2>7. ASSUME NEW c \in Consumers, Audit!Ack(c) PROVE AuditInv'
    <3> DEFINE b == drain[c].batch
    <3>1. stream' = stream \ b /\ Audit!Drain(c, "idle", {}) /\ UNCHANGED <<Audit!planeVars, last, trimmed, rows, skipped>>
      BY <2>7, Zenon DEF Audit!Ack
    <3>2. \A i \in b : rows[i] > 0 \/ i \in skipped
      BY <2>7, Zenon DEF Audit!Ack, AuditInv, AckedIsWritten
    <3>3. rows' \in [Audit!Ids -> {0, 1}] /\ (\A i \in Audit!Ids : rows[i] > 0 => rows'[i] > 0) /\ skipped \subseteq skipped'
      BY <3>1, Zenon DEF AuditInv, AuditTypes
    <3>4. drain' \in [Consumers -> Passes] /\ AckedIsWritten'
      BY <3>1, <3>3, <1>d
    <3>5. Audit!RecordedExactly'
      BY <3>1, <3>2, Zenon DEF AuditInv, Audit!RecordedExactly, Audit!planeVars
    <3>6. AuditTypes'
      BY <3>1, <3>3, <3>4, Zenon DEF AuditInv, AuditTypes, Audit!planeVars
    <3> QED BY <1>p, <3>1, <3>4, <3>5, <3>6, Zenon DEF AuditInv
  <2> QED BY <2>1, <2>2, <2>3, <2>4, <2>5, <2>6, <2>7, <2>8, Zenon DEF Audit!Next, Audit!Pass
<1>1. AuditInv => Audit!RecordedExactly
  BY DEF AuditInv
<1> QED BY <1>1, <1>i, <1>n, PTL DEF Audit!Spec
=============================================================================
