--------------------------- MODULE SessionsProofs ---------------------------
(***************************************************************************)
(* The sessions of a user: for any clients, tokens, sessions, changes of   *)
(* the account, lifetimes and allowances.                                  *)
(***************************************************************************)
EXTENDS Sessions, TLAPS

Waits == {"signInWait", "mintWait"}
Pcs == {"idle", "signIn", "signInToken", "claimed", "check", "load", "issue", "readRecord",
        "writeRecord", "mint", "replay", "reused", "listReused", "sweepReused", "logoutRecord",
        "logoutAccess", "endAll", "listAll", "sweepAll", "recordAll"} \cup Waits
Reqs == [pc : Pcs, tok : Nat, sid : 0..MaxSessions, cred : Nat, succ : Nat, mark : BOOLEAN,
         todo : SUBSET Nat, at : Nat, late : BOOLEAN]
Rotations == [at : Nat, succ : Nat, ended : BOOLEAN]
Ends == [at : Nat, until : Nat]
Accesses == [sid : Sids, iat : Nat]
Sockets == [sid : 0..MaxSessions, iat : Nat, checked : Nat, erred : Nat]

Types ==
    /\ now \in Nat \ {0} /\ now <= Horizon + 1
    /\ token \in [Tokens -> [sid : 0..MaxSessions, cred : Nat]]
    /\ issued \in 0..MaxTokens
    /\ live \subseteq 1..issued /\ index \subseteq Tokens
    /\ rotated \in [Tokens -> Rotations]
    /\ ended \in [Sids -> Ends]
    /\ userEnded \in Nat /\ userEnded <= now
    /\ access \subseteq Accesses
    /\ cred \in Nat \ {0} /\ credOf \in [Sids -> Nat] /\ changed \in Nat
    /\ account \in {"active", "inactive", "suspended"}
    /\ socket \in Sockets
    /\ req \in [Actors -> Reqs]

\* A refresh token is of an opened session, and of the password it was opened with.
TokensOpened ==
    \A t \in 1..issued : /\ token[t].sid \in Sids /\ token[t].cred # 0
                         /\ token[t].cred = credOf[token[t].sid]

\* What a request carries: until it has minted, the password its session was opened with; the
\* session it is to record ended; the token it presented.
Carries(r) ==
    /\ r.pc \in {"signIn", "signInToken", "claimed", "check", "load", "issue", "readRecord",
                 "writeRecord", "replay", "mint"} \cup Waits =>
         r.sid \in Sids /\ r.cred # 0 /\ r.cred = credOf[r.sid]
    /\ r.pc \in {"reused", "listReused", "sweepReused", "recordAll"} => r.sid \in Sids
    /\ r.pc \in {"claimed", "check", "load", "issue", "readRecord", "writeRecord", "replay", "reused",
                 "logoutRecord"} => r.tok \in 1..issued

\* A request lasts at most a tick, but one that waits lasts until its time.
OnTime(r) ==
    \/ r.pc = "idle"
    \/ r.pc \in Waits /\ now <= r.at /\ r.at <= now + Skew + 1
    \/ r.pc \in Pcs \ ({"idle"} \cup Waits) /\ r.at <= now /\ now <= r.at + 1

\* A request about to mint in a session of an earlier password began before the change.
BeforeChange(r) ==
    /\ r.pc \in {"signIn", "issue", "readRecord", "writeRecord", "mint"} /\ credOf[r.sid] < cred =>
         r.at <= changed
    /\ r.pc \in Waits /\ credOf[r.sid] < cred => r.at <= changed + Skew + 2

\* A token presented late, its session recorded ended, does not get as far as a successor.
LateRefused(r) ==
    r.late =>
        /\ r.pc \notin {"issue", "readRecord", "writeRecord"}
        /\ r.pc = "load" => r.succ # 0
        /\ r.pc \in {"claimed", "check"} => ended[r.sid].until > r.at + 1

Good(r) == Carries(r) /\ OnTime(r) /\ BeforeChange(r) /\ LateRefused(r)

\* The request has the right to issue the session's next refresh token.
MayIssue(r) ==
    \/ r.pc \in {"signIn", "signInWait", "signInToken", "claimed", "check", "issue"}
    \/ r.pc = "load" /\ r.succ = 0

\* Of a session there is one live token or one request that may issue it, not both.
OneHolder ==
    /\ OneLiveToken
    /\ \A a \in Actors : MayIssue(req[a]) => \A t \in live : token[t].sid # req[a].sid
    /\ \A a, b \in Actors : MayIssue(req[a]) /\ MayIssue(req[b]) /\ req[a].sid = req[b].sid => a = b

\* The record of an end outlives the tokens it has to refuse.
EndsRecorded ==
    \A s \in Sids : ended[s].at # 0 => ended[s].at <= now /\ ended[s].until >= ended[s].at + EndedTTL

\* An access token of an earlier password was minted before the change, or by a request that
\* began before it.
AccessMinted ==
    \A x \in access : /\ x.iat <= now /\ x.iat # 0
                      /\ credOf[x.sid] < cred => x.iat <= changed + Skew + 2

\* The socket was re-checked in time, and its session had not ended by the last re-check unless
\* that got no answer.
SocketChecked ==
    socket # NoSocket =>
        /\ socket.sid \in Sids /\ socket.iat # 0
        /\ socket.checked <= now /\ now <= socket.checked + Recheck
        /\ ended[socket.sid].at # 0 /\ socket.iat <= ended[socket.sid].at =>
             socket.checked <= ended[socket.sid].at \/ socket.checked = socket.erred

IInv ==
    /\ Types /\ TokensOpened /\ \A a \in Actors : Good(req[a])
    /\ OneHolder /\ EndsRecorded /\ AccessMinted /\ SocketChecked

\* The invariant holds of every behaviour.
LEMMA Invariance == Spec => []IInv
<1>1. Init => IInv
  <2> SUFFICES ASSUME Init PROVE IInv
    OBVIOUS
  <2>1. MaxTokens \in Nat /\ MaxSessions \in Nat /\ Horizon \in Nat /\ Recheck \in Nat
    BY SessionBounds
  <2>2. None \in Reqs /\ None.pc = "idle" /\ ~None.late
    <3>1. 0 \in 0..MaxSessions /\ 0 \in Nat
      BY <2>1
    <3>2. "idle" \in Pcs /\ {} \in SUBSET Nat /\ FALSE \in BOOLEAN
      BY DEF Pcs
    <3>3. None \in Reqs
      BY <3>1, <3>2, Zenon DEF None, Reqs
    <3> QED BY <3>3, Zenon DEF None
  <2>3. req \in [Actors -> Reqs] /\ \A a \in Actors : req[a].pc = "idle" /\ ~req[a].late
    BY <2>2 DEF Init
  <2>4. \A a \in Actors : Good(req[a]) /\ ~MayIssue(req[a])
    BY <2>3 DEF Good, Carries, OnTime, BeforeChange, LateRefused, MayIssue, Waits
  <2>5. /\ rotated \in [Tokens -> Rotations] /\ ended \in [Sids -> Ends] /\ \A s \in Sids : ended[s].at = 0
    BY DEF Init, NotRotated, NotEnded, Rotations, Ends
  <2>6. token \in [Tokens -> [sid : 0..MaxSessions, cred : Nat]] /\ credOf \in [Sids -> Nat]
    BY <2>1 DEF Init
  <2>7. socket \in Sockets
    BY <2>1, SMTT(30) DEF Init, NoSocket, Sockets
  <2>8. Types
    BY <2>1, <2>3, <2>5, <2>6, <2>7, SMTT(30) DEF Init, Types
  <2>9. issued = 0 /\ live = {} /\ access = {} /\ socket = NoSocket
    BY DEF Init
  <2>10. TokensOpened /\ EndsRecorded /\ AccessMinted /\ SocketChecked
    <3>1. TokensOpened
      BY <2>9 DEF TokensOpened
    <3>2. EndsRecorded
      BY <2>5, Zenon DEF EndsRecorded
    <3>3. AccessMinted
      BY <2>9, Zenon DEF AccessMinted
    <3>4. SocketChecked
      BY <2>9, Zenon DEF SocketChecked
    <3> QED BY <3>1, <3>2, <3>3, <3>4
  <2>11. OneHolder
    BY <2>4, <2>9 DEF OneHolder, OneLiveToken
  <2> QED BY <2>4, <2>8, <2>10, <2>11 DEF IInv
<1>2. IInv /\ [Next]_vars => IInv'
  <2> SUFFICES ASSUME IInv, [Next]_vars PROVE IInv'
    OBVIOUS
  <2>1. /\ Types /\ TokensOpened /\ (\A a \in Actors : Good(req[a]))
        /\ OneHolder /\ EndsRecorded /\ AccessMinted /\ SocketChecked
        /\ MaxTokens \in Nat /\ MaxSessions \in Nat /\ Skew \in Nat /\ EndedTTL \in Nat /\ EndedTTL >= 2
        /\ Horizon \in Nat /\ Forever = Horizon + EndedTTL + 2 /\ AccessTTL \in Nat /\ Recheck \in Nat
        /\ Skew <= Margin /\ Margin \in Nat /\ EndedTTL = AccessTTL + Margin
    BY SessionBounds DEF IInv, EndedTTL, Forever
  <2>2. /\ now \in Nat \ {0} /\ cred \in Nat \ {0} /\ changed \in Nat /\ userEnded \in Nat /\ userEnded <= now
        /\ req \in [Actors -> Reqs] /\ issued \in 0..MaxTokens /\ live \subseteq 1..issued
        /\ token \in [Tokens -> [sid : 0..MaxSessions, cred : Nat]] /\ credOf \in [Sids -> Nat]
        /\ rotated \in [Tokens -> Rotations] /\ ended \in [Sids -> Ends] /\ index \subseteq Tokens
        /\ 1..issued \subseteq Tokens /\ Tokens \subseteq Nat /\ Sids \subseteq 0..MaxSessions
    <3>1. /\ now \in Nat \ {0} /\ cred \in Nat \ {0} /\ changed \in Nat /\ userEnded \in Nat /\ userEnded <= now
          /\ req \in [Actors -> Reqs] /\ issued \in 0..MaxTokens /\ live \subseteq 1..issued
          /\ token \in [Tokens -> [sid : 0..MaxSessions, cred : Nat]] /\ credOf \in [Sids -> Nat]
          /\ rotated \in [Tokens -> Rotations] /\ ended \in [Sids -> Ends] /\ index \subseteq Tokens
      BY <2>1, Zenon DEF Types
    <3>2. MaxTokens \in Nat /\ MaxSessions \in Nat
      BY <2>1
    <3>3. issued \in 0..MaxTokens => 1..issued \subseteq Tokens
      BY <3>2 DEF Tokens
    <3>4. Tokens \subseteq Nat /\ Sids \subseteq 0..MaxSessions
      BY <3>2 DEF Tokens, Sids
    <3> QED BY <3>1, <3>3, <3>4, Zenon
  \* How a request's record is set.
  <2>3. ASSUME NEW a \in Actors, req' = [req EXCEPT ![a] = None]
        PROVE  /\ req' \in [Actors -> Reqs] /\ \A b \in Actors \ {a} : req'[b] = req[b]
               /\ req'[a].pc = "idle" /\ ~req'[a].late
    <3>1. None \in Reqs
      BY <2>1 DEF None, Reqs, Pcs
    <3>2. None.pc = "idle" /\ ~None.late
      BY DEF None
    <3> QED BY <2>2, <2>3, <3>1, <3>2
  <2>4. ASSUME NEW a \in Actors, NEW pc \in Pcs, req' = [req EXCEPT ![a].pc = pc]
        PROVE  /\ req' \in [Actors -> Reqs] /\ \A b \in Actors \ {a} : req'[b] = req[b]
               /\ req'[a].pc = pc /\ req'[a].tok = req[a].tok /\ req'[a].sid = req[a].sid
               /\ req'[a].cred = req[a].cred /\ req'[a].succ = req[a].succ
               /\ req'[a].at = req[a].at /\ req'[a].late = req[a].late
    BY <2>2, <2>4, ZenonT(30) DEF Reqs
  \* The records of ends: kept, or one session recorded ended.
  <2> DEFINE EndStep == /\ ended' \in [Sids -> Ends]
                        /\ \A s \in Sids : \/ ended'[s] = ended[s]
                                           \/ /\ ended'[s].until >= now + EndedTTL
                                              /\ ended'[s].at = IF ended[s].at = 0 THEN now ELSE ended[s].at
  <2>5. ended' = ended => EndStep
    BY <2>2
  <2>6. ASSUME NEW s \in Sids, NEW u \in Nat, u >= now + EndedTTL, RecordEnded(s, u)
        PROVE  EndStep
    <3>1. ended[s] \in Ends
      BY <2>2
    <3>2. ended'[s].until = u /\ ended'[s].at = IF ended[s].at = 0 THEN now ELSE ended[s].at
      BY <2>2, <2>6 DEF RecordEnded
    <3>3. ended' \in [Sids -> Ends]
      BY <2>2, <2>6, <3>1 DEF RecordEnded, Ends
    <3>4. \A q \in Sids \ {s} : ended'[q] = ended[q]
      BY <2>2, <2>6 DEF RecordEnded
    <3> QED BY <2>6, <3>2, <3>3, <3>4
  \* A step of a request that creates no token and gains no right to.
  <2>7. ASSUME NEW a \in Actors, req' \in [Actors -> Reqs], \A b \in Actors \ {a} : req'[b] = req[b],
               Good(req[a])', MayIssue(req'[a]) => MayIssue(req[a]) /\ req'[a].sid = req[a].sid,
               EndStep, UNCHANGED <<now, token, issued, userVars, socket>>,
               live' \subseteq live, index' \subseteq index, rotated' \in [Tokens -> Rotations],
               userEnded' \in {userEnded, now},
               access' = access \/ (/\ access' = access \cup {[sid |-> req[a].sid, iat |-> now]}
                                    /\ req[a].pc \in Waits /\ now >= req[a].at)
        PROVE  IInv'
    <3> HIDE DEF EndStep
    <3>1. UNCHANGED <<cred, credOf, changed, account>>
      BY <2>7 DEF userVars
    <3>2. ended' \in [Sids -> Ends]
          /\ \A s \in Sids : \/ ended'[s] = ended[s]
                             \/ /\ ended'[s].until >= now + EndedTTL
                                /\ ended'[s].at = IF ended[s].at = 0 THEN now ELSE ended[s].at
      BY <2>7 DEF EndStep
    <3>3. access' = access \/ /\ req[a].sid \in Sids /\ access' = access \cup {[sid |-> req[a].sid, iat |-> now]}
                              /\ credOf[req[a].sid] < cred => now <= changed + Skew + 2
      <4>1. CASE access' = access
        BY <4>1
      <4>2. CASE access' # access
        <5>1. Good(req[a]) /\ req[a].pc \in Waits /\ now >= req[a].at
          BY <2>1, <2>7, <4>2, Zenon
        <5>2. req[a].sid \in Sids /\ now = req[a].at
          BY <2>2, <5>1, SMTT(30) DEF Good, Carries, OnTime, Waits, Reqs, Pcs
        <5> QED BY <2>7, <4>2, <5>1, <5>2, Zenon DEF Good, BeforeChange
      <4> QED BY <4>1, <4>2
    <3>4. access' \subseteq Accesses
      BY <2>1, <2>2, <3>3, SMTT(30) DEF Types, Accesses
    <3>5. Types'
      BY <2>1, <2>7, <3>1, <3>2, <3>4, SMTT(30) DEF Types
    <3>6. TokensOpened'
      BY <2>1, <2>7, <3>1, Zenon DEF TokensOpened
    <3>7. ASSUME NEW b \in Actors PROVE Good(req[b])'
      <4>1. CASE b = a
        BY <2>7, <4>1
      <4>2. CASE b # a
        <5>1. req'[b] = req[b] /\ Good(req[b]) /\ req[b] \in Reqs
          BY <2>1, <2>2, <2>7, <4>2, Zenon
        <5>2. Carries(req[b])' /\ OnTime(req[b])' /\ BeforeChange(req[b])'
          BY <2>7, <3>1, <5>1, Zenon DEF Good, Carries, OnTime, BeforeChange
        <5>3. ASSUME req[b].late, req[b].pc \in {"claimed", "check"}
              PROVE  ended'[req[b].sid].until > req[b].at + 1
          <6>1. req[b].sid \in Sids /\ req[b].at <= now /\ ended[req[b].sid].until > req[b].at + 1
                /\ req[b].at \in Nat
            BY <5>1, <5>3, Zenon DEF Good, Carries, OnTime, LateRefused, Reqs, Waits
          <6>2. ended'[req[b].sid] = ended[req[b].sid] \/ ended'[req[b].sid].until >= now + EndedTTL
            BY <3>2, <6>1
          <6>3. ended'[req[b].sid].until \in Nat
            BY <3>2, <6>1 DEF Ends
          <6> QED BY <2>1, <2>2, <6>1, <6>2, <6>3, SMTT(30)
        <5>4. LateRefused(req[b])'
          BY <5>1, <5>3, Zenon DEF Good, LateRefused
        <5> QED BY <5>2, <5>4 DEF Good
      <4> QED BY <4>1, <4>2
    <3>8. OneHolder'
      <4>1. OneLiveToken'
        BY <2>1, <2>7, Zenon DEF OneHolder, OneLiveToken
      <4>2. \A b \in Actors : MayIssue(req'[b]) => MayIssue(req[b]) /\ req'[b].sid = req[b].sid
        BY <2>7, Zenon
      <4>3. /\ \A b \in Actors : MayIssue(req[b]) => \A t \in live : token[t].sid # req[b].sid
            /\ \A b, c \in Actors : MayIssue(req[b]) /\ MayIssue(req[c]) /\ req[b].sid = req[c].sid => b = c
        BY <2>1, Zenon DEF OneHolder
      <4>4. \A b, c \in Actors : MayIssue(req'[b]) /\ MayIssue(req'[c]) /\ req'[b].sid = req'[c].sid => b = c
        BY <4>2, <4>3, Zenon
      <4>5. \A b \in Actors : MayIssue(req'[b]) => \A t \in live' : token'[t].sid # req'[b].sid
        <5>1. token' = token /\ live' \subseteq live
          BY <2>7, Zenon
        <5> QED BY <4>2, <4>3, <5>1, Zenon
      <4>6. \A b \in Actors : MayIssue(req[b])' <=> MayIssue(req'[b])
        BY Zenon DEF MayIssue
      <4> QED BY <4>1, <4>4, <4>5, <4>6, Zenon DEF OneHolder
    <3>9. EndsRecorded'
      BY <2>1, <2>2, <2>7, <3>2, SMTT(30) DEF EndsRecorded, Ends
    <3>10. AccessMinted'
      BY <2>1, <2>2, <2>7, <3>1, <3>3, SMTT(30) DEF AccessMinted
    <3>11. SocketChecked'
      BY <2>1, <2>2, <2>7, <3>2, Zenon DEF SocketChecked, Ends
    <3> QED BY <3>5, <3>6, <3>7, <3>8, <3>9, <3>10, <3>11 DEF IInv
  <2> HIDE DEF EndStep
  <2>8. ASSUME NEW a \in Actors, Finish(a), EndStep, UNCHANGED <<now, token, issued, userVars, socket>>,
               live' \subseteq live, index' \subseteq index, rotated' \in [Tokens -> Rotations],
               userEnded' = userEnded,
               access' = access \/ (/\ access' = access \cup {[sid |-> req[a].sid, iat |-> now]}
                                    /\ req[a].pc \in Waits /\ now >= req[a].at)
        PROVE  IInv'
    <3>1. /\ req' \in [Actors -> Reqs] /\ \A b \in Actors \ {a} : req'[b] = req[b]
          /\ req'[a].pc = "idle" /\ ~req'[a].late
      BY <2>3, <2>8, Zenon DEF Finish
    <3>2. Good(req[a])' /\ ~MayIssue(req'[a])
      BY <3>1, Zenon DEF Good, Carries, OnTime, BeforeChange, LateRefused, MayIssue, Waits
    <3> QED BY <2>7, <2>8, <3>1, <3>2, Zenon
  \* The steps of a request that move its control alone, or end it.
  <2>10. ASSUME NEW a \in Actors, LoginWait(a) \/ MintWait(a) PROVE IInv'
    <3>1. PICK ready \in {now, ReadyAt}, pc \in Waits :
              /\ req' = [req EXCEPT ![a].pc = pc, ![a].at = ready]
              /\ req[a].pc = (IF pc = "signInWait" THEN "signIn" ELSE "mint")
      BY <2>10 DEF LoginWait, MintWait, WaitOut, Waits
    <3>2. ready \in Nat /\ now <= ready /\ ready <= now + Skew + 1
      BY <2>1, <2>2, <3>1 DEF ReadyAt
    <3>3. pc \in Pcs /\ req[a] \in Reqs
      BY <2>2 DEF Pcs
    <3>4. /\ req' \in [Actors -> Reqs] /\ \A b \in Actors \ {a} : req'[b] = req[b]
          /\ req'[a].pc = pc /\ req'[a].sid = req[a].sid /\ req'[a].cred = req[a].cred
          /\ req'[a].at = ready /\ req'[a].late = req[a].late
      BY <2>2, <3>1, <3>2, <3>3, Zenon DEF Reqs
    <3>5. UNCHANGED <<now, tokenVars, endVars, access, userVars, socket, left>>
      BY <2>10 DEF LoginWait, MintWait
    <3>6. Good(req[a]) /\ req[a].at \in Nat
      BY <2>1, <3>3 DEF Reqs
    <3>7. Carries(req[a])' /\ OnTime(req[a])' /\ LateRefused(req[a])'
      BY <3>1, <3>2, <3>4, <3>5, <3>6 DEF Good, Carries, OnTime, LateRefused, Waits, userVars
    <3>8. BeforeChange(req[a])'
      <4>1. req[a].at <= now /\ now <= req[a].at + 1
        BY <3>1, <3>6 DEF Good, OnTime, Waits
      <4>2. credOf[req[a].sid] < cred => req[a].at <= changed
        BY <3>1, <3>6 DEF Good, BeforeChange
      <4> QED BY <2>1, <2>2, <3>1, <3>2, <3>4, <3>5, <3>6, <4>1, <4>2 DEF BeforeChange, Waits, userVars
    <3>9. MayIssue(req'[a]) => MayIssue(req[a]) /\ req'[a].sid = req[a].sid
      BY <3>1, <3>4 DEF MayIssue, Waits
    <3>10. EndStep
      BY <2>5, <3>5 DEF endVars
    <3> QED BY <2>2, <2>7, <3>4, <3>5, <3>7, <3>8, <3>9, <3>10, Zenon DEF Good, tokenVars, endVars
  <2>11. ASSUME NEW a \in Actors, LoginMint(a) PROVE IInv'
    <3>1. /\ req[a].pc = "signInWait" /\ now >= req[a].at /\ req' = [req EXCEPT ![a].pc = "signInToken"]
          /\ access' = access \cup {[sid |-> req[a].sid, iat |-> now]}
          /\ UNCHANGED <<now, tokenVars, endVars, userVars, socket, left>>
      BY <2>11 DEF LoginMint, Goto, MintAccess
    <3>2. /\ req' \in [Actors -> Reqs] /\ \A b \in Actors \ {a} : req'[b] = req[b]
          /\ req'[a].pc = "signInToken" /\ req'[a].tok = req[a].tok /\ req'[a].sid = req[a].sid
          /\ req'[a].cred = req[a].cred /\ req'[a].at = req[a].at /\ req'[a].late = req[a].late
      BY <2>4, <3>1, Zenon DEF Pcs
    <3>3. Good(req[a]) /\ req[a] \in Reqs
      BY <2>1, <2>2
    <3>4. Good(req[a])'
      BY <2>2, <3>1, <3>2, <3>3 DEF Good, Carries, OnTime, BeforeChange, LateRefused, Waits, Pcs, Reqs, userVars
    <3>5. MayIssue(req[a]) /\ req[a].pc \in Waits
      BY <3>1 DEF MayIssue, Waits
    <3> QED BY <2>2, <2>5, <2>7, <3>1, <3>2, <3>4, <3>5 DEF tokenVars, endVars
  <2>12. ASSUME NEW a \in Actors, RecordRotation(a) PROVE IInv'
    <3>1. /\ req[a].pc = "claimed" /\ index' = index \ {req[a].tok}
          /\ rotated' = [rotated EXCEPT ![req[a].tok] = [at |-> now, succ |-> 0, ended |-> FALSE]]
          /\ req' = [req EXCEPT ![a].pc = "check"]
          /\ UNCHANGED <<now, token, issued, live, endVars, access, userVars, socket, left>>
      BY <2>12 DEF RecordRotation, Goto
    <3>2. /\ req' \in [Actors -> Reqs] /\ \A b \in Actors \ {a} : req'[b] = req[b]
          /\ req'[a].pc = "check" /\ req'[a].tok = req[a].tok /\ req'[a].sid = req[a].sid
          /\ req'[a].cred = req[a].cred /\ req'[a].at = req[a].at /\ req'[a].late = req[a].late
      BY <2>4, <3>1, ZenonT(30) DEF Pcs
    <3>3. Good(req[a]) /\ req[a] \in Reqs
      BY <2>1, <2>2
    <3>4. Good(req[a])'
      BY <2>2, <3>1, <3>2, <3>3 DEF Good, Carries, OnTime, BeforeChange, LateRefused, Waits, Pcs, userVars, endVars
    <3>5. MayIssue(req[a])
      BY <3>1 DEF MayIssue
    <3>6. rotated' \in [Tokens -> Rotations]
      BY <2>2, <3>1, Zenon DEF Rotations
    <3> QED BY <2>5, <2>7, <3>1, <3>2, <3>4, <3>5, <3>6 DEF endVars
  <2>13. ASSUME NEW a \in Actors, CheckEnded(a) PROVE IInv'
    <3>1. req[a].pc = "check" /\ UNCHANGED <<now, tokenVars, endVars, access, userVars, socket, left>>
      BY <2>13 DEF CheckEnded
    <3>2. CASE Finish(a)
      BY <2>2, <2>5, <2>8, <3>1, <3>2 DEF tokenVars, endVars
    <3>3. CASE ~SessionRecorded(req[a].sid) /\ Goto(a, "load")
      <4>1. /\ req' \in [Actors -> Reqs] /\ \A b \in Actors \ {a} : req'[b] = req[b]
            /\ req'[a].pc = "load" /\ req'[a].tok = req[a].tok /\ req'[a].sid = req[a].sid
            /\ req'[a].cred = req[a].cred /\ req'[a].at = req[a].at /\ req'[a].late = req[a].late
        BY <2>4, <3>3, ZenonT(30) DEF Pcs, Goto
      <4>2. Good(req[a]) /\ req[a] \in Reqs
        BY <2>1, <2>2
      <4>3. Carries(req[a])' /\ OnTime(req[a])' /\ BeforeChange(req[a])'
        BY <2>2, <3>1, <4>1, <4>2, Zenon DEF Good, Carries, OnTime, BeforeChange, Waits, Pcs, userVars, tokenVars
      <4>4. ~req[a].late
        <5>1. req[a].sid \in Sids /\ now <= req[a].at + 1 /\ req[a].at \in Nat
          BY <3>1, <4>2, Zenon DEF Good, Carries, OnTime, Waits, Reqs
        <5>2. ended[req[a].sid].until \in Nat
          BY <2>2, <5>1, Zenon DEF Ends
        <5> QED BY <2>2, <3>1, <3>3, <4>2, <5>1, <5>2, SMTT(30) DEF Good, LateRefused, SessionRecorded
      <4>5. LateRefused(req[a])' /\ MayIssue(req[a])
        BY <3>1, <4>1, <4>4, Zenon DEF LateRefused, MayIssue
      <4> QED BY <2>2, <2>5, <2>7, <3>1, <4>1, <4>3, <4>5, Zenon DEF Good, tokenVars, endVars
    <3> QED BY <2>13, <3>2, <3>3 DEF CheckEnded
  <2>14. ASSUME NEW a \in Actors, LoadUser(a) PROVE IInv'
    <3>1. req[a].pc = "load" /\ UNCHANGED <<now, tokenVars, endVars, access, userVars, socket, left>>
      BY <2>14 DEF LoadUser
    <3>2. CASE Finish(a)
      BY <2>2, <2>5, <2>8, <3>1, <3>2 DEF tokenVars, endVars
    <3>3. ASSUME NEW pc \in {"endAll", "issue", "mint"}, Goto(a, pc),
                 pc # "endAll" => req[a].cred = cred, pc = "issue" => req[a].succ = 0
          PROVE  IInv'
      <4>1. /\ req' \in [Actors -> Reqs] /\ \A b \in Actors \ {a} : req'[b] = req[b]
            /\ req'[a].pc = pc /\ req'[a].tok = req[a].tok /\ req'[a].sid = req[a].sid
            /\ req'[a].cred = req[a].cred /\ req'[a].at = req[a].at /\ req'[a].late = req[a].late
        BY <2>4, <3>3, ZenonT(30) DEF Pcs, Goto
      <4>2. Good(req[a]) /\ req[a] \in Reqs
        BY <2>1, <2>2
      <4>3. Carries(req[a])' /\ OnTime(req[a])' /\ LateRefused(req[a])'
        BY <2>2, <3>1, <3>3, <4>1, <4>2, Zenon DEF Good, Carries, OnTime, LateRefused, Waits, Pcs, userVars, tokenVars
      <4>4. BeforeChange(req[a])'
        BY <2>2, <3>1, <3>3, <4>1, <4>2, SMTT(30) DEF Good, Carries, BeforeChange, Waits, userVars
      <4>5. MayIssue(req'[a]) => MayIssue(req[a])
        BY <3>1, <3>3, <4>1, Zenon DEF MayIssue
      <4> QED BY <2>2, <2>5, <2>7, <3>1, <4>1, <4>3, <4>4, <4>5, Zenon DEF Good, tokenVars, endVars
    <3> QED BY <2>14, <3>2, <3>3 DEF LoadUser
  <2>15. ASSUME NEW a \in Actors, ReadRotation(a) PROVE IInv'
    <3>1. /\ req[a].pc = "readRecord"
          /\ req' = [req EXCEPT ![a].pc = "writeRecord", ![a].mark = rotated[req[a].tok].ended]
          /\ UNCHANGED <<now, tokenVars, endVars, access, userVars, socket, left>>
      BY <2>15 DEF ReadRotation
    <3>2. Good(req[a]) /\ req[a] \in Reqs
      BY <2>1, <2>2
    <3>3. PICK m \in BOOLEAN, pc \in Pcs : m = rotated[req[a].tok].ended /\ pc = "writeRecord"
      BY <2>2, <3>1, <3>2 DEF Good, Carries, Rotations, Pcs
    <3>4. req' = [req EXCEPT ![a].pc = pc, ![a].mark = m]
      BY <3>1, <3>3
    <3>5. /\ req' \in [Actors -> Reqs] /\ \A b \in Actors \ {a} : req'[b] = req[b]
          /\ req'[a].pc = pc /\ req'[a].tok = req[a].tok /\ req'[a].sid = req[a].sid
          /\ req'[a].cred = req[a].cred /\ req'[a].at = req[a].at /\ req'[a].late = req[a].late
      <4>1. PICK q : q = [req[a] EXCEPT !.pc = pc, !.mark = m]
        OBVIOUS
      <4>2. /\ q \in Reqs /\ q.pc = pc /\ q.tok = req[a].tok /\ q.sid = req[a].sid
            /\ q.cred = req[a].cred /\ q.at = req[a].at /\ q.late = req[a].late
        BY <3>2, <4>1, Zenon DEF Reqs
      <4>3. req \in [Actors -> Reqs]
        BY <2>2
      <4>4. req' = [req EXCEPT ![a] = q]
        BY <3>4, <4>1, Zenon
      <4> QED BY <4>2, <4>3, <4>4
    <3>6. Good(req[a])' /\ ~MayIssue(req'[a])
      BY <2>2, <3>1, <3>2, <3>3, <3>5
         DEF Good, Carries, OnTime, BeforeChange, LateRefused, MayIssue, Waits, Pcs, userVars, tokenVars
    <3> QED BY <2>2, <2>5, <2>7, <3>1, <3>5, <3>6, Zenon DEF tokenVars, endVars
  <2>16. ASSUME NEW a \in Actors, WriteSuccessor(a) PROVE IInv'
    <3>1. /\ req[a].pc = "writeRecord" /\ req' = [req EXCEPT ![a].pc = "mint"]
          /\ rotated' = [rotated EXCEPT ![req[a].tok].succ = req[a].succ, ![req[a].tok].ended = req[a].mark]
          /\ UNCHANGED <<now, token, issued, live, index, endVars, access, userVars, socket, left>>
      BY <2>16 DEF WriteSuccessor, Goto
    <3>2. Good(req[a]) /\ req[a] \in Reqs
      BY <2>1, <2>2
    <3>3. req[a].tok \in Tokens /\ req[a].succ \in Nat /\ req[a].mark \in BOOLEAN
      BY <2>2, <3>1, <3>2 DEF Good, Carries, Reqs
    <3>4. rotated' \in [Tokens -> Rotations]
      BY <2>2, <3>1, <3>3, SMTT(30) DEF Rotations
    <3>5. /\ req' \in [Actors -> Reqs] /\ \A b \in Actors \ {a} : req'[b] = req[b]
          /\ req'[a].pc = "mint" /\ req'[a].tok = req[a].tok /\ req'[a].sid = req[a].sid
          /\ req'[a].cred = req[a].cred /\ req'[a].at = req[a].at /\ req'[a].late = req[a].late
      BY <2>4, <3>1, Zenon DEF Pcs
    <3>6. Good(req[a])' /\ ~MayIssue(req'[a])
      BY <2>2, <3>1, <3>2, <3>5
         DEF Good, Carries, OnTime, BeforeChange, LateRefused, MayIssue, Waits, Pcs, userVars
    <3> QED BY <2>5, <2>7, <3>1, <3>4, <3>5, <3>6 DEF endVars
  <2>17. ASSUME NEW a \in Actors, Mint(a) PROVE IInv'
    <3>1. /\ req[a].pc = "mintWait" /\ now >= req[a].at /\ Finish(a)
          /\ access' = access \cup {[sid |-> req[a].sid, iat |-> now]}
          /\ UNCHANGED <<now, tokenVars, endVars, userVars, socket, left>>
      BY <2>17, Zenon DEF Mint, MintAccess
    <3> QED BY <2>2, <2>5, <2>8, <3>1, Zenon DEF Waits, tokenVars, endVars
  <2>18. ASSUME NEW a \in Actors, Replay(a) PROVE IInv'
    <3>1. req[a].pc = "replay" /\ UNCHANGED <<now, token, issued, live, index, endVars, access, userVars, socket, left>>
      BY <2>18, Zenon DEF Replay
    <3>2. Good(req[a]) /\ req[a] \in Reqs
      BY <2>1, <2>2
    <3>3. req[a].tok \in Tokens /\ rotated[req[a].tok] \in Rotations
      BY <2>2, <3>1, <3>2, Zenon DEF Good, Carries
    <3>4. CASE Finish(a) /\ rotated' = rotated
      BY <2>2, <2>5, <2>8, <3>1, <3>4 DEF endVars
    <3>5. CASE /\ rotated[req[a].tok].succ \in live /\ rotated' = rotated
               /\ req' = [req EXCEPT ![a].pc = "load", ![a].succ = rotated[req[a].tok].succ]
      <4>0. rotated[req[a].tok].succ \in Nat /\ "load" \in Pcs
        BY <3>3, Zenon DEF Rotations, Pcs
      <4>1. /\ req' \in [Actors -> Reqs] /\ \A b \in Actors \ {a} : req'[b] = req[b]
            /\ req'[a].pc = "load" /\ req'[a].tok = req[a].tok /\ req'[a].sid = req[a].sid
            /\ req'[a].cred = req[a].cred /\ req'[a].at = req[a].at /\ req'[a].late = req[a].late
            /\ req'[a].succ = rotated[req[a].tok].succ
        <5>0. PICK s \in Nat, pc \in Pcs : s = rotated[req[a].tok].succ /\ pc = "load"
          BY <4>0, Zenon
        <5>1. PICK q : q = [req[a] EXCEPT !.pc = pc, !.succ = s]
          OBVIOUS
        <5>2. /\ q \in Reqs /\ q.pc = pc /\ q.tok = req[a].tok /\ q.sid = req[a].sid
              /\ q.cred = req[a].cred /\ q.at = req[a].at /\ q.late = req[a].late /\ q.succ = s
          BY <3>2, <5>1, Zenon DEF Reqs
        <5>3. req \in [Actors -> Reqs]
          BY <2>2
        <5>4. req' = [req EXCEPT ![a] = q]
          BY <3>5, <5>0, <5>1, Zenon
        <5> QED BY <5>0, <5>2, <5>3, <5>4, Zenon
      <4>2. req'[a].succ # 0
        BY <2>2, <3>5, <4>1
      <4>3. Good(req[a])' /\ ~MayIssue(req'[a])
        BY <2>2, <3>1, <3>2, <4>1, <4>2, Zenon
           DEF Good, Carries, OnTime, BeforeChange, LateRefused, MayIssue, Waits, Pcs, userVars
      <4> QED BY <2>2, <2>5, <2>7, <3>1, <3>5, <4>1, <4>3, Zenon DEF endVars
    <3>6. CASE rotated' = [rotated EXCEPT ![req[a].tok].ended = TRUE] /\ Goto(a, "reused")
      <4>1. /\ req' \in [Actors -> Reqs] /\ \A b \in Actors \ {a} : req'[b] = req[b]
            /\ req'[a].pc = "reused" /\ req'[a].tok = req[a].tok /\ req'[a].sid = req[a].sid
            /\ req'[a].cred = req[a].cred /\ req'[a].at = req[a].at /\ req'[a].late = req[a].late
        BY <2>4, <3>6, ZenonT(30) DEF Pcs, Goto
      <4>2. rotated' \in [Tokens -> Rotations]
        BY <2>2, <3>3, <3>6, Zenon DEF Rotations
      <4>3. Good(req[a])' /\ ~MayIssue(req'[a])
        BY <2>2, <3>1, <3>2, <4>1, Zenon
           DEF Good, Carries, OnTime, BeforeChange, LateRefused, MayIssue, Waits, Pcs, userVars
      <4> QED BY <2>5, <2>7, <3>1, <4>1, <4>2, <4>3, Zenon DEF endVars
    <3> QED BY <2>18, <3>4, <3>5, <3>6, Zenon DEF Replay
  <2>19. ASSUME NEW a \in Actors, EndReused(a) PROVE IInv'
    <3>1. /\ req[a].pc = "reused" /\ RecordEnded(req[a].sid, Forever) /\ req' = [req EXCEPT ![a].pc = "listReused"]
          /\ UNCHANGED <<now, tokenVars, userEnded, access, userVars, socket, left>>
      BY <2>19 DEF EndReused, Goto
    <3>2. Good(req[a]) /\ req[a] \in Reqs
      BY <2>1, <2>2
    <3>3. req[a].sid \in Sids
      BY <3>1, <3>2 DEF Good, Carries
    <3>4. Forever \in Nat /\ Forever >= now + EndedTTL
      BY <2>1, <2>2 DEF Types
    <3>5. EndStep
      BY <2>6, <3>1, <3>3, <3>4
    <3>6. /\ req' \in [Actors -> Reqs] /\ \A b \in Actors \ {a} : req'[b] = req[b]
          /\ req'[a].pc = "listReused" /\ req'[a].tok = req[a].tok /\ req'[a].sid = req[a].sid
          /\ req'[a].at = req[a].at /\ req'[a].late = req[a].late
      BY <2>4, <3>1, ZenonT(30) DEF Pcs
    <3>7. Good(req[a])' /\ ~MayIssue(req'[a])
      BY <2>2, <3>1, <3>2, <3>3, <3>6
         DEF Good, Carries, OnTime, BeforeChange, LateRefused, MayIssue, Waits, Pcs
    <3> QED BY <2>2, <2>7, <3>1, <3>5, <3>6, <3>7 DEF tokenVars
  <2>20. ASSUME NEW a \in Actors, ListReused(a) \/ ListAll(a) PROVE IInv'
    <3>1. UNCHANGED <<now, tokenVars, endVars, access, userVars, socket, left>>
      BY <2>20 DEF ListReused, ListAll
    <3>2. Good(req[a]) /\ req[a] \in Reqs /\ index \in SUBSET Nat /\ issued \in Nat
      BY <2>1, <2>2
    <3>3. /\ req' \in [Actors -> Reqs] /\ \A b \in Actors \ {a} : req'[b] = req[b]
          /\ req'[a].sid = req[a].sid /\ req'[a].at = req[a].at /\ req'[a].late = req[a].late
          /\ \/ req[a].pc = "listReused" /\ req'[a].pc = "sweepReused"
             \/ req[a].pc = "listAll" /\ req'[a].pc = "sweepAll"
      <4>1. CASE ListReused(a)
        BY <2>2, <3>2, <4>1, ZenonT(30) DEF ListReused, Reqs, Pcs
      <4>2. CASE ListAll(a)
        BY <2>2, <3>2, <4>2, ZenonT(30) DEF ListAll, Reqs, Pcs
      <4> QED BY <2>20, <4>1, <4>2, Zenon
    <3>4. Good(req[a])' /\ ~MayIssue(req'[a])
      BY <2>2, <3>1, <3>2, <3>3, Zenon
         DEF Good, Carries, OnTime, BeforeChange, LateRefused, MayIssue, Waits, Pcs
    <3> QED BY <2>2, <2>5, <2>7, <3>1, <3>3, <3>4, Zenon DEF tokenVars, endVars
  <2>21. ASSUME NEW a \in Actors, SweepReused(a) PROVE IInv'
    <3>1. req[a].pc = "sweepReused"
          /\ UNCHANGED <<now, token, issued, rotated, endVars, access, userVars, socket, left>>
      BY <2>21 DEF SweepReused
    <3>2. CASE Finish(a) /\ UNCHANGED <<live, index>>
      BY <2>2, <2>5, <2>8, <3>1, <3>2, Zenon DEF endVars
    <3>3. ASSUME NEW t \in req[a].todo, live' \in {live, live \ {t}}, index' \in {index, index \ {t}},
                 req' = [req EXCEPT ![a].todo = @ \ {t}]
          PROVE  IInv'
      <4>1. Good(req[a]) /\ req[a] \in Reqs
        BY <2>1, <2>2, Zenon
      <4>2. /\ req' \in [Actors -> Reqs] /\ \A b \in Actors \ {a} : req'[b] = req[b]
            /\ req'[a].pc = req[a].pc /\ req'[a].sid = req[a].sid
            /\ req'[a].at = req[a].at /\ req'[a].late = req[a].late
        <5>1. PICK q : q = [req[a] EXCEPT !.todo = @ \ {t}]
          BY Zenon
        <5>2. q \in Reqs /\ q.pc = req[a].pc /\ q.sid = req[a].sid /\ q.at = req[a].at /\ q.late = req[a].late
          BY <4>1, <5>1 DEF Reqs
        <5>3. req \in [Actors -> Reqs] /\ req' = [req EXCEPT ![a] = q]
          BY <2>2, <3>3, <5>1
        <5> QED BY <5>2, <5>3, Zenon
      <4>3. Good(req[a])' /\ ~MayIssue(req'[a])
        BY <2>2, <3>1, <4>1, <4>2, Zenon
           DEF Good, Carries, OnTime, BeforeChange, LateRefused, MayIssue, Waits, Pcs
      <4> QED BY <2>2, <2>5, <2>7, <3>1, <3>3, <4>2, <4>3 DEF endVars
    <3> QED BY <2>21, <3>2, <3>3 DEF SweepReused
  <2>22. ASSUME NEW a \in Actors, NEW t \in Tokens \cup {0}, NEW s \in Sids \cup {0}, Logout(a, t, s) PROVE IInv'
    <3>1. PICK pc \in {"logoutRecord", "logoutAccess"} :
              /\ req' = [req EXCEPT ![a] = [None EXCEPT !.pc = pc, !.tok = t, !.sid = s, !.at = now]]
              /\ pc = "logoutRecord" => t \in live
      BY <2>22, Zenon DEF Logout
    <3>2. live' = live \ {t} /\ UNCHANGED <<now, token, issued, index, rotated, endVars, access, userVars, socket>>
      BY <2>22 DEF Logout
    <3>3. /\ req' \in [Actors -> Reqs] /\ \A b \in Actors \ {a} : req'[b] = req[b]
          /\ req'[a].pc = pc /\ req'[a].tok = t /\ req'[a].at = now /\ ~req'[a].late
      <4>1. t \in Nat /\ s \in 0..MaxSessions /\ now \in Nat
        BY <2>1, <2>2 DEF Sids
      <4> QED BY <2>2, <3>1, <4>1, ZenonT(30) DEF None, Reqs, Pcs
    <3>4. Good(req[a])' /\ ~MayIssue(req'[a])
      BY <2>2, <3>1, <3>2, <3>3 DEF Good, Carries, OnTime, BeforeChange, LateRefused, MayIssue, Waits, Pcs
    <3> QED BY <2>2, <2>5, <2>7, <3>2, <3>3, <3>4, Zenon DEF endVars
  <2>23. ASSUME NEW a \in Actors, LogoutRecord(a) PROVE IInv'
    <3>1. /\ req[a].pc = "logoutRecord" /\ RecordEnded(token[req[a].tok].sid, now + EndedTTL)
          /\ index' = index \ {req[a].tok} /\ req' = [req EXCEPT ![a].pc = "logoutAccess"]
          /\ UNCHANGED <<now, token, issued, live, rotated, userEnded, access, userVars, socket, left>>
      BY <2>23 DEF LogoutRecord
    <3>2. Good(req[a]) /\ req[a] \in Reqs
      BY <2>1, <2>2
    <3>3. token[req[a].tok].sid \in Sids
      BY <2>1, <3>1, <3>2 DEF Good, Carries, TokensOpened
    <3>4. EndStep
      BY <2>1, <2>2, <2>6, <3>1, <3>3, SMTT(30)
    <3>5. /\ req' \in [Actors -> Reqs] /\ \A b \in Actors \ {a} : req'[b] = req[b]
          /\ req'[a].pc = "logoutAccess" /\ req'[a].at = req[a].at /\ req'[a].late = req[a].late
      BY <2>4, <3>1, Zenon DEF Pcs
    <3>6. Good(req[a])' /\ ~MayIssue(req'[a])
      BY <2>2, <3>1, <3>2, <3>5
         DEF Good, Carries, OnTime, BeforeChange, LateRefused, MayIssue, Waits, Pcs
    <3> QED BY <2>2, <2>7, <3>1, <3>4, <3>5, <3>6
  <2>24. ASSUME NEW a \in Actors, LogoutAccess(a) PROVE IInv'
    <3>1. /\ IF req[a].sid # 0 THEN RecordEnded(req[a].sid, now + EndedTTL) ELSE ended' = ended
          /\ Finish(a) /\ UNCHANGED <<now, tokenVars, userEnded, access, userVars, socket, left>>
      BY <2>24, Zenon DEF LogoutAccess
    <3>2. req[a].sid # 0 => req[a].sid \in Sids
      BY <2>1, <2>2 DEF Reqs, Sids
    <3>3. EndStep
      <4>1. CASE req[a].sid # 0
        <5>1. RecordEnded(req[a].sid, now + EndedTTL) /\ req[a].sid \in Sids
          BY <3>1, <3>2, <4>1, Zenon
        <5>2. now + EndedTTL \in Nat /\ now + EndedTTL >= now + EndedTTL
          BY <2>1, <2>2
        <5> QED BY <2>6, <5>1, <5>2
      <4>2. CASE req[a].sid = 0
        BY <2>5, <3>1, <4>2, Zenon
      <4> QED BY <4>1, <4>2
    <3> QED BY <2>2, <2>8, <3>1, <3>3, Zenon DEF tokenVars
  <2>25. ASSUME NEW a \in Actors, EndAll(a) PROVE IInv'
    <3>1. /\ req[a].pc = "endAll" /\ userEnded' = now /\ req' = [req EXCEPT ![a].pc = "listAll"]
          /\ UNCHANGED <<now, tokenVars, ended, access, userVars, socket, left>>
      BY <2>25 DEF EndAll, Goto
    <3>2. Good(req[a]) /\ req[a] \in Reqs
      BY <2>1, <2>2
    <3>3. /\ req' \in [Actors -> Reqs] /\ \A b \in Actors \ {a} : req'[b] = req[b]
          /\ req'[a].pc = "listAll" /\ req'[a].at = req[a].at /\ req'[a].late = req[a].late
      BY <2>4, <3>1, Zenon DEF Pcs
    <3>4. Good(req[a])' /\ ~MayIssue(req'[a])
      BY <2>2, <3>1, <3>2, <3>3
         DEF Good, Carries, OnTime, BeforeChange, LateRefused, MayIssue, Waits, Pcs
    <3> QED BY <2>2, <2>5, <2>7, <3>1, <3>3, <3>4 DEF tokenVars
  <2>26. ASSUME NEW a \in Actors, SweepAll(a) PROVE IInv'
    <3>1. UNCHANGED <<now, token, issued, rotated, userEnded, access, userVars, socket, left>>
      BY <2>26, Zenon DEF SweepAll
    <3>2. Good(req[a]) /\ req[a] \in Reqs
      BY <2>1, <2>2
    \* The request moves to pc with sid z and the tokens T still to sweep.
    <3>3. ASSUME NEW pc \in {"sweepAll", "recordAll"}, NEW z \in 0..MaxSessions, NEW T \in SUBSET Nat,
                 pc = "recordAll" => z \in Sids,
                 req[a].pc \in {"sweepAll", "recordAll"},
                 req' = [req EXCEPT ![a].todo = T, ![a].pc = pc, ![a].sid = z],
                 EndStep, live' \subseteq live, index' = index
          PROVE  IInv'
      <4>1. pc \in Pcs
        BY DEF Pcs
      <4>2. [req[a] EXCEPT !.todo = T, !.pc = pc, !.sid = z] \in Reqs
        BY <3>2, <4>1, Zenon DEF Reqs
      <4>3. req' = [req EXCEPT ![a] = [req[a] EXCEPT !.todo = T, !.pc = pc, !.sid = z]]
        BY <2>2, <3>3, Zenon DEF Reqs
      <4>4. req'[a] = [req[a] EXCEPT !.todo = T, !.pc = pc, !.sid = z]
        BY <2>2, <4>3
      <4>5. req' \in [Actors -> Reqs] /\ \A b \in Actors \ {a} : req'[b] = req[b]
        BY <2>2, <4>2, <4>3
      <4>6. /\ req'[a].pc = pc /\ req'[a].sid = z /\ req'[a].at = req[a].at /\ req'[a].late = req[a].late
        BY <3>2, <4>4 DEF Reqs
      <4>7. Good(req[a])' /\ ~MayIssue(req'[a])
        BY <2>2, <3>1, <3>2, <3>3, <4>6, Zenon
           DEF Good, Carries, OnTime, BeforeChange, LateRefused, MayIssue, Waits, Pcs
      <4> QED BY <2>2, <2>7, <3>1, <3>3, <4>5, <4>7
    <3>4. ASSUME NEW t \in req[a].todo, req[a].pc = "sweepAll", live' = live \ {t}, UNCHANGED <<index, ended>>,
                 req' = [req EXCEPT ![a].todo = @ \ {t},
                                    ![a].pc = IF t \in live THEN "recordAll" ELSE @,
                                    ![a].sid = IF t \in live THEN token[t].sid ELSE 0]
          PROVE  IInv'
      <4>1. t \in live => token[t].sid \in Sids
        BY <2>1, <2>2, Zenon DEF TokensOpened
      <4>2. PICK T \in SUBSET Nat : T = req[a].todo \ {t}
        BY <3>2, Zenon DEF Reqs
      <4>3. PICK pc \in {"sweepAll", "recordAll"} : pc = (IF t \in live THEN "recordAll" ELSE "sweepAll")
        OBVIOUS
      <4>4. PICK z \in 0..MaxSessions : z = IF t \in live THEN token[t].sid ELSE 0
        <5>1. CASE t \in live
          BY <2>2, <4>1, <5>1
        <5>2. CASE t \notin live
          BY <2>1, <5>2
        <5> QED BY <5>1, <5>2
      <4>5. req' = [req EXCEPT ![a].todo = T, ![a].pc = pc, ![a].sid = z]
        BY <3>4, <4>2, <4>3, <4>4
      <4>6. EndStep /\ live' \subseteq live /\ index' = index
        BY <2>5, <3>4
      <4>7. pc = "recordAll" => z \in Sids
        BY <4>1, <4>3, <4>4
      <4> QED BY <3>3, <3>4, <4>5, <4>6, <4>7, Zenon
    <3>5. ASSUME req[a].pc = "recordAll", RecordEnded(req[a].sid, now + EndedTTL), UNCHANGED <<live, index>>,
                 req' = [req EXCEPT ![a].pc = "sweepAll", ![a].sid = 0]
          PROVE  IInv'
      <4>1. req[a].sid \in Sids
        BY <3>2, <3>5 DEF Good, Carries
      <4>2. EndStep
        BY <2>1, <2>2, <2>6, <3>5, <4>1, SMTT(30)
      <4>3. PICK pc \in Pcs, z \in 0..MaxSessions : pc = "sweepAll" /\ z = 0
        BY <2>1 DEF Pcs
      <4>4. req' = [req EXCEPT ![a].pc = pc, ![a].sid = z]
        BY <3>5, <4>3
      <4>5. /\ req' \in [Actors -> Reqs] /\ \A b \in Actors \ {a} : req'[b] = req[b]
            /\ req'[a].pc = pc /\ req'[a].at = req[a].at /\ req'[a].late = req[a].late
        <5>1. req \in [Actors -> Reqs]
          BY <2>2
        <5>2. req' \in [Actors -> Reqs]
          <6>1. PICK q : q = [req[a] EXCEPT !.pc = pc, !.sid = z]
            OBVIOUS
          <6>2. q \in Reqs
            BY <3>2, <6>1, Zenon DEF Reqs
          <6>3. req' = [req EXCEPT ![a] = q]
            BY <4>4, <6>1, Zenon
          <6> QED BY <5>1, <6>2, <6>3
        <5>3. req'[a].pc = pc /\ req'[a].at = req[a].at /\ req'[a].late = req[a].late
          BY <4>4, <5>1 DEF Reqs
        <5> QED BY <4>4, <5>1, <5>2, <5>3
      <4>6. Good(req[a])' /\ ~MayIssue(req'[a])
        BY <2>2, <3>1, <3>2, <3>5, <4>3, <4>5
           DEF Good, Carries, OnTime, BeforeChange, LateRefused, MayIssue, Waits, Pcs
      <4> QED BY <2>2, <2>7, <3>1, <3>5, <4>2, <4>5, <4>6
    <3>6. ASSUME Finish(a), index' = index \ (1..req[a].tok), UNCHANGED <<live, ended>> PROVE IInv'
      BY <2>2, <2>5, <2>8, <3>1, <3>6, Zenon
    <3> QED BY <2>26, <3>4, <3>5, <3>6, Zenon DEF SweepAll
  <2>27. ASSUME NEW a \in Actors, RequestFails(a) PROVE IInv'
    <3>1. Finish(a) /\ UNCHANGED <<now, tokenVars, endVars, access, userVars, socket>>
      BY <2>27 DEF RequestFails
    <3> QED BY <2>2, <2>5, <2>8, <3>1, Zenon DEF tokenVars, endVars
  \* The steps that give or use the right to issue a refresh token.
  <2>28. ASSUME NEW a \in Actors, LoginStart(a) PROVE IInv'
    <3>1. PICK s \in Sids :
              /\ credOf[s] = 0 /\ credOf' = [credOf EXCEPT ![s] = cred]
              /\ req' = [req EXCEPT ![a] = [None EXCEPT !.pc = "signIn", !.sid = s, !.cred = cred, !.at = now]]
      BY <2>28, Zenon DEF LoginStart
    <3>2. req[a].pc = "idle" /\ UNCHANGED <<now, tokenVars, endVars, access, cred, changed, account, socket>>
      BY <2>28 DEF LoginStart
    <3>3. /\ req' \in [Actors -> Reqs] /\ \A b \in Actors \ {a} : req'[b] = req[b]
          /\ req'[a].pc = "signIn" /\ req'[a].sid = s /\ req'[a].cred = cred /\ req'[a].at = now
          /\ ~req'[a].late
      <4>1. s \in 0..MaxSessions /\ cred \in Nat /\ now \in Nat /\ "signIn" \in Pcs
        BY <2>2 DEF Pcs
      <4> QED BY <2>2, <3>1, <4>1, ZenonT(30) DEF None, Reqs
    <3>4. /\ credOf' \in [Sids -> Nat] /\ credOf'[s] = cred /\ \A q \in Sids : credOf[q] # 0 => credOf'[q] = credOf[q]
          /\ \A q \in Sids : credOf'[q] < cred' => credOf[q] < cred
      BY <2>2, <3>1, <3>2
    <3>5. Types'
      BY <2>1, <3>2, <3>3, <3>4, Zenon DEF Types, tokenVars, endVars
    <3>6. TokensOpened'
      BY <2>1, <2>2, <3>2, <3>4 DEF TokensOpened, tokenVars
    <3>7. ASSUME NEW b \in Actors PROVE Good(req[b])'
      <4>1. CASE b = a
        <5>1. /\ req'[b].pc = "signIn" /\ req'[b].sid = s /\ req'[b].cred = cred /\ req'[b].at = now /\ ~req'[b].late
              /\ credOf'[s] = cred /\ cred' = cred /\ now' = now /\ cred \in Nat \ {0} /\ now \in Nat
          BY <2>2, <3>2, <3>3, <3>4, <4>1, Zenon
        <5>2. Carries(req[b])' /\ LateRefused(req[b])'
          BY <5>1, Zenon DEF Carries, LateRefused, Waits
        <5>3. OnTime(req[b])' /\ BeforeChange(req[b])'
          BY <5>1, SMTT(30) DEF OnTime, BeforeChange, Waits, Pcs
        <5> QED BY <5>2, <5>3 DEF Good
      <4>2. CASE b # a
        <5>1. req'[b] = req[b] /\ Good(req[b]) /\ req[b] \in Reqs
          BY <2>1, <2>2, <3>3, <4>2, Zenon
        <5>2. Carries(req[b])' /\ OnTime(req[b])' /\ LateRefused(req[b])'
          BY <2>2, <3>2, <3>4, <5>1, ZenonT(30) DEF Good, Carries, OnTime, LateRefused, tokenVars, endVars
        <5>3. BeforeChange(req[b])'
          <6>1. ASSUME req[b].pc \in {"signIn", "issue", "readRecord", "writeRecord", "mint"} \cup Waits
                PROVE  req[b].sid \in Sids
            BY <5>1, <6>1, Zenon DEF Good, Carries
          <6> QED BY <3>2, <3>4, <5>1, <6>1, Zenon DEF Good, BeforeChange
        <5> QED BY <5>2, <5>3 DEF Good
      <4> QED BY <4>1, <4>2
    <3>8. OneHolder'
      <4>1. \A b \in Actors \ {a} : MayIssue(req[b]) => req[b].sid # s
        BY <2>1, <3>1 DEF Good, Carries, MayIssue, Waits
      <4>2. \A t \in live : token[t].sid # s
        BY <2>1, <2>2, <3>1 DEF TokensOpened
      <4>3. UNCHANGED <<live, token>> /\ req'[a].sid = s /\ \A b \in Actors \ {a} : req'[b] = req[b]
        BY <3>2, <3>3, Zenon DEF tokenVars
      <4>4. \A b, c \in Actors : MayIssue(req'[b]) /\ MayIssue(req'[c]) /\ req'[b].sid = req'[c].sid => b = c
        BY <2>1, <4>1, <4>3, Zenon DEF OneHolder
      <4>5. \A b \in Actors : MayIssue(req'[b]) => \A t \in live : token[t].sid # req'[b].sid
        BY <2>1, <4>2, <4>3, Zenon DEF OneHolder
      <4>6. OneLiveToken'
        BY <2>1, <4>3, Zenon DEF OneHolder, OneLiveToken
      <4> QED BY <4>3, <4>4, <4>5, <4>6, Zenon DEF OneHolder, MayIssue
    <3>9. EndsRecorded' /\ SocketChecked'
      BY <2>1, <3>2, Zenon DEF EndsRecorded, SocketChecked, endVars
    <3>10. AccessMinted'
      <4>1. \A x \in access : x.sid \in Sids
        BY <2>1, Zenon DEF Types, Accesses
      <4> QED BY <2>1, <3>2, <3>4, <4>1, Zenon DEF AccessMinted
    <3> QED BY <3>5, <3>6, <3>7, <3>8, <3>9, <3>10, Zenon DEF IInv
  <2>29. ASSUME NEW a \in Actors, NEW t \in Tokens, Claim(a, t) PROVE IInv'
    <3> DEFINE isLate == ended[token[t].sid].until > now + 1
    <3>1. PICK pc \in {"claimed", "replay"}, l \in BOOLEAN :
              /\ req' = [req EXCEPT ![a] = [None EXCEPT !.pc = pc, !.tok = t, !.sid = token[t].sid,
                                                        !.cred = token[t].cred, !.at = now, !.late = l]]
              /\ pc = "claimed" => t \in live
              /\ l = isLate
      <4>1. PICK pc \in {"claimed", "replay"} : pc = IF t \in live THEN "claimed" ELSE "replay"
        OBVIOUS
      <4>2. isLate \in BOOLEAN
        OBVIOUS
      <4>3. req' = [req EXCEPT ![a] = [None EXCEPT !.pc = pc, !.tok = t, !.sid = token[t].sid,
                                                   !.cred = token[t].cred, !.at = now, !.late = isLate]]
        BY <2>29, <4>1 DEF Claim
      <4> HIDE DEF isLate
      <4> QED BY <4>1, <4>2, <4>3, Zenon
    <3>2. /\ req[a].pc = "idle" /\ t <= issued /\ live' = live \ {t}
          /\ UNCHANGED <<now, token, issued, index, rotated, endVars, access, userVars, socket>>
      BY <2>29 DEF Claim
    <3>3. t \in 1..issued /\ token[t].sid \in Sids /\ token[t].cred \in Nat
      BY <2>1, <2>2, <3>2, SMTT(30) DEF TokensOpened, Tokens
    <3>4. /\ req' \in [Actors -> Reqs] /\ \A b \in Actors \ {a} : req'[b] = req[b]
          /\ req'[a].pc = pc /\ req'[a].tok = t /\ req'[a].sid = token[t].sid /\ req'[a].cred = token[t].cred
          /\ req'[a].at = now /\ req'[a].late = l
      <4>1. t \in Nat /\ token[t].sid \in 0..MaxSessions /\ now \in Nat /\ pc \in Pcs
        BY <2>1, <2>2, <3>3, Zenon DEF Pcs
      <4> QED BY <2>2, <3>1, <3>3, <4>1, Zenon DEF None, Reqs
    <3>5. Types'
      BY <2>1, <3>2, <3>4, Zenon DEF Types, userVars, endVars
    <3>6. TokensOpened'
      BY <2>1, <3>2, Zenon DEF TokensOpened, userVars
    <3>7. ASSUME NEW b \in Actors PROVE Good(req[b])'
      <4>1. CASE b = a
        <5>1. Carries(req[a])'
          BY <2>1, <3>1, <3>2, <3>3, <3>4 DEF Carries, TokensOpened, Waits, userVars
        <5>2. OnTime(req[a])' /\ BeforeChange(req[a])'
          BY <2>2, <3>1, <3>2, <3>4 DEF OnTime, BeforeChange, Waits, Pcs
        <5>3. LateRefused(req[a])'
          BY <3>1, <3>2, <3>4, Zenon DEF LateRefused, endVars
        <5> QED BY <4>1, <5>1, <5>2, <5>3 DEF Good
      <4>2. CASE b # a
        <5>1. req'[b] = req[b] /\ Good(req[b])
          BY <2>1, <3>4, <4>2, Zenon
        <5> QED BY <3>2, <5>1, ZenonT(30) DEF Good, Carries, OnTime, BeforeChange, LateRefused, userVars, endVars
      <4> QED BY <4>1, <4>2
    <3>8. OneHolder'
      <4>1. MayIssue(req'[a]) => t \in live
        BY <3>1, <3>4 DEF MayIssue
      <4>2. req'[a].sid = token[t].sid /\ \A b \in Actors \ {a} : req'[b] = req[b]
        BY <3>4, Zenon
      <4>3. /\ \A b \in Actors : MayIssue(req[b]) => \A u \in live : token[u].sid # req[b].sid
            /\ \A b, c \in Actors : MayIssue(req[b]) /\ MayIssue(req[c]) /\ req[b].sid = req[c].sid => b = c
            /\ \A u, v \in live : token[u].sid = token[v].sid => u = v
        BY <2>1, Zenon DEF OneHolder, OneLiveToken
      <4>4. \A b \in Actors \ {a} : MayIssue(req'[b]) /\ MayIssue(req'[a]) => req'[b].sid # req'[a].sid
        BY <4>1, <4>2, <4>3
      <4>5. \A b, c \in Actors : MayIssue(req'[b]) /\ MayIssue(req'[c]) /\ req'[b].sid = req'[c].sid => b = c
        <5> SUFFICES ASSUME NEW b \in Actors, NEW c \in Actors, MayIssue(req'[b]), MayIssue(req'[c]),
                            req'[b].sid = req'[c].sid, b # c
                     PROVE  FALSE
          BY Zenon
        <5>1. b # a /\ c # a
          BY <4>4
        <5>2. req'[b] = req[b] /\ req'[c] = req[c]
          BY <4>2, <5>1, Zenon
        <5> QED BY <4>3, <5>2, Zenon
      <4>6. \A b \in Actors : MayIssue(req'[b]) => \A u \in live \ {t} : token[u].sid # req'[b].sid
        <5>1. MayIssue(req'[a]) => \A u \in live \ {t} : token[u].sid # req'[a].sid
          BY <4>1, <4>2, <4>3
        <5>2. \A b \in Actors \ {a} : MayIssue(req'[b]) => \A u \in live \ {t} : token[u].sid # req'[b].sid
          BY <4>2, <4>3
        <5> QED BY <5>1, <5>2, Zenon
      <4> QED BY <2>1, <3>2, <4>5, <4>6, ZenonT(30) DEF OneHolder, OneLiveToken, MayIssue
    <3>9. EndsRecorded' /\ SocketChecked' /\ AccessMinted'
      BY <2>1, <3>2, Zenon DEF EndsRecorded, SocketChecked, AccessMinted, endVars, userVars
    <3> QED BY <3>5, <3>6, <3>7, <3>8, <3>9, Zenon DEF IInv
  <2>30. ASSUME NEW a \in Actors, LoginToken(a) \/ Issue(a) PROVE IInv'
    <3>1. /\ CreateToken(req[a].sid, req[a].cred) /\ MayIssue(req[a])
          /\ UNCHANGED <<now, endVars, access, userVars, socket, left>>
      BY <2>30 DEF LoginToken, Issue, MayIssue
    <3>2. req[a].sid \in Sids /\ req[a].cred # 0 /\ req[a].cred = credOf[req[a].sid] /\ req[a] \in Reqs
      BY <2>1, <2>2, <2>30 DEF LoginToken, Issue, Good, Carries
    <3>3. PICK n \in Tokens : n = issued + 1
      <4>1. issued \in 0..MaxTokens /\ MaxTokens \in Nat
        BY <2>1, <2>2, Zenon
      <4>2. issued < MaxTokens
        BY <3>1, Zenon DEF CreateToken
      <4> QED BY <4>1, <4>2 DEF Tokens
    <3>4. PICK new \in [sid : 0..MaxSessions, cred : Nat] :
              /\ new = [sid |-> req[a].sid, cred |-> req[a].cred]
              /\ new.sid = req[a].sid /\ new.cred = req[a].cred
      <4>1. req[a].sid \in 0..MaxSessions /\ req[a].cred \in Nat
        BY <3>2, Zenon DEF Reqs
      <4>2. PICK s, c : s = req[a].sid /\ c = req[a].cred
        OBVIOUS
      <4>3. [sid |-> s, cred |-> c] \in [sid : 0..MaxSessions, cred : Nat]
        BY <4>1, <4>2, Zenon
      <4>4. [sid |-> s, cred |-> c].sid = s /\ [sid |-> s, cred |-> c].cred = c
        OBVIOUS
      <4> QED BY <4>2, <4>3, <4>4, Zenon
    <3>5. /\ issued' = n /\ token' = [token EXCEPT ![n] = new] /\ live' = live \cup {n} /\ index' = index \cup {n}
          /\ rotated' = rotated /\ n \notin 1..issued /\ 1..n = 1..issued \cup {n} /\ n \in Nat
      <4>1. issued \in Nat
        BY <2>2
      <4>2. n \notin 1..issued /\ 1..n = 1..issued \cup {n} /\ n \in Nat
        BY <3>3, <4>1
      <4> QED BY <3>1, <3>3, <3>4, <4>2, Zenon DEF CreateToken
    <3>6. /\ token' \in [Tokens -> [sid : 0..MaxSessions, cred : Nat]] /\ token'[n] = new
          /\ \A t \in 1..issued : token'[t] = token[t]
      BY <2>2, <3>5, Zenon
    <3>7. /\ req' \in [Actors -> Reqs] /\ \A b \in Actors \ {a} : req'[b] = req[b]
          /\ ~MayIssue(req'[a]) /\ Good(req[a])'
      <4>1. CASE LoginToken(a)
        <5>1. /\ req' \in [Actors -> Reqs] /\ \A b \in Actors \ {a} : req'[b] = req[b]
              /\ req'[a].pc = "idle" /\ ~req'[a].late
          BY <2>3, <4>1, Zenon DEF LoginToken, Finish
        <5> QED BY <5>1, Zenon DEF Good, Carries, OnTime, BeforeChange, LateRefused, MayIssue, Waits
      <4>2. CASE Issue(a)
        <5>1. PICK pc \in Pcs : pc = "readRecord"
          BY DEF Pcs
        <5>2. req[a].pc = "issue" /\ req' = [req EXCEPT ![a].pc = pc, ![a].succ = n] /\ Good(req[a])
          BY <2>1, <3>3, <4>2, <5>1 DEF Issue
        <5>3. /\ req' \in [Actors -> Reqs] /\ \A b \in Actors \ {a} : req'[b] = req[b]
              /\ req'[a].pc = pc /\ req'[a].tok = req[a].tok /\ req'[a].sid = req[a].sid
              /\ req'[a].cred = req[a].cred /\ req'[a].at = req[a].at /\ req'[a].late = req[a].late
          <6>1. req \in [Actors -> Reqs] /\ n \in Nat /\ req' = [req EXCEPT ![a].pc = pc, ![a].succ = n]
            BY <2>2, <3>5, <5>2
          <6>2. req' \in [Actors -> Reqs]
            <7>1. [req[a] EXCEPT !.pc = pc, !.succ = n] \in Reqs
              BY <3>2, <6>1, Zenon DEF Reqs
            <7>2. req' = [req EXCEPT ![a] = [req[a] EXCEPT !.pc = pc, !.succ = n]]
              BY <6>1, Zenon DEF Reqs
            <7> QED BY <6>1, <7>1, <7>2
          <6>3. /\ req'[a].pc = pc /\ req'[a].tok = req[a].tok /\ req'[a].sid = req[a].sid
                /\ req'[a].cred = req[a].cred /\ req'[a].at = req[a].at /\ req'[a].late = req[a].late
            BY <5>2, <6>1 DEF Reqs
          <6> QED BY <5>2, <6>1, <6>2, <6>3
        <5> QED BY <2>2, <3>1, <3>2, <3>5, <5>1, <5>2, <5>3
                DEF Good, Carries, OnTime, BeforeChange, LateRefused, MayIssue, Waits, Pcs, userVars
      <4> QED BY <2>30, <4>1, <4>2
    <3>8. Types'
      <4>1. live' \subseteq 1..issued' /\ index' \subseteq Tokens /\ issued' \in 0..MaxTokens
        BY <2>2, <3>3, <3>5 DEF Tokens
      <4> QED BY <2>1, <3>1, <3>5, <3>6, <3>7, <4>1, Zenon DEF Types, userVars, endVars
    <3>9. TokensOpened'
      <4>1. token'[n].sid = req[a].sid /\ token'[n].cred = req[a].cred
        BY <3>4, <3>6, Zenon
      <4>2. \A t \in 1..issued : /\ token[t].sid \in Sids /\ token[t].cred # 0
                                 /\ token[t].cred = credOf[token[t].sid]
        BY <2>1, Zenon DEF TokensOpened
      <4>3. \A t \in 1..issued : token'[t] = token[t]
        BY <3>6
      <4>4. credOf' = credOf
        BY <3>1 DEF userVars
      <4>5. \A t \in 1..issued' : t \in 1..issued \/ t = n
        BY <2>2, <3>3, <3>5, Zenon
      <4> QED BY <3>2, <4>1, <4>2, <4>3, <4>4, <4>5, Zenon DEF TokensOpened
    <3>10. ASSUME NEW b \in Actors PROVE Good(req[b])'
      <4>1. CASE b # a
        <5>1. req'[b] = req[b] /\ Good(req[b])
          BY <2>1, <3>7, <4>1, Zenon
        <5> QED BY <3>1, <3>5, <5>1, ZenonT(30) DEF Good, Carries, OnTime, BeforeChange, LateRefused, userVars, endVars
      <4> QED BY <3>7, <4>1, Zenon
    <3>11. OneHolder'
      <4>1. token'[n].sid = req[a].sid /\ \A t \in live : token'[t] = token[t]
        <5>1. live \subseteq 1..issued
          BY <2>2, Zenon
        <5>2. token'[n].sid = req[a].sid
          BY <3>4, <3>6, Zenon
        <5> QED BY <3>6, <5>1, <5>2, Zenon
      <4>2. \A t \in live : token[t].sid # req[a].sid
        BY <2>1, <3>1, Zenon DEF OneHolder
      <4>3. OneLiveToken'
        <5>1. \A t, u \in live : token[t].sid = token[u].sid => t = u
          BY <2>1, Zenon DEF OneHolder, OneLiveToken
        <5>2. live' = live \cup {n}
          BY <3>5
        <5> QED BY <4>1, <4>2, <5>1, <5>2 DEF OneLiveToken
      <4>4. \A b \in Actors : MayIssue(req'[b]) => b # a /\ req'[b] = req[b] /\ MayIssue(req[b])
        BY <3>7
      <4>5. \A b \in Actors : MayIssue(req'[b]) => \A t \in live' : token'[t].sid # req'[b].sid
        <5>1. \A b \in Actors : MayIssue(req'[b]) => \A t \in live : token[t].sid # req'[b].sid
          BY <2>1, <4>4, Zenon DEF OneHolder
        <5>2. \A b \in Actors : MayIssue(req'[b]) => req'[b].sid # req[a].sid
          BY <2>1, <3>1, <4>4, Zenon DEF OneHolder
        <5>3. live' = live \cup {n}
          BY <3>5
        <5> QED BY <4>1, <5>1, <5>2, <5>3, Zenon
      <4>6. \A b, c \in Actors : MayIssue(req'[b]) /\ MayIssue(req'[c]) /\ req'[b].sid = req'[c].sid => b = c
        BY <2>1, <4>4, Zenon DEF OneHolder
      <4> QED BY <4>3, <4>5, <4>6, Zenon DEF OneHolder, MayIssue
    <3>12. EndsRecorded' /\ SocketChecked' /\ AccessMinted'
      BY <2>1, <3>1, Zenon DEF EndsRecorded, SocketChecked, AccessMinted, endVars, userVars
    <3> QED BY <3>8, <3>9, <3>10, <3>11, <3>12, Zenon DEF IInv
  \* The changes of the account, the socket and the clock.
  <2>31. ASSUME UpdateUser \/ DeleteUser \/ ResetPassword \/ SuspendCompany PROVE IInv'
    <3>1. /\ ThenEndAll /\ account' \in {"active", "inactive", "suspended"}
          /\ \/ cred' = cred + 1 /\ changed' = now
             \/ cred' = cred /\ changed' = changed
      BY <2>1, <2>31, Zenon DEF UpdateUser, DeleteUser, ResetPassword, SuspendCompany, SetPassword, Close, Types
    <3>2. PICK a \in Actors, pc \in Pcs :
              /\ req' = [req EXCEPT ![a] = [None EXCEPT !.pc = pc, !.at = now]] /\ pc = "endAll"
      BY <3>1, Zenon DEF ThenEndAll, Actors, Pcs
    <3>3. UNCHANGED <<now, tokenVars, endVars, access, credOf, socket>>
      BY <3>1 DEF ThenEndAll
    <3>4. /\ req' \in [Actors -> Reqs] /\ \A b \in Actors \ {a} : req'[b] = req[b]
          /\ req'[a].pc = pc /\ req'[a].at = now /\ ~req'[a].late
      <4>1. 0 \in 0..MaxSessions /\ now \in Nat /\ req \in [Actors -> Reqs]
        BY <2>1, <2>2
      <4>2. [None EXCEPT !.pc = pc, !.at = now] \in Reqs
        BY <4>1, Zenon DEF None, Reqs
      <4>3. LET r == [None EXCEPT !.pc = pc, !.at = now] IN r.pc = pc /\ r.at = now /\ ~r.late
        BY DEF None
      <4> QED BY <3>2, <4>1, <4>2, <4>3
    <3>5. Types'
      <4>1. cred' \in Nat \ {0} /\ changed' \in Nat
        BY <2>2, <3>1
      <4> QED BY <2>1, <3>1, <3>3, <3>4, <4>1, Zenon DEF Types, tokenVars, endVars
    <3>6. TokensOpened'
      BY <2>1, <3>3, Zenon DEF TokensOpened, tokenVars
    <3>7. ASSUME NEW b \in Actors PROVE Good(req[b])'
      <4>1. CASE b = a
        BY <2>2, <3>2, <3>3, <3>4, <4>1 DEF Good, Carries, OnTime, BeforeChange, LateRefused, Waits, Pcs
      <4>2. CASE b # a
        <5>1. req'[b] = req[b] /\ Good(req[b]) /\ req[b] \in Reqs
          BY <2>1, <2>2, <3>4, <4>2, Zenon
        <5>2. Carries(req[b])' /\ OnTime(req[b])' /\ LateRefused(req[b])'
          BY <3>3, <5>1, Zenon DEF Good, Carries, OnTime, LateRefused, tokenVars, endVars
        <5>3. BeforeChange(req[b])'
          <6>1. CASE cred' = cred /\ changed' = changed
            BY <3>3, <5>1, <6>1, Zenon DEF Good, BeforeChange
          <6>2. CASE changed' = now
            <7>1. req[b].at \in Nat
              BY <5>1, Zenon DEF Reqs
            <7>2. req[b].pc \in Waits => req[b].at <= now + Skew + 1
              BY <5>1, Zenon DEF Good, OnTime, Waits
            <7>3. req[b].pc \in {"signIn", "issue", "readRecord", "writeRecord", "mint"} => req[b].at <= now
              BY <5>1, Zenon DEF Good, OnTime, Waits
            <7>4. req[b].pc \in Waits => req[b].at <= now + Skew + 2
              <8>1. now \in Nat /\ Skew \in Nat
                BY <2>1, <2>2, Zenon
              <8> QED BY <7>1, <7>2, <8>1
            <7> QED BY <5>1, <6>2, <7>3, <7>4, Zenon DEF BeforeChange
          <6> QED BY <3>1, <6>1, <6>2
        <5> QED BY <5>2, <5>3, Zenon DEF Good
      <4> QED BY <4>1, <4>2
    <3>8. OneHolder'
      <4>1. ~MayIssue(req'[a]) /\ \A b \in Actors \ {a} : req'[b] = req[b]
        BY <3>2, <3>4 DEF MayIssue
      <4>2. \A b \in Actors : MayIssue(req'[b]) => MayIssue(req[b]) /\ req'[b] = req[b]
        BY <4>1, Zenon
      <4>3. live' = live /\ token' = token
        BY <3>3 DEF tokenVars
      <4>4. OneLiveToken'
        BY <2>1, <4>3, Zenon DEF OneHolder, OneLiveToken
      <4>5. \A b \in Actors : MayIssue(req'[b]) => \A t \in live : token[t].sid # req'[b].sid
        BY <2>1, <4>2, Zenon DEF OneHolder
      <4>6. \A b, c \in Actors : MayIssue(req'[b]) /\ MayIssue(req'[c]) /\ req'[b].sid = req'[c].sid => b = c
        BY <2>1, <4>2, Zenon DEF OneHolder
      <4> QED BY <4>3, <4>4, <4>5, <4>6, Zenon DEF OneHolder, MayIssue
    <3>9. EndsRecorded' /\ SocketChecked'
      BY <2>1, <3>3, Zenon DEF EndsRecorded, SocketChecked, endVars
    <3>10. AccessMinted'
      <4>1. \A x \in access : x.iat \in Nat
        BY <2>1, Zenon DEF Types, Accesses
      <4> QED BY <2>1, <2>2, <3>1, <3>3, <4>1, SMTT(30) DEF AccessMinted
    <3> QED BY <3>5, <3>6, <3>7, <3>8, <3>9, <3>10, Zenon DEF IInv
  <2>32. ASSUME OpenSocket \/ SocketWatch \/ SocketWatchFails \/ UNCHANGED vars PROVE IInv'
    <3>1. UNCHANGED <<now, tokenVars, endVars, access, userVars, req>>
      BY <2>32 DEF OpenSocket, SocketWatch, SocketWatchFails, vars, tokenVars, endVars, userVars
    <3>2. TokensOpened' /\ (\A b \in Actors : Good(req[b])') /\ EndsRecorded' /\ AccessMinted'
      BY <2>1, <3>1, ZenonT(30) DEF TokensOpened, Good, Carries, OnTime, BeforeChange, LateRefused, EndsRecorded, AccessMinted,
                        tokenVars, endVars, userVars
    <3>3. OneHolder'
      BY <2>1, <3>1, ZenonT(30) DEF OneHolder, OneLiveToken, MayIssue, tokenVars
    <3>4. socket' \in Sockets /\ SocketChecked'
      <4>1. CASE OpenSocket
        <5>1. PICK x \in access : /\ ~SessionEnded(x.sid, x.iat) /\ x.iat + AccessTTL > now
                                  /\ socket' = [sid |-> x.sid, iat |-> x.iat, checked |-> now, erred |-> 0]
          BY <4>1, Zenon DEF OpenSocket, SocketUser
        <5>2. x.sid \in Sids /\ x.iat \in Nat /\ x.iat <= now /\ x.iat # 0
          BY <2>1, Zenon DEF Types, Accesses, AccessMinted
        <5>3. socket'.sid = x.sid /\ socket'.iat = x.iat /\ socket'.checked = now
          BY <5>1, Zenon
        <5>4. socket' \in Sockets
          BY <2>2, <5>1, <5>2 DEF Sockets
        <5>5. ~(ended[x.sid].at # 0 /\ x.iat <= ended[x.sid].at)
          <6>1. ended[x.sid] \in Ends /\ ended[x.sid].at \in Nat /\ ended[x.sid].until \in Nat
            BY <2>2, <5>2, Zenon DEF Ends
          <6>2. ended[x.sid].until <= now
            BY <2>2, <5>1, <6>1, SMTT(30) DEF SessionEnded, SessionRecorded
          <6>3. ended[x.sid].at # 0 => ended[x.sid].until >= ended[x.sid].at + EndedTTL
            BY <2>1, <5>2, Zenon DEF EndsRecorded
          <6>4. now \in Nat /\ AccessTTL \in Nat /\ Margin \in Nat /\ EndedTTL = AccessTTL + Margin
            BY <2>1, <2>2, Zenon
          <6>5. x.iat + AccessTTL > now
            BY <5>1, Zenon
          <6> PICK t, e, u : t = x.iat /\ e = ended[x.sid].at /\ u = ended[x.sid].until
            OBVIOUS
          <6> QED BY <5>2, <6>1, <6>2, <6>3, <6>4, <6>5, SMTT(30)
        <5> QED BY <2>1, <2>2, <3>1, <5>2, <5>3, <5>4, <5>5, SMTT(30) DEF SocketChecked, endVars
      <4>2. CASE SocketWatch
        <5>1. CASE socket' = NoSocket
          BY <2>1, <5>1, SMTT(30) DEF NoSocket, SocketChecked, Sockets
        <5>2. CASE ~WatchCloses /\ socket' = [socket EXCEPT !.checked = now] /\ socket # NoSocket
          <6>1. socket \in Sockets
            BY <2>1, Zenon DEF Types
          <6>2. /\ socket'.sid = socket.sid /\ socket'.iat = socket.iat /\ socket'.checked = now
                /\ socket' \in Sockets
            BY <2>2, <5>2, <6>1 DEF Sockets
          <6>3. socket.sid \in Sids /\ socket.iat # 0 /\ socket.iat \in Nat
            BY <2>1, <5>2, <6>1 DEF SocketChecked, Sockets
          <6>4. now < socket.iat + AccessTTL /\ ~SessionEnded(socket.sid, socket.iat)
            BY <2>1, <2>2, <4>2, <5>2, <6>3 DEF WatchCloses, SocketWatch, SocketExpired
          <6>5. ~(ended[socket.sid].at # 0 /\ socket.iat <= ended[socket.sid].at)
            <7>1. ended[socket.sid].at \in Nat /\ ended[socket.sid].until \in Nat
              BY <2>2, <6>3, Zenon DEF Ends
            <7>2. ended[socket.sid].until <= now
              BY <2>2, <6>4, <7>1 DEF SessionEnded, SessionRecorded
            <7>3. ended[socket.sid].at # 0 => ended[socket.sid].until >= ended[socket.sid].at + EndedTTL
              BY <2>1, <6>3, Zenon DEF EndsRecorded
            <7> QED BY <2>1, <2>2, <6>3, <6>4, <7>1, <7>2, <7>3, SMTT(30)
          <6> QED BY <2>1, <2>2, <3>1, <6>2, <6>3, <6>5, SMTT(30) DEF SocketChecked, endVars
        <5> QED BY <4>2, <5>1, <5>2 DEF SocketWatch
      <4>3. CASE UNCHANGED vars
        BY <2>1, <4>3, Zenon DEF vars, Types, SocketChecked
      <4>4. CASE SocketWatchFails
        <5>1. /\ socket # NoSocket /\ socket' = [socket EXCEPT !.checked = now, !.erred = now]
              /\ socket \in Sockets
          BY <2>1, <4>4, Zenon DEF SocketWatchFails, Types
        <5>2. /\ socket'.sid = socket.sid /\ socket'.iat = socket.iat
              /\ socket'.checked = now /\ socket'.erred = now /\ socket' \in Sockets
          BY <2>2, <5>1 DEF Sockets
        <5>3. socket.sid \in Sids /\ socket.iat # 0
          BY <2>1, <5>1, Zenon DEF SocketChecked
        <5> QED BY <2>1, <2>2, <3>1, <5>2, <5>3, SMTT(30) DEF SocketChecked, endVars
      <4> QED BY <2>32, <4>1, <4>2, <4>3, <4>4, Zenon
    <3>5. Types'
      BY <2>1, <3>1, <3>4, Zenon DEF Types, tokenVars, endVars, userVars
    <3> QED BY <3>2, <3>3, <3>4, <3>5, Zenon DEF IInv
  <2>33. ASSUME Tick PROVE IInv'
    <3>1. /\ now < Horizon /\ now' = now + 1 /\ access' \subseteq access
          /\ UNCHANGED <<tokenVars, endVars, userVars, socket, req, left>>
      BY <2>33, Zenon DEF Tick
    <3>2. TokensOpened'
      BY <2>1, <3>1, Zenon DEF TokensOpened, tokenVars, userVars
    <3>3. OneHolder'
      BY <2>1, <3>1, ZenonT(30) DEF OneHolder, OneLiveToken, MayIssue, tokenVars
    <3>4. Types'
      <4>1. now' \in Nat \ {0} /\ now' <= Horizon + 1 /\ userEnded <= now'
        BY <2>1, <2>2, <3>1, SMTT(30)
      <4> QED BY <2>1, <3>1, <4>1, Zenon DEF Types, tokenVars, endVars, userVars
    <3>5. EndsRecorded'
      BY <2>1, <2>2, <3>1, SMTT(30) DEF EndsRecorded, Ends, endVars
    <3>6. AccessMinted'
      <4>1. \A x \in access : x.iat \in Nat
        BY <2>1, Zenon DEF Types, Accesses
      <4> QED BY <2>1, <2>2, <3>1, <4>1, SMTT(30) DEF AccessMinted, userVars
    <3>7. SocketChecked'
      <4>1. CASE socket = NoSocket
        BY <3>1, <4>1, Zenon DEF SocketChecked
      <4>2. CASE socket # NoSocket
        <5>1. socket.checked \in Nat /\ socket.checked <= now
          BY <2>1, <4>2, SMTT(30) DEF SocketChecked, Types, Sockets
        <5>2. ~(now - socket.checked >= Recheck)
          BY <2>33, <4>2, Zenon DEF Tick, SocketDue
        <5>3. now + 1 <= socket.checked + Recheck
          BY <2>1, <2>2, <5>1, <5>2
        <5> QED BY <2>1, <2>2, <3>1, <4>2, <5>1, <5>3, SMTT(30) DEF SocketChecked, endVars
      <4> QED BY <4>1, <4>2
    <3>8. ASSUME NEW b \in Actors PROVE Good(req[b])'
      <4>1. req'[b] = req[b] /\ Good(req[b]) /\ req[b] \in Reqs
        BY <2>1, <2>2, <3>1, Zenon
      <4>2. Carries(req[b])' /\ BeforeChange(req[b])' /\ LateRefused(req[b])'
        BY <3>1, <4>1, Zenon DEF Good, Carries, BeforeChange, LateRefused, tokenVars, endVars, userVars
      <4>3. OnTime(req[b])'
        <5>1. req[b].at \in Nat
          BY <4>1, Zenon DEF Reqs
        <5>2. \/ req[b].pc = "idle" \/ req[b].at > now
              \/ req[b].at = now /\ req[b].pc \notin Waits
          BY <2>33, Zenon DEF Tick, Waits
        <5>3. now \in Nat /\ Skew \in Nat /\ now' = now + 1
          BY <2>1, <2>2, <3>1, Zenon
        <5>4. OnTime(req[b])
          BY <4>1, Zenon DEF Good
        <5>5. CASE req[b].pc = "idle"
          BY <4>1, <5>5, Zenon DEF OnTime
        <5>6. CASE req[b].pc \in Waits /\ now <= req[b].at /\ req[b].at <= now + Skew + 1
          <6>1. req[b].pc # "idle"
            BY <5>6, Zenon DEF Waits
          <6>2. req[b].at > now
            BY <5>2, <5>6, <6>1, Zenon
          <6>3. now' <= req[b].at /\ req[b].at <= now' + Skew + 1
            BY <5>1, <5>3, <5>6, <6>2
          <6> QED BY <4>1, <5>6, <6>3, Zenon DEF OnTime
        <5>7. CASE req[b].pc \in Pcs \ ({"idle"} \cup Waits) /\ req[b].at <= now /\ now <= req[b].at + 1
          <6>1. req[b].at = now
            BY <5>1, <5>2, <5>3, <5>7
          <6>2. req[b].at <= now' /\ now' <= req[b].at + 1
            BY <5>1, <5>3, <6>1
          <6> QED BY <4>1, <5>7, <6>2, Zenon DEF OnTime
        <5> QED BY <5>4, <5>5, <5>6, <5>7, Zenon DEF OnTime
      <4> QED BY <4>2, <4>3 DEF Good
    <3> QED BY <3>2, <3>3, <3>4, <3>5, <3>6, <3>7, <3>8, Zenon DEF IInv
  <2> QED
    BY <2>10, <2>11, <2>12, <2>13, <2>14, <2>15, <2>16, <2>17, <2>18, <2>19, <2>20, <2>21, <2>22, <2>23, <2>24,
       <2>25, <2>26, <2>27, <2>28, <2>29, <2>30, <2>31, <2>32, <2>33, Zenon DEF Next
<1> QED BY <1>1, <1>2, PTL DEF Spec

\* Rotation forks no session, for any number of clients presenting any tokens at once
\* (claim_refresh_token, replay, create_refresh_token): the right to the session's next refresh
\* token is held by one live token or by one request, and every step moves it whole.
THEOREM RotationForksNoSession == Spec => []OneLiveToken
<1>1. IInv => OneLiveToken
  BY Zenon DEF IInv, OneHolder
<1> QED BY <1>1, Invariance, PTL

\* An ended session stays ended, whatever the lifetimes, as long as the record of an end is kept
\* for an access lifetime and at least the clock skew (_ended_ttl, session_ended): no access token
\* issued by the end is admitted, and no refresh token presented late gets a successor.
THEOREM EndIsFinal == Spec => []EndedStaysEnded
<1>1. IInv => EndedStaysEnded
  <2> SUFFICES ASSUME IInv PROVE EndedStaysEnded
    OBVIOUS
  <2>1. /\ Types /\ EndsRecorded /\ AccessMinted /\ \A a \in Actors : Good(req[a])
        /\ AccessTTL \in Nat /\ Margin \in Nat /\ Skew \in Nat /\ Skew <= Margin /\ EndedTTL = AccessTTL + Margin
    BY SessionBounds, Zenon DEF IInv, EndedTTL
  <2>2. ASSUME NEW x \in access, x.iat + AccessTTL > now,
               \/ ended[x.sid].at # 0 /\ x.iat <= ended[x.sid].at
               \/ userEnded # 0 /\ x.iat <= userEnded + Skew
        PROVE  SessionEnded(x.sid, x.iat)
    <3>1. x.sid \in Sids /\ x.iat \in Nat /\ now \in Nat /\ userEnded \in Nat
      BY <2>1, Zenon DEF Types, Accesses
    <3>2. ended[x.sid].at \in Nat /\ ended[x.sid].until \in Nat
      BY <2>1, <3>1, Zenon DEF Types, Ends
    <3>3. CASE ended[x.sid].at # 0 /\ x.iat <= ended[x.sid].at
      BY <2>1, <2>2, <3>1, <3>2, <3>3, SMTT(30) DEF EndsRecorded, SessionEnded, SessionRecorded
    <3>4. CASE userEnded # 0 /\ x.iat <= userEnded + Skew
      BY <2>1, <2>2, <3>1, <3>4 DEF SessionEnded, UserEndRecorded
    <3> QED BY <2>2, <3>3, <3>4, Zenon
  <2>3. \A a \in Actors : req[a].late => req[a].pc \notin {"issue", "readRecord", "writeRecord"}
    BY <2>1, Zenon DEF Good, LateRefused
  <2> QED BY <2>2, <2>3, Zenon DEF EndedStaysEnded, Admitted, AdmittedByService
<1> QED BY <1>1, Invariance, PTL

\* A session opened with an earlier password is gone one access lifetime and one wait after the
\* change (UserManager.on_after_update, credential_fingerprint, wait_out_an_end), even when the end
\* of all sessions fails half way: what refuses it is the fingerprint its refresh tokens carry.
THEOREM EarlierPasswordFades == Spec => []OldCredentialFades
<1>1. IInv => OldCredentialFades
  <2> SUFFICES ASSUME IInv, now > changed + AccessTTL + Skew + 1,
                      NEW x \in access, credOf[x.sid] < cred, Admitted(x)
               PROVE  FALSE
    BY Zenon DEF OldCredentialFades
  <2>1. x.iat \in Nat /\ now \in Nat /\ changed \in Nat /\ AccessTTL \in Nat /\ Skew \in Nat
    BY SessionBounds, Zenon DEF IInv, Types, Accesses
  <2>2. x.iat <= changed + Skew + 2
    BY Zenon DEF IInv, AccessMinted
  <2>3. x.iat + AccessTTL > now
    BY Zenon DEF Admitted
  <2> QED BY <2>1, <2>2, <2>3
<1> QED BY <1>1, Invariance, PTL

\* A live socket outlives the end of its session by at most the re-check interval, counted from the
\* end or from the last re-check the database or the store left unanswered, whatever that interval
\* is (_SessionWatch, close_code).
THEOREM SocketClosesInTime == Spec => []SocketFollowsSession
<1>1. IInv => SocketFollowsSession
  <2> SUFFICES ASSUME IInv, socket # NoSocket, socket.iat <= ended[socket.sid].at
               PROVE  now - ended[socket.sid].at <= Recheck \/ now - socket.erred <= Recheck
    BY Zenon DEF SocketFollowsSession
  <2>1. /\ socket.sid \in Sids /\ socket.iat # 0 /\ now <= socket.checked + Recheck
        /\ ended[socket.sid].at # 0 /\ socket.iat <= ended[socket.sid].at =>
             socket.checked <= ended[socket.sid].at \/ socket.checked = socket.erred
    BY Zenon DEF IInv, SocketChecked
  <2>2. /\ socket.iat \in Nat /\ socket.checked \in Nat /\ socket.erred \in Nat
        /\ now \in Nat /\ Recheck \in Nat /\ ended[socket.sid].at \in Nat
    BY SessionBounds, <2>1, Zenon DEF IInv, Types, Ends, Sockets
  <2> QED BY <2>1, <2>2
<1> QED BY <1>1, Invariance, PTL
=============================================================================
