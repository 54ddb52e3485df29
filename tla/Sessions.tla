------------------------------ MODULE Sessions ------------------------------
(***************************************************************************)
(* The platform sessions of one user: rotating refresh tokens, access      *)
(* tokens, sign-out, the end of all sessions, and a live socket.           *)
(*                                                                         *)
(* The shared store and the user row are global state.  A request is a     *)
(* record in "req" that moves from one await of its handler to the next,   *)
(* so the requests of several clients interleave at every store call.      *)
(* Time is a bounded clock.  The horizon is shorter than the lifetime of   *)
(* a refresh token, so refresh tokens, rotation records and the records    *)
(* written with that lifetime do not expire within it.  Every end of a     *)
(* session is followed by revoke_user_capabilities, which touches none of  *)
(* this state: Notebooks models it.                                        *)
(***************************************************************************)
EXTENDS Naturals, FiniteSets

CONSTANTS Clients,      \* tabs and API clients that hold the user's tokens
          Admin,        \* whoever changes the password or the account
          MaxTokens,    \* bound on refresh tokens ever issued
          MaxSessions,  \* bound on sign-ins
          MaxChanges,   \* bound on changes of the account: new passwords, deactivation, suspension
          Horizon,      \* bound on the clock
          MaxEvents,    \* bound on requests, account changes, sockets and store failures
          Grace,        \* ROTATION_GRACE_SECONDS
          Skew,         \* CLOCK_SKEW_SECONDS
          AccessTTL,    \* lifetime of an access token
          Margin,       \* the minute _ended_ttl adds to it
          Recheck       \* WS_SESSION_RECHECK_SECONDS

ASSUME SessionBounds == /\ {MaxTokens, MaxSessions, MaxChanges} \subseteq Nat \ {0}
                        /\ {Horizon, MaxEvents, Grace, Skew, AccessTTL, Margin, Recheck} \subseteq Nat
                        /\ Skew <= Margin /\ AccessTTL + Margin >= 2
                        /\ Admin \notin Clients

Actors == Clients \cup {Admin}
Tokens == 1..MaxTokens
Sids == 1..MaxSessions
\* Past every time the clock reaches: the end of a record with the refresh lifetime.
Forever == Horizon + AccessTTL + Margin + 2

VARIABLES now,      \* the wall clock
          token,    \* token[t]: the session and password fingerprint of refresh token t
          issued,   \* how many refresh tokens were issued
          live,     \* tokens whose key is in the store
          index,    \* tokens in the per-user index
          rotated,  \* rotated[t]: what a claimed token was rotated into
          ended,    \* ended[s]: when the session was first recorded ended, and until when the record lives
          userEnded,\* when all of the user's sessions were last ended; 0 when never
          access,   \* unexpired access tokens
          cred,     \* the user's current password
          credOf,   \* the password each session was opened with; 0 for a session not opened
          changed,  \* when the current password was set
          account,  \* the state of the user and of their company
          socket,   \* the open socket: its access token, when it was last re-checked, and (history) the last re-check without an answer
          req,      \* the requests in flight
          left      \* events that may still happen (a bound, no state of the code)

vars == <<now, token, issued, live, index, rotated, ended, userEnded, access,
          cred, credOf, changed, account, socket, req, left>>
tokenVars == <<token, issued, live, index, rotated>>
endVars == <<ended, userEnded>>
userVars == <<cred, credOf, changed, account>>

None == [pc |-> "idle", tok |-> 0, sid |-> 0, cred |-> 0, succ |-> 0, mark |-> FALSE,
         todo |-> {}, at |-> 0, late |-> FALSE]
NotRotated == [at |-> 0, succ |-> 0, ended |-> FALSE]
NoSocket == [sid |-> 0, iat |-> 0, checked |-> 0, erred |-> 0]
NotEnded == [at |-> 0, until |-> 0]

Init ==
    /\ now = 1
    /\ token = [t \in Tokens |-> [sid |-> 0, cred |-> 0]]
    /\ issued = 0
    /\ live = {} /\ index = {}
    /\ rotated = [t \in Tokens |-> NotRotated]
    /\ ended = [s \in Sids |-> NotEnded]
    /\ userEnded = 0
    /\ access = {}
    /\ cred = 1 /\ changed = 1 /\ account = "active"
    /\ credOf = [s \in Sids |-> 0]
    /\ socket = NoSocket
    /\ req = [a \in Actors |-> None]
    /\ left = MaxEvents

-----------------------------------------------------------------------------
(* The ended-session record.                                               *)

EndedTTLShort == AccessTTL - 1

\* An ended-session record outlives every access token issued before it.
EndedTTL == AccessTTL + Margin

\* The record says this session ended.
SessionRecorded(s) == ended[s].until > now

\* The record of the end of all sessions is still in the store.
UserEndRecorded == userEnded # 0 /\ userEnded + EndedTTL > now

\* sessions.session_ended: the token's session ended, or all sessions ended no earlier than
\* the skew before its issue.
SessionEnded(sid, iat) ==
    \/ SessionRecorded(sid)
    \/ UserEndRecorded /\ iat <= userEnded + Skew

\* A usable user: exists, is active, and the company is not suspended.
Usable == account = "active"

\* read_token: whether a request that presents this access token is admitted.
Admitted(a) == Usable /\ a.iat + AccessTTL > now /\ ~SessionEnded(a.sid, a.iat)

\* verify_jwt_token: whether the ML service admits the access token.  The token names the user's
\* company; a user moved to another has their sessions ended as by a new password.
AdmittedByService(a) ==
    /\ a.iat + AccessTTL > now
    /\ Usable
    /\ ~SessionEnded(a.sid, a.iat)

RecordEnded(s, until) ==
    ended' = [ended EXCEPT ![s] = [at |-> IF @.at = 0 THEN now ELSE @.at, until |-> until]]

\* create_refresh_token: the token and its index entry are one transaction.
CreateToken(sid, c) ==
    /\ issued < MaxTokens
    /\ issued' = issued + 1
    /\ token' = [token EXCEPT ![issued + 1] = [sid |-> sid, cred |-> c]]
    /\ live' = live \cup {issued + 1}
    /\ index' = index \cup {issued + 1}
    /\ UNCHANGED rotated

\* wait_out_an_end: when a token may be minted so that it counts as issued after the last end of
\* all sessions.
ReadyAt == IF UserEndRecorded /\ userEnded + Skew >= now THEN userEnded + Skew + 1 ELSE now

\* write_token reads the record once and then waits on the clock; a record that cannot be read
\* waits for nothing.
WaitOut(a, from, to) ==
    /\ req[a].pc = from
    /\ \E ready \in {now, ReadyAt} : req' = [req EXCEPT ![a].pc = to, ![a].at = ready]

MintAccess(sid) == access' = access \cup {[sid |-> sid, iat |-> now]}

Event == left > 0 /\ left' = left - 1

Goto(a, pc) == req' = [req EXCEPT ![a].pc = pc]
Finish(a) == req' = [req EXCEPT ![a] = None]

-----------------------------------------------------------------------------
(* Sign-in.                                                                *)

\* login, up to the access token: the password is right and the account admitted.
LoginStart(a) ==
    /\ req[a].pc = "idle" /\ a # Admin
    /\ Usable
    /\ \E s \in Sids :
         /\ credOf[s] = 0 /\ \A r \in Sids : r < s => credOf[r] # 0
         /\ credOf' = [credOf EXCEPT ![s] = cred]
         /\ req' = [req EXCEPT ![a] = [None EXCEPT !.pc = "signIn", !.sid = s, !.cred = cred, !.at = now]]
    /\ Event
    /\ UNCHANGED <<now, tokenVars, endVars, access, cred, changed, account, socket>>

LoginWait(a) ==
    /\ WaitOut(a, "signIn", "signInWait")
    /\ UNCHANGED <<now, tokenVars, endVars, access, userVars, socket, left>>

\* login, the access token; then the refresh token follows.
LoginMint(a) ==
    /\ req[a].pc = "signInWait" /\ now >= req[a].at
    /\ MintAccess(req[a].sid)
    /\ Goto(a, "signInToken")
    /\ UNCHANGED <<now, tokenVars, endVars, userVars, socket, left>>

LoginToken(a) ==
    /\ req[a].pc = "signInToken"
    /\ CreateToken(req[a].sid, req[a].cred)
    /\ Finish(a)
    /\ UNCHANGED <<now, endVars, access, userVars, socket, left>>

-----------------------------------------------------------------------------
(* Refresh.                                                                *)

ClaimKept(a, t) ==
    /\ req[a].pc = "idle" /\ a # Admin
    /\ t <= issued
    /\ UNCHANGED live
    /\ req' = [req EXCEPT ![a] =
                 [None EXCEPT !.pc = IF t \in live THEN "claimed" ELSE "replay",
                              !.tok = t, !.sid = token[t].sid, !.cred = token[t].cred, !.at = now]]
    /\ Event
    /\ UNCHANGED <<now, token, issued, index, rotated, endVars, access, userVars, socket>>

\* claim_refresh_token, the GETDEL: of two uses of one token only one gets it.  "late" notes,
\* for the properties, that the session was already recorded ended for longer than a request.
Claim(a, t) ==
    /\ req[a].pc = "idle" /\ a # Admin
    /\ t <= issued
    /\ live' = live \ {t}
    /\ req' = [req EXCEPT ![a] =
                 [None EXCEPT !.pc = IF t \in live THEN "claimed" ELSE "replay",
                              !.tok = t, !.sid = token[t].sid, !.cred = token[t].cred, !.at = now,
                              !.late = ended[token[t].sid].until > now + 1]]
    /\ Event
    /\ UNCHANGED <<now, token, issued, index, rotated, endVars, access, userVars, socket>>

\* claim_refresh_token, after the claim: out of the index, and the rotation record.
RecordRotation(a) ==
    /\ req[a].pc = "claimed"
    /\ index' = index \ {req[a].tok}
    /\ rotated' = [rotated EXCEPT ![req[a].tok] = [at |-> now, succ |-> 0, ended |-> FALSE]]
    /\ Goto(a, "check")
    /\ UNCHANGED <<now, token, issued, live, endVars, access, userVars, socket, left>>

\* refresh: a session recorded as ended is not continued.
CheckEnded(a) ==
    /\ req[a].pc = "check"
    /\ IF SessionRecorded(req[a].sid) THEN Finish(a) ELSE Goto(a, "load")
    /\ UNCHANGED <<now, tokenVars, endVars, access, userVars, socket, left>>

LoadAnyPassword(a) ==
    /\ req[a].pc = "load"
    /\ Goto(a, CASE account = "inactive" -> "refused"
                 [] account = "suspended" -> "endAll"
                 [] account = "active" -> IF req[a].succ = 0 THEN "issue" ELSE "mint")
    /\ UNCHANGED <<now, tokenVars, endVars, access, userVars, socket, left>>

\* refresh: the user is loaded once; a changed password or a suspended company ends everything.
LoadUser(a) ==
    /\ req[a].pc = "load"
    /\ \/ account = "inactive" /\ Finish(a)
       \/ /\ account # "inactive"
          /\ req[a].cred # cred \/ account = "suspended"
          /\ Goto(a, "endAll")
       \/ /\ account = "active" /\ req[a].cred = cred
          /\ Goto(a, IF req[a].succ = 0 THEN "issue" ELSE "mint")
    /\ UNCHANGED <<now, tokenVars, endVars, access, userVars, socket, left>>

Issue(a) ==
    /\ req[a].pc = "issue"
    /\ CreateToken(req[a].sid, req[a].cred)
    /\ req' = [req EXCEPT ![a].pc = "readRecord", ![a].succ = issued + 1]
    /\ UNCHANGED <<now, endVars, access, userVars, socket, left>>

\* record_successor reads the rotation record and writes it back whole.
ReadRotation(a) ==
    /\ req[a].pc = "readRecord"
    /\ req' = [req EXCEPT ![a].pc = "writeRecord", ![a].mark = rotated[req[a].tok].ended]
    /\ UNCHANGED <<now, tokenVars, endVars, access, userVars, socket, left>>

WriteSuccessor(a) ==
    /\ req[a].pc = "writeRecord"
    /\ rotated' = [rotated EXCEPT ![req[a].tok].succ = req[a].succ, ![req[a].tok].ended = req[a].mark]
    /\ Goto(a, "mint")
    /\ UNCHANGED <<now, token, issued, live, index, endVars, access, userVars, socket, left>>

MintWait(a) ==
    /\ WaitOut(a, "mint", "mintWait")
    /\ UNCHANGED <<now, tokenVars, endVars, access, userVars, socket, left>>

Mint(a) ==
    /\ req[a].pc = "mintWait" /\ now >= req[a].at
    /\ MintAccess(req[a].sid)
    /\ Finish(a)
    /\ UNCHANGED <<now, tokenVars, endVars, userVars, socket, left>>

\* replay of a token that could not be claimed: no rotation recorded in time, or its successor
\* did not appear in time or is gone; a concurrent refresh, given the successor; a reuse
\* already dealt with; the first reuse.
Replay(a) ==
    LET t == req[a].tok
        r == rotated[t]
        reuse == r.at # 0 /\ now - r.at > Grace
    IN
    /\ req[a].pc = "replay"
    /\ \/ /\ ~reuse \/ r.ended
          /\ Finish(a)
          /\ UNCHANGED rotated
       \/ /\ r.at # 0 /\ ~reuse /\ r.succ \in live
          /\ req' = [req EXCEPT ![a].pc = "load", ![a].succ = r.succ]
          /\ UNCHANGED rotated
       \/ /\ reuse /\ ~r.ended
          /\ rotated' = [rotated EXCEPT ![t].ended = TRUE]
          /\ Goto(a, "reused")
    /\ UNCHANGED <<now, token, issued, live, index, endVars, access, userVars, socket, left>>

\* _end_reused_session: the record first, for the refresh lifetime, then the index is read.
EndReused(a) ==
    /\ req[a].pc = "reused"
    /\ RecordEnded(req[a].sid, Forever)
    /\ Goto(a, "listReused")
    /\ UNCHANGED <<now, tokenVars, userEnded, access, userVars, socket, left>>

ListReused(a) ==
    /\ req[a].pc = "listReused"
    /\ req' = [req EXCEPT ![a].pc = "sweepReused", ![a].todo = index]
    /\ UNCHANGED <<now, tokenVars, endVars, access, userVars, socket, left>>

\* The session's own tokens are removed one at a time; then the user's capabilities.
SweepReused(a) ==
    /\ req[a].pc = "sweepReused"
    /\ \/ \E t \in req[a].todo :
            LET mine == t \in live /\ token[t].sid = req[a].sid IN
            /\ live' = IF mine THEN live \ {t} ELSE live
            /\ index' = IF mine THEN index \ {t} ELSE index
            /\ req' = [req EXCEPT ![a].todo = @ \ {t}]
       \/ /\ req[a].todo = {}
          /\ Finish(a)
          /\ UNCHANGED <<live, index>>
    /\ UNCHANGED <<now, token, issued, rotated, endVars, access, userVars, socket, left>>

-----------------------------------------------------------------------------
(* Sign-out.                                                               *)

\* logout with a refresh token, the GETDEL; without one (and destroy_token) it starts at the
\* access token.  An access token need only verify: its session may have ended already.
Logout(a, t, sid) ==
    /\ req[a].pc = "idle" /\ a # Admin
    /\ t <= issued
    /\ sid = 0 \/ \E x \in access : x.sid = sid
    /\ t # 0 \/ sid # 0
    /\ live' = live \ {t}
    /\ req' = [req EXCEPT ![a] =
                 [None EXCEPT !.pc = IF t \in live THEN "logoutRecord" ELSE "logoutAccess",
                              !.tok = t, !.sid = sid, !.at = now]]
    /\ Event
    /\ UNCHANGED <<now, token, issued, index, rotated, endVars, access, userVars, socket>>

\* revoke_refresh_token: the session's record, for the access lifetime; then the index.
LogoutRecord(a) ==
    /\ req[a].pc = "logoutRecord"
    /\ RecordEnded(token[req[a].tok].sid, now + EndedTTL)
    /\ index' = index \ {req[a].tok}
    /\ req' = [req EXCEPT ![a].pc = "logoutAccess"]
    /\ UNCHANGED <<now, token, issued, live, rotated, userEnded, access, userVars, socket, left>>

\* end_session for the access token presented, and the capabilities of whoever was named.
LogoutAccess(a) ==
    /\ req[a].pc = "logoutAccess"
    /\ IF req[a].sid # 0 THEN RecordEnded(req[a].sid, now + EndedTTL) ELSE UNCHANGED ended
    /\ Finish(a)
    /\ UNCHANGED <<now, tokenVars, userEnded, access, userVars, socket, left>>

-----------------------------------------------------------------------------
(* The end of all sessions.                                                *)

\* An account change writes the row first; the end of all sessions follows.
SetPassword == cred' = cred + 1 /\ changed' = now /\ UNCHANGED account
Close(to) == account = "active" /\ account' = to /\ UNCHANGED <<cred, changed>>

Changes == (cred - 1) + (IF account = "active" THEN 0 ELSE 1)

ThenEndAll ==
    /\ Changes < MaxChanges
    /\ req[Admin].pc = "idle"
    /\ req' = [req EXCEPT ![Admin] = [None EXCEPT !.pc = "endAll", !.at = now]]
    /\ Event
    /\ UNCHANGED <<now, tokenVars, endVars, access, credOf, socket>>

\* update_user, and update_me for the password alone: on_after_update ends the sessions.
UpdateUser == ThenEndAll /\ (SetPassword \/ Close("inactive"))

\* delete_user in the gateway and on the command line; a deleted user is one no longer found.
DeleteUser == ThenEndAll /\ Close("inactive")

\* reset_password on the command line, and the gateway's reset.
ResetPassword == ThenEndAll /\ SetPassword

\* The company is suspended: each of its users' sessions end, this one's among them.
SuspendCompany == ThenEndAll /\ Close("suspended")

\* end_all_sessions: the time first.
EndAll(a) ==
    /\ req[a].pc = "endAll"
    /\ userEnded' = now
    /\ Goto(a, "listAll")
    /\ UNCHANGED <<now, tokenVars, ended, access, userVars, socket, left>>

\* revoke_all_refresh_tokens: the index is read once; "tok" remembers the newest token by then.
ListAll(a) ==
    /\ req[a].pc = "listAll"
    /\ req' = [req EXCEPT ![a].pc = "sweepAll", ![a].todo = index, ![a].tok = issued]
    /\ UNCHANGED <<now, tokenVars, endVars, access, userVars, socket, left>>

\* Each token read is claimed and its session recorded ended, in two calls; exactly what was
\* read leaves the index at the end.
SweepAll(a) ==
    /\ \/ /\ req[a].pc = "sweepAll"
          /\ \E t \in req[a].todo :
               /\ live' = live \ {t}
               /\ req' = [req EXCEPT ![a].todo = @ \ {t},
                                     ![a].pc = IF t \in live THEN "recordAll" ELSE @,
                                     ![a].sid = IF t \in live THEN token[t].sid ELSE 0]
          /\ UNCHANGED <<index, ended>>
       \/ /\ req[a].pc = "recordAll"
          /\ RecordEnded(req[a].sid, now + EndedTTL)
          /\ req' = [req EXCEPT ![a].pc = "sweepAll", ![a].sid = 0]
          /\ UNCHANGED <<live, index>>
       \/ /\ req[a].pc = "sweepAll" /\ req[a].todo = {}
          /\ index' = index \ (1..req[a].tok)
          /\ Finish(a)
          /\ UNCHANGED <<live, ended>>
    /\ UNCHANGED <<now, token, issued, rotated, userEnded, access, userVars, socket, left>>

-----------------------------------------------------------------------------
(* The socket, the environment and time.                                   *)

\* get_user_from_token: the access cookie verifies and its user is usable.
SocketUser(a) == a.iat + AccessTTL > now /\ Usable

\* _authenticate on the handshake.
OpenSocket ==
    /\ socket = NoSocket
    /\ \E a \in access : /\ SocketUser(a) /\ ~SessionEnded(a.sid, a.iat)
                        /\ socket' = [sid |-> a.sid, iat |-> a.iat, checked |-> now, erred |-> 0]
    /\ Event
    /\ UNCHANGED <<now, tokenVars, endVars, access, userVars, req>>

SocketExpired == now >= socket.iat + AccessTTL
SocketDue == now - socket.checked >= Recheck

WatchIgnoresEnd == SocketExpired \/ (SocketDue /\ ~Usable)

\* close_code: the socket closes when its token expired, or at a re-check that finds the user
\* unusable or the session ended.
WatchCloses == SocketExpired \/ (SocketDue /\ (~Usable \/ SessionEnded(socket.sid, socket.iat)))

SocketWatch ==
    /\ socket # NoSocket
    /\ SocketExpired \/ SocketDue
    /\ socket' = IF WatchCloses THEN NoSocket ELSE [socket EXCEPT !.checked = now]
    /\ UNCHANGED <<now, tokenVars, endVars, access, userVars, req, left>>

\* close_code, a re-check the database or the store does not answer: no revocation, so the socket
\* stays open and is checked again an interval later.
SocketWatchFails ==
    /\ socket # NoSocket
    /\ ~SocketExpired /\ SocketDue
    /\ socket' = [socket EXCEPT !.checked = now, !.erred = now]
    /\ Event
    /\ UNCHANGED <<now, tokenVars, endVars, access, userVars, req>>

\* A store error ends a request where it stands.
RequestFails(a) ==
    /\ req[a].pc # "idle"
    /\ Finish(a)
    /\ Event
    /\ UNCHANGED <<now, tokenVars, endVars, access, userVars, socket>>

\* A tick is longer than a request and than the socket's loop; only a request waiting out an
\* end of all sessions outlasts one.
Tick ==
    /\ now < Horizon
    /\ socket = NoSocket \/ ~(SocketExpired \/ SocketDue)
    /\ \A a \in Actors : \/ req[a].pc = "idle" \/ req[a].at > now
                         \/ req[a].at = now /\ req[a].pc \notin {"signInWait", "mintWait"}
    /\ now' = now + 1
    /\ access' = {x \in access : x.iat + AccessTTL > now + 1}
    /\ UNCHANGED <<tokenVars, endVars, userVars, socket, req, left>>

Next ==
    \/ \E a \in Actors :
         \/ LoginStart(a) \/ LoginWait(a) \/ LoginMint(a) \/ LoginToken(a)
         \/ \E t \in Tokens : Claim(a, t)
         \/ RecordRotation(a) \/ CheckEnded(a) \/ LoadUser(a) \/ Issue(a)
         \/ ReadRotation(a) \/ WriteSuccessor(a) \/ MintWait(a) \/ Mint(a) \/ Replay(a)
         \/ EndReused(a) \/ ListReused(a) \/ SweepReused(a)
         \/ \E t \in Tokens \cup {0}, s \in Sids \cup {0} : Logout(a, t, s)
         \/ LogoutRecord(a) \/ LogoutAccess(a)
         \/ EndAll(a) \/ ListAll(a) \/ SweepAll(a) \/ RequestFails(a)
    \/ UpdateUser \/ DeleteUser \/ ResetPassword \/ SuspendCompany \/ OpenSocket \/ SocketWatch \/ SocketWatchFails
    \/ Tick

Spec == Init /\ [][Next]_vars

-----------------------------------------------------------------------------
(* Properties.                                                             *)

\* An ended session stays ended.  An access token issued no later than a recorded end of its
\* session, or than an end of all sessions, is never admitted again, by the gateway or by the ML
\* service: each record outlives the tokens it has to refuse (sessions.py, _ended_ttl).  And a
\* refresh token presented while its session is recorded ended yields no successor, even one
\* issued in a race with the ending (session_was_ended, checked after the claim).
EndedStaysEnded ==
    /\ \A x \in access :
           \/ ended[x.sid].at # 0 /\ x.iat <= ended[x.sid].at
           \/ userEnded # 0 /\ x.iat <= userEnded + Skew
           => ~Admitted(x) /\ ~AdmittedByService(x)
    /\ \A a \in Actors : req[a].late => req[a].pc \notin {"issue", "readRecord", "writeRecord"}

\* Rotation forks no session: at most one refresh token of a session is live, whatever two
\* clients present at once (claim_refresh_token, replay).
OneLiveToken ==
    \A t, u \in live : token[t].sid = token[u].sid => t = u

\* A session opened with an earlier password is gone one access lifetime, plus the wait a
\* request may be in, after the change, wherever the password was set: no access token of it is
\* admitted after that (UserManager.on_after_update, credential_fingerprint).
OldCredentialFades ==
    now > changed + AccessTTL + Skew + 1 =>
        \A x \in access : credOf[x.sid] < cred => ~Admitted(x)

\* A socket outlives the end of its session by at most one re-check interval, counted from the end
\* or from the last re-check that got no answer: an answered re-check never leaves it open
\* (_SessionWatch.close_code).
SocketFollowsSession ==
    socket # NoSocket /\ socket.iat <= ended[socket.sid].at =>
        now - ended[socket.sid].at <= Recheck \/ now - socket.erred <= Recheck

\* "a refresh token of it, issued in a race with the ending, is refused rather than continuing
\* it" (session_was_ended): no refresh token is issued in a session whose end was recorded before
\* the request began.
EndedNeverContinues ==
    \A a \in Actors :
        req[a].pc \in {"issue", "readRecord", "writeRecord"} =>
            (ended[req[a].sid].at = 0 \/ ended[req[a].sid].at >= req[a].at)
=============================================================================
