------------------------- MODULE TenantStatusStream -------------------------
(***************************************************************************)
(* How ingestion learns of a suspension: each alert-worker replica sends   *)
(* every tenant's registry status on the tenant-status topic once an       *)
(* interval (tenant_status_publisher.py), and each ingestion replica keeps *)
(* the last status it heard and forgets it when it is not repeated         *)
(* (ingestion_service/tenant_status.py).  One tenant; time in ticks.       *)
(*                                                                         *)
(* Timing is part of the promise, so it is in the model: a publisher       *)
(* sleeps Interval between rounds, a round reaches the tenant's status     *)
(* within SendLag (each send of the round has a timeout, _send_on), and a  *)
(* broker that is up delivers within a tick.  A slow round may outlast     *)
(* what a follower remembers: one send's timeout alone is STALE_AFTER_     *)
(* SECONDS.  A send that timed out may still be written by the producer's  *)
(* retries, at any later time.                                             *)
(***************************************************************************)
EXTENDS Naturals, Sequences

CONSTANTS
    Publishers, \* alert-worker replicas
    Followers,  \* ingestion replicas
    Interval,   \* PUBLISH_INTERVAL_SECONDS
    Stale,      \* STALE_AFTER_SECONDS
    SendLag,    \* how long a round may take to send the tenant's status
    MaxChanges, \* bound: suspensions and reactivations
    MaxFaults   \* bound: failures

ASSUME ConstAssumption ==
    /\ Publishers # {}
    /\ Interval \in Nat \ {0}
    /\ SendLag \in Nat
    /\ Stale \in Nat /\ Interval <= Stale
    /\ MaxChanges \in Nat
    /\ MaxFaults \in Nat

VARIABLES
    active,     \* companies.is_active
    steady,     \* history: ticks since that last changed
    pub,        \* each publisher: its place in the round, ticks there, what it read
    limbo,      \* each publisher: statuses of timed-out sends not yet written
    linked,     \* whether each follower's consumer is connected
    chan,       \* messages on their way to each follower
    heard,      \* each follower: last status heard, and its age
    changes,
    faults

vars == <<active, steady, pub, limbo, linked, chan, heard, changes, faults>>

Horizon == Stale + 2 * (Interval + SendLag)
Nothing == [known |-> FALSE, active |-> FALSE, age |-> 0]

Init ==
    /\ active = TRUE
    /\ steady = 0
    /\ pub = [p \in Publishers |-> [pc |-> "read", for |-> 0, val |-> TRUE]]
    /\ limbo = [p \in Publishers |-> {}]
    /\ linked = [f \in Followers |-> TRUE]
    /\ chan = [f \in Followers |-> <<>>]
    /\ heard = [f \in Followers |-> Nothing]
    /\ changes = 0
    /\ faults = 0

\* The tenant is suspended or reactivated.
Change ==
    /\ changes < MaxChanges
    /\ changes' = changes + 1
    /\ active' = ~active
    /\ steady' = 0
    /\ UNCHANGED <<pub, limbo, linked, chan, heard, faults>>

Fault ==
    /\ faults < MaxFaults
    /\ faults' = faults + 1
-----------------------------------------------------------------------------
\* publish_once reads the registry, once the sleep is over.
Read(p) ==
    /\ pub[p].pc = "read"
    /\ pub' = [pub EXCEPT ![p] = [pc |-> "send", for |-> 0, val |-> active]]
    /\ UNCHANGED <<active, steady, limbo, linked, chan, heard, changes, faults>>

\* A status is on the topic: every connected replica will read it.
Written(v) ==
    chan' = [f \in Followers |-> IF linked[f] THEN Append(chan[f], v) ELSE chan[f]]

\* The round is over, however it ended: run sleeps for the interval.
Sleep(p) == pub' = [pub EXCEPT ![p].pc = "sleep", ![p].for = 0]

Send_OnChange(p) ==
    /\ pub[p].pc = "send"
    /\ IF \A f \in Followers : heard[f].known /\ heard[f].active = pub[p].val
       THEN chan' = chan
       ELSE Written(pub[p].val)
    /\ Sleep(p)
    /\ UNCHANGED <<active, steady, limbo, linked, heard, changes, faults>>

\* ... and sends what it read.
Send(p) ==
    /\ pub[p].pc = "send"
    /\ Written(pub[p].val)
    /\ Sleep(p)
    /\ UNCHANGED <<active, steady, limbo, linked, heard, changes, faults>>

\* A round fails: the registry could not be read, or the send timed out with
\* its message lost or still in the producer.
RoundFails(p) ==
    /\ Fault
    /\ \/ pub[p].pc = "read" /\ limbo' = limbo
       \/ pub[p].pc = "send" /\ limbo' = limbo
       \/ pub[p].pc = "send" /\ limbo' = [limbo EXCEPT ![p] = @ \cup {pub[p].val}]
    /\ Sleep(p)
    /\ UNCHANGED <<active, steady, linked, chan, heard, changes>>

\* The producer's retry of a timed-out send gets through.
LateWrite(p, v) ==
    /\ v \in limbo[p]
    /\ limbo' = [limbo EXCEPT ![p] = @ \ {v}]
    /\ Written(v)
    /\ UNCHANGED <<active, steady, pub, linked, heard, changes, faults>>

\* The replica is gone, its producer with it.
Stop(p) ==
    /\ Fault
    /\ pub[p].pc # "gone"
    /\ pub' = [pub EXCEPT ![p].pc = "gone", ![p].for = 0]
    /\ limbo' = [limbo EXCEPT ![p] = {}]
    /\ UNCHANGED <<active, steady, linked, chan, heard, changes>>

\* TenantStatus.apply
Apply(f) ==
    /\ chan[f] # <<>>
    /\ heard' = [heard EXCEPT ![f] = [known |-> TRUE, active |-> Head(chan[f]), age |-> 0]]
    /\ chan' = [chan EXCEPT ![f] = Tail(@)]
    /\ UNCHANGED <<active, steady, pub, limbo, linked, changes, faults>>

\* follow: the stream is lost ...
LoseStream(f) ==
    /\ Fault
    /\ linked[f]
    /\ linked' = [linked EXCEPT ![f] = FALSE]
    /\ chan' = [chan EXCEPT ![f] = <<>>]
    /\ UNCHANGED <<active, steady, pub, limbo, heard, changes>>

\* ... and followed again, from the newest offset.
Reconnect(f) ==
    /\ ~linked[f]
    /\ linked' = [linked EXCEPT ![f] = TRUE]
    /\ UNCHANGED <<active, steady, pub, limbo, chan, heard, changes, faults>>

Aged_Never(h) ==
    IF h.known /\ h.age < Stale THEN [h EXCEPT !.age = @ + 1] ELSE h

\* is_suspended forgets a status older than the bound.
Aged(h) ==
    CASE ~h.known -> h
      [] h.known /\ h.age < Stale -> [h EXCEPT !.age = @ + 1]
      [] OTHER -> Nothing

\* A tick passes; no sleep, send or delivery outlasts its time.
Tick ==
    /\ \A p \in Publishers :
          /\ pub[p].pc # "read"
          /\ pub[p].pc = "send" => pub[p].for < SendLag
    /\ \A f \in Followers : chan[f] = <<>>
    /\ steady' = IF steady < Horizon THEN steady + 1 ELSE steady
    /\ pub' = [p \in Publishers |->
          CASE pub[p].pc = "gone" -> pub[p]
            [] pub[p].pc = "sleep" /\ pub[p].for + 1 = Interval ->
                   [pub[p] EXCEPT !.pc = "read", !.for = 0]
            [] OTHER -> [pub[p] EXCEPT !.for = @ + 1]]
    /\ heard' = [f \in Followers |-> Aged(heard[f])]
    /\ UNCHANGED <<active, limbo, linked, chan, changes, faults>>

Next ==
    \/ Change
    \/ \E p \in Publishers :
          \/ Read(p)
          \/ Send(p)
          \/ RoundFails(p)
          \/ \E v \in BOOLEAN : LateWrite(p, v)
          \/ Stop(p)
    \/ \E f \in Followers : Apply(f) \/ LoseStream(f) \/ Reconnect(f)
    \/ Tick

Spec == Init /\ [][Next]_vars

\* Time passes, and what a running replica has to do it does in time.
FairSpec ==
    /\ Spec
    /\ WF_vars(Tick)
    /\ \A p \in Publishers : WF_vars(Read(p) \/ Send(p))
    /\ \A f \in Followers : WF_vars(Apply(f))
-----------------------------------------------------------------------------
\* is_suspended: whether a follower refuses the tenant's devices.
Refuses(f) == heard[f].known /\ ~heard[f].active

\* The state's types; what a follower remembers is never older than the bound
\* (is_suspended forgets it), and a round never outlasts its time.
TypeOK ==
    /\ active \in BOOLEAN
    /\ steady \in 0 .. Horizon
    /\ \A p \in Publishers :
          /\ pub[p].pc \in {"read", "send", "sleep", "gone"}
          /\ pub[p].for \in 0 .. Interval + SendLag
          /\ pub[p].val \in BOOLEAN
    /\ limbo \in [Publishers -> SUBSET BOOLEAN]
    /\ linked \in [Followers -> BOOLEAN]
    /\ chan \in [Followers -> Seq(BOOLEAN)]
    /\ \A f \in Followers : heard[f].age \in 0 .. Stale

\* A round that has lasted for so long that what came of the one before it
\* is forgotten.
Slow(p) == pub[p].pc = "send" /\ Interval + pub[p].for > Stale

\* The last a follower heard, or is about to, is that the tenant is suspended.
Informed(f) == IF chan[f] = <<>> THEN Refuses(f) ELSE ~chan[f][Len(chan[f])]

\* A suspension reaches ingestion within one interval and the sends of two
\* rounds, and stays known: while nothing fails, a tenant suspended for longer
\* is refused by every replica, whichever publisher spoke last.  Only while
\* every publisher is in a slow round may a replica have forgotten it
\* (tenant_status_publisher.py, STALE_AFTER_SECONDS).
ReachesIngestion ==
    faults = 0 /\ ~active /\ steady > Interval + 2 * SendLag =>
        \/ \A f \in Followers : Informed(f)
        \/ \A p \in Publishers : Slow(p)

\* A stopped publisher cannot strand a reactivated tenant: whatever failed,
\* and however late a send of before the reactivation is written, a tenant
\* that stays active is in the end refused by no replica
\* (ingestion_service/tenant_status.py).
NotStranded ==
    \A f \in Followers : <>[]active => <>[]~Refuses(f)
=============================================================================
