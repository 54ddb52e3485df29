-------------------------- MODULE CapabilityAudit ---------------------------
(***************************************************************************)
(* The record of capability use: events appended to a bounded stream by    *)
(* the planes that mint, present and remove handles, and the writer, one   *)
(* consumer per gateway process, that moves them to the database.          *)
(*                                                                         *)
(* Each store script is one atomic step.  A consumer's pass is four steps: *)
(* claim what was left pending, read new entries, write, acknowledge.      *)
(***************************************************************************)
EXTENDS Naturals, FiniteSets

CONSTANTS Consumers,  \* gateway processes
          MaxEvents,  \* bound on events ever appended
          MaxStream,  \* STREAM_MAXLEN
          Batch,      \* BATCH
          MaxRepeats, \* bound on repeatable events ever presented
          MaxFaults,  \* bound on failed passes and crashes
          RepeatWindow, \* REPEAT_WINDOW_SECONDS
          CountTTL    \* REPEAT_COUNT_TTL_SECONDS

ASSUME AuditBounds == /\ {MaxEvents, MaxStream, Batch, MaxRepeats, MaxFaults} \subseteq Nat
                      /\ {RepeatWindow, CountTTL} \subseteq Nat \ {0}

Ids == 1..MaxEvents

VARIABLES window,   \* time left of the repeat window's marker; 0 when there is none
          count,    \* repeats counted, not recorded: n of them, and the time left of the count
          repeats,  \* (history) repeatable events presented, and those accounted for
          quiet,    \* (history) time since the last of them, while there is a count
          last,     \* the last stream id
          stream,   \* ids in the stream
          kind,     \* kind[i]: what the database makes of entry i
          seen,     \* the group's last delivered id
          pel,      \* pel[i]: the entry is delivered and not acknowledged, and whether it is idle
          drain,    \* each consumer's pass
          rows,     \* rows[i]: rows of the record for entry i
          skipped,  \* entries acknowledged as unreadable or refused
          trimmed,  \* (history) entries the stream's bound pushed out
          faults    \* failures so far

vars == <<window, count, repeats, quiet, last, stream, kind, seen, pel, drain, rows, skipped, trimmed, faults>>
planeVars == <<window, count, repeats, quiet>>
logVars == <<last, stream, kind, trimmed>>
writeVars == <<seen, pel, drain, rows, skipped, faults>>

Idle == [pc |-> "idle", batch |-> {}]
NoCount == [n |-> 0, left |-> 0]

Init ==
    /\ window = 0 /\ count = NoCount /\ quiet = 0
    /\ repeats = [presented |-> 0, accounted |-> 0]
    /\ last = 0 /\ stream = {}
    /\ kind = [i \in Ids |-> "ok"]
    /\ seen = 0 /\ pel = [i \in Ids |-> "none"]
    /\ drain = [c \in Consumers |-> Idle]
    /\ rows = [i \in Ids |-> 0]
    /\ skipped = {} /\ trimmed = {} /\ faults = 0

-----------------------------------------------------------------------------
(* The planes.                                                             *)

Least(S, n) == {i \in S : Cardinality({j \in S : j < i}) < n}

\* XADD with MAXLEN ~: the oldest entries may go when the stream is full, written or not.  An entry
\* may be one the database refuses for what it holds, or one the writer cannot read.
Append ==
    /\ last < MaxEvents
    /\ last' = last + 1
    /\ \E k \in {"ok", "refused", "unreadable"} : kind' = [kind EXCEPT ![last + 1] = k]
    /\ LET over == Least(stream, IF Cardinality(stream) < MaxStream THEN 0
                                 ELSE Cardinality(stream) + 1 - MaxStream) IN
       \E old \in {{}, over} : /\ stream' = (stream \ old) \cup {last + 1}
                               /\ trimmed' = trimmed \cup old

\* A minting or a removal with its entry, a first use with its marker, an unknown value's refusal
\* with its own: one event, atomic with what it records.
Record ==
    /\ Append
    /\ UNCHANGED <<planeVars, writeVars>>

Counted_ExpiresFromFirst ==
    [n |-> count.n + 1, left |-> IF count.n = 0 THEN CountTTL ELSE count.left]

\* REPEAT_SCRIPT inside the window: INCR, and the count's life starts again.
Counted == [n |-> count.n + 1, left |-> CountTTL]

\* REPEAT_SCRIPT: a refusal of a real entry, or a SQL session's opening or closing.  Recorded with
\* the count of those since the last, or counted.
Repeat ==
    /\ repeats.presented < MaxRepeats
    /\ quiet' = 0
    /\ IF window > 0
       THEN /\ count' = Counted
            /\ repeats' = [repeats EXCEPT !.presented = @ + 1]
            /\ UNCHANGED <<window, logVars>>
       ELSE /\ window' = RepeatWindow
            /\ count' = NoCount
            /\ repeats' = [repeats EXCEPT !.presented = @ + 1, !.accounted = @ + 1 + count.n]
            /\ Append
    /\ UNCHANGED writeVars

\* Time passes for the window's marker and for the count; the count expires with what it holds.
\* Lost with it is accounted for only when no repeatable event followed for its whole life.
RepeatAges ==
    LET expires == count.left = 1
        unfollowed == quiet + 1 >= CountTTL IN
    /\ window > 0 \/ count.left > 0
    /\ window' = IF window > 0 THEN window - 1 ELSE 0
    /\ count' = IF count.left > 1 THEN [count EXCEPT !.left = @ - 1] ELSE NoCount
    /\ repeats' = [repeats EXCEPT !.accounted = @ + IF expires /\ unfollowed THEN count.n ELSE 0]
    /\ quiet' = IF count.left > 1 THEN quiet + 1 ELSE 0
    /\ UNCHANGED <<logVars, writeVars>>

-----------------------------------------------------------------------------
(* The writer.                                                             *)

Drain(c, pc, batch) == drain' = [drain EXCEPT ![c] = [pc |-> pc, batch |-> batch]]

\* Pending entries have been idle long enough to be claimed.
GoIdle ==
    /\ \E i \in Ids : pel[i] = "fresh"
    /\ pel' = [i \in Ids |-> IF pel[i] = "fresh" THEN "idle" ELSE pel[i]]
    /\ UNCHANGED <<planeVars, logVars, seen, drain, rows, skipped, faults>>

ClaimNothing(c) ==
    /\ drain[c].pc = "idle"
    /\ Drain(c, "read", {})
    /\ UNCHANGED <<planeVars, logVars, seen, pel, rows, skipped, faults>>

\* XAUTOCLAIM: idle pending entries are this consumer's, and fresh again; one already trimmed
\* leaves the pending list.
ClaimPending(c) ==
    LET idle == {i \in Ids : pel[i] = "idle"}
        mine == Least(idle \cap stream, Batch)
    IN
    /\ drain[c].pc = "idle"
    /\ pel' = [i \in Ids |-> IF i \in mine THEN "fresh"
                             ELSE IF i \in idle \ stream THEN "none" ELSE pel[i]]
    /\ Drain(c, "read", mine)
    /\ UNCHANGED <<planeVars, logVars, seen, rows, skipped, faults>>

\* XREADGROUP: new entries.  A pass with nothing to write ends.
ReadNew(c) ==
    LET fresh == Least({i \in stream : i > seen}, Batch)
        got == drain[c].batch \cup fresh
    IN
    /\ drain[c].pc = "read"
    /\ seen' = IF fresh = {} THEN seen ELSE CHOOSE i \in fresh : \A j \in fresh : j <= i
    /\ pel' = [i \in Ids |-> IF i \in fresh THEN "fresh" ELSE pel[i]]
    /\ Drain(c, IF got = {} THEN "idle" ELSE "write", got)
    /\ UNCHANGED <<planeVars, logVars, rows, skipped, faults>>

Readable(S) == {i \in S : kind[i] # "unreadable"}
Accepted(S) == {i \in S : kind[i] = "ok"}

\* The stream id is the row's key: a row already there is left as it is.
Insert(S) == rows' = [i \in Ids |-> IF i \in S /\ rows[i] = 0 THEN 1 ELSE rows[i]]

\* write_batch: the rows in one transaction, or one by one when the database refuses a row for what
\* it holds.  Everything read is acknowledged, the unreadable and the refused included.
Write(c) ==
    /\ drain[c].pc = "write"
    /\ Insert(Accepted(drain[c].batch))
    /\ skipped' = skipped \cup (drain[c].batch \ Accepted(drain[c].batch))
    /\ Drain(c, "ack", drain[c].batch)
    /\ UNCHANGED <<planeVars, logVars, seen, pel, faults>>

\* Any other failure raises: nothing is acknowledged, though rows written one by one stay.
WriteFails(c) ==
    /\ drain[c].pc = "write" /\ faults < MaxFaults
    /\ LET b == drain[c].batch
           oneByOne == Accepted(b) # Readable(b)
       IN \E n \in 0..(IF oneByOne THEN Cardinality(Readable(b)) - 1 ELSE 0) :
            Insert(Accepted(Least(Readable(b), n)))
    /\ Drain(c, "idle", {})
    /\ faults' = faults + 1
    /\ UNCHANGED <<planeVars, logVars, seen, pel, skipped>>

\* XACK and XDEL together.
Ack(c) ==
    /\ drain[c].pc = "ack"
    /\ stream' = stream \ drain[c].batch
    /\ pel' = [i \in Ids |-> IF i \in drain[c].batch THEN "none" ELSE pel[i]]
    /\ Drain(c, "idle", {})
    /\ UNCHANGED <<planeVars, last, kind, trimmed, seen, rows, skipped, faults>>

\* The process dies, or the store refuses the acknowledgement; what it held stays pending.
Crash(c) ==
    /\ drain[c].pc # "idle" /\ faults < MaxFaults
    /\ Drain(c, "idle", {})
    /\ faults' = faults + 1
    /\ UNCHANGED <<planeVars, logVars, seen, pel, rows, skipped>>

Pass(c) == ClaimPending(c) \/ ReadNew(c) \/ Write(c) \/ Ack(c)

Next == Record \/ Repeat \/ RepeatAges \/ GoIdle \/ \E c \in Consumers : Pass(c) \/ WriteFails(c) \/ Crash(c)

\* The writer's loop retries for ever, and a database that is down comes back.
Fairness == WF_vars(GoIdle) /\ \A c \in Consumers : WF_vars(Pass(c))

Spec == Init /\ [][Next]_vars /\ Fairness

-----------------------------------------------------------------------------
(* Properties.                                                             *)

\* The record is exact.  No event disappears: each one appended is still in the stream, in the
\* record, acknowledged as unreadable or refused, or was pushed out by the stream's bound
\* (drain_once acknowledges only after write_batch).  An entry delivered again, after a crash or
\* to a consumer that claimed it from a slow one, adds no second row (record_capability_use keyed
\* by stream id).  And repeatable events are conserved: each one presented is recorded, reported by
\* a record as suppressed, still counted, or was in a count that no repeatable event followed for
\* its whole life (REPEAT_SCRIPT: "lost only if none comes").
RecordedExactly ==
    /\ \A i \in 1..last : i \in stream \/ rows[i] > 0 \/ i \in skipped \/ i \in trimmed
    /\ \A i \in Ids : rows[i] <= 1
    /\ repeats.presented = repeats.accounted + count.n

\* Every entry leaves the stream, also one a crashed consumer left pending: no entry is delivered
\* and then forgotten (XAUTOCLAIM before every read).
Drained == \A i \in Ids : (i \in stream) ~> (i \notin stream)
=============================================================================
