----------------------------- MODULE AlertWorker ----------------------------
(***************************************************************************)
(* The alert worker (services/alert_service/worker): replicas of one       *)
(* consumer group read a partition of readings, evaluate the tenant's      *)
(* rules, write each alert at most once per cooldown, dead-letter what can *)
(* never be evaluated, and commit a batch's offsets once all of it is      *)
(* handled.  Beside that, each replica evaluates the ML rules on the       *)
(* sensors' latest values and, less often, the drift rules, and recommends *)
(* retraining.                                                             *)
(*                                                                         *)
(* A reading is "bad" (it does not parse), "poison" (evaluating it always  *)
(* raises an error that is not the infrastructure's), or "ok".             *)
(* save_alert_once is one step: the advisory lock on the scope serialises  *)
(* its check and insert.                                                   *)
(***************************************************************************)
EXTENDS Integers, Sequences, FiniteSets, FiniteSetsExt

CONSTANTS
    Workers,        \* replicas
    None,
    Rules,          \* the tenant's enabled rules
    Readings,       \* the readings a partition may hold
    LogLength,      \* bound: readings in the partition
    BatchMax,       \* max_records of getmany
    MaxRetries,     \* KAFKA_MAX_RETRIES
    Window,         \* ALERT_COOLDOWN_SECONDS, in event-time units
    CacheMax,       \* ALERT_DEDUP_CACHE_MAX
    MaxAge,         \* FEATURE_MAX_AGE_SECONDS
    RetrainWindow,  \* RETRAIN_RECO_COOLDOWN_SECONDS
    Lookback,       \* RETRAIN_DRIFT_LOOKBACK_HOURS
    MinDrift,       \* RETRAIN_MIN_DRIFT_ALERTS
    MinLabels,      \* RETRAIN_MIN_LABELS
    Floor,          \* RETRAIN_PRECISION_FLOOR, in percent
    MaxNow,         \* bound: the clock
    MaxLabels,      \* bound: alerts labelled
    MaxRounds,      \* bound: evaluations on a schedule
    MaxFaults       \* bound: failures, crashes and rebalances

Sensors == {r.sensor : r \in Readings}

ASSUME ConstAssumption ==
    /\ LogLength \in Nat
    /\ {BatchMax, MaxRetries, Window, CacheMax} \subseteq Nat \ {0}
    /\ {MaxAge, RetrainWindow, Lookback, MinDrift, MinLabels, Floor} \subseteq Nat
    /\ {MaxNow, MaxLabels, MaxRounds, MaxFaults} \subseteq Nat
    /\ \A r \in Readings : r.kind \in {"ok", "bad", "poison"} /\ r.at \in Int /\ r.value \in Int
    /\ \A q \in Rules :
          /\ q.type \in {"threshold", "ml", "statistical"}
          /\ q.id # "retrain"
          /\ q.type = "ml" => IsFiniteSet(q.sensors) /\ q.sensors \subseteq Sensors

VARIABLES
    log,        \* the partition
    committed,  \* the group's committed offset: readings before it are done
    owner,      \* the replica the partition is assigned to
    alerts,     \* rows of the tenant's alerts table
    dlq,        \* offsets on the dead-letter topic
    lapsed,     \* history: offsets evaluated while the rules were missing
    w,          \* each replica's consumer
    store,      \* the feature store: a sensor's latest reading
    task,       \* each replica's ML evaluation and drift evaluation
    labels,     \* operators' verdicts: a function on the alerts labelled
    now,
    rounds,     \* evaluations on a schedule so far
    faults

vars == <<log, committed, owner, alerts, dlq, lapsed, w, store, task, labels, now, rounds, faults>>
schedule == <<store, task, labels, now, rounds>>

Abs(n) == IF n < 0 THEN -n ELSE n

Idle == [pc |-> "idle"]

\* A replica that has just started: nothing cached, nothing in hand.
Started(pos) ==
    [pc |-> "poll", pos |-> pos, i |-> 0, last |-> 0, todo |-> {}, tries |-> 0,
     rules |-> TRUE, cache |-> <<>>]
-----------------------------------------------------------------------------
(* The rules. *)

\* _get_applicable_rules: by the sensor, or by the equipment; ML rules have their own schedule.
Applicable(q, r) ==
    /\ q.type # "ml"
    /\ \/ q.sensor # None /\ q.sensor = r.sensor
       \/ q.equipment # None /\ q.equipment = r.equipment

\* _evaluate_threshold: a condition with its threshold, or the older pair of bounds.
Crosses(q, value) ==
    IF q.condition # None /\ q.threshold # None
    THEN CASE q.condition = "greater_than" -> value > q.threshold
           [] q.condition = "less_than" -> value < q.threshold
           [] q.condition = "equals" -> value = q.threshold
           [] q.condition = "not_equals" -> value # q.threshold
    ELSE \/ q.min # None /\ value < q.min
         \/ q.max # None /\ value > q.max

\* _evaluate_rule: a statistical rule is not evaluated per reading.
EvaluateRule(q, r) == q.type = "threshold" /\ Crosses(q, r.value)

\* The dedup scopes of the alerts a reading raises.
Fires(r) ==
    {<<q.id, r.sensor, r.equipment>> : q \in {p \in Rules : Applicable(p, r) /\ EvaluateRule(p, r)}}

RuleScope(q) == <<q.id, q.sensor, q.equipment>>
RetrainScope(m) == <<"retrain", m>>
Verdicts == {"true_positive", "false_positive", "unsure"}

\* The model an alert names: its rule's, or the one to retrain.
ModelOf(s) ==
    IF s[1] = "retrain" THEN s[2]
    ELSE LET q == CHOOSE p \in Rules : p.id = s[1] IN IF q.type = "threshold" THEN None ELSE q.model

FiresOf == [r \in Readings |-> Fires(r)]
Scopes == UNION {FiresOf[r] : r \in Readings}

\* _emit's window: a recommendation has its own.
Cooldown(s) == IF s[1] = "retrain" THEN RetrainWindow ELSE Window

\* A partition not read yet, or one read to its end that raised nothing.
Init ==
    /\ log \in UNION {[1 .. n -> Readings] : n \in 1 .. LogLength}
    /\ committed \in {0, Len(log)}
    /\ \A i \in 1 .. committed : FiresOf[log[i]] = {}
    /\ owner \in Workers
    /\ alerts = {}
    /\ dlq = {}
    /\ lapsed = {}
    /\ w = [x \in Workers |-> Started(committed)]
    /\ store = [s \in Sensors |-> None]
    /\ task = [x \in Workers |-> [ml |-> Idle, drift |-> Idle]]
    /\ labels = [a \in {} |-> "unsure"]
    /\ now = 0
    /\ rounds \in 0 .. MaxRounds
    /\ faults \in 0 .. MaxFaults
-----------------------------------------------------------------------------
(* The consumer loop. *)

\* getmany: the next records of the assigned partition.
Poll(x) ==
    /\ w[x].pc = "poll"
    /\ owner = x
    /\ w[x].pos < Len(log)
    /\ LET last == Min({w[x].pos + BatchMax, Len(log)})
       IN  w' = [w EXCEPT ![x].pc = "message", ![x].i = w[x].pos + 1,
                          ![x].last = last, ![x].pos = last]
    /\ UNCHANGED <<log, lapsed, committed, owner, alerts, dlq, faults, schedule>>

Lapsed(x) == IF w[x].rules THEN lapsed ELSE lapsed \cup {w[x].i}

\* store_reading: the last reading to arrive is the sensor's latest, of whatever time it is.
StoreReading(r) ==
    IF r.kind # "bad" /\ r.equipment # None THEN [store EXCEPT ![r.sensor] = r] ELSE store

\* decode_message and parse_reading; the value kept for the ML rules, unless Redis fails; then the rules that apply.
ReadMessage(x) ==
    /\ w[x].pc = "message"
    /\ store' \in {store, StoreReading(log[w[x].i])}
    /\ LET r == log[w[x].i]
       IN  w' = [w EXCEPT ![x].pc = IF r.kind = "bad" THEN "dead" ELSE "rules",
                          ![x].todo = IF w[x].rules THEN FiresOf[r] ELSE {},
                          ![x].tries = 1]
    /\ lapsed' = Lapsed(x)
    /\ UNCHANGED <<log, committed, owner, alerts, dlq, faults, task, labels, now, rounds>>

\* A message is handled: on to the next one, or to the commit.
Handled(x, c) ==
    w' = [w EXCEPT ![x].pc = IF w[x].i = w[x].last THEN "commit" ELSE "message",
                   ![x].i = w[x].i + 1, ![x].todo = {}, ![x].cache = c]

FinishMessage(x) ==
    /\ w[x].pc = "rules"
    /\ w[x].todo = {}
    /\ log[w[x].i].kind = "ok"
    /\ Handled(x, w[x].cache)
    /\ UNCHANGED <<log, lapsed, committed, owner, alerts, dlq, faults, schedule>>

\* An error of the evaluation itself: try again, then dead-letter.
EvaluationRaises(x) ==
    /\ w[x].pc = "rules"
    /\ log[w[x].i].kind = "poison"
    /\ w' = IF w[x].tries < MaxRetries
            THEN [w EXCEPT ![x].tries = @ + 1,
                           ![x].todo = IF w[x].rules THEN FiresOf[log[w[x].i]] ELSE {}]
            ELSE [w EXCEPT ![x].pc = "dead"]
    /\ lapsed' = Lapsed(x)
    /\ UNCHANGED <<log, committed, owner, alerts, dlq, faults, schedule>>

\* _dead_letter
DeadLetter(x) ==
    /\ w[x].pc = "dead"
    /\ dlq' = dlq \cup {w[x].i}
    /\ Handled(x, w[x].cache)
    /\ UNCHANGED <<log, lapsed, committed, owner, alerts, faults, schedule>>

\* The commit counts while the partition is still this replica's; else the
\* group has moved on and the batch is redelivered.
CommitBatch(x) ==
    /\ w[x].pc = "commit"
    /\ IF owner = x
       THEN /\ committed' = w[x].last
            /\ w' = [w EXCEPT ![x].pc = "poll"]
       ELSE /\ committed' = committed
            /\ w' = [w EXCEPT ![x].pc = "rewind"]
    /\ UNCHANGED <<log, lapsed, owner, alerts, dlq, faults, schedule>>

Rewind_InPlace(x) ==
    /\ w[x].pc = "rewind"
    /\ w' = [w EXCEPT ![x].pc = "poll"]
    /\ UNCHANGED <<log, lapsed, committed, owner, alerts, dlq, faults, schedule>>

Rewind_Ends(x) ==
    /\ w[x].pc = "rewind"
    /\ w' = [w EXCEPT ![x].pc = "ended"]
    /\ UNCHANGED <<log, lapsed, committed, owner, alerts, dlq, faults, schedule>>

\* _rewind_and_back_off: assigned partitions go back to the last commit.
Rewind(x) ==
    /\ w[x].pc = "rewind"
    /\ w' = [w EXCEPT ![x].pc = "poll",
                      ![x].pos = IF owner = x THEN committed ELSE @]
    /\ UNCHANGED <<log, lapsed, committed, owner, alerts, dlq, faults, schedule>>
-----------------------------------------------------------------------------
(* Writing an alert. *)

\* _cached_within
CachedWithin(x, s, at) ==
    \E k \in DOMAIN w[x].cache :
        w[x].cache[k].scope = s /\ Abs(at - w[x].cache[k].at) < Cooldown(s)

\* _remember: the newest entry last, the oldest dropped beyond the bound.
Remember(c, s, at) ==
    LET places == {k \in DOMAIN c : c[k].scope = s}
        others == IF places = {} THEN c
                  ELSE LET k == CHOOSE k \in places : TRUE
                       IN  SubSeq(c, 1, k - 1) \o SubSeq(c, k + 1, Len(c))
        d == Append(others, [scope |-> s, at |-> at])
    IN  IF Len(d) > CacheMax THEN Tail(d) ELSE d

Prior_BackwardOnly(s, at) ==
    {a.at : a \in {b \in alerts : b.scope = s /\ b.at <= at /\ at - b.at < Cooldown(s)}}

\* save_alert_once's window lookup: alerts of the scope around the event time.
Prior(s, at) ==
    {a.at : a \in {b \in alerts : b.scope = s /\ Abs(at - b.at) < Cooldown(s)}}

\* save_alert_once: insert unless a prior alert is in the window.
Saved(s, at) ==
    IF Prior(s, at) = {} THEN alerts \cup {[scope |-> s, at |-> at]} ELSE alerts

\* _emit: the cache may suppress the alert, otherwise the database decides,
\* and the cache keeps the time of the alert that is there.
EmitAt(x, s, at) ==
    LET prior == Prior(s, at)
    IN  IF CachedWithin(x, s, at)
        THEN [alerts |-> alerts, cache |-> w[x].cache]
        ELSE [alerts |-> Saved(s, at),
              cache |-> Remember(w[x].cache, s, IF prior = {} THEN at ELSE Max(prior))]

Emit(x, s) ==
    /\ w[x].pc = "rules"
    /\ s \in w[x].todo
    /\ LET e == EmitAt(x, s, log[w[x].i].at)
       IN  /\ alerts' = e.alerts
           /\ w' = [w EXCEPT ![x].todo = @ \ {s}, ![x].cache = e.cache]
    /\ UNCHANGED <<log, lapsed, committed, owner, dlq, faults, schedule>>
-----------------------------------------------------------------------------
(* The evaluations on a schedule, beside the consumer in the same process. *)

Round ==
    /\ rounds < MaxRounds
    /\ rounds' = rounds + 1

\* get_current_snapshot: the sensors whose latest reading is not older than the bound.
Snapshot(q) == {s \in q.sensors : store[s] # None /\ now - store[s].at <= MaxAge}

\* The event time of a snapshot is its newest reading's.
AsOf(ss) == Max({store[s].at : s \in ss})

\* evaluate_equipment_ml_rules: a rule with a model bound to a configuration, all of whose sensors
\* are there; the snapshot is sent to the ML service.
MlEvaluate(x, q) ==
    /\ task[x].ml = Idle /\ Round
    /\ w[x].rules /\ q.type = "ml" /\ q.model # None /\ q.sensors # {}
    /\ Snapshot(q) = q.sensors
    /\ task' = [task EXCEPT ![x].ml = [pc |-> "asked", scope |-> RuleScope(q), at |-> AsOf(q.sensors)]]
    /\ UNCHANGED <<log, lapsed, committed, owner, alerts, dlq, w, faults, store, labels, now>>

\* _evaluate_ml: an anomaly is raised at the snapshot's time; any other answer, or none, raises nothing.
MlAnswer(x) ==
    /\ task[x].ml # Idle
    /\ task' = [task EXCEPT ![x].ml = Idle]
    /\ \/ UNCHANGED <<alerts, w>>
       \/ LET e == EmitAt(x, task[x].ml.scope, task[x].ml.at)
          IN  alerts' = e.alerts /\ w' = [w EXCEPT ![x].cache = e.cache]
    /\ UNCHANGED <<log, lapsed, committed, owner, dlq, faults, store, labels, now, rounds>>

\* The enabled statistical rules that have a model.
DriftRules(x) == {q \in Rules : w[x].rules /\ q.type = "statistical" /\ q.model # None}

\* _periodic_drift_evaluation: the drift rules, then the recommendations.
DriftPass(x) ==
    /\ task[x].drift = Idle /\ Round /\ DriftRules(x) # {}
    /\ task' = [task EXCEPT ![x].drift = [pc |-> "drift", todo |-> DriftRules(x)]]
    /\ UNCHANGED <<log, lapsed, committed, owner, alerts, dlq, w, faults, store, labels, now>>

\* _evaluate_drift: drift is raised at the time of the answer; any other answer, or none, raises nothing.
EvaluateDrift(x, q) ==
    /\ task[x].drift.pc = "drift" /\ q \in task[x].drift.todo
    /\ task' = [task EXCEPT ![x].drift.todo = @ \ {q}]
    /\ \/ UNCHANGED <<alerts, w>>
       \/ LET e == EmitAt(x, RuleScope(q), now)
          IN  alerts' = e.alerts /\ w' = [w EXCEPT ![x].cache = e.cache]
    /\ UNCHANGED <<log, lapsed, committed, owner, dlq, faults, store, labels, now, rounds>>

\* evaluate_retrain_recommendations: once per model, not per rule.
RetrainPass(x) ==
    /\ task[x].drift.pc = "drift" /\ task[x].drift.todo = {}
    /\ task' = [task EXCEPT ![x].drift = [pc |-> "retrain", todo |-> {q.model : q \in DriftRules(x)}]]
    /\ UNCHANGED <<log, lapsed, committed, owner, alerts, dlq, w, faults, store, labels, now, rounds>>

\* get_retrain_signals: the drift alerts of the model's rules within the lookback.
DriftAlerts(m, at) ==
    {a \in alerts : /\ \E q \in Rules : q.type = "statistical" /\ q.model = m /\ a.scope = RuleScope(q)
                    /\ a.at >= at - Lookback /\ a.at <= at}

\* The labels of the model's alerts, by verdict.  The precision window is longer than the clock runs.
Labelled(m, verdicts) ==
    {a \in DOMAIN labels : ModelOf(a.scope) = m /\ labels[a] \in verdicts}

TruePositives(m) == Cardinality(Labelled(m, {"true_positive"}))
Decided(m) == Cardinality(Labelled(m, {"true_positive", "false_positive"}))

ShouldRecommend_Either(m) ==
    \/ Cardinality(DriftAlerts(m, now)) >= MinDrift
    \/ TruePositives(m) * 100 < Floor * Decided(m)

\* should_recommend_retrain: enough labels, sustained drift and a precision under the floor.
ShouldRecommend(m) ==
    /\ Decided(m) >= MinLabels
    /\ Cardinality(DriftAlerts(m, now)) >= MinDrift
    /\ TruePositives(m) * 100 < Floor * Decided(m)

\* The recommendation is built with the signals, and written after.
RetrainSignals(x, m) ==
    /\ task[x].drift.pc = "retrain" /\ m \in task[x].drift.todo
    /\ task' = [task EXCEPT ![x].drift =
          IF ShouldRecommend(m) THEN [pc |-> "write", model |-> m, at |-> now, todo |-> @.todo \ {m}]
                                ELSE [pc |-> "retrain", todo |-> @.todo \ {m}]]
    /\ UNCHANGED <<log, lapsed, committed, owner, alerts, dlq, w, faults, store, labels, now, rounds>>

RetrainWrite(x) ==
    LET t == task[x].drift
    IN  /\ t.pc = "write"
        /\ LET e == EmitAt(x, RetrainScope(t.model), t.at)
           IN  alerts' = e.alerts /\ w' = [w EXCEPT ![x].cache = e.cache]
        /\ task' = [task EXCEPT ![x].drift = [pc |-> "retrain", todo |-> t.todo]]
        /\ UNCHANGED <<log, lapsed, committed, owner, dlq, faults, store, labels, now, rounds>>

DriftDone(x) ==
    /\ task[x].drift.pc = "retrain" /\ task[x].drift.todo = {}
    /\ task' = [task EXCEPT ![x].drift = Idle]
    /\ UNCHANGED <<log, lapsed, committed, owner, alerts, dlq, w, faults, store, labels, now, rounds>>

\* label_alert: one verdict per alert that is there, replaced when the operator labels it again.
Label(a, verdict) ==
    /\ rounds < MaxRounds /\ ModelOf(a.scope) # None
    /\ Cardinality(DOMAIN labels \cup {a}) <= MaxLabels
    /\ labels' = [b \in DOMAIN labels \cup {a} |-> IF b = a THEN verdict ELSE labels[b]]
    /\ UNCHANGED <<log, lapsed, committed, owner, alerts, dlq, w, faults, store, task, now, rounds>>

Tick ==
    /\ rounds < MaxRounds /\ now < MaxNow
    /\ now' = now + 1
    /\ UNCHANGED <<log, lapsed, committed, owner, alerts, dlq, w, faults, store, task, labels, rounds>>
-----------------------------------------------------------------------------
(* What goes wrong. *)

Fault ==
    /\ faults < MaxFaults
    /\ faults' = faults + 1

\* An infrastructure error while evaluating: the batch is retried.  The write
\* in hand may have been committed before the connection was lost.
DatabaseFails(x) ==
    /\ Fault
    /\ w[x].pc = "rules"
    /\ \/ alerts' = alerts
       \/ \E s \in w[x].todo : alerts' = Saved(s, log[w[x].i].at)
    /\ w' = [w EXCEPT ![x].pc = "rewind"]
    /\ UNCHANGED <<log, lapsed, committed, owner, dlq, schedule>>

\* The dead letter or the commit could not be sent, or was sent and the
\* answer lost: either way the batch is redelivered.
BrokerFails(x) ==
    /\ Fault
    /\ \/ w[x].pc = "dead" /\ dlq' \in {dlq, dlq \cup {w[x].i}} /\ committed' = committed
       \/ /\ w[x].pc = "commit"
          /\ dlq' = dlq
          /\ committed' \in {committed, IF owner = x THEN w[x].last ELSE committed}
    /\ w' = [w EXCEPT ![x].pc = "rewind"]
    /\ UNCHANGED <<log, lapsed, owner, alerts, schedule>>

\* The replica dies and its container is restarted.
Crash(x) ==
    /\ Fault
    /\ w' = [w EXCEPT ![x] = Started(committed)]
    /\ task' = [task EXCEPT ![x] = [ml |-> Idle, drift |-> Idle]]
    /\ UNCHANGED <<log, lapsed, committed, owner, alerts, dlq, store, labels, now, rounds>>

\* The group assigns the partition to a replica, which starts from the last
\* commit; one that was working on a batch goes on with it meanwhile.
Rebalance(x) ==
    /\ Fault
    /\ owner # x
    /\ owner' = x
    /\ w' = [w EXCEPT ![x].pos = committed]
    /\ UNCHANGED <<log, lapsed, committed, alerts, dlq, schedule>>

\* load_all_tenant_rules: a tenant whose rules cannot be loaded has none.
ReloadRules(x) ==
    /\ \/ w' = [w EXCEPT ![x].rules = TRUE] /\ faults' = faults
       \/ Fault /\ w' = [w EXCEPT ![x].rules = FALSE]
    /\ UNCHANGED <<log, lapsed, committed, owner, alerts, dlq, schedule>>
-----------------------------------------------------------------------------
Step(x) ==
    \/ Poll(x)
    \/ ReadMessage(x)
    \/ \E s \in Scopes : Emit(x, s)
    \/ FinishMessage(x)
    \/ EvaluationRaises(x)
    \/ DeadLetter(x)
    \/ CommitBatch(x)
    \/ Rewind(x)

Scheduled(x) ==
    \/ \E q \in Rules : MlEvaluate(x, q) \/ EvaluateDrift(x, q)
    \/ MlAnswer(x) \/ DriftPass(x) \/ RetrainPass(x) \/ RetrainWrite(x) \/ DriftDone(x)
    \/ \E q \in Rules : RetrainSignals(x, q.model)

Next ==
  \/ Tick
  \/ \E a \in alerts, verdict \in Verdicts : Label(a, verdict)
  \/ \E x \in Workers :
        \/ Scheduled(x)
        \/ Step(x)
        \/ DatabaseFails(x)
        \/ BrokerFails(x)
        \/ Crash(x)
        \/ Rebalance(x)
        \/ ReloadRules(x)

Spec == Init /\ [][Next]_vars

\* A replica's loop keeps running; one that ends is restarted (healthcheck.py).
FairSpec == Spec /\ \A x \in Workers : WF_vars(Step(x))
-----------------------------------------------------------------------------
\* No two alerts of one scope lie closer than its cooldown in event time,
\* across replicas, restarts, redeliveries, readings out of order and two
\* replicas' evaluations of one snapshot, one drift or one model
\* (save_alert_once; ADR-0005 decision 6).
CooldownHolds ==
    \A a, b \in alerts :
        a.scope = b.scope /\ a # b => Abs(a.at - b.at) >= Cooldown(a.scope)

Accounted(i) ==
    \/ i \in dlq
    \/ \A s \in FiresOf[log[i]] :
          \E a \in alerts : a.scope = s /\ Abs(log[i].at - a.at) < Window

\* A reading behind the committed offset was handled: it is on the dead-letter
\* topic, or each rule it fires has an alert within the cooldown of it
\* (consume_messages: "re-delivered rather than silently skipped").
NothingSkipped == \A i \in 1 .. committed : Accounted(i)

\* The same of every reading that met its tenant's rules: no order of crashes,
\* rebalances, lost answers and redeliveries commits past one unhandled; and
\* only what can never be evaluated is dead-lettered, an outage of the
\* database or the network being waited out (consume_messages, _handle_message).
RuledNotSkipped ==
    /\ \A i \in (1 .. committed) \ lapsed : Accounted(i)
    /\ \A i \in dlq : log[i].kind # "ok"

\* A recommendation to retrain has the sustained drift it is about behind it,
\* in alerts that are there and recent at its time, and operators have judged
\* enough of the model's alerts, however the replicas' passes, restarts and
\* labels, relabelling included, fall (evaluate_retrain_recommendations:
\* "sustained drift AND precision decay").
RecommendedOnEvidence ==
    \A a \in alerts : a.scope[1] = "retrain" =>
        /\ Cardinality(DriftAlerts(a.scope[2], a.at)) >= MinDrift
        /\ Cardinality(Labelled(a.scope[2], Verdicts)) >= MinLabels

\* Every reading is eventually handled and committed, whatever fails on the
\* way: a failed batch is rewound, never left (consume_messages).
AllCommitted == <>(committed = Len(log))
=============================================================================
