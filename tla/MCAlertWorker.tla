---------------------------- MODULE MCAlertWorker ---------------------------
(***************************************************************************)
(* AlertWorker for TLC.  An initial state has the consumer under all its  *)
(* failures, on readings outside any equipment, one at most unusable; or  *)
(* the evaluations on a schedule, beside a consumer that feeds them a     *)
(* reading; or those and a failure.                                       *)
(***************************************************************************)
EXTENDS AlertWorker

\* A rule on a sensor, one on the equipment by the older bounds, one that needs the sensor's ML model,
\* and one on that model's drift.
MCRules ==
    LET none == [sensor |-> None, equipment |-> None, condition |-> None, threshold |-> None,
                 min |-> None, max |-> None, model |-> None, sensors |-> {}]
        Rule(id, type, f) == [k \in DOMAIN none \cup {"id", "type"} |->
             IF k = "id" THEN id ELSE IF k = "type" THEN type ELSE IF k \in DOMAIN f THEN f[k] ELSE none[k]]
    IN  {Rule("high", "threshold", [sensor |-> "s1", condition |-> "greater_than", threshold |-> 5]),
         Rule("low", "threshold", [sensor |-> "s1", condition |-> "less_than", threshold |-> 0]),
         Rule("exact", "threshold", [sensor |-> "s1", condition |-> "equals", threshold |-> 9]),
         Rule("range", "threshold", [equipment |-> "e", min |-> 0, max |-> 5]),
         Rule("ml", "ml", [equipment |-> "e", model |-> "m", sensors |-> {"s2"}]),
         Rule("drift", "statistical", [model |-> "m"])}

\* Event times close enough to suppress each other (1 and 2, 2 and 3) and far
\* enough not to (1 and 3); a reading of two scopes overflows the cache.
Plain ==
    {[kind |-> "ok", at |-> 1, sensor |-> "s1", equipment |-> None, value |-> 6],
     [kind |-> "ok", at |-> 3, sensor |-> "s1", equipment |-> None, value |-> 9],
     [kind |-> "bad", at |-> 1, sensor |-> "s1", equipment |-> None, value |-> 1],
     [kind |-> "poison", at |-> 2, sensor |-> "s1", equipment |-> None, value |-> 6]}

Equipped(value) == [kind |-> "ok", at |-> 1, sensor |-> "s2", equipment |-> "e", value |-> value]

MCReadings == Plain \cup {Equipped(6), Equipped(1)}

MCInit ==
    /\ Init
    /\ owner = CHOOSE x \in Workers : TRUE
    /\ \/ /\ rounds = MaxRounds /\ faults = 0 /\ committed = 0
          /\ Len(log) = LogLength /\ \A i \in DOMAIN log : log[i] \in Plain
          /\ Cardinality({i \in DOMAIN log : log[i].kind # "ok"}) <= 1
       \/ /\ rounds = 0 /\ faults = MaxFaults /\ committed = 0
          /\ log = <<Equipped(6)>>
       \/ /\ rounds = 0 /\ faults = MaxFaults - 1 /\ committed = 1
          /\ log = <<Equipped(1)>>

MCSpec == MCInit /\ [][Next]_vars /\ \A x \in Workers : WF_vars(Step(x))

ReloadSpec == Init /\ committed = 0 /\ [][Next]_vars
=============================================================================
