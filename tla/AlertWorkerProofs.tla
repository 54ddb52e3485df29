------------------------- MODULE AlertWorkerProofs --------------------------
(***************************************************************************)
(* The alert worker's alerts, offsets and recommendations: for any         *)
(* replicas, rules, partition, batch and cache sizes, cooldowns and        *)
(* thresholds, and any number of failures, crashes and rebalances.         *)
(***************************************************************************)
EXTENDS AlertWorker, FiniteSetTheorems, SequenceTheorems, WellFoundedInduction, TLAPS

\* Where a replica has a message of its batch in hand, and where else it may be.
InHand == {"message", "rules", "dead"}
Pcs == InHand \cup {"poll", "commit", "rewind"}

\* A replica whose cache holds alerts of A.
Replica(A) ==
    [pc : Pcs, pos : Nat, i : Nat, last : Nat, todo : SUBSET Scopes, tries : Nat,
     rules : BOOLEAN, cache : Seq(A)]

\* The models of the rules, and the states of an ML evaluation and of a drift evaluation.
Models == {q.model : q \in Rules}
MlTask == [pc : {"asked"}, scope : {RuleScope(q) : q \in Rules}, at : Int]
DriftTask ==
    [pc : {"drift"}, todo : SUBSET Rules]
    \cup [pc : {"retrain"}, todo : SUBSET Models]
    \cup [pc : {"write"}, model : Models, at : Nat, todo : SUBSET Models]

\* Rows of the alerts table.
Rows(A) == IsFiniteSet(A) /\ \A a \in A : a = [scope |-> a.scope, at |-> a.at] /\ a.at \in Int

\* The state's types.  What a cache holds, and what is labelled, is in the alerts table.
Types ==
    /\ log \in Seq(Readings) /\ committed \in Nat /\ now \in Nat
    /\ Rows(alerts)
    /\ w \in [Workers -> Replica(alerts)]
    /\ store \in [Sensors -> Readings \cup {None}]
    /\ task \in [Workers -> [ml : MlTask \cup {Idle}, drift : DriftTask \cup {Idle}]]
    /\ labels \in [DOMAIN labels -> Verdicts] /\ DOMAIN labels \subseteq alerts

\* CooldownHolds, of any set of rows.
Spaced(A) ==
    \A a, b \in A : a.scope = b.scope /\ a # b => Abs(a.at - b.at) >= Cooldown(a.scope)

\* A rule's alert for a reading is there; a reading is handled; so is every one up to n.
Raised(s, i) == \E a \in alerts : a.scope = s /\ Abs(log[i].at - a.at) < Window
Seen(i) == i \in lapsed \/ Accounted(i)
AllSeen(n) == \A i \in 1 .. n : Seen(i)

\* What a replica has done with the batch in hand, and where it would go on from.
Progress(x) ==
    /\ w[x].pc \in InHand =>
          /\ w[x].i \in 1 .. w[x].last /\ w[x].last <= Len(log)
          /\ AllSeen(w[x].i - 1)
    /\ w[x].pc = "rules" =>
          w[x].i \in lapsed \/ \A s \in FiresOf[log[w[x].i]] \ w[x].todo : Raised(s, w[x].i)
    /\ w[x].pc = "dead" => log[w[x].i].kind # "ok"
    /\ w[x].pc = "commit" => w[x].last <= Len(log) /\ AllSeen(w[x].last)
    /\ w[x].pc \in InHand \cup {"commit"} => w[x].pos = w[x].last \/ AllSeen(w[x].pos)
    /\ w[x].pc = "poll" /\ owner = x => AllSeen(w[x].pos)

\* The group commits what is handled; every replica knows how far it is; and only what can never be
\* evaluated is dead-lettered.
Handling ==
    /\ AllSeen(committed)
    /\ \A i \in dlq : log[i].kind # "ok"
    /\ \A x \in Workers : Progress(x)

\* What a recommendation rests on: it grows, as no alert and no label is ever withdrawn.
Evidence(m, at) ==
    /\ Cardinality(DriftAlerts(m, at)) >= MinDrift
    /\ Cardinality(Labelled(m, Verdicts)) >= MinLabels

\* A recommendation written, and one about to be, rests on evidence.
Evidenced ==
    /\ \A a \in alerts : a.scope[1] = "retrain" => Evidence(a.scope[2], a.at)
    /\ \A x \in Workers : task[x].drift.pc = "write" => Evidence(task[x].drift.model, task[x].drift.at)

\* The inductive invariant.
IInv == Types /\ Spaced(alerts) /\ Handling /\ Evidenced
-----------------------------------------------------------------------------
\* A nonempty finite set of integers, the values of a function, has a greatest element, and Max is it:
\* the newest prior alert _emit remembers, and the event time of a snapshot.
LEMMA MaxOfValues ==
    ASSUME NEW D, IsFiniteSet(D), D # {}, NEW f \in [D -> Int], NEW S, S = {f[x] : x \in D}
    PROVE  Max(S) \in S /\ \A y \in S : y <= Max(S)
<1> DEFINE U(x) == {y \in D : f[y] > f[x]}
           C == {Cardinality(U(x)) : x \in D}
           R == OpToRel(<, Nat)
<1>1. \A x \in D : IsFiniteSet(U(x)) /\ Cardinality(U(x)) \in Nat
  <2> TAKE x \in D
  <2>1. U(x) \in SUBSET D
    OBVIOUS
  <2> HIDE DEF U
  <2>2. IsFiniteSet(U(x))
    BY <2>1, FS_Subset
  <2> QED BY <2>2, FS_CardinalityType
<1>2. PICK c \in C : \A k \in C : ~(k < c)
  <2>1. C \subseteq Nat /\ C # {}
    BY <1>1, Zenon
  <2>2. IsWellFoundedOn(R, Nat)
    BY NatLessThanWellFounded, Zenon DEF R
  <2>3. \E c \in C : \A k \in C : ~(<<k, c>> \in R)
    <3> HIDE DEF C, R
    <3> QED BY <2>1, <2>2, WFMin, Zenon
  <2> HIDE DEF C
  <2> QED BY <2>1, <2>3, Zenon DEF OpToRel
<1>3. PICK x \in D : c = Cardinality(U(x))
  OBVIOUS
<1>4. U(x) = {}
  <2> SUFFICES ASSUME NEW y \in U(x) PROVE FALSE
    OBVIOUS
  <2>1. y \in D /\ U(y) \in SUBSET U(x) /\ y \notin U(y)
    OBVIOUS
  <2>2. Cardinality(U(y)) <= Cardinality(U(x)) /\ Cardinality(U(y)) # Cardinality(U(x))
    <3> HIDE DEF U
    <3> QED BY <1>1, <2>1, FS_Subset
  <2>3. ~(Cardinality(U(y)) < Cardinality(U(x)))
    BY <1>2, <1>3, <2>1, Zenon
  <2> HIDE DEF U
  <2> QED BY <1>1, <2>1, <2>2, <2>3
<1>5. f[x] \in S /\ \A y \in S : f[x] >= y
  <2>1. \A y \in D : ~(f[y] > f[x])
    BY <1>4
  <2> QED BY <2>1
<1> HIDE DEF U, C, R
<1> QED BY <1>5, Zenon DEF Max

\* Every step of a replica's consumer, of its evaluations on a schedule and of what goes wrong keeps the
\* invariant (consume_messages, _emit, save_alert_once, evaluate_retrain_recommendations).
LEMMA Invariance == Spec => []IInv
<1>0. \A a, b, c \in Nat : a <= b /\ a >= c => b >= c
  OBVIOUS
<1> DEFINE Row(s, at) == [scope |-> s, at |-> at]
\* A cache stays one of alerts that are there.
<1>1. ASSUME NEW A, NEW c \in Seq(A), NEW s, NEW at, Row(s, at) \in A
      PROVE  Remember(c, s, at) \in Seq(A)
  <2> DEFINE places == {k \in DOMAIN c : c[k].scope = s}
             Without(k) == SubSeq(c, 1, k - 1) \o SubSeq(c, k + 1, Len(c))
             others == IF places = {} THEN c ELSE Without(CHOOSE k \in places : TRUE)
             d == Append(others, Row(s, at))
  <2>1. \A k \in DOMAIN c : Without(k) \in Seq(A)
    <3> TAKE k \in DOMAIN c
    <3>1. SubSeq(c, 1, k - 1) \in Seq(A)
      OBVIOUS
    <3>2. SubSeq(c, k + 1, Len(c)) \in Seq(A)
      OBVIOUS
    <3> QED BY <3>1, <3>2
  <2>2. others \in Seq(A)
    <3>1. CASE places = {}
      BY <3>1
    <3>2. CASE places # {}
      <4> PICK k : k = CHOOSE j \in places : TRUE
        OBVIOUS
      <4>1. k \in places
        BY <3>2
      <4> HIDE DEF Without
      <4> QED BY <2>1, <3>2, <4>1
    <3> QED BY <3>1, <3>2
  <2>3. Remember(c, s, at) = IF Len(d) > CacheMax THEN Tail(d) ELSE d
    BY DEF Remember
  <2> HIDE DEF others
  <2>4. d \in Seq(A) /\ d # <<>>
    BY <1>1, <2>2
  <2> HIDE DEF d, Row
  <2>5. Tail(d) \in Seq(A)
    BY <2>4
  <2> QED BY <2>3, <2>4, <2>5
<1> HIDE DEF Row
<1>2. Init => IInv
  <2> SUFFICES ASSUME Init PROVE IInv
    OBVIOUS
  <2>1. log \in Seq(Readings) /\ committed \in Nat /\ now \in Nat /\ committed <= Len(log)
    <3>1. PICK n \in 1 .. LogLength : log \in [1 .. n -> Readings]
      BY DEF Init
    <3>2. n \in Nat
      BY <3>1, ConstAssumption
    <3>3. log \in Seq(Readings) /\ Len(log) \in Nat
      BY <3>1, <3>2
    <3>4. committed \in {0, Len(log)} /\ now = 0
      BY DEF Init
    <3> QED BY <3>3, <3>4
  <2>2. Rows(alerts) /\ Spaced(alerts)
    BY FS_EmptySet DEF Init, Rows, Spaced
  <2>3. w \in [Workers -> Replica(alerts)]
    BY <2>1 DEF Init, Replica, Pcs, Started
  <2>4. store \in [Sensors -> Readings \cup {None}]
    BY DEF Init
  <2>5. task \in [Workers -> [ml : MlTask \cup {Idle}, drift : DriftTask \cup {Idle}]]
    BY DEF Init
  <2>6. labels \in [DOMAIN labels -> Verdicts] /\ DOMAIN labels \subseteq alerts
    BY DEF Init
  <2>7. Types
    BY <2>1, <2>2, <2>3, <2>4, <2>5, <2>6 DEF Types
  <2>8. AllSeen(committed)
    BY Zenon DEF Init, AllSeen, Seen, Accounted
  <2>9. Handling
    <3>1. \A i \in dlq : log[i].kind # "ok"
      BY DEF Init
    <3>2. ASSUME NEW x \in Workers PROVE Progress(x)
      <4>1. w[x].pc = "poll" /\ w[x].pos = committed
        BY DEF Init, Started
      <4> QED BY <4>1, <2>8 DEF Progress, InHand
    <3> QED BY <2>8, <3>1, <3>2 DEF Handling
  <2>10. Evidenced
    <3>1. alerts = {} /\ \A x \in Workers : task[x].drift.pc = "idle"
      BY DEF Init, Idle
    <3> QED BY <3>1 DEF Evidenced
  <2> QED BY <2>2, <2>7, <2>9, <2>10 DEF IInv
<1>3. IInv /\ [Next]_vars => IInv'
  <2> SUFFICES ASSUME IInv, [Next]_vars PROVE IInv'
    OBVIOUS
  <2> DEFINE Grow == /\ log' = log /\ alerts \subseteq alerts'
                     /\ dlq \subseteq dlq' /\ lapsed \subseteq lapsed'
             Whole(x, s, at, A, c) ==
                 /\ alerts \subseteq A /\ A \subseteq alerts \cup {Row(s, at)}
                 /\ Rows(A) /\ Spaced(A) /\ c \in Seq(A)
                 /\ Cooldown(s) > 0 => \E a \in A : a.scope = s /\ Abs(at - a.at) < Cooldown(s)
  <2>t. /\ log \in Seq(Readings) /\ committed \in Nat /\ now \in Nat
        /\ Rows(alerts) /\ IsFiniteSet(alerts)
        /\ w \in [Workers -> Replica(alerts)]
        /\ store \in [Sensors -> Readings \cup {None}]
        /\ task \in [Workers -> [ml : MlTask \cup {Idle}, drift : DriftTask \cup {Idle}]]
        /\ labels \in [DOMAIN labels -> Verdicts] /\ DOMAIN labels \subseteq alerts
    BY DEF IInv, Types, Rows
  <2>w. ASSUME NEW x \in Workers
        PROVE  /\ w[x].pc \in Pcs /\ w[x].pos \in Nat /\ w[x].i \in Nat /\ w[x].last \in Nat
               /\ w[x].todo \in SUBSET Scopes /\ w[x].tries \in Nat /\ w[x].rules \in BOOLEAN
               /\ w[x].cache \in Seq(alerts)
    BY <2>t DEF Replica
  <2>u. \A x \in Workers : w[x].pos \in Nat /\ w[x].i \in Nat /\ w[x].last \in Nat
    BY <2>w
  <2>b. BatchMax \in Nat /\ BatchMax > 0
    BY ConstAssumption
  \* Scopes of rules have the alert cooldown.
  <2>s. \A s \in Scopes : s[1] # "retrain" /\ Cooldown(s) = Window /\ Window > 0
    BY ConstAssumption DEF Scopes, FiresOf, Fires, Cooldown
  <2>q. \A q \in Rules : RuleScope(q)[1] # "retrain"
    BY ConstAssumption DEF RuleScope
  <2>c. \A s : Cooldown(s) \in Nat
    BY ConstAssumption DEF Cooldown
  \* Saving one alert.
  <2>v. ASSUME NEW s, NEW at \in Int
        PROVE  /\ alerts \subseteq Saved(s, at) /\ Saved(s, at) \subseteq alerts \cup {Row(s, at)}
               /\ Rows(Saved(s, at)) /\ Spaced(Saved(s, at))
    <3>1. CASE Prior(s, at) # {}
      <4>1. Saved(s, at) = alerts
        BY <3>1 DEF Saved
      <4> QED BY <4>1, <2>t DEF IInv
    <3>2. CASE Prior(s, at) = {}
      <4>1. Saved(s, at) = alerts \cup {Row(s, at)}
        BY <3>2 DEF Saved, Row
      <4>2. \A a \in alerts : a.scope = s => Abs(at - a.at) >= Cooldown(s)
        <5> SUFFICES ASSUME NEW a \in alerts, a.scope = s, ~(Abs(at - a.at) >= Cooldown(s)) PROVE FALSE
          OBVIOUS
        <5>1. a.at \in Int
          BY <2>t DEF Rows
        <5>2. Abs(at - a.at) < Cooldown(s)
          BY <2>c, <5>1 DEF Abs
        <5>3. a.at \in Prior(s, at)
          BY <5>2 DEF Prior
        <5> QED BY <3>2, <5>3
      <4> PICK r : r = Row(s, at)
        OBVIOUS
      <4>3. r.scope = s /\ r.at = at /\ r = [scope |-> r.scope, at |-> r.at]
        BY DEF Row
      <4>4. Rows(alerts \cup {r})
        BY <2>t, <4>3, FS_AddElement DEF Rows
      <4>5. Spaced(alerts \cup {r})
        <5> SUFFICES ASSUME NEW a \in alerts \cup {r}, NEW b \in alerts \cup {r},
                            a.scope = b.scope, a # b
                     PROVE  Abs(a.at - b.at) >= Cooldown(a.scope)
          BY DEF Spaced
        <5>0. a.at \in Int /\ b.at \in Int
          BY <4>4 DEF Rows
        <5>1. CASE a \in alerts /\ b \in alerts
          BY <5>1 DEF IInv, Spaced
        <5>2. CASE a = r /\ b \in alerts
          BY <5>2, <4>2, <4>3
        <5>3. CASE a \in alerts /\ b = r
          <6>1. Abs(at - a.at) >= Cooldown(s) /\ a.scope = s
            BY <5>3, <4>2, <4>3
          <6>2. Abs(a.at - at) = Abs(at - a.at)
            BY <5>0 DEF Abs
          <6> QED BY <6>1, <6>2, <5>3, <4>3
        <5> QED BY <5>1, <5>2, <5>3
      <4> QED BY <4>1, <4>4, <4>5
    <3> QED BY <3>1, <3>2
  <2>e. ASSUME NEW x \in Workers, NEW s, NEW at \in Int, NEW e, e = EmitAt(x, s, at)
        PROVE  Whole(x, s, at, e.alerts, e.cache)
    <3>1. CASE CachedWithin(x, s, at)
      <4>1. e.alerts = alerts /\ e.cache = w[x].cache
        BY <2>e, <3>1, Zenon DEF EmitAt
      <4>2. PICK k \in DOMAIN w[x].cache :
               w[x].cache[k].scope = s /\ Abs(at - w[x].cache[k].at) < Cooldown(s)
        BY <3>1, Zenon DEF CachedWithin
      <4>3. w[x].cache[k] \in alerts
        BY <2>w
      <4> QED BY <2>t, <2>w, <4>1, <4>2, <4>3, Zenon DEF IInv
    <3>2. CASE ~CachedWithin(x, s, at)
      <4> PICK t : t = IF Prior(s, at) = {} THEN at ELSE Max(Prior(s, at))
        OBVIOUS
      <4>1. e.alerts = Saved(s, at) /\ e.cache = Remember(w[x].cache, s, t)
        BY <2>e, <3>2, Zenon DEF EmitAt
      <4>2. Row(s, t) \in Saved(s, at) /\ t \in Int
            /\ (Cooldown(s) > 0 => Abs(at - t) < Cooldown(s))
        <5>1. CASE Prior(s, at) = {}
          <6>1. Abs(at - at) = 0
            BY DEF Abs
          <6> QED BY <5>1, <6>1 DEF Saved, Row
        <5>2. CASE Prior(s, at) # {}
          <6> PICK P : P = {b \in alerts : b.scope = s /\ Abs(at - b.at) < Cooldown(s)}
            BY Zenon
          <6> PICK S : S = Prior(s, at)
            OBVIOUS
          <6>1. IsFiniteSet(P)
            BY <2>t, FS_Subset
          <6> PICK f : f = [b \in P |-> b.at]
            BY Zenon
          <6>2. f \in [P -> Int]
            BY <2>t DEF Rows
          <6>3. S = {f[b] : b \in P}
            BY Zenon DEF Prior
          <6>x. P # {}
            BY <5>2, Zenon DEF Prior
          <6>y. Max(S) \in S
            BY ONLY <6>1, <6>2, <6>3, <6>x, MaxOfValues, Zenon
          <6>4. PICK b \in alerts : b.scope = s /\ Abs(at - b.at) < Cooldown(s) /\ b.at = t
            BY <5>2, <6>y, Zenon DEF Prior
          <6>5. b = Row(s, t) /\ t \in Int
            BY <2>t, <6>4 DEF Rows, Row
          <6>6. Saved(s, at) = alerts
            BY <5>2 DEF Saved
          <6> QED BY <6>4, <6>5, <6>6
        <5> QED BY <5>1, <5>2
      <4>3. w[x].cache \in Seq(Saved(s, at))
        BY <2>v, <2>w, SeqMonotonic, Zenon
      <4>4. e.cache \in Seq(e.alerts)
        BY <1>1, <4>1, <4>2, <4>3, Zenon
      <4>5. Row(s, t).scope = s /\ Row(s, t).at = t
        BY DEF Row
      <4>6. Cooldown(s) > 0 => \E a \in e.alerts : a.scope = s /\ Abs(at - a.at) < Cooldown(s)
        BY <4>1, <4>2, <4>5, Zenon
      <4> QED BY <2>v, <4>1, <4>4, <4>6
    <3> QED BY <3>1, <3>2, Zenon
  <2> HIDE DEF Whole
  \* What was handled stays handled.
  <2>m. ASSUME Grow
        PROVE  /\ \A s, i : Raised(s, i) => Raised(s, i)'
               /\ \A i : Seen(i) => Seen(i)'
    BY <2>m DEF Raised, Seen, Accounted
  <2>p. /\ AllSeen(committed)
        /\ \A i \in dlq : log[i].kind # "ok"
        /\ \A x \in Workers : Progress(x)
    BY DEF IInv, Handling
  \* A replica a step leaves alone.
  <2>y. ASSUME Grow, NEW y \in Workers, w'[y] = w[y], owner' = y => owner = y PROVE Progress(y)'
    <3>1. Progress(y)
      BY <2>p
    <3> QED BY <2>m, <2>y, <3>1, Zenon DEF Progress, AllSeen
  \* What every step has to keep.
  <2>k. ASSUME Grow, NEW x \in Workers, committed' \in Nat, now' \in Nat,
               Rows(alerts)', Spaced(alerts)', w' \in [Workers -> Replica(alerts')],
               \A y \in Workers : y # x => w'[y] = w[y], owner' = owner \/ owner' = x,
               store' \in [Sensors -> Readings \cup {None}],
               task' \in [Workers -> [ml : MlTask \cup {Idle}, drift : DriftTask \cup {Idle}]],
               labels' \in [DOMAIN labels' -> Verdicts], DOMAIN labels' \subseteq alerts',
               AllSeen(committed)', \A i \in dlq' : log[i].kind # "ok", Progress(x)', Evidenced'
        PROVE  IInv'
    <3>1. log' \in Seq(Readings)
      BY <2>t, <2>k, Zenon
    <3>2. Types'
      BY <2>k, <3>1 DEF Types
    <3>3. ASSUME NEW y \in Workers PROVE Progress(y)'
      <4>1. CASE y = x
        BY <4>1, <2>k
      <4>2. CASE y # x
        <5>1. w'[y] = w[y] /\ (owner' = y => owner = y)
          BY <4>2, <2>k
        <5> QED BY <5>1, <2>k, <2>y
      <4> QED BY <4>1, <4>2
    <3>4. \A i \in dlq' : log'[i].kind # "ok"
      BY <2>k
    <3>5. Handling'
      BY <2>k, <3>3, <3>4 DEF Handling
    <3> QED BY <2>k, <3>2, <3>5 DEF IInv
  \* A step of the consumer that writes no alert.
  <2>l. ASSUME UNCHANGED <<log, alerts, labels, task, now>>,
               dlq \subseteq dlq', lapsed \subseteq lapsed',
               NEW x \in Workers, committed' \in Nat, w' \in [Workers -> Replica(alerts)],
               \A y \in Workers : y # x => w'[y] = w[y], owner' = owner \/ owner' = x,
               store' \in [Sensors -> Readings \cup {None}],
               AllSeen(committed)', \A i \in dlq' : log[i].kind # "ok", Progress(x)'
        PROVE  IInv'
    <3>1. Grow
      BY <2>l, Zenon
    <3>2. Rows(alerts)' /\ Spaced(alerts)'
      BY <2>l, <2>t, Zenon DEF IInv, Rows, Spaced
    <3>3. Evidenced'
      <4>1. Evidenced
        BY DEF IInv
      <4>2. \A m, t : Evidence(m, t)' <=> Evidence(m, t)
        BY <2>l, Zenon DEF Evidence, DriftAlerts, Labelled
      <4>3. alerts' = alerts /\ task' = task
        BY <2>l
      <4> QED BY <4>1, <4>2, <4>3, Zenon DEF Evidenced
    <3>4. /\ w' \in [Workers -> Replica(alerts')] /\ now' \in Nat
          /\ task' \in [Workers -> [ml : MlTask \cup {Idle}, drift : DriftTask \cup {Idle}]]
          /\ labels' \in [DOMAIN labels' -> Verdicts] /\ DOMAIN labels' \subseteq alerts'
      BY <2>l, <2>t, Zenon
    <3> QED BY <2>k, <2>l, <3>1, <3>2, <3>3, <3>4, Zenon
  \* ... and commits nothing.
  <2>n. ASSUME UNCHANGED <<log, alerts, labels, task, now, committed>>,
               dlq \subseteq dlq', lapsed \subseteq lapsed',
               NEW x \in Workers, w' \in [Workers -> Replica(alerts)],
               \A y \in Workers : y # x => w'[y] = w[y], owner' = owner \/ owner' = x,
               store' \in [Sensors -> Readings \cup {None}],
               \A i \in dlq' : log[i].kind # "ok", Progress(x)'
        PROVE  IInv'
    <3>1. AllSeen(committed)'
      BY <2>n, <2>m, <2>p, Zenon DEF AllSeen
    <3>2. committed' \in Nat
      BY <2>n, <2>t
    <3> QED BY <2>l, <2>n, <3>1, <3>2, Zenon
  \* On to the next message, or to the commit.
  <2>h. ASSUME Grow, NEW x \in Workers, NEW c, NEW j \in Nat, w[x].pc \in InHand, Handled(x, c),
               j = w[x].i, Seen(j)', c \in Seq(alerts), UNCHANGED owner
        PROVE  /\ w' \in [Workers -> Replica(alerts)]
               /\ \A y \in Workers : y # x => w'[y] = w[y]
               /\ Progress(x)'
    <3>1. /\ w' \in [Workers -> Replica(alerts)]
          /\ \A y \in Workers : y # x => w'[y] = w[y]
          /\ w'[x].pc = (IF w[x].i = w[x].last THEN "commit" ELSE "message")
          /\ w'[x].i = w[x].i + 1 /\ w'[x].last = w[x].last /\ w'[x].pos = w[x].pos
      <4> PICK pc \in Pcs : pc = IF w[x].i = w[x].last THEN "commit" ELSE "message"
        BY DEF Pcs, InHand
      <4>1. w' = [w EXCEPT ![x].pc = pc, ![x].i = w[x].i + 1, ![x].todo = {}, ![x].cache = c]
        BY <2>h DEF Handled
      <4>2. {} \in SUBSET Scopes /\ w[x].i + 1 \in Nat
        BY <2>w
      <4>3. w[x] \in Replica(alerts)
        BY <2>t
      <4> PICK v : v = [w[x] EXCEPT !.pc = pc, !.i = w[x].i + 1, !.todo = {}, !.cache = c]
        OBVIOUS
      <4>4. v \in Replica(alerts)
        BY <2>h, <4>2, <4>3, Zenon DEF Replica
      <4>5. v.pc = pc /\ v.i = w[x].i + 1 /\ v.last = w[x].last /\ v.pos = w[x].pos
        BY <4>3 DEF Replica
      <4>6. w' = [w EXCEPT ![x] = v]
        BY <4>1, <2>t, Zenon DEF Replica
      <4> QED BY <2>t, <4>4, <4>5, <4>6
    <3>2. Progress(x)
      BY <2>p, Zenon
    <3>3. \A i \in 1 .. w[x].i : Seen(i)'
      <4>1. \A i \in 1 .. w[x].i - 1 : Seen(i)'
        BY <2>h, <2>m, <3>2, Zenon DEF Progress, AllSeen
      <4>4. \A i \in 1 .. j : i \in 1 .. j - 1 \/ i = j
        OBVIOUS
      <4> QED BY <4>1, <2>h, <4>4, Zenon
    <3>4. w[x].i \in 1 .. w[x].last /\ w[x].last <= Len(log) /\ (w[x].pos = w[x].last \/ AllSeen(w[x].pos))
      BY <2>h, <3>2, Zenon DEF Progress
    <3>5. Len(log') = Len(log) /\ (w'[x].pos = w'[x].last \/ \A i \in 1 .. w'[x].pos : Seen(i)')
      BY <2>h, <2>m, <3>1, <3>4, Zenon DEF AllSeen
    <3>6. CASE w[x].i = w[x].last
      <4>1. w'[x].pc = "commit" /\ \A i \in 1 .. w'[x].last : Seen(i)'
        BY <3>1, <3>3, <3>6, Zenon
      <4> QED BY <3>1, <3>4, <3>5, <4>1, Zenon DEF Progress, AllSeen, InHand
    <3>7. CASE w[x].i # w[x].last
      <4>1. w'[x].pc = "message" /\ w'[x].i \in 1 .. w'[x].last /\ w'[x].i - 1 = w[x].i
        <5> PICK i \in Nat, n \in Nat : i = w[x].i /\ n = w[x].last
          BY <2>u
        <5>1. i \in 1 .. n /\ i # n
          BY <3>4, <3>7, Zenon
        <5>2. i + 1 \in 1 .. n /\ i + 1 - 1 = i
          BY <5>1
        <5> QED BY <3>1, <3>7, <5>2
      <4>2. \A i \in 1 .. w'[x].i - 1 : Seen(i)'
        <5>1. 1 .. w'[x].i - 1 = 1 .. w[x].i
          BY <4>1, Zenon
        <5> QED BY <3>3, <5>1, Zenon
      <4> QED BY <3>1, <3>4, <3>5, <4>1, <4>2, Zenon DEF Progress, AllSeen, InHand
    <3> QED BY <3>1, <3>6, <3>7, Zenon
  <2> HIDE DEF Grow
  <2>g. Grow <=> log' = log /\ alerts \subseteq alerts' /\ dlq \subseteq dlq' /\ lapsed \subseteq lapsed'
    BY DEF Grow
  <2>f. \A r \in Readings : FiresOf[r] \in SUBSET Scopes
    BY DEF Scopes
  <2>i. ASSUME NEW x \in Workers, w[x].pc \in InHand
        PROVE  /\ w[x].i \in 1 .. w[x].last /\ w[x].last <= Len(log) /\ log[w[x].i] \in Readings
               /\ AllSeen(w[x].i - 1) /\ (w[x].pos = w[x].last \/ AllSeen(w[x].pos))
    <3>1. Progress(x)
      BY <2>p
    <3>2. w[x].i \in 1 .. w[x].last /\ w[x].last <= Len(log)
      BY <2>i, <3>1, Zenon DEF Progress
    <3>3. log[w[x].i] \in Readings
      BY <2>t, <2>u, <3>2
    <3> QED BY <2>i, <3>1, <3>2, <3>3, Zenon DEF Progress
  <2>1. ASSUME NEW x \in Workers, Poll(x) PROVE IInv'
    <3> PICK last : last = Min({w[x].pos + BatchMax, Len(log)})
      OBVIOUS
    <3>1. last \in Nat /\ last <= Len(log) /\ w[x].pos + 1 <= last
      <4> PICK a \in Nat, b \in Nat : a = w[x].pos + BatchMax /\ b = Len(log)
        <5>1. Len(log) \in Nat /\ w[x].pos + BatchMax \in Nat
          BY <2>t, <2>u, <2>b
        <5> QED BY <5>1, Zenon
      <4>1. w[x].pos + 1 <= a /\ w[x].pos + 1 <= b
        <5>1. w[x].pos < Len(log)
          BY <2>1 DEF Poll
        <5> QED BY <2>u, <2>b, <5>1
      <4>2. Min({a, b}) \in {a, b} /\ Min({a, b}) <= a /\ Min({a, b}) <= b
        <5>1. \E c \in {a, b} : \A d \in {a, b} : c =< d
          <6>1. CASE a <= b
            BY <6>1
          <6>2. CASE b <= a
            BY <6>2
          <6> QED BY <6>1, <6>2
        <5> QED BY <5>1, Zenon DEF Min
      <4> QED BY <4>1, <4>2, Zenon
    <3>2. /\ w' = [w EXCEPT ![x].pc = "message", ![x].i = w[x].pos + 1, ![x].last = last, ![x].pos = last]
          /\ w[x].pc = "poll" /\ owner = x
          /\ UNCHANGED <<log, lapsed, committed, owner, alerts, dlq, store, task, labels, now>>
      BY <2>1, Zenon DEF Poll, schedule
    <3>3. w[x] \in Replica(alerts)
      BY <2>t, Zenon
    <3> PICK v : v = [w[x] EXCEPT !.pc = "message", !.i = w[x].pos + 1, !.last = last, !.pos = last]
      OBVIOUS
    <3>0. w[x].pos + 1 \in Nat
      BY <2>u
    <3>4. v \in Replica(alerts) /\ v.pc = "message" /\ v.i = w[x].pos + 1 /\ v.last = last /\ v.pos = last
      BY <3>0, <3>1, <3>3, Zenon DEF Replica, Pcs, InHand
    <3>5. w' = [w EXCEPT ![x] = v]
      BY <2>t, <3>2, Zenon DEF Replica
    <3>6. w' \in [Workers -> Replica(alerts)] /\ w'[x] = v /\ \A y \in Workers : y # x => w'[y] = w[y]
      BY <2>t, <3>4, <3>5
    <3>7. Progress(x)'
      <4>1. \A i \in 1 .. w[x].pos : Seen(i)'
        BY <2>m, <2>g, <2>p, <3>2, Zenon DEF Progress, AllSeen
      <4>2. v.i - 1 = w[x].pos /\ v.i \in 1 .. v.last
        BY <2>u, <3>1, <3>4, SMTT(30)
      <4>3. w'[x] = v /\ log' = log
        BY <3>2, <3>6, Zenon
      <4>4. w'[x].pc = "message" /\ w'[x].last <= Len(log') /\ w'[x].pos = w'[x].last
        BY <3>1, <3>4, <4>3, Zenon
      <4>5. w'[x].i - 1 = w[x].pos /\ w'[x].i \in 1 .. w'[x].last
        BY <4>2, <4>3, Zenon
      <4>6. AllSeen(w[x].i - 1)'
        BY <4>1, <4>5, Zenon DEF AllSeen
      <4> QED BY <4>4, <4>5, <4>6, Zenon DEF Progress
    <3> QED BY <2>n, <2>p, <2>t, <3>2, <3>6, <3>7, Zenon
  \* A step that gives a replica a new state.
  <2>x. ASSUME NEW x \in Workers, NEW A, alerts \subseteq A, NEW v \in Replica(A), w' = [w EXCEPT ![x] = v]
        PROVE  /\ w' \in [Workers -> Replica(A)] /\ w'[x] = v
               /\ \A y \in Workers : y # x => w'[y] = w[y]
    <3>1. ASSUME NEW y \in Workers PROVE w[y] \in Replica(A)
      <4>1. w[y].cache \in Seq(A)
        BY <2>w, <2>x, SeqMonotonic, Zenon
      <4> QED BY <2>t, <4>1, Zenon DEF Replica
    <3> QED BY <2>t, <2>x, <3>1, Zenon
  <2>2. ASSUME NEW x \in Workers, ReadMessage(x) PROVE IInv'
    <3> PICK i, r : i \in Nat /\ i = w[x].i /\ r = log[i]
      BY <2>u
    <3>0. w[x].pc \in InHand
      BY <2>2, Zenon DEF ReadMessage, InHand
    <3>1. r \in Readings
      BY <2>i, <3>0, Zenon
    <3> PICK pc : pc = IF r.kind = "bad" THEN "dead" ELSE "rules"
      BY Zenon
    <3> PICK todo : todo = IF w[x].rules THEN FiresOf[r] ELSE {}
      BY Zenon
    <3>2. /\ w' = [w EXCEPT ![x].pc = pc, ![x].todo = todo, ![x].tries = 1]
          /\ lapsed' = (IF w[x].rules THEN lapsed ELSE lapsed \cup {i})
          /\ store' \in {store, StoreReading(r)}
          /\ UNCHANGED <<log, committed, owner, alerts, dlq, task, labels, now>>
      BY <2>2, Zenon DEF ReadMessage, Lapsed
    <3>3. w[x] \in Replica(alerts)
      BY <2>t, Zenon
    <3> PICK v : v = [w[x] EXCEPT !.pc = pc, !.todo = todo, !.tries = 1]
      OBVIOUS
    <3>4. pc \in Pcs /\ todo \in SUBSET Scopes
      BY <2>f, <3>1, Zenon DEF Pcs, InHand
    <3>5. v \in Replica(alerts) /\ v.pc = pc /\ v.todo = todo /\ v.i = i /\ v.last = w[x].last /\ v.pos = w[x].pos
      BY <3>3, <3>4, ZenonT(30) DEF Replica
    <3>6. w' = [w EXCEPT ![x] = v]
      BY <2>t, <3>2, Zenon DEF Replica
    <3>7. w' \in [Workers -> Replica(alerts)] /\ w'[x] = v /\ \A y \in Workers : y # x => w'[y] = w[y]
      BY <2>x, <3>5, <3>6, ZenonT(30)
    <3>8. Grow /\ lapsed \subseteq lapsed'
      BY <2>g, <3>2, Zenon
    <3>9. Progress(x)'
      <4>1. /\ i \in 1 .. v.last /\ v.last <= Len(log) /\ \A k \in 1 .. i - 1 : Seen(k)'
            /\ v.pos = v.last \/ \A k \in 1 .. v.pos : Seen(k)'
        BY <2>m, <2>i, <3>0, <3>5, <3>8, Zenon DEF AllSeen
      <4>2. i \in lapsed' \/ FiresOf[r] \ v.todo = {}
        BY <3>2, <3>5, Zenon
      <4>3. v.pc = "dead" => r.kind # "ok"
        BY <3>5
      <4>4. v.pc \in {"dead", "rules"}
        BY <3>5, Zenon
      <4> QED BY <3>2, <3>5, <3>7, <4>1, <4>2, <4>3, <4>4, ZenonT(30) DEF Progress, AllSeen, InHand
    <3>10. store' \in [Sensors -> Readings \cup {None}]
      <4>1. r.sensor \in Sensors
        BY <3>1, Zenon DEF Sensors
      <4> QED BY <2>t, <3>1, <3>2, <4>1, Zenon DEF StoreReading
    <3> QED BY <2>n, <2>p, <3>2, <3>7, <3>8, <3>9, <3>10, Zenon
  <2>3. ASSUME NEW x \in Workers, FinishMessage(x) PROVE IInv'
    <3> PICK i \in Nat : i = w[x].i
      BY <2>u
    <3>1. /\ w[x].pc = "rules" /\ w[x].todo = {} /\ Handled(x, w[x].cache)
          /\ UNCHANGED <<log, lapsed, committed, owner, alerts, dlq, store, task, labels, now>>
      BY <2>3, Zenon DEF FinishMessage, schedule
    <3>2. Grow /\ w[x].pc \in InHand
      BY <2>g, <3>1, Zenon DEF InHand
    <3>3. Progress(x)
      BY <2>p, Zenon
    <3>4. Seen(i)
      BY <3>1, <3>3, Zenon DEF Progress, Seen, Accounted, Raised
    <3>5. Seen(i)' /\ w[x].cache \in Seq(alerts)
      BY <2>m, <2>w, <3>2, <3>4, Zenon
    <3>6. /\ w' \in [Workers -> Replica(alerts)] /\ Progress(x)'
          /\ \A y \in Workers : y # x => w'[y] = w[y]
      BY <2>h, <3>1, <3>2, <3>5, Zenon
    <3> QED BY <2>n, <2>p, <2>t, <3>1, <3>6, Zenon
  <2>4. ASSUME NEW x \in Workers, EvaluationRaises(x) PROVE IInv'
    <3> PICK i, r : i \in Nat /\ i = w[x].i /\ r = log[i]
      BY <2>u
    <3>0. w[x].pc \in InHand /\ w[x].pc = "rules" /\ r.kind = "poison"
      BY <2>4, Zenon DEF EvaluationRaises, InHand
    <3>1. r \in Readings
      BY <2>i, <3>0, Zenon
    <3>2. /\ lapsed' = (IF w[x].rules THEN lapsed ELSE lapsed \cup {i})
          /\ UNCHANGED <<log, committed, owner, alerts, dlq, store, task, labels, now>>
      BY <2>4, Zenon DEF EvaluationRaises, Lapsed, schedule
    <3> PICK todo : todo = IF w[x].rules THEN FiresOf[r] ELSE {}
      BY Zenon
    <3>3. w[x] \in Replica(alerts) /\ todo \in SUBSET Scopes /\ w[x].tries + 1 \in Nat
      BY <2>f, <2>t, <2>w, <3>1
    <3>4. PICK v : /\ v \in Replica(alerts) /\ w' = [w EXCEPT ![x] = v]
                   /\ v.i = i /\ v.last = w[x].last /\ v.pos = w[x].pos
                   /\ (v.pc = "rules" /\ v.todo = todo) \/ v.pc = "dead"
      <4>1. CASE w[x].tries < MaxRetries
        <5>1. w' = [w EXCEPT ![x].tries = @ + 1, ![x].todo = todo]
          BY <2>4, <4>1, Zenon DEF EvaluationRaises
        <5> PICK v : v = [w[x] EXCEPT !.tries = @ + 1, !.todo = todo]
          OBVIOUS
        <5>2. /\ v \in Replica(alerts) /\ v.i = i /\ v.last = w[x].last /\ v.pos = w[x].pos
              /\ v.pc = "rules" /\ v.todo = todo
          BY <3>0, <3>3, Zenon DEF Replica
        <5>3. w' = [w EXCEPT ![x] = v]
          BY <2>t, <5>1, Zenon DEF Replica
        <5> QED BY <5>2, <5>3, Zenon
      <4>2. CASE ~(w[x].tries < MaxRetries)
        <5>1. w' = [w EXCEPT ![x].pc = "dead"]
          BY <2>4, <4>2, Zenon DEF EvaluationRaises
        <5> PICK v : v = [w[x] EXCEPT !.pc = "dead"]
          BY Zenon
        <5>2. /\ v \in Replica(alerts) /\ v.i = i /\ v.last = w[x].last /\ v.pos = w[x].pos
              /\ v.pc = "dead"
          BY <3>3, Zenon DEF Replica, Pcs, InHand
        <5>3. w' = [w EXCEPT ![x] = v]
          BY <2>t, <5>1 DEF Replica
        <5> QED BY <5>2, <5>3, Zenon
      <4> QED BY <4>1, <4>2, Zenon
    <3>7. w' \in [Workers -> Replica(alerts)] /\ w'[x] = v /\ \A y \in Workers : y # x => w'[y] = w[y]
      BY <2>x, <3>4, Zenon
    <3>8. Grow /\ lapsed \subseteq lapsed'
      BY <2>g, <3>2, Zenon
    <3>9. Progress(x)'
      <4>1. /\ i \in 1 .. v.last /\ v.last <= Len(log) /\ \A k \in 1 .. i - 1 : Seen(k)'
            /\ v.pos = v.last \/ \A k \in 1 .. v.pos : Seen(k)'
        BY <2>m, <2>i, <3>0, <3>4, <3>8, Zenon DEF AllSeen
      <4>2. v.pc = "rules" => i \in lapsed' \/ FiresOf[r] \ v.todo = {}
        BY <3>2, <3>4, Zenon
      <4> QED BY <3>0, <3>2, <3>4, <3>7, <4>1, <4>2, Zenon DEF Progress, AllSeen, InHand
    <3> QED BY <2>n, <2>p, <2>t, <3>2, <3>7, <3>8, <3>9, Zenon
  <2>5. ASSUME NEW x \in Workers, DeadLetter(x) PROVE IInv'
    <3> PICK i \in Nat : i = w[x].i
      BY <2>u
    <3>1. /\ w[x].pc = "dead" /\ dlq' = dlq \cup {i} /\ Handled(x, w[x].cache)
          /\ UNCHANGED <<log, lapsed, committed, owner, alerts, store, task, labels, now>>
      BY <2>5, Zenon DEF DeadLetter, schedule
    <3>2. Grow /\ w[x].pc \in InHand
      BY <2>g, <3>1, Zenon DEF InHand
    <3>3. log[i].kind # "ok"
      BY <2>p, <3>1, Zenon DEF Progress
    <3>4. Seen(i)' /\ w[x].cache \in Seq(alerts)
      BY <2>w, <3>1, Zenon DEF Seen, Accounted
    <3>5. /\ w' \in [Workers -> Replica(alerts)] /\ Progress(x)'
          /\ \A y \in Workers : y # x => w'[y] = w[y]
      BY <2>h, <3>1, <3>2, <3>4, Zenon
    <3>6. dlq \subseteq dlq' /\ \A k \in dlq' : log[k].kind # "ok"
      BY <2>p, <3>1, <3>3, Zenon
    <3> QED BY <2>n, <2>t, <3>1, <3>5, <3>6, Zenon
  <2>6. ASSUME NEW x \in Workers, CommitBatch(x) PROVE IInv'
    <3>1. /\ w[x].pc = "commit"
          /\ UNCHANGED <<log, lapsed, owner, alerts, dlq, store, task, labels, now>>
      BY <2>6 DEF CommitBatch, schedule
    <3>2. Grow
      BY <2>g, <3>1, Zenon
    <3>3. AllSeen(w[x].last) /\ (w[x].pos = w[x].last \/ AllSeen(w[x].pos))
      BY <2>p, <3>1, Zenon DEF Progress
    <3>4. /\ w'[x].pc \in {"poll", "rewind"} /\ w'[x].pos = w[x].pos
          /\ w' \in [Workers -> Replica(alerts)] /\ \A y \in Workers : y # x => w'[y] = w[y]
      <4> PICK pc \in Pcs : pc = IF owner = x THEN "poll" ELSE "rewind"
        BY DEF Pcs
      <4>1. w' = [w EXCEPT ![x].pc = pc]
        BY <2>6 DEF CommitBatch
      <4> PICK v : v = [w[x] EXCEPT !.pc = pc, !.pos = w[x].pos]
        OBVIOUS
      <4>2. w' = [w EXCEPT ![x] = v] /\ w[x].pos \in Nat
        BY <2>t, <2>u, <4>1, Zenon DEF Replica
      <4>3. w[x] \in Replica(alerts)
        BY <2>t
      <4>4. v \in Replica(alerts) /\ v.pc = pc /\ v.pos = w[x].pos
        BY <4>2, <4>3, Zenon DEF Replica
      <4> QED BY <2>x, <4>2, <4>4, Zenon
    <3>5. committed' \in {committed, w[x].last}
      BY <2>6 DEF CommitBatch
    <3>6. committed' \in Nat /\ \A i \in 1 .. committed' : Seen(i)'
      BY <2>m, <2>p, <2>t, <2>u, <3>2, <3>3, <3>5, Zenon DEF AllSeen
    <3>7. Progress(x)'
      <4>1. \A i \in 1 .. w'[x].pos : Seen(i)'
        BY <2>m, <3>2, <3>3, <3>4, Zenon DEF AllSeen
      <4>2. CASE w'[x].pc = "poll"
        BY <4>1, <4>2, Zenon DEF Progress, InHand, AllSeen
      <4>3. CASE w'[x].pc = "rewind"
        BY <4>3, Zenon DEF Progress, InHand
      <4> QED BY <3>4, <4>2, <4>3, Zenon
    <3>8. AllSeen(committed)'
      BY <3>6 DEF AllSeen
    <3> QED BY <2>l, <2>p, <2>t, <3>1, <3>4, <3>6, <3>7, <3>8, Zenon
  <2>7. ASSUME NEW x \in Workers, Rewind(x) PROVE IInv'
    <3> PICK pos : pos = IF owner = x THEN committed ELSE w[x].pos
      OBVIOUS
    <3>1. /\ w' = [w EXCEPT ![x].pc = "poll", ![x].pos = pos]
          /\ UNCHANGED <<log, lapsed, committed, owner, alerts, dlq, store, task, labels, now>>
      BY <2>7 DEF Rewind, schedule
    <3>2. pos \in Nat /\ "poll" \in Pcs
      BY <2>t, <2>u, Zenon DEF Pcs
    <3>3. /\ w'[x].pc = "poll" /\ w'[x].pos = pos
          /\ w' \in [Workers -> Replica(alerts)] /\ \A y \in Workers : y # x => w'[y] = w[y]
      <4> PICK v : v = [w[x] EXCEPT !.pc = "poll", !.pos = pos]
        OBVIOUS
      <4>1. w' = [w EXCEPT ![x] = v]
        BY <2>t, <3>1, Zenon DEF Replica
      <4>2. w[x] \in Replica(alerts)
        BY <2>t
      <4>3. v \in Replica(alerts) /\ v.pc = "poll" /\ v.pos = pos
        BY <3>2, <4>2, Zenon DEF Replica
      <4> QED BY <2>x, <4>1, <4>3, Zenon
    <3>4. \A i \in 1 .. committed : Seen(i)'
      BY <2>g, <2>m, <2>p, <3>1 DEF AllSeen
    <3>5. Progress(x)'
      <4>1. owner' = x => \A i \in 1 .. w'[x].pos : Seen(i)'
        BY <3>1, <3>3, <3>4
      <4> QED BY <3>3, <4>1, Zenon DEF Progress, InHand, AllSeen
    <3> QED BY <2>n, <2>p, <2>t, <3>1, <3>3, <3>5, Zenon
  <2>8. ASSUME NEW x \in Workers, BrokerFails(x) PROVE IInv'
    <3> PICK i \in Nat : i = w[x].i
      BY <2>u
    <3>1. /\ w' = [w EXCEPT ![x].pc = "rewind"]
          /\ UNCHANGED <<log, lapsed, owner, alerts, store, task, labels, now>>
      BY <2>8 DEF BrokerFails, schedule
    <3> PICK v : v = [w[x] EXCEPT !.pc = "rewind", !.pos = w[x].pos]
      OBVIOUS
    <3>2. w' = [w EXCEPT ![x] = v] /\ w[x].pos \in Nat /\ "rewind" \in Pcs
      BY <2>t, <2>u, <3>1, Zenon DEF Replica, Pcs
    <3>3. /\ w'[x].pc = "rewind"
          /\ w' \in [Workers -> Replica(alerts)] /\ \A y \in Workers : y # x => w'[y] = w[y]
      <4>1. w[x] \in Replica(alerts)
        BY <2>t
      <4>2. v \in Replica(alerts) /\ v.pc = "rewind"
        BY <3>2, <4>1, Zenon DEF Replica
      <4> QED BY <2>x, <3>2, <4>2, Zenon
    <3>4. \/ w[x].pc = "dead" /\ dlq' \in {dlq, dlq \cup {i}} /\ committed' = committed
          \/ w[x].pc = "commit" /\ dlq' = dlq /\ committed' \in {committed, w[x].last}
      BY <2>8 DEF BrokerFails
    <3>5. dlq \subseteq dlq' /\ \A k \in dlq' : log[k].kind # "ok"
      BY <2>p, <3>4, Zenon DEF Progress
    <3>6. Grow
      BY <2>g, <3>1, <3>5
    <3>7. committed' \in Nat /\ \A k \in 1 .. committed' : Seen(k)'
      <4>1. w[x].pc = "commit" => AllSeen(w[x].last)
        BY <2>p, Zenon DEF Progress
      <4> QED BY <2>m, <2>p, <2>t, <2>u, <3>4, <3>6, <4>1 DEF AllSeen
    <3>8. AllSeen(committed)' /\ Progress(x)'
      BY <3>3, <3>7 DEF AllSeen, Progress, InHand
    <3> QED BY <2>l, <2>t, <3>1, <3>3, <3>5, <3>7, <3>8, Zenon
  <2>9. ASSUME NEW x \in Workers, Rebalance(x) PROVE IInv'
    <3>1. /\ w' = [w EXCEPT ![x].pos = committed] /\ owner' = x
          /\ UNCHANGED <<log, lapsed, committed, alerts, dlq, store, task, labels, now>>
      BY <2>9 DEF Rebalance, schedule
    <3> PICK v : v = [w[x] EXCEPT !.pc = w[x].pc, !.pos = committed]
      OBVIOUS
    <3>2. w' = [w EXCEPT ![x] = v] /\ w[x].pc \in Pcs
      BY <2>t, <2>w, <3>1, Zenon DEF Replica
    <3>3. /\ w'[x].pc = w[x].pc /\ w'[x].pos = committed /\ w'[x].i = w[x].i /\ w'[x].last = w[x].last
          /\ w'[x].todo = w[x].todo
          /\ w' \in [Workers -> Replica(alerts)] /\ \A y \in Workers : y # x => w'[y] = w[y]
      <4>1. w[x] \in Replica(alerts)
        BY <2>t
      <4>2. /\ v \in Replica(alerts) /\ v.pc = w[x].pc /\ v.pos = committed /\ v.i = w[x].i
            /\ v.last = w[x].last /\ v.todo = w[x].todo
        BY <2>t, <3>2, <4>1, Zenon DEF Replica
      <4> QED BY <2>x, <3>2, <4>2, Zenon
    <3>4. Grow
      BY <2>g, <3>1
    <3>5. Progress(x)'
      <4>1. Progress(x)
        BY <2>p
      <4>2. \A i \in 1 .. w'[x].pos : Seen(i)'
        BY <2>m, <2>p, <3>3, <3>4 DEF AllSeen
      <4> QED BY <2>m, <3>1, <3>3, <3>4, <4>1, <4>2 DEF Progress, AllSeen
    <3> QED BY <2>n, <2>p, <2>t, <3>1, <3>3, <3>5, Zenon
  <2>10. ASSUME NEW x \in Workers, ReloadRules(x) PROVE IInv'
    <3>1. PICK b \in BOOLEAN : w' = [w EXCEPT ![x].rules = b]
      BY <2>10, Zenon DEF ReloadRules
    <3>2. UNCHANGED <<log, lapsed, committed, owner, alerts, dlq, store, task, labels, now>>
      BY <2>10 DEF ReloadRules, schedule
    <3> PICK v : v = [w[x] EXCEPT !.rules = b]
      BY Zenon
    <3>3. w[x] \in Replica(alerts)
      BY <2>t
    <3>4. /\ v \in Replica(alerts) /\ v.pc = w[x].pc /\ v.pos = w[x].pos /\ v.i = w[x].i /\ v.last = w[x].last
          /\ v.todo = w[x].todo
      BY <3>3, Zenon DEF Replica
    <3>5. w' = [w EXCEPT ![x] = v]
      BY <2>t, <3>1 DEF Replica
    <3>6. w' \in [Workers -> Replica(alerts)] /\ w'[x] = v /\ \A y \in Workers : y # x => w'[y] = w[y]
      BY <2>x, <3>4, <3>5, Zenon
    <3>7. Grow
      BY <2>g, <3>2
    <3>8. Progress(x)'
      <4>1. Progress(x)
        BY <2>p
      <4> QED BY <2>m, <3>2, <3>4, <3>6, <3>7, <4>1 DEF Progress, AllSeen
    <3> QED BY <2>n, <2>p, <2>t, <3>2, <3>6, <3>8
  \* A step that changes none of the replicas' consumers, nor what they handle.
  <2>o. ASSUME UNCHANGED <<log, committed, owner, alerts, dlq, lapsed, w, store>>, now' \in Nat,
               task' \in [Workers -> [ml : MlTask \cup {Idle}, drift : DriftTask \cup {Idle}]],
               labels' \in [DOMAIN labels' -> Verdicts], DOMAIN labels' \subseteq alerts, Evidenced'
        PROVE  IInv'
    <3>1. Types'
      <4>1. Types
        BY DEF IInv
      <4>2. Rows(alerts)' /\ w' \in [Workers -> Replica(alerts')]
        BY <2>t, <2>o, Zenon DEF Rows
      <4> QED BY <2>o, <4>1, <4>2, Zenon DEF Types
    <3>2. Spaced(alerts)'
      BY <2>o, Zenon DEF IInv, Spaced
    <3>3. AllSeen(committed)'
      BY <2>g, <2>m, <2>o, <2>p, Zenon DEF AllSeen
    <3>4. ASSUME NEW y \in Workers PROVE Progress(y)'
      BY <2>g, <2>o, <2>y, Zenon
    <3>5. Handling'
      BY <2>o, <2>p, <3>3, <3>4, Zenon DEF Handling
    <3> QED BY <2>o, <3>1, <3>2, <3>5, Zenon DEF IInv
  \* Evidence once there stays, and a step writes no recommendation but what its evidence is there for.
  <2>d. ASSUME alerts \subseteq alerts', IsFiniteSet(alerts'), DOMAIN labels \subseteq DOMAIN labels',
               DOMAIN labels' \subseteq alerts', labels' \in [DOMAIN labels' -> Verdicts]
        PROVE  \A m, at : Evidence(m, at) => Evidence(m, at)'
    <3> TAKE m, at
    <3> HAVE Evidence(m, at)
    <3> PICK D, E : D = DriftAlerts(m, at) /\ E = DriftAlerts(m, at)'
      OBVIOUS
    <3> PICK L, N : L = Labelled(m, Verdicts) /\ N = Labelled(m, Verdicts)'
      OBVIOUS
    <3>1. D \subseteq E /\ E \subseteq alerts'
      BY <2>d, Zenon DEF DriftAlerts
    <3>2. L \subseteq N /\ N \subseteq alerts'
      BY <2>d, <2>t, Zenon DEF Labelled
    <3>3. IsFiniteSet(E) /\ IsFiniteSet(N)
      BY <2>d, <3>1, <3>2, FS_Subset, Zenon
    <3>4. IsFiniteSet(D) /\ IsFiniteSet(L) /\ Cardinality(D) <= Cardinality(E) /\ Cardinality(L) <= Cardinality(N)
      BY <3>1, <3>2, <3>3, FS_Subset, Zenon
    <3>5. Cardinality(D) \in Nat /\ Cardinality(E) \in Nat /\ Cardinality(L) \in Nat /\ Cardinality(N) \in Nat
      BY <3>3, <3>4, FS_CardinalityType, Zenon
    <3>6. Cardinality(D) >= MinDrift /\ Cardinality(L) >= MinLabels /\ MinDrift \in Nat /\ MinLabels \in Nat
      BY ConstAssumption, Zenon DEF Evidence
    <3>7. Cardinality(E) >= MinDrift /\ Cardinality(N) >= MinLabels
      BY <3>4, <3>5, <3>6
    <3> QED BY <3>7, Zenon DEF Evidence
  <2>j. ASSUME alerts \subseteq alerts', Rows(alerts)', DOMAIN labels \subseteq DOMAIN labels',
               DOMAIN labels' \subseteq alerts', labels' \in [DOMAIN labels' -> Verdicts],
               \A a \in alerts' \ alerts : a.scope[1] = "retrain" => Evidence(a.scope[2], a.at),
               \A y \in Workers : task'[y].drift.pc = "write" =>
                   \/ task'[y].drift = task[y].drift
                   \/ Evidence(task'[y].drift.model, task'[y].drift.at)
        PROVE  Evidenced'
    <3>1. \A m, at : Evidence(m, at) => Evidence(m, at)'
      BY <2>d, <2>j, Zenon DEF Rows
    <3>2. Evidenced
      BY DEF IInv
    <3>3. ASSUME NEW a \in alerts', a.scope[1] = "retrain" PROVE Evidence(a.scope[2], a.at)'
      BY <2>j, <3>1, <3>2, <3>3, Zenon DEF Evidenced
    <3>4. ASSUME NEW y \in Workers, NEW t, t = task'[y].drift, t.pc = "write" PROVE Evidence(t.model, t.at)'
      BY <2>j, <3>1, <3>2, <3>4, Zenon DEF Evidenced
    <3>5. ASSUME NEW y \in Workers, task'[y].drift.pc = "write"
          PROVE  Evidence(task[y].drift.model, task[y].drift.at)'
      BY <3>4, <3>5, Zenon DEF Evidence, DriftAlerts, Labelled
    <3> QED BY <3>3, <3>5, Zenon DEF Evidenced
  <2>11. ASSUME NEW x \in Workers, Crash(x) PROVE IInv'
    <3>1. /\ w' = [w EXCEPT ![x] = Started(committed)]
          /\ task' = [task EXCEPT ![x] = [ml |-> Idle, drift |-> Idle]]
          /\ UNCHANGED <<log, lapsed, committed, owner, alerts, dlq, store, labels, now>>
      BY <2>11, Zenon DEF Crash
    <3> PICK v : v = Started(committed)
      OBVIOUS
    <3>2. v \in Replica(alerts) /\ v.pc = "poll" /\ v.pos = committed
      BY <2>t DEF Started, Replica, Pcs
    <3>3. w' \in [Workers -> Replica(alerts)] /\ w'[x] = v /\ \A y \in Workers : y # x => w'[y] = w[y]
      BY <2>x, <3>1, <3>2, Zenon
    <3>4. Grow
      BY <2>g, <3>1, Zenon
    <3>5. \A i \in 1 .. committed : Seen(i)'
      BY <2>m, <2>p, <3>4, Zenon DEF AllSeen
    <3>6. Progress(x)' /\ AllSeen(committed)'
      BY <3>1, <3>2, <3>3, <3>5, Zenon DEF Progress, AllSeen, InHand
    <3> PICK u : u = [ml |-> Idle, drift |-> Idle]
      BY Zenon
    <3>7. u \in [ml : MlTask \cup {Idle}, drift : DriftTask \cup {Idle}] /\ u.drift.pc = "idle"
      BY Zenon DEF Idle
    <3>8. /\ task' \in [Workers -> [ml : MlTask \cup {Idle}, drift : DriftTask \cup {Idle}]]
          /\ task'[x] = u /\ \A y \in Workers : y # x => task'[y] = task[y]
      BY <2>t, <3>1, <3>7, Zenon
    <3>9. Rows(alerts)' /\ Spaced(alerts)'
      BY <2>t, <3>1, Zenon DEF IInv, Rows, Spaced
    <3>10. labels' \in [DOMAIN labels' -> Verdicts] /\ DOMAIN labels' \subseteq alerts'
           /\ DOMAIN labels \subseteq DOMAIN labels'
      BY <2>t, <3>1, Zenon
    <3>11. Evidenced'
      <4>1. \A y \in Workers : task'[y].drift.pc = "write" => task'[y].drift = task[y].drift
        BY <3>7, <3>8, Zenon
      <4> QED BY <2>j, <3>1, <3>9, <3>10, <4>1, Zenon
    <3> QED BY <2>k, <2>p, <2>t, <3>1, <3>3, <3>4, <3>6, <3>8, <3>9, <3>10, <3>11, Zenon
  \* The tasks' states.
  <2>A. ASSUME NEW x \in Workers
        PROVE  /\ task[x].ml \in MlTask \cup {Idle} /\ task[x].drift \in DriftTask \cup {Idle}
               /\ task[x] = [ml |-> task[x].ml, drift |-> task[x].drift]
    BY <2>t, Zenon
  <2>B. ASSUME NEW d \in DriftTask \cup {Idle}
        PROVE  /\ d.pc = "drift" => d \in [pc : {"drift"}, todo : SUBSET Rules]
               /\ d.pc = "retrain" => d \in [pc : {"retrain"}, todo : SUBSET Models]
               /\ d.pc = "write" => d \in [pc : {"write"}, model : Models, at : Nat, todo : SUBSET Models]
    BY DEF DriftTask, Idle
  \* A step that changes one task only, and plans no recommendation but on its evidence.
  <2> DEFINE Tasks ==
        /\ task' \in [Workers -> [ml : MlTask \cup {Idle}, drift : DriftTask \cup {Idle}]]
        /\ \A y \in Workers : task'[y].drift.pc = "write" =>
             \/ task'[y].drift = task[y].drift
             \/ Evidence(task'[y].drift.model, task'[y].drift.at)
  <2>C. ASSUME NEW x \in Workers, NEW d \in DriftTask \cup {Idle}, task' = [task EXCEPT ![x].drift = d],
               d.pc = "write" => d = task[x].drift \/ Evidence(d.model, d.at)
        PROVE  Tasks
    <3>1. task' \in [Workers -> [ml : MlTask \cup {Idle}, drift : DriftTask \cup {Idle}]]
      BY <2>t, <2>C
    <3>2. task'[x].drift = d /\ \A y \in Workers : y # x => task'[y] = task[y]
      BY <2>t, <2>C
    <3> QED BY <2>C, <3>1, <3>2
  <2>E. ASSUME NEW x \in Workers, NEW m \in MlTask \cup {Idle}, task' = [task EXCEPT ![x].ml = m]
        PROVE  Tasks
    <3>1. task' \in [Workers -> [ml : MlTask \cup {Idle}, drift : DriftTask \cup {Idle}]]
      BY <2>t, <2>E
    <3>2. \A y \in Workers : task'[y].drift = task[y].drift
      BY <2>t, <2>E
    <3> QED BY <3>1, <3>2, Zenon
  <2>D. ASSUME UNCHANGED <<log, committed, owner, alerts, dlq, lapsed, w, store, labels, now>>, Tasks
        PROVE  IInv'
    <3>1. Rows(alerts)' /\ labels' \in [DOMAIN labels' -> Verdicts] /\ DOMAIN labels' \subseteq alerts'
      BY <2>t, <2>D, Zenon DEF Rows
    <3>2. alerts' = alerts /\ labels' = labels
      BY <2>D, Zenon
    <3>3. Evidenced'
      BY <2>j, <2>D, <3>1, <3>2, Zenon
    <3> QED BY <2>o, <2>t, <2>D, <3>3, Zenon
  <2> HIDE DEF Tasks
  <2>12. ASSUME NEW x \in Workers, NEW q \in Rules, MlEvaluate(x, q) PROVE IInv'
    <3>1. /\ q.type = "ml" /\ q.sensors # {} /\ Snapshot(q) = q.sensors
          /\ UNCHANGED <<log, lapsed, committed, owner, alerts, dlq, w, store, labels, now>>
      BY <2>12 DEF MlEvaluate
    <3> PICK S : S = q.sensors
      OBVIOUS
    <3>2. IsFiniteSet(S) /\ S \subseteq Sensors /\ S # {}
      BY <3>1, ConstAssumption, Zenon
    <3>3. \A s \in S : store[s] \in Readings
      BY <2>t, <3>1, <3>2, Zenon DEF Snapshot
    <3> PICK f : f = [s \in S |-> store[s].at]
      BY Zenon
    <3>4. f \in [S -> Int]
      BY <3>3, ConstAssumption, Zenon
    <3> PICK T : T = {store[s].at : s \in S}
      BY Zenon
    <3>5. T = {f[s] : s \in S}
      BY Zenon
    <3>6. Max(T) \in T
      BY ONLY <3>2, <3>4, <3>5, MaxOfValues, Zenon
    <3>7. AsOf(q.sensors) \in Int
      BY <3>4, <3>5, <3>6 DEF AsOf
    <3> PICK m : m = [pc |-> "asked", scope |-> RuleScope(q), at |-> AsOf(q.sensors)]
      BY Zenon
    <3>8. m \in MlTask
      BY <3>7, Zenon DEF MlTask
    <3>9. task' = [task EXCEPT ![x].ml = m]
      BY <2>12 DEF MlEvaluate
    <3>10. Tasks
      BY <2>E, <3>8, <3>9, Zenon
    <3> QED BY <2>D, <3>1, <3>10, Zenon
  <2>13. ASSUME NEW x \in Workers, DriftPass(x) PROVE IInv'
    <3> PICK d : d = [pc |-> "drift", todo |-> DriftRules(x)]
      BY Zenon
    <3>1. d \in DriftTask /\ d.pc = "drift"
      BY Zenon DEF DriftTask, DriftRules
    <3>2. /\ task' = [task EXCEPT ![x].drift = d]
          /\ UNCHANGED <<log, lapsed, committed, owner, alerts, dlq, w, store, labels, now>>
      BY <2>13 DEF DriftPass
    <3>3. Tasks
      BY <2>C, <3>1, <3>2, Zenon
    <3> QED BY <2>D, <3>2, <3>3
  <2>14. ASSUME NEW x \in Workers, RetrainPass(x) PROVE IInv'
    <3> PICK d : d = [pc |-> "retrain", todo |-> {q.model : q \in DriftRules(x)}]
      BY Zenon
    <3>1. d \in DriftTask /\ d.pc = "retrain"
      BY Zenon DEF DriftTask, DriftRules, Models
    <3>2. /\ task' = [task EXCEPT ![x].drift = d]
          /\ UNCHANGED <<log, lapsed, committed, owner, alerts, dlq, w, store, labels, now>>
      BY <2>14 DEF RetrainPass
    <3>3. Tasks
      BY <2>C, <3>1, <3>2, Zenon
    <3> QED BY <2>D, <3>2, <3>3
  <2>15. ASSUME NEW x \in Workers, NEW m \in Models, RetrainSignals(x, m) PROVE IInv'
    <3> PICK t : t = task[x].drift
      OBVIOUS
    <3>0. t \in DriftTask \cup {Idle} /\ t.pc = "retrain"
      BY <2>15, <2>A, Zenon DEF RetrainSignals
    <3>1. t.todo \in SUBSET Models
      BY <2>B, <3>0, Zenon
    <3> PICK d : d = IF ShouldRecommend(m)
                     THEN [pc |-> "write", model |-> m, at |-> now, todo |-> t.todo \ {m}]
                     ELSE [pc |-> "retrain", todo |-> t.todo \ {m}]
      BY Zenon
    <3>2. /\ task' = [task EXCEPT ![x].drift = d]
          /\ UNCHANGED <<log, lapsed, committed, owner, alerts, dlq, w, store, labels, now>>
      BY <2>15, Zenon DEF RetrainSignals
    <3>3. d \in DriftTask /\ (d.pc = "write" => Evidence(d.model, d.at))
      <4>1. CASE ShouldRecommend(m)
        <5>1. d = [pc |-> "write", model |-> m, at |-> now, todo |-> t.todo \ {m}]
          BY <4>1, Zenon
        <5>2. d \in DriftTask /\ d.model = m /\ d.at = now
          <6>1. now \in Nat /\ m \in Models /\ t.todo \ {m} \in SUBSET Models
            BY <2>t, <3>1, Zenon
          <6>2. d \in [pc : {"write"}, model : Models, at : Nat, todo : SUBSET Models]
            BY <5>1, <6>1
          <6>3. d \in DriftTask
            BY <6>2, Zenon DEF DriftTask
          <6> QED BY <5>1, <6>3
        <5> PICK L, N : L = Labelled(m, Verdicts) /\ N = Labelled(m, {"true_positive", "false_positive"})
          BY Zenon
        <5>3. N \subseteq L /\ L \subseteq alerts
          BY <2>t, Zenon DEF Labelled, Verdicts
        <5>4. IsFiniteSet(L)
          BY <2>t, <5>3, FS_Subset, Zenon
        <5>5. IsFiniteSet(N) /\ Cardinality(N) <= Cardinality(L)
          BY <5>3, <5>4, FS_Subset, Zenon
        <5>6. Cardinality(N) \in Nat /\ Cardinality(L) \in Nat /\ MinLabels \in Nat
          BY <5>4, <5>5, FS_CardinalityType, ConstAssumption, Zenon
        <5>7. Cardinality(N) >= MinLabels /\ Cardinality(DriftAlerts(m, now)) >= MinDrift
          BY <4>1, Zenon DEF ShouldRecommend, Decided
        <5>8. Cardinality(L) >= MinLabels
          BY <1>0, <5>5, <5>6, <5>7, Zenon
        <5> QED BY <5>2, <5>7, <5>8, Zenon DEF Evidence
      <4>2. CASE ~ShouldRecommend(m)
        <5>1. d = [pc |-> "retrain", todo |-> t.todo \ {m}]
          BY <4>2, Zenon
        <5>2. d.pc = "retrain" /\ d \in [pc : {"retrain"}, todo : SUBSET Models]
          BY <3>1, <5>1
        <5> QED BY <5>2, Zenon DEF DriftTask
      <4> QED BY <4>1, <4>2, Zenon
    <3>4. Tasks
      BY <2>C, <3>2, <3>3, Zenon
    <3> QED BY <2>D, <3>2, <3>4
  <2>16. ASSUME NEW x \in Workers, DriftDone(x) PROVE IInv'
    <3>1. Idle \in DriftTask \cup {Idle} /\ Idle.pc = "idle"
      BY Zenon DEF Idle
    <3> PICK d : d = Idle
      OBVIOUS
    <3>2. /\ task' = [task EXCEPT ![x].drift = d]
          /\ UNCHANGED <<log, lapsed, committed, owner, alerts, dlq, w, store, labels, now>>
      BY <2>16 DEF DriftDone
    <3>3. Tasks
      BY <2>C, <3>1, <3>2, Zenon
    <3> QED BY <2>D, <3>2, <3>3
  <2>17. ASSUME NEW a \in alerts, NEW verdict \in Verdicts, Label(a, verdict) PROVE IInv'
    <3>1. /\ labels' = [b \in DOMAIN labels \cup {a} |-> IF b = a THEN verdict ELSE labels[b]]
          /\ UNCHANGED <<log, lapsed, committed, owner, alerts, dlq, w, store, task, now>>
      BY <2>17, Zenon DEF Label
    <3>2. /\ DOMAIN labels' = DOMAIN labels \cup {a} /\ DOMAIN labels' \subseteq alerts'
          /\ labels' \in [DOMAIN labels' -> Verdicts]
      BY <2>t, <3>1, Zenon
    <3>3. Rows(alerts)' /\ task' = task /\ alerts' = alerts
      BY <2>t, <3>1, Zenon DEF Rows
    <3>4. Evidenced'
      BY <2>j, <3>2, <3>3, Zenon
    <3> QED BY <2>o, <2>t, <3>1, <3>2, <3>4, Zenon
  <2>18. ASSUME Tick PROVE IInv'
    <3>1. now' = now + 1 /\ UNCHANGED <<log, lapsed, committed, owner, alerts, dlq, w, store, task, labels>>
      BY <2>18, Zenon DEF Tick
    <3>2. Rows(alerts)' /\ labels' \in [DOMAIN labels' -> Verdicts] /\ DOMAIN labels' \subseteq alerts' /\ now' \in Nat
      BY <2>t, <3>1 DEF Rows
    <3>3. Evidenced'
      BY <2>j, <3>1, <3>2, Zenon
    <3> QED BY <2>o, <2>t, <3>1, <3>2, <3>3, Zenon
  \* A step that may write an alert of scope s at event time at.
  <2>F. ASSUME UNCHANGED <<log, committed, owner, dlq, lapsed, store, labels, now>>, Tasks,
               NEW x \in Workers, NEW s, NEW at \in Int,
               alerts \subseteq alerts', alerts' \subseteq alerts \cup {Row(s, at)},
               Rows(alerts'), Spaced(alerts'), s[1] = "retrain" => Evidence(s[2], at),
               w' \in [Workers -> Replica(alerts')], \A y \in Workers : y # x => w'[y] = w[y], Progress(x)'
        PROVE  IInv'
    <3>1. Grow
      BY <2>g, <2>F, Zenon
    <3>2. Rows(alerts)' /\ Spaced(alerts)'
      BY <2>F, Zenon DEF Rows, Spaced
    <3>3. /\ labels' \in [DOMAIN labels' -> Verdicts] /\ DOMAIN labels' \subseteq alerts'
          /\ DOMAIN labels \subseteq DOMAIN labels' /\ labels' = labels
      BY <2>t, <2>F, Zenon
    <3>4. \A a \in alerts' \ alerts : a.scope[1] = "retrain" => Evidence(a.scope[2], a.at)
      <4>1. Row(s, at).scope = s /\ Row(s, at).at = at
        BY Zenon DEF Row
      <4>2. \A a \in alerts' \ alerts : a.scope = s /\ a.at = at
        BY <2>F, <4>1, Zenon
      <4> QED BY <2>F, <4>2, Zenon
    <3>5. Evidenced'
      BY <2>j, <2>F, <3>2, <3>3, <3>4, Zenon DEF Tasks
    <3>6. AllSeen(committed)'
      BY <2>m, <2>p, <2>F, <3>1, Zenon DEF AllSeen
    <3>7. task' \in [Workers -> [ml : MlTask \cup {Idle}, drift : DriftTask \cup {Idle}]]
      BY <2>F, Zenon DEF Tasks
    <3>8. /\ committed' \in Nat /\ now' \in Nat /\ store' \in [Sensors -> Readings \cup {None}]
          /\ \A i \in dlq' : log[i].kind # "ok"
          /\ owner' = owner
      BY <2>t, <2>p, <2>F, Zenon
    <3> QED BY <2>k, <2>F, <3>1, <3>2, <3>3, <3>5, <3>6, <3>7, <3>8, Zenon
  \* ... and keeps the replica's consumer, but for the cache.
  <2>G. ASSUME UNCHANGED <<log, committed, owner, dlq, lapsed, store, labels, now>>, Tasks,
               NEW x \in Workers, NEW s, NEW at \in Int, s[1] = "retrain" => Evidence(s[2], at),
               NEW e, e = EmitAt(x, s, at), alerts' = e.alerts, w' = [w EXCEPT ![x].cache = e.cache]
        PROVE  IInv'
    <3> PICK A, c : A = e.alerts /\ c = e.cache
      BY Zenon
    <3>1. Whole(x, s, at, A, c)
      BY <2>e, <2>G, Zenon
    <3>2. /\ alerts \subseteq A /\ A \subseteq alerts \cup {Row(s, at)}
          /\ Rows(A) /\ Spaced(A) /\ c \in Seq(A)
      BY <3>1, Zenon DEF Whole
    <3>3. w' = [w EXCEPT ![x].cache = c] /\ alerts' = A
      BY <2>G, Zenon
    <3> PICK v : v = [w[x] EXCEPT !.cache = c]
      BY Zenon
    <3>4. w[x] \in Replica(alerts)
      BY <2>t
    <3>5. /\ v \in Replica(A) /\ v.pc = w[x].pc /\ v.pos = w[x].pos /\ v.i = w[x].i /\ v.last = w[x].last
          /\ v.todo = w[x].todo
      BY <3>2, <3>4, Zenon DEF Replica
    <3>6. w' = [w EXCEPT ![x] = v]
      BY <2>t, <3>3 DEF Replica
    <3>7. w' \in [Workers -> Replica(A)] /\ w'[x] = v /\ \A y \in Workers : y # x => w'[y] = w[y]
      BY <2>x, <3>2, <3>5, <3>6, ZenonT(30)
    <3>8. Grow
      BY <2>g, <2>G, <3>2, <3>3
    <3>9. Progress(x)'
      <4>1. Progress(x)
        BY <2>p
      <4>2. owner' = owner /\ log' = log /\ lapsed' = lapsed
        BY <2>G
      <4> QED BY <2>m, <3>5, <3>7, <3>8, <4>1, <4>2, ZenonT(30) DEF Progress, AllSeen
    <3> QED BY <2>F, <2>G, <3>2, <3>3, <3>7, <3>9
  <2>19. ASSUME NEW x \in Workers, NEW s \in Scopes, Emit(x, s) PROVE IInv'
    <3> PICK i, at : i \in Nat /\ i = w[x].i /\ at = log[i].at
      BY <2>u, Zenon
    <3> PICK e : e = EmitAt(x, s, at)
      BY Zenon
    <3> PICK A, c : A = e.alerts /\ c = e.cache
      BY Zenon
    <3>1. /\ w[x].pc = "rules" /\ s \in w[x].todo /\ alerts' = A
          /\ w' = [w EXCEPT ![x].todo = @ \ {s}, ![x].cache = c]
          /\ UNCHANGED <<log, lapsed, committed, owner, dlq, store, task, labels, now>>
      BY <2>19, Zenon DEF Emit, schedule
    <3>0. w[x].pc \in InHand
      BY <3>1, Zenon DEF InHand
    <3>2. at \in Int
      <4>1. log[i] \in Readings
        BY <2>i, <3>0, Zenon
      <4> QED BY <4>1, ConstAssumption, Zenon
    <3>3. Whole(x, s, at, A, c)
      BY <2>e, <3>2, Zenon
    <3>4. /\ alerts \subseteq A /\ A \subseteq alerts \cup {Row(s, at)}
          /\ Rows(A) /\ Spaced(A) /\ c \in Seq(A)
      BY <3>3, Zenon DEF Whole
    <3>5. \E a \in A : a.scope = s /\ Abs(at - a.at) < Window
      BY <2>s, <3>3, ZenonT(30) DEF Whole
    <3> PICK v : v = [w[x] EXCEPT !.todo = @ \ {s}, !.cache = c]
      BY Zenon
    <3>6. w[x] \in Replica(alerts)
      BY <2>t, Zenon
    <3>7. /\ v \in Replica(A) /\ v.pc = "rules" /\ v.pos = w[x].pos /\ v.i = i /\ v.last = w[x].last
          /\ v.todo = w[x].todo \ {s}
      BY <3>1, <3>4, <3>6, ZenonT(30) DEF Replica
    <3>8. w' = [w EXCEPT ![x] = v]
      BY <2>t, <3>1, Zenon DEF Replica
    <3>9. w' \in [Workers -> Replica(A)] /\ w'[x] = v /\ \A y \in Workers : y # x => w'[y] = w[y]
      <4>1. alerts \subseteq A
        BY <3>4, Zenon
      <4>2. v \in Replica(A)
        BY <3>7, Zenon
      <4> QED BY ONLY <2>x, <3>8, <4>1, <4>2, x \in Workers, Zenon
    <3>10. Grow
      BY <2>g, <3>1, <3>4, Zenon
    <3>11. Progress(x)'
      <4>1. /\ i \in 1 .. v.last /\ v.last <= Len(log) /\ \A k \in 1 .. i - 1 : Seen(k)'
            /\ v.pos = v.last \/ \A k \in 1 .. v.pos : Seen(k)'
        BY <2>m, <2>i, <3>0, <3>7, <3>10, Zenon DEF AllSeen
      <4>2. i \in lapsed \/ \A z \in FiresOf[log[i]] \ w[x].todo : Raised(z, i)
        BY <2>p, <3>1, Zenon DEF Progress
      <4>3. Raised(s, i)'
        BY <3>1, <3>5, Zenon DEF Raised
      <4>4. i \in lapsed' \/ \A z \in FiresOf[log[i]] \ v.todo : Raised(z, i)'
        <5>1. lapsed' = lapsed
          BY <3>1, Zenon
        <5>2. ASSUME NEW z \in FiresOf[log[i]] \ v.todo, i \notin lapsed PROVE Raised(z, i)'
          <6>1. z = s \/ z \in FiresOf[log[i]] \ w[x].todo
            BY <3>7, Zenon
          <6> QED BY <2>m, <3>10, <4>2, <4>3, <5>2, <6>1, Zenon
        <5> QED BY <5>1, <5>2, Zenon
      <4>5. log' = log
        BY <3>1, Zenon
      <4>6. w'[x].i \in lapsed' \/ \A z \in FiresOf[log'[w'[x].i]] \ w'[x].todo : Raised(z, w[x].i)'
        <5>1. w'[x].i = i /\ w'[x].todo = v.todo
          BY <3>7, <3>9, Zenon
        <5> QED BY <4>4, <4>5, <5>1, Zenon DEF Raised
      <4>7. /\ w'[x].pc = "rules" /\ w'[x].i \in 1 .. w'[x].last /\ w'[x].last <= Len(log')
            /\ \A k \in 1 .. w'[x].i - 1 : Seen(k)'
            /\ w'[x].pos = w'[x].last \/ \A k \in 1 .. w'[x].pos : Seen(k)'
        BY <3>7, <3>9, <4>1, <4>5, Zenon
      <4> QED BY <4>6, <4>7, Zenon DEF Progress, AllSeen, InHand
    <3>12. Tasks
      BY <2>t, <3>1, Zenon DEF Tasks
    <3>13. s[1] # "retrain"
      BY <2>s, Zenon
    <3> QED BY <2>F, <3>1, <3>2, <3>4, <3>9, <3>11, <3>12, <3>13, Zenon
  <2>20. ASSUME NEW x \in Workers, MlAnswer(x) PROVE IInv'
    <3>1. /\ task[x].ml # Idle /\ task' = [task EXCEPT ![x].ml = Idle]
          /\ UNCHANGED <<log, lapsed, committed, owner, dlq, store, labels, now>>
      BY <2>20, Zenon DEF MlAnswer
    <3>2. Tasks
      BY <2>E, <3>1, Zenon
    <3>3. CASE UNCHANGED <<alerts, w>>
      BY <2>D, <3>1, <3>2, <3>3
    <3> PICK m : m = task[x].ml
      BY Zenon
    <3> PICK e : e = EmitAt(x, m.scope, m.at)
      BY Zenon
    <3>4. CASE alerts' = e.alerts /\ w' = [w EXCEPT ![x].cache = e.cache]
      <4>1. m \in MlTask
        BY <2>A, <3>1, Zenon
      <4>2. m.at \in Int /\ m.scope[1] # "retrain"
        BY <2>q, <4>1, Zenon DEF MlTask
      <4> QED BY <2>G, <3>1, <3>2, <3>4, <4>2, Zenon
    <3> QED BY <2>20, <3>3, <3>4, Zenon DEF MlAnswer
  <2>21. ASSUME NEW x \in Workers, NEW q \in Rules, EvaluateDrift(x, q) PROVE IInv'
    <3> PICK t : t = task[x].drift
      BY Zenon
    <3>0. t \in DriftTask \cup {Idle} /\ t.pc = "drift"
      BY <2>A, <2>21, Zenon DEF EvaluateDrift
    <3>1. t \in [pc : {"drift"}, todo : SUBSET Rules]
      BY <2>B, <3>0, Zenon
    <3> PICK d : d = [pc |-> "drift", todo |-> t.todo \ {q}]
      BY Zenon
    <3>2. d \in DriftTask /\ d.pc = "drift" /\ d = [t EXCEPT !.todo = @ \ {q}]
      BY <3>1 DEF DriftTask
    <3>3. /\ task' = [task EXCEPT ![x].drift.todo = @ \ {q}]
          /\ UNCHANGED <<log, lapsed, committed, owner, dlq, store, labels, now>>
      BY <2>21, Zenon DEF EvaluateDrift
    <3>4. task' = [task EXCEPT ![x].drift = d]
      BY <2>t, <3>2, <3>3, Zenon
    <3>5. Tasks
      BY <2>C, <3>2, <3>4, Zenon
    <3>6. CASE UNCHANGED <<alerts, w>>
      BY <2>D, <3>3, <3>5, <3>6, Zenon
    <3> PICK e : e = EmitAt(x, RuleScope(q), now)
      BY Zenon
    <3>7. CASE alerts' = e.alerts /\ w' = [w EXCEPT ![x].cache = e.cache]
      <4>1. now \in Int /\ RuleScope(q)[1] # "retrain"
        BY <2>q, <2>t
      <4> QED BY <2>G, <3>3, <3>5, <3>7, <4>1, Zenon
    <3> QED BY <2>21, <3>6, <3>7, Zenon DEF EvaluateDrift
  <2>22. ASSUME NEW x \in Workers, RetrainWrite(x) PROVE IInv'
    <3> PICK t : t = task[x].drift
      BY Zenon
    <3>0. t \in DriftTask \cup {Idle} /\ t.pc = "write"
      BY <2>A, <2>22, Zenon DEF RetrainWrite
    <3>1. t \in [pc : {"write"}, model : Models, at : Nat, todo : SUBSET Models]
      BY <2>B, <3>0, Zenon
    <3> PICK d : d = [pc |-> "retrain", todo |-> t.todo]
      BY Zenon
    <3>2. d \in DriftTask /\ d.pc = "retrain" /\ t.at \in Int
      BY <3>1 DEF DriftTask
    <3> PICK s : s = RetrainScope(t.model)
      BY Zenon
    <3> PICK e : e = EmitAt(x, s, t.at)
      BY Zenon
    <3>3. /\ task' = [task EXCEPT ![x].drift = d]
          /\ alerts' = e.alerts /\ w' = [w EXCEPT ![x].cache = e.cache]
          /\ UNCHANGED <<log, lapsed, committed, owner, dlq, store, labels, now>>
      BY <2>22, Zenon DEF RetrainWrite
    <3>4. Tasks
      BY <2>C, <3>2, <3>3, Zenon
    <3>5. Evidence(t.model, t.at)
      BY <3>0, Zenon DEF IInv, Evidenced
    <3>6. s[2] = t.model
      BY Zenon DEF RetrainScope
    <3> QED BY <2>G, <3>2, <3>3, <3>4, <3>5, <3>6, Zenon
  <2>23. ASSUME NEW x \in Workers, DatabaseFails(x) PROVE IInv'
    <3> PICK i, at : i \in Nat /\ i = w[x].i /\ at = log[i].at
      BY <2>u, Zenon
    <3>1. /\ w[x].pc = "rules" /\ w' = [w EXCEPT ![x].pc = "rewind"]
          /\ alerts' = alerts \/ \E s \in w[x].todo : alerts' = Saved(s, at)
          /\ UNCHANGED <<log, lapsed, committed, owner, dlq, store, task, labels, now>>
      BY <2>23, Zenon DEF DatabaseFails, schedule
    <3>2. at \in Int
      <4>1. log[i] \in Readings
        BY <2>i, <3>1, Zenon DEF InHand
      <4> QED BY <4>1, ConstAssumption, Zenon
    <3>3. Tasks
      BY <2>t, <3>1, Zenon DEF Tasks
    <3>4. PICK s : /\ alerts \subseteq alerts' /\ alerts' \subseteq alerts \cup {Row(s, at)}
                   /\ Rows(alerts') /\ Spaced(alerts') /\ s[1] # "retrain"
      <4>1. CASE alerts' = alerts
        <5> PICK s : s = <<"none">>
          BY Zenon
        <5>1. s[1] # "retrain" /\ Spaced(alerts)
          BY Zenon DEF IInv
        <5> QED BY <2>t, <4>1, <5>1, Zenon
      <4>2. ASSUME NEW s \in w[x].todo, alerts' = Saved(s, at)
            PROVE  /\ alerts \subseteq alerts' /\ alerts' \subseteq alerts \cup {Row(s, at)}
                   /\ Rows(alerts') /\ Spaced(alerts') /\ s[1] # "retrain"
        <5>1. s \in Scopes
          BY <2>w, Zenon
        <5> QED BY <2>s, <2>v, <3>2, <4>2, <5>1, Zenon
      <4> QED BY <3>1, <4>1, <4>2, Zenon
    <3> PICK v : v = [w[x] EXCEPT !.pc = "rewind"]
      BY Zenon
    <3>5. w[x] \in Replica(alerts) /\ w[x].cache \in Seq(alerts')
      BY <2>t, <2>w, <3>4, SeqMonotonic, Zenon
    <3>6. v \in Replica(alerts') /\ v.pc = "rewind"
      BY <3>5, Zenon DEF Replica, Pcs
    <3>7. w' = [w EXCEPT ![x] = v]
      BY <2>t, <3>1 DEF Replica
    <3>8. w' \in [Workers -> Replica(alerts')] /\ w'[x] = v /\ \A y \in Workers : y # x => w'[y] = w[y]
      BY <2>x, <3>4, <3>6, <3>7, Zenon
    <3>9. Progress(x)'
      BY <3>6, <3>8, Zenon DEF Progress, InHand
    <3> QED BY <2>F, <3>1, <3>2, <3>3, <3>4, <3>8, <3>9, Zenon
  <2>24. CASE UNCHANGED vars
    <3>1. UNCHANGED <<log, committed, owner, alerts, dlq, lapsed, w, store, task, labels, now>>
      BY <2>24, Zenon DEF vars
    <3>2. Tasks
      BY <2>t, <3>1, Zenon DEF Tasks
    <3> QED BY <2>D, <3>1, <3>2, Zenon
  <2>25. ASSUME NEW x \in Workers, Scheduled(x) PROVE IInv'
    <3>1. \A q \in Rules : q.model \in Models
      BY Zenon DEF Models
    <3> QED BY <2>12, <2>13, <2>14, <2>15, <2>16, <2>20, <2>21, <2>22, <2>25, <3>1, Zenon DEF Scheduled
  <2>26. ASSUME NEW x \in Workers, Step(x) PROVE IInv'
    BY <2>1, <2>2, <2>3, <2>4, <2>5, <2>6, <2>7, <2>19, <2>26, Zenon DEF Step
  <2> QED
    BY <2>8, <2>9, <2>10, <2>11, <2>17, <2>18, <2>23, <2>24, <2>25, <2>26 DEF Next
<1>4. QED
  BY <1>2, <1>3, PTL DEF Spec

\* No two alerts of a scope lie closer than its cooldown, for any replicas, caches, redeliveries and
\* event times in any order: the window lookup of save_alert_once reaches both ways.
THEOREM AlertsKeepTheirDistance == Spec => []CooldownHolds
<1>1. IInv => CooldownHolds
  BY Zenon DEF IInv, Spaced, CooldownHolds
<1> QED BY <1>1, Invariance, PTL

\* A committed reading that met its tenant's rules was handled, and only what can never be evaluated is
\* dead-lettered, for any crashes, rebalances, lost answers and redeliveries: a replica reads on only
\* from an offset behind which everything was handled (consume_messages, _rewind_and_back_off).
THEOREM NoReadingIsSkipped == Spec => []RuledNotSkipped
<1>1. IInv => RuledNotSkipped
  BY Zenon DEF IInv, Handling, AllSeen, Seen, RuledNotSkipped
<1> QED BY <1>1, Invariance, PTL

\* A recommendation to retrain has its drift alerts and its labels behind it, although it is written
\* after they were counted (get_retrain_signals, should_recommend_retrain): neither is ever withdrawn.
THEOREM RecommendationsHaveEvidence == Spec => []RecommendedOnEvidence
<1>1. IInv => RecommendedOnEvidence
  BY Zenon DEF IInv, Evidenced, Evidence, RecommendedOnEvidence
<1> QED BY <1>1, Invariance, PTL
=============================================================================
