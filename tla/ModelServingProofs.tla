------------------------- MODULE ModelServingProofs -------------------------
(***************************************************************************)
(* A model keeps the inputs it is bound to, a deployment leaves in service *)
(* only what it was shown to load and scores of its own image or a later   *)
(* one, and a cached value is used while fresh: for any requests, images,  *)
(* artifacts, inputs and time to live.                                     *)
(***************************************************************************)
EXTENDS ModelServing, TLAPS

\* A row of ml_models, whatever its columns hold.
IsRow(m) ==
    m = [status |-> m.status, art |-> m.art, detector |-> m.detector, bound |-> m.bound, cols |-> m.cols,
         base |-> m.base, by |-> m.by, compat |-> m.compat, deployed |-> m.deployed]

\* No sample was accepted at registration, and so there are no scores.
Sampleless == {"none", "refused"}

\* What the gates of a deployment in image i show.
Gated(a, d, i) == Evaluate(a, i) # "incompatible" /\ DetectorLoaded(d, i)
Loads(a, i) == Uploaded(a) => i \in Artifacts[a].loads /\ Artifacts[a].types = {}

\* The scores a deployment leaves are of its image.
ScoredSince(m, i) == m.base \notin {"sample", "supplied", "labels"} /\ (m.base = "derived" => m.by >= i)

\* Its sample has the inputs of a configuration it is bound to.
SampleFits(m) == m.cols = m.bound /\ m.bound # NoConfig

GoodRow(m) ==
    /\ IsRow(m) /\ m.status # "none"
    /\ m.base \in {"sample", "derived"} => SampleFits(m)
    /\ m.by \in 0..image /\ m.deployed \in 0..image
    /\ m.base = "derived" => Reads(m.detector, m.art)
    /\ m.deployed # 0 => Gated(m.art, m.detector, m.deployed) /\ Loads(m.art, m.deployed) /\ ScoredSince(m, m.deployed)

\* What is bound stays as it is.
ModelInv == model = NoModel \/ (GoodRow(model) /\ (model.bound # NoConfig => config = model.bound))

\* The row a deployment read is the model's still, but for the scores.
Matches(row) ==
    /\ model.status # "none"
    /\ row.art = model.art /\ row.detector = model.detector /\ row.bound = model.bound /\ row.cols = model.cols
    /\ row.base \in Sampleless <=> model.base \in Sampleless

\* A deployment: what it has shown so far, in the image that is running.
Deploying(q) ==
    /\ {"op", "pc", "row", "plan", "base", "reads"} \subseteq DOMAIN q
    /\ Matches(q.row) /\ Gated(q.row.art, q.row.detector, image)
    /\ q.plan \in {"none", "reason", "rows"} /\ (q.pc = "plan" => q.plan = "none")
    /\ q.pc # "plan" => (q.plan = "none" <=> q.row.base \in Sampleless)
    /\ q.plan = "rows" => SampleFits(q.row)
    /\ q.pc \in {"profile", "status"} => Loads(q.row.art, image)
    /\ q.pc = "profile" => /\ q.base = "none" => q.row.base \in Sampleless
                           /\ q.base \in {"none", "unscored", "derived"}
                           /\ q.base # "none" => q.row.base \notin Sampleless
                           /\ q.base = "derived" => Reads(q.row.detector, q.row.art) /\ SampleFits(q.row)
    /\ q.pc = "status" => ScoredSince(model, image)

\* A drift request scores its window only against scores.
Comparing(q) ==
    /\ {"op", "pc", "row", "scored", "reads"} \subseteq DOMAIN q
    /\ q.pc # "answered" => HoldsScores(q.row.base) /\ ~q.scored
    /\ q.pc = "answered" /\ q.scored => HoldsScores(q.row.base) /\ Reads(q.row.detector, q.row.art)

\* A value read is the database's, or was when the read had begun.
Fresh(u) == u.failed \/ u.value = stored[u.kind].value \/ stored[u.kind].since >= u.now
ReadInv(q) ==
    /\ q.pc \in {"read", "store"} => q.reads.kind \in Kinds /\ q.reads.now \in 0..clock
    /\ q.pc = "store" => q.reads.failed \in BOOLEAN /\ q.reads.value \in BOOLEAN /\ Fresh(q.reads)

GoodReq(q) ==
    /\ q.op = "register" => GoodRow(q.row)
    /\ q.op = "deploy" => Deploying(q)
    /\ q.op = "drift" => Comparing(q)
    /\ q.op \in Scoring => {"op", "pc", "row", "reads"} \subseteq DOMAIN q /\ ReadInv(q)

\* A value held past its change expires within TTL of it.
CacheInv ==
    /\ clock \in Nat /\ stale = FALSE
    /\ stored \in [Kinds -> [value : BOOLEAN, since : Nat]]
    /\ held \in [Kinds -> [value : BOOLEAN, expires : Nat, failed : BOOLEAN]]
    /\ \A k \in Kinds :
         /\ stored[k].since <= clock /\ held[k].expires <= clock + TTL
         /\ held[k].failed \/ held[k].value = stored[k].value \/ held[k].expires <= stored[k].since + TTL

IInv ==
    /\ image \in Nat \ {0} /\ req = [r \in Requests |-> req[r]]
    /\ CacheInv /\ ModelInv
    /\ \A r \in Requests : GoodReq(req[r])

\* The invariant holds in every state.
LEMMA Invariance == Spec => []IInv
<1>1. Init => IInv
  <2> SUFFICES ASSUME Init PROVE IInv
    OBVIOUS
  <2>1. image = 1 /\ req = [r \in Requests |-> Idle] /\ clock = 1 /\ stale = FALSE /\ held = NothingHeld /\ config \in Inputs
    BY DEF Init
  <2>2. \A r \in Requests : req[r].op = "idle"
    BY <2>1 DEF Idle
  <2>3. \A r \in Requests : GoodReq(req[r])
    BY <2>2 DEF GoodReq, Scoring
  <2>4. CacheInv
    <3>1. stored = [k \in Kinds |-> [value |-> TRUE, since |-> 0]]
      BY DEF Init
    <3>2. stored \in [Kinds -> [value : BOOLEAN, since : Nat]] /\ \A k \in Kinds : stored[k].since = 0
      BY <3>1
    <3>3. /\ held \in [Kinds -> [value : BOOLEAN, expires : Nat, failed : BOOLEAN]]
          /\ \A k \in Kinds : held[k].expires = 0
      BY <2>1 DEF NothingHeld
    <3> QED BY <2>1, <3>2, <3>3, ServingBounds DEF CacheInv
  <2>5. ModelInv
    <3>1. CASE model = NoModel
      BY <3>1 DEF ModelInv
    <3>2. ASSUME NEW a, model \in Legacy(a) PROVE ModelInv
      <4>1. PICK m : m = model
        OBVIOUS
      <4>2. /\ IsRow(m) /\ m.status = "production" /\ m.bound \in {config, NoConfig} /\ m.by = 0 /\ m.deployed = 0
            /\ m.base \in {"supplied", "labels"}
        BY <3>2, <4>1 DEF Legacy, IsRow
      <4>4. GoodRow(m)
        BY <2>1, <4>2, SMTT(30) DEF GoodRow
      <4> QED BY <4>1, <4>2, <4>4 DEF ModelInv
    <3> QED BY <3>1, <3>2 DEF Init
  <2> QED BY <2>1, <2>3, <2>4, <2>5 DEF IInv
<1>2. IInv /\ [Next]_vars => IInv'
  <2> SUFFICES ASSUME IInv, [Next]_vars PROVE IInv'
    OBVIOUS
  <2> DEFINE ModelStep == model.status # "none" =>
                            /\ model'.status # "none" /\ model'.art = model.art /\ model'.detector = model.detector
                            /\ model'.bound = model.bound /\ model'.cols = model.cols
                            /\ model.base \in Sampleless <=> model'.base \in Sampleless
                            /\ ScoredSince(model, image) => ScoredSince(model', image)
             StoredStep == \A k \in Kinds : stored'[k] = stored[k] \/ stored'[k].since = clock
             ReqsGood == req' = [r \in Requests |-> req'[r]] /\ \A r \in Requests : GoodReq(req[r])'
  <2>1. /\ image \in Nat \ {0} /\ req = [r \in Requests |-> req[r]] /\ CacheInv /\ ModelInv /\ clock \in Nat
        /\ \A r \in Requests : GoodReq(req[r])
    BY DEF IInv, CacheInv
  \* What is known of a request outlives what the others do.
  <2>2. ASSUME NEW q, GoodReq(q), image' = image, clock' \in Nat, clock <= clock', StoredStep, ModelStep PROVE GoodReq(q)'
    <3>1. q.op = "register" => GoodRow(q.row)'
      BY <2>2 DEF GoodReq, GoodRow
    <3>2. ASSUME q.op = "deploy" PROVE Deploying(q)'
      <4>1. Deploying(q)
        BY <2>2, <3>2 DEF GoodReq
      <4>2. Matches(q.row)'
        BY <2>2, <4>1 DEF Deploying, Matches
      <4>3. q.pc = "status" => ScoredSince(model', image')
        BY <2>2, <4>1 DEF Deploying, Matches
      <4> HIDE DEF ModelStep, StoredStep
      <4> QED BY <2>2, <4>1, <4>2, <4>3 DEF Deploying
    <3>3. q.op = "drift" => Comparing(q)'
      BY <2>2 DEF GoodReq, Comparing
    <3>4. ASSUME q.op \in Scoring PROVE {"op", "pc", "row", "reads"} \subseteq DOMAIN q /\ ReadInv(q)'
      <4>1. {"op", "pc", "row", "reads"} \subseteq DOMAIN q /\ ReadInv(q)
        BY <2>2, <3>4 DEF GoodReq
      <4>2. ASSUME q.pc = "store" PROVE Fresh(q.reads)'
        <5>1. Fresh(q.reads) /\ q.reads.kind \in Kinds /\ q.reads.now \in 0..clock
          BY <4>1, <4>2 DEF ReadInv
        <5> QED BY <2>1, <2>2, <5>1 DEF Fresh
      <4> QED BY <2>1, <2>2, <4>1, <4>2 DEF ReadInv
    <3> QED BY <3>1, <3>2, <3>3, <3>4 DEF GoodReq, Scoring
  <2>3. ASSUME NEW r \in Requests, NEW q, req' = [req EXCEPT ![r] = q], GoodReq(q)',
               image' = image, clock' \in Nat, clock <= clock', StoredStep, ModelStep
        PROVE  ReqsGood
    <3>1. req' = [s \in Requests |-> req'[s]] /\ req'[r] = q /\ \A s \in Requests \ {r} : req'[s] = req[s]
      BY <2>1, <2>3
    <3>2. ASSUME NEW s \in Requests PROVE GoodReq(req[s])'
      <4>1. CASE s = r
        BY <2>3, <3>1, <4>1
      <4>2. CASE s # r
        <5>1. PICK z : z = req[s]
          OBVIOUS
        <5>2. GoodReq(z)'
          BY <2>1, <2>2, <2>3, <5>1
        <5> QED BY <3>1, <4>2, <5>1, <5>2
      <4> QED BY <4>1, <4>2
    <3> QED BY <3>1, <3>2
  <2>4. ASSUME req' = req, image' = image, clock' \in Nat, clock <= clock', StoredStep, ModelStep PROVE ReqsGood
    <3>1. ASSUME NEW s \in Requests PROVE GoodReq(req[s])'
      <4>1. PICK z : z = req[s]
        OBVIOUS
      <4>2. GoodReq(z)'
        BY <2>1, <2>2, <2>4, <4>1
      <4> QED BY <2>4, <4>1, <4>2
    <3> QED BY <2>1, <2>4, <3>1
  <2>5. ASSUME UNCHANGED <<stored, held, stale, clock>> PROVE CacheInv' /\ clock' \in Nat /\ clock <= clock' /\ StoredStep
    BY <2>1, <2>5 DEF CacheInv
  <2>6. ASSUME UNCHANGED <<config, model, image>> PROVE ModelInv' /\ ModelStep
    BY <2>1, <2>6 DEF ModelInv, GoodRow
  \* A request goes on, and nothing else of the invariant changes.
  <2>7. ASSUME NEW r \in Requests, NEW q, req' = [req EXCEPT ![r] = q], GoodReq(q),
               UNCHANGED <<config, model, image, stored, held, stale, clock>>
        PROVE  IInv'
    <3>1. ModelInv' /\ ModelStep /\ CacheInv' /\ clock' \in Nat /\ clock <= clock' /\ StoredStep
      BY <2>5, <2>6, <2>7
    <3>2. GoodReq(q)'
      BY <2>2, <2>7, <3>1
    <3>3. ReqsGood
      BY <2>3, <2>7, <3>1, <3>2, Zenon
    <3> QED BY <2>1, <2>7, <3>1, <3>3 DEF IInv
  <2>8. GoodReq(Idle) /\ Idle.op = "idle"
    BY DEF GoodReq, Idle, Scoring
  <2>9. ASSUME NEW r \in Requests, Done(r), UNCHANGED <<config, model, image, stored, held, stale, clock>> PROVE IInv'
    <3>1. PICK q : q = Idle
      OBVIOUS
    <3>2. GoodReq(q)
      BY <2>8, <3>1
    <3> QED BY <2>7, <2>9, <3>1, <3>2, Zenon DEF Done, Go
  \* Registration.
  <2>10. ASSUME NEW r \in Requests, NEW a, NEW statuses, NEW bounds, NEW samples, "none" \notin statuses,
                RegisterModel(r, a, statuses, bounds, samples)
         PROVE  IInv'
    <3>1. PICK d \in DetectorChoices(a, image), status \in statuses, bound \in bounds, cols \in samples :
             Go(r, [op |-> "register", pc |-> "insert",
                    row |-> [status |-> status, art |-> a, detector |-> d, bound |-> bound,
                             base |-> Baseline(cols, bound), cols |-> IF cols = bound THEN cols ELSE "none",
                             by |-> 0, compat |-> Evaluate(a, image), deployed |-> 0]])
      BY <2>10 DEF RegisterModel
    <3>2. PICK base, own, verdict : /\ base = Baseline(cols, bound) /\ verdict = Evaluate(a, image)
                                    /\ own = IF cols = bound THEN cols ELSE "none"
      OBVIOUS
    <3>3. /\ base = "sample" => own = bound /\ bound # NoConfig
          /\ base # "derived"
      BY <3>2 DEF Baseline, SampleAccepted
    <3>4. PICK m : m = [status |-> status, art |-> a, detector |-> d, bound |-> bound, base |-> base, cols |-> own,
                        by |-> 0, compat |-> verdict, deployed |-> 0]
      BY Zenon
    <3>5. /\ IsRow(m) /\ m.status = status /\ m.bound = bound /\ m.base = base /\ m.cols = own
          /\ m.by = 0 /\ m.deployed = 0
      BY <3>4 DEF IsRow
    <3>6. GoodRow(m)
      BY <2>1, <2>10, <3>3, <3>5 DEF GoodRow, SampleFits
    <3>7. PICK q : q = [op |-> "register", pc |-> "insert", row |-> m]
      BY Zenon
    <3>8. GoodReq(q) /\ req' = [req EXCEPT ![r] = q]
      BY <3>1, <3>2, <3>4, <3>6, <3>7, Zenon DEF GoodReq, Scoring, Go
    <3> QED BY <2>7, <2>10, <3>8, Zenon DEF RegisterModel
  <2>11. ASSUME NEW r \in Requests, Register(r) \/ Promote(r) PROVE IInv'
    <3>1. "none" \notin {"training", "production"} /\ "none" \notin {"training"}
      OBVIOUS
    <3> QED BY <2>10, <2>11, <3>1, Zenon DEF Register, Promote
  <2>12. ASSUME NEW r \in Requests, Insert(r) PROVE IInv'
    <3>1. /\ UNCHANGED <<config, image, stored, held, stale, clock>> /\ Done(r) /\ req[r].op = "register"
          /\ model' = IF model = NoModel /\ (req[r].row.bound # NoConfig => config = req[r].row.bound)
                      THEN req[r].row ELSE model
      BY <2>12 DEF Insert, At
    <3>2. CASE model' = model
      BY <2>9, <3>1, <3>2
    <3>3. CASE model = NoModel /\ model' = req[r].row /\ (req[r].row.bound # NoConfig => config = req[r].row.bound)
      <4>1. PICK m : m = req[r].row
        OBVIOUS
      <4>2. GoodRow(m)
        BY <2>1, <3>1, <4>1 DEF GoodReq
      <4>3. GoodRow(m)'
        BY <3>1, <4>2 DEF GoodRow
      <4>4. ModelInv'
        BY <3>1, <3>3, <4>1, <4>3 DEF ModelInv
      <4>5. ModelStep
        BY <3>3 DEF NoModel
      <4>6. CacheInv' /\ clock' \in Nat /\ clock <= clock' /\ StoredStep
        BY <2>5, <3>1
      <4>7. PICK q : q = Idle
        OBVIOUS
      <4>8. GoodReq(q)'
        BY <2>8, <2>2, <3>1, <4>5, <4>6, <4>7, Zenon
      <4>9. ReqsGood
        BY <2>3, <3>1, <4>5, <4>6, <4>7, <4>8, Zenon DEF Done, Go
      <4> QED BY <2>1, <3>1, <4>4, <4>6, <4>9 DEF IInv
    <3> QED BY <3>1, <3>2, <3>3
  \* The caches: a request moves between reads of them.
  <2>13. ASSUME NEW r \in Requests, req[r].op \in Scoring, req[r].pc \notin {"plan", "answered"},
                NEW v, NEW w, v \notin {"plan", "profile", "status", "answered"},
                NEW q, q = [req[r] EXCEPT !.pc = v, !.reads = w],
                v \in {"read", "store"} => w.kind \in Kinds /\ w.now \in 0..clock,
                v = "store" => w.failed \in BOOLEAN /\ w.value \in BOOLEAN /\ Fresh(w)
         PROVE  GoodReq(q)
    <3>1. PICK z : z = req[r]
      OBVIOUS
    <3>2. GoodReq(z) /\ {"op", "pc", "row", "reads"} \subseteq DOMAIN z /\ z.op \in Scoring
      BY <2>1, <2>13, <3>1 DEF GoodReq
    <3>3. /\ DOMAIN q = DOMAIN z /\ q.op = z.op /\ q.row = z.row /\ q.pc = v /\ q.reads = w
          /\ "plan" \in DOMAIN z => q.plan = z.plan
          /\ "scored" \in DOMAIN z => q.scored = z.scored
      BY <2>13, <3>1, <3>2
    <3>4. ASSUME q.op = "deploy" PROVE Deploying(q)
      <4>1. Deploying(z) /\ z.pc # "plan" /\ "plan" \in DOMAIN z
        BY <2>13, <3>1, <3>2, <3>3, <3>4, Zenon DEF GoodReq, Deploying
      <4> QED BY <2>13, <3>3, <4>1 DEF Deploying
    <3>5. ASSUME q.op = "drift" PROVE Comparing(q)
      <4>1. Comparing(z) /\ z.pc # "answered" /\ "scored" \in DOMAIN z
        BY <2>13, <3>1, <3>2, <3>3, <3>5 DEF GoodReq, Comparing
      <4> QED BY <2>13, <3>3, <4>1 DEF Comparing
    <3>6. ReadInv(q)
      BY <2>13, <3>3 DEF ReadInv
    <3> QED BY <3>2, <3>3, <3>4, <3>5, <3>6 DEF GoodReq, Scoring
  <2>14. ASSUME NEW r \in Requests, req[r].op \in Scoring, req[r].pc \notin {"plan", "answered"},
                NEW k, NEW h, NEW asked, Use(r, k, h, asked)
         PROVE  \E q : req' = [req EXCEPT ![r] = q] /\ GoodReq(q)
    <3>1. PICK v : v = IF k = "switch" /\ h.value THEN "baseline"
                       ELSE IF req[r].op = "deploy" THEN "probe" ELSE "score"
      OBVIOUS
    <3>2. PICK q, w : w = Unread /\ q = [req[r] EXCEPT !.pc = v, !.reads = w]
      BY Zenon
    <3>3. v \in {"baseline", "probe", "score"}
      BY <3>1
    <3>4. [req[r] EXCEPT !.reads = w, !.pc = v] = q
      BY <3>2, Zenon
    <3>5. req' = [req EXCEPT ![r] = q]
      BY <2>14, <3>1, <3>2, <3>4, Zenon DEF Use, Go
    <3>6. GoodReq(q)
      BY <2>13, <2>14, <3>2, <3>3, Zenon
    <3> QED BY <3>5, <3>6, Zenon
  <2>15. ASSUME NEW r \in Requests, NEW k \in Kinds, CheckCache(r, k) PROVE IInv'
    <3>1. /\ UNCHANGED <<config, model, image, stored, held, clock>>
          /\ req[r].op \in Scoring /\ req[r].pc = k /\ k \notin {"plan", "answered"}
      BY <2>15 DEF CheckCache, Kinds
    <3>2. CASE clock < held[k].expires /\ Use(r, k, held[k], clock)
      <4>1. PICK h : h = held[k]
        OBVIOUS
      <4>2. Use(r, k, h, clock)
        BY <3>2, <4>1
      <4>3. PICK q : req' = [req EXCEPT ![r] = q] /\ GoodReq(q)
        BY <2>14, <3>1, <4>2
      <4>4. /\ stored[k] \in [value : BOOLEAN, since : Nat] /\ h \in [value : BOOLEAN, expires : Nat, failed : BOOLEAN]
            /\ h.failed \/ h.value = stored[k].value \/ h.expires <= stored[k].since + TTL
            /\ stale = FALSE
        BY <2>1, <4>1 DEF CacheInv
      <4>5. ~(~h.failed /\ h.value # stored[k].value /\ stored[k].since + TTL <= clock)
        BY <2>1, <3>2, <4>1, <4>4, ServingBounds
      <4>6. stale' = stale
        BY <4>2, <4>4, <4>5, Zenon DEF Use
      <4> QED BY <2>7, <3>1, <4>3, <4>6, Zenon
    <3>3. CASE stale' = stale /\ Go(r, [req[r] EXCEPT !.pc = "read", !.reads = [kind |-> k, now |-> clock]])
      <4>1. PICK w, v : w = [kind |-> k, now |-> clock] /\ v = "read"
        BY Zenon
      <4>2. w.kind = k /\ w.now \in 0..clock /\ v \notin {"plan", "profile", "status", "answered", "store"}
        BY <2>1, <4>1
      <4>3. PICK q : q = [req[r] EXCEPT !.pc = v, !.reads = w]
        OBVIOUS
      <4>4. GoodReq(q)
        BY <2>13, <3>1, <4>2, <4>3, ZenonT(30)
      <4>5. req' = [req EXCEPT ![r] = q]
        BY <3>3, <4>1, <4>3 DEF Go
      <4> QED BY <2>7, <3>1, <3>3, <4>4, <4>5, Zenon
    <3> QED BY <2>15, <3>2, <3>3 DEF CheckCache
  <2>16. ASSUME NEW r \in Requests, ReadStored(r) PROVE IInv'
    <3>1. /\ UNCHANGED <<config, model, image, stored, held, stale, clock>>
          /\ req[r].op \in Scoring /\ req[r].pc = "read"
      BY <2>16 DEF ReadStored
    <3>2. PICK k, n : k = req[r].reads.kind /\ n = req[r].reads.now
      BY Zenon
    <3>3. k \in Kinds /\ n \in 0..clock /\ {"pc", "reads"} \subseteq DOMAIN req[r]
      BY <2>1, <3>1, <3>2, Zenon DEF GoodReq, ReadInv
    <3>4. PICK ok \in BOOLEAN :
             Go(r, [req[r] EXCEPT !.pc = "store", !.reads = [kind |-> @.kind, now |-> @.now, failed |-> ~ok,
                                                            value |-> ok => stored[@.kind].value]])
      BY <2>16, Zenon DEF ReadStored
    <3>5. PICK f, x, v : f = (~ok) /\ x = (ok => stored[k].value) /\ v = "store"
      OBVIOUS
    <3>6. stored[k].value \in BOOLEAN
      BY <2>1, <3>3 DEF CacheInv
    <3>7. f \in BOOLEAN /\ x \in BOOLEAN /\ (f \/ x = stored[k].value)
      BY <3>4, <3>5, <3>6, Zenon
    <3>8. PICK w : w = [kind |-> k, now |-> n, failed |-> f, value |-> x]
      BY Zenon
    <3>9. w.kind = k /\ w.now = n /\ w.failed = f /\ w.value = x
      BY <3>8
    <3>10. PICK q : q = [req[r] EXCEPT !.pc = v, !.reads = w]
      OBVIOUS
    <3>11. req' = [req EXCEPT ![r] = q]
      BY <3>2, <3>4, <3>5, <3>8, <3>10, Zenon DEF Go
    <3>12. Fresh(w)
      BY <3>7, <3>9 DEF Fresh
    <3>13. v = "store" /\ v \notin {"plan", "profile", "status", "answered"} /\ req[r].pc \notin {"plan", "answered"}
      BY <3>1, <3>5, SMTT(30)
    <3>14. GoodReq(q)
      BY <2>13, <3>1, <3>3, <3>7, <3>9, <3>10, <3>12, <3>13, Zenon
    <3> QED BY <2>7, <3>1, <3>11, <3>14, Zenon
  <2>17. ASSUME NEW r \in Requests, StoreRead(r) PROVE IInv'
    <3>1. /\ UNCHANGED <<config, model, image, stored, clock>>
          /\ req[r].op \in Scoring /\ req[r].pc = "store"
      BY <2>17, Zenon DEF StoreRead
    <3>2. PICK u : u = req[r].reads
      OBVIOUS
    <3>3. u.kind \in Kinds /\ u.now \in 0..clock /\ u.failed \in BOOLEAN /\ u.value \in BOOLEAN /\ Fresh(u)
      BY <2>1, <3>1, <3>2 DEF GoodReq, ReadInv
    <3>4. PICK k, h : k = u.kind /\ h = Held(u)
      OBVIOUS
    <3>5. held' = [held EXCEPT ![k] = h] /\ Use(r, k, h, u.now)
      BY <2>17, <3>2, <3>4 DEF StoreRead
    <3>6. held[k].value \in BOOLEAN /\ stored[k] \in [value : BOOLEAN, since : Nat] /\ TTL \in Nat \ {0}
      BY <2>1, <3>3, <3>4, ServingBounds DEF CacheInv
    <3>7. PICK x, y : x = (IF u.failed THEN held[k].value ELSE u.value) /\ y = u.now + TTL
      OBVIOUS
    <3>8. x \in BOOLEAN /\ y \in Nat /\ (~u.failed => x = u.value)
      BY <2>1, <3>3, <3>6, <3>7
    <3>9. h = [value |-> x, expires |-> y, failed |-> u.failed]
      BY <3>4, <3>7, Zenon DEF Held
    <3>10. /\ h \in [value : BOOLEAN, expires : Nat, failed : BOOLEAN]
           /\ h.value = x /\ h.expires = y /\ h.failed = u.failed
      BY <3>3, <3>8, <3>9
    <3>11. u.failed \/ x = stored[k].value \/ stored[k].since >= u.now
      BY <3>3, <3>4, <3>8 DEF Fresh
    <3>12. ~(~h.failed /\ h.value # stored[k].value /\ stored[k].since + TTL <= u.now)
      BY <2>1, <3>3, <3>6, <3>10, <3>11
    <3>13. stale' = stale
      BY <2>1, <3>5, <3>12, Zenon DEF Use, CacheInv
    <3>14. /\ h.failed \/ h.value = stored[k].value \/ h.expires <= stored[k].since + TTL
           /\ h.expires <= clock + TTL
      BY <2>1, <3>3, <3>6, <3>7, <3>10, <3>11
    <3>15. CacheInv'
      <4>1. /\ held' \in [Kinds -> [value : BOOLEAN, expires : Nat, failed : BOOLEAN]] /\ held'[k] = h
            /\ \A j \in Kinds \ {k} : held'[j] = held[j]
        BY <2>1, <3>3, <3>4, <3>5, <3>10 DEF CacheInv
      <4> QED BY <2>1, <3>1, <3>13, <3>14, <4>1 DEF CacheInv
    <3>16. PICK q : req' = [req EXCEPT ![r] = q] /\ GoodReq(q)
      BY <2>14, <3>1, <3>5
    <3>17. ModelInv' /\ ModelStep
      BY <2>6, <3>1
    <3>18. clock' \in Nat /\ clock <= clock' /\ StoredStep
      BY <2>1, <3>1
    <3>19. GoodReq(q)'
      BY <2>2, <3>1, <3>16, <3>17, <3>18, Zenon
    <3>20. ReqsGood
      BY <2>3, <3>1, <3>16, <3>17, <3>18, <3>19, Zenon
    <3> QED BY <2>1, <3>1, <3>15, <3>17, <3>20 DEF IInv
  <2>18. ASSUME NEW k \in Kinds, ChangeStored(k) PROVE IInv'
    <3>1. /\ UNCHANGED <<config, model, image, held, req, stale, clock>>
          /\ stored' = [stored EXCEPT ![k] = [value |-> ~stored[k].value, since |-> clock]]
      BY <2>18, Zenon DEF ChangeStored
    <3>2. PICK x, n : x = [value |-> ~stored[k].value, since |-> n] /\ n = clock
      BY Zenon
    <3>3. stored[k].value \in BOOLEAN
      BY <2>1 DEF CacheInv
    <3>4. x \in [value : BOOLEAN, since : Nat] /\ x.since = clock
      BY <2>1, <3>2, <3>3
    <3>5. /\ stored' \in [Kinds -> [value : BOOLEAN, since : Nat]] /\ stored'[k] = x
          /\ \A j \in Kinds \ {k} : stored'[j] = stored[j]
      BY <2>1, <3>1, <3>2, <3>4 DEF CacheInv
    <3>6. StoredStep /\ clock' \in Nat /\ clock <= clock' /\ ModelInv' /\ ModelStep
      BY <2>1, <2>6, <3>1, <3>4, <3>5
    <3>7. held[k].expires <= clock + TTL
      BY <2>1 DEF CacheInv
    <3>8. CacheInv'
      BY <2>1, <3>1, <3>4, <3>5, <3>7 DEF CacheInv
    <3>9. ReqsGood
      BY <2>4, <3>1, <3>6
    <3> QED BY <2>1, <3>1, <3>6, <3>8, <3>9, Zenon DEF IInv
  <2>19. CASE Tick
    <3>1. UNCHANGED <<config, model, image, stored, held, req, stale>> /\ clock' = clock + 1
      BY <2>19 DEF Tick
    <3>2. StoredStep /\ clock' \in Nat /\ clock <= clock' /\ ModelInv' /\ ModelStep
      BY <2>1, <2>6, <3>1
    <3>3. CacheInv'
      BY <2>1, <3>1, ServingBounds DEF CacheInv
    <3>4. ReqsGood
      BY <2>4, <3>1, <3>2
    <3> QED BY <2>1, <3>1, <3>2, <3>3, <3>4 DEF IInv
  \* Deployment.
  \* Another value of the row, of a model that is what it was.
  <2>21. ASSUME NEW n, model' = n, UNCHANGED <<config, image>>, GoodRow(model), model # NoModel, IsRow(n),
                n.status # "none", n.art = model.art, n.detector = model.detector, n.bound = model.bound,
                n.cols = model.cols, n.base = model.base, n.by = model.by,
                \/ n.deployed = model.deployed
                \/ /\ n.deployed = image /\ Gated(model.art, model.detector, image)
                   /\ Loads(model.art, image) /\ ScoredSince(model, image)
         PROVE  ModelInv' /\ ModelStep
    <3>1. GoodRow(n)
      BY <2>1, <2>21 DEF GoodRow, ScoredSince, SampleFits
    <3>2. GoodRow(n)'
      BY <2>21, <3>1, Zenon DEF GoodRow
    <3>3. model.bound # NoConfig => config = model.bound
      BY <2>1, <2>21 DEF ModelInv
    <3>4. ModelInv'
      BY <2>21, <3>2, <3>3 DEF ModelInv
    <3>5. ModelStep
      BY <2>21, Zenon DEF ScoredSince
    <3> QED BY <3>4, <3>5
  <2>22. ASSUME NEW r \in Requests, Deploy(r) PROVE IInv'
    <3>1. /\ UNCHANGED <<config, image, stored, held, stale, clock>> /\ model # NoModel
          /\ Gates(model.art, image) /\ DetectorLoaded(model.detector, image) /\ model' = StampCompatibility
          /\ Go(r, [op |-> "deploy", pc |-> "plan", row |-> Seen, plan |-> "none", base |-> "none", reads |-> Unread])
      BY <2>22 DEF Deploy
    <3>2. GoodRow(model)
      BY <2>1, <3>1 DEF ModelInv
    <3>3. PICK m, n, x : m = model /\ x = Evaluate(model.art, image) /\ n = [m EXCEPT !.compat = x]
      BY Zenon
    <3>4. model' = n
      BY <3>1, <3>3 DEF StampCompatibility
    <3>5. /\ IsRow(n) /\ n.art = m.art /\ n.detector = m.detector /\ n.bound = m.bound /\ n.cols = m.cols
          /\ n.base = m.base /\ n.by = m.by /\ n.status = m.status /\ n.deployed = m.deployed
      BY <3>2, <3>3 DEF GoodRow, IsRow
    <3>6. ModelInv' /\ ModelStep
      BY <2>21, <3>1, <3>2, <3>3, <3>4, <3>5, ZenonT(30) DEF GoodRow
    <3>7. CacheInv' /\ clock' \in Nat /\ clock <= clock' /\ StoredStep
      BY <2>5, <3>1, Zenon
    <3>8. PICK s : s = Seen
      OBVIOUS
    <3>9. s.art = m.art /\ s.detector = m.detector /\ s.base = m.base /\ s.bound = m.bound /\ s.cols = m.cols
      BY <3>3, <3>8 DEF Seen
    <3>10. PICK q : q = [op |-> "deploy", pc |-> "plan", row |-> s, plan |-> "none", base |-> "none", reads |-> Unread]
      BY Zenon
    <3>11. /\ {"op", "pc", "row", "plan", "base", "reads"} \subseteq DOMAIN q
           /\ q.op = "deploy" /\ q.pc = "plan" /\ q.row = s /\ q.plan = "none"
      BY <3>10
    <3>12. Matches(s)
      BY <3>2, <3>3, <3>9 DEF Matches, GoodRow
    <3>13. Deploying(q)
      BY <3>1, <3>3, <3>9, <3>11, <3>12 DEF Deploying, Gated, Gates
    <3>14. GoodReq(q)
      BY <3>11, <3>13 DEF GoodReq, ReadInv
    <3>15. req' = [req EXCEPT ![r] = q]
      BY <3>1, <3>8, <3>10 DEF Go
    <3>16. GoodReq(q)'
      BY <2>2, <3>1, <3>6, <3>7, <3>14, Zenon
    <3>17. ReqsGood
      BY <2>3, <3>1, <3>6, <3>7, <3>15, <3>16, Zenon
    <3> QED BY <2>1, <3>1, <3>6, <3>7, <3>17, Zenon DEF IInv
  <2>23. ASSUME NEW r \in Requests, Plan(r) PROVE IInv'
    <3>1. /\ UNCHANGED <<config, model, image, stored, held, stale, clock>>
          /\ req[r].op = "deploy" /\ req[r].pc = "plan"
      BY <2>23 DEF Plan, At
    <3>2. PICK z : z = req[r]
      OBVIOUS
    <3>3. Deploying(z) /\ z.op = "deploy" /\ z.pc = "plan"
      BY <2>1, <3>1, <3>2 DEF GoodReq
    <3>4. ASSUME NEW q, DOMAIN q = DOMAIN z, q.op = "deploy", q.row = z.row, q.pc \in {"probe", "switch"},
                 q.plan = "none" <=> z.row.base \in Sampleless, q.plan \in {"none", "reason", "rows"},
                 q.plan = "rows" => SampleFits(z.row)
          PROVE  GoodReq(q)
      <4>1. Deploying(q)
        BY <3>3, <3>4, Zenon DEF Deploying
      <4> QED BY <3>4, <4>1, Zenon DEF GoodReq, ReadInv, Deploying
    <3>5. /\ {"op", "pc", "row", "plan", "base", "reads"} \subseteq DOMAIN z /\ z.plan = "none"
      BY <3>3 DEF Deploying
    <3>6. PICK q : /\ req' = [req EXCEPT ![r] = q]
                   /\ \/ z.row.base \in Sampleless /\ q = [z EXCEPT !.pc = "probe"]
                      \/ z.row.base \notin Sampleless /\ q = [z EXCEPT !.pc = "probe", !.plan = "reason"]
                      \/ /\ z.row.base \notin Sampleless /\ q = [z EXCEPT !.pc = "switch", !.plan = "rows"]
                         /\ z.row.bound # NoConfig /\ z.row.cols = config
      BY <2>23, <3>2, Zenon DEF Plan, Go, Sampleless
    <3>7. /\ DOMAIN q = DOMAIN z /\ q.op = "deploy" /\ q.row = z.row /\ q.pc \in {"probe", "switch"}
          /\ q.plan = "none" <=> z.row.base \in Sampleless
          /\ q.plan \in {"none", "reason", "rows"}
          /\ q.plan = "rows" => z.row.bound # NoConfig /\ z.row.cols = config
      BY <3>3, <3>5, <3>6, Zenon
    <3>8. z.row.bound # NoConfig => config = z.row.bound
      BY <2>1, <3>3 DEF Deploying, Matches, ModelInv, NoModel
    <3>9. q.plan = "rows" => SampleFits(z.row)
      BY <3>7, <3>8, Zenon DEF SampleFits
    <3> QED BY <2>7, <3>1, <3>4, <3>6, <3>7, <3>9, Zenon
  <2>24. ASSUME NEW r \in Requests, Probe(r) PROVE IInv'
    <3>1. UNCHANGED <<config, model, image, stored, held, stale, clock>> /\ req[r].op = "deploy" /\ req[r].pc = "probe"
      BY <2>24, Zenon DEF Probe, At
    <3>2. PICK z, a : z = req[r] /\ a = req[r].row.art
      OBVIOUS
    <3>3. Deploying(z) /\ z.op = "deploy" /\ z.pc = "probe" /\ a = z.row.art
      BY <2>1, <3>1, <3>2 DEF GoodReq
    <3>4. CASE Done(r)
      BY <2>9, <3>1, <3>4
    <3>5. ASSUME Uploaded(a) => ProbeShows(a, image),
                 NEW b \in Finish(z.plan, z.row), Go(r, [z EXCEPT !.pc = "profile", !.base = b])
          PROVE  IInv'
      <4>1. PICK q : q = [z EXCEPT !.pc = "profile", !.base = b]
        OBVIOUS
      <4>2. /\ DOMAIN q = DOMAIN z /\ q.op = "deploy" /\ q.row = z.row /\ q.pc = "profile" /\ q.plan = z.plan /\ q.base = b
            /\ {"op", "pc", "row", "plan", "base", "reads"} \subseteq DOMAIN z
        BY <3>3, <4>1 DEF Deploying
      <4>3. Loads(a, image)
        BY <3>5 DEF ProbeShows, ProbeStage, LoadPyfunc, TrustedTypesFor, Loads
      <4>4. /\ z.plan = "none" <=> z.row.base \in Sampleless
            /\ z.plan \in {"none", "reason", "rows"}
            /\ z.plan = "rows" => SampleFits(z.row)
        BY <3>3, Zenon DEF Deploying
      <4>5. /\ b \in {"none", "unscored", "derived"}
            /\ b = "none" <=> z.plan = "none"
            /\ b = "derived" => Reads(z.row.detector, z.row.art) /\ z.plan = "rows"
        BY <3>5, <4>4 DEF Finish, ScoreRows
      <4>6. Deploying(q)
        BY <3>3, <4>2, <4>3, <4>4, <4>5, Zenon DEF Deploying
      <4>7. GoodReq(q)
        BY <4>2, <4>6, Zenon DEF GoodReq, ReadInv
      <4> QED BY <2>7, <3>1, <3>5, <4>1, <4>7, Zenon DEF Go
    <3>6. \/ Done(r)
          \/ /\ IF ~Uploaded(a) /\ z.plan = "rows" THEN CanLoad(a) ELSE Uploaded(a) => ProbeShows(a, image)
             /\ \E b \in Finish(z.plan, z.row) : Go(r, [z EXCEPT !.pc = "profile", !.base = b])
      BY <2>24, <3>2, Zenon DEF Probe
    <3>7. \/ Done(r)
          \/ /\ Uploaded(a) => ProbeShows(a, image)
             /\ \E b \in Finish(z.plan, z.row) : Go(r, [z EXCEPT !.pc = "profile", !.base = b])
      BY <3>6, Zenon
    <3> QED BY <3>4, <3>5, <3>7, Zenon
  <2>25. ASSUME NEW r \in Requests, WriteProfile(r) PROVE IInv'
    <3>1. /\ UNCHANGED <<config, image, stored, held, stale, clock>> /\ req[r].op = "deploy" /\ req[r].pc = "profile"
          /\ Step(r, "status")
          /\ model' = IF req[r].base = "none" THEN model ELSE ProfileWith(req[r].base)
      BY <2>25, Zenon DEF WriteProfile, At
    <3>2. PICK z, m : z = req[r] /\ m = model
      OBVIOUS
    <3>3. Deploying(z) /\ z.op = "deploy" /\ z.pc = "profile"
      BY <2>1, <3>1, <3>2 DEF GoodReq
    <3>4. Matches(z.row) /\ model.status # "none" /\ model # NoModel /\ GoodRow(m)
      BY <2>1, <3>2, <3>3 DEF Deploying, Matches, ModelInv, NoModel
    <3>5. ModelInv' /\ ModelStep /\ ScoredSince(model', image)
      <4>1. CASE z.base = "none"
        <5>1. model' = model
          BY <3>1, <3>2, <4>1
        <5>2. model.base \in Sampleless
          BY <3>3, <3>4, <4>1, Zenon DEF Deploying, Matches
        <5>3. ScoredSince(model, image)
          BY <5>2 DEF ScoredSince, Sampleless
        <5> QED BY <2>6, <3>1, <5>1, <5>3, Zenon
      <4>2. CASE z.base # "none"
        <5>1. PICK b, y : b = z.base /\ y = IF b = "derived" THEN image ELSE 0
          OBVIOUS
        <5>2. PICK n : n = [m EXCEPT !.base = b, !.by = y]
          OBVIOUS
        <5>3. model' = n
          BY <3>1, <3>2, <4>2, <5>1, <5>2 DEF ProfileWith
        <5>4. /\ IsRow(n) /\ n.art = m.art /\ n.detector = m.detector /\ n.bound = m.bound /\ n.cols = m.cols
              /\ n.base = b /\ n.by = y /\ n.status = m.status /\ n.deployed = m.deployed
          BY <3>4, <5>2, Zenon DEF GoodRow, IsRow
        <5>5. /\ b \in {"unscored", "derived"} /\ m.base \notin Sampleless
              /\ b = "derived" => Reads(m.detector, m.art) /\ SampleFits(m)
          BY <3>2, <3>3, <3>4, <4>2, <5>1, Zenon DEF Deploying, Matches, SampleFits
        <5>6. ScoredSince(n, image) /\ b \notin Sampleless /\ y \in 0..image
          BY <2>1, <5>1, <5>4, <5>5 DEF ScoredSince, Sampleless
        <5>7. n.deployed # 0 => ScoredSince(n, n.deployed)
          BY <2>1, <3>4, <5>1, <5>4, <5>5 DEF ScoredSince, GoodRow
        <5>8. GoodRow(n)
          BY <3>2, <3>4, <5>4, <5>5, <5>6, <5>7, Zenon DEF GoodRow, SampleFits
        <5>9. GoodRow(n)'
          BY <3>1, <5>8, Zenon DEF GoodRow
        <5>10. model.bound # NoConfig => config = model.bound
          BY <2>1, <3>4 DEF ModelInv
        <5>11. ModelInv'
          BY <3>1, <3>2, <5>3, <5>4, <5>9, <5>10, Zenon DEF ModelInv
        <5>12. ModelStep
          BY <3>2, <3>4, <5>3, <5>4, <5>5, <5>6, Zenon
        <5> QED BY <5>3, <5>6, <5>11, <5>12, Zenon
      <4> QED BY <4>1, <4>2
    <3>6. CacheInv' /\ clock' \in Nat /\ clock <= clock' /\ StoredStep
      BY <2>5, <3>1, Zenon
    <3>7. PICK q : q = [z EXCEPT !.pc = "status"]
      BY Zenon
    <3>8. /\ req' = [req EXCEPT ![r] = q] /\ DOMAIN q = DOMAIN z /\ q.op = "deploy" /\ q.row = z.row /\ q.pc = "status"
          /\ q.plan = z.plan /\ {"op", "pc", "row", "plan", "base", "reads"} \subseteq DOMAIN z
      BY <3>1, <3>2, <3>3, <3>7 DEF Step, Go, Deploying
    <3>9. Matches(z.row)'
      BY <3>4, <3>5 DEF Matches
    <3>10. Deploying(q)'
      BY <3>1, <3>3, <3>5, <3>8, <3>9, Zenon DEF Deploying
    <3>11. GoodReq(q)'
      BY <3>8, <3>10, Zenon DEF GoodReq, ReadInv
    <3>12. ReqsGood
      BY <2>3, <3>1, <3>5, <3>6, <3>8, <3>11, Zenon
    <3> QED BY <2>1, <3>1, <3>5, <3>6, <3>12, Zenon DEF IInv
  <2>26. ASSUME NEW r \in Requests, WriteStatus(r) PROVE IInv'
    <3>1. /\ UNCHANGED <<config, image, stored, held, stale, clock>> /\ req[r].op = "deploy" /\ req[r].pc = "status"
          /\ Done(r) /\ model' = [model EXCEPT !.status = "production", !.deployed = image]
      BY <2>26 DEF WriteStatus, At
    <3>2. PICK z, m, i : z = req[r] /\ m = model /\ i = image
      OBVIOUS
    <3>3. Deploying(z) /\ z.pc = "status"
      BY <2>1, <3>1, <3>2 DEF GoodReq
    <3>4. Matches(z.row) /\ model.status # "none" /\ model # NoModel /\ GoodRow(model)
      BY <2>1, <3>3 DEF Deploying, Matches, ModelInv, NoModel
    <3>5. PICK n : n = [m EXCEPT !.status = "production", !.deployed = i]
      OBVIOUS
    <3>6. /\ IsRow(n) /\ n.art = m.art /\ n.detector = m.detector /\ n.bound = m.bound /\ n.cols = m.cols
          /\ n.base = m.base /\ n.by = m.by /\ n.status = "production" /\ n.deployed = i
      BY <3>2, <3>4, <3>5, Zenon DEF GoodRow, IsRow
    <3>7. Gated(model.art, model.detector, image) /\ Loads(model.art, image) /\ ScoredSince(model, image)
      BY <3>3, <3>4, Zenon DEF Deploying, Matches
    <3>8. ModelInv' /\ ModelStep
      BY <2>21, <3>1, <3>2, <3>4, <3>5, <3>6, <3>7, ZenonT(30)
    <3>9. CacheInv' /\ clock' \in Nat /\ clock <= clock' /\ StoredStep
      BY <2>5, <3>1
    <3>10. PICK q : q = Idle
      OBVIOUS
    <3>11. GoodReq(q)'
      BY <2>2, <2>8, <3>1, <3>8, <3>9, <3>10
    <3>12. ReqsGood
      BY <2>3, <3>1, <3>8, <3>9, <3>10, <3>11, Zenon DEF Done, Go
    <3> QED BY <2>1, <3>1, <3>8, <3>9, <3>12 DEF IInv
  <2>27. CASE Retire
    <3>1. /\ UNCHANGED <<config, image, stored, held, req, stale, clock>> /\ model # NoModel
          /\ model' = [model EXCEPT !.status = "deprecated"]
      BY <2>27 DEF Retire
    <3>2. GoodRow(model)
      BY <2>1, <3>1 DEF ModelInv
    <3>3. PICK m, n, x : m = model /\ x = "deprecated" /\ n = [m EXCEPT !.status = x]
      BY Zenon
    <3>4. /\ IsRow(n) /\ n.art = m.art /\ n.detector = m.detector /\ n.bound = m.bound /\ n.cols = m.cols
          /\ n.base = m.base /\ n.by = m.by /\ n.status = x /\ n.deployed = m.deployed
      BY <3>2, <3>3 DEF GoodRow, IsRow
    <3>5. model' = n /\ x # "none"
      BY <3>1, <3>3
    <3>6. ModelInv' /\ ModelStep
      BY <2>21, <3>1, <3>2, <3>3, <3>4, <3>5, ZenonT(30)
    <3>7. CacheInv' /\ clock' \in Nat /\ clock <= clock' /\ StoredStep
      BY <2>5, <3>1
    <3>8. ReqsGood
      BY <2>4, <3>1, <3>6, <3>7
    <3> QED BY <2>1, <3>1, <3>6, <3>7, <3>8 DEF IInv
  \* Scoring and drift.
  <2>28. ASSUME NEW r \in Requests, Predict(r) PROVE IInv'
    <3>1. PICK s : s = Seen
      OBVIOUS
    <3>2. PICK q : q = [op |-> "predict", pc |-> "load", row |-> s, reads |-> Unread]
      BY Zenon
    <3>3. q.op = "predict" /\ q.pc = "load" /\ {"op", "pc", "row", "reads"} \subseteq DOMAIN q
      BY <3>2, Zenon
    <3>4. GoodReq(q)
      BY <3>3, Zenon DEF GoodReq, ReadInv
    <3>5. req' = [req EXCEPT ![r] = q]
      BY <2>28, <3>1, <3>2, Zenon DEF Predict, Go
    <3> QED BY <2>7, <2>28, <3>4, <3>5, Zenon DEF Predict
  <2>29. ASSUME NEW r \in Requests, EvaluateDrift(r) PROVE IInv'
    <3>1. PICK s, y : s = Seen /\ y = model.by
      OBVIOUS
    <3>2. s.base = model.base
      BY <3>1 DEF Seen
    <3>3. PICK data, p : /\ p = "load" => HoldsScores(model.base)
                         /\ p \in {"load", "answered"}
                         /\ Go(r, [op |-> "drift", pc |-> p, row |-> s, by |-> y,
                                   data |-> data, scored |-> FALSE, reads |-> Unread])
      BY <2>29, <3>1, Zenon DEF EvaluateDrift
    <3>4. PICK q : q = [op |-> "drift", pc |-> p, row |-> s, by |-> y, data |-> data, scored |-> FALSE, reads |-> Unread]
      BY Zenon
    <3>5. /\ q.op = "drift" /\ q.pc = p /\ q.row = s /\ q.scored = FALSE
          /\ {"op", "pc", "row", "scored", "reads"} \subseteq DOMAIN q
      BY <3>4, Zenon
    <3>6. Comparing(q)
      BY <3>2, <3>3, <3>5, Zenon DEF Comparing
    <3>7. GoodReq(q)
      BY <3>3, <3>5, <3>6, Zenon DEF GoodReq, ReadInv
    <3>8. req' = [req EXCEPT ![r] = q]
      BY <3>3, <3>4, Zenon DEF Go
    <3> QED BY <2>7, <2>29, <3>7, <3>8, Zenon DEF EvaluateDrift
  <2>30. ASSUME NEW r \in Requests, LoadModel(r) PROVE IInv'
    <3>1. /\ UNCHANGED <<config, model, image, stored, held, stale, clock>>
          /\ req[r].op \in {"predict", "drift"} /\ req[r].pc = "load"
      BY <2>30, Zenon DEF LoadModel
    <3>2. PICK z : z = req[r]
      OBVIOUS
    <3>3. GoodReq(z) /\ z.op \in {"predict", "drift"} /\ z.pc = "load" /\ {"op", "pc", "row", "reads"} \subseteq DOMAIN z
      BY <2>1, <3>1, <3>2, Zenon DEF GoodReq, Scoring
    <3>4. CASE Done(r)
      BY <2>9, <3>1, <3>4, Zenon
    <3>5. ASSUME NEW p \in {"switch", "answered"}, Step(r, p), p = "answered" => z.op = "drift" PROVE IInv'
      <4>1. PICK q : q = [z EXCEPT !.pc = p]
        BY Zenon
      <4>2. /\ DOMAIN q = DOMAIN z /\ q.op = z.op /\ q.row = z.row /\ q.pc = p
            /\ "scored" \in DOMAIN z => q.scored = z.scored
        BY <3>3, <4>1
      <4>3. q.op = "drift" => Comparing(q)
        BY <3>3, <4>2, Zenon DEF GoodReq, Comparing
      <4>4. GoodReq(q)
        BY <3>3, <3>5, <4>2, <4>3, Zenon DEF GoodReq, ReadInv
      <4>5. req' = [req EXCEPT ![r] = q]
        BY <3>2, <3>5, <4>1 DEF Step, Go
      <4> QED BY <2>7, <3>1, <4>4, <4>5, Zenon
    <3>6. Done(r) \/ Step(r, "switch") \/ (z.op = "drift" /\ Step(r, "answered"))
      BY <2>30, <3>2, <3>3, Zenon DEF LoadModel
    <3> QED BY <3>4, <3>5, <3>6
  <2>31. ASSUME NEW r \in Requests, CompareScores(r) PROVE IInv'
    <3>1. /\ UNCHANGED <<config, model, image, stored, held, stale, clock>>
          /\ req[r].op = "drift" /\ req[r].pc = "score"
      BY <2>31 DEF CompareScores, At
    <3>2. PICK z, b : z = req[r] /\ b = Reads(z.row.detector, z.row.art)
      OBVIOUS
    <3>3. Comparing(z) /\ z.op = "drift" /\ z.pc = "score" /\ {"op", "pc", "row", "scored", "reads"} \subseteq DOMAIN z
      BY <2>1, <3>1, <3>2, Zenon DEF GoodReq, Comparing
    <3>4. PICK q : q = [z EXCEPT !.pc = "answered", !.scored = b]
      OBVIOUS
    <3>5. DOMAIN q = DOMAIN z /\ q.op = "drift" /\ q.row = z.row /\ q.pc = "answered" /\ q.scored = b
      BY <3>3, <3>4
    <3>6. Comparing(q)
      BY <3>2, <3>3, <3>5, Zenon DEF Comparing
    <3>7. GoodReq(q)
      BY <3>3, <3>5, <3>6, Zenon DEF GoodReq, ReadInv
    <3>8. req' = [req EXCEPT ![r] = q]
      BY <2>31, <3>2, <3>4 DEF CompareScores, Go
    <3> QED BY <2>7, <3>1, <3>7, <3>8, Zenon
  <2>32. ASSUME NEW r \in Requests, Answer(r) \/ RequestFails(r) PROVE IInv'
    BY <2>9, <2>32 DEF Answer, RequestFails
  \* The configuration, an image, and nothing.
  <2>33. CASE UpdateConfig \/ DeleteConfig
    <3>1. UNCHANGED <<model, image, stored, held, req, stale, clock>> /\ ~Bound
      BY <2>33 DEF UpdateConfig, DeleteConfig
    <3>2. ModelInv'
      BY <2>1, <3>1, Zenon DEF ModelInv, GoodRow, Bound
    <3>3. ModelStep /\ CacheInv' /\ clock' \in Nat /\ clock <= clock' /\ StoredStep
      BY <2>5, <3>1, Zenon
    <3>4. ReqsGood
      BY <2>4, <3>1, <3>3
    <3> QED BY <2>1, <3>1, <3>2, <3>3, <3>4, Zenon DEF IInv
  <2>34. CASE Rebuild
    <3>1. /\ UNCHANGED <<config, model, stored, stale, clock>> /\ image' = image + 1
          /\ held' = NothingHeld /\ req' = [r \in Requests |-> Idle]
      BY <2>34 DEF Rebuild
    <3>2. image' \in Nat \ {0} /\ image <= image'
      BY <2>1, <3>1
    <3>3. ModelInv'
      BY <2>1, <3>1, <3>2 DEF ModelInv, GoodRow
    <3>4. /\ held' \in [Kinds -> [value : BOOLEAN, expires : Nat, failed : BOOLEAN]]
          /\ \A k \in Kinds : held'[k].expires = 0
      BY <3>1 DEF NothingHeld
    <3>5. CacheInv'
      BY <2>1, <3>1, <3>4, ServingBounds DEF CacheInv
    <3>6. \A r \in Requests : req'[r].op = "idle"
      BY <2>8, <3>1
    <3>7. req' = [r \in Requests |-> req'[r]] /\ \A r \in Requests : GoodReq(req[r])'
      BY <3>1, <3>6 DEF GoodReq, Scoring
    <3> QED BY <3>2, <3>3, <3>5, <3>7 DEF IInv
  <2>35. CASE UNCHANGED vars
    <3>1. UNCHANGED <<config, model, image, stored, held, req, stale, clock>>
      BY <2>35 DEF vars
    <3>2. ModelInv' /\ ModelStep /\ CacheInv' /\ clock' \in Nat /\ clock <= clock' /\ StoredStep
      BY <2>5, <2>6, <3>1, Zenon
    <3>3. ReqsGood
      BY <2>4, <3>1, <3>2, Zenon
    <3> QED BY <2>1, <3>1, <3>2, <3>3, Zenon DEF IInv
  <2> QED BY <2>11, <2>12, <2>15, <2>16, <2>17, <2>18, <2>19, <2>22, <2>23, <2>24, <2>25, <2>26, <2>27, <2>28, <2>29,
             <2>30, <2>31, <2>32, <2>33, <2>34, <2>35 DEF Next
<1> QED BY <1>1, <1>2, PTL DEF Spec

\* A bound configuration keeps its inputs, and a sample that was accepted or scored has them for columns
\* (create_model's lock, the trigger on feature_engineering_configs, baseline_gate.plan), for any edits,
\* registrations and earlier models: a row is inserted only against the inputs it was judged with, from
\* then on the configuration is bound, and a deployment scores no sample that does not fit it.
THEOREM BoundForGood == Spec => []BoundInputsFixed
<1>1. IInv => BoundInputsFixed
  BY DEF IInv, ModelInv, GoodRow, SampleFits, BoundInputsFixed
<1> QED BY <1>1, Invariance, PTL

\* What is deployed was shown to load by the image that deployed it (deploy_model): a request that passed
\* the gates ends with the image it passed them in, so the image named in the row is the one that judged.
THEOREM DeployedLoads == Spec => []DeployedWasShownToLoad
<1>1. IInv => DeployedWasShownToLoad
  BY Zenon DEF IInv, ModelInv, GoodRow, Gated, Loads, DeployedWasShownToLoad
<1> QED BY <1>1, Invariance, PTL

\* No scores older than the deployment remain, and drift compares scores only with scores (baseline_gate,
\* _current_predictions), however deployments of one model overlap: each leaves the profile scored in
\* the running image before it writes its status.
THEOREM ScoresAreCurrent == Spec => []ScoresOfTheDeployment
<1>1. IInv => ScoresOfTheDeployment
  <2> SUFFICES ASSUME IInv PROVE ScoresOfTheDeployment
    OBVIOUS
  <2>1. ASSUME model # NoModel, model.deployed # 0
        PROVE  /\ model.base \notin {"sample", "supplied", "labels"}
               /\ model.base = "derived" => model.by >= model.deployed /\ Reads(model.detector, model.art)
    BY <2>1, Zenon DEF IInv, ModelInv, GoodRow, ScoredSince
  <2>2. ASSUME NEW r \in Requests, At(r, "drift", "answered"), req[r].scored
        PROVE  HoldsScores(req[r].row.base) /\ Reads(req[r].row.detector, req[r].row.art)
    BY <2>2, Zenon DEF IInv, GoodReq, Comparing, At
  <2> QED BY <2>1, <2>2, Zenon DEF ScoresOfTheDeployment
<1> QED BY <1>1, Invariance, PTL

\* A switch value or a baseline is used only while fresh (enabled, compute_baseline), for any time to live
\* and any overlap of reads: a value's life is counted from before it was read.
THEOREM CachedIsFresh == Spec => []UsedIsFresh
<1>1. IInv => UsedIsFresh
  BY DEF IInv, CacheInv, UsedIsFresh
<1> QED BY <1>1, Invariance, PTL
=============================================================================
