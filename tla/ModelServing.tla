---------------------------- MODULE ModelServing ----------------------------
(***************************************************************************)
(* The model registry and the serving path of the ML service, for one      *)
(* model name and one feature configuration of a tenant: registration,     *)
(* deployment, retirement, scoring and drift, and what they read through    *)
(* short caches.                                                           *)
(*                                                                         *)
(* A request is a coroutine: one action per stretch between two awaits     *)
(* that touch shared state.  A rebuild of the serving image ends the       *)
(* process: requests in flight and caches are lost.                        *)
(***************************************************************************)
EXTENDS Naturals, Sequences, FiniteSets

CONSTANTS Requests,  \* requests in flight at once
          Inputs,    \* what a feature configuration may compute from
          Images,    \* the serving images in the order they are rolled out: versions and detectors
          Artifacts, \* the artifacts that may be named: a function to records
          MinRows,   \* MIN_ROWS of a drift comparison
          TTL,       \* STATEFUL_SWITCH_CACHE_TTL and BASELINE_CACHE_TTL
          Horizon,   \* bound on the clock
          MaxEvents  \* bound on requests, edits, flips and rebuilds

NoConfig == "no configuration"

ASSUME ServingBounds == TTL \in Nat \ {0} /\ Horizon \in Nat /\ MaxEvents \in Nat /\ NoConfig \notin Inputs

NoModel == [status |-> "none"]
Idle == [op |-> "idle"]
Kinds == {"switch", "baseline"}
Unread == [kind |-> "none"]

VARIABLES config,  \* the inputs of the feature configuration, or NoConfig
          model,   \* the row of ml_models, or NoModel
          image,   \* the serving image in use
          cached,  \* model_cache holds the loaded model
          stored,  \* stored[k]: the value in the database and when it last changed
          held,    \* held[k]: the process's cached value
          req,     \* the requests
          stale,   \* (history) a request used a value the database had not held within TTL
          clock,
          left     \* events left

vars == <<config, model, image, cached, stored, held, req, stale, clock, left>>

\* provenance_of: read off how the model arrived, never asked.
Uploaded(a) == ~Artifacts[a].run

\* The one address an upload may have: what the gateway admitted, under the tenant's own prefix.
AdmittedUpload(a) == Artifacts[a].upload = "admitted" /\ Artifacts[a].owned

\* A model is addressed by a run of the tenant's experiments or by an admitted upload, never both.
Admissible(a) ==
    IF Artifacts[a].run THEN Artifacts[a].upload = "none" /\ Artifacts[a].owned ELSE AdmittedUpload(a)

NothingHeld == [k \in Kinds |-> [value |-> TRUE, expires |-> 0, failed |-> FALSE]]

\* A tenant may have a model from before scores were derived and bindings were fixed: what its author
\* supplied as scores, a baseline never held to its configuration's inputs, and a binding that a
\* deletion of the configuration may have taken away.
Legacy(a) == [status : {"production"}, art : {a}, detector : {"sklearn"}, bound : {config, NoConfig}, cols : Inputs,
              base : {"supplied", "labels"}, by : {0}, compat : {"unknown"}, deployed : {0}]

Init ==
    /\ config \in Inputs
    /\ model \in {NoModel} \cup UNION {Legacy(a) : a \in {b \in DOMAIN Artifacts : Admissible(b) /\ ~Uploaded(b)}}
    /\ image = 1 /\ cached = FALSE
    /\ stored = [k \in Kinds |-> [value |-> TRUE, since |-> 0]]
    /\ held = NothingHeld
    /\ req = [r \in Requests |-> Idle] /\ stale = FALSE
    /\ clock = 1 /\ left \in 0..MaxEvents

Event == left > 0 /\ left' = left - 1
Go(r, next) == req' = [req EXCEPT ![r] = next]
At(r, op, pc) == req[r].op = op /\ req[r].pc = pc
Step(r, pc) == Go(r, [req[r] EXCEPT !.pc = pc])
Done(r) == Go(r, Idle)
Seen == [f \in {"art", "detector", "bound", "cols", "base"} |-> model[f]]

-----------------------------------------------------------------------------
(* The gates: what an image makes of an artifact.                          *)

Older(v, w) == \E n \in 1..Len(w) : v[n] < w[n] /\ \A m \in 1..(n - 1) : v[m] = w[m]

\* SERIALIZATION_CRITICAL: what the serving version may be, given the declared one.
Honours(package, declared, have) ==
    CASE package = "numpy" -> have[1] = declared[1]
      [] package = "scikit-learn" -> SubSeq(have, 1, 2) = SubSeq(declared, 1, 2)
      [] package \in {"skops", "xgboost"} -> have[1] = declared[1] /\ ~Older(have, declared)

Critical == {"numpy", "scikit-learn", "skops", "xgboost"}

\* FLAVOR_LIBRARY: the framework a loader cannot do without.
FlavorLibrary == [f \in {"mlflow.sklearn", "mlflow.xgboost", "mlflow.pytorch"} |->
    CASE f = "mlflow.sklearn" -> "scikit-learn" [] f = "mlflow.xgboost" -> "xgboost" [] OTHER -> "torch"]

\* Decided by name: a loader the gate knows, or one a loaded detector claims to score; and its framework
\* is installed.
SupportedFlavor(f, i) ==
    IF f \in DOMAIN FlavorLibrary THEN FlavorLibrary[f] \in DOMAIN Images[i].versions
    ELSE \E d \in DOMAIN Images[i].detectors : f \in Images[i].detectors[d].flavors

\* A declared package outside the contract is not judged, and one that is not installed counts only
\* when the contract or the flavor names it.
Evaluate(a, i) ==
    LET declared == Artifacts[a].declared
        have == Images[i].versions
        judged == DOMAIN declared \cap Critical
    IN IF \/ ~SupportedFlavor(Artifacts[a].flavor, i)
          \/ \E p \in judged : p \notin DOMAIN have \/ ~Honours(p, declared[p], have[p])
       THEN "incompatible"
       ELSE IF \E p \in judged : have[p] # declared[p] THEN "patch_drift" ELSE "compatible"

\* detectors_for: the detectors that implement a declared meaning for a flavor.
DetectorsFor(semantics, flavor, i) ==
    {d \in DOMAIN Images[i].detectors :
        flavor \in Images[i].detectors[d].flavors /\ Images[i].detectors[d].semantics = semantics}

\* _kernel_detector_or_refuse: the named detector, sklearn when none is; one that claims flavors must
\* claim this one.
KernelDetector(a, i) ==
    LET named == IF Artifacts[a].detector = "none" THEN "sklearn" ELSE Artifacts[a].detector
    IN {d \in DOMAIN Images[i].detectors \cap {named} :
           Images[i].detectors[d].flavors # {} => Artifacts[a].flavor \in Images[i].detectors[d].flavors}

\* judge_semantics: an upload's is one of those that implement what it declares.
DetectorChoices(a, i) ==
    LET matches == DetectorsFor(Artifacts[a].semantics, Artifacts[a].flavor, i)
    IN IF ~Uploaded(a) THEN KernelDetector(a, i)
       ELSE IF Artifacts[a].detector = "none" THEN matches ELSE matches \cap {Artifacts[a].detector}

\* get_detector: the recorded detector is still loaded.
DetectorLoaded(d, i) == d \in DOMAIN Images[i].detectors

-----------------------------------------------------------------------------
(* Loading: the trust decided by the service, never by the artifact.       *)

PlatformLoaders == {"mlflow.sklearn", "mlflow.xgboost"}
XgboostModelClasses == {"Booster", "XGBClassifier"}
PredictFns == {"predict", "predict_proba"}
KernelTrustedTypes == {"tree"}

\* refuse_author_code, on the manifest alone.
RefusesAuthorCode(a) ==
    LET m == Artifacts[a]
    IN \/ m.code \/ m.flavor \notin PlatformLoaders
       \/ m.flavor = "mlflow.sklearn" /\ m.format # "skops"
       \/ m.flavor = "mlflow.xgboost" /\ m.class \notin XgboostModelClasses

\* trusted_types_for: skops' defaults, and the tree types for what a kernel trained.
TrustedTypesFor(a) == IF Uploaded(a) THEN {} ELSE KernelTrustedTypes

LoadLocalSkops(a) ==
    LET m == Artifacts[a]
    IN /\ m.flavor = "mlflow.sklearn" /\ m.predictFn \in PredictFns
       /\ m.file = "inside" /\ m.types \subseteq TrustedTypesFor(a)

LoadLocalXgboost(a) ==
    LET m == Artifacts[a]
    IN /\ m.flavor = "mlflow.xgboost" /\ m.predictFn = "predict"
       /\ m.class \in XgboostModelClasses /\ m.file = "inside"

\* load_pyfunc: the manifest that was checked is the one that is loaded; loads are the images whose
\* libraries read the file and put a row through it.
LoadPyfunc(a, i) ==
    /\ ~RefusesAuthorCode(a) /\ Artifacts[a].file # "outside"
    /\ IF Artifacts[a].format = "skops" THEN LoadLocalSkops(a) ELSE LoadLocalXgboost(a)
    /\ i \in Artifacts[a].loads

\* The probe of an upload: the stage it stops at, score when it passes.
ProbeStage(a, i) ==
    CASE Artifacts[a].signature = "none" -> "signature"
      [] RefusesAuthorCode(a) \/ ~(Artifacts[a].types \subseteq TrustedTypesFor(a)) -> "trust"
      [] ~LoadPyfunc(a, i) -> "load"
      [] Artifacts[a].signature = "unbuildable" -> "signature"
      [] OTHER -> "score"

\* probe, in a process of its own: no verdict (a crash, a timeout) is a refusal, as any failure of the
\* request is.
ProbeShows(a, i) == ProbeStage(a, i) = "score"

-----------------------------------------------------------------------------
(* The built-in detectors: what each must find in a model to read a score  *)
(* out of it; otherwise the model is uninterpretable.                      *)

SklearnReads(a) == Artifacts[a].exposes \cap {"predict_proba", "decision_function"} # {}
DirectReads(a) == "unit_score" \in Artifacts[a].exposes
OutlierReads(a) == "decision_function" \in Artifacts[a].exposes
AutoencoderReads(a) == "reconstruction" \in Artifacts[a].exposes /\ Artifacts[a].scale

Reads(d, a) ==
    CASE d = "sklearn" -> SklearnReads(a)
      [] d = "direct" -> DirectReads(a)
      [] d = "outlier" -> OutlierReads(a)
      [] d = "autoencoder" -> AutoencoderReads(a)

-----------------------------------------------------------------------------
(* Registration.                                                           *)

Gates(a, i) == Admissible(a) /\ ~RefusesAuthorCode(a) /\ Evaluate(a, i) # "incompatible"

\* supplied_scores_refusal, sample_refusal: a sample has exactly the inputs for columns, and no scores.
SampleAccepted(cols, inputs) == cols = inputs /\ inputs # NoConfig

\* _bind_inputs_and_baseline: the sample is judged against the configuration read here.
Baseline(cols, inputs) ==
    CASE cols = "none" -> "none"
      [] SampleAccepted(cols, inputs) -> "sample"
      [] OTHER -> "refused"

\* register_model, up to the insert: the gates, then the row as it would be inserted.  A configuration
\* that is named must exist.
RegisterModel(r, a, statuses, bounds, samples) ==
    /\ Gates(a, image)
    /\ \E d \in DetectorChoices(a, image), status \in statuses, bound \in bounds, cols \in samples :
          Go(r, [op |-> "register", pc |-> "insert",
                 row |-> [status |-> status, art |-> a, detector |-> d, bound |-> bound,
                          base |-> Baseline(cols, bound), cols |-> IF cols = bound THEN cols ELSE "none",
                          by |-> 0, compat |-> Evaluate(a, image), deployed |-> 0]])
    /\ UNCHANGED <<config, model, image, cached, stored, held, stale, clock>>

\* create_model: the payload may name no configuration, carry no sample, or one that carries scores.
Register(r) ==
    /\ req[r] = Idle /\ Event
    /\ \E a \in DOMAIN Artifacts :
          RegisterModel(r, a, {"training", "production"}, {config, NoConfig}, Inputs \cup {"none", "refused"})

\* _read_sample: what a run logged as its sample.
Logged == Inputs \cup {"absent", "stored elsewhere", "too large", "not an object"}
ReadSample(logged) ==
    CASE logged = "absent" -> "none"
      [] logged \in {"stored elsewhere", "too large", "not an object"} -> "refused"
      [] OTHER -> logged

\* promote_model_version: a version with a run of the tenant's, the inputs and the detector chosen by the
\* user, the sample the run logged.
Promote(r) ==
    /\ req[r] = Idle /\ Event /\ config # NoConfig
    /\ \E a \in DOMAIN Artifacts :
          /\ Artifacts[a].run /\ Admissible(a)
          /\ RegisterModel(r, a, {"training"}, {config}, {ReadSample(l) : l \in Logged})

InsertUnchecked(r) ==
    /\ At(r, "register", "insert")
    /\ model' = IF model = NoModel THEN req[r].row ELSE model
    /\ Done(r)
    /\ UNCHANGED <<config, image, cached, stored, held, stale, clock, left>>

\* create_model: the configuration is locked, and compared with what the sample was judged against;
\* a name and version already there is a conflict.
Insert(r) ==
    /\ At(r, "register", "insert")
    /\ model' = IF model = NoModel /\ (req[r].row.bound # NoConfig => config = req[r].row.bound)
                THEN req[r].row ELSE model
    /\ Done(r)
    /\ UNCHANGED <<config, image, cached, stored, held, stale, clock, left>>

\* models_bound_to_feature_config, and the trigger and the foreign key that refuse a change to them.
Bound == model # NoModel /\ model.bound # NoConfig

\* update_feature_config, of the inputs: a bound configuration may change only in name and description.
UpdateConfig ==
    /\ Event /\ config # NoConfig /\ ~Bound
    /\ config' \in Inputs \ {config}
    /\ UNCHANGED <<model, image, cached, stored, held, req, stale, clock>>

DeleteConfig ==
    /\ Event /\ config # NoConfig /\ ~Bound
    /\ config' = NoConfig
    /\ UNCHANGED <<model, image, cached, stored, held, req, stale, clock>>

-----------------------------------------------------------------------------
(* Values read through a cache: the stateful-feature switch, and the        *)
(* baseline of a stateful feature.                                          *)

Scoring == {"deploy", "predict", "drift"}

\* Where a request goes with the value it got: an enabled class reads its baseline, and the row is scored.
\* An unavailable baseline is a neutral slot.
Use(r, k, h, asked) ==
    /\ Go(r, [req[r] EXCEPT !.reads = Unread,
                            !.pc = IF k = "switch" /\ h.value THEN "baseline"
                                   ELSE IF req[r].op = "deploy" THEN "probe" ELSE "score"])
    /\ stale' = (stale \/ (~h.failed /\ h.value # stored[k].value /\ stored[k].since + TTL <= asked))

\* enabled, compute_baseline: a value not yet expired is used; otherwise a read starts, and the time it
\* starts at is the time the new value's life is counted from.
CheckCache(r, k) ==
    /\ req[r].op \in Scoring /\ req[r].pc = k
    /\ IF clock < held[k].expires THEN Use(r, k, held[k], clock)
       ELSE Go(r, [req[r] EXCEPT !.pc = "read", !.reads = [kind |-> k, now |-> clock]]) /\ UNCHANGED stale
    /\ UNCHANGED <<config, model, image, cached, stored, held, clock, left>>

\* One query; a failure or a timeout is no value.
ReadStored(r) ==
    /\ req[r].op \in Scoring /\ req[r].pc = "read"
    /\ \E ok \in BOOLEAN :
          Go(r, [req[r] EXCEPT !.pc = "store",
                               !.reads = [kind |-> @.kind, now |-> @.now, failed |-> ~ok,
                                          value |-> ok => stored[@.kind].value]])
    /\ UNCHANGED <<config, model, image, cached, stored, held, stale, clock, left>>

HeldFromHere(u) ==
    [value |-> IF u.failed THEN held[u.kind].value ELSE u.value, expires |-> clock + TTL, failed |-> u.failed]

\* A failed read keeps the switch's last value, and is held as an unavailable baseline, as long as a
\* value read would be.
Held(u) ==
    [value |-> IF u.failed THEN held[u.kind].value ELSE u.value, expires |-> u.now + TTL, failed |-> u.failed]

StoreRead(r) ==
    /\ req[r].op \in Scoring /\ req[r].pc = "store"
    /\ LET u == req[r].reads
       IN held' = [held EXCEPT ![u.kind] = Held(u)] /\ Use(r, u.kind, Held(u), u.now)
    /\ UNCHANGED <<config, model, image, cached, stored, clock, left>>

\* flip_switch by a platform superuser; a window of the aggregates closes.
ChangeStored(k) ==
    /\ Event
    /\ stored' = [stored EXCEPT ![k] = [value |-> ~@.value, since |-> clock]]
    /\ UNCHANGED <<config, model, image, cached, held, req, stale, clock>>

-----------------------------------------------------------------------------
(* Deployment.                                                             *)

\* load_model_or_refuse: the model in the cache, or a load in this image.
CanLoad(a) == cached \/ (Admissible(a) /\ LoadPyfunc(a, image))

\* update_model_compatibility: the verdict is stamped again at every deployment.
StampCompatibility == [model EXCEPT !.compat = Evaluate(model.art, image)]

\* deploy_model, up to the gates: their verdict is recorded with the row.
Deploy(r) ==
    /\ req[r] = Idle /\ Event /\ model # NoModel
    /\ Gates(model.art, image) /\ DetectorLoaded(model.detector, image)
    /\ model' = StampCompatibility
    /\ Go(r, [op |-> "deploy", pc |-> "plan", row |-> Seen, plan |-> "none", base |-> "none", reads |-> Unread])
    /\ UNCHANGED <<config, image, cached, stored, held, stale, clock>>

\* baseline_gate.plan: no sample, a sample that cannot be scored, or one whose rows are engineered next.
\* The engine may refuse the rows.
Plan(r) ==
    /\ At(r, "deploy", "plan")
    /\ \E p \in {"reason", "rows"} :
          Go(r, IF req[r].row.base \in {"none", "refused"} THEN [req[r] EXCEPT !.pc = "probe"]
                ELSE IF p = "reason" \/ req[r].row.bound = NoConfig \/ req[r].row.cols # config
                     THEN [req[r] EXCEPT !.pc = "probe", !.plan = "reason"]
                     ELSE [req[r] EXCEPT !.pc = "switch", !.plan = "rows"])
    /\ UNCHANGED <<config, model, image, cached, stored, held, stale, clock, left>>

\* score_rows, in this process or the probe's: the detector scores the sample if it can read the model;
\* scoring may still stall or fail.
ScoreRows(row) == IF Reads(row.detector, row.art) THEN {"derived", "unscored"} ELSE {"unscored"}

\* Plan.finish: the sample with its scores, or without.
Finish(plan, row) ==
    CASE plan = "none" -> {"none"}
      [] plan = "reason" -> {"unscored"}
      [] plan = "rows" -> ScoreRows(row)

ProbeLenient(r) ==
    /\ At(r, "deploy", "probe")
    /\ \E b \in Finish(req[r].plan, req[r].row) : Go(r, [req[r] EXCEPT !.pc = "profile", !.base = b])
    /\ cached' = (cached \/ (~Uploaded(req[r].row.art) /\ req[r].plan = "rows"))
    /\ UNCHANGED <<config, model, image, stored, held, stale, clock, left>>

\* An upload must load and score in a process of its own; any other model is loaded here when its
\* sample is to be scored.
Probe(r) ==
    LET a == req[r].row.art
        here == ~Uploaded(a) /\ req[r].plan = "rows"
        works == IF here THEN CanLoad(a) ELSE Uploaded(a) => ProbeShows(a, image)
    IN /\ At(r, "deploy", "probe")
       /\ \/ /\ works
             /\ \E b \in Finish(req[r].plan, req[r].row) : Go(r, [req[r] EXCEPT !.pc = "profile", !.base = b])
             /\ cached' = (cached \/ here)
          \/ /\ ~works
             /\ Done(r) /\ UNCHANGED cached
       /\ UNCHANGED <<config, model, image, stored, held, stale, clock, left>>

\* with_derived_scores, without_prediction_baseline: either way the earlier scores are gone.
ProfileWith(base) == [model EXCEPT !.base = base, !.by = IF base = "derived" THEN image ELSE 0]

WriteProfileOnce(r) ==
    /\ At(r, "deploy", "profile")
    /\ model' = IF req[r].base = "none" \/ model.base = "derived" THEN model
                ELSE ProfileWith(req[r].base)
    /\ Step(r, "status")
    /\ UNCHANGED <<config, image, cached, stored, held, stale, clock, left>>

WriteProfile(r) ==
    /\ At(r, "deploy", "profile")
    /\ model' = IF req[r].base = "none" THEN model
                ELSE ProfileWith(req[r].base)
    /\ Step(r, "status")
    /\ UNCHANGED <<config, image, cached, stored, held, stale, clock, left>>

\* update_model_status, whatever the status is by now.
WriteStatus(r) ==
    /\ At(r, "deploy", "status")
    /\ model' = [model EXCEPT !.status = "production", !.deployed = image]
    /\ Done(r)
    /\ UNCHANGED <<config, image, cached, stored, held, stale, clock, left>>

\* delete_model, and a deployment to deprecated.
Retire ==
    /\ Event /\ model # NoModel
    /\ model' = [model EXCEPT !.status = "deprecated"]
    /\ UNCHANGED <<config, image, cached, stored, held, req, stale, clock>>

-----------------------------------------------------------------------------
(* Scoring and drift.                                                      *)

Predict(r) ==
    /\ req[r] = Idle /\ Event
    /\ model.status = "production" /\ DetectorLoaded(model.detector, image)
    /\ Go(r, [op |-> "predict", pc |-> "load", row |-> Seen, reads |-> Unread])
    /\ UNCHANGED <<config, model, image, cached, stored, held, stale, clock>>

\* align_readings: the instants at which every named column reported.
AlignReadings(window, columns) == {t \in DOMAIN window : columns \subseteq window[t]}

\* compute_drift, of the inputs.
DataDrift(cols, window) ==
    IF \A t \in DOMAIN window : cols \notin window[t] THEN "unavailable"
    ELSE IF Cardinality(AlignReadings(window, {cols})) < MinRows THEN "insufficient_data" ELSE "ok"

\* prediction_column_refusal: what was supplied as scores is off the detectors' scale.
ScoresRefused(base) == base = "labels"

\* baseline_state: what prediction drift may be measured against.
HoldsScores(base) == base \in {"derived", "supplied", "labels"} /\ ~ScoresRefused(base)

\* evaluate_drift, up to the scoring of the window: a model without an accepted sample is not compared,
\* and the window is scored only against a baseline of scores, with a configuration and enough rows.
EvaluateDrift(r) ==
    /\ req[r] = Idle /\ Event
    /\ model # NoModel /\ model.base \notin {"none", "refused"}
    /\ \E data \in {DataDrift(model.cols, window) : window \in [1..MinRows -> SUBSET Inputs]} :
          LET scored == HoldsScores(model.base) /\ model.bound # NoConfig /\ config # NoConfig /\ data = "ok"
          IN Go(r, [op |-> "drift", pc |-> IF scored THEN "load" ELSE "answered", row |-> Seen, by |-> model.by,
                    data |-> data, scored |-> FALSE, reads |-> Unread])
    /\ UNCHANGED <<config, model, image, cached, stored, held, stale, clock>>

\* A prediction that cannot be made is refused; drift then goes on without one.
LoadModel(r) ==
    /\ req[r].op \in {"predict", "drift"} /\ req[r].pc = "load"
    /\ LET ok == CanLoad(req[r].row.art) /\ req[r].row.bound # NoConfig /\ config # NoConfig
       IN IF req[r].op = "predict" THEN (IF ok THEN Step(r, "switch") ELSE Done(r))
          ELSE IF ok /\ DetectorLoaded(req[r].row.detector, image)
               THEN Step(r, "switch") ELSE Step(r, "answered")
    /\ cached' = CanLoad(req[r].row.art)
    /\ UNCHANGED <<config, model, image, stored, held, stale, clock, left>>

\* compute_drift, of the scores: the window's, if the detector can read the model, with the baseline's.
CompareScores(r) ==
    /\ At(r, "drift", "score")
    /\ Go(r, [req[r] EXCEPT !.pc = "answered", !.scored = Reads(req[r].row.detector, req[r].row.art)])
    /\ UNCHANGED <<config, model, image, cached, stored, held, stale, clock, left>>

\* The detector's score or its refusal of a model it cannot read; the drift found.
Answer(r) ==
    /\ At(r, "predict", "score") \/ At(r, "drift", "answered")
    /\ Done(r)
    /\ UNCHANGED <<config, model, image, cached, stored, held, stale, clock, left>>

-----------------------------------------------------------------------------

\* Any await of a request may raise: the store or the database did not answer, the caller's input
\* was refused.
RequestFails(r) ==
    /\ req[r] # Idle /\ Done(r)
    /\ UNCHANGED <<config, model, image, cached, stored, held, stale, clock, left>>

\* The service is rolled out with the next image.
Rebuild ==
    /\ Event /\ image < Len(Images)
    /\ image' = image + 1 /\ cached' = FALSE
    /\ held' = NothingHeld /\ req' = [r \in Requests |-> Idle]
    /\ UNCHANGED <<config, model, stored, stale, clock>>

\* Time matters, and passes, while a value is held or being read.
Tick ==
    /\ clock < Horizon /\ clock' = clock + 1
    /\ \/ \E k \in Kinds : held[k].expires > clock
       \/ \E r \in Requests : req[r].op \in Scoring /\ req[r].pc \in {"read", "store"}
    /\ UNCHANGED <<config, model, image, cached, stored, held, req, left, stale>>

Next ==
    \/ \E r \in Requests :
          \/ Register(r) \/ Promote(r) \/ Insert(r)
          \/ \E k \in Kinds : CheckCache(r, k)
          \/ ReadStored(r) \/ StoreRead(r)
          \/ Deploy(r) \/ Plan(r)
          \/ Probe(r) \/ WriteProfile(r) \/ WriteStatus(r)
          \/ Predict(r) \/ EvaluateDrift(r) \/ LoadModel(r) \/ CompareScores(r) \/ Answer(r)
          \/ RequestFails(r)
    \/ \E k \in Kinds : ChangeStored(k)
    \/ UpdateConfig \/ DeleteConfig \/ Retire \/ Rebuild \/ Tick

Spec == Init /\ [][Next]_vars

-----------------------------------------------------------------------------
(* Properties.                                                             *)

\* A model bound to a configuration keeps the inputs it was bound to, and a sample accepted at
\* registration, or scored at a deployment, has exactly those columns, whatever edits raced either
\* (create_model's lock, the trigger on feature_engineering_configs, baseline_gate.plan).  Only the
\* baseline of an earlier model may differ, and a deployment leaves that one without scores.
BoundInputsFixed ==
    model # NoModel =>
        /\ model.bound # NoConfig => config = model.bound
        /\ model.base \in {"sample", "derived"} => model.bound # NoConfig /\ model.cols = config

\* An upload that a deployment put in service loads in the image it was deployed in without the types
\* granted to kernels' models; what any deployed model declares is honoured there, and its detector is
\* loaded there, however deployments, failures and rebuilds interleave (deploy_model).
DeployedWasShownToLoad ==
    model # NoModel /\ model.deployed # 0 =>
        /\ Evaluate(model.art, model.deployed) # "incompatible"
        /\ DetectorLoaded(model.detector, model.deployed)
        /\ Uploaded(model.art) => /\ model.deployed \in Artifacts[model.art].loads
                                  /\ Artifacts[model.art].types = {}

\* After a deployment no scores remain that an earlier image computed or an author supplied: a sample's
\* scores are of the deploying image or a later one, or there are none (baseline_gate, ADR-0035 dec 3).
\* A drift answer compares predictions only where the baseline holds scores the model's detector could
\* give, and only for a model it can read (_current_predictions, prediction_column_refusal).
ScoresOfTheDeployment ==
    /\ model # NoModel /\ model.deployed # 0 =>
          /\ model.base \notin {"sample", "supplied", "labels"}
          /\ model.base = "derived" => model.by >= model.deployed /\ Reads(model.detector, model.art)
    /\ \A r \in Requests :
          At(r, "drift", "answered") /\ req[r].scored =>
              HoldsScores(req[r].row.base) /\ Reads(req[r].row.detector, req[r].row.art)

\* A switch value or baseline a request uses was the database's at some moment less than TTL before the
\* request asked, or since, unless a read failed, although reads overlap and are stored out of order
\* (enabled, compute_baseline).
UsedIsFresh == ~stale

\* The two sides of a prediction-drift comparison are scored by the same image.
DriftComparesOneImage ==
    \A r \in Requests :
        At(r, "drift", "answered") /\ req[r].scored /\ req[r].row.base = "derived" => req[r].by = image
=============================================================================
