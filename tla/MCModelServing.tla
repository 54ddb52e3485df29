--------------------------- MODULE MCModelServing ---------------------------
EXTENDS ModelServing, TLC

CONSTANTS r1, r2, x, y
MCRequests == {r1, r2}
MCInputs == {x, y}
ServingSymmetry == Permutations(MCRequests) \cup Permutations(MCInputs)

\* The second image is a patch later, and has lost the detector of reconstruction errors.
Detector(s) == [semantics |-> s, flavors |-> {"mlflow.sklearn"}]
Versions(numpy, skops) ==
    [p \in {"numpy", "scikit-learn", "skops"} |->
        CASE p = "numpy" -> numpy [] p = "skops" -> skops [] OTHER -> <<1, 7, 2>>]
MCImages == <<
    [versions |-> Versions(<<2, 0, 0>>, <<0, 11, 0>>),
     detectors |-> [sklearn |-> Detector("probability"), autoencoder |-> Detector("error")]],
    [versions |-> Versions(<<2, 0, 1>>, <<0, 12, 0>>),
     detectors |-> [sklearn |-> Detector("probability")]] >>

Kernel == [run |-> TRUE, upload |-> "none", owned |-> TRUE, flavor |-> "mlflow.sklearn", code |-> FALSE,
           format |-> "skops", class |-> "none", predictFn |-> "predict", file |-> "inside",
           types |-> {"tree"}, signature |-> "plain", declared |-> [numpy |-> <<2, 0, 0>>],
           semantics |-> "none", detector |-> "none", exposes |-> {"predict_proba"}, scale |-> FALSE,
           loads |-> {1, 2}]
Upload == [Kernel EXCEPT !.run = FALSE, !.upload = "admitted", !.semantics = "probability", !.types = {}]

\* An upload that only the second image loads, one by a newer serializer that needs a kernel's types, an
\* autoencoder with no scale recorded, and artifacts the gates turn away: with two addresses, staged and
\* never admitted, pickled, of a framework that is not installed.
MCArtifacts == [
    kernel  |-> Kernel,
    upload  |-> [Upload EXCEPT !.loads = {2}],
    trees   |-> [Upload EXCEPT !.types = {"tree"}, !.declared = [skops |-> <<0, 12, 0>>]],
    encoder |-> [Kernel EXCEPT !.detector = "autoencoder", !.exposes = {"reconstruction"}],
    both    |-> [Kernel EXCEPT !.upload = "admitted"],
    staged  |-> [Upload EXCEPT !.upload = "staged"],
    pickled |-> [Kernel EXCEPT !.format = "pickle"],
    booster |-> [Kernel EXCEPT !.flavor = "mlflow.xgboost", !.format = "native", !.class = "Booster"] ]

\* The model a tenant already has is the classifier a kernel logged; one with labels for scores is
\* followed for fewer events.
MCInit ==
    /\ Init
    /\ model # NoModel => model.art = "kernel"
    /\ left = IF model.status # "none" /\ model.base = "labels" THEN MaxEvents - 1 ELSE MaxEvents
MCSpec == MCInit /\ [][Next]_vars
=============================================================================
