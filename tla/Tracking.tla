------------------------------ MODULE Tracking ------------------------------
(***************************************************************************)
(* The tracking gateway: one process, the only writer of the artifact       *)
(* store and the way to the tracking server's experiments.  One upload of   *)
(* a tenant (staged by the client itself through signed URLs, judged and     *)
(* copied by a commit), the kernels' requests on experiments, the emptying  *)
(* of a deleted tenant, and the tracking server's collection of what is     *)
(* deleted.                                                                *)
(*                                                                         *)
(* From the consumed handle to the answer a commit awaits nothing, so no    *)
(* other request of the gateway runs; clients write to the store directly,  *)
(* and do.                                                                 *)
(***************************************************************************)
EXTENDS Naturals, Sequences, FiniteSets

CONSTANTS Handles,     \* upload handles minted for the tenant
          Commits,     \* commit requests in flight at once
          Members,     \* the files of the upload, with its manifest
          Manifest,    \* MANIFEST_NAME
          Experiments,
          Passes,      \* emptying requests in flight at once
          AskedNames,  \* the names a kernel asks for, as it spells them
          MaxPuts,     \* bound on the clients' writes and deletes of files
          MaxVersions, \* bound on model versions
          MaxRequests, \* bound on the kernels' requests
          MaxFaults    \* bound on failed calls and crashes

ASSUME TrackingBounds == /\ Manifest \in Members /\ MaxPuts \in Nat /\ MaxFaults \in Nat
                         /\ AskedNames \subseteq Seq(STRING)

None == [v |-> 0, ok |-> TRUE]
Quiet == [pc |-> "idle"]
Silent == [pc |-> "silent"]
Tenants == {"tenant", "other"}

\* A name is the sequence of the prefixes it carries; <<>> is a plain one.
Deleted == <<"deleted", "tenant">>

VARIABLES handle,    \* handle[h]: unminted, checked (between the two calls of a mint), held, gone
          urls,      \* the files the client holds a signed URL for
          staged,    \* staged[m]: the version under the staging prefix
          admitted,  \* admitted[m]: the version under the tenant's uploads
          own,       \* own[m]: the version a kernel put among its runs
          puts,      \* writes and deletes so far; names a version
          commit,    \* the commit requests
          judged,    \* (history) what each accepted commit had read
          exp,       \* exp[e]: an experiment's name, whose prefix its artifacts are under, its lifecycle,
                     \* whether it has live logged models, and runs (none, live, deleted)
          versions,  \* registered model versions: a name, and whose prefix the bytes are under
          requests,  \* requests of the kernels so far
          kernel,    \* kernel[t]: the request of tenant t's kernel
          phase,     \* active, suspended, deleting, recorded: of the tenant
          pass,      \* the emptying requests
          collector, \* the collector's list
          faults

vars == <<handle, urls, staged, admitted, own, puts, commit, judged, exp, versions, requests, kernel, phase, pass, collector, faults>>
uploadVars == <<handle, urls, staged, admitted, own, puts, commit, judged>>
serverVars == <<exp, versions, requests, kernel, pass, collector>>

Init ==
    /\ handle \in {[h \in Handles |-> x] : x \in {"unminted", "gone"}} /\ urls = {}
    /\ staged = [m \in Members |-> None] /\ admitted = [m \in Members |-> None]
    /\ own = [m \in Members |-> None]
    /\ puts \in {0, MaxPuts} /\ commit = [c \in Commits |-> Quiet] /\ judged = {}
    /\ exp \in [Experiments -> {[name |-> <<t>>, loc |-> t, life |-> l, models |-> FALSE,
                                 runs |-> CASE l = "active" -> "live" [] l = "deleted" -> "deleted" [] OTHER -> "none"] :
                                 t \in Tenants, l \in {"active", "deleted", "absent"}}]
    /\ versions = {} /\ requests = 0
    /\ kernel \in {[t \in Tenants |-> k] : k \in {Quiet, Silent}}
    /\ phase = "active" /\ pass = [p \in Passes |-> Quiet] /\ collector = {} /\ faults = 0

-----------------------------------------------------------------------------
(* The upload plane.                                                       *)

Present(f) == {m \in DOMAIN f : f[m] # None}
Without(f, ms) == [m \in Members |-> IF m \in ms THEN None ELSE f[m]]

\* A commit that holds the event loop.
Busy == \E c \in Commits : commit[c].pc \in {"reading", "copying"}

\* mint_upload_capability: the company is found not suspended,
MintCheck(h) ==
    /\ handle[h] = "unminted" /\ phase = "active"
    /\ handle' = [handle EXCEPT ![h] = "checked"]
    /\ UNCHANGED <<urls, staged, admitted, own, puts, commit, judged, phase, faults, serverVars>>

\* and the handle is written, with its index and its event, although the company may be suspended by then.
Mint(h) ==
    /\ handle[h] = "checked"
    /\ handle' = [handle EXCEPT ![h] = "held"]
    /\ UNCHANGED <<urls, staged, admitted, own, puts, commit, judged, phase, faults, serverVars>>

\* _resolve_outcome: an entry of the plane's audience, of a company that is not suspended.
Resolves(h) == handle[h] = "held" /\ phase = "active"

\* upload_stage: files with usable paths and a manifest among them, each given a signed URL.
Stage(h, ms) ==
    /\ ~Busy /\ Resolves(h) /\ urls = {}
    /\ Manifest \in ms
    /\ urls' = ms
    /\ UNCHANGED <<handle, staged, admitted, own, puts, commit, judged, phase, faults, serverVars>>

\* A client writes a staged file, through a URL that stays valid after the commit.  The file may be one
\* that deserialises objects.
Put(m) ==
    /\ m \in urls /\ phase = "active" /\ puts < MaxPuts
    /\ puts' = puts + 1
    /\ \E ok \in BOOLEAN : staged' = [staged EXCEPT ![m] = [v |-> puts + 1, ok |-> ok]]
    /\ UNCHANGED <<own, handle, urls, admitted, commit, judged, phase, faults, serverVars>>

\* is_upload_reserved: where only the upload plane writes.
IsUploadReserved(area) == area = "uploads"

\* artifact_object: a kernel writes or deletes a file under its tenant's prefix, unless it is reserved.
\* The URL it is given for a write is used before the suspension takes the tenant further.
KernelFile(area, m) ==
    /\ phase = "active" /\ ~Busy /\ ~IsUploadReserved(area)
    /\ puts < MaxPuts /\ puts' = puts + 1
    /\ \E f \in {None, [v |-> puts + 1, ok |-> FALSE]} :
          IF area = "uploads" THEN admitted' = [admitted EXCEPT ![m] = f] /\ UNCHANGED own
                              ELSE own' = [own EXCEPT ![m] = f] /\ UNCHANGED admitted
    /\ UNCHANGED <<handle, urls, staged, commit, judged, phase, faults, serverVars>>

\* uploader, upload_commit: the handle resolves and the company is not suspended; the staged files are
\* listed before the handle is consumed.
CommitList(c, h) ==
    /\ commit[c] = Quiet /\ ~Busy /\ Resolves(h)
    /\ Present(staged) # {}
    /\ commit' = [commit EXCEPT ![c] = [pc |-> "listed", handle |-> h, keys |-> Present(staged)]]
    /\ UNCHANGED <<handle, urls, staged, admitted, own, puts, judged, phase, faults, serverVars>>

\* consume_upload_handle: one script, and whoever deletes the handle goes ahead.
Consume(c) ==
    LET h == commit[c].handle
    IN /\ commit[c].pc = "listed" /\ ~Busy
       /\ handle' = [handle EXCEPT ![h] = "gone"]
       /\ commit' = [commit EXCEPT ![c] =
             IF handle[h] = "held" THEN [pc |-> "reading", keys |-> @.keys, reads |-> <<>>] ELSE Quiet]
       /\ UNCHANGED <<own, urls, staged, admitted, puts, judged, phase, faults, serverVars>>

\* The head of each listed file, with the version it is of.
ReadHead(c, m) ==
    LET r == commit[c]
    IN /\ r.pc = "reading" /\ m \in r.keys \ DOMAIN r.reads
       /\ commit' = [commit EXCEPT ![c].reads =
             [k \in DOMAIN r.reads \cup {m} |-> IF k = m THEN staged[m] ELSE r.reads[k]]]
       /\ UNCHANGED <<handle, urls, staged, admitted, own, puts, judged, phase, faults, serverVars>>

\* admission.evaluate: a manifest, and no file that is an object stream.
Evaluate(reads) ==
    /\ Manifest \in DOMAIN reads /\ reads[Manifest] # None
    /\ \A m \in DOMAIN reads : reads[m].ok

Judge(c) ==
    LET r == commit[c]
    IN /\ r.pc = "reading" /\ r.keys = DOMAIN r.reads
       /\ IF Evaluate(r.reads)
          THEN /\ judged' = judged \cup {r.reads} /\ UNCHANGED staged
               /\ commit' = [commit EXCEPT ![c] =
                     [pc |-> "copying", keys |-> r.keys, reads |-> r.reads, copied |-> {}]]
          ELSE /\ staged' = Without(staged, r.keys) /\ UNCHANGED judged
               /\ commit' = [commit EXCEPT ![c] = Quiet]
       /\ UNCHANGED <<own, handle, urls, admitted, puts, phase, faults, serverVars>>

CopyAnyway(c, m) ==
    LET r == commit[c]
    IN /\ r.pc = "copying" /\ m \in r.keys \ r.copied
       /\ admitted' = [admitted EXCEPT ![m] = staged[m]]
       /\ commit' = [commit EXCEPT ![c].copied = @ \cup {m}]
       /\ UNCHANGED <<own, handle, urls, staged, puts, judged, phase, faults, serverVars>>

\* The copy of exactly the version read; a file that changed discards the copies made and what is staged.
Copy(c, m) ==
    LET r == commit[c]
    IN /\ r.pc = "copying" /\ m \in r.keys \ r.copied
       /\ IF r.reads[m] # None /\ staged[m] = r.reads[m]
          THEN /\ admitted' = [admitted EXCEPT ![m] = staged[m]]
               /\ commit' = [commit EXCEPT ![c].copied = @ \cup {m}]
               /\ UNCHANGED staged
          ELSE /\ admitted' = Without(admitted, r.copied)
               /\ staged' = Without(staged, r.keys)
               /\ commit' = [commit EXCEPT ![c] = Quiet]
       /\ UNCHANGED <<own, handle, urls, puts, judged, phase, faults, serverVars>>

\* Everything copied: the staged files go, and the answer names the admitted location.
CommitAnswer(c) ==
    LET r == commit[c]
    IN /\ r.pc = "copying" /\ r.copied = r.keys
       /\ staged' = Without(staged, r.keys)
       /\ commit' = [commit EXCEPT ![c] = Quiet]
       /\ UNCHANGED <<own, handle, urls, admitted, puts, judged, phase, faults, serverVars>>

-----------------------------------------------------------------------------
(* Kernels: a request's ids are looked up, and the request is forwarded.   *)

\* qualify_name, owned_name.
QualifyName(t, n) == IF n # <<>> /\ Head(n) = t THEN n ELSE <<t>> \o n
Owned(prefix, n) == Len(n) >= Len(prefix) /\ SubSeq(n, 1, Len(prefix)) = prefix

\* ROUTES: what is forwarded, and the rules each is held to; any other route is refused.
Routes == [create         |-> {"create_experiment"},
           update         |-> {"experiment", "names"},
           delete         |-> {"experiment"},
           restore        |-> {"experiment"},
           log_model      |-> {"experiment"},
           delete_model   |-> {"logged_model"},
           create_run     |-> {"experiment"},
           delete_run     |-> {"run"},
           restore_run    |-> {"run"},
           create_version |-> {"names", "mv_source"},
           rename_models  |-> {"names"},
           delete_models  |-> {"names"}]

\* What a request names: an experiment, a name as the kernel spells it, the source of a version.
Requests ==
    [route : {"delete", "restore", "log_model", "delete_model", "create_run", "delete_run", "restore_run"}, e : Experiments]
    \cup [route : {"create", "update"}, e : Experiments, name : AskedNames]
    \cup [route : {"delete_models"}, name : AskedNames]
    \cup {r \in [route : {"rename_models"}, name : AskedNames, new : AskedNames] : r.name # r.new}
    \cup [route : {"create_version"}, name : AskedNames,
           source : ({"run", "logged_model"} \X Experiments) \cup ({"artifact", "uri"} \X Tenants)]

\* _Lookups.experiment, run: the experiment the server answers with is named under the tenant.
OwnsExperiment(t, e) == exp[e].life \in {"active", "deleted"} /\ Owned(<<t>>, exp[e].name)
OwnsLoggedModel(t, e) == exp[e].models /\ OwnsExperiment(t, e)

OwnsAnySource(t, source) == source[1] # "uri"

\* source_kind: a run or a logged model of the tenant's, an artifact under its prefix, and nothing else.
OwnsSource(t, source) ==
    \/ source[1] = "run" /\ OwnsExperiment(t, source[2])
    \/ source[1] = "logged_model" /\ OwnsLoggedModel(t, source[2])
    \/ source[1] = "artifact" /\ source[2] = t

EnsureOwns(t, r) ==
    /\ Routes[r.route] \cap {"experiment", "run"} # {} => OwnsExperiment(t, r.e)
    /\ "logged_model" \in Routes[r.route] => OwnsLoggedModel(t, r.e)
    /\ "mv_source" \in Routes[r.route] => OwnsSource(t, r.source)

\* resolve, match, _ensure_owns: the ids are asked of the server before the request is forwarded.
KernelLookup(t) ==
    /\ kernel[t] = Quiet /\ ~Busy
    /\ t = "tenant" => phase = "active"
    /\ requests < MaxRequests /\ requests' = requests + 1
    /\ \E r \in Requests :
          /\ EnsureOwns(t, r)
          /\ kernel' = [kernel EXCEPT ![t] = [pc |-> "act", request |-> r]]
    /\ UNCHANGED <<exp, versions, pass, collector, phase, faults, uploadVars>>

\* The server's soft delete of an experiment takes its runs along, and its restore brings them back;
\* its collection destroys both.
SoftDeleted(x) == [x EXCEPT !.life = "deleted", !.runs = IF @ = "live" THEN "deleted" ELSE @]
Restored(x) == [x EXCEPT !.life = "active", !.runs = IF @ = "deleted" THEN "live" ELSE @]
Destroyed(x) == [x EXCEPT !.life = "gone", !.runs = "none"]

\* proxy: the name is put under the tenant, an experiment's location is the gateway's, and the server does
\* what is asked or refuses it for the experiment's lifecycle.
KernelAct(t) ==
    LET r == kernel[t].request
        x == exp[r.e]
        name == QualifyName(t, r.name)
        Becomes(y) == exp' = [exp EXCEPT ![r.e] = y] /\ UNCHANGED versions
    IN /\ kernel[t].pc = "act" /\ ~Busy
       /\ \/ /\ r.route = "create" /\ x.life = "absent"
             /\ Becomes([name |-> name, loc |-> t, life |-> "active", models |-> FALSE, runs |-> "none"])
          \/ r.route = "update" /\ x.life = "active" /\ Becomes([x EXCEPT !.name = name])
          \/ r.route = "delete" /\ x.life = "active" /\ Becomes(SoftDeleted(x))
          \/ r.route = "restore" /\ x.life = "deleted" /\ Becomes(Restored(x))
          \/ r.route = "log_model" /\ x.life = "active" /\ Becomes([x EXCEPT !.models = TRUE])
          \/ r.route = "delete_model" /\ x.life = "active" /\ Becomes([x EXCEPT !.models = FALSE])
          \/ r.route = "create_run" /\ x.life = "active" /\ Becomes([x EXCEPT !.runs = "live"])
          \/ r.route = "delete_run" /\ x.runs = "live" /\ Becomes([x EXCEPT !.runs = "deleted"])
          \/ r.route = "restore_run" /\ x.runs = "deleted" /\ Becomes([x EXCEPT !.runs = "live"])
          \/ /\ r.route = "create_version" /\ Cardinality(versions) < MaxVersions
             /\ LET bytes == IF r.source[1] \in {"run", "logged_model"} THEN exp[r.source[2]].loc ELSE r.source[2]
                IN versions' = versions \cup {[name |-> name, bytes |-> bytes]}
             /\ UNCHANGED exp
          \/ /\ r.route = "rename_models" /\ \A v \in versions : v.name # QualifyName(t, r.new)
             /\ versions' = {IF v.name = name THEN [v EXCEPT !.name = QualifyName(t, r.new)] ELSE v : v \in versions}
             /\ UNCHANGED exp
          \/ /\ r.route = "delete_models"
             /\ versions' = {v \in versions : v.name # name} /\ UNCHANGED exp
          \/ UNCHANGED <<exp, versions>>
       /\ kernel' = [kernel EXCEPT ![t] = Quiet]
       /\ UNCHANGED <<requests, pass, collector, phase, faults, uploadVars>>

-----------------------------------------------------------------------------
(* Emptying a deleted tenant.                                              *)

Suspend ==
    /\ phase = "active" /\ phase' = "suspended"
    /\ handle' = [h \in Handles |-> IF handle[h] = "held" THEN "gone" ELSE handle[h]]
    /\ UNCHANGED <<own, urls, staged, admitted, puts, commit, judged, faults, serverVars>>

\* A deletion follows 30 days of suspension: nothing of the tenant's is in flight.
Delete ==
    /\ phase = "suspended" /\ phase' = "deleting"
    /\ kernel["tenant"] \in {Quiet, Silent} /\ \A c \in Commits : commit[c] = Quiet
    /\ UNCHANGED <<faults, uploadVars, serverVars>>

\* _experiments, _registered_models: of a prefix.
Named(prefix) == {e \in Experiments : exp[e].life \in {"active", "deleted"} /\ Owned(prefix, exp[e].name)}
RegisteredModels(prefix) == {v \in versions : Owned(prefix, v.name)}

\* empty_tenant: the registered models are listed, and each deleted unless it is gone by then.  The
\* job's call may time out while its pass goes on, and the next call start another.
PassStart(p) ==
    /\ phase = "deleting" /\ pass[p] = Quiet /\ ~Busy
    /\ pass' = [pass EXCEPT ![p] = [pc |-> "registered", todo |-> {v.name : v \in RegisteredModels(<<"tenant">>)}]]
    /\ UNCHANGED <<exp, versions, requests, kernel, collector, phase, faults, uploadVars>>

DeleteRegistered(p) ==
    /\ pass[p].pc = "registered" /\ ~Busy
    /\ \E n \in pass[p].todo :
          /\ versions' = {v \in versions : v.name # n}
          /\ pass' = [pass EXCEPT ![p].todo = @ \ {n}]
    /\ UNCHANGED <<exp, requests, kernel, collector, phase, faults, uploadVars>>

\* The artifacts of both areas, without an await; then the experiments under the tenant's name are listed.
DeleteArtifacts(p) ==
    /\ pass[p].pc = "registered" /\ pass[p].todo = {} /\ ~Busy
    /\ staged' = Without(staged, Members) /\ admitted' = Without(admitted, Members) /\ own' = Without(own, Members)
    /\ pass' = [pass EXCEPT ![p] = [pc |-> "list"]]
    /\ UNCHANGED <<handle, urls, puts, commit, judged, exp, versions, requests, kernel, collector, phase, faults>>

ListExperiments(p) ==
    /\ pass[p].pc = "list"
    /\ pass' = [pass EXCEPT ![p] = [pc |-> "rename", todo |-> {[e |-> e, life |-> exp[e].life] : e \in Named(<<"tenant">>)}]]
    /\ UNCHANGED <<exp, versions, requests, kernel, collector, phase, faults, uploadVars>>

\* A call the server answers with anything but 200 ends the pass; the job calls again.
Server(p, ok, e, new, next) ==
    /\ exp' = IF ok THEN [exp EXCEPT ![e] = new] ELSE exp
    /\ pass' = [pass EXCEPT ![p] = IF ok THEN next ELSE Quiet]
    /\ UNCHANGED <<versions, requests, kernel, collector, phase, faults, uploadVars>>

\* The server renames only an active experiment: one listed as deleted is restored first.
RestoreSkipped(p) == FALSE

Restore(p) ==
    /\ pass[p].pc = "rename"
    /\ \E x \in pass[p].todo :
          /\ x.life = "deleted"
          /\ Server(p, exp[x.e].life = "deleted", x.e, Restored(exp[x.e]),
                    [pass[p] EXCEPT !.todo = (@ \ {x}) \cup {[x EXCEPT !.life = "active"]}])

Rename(p) ==
    /\ pass[p].pc = "rename"
    /\ \E x \in pass[p].todo :
          /\ x.life = "active"
          /\ Server(p, exp[x.e].life = "active", x.e, [exp[x.e] EXCEPT !.name = Deleted],
                    [pass[p] EXCEPT !.todo = @ \ {x}])

\* The experiments now under the deleted name that are still active.
ListRenamed(p) ==
    /\ pass[p].pc = "rename" /\ pass[p].todo = {}
    /\ pass' = [pass EXCEPT ![p] = [pc |-> "models", todo |-> {e \in Named(Deleted) : exp[e].life = "active"}]]
    /\ UNCHANGED <<exp, versions, requests, kernel, collector, phase, faults, uploadVars>>

\* Its logged models, each absent or deleted, then the experiment.
DeleteModels(p) ==
    /\ pass[p].pc = "models"
    /\ \E e \in pass[p].todo :
          Server(p, exp[e].life \in {"active", "deleted"}, e, [exp[e] EXCEPT !.models = FALSE],
                 [pc |-> "delete", e |-> e, todo |-> pass[p].todo \ {e}])

DeleteExperiment(p) ==
    /\ pass[p].pc = "delete"
    /\ LET e == pass[p].e
       IN Server(p, exp[e].life = "active", e, SoftDeleted(exp[e]),
                 [pc |-> "models", todo |-> pass[p].todo])

\* remaining, and purge: the store is recorded once nothing remains, which the collector decides.
Report(p) ==
    /\ pass[p].pc = "models" /\ pass[p].todo = {}
    /\ pass' = [pass EXCEPT ![p] = Quiet]
    /\ phase' = IF /\ Named(<<"tenant">>) \cup Named(Deleted) = {} /\ RegisteredModels(<<"tenant">>) = {}
                   /\ Present(staged) \cup Present(admitted) \cup Present(own) = {}
                THEN "recorded" ELSE phase
    /\ UNCHANGED <<exp, versions, requests, kernel, collector, faults, uploadVars>>

-----------------------------------------------------------------------------
(* The tracking server's collection, on its own schedule.                  *)

CollectableAny == {e \in Experiments : exp[e].life = "deleted"}

Collectable == {e \in Experiments : exp[e].life = "deleted" /\ Owned(Deleted, exp[e].name)}

CollectList ==
    /\ collector = {} /\ Collectable # {}
    /\ collector' = Collectable
    /\ UNCHANGED <<exp, versions, requests, kernel, pass, phase, faults, uploadVars>>

\* collect: an experiment with live runs or logged models, or with artifacts that the server may not
\* delete, is left for the next run.
Collect ==
    /\ \E e \in collector :
          /\ collector' = collector \ {e}
          /\ exp' = IF /\ exp[e].life = "deleted" /\ exp[e].runs # "live" /\ ~exp[e].models
                       /\ Present(own) = {}
                    THEN [exp EXCEPT ![e] = Destroyed(@)] ELSE exp
    /\ UNCHANGED <<versions, requests, kernel, pass, phase, faults, uploadVars>>

\* A call of the pass fails: it answers 502, and the job calls again.
PassFails(p) ==
    /\ pass[p] # Quiet /\ faults < MaxFaults /\ faults' = faults + 1
    /\ pass' = [pass EXCEPT ![p] = Quiet]
    /\ UNCHANGED <<exp, versions, requests, kernel, collector, phase, uploadVars>>

\* The gateway's process dies: every request of it is lost, what it wrote stays.
Crash ==
    /\ faults < MaxFaults /\ faults' = faults + 1
    /\ commit' = [c \in Commits |-> Quiet]
    /\ kernel' = [t \in Tenants |-> IF kernel[t] = Silent THEN Silent ELSE Quiet]
    /\ pass' = [p \in Passes |-> Quiet]
    /\ UNCHANGED <<handle, urls, staged, admitted, own, puts, judged, exp, versions, requests, phase, collector>>

Upload ==
    \/ \E h \in Handles : MintCheck(h) \/ Mint(h) \/ \E ms \in SUBSET Members : Stage(h, ms)
    \/ \E m \in Members : Put(m) \/ \E area \in {"runs", "uploads"} : KernelFile(area, m)
    \/ \E c \in Commits :
          \/ \E h \in Handles : CommitList(c, h)
          \/ Consume(c) \/ Judge(c) \/ CommitAnswer(c)
          \/ \E m \in Members : ReadHead(c, m) \/ Copy(c, m)

PassStep(p) ==
    \/ DeleteRegistered(p) \/ DeleteArtifacts(p) \/ ListExperiments(p) \/ Restore(p) \/ Rename(p)
    \/ ListRenamed(p) \/ DeleteModels(p) \/ DeleteExperiment(p) \/ Report(p)

Next ==
    \/ Upload
    \/ \E t \in Tenants : KernelLookup(t) \/ KernelAct(t)
    \/ Suspend \/ Delete
    \/ \E p \in Passes : PassStart(p) \/ PassStep(p) \/ PassFails(p)
    \/ CollectList \/ Collect \/ Crash

\* The job repeats its call until the store is recorded, a request in flight goes on, and the collector
\* runs on a schedule.
Fairness ==
    /\ \A p \in Passes : WF_vars(PassStart(p)) /\ WF_vars(PassStep(p))
    /\ WF_vars(CollectList) /\ WF_vars(Collect)

Spec == Init /\ [][Next]_vars /\ Fairness

-----------------------------------------------------------------------------
(* Properties.                                                             *)

\* Every file of the admitted upload is a version some accepted commit had judged, although the client
\* may write it again at any moment, and a commit about to answer has put in place all it judged: a file
\* that changed meanwhile leaves no part behind under a good answer (upload_commit, copy with If-Match,
\* is_upload_reserved).
AdmittedWasJudged ==
    /\ \A m \in Members : admitted[m] # None => \E j \in judged : m \in DOMAIN j /\ j[m] = admitted[m]
    /\ \A c \in Commits : commit[c].pc = "copying" /\ commit[c].copied = commit[c].keys =>
          \A m \in commit[c].keys : admitted[m] = commit[c].reads[m]

\* The bytes a model version names, which the serving side later reads for the tenant in its name, are that
\* tenant's, and an experiment's are its own, whatever names and sources a kernel asks for while
\* experiments are renamed, deleted and collected (scope_request, source_kind, experiment_artifact_location).
BytesOfTheirTenant ==
    /\ \A v \in versions : Head(v.name) = v.bytes
    /\ \A e \in Experiments : exp[e].life \in {"active", "deleted"} =>
           Head(exp[e].name) = exp[e].loc \/ exp[e].name = Deleted

\* An experiment is destroyed only when the tenant it belonged to was deleted: another tenant's soft
\* delete, and its restore, stay its own, and no name a kernel asks for reaches the collector
\* (collectable, empty_tenant, qualify_name).
CollectsOnlyTheDeleted ==
    [][\A e \in Experiments : exp[e].life # "gone" /\ exp'[e].life = "gone" =>
          exp[e].loc = "tenant" /\ phase \in {"deleting", "recorded"}]_vars

\* A deletion ends with nothing of the tenant in the store, whatever state its experiments were left in,
\* passes that overlap and a process that dies in one (empty_tenant, collect_deleted).
OffboardingEmpties == phase = "deleting" ~> phase = "recorded"
=============================================================================
