--------------------------- MODULE TrackingProofs ---------------------------
(***************************************************************************)
(* The upload plane admits only what was judged, a model's bytes and an    *)
(* experiment are their tenant's, and only a deleted tenant's experiments  *)
(* are collected: for any handles, commits, files, experiments, names and  *)
(* passes.                                                                 *)
(***************************************************************************)
EXTENDS Tracking, SequenceTheorems, TLAPS

-----------------------------------------------------------------------------
(* The upload plane.                                                       *)

Holding(c) == commit[c].pc \in {"reading", "copying"}
Reading(keys, reads) == [pc |-> "reading", keys |-> keys, reads |-> reads]
Copying(keys, reads, copied) == [pc |-> "copying", keys |-> keys, reads |-> reads, copied |-> copied]

\* What a commit copies it had read and judged, and what it copied so far is in place.
InPlace(r) ==
    /\ r.reads \in judged /\ r.keys = DOMAIN r.reads /\ r.copied \subseteq r.keys
    /\ \A m \in r.copied : m \in Members /\ admitted[m] = r.reads[m]

\* One commit at a time holds the event loop.
CopyInv ==
    /\ \A c, d \in Commits : Holding(c) /\ Holding(d) => c = d
    /\ \A c \in Commits :
         /\ commit[c].pc = "reading" => commit[c] = Reading(commit[c].keys, commit[c].reads)
         /\ commit[c].pc = "copying" => /\ commit[c] = Copying(commit[c].keys, commit[c].reads, commit[c].copied)
                                        /\ InPlace(commit[c])

AllJudged == \A m \in Members : admitted[m] # None => \E j \in judged : m \in DOMAIN j /\ j[m] = admitted[m]

UploadInv ==
    /\ commit = [c \in Commits |-> commit[c]]
    /\ admitted = [m \in Members |-> admitted[m]]
    /\ CopyInv /\ AllJudged

-----------------------------------------------------------------------------
(* The experiments.                                                        *)

Lives == {"active", "deleted", "absent", "gone"}
Parts == STRING \cup Tenants \cup {"deleted"}
Exps == [name : Seq(Parts), loc : Tenants, life : Lives, models : BOOLEAN, runs : {"none", "live", "deleted"}]

\* An experiment of tenant t that exists, and so keeps its location.
OfTenant(t, e) == e \in Experiments /\ exp[e].life # "absent" /\ exp[e].loc = t

\* A name is the location's or the deleted tenant's, and then the deletion has begun.
NamesInv ==
    \A e \in Experiments :
        /\ exp[e].name # <<>>
        /\ \/ Head(exp[e].name) = exp[e].loc
           \/ exp[e].name = Deleted /\ OfTenant("tenant", e) /\ phase \in {"deleting", "recorded"}

\* What a request was let through for is still so when it is forwarded.
GoodRequest(t, r) ==
    /\ r \in Requests
    /\ r.route = "update" => OfTenant(t, r.e)
    /\ r.route = "create_version" =>
         \/ r.source[1] \in {"run", "logged_model"} /\ OfTenant(t, r.source[2])
         \/ r.source[1] \notin {"run", "logged_model"} /\ r.source[2] = t
KernelInv == \A t \in Tenants : kernel[t].pc = "act" => GoodRequest(t, kernel[t].request)

\* A pass, and the collector, hold only the deleted tenant's experiments.
Renaming(todo) == [pc |-> "rename", todo |-> todo]
GoodPass(r) ==
    /\ r.pc # "idle" => phase \in {"deleting", "recorded"}
    /\ r.pc = "rename" => /\ r = Renaming(r.todo)
                          /\ \A x \in r.todo : x \in [e : Experiments, life : Lives] /\ OfTenant("tenant", x.e)
    /\ r.pc = "registered" => r = [pc |-> "registered", todo |-> r.todo]
    /\ r.pc \in {"models", "delete"} => r.todo \subseteq Experiments
    /\ r.pc = "delete" => r.e \in Experiments
PassInv == \A p \in Passes : GoodPass(pass[p])
CollectorInv == \A e \in collector : OfTenant("tenant", e) /\ phase \in {"deleting", "recorded"}

VersionsInv == \A v \in versions : v \in [name : Seq(Parts), bytes : Tenants] /\ v.name # <<>> /\ Head(v.name) = v.bytes

ServerInv ==
    /\ exp \in [Experiments -> Exps] /\ kernel = [t \in Tenants |-> kernel[t]] /\ pass = [p \in Passes |-> pass[p]]
    /\ NamesInv /\ KernelInv /\ PassInv /\ CollectorInv /\ VersionsInv

\* An upload's files were judged before they were admitted, and an answered commit put in place all it
\* judged (upload_commit, the copy with If-Match, is_upload_reserved): for any clients writing at any
\* moment, as the copy is refused unless the file is still the version read.
THEOREM OnlyJudgedIsAdmitted == Spec => []AdmittedWasJudged
<1>1. Init => UploadInv
  <2> SUFFICES ASSUME Init PROVE UploadInv
    OBVIOUS
  <2>1. commit = [c \in Commits |-> Quiet] /\ admitted = [m \in Members |-> None]
    BY DEF Init
  <2>2. \A c \in Commits : commit[c].pc = "idle"
    BY <2>1 DEF Quiet
  <2> QED BY <2>1, <2>2 DEF UploadInv, CopyInv, AllJudged, Holding
<1>2. UploadInv /\ [Next]_vars => UploadInv'
  <2> SUFFICES ASSUME UploadInv, [Next]_vars PROVE UploadInv'
    OBVIOUS
  <2>1. /\ commit = [c \in Commits |-> commit[c]] /\ admitted = [m \in Members |-> admitted[m]]
        /\ CopyInv /\ AllJudged
    BY DEF UploadInv
  <2>2. CASE UNCHANGED <<commit, admitted, judged>>
    BY <2>1, <2>2, Zenon DEF UploadInv, CopyInv, AllJudged, Holding, InPlace
  \* One commit changes its record, and its copies are in place.
  <2>3. ASSUME NEW c \in Commits, NEW r, commit' = [commit EXCEPT ![c] = r],
               admitted' = [m \in Members |-> admitted'[m]], AllJudged', judged \subseteq judged',
               (r.pc \in {"reading", "copying"} \/ admitted' # admitted) => \A d \in Commits \ {c} : ~Holding(d),
               r.pc = "reading" => r = Reading(r.keys, r.reads),
               r.pc = "copying" => r = Copying(r.keys, r.reads, r.copied) /\ InPlace(commit[c])'
        PROVE  UploadInv'
    <3>1. commit' = [d \in Commits |-> commit'[d]] /\ commit'[c] = r /\ \A d \in Commits \ {c} : commit'[d] = commit[d]
      BY <2>1, <2>3
    <3>2. \A d, e \in Commits : Holding(d)' /\ Holding(e)' => d = e
      BY <2>1, <2>3, <3>1 DEF CopyInv, Holding
    <3>3. ASSUME NEW d \in Commits
          PROVE  /\ commit'[d].pc = "reading" => commit'[d] = Reading(commit'[d].keys, commit'[d].reads)
                 /\ commit'[d].pc = "copying" =>
                      /\ commit'[d] = Copying(commit'[d].keys, commit'[d].reads, commit'[d].copied)
                      /\ InPlace(commit[d])'
      <4>1. CASE d = c
        BY <2>3, <3>1, <4>1
      <4>2. CASE d # c
        <5>1. commit'[d] = commit[d]
          BY <3>1, <4>2
        <5>2. commit[d].pc = "copying" => admitted' = admitted /\ InPlace(commit[d])
          BY <2>1, <2>3, <4>2 DEF CopyInv, Holding
        <5>3. commit[d].pc = "copying" => InPlace(commit[d])'
          BY <2>3, <5>1, <5>2 DEF InPlace
        <5> QED BY <2>1, <5>1, <5>3 DEF CopyInv
      <4> QED BY <4>1, <4>2
    <3>4. CopyInv'
      BY <3>2, <3>3 DEF CopyInv, Reading, Copying
    <3> QED BY <2>3, <3>1, <3>4 DEF UploadInv
  <2>4. ASSUME admitted' = admitted, judged \subseteq judged' PROVE AllJudged'
    BY <2>1, <2>4 DEF AllJudged
  <2>5. ASSUME NEW c \in Commits, NEW h \in Handles, CommitList(c, h) PROVE UploadInv'
    <3> DEFINE r == [pc |-> "listed", handle |-> h, keys |-> Present(staged)]
    <3>1. commit' = [commit EXCEPT ![c] = r] /\ admitted' = admitted /\ judged' = judged
      BY <2>5 DEF CommitList
    <3>2. r.pc = "listed"
      OBVIOUS
    <3> HIDE DEF r
    <3> QED BY <2>1, <2>3, <2>4, <3>1, <3>2
  <2>6. ASSUME NEW c \in Commits, Consume(c) PROVE UploadInv'
    <3>1. admitted' = admitted /\ judged' = judged /\ \A d \in Commits : ~Holding(d)
      BY <2>6 DEF Consume, Busy, Holding
    <3>2. PICK r : commit' = [commit EXCEPT ![c] = r] /\ (r = Quiet \/ r = Reading(commit[c].keys, <<>>))
      BY <2>6, Zenon DEF Consume, Reading
    <3>3. r.pc # "copying" /\ (r.pc = "reading" => r = Reading(r.keys, r.reads))
      BY <3>2 DEF Quiet, Reading
    <3> QED BY <2>1, <2>3, <2>4, <3>1, <3>2, <3>3
  <2>7. ASSUME NEW c \in Commits, NEW m \in Members, ReadHead(c, m) PROVE UploadInv'
    <3>1. PICK x : commit' = [commit EXCEPT ![c].reads = x]
      BY <2>7, Zenon DEF ReadHead
    <3>2. commit[c].pc = "reading" /\ admitted' = admitted /\ judged' = judged
      BY <2>7 DEF ReadHead
    <3>3. PICK k, z : commit[c] = [pc |-> "reading", keys |-> k, reads |-> z]
      BY <2>1, <3>2 DEF CopyInv, Reading
    <3>4. commit' = [commit EXCEPT ![c] = Reading(k, x)]
      <4>1. [commit[c] EXCEPT !.reads = x] = Reading(k, x)
        BY <3>3 DEF Reading
      <4>2. commit' = [commit EXCEPT ![c] = [commit[c] EXCEPT !.reads = x]]
        BY <3>1
      <4> QED BY <4>1, <4>2, Zenon
    <3>5. Reading(k, x).pc = "reading" /\ Reading(k, x).keys = k /\ Reading(k, x).reads = x
      BY DEF Reading
    <3>6. \A d \in Commits \ {c} : ~Holding(d)
      BY <2>1, <3>2 DEF CopyInv, Holding
    <3> QED BY <2>1, <2>3, <2>4, <3>2, <3>4, <3>5, <3>6
  <2>8. ASSUME NEW c \in Commits, Judge(c) PROVE UploadInv'
    <3>1. commit[c].pc = "reading" /\ commit[c].keys = DOMAIN commit[c].reads /\ admitted' = admitted
      BY <2>8 DEF Judge
    <3>2. \A d \in Commits \ {c} : ~Holding(d)
      BY <2>1, <3>1 DEF CopyInv, Holding
    <3>3. CASE judged' = judged /\ commit' = [commit EXCEPT ![c] = Quiet]
      <4>1. Quiet.pc = "idle"
        BY DEF Quiet
      <4> QED BY <2>1, <2>3, <2>4, <3>1, <3>3, <4>1
    <3>4. CASE /\ judged' = judged \cup {commit[c].reads}
               /\ commit' = [commit EXCEPT ![c] = Copying(commit[c].keys, commit[c].reads, {})]
      <4>1. PICK k, z : k = commit[c].keys /\ z = commit[c].reads
        OBVIOUS
      <4>2. PICK r : r = Copying(k, z, {})
        OBVIOUS
      <4>3. /\ r.pc = "copying" /\ r.keys = k /\ r.reads = z /\ r.copied = {} /\ commit' = [commit EXCEPT ![c] = r]
            /\ r = Copying(r.keys, r.reads, r.copied)
        BY <3>4, <4>1, <4>2 DEF Copying
      <4>4. commit'[c] = r
        BY <2>1, <4>3
      <4>5. InPlace(commit[c])'
        BY <3>1, <3>4, <4>1, <4>3, <4>4, Zenon DEF InPlace
      <4>6. AllJudged' /\ judged \subseteq judged' /\ admitted' = [m \in Members |-> admitted'[m]]
        BY <2>1, <2>4, <3>1, <3>4
      <4>7. r.pc # "reading"
        BY <4>3
      <4> QED BY <2>3, <3>2, <4>3, <4>5, <4>6, <4>7, Zenon
    <3> QED BY <2>8, <3>3, <3>4 DEF Judge, Copying
  <2>9. ASSUME NEW c \in Commits, NEW m \in Members, Copy(c, m) PROVE UploadInv'
    <3>1. commit[c].pc = "copying" /\ m \in commit[c].keys \ commit[c].copied /\ judged' = judged
      BY <2>9 DEF Copy
    <3>2. \A d \in Commits \ {c} : ~Holding(d)
      BY <2>1, <3>1 DEF CopyInv, Holding
    <3>3. InPlace(commit[c])
      BY <2>1, <3>1 DEF CopyInv
    <3>4. PICK k, z, w : commit[c] = [pc |-> "copying", keys |-> k, reads |-> z, copied |-> w]
      BY <2>1, <3>1 DEF CopyInv, Copying
    <3>5. CASE /\ staged[m] = commit[c].reads[m] /\ admitted' = [admitted EXCEPT ![m] = staged[m]]
               /\ commit' = [commit EXCEPT ![c].copied = commit[c].copied \cup {m}]
      <4>1. PICK r : r = Copying(k, z, w \cup {m})
        OBVIOUS
      <4>2. commit' = [commit EXCEPT ![c] = r]
        <5>1. PICK x : x = w \cup {m}
          BY Zenon
        <5>2. commit' = [commit EXCEPT ![c] = [commit[c] EXCEPT !.copied = x]]
          BY <3>4, <3>5, <5>1
        <5>3. [commit[c] EXCEPT !.copied = x] = r
          BY <3>4, <4>1, <5>1 DEF Copying
        <5> QED BY <5>2, <5>3, Zenon
      <4>3. /\ r.pc = "copying" /\ r.keys = k /\ r.reads = z /\ r.copied = w \cup {m}
            /\ r = Copying(r.keys, r.reads, r.copied) /\ commit'[c] = r
        BY <2>1, <4>1, <4>2 DEF Copying
      <4>4. /\ admitted' = [n \in Members |-> admitted'[n]] /\ admitted'[m] = z[m]
            /\ \A n \in Members \ {m} : admitted'[n] = admitted[n]
        BY <2>1, <3>4, <3>5
      <4>5. z \in judged /\ m \in DOMAIN z /\ w \subseteq k /\ \A n \in w : n \in Members /\ admitted[n] = z[n]
        BY <3>1, <3>3, <3>4 DEF InPlace
      <4>6. InPlace(commit[c])'
        BY <3>1, <3>3, <3>4, <4>3, <4>4, <4>5, SMTT(30) DEF InPlace
      <4>7. AllJudged'
        BY <2>1, <3>1, <4>4, <4>5 DEF AllJudged
      <4> QED BY <2>3, <3>1, <3>2, <4>2, <4>3, <4>4, <4>6, <4>7, Zenon
    <3>6. CASE admitted' = Without(admitted, commit[c].copied) /\ commit' = [commit EXCEPT ![c] = Quiet]
      <4>1. Quiet.pc = "idle"
        BY DEF Quiet
      <4>2. admitted' = [n \in Members |-> admitted'[n]] /\ AllJudged'
        BY <2>1, <3>1, <3>6 DEF Without, AllJudged
      <4> QED BY <2>3, <3>1, <3>2, <3>6, <4>1, <4>2, Zenon
    <3> QED BY <2>9, <3>5, <3>6 DEF Copy
  <2>10. ASSUME NEW c \in Commits, CommitAnswer(c) PROVE UploadInv'
    <3>1. commit' = [commit EXCEPT ![c] = Quiet] /\ admitted' = admitted /\ judged' = judged
      BY <2>10 DEF CommitAnswer
    <3>2. Quiet.pc = "idle"
      BY DEF Quiet
    <3> QED BY <2>1, <2>3, <2>4, <3>1, <3>2
  <2>11. ASSUME NEW p \in Passes, DeleteArtifacts(p) PROVE UploadInv'
    <3>1. /\ UNCHANGED <<commit, judged>> /\ admitted' = Without(admitted, Members)
          /\ \A c \in Commits : ~Holding(c)
      BY <2>11 DEF DeleteArtifacts, Busy, Holding
    <3>2. admitted' = [m \in Members |-> admitted'[m]] /\ AllJudged'
      BY <3>1 DEF Without, AllJudged
    <3> QED BY <2>1, <3>1, <3>2 DEF UploadInv, CopyInv, Holding
  <2>12. ASSUME Crash PROVE UploadInv'
    <3>1. UNCHANGED <<admitted, judged>> /\ commit' = [c \in Commits |-> Quiet]
      BY <2>12 DEF Crash
    <3>2. commit' = [c \in Commits |-> commit'[c]] /\ \A c \in Commits : commit'[c].pc = "idle"
      BY <3>1 DEF Quiet
    <3> QED BY <2>1, <2>4, <3>1, <3>2 DEF UploadInv, CopyInv, Holding
  <2>13. ASSUME NEW h \in Handles, MintCheck(h) \/ Mint(h) \/ \E ms \in SUBSET Members : Stage(h, ms) PROVE UploadInv'
    BY <2>2, <2>13 DEF MintCheck, Mint, Stage
  <2>14. ASSUME NEW m \in Members, Put(m) \/ \E area \in {"runs", "uploads"} : KernelFile(area, m) PROVE UploadInv'
    BY <2>2, <2>14 DEF Put, KernelFile, IsUploadReserved
  <2>15. CASE \/ \E t \in Tenants : KernelLookup(t) \/ KernelAct(t)
              \/ Suspend \/ Delete \/ CollectList \/ Collect \/ UNCHANGED vars
    BY <2>2, <2>15, ZenonT(30) DEF KernelLookup, KernelAct, Suspend, Delete, CollectList, Collect, uploadVars, vars
  <2>16. ASSUME NEW p \in Passes, PassStart(p) \/ PassStep(p) \/ PassFails(p) PROVE UploadInv'
    BY <2>2, <2>11, <2>16, Zenon DEF PassStart, PassStep, PassFails, DeleteRegistered, ListExperiments, Restore, Rename,
                       ListRenamed, DeleteModels, DeleteExperiment, Report, Server, uploadVars
  <2> QED BY <2>5, <2>6, <2>7, <2>8, <2>9, <2>10, <2>11, <2>12, <2>13, <2>14, <2>15, <2>16 DEF Next, Upload
<1>3. UploadInv => AdmittedWasJudged
  BY ZenonT(30) DEF UploadInv, CopyInv, AllJudged, InPlace, AdmittedWasJudged
<1> QED BY <1>1, <1>2, <1>3, PTL DEF Spec

\* A soft delete, a restore and a collection leave an experiment its name and its location.
LEMMA LifecycleMoves ==
  ASSUME NEW u \in Exps
  PROVE  /\ \A y \in {SoftDeleted(u), Restored(u), Destroyed(u)} : y \in Exps /\ y.name = u.name /\ y.loc = u.loc
         /\ SoftDeleted(u).life = "deleted" /\ Restored(u).life = "active" /\ Destroyed(u).life = "gone"
<1>1. PICK r, s \in {"none", "live", "deleted"} :
         /\ r = IF u.runs = "live" THEN "deleted" ELSE u.runs
         /\ s = IF u.runs = "deleted" THEN "live" ELSE u.runs
  BY DEF Exps
<1>2. u.name \in Seq(Parts) /\ u.loc \in Tenants /\ u.models \in BOOLEAN
  BY DEF Exps
<1>3. ASSUME NEW y, NEW l \in {"active", "deleted", "gone"}, NEW v \in {"none", "live", "deleted"},
             y = [name |-> u.name, loc |-> u.loc, life |-> l, models |-> u.models, runs |-> v]
      PROVE  y \in Exps /\ y.name = u.name /\ y.loc = u.loc /\ y.life = l
  BY <1>2, <1>3, Zenon DEF Exps, Lives
<1>4. PICK d, a, g : d = SoftDeleted(u) /\ a = Restored(u) /\ g = Destroyed(u)
  OBVIOUS
<1>5. /\ d = [name |-> u.name, loc |-> u.loc, life |-> "deleted", models |-> u.models, runs |-> r]
      /\ a = [name |-> u.name, loc |-> u.loc, life |-> "active", models |-> u.models, runs |-> s]
      /\ g = [name |-> u.name, loc |-> u.loc, life |-> "gone", models |-> u.models, runs |-> "none"]
  BY <1>1, <1>4 DEF SoftDeleted, Restored, Destroyed, Exps
<1>6. \A y \in {d, a, g} : y \in Exps /\ y.name = u.name /\ y.loc = u.loc
  BY <1>3, <1>5, Zenon
<1>7. d.life = "deleted" /\ a.life = "active" /\ g.life = "gone"
  BY <1>3, <1>5, Zenon
<1> QED BY <1>4, <1>6, <1>7, Zenon

\* What is known of the experiments and the versions holds in every state.
LEMMA ServerInvariance == Spec => []ServerInv
<1>1. Init => ServerInv
  <2> SUFFICES ASSUME Init PROVE ServerInv
    OBVIOUS
  <2>1. /\ kernel = [t \in Tenants |-> kernel[t]] /\ \A t \in Tenants : kernel[t].pc # "act"
        /\ pass = [p \in Passes |-> pass[p]] /\ \A p \in Passes : pass[p].pc = "idle"
        /\ collector = {} /\ versions = {}
    BY SMTT(30) DEF Init, Quiet, Silent
  <2>2. ASSUME NEW e \in Experiments
        PROVE  exp[e] \in Exps /\ exp[e].name # <<>> /\ Head(exp[e].name) = exp[e].loc
    <3>1. PICK t \in Tenants, l \in {"active", "deleted", "absent"} :
             exp[e] = [name |-> <<t>>, loc |-> t, life |-> l, models |-> FALSE,
                       runs |-> CASE l = "active" -> "live" [] l = "deleted" -> "deleted" [] OTHER -> "none"]
      BY SMTT(30) DEF Init
    <3>7. PICK u \in {"none", "live", "deleted"} :
             u = CASE l = "active" -> "live" [] l = "deleted" -> "deleted" [] OTHER -> "none"
      OBVIOUS
    <3>2. PICK S, n : S = Parts /\ n = <<t>>
      BY Zenon
    <3>3. t \in S
      BY <3>2 DEF Parts
    <3>4. n \in Seq(S) /\ n # <<>> /\ Head(n) = t
      BY <3>2, <3>3
    <3>5. exp[e] = [name |-> n, loc |-> t, life |-> l, models |-> FALSE, runs |-> u]
      BY <3>1, <3>2, <3>7
    <3>6. exp[e] \in Exps /\ exp[e].name = n /\ exp[e].loc = t
      BY <3>2, <3>4, <3>5, SMTT(30) DEF Exps, Lives
    <3> QED BY <3>4, <3>6
  <2>3. exp \in [Experiments -> Exps]
    BY <2>2, SMTT(30) DEF Init
  <2> QED BY <2>1, <2>2, <2>3 DEF ServerInv, NamesInv, KernelInv, PassInv, GoodPass, CollectorInv, VersionsInv
<1>2. ServerInv /\ [Next]_vars => ServerInv'
  <2> SUFFICES ASSUME ServerInv, [Next]_vars PROVE ServerInv'
    OBVIOUS
  <2> DEFINE Begun == {"deleting", "recorded"}
             Stays == /\ exp' \in [Experiments -> Exps]
                      /\ phase \in Begun => phase' \in Begun
                      /\ \A t \in Tenants : \A e \in Experiments : OfTenant(t, e) => OfTenant(t, e)'
                      /\ NamesInv'
  <2>1. /\ exp \in [Experiments -> Exps] /\ kernel = [t \in Tenants |-> kernel[t]] /\ pass = [p \in Passes |-> pass[p]]
        /\ NamesInv /\ KernelInv /\ PassInv /\ CollectorInv /\ VersionsInv /\ "tenant" \in Tenants
    BY DEF ServerInv, Tenants
  <2>2. ASSUME exp' = exp, phase' = phase \/ phase' \in Begun PROVE Stays
    BY <2>1, <2>2 DEF NamesInv, OfTenant
  <2>3. ASSUME NEW e \in Experiments, NEW y \in Exps, exp' = [exp EXCEPT ![e] = y], phase' = phase, y.name # <<>>,
               exp[e].life # "absent" => y.life # "absent" /\ y.loc = exp[e].loc,
               \/ Head(y.name) = y.loc
               \/ y.name = Deleted /\ y.life # "absent" /\ y.loc = "tenant" /\ phase \in Begun
        PROVE  Stays
    <3>1. exp' \in [Experiments -> Exps] /\ exp'[e] = y /\ \A d \in Experiments \ {e} : exp'[d] = exp[d]
      BY <2>1, <2>3
    <3>2. \A t \in Tenants : \A d \in Experiments : OfTenant(t, d) => OfTenant(t, d)'
      BY <2>3, <3>1 DEF OfTenant
    <3>3. ASSUME NEW d \in Experiments
          PROVE  /\ exp'[d].name # <<>>
                 /\ \/ Head(exp'[d].name) = exp'[d].loc
                    \/ exp'[d].name = Deleted /\ OfTenant("tenant", d)' /\ phase' \in Begun
      <4>1. CASE d = e
        BY <2>3, <3>1, <4>1 DEF OfTenant
      <4>2. CASE d # e
        BY <2>1, <2>3, <3>1, <3>2, <4>2 DEF NamesInv
      <4> QED BY <4>1, <4>2
    <3> QED BY <2>3, <3>1, <3>2, <3>3 DEF NamesInv
  <2>4. ASSUME Stays, NEW t \in Tenants, NEW r, GoodRequest(t, r) PROVE GoodRequest(t, r)'
    BY <2>4, Zenon DEF GoodRequest, OfTenant, Requests
  <2>5. ASSUME Stays, NEW r, GoodPass(r) PROVE GoodPass(r)'
    <3>1. r.pc = "rename" => /\ r = Renaming(r.todo)
                             /\ \A x \in r.todo : x \in [e : Experiments, life : Lives] /\ OfTenant("tenant", x.e)'
      BY <2>1, <2>5 DEF GoodPass
    <3>2. phase \in Begun => phase' \in Begun
      BY <2>5
    <3>3. /\ r.pc # "idle" => phase \in Begun
          /\ r.pc = "registered" => r = [pc |-> "registered", todo |-> r.todo]
          /\ r.pc \in {"models", "delete"} => r.todo \subseteq Experiments
          /\ r.pc = "delete" => r.e \in Experiments
      BY <2>5 DEF GoodPass
    <3> HIDE DEF Stays
    <3> QED BY <3>1, <3>2, <3>3 DEF GoodPass
  <2>6. ASSUME Stays, NEW t \in Tenants, kernel'[t] = kernel[t], kernel[t].pc = "act"
        PROVE  GoodRequest(t, kernel[t].request)'
    <3>1. PICK r : r = kernel[t].request
      OBVIOUS
    <3>2. GoodRequest(t, r)'
      BY <2>1, <2>4, <2>6, <3>1 DEF KernelInv
    <3>3. r = kernel'[t].request
      BY <2>6, <3>1
    <3> QED BY <3>2, <3>3
  <2>7. ASSUME Stays, NEW p \in Passes, pass'[p] = pass[p] PROVE GoodPass(pass[p])'
    <3>1. PICK r : r = pass[p]
      OBVIOUS
    <3>2. GoodPass(r)'
      BY <2>1, <2>5, <2>7, <3>1 DEF PassInv
    <3>3. r = pass'[p]
      BY <2>7, <3>1
    <3> QED BY <3>2, <3>3
  <2>8. ASSUME Stays, NEW p \in Passes, NEW r, pass' = [pass EXCEPT ![p] = r], GoodPass(r)'
        PROVE  PassInv' /\ pass' = [q \in Passes |-> pass'[q]]
    <3>1. pass'[p] = r /\ \A q \in Passes \ {p} : pass'[q] = pass[q]
      BY <2>1, <2>8
    <3>2. ASSUME NEW q \in Passes PROVE GoodPass(pass[q])'
      <4>1. CASE q = p
        BY <2>8, <3>1, <4>1
      <4>2. CASE q # p
        BY <2>7, <2>8, <3>1, <4>2
      <4> QED BY <4>1, <4>2
    <3> QED BY <2>1, <2>8, <3>2 DEF PassInv
  <2>9. ASSUME Stays, collector' \subseteq collector PROVE CollectorInv'
    <3> SUFFICES ASSUME NEW e \in collector' PROVE OfTenant("tenant", e)' /\ phase' \in Begun
      BY DEF CollectorInv
    <3>1. e \in Experiments /\ OfTenant("tenant", e) /\ phase \in Begun
      BY <2>1, <2>9 DEF CollectorInv, OfTenant
    <3> QED BY <2>1, <2>9, <3>1
  <2>10. ASSUME versions' \subseteq versions PROVE VersionsInv'
    BY <2>1, <2>10 DEF VersionsInv
  <2>15. ASSUME Stays, UNCHANGED <<kernel, collector>> PROVE KernelInv' /\ CollectorInv'
    BY <2>6, <2>9, <2>15, Zenon DEF KernelInv
  <2>16. ASSUME Stays, UNCHANGED pass PROVE PassInv'
    BY <2>7, <2>16 DEF PassInv
  <2>11. GoodPass(Quiet)'
    BY DEF GoodPass, Quiet
  \* What a name's prefix says.
  <2>17. Deleted \in Seq(Parts)
    <3>1. PICK S : S = Parts
      OBVIOUS
    <3>2. "deleted" \in S /\ "tenant" \in S
      BY <3>1 DEF Parts, Tenants
    <3> QED BY <3>1, <3>2 DEF Deleted
  <2>12. ASSUME NEW t \in Tenants, NEW e \in Experiments, Owned(<<t>>, exp[e].name) PROVE exp[e].loc = t
    <3>1. PICK n : n = exp[e].name
      OBVIOUS
    <3>2. n \in Seq(Parts) /\ n # <<>> /\ Owned(<<t>>, n)
      BY <2>1, <2>12, <3>1 DEF Exps, NamesInv
    <3>3. Len(<<t>>) = 1 /\ Head(<<t>>) = t
      OBVIOUS
    <3>4. SubSeq(n, 1, 1) = <<t>> /\ 1 \in 1..Len(n) /\ 1 \in 1..1 /\ 1 \in 1..Len(n)
      BY <3>2, <3>3 DEF Owned
    <3>5. n[1] = t
      BY <3>2, <3>3, <3>4, HeadTailOfSubSeq, Zenon
    <3>6. Head(n) = t
      BY <3>2, <3>5
    <3>7. Head(Deleted) = "deleted" /\ t # "deleted"
      BY DEF Deleted, Tenants
    <3> QED BY <2>1, <3>1, <3>6, <3>7 DEF NamesInv
  <2>13. ASSUME NEW e \in Experiments, Owned(Deleted, exp[e].name)
         PROVE  exp[e].name = Deleted /\ OfTenant("tenant", e) /\ phase \in Begun
    <3>1. PICK n : n = exp[e].name
      OBVIOUS
    <3>2. n \in Seq(Parts) /\ n # <<>> /\ Owned(Deleted, n) /\ exp[e].loc \in Tenants
      BY <2>1, <2>13, <3>1 DEF Exps, NamesInv
    <3>3. Len(Deleted) = 2 /\ Head(Deleted) = "deleted"
      BY DEF Deleted
    <3>4. SubSeq(n, 1, 2) = Deleted /\ 1 \in 1..Len(n) /\ 2 \in 1..Len(n)
      BY <3>2, <3>3 DEF Owned
    <3>5. n[1] = "deleted"
      BY <3>2, <3>3, <3>4, HeadTailOfSubSeq
    <3>6. Head(n) = "deleted"
      BY <3>2, <3>5
    <3>7. exp[e].loc # "deleted"
      BY <3>2 DEF Tenants
    <3> QED BY <2>1, <3>1, <3>6, <3>7 DEF NamesInv
  <2>14. ASSUME NEW t \in Tenants, NEW n \in AskedNames
         PROVE  QualifyName(t, n) \in Seq(Parts) /\ QualifyName(t, n) # <<>> /\ Head(QualifyName(t, n)) = t
    <3>1. n \in Seq(Parts)
      <4>1. PICK S, T : S = STRING /\ T = Parts
        OBVIOUS
      <4>2. n \in Seq(S) /\ S \subseteq T
        BY <4>1, TrackingBounds DEF Parts
      <4>3. n \in Seq(T)
        BY <4>2
      <4> QED BY <4>1, <4>3
    <3>2. CASE n # <<>> /\ Head(n) = t
      BY <3>1, <3>2 DEF QualifyName
    <3>3. CASE ~(n # <<>> /\ Head(n) = t)
      <4>1. QualifyName(t, n) = <<t>> \o n
        BY <3>3 DEF QualifyName
      <4>2. PICK S : S = Parts
        OBVIOUS
      <4>3. t \in S
        BY <4>2 DEF Parts
      <4>9. <<t>> \in Seq(S) /\ Len(<<t>>) = 1 /\ <<t>>[1] = t
        BY <4>3
      <4>4. PICK q : q = <<t>> \o n
        BY Zenon
      <4>5. q \in Seq(S) /\ Len(q) = 1 + Len(n) /\ Len(n) \in Nat
        BY <3>1, <4>2, <4>9, <4>4, ConcatProperties
      <4>6. q[1] = t
        BY <3>1, <4>2, <4>9, <4>4, <4>5, ConcatProperties
      <4>7. q # <<>>
        BY <4>5
      <4>8. Head(q) = t
        BY <4>5, <4>6
      <4> QED BY <4>1, <4>2, <4>4, <4>5, <4>7, <4>8
    <3> QED BY <3>2, <3>3
  \* The kernels.
  <2>20. ASSUME NEW t \in Tenants, KernelLookup(t) PROVE ServerInv'
    <3>1. UNCHANGED <<exp, versions, pass, collector, phase>>
      BY <2>20 DEF KernelLookup
    <3>2. PICK r \in Requests : EnsureOwns(t, r) /\ kernel' = [kernel EXCEPT ![t] = [pc |-> "act", request |-> r]]
      BY <2>20, Zenon DEF KernelLookup
    <3>3. Stays
      BY <2>2, <3>1
    <3>4. ASSUME r.route = "update" PROVE OfTenant(t, r.e)
      <4>1. r.e \in Experiments
        BY <3>2, <3>4 DEF Requests
      <4>2. OwnsExperiment(t, r.e)
        BY <3>2, <3>4, SMTT(30) DEF EnsureOwns, Routes
      <4> QED BY <2>12, <4>1, <4>2, Zenon DEF OwnsExperiment, OfTenant
    <3>5. ASSUME r.route = "create_version"
          PROVE  \/ r.source[1] \in {"run", "logged_model"} /\ OfTenant(t, r.source[2])
                 \/ r.source[1] \notin {"run", "logged_model"} /\ r.source[2] = t
      <4>1. r.source \in ({"run", "logged_model"} \X Experiments) \cup ({"artifact", "uri"} \X Tenants)
        BY <3>2, <3>5 DEF Requests
      <4>2. OwnsSource(t, r.source)
        BY <3>2, <3>5, SMTT(30) DEF EnsureOwns, Routes
      <4>3. CASE r.source[1] = "artifact" /\ r.source[2] = t
        BY <4>3
      <4>4. CASE r.source[1] \in {"run", "logged_model"} /\ OwnsExperiment(t, r.source[2])
        <5>1. r.source[2] \in Experiments
          BY <4>1, <4>4, Zenon
        <5> QED BY <2>12, <4>4, <5>1, Zenon DEF OwnsExperiment, OfTenant
      <4> QED BY <4>2, <4>3, <4>4, Zenon DEF OwnsSource, OwnsLoggedModel
    <3>6. GoodRequest(t, r)'
      BY <2>4, <3>2, <3>3, <3>4, <3>5, Zenon DEF GoodRequest
    <3>7. kernel' = [s \in Tenants |-> kernel'[s]] /\ kernel'[t].request = r /\ \A s \in Tenants \ {t} : kernel'[s] = kernel[s]
      BY <2>1, <3>2
    <3>8. KernelInv'
      <4> SUFFICES ASSUME NEW s \in Tenants, kernel'[s].pc = "act" PROVE GoodRequest(s, kernel[s].request)'
        BY DEF KernelInv
      <4>1. CASE s = t
        BY <3>6, <3>7, <4>1, Zenon DEF GoodRequest, OfTenant, Requests
      <4>2. CASE s # t
        BY <2>6, <3>3, <3>7, <4>2, Zenon
      <4> QED BY <4>1, <4>2
    <3> QED BY <2>1, <2>16, <2>9, <2>10, <3>1, <3>3, <3>7, <3>8, Zenon DEF ServerInv
  <2>21. ASSUME NEW t \in Tenants, KernelAct(t) PROVE ServerInv'
    <3>1. /\ UNCHANGED <<pass, collector, phase>> /\ kernel' = [kernel EXCEPT ![t] = Quiet] /\ kernel[t].pc = "act"
      BY <2>21, Zenon DEF KernelAct
    <3>2. PICK r : r = kernel[t].request
      OBVIOUS
    <3>3. GoodRequest(t, r)
      BY <2>1, <3>1, <3>2 DEF KernelInv
    <3>4. r \in Requests
      BY <3>3, Zenon DEF GoodRequest
    <3> DEFINE name == QualifyName(t, r.name)
    <3>5. Stays /\ VersionsInv'
      <4>1. ASSUME NEW e \in Experiments, NEW y \in Exps, exp' = [exp EXCEPT ![e] = y], versions' = versions,
                   exp[e].life # "absent" => y.life # "absent", y.loc = exp[e].loc, y.name = exp[e].name
            PROVE  Stays /\ VersionsInv'
        <5> HIDE DEF Stays
        <5>1. /\ exp[e].name # <<>>
              /\ \/ Head(exp[e].name) = exp[e].loc
                 \/ exp[e].name = Deleted /\ OfTenant("tenant", e) /\ phase \in Begun
          BY <2>1 DEF NamesInv
        <5>2. OfTenant("tenant", e) => y.loc = "tenant" /\ y.life # "absent"
          BY <4>1 DEF OfTenant
        <5>3. /\ y.name # <<>>
              /\ \/ Head(y.name) = y.loc
                 \/ y.name = Deleted /\ y.life # "absent" /\ y.loc = "tenant" /\ phase \in Begun
          BY <4>1, <5>1, <5>2, Zenon
        <5>4. Stays
          BY <2>3, <3>1, <4>1, <5>3, Zenon
        <5> QED BY <2>10, <4>1, <5>4
      <4>2. CASE /\ r.route = "create" /\ exp[r.e].life = "absent" /\ versions' = versions
                 /\ exp' = [exp EXCEPT ![r.e] = [name |-> name, loc |-> t, life |-> "active", models |-> FALSE, runs |-> "none"]]
        <5>1. r.e \in Experiments /\ r.name \in AskedNames
          BY <3>4, <4>2, Zenon DEF Requests
        <5>2. name \in Seq(Parts) /\ name # <<>> /\ Head(name) = t
          BY <2>14, <5>1
        <5> HIDE DEF name
        <5>3. PICK y : y = [name |-> name, loc |-> t, life |-> "active", models |-> FALSE, runs |-> "none"]
          BY Zenon
        <5>4. y \in Exps /\ y.name = name /\ y.loc = t
          BY <5>2, <5>3, Zenon DEF Exps, Lives
        <5>5. Stays
          BY <2>3, <3>1, <4>2, <5>1, <5>2, <5>3, <5>4, Zenon
        <5> QED BY <2>10, <4>2, <5>5, Zenon
      <4>3. CASE /\ r.route = "update" /\ exp[r.e].life = "active" /\ versions' = versions
                 /\ exp' = [exp EXCEPT ![r.e] = [exp[r.e] EXCEPT !.name = name]]
        <5>1. r.e \in Experiments /\ r.name \in AskedNames /\ OfTenant(t, r.e)
          BY <3>3, <3>4, <4>3 DEF Requests, GoodRequest
        <5>2. name \in Seq(Parts) /\ name # <<>> /\ Head(name) = t
          BY <2>14, <5>1
        <5> HIDE DEF name
        <5>3. PICK x \in Exps : x = exp[r.e]
          BY <2>1, <5>1
        <5>4. PICK y : y = [x EXCEPT !.name = name]
          BY Zenon
        <5>5. y \in Exps /\ y.name = name /\ y.loc = x.loc /\ y.life = x.life
          BY <5>2, <5>3, <5>4, Zenon DEF Exps
        <5>6. y.loc = t /\ y.life = "active" /\ exp' = [exp EXCEPT ![r.e] = y] /\ y.loc = exp[r.e].loc
          BY <4>3, <5>1, <5>3, <5>4, <5>5 DEF OfTenant
        <5>7. Stays
          <6> HIDE DEF Stays
          <6> QED BY <2>3, <3>1, <5>1, <5>2, <5>5, <5>6, Zenon
        <5> QED BY <2>10, <4>3, <5>7
      <4>4. CASE /\ r.route \in {"delete", "restore"} /\ versions' = versions
                 /\ \E y \in {SoftDeleted(exp[r.e]), Restored(exp[r.e])} : exp' = [exp EXCEPT ![r.e] = y]
        <5>1. r.e \in Experiments
          BY <3>4, <4>4 DEF Requests
        <5>2. PICK x \in Exps : x = exp[r.e]
          BY <2>1, <5>1
        <5>3. PICK y \in {SoftDeleted(x), Restored(x)} : exp' = [exp EXCEPT ![r.e] = y]
          BY <4>4, <5>2, Zenon
        <5>4. y \in Exps /\ y.name = x.name /\ y.loc = x.loc /\ y.life # "absent"
          BY <5>2, <5>3, LifecycleMoves
        <5> HIDE DEF Stays
        <5> QED BY <4>1, <4>4, <5>1, <5>2, <5>3, <5>4, Zenon
      <4>5. CASE /\ r.route \in {"log_model", "delete_model", "create_run", "delete_run", "restore_run"} /\ versions' = versions
                 /\ \/ \E b \in BOOLEAN : exp' = [exp EXCEPT ![r.e] = [exp[r.e] EXCEPT !.models = b]]
                    \/ \E l \in {"live", "deleted"} : exp' = [exp EXCEPT ![r.e] = [exp[r.e] EXCEPT !.runs = l]]
        <5>1. r.e \in Experiments
          BY <3>4, <4>5 DEF Requests
        <5>2. PICK x \in Exps : x = exp[r.e]
          BY <2>1, <5>1
        <5>3. PICK b \in BOOLEAN, l \in {"live", "deleted"} :
                 exp' = [exp EXCEPT ![r.e] = [x EXCEPT !.models = b]] \/ exp' = [exp EXCEPT ![r.e] = [x EXCEPT !.runs = l]]
          BY <4>5, <5>2, Zenon
        <5>4. PICK y \in {[x EXCEPT !.models = b], [x EXCEPT !.runs = l]} : exp' = [exp EXCEPT ![r.e] = y]
          BY <5>3, Zenon
        <5>5. y \in Exps /\ y.name = x.name /\ y.loc = x.loc /\ y.life = x.life
          BY <5>2, <5>4 DEF Exps
        <5> HIDE DEF Stays
        <5> QED BY <4>1, <4>5, <5>1, <5>2, <5>4, <5>5, Zenon
      <4>6. ASSUME r.route = "create_version", exp' = exp,
                   NEW b, b = IF r.source[1] \in {"run", "logged_model"} THEN exp[r.source[2]].loc ELSE r.source[2],
                   versions' = versions \cup {[name |-> name, bytes |-> b]}
            PROVE  Stays /\ VersionsInv'
        <5>1. r.name \in AskedNames
          BY <3>4, <4>6, Zenon DEF Requests
        <5>2. name \in Seq(Parts) /\ name # <<>> /\ Head(name) = t
          BY <2>14, <5>1
        <5> HIDE DEF name
        <5>3. b = t
          BY <3>3, <4>6, Zenon DEF GoodRequest, OfTenant
        <5>4. VersionsInv'
          BY <2>1, <4>6, <5>2, <5>3 DEF VersionsInv
        <5> QED BY <2>2, <3>1, <4>6, <5>4, Zenon
      <4>9. ASSUME r.route = "rename_models", exp' = exp, NEW new, new = QualifyName(t, r.new),
                   versions' = {IF v.name = name THEN [v EXCEPT !.name = new] ELSE v : v \in versions}
            PROVE  Stays /\ VersionsInv'
        <5>1. r.name \in AskedNames /\ r.new \in AskedNames
          BY <3>4, <4>9 DEF Requests
        <5>2. Head(name) = t /\ new \in Seq(Parts) /\ new # <<>> /\ Head(new) = t
          BY <2>14, <4>9, <5>1
        <5> HIDE DEF name
        <5>3. ASSUME NEW w \in versions' PROVE w \in [name : Seq(Parts), bytes : Tenants] /\ w.name # <<>> /\ Head(w.name) = w.bytes
          <6>1. PICK v \in versions : w = IF v.name = name THEN [v EXCEPT !.name = new] ELSE v
            BY <4>9
          <6>2. v.name # <<>> /\ Head(v.name) = v.bytes /\ v \in [name : Seq(Parts), bytes : Tenants]
            BY <2>1 DEF VersionsInv
          <6>3. CASE v.name = name
            <7>1. w \in [name : Seq(Parts), bytes : Tenants] /\ w.name = new /\ w.bytes = v.bytes
              BY <5>2, <6>1, <6>2, <6>3
            <7> QED BY <5>2, <6>2, <6>3, <7>1
          <6> QED BY <6>1, <6>2, <6>3
        <5> QED BY <2>2, <3>1, <4>9, <5>3, Zenon DEF VersionsInv
      <4>7. CASE exp' = exp /\ versions' \subseteq versions
        BY <2>2, <2>10, <3>1, <4>7, Zenon
      <4> HIDE DEF Stays
      <4>8. \/ r.route = "create" /\ exp[r.e].life = "absent" /\ exp' = [exp EXCEPT ![r.e] = [name |-> name, loc |-> t, life |-> "active", models |-> FALSE, runs |-> "none"]] /\ versions' = versions
            \/ r.route = "update" /\ exp[r.e].life = "active" /\ exp' = [exp EXCEPT ![r.e] = [exp[r.e] EXCEPT !.name = name]] /\ versions' = versions
            \/ r.route = "delete" /\ exp' = [exp EXCEPT ![r.e] = SoftDeleted(exp[r.e])] /\ versions' = versions
            \/ r.route = "restore" /\ exp' = [exp EXCEPT ![r.e] = Restored(exp[r.e])] /\ versions' = versions
            \/ r.route = "log_model" /\ exp' = [exp EXCEPT ![r.e] = [exp[r.e] EXCEPT !.models = TRUE]] /\ versions' = versions
            \/ r.route = "delete_model" /\ exp' = [exp EXCEPT ![r.e] = [exp[r.e] EXCEPT !.models = FALSE]] /\ versions' = versions
            \/ r.route = "create_run" /\ exp' = [exp EXCEPT ![r.e] = [exp[r.e] EXCEPT !.runs = "live"]] /\ versions' = versions
            \/ r.route = "delete_run" /\ exp' = [exp EXCEPT ![r.e] = [exp[r.e] EXCEPT !.runs = "deleted"]] /\ versions' = versions
            \/ r.route = "restore_run" /\ exp' = [exp EXCEPT ![r.e] = [exp[r.e] EXCEPT !.runs = "live"]] /\ versions' = versions
            \/ /\ r.route = "rename_models" /\ exp' = exp
               /\ versions' = {IF v.name = name THEN [v EXCEPT !.name = QualifyName(t, r.new)] ELSE v : v \in versions}
            \/ /\ r.route = "create_version" /\ exp' = exp
               /\ versions' = versions \cup {[name |-> name, bytes |-> IF r.source[1] \in {"run", "logged_model"} THEN exp[r.source[2]].loc ELSE r.source[2]]}
            \/ exp' = exp /\ versions' = {v \in versions : v.name # name}
            \/ exp' = exp /\ versions' = versions
        BY <2>21, <3>2, ZenonT(30) DEF KernelAct
      <4> HIDE DEF name
      <4> QED BY <4>2, <4>3, <4>4, <4>5, <4>6, <4>7, <4>8, <4>9, Zenon
    <3>6. kernel' = [s \in Tenants |-> kernel'[s]] /\ KernelInv'
      <4>1. /\ kernel' = [s \in Tenants |-> kernel'[s]] /\ kernel'[t].pc = "idle"
            /\ \A s \in Tenants \ {t} : kernel'[s] = kernel[s]
        BY <2>1, <3>1, Zenon DEF Quiet
      <4>2. ASSUME NEW s \in Tenants, kernel'[s].pc = "act" PROVE GoodRequest(s, kernel[s].request)'
        BY <2>6, <3>5, <4>1, <4>2
      <4> QED BY <4>1, <4>2 DEF KernelInv
    <3>7. PassInv' /\ CollectorInv' /\ pass' = [p \in Passes |-> pass'[p]]
      BY <2>1, <2>16, <2>9, <3>1, <3>5, Zenon
    <3> QED BY <3>5, <3>6, <3>7, SMTT(30) DEF ServerInv
  \* The emptying.
  <2>37. ASSUME NEW p \in Passes, PassStart(p) \/ DeleteRegistered(p) \/ DeleteArtifacts(p) PROVE ServerInv'
    <3>1. UNCHANGED <<exp, kernel, collector, phase>> /\ versions' \subseteq versions
      BY <2>37, Zenon DEF PassStart, DeleteRegistered, DeleteArtifacts
    <3>2. PICK q : /\ pass' = [pass EXCEPT ![p] = q]
                   /\ q.pc = "list" \/ (q.pc = "registered" /\ q = [pc |-> "registered", todo |-> q.todo])
      <4>4. ASSUME NEW d, pass' = [pass EXCEPT ![p] = [pc |-> "registered", todo |-> d]]
            PROVE  \E q : /\ pass' = [pass EXCEPT ![p] = q]
                          /\ q.pc = "list" \/ (q.pc = "registered" /\ q = [pc |-> "registered", todo |-> q.todo])
        <5>1. PICK q : q = [pc |-> "registered", todo |-> d]
          BY Zenon
        <5>2. q.pc = "registered" /\ q.todo = d
          BY <5>1
        <5> QED BY <4>4, <5>1, <5>2, Zenon
      <4>1. CASE PassStart(p)
        BY <4>1, <4>4, Zenon DEF PassStart
      <4>2. CASE DeleteRegistered(p)
        <5>1. PICK d, n : d = pass[p].todo /\ n \in d /\ pass' = [pass EXCEPT ![p].todo = @ \ {n}]
          BY <4>2 DEF DeleteRegistered
        <5>2. pass[p] = [pc |-> "registered", todo |-> d]
          BY <2>1, <4>2, <5>1, Zenon DEF PassInv, GoodPass, DeleteRegistered
        <5>3. pass' = [pass EXCEPT ![p] = [pc |-> "registered", todo |-> d \ {n}]]
          <6>1. [pass[p] EXCEPT !.todo = @ \ {n}] = [pc |-> "registered", todo |-> d \ {n}]
            BY <5>2
          <6> QED BY <5>1, <6>1, Zenon
        <5> QED BY <4>4, <5>3, Zenon
      <4>3. CASE DeleteArtifacts(p)
        <5>1. PICK q : q = [pc |-> "list"]
          BY Zenon
        <5>2. q.pc = "list"
          BY <5>1
        <5> QED BY <4>3, <5>1, <5>2, Zenon DEF DeleteArtifacts
      <4> QED BY <2>37, <4>1, <4>2, <4>3
    <3>3. phase \in Begun
      BY <2>1, <2>37, Zenon DEF PassStart, DeleteRegistered, DeleteArtifacts, PassInv, GoodPass
    <3>4. Stays
      BY <2>2, <3>1, Zenon
    <3>5. GoodPass(q)'
      BY <3>1, <3>2, <3>3, Zenon DEF GoodPass
    <3>6. PassInv' /\ pass' = [r \in Passes |-> pass'[r]]
      BY <2>8, <3>2, <3>4, <3>5, Zenon
    <3> QED BY <2>1, <2>10, <2>15, <3>1, <3>4, <3>6, Zenon DEF ServerInv
  <2>22. ASSUME NEW p \in Passes, ListExperiments(p) PROVE ServerInv'
    <3> DEFINE todo == {[e |-> e, life |-> exp[e].life] : e \in Named(<<"tenant">>)}
    <3>1. /\ UNCHANGED <<exp, versions, kernel, collector, phase>> /\ phase \in Begun
          /\ pass' = [pass EXCEPT ![p] = Renaming(todo)]
      BY <2>1, <2>22, Zenon DEF ListExperiments, Renaming, PassInv, GoodPass
    <3>2. Stays
      BY <2>2, <3>1, Zenon
    <3>3. ASSUME NEW x \in todo PROVE x \in [e : Experiments, life : Lives] /\ OfTenant("tenant", x.e)
      <4>1. PICK e \in Named(<<"tenant">>) : x = [e |-> e, life |-> exp[e].life]
        BY <3>3, Zenon
      <4>2. e \in Experiments /\ exp[e].life \in {"active", "deleted"} /\ Owned(<<"tenant">>, exp[e].name)
        BY <4>1, Zenon DEF Named
      <4>3. OfTenant("tenant", e)
        BY <2>1, <2>12, <4>2, Zenon DEF OfTenant
      <4>4. x.e = e /\ x \in [e : Experiments, life : Lives]
        BY <4>1, <4>2, Zenon DEF Lives
      <4> QED BY <4>3, <4>4, Zenon
    <3> HIDE DEF todo
    <3>4. PICK d, q : d = todo /\ q = Renaming(d)
      OBVIOUS
    <3>5. q.pc = "rename" /\ q.todo = d
      BY <3>4 DEF Renaming
    <3>6. GoodPass(q)'
      BY <3>1, <3>3, <3>4, <3>5, Zenon DEF GoodPass, OfTenant
    <3>7. PassInv' /\ pass' = [r \in Passes |-> pass'[r]]
      BY <2>8, <3>1, <3>2, <3>4, <3>6, Zenon
    <3> QED BY <2>1, <2>10, <2>15, <3>1, <3>2, <3>7, Zenon DEF ServerInv
  \* A call of the pass on an experiment that keeps its tenant.
  <2>23. ASSUME NEW p \in Passes, NEW ok, NEW e \in Experiments, NEW y \in Exps, NEW q,
                Server(p, ok, e, y, q), ok => exp[e].life # "absent" /\ y.life # "absent", y.loc = exp[e].loc,
                y.name = exp[e].name \/ (y.name = Deleted /\ OfTenant("tenant", e) /\ phase \in Begun),
                ok /\ Stays => GoodPass(q)'
         PROVE  ServerInv'
    <3>1. UNCHANGED <<versions, kernel, collector, phase>>
      BY <2>23, Zenon DEF Server
    <3>2. CASE ~ok
      <4>1. exp' = exp /\ pass' = [pass EXCEPT ![p] = Quiet]
        BY <2>23, <3>2 DEF Server
      <4>2. Stays
        BY <2>2, <3>1, <4>1
      <4>3. PassInv' /\ pass' = [r \in Passes |-> pass'[r]]
        <5>1. PICK z : z = Quiet
          OBVIOUS
        <5>2. GoodPass(z)'
          BY <2>11, <5>1 DEF Quiet
        <5> QED BY <2>8, <4>1, <4>2, <5>1, <5>2, Zenon
      <4> QED BY <2>1, <2>10, <2>15, <3>1, <4>2, <4>3, Zenon DEF ServerInv
    <3>3. CASE ok
      <4>1. exp' = [exp EXCEPT ![e] = y] /\ pass' = [pass EXCEPT ![p] = q]
        BY <2>23, <3>3 DEF Server
      <4>2. /\ exp[e].name # <<>>
            /\ \/ Head(exp[e].name) = exp[e].loc
               \/ exp[e].name = Deleted /\ OfTenant("tenant", e) /\ phase \in Begun
        BY <2>1 DEF NamesInv
      <4>3. OfTenant("tenant", e) => y.loc = "tenant"
        BY <2>23, Zenon DEF OfTenant
      <4>4. Deleted # <<>>
        BY DEF Deleted
      <4>5. Stays
        <5> HIDE DEF Stays
        <5>1. /\ y.name # <<>>
              /\ \/ Head(y.name) = y.loc
                 \/ y.name = Deleted /\ y.loc = "tenant" /\ phase \in Begun
          BY <2>23, <4>2, <4>3, <4>4, Zenon
        <5> QED BY <2>3, <2>23, <3>1, <3>3, <4>1, <5>1, Zenon
      <4>6. PassInv' /\ pass' = [r \in Passes |-> pass'[r]]
        BY <2>8, <2>23, <3>3, <4>1, <4>5, Zenon
      <4> QED BY <2>10, <2>15, <3>1, <4>5, <4>6, <2>1, Zenon DEF ServerInv
    <3> QED BY <3>2, <3>3
  <2>24. ASSUME NEW p \in Passes, Restore(p) PROVE ServerInv'
    <3>1. PICK x \in pass[p].todo :
             /\ x.life = "deleted"
             /\ Server(p, exp[x.e].life = "deleted", x.e, Restored(exp[x.e]),
                       [pass[p] EXCEPT !.todo = (@ \ {x}) \cup {[x EXCEPT !.life = "active"]}])
      BY <2>24, Zenon DEF Restore
    <3>2. pass[p].pc = "rename" /\ GoodPass(pass[p])
      BY <2>1, <2>24 DEF Restore, PassInv
    <3>3. PICK e, z, d : e = x.e /\ z = [x EXCEPT !.life = "active"] /\ d = pass[p].todo
      BY Zenon
    <3>4. /\ phase \in Begun /\ pass[p] = Renaming(d) /\ x \in [e : Experiments, life : Lives]
          /\ \A w \in d : w \in [e : Experiments, life : Lives] /\ OfTenant("tenant", w.e)
      BY <3>2, <3>3 DEF GoodPass
    <3>5. e \in Experiments /\ z \in [e : Experiments, life : Lives] /\ z.e = e /\ OfTenant("tenant", e)
      BY <3>1, <3>3, <3>4 DEF Lives
    <3>6. PICK u, y : u \in Exps /\ u = exp[e] /\ y = Restored(u)
      BY <2>1, <3>5, Zenon
    <3>7. y \in Exps /\ y.life = "active" /\ y.name = u.name /\ y.loc = u.loc
      BY <3>6, LifecycleMoves, Zenon
    <3>8. PICK f, q : f = (d \ {x}) \cup {z} /\ q = Renaming(f)
      BY Zenon
    <3>9. q.pc = "rename" /\ q.todo = f /\ [pass[p] EXCEPT !.todo = (@ \ {x}) \cup {[x EXCEPT !.life = "active"]}] = q
      BY <3>3, <3>4, <3>8, SMTT(30) DEF Renaming
    <3>10. ASSUME Stays PROVE GoodPass(q)'
      <4>1. \A w \in f : w \in [e : Experiments, life : Lives] /\ OfTenant("tenant", w.e)'
        BY <2>1, <3>4, <3>5, <3>8, <3>10, Zenon
      <4>2. phase' \in Begun
        BY <3>4, <3>10, Zenon
      <4> HIDE DEF Stays
      <4> QED BY <3>8, <3>9, <4>1, <4>2, Zenon DEF GoodPass
    <3>11. Server(p, u.life = "deleted", e, y, q)
      BY <3>1, <3>3, <3>6, <3>9, Zenon
    <3> HIDE DEF Stays
    <3> QED BY <2>23, <3>5, <3>6, <3>7, <3>10, <3>11, Zenon
  <2>25. ASSUME NEW p \in Passes, Rename(p) PROVE ServerInv'
    <3>1. PICK x \in pass[p].todo :
             /\ x.life = "active"
             /\ Server(p, exp[x.e].life = "active", x.e, [exp[x.e] EXCEPT !.name = Deleted],
                       [pass[p] EXCEPT !.todo = @ \ {x}])
      BY <2>25, Zenon DEF Rename
    <3>2. pass[p].pc = "rename" /\ GoodPass(pass[p])
      BY <2>1, <2>25 DEF Rename, PassInv
    <3>3. PICK e, d : e = x.e /\ d = pass[p].todo
      OBVIOUS
    <3>4. /\ phase \in Begun /\ pass[p] = Renaming(d) /\ x \in [e : Experiments, life : Lives]
          /\ \A w \in d : w \in [e : Experiments, life : Lives] /\ OfTenant("tenant", w.e)
      BY <3>2, <3>3, Zenon DEF GoodPass
    <3>5. e \in Experiments /\ OfTenant("tenant", e)
      BY <3>1, <3>3, <3>4
    <3>6. PICK u, y, n : u \in Exps /\ u = exp[e] /\ n = Deleted /\ y = [u EXCEPT !.name = n]
      BY <2>1, <3>5, ZenonT(30)
    <3>7. y \in Exps /\ y.life = u.life /\ y.name = n /\ y.loc = u.loc
      BY <2>17, <3>6 DEF Exps
    <3>8. PICK f, q : f = d \ {x} /\ q = Renaming(f)
      BY Zenon
    <3>9. q.pc = "rename" /\ q.todo = f /\ [pass[p] EXCEPT !.todo = @ \ {x}] = q
      BY <3>3, <3>4, <3>8 DEF Renaming
    <3>10. ASSUME Stays PROVE GoodPass(q)'
      <4>1. \A w \in f : w \in [e : Experiments, life : Lives] /\ OfTenant("tenant", w.e)'
        BY <2>1, <3>4, <3>8, <3>10
      <4>2. phase' \in Begun
        BY <3>4, <3>10
      <4> HIDE DEF Stays
      <4> QED BY <3>8, <3>9, <4>1, <4>2, Zenon DEF GoodPass
    <3>11. Server(p, u.life = "active", e, y, q)
      BY <3>1, <3>3, <3>6, <3>9
    <3>12. u.life = "active" => u.life # "absent" /\ y.life # "absent"
      BY <3>7, Zenon
    <3> HIDE DEF Stays
    <3> QED BY <2>23, <3>4, <3>5, <3>6, <3>7, <3>10, <3>11, <3>12, Zenon
  <2>26. ASSUME NEW p \in Passes, ListRenamed(p) PROVE ServerInv'
    <3> DEFINE todo == {e \in Named(Deleted) : exp[e].life = "active"}
    <3>1. /\ UNCHANGED <<exp, versions, kernel, collector, phase>> /\ GoodPass(pass[p]) /\ pass[p].pc = "rename"
          /\ pass' = [pass EXCEPT ![p] = [pc |-> "models", todo |-> todo]]
      BY <2>1, <2>26, Zenon DEF ListRenamed, PassInv
    <3>2. todo \subseteq Experiments
      BY DEF Named
    <3> HIDE DEF todo
    <3>3. PICK q : q = [pc |-> "models", todo |-> todo]
      BY Zenon
    <3>4. q.pc = "models" /\ q.todo \subseteq Experiments /\ phase' \in Begun
      BY <3>1, <3>2, <3>3, Zenon DEF GoodPass
    <3>5. GoodPass(q)'
      BY <3>4, Zenon DEF GoodPass
    <3>6. Stays
      BY <2>2, <3>1, Zenon
    <3>7. PassInv' /\ pass' = [r \in Passes |-> pass'[r]]
      BY <2>8, <3>1, <3>3, <3>5, <3>6, Zenon
    <3> QED BY <2>1, <2>10, <2>15, <3>1, <3>6, <3>7, Zenon DEF ServerInv
  <2>27. ASSUME NEW p \in Passes, DeleteModels(p) PROVE ServerInv'
    <3>1. PICK e \in pass[p].todo :
             Server(p, exp[e].life \in {"active", "deleted"}, e, [exp[e] EXCEPT !.models = FALSE],
                    [pc |-> "delete", e |-> e, todo |-> pass[p].todo \ {e}])
      BY <2>27, Zenon DEF DeleteModels
    <3>2. pass[p].pc = "models" /\ GoodPass(pass[p])
      BY <2>1, <2>27 DEF DeleteModels, PassInv
    <3>3. phase \in Begun /\ pass[p].todo \subseteq Experiments /\ e \in Experiments
      BY <3>1, <3>2 DEF GoodPass
    <3>4. PICK u, y, b : u \in Exps /\ u = exp[e] /\ b = FALSE /\ y = [u EXCEPT !.models = b]
      BY <2>1, <3>3, ZenonT(30)
    <3>5. y \in Exps /\ y.life = u.life /\ y.name = u.name /\ y.loc = u.loc
      BY <3>4, Zenon DEF Exps
    <3>6. PICK d, q : d = pass[p].todo \ {e} /\ q = [pc |-> "delete", e |-> e, todo |-> d]
      BY Zenon
    <3>7. q.pc = "delete" /\ q.e = e /\ q.todo = d
      BY <3>6, Zenon
    <3>8. ASSUME Stays PROVE GoodPass(q)'
      BY <3>3, <3>6, <3>7, <3>8, Zenon DEF GoodPass
    <3>9. Server(p, u.life \in {"active", "deleted"}, e, y, q)
      BY <3>1, <3>4, <3>6, Zenon
    <3>10. u.life \in {"active", "deleted"} => u.life # "absent" /\ y.life # "absent"
      BY <3>5, Zenon
    <3> HIDE DEF Stays
    <3> QED BY <2>23, <3>3, <3>4, <3>5, <3>8, <3>9, <3>10, Zenon
  <2>28. ASSUME NEW p \in Passes, DeleteExperiment(p) PROVE ServerInv'
    <3>1. Server(p, exp[pass[p].e].life = "active", pass[p].e, SoftDeleted(exp[pass[p].e]),
                 [pc |-> "models", todo |-> pass[p].todo])
      BY <2>28 DEF DeleteExperiment
    <3>2. pass[p].pc = "delete" /\ GoodPass(pass[p])
      BY <2>1, <2>28 DEF DeleteExperiment, PassInv
    <3>3. PICK e, d : e = pass[p].e /\ d = pass[p].todo
      OBVIOUS
    <3>4. phase \in Begun /\ d \subseteq Experiments /\ e \in Experiments
      BY <3>2, <3>3, Zenon DEF GoodPass
    <3>5. PICK u, y : u \in Exps /\ u = exp[e] /\ y = SoftDeleted(u)
      BY <2>1, <3>4, Zenon
    <3>6. y \in Exps /\ y.life = "deleted" /\ y.name = u.name /\ y.loc = u.loc
      BY <3>5, LifecycleMoves, Zenon
    <3>7. PICK q : q = [pc |-> "models", todo |-> d]
      BY Zenon
    <3>8. q.pc = "models" /\ q.todo = d
      BY <3>7
    <3>9. ASSUME Stays PROVE GoodPass(q)'
      BY <3>4, <3>8, <3>9, Zenon DEF GoodPass
    <3>10. Server(p, u.life = "active", e, y, q)
      BY <3>1, <3>3, <3>5, <3>7
    <3> HIDE DEF Stays
    <3> QED BY <2>23, <3>4, <3>5, <3>6, <3>9, <3>10, Zenon
  <2>29. ASSUME NEW p \in Passes, Report(p) \/ PassFails(p) PROVE ServerInv'
    <3>1. UNCHANGED <<exp, versions, kernel, collector>> /\ pass' = [pass EXCEPT ![p] = Quiet]
      BY <2>29, Zenon DEF Report, PassFails
    <3>2. phase' = phase \/ phase' \in Begun
      BY <2>29, Zenon DEF Report, PassFails
    <3>3. Stays
      BY <2>2, <3>1, <3>2
    <3>4. PICK z : z = Quiet
      OBVIOUS
    <3>5. GoodPass(z)'
      BY <2>11, <3>4 DEF Quiet
    <3>6. PassInv' /\ pass' = [r \in Passes |-> pass'[r]]
      BY <2>8, <3>1, <3>3, <3>4, <3>5, Zenon
    <3> QED BY <2>1, <2>10, <2>15, <3>1, <3>3, <3>6, SMTT(30) DEF ServerInv
  \* The collector, the phases, a crash, and the upload plane.
  <2>30. ASSUME UNCHANGED <<exp, versions, kernel, pass, collector>>, phase' = phase \/ phase' \in Begun \/ phase = "active"
         PROVE  ServerInv'
    <3>1. Stays
      BY <2>1, <2>30, Zenon DEF NamesInv, OfTenant
    <3> QED BY <2>1, <2>10, <2>15, <2>16, <2>30, <3>1, Zenon DEF ServerInv
  <2>31. CASE CollectList
    <3>1. UNCHANGED <<exp, versions, kernel, pass, phase>> /\ collector' = Collectable
      BY <2>31 DEF CollectList
    <3>2. Stays
      BY <2>2, <3>1, Zenon
    <3>3. ASSUME NEW e \in Collectable PROVE e \in Experiments /\ OfTenant("tenant", e) /\ phase \in Begun
      BY <2>13, Zenon DEF Collectable
    <3>4. CollectorInv'
      BY <2>1, <3>1, <3>2, <3>3 DEF CollectorInv
    <3>5. KernelInv'
      BY <2>6, <3>1, <3>2, Zenon DEF KernelInv
    <3> QED BY <2>1, <2>10, <2>16, <3>1, <3>2, <3>4, <3>5, Zenon DEF ServerInv
  <2>32. CASE Collect
    <3>1. PICK e \in collector :
             /\ collector' = collector \ {e}
             /\ exp' = exp \/ exp' = [exp EXCEPT ![e] = Destroyed(exp[e])]
      BY <2>1, <2>32 DEF Collect
    <3>2. UNCHANGED <<versions, kernel, pass, phase>>
      BY <2>32 DEF Collect
    <3>3. e \in Experiments /\ OfTenant("tenant", e)
      BY <2>1, <3>1 DEF CollectorInv, OfTenant
    <3>4. PICK u, y : u \in Exps /\ u = exp[e] /\ y = Destroyed(u)
      BY <2>1, <3>3, Zenon
    <3>5. y \in Exps /\ y.life = "gone" /\ y.name = u.name /\ y.loc = u.loc
      BY <3>4, LifecycleMoves, Zenon
    <3>6. Stays
      <4>1. CASE exp' = exp
        BY <2>2, <3>2, <4>1, Zenon
      <4>2. CASE exp' = [exp EXCEPT ![e] = y]
        <5>1. /\ u.name # <<>>
              /\ \/ Head(u.name) = u.loc
                 \/ u.name = Deleted /\ phase \in Begun
          BY <2>1, <3>3, <3>4 DEF NamesInv
        <5>2. u.loc = "tenant"
          BY <3>3, <3>4 DEF OfTenant
        <5> HIDE DEF Stays
        <5> QED BY <2>3, <3>2, <3>3, <3>4, <3>5, <4>2, <5>1, <5>2, ZenonT(30)
      <4> QED BY <3>1, <3>4, <4>1, <4>2
    <3>7. KernelInv' /\ CollectorInv'
      BY <2>6, <2>9, <3>1, <3>2, <3>6 DEF KernelInv
    <3> QED BY <2>1, <2>10, <2>16, <3>2, <3>6, <3>7, Zenon DEF ServerInv
  <2>33. CASE Crash
    <3>1. /\ UNCHANGED <<exp, versions, phase, collector>> /\ pass' = [p \in Passes |-> Quiet]
          /\ kernel' = [t \in Tenants |-> IF kernel[t] = Silent THEN Silent ELSE Quiet]
      BY <2>33, Zenon DEF Crash
    <3>2. Stays
      BY <2>2, <3>1, Zenon
    <3>3. kernel' = [t \in Tenants |-> kernel'[t]] /\ \A t \in Tenants : kernel'[t].pc # "act"
      BY <3>1, Zenon DEF Silent, Quiet
    <3>4. ASSUME NEW p \in Passes PROVE GoodPass(pass[p])'
      <4>1. pass'[p].pc = "idle"
        BY <3>1, Zenon DEF Quiet
      <4> QED BY <4>1, Zenon DEF GoodPass
    <3>5. pass' = [p \in Passes |-> pass'[p]]
      BY <3>1
    <3> QED BY <2>1, <2>9, <2>10, <3>1, <3>2, <3>3, <3>4, <3>5, Zenon DEF ServerInv, KernelInv, PassInv
  <2>34. CASE Suspend \/ Delete
    BY <2>30, <2>34, Zenon DEF Suspend, Delete, serverVars
  <2>35. CASE Upload
    <3>1. \A h \in Handles, ms \in SUBSET Members :
             MintCheck(h) \/ Mint(h) \/ Stage(h, ms) => UNCHANGED <<phase, serverVars>>
      BY Zenon DEF MintCheck, Mint, Stage
    <3>2. \A m \in Members, area \in {"runs", "uploads"} : Put(m) \/ KernelFile(area, m) => UNCHANGED <<phase, serverVars>>
      BY Zenon DEF Put, KernelFile
    <3>3. \A c \in Commits, h \in Handles : CommitList(c, h) => UNCHANGED <<phase, serverVars>>
      BY Zenon DEF CommitList
    <3>4. \A c \in Commits : Consume(c) \/ Judge(c) \/ CommitAnswer(c) => UNCHANGED <<phase, serverVars>>
      BY Zenon DEF Consume, Judge, CommitAnswer
    <3>5. \A c \in Commits, m \in Members : ReadHead(c, m) \/ Copy(c, m) => UNCHANGED <<phase, serverVars>>
      BY DEF ReadHead, Copy
    <3>6. UNCHANGED <<phase, serverVars>>
      BY <2>35, <3>1, <3>2, <3>3, <3>4, <3>5, Zenon DEF Upload
    <3> QED BY <2>30, <3>6 DEF serverVars
  <2>36. CASE UNCHANGED vars
    BY <2>30, <2>36, Zenon DEF vars
  <2> QED BY <2>20, <2>21, <2>22, <2>24, <2>25, <2>26, <2>27, <2>28, <2>29, <2>31, <2>32, <2>33, <2>34, <2>35, <2>36,
             <2>37, Zenon DEF Next, PassStep
<1> QED BY <1>1, <1>2, PTL DEF Spec

\* A version's bytes are the tenant's its name is under, and an experiment's its own, for any names and
\* sources the kernels ask for and any interleaving of their looked-up requests with renames, deletions
\* and the collector (scope_request, source_kind, experiment_artifact_location).
THEOREM BytesStayWithTheirTenant == Spec => []BytesOfTheirTenant
<1>1. ServerInv => BytesOfTheirTenant
  BY Zenon DEF ServerInv, NamesInv, VersionsInv, BytesOfTheirTenant
<1> QED BY <1>1, ServerInvariance, PTL

\* Only a deleted tenant's experiments are destroyed, however old the list the collector works from
\* (collectable, empty_tenant, qualify_name): no other tenant's experiment comes under the deleted name.
THEOREM OnlyTheDeletedCollected == Spec => CollectsOnlyTheDeleted
<1> DEFINE A == \A e \in Experiments : exp[e].life # "gone" /\ exp'[e].life = "gone" =>
                    exp[e].loc = "tenant" /\ phase \in {"deleting", "recorded"}
<1>1. ServerInv /\ [Next]_vars => [A]_vars
  <2> SUFFICES ASSUME ServerInv, Next, NEW e \in Experiments, exp[e].life # "gone", exp'[e].life = "gone"
               PROVE  exp[e].loc = "tenant" /\ phase \in {"deleting", "recorded"}
    BY Zenon
  <2>1. /\ exp \in [Experiments -> Exps] /\ CollectorInv /\ KernelInv /\ PassInv
    BY DEF ServerInv
  <2>2. CASE Collect
    <3>1. PICK d \in collector :
             exp' = exp \/ exp' = [exp EXCEPT ![d] = Destroyed(exp[d])]
      BY <2>1, <2>2 DEF Collect
    <3>2. d = e
      BY <2>1, <3>1
    <3> QED BY <2>1, <3>1, <3>2 DEF CollectorInv, OfTenant
  \* No other step makes an experiment gone.
  <2>3. ASSUME exp' = exp PROVE FALSE
    BY <2>3
  <2>4. ASSUME NEW d \in Experiments, NEW y, exp' = [exp EXCEPT ![d] = y], y.life # "gone" \/ y.life = exp[d].life
        PROVE  FALSE
    BY <2>1, <2>4
  <2>5. ASSUME NEW d \in Experiments, NEW y \in {SoftDeleted(exp[d]), Restored(exp[d])}, exp' = [exp EXCEPT ![d] = y]
        PROVE  FALSE
    <3>1. PICK u \in Exps : u = exp[d]
      BY <2>1
    <3>2. SoftDeleted(u).life # "gone" /\ Restored(u).life # "gone"
      BY <3>1, LifecycleMoves
    <3> QED BY <2>4, <2>5, <3>1, <3>2, Zenon
  <2>6. ASSUME NEW d \in Experiments, NEW b, NEW n, NEW v,
               \/ exp' = [exp EXCEPT ![d] = [exp[d] EXCEPT !.models = b]]
               \/ exp' = [exp EXCEPT ![d] = [exp[d] EXCEPT !.runs = v]]
               \/ exp' = [exp EXCEPT ![d] = [exp[d] EXCEPT !.name = n]]
        PROVE  FALSE
    <3>1. PICK u \in Exps : u = exp[d]
      BY <2>1, Zenon
    <3>2. [u EXCEPT !.models = b].life = u.life /\ [u EXCEPT !.name = n].life = u.life /\ [u EXCEPT !.runs = v].life = u.life
      BY <3>1 DEF Exps
    <3> QED BY <2>4, <2>6, <3>1, <3>2, Zenon
  <2>7. ASSUME NEW t \in Tenants, KernelAct(t) PROVE FALSE
    <3>1. PICK r : r = kernel[t].request
      OBVIOUS
    <3>2. r \in Requests
      BY <2>1, <2>7, <3>1, Zenon DEF KernelAct, KernelInv, GoodRequest
    <3>3. r.route \notin {"create_version", "rename_models", "delete_models"} => r.e \in Experiments
      BY <3>2 DEF Requests
    <3>4. PICK d, n : d = r.e /\ n = QualifyName(t, r.name)
      OBVIOUS
    <3>5. \/ exp' = exp
          \/ r.route = "create" /\ exp' = [exp EXCEPT ![d] = [name |-> n, loc |-> t, life |-> "active", models |-> FALSE, runs |-> "none"]]
          \/ r.route = "update" /\ exp' = [exp EXCEPT ![d] = [exp[d] EXCEPT !.name = n]]
          \/ r.route = "delete" /\ exp' = [exp EXCEPT ![d] = SoftDeleted(exp[d])]
          \/ r.route = "restore" /\ exp' = [exp EXCEPT ![d] = Restored(exp[d])]
          \/ r.route = "log_model" /\ exp' = [exp EXCEPT ![d] = [exp[d] EXCEPT !.models = TRUE]]
          \/ r.route = "delete_model" /\ exp' = [exp EXCEPT ![d] = [exp[d] EXCEPT !.models = FALSE]]
          \/ r.route \in {"create_run", "restore_run"} /\ exp' = [exp EXCEPT ![d] = [exp[d] EXCEPT !.runs = "live"]]
          \/ r.route = "delete_run" /\ exp' = [exp EXCEPT ![d] = [exp[d] EXCEPT !.runs = "deleted"]]
      BY <2>7, <3>1, <3>4, Zenon DEF KernelAct
    <3>6. ASSUME r.route = "create", exp' = [exp EXCEPT ![d] = [name |-> n, loc |-> t, life |-> "active", models |-> FALSE, runs |-> "none"]]
          PROVE  FALSE
      <4>1. PICK y : y = [name |-> n, loc |-> t, life |-> "active", models |-> FALSE, runs |-> "none"]
        BY Zenon
      <4>2. y.life = "active" /\ d \in Experiments
        BY <3>3, <3>4, <3>6, <4>1, Zenon
      <4> QED BY <2>4, <3>6, <4>1, <4>2, Zenon
    <3> QED BY <2>3, <2>5, <2>6, <3>3, <3>4, <3>5, <3>6, Zenon
  <2>8. ASSUME NEW p \in Passes, PassStep(p) PROVE FALSE
    <3>1. GoodPass(pass[p])
      BY <2>1, Zenon DEF PassInv
    <3>2. CASE Restore(p)
      <4>1. PICK x \in pass[p].todo : exp' = exp \/ exp' = [exp EXCEPT ![x.e] = Restored(exp[x.e])]
        BY <3>2, Zenon DEF Restore, Server
      <4>2. x.e \in Experiments
        BY <3>1, <3>2, <4>1 DEF GoodPass, Restore
      <4> QED BY <2>3, <2>5, <4>1, <4>2
    <3>3. CASE Rename(p)
      <4>1. PICK x \in pass[p].todo :
               exp' = exp \/ (exp[x.e].life = "active" /\ exp' = [exp EXCEPT ![x.e] = [exp[x.e] EXCEPT !.name = Deleted]])
        BY <3>3, Zenon DEF Rename, Server
      <4>2. x.e \in Experiments
        BY <3>1, <3>3, <4>1 DEF GoodPass, Rename
      <4> QED BY <2>3, <2>6, <4>1, <4>2
    <3>4. CASE DeleteModels(p)
      <4>1. PICK d \in pass[p].todo :
               exp' = exp \/ (exp[d].life # "gone" /\ exp' = [exp EXCEPT ![d] = [exp[d] EXCEPT !.models = FALSE]])
        BY <3>4 DEF DeleteModels, Server
      <4>2. d \in Experiments
        BY <3>1, <3>4, <4>1 DEF GoodPass, DeleteModels
      <4> QED BY <2>3, <2>6, <4>1, <4>2
    <3>5. CASE DeleteExperiment(p)
      <4>1. PICK d : d = pass[p].e
        OBVIOUS
      <4>2. d \in Experiments
        BY <3>1, <3>5, <4>1 DEF GoodPass, DeleteExperiment
      <4>3. exp' = exp \/ exp' = [exp EXCEPT ![d] = SoftDeleted(exp[d])]
        BY <3>5, <4>1, Zenon DEF DeleteExperiment, Server
      <4> QED BY <2>3, <2>5, <4>2, <4>3
    <3>6. CASE DeleteRegistered(p) \/ DeleteArtifacts(p) \/ ListExperiments(p) \/ ListRenamed(p) \/ Report(p)
      BY <2>3, <3>6, Zenon DEF DeleteRegistered, DeleteArtifacts, ListExperiments, ListRenamed, Report
    <3> QED BY <2>8, <3>2, <3>3, <3>4, <3>5, <3>6, Zenon DEF PassStep
  <2>9. CASE \/ \E t \in Tenants : KernelLookup(t)
             \/ Suspend \/ Delete \/ CollectList \/ Crash
             \/ \E p \in Passes : PassStart(p) \/ PassFails(p)
    BY <2>3, <2>9, Zenon DEF KernelLookup, Suspend, Delete, CollectList, Crash, PassStart, PassFails, serverVars
  <2>10. CASE Upload
    <3>1. \A h \in Handles, ms \in SUBSET Members : MintCheck(h) \/ Mint(h) \/ Stage(h, ms) => exp' = exp
      BY Zenon DEF MintCheck, Mint, Stage, serverVars
    <3>2. \A m \in Members, area \in {"runs", "uploads"} : Put(m) \/ KernelFile(area, m) => exp' = exp
      BY Zenon DEF Put, KernelFile, serverVars
    <3>3. \A c \in Commits, h \in Handles : CommitList(c, h) => exp' = exp
      BY Zenon DEF CommitList, serverVars
    <3>4. \A c \in Commits : Consume(c) \/ Judge(c) \/ CommitAnswer(c) => exp' = exp
      BY Zenon DEF Consume, Judge, CommitAnswer, serverVars
    <3>5. \A c \in Commits, m \in Members : ReadHead(c, m) \/ Copy(c, m) => exp' = exp
      BY SMTT(30) DEF ReadHead, Copy, serverVars
    <3>6. exp' = exp
      BY <2>10, <3>1, <3>2, <3>3, <3>4, <3>5, Zenon DEF Upload
    <3> QED BY <2>3, <3>6, SMTT(30)
  <2> QED BY <2>2, <2>7, <2>8, <2>9, <2>10, Zenon DEF Next
<1>2. Spec => [][Next]_vars
  BY PTL DEF Spec
<1> QED BY <1>1, <1>2, ServerInvariance, PTL DEF CollectsOnlyTheDeleted
=============================================================================
