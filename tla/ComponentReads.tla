--------------------------- MODULE ComponentReads ----------------------------
(***************************************************************************)
(* How the reconciler looks at components that live in several objects.    *)
(* UpgradeController takes the state of the core components, and that of a *)
(* chart, as one read; here every read is a step of its own, and the       *)
(* distribution, the Helm Controller, jobs and administrators act in       *)
(* between:                                                                *)
(*                                                                         *)
(*   - at the end of the Kubernetes stage the core components of the       *)
(*     distribution are looked up one after the other, a HelmChart by its  *)
(*     resource, its job and its Helm release (reconcile_kubernetes.go);   *)
(*   - in the Helm stage the chart of a workload is created or updated     *)
(*     with merged values (helm.go). What mergeMaps computes does not      *)
(*     matter to the order of reads and writes: it is a parameter here and *)
(*     is defined in HelmValues.                                           *)
(*                                                                         *)
(* Versions: 1 is the installed one, 2 the one of the release, 0 none.     *)
(***************************************************************************)
EXTENDS Naturals, Sequences, FiniteSets

CONSTANTS
    CoreChart,     \* core components of type HelmChart
    Deployment,    \* core components of type Deployment
    CoreComponents,\* the list of the release manifest
    Container,     \* containers of the Deployments
    Installed,     \* [Deployment -> SUBSET Container]: those of the installed version
    Containers,    \* [Deployment -> SUBSET Container]: those the release names
    Workload,      \* the chart of the Helm stage
    Values,        \* values that may be installed
    ReleaseValues, \* values of the release manifest
    UserValues,    \* values of the UpgradePlan
    AdminValues,   \* values an administrator may set meanwhile
    NoValues,      \* an empty map
    Merge(_, _),   \* mergeMaps
    MaxEdits,      \* bound: edits and removals by an administrator
    MaxFaults      \* bound: writes that fail after they took effect

Chart == CoreChart \cup {Workload}

ASSUME ComponentAssumption ==
    /\ Workload \notin CoreChart /\ CoreChart \cap Deployment = {}
    /\ CoreComponents \in Seq(CoreChart \cup Deployment)
    /\ \A c \in CoreChart \cup Deployment :
          \E n \in 1..Len(CoreComponents) : CoreComponents[n] = c
    /\ IsFiniteSet(Container)
    /\ Installed \in [Deployment -> SUBSET Container]
    /\ Containers \in [Deployment -> SUBSET Container]
    /\ MaxEdits \in Nat /\ MaxFaults \in Nat

VARIABLES
    hc,       \* [Chart -> HelmChart resource; ver 0: none], rev its revision
    job,      \* [Chart -> its job]
    helm,     \* [Chart -> latest revision of the Helm release; ver 0: none]
    dep,      \* [Deployment -> its state and the versions of its containers]
    release,  \* the values of the release manifest
    user,     \* the values of the UpgradePlan
    pc,       \* where the reconciler is
    i,        \* the core component it is at
    got,      \* what it has read so far of a chart
    absent,   \* core components that were not found in this poll
    replaced, \* core charts whose job was replaced after it was read
    edits, faults

clusterVars == <<hc, job, helm, dep>>
localVars == <<i, got, absent, replaced>>
vars == <<clusterVars, release, user, pc, localVars, edits, faults>>

NoResource == [ver |-> 0, rev |-> 0, vals |-> NoValues]
NoJob == [st |-> "none", ver |-> 0, vals |-> NoValues]
Nothing == [hc |-> NoResource, helm |-> [ver |-> 0, st |-> "none", vals |-> NoValues]]

Init ==
    \E installed \in Values, exists \in SUBSET (Chart \cup Deployment) :
        /\ hc = [c \in Chart |->
                    IF c \in exists THEN [ver |-> 1, rev |-> 1, vals |-> installed]
                                    ELSE NoResource]
        /\ job = [c \in Chart |->
                    IF c \in exists THEN [st |-> "complete", ver |-> 1, vals |-> installed]
                                    ELSE NoJob]
        /\ helm = [c \in Chart |->
                    IF c \in exists \cup {Workload}
                    THEN [ver |-> 1, st |-> "deployed", vals |-> installed]
                    ELSE Nothing.helm]
        /\ dep = [d \in Deployment |-> [st |-> IF d \in exists THEN "available" ELSE "absent",
                                        image |-> [x \in Installed[d] |-> 1]]]
        /\ release \in ReleaseValues /\ user \in UserValues
        /\ pc = IF CoreComponents = <<>> THEN "reported" ELSE "poll"
        /\ i = 1 /\ got = Nothing /\ absent = {} /\ replaced = {}
        /\ edits = 0 /\ faults = 0
-----------------------------------------------------------------------------
(* The distribution, the Helm Controller and administrators.               *)

\* The Deployment has every container of the release in its version.
HasImages(d) ==
    \A x \in Containers[d] : x \in DOMAIN dep[d].image /\ dep[d].image[x] = 2

\* The containers of the release are added or updated, the others stay.
NewImage(d) ==
    [x \in DOMAIN dep[d].image \cup Containers[d] |-> IF x \in Containers[d] THEN 2 ELSE 1]

Distribution ==
    /\ \/ \E c \in CoreChart :
            /\ hc[c].ver = 1
            /\ hc' = [hc EXCEPT ![c].ver = 2, ![c].rev = @ + 1]
            /\ UNCHANGED dep
       \/ \E d \in Deployment :
            /\ \/ /\ dep[d].st = "available" /\ ~HasImages(d)
                  /\ \E st \in {"rolling", "available"} :
                       dep' = [dep EXCEPT ![d] = [st |-> st, image |-> NewImage(d)]]
               \/ dep[d].st = "rolling" /\ dep' = [dep EXCEPT ![d].st = "available"]
            /\ UNCHANGED hc
    /\ UNCHANGED <<job, helm, release, user, pc, localVars, edits, faults>>

\* The revision that Helm records before the job has installed it.
Pending(c) == [ver |-> job[c].ver, st |-> "pending", vals |-> job[c].vals]

HelmController(c) ==
    /\ \/ /\ job[c].st # "none" /\ <<job[c].ver, job[c].vals>> # <<hc[c].ver, hc[c].vals>>
          /\ job' = [job EXCEPT ![c] = NoJob] /\ UNCHANGED helm
       \/ /\ job[c].st = "none" /\ hc[c].ver # 0
          /\ job' = [job EXCEPT ![c] = [st |-> "running", ver |-> hc[c].ver, vals |-> hc[c].vals]]
          /\ UNCHANGED helm
       \/ /\ job[c].st = "running" /\ helm[c] # Pending(c)
          /\ helm' = [helm EXCEPT ![c] = Pending(c)]
          /\ UNCHANGED job
       \/ /\ job[c].st = "running" /\ helm[c] = Pending(c)
          /\ helm' = [helm EXCEPT ![c].st = "deployed"]
          /\ job' = [job EXCEPT ![c].st = "complete"]
    /\ replaced' = replaced \cup {x \in {c} \cap CoreChart : job'[c].st = "none"}
    /\ UNCHANGED <<hc, dep, release, user, pc, i, got, absent, edits, faults>>

\* Values are edited in the HelmChart, or in the Helm release if there is none;
\* core components are removed.
Administrator ==
    /\ edits < MaxEdits /\ edits' = edits + 1
    /\ \/ \E v \in AdminValues :
            IF hc[Workload].ver # 0
            THEN /\ hc' = [hc EXCEPT ![Workload].vals = Merge(@, v), ![Workload].rev = @ + 1]
                 /\ UNCHANGED <<job, helm>>
            ELSE /\ helm' = [helm EXCEPT ![Workload].vals = Merge(@, v)]
                 /\ UNCHANGED <<hc, job>>
       \/ \E c \in CoreChart :
            /\ hc[c].ver # 0
            /\ hc' = [hc EXCEPT ![c] = NoResource]
            /\ job' = [job EXCEPT ![c] = NoJob]
            /\ helm' = [helm EXCEPT ![c] = Nothing.helm]
    /\ UNCHANGED <<dep, release, user, pc, localVars, faults>>
-----------------------------------------------------------------------------
(* getK8sCoreComponentsUpgradeStatus.                                      *)

Component == CoreComponents[i]

\* The reconciler's own state changes; the rest does not.
Local(next) == pc' = next /\ UNCHANGED <<clusterVars, release, user, edits, faults>>

\* Not upgraded: the poll is repeated after a minute.
Wait == Local("poll") /\ i' = 1 /\ got' = Nothing /\ absent' = {} /\ replaced' = {}

\* Upgraded, or not found: the next component, or the end of the stage.
Continue(found) ==
    /\ Local(IF i < Len(CoreComponents) THEN "poll" ELSE "reported")
    /\ i' = i + 1 /\ got' = Nothing
    /\ absent' = IF found THEN absent ELSE absent \cup {Component}
    /\ UNCHANGED replaced

\* Defect: a component that is not on the cluster is waited for.
NotFound_Wait == Wait

NotFound == Continue(FALSE)

\* Images are compared up to the registry. Containers that the release does not
\* name are skipped; the others are counted.
ContainsContainerImages(image, contains) ==
    LET found == {x \in DOMAIN image : x \in contains}
    IN  /\ \A x \in found : image[x] = 2
        /\ Cardinality(found) = Cardinality(contains)

getDeployment ==
    /\ pc = "poll" /\ i \in DOMAIN CoreComponents /\ Component \in Deployment
    /\ LET d == dep[Component]
       IN  \/ d.st = "absent" /\ NotFound
           \/ /\ d.st = "available" /\ ContainsContainerImages(d.image, Containers[Component])
              /\ Continue(TRUE)
           \/ /\ d.st # "absent"
              /\ ~(d.st = "available" /\ ContainsContainerImages(d.image, Containers[Component]))
              /\ Wait

getHelmChart ==
    /\ pc = "poll" /\ i \in DOMAIN CoreComponents /\ Component \in CoreChart
    /\ IF hc[Component].ver = 0 THEN NotFound ELSE Local("job") /\ UNCHANGED localVars

\* Defect: a job that has not finished does not stop the poll.
isJobComplete_Any(j) == TRUE

isJobComplete(j) == j.st = "complete"

getJob ==
    /\ pc = "job"
    /\ IF isJobComplete(job[Component])
       THEN Local("version") /\ replaced' = replaced \ {Component} /\ UNCHANGED <<i, got, absent>>
       ELSE Wait

\* A Helm release that is gone is an error, and the poll is repeated.
compareChartReleaseWithVersion ==
    /\ pc = "version"
    /\ IF helm[Component].ver = 2 THEN Continue(TRUE) ELSE Wait
-----------------------------------------------------------------------------
(* upgradeHelmChart.                                                       *)

retrieveHelmRelease ==
    /\ pc = "reported"
    /\ Local("release")
    /\ got' = [got EXCEPT !.helm = helm[Workload]]
    /\ UNCHANGED <<i, absent, replaced>>

getWorkload ==
    /\ pc = "release"
    /\ got' = [got EXCEPT !.hc = hc[Workload]]
    /\ Local(CASE hc[Workload].ver = 2 -> "triggered"
               [] hc[Workload].ver = 0 /\ got.helm.ver = 2 -> "triggered"
               [] OTHER -> "write")
    /\ UNCHANGED <<i, absent, replaced>>

Retry == pc' = "reported" /\ got' = Nothing

\* Defect: an outdated resource is overwritten.
Outdated_Never == FALSE

\* Create finds an object, Update another revision than the one that was read.
Outdated == hc[Workload].rev # got.hc.rev

\* The release's values go over the installed ones, the user's over both.
mergeHelmValues(installed) == Merge(Merge(installed, release), user)

\* createHelmChart starts from the values of the Helm release, updateHelmChart
\* from those of the resource. The call may fail after it has taken effect.
writeHelmChart ==
    LET installed == IF got.hc.ver = 0 THEN got.helm.vals ELSE got.hc.vals
    IN  /\ pc = "write"
        /\ \/ Outdated /\ Retry /\ UNCHANGED <<hc, faults>>
           \/ /\ ~Outdated
              /\ hc' = [hc EXCEPT ![Workload] =
                          [ver  |-> 2, rev |-> @.rev + 1,
                           vals |-> mergeHelmValues(installed)]]
              /\ \/ pc' = "triggered" /\ got' = Nothing /\ UNCHANGED faults
                 \/ faults < MaxFaults /\ faults' = faults + 1 /\ Retry
        /\ UNCHANGED <<job, helm, dep, release, user, i, absent, replaced, edits>>

Reconciler ==
    \/ getDeployment \/ getHelmChart \/ getJob \/ compareChartReleaseWithVersion
    \/ retrieveHelmRelease \/ getWorkload \/ writeHelmChart

Next ==
    \/ Reconciler \/ Distribution \/ Administrator
    \/ \E c \in Chart : HelmController(c)

Spec ==
    /\ Init /\ [][Next]_vars
    /\ WF_vars(Reconciler) /\ WF_vars(Distribution)
    /\ WF_vars(\E c \in Chart : HelmController(c))
-----------------------------------------------------------------------------
\* The Kubernetes stage ends only when every core component that was found is
\* in the version of the release: a Helm revision of that version has been
\* deployed, unless its job was replaced after it had been read, and a
\* Deployment has all images. The reads of one component, and of several, are
\* apart in time.
CoreReportSound ==
    pc \notin {"poll", "job", "version"} =>
        /\ \A c \in CoreChart \ absent : hc[c].ver # 0 =>
               helm[c].ver = 2 /\ (helm[c].st = "deployed" \/ c \in replaced)
        /\ \A d \in Deployment \ absent : HasImages(d)

\* What is written into a HelmChart is merged into the values that the resource
\* has at that very moment, however long ago the reconciler has read them: no
\* edit made since then is lost, and no failed write is repeated on old values.
\* Only a chart without resource takes them from the Helm release as it was read.
CurrentValuesMerged ==
    [][pc = "write" /\ hc'[Workload] # hc[Workload] /\ pc' # pc =>
         hc'[Workload].vals =
            mergeHelmValues(IF hc[Workload].ver = 0 THEN got.helm.vals
                                                    ELSE hc[Workload].vals)]_vars

\* The polls of the core components, and the retries after conflicts, come to
\* an end, also when components are missing or are removed meanwhile.
ComponentsTriggered == <>(pc = "triggered")
=============================================================================
