-------------------------- MODULE UpgradeController --------------------------
(***************************************************************************)
(* The reconciler of UpgradePlan resources (internal/controller) composed  *)
(* with the cluster it drives, the users that create, edit and delete the  *)
(* plan, the informer caches it reads from and its work queue.             *)
(*                                                                         *)
(* A reconciliation takes several steps, and everything else in the system *)
(* may act between them. The first step reads the cached plan, decides and *)
(* issues at most one write (createObject, updateHelmChart ...); the       *)
(* deferred status update is a step of its own (Commit), and so is every   *)
(* call of the deletion loop. A call may fail, before or after it took     *)
(* effect. The API server rejects an update that is based on an outdated   *)
(* object: the resource version is modelled by the contents, which never   *)
(* recur within the life of a plan.                                        *)
(*                                                                         *)
(* All reads go through informer caches that may lag behind. The cached    *)
(* plan, Secrets and SUC plans are variables (cache, seen). A HelmChart    *)
(* that lags behind makes a write fail, like a failed call; hides the plan *)
(* from a job's event, which is lost; or does not name its job yet         *)
(* (jobNameMissing). Reads of nodes, manifests and jobs see the current    *)
(* state: an older one only delays what the next read finds, since nodes   *)
(* are polled and the job informer that lags has its event still to come.  *)
(* One UpgradePlan is modelled; a plan is not created again after it has   *)
(* been deleted.                                                           *)
(***************************************************************************)
EXTENDS HelmUpgrade

CONSTANTS
    MaxGeneration,  \* bound: the generation up to which the plan is edited
    MaxFaults       \* bound: controller restarts, failed API calls, lost events

ASSUME BoundAssumption == MaxGeneration \in Nat /\ MaxFaults \in Nat

VARIABLES
    plan,     \* the UpgradePlan in the API server
    cache,    \* the UpgradePlan in the informer cache
    seen,     \* Secrets and SUC plans in the informer caches
    queued,   \* the plan is in the work queue
    timer,    \* a RequeueAfter is pending
    pc,       \* where the current reconciliation is
    base,     \* the plan as read at the start of the reconciliation
    work,     \* the reconciler's copy of it, with the status it has set
    result,   \* what the reconciliation returns: done, requeue, after, error
    todo,     \* objects the deletion loop has listed and not yet deleted
    busy,     \* SUC plans that were being applied when they were listed
    faults    \* restarts and failed calls, and lost events, so far

localVars == <<pc, base, work, result, todo, busy>>
vars == <<plan, cache, seen, queued, timer, localVars, faults, clusterVars>>

\* Restarts and failed calls are told apart from job events that were lost.
FaultCount == [calls: Nat, events: Nat]

TypeOK ==
    /\ ClusterTypeOK
    /\ plan \in PlanObject /\ cache \in PlanObject
    /\ base \in PlanObject /\ work \in PlanObject
    /\ seen \subseteq Object /\ todo \subseteq Object /\ busy \subseteq Object
    /\ queued \in BOOLEAN /\ timer \in BOOLEAN
    /\ pc \in {"idle", "commit", "deletePlans", "deleteSecrets"}
    /\ result \in {"done", "requeue", "after", "error"}
    /\ faults \in FaultCount

Init ==
    /\ ClusterInit
    /\ plan = NoPlan /\ cache = NoPlan
    /\ seen = {}
    /\ queued = FALSE /\ timer = FALSE
    /\ pc = "idle" /\ base = NoPlan /\ work = NoPlan /\ result = "done"
    /\ todo = {} /\ busy = {}
    /\ faults = [calls |-> 0, events |-> 0]
-----------------------------------------------------------------------------
(* Users.                                                                  *)

CreatePlan(r) ==
    LET new == [NoPlan EXCEPT !.life = "live", !.rel = r, !.gen = 1]
    IN  /\ plan.life = "absent"
        /\ ValidateCreate(new)
        /\ plan' = new
        /\ UNCHANGED <<cache, seen, queued, timer, localVars, faults, clusterVars>>

\* Any change of the spec, of the release version (r) or of other fields.
EditPlan(r) ==
    LET new == [plan EXCEPT !.rel = r, !.gen = @ + 1]
    IN  /\ plan.life \in {"live", "deleting"}
        /\ plan.gen < MaxGeneration
        /\ ValidateUpdate(plan, new)
        /\ plan' = new
        /\ UNCHANGED <<cache, seen, queued, timer, localVars, faults, clusterVars>>

\* The API server only marks an object that has a finalizer.
DeletePlan ==
    /\ plan.life = "live"
    /\ plan' = IF plan.fin THEN [plan EXCEPT !.life = "deleting", !.gen = @ + 1]
                           ELSE [plan EXCEPT !.life = "gone"]
    /\ UNCHANGED <<cache, seen, queued, timer, localVars, faults, clusterVars>>
-----------------------------------------------------------------------------
(* Informers, watch predicates and the work queue.                         *)

Exists(p) == p.life \in {"live", "deleting"}

\* For(&UpgradePlan{}) with GenerationChangedPredicate: creation, deletion and
\* changes of the generation; not status updates.
PlanPredicate(old, new) == Exists(old) # Exists(new) \/ old.gen # new.gen

SyncPlan ==
    /\ cache # plan
    /\ cache' = plan
    /\ queued' = (queued \/ PlanPredicate(cache, plan))
    /\ UNCHANGED <<plan, seen, timer, localVars, faults, clusterVars>>

\* Watches(&Secret{}): every event but deletions; creations of SUC plans are
\* filtered out.
SyncObject(o) ==
    /\ seen' = IF o \in objs THEN seen \cup {o} ELSE seen \ {o}
    /\ seen' # seen
    /\ queued' = (queued \/ (o \in objs /\ IsSecret(o)))
    /\ UNCHANGED <<plan, cache, timer, localVars, faults, clusterVars>>

\* Updates and periodic resynchronisations of a Secret reach the queue too.
ResyncSecret ==
    /\ \E o \in seen : IsSecret(o)
    /\ ~queued /\ queued' = TRUE
    /\ UNCHANGED <<plan, cache, seen, timer, localVars, faults, clusterVars>>

RequeueAfterElapses ==
    /\ timer
    /\ timer' = FALSE /\ queued' = TRUE
    /\ UNCHANGED <<plan, cache, seen, localVars, faults, clusterVars>>

\* Defect: the comparison with the old object is inverted.
SUCPlanPredicate_Inverted(o) == Applying(o, applying) = {} /\ Applying(o, applying') = {}

\* Watches(&Plan{}): the SUC plan is no longer being applied to a node.
SUCPlanPredicate(o) == Applying(o, applying) # {} /\ Applying(o, applying') = {}

\* Defect: failed jobs do not reach the queue.
JobPredicate_CompleteOnly ==
    \/ \E r \in Release : mjob[r] = "running" /\ mjob'[r] = "finished"
    \/ \E h \in Chart : job'[h].st = "complete" /\ job[h].st = "running" /\ hc[h].ann # 0

\* Watches(&Job{}) and findUpgradePlanFromJob: a release manifest job, or the
\* job of a HelmChart that carries the plan's labels, has finished.
JobPredicate ==
    \/ \E r \in Release : mjob[r] = "running" /\ mjob'[r] = "finished"
    \/ \E h \in Chart : JobFinished(job'[h]) /\ ~JobFinished(job[h]) /\ hc[h].ann # 0

FaultsLeft == faults.calls + faults.events < MaxFaults

LoseEvent == FaultsLeft /\ faults' = [faults EXCEPT !.events = @ + 1]

\* findUpgradePlanFromJob cannot read the HelmChart of a job that has finished,
\* or reads a copy without the plan's labels: the event is dropped.
DropJobEvent ==
    /\ \E h \in Chart : JobFinished(job'[h]) /\ ~JobFinished(job[h]) /\ hc[h].ann # 0
    /\ LoseEvent
    /\ UNCHANGED queued

\* A step of an external program, with the events it causes.
SUCStep ==
    \E o \in objs, n \in Node :
        /\ StartNodeJob(o, n) \/ UpgradeNode(o, n) \/ FinishNodeJob(o, n)
        /\ queued' = (queued \/ SUCPlanPredicate(o))
        /\ seen' = IF SUCPlanPredicate(o) THEN seen \cup {o} ELSE seen
        /\ UNCHANGED <<plan, cache, timer, localVars, faults>>

JobStep ==
    /\ \/ \E r \in Release :
             ManifestJobSucceeds(r) \/ ManifestJobFails(r) \/ ManifestJobExpires(r)
       \/ \E h \in Chart :
             RemoveHelmJob(h) \/ StartHelmJob(h) \/ HelmJobSucceeds(h) \/ HelmJobFails(h)
       \/ UpgradeCore
    /\ \/ queued' = (queued \/ JobPredicate) /\ UNCHANGED faults
       \/ DropJobEvent
    /\ UNCHANGED <<plan, cache, seen, timer, localVars>>
-----------------------------------------------------------------------------
(* Leaving a reconciliation.                                               *)

Fault == FaultsLeft /\ faults' = [faults EXCEPT !.calls = @ + 1]

\* reconcileNormal returns: the status update follows.
Return(w, res) ==
    /\ pc' = "commit" /\ base' = cache /\ work' = w /\ result' = res
    /\ queued' = FALSE
    /\ UNCHANGED <<plan, cache, timer, todo, busy>>

\* The reconciliation is over; q and t are what it puts into the queue.
Finish(q, t) ==
    /\ pc' = "idle" /\ base' = NoPlan /\ work' = NoPlan /\ result' = "done"
    /\ todo' = {} /\ busy' = {}
    /\ queued' = (queued \/ q) /\ timer' = (timer \/ t)

\* Status().Update after reconcileNormal, then the result takes effect.
Commit ==
    /\ pc = "commit"
    /\ UNCHANGED <<cache, seen, clusterVars>>
    /\ \/ /\ base = plan
          /\ plan' = work
          /\ Finish(result \in {"requeue", "error"}, result = "after")
          /\ UNCHANGED faults
       \/ /\ base # plan
          /\ Finish(TRUE, FALSE)
          /\ UNCHANGED <<plan, faults>>
       \/ /\ Fault
          /\ plan' = plan \/ (base = plan /\ plan' = work)
          /\ Finish(TRUE, FALSE)

\* A call of reconcileNormal fails before anything has been changed.
ReconcileError(p) ==
    /\ Fault
    /\ Return(p, "error")
    /\ UNCHANGED <<seen, clusterVars>>

\* Defect: reads bypass the cache that reconcileDelete lists from.
Found_Uncached(o) == o \in objs

\* r.Get of a Secret or SUC plan.
Found(o) == o \in seen

\* createObject: the object is not in the cache. It is created, exists
\* already, or the call fails, possibly after it took effect.
createObject(o, w) ==
    /\ ~Found(o)
    /\ UNCHANGED <<seen, applying, done, nodeVars, manifestVars, helmVars>>
    /\ \/ o \notin objs /\ objs' = objs \cup {o} /\ Return(w, "done") /\ UNCHANGED faults
       \/ o \in objs /\ UNCHANGED objs /\ Return(w, "error") /\ UNCHANGED faults
       \/ Fault /\ objs' \in {objs, objs \cup {o}} /\ Return(w, "error")

\* Nothing but the reconciler's own copy of the plan changes.
Report(w, res) ==
    /\ Return(w, res)
    /\ UNCHANGED <<seen, faults, clusterVars>>
-----------------------------------------------------------------------------
(* reconcileNormal. p is the plan read from the cache.                     *)

\* Defect: an existing job is not an error.
createReleaseManifest_IgnoreExisting(p) ==
    /\ p.rel \notin manifests
    /\ UNCHANGED <<seen, faults, sucVars, nodeVars, manifests, mfailures, helmVars>>
    /\ mjob' = [mjob EXCEPT ![p.rel] = IF @ = "none" THEN "running" ELSE @]
    /\ Return(p, "done")

\* retrieveReleaseManifest found nothing: createReleaseManifest, which gives
\* up with an error while a job of that name exists.
createReleaseManifest(p) ==
    /\ p.rel \notin manifests
    /\ UNCHANGED <<seen, sucVars, nodeVars, manifests, mfailures, helmVars>>
    /\ \/ /\ mjob[p.rel] = "none"
          /\ mjob' = [mjob EXCEPT ![p.rel] = "running"]
          /\ \/ Return(p, "done") /\ UNCHANGED faults
             \/ Return(p, "error") /\ Fault
       \/ /\ mjob[p.rel] # "none"
          /\ Return(p, "error")
          /\ UNCHANGED <<mjob, faults>>

\* Defect: only the workers are looked at.
findUnsupportedNodes_Workers(rel) ==
    {n \in Worker : NodeArchitecture[n] \notin SupportedArchitectures(SupportedArchs[rel])}

findUnsupportedNodes(rel) ==
    {n \in Node : NodeArchitecture[n] \notin SupportedArchitectures(SupportedArchs[rel])}

rejectUnsupportedNodes(p) ==
    /\ findUnsupportedNodes(p.rel) # {}
    /\ Report([p EXCEPT !.invalid = TRUE], "done")

\* The conditions that a new generation resets to Pending.
PendingConditions(rel) ==
    {"OS", "K8s"} \cup {Workloads[rel][i] : i \in DOMAIN Workloads[rel]}

observeGeneration(p) ==
    /\ findUnsupportedNodes(p.rel) = {}
    /\ p.obs # p.gen
    /\ \E s \in Suffix :
         IF s = p.sfx
         THEN Report(p, "requeue")
         ELSE Report(setPendingConditions([p EXCEPT !.sfx = s, !.obs = p.gen],
                                          PendingConditions(p.rel)), "requeue")

OSObject(kind, p) == [kind |-> kind, ver |-> OSVersion[p.rel], sfx |-> p.sfx]

\* Defect: cordoned nodes count as upgraded.
isOSUpgraded_Cordoned(nodes, rel) == \A n \in nodes : os[n] = OSVersion[rel]

\* Defect: the OS image is not compared.
isOSUpgraded_AnyImage(nodes, rel) == \A n \in nodes : n \notin cordoned

\* Every node is ready, schedulable and runs the release's OS image.
isOSUpgraded(nodes, rel) == \A n \in nodes : n \notin cordoned /\ os[n] = OSVersion[rel]

controlPlaneOnlyCluster == Worker = {}

\* Per role: whether its nodes are drained; spec.disableDrain has this form too.
DrainOptions == [controlPlane: BOOLEAN, worker: BOOLEAN]

\* Defect: a role with a single node is drained too.
parseDrainOptions_SingleNode(cp, wk, disable) ==
    [controlPlane |-> cp >= 1 /\ ~disable.controlPlane, worker |-> wk >= 1 /\ ~disable.worker]

parseDrainOptions(cp, wk, disable) ==
    LET drain == CASE cp > 1 /\ wk <= 1  -> [controlPlane |-> TRUE, worker |-> FALSE]
                   [] cp = 1 /\ wk > 1   -> [controlPlane |-> FALSE, worker |-> TRUE]
                   [] cp <= 1 /\ wk <= 1 -> [controlPlane |-> FALSE, worker |-> FALSE]
                   [] OTHER              -> [controlPlane |-> TRUE, worker |-> TRUE]
    IN  [controlPlane |-> drain.controlPlane /\ ~disable.controlPlane,
         worker       |-> drain.worker /\ ~disable.worker]

\* The SUC plan o carries a drain specification.
Drains(o, disable) ==
    LET drain == parseDrainOptions(Cardinality(ControlPlane), Cardinality(Worker), disable)
    IN  IF Selected(o) = ControlPlane THEN drain.controlPlane ELSE drain.worker

reconcileOS(p) ==
    LET secret == OSObject("secret", p)
        cpPlan == OSObject("osControlPlane", p)
        wkPlan == OSObject("osWorker", p)
        cpDone == isOSUpgraded(ControlPlane, p.rel)
        wkDone == isOSUpgraded(Worker, p.rel)
    IN  \/ createObject(secret, p)
        \/ Found(secret) /\ createObject(cpPlan, setInProgressCondition(p, "OS"))
        \/ /\ Found(secret) /\ Found(cpPlan) /\ ~cpDone
           /\ Report(setInProgressCondition(p, "OS"), "after")
        \/ /\ Found(secret) /\ Found(cpPlan) /\ cpDone /\ controlPlaneOnlyCluster
           /\ Report(setSuccessfulCondition(p, "OS"), "requeue")
        \/ /\ Found(secret) /\ Found(cpPlan) /\ cpDone /\ ~controlPlaneOnlyCluster
           /\ createObject(wkPlan, setInProgressCondition(p, "OS"))
        \/ /\ Found(secret) /\ Found(cpPlan) /\ cpDone /\ ~controlPlaneOnlyCluster
           /\ Found(wkPlan)
           /\ IF wkDone THEN Report(setSuccessfulCondition(p, "OS"), "requeue")
                        ELSE Report(setInProgressCondition(p, "OS"), "after")

K8sObject(kind, p) == [kind |-> kind, ver |-> KubeVersion[p.rel], sfx |-> p.sfx]

isKubernetesUpgraded(nodes, rel) ==
    \A n \in nodes : n \notin cordoned /\ kube[n] = KubeVersion[rel]

\* getK8sCoreComponentsUpgradeStatus: every core component that exists in the
\* cluster has the version of the distribution.
coreComponentsUpgraded(rel) == core = KubeVersion[rel]

reconcileKubernetes(p) ==
    LET cpPlan == K8sObject("k8sControlPlane", p)
        wkPlan == K8sObject("k8sWorker", p)
        cpDone == isKubernetesUpgraded(ControlPlane, p.rel)
        wkDone == isKubernetesUpgraded(Worker, p.rel)
        finish == IF coreComponentsUpgraded(p.rel)
                  THEN Report(setSuccessfulCondition(p, "K8s"), "requeue")
                  ELSE Report(setInProgressCondition(p, "K8s"), "after")
    IN  \/ createObject(cpPlan, setInProgressCondition(p, "K8s"))
        \/ /\ Found(cpPlan) /\ ~cpDone
           /\ Report(setInProgressCondition(p, "K8s"), "after")
        \/ Found(cpPlan) /\ cpDone /\ controlPlaneOnlyCluster /\ finish
        \/ /\ Found(cpPlan) /\ cpDone /\ ~controlPlaneOnlyCluster
           /\ createObject(wkPlan, setInProgressCondition(p, "K8s"))
        \/ /\ Found(cpPlan) /\ Found(wkPlan) /\ cpDone /\ ~controlPlaneOnlyCluster
           /\ IF wkDone THEN finish
                        ELSE Report(setInProgressCondition(p, "K8s"), "after")

\* upgradeHelmChart wrote the HelmChart of chart h. When the call fails after
\* it has taken effect, the plan is returned as it is.
writeHelmChart(h, p, w, res) ==
    /\ hc' = [hc EXCEPT ![h] = HelmChartFor(h, p.rel)]
    /\ UNCHANGED <<seen, sucVars, nodeVars, manifestVars, installed, job>>
    /\ \/ Return(w, res) /\ UNCHANGED faults
       \/ Return(p, "error") /\ Fault

\* The walk gets to a HelmChart that the plan has created and whose cached copy
\* has no status.jobName yet: the job is not found and the state is Unknown. If
\* the event of the job has come before, nothing is left of it.
jobNameMissing(p, c) ==
    \E i \in DOMAIN Walk(c) :
        /\ \A j \in 1 .. (i - 1) : ~Stops(c, j, p.rel)
        /\ Walk(c)[i] \notin Managed /\ installed[Walk(c)[i]] # 0
        /\ hc[Walk(c)[i]] = HelmChartFor(Walk(c)[i], p.rel)
        /\ LoseEvent
        /\ Return(IF i > CoreIndex(c) THEN p ELSE evaluateHelmChartState(p, c, "Unknown"),
                  evaluateRequeue("Unknown"))
        /\ UNCHANGED <<seen, clusterVars>>

reconcileHelmChart(p, c) ==
    \/ jobNameMissing(p, c)
    \/ \E i \in DOMAIN Walk(c) :
         /\ StopsFirst(c, i, p.rel)
         /\ IF writesHelmChart(Walk(c)[i], p.rel)
            THEN writeHelmChart(Walk(c)[i], p, StoppedPlan(p, c, i), StoppedResult(p, c, i))
            ELSE Report(StoppedPlan(p, c, i), StoppedResult(p, c, i))
    \/ /\ \A i \in DOMAIN Walk(c) : ~Stops(c, i, p.rel)
       /\ Report(CompletedPlan(p, c), "requeue")

\* Defect: any component that is not finished.
NextComponent_Any(p, i) == ~isHelmUpgradeFinished(p, Workloads[p.rel][i])

\* The first component of the list whose upgrade is not finished.
NextComponent(p, i) ==
    /\ ~isHelmUpgradeFinished(p, Workloads[p.rel][i])
    /\ \A j \in 1 .. (i - 1) : isHelmUpgradeFinished(p, Workloads[p.rel][j])

reconcileWorkloads(p) ==
    \/ \E i \in DOMAIN Workloads[p.rel] :
         NextComponent(p, i) /\ reconcileHelmChart(p, Workloads[p.rel][i])
    \/ /\ \A i \in DOMAIN Workloads[p.rel] : isHelmUpgradeFinished(p, Workloads[p.rel][i])
       /\ Report([p EXCEPT !.last = p.rel], "done")

\* Defect: the stage counts as done once it is under way.
OSUpgraded_Started(p) == p.cond["OS"] \notin {"None", "Pending"}
KubernetesUpgraded_Started(p) == p.cond["K8s"] \notin {"None", "Pending"}

OSUpgraded(p) == IsStatusConditionTrue(p, "OS")
KubernetesUpgraded(p) == IsStatusConditionTrue(p, "K8s")

reconcileNormal(p) ==
    \/ createReleaseManifest(p)
    \/ ReconcileError(p)
    \/ /\ p.rel \in manifests
       /\ \/ rejectUnsupportedNodes(p)
          \/ observeGeneration(p)
          \/ /\ findUnsupportedNodes(p.rel) = {}
             /\ p.obs = p.gen
             /\ \/ ~OSUpgraded(p) /\ reconcileOS(p)
                \/ OSUpgraded(p) /\ ~KubernetesUpgraded(p) /\ reconcileKubernetes(p)
                \/ OSUpgraded(p) /\ KubernetesUpgraded(p) /\ reconcileWorkloads(p)
-----------------------------------------------------------------------------
(* reconcileDelete: list, delete one by one, remove the finalizer.         *)

\* Defect: the list matches a label only control plane plans have.
ListedPlans_ControlPlane == {o \in seen : o.kind \in {"osControlPlane", "k8sControlPlane"}}

\* r.List of the SUC plans that carry the plan's labels.
ListedPlans == {o \in seen : ~IsSecret(o)}

listPlans(p) ==
    /\ pc' = "deletePlans" /\ base' = p /\ work' = p /\ queued' = FALSE
    /\ todo' = ListedPlans
    /\ busy' = {o \in seen : Applying(o, applying) # {}}
    /\ UNCHANGED <<plan, cache, seen, timer, result, faults, clusterVars>>

\* Defect: an object that is gone ends the reconciliation without an error.
deleteListed_IgnoreMissing(o) ==
    \/ /\ o \in objs
       /\ RemoveObject(o)
       /\ todo' = todo \ {o}
       /\ UNCHANGED <<queued, timer, pc, base, work, result, busy, faults>>
    \/ o \notin objs /\ Finish(FALSE, FALSE) /\ UNCHANGED <<faults, clusterVars>>
    \/ Fault /\ Finish(TRUE, FALSE) /\ (UNCHANGED clusterVars \/ RemoveObject(o))

\* r.Delete of one listed object: gone already (an error), deleted, or the
\* call fails.
deleteListed(o) ==
    \/ /\ o \in objs
       /\ RemoveObject(o)
       /\ todo' = todo \ {o}
       /\ UNCHANGED <<queued, timer, pc, base, work, result, busy, faults>>
    \/ o \notin objs /\ Finish(TRUE, FALSE) /\ UNCHANGED <<faults, clusterVars>>
    \/ Fault /\ Finish(TRUE, FALSE) /\ (UNCHANGED clusterVars \/ RemoveObject(o))

deletePlans ==
    /\ pc = "deletePlans"
    /\ UNCHANGED <<plan, cache, seen>>
    /\ \/ \E o \in todo :
            \/ o \in busy /\ Finish(FALSE, FALSE) /\ UNCHANGED <<faults, clusterVars>>
            \/ o \notin busy /\ deleteListed(o)
       \/ /\ todo = {}
          /\ pc' = "deleteSecrets"
          /\ todo' = {o \in seen : IsSecret(o)}
          /\ UNCHANGED <<queued, timer, base, work, result, busy, faults, clusterVars>>

deleteSecrets ==
    /\ pc = "deleteSecrets"
    /\ UNCHANGED <<plan, cache, seen>>
    /\ \E o \in todo : deleteListed(o)

RemoveFinalizer ==
    LET new == [work EXCEPT !.fin = FALSE]
    IN  /\ pc = "deleteSecrets" /\ todo = {}
        /\ UNCHANGED <<cache, seen, clusterVars>>
        /\ \/ /\ base = plan /\ ValidateUpdate(plan, new)
              /\ plan' = [new EXCEPT !.life = "gone"]
              /\ \/ Finish(FALSE, FALSE) /\ UNCHANGED faults
                 \/ Finish(TRUE, FALSE) /\ Fault
           \/ /\ base # plan \/ ~ValidateUpdate(plan, new)
              /\ Finish(TRUE, FALSE)
              /\ UNCHANGED <<plan, faults>>
           \/ Fault /\ Finish(TRUE, FALSE) /\ UNCHANGED plan
-----------------------------------------------------------------------------
(* Reconcile.                                                              *)

AddFinalizer(p) ==
    LET new == [p EXCEPT !.fin = TRUE]
    IN  /\ UNCHANGED <<cache, seen, timer, localVars, clusterVars>>
        /\ queued' = TRUE
        /\ \/ /\ p = plan /\ ValidateUpdate(plan, new)
              /\ plan' = new
              /\ Fault \/ UNCHANGED faults
           \/ /\ p # plan \/ ~ValidateUpdate(plan, new)
              /\ UNCHANGED <<plan, faults>>
           \/ Fault /\ UNCHANGED plan

Reconcile ==
    /\ pc = "idle" /\ queued
    /\ \/ /\ ~Exists(cache)
          /\ queued' = FALSE
          /\ UNCHANGED <<plan, cache, seen, timer, localVars, faults, clusterVars>>
       \/ cache.life = "deleting" /\ cache.fin /\ listPlans(cache)
       \/ cache.life = "live" /\ ~cache.fin /\ AddFinalizer(cache)
       \/ cache.life = "live" /\ cache.fin /\ reconcileNormal(cache)

\* The controller stops at any point and starts again: its queue, timers and
\* locals are lost, the caches are filled and existing objects are enqueued.
Restart ==
    /\ Fault
    /\ pc' = "idle" /\ base' = NoPlan /\ work' = NoPlan /\ result' = "done"
    /\ todo' = {} /\ busy' = {}
    /\ timer' = FALSE
    /\ cache' = plan /\ seen' = objs
    /\ queued' = (Exists(plan) \/ \E o \in objs : IsSecret(o))
    /\ UNCHANGED <<plan, clusterVars>>
-----------------------------------------------------------------------------
User == DeletePlan \/ \E r \in Release \cup {0} : CreatePlan(r) \/ EditPlan(r)

Informer == SyncPlan \/ ResyncSecret \/ \E o \in objs \cup seen : SyncObject(o)

Controller ==
    Reconcile \/ Commit \/ deletePlans \/ deleteSecrets \/ RemoveFinalizer

Next ==
    \/ User \/ Informer \/ RequeueAfterElapses
    \/ SUCStep \/ JobStep
    \/ Controller \/ Restart

Spec == Init /\ [][Next]_vars
=============================================================================
