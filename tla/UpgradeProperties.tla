-------------------------- MODULE UpgradeProperties --------------------------
(***************************************************************************)
(* What the Upgrade Controller promises, stated over UpgradeController.    *)
(***************************************************************************)
EXTENDS UpgradeController

\* Every one of the nodes has (at least) the OS, the Kubernetes version of a
\* release.
AtOS(nodes, rel) == \A n \in nodes : os[n] >= OSVersion[rel]
AtKube(nodes, rel) == \A n \in nodes : kube[n] >= KubeVersion[rel]

\* The status of the plan belongs to its current spec.
Current(p) == Exists(p) /\ p.obs = p.gen /\ p.rel # 0
-----------------------------------------------------------------------------
(* Stages.                                                                 *)

\* README, stages 1 and 2: the control plane first, the workers second. A SUC
\* plan for workers exists (reconcileOS, reconcileKubernetes) only when every
\* control plane node has reached the version the plan installs, whatever
\* edits, deletions, restarts and stale reads came before.
ControlPlaneFirst ==
    \A o \in objs :
        /\ o.kind = "osWorker" => \A n \in ControlPlane : os[n] >= o.ver
        /\ o.kind = "k8sWorker" => \A n \in ControlPlane : kube[n] >= o.ver

\* The Kubernetes stage begins after the OS stage: a Kubernetes SUC plan
\* (reconcileKubernetes) exists only when every node, workers included, has
\* the operating system of a release that prescribes that Kubernetes version.
OSBeforeKubernetes ==
    \A o \in objs : o.kind \in {"k8sControlPlane", "k8sWorker"} =>
        \E r \in Release : KubeVersion[r] = o.ver /\ AtOS(Node, r)

\* The Helm stage comes last: a HelmChart written for a release
\* (createHelmChart, updateHelmChart) implies that the whole cluster has the
\* operating system and the Kubernetes version of that release.
WorkloadsLast ==
    \A h \in Chart : hc[h].ann # 0 => AtOS(Node, hc[h].ann) /\ AtKube(Node, hc[h].ann)

\* The stored status never claims too much: for the observed generation,
\* OSUpgraded and KubernetesUpgraded are true only of a cluster that is at the
\* release's versions, and so is lastSuccessfulReleaseVersion of its release.
\* A status computed from an outdated plan or from another generation that
\* reached the API server would break it.
TruthfulStatus ==
    /\ Current(plan) /\ plan.cond["OS"] = "Succeeded" => AtOS(Node, plan.rel)
    /\ Current(plan) /\ plan.cond["K8s"] = "Succeeded" => AtKube(Node, plan.rel)
    /\ plan.last # 0 => AtOS(Node, plan.last) /\ AtKube(Node, plan.last)

\* README, stages 1 and 2: "Each upgrade is happening one node at a time". At
\* no time is more than one node out of service for an upgrade.
OneNodeAtATime == Cardinality(cordoned) <= 1

\* parseDrainOptions spares a role whose nodes could not take over the evicted
\* pods: while SUC drains a node, another node that the same SUC plan selects is
\* in service, whatever the user disables.
DrainLeavesNode ==
    \A x \in applying, disable \in DrainOptions :
        Drains(x[1], disable) => \E m \in Selected(x[1]) : m # x[2] /\ m \notin cordoned
-----------------------------------------------------------------------------
(* The plan and what is created for it.                                    *)

\* A Secret or SUC plan is only ever created for the release and with the
\* suffix that are stored in the API server at that moment, although the
\* reconciler decides on a cached plan: the webhook rejects edits for as long
\* as the reconciler may still create one. (HelmCharts are not covered: a
\* component that has failed lets an edit through, and a reconciliation of the
\* plan as it was before may still write the component's next chart.)
WritesForStoredPlan ==
    [][\A o \in objs' \ objs :
         /\ Exists(plan)
         /\ o.sfx = plan.sfx
         /\ o.ver = IF o.kind \in OSKind \cup {"secret"} THEN OSVersion[plan.rel]
                                                         ELSE KubeVersion[plan.rel]]_vars

\* Reads of Secrets and SUC plans come from informer caches; still, at most
\* one object is ever missing from them, because createObject is the last
\* write of a reconciliation and the next one waits for the object to show.
OneUnseenObject == Cardinality(objs \ seen) <= 1

\* reconcileDelete lists from the caches: when the plan is gone, at most one
\* object that was created for it is left behind.
AtMostOneOrphan == plan.life = "gone" => Cardinality(objs) <= 1

\* The architecture check of reconcileNormal comes before everything that is
\* created: the SUC plans and secrets in the cluster belong to a release that
\* supports every node, whatever release the plan named before.
ArchitectureRespected ==
    \A o \in objs : \E r \in Release :
        /\ o.ver \in {OSVersion[r], KubeVersion[r]}
        /\ \A n \in Node : \E a \in SupportedArchs[r] : NodeArchitecture[n] \in {a, Short(a)}

\* lastSuccessfulReleaseVersion never decreases: the webhook demands an
\* increment, and no reconciliation of an older spec may overwrite it.
LastVersionMonotone == [][plan'.last >= plan.last]_vars
-----------------------------------------------------------------------------
(* Helm workloads.                                                         *)

\* The components of a release. Conditions of charts that only earlier releases
\* listed stay in the status and say nothing about the release.
Components(rel) == {Workloads[rel][i] : i \in DOMAIN Workloads[rel]}

\* README, stage 3: "The upgrades will follow the order of the component list".
\* A HelmChart of a component is written only when the stored status says that
\* every earlier component of the release is finished.
ComponentOrder ==
    [][\A r \in Release : \A k \in DOMAIN Workloads[r] :
         (\E i \in DOMAIN Walk(Workloads[r][k]) :
             LET h == Walk(Workloads[r][k])[i] IN hc'[h] # hc[h] /\ hc'[h].ann = r)
         => \A j \in 1 .. (k - 1) :
                plan.cond[Workloads[r][j]] \in {"Succeeded", "Skipped", "Failed"}]_vars

\* Another release has asked for the version of chart h that release r asks for,
\* and the job has failed: upgradeHelmChart takes the chart for installed.
FailedBefore(h, r) ==
    hc[h].ver = ChartVersion[r][h] /\ hc[h].ann \notin {0, r} /\ job[h].st = "failed"

\* reconcileHelmChart upgrades the dependencies before the component and the
\* component before its add-ons: when a HelmChart is written, the charts it
\* comes after are installed in the version of the release, or an earlier
\* release has failed to install that version.
DependenciesFirst ==
    [][\A r \in Release : \A c \in Components(r) : \A i \in DOMAIN Walk(c) :
         LET h == Walk(c)[i]
         IN  hc'[h] # hc[h] /\ hc'[h].ann = r =>
                \A j \in 1 .. (i - 1) : j <= CoreIndex(c) =>
                    \/ installed[Walk(c)[j]] = ChartVersion[r][Walk(c)[j]]
                    \/ FailedBefore(Walk(c)[j], r)]_vars

\* upgradeplan_types.go: UpgradeSucceeded "indicates that the upgrade process
\* has been successful". A component reported as Succeeded is installed in the
\* version of the release.
SucceededMeansInstalled ==
    Current(plan) =>
        \A c \in Components(plan.rel) : plan.cond[c] = "Succeeded" =>
            installed[c] = ChartVersion[plan.rel][c]

\* internal/upgrade/helm.go, the message of a component that is skipped although
\* its charts are installed: "Specified version of chart %s is already installed".
SkippedMeansInstalled ==
    Current(plan) =>
        \A c \in Components(plan.rel) :
            plan.cond[c] = "Skipped" /\ (\A i \in DOMAIN Walk(c) : installed[Walk(c)[i]] # 0) =>
                installed[c] = ChartVersion[plan.rel][c]

\* upgradeplan_webhook.go: "new releaseVersion must be greater than the
\* currently applied one". Once every condition of a release is final, an
\* accepted edit raises the release version.
EditsIncrementRelease ==
    [][Current(plan) /\ plan.gen # plan'.gen /\ plan'.life = "live"
         /\ OSUpgraded(plan) /\ KubernetesUpgraded(plan)
       => plan'.rel > plan.rel]_vars
-----------------------------------------------------------------------------
(* The abstract specification.                                             *)

StageOf(p) ==
    CASE p.life # "live" \/ p.obs # p.gen -> "idle"
      [] p.life = "live" /\ p.obs = p.gen /\ ~OSUpgraded(p) -> "os"
      [] p.life = "live" /\ p.obs = p.gen /\ OSUpgraded(p) /\ ~KubernetesUpgraded(p) ->
             "kubernetes"
      [] OTHER -> "workloads"

FinishedOf(p) ==
    IF StageOf(p) = "workloads"
    THEN {c \in Components(p.rel) : isHelmUpgradeFinished(p, c)}
    ELSE {}

Staged == INSTANCE StagedUpgrade WITH
              life <- plan.life, rel <- plan.rel, last <- plan.last,
              stage <- StageOf(plan), finished <- FinishedOf(plan)

\* The reconciler, with its cached reads, late status updates, retries and
\* restarts, implements StagedUpgrade: seen through the stored plan, an upgrade
\* goes through its stages one by one and in order, none is left early, and the
\* webhook lets no edit through while one is under way.
UpgradesInStages == Staged!StagedSpec
-----------------------------------------------------------------------------
(* Wake-ups: what makes the controller look at the plan again.             *)

\* SUC has a job to run or to finish, one that need not wait for another plan.
NodeJobAhead ==
    \E o \in objs, n \in Node :
        /\ ~IsSecret(o) /\ Prepared(o)
        /\ <<o, n>> \in applying \/ Applicable(o, n)

\* The Helm Controller has a job to run or to replace, for a chart of the plan.
HelmJobAhead ==
    \E h \in Chart :
        /\ hc[h].ann # 0 /\ hc[h].ver # 0
        /\ ~(JobFinished(job[h]) /\ job[h].ver = hc[h].ver)

\* Something will put the plan into the work queue. The periodic
\* resynchronisation counts only where a job event has been lost.
WakeUpAhead ==
    \/ queued \/ timer
    \/ PlanPredicate(cache, plan)
    \/ \E o \in objs \ seen : IsSecret(o)
    \/ \E r \in Release : mjob[r] = "running"
    \/ NodeJobAhead \/ HelmJobAhead
    \/ faults.events > 0 /\ \E o \in seen : IsSecret(o)

\* The reconciler has nothing more to do for a plan in use: it is at its release,
\* or the release does not support the cluster.
AtRest(p) == p.last = p.rel \/ findUnsupportedNodes(p.rel) # {}

\* The reconciler returns without a requeue after every creation, on the account
\* that a watch will bring it back, and the comment in Reconcile says of a
\* deletion that "the plan will be reconciled again once the upgrade is
\* complete". No such event is missed: while there is something to do and nobody
\* is at it, the plan is queued, a timer is pending, or a program is at work
\* whose next event is let through by the predicates. A deletion waits only for a
\* node that is being upgraded.
NoLostWakeUp ==
    pc = "idle" =>
        /\ plan.life = "live" /\ ~AtRest(plan) => WakeUpAhead
        /\ plan.life = "deleting" => queued \/ PlanPredicate(cache, plan) \/ applying # {}
-----------------------------------------------------------------------------
(* Progress. The controller's worker, the informers and the RequeueAfter   *)
(* timers run as long as the process does, and SUC, the Helm Controller    *)
(* and jobs make progress; users and faults are free. A lost job event is  *)
(* made up for by the informer's periodic resynchronisation of Secrets,    *)
(* which nothing else may rely on.                                         *)

Fairness ==
    /\ WF_vars(Controller)
    /\ WF_vars(SyncPlan)
    /\ WF_vars(\E o \in objs \cup seen : SyncObject(o))
    /\ WF_vars(RequeueAfterElapses)
    /\ WF_vars(SUCStep)
    /\ WF_vars(JobStep)
    /\ WF_vars(faults.events > 0 /\ ResyncSecret)

FairSpec == Spec /\ Fairness

\* A plan for a supported cluster is upgraded to its release, unless it is
\* deleted: although SUC plan and HelmChart creations are not requeued, some
\* event always brings the reconciler back.
UpgradeCompletes == plan.life = "live" ~> (plan.last = plan.rel \/ plan.life # "live")

\* A deleted plan disappears. The comment in Reconcile claims it: "Requeue here
\* is not necessary since the plan will be reconciled again once the upgrade is
\* complete".
DeletionCompletes == plan.life = "deleting" ~> plan.life = "gone"
=============================================================================
