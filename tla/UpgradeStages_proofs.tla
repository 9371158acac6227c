------------------------ MODULE UpgradeStages_proofs -------------------------
(***************************************************************************)
(* Types, the order of the stages and the truth of the status, for every   *)
(* set of nodes, releases and charts, every version table and every bound. *)
(*                                                                         *)
(* What the stored status says is not inductive by itself: the status is   *)
(* written from the reconciler's copy of the plan, which started as the    *)
(* cached plan, so all four copies have to be truthful. The objects in the *)
(* cluster are truthful because they are created from such a copy.         *)
(***************************************************************************)
EXTENDS UpgradeProperties, TLAPS

(***************************************************************************)
(* Types of the operators the reconciler is built from.                    *)
(***************************************************************************)

\* The empty plan is a plan object.
LEMMA NoPlanType == NoPlan \in PlanObject
  BY DEF NoPlan, PlanObject, ConditionType, Reason

\* Every condition setter of the controller returns a plan object that differs
\* from its argument in at most the one condition.
LEMMA SetConditionType ==
  ASSUME NEW p \in PlanObject, NEW t \in ConditionType, NEW x \in Reason
  PROVE  [p EXCEPT !.cond[t] = x] \in PlanObject
  <1>1. [p.cond EXCEPT ![t] = x] \in [ConditionType -> Reason]
    BY DEF PlanObject
  <1>2. QED
    BY <1>1 DEF PlanObject

\* Two plan objects agree on the release, the generations and the stages; w is
\* not a plan that was never created unless p is.
SameStages(p, w) ==
    /\ w \in PlanObject
    /\ w.life = "absent" => p.life = "absent"
    /\ w.rel = p.rel /\ w.gen = p.gen /\ w.obs = p.obs /\ w.last = p.last
    /\ w.cond["OS"] = p.cond["OS"] /\ w.cond["K8s"] = p.cond["K8s"]

\* Setting the condition of a chart leaves the stages alone: chart condition
\* types differ from OSUpgraded and KubernetesUpgraded.
LEMMA SetChartCondition ==
  ASSUME NEW p \in PlanObject, NEW c \in Chart, NEW x \in Reason
  PROVE  SameStages(p, [p EXCEPT !.cond[c] = x])
  <1>1. c \in ConditionType /\ c # "OS" /\ c # "K8s"
    BY ConditionAssumption DEF ConditionType
  <1>2. [p EXCEPT !.cond[c] = x] \in PlanObject
    BY <1>1, SetConditionType
  <1>3. p.cond \in [ConditionType -> Reason]
    BY DEF PlanObject
  <1>4. /\ [p EXCEPT !.cond[c] = x].cond["OS"] = p.cond["OS"]
        /\ [p EXCEPT !.cond[c] = x].cond["K8s"] = p.cond["K8s"]
    BY <1>1, <1>3 DEF PlanObject, ConditionType
  <1>5. QED
    BY <1>2, <1>4 DEF SameStages, PlanObject

\* evaluateHelmChartState only touches the chart's own condition.
LEMMA EvaluateType ==
  ASSUME NEW p \in PlanObject, NEW c \in Chart, NEW s
  PROVE  SameStages(p, evaluateHelmChartState(p, c, s))
  BY SetChartCondition
  DEF evaluateHelmChartState, setSkippedCondition, setInProgressCondition,
      setSuccessfulCondition, setFailedCondition, setErrorCondition, Reason

\* So does reconcileHelmChart, wherever its walk stops.
LEMMA StoppedType ==
  ASSUME NEW p \in PlanObject, NEW c \in Chart, NEW i
  PROVE  /\ SameStages(p, StoppedPlan(p, c, i))
         /\ StoppedResult(p, c, i) \in {"done", "requeue"}
         /\ SameStages(p, CompletedPlan(p, c))
  <1>1. SameStages(p, p)
    BY DEF SameStages
  <1>2. SameStages(p, setFailedCondition(p, c))
    BY SetChartCondition DEF setFailedCondition, Reason
  <1>3. SameStages(p, StoppedPlan(p, c, i))
    BY <1>1, <1>2, EvaluateType DEF StoppedPlan
  <1>4. QED
    BY <1>3, EvaluateType DEF StoppedResult, evaluateRequeue, CompletedPlan

\* A new generation's status is a plan object with both stages Pending.
LEMMA PendingType ==
  ASSUME NEW p \in PlanObject, NEW s \in Suffix, NEW T, {"OS", "K8s"} \subseteq T
  PROVE  LET w == setPendingConditions([p EXCEPT !.sfx = s, !.obs = p.gen], T)
         IN  /\ w \in PlanObject /\ w.life = p.life
             /\ w.rel = p.rel /\ w.gen = p.gen /\ w.obs = p.gen /\ w.last = p.last
             /\ w.cond["OS"] = "Pending" /\ w.cond["K8s"] = "Pending"
  <1> DEFINE q == [p EXCEPT !.sfx = s, !.obs = p.gen]
             cond == [t \in ConditionType |-> IF t \in T THEN "Pending" ELSE q.cond[t]]
  <1>1. q \in PlanObject /\ q.life = p.life /\ q.rel = p.rel /\ q.gen = p.gen /\ q.obs = p.gen /\ q.last = p.last
    BY DEF PlanObject
  <1>2. cond \in [ConditionType -> Reason] /\ cond["OS"] = "Pending" /\ cond["K8s"] = "Pending"
    BY <1>1 DEF PlanObject, ConditionType, Reason
  <1>3. [q EXCEPT !.cond = cond] \in PlanObject
    BY <1>1, <1>2 DEF PlanObject
  <1>4. QED
    BY <1>1, <1>2, <1>3 DEF setPendingConditions, PlanObject
-----------------------------------------------------------------------------
(***************************************************************************)
(* Type correctness.                                                       *)
(***************************************************************************)

\* The names of the objects that reconcileOS and reconcileKubernetes create
\* are object names.
LEMMA ObjectType ==
  ASSUME NEW p \in PlanObject, p.rel \in Release,
         NEW k \in SUCPlanKind \cup {"secret"}
  PROVE  OSObject(k, p) \in Object /\ K8sObject(k, p) \in Object
  <1>1. OSVersion[p.rel] \in Nat /\ KubeVersion[p.rel] \in Nat
    BY VersionAssumption
  <1>2. p.sfx \in Suffix \cup {NoSuffix}
    BY DEF PlanObject
  <1>3. QED
    BY <1>1, <1>2 DEF OSObject, K8sObject, Object

\* The part of the state that ends a reconciliation is well typed.
LEMMA FinishType ==
  ASSUME TypeOK, NEW q \in BOOLEAN, NEW t \in BOOLEAN, Finish(q, t)
  PROVE  /\ base' \in PlanObject /\ work' \in PlanObject
         /\ todo' \subseteq Object /\ busy' \subseteq Object
         /\ queued' \in BOOLEAN /\ timer' \in BOOLEAN
         /\ pc' \in {"idle", "commit", "deletePlans", "deleteSecrets"}
         /\ result' \in {"done", "requeue", "after", "error"}
  BY NoPlanType DEF TypeOK, Finish

\* Leaving reconcileNormal keeps everything the reconciler owns well typed.
LEMMA ReturnType ==
  ASSUME TypeOK, NEW w \in PlanObject,
         NEW res \in {"done", "requeue", "after", "error"}, Return(w, res)
  PROVE  /\ plan' \in PlanObject /\ cache' \in PlanObject
         /\ base' \in PlanObject /\ work' \in PlanObject
         /\ todo' \subseteq Object /\ busy' \subseteq Object
         /\ queued' \in BOOLEAN /\ timer' \in BOOLEAN
         /\ pc' \in {"idle", "commit", "deletePlans", "deleteSecrets"}
         /\ result' \in {"done", "requeue", "after", "error"}
  BY DEF TypeOK, Return

\* Reporting a status changes nothing outside the reconciler.
LEMMA ReportType ==
  ASSUME TypeOK, NEW w \in PlanObject,
         NEW res \in {"done", "requeue", "after", "error"}, Report(w, res)
  PROVE  TypeOK'
  BY ReturnType
  DEF Report, TypeOK, ClusterTypeOK, clusterVars, sucVars, nodeVars, manifestVars, helmVars

\* A failed call counts.
LEMMA FaultType ==
  ASSUME TypeOK, Fault \/ UNCHANGED faults
  PROVE  faults' \in FaultCount
  BY DEF TypeOK, Fault, FaultCount

\* createObject adds at most an object name to the cluster.
LEMMA CreateType ==
  ASSUME TypeOK, NEW o \in Object, NEW w \in PlanObject, createObject(o, w)
  PROVE  TypeOK'
  <1>1. PICK res \in {"done", "error"} : Return(w, res)
    BY DEF createObject
  <1>2. objs' \subseteq Object /\ faults' \in FaultCount
    BY FaultType DEF createObject, TypeOK, ClusterTypeOK
  <1>3. QED
    BY <1>1, <1>2, ReturnType
    DEF createObject, TypeOK, ClusterTypeOK, nodeVars, manifestVars, helmVars

\* The plan objects reported by the node stages.
LEMMA StagePlanType ==
  ASSUME NEW p \in PlanObject, NEW t \in {"OS", "K8s"}
  PROVE  /\ setInProgressCondition(p, t) \in PlanObject
         /\ setSuccessfulCondition(p, t) \in PlanObject
  BY SetConditionType DEF setInProgressCondition, setSuccessfulCondition, ConditionType, Reason

\* The operating system stage keeps the types.
LEMMA ReconcileOSType ==
  ASSUME TypeOK, NEW p \in PlanObject, p.rel \in Release, reconcileOS(p)
  PROVE  TypeOK'
  <1> DEFINE secret == OSObject("secret", p)
             cpPlan == OSObject("osControlPlane", p)
             wkPlan == OSObject("osWorker", p)
  <1>1. secret \in Object /\ cpPlan \in Object /\ wkPlan \in Object
    BY ObjectType DEF SUCPlanKind
  <1>2. setInProgressCondition(p, "OS") \in PlanObject /\ setSuccessfulCondition(p, "OS") \in PlanObject
    BY StagePlanType
  <1>3. \/ createObject(secret, p)
        \/ createObject(cpPlan, setInProgressCondition(p, "OS"))
        \/ createObject(wkPlan, setInProgressCondition(p, "OS"))
        \/ Report(setInProgressCondition(p, "OS"), "after")
        \/ Report(setSuccessfulCondition(p, "OS"), "requeue")
    BY DEF reconcileOS
  <1>4. QED
    BY <1>1, <1>2, <1>3, CreateType, ReportType

\* The Kubernetes stage keeps the types.
LEMMA ReconcileKubernetesType ==
  ASSUME TypeOK, NEW p \in PlanObject, p.rel \in Release, reconcileKubernetes(p)
  PROVE  TypeOK'
  <1> DEFINE cpPlan == K8sObject("k8sControlPlane", p)
             wkPlan == K8sObject("k8sWorker", p)
  <1>1. cpPlan \in Object /\ wkPlan \in Object
    BY ObjectType DEF SUCPlanKind
  <1>2. setInProgressCondition(p, "K8s") \in PlanObject /\ setSuccessfulCondition(p, "K8s") \in PlanObject
    BY StagePlanType
  <1>3. \/ createObject(cpPlan, setInProgressCondition(p, "K8s"))
        \/ createObject(wkPlan, setInProgressCondition(p, "K8s"))
        \/ Report(setInProgressCondition(p, "K8s"), "after")
        \/ Report(setSuccessfulCondition(p, "K8s"), "requeue")
    BY DEF reconcileKubernetes
  <1>4. QED
    BY <1>1, <1>2, <1>3, CreateType, ReportType

\* The walk over a component's charts visits charts.
LEMMA WalkType ==
  ASSUME NEW c \in Chart, NEW i \in DOMAIN Walk(c)
  PROVE  Walk(c)[i] \in Chart
  <1>1. Dependencies[c] \in Seq(Chart) /\ Addons[c] \in Seq(Chart) /\ <<c>> \in Seq(Chart)
    BY WorkloadAssumption
  <1>2. Walk(c) \in Seq(Chart)
    BY <1>1 DEF Walk
  <1>3. QED
    BY <1>2

\* Creating or updating a HelmChart keeps the types.
LEMMA WriteHelmChartType ==
  ASSUME TypeOK, NEW p \in PlanObject, p.rel \in Release, NEW h \in Chart,
         NEW w \in PlanObject, NEW res \in {"done", "requeue"},
         writeHelmChart(h, p, w, res)
  PROVE  TypeOK'
  <1>1. HelmChartFor(h, p.rel) \in HelmChartObject
    BY VersionAssumption DEF HelmChartFor, HelmChartObject
  <1>2. hc' \in [Chart -> HelmChartObject]
    BY <1>1 DEF writeHelmChart, TypeOK, ClusterTypeOK
  <1>3. Return(w, res) \/ Return(p, "error")
    BY DEF writeHelmChart
  <1>4. faults' \in FaultCount
    BY FaultType DEF writeHelmChart
  <1>5. QED
    BY <1>2, <1>3, <1>4, ReturnType
    DEF writeHelmChart, TypeOK, ClusterTypeOK, sucVars, nodeVars, manifestVars

\* The step of a reconciliation that finds no job, after the job's event.
ReportMissed(w, res) == Return(w, res) /\ LoseEvent /\ UNCHANGED <<seen, clusterVars>>

\* What is reported then.
LEMMA JobNameMissingReports ==
  ASSUME NEW p, NEW c, jobNameMissing(p, c)
  PROVE  \E w \in {p, evaluateHelmChartState(p, c, "Unknown")} : ReportMissed(w, "done")
  BY DEF jobNameMissing, evaluateRequeue, ReportMissed

\* It keeps the types.
LEMMA ReportMissedType ==
  ASSUME TypeOK, NEW w \in PlanObject, NEW res \in {"done", "requeue"}, ReportMissed(w, res)
  PROVE  TypeOK'
  <1>1. faults' \in FaultCount
    BY DEF ReportMissed, LoseEvent, FaultCount, TypeOK
  <1>2. QED
    BY <1>1, ReturnType
    DEF ReportMissed, TypeOK, ClusterTypeOK, clusterVars, sucVars, nodeVars, manifestVars, helmVars

\* What reconcileHelmChart may do, without the details of the walk.
LEMMA ReconcileHelmChartShape ==
  ASSUME NEW p \in PlanObject, NEW c \in Chart, reconcileHelmChart(p, c)
  PROVE  \E w \in PlanObject, res \in {"done", "requeue"} :
            /\ SameStages(p, w)
            /\ \/ Report(w, res) \/ ReportMissed(w, res)
               \/ \E h \in Chart : writeHelmChart(h, p, w, res)
  <1>1. CASE \E i \in DOMAIN Walk(c) :
               \/ writeHelmChart(Walk(c)[i], p, StoppedPlan(p, c, i), StoppedResult(p, c, i))
               \/ Report(StoppedPlan(p, c, i), StoppedResult(p, c, i))
    <2>1. PICK i \in DOMAIN Walk(c) :
               \/ writeHelmChart(Walk(c)[i], p, StoppedPlan(p, c, i), StoppedResult(p, c, i))
               \/ Report(StoppedPlan(p, c, i), StoppedResult(p, c, i))
      BY <1>1
    <2>2. SameStages(p, StoppedPlan(p, c, i)) /\ StoppedResult(p, c, i) \in {"done", "requeue"}
      BY StoppedType
    <2>3. QED
      BY <2>1, <2>2, WalkType DEF SameStages
  <1>2. CASE Report(CompletedPlan(p, c), "requeue")
    BY <1>2, StoppedType DEF SameStages
  <1>3. CASE jobNameMissing(p, c)
    <2>1. SameStages(p, p)
      BY DEF SameStages
    <2>2. QED
      BY <1>3, <2>1, JobNameMissingReports, EvaluateType DEF SameStages
  <1>4. QED
    BY <1>1, <1>2, <1>3 DEF reconcileHelmChart

\* What reconcileWorkloads may do.
LEMMA ReconcileWorkloadsShape ==
  ASSUME NEW p \in PlanObject, p.rel \in Release, reconcileWorkloads(p)
  PROVE  \/ \E w \in PlanObject, res \in {"done", "requeue"} :
               /\ SameStages(p, w)
               /\ \/ Report(w, res) \/ ReportMissed(w, res)
                  \/ \E h \in Chart : writeHelmChart(h, p, w, res)
         \/ Report([p EXCEPT !.last = p.rel], "done")
  <1>1. \A i \in DOMAIN Workloads[p.rel] : Workloads[p.rel][i] \in Chart
    BY WorkloadAssumption
  <1>2. QED
    BY <1>1, ReconcileHelmChartShape DEF reconcileWorkloads

\* The Helm stage keeps the types.
LEMMA ReconcileWorkloadsType ==
  ASSUME TypeOK, NEW p \in PlanObject, p.rel \in Release, reconcileWorkloads(p)
  PROVE  TypeOK'
  <1>1. [p EXCEPT !.last = p.rel] \in PlanObject
    BY DEF PlanObject
  <1>2. QED
    BY <1>1, ReconcileWorkloadsShape, ReportType, ReportMissedType, WriteHelmChartType

\* So does a whole reconciliation of a live plan.
LEMMA ReconcileNormalType ==
  ASSUME TypeOK, cache.life = "live", reconcileNormal(cache)
  PROVE  TypeOK'
  <1> DEFINE p == cache
  <1>0. p \in PlanObject
    BY DEF TypeOK
  <1>1. CASE createReleaseManifest(p)
    <2>1. PICK res \in {"done", "error"} : Return(p, res)
      BY <1>1 DEF createReleaseManifest
    <2>2. mjob' \in [Release -> {"none", "running", "finished"}]
      BY <1>1 DEF createReleaseManifest, TypeOK, ClusterTypeOK
    <2>3. faults' \in FaultCount
      BY <1>1, FaultType DEF createReleaseManifest
    <2>4. QED
      BY <1>0, <1>1, <2>1, <2>2, <2>3, ReturnType
      DEF createReleaseManifest, TypeOK, ClusterTypeOK, sucVars, nodeVars, helmVars
  <1>2. CASE ReconcileError(p)
    BY <1>0, <1>2, ReturnType, FaultType
    DEF ReconcileError, TypeOK, ClusterTypeOK, clusterVars, sucVars, nodeVars,
        manifestVars, helmVars
  <1>3. CASE rejectUnsupportedNodes(p)
    <2>1. [p EXCEPT !.invalid = TRUE] \in PlanObject
      BY <1>0 DEF PlanObject
    <2>2. QED
      BY <1>3, <2>1, ReportType DEF rejectUnsupportedNodes
  <1>4. CASE observeGeneration(p)
    <2>1. \/ Report(p, "requeue")
          \/ \E s \in Suffix :
               Report(setPendingConditions([p EXCEPT !.sfx = s, !.obs = p.gen],
                                           PendingConditions(p.rel)), "requeue")
      BY <1>4 DEF observeGeneration
    <2>2. {"OS", "K8s"} \subseteq PendingConditions(p.rel)
      BY DEF PendingConditions
    <2>3. QED
      BY <1>0, <2>1, <2>2, PendingType, ReportType
  <1>5. CASE p.rel \in manifests /\ (reconcileOS(p) \/ reconcileKubernetes(p) \/ reconcileWorkloads(p))
    <2>1. p.rel \in Release
      BY <1>5 DEF TypeOK, ClusterTypeOK
    <2>2. QED
      BY <1>0, <1>5, <2>1, ReconcileOSType, ReconcileKubernetesType, ReconcileWorkloadsType
  <1>6. QED
    BY <1>1, <1>2, <1>3, <1>4, <1>5 DEF reconcileNormal

\* A step that leaves the cluster alone keeps it well typed.
LEMMA ClusterTypeUnchanged ==
  ASSUME ClusterTypeOK, UNCHANGED clusterVars
  PROVE  ClusterTypeOK'
  BY DEF ClusterTypeOK, clusterVars, sucVars, nodeVars, manifestVars, helmVars

\* A reconciliation that ends without touching the cluster.
LEMMA FinishStepType ==
  ASSUME TypeOK, \E q \in BOOLEAN, t \in BOOLEAN : Finish(q, t),
         Fault \/ UNCHANGED faults, UNCHANGED clusterVars,
         plan' \in PlanObject, UNCHANGED <<cache, seen>>
  PROVE  TypeOK'
  <1>1. ClusterTypeOK'
    BY ClusterTypeUnchanged DEF TypeOK
  <1>2. faults' \in FaultCount
    BY FaultType
  <1>3. QED
    BY <1>1, <1>2, FinishType DEF TypeOK

\* Steps of the System Upgrade Controller keep the types.
LEMMA SUCStepType ==
  ASSUME TypeOK, SUCStep
  PROVE  TypeOK'
  <1>1. PICK o \in objs, n \in Node :
          /\ StartNodeJob(o, n) \/ UpgradeNode(o, n) \/ FinishNodeJob(o, n)
          /\ queued' = (queued \/ SUCPlanPredicate(o))
          /\ seen' = IF SUCPlanPredicate(o) THEN seen \cup {o} ELSE seen
          /\ UNCHANGED <<plan, cache, timer, localVars, faults>>
    BY DEF SUCStep
  <1>2. o \in Object /\ o.ver \in Nat
    BY DEF TypeOK, ClusterTypeOK, Object
  <1>3. seen' \subseteq Object /\ queued' \in BOOLEAN
    BY <1>1, <1>2 DEF TypeOK, SUCPlanPredicate
  <1>4. ClusterTypeOK'
    <2>1. CASE StartNodeJob(o, n)
      BY <1>2, <2>1 DEF StartNodeJob, TypeOK, ClusterTypeOK, manifestVars, helmVars
    <2>2. CASE UpgradeNode(o, n)
      BY <1>2, <2>2 DEF UpgradeNode, TypeOK, ClusterTypeOK, sucVars, manifestVars, helmVars
    <2>3. CASE FinishNodeJob(o, n)
      BY <1>2, <2>3 DEF FinishNodeJob, TypeOK, ClusterTypeOK, manifestVars, helmVars
    <2>4. QED
      BY <1>1, <2>1, <2>2, <2>3
  <1>5. QED
    BY <1>1, <1>3, <1>4 DEF TypeOK, localVars

\* Steps of the Helm Controller, of jobs and of core components keep the types.
LEMMA JobStepType ==
  ASSUME TypeOK, JobStep
  PROVE  TypeOK'
  <1>1. queued' \in BOOLEAN /\ faults' \in FaultCount
    <2>1. CASE queued' = (queued \/ JobPredicate) /\ UNCHANGED faults
      BY <2>1 DEF TypeOK, JobPredicate
    <2>2. CASE DropJobEvent
      BY <2>2 DEF DropJobEvent, LoseEvent, FaultCount, TypeOK
    <2>3. QED
      BY <2>1, <2>2 DEF JobStep
  <1>2. ASSUME NEW r \in Release,
               ManifestJobSucceeds(r) \/ ManifestJobFails(r) \/ ManifestJobExpires(r)
        PROVE  ClusterTypeOK'
    BY <1>2
    DEF ManifestJobSucceeds, ManifestJobFails, ManifestJobExpires, TypeOK, ClusterTypeOK,
        sucVars, nodeVars, helmVars
  <1>3. ASSUME NEW h \in Chart, RemoveHelmJob(h) \/ StartHelmJob(h)
        PROVE  ClusterTypeOK'
    <2>1. NoJob \in JobObject /\ [st |-> "running", ver |-> hc[h].ver] \in JobObject
      BY DEF NoJob, JobObject, TypeOK, ClusterTypeOK, HelmChartObject
    <2>2. job' \in [Chart -> JobObject]
      BY <1>3, <2>1 DEF RemoveHelmJob, StartHelmJob, TypeOK, ClusterTypeOK
    <2>3. QED
      BY <1>3, <2>2
      DEF RemoveHelmJob, StartHelmJob, TypeOK, ClusterTypeOK, sucVars, nodeVars, manifestVars
  <1>4. ASSUME NEW h \in Chart, HelmJobSucceeds(h) \/ HelmJobFails(h)
        PROVE  ClusterTypeOK'
    <2>1. job[h] \in JobObject /\ installed[h] \in Nat /\ job[h].ver \in Nat
      BY DEF TypeOK, ClusterTypeOK, JobObject
    <2>2. [job[h] EXCEPT !.st = "complete"] \in JobObject /\ [job[h] EXCEPT !.st = "failed"] \in JobObject
      BY <2>1 DEF JobObject
    <2>3. job' \in [Chart -> JobObject]
      BY <1>4, <2>2 DEF HelmJobSucceeds, HelmJobFails, TypeOK, ClusterTypeOK
    <2>4. installed' \in [Chart -> Nat]
      BY <1>4, <2>1 DEF HelmJobSucceeds, HelmJobFails, TypeOK, ClusterTypeOK
    <2>5. QED
      BY <1>4, <2>3, <2>4
      DEF HelmJobSucceeds, HelmJobFails, TypeOK, ClusterTypeOK, sucVars, nodeVars, manifestVars
  <1>5. ASSUME UpgradeCore
        PROVE  ClusterTypeOK'
    BY <1>5 DEF UpgradeCore, TypeOK, ClusterTypeOK, Node, sucVars, manifestVars, helmVars
  <1>6. ClusterTypeOK'
    BY <1>2, <1>3, <1>4, <1>5 DEF JobStep
  <1>7. QED
    BY <1>1, <1>6 DEF JobStep, TypeOK, localVars

\* Deleting a listed object keeps the types.
LEMMA DeleteListedType ==
  ASSUME TypeOK, NEW o, deleteListed(o), UNCHANGED <<plan, cache, seen>>
  PROVE  TypeOK'
  <1>1. CASE o \in objs /\ RemoveObject(o) /\ todo' = todo \ {o}
             /\ UNCHANGED <<queued, timer, pc, base, work, result, busy, faults>>
    BY <1>1 DEF RemoveObject, TypeOK, ClusterTypeOK, nodeVars, manifestVars, helmVars
  <1>2. CASE Finish(TRUE, FALSE) /\ (Fault \/ UNCHANGED faults) /\ UNCHANGED clusterVars
    <2>1. plan' \in PlanObject
      BY DEF TypeOK
    <2>2. QED
      BY <1>2, <2>1, FinishStepType
  <1>3. CASE Finish(TRUE, FALSE) /\ Fault /\ RemoveObject(o)
    <2>1. ClusterTypeOK'
      BY <1>3 DEF RemoveObject, TypeOK, ClusterTypeOK, nodeVars, manifestVars, helmVars
    <2>2. faults' \in FaultCount
      BY <1>3, FaultType
    <2>3. QED
      BY <1>3, <2>1, <2>2, FinishType DEF TypeOK
  <1>4. QED
    BY <1>1, <1>2, <1>3 DEF deleteListed

\* Creating, editing and deleting the plan keeps the types.
LEMMA UserType ==
  ASSUME TypeOK, User
  PROVE  TypeOK'
  <1>1. plan' \in PlanObject
    <2>0. plan \in PlanObject /\ plan.gen + 1 \in Nat
      BY DEF TypeOK, PlanObject
    <2>1. CASE DeletePlan
      BY <2>0, <2>1 DEF DeletePlan, PlanObject
    <2>2. ASSUME NEW r \in Release \cup {0}, CreatePlan(r)
          PROVE  plan' \in PlanObject
      BY <2>2, NoPlanType DEF CreatePlan, PlanObject
    <2>3. ASSUME NEW r \in Release \cup {0}, EditPlan(r)
          PROVE  plan' \in PlanObject
      BY <2>0, <2>3 DEF EditPlan, PlanObject
    <2>4. QED
      BY <2>1, <2>2, <2>3 DEF User
  <1>2. UNCHANGED <<cache, seen, queued, timer, localVars, faults, clusterVars>>
    BY DEF User, DeletePlan, CreatePlan, EditPlan
  <1>3. QED
    BY <1>1, <1>2
    DEF TypeOK, ClusterTypeOK, localVars, clusterVars, sucVars, nodeVars, manifestVars, helmVars

\* Every step of the controller keeps the types.
LEMMA ControllerType ==
  ASSUME TypeOK, Controller
  PROVE  TypeOK'
  <1>1. CASE Reconcile
    <2>1. CASE ~Exists(cache) /\ queued' = FALSE
               /\ UNCHANGED <<plan, cache, seen, timer, localVars, faults, clusterVars>>
      BY <2>1, ClusterTypeUnchanged DEF TypeOK, localVars
    <2>2. CASE listPlans(cache)
      BY <2>2, ClusterTypeUnchanged DEF listPlans, ListedPlans, TypeOK
    <2>3. CASE AddFinalizer(cache)
      <3>1. plan' \in PlanObject
        BY <2>3 DEF AddFinalizer, TypeOK, PlanObject
      <3>2. faults' \in FaultCount
        BY <2>3, FaultType DEF AddFinalizer
      <3>3. QED
        BY <2>3, <3>1, <3>2, ClusterTypeUnchanged DEF AddFinalizer, TypeOK, localVars
    <2>4. CASE cache.life = "live" /\ reconcileNormal(cache)
      BY <2>4, ReconcileNormalType
    <2>5. QED
      BY <1>1, <2>1, <2>2, <2>3, <2>4 DEF Reconcile
  <1>2. CASE Commit
    <2>1. plan' \in PlanObject
      BY <1>2 DEF Commit, TypeOK
    <2>2. Fault \/ UNCHANGED faults
      BY <1>2 DEF Commit
    <2>3. (result \in {"requeue", "error"}) \in BOOLEAN /\ (result = "after") \in BOOLEAN
      OBVIOUS
    <2>4. Finish(result \in {"requeue", "error"}, result = "after") \/ Finish(TRUE, FALSE)
      BY <1>2 DEF Commit
    <2>5. \E q \in BOOLEAN, t \in BOOLEAN : Finish(q, t)
      BY <2>3, <2>4, Zenon
    <2>6. QED
      BY <1>2, <2>1, <2>2, <2>5, FinishStepType DEF Commit
  <1>3. CASE deletePlans
    <2>0. plan' \in PlanObject
      BY <1>3 DEF deletePlans, TypeOK
    <2>1. CASE \E o \in todo : deleteListed(o)
      BY <1>3, <2>1, DeleteListedType DEF deletePlans
    <2>2. CASE Finish(FALSE, FALSE) /\ UNCHANGED <<faults, clusterVars>>
      BY <1>3, <2>0, <2>2, FinishStepType DEF deletePlans
    <2>3. CASE /\ pc' = "deleteSecrets" /\ todo' = {o \in seen : IsSecret(o)}
               /\ UNCHANGED <<queued, timer, base, work, result, busy, faults, clusterVars>>
      BY <1>3, <2>3, ClusterTypeUnchanged DEF deletePlans, TypeOK
    <2>4. QED
      BY <1>3, <2>1, <2>2, <2>3 DEF deletePlans
  <1>4. CASE deleteSecrets
    BY <1>4, DeleteListedType DEF deleteSecrets
  <1>5. CASE RemoveFinalizer
    <2>1. plan' \in PlanObject
      BY <1>5 DEF RemoveFinalizer, TypeOK, PlanObject
    <2>2. Fault \/ UNCHANGED faults
      BY <1>5 DEF RemoveFinalizer
    <2>3. Finish(FALSE, FALSE) \/ Finish(TRUE, FALSE)
      BY <1>5 DEF RemoveFinalizer
    <2>4. QED
      BY <1>5, <2>1, <2>2, <2>3, FinishStepType DEF RemoveFinalizer
  <1>6. QED
    BY <1>1, <1>2, <1>3, <1>4, <1>5 DEF Controller

\* The initial states are well typed.
LEMMA InitType == Init => TypeOK
  <1> SUFFICES ASSUME Init PROVE TypeOK
    OBVIOUS
  <1>1. ClusterTypeOK
    <2>1. os \in [Node -> Nat] /\ kube \in [Node -> Nat] /\ core \in Nat /\ installed \in [Chart -> Nat]
      BY InitialAssumption DEF Init, ClusterInit
    <2>2. hc \in [Chart -> HelmChartObject]
      BY <2>1 DEF Init, ClusterInit, HelmChartObject
    <2>3. job \in [Chart -> JobObject]
      BY <2>2 DEF Init, ClusterInit, JobObject, NoJob, HelmChartObject
    <2>4. QED
      BY <2>1, <2>2, <2>3, InitialAssumption DEF Init, ClusterInit, ClusterTypeOK
  <1>2. QED
    BY <1>1, NoPlanType DEF Init, TypeOK, FaultCount

\* The types are inductive.
LEMMA NextType == TypeOK /\ [Next]_vars => TypeOK'
  <1> SUFFICES ASSUME TypeOK, [Next]_vars PROVE TypeOK'
    OBVIOUS
  <1> USE DEF clusterVars, sucVars, nodeVars, manifestVars, helmVars, localVars
  <1>1. CASE User
    BY <1>1, UserType
  <1>2. CASE Informer
    <2>1. CASE SyncPlan
      BY <2>1 DEF SyncPlan, PlanPredicate, TypeOK, ClusterTypeOK
    <2>2. CASE ResyncSecret
      BY <2>2 DEF ResyncSecret, TypeOK, ClusterTypeOK
    <2>3. CASE \E o \in objs \cup seen : SyncObject(o)
      BY <2>3 DEF SyncObject, IsSecret, TypeOK, ClusterTypeOK
    <2>4. QED
      BY <1>2, <2>1, <2>2, <2>3 DEF Informer
  <1>3. CASE RequeueAfterElapses
    BY <1>3 DEF RequeueAfterElapses, TypeOK, ClusterTypeOK
  <1>4. CASE SUCStep
    BY <1>4, SUCStepType
  <1>5. CASE JobStep
    BY <1>5, JobStepType
  <1>6. CASE Controller
    BY <1>6, ControllerType
  <1>7. CASE Restart
    <2>1. queued' \in BOOLEAN
      BY <1>7 DEF Restart
    <2>2. faults' \in FaultCount
      BY <1>7, FaultType DEF Restart
    <2>3. ClusterTypeOK'
      BY <1>7, ClusterTypeUnchanged DEF Restart, TypeOK
    <2>4. QED
      BY <1>7, <2>1, <2>2, <2>3, NoPlanType DEF Restart, TypeOK, ClusterTypeOK
  <1>8. CASE UNCHANGED vars
    BY <1>8 DEF vars, TypeOK, ClusterTypeOK
  <1>9. QED
    BY <1>1, <1>2, <1>3, <1>4, <1>5, <1>6, <1>7, <1>8 DEF Next

\* Every variable of the reconciler and of the cluster keeps its type.
THEOREM TypeCorrect == Spec => []TypeOK
  BY InitType, NextType, PTL DEF Spec
-----------------------------------------------------------------------------
(***************************************************************************)
(* Stages.                                                                 *)
(***************************************************************************)

\* What a copy p of the plan claims of nodes with the operating systems o and
\* the Kubernetes versions k.
StatusClaim(p, o, k) ==
    /\ p.obs <= p.gen
    /\ p.obs = p.gen /\ p.rel # 0 /\ p.cond["OS"] = "Succeeded" =>
         \A n \in Node : o[n] >= OSVersion[p.rel]
    /\ p.obs = p.gen /\ p.rel # 0 /\ p.cond["K8s"] = "Succeeded" =>
         \A n \in Node : k[n] >= KubeVersion[p.rel]
    /\ p.last # 0 =>
         \A n \in Node : o[n] >= OSVersion[p.last] /\ k[n] >= KubeVersion[p.last]

CopiesTruthful ==
    /\ StatusClaim(plan, os, kube) /\ StatusClaim(cache, os, kube)
    /\ StatusClaim(base, os, kube) /\ StatusClaim(work, os, kube)

\* The inductive invariant.
StageInv ==
    /\ TypeOK
    /\ CopiesTruthful
    /\ ControlPlaneFirst
    /\ OSBeforeKubernetes
    /\ WorkloadsLast

\* Nodes only move forward.
Grows == \A n \in Node : os'[n] >= os[n] /\ kube'[n] >= kube[n]

\* A claim that is true of the nodes stays true when they move forward.
LEMMA ClaimGrows ==
  ASSUME TypeOK, TypeOK', Grows, NEW p \in PlanObject, StatusClaim(p, os, kube)
  PROVE  StatusClaim(p, os', kube')
  <1>1. /\ p.rel # 0 => OSVersion[p.rel] \in Nat /\ KubeVersion[p.rel] \in Nat
        /\ p.last # 0 => OSVersion[p.last] \in Nat /\ KubeVersion[p.last] \in Nat
    BY VersionAssumption DEF PlanObject
  <1>2. \A n \in Node : os[n] \in Nat /\ os'[n] \in Nat /\ kube[n] \in Nat /\ kube'[n] \in Nat
    BY DEF TypeOK, ClusterTypeOK
  <1>3. QED
    BY <1>1, <1>2 DEF StatusClaim, Grows

\* Plans that agree on the stages claim the same.
LEMMA ClaimSame ==
  ASSUME NEW p, NEW w, SameStages(p, w), NEW o, NEW k, StatusClaim(p, o, k)
  PROVE  StatusClaim(w, o, k)
  BY DEF SameStages, StatusClaim

\* An edit invalidates the status of the stages.
LEMMA ClaimEdited ==
  ASSUME NEW p \in PlanObject, NEW w, NEW o, NEW k, StatusClaim(p, o, k),
         w.obs = p.obs, w.gen = p.gen + 1, w.last = p.last
  PROVE  StatusClaim(w, o, k)
  BY DEF PlanObject, StatusClaim

\* No plan claims nothing.
LEMMA NoClaim == ASSUME NEW o, NEW k PROVE StatusClaim(NoPlan, o, k)
  BY DEF NoPlan, StatusClaim

\* Steps that create and write nothing keep the order of the stages.
LEMMA StagesKept ==
  ASSUME StageInv, TypeOK', Grows, objs' \subseteq objs, UNCHANGED hc
  PROVE  ControlPlaneFirst' /\ OSBeforeKubernetes' /\ WorkloadsLast'
  <1>1. \A n \in Node : os[n] \in Nat /\ os'[n] \in Nat /\ kube[n] \in Nat /\ kube'[n] \in Nat
    BY DEF StageInv, TypeOK, ClusterTypeOK
  <1>2. \A r \in Release : OSVersion[r] \in Nat /\ KubeVersion[r] \in Nat
    BY VersionAssumption
  <1>3. \A o \in objs : o.ver \in Nat
    BY DEF StageInv, TypeOK, ClusterTypeOK, Object
  <1>4. ControlPlaneFirst'
    BY <1>1, <1>3 DEF StageInv, ControlPlaneFirst, Grows, Node
  <1>5. OSBeforeKubernetes'
    <2> SUFFICES ASSUME NEW o \in objs, o.kind \in {"k8sControlPlane", "k8sWorker"}
                 PROVE  \E r \in Release : KubeVersion[r] = o.ver /\ \A n \in Node : os'[n] >= OSVersion[r]
      BY DEF OSBeforeKubernetes, AtOS
    <2>1. PICK r \in Release : KubeVersion[r] = o.ver /\ \A n \in Node : os[n] >= OSVersion[r]
      BY DEF StageInv, OSBeforeKubernetes, AtOS
    <2>2. QED
      BY <1>1, <1>2, <2>1 DEF Grows
  <1>6. WorkloadsLast'
    <2>1. \A h \in Chart : hc[h].ann # 0 => hc[h].ann \in Release
      BY DEF StageInv, TypeOK, ClusterTypeOK, HelmChartObject
    <2>2. QED
      BY <1>1, <1>2, <2>1 DEF StageInv, WorkloadsLast, AtOS, AtKube, Grows
  <1>7. QED
    BY <1>4, <1>5, <1>6

\* A step that creates and writes nothing keeps the invariant if the new
\* copies of the plan claim nothing that is not so already.
LEMMA StageInvKept ==
  ASSUME StageInv, TypeOK', Grows, objs' \subseteq objs, UNCHANGED hc,
         StatusClaim(plan', os, kube), StatusClaim(cache', os, kube),
         StatusClaim(base', os, kube), StatusClaim(work', os, kube)
  PROVE  StageInv'
  <1>1. TypeOK /\ plan' \in PlanObject /\ cache' \in PlanObject /\ base' \in PlanObject /\ work' \in PlanObject
    BY DEF StageInv, TypeOK
  <1>2. /\ StatusClaim(plan', os', kube') /\ StatusClaim(cache', os', kube')
        /\ StatusClaim(base', os', kube') /\ StatusClaim(work', os', kube')
    BY <1>1, ClaimGrows
  <1>3. CopiesTruthful'
    BY <1>2 DEF CopiesTruthful, StatusClaim
  <1>4. QED
    BY <1>3, StagesKept DEF StageInv

\* A node that does not change does not go back.
LEMMA StillGrows ==
  ASSUME TypeOK, UNCHANGED <<os, kube>>
  PROVE  Grows
  BY DEF TypeOK, ClusterTypeOK, Grows

\* SUC never downgrades a node: a job upgrades it only when its version is lower.
LEMMA SUCStepGrows ==
  ASSUME TypeOK, SUCStep
  PROVE  Grows
  <1>1. PICK o \in objs, n \in Node : StartNodeJob(o, n) \/ UpgradeNode(o, n) \/ FinishNodeJob(o, n)
    BY DEF SUCStep
  <1>2. o.ver \in Nat /\ os \in [Node -> Nat] /\ kube \in [Node -> Nat]
    BY DEF TypeOK, ClusterTypeOK, Object
  <1>3. CASE StartNodeJob(o, n) \/ FinishNodeJob(o, n)
    BY <1>3, StillGrows DEF StartNodeJob, FinishNodeJob
  <1>4. CASE UpgradeNode(o, n)
    BY <1>2, <1>4 DEF UpgradeNode, Version, Grows
  <1>5. QED
    BY <1>1, <1>3, <1>4

\* SUC and its jobs keep the invariant: they move nodes forward only.
LEMMA SUCStepStages ==
  ASSUME StageInv, SUCStep
  PROVE  StageInv'
  <1>1. TypeOK /\ TypeOK' /\ Grows
    BY SUCStepType, SUCStepGrows DEF StageInv
  <1>2. UNCHANGED <<objs, hc, plan, cache, base, work>>
    BY DEF SUCStep, StartNodeJob, UpgradeNode, FinishNodeJob, sucVars, helmVars, localVars
  <1>3. QED
    BY <1>1, <1>2, StageInvKept DEF StageInv, CopiesTruthful

\* Steps that leave nodes, objects and HelmCharts alone keep the invariant.
LEMMA JobStepStages ==
  ASSUME StageInv, JobStep
  PROVE  StageInv'
  <1>1. UNCHANGED <<plan, cache, base, work, objs, hc, os, kube>>
    BY DEF JobStep, localVars, ManifestJobSucceeds, ManifestJobFails, ManifestJobExpires,
           RemoveHelmJob, StartHelmJob, HelmJobSucceeds, HelmJobFails, UpgradeCore,
           sucVars, nodeVars, helmVars
  <1>2. TypeOK /\ TypeOK'
    BY JobStepType DEF StageInv
  <1>3. QED
    BY <1>1, <1>2, StillGrows, StageInvKept DEF StageInv, CopiesTruthful

\* Users: an edit or a deletion starts a new generation.
LEMMA UserStages ==
  ASSUME StageInv, User
  PROVE  StageInv'
  <1>1. UNCHANGED <<cache, base, work, objs, hc, os, kube>>
    BY DEF User, DeletePlan, CreatePlan, EditPlan, localVars, clusterVars, sucVars, nodeVars, helmVars
  <1>2. TypeOK /\ TypeOK' /\ plan \in PlanObject /\ plan' \in PlanObject
    BY UserType DEF StageInv, TypeOK
  <1>3. StatusClaim(plan, os, kube)
    BY DEF StageInv, CopiesTruthful
  <1>4. StatusClaim(plan', os, kube)
    <2>1. CASE DeletePlan
      <3>1. CASE plan.fin
        <4>1. plan'.obs = plan.obs /\ plan'.gen = plan.gen + 1 /\ plan'.last = plan.last
          BY <1>2, <2>1, <3>1 DEF DeletePlan, PlanObject
        <4>2. QED
          BY <1>2, <1>3, <4>1, ClaimEdited
      <3>2. CASE ~plan.fin
        <4>1. SameStages(plan, plan')
          BY <1>2, <2>1, <3>2 DEF DeletePlan, PlanObject, SameStages
        <4>2. QED
          BY <1>3, <4>1, ClaimSame
      <3>3. QED
        BY <3>1, <3>2
    <2>2. ASSUME NEW r \in Release \cup {0}, CreatePlan(r)
          PROVE  StatusClaim(plan', os, kube)
      <3>1. plan'.obs = NoPlan.obs /\ plan'.gen = NoPlan.gen + 1 /\ plan'.last = NoPlan.last
        BY <2>2 DEF CreatePlan, NoPlan
      <3>2. QED
        BY <3>1, NoPlanType, NoClaim, ClaimEdited
    <2>3. ASSUME NEW r \in Release \cup {0}, EditPlan(r)
          PROVE  StatusClaim(plan', os, kube)
      <3>1. plan'.obs = plan.obs /\ plan'.gen = plan.gen + 1 /\ plan'.last = plan.last
        BY <1>2, <2>3 DEF EditPlan, PlanObject
      <3>2. QED
        BY <1>2, <1>3, <3>1, ClaimEdited
    <2>4. QED
      BY <2>1, <2>2, <2>3 DEF User
  <1>5. QED
    BY <1>1, <1>2, <1>4, StillGrows, StageInvKept DEF StageInv, CopiesTruthful

\* A step that only moves copies of the plan around, possibly with another
\* life or finalizer, and that may delete objects.
LEMMA CopyStep ==
  ASSUME StageInv, TypeOK', objs' \subseteq objs, UNCHANGED <<hc, os, kube>>,
         \A y \in {plan', cache', base', work'} :
            \E x \in {plan, cache, base, work, NoPlan} : SameStages(x, y)
  PROVE  StageInv'
  <1>1. \A x \in {plan, cache, base, work, NoPlan} : StatusClaim(x, os, kube)
    BY NoClaim DEF StageInv, CopiesTruthful
  <1>2. \A y \in {plan', cache', base', work'} : StatusClaim(y, os, kube)
    BY <1>1, ClaimSame
  <1>3. TypeOK
    BY DEF StageInv
  <1>4. QED
    BY <1>2, <1>3, StillGrows, StageInvKept

\* Every copy of the plan agrees with itself.
LEMMA CopySame ==
  ASSUME TypeOK
  PROVE  \A x \in {plan, cache, base, work, NoPlan} : SameStages(x, x)
  BY NoPlanType DEF TypeOK, SameStages

\* What ends a reconciliation forgets the reconciler's copies.
LEMMA FinishStages ==
  ASSUME StageInv, TypeOK', NEW q, NEW t, Finish(q, t), UNCHANGED cache,
         objs' \subseteq objs, UNCHANGED <<hc, os, kube>>,
         \E x \in {plan, work} : SameStages(x, plan')
  PROVE  StageInv'
  <1>1. base' = NoPlan /\ work' = NoPlan
    BY DEF Finish
  <1>2. QED
    BY <1>1, CopySame, CopyStep DEF StageInv

\* Deleting a listed object.
LEMMA DeleteListedStages ==
  ASSUME StageInv, NEW o, deleteListed(o), UNCHANGED <<plan, cache, seen>>
  PROVE  StageInv'
  <1>1. TypeOK /\ TypeOK'
    BY DeleteListedType DEF StageInv
  <1>2. objs' \subseteq objs /\ UNCHANGED <<hc, os, kube>>
    BY DEF deleteListed, RemoveObject, clusterVars, sucVars, nodeVars, helmVars
  <1>3. UNCHANGED <<base, work>> \/ Finish(TRUE, FALSE)
    BY DEF deleteListed
  <1>4. CASE UNCHANGED <<base, work>>
    BY <1>1, <1>2, <1>4, CopySame, CopyStep
  <1>5. CASE Finish(TRUE, FALSE)
    BY <1>1, <1>2, <1>5, CopySame, FinishStages
  <1>6. QED
    BY <1>3, <1>4, <1>5

\* The informers, the timers and a restart.
LEMMA CacheStages ==
  ASSUME StageInv, TypeOK', Informer \/ RequeueAfterElapses \/ Restart \/ UNCHANGED vars
  PROVE  StageInv'
  <1>1. TypeOK
    BY DEF StageInv
  <1>2. /\ UNCHANGED <<plan, objs, hc, os, kube>>
        /\ cache' \in {plan, cache}
        /\ base' \in {base, NoPlan} /\ work' \in {work, NoPlan}
    BY DEF Informer, SyncPlan, ResyncSecret, SyncObject, RequeueAfterElapses, Restart, vars,
           localVars, clusterVars, sucVars, nodeVars, helmVars
  <1>3. QED
    BY <1>1, <1>2, CopySame, CopyStep

\* The deferred status update.
LEMMA CommitStages ==
  ASSUME StageInv, TypeOK', Commit
  PROVE  StageInv'
  <1>1. TypeOK /\ UNCHANGED <<cache, objs, hc, os, kube>>
    BY DEF StageInv, Commit, clusterVars, sucVars, nodeVars, helmVars
  <1>2. plan' \in {plan, work}
    BY DEF Commit
  <1>3. base' = NoPlan /\ work' = NoPlan
    BY DEF Commit, Finish
  <1>4. QED
    BY <1>1, <1>2, <1>3, CopySame, CopyStep

\* Deletion of the plan.
LEMMA DeleteStages ==
  ASSUME StageInv, TypeOK', deletePlans \/ deleteSecrets \/ RemoveFinalizer
  PROVE  StageInv'
  <1>0. TypeOK /\ work \in PlanObject
    BY DEF StageInv, TypeOK
  <1>1. CASE deletePlans
    <2>1. CASE \E o \in todo : deleteListed(o)
      BY <1>1, <2>1, DeleteListedStages DEF deletePlans
    <2>2. CASE Finish(FALSE, FALSE) /\ UNCHANGED clusterVars
      <3>1. UNCHANGED <<objs, hc, os, kube>>
        BY <2>2 DEF clusterVars, sucVars, nodeVars, helmVars
      <3>2. QED
        BY <1>0, <1>1, <2>2, <3>1, CopySame, FinishStages DEF deletePlans
    <2>3. CASE UNCHANGED <<base, work, clusterVars>>
      <3>1. UNCHANGED <<plan, cache, base, work, objs, hc, os, kube>>
        BY <1>1, <2>3 DEF deletePlans, clusterVars, sucVars, nodeVars, helmVars
      <3>2. QED
        BY <1>0, <3>1, CopySame, CopyStep
    <2>4. QED
      BY <1>1, <2>1, <2>2, <2>3 DEF deletePlans
  <1>2. CASE deleteSecrets
    BY <1>2, DeleteListedStages DEF deleteSecrets
  <1>3. CASE RemoveFinalizer
    <2>1. UNCHANGED <<cache, objs, hc, os, kube>>
      BY <1>3 DEF RemoveFinalizer, clusterVars, sucVars, nodeVars, helmVars
    <2>2. plan' = plan \/ plan' = [[work EXCEPT !.fin = FALSE] EXCEPT !.life = "gone"]
      BY <1>3 DEF RemoveFinalizer
    <2>3. SameStages(work, [[work EXCEPT !.fin = FALSE] EXCEPT !.life = "gone"])
      BY <1>0 DEF PlanObject, SameStages
    <2>4. base' = NoPlan /\ work' = NoPlan
      BY <1>3 DEF RemoveFinalizer, Finish
    <2>5. QED
      BY <1>0, <2>1, <2>2, <2>3, <2>4, CopySame, CopyStep
  <1>4. QED
    BY <1>1, <1>2, <1>3

\* reconcileNormal returns with the plan w and has created and written nothing.
LEMMA ReturnStages ==
  ASSUME StageInv, TypeOK', NEW w, NEW res, Return(w, res), StatusClaim(w, os, kube),
         UNCHANGED <<objs, hc, os, kube>>
  PROVE  StageInv'
  <1>1. UNCHANGED <<plan, cache>> /\ base' = cache /\ work' = w
    BY DEF Return
  <1>2. TypeOK
    BY DEF StageInv
  <1>3. QED
    BY <1>1, <1>2, StillGrows, StageInvKept DEF StageInv, CopiesTruthful

\* Reporting a truthful status keeps the invariant.
LEMMA ReportStages ==
  ASSUME StageInv, TypeOK', NEW w, NEW res, Report(w, res), StatusClaim(w, os, kube)
  PROVE  StageInv'
  BY ReturnStages DEF Report, clusterVars, sucVars, nodeVars, helmVars

LEMMA ReportMissedStages ==
  ASSUME StageInv, TypeOK', NEW w, NEW res, ReportMissed(w, res), StatusClaim(w, os, kube)
  PROVE  StageInv'
  BY ReturnStages DEF ReportMissed, clusterVars, sucVars, nodeVars, helmVars

\* createObject keeps the order of the stages if it is called in order.
LEMMA CreateStages ==
  ASSUME StageInv, TypeOK', NEW o, NEW w, createObject(o, w), StatusClaim(w, os, kube),
         o.kind = "osWorker" => \A n \in ControlPlane : os[n] >= o.ver,
         o.kind = "k8sWorker" => \A n \in ControlPlane : kube[n] >= o.ver,
         o.kind \in {"k8sControlPlane", "k8sWorker"} =>
            \E r \in Release : KubeVersion[r] = o.ver /\ AtOS(Node, r)
  PROVE  StageInv'
  <1>1. PICK res \in {"done", "error"} : Return(w, res)
    BY DEF createObject
  <1>2. objs' \subseteq objs \cup {o} /\ UNCHANGED <<hc, os, kube>>
    BY DEF createObject, nodeVars, helmVars
  <1>3. CopiesTruthful'
    BY <1>1, <1>2 DEF Return, StageInv, CopiesTruthful, StatusClaim
  <1>4. ControlPlaneFirst'
    BY <1>2 DEF StageInv, ControlPlaneFirst
  <1>5. OSBeforeKubernetes'
    BY <1>2 DEF StageInv, OSBeforeKubernetes, AtOS
  <1>6. WorkloadsLast'
    BY <1>2 DEF StageInv, WorkloadsLast, AtOS, AtKube
  <1>7. QED
    BY <1>3, <1>4, <1>5, <1>6 DEF StageInv

\* A HelmChart is written in order if both node stages are complete.
LEMMA WriteHelmChartStages ==
  ASSUME StageInv, TypeOK', NEW h, NEW p, NEW w, NEW res, writeHelmChart(h, p, w, res),
         StatusClaim(p, os, kube), StatusClaim(w, os, kube), AtOS(Node, p.rel), AtKube(Node, p.rel)
  PROVE  StageInv'
  <1>1. /\ Return(w, res) \/ Return(p, "error")
        /\ UNCHANGED <<objs, os, kube>>
    BY DEF writeHelmChart, sucVars, nodeVars
  <1>2. CopiesTruthful'
    BY <1>1 DEF Return, StageInv, CopiesTruthful, StatusClaim
  <1>3. ControlPlaneFirst' /\ OSBeforeKubernetes'
    BY <1>1 DEF StageInv, ControlPlaneFirst, OSBeforeKubernetes, AtOS
  <1>4. hc \in [Chart -> HelmChartObject]
    BY DEF StageInv, TypeOK, ClusterTypeOK
  <1>5. \A x \in Chart : hc'[x] = hc[x] \/ hc'[x].ann = p.rel
    BY <1>4 DEF writeHelmChart, HelmChartFor
  <1>6. WorkloadsLast'
    BY <1>1, <1>5 DEF StageInv, WorkloadsLast, AtOS, AtKube
  <1>7. QED
    BY <1>2, <1>3, <1>6 DEF StageInv

\* Marking a stage as under way claims nothing new.
LEMMA InProgressClaim ==
  ASSUME NEW p \in PlanObject, NEW o, NEW k, StatusClaim(p, o, k), NEW t \in {"OS", "K8s"}
  PROVE  StatusClaim(setInProgressCondition(p, t), o, k)
  <1>1. p.cond \in [ConditionType -> Reason]
    BY DEF PlanObject
  <1>2. QED
    BY <1>1 DEF PlanObject, StatusClaim, setInProgressCondition, ConditionType

\* The operating system stage.
LEMMA ReconcileOSStages ==
  ASSUME StageInv, TypeOK', NEW p \in PlanObject, p.rel \in Release, StatusClaim(p, os, kube),
         reconcileOS(p)
  PROVE  StageInv'
  <1> DEFINE secret == OSObject("secret", p)
             cpPlan == OSObject("osControlPlane", p)
             wkPlan == OSObject("osWorker", p)
             inProgress == setInProgressCondition(p, "OS")
             successful == setSuccessfulCondition(p, "OS")
  <1>1. StatusClaim(inProgress, os, kube)
    BY InProgressClaim
  <1>2. /\ secret.kind = "secret" /\ cpPlan.kind = "osControlPlane"
        /\ wkPlan.kind = "osWorker" /\ wkPlan.ver = OSVersion[p.rel]
    BY DEF OSObject
  <1>3. \A n \in Node : os[n] \in Nat
    BY DEF StageInv, TypeOK, ClusterTypeOK
  <1>4. CASE createObject(secret, p)
    BY <1>2, <1>4, CreateStages
  <1>5. CASE createObject(cpPlan, inProgress)
    BY <1>1, <1>2, <1>5, CreateStages
  <1>6. CASE isOSUpgraded(ControlPlane, p.rel) /\ createObject(wkPlan, inProgress)
    <2>1. \A n \in ControlPlane : os[n] >= OSVersion[p.rel]
      BY <1>3, <1>6 DEF isOSUpgraded, Node
    <2>2. QED
      BY <1>1, <1>2, <1>6, <2>1, CreateStages
  <1>7. CASE Report(inProgress, "after")
    BY <1>1, <1>7, ReportStages
  <1>8. CASE /\ isOSUpgraded(ControlPlane, p.rel)
             /\ controlPlaneOnlyCluster \/ isOSUpgraded(Worker, p.rel)
             /\ Report(successful, "requeue")
    <2>1. \A n \in Node : os[n] >= OSVersion[p.rel]
      BY <1>3, <1>8 DEF isOSUpgraded, controlPlaneOnlyCluster, Node
    <2>2. p.cond \in [ConditionType -> Reason]
      BY DEF PlanObject
    <2>3. StatusClaim(successful, os, kube)
      BY <2>1, <2>2 DEF PlanObject, StatusClaim, setSuccessfulCondition, ConditionType
    <2>4. QED
      BY <1>8, <2>3, ReportStages
  <1>9. QED
    BY <1>4, <1>5, <1>6, <1>7, <1>8 DEF reconcileOS

\* The Kubernetes stage, entered when the plan says that the first is complete.
LEMMA ReconcileKubernetesStages ==
  ASSUME StageInv, TypeOK', NEW p \in PlanObject, p.rel \in Release, StatusClaim(p, os, kube),
         AtOS(Node, p.rel), reconcileKubernetes(p)
  PROVE  StageInv'
  <1> DEFINE cpPlan == K8sObject("k8sControlPlane", p)
             wkPlan == K8sObject("k8sWorker", p)
             inProgress == setInProgressCondition(p, "K8s")
             successful == setSuccessfulCondition(p, "K8s")
  <1>1. StatusClaim(inProgress, os, kube)
    BY InProgressClaim
  <1>2. /\ cpPlan.kind = "k8sControlPlane" /\ cpPlan.ver = KubeVersion[p.rel]
        /\ wkPlan.kind = "k8sWorker" /\ wkPlan.ver = KubeVersion[p.rel]
    BY DEF K8sObject
  <1>3. \A n \in Node : kube[n] \in Nat
    BY DEF StageInv, TypeOK, ClusterTypeOK
  <1>4. CASE createObject(cpPlan, inProgress)
    BY <1>1, <1>2, <1>4, CreateStages
  <1>5. CASE isKubernetesUpgraded(ControlPlane, p.rel) /\ createObject(wkPlan, inProgress)
    <2>1. \A n \in ControlPlane : kube[n] >= KubeVersion[p.rel]
      BY <1>3, <1>5 DEF isKubernetesUpgraded, Node
    <2>2. QED
      BY <1>1, <1>2, <1>5, <2>1, CreateStages
  <1>6. CASE Report(inProgress, "after")
    BY <1>1, <1>6, ReportStages
  <1>7. CASE /\ isKubernetesUpgraded(ControlPlane, p.rel)
             /\ controlPlaneOnlyCluster \/ isKubernetesUpgraded(Worker, p.rel)
             /\ Report(successful, "requeue")
    <2>1. \A n \in Node : kube[n] >= KubeVersion[p.rel]
      BY <1>3, <1>7 DEF isKubernetesUpgraded, controlPlaneOnlyCluster, Node
    <2>2. p.cond \in [ConditionType -> Reason]
      BY DEF PlanObject
    <2>3. StatusClaim(successful, os, kube)
      BY <2>1, <2>2 DEF PlanObject, StatusClaim, setSuccessfulCondition, ConditionType
    <2>4. QED
      BY <1>7, <2>3, ReportStages
  <1>8. QED
    BY <1>4, <1>5, <1>6, <1>7 DEF reconcileKubernetes

\* The Helm stage.
LEMMA ReconcileWorkloadsStages ==
  ASSUME StageInv, TypeOK', NEW p \in PlanObject, p.rel \in Release, StatusClaim(p, os, kube),
         AtOS(Node, p.rel), AtKube(Node, p.rel), reconcileWorkloads(p)
  PROVE  StageInv'
  <1>1. ASSUME NEW w \in PlanObject, NEW res \in {"done", "requeue"}, SameStages(p, w),
               \/ Report(w, res) \/ ReportMissed(w, res)
               \/ \E h \in Chart : writeHelmChart(h, p, w, res)
        PROVE  StageInv'
    BY <1>1, ClaimSame, ReportStages, ReportMissedStages, WriteHelmChartStages
  <1>2. CASE Report([p EXCEPT !.last = p.rel], "done")
    <2>1. StatusClaim([p EXCEPT !.last = p.rel], os, kube)
      BY DEF PlanObject, StatusClaim, AtOS, AtKube
    <2>2. QED
      BY <1>2, <2>1, ReportStages
  <1>3. QED
    BY <1>1, <1>2, ReconcileWorkloadsShape

\* A reconciliation of a live plan keeps the invariant.
LEMMA ReconcileNormalStages ==
  ASSUME StageInv, TypeOK', cache.life = "live", reconcileNormal(cache)
  PROVE  StageInv'
  <1> DEFINE p == cache
  <1>0. p \in PlanObject /\ StatusClaim(p, os, kube)
    BY DEF StageInv, TypeOK, CopiesTruthful
  <1>1. CASE createReleaseManifest(p)
    <2>1. PICK res \in {"done", "error"} : Return(p, res)
      BY <1>1 DEF createReleaseManifest
    <2>2. UNCHANGED <<objs, hc, os, kube>>
      BY <1>1 DEF createReleaseManifest, sucVars, nodeVars, helmVars
    <2>3. QED
      BY <1>0, <2>1, <2>2, ReturnStages
  <1>2. CASE ReconcileError(p)
    <2>1. Return(p, "error") /\ UNCHANGED <<objs, hc, os, kube>>
      BY <1>2 DEF ReconcileError, clusterVars, sucVars, nodeVars, helmVars
    <2>2. QED
      BY <1>0, <2>1, ReturnStages
  <1>3. CASE rejectUnsupportedNodes(p)
    <2>1. SameStages(p, [p EXCEPT !.invalid = TRUE])
      BY <1>0 DEF PlanObject, SameStages
    <2>2. QED
      BY <1>0, <1>3, <2>1, ClaimSame, ReportStages DEF rejectUnsupportedNodes
  <1>4. CASE observeGeneration(p)
    <2>1. {"OS", "K8s"} \subseteq PendingConditions(p.rel)
      BY DEF PendingConditions
    <2>2. ASSUME NEW s \in Suffix,
                 Report(setPendingConditions([p EXCEPT !.sfx = s, !.obs = p.gen],
                                             PendingConditions(p.rel)), "requeue")
          PROVE  StageInv'
      <3> DEFINE w == setPendingConditions([p EXCEPT !.sfx = s, !.obs = p.gen],
                                           PendingConditions(p.rel))
      <3>1. /\ w.gen = p.gen /\ w.obs = p.gen /\ w.last = p.last
            /\ w.cond["OS"] = "Pending" /\ w.cond["K8s"] = "Pending"
        BY <1>0, <2>1, PendingType
      <3>2. StatusClaim(w, os, kube)
        <4> HIDE DEF w
        <4>1. p.gen \in Nat
          BY <1>0 DEF PlanObject
        <4>2. QED
          BY <1>0, <3>1, <4>1 DEF StatusClaim
      <3>3. QED
        BY <2>2, <3>2, ReportStages
    <2>3. CASE Report(p, "requeue")
      BY <1>0, <2>3, ReportStages
    <2>4. QED
      BY <1>4, <2>2, <2>3 DEF observeGeneration
  <1>5. CASE /\ p.rel \in manifests
             /\ p.obs = p.gen
             /\ \/ reconcileOS(p)
                \/ OSUpgraded(p) /\ reconcileKubernetes(p)
                \/ OSUpgraded(p) /\ KubernetesUpgraded(p) /\ reconcileWorkloads(p)
    <2>1. p.rel \in Release /\ p.rel # 0
      BY <1>5, ReleaseAssumption DEF StageInv, TypeOK, ClusterTypeOK
    <2>2. OSUpgraded(p) => AtOS(Node, p.rel)
      BY <1>0, <1>5, <2>1 DEF OSUpgraded, IsStatusConditionTrue, StatusClaim, AtOS
    <2>3. KubernetesUpgraded(p) => AtKube(Node, p.rel)
      BY <1>0, <1>5, <2>1 DEF KubernetesUpgraded, IsStatusConditionTrue, StatusClaim, AtKube
    <2>4. QED
      BY <1>0, <1>5, <2>1, <2>2, <2>3, ReconcileOSStages, ReconcileKubernetesStages,
         ReconcileWorkloadsStages
  <1>6. QED
    BY <1>1, <1>2, <1>3, <1>4, <1>5 DEF reconcileNormal

\* Every step of the controller keeps the invariant.
LEMMA ControllerStages ==
  ASSUME StageInv, TypeOK', Controller
  PROVE  StageInv'
  <1>0. TypeOK /\ cache \in PlanObject
    BY DEF StageInv, TypeOK
  <1>1. CASE Reconcile
    <2>1. CASE UNCHANGED <<plan, cache, localVars, clusterVars>>
      <3>1. UNCHANGED <<plan, cache, base, work, objs, hc, os, kube>>
        BY <2>1 DEF localVars, clusterVars, sucVars, nodeVars, helmVars
      <3>2. QED
        BY <1>0, <3>1, CopySame, CopyStep
    <2>2. CASE listPlans(cache)
      <3>1. UNCHANGED <<plan, cache, objs, hc, os, kube>> /\ base' = cache /\ work' = cache
        BY <2>2 DEF listPlans, clusterVars, sucVars, nodeVars, helmVars
      <3>2. QED
        BY <1>0, <3>1, CopySame, CopyStep
    <2>3. CASE AddFinalizer(cache)
      <3>1. UNCHANGED <<cache, base, work, objs, hc, os, kube>>
        BY <2>3 DEF AddFinalizer, localVars, clusterVars, sucVars, nodeVars, helmVars
      <3>2. plan' = plan \/ plan' = [cache EXCEPT !.fin = TRUE]
        BY <2>3 DEF AddFinalizer
      <3>3. SameStages(cache, [cache EXCEPT !.fin = TRUE])
        BY <1>0 DEF PlanObject, SameStages
      <3>4. QED
        BY <1>0, <3>1, <3>2, <3>3, CopySame, CopyStep
    <2>4. CASE cache.life = "live" /\ reconcileNormal(cache)
      BY <2>4, ReconcileNormalStages
    <2>5. QED
      BY <1>1, <2>1, <2>2, <2>3, <2>4 DEF Reconcile
  <1>2. CASE Commit
    BY <1>2, CommitStages
  <1>3. CASE deletePlans \/ deleteSecrets \/ RemoveFinalizer
    BY <1>3, DeleteStages
  <1>4. QED
    BY <1>1, <1>2, <1>3 DEF Controller

\* The invariant holds initially.
LEMMA InitStages == Init => StageInv
  <1> SUFFICES ASSUME Init PROVE StageInv
    OBVIOUS
  <1>1. TypeOK
    BY InitType
  <1>2. CopiesTruthful
    BY NoClaim DEF Init, CopiesTruthful
  <1>3. ControlPlaneFirst /\ OSBeforeKubernetes
    BY DEF Init, ClusterInit, ControlPlaneFirst, OSBeforeKubernetes
  <1>4. WorkloadsLast
    BY DEF Init, ClusterInit, WorkloadsLast
  <1>5. QED
    BY <1>1, <1>2, <1>3, <1>4 DEF StageInv

\* The invariant is inductive.
LEMMA NextStages == StageInv /\ [Next]_vars => StageInv'
  <1> SUFFICES ASSUME StageInv, [Next]_vars PROVE StageInv'
    OBVIOUS
  <1>0. TypeOK'
    BY NextType DEF StageInv
  <1>1. CASE User
    BY <1>1, UserStages
  <1>2. CASE SUCStep
    BY <1>2, SUCStepStages
  <1>3. CASE JobStep
    BY <1>3, JobStepStages
  <1>4. CASE Controller
    BY <1>0, <1>4, ControllerStages
  <1>5. CASE Informer \/ RequeueAfterElapses \/ Restart \/ UNCHANGED vars
    BY <1>0, <1>5, CacheStages
  <1>6. QED
    BY <1>1, <1>2, <1>3, <1>4, <1>5 DEF Next

\* The inductive invariant holds throughout.
THEOREM StageInvariant == Spec => []StageInv
  BY InitStages, NextStages, PTL DEF Spec

\* Worker SUC plans exist only when the control plane is at their version.
THEOREM ControlPlaneFirstCorrect == Spec => []ControlPlaneFirst
  <1>1. StageInv => ControlPlaneFirst
    BY DEF StageInv
  <1>2. QED
    BY <1>1, StageInvariant, PTL

\* Kubernetes SUC plans exist only when the OS stage of such a release is over.
THEOREM OSBeforeKubernetesCorrect == Spec => []OSBeforeKubernetes
  <1>1. StageInv => OSBeforeKubernetes
    BY DEF StageInv
  <1>2. QED
    BY <1>1, StageInvariant, PTL

\* HelmCharts are written only for a release the whole cluster has reached.
THEOREM WorkloadsLastCorrect == Spec => []WorkloadsLast
  <1>1. StageInv => WorkloadsLast
    BY DEF StageInv
  <1>2. QED
    BY <1>1, StageInvariant, PTL

\* The stored status never claims a stage or a release that the nodes have not
\* reached, in spite of caches, restarts, edits and failed calls.
THEOREM TruthfulStatusCorrect == Spec => []TruthfulStatus
  <1>1. StageInv => TruthfulStatus
    BY DEF StageInv, CopiesTruthful, StatusClaim, TruthfulStatus, Current, AtOS, AtKube
  <1>2. QED
    BY <1>1, StageInvariant, PTL
=============================================================================
