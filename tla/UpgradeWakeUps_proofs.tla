------------------------ MODULE UpgradeWakeUps_proofs ------------------------
(***************************************************************************)
(* Why the reconciler is always brought back.                              *)
(*                                                                         *)
(* The reconciler returns without a requeue after most of its writes and   *)
(* relies on watches whose predicates let few events through. The          *)
(* argument: such a write leaves work to a program whose end is one of     *)
(* these events; that program keeps at it, or its end puts the plan into   *)
(* the queue; and a job event that gets lost finds a Secret in the cache,  *)
(* which is resynchronised. All this must hold from the write on, while    *)
(* the status update is still to come (WaitInv), and rests on what has     *)
(* been created for the plan being there for as long as the plan is in use *)
(* (SuppliesInv). A deletion that waits for a node has read of it from a   *)
(* list that may be outdated by the time it gives up (WaitInv again).      *)
(***************************************************************************)
EXTENDS UpgradeObjects_proofs, UpgradeComponents_proofs

\* A Secret is in the cache, and will be resynchronised.
SecretShown == \E o \in seen : IsSecret(o)

\* What has been worked on or reported belongs to objects that still exist.
SuppliesInv ==
    cache.life \in {"absent", "live"} =>
        /\ \A o, n : <<o, n>> \in done => o \in objs
        /\ faults.events > 0 \/ (\E h \in Chart : hc[h].ann # 0) => SecretShown

\* A reconciliation that is about to end has a reason not to come back at once.
WaitInv ==
    /\ pc = "commit" /\ result = "done" /\ base = plan => WakeUpAhead \/ AtRest(work)
    /\ pc = "deletePlans" => \A o \in busy : queued \/ Applying(o, applying) # {}

\* The inductive invariant, on top of those about objects and components.
WakeInv == SuppliesInv /\ WaitInv /\ NoLostWakeUp

\* What a deletion waits for.
DeletionAhead == queued \/ PlanPredicate(cache, plan) \/ applying # {}
-----------------------------------------------------------------------------
(***************************************************************************)
(* Other programs keep a wake-up ahead.                                    *)
(***************************************************************************)

\* Informers and timers turn one into the next.
LEMMA InformerWakes ==
  ASSUME ObjectInv, plan.life = "live", WakeUpAhead, Informer \/ RequeueAfterElapses
  PROVE  WakeUpAhead'
  <1>1. CASE RequeueAfterElapses \/ ResyncSecret
    BY <1>1 DEF RequeueAfterElapses, ResyncSecret, WakeUpAhead
  <1>2. CASE SyncPlan
    <2>1. CASE PlanPredicate(cache, plan) \/ queued
      BY <1>2, <2>1 DEF SyncPlan, WakeUpAhead
    <2>2. CASE ~PlanPredicate(cache, plan) /\ ~queued
      <3>1. UNCHANGED <<seen, timer, faults, clusterVars>>
        BY <1>2 DEF SyncPlan
      <3>2. (NodeJobAhead <=> NodeJobAhead') /\ (HelmJobAhead <=> HelmJobAhead')
        BY <3>1 DEF clusterVars, sucVars, helmVars, NodeJobAhead, HelmJobAhead, Prepared, Applicable
      <3>3. QED
        BY <2>2, <3>1, <3>2 DEF WakeUpAhead, clusterVars, sucVars, manifestVars
    <2>3. QED
      BY <2>1, <2>2
  <1>3. ASSUME NEW o \in objs \cup seen, SyncObject(o)
        PROVE  WakeUpAhead'
    <2>1. /\ UNCHANGED <<plan, cache, timer, faults, clusterVars>>
          /\ seen' = IF o \in objs THEN seen \cup {o} ELSE seen \ {o}
          /\ queued' = (queued \/ (o \in objs /\ IsSecret(o)))
      BY <1>3 DEF SyncObject
    <2>2. (NodeJobAhead <=> NodeJobAhead') /\ (HelmJobAhead <=> HelmJobAhead')
      BY <2>1 DEF clusterVars, sucVars, helmVars, NodeJobAhead, HelmJobAhead, Prepared, Applicable
    <2>3. CASE \E x \in objs \ seen : IsSecret(x)
      <3>1. PICK x \in objs \ seen : IsSecret(x)
        BY <2>3
      <3>2. x \in (objs \ seen)' \/ x = o
        BY <2>1, <3>1 DEF clusterVars, sucVars
      <3>3. QED
        BY <2>1, <3>1, <3>2 DEF WakeUpAhead
    <2>4. CASE faults.events > 0 /\ SecretShown /\ ~PlanPredicate(cache, plan)
      <3>1. cache.life = "live"
        BY <2>4 DEF ObjectInv, LivesInv, PlanPredicate, Exists, RefinementInv, StageInv, TypeOK, PlanObject
      <3>2. seen \subseteq seen'
        BY <2>1, <3>1 DEF ObjectInv, NamesInv
      <3>3. QED
        BY <2>1, <2>4, <3>2 DEF WakeUpAhead, SecretShown
    <2>5. CASE PlanPredicate(cache, plan)
      BY <2>1, <2>5 DEF WakeUpAhead
    <2>6. CASE queued \/ timer \/ NodeJobAhead \/ HelmJobAhead
      BY <2>1, <2>2, <2>6 DEF WakeUpAhead
    <2>7. CASE \E r \in Release : mjob[r] = "running"
      BY <2>1, <2>7 DEF WakeUpAhead, clusterVars, manifestVars
    <2>8. QED
      BY <2>3, <2>4, <2>5, <2>6, <2>7 DEF WakeUpAhead, SecretShown
  <1>4. QED
    BY <1>1, <1>2, <1>3 DEF Informer

\* SUC goes on with a plan until its last node, which is reported.
LEMMA SUCWakes ==
  ASSUME TypeOK, WakeUpAhead, SUCStep
  PROVE  WakeUpAhead'
  <1>1. PICK o \in objs, n \in Node :
           /\ StartNodeJob(o, n) \/ UpgradeNode(o, n) \/ FinishNodeJob(o, n)
           /\ queued' = (queued \/ SUCPlanPredicate(o))
           /\ seen' = IF SUCPlanPredicate(o) THEN seen \cup {o} ELSE seen
           /\ UNCHANGED <<plan, cache, timer, localVars, faults>>
    BY DEF SUCStep
  <1>2. UNCHANGED <<objs, mjob, hc, job>>
    BY <1>1 DEF StartNodeJob, UpgradeNode, FinishNodeJob, manifestVars, helmVars, sucVars
  <1>3. CASE SUCPlanPredicate(o)
    BY <1>1, <1>3 DEF WakeUpAhead
  <1>4. CASE ~SUCPlanPredicate(o) /\ NodeJobAhead
    <2>1. PICK p \in objs, m \in Node :
             /\ ~IsSecret(p) /\ Prepared(p)
             /\ <<p, m>> \in applying \/ Applicable(p, m)
      BY <1>4 DEF NodeJobAhead
    <2>2. done \subseteq done'
      BY <1>1 DEF StartNodeJob, UpgradeNode, FinishNodeJob, sucVars
    <2>3. Prepared(p)'
      BY <2>1, <2>2 DEF Prepared
    <2>4. CASE StartNodeJob(o, n) \/ UpgradeNode(o, n)
      <3>1. UNCHANGED <<objs, done>> /\ applying \subseteq applying'
        BY <2>4 DEF StartNodeJob, UpgradeNode, sucVars
      <3>2. (<<p, m>> \in applying \/ Applicable(p, m))'
        BY <2>1, <3>1 DEF Applicable
      <3>3. QED
        BY <1>2, <2>1, <2>3, <3>2 DEF WakeUpAhead, NodeJobAhead
    <2>5. CASE FinishNodeJob(o, n)
      <3>1. /\ <<o, n>> \in applying
            /\ done' = done \cup {<<o, n>>}
            /\ \/ applying' = applying \ {<<o, n>>}
               \/ \E k \in Node \ {n} : applying' = (applying \ {<<o, n>>}) \cup {<<o, k>>}
        BY <2>5 DEF FinishNodeJob
      <3>2. CASE p = o /\ m = n
        <4>1. Applying(o, applying) # {}
          BY <3>1 DEF Applying
        <4>2. PICK k \in Node : <<o, k>> \in applying'
          BY <1>4, <4>1 DEF SUCPlanPredicate, Applying
        <4>3. QED
          BY <1>2, <2>1, <2>3, <3>2, <4>2 DEF WakeUpAhead, NodeJobAhead
      <3>3. CASE <<p, m>> # <<o, n>>
        <4>1. <<p, m>> \in applying => <<p, m>> \in applying'
          BY <3>1, <3>3
        <4>2. Applicable(p, m) => Applicable(p, m)'
          BY <1>2, <3>1, <3>3 DEF Applicable
        <4>3. QED
          BY <1>2, <2>1, <2>3, <4>1, <4>2 DEF WakeUpAhead, NodeJobAhead
      <3>4. QED
        BY <3>2, <3>3
    <2>6. QED
      BY <1>1, <2>4, <2>5
  <1>5. CASE ~SUCPlanPredicate(o) /\ ~NodeJobAhead
    <2>1. HelmJobAhead <=> HelmJobAhead'
      BY <1>2 DEF HelmJobAhead
    <2>2. QED
      BY <1>1, <1>2, <1>5, <2>1 DEF WakeUpAhead
  <1>6. QED
    BY <1>3, <1>4, <1>5

\* Helm and manifest jobs end with an event, or with a lost one that the
\* resynchronisation of the Secret makes up for.
LEMMA JobWakes ==
  ASSUME TypeOK, SuppliesInv, cache.life \in {"absent", "live"}, WakeUpAhead, JobStep
  PROVE  WakeUpAhead'
  <1>1. /\ UNCHANGED <<plan, cache, seen, timer, sucVars, hc>>
        /\ \/ queued' = (queued \/ JobPredicate) /\ UNCHANGED faults
           \/ DropJobEvent
    BY DEF JobStep, ManifestJobSucceeds, ManifestJobFails, ManifestJobExpires, RemoveHelmJob,
           StartHelmJob, HelmJobSucceeds, HelmJobFails, UpgradeCore, helmVars
  <1>2. CASE DropJobEvent
    <2>1. \E h \in Chart : hc[h].ann # 0
      BY <1>2 DEF DropJobEvent
    <2>2. SecretShown
      BY <2>1 DEF SuppliesInv
    <2>3. faults'.events > 0
      BY <1>2 DEF DropJobEvent, LoseEvent, TypeOK, FaultCount
    <2>4. QED
      BY <1>1, <2>2, <2>3 DEF WakeUpAhead, SecretShown
  <1>3. CASE queued' = (queued \/ JobPredicate) /\ UNCHANGED faults
    <2>1. NodeJobAhead <=> NodeJobAhead'
      BY <1>1 DEF NodeJobAhead, Prepared, Applicable, sucVars
    <2>2. ASSUME NEW r \in Release, mjob[r] = "running"
          PROVE  mjob'[r] = "running" \/ JobPredicate
      BY <2>2 DEF JobStep, ManifestJobSucceeds, ManifestJobFails, ManifestJobExpires, RemoveHelmJob,
           StartHelmJob, HelmJobSucceeds, HelmJobFails, UpgradeCore, manifestVars, JobPredicate,
           TypeOK, ClusterTypeOK
    <2>3. ASSUME NEW h \in Chart, hc[h].ann # 0, ~(JobFinished(job[h]) /\ job[h].ver = hc[h].ver)
          PROVE  ~(JobFinished(job'[h]) /\ job'[h].ver = hc'[h].ver) \/ JobPredicate
      <3>1. job \in [Chart -> JobObject]
        BY DEF TypeOK, ClusterTypeOK
      <3>2. job'[h] # job[h] => ~JobFinished(job'[h]) \/ ~JobFinished(job[h])
        BY <3>1 DEF JobStep, ManifestJobSucceeds, ManifestJobFails, ManifestJobExpires, RemoveHelmJob,
             StartHelmJob, HelmJobSucceeds, HelmJobFails, UpgradeCore, helmVars, JobFinished, NoJob,
             JobObject
      <3>3. QED
        BY <1>1, <2>3, <3>2 DEF JobPredicate
    <2>4. HelmJobAhead => HelmJobAhead' \/ JobPredicate
      BY <1>1, <2>3 DEF HelmJobAhead
    <2>5. (\E r \in Release : mjob[r] = "running")
             => (\E r \in Release : mjob'[r] = "running") \/ JobPredicate
      BY <2>2
    <2>6. QED
      BY <1>1, <1>3, <2>1, <2>4, <2>5 DEF WakeUpAhead, sucVars
  <1>4. QED
    BY <1>1, <1>2, <1>3

\* So does a deletion that waits for a node.
LEMMA NodeKeptApplying ==
  ASSUME NEW o \in objs, NEW n \in Node, NEW x,
         StartNodeJob(o, n) \/ UpgradeNode(o, n) \/ FinishNodeJob(o, n),
         Applying(x, applying) # {}
  PROVE  Applying(x, applying') # {} \/ SUCPlanPredicate(o)
  <1>1. PICK m \in Node : <<x, m>> \in applying
    BY DEF Applying
  <1>2. CASE StartNodeJob(o, n) \/ UpgradeNode(o, n)
    <2>1. applying \subseteq applying'
      BY <1>2 DEF StartNodeJob, UpgradeNode, sucVars
    <2>2. QED
      BY <1>1, <2>1 DEF Applying
  <1>3. CASE FinishNodeJob(o, n)
    <2>1. applying \ {<<o, n>>} \subseteq applying' /\ <<o, n>> \in applying
      BY <1>3 DEF FinishNodeJob
    <2>2. CASE x = o
      BY <1>1, <2>2 DEF SUCPlanPredicate
    <2>3. CASE x # o
      BY <1>1, <2>1, <2>3 DEF Applying
    <2>4. QED
      BY <2>2, <2>3
  <1>4. QED
    BY <1>2, <1>3

\* The wait for a node ends with an event.
LEMMA OthersWake ==
  ASSUME TypeOK, DeletionAhead, Informer \/ RequeueAfterElapses \/ SUCStep \/ JobStep
  PROVE  DeletionAhead'
  <1>1. CASE Informer \/ RequeueAfterElapses
    BY <1>1 DEF Informer, SyncPlan, ResyncSecret, SyncObject, RequeueAfterElapses, clusterVars, sucVars,
           DeletionAhead
  <1>2. CASE JobStep
    <2>1. UNCHANGED <<plan, cache, applying>> /\ (queued' = (queued \/ JobPredicate) \/ queued' = queued)
      BY <1>2 DEF JobStep, ManifestJobSucceeds, ManifestJobFails, ManifestJobExpires, RemoveHelmJob,
           StartHelmJob, HelmJobSucceeds, HelmJobFails, UpgradeCore, sucVars, DropJobEvent
    <2>2. QED
      BY <2>1 DEF DeletionAhead
  <1>3. CASE SUCStep
    <2>1. PICK o \in objs, n \in Node :
             /\ StartNodeJob(o, n) \/ UpgradeNode(o, n) \/ FinishNodeJob(o, n)
             /\ queued' = (queued \/ SUCPlanPredicate(o))
             /\ UNCHANGED <<plan, cache>>
      BY <1>3 DEF SUCStep
    <2>2. CASE applying # {}
      <3>0. PICK y \in applying : y \in Object \X Node
        BY <2>2 DEF TypeOK, ClusterTypeOK
      <3>1. PICK x \in Object, m \in Node : <<x, m>> \in applying
        BY <3>0
      <3>2. Applying(x, applying') # {} \/ SUCPlanPredicate(o)
        BY <2>1, <3>1, NodeKeptApplying DEF Applying
      <3>3. QED
        BY <2>1, <3>2 DEF DeletionAhead, Applying
    <2>3. QED
      BY <2>1, <2>2 DEF DeletionAhead
  <1>4. QED
    BY <1>1, <1>2, <1>3

\* Users leave an event of the plan itself to come.
LEMMA UserWakes ==
  ASSUME ObjectInv, OrderInv, User, plan'.life \in {"live", "deleting"}
  PROVE  PlanPredicate(cache', plan')
  <1>0. /\ plan \in PlanObject /\ cache \in PlanObject
        /\ plan.gen \in Nat /\ cache.gen \in Nat /\ cache.gen <= plan.gen /\ cache' = cache
    BY DEF ObjectInv, RefinementInv, StageInv, TypeOK, PlanObject, OrderInv, User, CreatePlan, EditPlan,
           DeletePlan
  <1>1. ASSUME NEW r, CreatePlan(r)
        PROVE  PlanPredicate(cache', plan')
    <2>1. plan.life = "absent" /\ plan' = [NoPlan EXCEPT !.life = "live", !.rel = r, !.gen = 1]
      BY <1>1 DEF CreatePlan
    <2>2. plan'.life = "live"
      BY <2>1 DEF NoPlan
    <2>3. cache.life = "absent"
      BY <1>0, <2>1 DEF ObjectInv, LivesInv, PlanObject
    <2>4. QED
      BY <1>0, <2>2, <2>3 DEF PlanPredicate, Exists
  <1>2. CASE (\E r : EditPlan(r)) \/ DeletePlan
    <2>1. plan'.gen = plan.gen + 1
      BY <1>0, <1>2 DEF EditPlan, DeletePlan, PlanObject
    <2>2. QED
      BY <1>0, <2>1 DEF PlanPredicate
  <1>3. QED
    BY <1>1, <1>2 DEF User
-----------------------------------------------------------------------------
(***************************************************************************)
(* What reconcileNormal waits for.                                         *)
(***************************************************************************)

\* A new Secret will show; SUC has a node to upgrade for a new SUC plan, or for
\* the control plane plan that its prepare container waits for.
LEMMA CreatedWakes ==
  ASSUME ObjectInv, SuppliesInv, cache.life = "live", NEW w, NEW o,
         createObject(o, w), result' = "done", Selected(o) # {},
         o.kind \in OSKind => [o EXCEPT !.kind = "secret"] \in seen,
         o.kind = "k8sWorker" => [o EXCEPT !.kind = "k8sControlPlane"] \in seen,
         o \in Object
  PROVE  WakeUpAhead'
  <1>1. objs' = objs \cup {o} /\ o \notin objs /\ o \notin seen /\ UNCHANGED <<seen, applying, done>>
    BY DEF createObject, Return, Found
  <1>2. seen \subseteq objs
    BY DEF ObjectInv, NamesInv
  <1>3. CASE IsSecret(o)
    BY <1>1, <1>3 DEF WakeUpAhead
  <1>4. CASE ~IsSecret(o) /\ Prepared(o)
    <2>1. PICK n \in Selected(o) : n \in Node
      BY DEF Selected, Node
    <2>2. <<o, n>> \notin done
      BY <1>1 DEF SuppliesInv
    <2>3. Applicable(o, n)'
      BY <1>1, <1>2, <2>1, <2>2 DEF Applicable
    <2>4. Prepared(o)'
      BY <1>1, <1>4 DEF Prepared
    <2>5. QED
      BY <1>1, <1>4, <2>1, <2>3, <2>4 DEF WakeUpAhead, NodeJobAhead
  <1>5. CASE ~Prepared(o)
    <2> DEFINE c == [o EXCEPT !.kind = "k8sControlPlane"]
    <2>1. PICK n \in ControlPlane : <<c, n>> \notin done
      BY <1>5 DEF Prepared
    <2>2. o.kind = "k8sWorker" /\ c.kind = "k8sControlPlane"
      BY <1>5 DEF Prepared, Object
    <2>3. c \in objs' /\ ~IsSecret(c) /\ n \in Node
      BY <1>1, <1>2, <2>2 DEF IsSecret, Node
    <2>4. Applicable(c, n)'
      BY <1>1, <2>1, <2>2 DEF Applicable, Selected, OSKind
    <2>5. Prepared(c)'
      BY <2>2 DEF Prepared
    <2> HIDE DEF c
    <2>6. QED
      BY <2>3, <2>4, <2>5 DEF WakeUpAhead, NodeJobAhead
  <1>6. QED
    BY <1>3, <1>4, <1>5

\* reconcileOS leaves one of these behind, a requeue or a timer.
LEMMA OSWakes ==
  ASSUME ObjectInv, SuppliesInv, cache.life = "live", reconcileOS(cache), result' = "done"
  PROVE  WakeUpAhead'
  <1> DEFINE obj(k) == OSObject(k, cache)
  <1>0. cache \in PlanObject /\ cache.rel \in Release
    BY DEF ObjectInv, RefinementInv, StageInv, StatusInv, TypeOK, WellFormed
  <1>1. \A k \in SUCPlanKind \cup {"secret"} :
           /\ obj(k) \in Object /\ obj(k).kind = k
           /\ [obj(k) EXCEPT !.kind = "secret"] = obj("secret")
    BY <1>0, ObjectType DEF OSObject
  <1>2. \/ \E w : createObject(obj("secret"), w)
        \/ \E w : obj("secret") \in seen /\ createObject(obj("osControlPlane"), w)
        \/ \E w : obj("secret") \in seen /\ Worker # {} /\ createObject(obj("osWorker"), w)
    BY DEF reconcileOS, Report, Return, Found, controlPlaneOnlyCluster
  <1>3. /\ Selected(obj("osControlPlane")) # {}
        /\ Worker # {} => Selected(obj("osWorker")) # {} /\ Selected(obj("secret")) # {}
    BY <1>1, NodeAssumption DEF Selected, SUCPlanKind
  <1>4. CASE \E w : createObject(obj("secret"), w)
    <2>1. /\ UNCHANGED seen /\ obj("secret") \in objs' /\ obj("secret") \notin seen
      BY <1>4 DEF createObject, Return, Found
    <2>2. QED
      BY <1>1, <2>1 DEF WakeUpAhead, IsSecret
  <1>5. CASE \E w : obj("secret") \in seen /\ createObject(obj("osControlPlane"), w)
    BY <1>1, <1>3, <1>5, CreatedWakes DEF SUCPlanKind, OSKind
  <1>6. CASE \E w : obj("secret") \in seen /\ Worker # {} /\ createObject(obj("osWorker"), w)
    BY <1>1, <1>3, <1>6, CreatedWakes DEF SUCPlanKind, OSKind
  <1>7. QED
    BY <1>2, <1>4, <1>5, <1>6

\* So does reconcileKubernetes.
LEMMA KubernetesWakes ==
  ASSUME ObjectInv, SuppliesInv, cache.life = "live", reconcileKubernetes(cache), result' = "done"
  PROVE  WakeUpAhead'
  <1> DEFINE obj(k) == K8sObject(k, cache)
  <1>0. cache \in PlanObject /\ cache.rel \in Release
    BY DEF ObjectInv, RefinementInv, StageInv, StatusInv, TypeOK, WellFormed
  <1>1. \A k \in {"k8sControlPlane", "k8sWorker"} :
           /\ obj(k) \in Object /\ obj(k).kind = k
           /\ [obj(k) EXCEPT !.kind = "k8sControlPlane"] = obj("k8sControlPlane")
    <2>1. obj("k8sControlPlane") \in Object /\ obj("k8sWorker") \in Object
      BY <1>0, ObjectType DEF SUCPlanKind
    <2>2. QED
      BY <2>1 DEF K8sObject
  <1>2. \/ \E w : createObject(obj("k8sControlPlane"), w)
        \/ \E w : obj("k8sControlPlane") \in seen /\ Worker # {} /\ createObject(obj("k8sWorker"), w)
    BY DEF reconcileKubernetes, Report, Return, Found, controlPlaneOnlyCluster
  <1>3. /\ Selected(obj("k8sControlPlane")) # {}
        /\ Worker # {} => Selected(obj("k8sWorker")) # {}
    BY <1>1, NodeAssumption DEF Selected
  <1>4. CASE \E w : createObject(obj("k8sControlPlane"), w)
    BY <1>1, <1>3, <1>4, CreatedWakes DEF OSKind
  <1>5. CASE \E w : obj("k8sControlPlane") \in seen /\ Worker # {} /\ createObject(obj("k8sWorker"), w)
    BY <1>1, <1>3, <1>5, CreatedWakes DEF OSKind
  <1>6. QED
    BY <1>2, <1>4, <1>5

\* The Helm Controller has a job to run for the HelmChart that stops the walk:
\* the job of the version that has just been written is not one that is over,
\* because the Helm Controller has removed the jobs of earlier versions.
LEMMA HelmChartWakes ==
  ASSUME ComponentInv, NoStaleJob, NEW c \in Chart, cache.rel \in Release,
         reconcileHelmChart(cache, c), ~jobNameMissing(cache, c), result' = "done"
  PROVE  HelmJobAhead'
  <1>0. /\ job \in [Chart -> JobObject] /\ hc \in [Chart -> HelmChartObject]
        /\ cache.rel # 0 /\ \A h \in Chart : ChartVersion[cache.rel][h] \in Nat \ {0}
    <2>1. job \in [Chart -> JobObject] /\ hc \in [Chart -> HelmChartObject]
      BY DEF ComponentInv, RefinementInv, StageInv, TypeOK, ClusterTypeOK
    <2>2. cache.rel # 0 /\ ChartVersion[cache.rel] \in [Chart -> Nat \ {0}]
      BY ReleaseAssumption, VersionAssumption
    <2>3. QED
      BY <2>1, <2>2
  <1>1. PICK i \in DOMAIN Walk(c) :
           /\ StopsFirst(c, i, cache.rel)
           /\ IF writesHelmChart(Walk(c)[i], cache.rel)
              THEN writeHelmChart(Walk(c)[i], cache, StoppedPlan(cache, c, i), StoppedResult(cache, c, i))
              ELSE Report(StoppedPlan(cache, c, i), StoppedResult(cache, c, i))
    BY DEF reconcileHelmChart, Report, Return
  <1> DEFINE h == Walk(c)[i]
             state == upgradeHelmChart(h, cache.rel)
  <1>2. h \in Chart
    BY <1>1, WalkType
  <1>3. CASE writesHelmChart(h, cache.rel)
    <2>1. UNCHANGED job /\ hc' = [hc EXCEPT ![h] = HelmChartFor(h, cache.rel)]
      BY <1>1, <1>3 DEF writeHelmChart
    <2>2. hc'[h] = [ver |-> ChartVersion[cache.rel][h], ann |-> cache.rel]
      BY <1>0, <1>2, <2>1 DEF HelmChartFor
    <2>3. job[h].st = "none" \/ job[h].ver # ChartVersion[cache.rel][h]
      BY <1>2, <1>3 DEF NoStaleJob, writesHelmChart
    <2>4. ~(JobFinished(job'[h]) /\ job'[h].ver = hc'[h].ver)
      BY <2>1, <2>2, <2>3 DEF JobFinished
    <2>5. hc'[h].ann # 0 /\ hc'[h].ver # 0
      BY <1>0, <1>2, <2>2
    <2> HIDE DEF h
    <2>6. QED
      BY <1>2, <2>4, <2>5 DEF HelmJobAhead
  <1>4. CASE ~writesHelmChart(h, cache.rel)
    <2>1. UNCHANGED <<hc, job>> /\ StoppedResult(cache, c, i) = "done"
      BY <1>1, <1>4 DEF Report, Return, clusterVars, helmVars
    <2>2. state \in {"InProgress", "Unknown"}
      BY <2>1 DEF StoppedResult, evaluateRequeue
    <2>3. hc[h].ann = cache.rel /\ job[h].st \in {"none", "running"}
      BY <1>0, <1>2, <1>4, <2>2 DEF upgradeHelmChart, JobObject
    <2>4. hc[h].ann # 0 /\ hc[h].ver # 0
      BY <1>0, <1>2, <2>3 DEF ComponentInv, HelmInv, HelmChartFor
    <2>5. ~JobFinished(job[h])
      BY <2>3 DEF JobFinished
    <2> HIDE DEF h, state
    <2>6. QED
      BY <1>2, <2>1, <2>4, <2>5 DEF HelmJobAhead
  <1>5. QED
    BY <1>3, <1>4

\* A HelmChart that has been written for the plan, if a job has been missed.
LEMMA JobNameMissingChart ==
  ASSUME NEW c \in Chart, cache.rel \in Release, jobNameMissing(cache, c)
  PROVE  \E h \in Chart : hc[h].ann # 0
  <1>1. PICK i \in DOMAIN Walk(c) : hc[Walk(c)[i]] = HelmChartFor(Walk(c)[i], cache.rel)
    BY DEF jobNameMissing
  <1>2. Walk(c)[i] \in Chart /\ cache.rel # 0
    BY WalkType, ReleaseAssumption
  <1>3. QED
    BY <1>1, <1>2 DEF HelmChartFor

\* The resynchronisation of the Secret makes up for a job that has been missed.
LEMMA JobNameMissingWakes ==
  ASSUME ObjectInv, SuppliesInv, cache.life = "live", cache.rel \in Release,
         NEW c \in Chart, jobNameMissing(cache, c)
  PROVE  WakeUpAhead'
  <1>1. SecretShown
    BY JobNameMissingChart DEF SuppliesInv
  <1>2. UNCHANGED seen /\ LoseEvent /\ faults \in FaultCount
    BY DEF jobNameMissing, ObjectInv, RefinementInv, StageInv, TypeOK
  <1>3. faults'.events > 0
    BY <1>2 DEF LoseEvent, FaultCount
  <1>4. QED
    BY <1>1, <1>2, <1>3 DEF WakeUpAhead, SecretShown

\* A reconciliation that ends without a requeue leaves a wake-up ahead, or there
\* is nothing to wait for.
LEMMA ReconcileNormalWakes ==
  ASSUME ObjectInv, ComponentInv, SuppliesInv, NoStaleJob, cache.life = "live",
         reconcileNormal(cache), result' = "done"
  PROVE  WakeUpAhead' \/ AtRest(work')
  <1>0. cache \in PlanObject /\ cache.rel \in Release /\ mjob \in [Release -> {"none", "running", "finished"}]
    BY DEF ObjectInv, RefinementInv, StageInv, StatusInv, TypeOK, WellFormed, ClusterTypeOK
  <1>1. CASE createReleaseManifest(cache)
    <2>1. mjob' = [mjob EXCEPT ![cache.rel] = "running"]
      BY <1>1 DEF createReleaseManifest, Return
    <2>2. QED
      BY <1>0, <2>1 DEF WakeUpAhead
  <1>2. CASE ReconcileError(cache) \/ observeGeneration(cache)
    BY <1>2 DEF ReconcileError, observeGeneration, Report, Return
  <1>3. CASE rejectUnsupportedNodes(cache)
    <2>1. work' = [cache EXCEPT !.invalid = TRUE] /\ findUnsupportedNodes(cache.rel) # {}
      BY <1>3 DEF rejectUnsupportedNodes, Report, Return
    <2>2. work'.rel = cache.rel
      BY <1>0, <2>1 DEF PlanObject
    <2>3. QED
      BY <2>1, <2>2 DEF AtRest
  <1>4. CASE reconcileOS(cache)
    BY <1>4, OSWakes
  <1>5. CASE reconcileKubernetes(cache)
    BY <1>5, KubernetesWakes
  <1>6. CASE reconcileWorkloads(cache)
    <2>1. ASSUME NEW i \in DOMAIN Workloads[cache.rel], reconcileHelmChart(cache, Workloads[cache.rel][i])
          PROVE  WakeUpAhead'
      <3>1. Workloads[cache.rel][i] \in Chart
        BY <1>0, <2>1, ComponentTypes
      <3>2. CASE jobNameMissing(cache, Workloads[cache.rel][i])
        BY <1>0, <3>1, <3>2, JobNameMissingWakes
      <3>3. CASE ~jobNameMissing(cache, Workloads[cache.rel][i])
        <4>1. HelmJobAhead'
          BY <1>0, <2>1, <3>1, <3>3, HelmChartWakes
        <4>2. QED
          BY <4>1 DEF WakeUpAhead
      <3>4. QED
        BY <3>2, <3>3
    <2>2. CASE Report([cache EXCEPT !.last = cache.rel], "done")
      <3>1. work' = [cache EXCEPT !.last = cache.rel]
        BY <2>2 DEF Report, Return
      <3>2. work'.last = work'.rel
        BY <1>0, <3>1 DEF PlanObject
      <3>3. QED
        BY <3>2 DEF AtRest
    <2>3. QED
      BY <1>6, <2>1, <2>2 DEF reconcileWorkloads
  <1>7. QED
    BY <1>1, <1>2, <1>3, <1>4, <1>5, <1>6 DEF reconcileNormal
-----------------------------------------------------------------------------
(***************************************************************************)
(* Objects stay for as long as the plan is in use.                         *)
(***************************************************************************)

\* A cache that shows the plan in use showed nothing later before.
LEMMA CacheEarlier ==
  ASSUME ObjectInv, cache' \in {cache, plan}, cache'.life \in {"absent", "live"}
  PROVE  cache.life \in {"absent", "live"} /\ seen \subseteq objs
  <1>1. cache.life \in {"absent", "live", "deleting", "gone"}
    BY DEF ObjectInv, RefinementInv, StageInv, TypeOK, PlanObject
  <1>2. QED
    BY <1>1 DEF ObjectInv, LivesInv, NamesInv

\* Steps that remove nothing keep what there is.
LEMMA SuppliesKept ==
  ASSUME ObjectInv, SuppliesInv, cache' \in {cache, plan}, objs \subseteq objs',
         \A o, n : <<o, n>> \in done' => <<o, n>> \in done \/ o \in objs,
         seen \subseteq objs => seen \subseteq seen',
         \/ SecretShown
         \/ /\ faults'.events > 0 => faults.events > 0
            /\ (\E h \in Chart : hc'[h].ann # 0) => \E h \in Chart : hc[h].ann # 0
         \/ \E h \in Chart : hc[h].ann # 0
  PROVE  SuppliesInv'
  <1> SUFFICES ASSUME cache'.life \in {"absent", "live"}
               PROVE  /\ \A o, n : <<o, n>> \in done' => o \in objs'
                      /\ faults'.events > 0 \/ (\E h \in Chart : hc'[h].ann # 0) => SecretShown'
    BY DEF SuppliesInv
  <1>1. cache.life \in {"absent", "live"} /\ seen \subseteq objs
    BY CacheEarlier
  <1>2. \A o, n : <<o, n>> \in done' => o \in objs'
    BY <1>1 DEF SuppliesInv
  <1>3. SecretShown => SecretShown'
    BY <1>1 DEF SecretShown
  <1>4. QED
    BY <1>1, <1>2, <1>3 DEF SuppliesInv

\* A HelmChart is written only after the OS stage, whose Secret has shown.
LEMMA WrittenAfterSecret ==
  ASSUME ObjectInv, Reconcile, ~UNCHANGED hc
  PROVE  SecretShown
  <1>1. ASSUME NEW w, NEW res, Report(w, res)
        PROVE  UNCHANGED hc
    BY <1>1 DEF Report, clusterVars, helmVars
  <1>2. ASSUME NEW o, NEW w, createObject(o, w)
        PROVE  UNCHANGED hc
    BY <1>2 DEF createObject, helmVars
  <1>3. ~createReleaseManifest(cache) /\ ~ReconcileError(cache)
    BY DEF createReleaseManifest, ReconcileError, clusterVars, helmVars
  <1>4. ~rejectUnsupportedNodes(cache) /\ ~observeGeneration(cache)
    BY <1>1 DEF rejectUnsupportedNodes, observeGeneration
  <1>5. ~reconcileOS(cache) /\ ~reconcileKubernetes(cache)
    BY <1>1, <1>2 DEF reconcileOS, reconcileKubernetes
  <1>6. cache.life = "live" /\ cache.fin /\ reconcileNormal(cache)
    BY DEF Reconcile, listPlans, AddFinalizer, clusterVars, helmVars
  <1>7. Observed(cache) /\ OSUpgraded(cache)
    BY <1>3, <1>4, <1>5, <1>6 DEF reconcileNormal, Observed
  <1>8. OSObjects(cache) \subseteq seen
    BY <1>7 DEF ObjectInv, NamesInv, Shown, OSUpgraded, IsStatusConditionTrue
  <1>9. OSObject("secret", cache) \in seen /\ IsSecret(OSObject("secret", cache))
    BY <1>8 DEF OSObjects, IsSecret, OSObject
  <1>10. QED
    BY <1>9 DEF SecretShown

\* A reconciliation adds objects only, and loses an event only of a HelmChart
\* that has been written.
LEMMA ReconcileSupplies ==
  ASSUME ObjectInv, Reconcile
  PROVE  /\ UNCHANGED <<cache, seen, applying, done>> /\ objs \subseteq objs'
         /\ faults'.events = faults.events \/ \E h \in Chart : hc[h].ann # 0
  <1>1. faults \in FaultCount
    BY DEF ObjectInv, RefinementInv, StageInv, TypeOK
  <1> DEFINE Adds == /\ UNCHANGED <<cache, seen, applying, done>> /\ objs \subseteq objs'
                     /\ UNCHANGED faults \/ Fault \/ \E h \in Chart : hc[h].ann # 0
  <1>2. ASSUME NEW w, NEW res, Report(w, res)
        PROVE  Adds
    BY <1>2 DEF Report, Return, clusterVars, sucVars
  <1>3. ASSUME NEW o, NEW w, createObject(o, w)
        PROVE  Adds
    BY <1>3 DEF createObject, Return
  <1>4. ASSUME NEW h, NEW w, NEW res, writeHelmChart(h, cache, w, res)
        PROVE  Adds
    BY <1>4 DEF writeHelmChart, Return, sucVars
  <1>5. ASSUME reconcileNormal(cache)
        PROVE  Adds
    <2>1. CASE createReleaseManifest(cache) \/ ReconcileError(cache)
      BY <2>1 DEF createReleaseManifest, ReconcileError, Return, clusterVars, sucVars
    <2>2. CASE rejectUnsupportedNodes(cache) \/ observeGeneration(cache)
      BY <1>2, <2>2 DEF rejectUnsupportedNodes, observeGeneration
    <2>3. CASE reconcileOS(cache) \/ reconcileKubernetes(cache)
      BY <1>2, <1>3, <2>3 DEF reconcileOS, reconcileKubernetes
    <2>4. ASSUME NEW i \in DOMAIN Workloads[cache.rel], cache.rel \in manifests,
                 jobNameMissing(cache, Workloads[cache.rel][i])
          PROVE  Adds
      <3>1. cache.rel \in Release
        BY <2>4 DEF ObjectInv, RefinementInv, StageInv, TypeOK, ClusterTypeOK
      <3>2. \E h \in Chart : hc[h].ann # 0
        BY <2>4, <3>1, ComponentTypes, JobNameMissingChart
      <3>3. QED
        BY <2>4, <3>2 DEF jobNameMissing, Return, clusterVars, sucVars
    <2>5. CASE cache.rel \in manifests /\ reconcileWorkloads(cache)
      BY <1>2, <1>4, <2>4, <2>5 DEF reconcileWorkloads, reconcileHelmChart
    <2>6. QED
      BY <1>5, <2>1, <2>2, <2>3, <2>5 DEF reconcileNormal
  <1>6. ASSUME ~reconcileNormal(cache)
        PROVE  Adds
    BY <1>6 DEF Reconcile, listPlans, AddFinalizer, clusterVars, sucVars
  <1>7. Fault => faults'.events = faults.events
    BY <1>1 DEF Fault, FaultCount
  <1>8. QED
    BY <1>5, <1>6, <1>7

\* No step takes away what there is for a plan in use.
LEMMA NextSupplies ==
  ASSUME ObjectInv, SuppliesInv, [Next]_vars
  PROVE  SuppliesInv'
  <1>0. faults \in FaultCount /\ cache.life \in {"absent", "live", "deleting", "gone"}
    BY DEF ObjectInv, RefinementInv, StageInv, TypeOK, PlanObject
  <1>a. Fault => faults'.events = faults.events
    BY <1>0 DEF Fault, FaultCount
  <1>1. CASE User \/ RequeueAfterElapses \/ Commit \/ UNCHANGED vars
    <2>1. UNCHANGED <<cache, seen, clusterVars>> /\ faults'.events = faults.events
      BY <1>1, <1>a DEF User, CreatePlan, EditPlan, DeletePlan, RequeueAfterElapses, Commit, vars
    <2>2. UNCHANGED <<objs, done, hc>>
      BY <2>1 DEF clusterVars, sucVars, helmVars
    <2> HIDE DEF SuppliesInv
    <2>3. QED
      BY <2>1, <2>2, SuppliesKept
  <1>2. CASE Informer
    <2>1. /\ cache' \in {cache, plan} /\ UNCHANGED <<faults, clusterVars>>
          /\ seen \subseteq objs => seen \subseteq seen'
      BY <1>2 DEF Informer, SyncPlan, ResyncSecret, SyncObject
    <2>2. UNCHANGED <<objs, done, hc>>
      BY <2>1 DEF clusterVars, sucVars, helmVars
    <2>3. QED
      BY <2>1, <2>2, SuppliesKept
  <1>3. CASE SUCStep
    <2>1. /\ UNCHANGED <<cache, faults, objs, hc>> /\ seen \subseteq seen'
          /\ \A o, n : <<o, n>> \in done' => <<o, n>> \in done \/ o \in objs
      BY <1>3 DEF SUCStep, StartNodeJob, UpgradeNode, FinishNodeJob, sucVars, helmVars
    <2>2. QED
      BY <2>1, SuppliesKept
  <1>4. CASE JobStep
    <2>1. UNCHANGED <<cache, seen, objs, done, hc>> /\ (UNCHANGED faults \/ DropJobEvent)
      BY <1>4 DEF JobStep, ManifestJobSucceeds, ManifestJobFails, ManifestJobExpires, RemoveHelmJob,
           StartHelmJob, HelmJobSucceeds, HelmJobFails, UpgradeCore, sucVars, helmVars
    <2>2. UNCHANGED faults \/ \E h \in Chart : hc[h].ann # 0
      BY <2>1 DEF DropJobEvent
    <2>3. QED
      BY <2>1, <2>2, SuppliesKept
  <1>5. CASE Reconcile
    BY <1>5, ReconcileSupplies, WrittenAfterSecret, SuppliesKept
  <1>6. CASE deletePlans \/ deleteSecrets \/ RemoveFinalizer
    <2>1. UNCHANGED cache /\ pc \in {"deletePlans", "deleteSecrets"}
      BY <1>6 DEF deletePlans, deleteSecrets, RemoveFinalizer
    <2>2. cache'.life \notin {"absent", "live"}
      BY <2>1 DEF ObjectInv, LivesInv
    <2>3. QED
      BY <2>2 DEF SuppliesInv
  <1>7. CASE Restart
    <2>1. cache' = plan /\ seen' = objs /\ UNCHANGED clusterVars /\ faults'.events = faults.events
      BY <1>7, <1>a DEF Restart
    <2>2. UNCHANGED <<objs, done, hc>>
      BY <2>1 DEF clusterVars, sucVars, helmVars
    <2>3. QED
      BY <2>1, <2>2, SuppliesKept
  <1>8. QED
    BY <1>1, <1>2, <1>3, <1>4, <1>5, <1>6, <1>7 DEF Next, Controller
-----------------------------------------------------------------------------
(***************************************************************************)
(* No wake-up is lost.                                                     *)
(***************************************************************************)

\* The two parts of the property, for the steps below.
LEMMA WakePrimed ==
  ASSUME pc' = "idle" /\ plan'.life = "live" /\ ~AtRest(plan') => WakeUpAhead',
         pc' = "idle" /\ plan'.life = "deleting" => DeletionAhead'
  PROVE  NoLostWakeUp'
  BY DEF NoLostWakeUp, DeletionAhead, AtRest, findUnsupportedNodes

\* Whatever other programs do, they do not end a wait without an event.
LEMMA EnvironmentWakes ==
  ASSUME ObjectInv, OrderInv, SuppliesInv, WaitInv, NoLostWakeUp,
         User \/ Informer \/ RequeueAfterElapses \/ SUCStep \/ JobStep
  PROVE  WaitInv' /\ NoLostWakeUp'
  <1>0. /\ TypeOK
        /\ pc = "commit" => base.life = "live"
        /\ plan.life = "live" => cache.life \in {"absent", "live"}
    BY DEF ObjectInv, RefinementInv, StageInv, StatusInv, LivesInv, TypeOK, PlanObject
  <1>1. UNCHANGED <<pc, base, work, result, busy>>
    BY DEF User, CreatePlan, EditPlan, DeletePlan, Informer, SyncPlan, ResyncSecret, SyncObject,
           RequeueAfterElapses, SUCStep, JobStep, localVars
  <1>2. CASE User
    <2>1. plan'.life = "live" => WakeUpAhead'
      BY <1>2, UserWakes DEF WakeUpAhead
    <2>2. plan'.life = "deleting" => DeletionAhead'
      BY <1>2, UserWakes DEF DeletionAhead
    <2>3. NoLostWakeUp'
      BY <2>1, <2>2, WakePrimed
    <2>4. UNCHANGED <<queued, applying>>
      BY <1>2 DEF User, CreatePlan, EditPlan, DeletePlan, clusterVars, sucVars
    <2>5. WaitInv'
      BY <1>0, <1>1, <2>1, <2>4 DEF WaitInv, Applying
    <2>6. QED
      BY <2>3, <2>5
  <1>3. CASE Informer \/ RequeueAfterElapses \/ SUCStep \/ JobStep
    <2>1. UNCHANGED plan
      BY <1>3 DEF Informer, SyncPlan, ResyncSecret, SyncObject, RequeueAfterElapses, SUCStep, JobStep
    <2>2. plan.life = "live" /\ WakeUpAhead => WakeUpAhead'
      BY <1>0, <1>3, InformerWakes, SUCWakes, JobWakes
    <2>3. DeletionAhead => DeletionAhead'
      BY <1>0, <1>3, OthersWake
    <2>4. NoLostWakeUp'
      <3>1. pc' = "idle" /\ plan'.life = "live" /\ ~AtRest(plan') => WakeUpAhead'
        BY <1>1, <2>1, <2>2 DEF NoLostWakeUp
      <3>2. pc' = "idle" /\ plan'.life = "deleting" => DeletionAhead'
        BY <1>1, <2>1, <2>3 DEF NoLostWakeUp, DeletionAhead
      <3>3. QED
        BY <3>1, <3>2, WakePrimed
    <2>5. ASSUME NEW o \in busy, queued \/ Applying(o, applying) # {}
          PROVE  queued' \/ Applying(o, applying') # {}
      <3>1. CASE SUCStep
        BY <2>5, <3>1, NodeKeptApplying DEF SUCStep
      <3>2. CASE Informer \/ RequeueAfterElapses
        <4>1. UNCHANGED applying
          BY <3>2 DEF Informer, SyncPlan, ResyncSecret, SyncObject, RequeueAfterElapses, clusterVars, sucVars
        <4>2. queued => queued'
          <5>1. CASE SyncPlan
            BY <5>1 DEF SyncPlan
          <5>2. ASSUME NEW x, SyncObject(x)
                PROVE  queued => queued'
            BY <5>2 DEF SyncObject
          <5>3. CASE ResyncSecret \/ RequeueAfterElapses
            BY <5>3 DEF ResyncSecret, RequeueAfterElapses
          <5>4. QED
            BY <3>2, <5>1, <5>2, <5>3 DEF Informer
        <4>3. QED
          BY <2>5, <4>1, <4>2
      <3>3. CASE JobStep
        <4>1. UNCHANGED applying
          BY <3>3 DEF JobStep, ManifestJobSucceeds, ManifestJobFails, ManifestJobExpires, RemoveHelmJob,
               StartHelmJob, HelmJobSucceeds, HelmJobFails, UpgradeCore, sucVars
        <4>2. queued => queued'
          BY <3>3, Zenon DEF JobStep, DropJobEvent, LoseEvent
        <4>3. QED
          BY <2>5, <4>1, <4>2
      <3>4. QED
        BY <1>3, <3>1, <3>2, <3>3
    <2>6. pc' = "commit" /\ result' = "done" /\ base' = plan' => WakeUpAhead' \/ AtRest(work')
      BY <1>0, <1>1, <2>1, <2>2 DEF WaitInv
    <2>7. WaitInv'
      BY <1>1, <2>5, <2>6 DEF WaitInv, AtRest, findUnsupportedNodes, Applying
    <2>8. QED
      BY <2>4, <2>7
  <1>4. QED
    BY <1>2, <1>3

\* A reconciliation takes the plan from the queue only to bring it back.
LEMMA ReconcileWakes ==
  ASSUME ObjectInv, ComponentInv, SuppliesInv, WaitInv, NoLostWakeUp, Reconcile,
         pc = "idle" /\ pc' = "commit" => NoStaleJob
  PROVE  WaitInv' /\ NoLostWakeUp'
  <1>1. CASE ~Exists(cache) /\ UNCHANGED <<plan, cache, localVars>>
    <2>1. pc' = "idle" /\ (plan'.life \in {"live", "deleting"} => PlanPredicate(cache', plan'))
      BY <1>1 DEF Reconcile, localVars, PlanPredicate, Exists
    <2>2. QED
      BY <2>1, WakePrimed DEF WaitInv, WakeUpAhead, DeletionAhead
  <1>2. CASE listPlans(cache)
    <2>1. pc' = "deletePlans" /\ busy' = {o \in seen : Applying(o, applying) # {}} /\ UNCHANGED clusterVars
      BY <1>2 DEF listPlans
    <2>2. \A o \in busy' : Applying(o, applying') # {}
      BY <2>1 DEF clusterVars, sucVars
    <2>3. QED
      BY <2>1, <2>2, WakePrimed DEF WaitInv, Applying
  <1>3. CASE AddFinalizer(cache)
    <2>1. pc' = "idle" /\ queued'
      BY <1>3 DEF AddFinalizer, Reconcile, localVars
    <2>2. QED
      BY <2>1, WakePrimed DEF WaitInv, WakeUpAhead, DeletionAhead
  <1>4. CASE cache.life = "live" /\ reconcileNormal(cache)
    <2>1. \E w : \E res : Return(w, res)
      BY <1>4, ReconcileNormalReturns DEF ObjectInv, RefinementInv, StageInv, StatusInv
    <2>2. pc' = "commit" /\ pc = "idle"
      BY <2>1 DEF Return, Reconcile
    <2>3. result' = "done" => WakeUpAhead' \/ AtRest(work')
      BY <1>4, <2>2, ReconcileNormalWakes
    <2>4. QED
      BY <2>2, <2>3, WakePrimed DEF WaitInv, AtRest, findUnsupportedNodes
  <1>5. QED
    BY <1>1, <1>2, <1>3, <1>4 DEF Reconcile

\* The status update ends the reconciliation that the wait was for.
LEMMA CommitWakes ==
  ASSUME ObjectInv, OrderInv, WaitInv, Commit
  PROVE  WaitInv' /\ NoLostWakeUp'
  <1>0. base.life = "live" /\ work.life = "live" /\ work.gen = base.gen
    BY DEF Commit, ObjectInv, RefinementInv, StatusInv, StatusStep, OrderInv, Continues
  <1>1. pc' = "idle" /\ UNCHANGED <<cache, seen, clusterVars>> /\ (queued => queued') /\ (timer => timer')
    BY DEF Commit, Finish
  <1>2. CASE queued' = TRUE
    BY <1>1, <1>2, WakePrimed DEF WaitInv, WakeUpAhead, DeletionAhead
  <1>4. CASE timer' = TRUE /\ plan'.life = "live"
    BY <1>1, <1>4, WakePrimed DEF WaitInv, WakeUpAhead
  <1>3. CASE result = "done" /\ base = plan /\ plan' = work /\ UNCHANGED faults
    <2>1. plan'.life = "live" /\ plan'.gen = plan.gen /\ plan.life = "live"
      BY <1>0, <1>3
    <2>2. WakeUpAhead => WakeUpAhead'
      <3>1. UNCHANGED <<objs, applying, done, mjob, hc, job>>
        BY <1>1 DEF clusterVars, sucVars, manifestVars, helmVars
      <3>2. (NodeJobAhead <=> NodeJobAhead') /\ (HelmJobAhead <=> HelmJobAhead')
        BY <3>1 DEF NodeJobAhead, HelmJobAhead, Prepared, Applicable
      <3>3. PlanPredicate(cache, plan) <=> PlanPredicate(cache', plan')
        BY <1>1, <2>1 DEF PlanPredicate, Exists
      <3>4. QED
        BY <1>1, <1>3, <3>1, <3>2, <3>3 DEF WakeUpAhead
    <2>3. WakeUpAhead' \/ AtRest(plan')
      BY <1>3, <2>2 DEF WaitInv, Commit
    <2>4. QED
      BY <1>1, <2>1, <2>3, WakePrimed DEF WaitInv
  <1>5. CASE Finish(TRUE, FALSE)
    <2>1. queued' = TRUE
      BY <1>5 DEF Finish
    <2>2. QED
      BY <1>2, <2>1
  <1>6. result \in {"done", "requeue", "after", "error"}
    BY DEF ObjectInv, RefinementInv, StageInv, TypeOK
  <1>7. CASE base = plan /\ plan' = work /\ Finish(result \in {"requeue", "error"}, result = "after")
               /\ UNCHANGED faults
    <2>1. CASE result = "done"
      BY <1>3, <1>7, <2>1
    <2>2. CASE result = "after"
      <3>1. timer' = TRUE /\ plan'.life = "live"
        BY <1>0, <1>7, <2>2 DEF Finish
      <3>2. QED
        BY <1>4, <3>1
    <2>3. CASE result \in {"requeue", "error"}
      <3>1. queued' = TRUE
        BY <1>7, <2>3 DEF Finish
      <3>2. QED
        BY <1>2, <3>1
    <2>4. QED
      BY <1>6, <2>1, <2>2, <2>3
  <1>8. QED
    BY <1>5, <1>7 DEF Commit

\* The deletion loop comes back, or waits for a node that is being upgraded.
LEMMA DeletionWakes ==
  ASSUME ObjectInv, WaitInv, deletePlans \/ deleteSecrets \/ RemoveFinalizer
  PROVE  WaitInv' /\ NoLostWakeUp'
  <1>1. pc \in {"deletePlans", "deleteSecrets"} /\ plan.life \in {"deleting", "gone"}
    BY DEF deletePlans, deleteSecrets, RemoveFinalizer, ObjectInv, LivesInv
  <1>2. plan' = plan \/ plan'.life = "gone"
    <2>1. CASE RemoveFinalizer
      <3>1. work \in PlanObject
        BY DEF ObjectInv, RefinementInv, StageInv, TypeOK
      <3>2. QED
        BY <2>1, <3>1 DEF RemoveFinalizer, PlanObject
    <2>2. QED
      BY <2>1 DEF deletePlans, deleteSecrets
  <1>3. ASSUME NEW o, o \notin busy \/ pc = "deleteSecrets", deleteListed(o)
        PROVE  \/ pc' = "idle" /\ queued'
               \/ UNCHANGED <<pc, busy, queued>> /\ applying' = {x \in applying : x[1] # o}
    BY <1>3 DEF deleteListed, Finish, RemoveObject
  <1>4. CASE pc' = "idle" /\ DeletionAhead'
    BY <1>1, <1>2, <1>4, WakePrimed DEF WaitInv
  <1>5. CASE pc' = "deleteSecrets"
    BY <1>5, WakePrimed DEF WaitInv
  <1>6. CASE deletePlans
    <2>1. ASSUME NEW o \in busy, Finish(FALSE, FALSE), UNCHANGED clusterVars
          PROVE  pc' = "idle" /\ DeletionAhead'
      <3>1. queued \/ Applying(o, applying) # {}
        BY <1>6, <2>1 DEF WaitInv, deletePlans
      <3>2. QED
        BY <2>1, <3>1 DEF Finish, DeletionAhead, Applying, clusterVars, sucVars
    <2>2. ASSUME NEW o, o \notin busy, UNCHANGED <<pc, busy, queued>>,
                 applying' = {x \in applying : x[1] # o}
          PROVE  WaitInv' /\ NoLostWakeUp'
      <3>1. \A x \in busy : Applying(x, applying') = Applying(x, applying)
        BY <2>2 DEF Applying
      <3>2. \A x \in busy' : queued' \/ Applying(x, applying') # {}
        BY <1>6, <2>2, <3>1 DEF WaitInv, deletePlans
      <3>3. QED
        BY <1>6, <2>2, <3>2, WakePrimed DEF WaitInv, deletePlans, Applying
    <2>3. pc' = "idle" /\ queued' => DeletionAhead'
      BY DEF DeletionAhead
    <2>4. QED
      BY <1>3, <1>4, <1>5, <1>6, <2>1, <2>2, <2>3 DEF deletePlans
  <1>7. CASE deleteSecrets
    BY <1>3, <1>4, <1>5, <1>7 DEF deleteSecrets, DeletionAhead
  <1>8. CASE RemoveFinalizer
    <2>1. pc' = "idle" /\ (plan'.life = "gone" \/ queued')
      <3>1. work \in PlanObject
        BY DEF ObjectInv, RefinementInv, StageInv, TypeOK
      <3>2. QED
        BY <1>8, <3>1 DEF RemoveFinalizer, Finish, PlanObject
    <2>2. QED
      BY <1>1, <1>2, <2>1, WakePrimed DEF WaitInv, DeletionAhead
  <1>9. QED
    BY <1>6, <1>7, <1>8

\* The invariants hold initially, and every step keeps them.
LEMMA NextWakes ==
  ASSUME ObjectInv, ComponentInv, WakeInv, [Next]_vars,
         [pc = "idle" /\ pc' = "commit" => NoStaleJob]_vars
  PROVE  WakeInv'
  <1>1. OrderInv /\ SuppliesInv /\ WaitInv /\ NoLostWakeUp
    BY DEF ComponentInv, WakeInv
  <1>2. SuppliesInv'
    BY <1>1, NextSupplies
  <1>3. CASE User \/ Informer \/ RequeueAfterElapses \/ SUCStep \/ JobStep
    BY <1>1, <1>2, <1>3, EnvironmentWakes DEF WakeInv
  <1>4. CASE Reconcile /\ ~UNCHANGED vars
    BY <1>1, <1>2, <1>4, ReconcileWakes DEF WakeInv
  <1>5. CASE Commit \/ deletePlans \/ deleteSecrets \/ RemoveFinalizer
    BY <1>1, <1>2, <1>5, CommitWakes, DeletionWakes DEF WakeInv
  <1>6. CASE Restart
    <2>1. pc' = "idle" /\ UNCHANGED plan /\ (plan.life \in {"live", "deleting"} => queued')
      BY <1>6 DEF Restart, Exists
    <2>2. WaitInv' /\ NoLostWakeUp'
      BY <2>1, WakePrimed DEF WaitInv, WakeUpAhead, DeletionAhead
    <2>3. QED
      BY <1>2, <2>2 DEF WakeInv
  <1>7. CASE UNCHANGED vars
    <2>1. WaitInv' /\ NoLostWakeUp'
      BY <1>1, <1>7 DEF vars, localVars, clusterVars, sucVars, manifestVars, helmVars, WaitInv, NoLostWakeUp,
             WakeUpAhead, AtRest, findUnsupportedNodes, PlanPredicate, Exists, NodeJobAhead, HelmJobAhead,
             Prepared, Applicable, Applying
    <2>2. QED
      BY <1>2, <2>1 DEF WakeInv
  <1>8. QED
    BY <1>3, <1>4, <1>5, <1>6, <1>7 DEF Next, Controller

\* While a plan is to be upgraded or deleted and nobody is at it, something will
\* put it into the work queue: no creation, job event, node upgrade, edit, lost
\* event, failed call or restart leaves the reconciler waiting for an event that
\* does not come, provided that the Helm Controller is prompt. It is the part of
\* UpgradeCompletes and DeletionCompletes that does not depend on fairness.
THEOREM NoLostWakeUpCorrect == Spec /\ PromptHelmController => []NoLostWakeUp
  <1>1. Init => WakeInv
    <2> SUFFICES ASSUME Init PROVE WakeInv
      OBVIOUS
    <2>1. /\ pc = "idle" /\ plan.life = "absent" /\ done = {} /\ faults.events = 0
          /\ \A h \in Chart : hc[h].ann = 0
      BY DEF Init, ClusterInit, NoPlan
    <2>2. QED
      BY <2>1 DEF WakeInv, SuppliesInv, WaitInv, NoLostWakeUp
  <1>2. ObjectInv /\ ComponentInv /\ WakeInv /\ [Next]_vars
          /\ [pc = "idle" /\ pc' = "commit" => NoStaleJob]_vars => WakeInv'
    BY NextWakes
  <1>3. WakeInv => NoLostWakeUp
    BY DEF WakeInv
  <1>4. QED
    BY <1>1, <1>2, <1>3, ObjectsInvariant, ComponentsInvariant, PTL DEF Spec, PromptHelmController
=============================================================================
