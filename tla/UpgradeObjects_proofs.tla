------------------------ MODULE UpgradeObjects_proofs ------------------------
(***************************************************************************)
(* The Secrets and SUC plans the reconciler creates.                       *)
(*                                                                         *)
(* The reconciler decides on a cached plan and on cached objects, so what  *)
(* it creates is right only because of how far the caches can lag behind.  *)
(* The argument: a stage is reported as successful only when its objects   *)
(* have shown in the cache (Shown); the webhook accepts an edit only when  *)
(* both stages have; so as long as an object of the cached generation has  *)
(* not shown, the stored plan still has the release and the suffix of the  *)
(* cached one (InStep). Objects are created in order, each after those     *)
(* before it have shown, so at most one has not.                           *)
(***************************************************************************)
EXTENDS UpgradeRefinement_proofs, FiniteSetTheorems

\* The objects of the two stages for the release and the suffix of p.
OSObjects(p) ==
    {OSObject("secret", p), OSObject("osControlPlane", p)}
        \cup (IF controlPlaneOnlyCluster THEN {} ELSE {OSObject("osWorker", p)})
K8sObjects(p) ==
    {K8sObject("k8sControlPlane", p)}
        \cup (IF controlPlaneOnlyCluster THEN {} ELSE {K8sObject("k8sWorker", p)})
OwnObjects(p) == OSObjects(p) \cup K8sObjects(p)

\* The status of p belongs to its spec, and p is not being deleted.
Observed(p) == p.life = "live" /\ p.obs = p.gen

\* A plan that has a suffix has conditions, and a stage that has succeeded has
\* all its objects in the cache s.
Shown(p, s) ==
    /\ p.sfx # NoSuffix => p.cond["OS"] # "None" /\ p.cond["K8s"] # "None"
    /\ Observed(p) =>
         /\ p.sfx # NoSuffix
         /\ p.cond["OS"] = "Succeeded" => OSObjects(p) \subseteq s
         /\ p.cond["K8s"] = "Succeeded" => K8sObjects(p) \subseteq s

\* The status update w of p keeps the names of the objects, unless it begins a
\* generation.
KeepsNames(p, w) ==
    /\ w.fin = p.fin
    /\ p.obs = p.gen => w.sfx = p.sfx /\ w.obs = p.obs /\ w.gen = p.gen

\* The stored plan q is no further than the cached one, c, as far as the objects
\* are concerned, or these are all in the cache s.
InStep(c, q, s) ==
    \/ OwnObjects(c) \subseteq s
    \/ /\ q.rel = c.rel /\ q.sfx = c.sfx /\ q.sfx # NoSuffix
       /\ q.life = "live" => q.obs = q.gen
       /\ q.cond["OS"] = "Succeeded" => OSObjects(c) \subseteq s
       /\ q.cond["K8s"] = "Succeeded" => K8sObjects(c) \subseteq s

\* The objects of its stage that come before o are in the cache s.
After(o, s) ==
    /\ o.kind \in OSKind => [o EXCEPT !.kind = "secret"] \in s
    /\ o.kind = "osWorker" => [o EXCEPT !.kind = "osControlPlane"] \in s
    /\ o.kind = "k8sWorker" => [o EXCEPT !.kind = "k8sControlPlane"] \in s

\* The life of the plan, of its finalizer and of its cached copy.
LivesInv ==
    /\ cache.life = "live" => plan.life # "absent"
    /\ cache.life = "deleting" => plan.life \in {"deleting", "gone"}
    /\ cache.life = "gone" => plan.life = "gone"
    /\ cache.life = "live" /\ cache.fin => plan.life \in {"live", "deleting"} /\ plan.fin
    /\ pc \in {"deletePlans", "deleteSecrets"} => cache.life \in {"deleting", "gone"}
    /\ pc = "commit" => KeepsNames(base, work)
    /\ cache.life = "absent" => objs = {}
    /\ objs # {} /\ Exists(plan) => plan.fin

\* Objects and their names.
NamesInv ==
    /\ cache.life \in {"absent", "live"} \/ pc = "commit" => seen \subseteq objs
    /\ Shown(plan, seen) /\ Shown(cache, seen)
    /\ pc = "commit" => Shown(work, seen)
    /\ Observed(cache) => InStep(cache, plan, seen)
    /\ cache.life = "live" => \A o \in objs : After(o, seen)
    /\ cache.life = "live" =>
         \A o \in objs \ seen :
            /\ Observed(cache) /\ o \in OwnObjects(cache)
            /\ o \in K8sObjects(cache) => OSObjects(cache) \subseteq seen
    /\ \A x, y \in objs \ seen : x = y

\* What the deletion loop leaves behind.
Leftover == {o \in objs : IF IsSecret(o) THEN o \notin seen ELSE o \notin todo}

DeleteInv ==
    /\ pc = "deletePlans" => \A x, y \in Leftover : x = y
    /\ pc = "deleteSecrets" => \A x, y \in objs \ todo : x = y
    /\ plan.life = "gone" => \A x, y \in objs : x = y

\* The inductive invariant.
ObjectInv == RefinementInv /\ LivesInv /\ NamesInv /\ DeleteInv
-----------------------------------------------------------------------------
(***************************************************************************)
(* What reconcileNormal creates.                                           *)
(***************************************************************************)

\* The names of the objects depend on the release and on the suffix only.
LEMMA SameNames ==
  ASSUME NEW p, NEW w, w.rel = p.rel, w.sfx = p.sfx
  PROVE  OSObjects(w) = OSObjects(p) /\ K8sObjects(w) = K8sObjects(p) /\ OwnObjects(w) = OwnObjects(p)
  BY DEF OSObjects, K8sObjects, OwnObjects, OSObject, K8sObject

\* The empty plan has no stage that has succeeded.
LEMMA NoPlanShown == ASSUME NEW s PROVE Shown(NoPlan, s)
  BY DEF Shown, NoPlan, Observed

\* What has shown stays in a cache that grows.
LEMMA ShownGrows ==
  ASSUME NEW p, NEW s, NEW t, s \subseteq t, Shown(p, s)
  PROVE  Shown(p, t)
  BY DEF Shown

\* Object o is next for the plan p: the stages before its own are complete and
\* the objects of its stage that come before it have shown.
NextObject(p, o) ==
    /\ Observed(p) /\ findUnsupportedNodes(p.rel) = {} /\ p.rel \in Release
    /\ o \in OwnObjects(p) /\ o \notin seen
    /\ After(o, seen)
    /\ o \in K8sObjects(p) => OSObjects(p) \subseteq seen

\* reconcileOS creates the next object, or none.
LEMMA ReconcileOSCreates ==
  ASSUME NEW p \in PlanObject, p.rel \in Release, Observed(p), findUnsupportedNodes(p.rel) = {},
         reconcileOS(p)
  PROVE  \/ UNCHANGED objs
         \/ \E o : NextObject(p, o) /\ objs' \in {objs, objs \cup {o}}
  <1> DEFINE secret == OSObject("secret", p)
             cpPlan == OSObject("osControlPlane", p)
             wkPlan == OSObject("osWorker", p)
  <1>1. ASSUME NEW o, NEW w, createObject(o, w)
        PROVE  o \notin seen /\ objs' \in {objs, objs \cup {o}}
    BY <1>1 DEF createObject, Found
  <1>2. CASE \E w, res : Report(w, res)
    BY <1>2 DEF Report, clusterVars, sucVars
  <1>3. CASE \E w : createObject(secret, w)
    <2>1. secret \in OSObjects(p) /\ secret \notin K8sObjects(p) /\ After(secret, seen)
      BY DEF OSObjects, K8sObjects, OSObject, K8sObject, After, OSKind
    <2>2. QED
      BY <1>1, <1>3, <2>1 DEF NextObject, OwnObjects
  <1>4. CASE secret \in seen /\ \E w : createObject(cpPlan, w)
    <2>1. [cpPlan EXCEPT !.kind = "secret"] = secret
      BY DEF OSObject
    <2>2. cpPlan \in OSObjects(p) /\ cpPlan \notin K8sObjects(p) /\ After(cpPlan, seen)
      BY <1>4, <2>1 DEF OSObjects, K8sObjects, OSObject, K8sObject, After, OSKind
    <2>3. QED
      BY <1>1, <1>4, <2>2 DEF NextObject, OwnObjects
  <1>5. CASE /\ secret \in seen /\ cpPlan \in seen /\ ~controlPlaneOnlyCluster
             /\ \E w : createObject(wkPlan, w)
    <2>1. [wkPlan EXCEPT !.kind = "secret"] = secret /\ [wkPlan EXCEPT !.kind = "osControlPlane"] = cpPlan
      BY DEF OSObject
    <2>2. wkPlan \in OSObjects(p) /\ wkPlan \notin K8sObjects(p) /\ After(wkPlan, seen)
      BY <1>5, <2>1 DEF OSObjects, K8sObjects, OSObject, K8sObject, After, OSKind
    <2>3. QED
      BY <1>1, <1>5, <2>2 DEF NextObject, OwnObjects
  <1>6. QED
    BY <1>2, <1>3, <1>4, <1>5 DEF reconcileOS, Found

\* So does reconcileKubernetes.
LEMMA ReconcileKubernetesCreates ==
  ASSUME NEW p \in PlanObject, p.rel \in Release, Observed(p), findUnsupportedNodes(p.rel) = {},
         OSObjects(p) \subseteq seen, reconcileKubernetes(p)
  PROVE  \/ UNCHANGED objs
         \/ \E o : NextObject(p, o) /\ objs' \in {objs, objs \cup {o}}
  <1> DEFINE cpPlan == K8sObject("k8sControlPlane", p)
             wkPlan == K8sObject("k8sWorker", p)
  <1>1. ASSUME NEW o, NEW w, createObject(o, w)
        PROVE  o \notin seen /\ objs' \in {objs, objs \cup {o}}
    BY <1>1 DEF createObject, Found
  <1>2. CASE \E w, res : Report(w, res)
    BY <1>2 DEF Report, clusterVars, sucVars
  <1>3. CASE \E w : createObject(cpPlan, w)
    <2>1. cpPlan \in K8sObjects(p) /\ cpPlan \notin OSObjects(p) /\ After(cpPlan, seen)
      BY DEF OSObjects, K8sObjects, OSObject, K8sObject, After, OSKind
    <2>2. QED
      BY <1>1, <1>3, <2>1 DEF NextObject, OwnObjects
  <1>4. CASE cpPlan \in seen /\ ~controlPlaneOnlyCluster /\ \E w : createObject(wkPlan, w)
    <2>1. [wkPlan EXCEPT !.kind = "k8sControlPlane"] = cpPlan
      BY DEF K8sObject
    <2>2. wkPlan \in K8sObjects(p) /\ wkPlan \notin OSObjects(p) /\ After(wkPlan, seen)
      BY <1>4, <2>1 DEF OSObjects, K8sObjects, OSObject, K8sObject, After, OSKind
    <2>3. QED
      BY <1>1, <1>4, <2>2 DEF NextObject, OwnObjects
  <1>5. QED
    BY <1>2, <1>3, <1>4 DEF reconcileKubernetes, Found

\* A status that keeps the names and the conditions of the stages shows as much.
LEMMA ShownSame ==
  ASSUME NEW p, NEW w, NEW s, Shown(p, s), w.rel = p.rel, w.sfx = p.sfx, w.life = p.life,
         w.obs = p.obs, w.gen = p.gen, w.fin = p.fin,
         w.cond["OS"] = p.cond["OS"], w.cond["K8s"] = p.cond["K8s"]
  PROVE  Shown(w, s) /\ KeepsNames(p, w)
  BY SameNames DEF Shown, Observed, KeepsNames

\* Setting the condition of a stage shows as much, if its objects have shown
\* when it is set to Succeeded.
LEMMA ShownStage ==
  ASSUME NEW p, NEW w, NEW s, NEW t \in {"OS", "K8s"}, NEW x \in {"InProgress", "Succeeded"},
         Shown(p, s), Sets(p, w, t, x), Observed(p),
         x = "Succeeded" => (IF t = "OS" THEN OSObjects(p) ELSE K8sObjects(p)) \subseteq s
  PROVE  Shown(w, s) /\ KeepsNames(p, w)
  <1>1. /\ w.rel = p.rel /\ w.sfx = p.sfx /\ w.life = p.life /\ w.obs = p.obs /\ w.gen = p.gen
        /\ w.fin = p.fin
        /\ w.cond["OS"] = IF t = "OS" THEN x ELSE p.cond["OS"]
        /\ w.cond["K8s"] = IF t = "K8s" THEN x ELSE p.cond["K8s"]
    BY DEF Sets, ConditionType
  <1>2. OSObjects(w) = OSObjects(p) /\ K8sObjects(w) = K8sObjects(p)
    BY <1>1, SameNames
  <1>3. QED
    BY <1>1, <1>2 DEF Shown, Observed, KeepsNames

\* Every way through reconcileNormal returns a status that claims a stage only
\* when its objects have shown, and creates the next object or none.
LEMMA ReconcileNormalCreates ==
  ASSUME TypeOK, WellFormed(cache), cache.life = "live", Shown(cache, seen), reconcileNormal(cache)
  PROVE  /\ \E w : (\E res : Return(w, res)) /\ Shown(w, seen) /\ KeepsNames(cache, w)
         /\ UNCHANGED seen
         /\ \/ UNCHANGED objs
            \/ \E o : NextObject(cache, o) /\ objs' \in {objs, objs \cup {o}}
  <1> DEFINE p == cache
             Good(w) == Shown(w, seen) /\ KeepsNames(p, w)
             Created == \/ UNCHANGED objs
                        \/ \E o : NextObject(p, o) /\ objs' \in {objs, objs \cup {o}}
             Returned == \E w : (\E res : Return(w, res)) /\ Good(w)
  <1>0. p \in PlanObject /\ p.rel \in Release /\ Good(p)
    BY ShownSame DEF TypeOK, WellFormed
  <1>1. CASE createReleaseManifest(p) \/ ReconcileError(p)
    <2>1. Returned
      BY <1>0, <1>1 DEF createReleaseManifest, ReconcileError
    <2>2. UNCHANGED <<seen, objs>>
      BY <1>1 DEF createReleaseManifest, ReconcileError, clusterVars, sucVars
    <2>3. QED
      BY <2>1, <2>2
  <1>2. ASSUME NEW w, NEW res, Report(w, res), Good(w)
        PROVE  Returned /\ UNCHANGED <<seen, objs>>
    BY <1>2 DEF Report, clusterVars, sucVars
  <1>3. CASE rejectUnsupportedNodes(p)
    <2> DEFINE w == [p EXCEPT !.invalid = TRUE]
    <2>1. /\ w.rel = p.rel /\ w.sfx = p.sfx /\ w.life = p.life /\ w.obs = p.obs
          /\ w.gen = p.gen /\ w.fin = p.fin /\ w.cond = p.cond
      BY <1>0 DEF PlanObject
    <2>2. Good(w)
      BY <2>1, ShownSame
    <2>3. QED
      BY <1>2, <1>3, <2>2 DEF rejectUnsupportedNodes
  <1>4. CASE observeGeneration(p)
    <2>1. PICK s \in Suffix :
             \/ Report(p, "requeue")
             \/ Report(setPendingConditions([p EXCEPT !.sfx = s, !.obs = p.gen],
                                            PendingConditions(p.rel)), "requeue")
      BY <1>4 DEF observeGeneration
    <2> DEFINE w == setPendingConditions([p EXCEPT !.sfx = s, !.obs = p.gen],
                                         PendingConditions(p.rel))
    <2>2. {"OS", "K8s"} \subseteq PendingConditions(p.rel)
      BY DEF PendingConditions
    <2>3. w.cond["OS"] = "Pending" /\ w.cond["K8s"] = "Pending"
      BY <1>0, <2>2, PendingType
    <2>4. w.fin = p.fin /\ w.sfx = s
      BY <1>0 DEF setPendingConditions, PlanObject
    <2>5. p.obs # p.gen /\ s # NoSuffix
      BY <1>4, SuffixAssumption DEF observeGeneration
    <2> HIDE DEF w
    <2>6. Good(w)
      BY <2>3, <2>4, <2>5 DEF Shown, KeepsNames
    <2>7. QED
      BY <1>0, <1>2, <2>1, <2>6 DEF w
  <1>5. CASE /\ p.obs = p.gen /\ findUnsupportedNodes(p.rel) = {}
             /\ ~OSUpgraded(p) /\ reconcileOS(p)
    <2>1. Observed(p) /\ Created
      BY <1>0, <1>5, ReconcileOSCreates DEF Observed
    <2>2. "OS" \in ConditionType
      BY DEF ConditionType
    <2>3. Good(setInProgressCondition(p, "OS"))
      BY <1>0, <2>1, <2>2, SettersSet, ShownStage
    <2>4. OSObjects(p) \subseteq seen => Good(setSuccessfulCondition(p, "OS"))
      BY <1>0, <2>1, <2>2, SettersSet, ShownStage
    <2>5. UNCHANGED seen
      BY <1>5 DEF reconcileOS, createObject, Report
    <2>6. \/ \E res : Return(p, res)
          \/ \E res : Return(setInProgressCondition(p, "OS"), res)
          \/ OSObjects(p) \subseteq seen /\ \E res : Return(setSuccessfulCondition(p, "OS"), res)
      BY <1>5 DEF reconcileOS, createObject, Report, Found, OSObjects
    <2>7. QED
      BY <1>0, <2>1, <2>3, <2>4, <2>5, <2>6
  <1>6. CASE /\ p.obs = p.gen /\ findUnsupportedNodes(p.rel) = {}
             /\ OSUpgraded(p) /\ reconcileKubernetes(p)
    <2>1. Observed(p) /\ OSObjects(p) \subseteq seen
      BY <1>0, <1>6 DEF Observed, Shown, OSUpgraded, IsStatusConditionTrue
    <2>2. Created
      BY <1>0, <1>6, <2>1, ReconcileKubernetesCreates
    <2>3. "K8s" \in ConditionType
      BY DEF ConditionType
    <2>4. Good(setInProgressCondition(p, "K8s"))
      BY <1>0, <2>1, <2>3, SettersSet, ShownStage
    <2>5. K8sObjects(p) \subseteq seen => Good(setSuccessfulCondition(p, "K8s"))
      BY <1>0, <2>1, <2>3, SettersSet, ShownStage
    <2>6. UNCHANGED seen
      BY <1>6 DEF reconcileKubernetes, createObject, Report
    <2>7. \/ \E res : Return(setInProgressCondition(p, "K8s"), res)
          \/ K8sObjects(p) \subseteq seen /\ \E res : Return(setSuccessfulCondition(p, "K8s"), res)
      BY <1>6 DEF reconcileKubernetes, createObject, Report, Found, K8sObjects
    <2>8. QED
      BY <2>2, <2>4, <2>5, <2>6, <2>7
  <1>7. CASE reconcileWorkloads(p)
    <2>1. UNCHANGED <<seen, objs>>
      BY <1>7 DEF reconcileWorkloads, reconcileHelmChart, jobNameMissing, writeHelmChart, Report,
                  clusterVars, sucVars
    <2>2. ASSUME NEW i \in DOMAIN Workloads[p.rel], reconcileHelmChart(p, Workloads[p.rel][i])
          PROVE  Returned
      <3>1. /\ Workloads[p.rel][i] \in Chart /\ "OS" \in ConditionType /\ "K8s" \in ConditionType
            /\ Workloads[p.rel][i] # "OS" /\ Workloads[p.rel][i] # "K8s"
        BY <1>0, ComponentTypes
      <3>2. PICK w : /\ \E res : Return(w, res)
                     /\ w = p \/ \E x : Sets(p, w, Workloads[p.rel][i], x)
        BY <1>0, <2>2, <3>1, ReconcileHelmChartSets
      <3>3. Good(w)
        BY <1>0, <3>1, <3>2, ShownSame DEF Sets
      <3>4. QED
        BY <3>2, <3>3
    <2>3. CASE Report([p EXCEPT !.last = p.rel], "done")
      <3> DEFINE w == [p EXCEPT !.last = p.rel]
      <3>1. /\ w.rel = p.rel /\ w.sfx = p.sfx /\ w.life = p.life /\ w.obs = p.obs
            /\ w.gen = p.gen /\ w.fin = p.fin /\ w.cond = p.cond
        BY <1>0 DEF PlanObject
      <3>2. Good(w)
        BY <3>1, ShownSame
      <3>3. QED
        BY <1>2, <2>3, <3>2
    <2>4. QED
      BY <1>7, <2>1, <2>2, <2>3 DEF reconcileWorkloads
  <1>8. QED
    BY <1>1, <1>3, <1>4, <1>5, <1>6, <1>7 DEF reconcileNormal
-----------------------------------------------------------------------------
(***************************************************************************)
(* The steps.                                                              *)
(***************************************************************************)

\* The parts of the invariant after a step, over the values after it.
LEMMA ObjectPrimed ==
  /\ Shown(plan, seen)' = Shown(plan', seen')
  /\ Shown(cache, seen)' = Shown(cache', seen')
  /\ Shown(work, seen)' = Shown(work', seen')
  /\ Observed(cache)' = Observed(cache')
  /\ InStep(cache, plan, seen)' = InStep(cache', plan', seen')
  /\ KeepsNames(base, work)' = KeepsNames(base', work')
  /\ Exists(plan)' = Exists(plan')
  /\ OwnObjects(cache)' = OwnObjects(cache') /\ K8sObjects(cache)' = K8sObjects(cache')
  /\ OSObjects(cache)' = OSObjects(cache')
  /\ \A o : After(o, seen)' = After(o, seen')
  BY DEF Shown, Observed, InStep, KeepsNames, Exists, OwnObjects, OSObjects, K8sObjects, After,
         OSObject, K8sObject, controlPlaneOnlyCluster

\* A step of something else than the reconciler and its caches changes nothing
\* but what is in the object cache: an object that exists shows, or one that has
\* been deleted disappears.
LEMMA CacheStepObjects ==
  ASSUME ObjectInv, UNCHANGED <<plan, cache, base, work, pc, objs, todo>>,
         \/ seen \subseteq seen' /\ seen' \subseteq seen \cup objs
         \/ \E o \in seen \ objs : seen' = seen \ {o}
  PROVE  LivesInv' /\ NamesInv' /\ DeleteInv'
  <1>1. LivesInv /\ NamesInv /\ DeleteInv /\ pc \in {"idle", "commit", "deletePlans", "deleteSecrets"}
    BY DEF ObjectInv, RefinementInv, StageInv, TypeOK
  <1>2. LivesInv'
    BY <1>1, ObjectPrimed DEF LivesInv
  <1>3. objs \ seen' \subseteq objs \ seen
    OBVIOUS
  <1>4. DeleteInv'
    BY <1>1, <1>3 DEF DeleteInv, Leftover, IsSecret
  <1>5. CASE seen \subseteq seen' /\ seen' \subseteq seen \cup objs
    <2>1. Shown(plan, seen') /\ Shown(cache, seen') /\ (pc = "commit" => Shown(work, seen'))
      BY <1>1, <1>5, ShownGrows DEF NamesInv
    <2>2. Observed(cache) => InStep(cache, plan, seen')
      BY <1>1, <1>5 DEF NamesInv, InStep
    <2>3. cache.life = "live" => \A o \in objs : After(o, seen')
      BY <1>1, <1>5 DEF NamesInv, After
    <2>4. QED
      BY <1>1, <1>2, <1>3, <1>4, <1>5, <2>1, <2>2, <2>3, ObjectPrimed DEF NamesInv
  <1>6. CASE \E o \in seen \ objs : seen' = seen \ {o}
    <2>1. cache.life \notin {"absent", "live"} /\ pc # "commit"
      BY <1>1, <1>6 DEF NamesInv
    <2>2. cache \in PlanObject /\ plan \in PlanObject
      BY DEF ObjectInv, RefinementInv, StageInv, TypeOK
    <2>3. plan.life # "live"
      BY <1>1, <2>1, <2>2 DEF LivesInv, PlanObject
    <2>4. ~Observed(cache) /\ ~Observed(plan)
      BY <2>1, <2>3 DEF Observed
    <2>5. Shown(plan, seen') /\ Shown(cache, seen')
      BY <1>1, <2>4 DEF NamesInv, Shown
    <2>6. QED
      BY <1>1, <1>2, <1>3, <1>4, <2>1, <2>4, <2>5, ObjectPrimed DEF NamesInv
  <1>7. QED
    BY <1>5, <1>6

\* The cached plan is brought up to date. It is the stored one, so nothing that
\* has not shown can belong to another generation.
LEMMA SyncPlanObjects ==
  ASSUME ObjectInv, cache' = plan, UNCHANGED <<plan, seen, objs>>,
         UNCHANGED <<base, work, pc, todo>> \/ pc' = "idle"
  PROVE  LivesInv' /\ NamesInv' /\ DeleteInv'
  <1>0. /\ LivesInv /\ NamesInv /\ DeleteInv
        /\ cache \in PlanObject /\ plan \in PlanObject
    BY DEF ObjectInv, RefinementInv, StageInv, TypeOK
  <1>1. cache.life \in {"absent", "live", "deleting", "gone"}
    BY <1>0 DEF PlanObject
  <1>2. LivesInv'
    <2>1. plan.life = "absent" => objs = {}
      BY <1>0, <1>1 DEF LivesInv
    <2>2. pc \in {"deletePlans", "deleteSecrets"} => plan.life \in {"deleting", "gone"}
      BY <1>0 DEF LivesInv
    <2>3. plan.life = "live" /\ plan.fin => plan.life \in {"live", "deleting"} /\ plan.fin
      OBVIOUS
    <2>4. QED
      BY <1>0, <2>1, <2>2, <2>3, ObjectPrimed DEF LivesInv
  <1>3. plan.life \in {"absent", "live"} => cache.life \in {"absent", "live"}
    BY <1>0, <1>1 DEF LivesInv
  <1>4. Observed(plan) => InStep(plan, plan, seen)
    BY <1>0 DEF NamesInv, Shown, InStep, Observed
  <1>5. plan.life = "live" => \A o \in objs : After(o, seen)
    BY <1>0, <1>3 DEF NamesInv, LivesInv
  <1>6. ASSUME plan.life = "live", NEW o \in objs \ seen
        PROVE  /\ Observed(plan) /\ o \in OwnObjects(plan)
               /\ o \in K8sObjects(plan) => OSObjects(plan) \subseteq seen
    <2>1. cache.life = "live"
      BY <1>0, <1>3, <1>6 DEF LivesInv
    <2>2. /\ Observed(cache) /\ o \in OwnObjects(cache)
          /\ o \in K8sObjects(cache) => OSObjects(cache) \subseteq seen
      BY <1>0, <2>1 DEF NamesInv
    <2>3. plan.rel = cache.rel /\ plan.sfx = cache.sfx /\ plan.obs = plan.gen
      BY <1>0, <1>6, <2>2 DEF NamesInv, InStep
    <2>4. QED
      BY <1>6, <2>2, <2>3, SameNames DEF Observed
  <1>7. NamesInv'
    BY <1>0, <1>3, <1>4, <1>5, <1>6, ObjectPrimed DEF NamesInv
  <1>8. DeleteInv'
    BY <1>0 DEF DeleteInv, Leftover, IsSecret
  <1>9. QED
    BY <1>2, <1>7, <1>8

\* A restart fills the caches anew.
LEMMA RestartObjects ==
  ASSUME ObjectInv, Restart
  PROVE  LivesInv' /\ NamesInv' /\ DeleteInv'
  <1>0. /\ LivesInv /\ NamesInv /\ DeleteInv
        /\ cache \in PlanObject /\ plan \in PlanObject
    BY DEF ObjectInv, RefinementInv, StageInv, TypeOK
  <1>1. /\ cache' = plan /\ seen' = objs /\ pc' = "idle" /\ UNCHANGED <<plan, objs>>
    BY DEF Restart, clusterVars, sucVars
  <1>2. cache.life \in {"absent", "live", "deleting", "gone"}
    BY <1>0 DEF PlanObject
  <1>3. LivesInv'
    BY <1>0, <1>1, <1>2, ObjectPrimed DEF LivesInv
  <1>4. Shown(plan, objs)
    <2>1. CASE Observed(plan)
      <3>1. seen \subseteq objs
        BY <1>0, <1>2, <2>1 DEF Observed, LivesInv, NamesInv
      <3>2. QED
        BY <1>0, <3>1, ShownGrows DEF NamesInv
    <2>2. CASE ~Observed(plan)
      BY <1>0, <2>2 DEF NamesInv, Shown
    <2>3. QED
      BY <2>1, <2>2
  <1>5. Observed(plan) => InStep(plan, plan, objs)
    BY <1>4 DEF Shown, InStep, Observed
  <1>6. plan.life = "live" => \A o \in objs : After(o, objs)
    <2>1. plan.life = "live" /\ objs # {} => cache.life = "live" /\ seen \subseteq objs
      BY <1>0, <1>2 DEF LivesInv, NamesInv
    <2>2. QED
      BY <1>0, <2>1 DEF NamesInv, After
  <1>7. NamesInv'
    BY <1>1, <1>4, <1>5, <1>6, ObjectPrimed DEF NamesInv
  <1>8. DeleteInv'
    BY <1>0, <1>1 DEF DeleteInv, Leftover
  <1>9. QED
    BY <1>3, <1>7, <1>8

\* An accepted edit of a plan that has a suffix: both stages have succeeded.
LEMMA EditedAfterStages ==
  ASSUME ObjectInv, NEW r \in Release \cup {0}, EditPlan(r), plan.sfx # NoSuffix
  PROVE  plan.cond["OS"] = "Succeeded" /\ plan.cond["K8s"] = "Succeeded"
  <1> DEFINE new == [plan EXCEPT !.rel = r, !.gen = @ + 1]
  <1>0. plan \in PlanObject /\ WellFormed(plan) /\ Shown(plan, seen)
    BY DEF ObjectInv, RefinementInv, StageInv, StatusInv, TypeOK, NamesInv
  <1>1. new.cond = plan.cond /\ new.fin = plan.fin
    BY <1>0 DEF PlanObject
  <1>2. ValidateUpdate(plan, new)
    BY DEF EditPlan
  <1> HIDE DEF new
  <1>3. \A t \in ConditionType : plan.cond[t] \notin {"InProgress", "Pending", "Error"}
    BY <1>1, <1>2 DEF ValidateUpdate, FinalizerRemoved, DisallowingUpdateStates
  <1>4. QED
    BY <1>0, <1>3 DEF Shown, WellFormed, ConditionType

\* Users.
LEMMA UserObjects ==
  ASSUME ObjectInv, User
  PROVE  LivesInv' /\ NamesInv' /\ DeleteInv'
  <1>0. /\ LivesInv /\ NamesInv /\ DeleteInv /\ WellFormed(plan)
        /\ plan \in PlanObject /\ cache \in PlanObject
    BY DEF ObjectInv, RefinementInv, StageInv, StatusInv, TypeOK
  <1>1. UNCHANGED <<cache, base, work, pc, seen, objs, todo>>
    BY DEF User, DeletePlan, CreatePlan, EditPlan, localVars, clusterVars, sucVars
  <1>2. /\ cache.life \in {"absent", "live", "deleting", "gone"}
        /\ plan.life \in {"absent", "live", "deleting", "gone"}
        /\ plan.obs \in Nat /\ plan.gen \in Nat /\ plan.obs <= plan.gen
    BY <1>0 DEF PlanObject, WellFormed
  <1>3. ASSUME LivesInv', Shown(plan', seen), Observed(cache) => InStep(cache, plan', seen),
               plan'.life = "gone" => objs = {} \/ plan.life = "gone"
        PROVE  LivesInv' /\ NamesInv' /\ DeleteInv'
    <2>1. NamesInv'
      BY <1>0, <1>1, <1>3, ObjectPrimed DEF NamesInv
    <2>2. DeleteInv'
      BY <1>0, <1>1, <1>3 DEF DeleteInv, Leftover, IsSecret
    <2>3. QED
      BY <1>3, <2>1, <2>2
  <1>4. CASE DeletePlan
    <2>1. /\ plan'.rel = plan.rel /\ plan'.obs = plan.obs /\ plan'.sfx = plan.sfx
          /\ plan'.cond = plan.cond /\ plan'.fin = plan.fin /\ plan.life = "live"
          /\ IF plan.fin THEN plan'.life = "deleting" ELSE plan'.life = "gone"
      BY <1>0, <1>4 DEF DeletePlan, PlanObject
    <2>2. ~plan.fin => objs = {}
      BY <1>0, <2>1 DEF LivesInv, Exists
    <2>3. LivesInv'
      BY <1>0, <1>1, <1>2, <2>1, <2>2, ObjectPrimed DEF LivesInv, Exists
    <2>4. Shown(plan', seen)
      BY <1>0, <2>1 DEF NamesInv, Shown, Observed
    <2>5. Observed(cache) => InStep(cache, plan', seen)
      BY <1>0, <2>1 DEF NamesInv, InStep
    <2>6. QED
      BY <1>3, <2>1, <2>2, <2>3, <2>4, <2>5
  <1>5. ASSUME NEW r \in Release \cup {0}, CreatePlan(r)
        PROVE  LivesInv' /\ NamesInv' /\ DeleteInv'
    <2>1. plan.life = "absent" /\ plan'.life = "live" /\ plan'.sfx = NoSuffix /\ plan'.obs # plan'.gen
      BY <1>5 DEF CreatePlan, NoPlan
    <2>2. cache.life = "absent" /\ objs = {}
      BY <1>0, <1>2, <2>1 DEF LivesInv
    <2>3. pc \notin {"deletePlans", "deleteSecrets"}
      BY <1>0, <2>2 DEF LivesInv
    <2>4. LivesInv'
      BY <1>0, <1>1, <2>1, <2>2, <2>3, ObjectPrimed DEF LivesInv
    <2>5. Shown(plan', seen) /\ ~Observed(cache)
      BY <2>1, <2>2 DEF Shown, Observed
    <2>6. QED
      BY <1>3, <2>1, <2>4, <2>5
  <1>6. ASSUME NEW r \in Release \cup {0}, EditPlan(r)
        PROVE  LivesInv' /\ NamesInv' /\ DeleteInv'
    <2>1. /\ plan'.life = plan.life /\ plan'.obs = plan.obs /\ plan'.gen = plan.gen + 1
          /\ plan'.sfx = plan.sfx /\ plan'.cond = plan.cond /\ plan'.fin = plan.fin
      BY <1>0, <1>6 DEF EditPlan, PlanObject
    <2>2. LivesInv'
      BY <1>0, <1>1, <2>1, ObjectPrimed DEF LivesInv, Exists
    <2>3. ~Observed(plan')
      BY <1>2, <2>1 DEF Observed
    <2>4. Shown(plan', seen)
      BY <1>0, <2>1, <2>3 DEF NamesInv, Shown
    <2>5. ASSUME Observed(cache)
          PROVE  OwnObjects(cache) \subseteq seen
      BY <1>0, <1>6, <2>5, EditedAfterStages DEF NamesInv, InStep, OwnObjects
    <2>6. QED
      BY <1>3, <2>1, <2>2, <2>4, <2>5 DEF InStep
  <1>7. QED
    BY <1>4, <1>5, <1>6 DEF User

\* The next object of a generation and one that has not shown are the same.
LEMMA NextObjectUnique ==
  ASSUME ObjectInv, cache.life = "live", NEW o, NextObject(cache, o), NEW x \in objs \ seen
  PROVE  x = o
  <1>1. /\ x \in OwnObjects(cache) /\ After(x, seen)
        /\ x \in K8sObjects(cache) => OSObjects(cache) \subseteq seen
    BY DEF ObjectInv, NamesInv
  <1>2. /\ o \in OwnObjects(cache) /\ After(o, seen) /\ o \notin seen
        /\ o \in K8sObjects(cache) => OSObjects(cache) \subseteq seen
    BY DEF NextObject
  <1>3. CASE x \in OSObjects(cache) /\ o \in OSObjects(cache)
    <2> DEFINE obj(k) == OSObject(k, cache)
    <2>1. /\ x \in {obj("secret"), obj("osControlPlane"), obj("osWorker")}
          /\ o \in {obj("secret"), obj("osControlPlane"), obj("osWorker")}
      BY <1>3 DEF OSObjects
    <2>2. \A y \in {obj("osControlPlane"), obj("osWorker")} :
             After(y, seen) => obj("secret") \in seen
      BY DEF OSObject, After, OSKind
    <2>3. After(obj("osWorker"), seen) => obj("osControlPlane") \in seen
      BY DEF OSObject, After
    <2> HIDE DEF obj
    <2>4. QED
      BY <1>1, <1>2, <2>1, <2>2, <2>3
  <1>4. CASE x \in K8sObjects(cache) /\ o \in K8sObjects(cache)
    <2> DEFINE obj(k) == K8sObject(k, cache)
    <2>1. x \in {obj("k8sControlPlane"), obj("k8sWorker")} /\ o \in {obj("k8sControlPlane"), obj("k8sWorker")}
      BY <1>4 DEF K8sObjects
    <2>2. After(obj("k8sWorker"), seen) => obj("k8sControlPlane") \in seen
      BY DEF K8sObject, After
    <2> HIDE DEF obj
    <2>3. QED
      BY <1>1, <1>2, <2>1, <2>2
  <1>5. QED
    BY <1>1, <1>2, <1>3, <1>4 DEF OwnObjects

\* reconcileNormal.
LEMMA ReconcileNormalObjects ==
  ASSUME ObjectInv, pc = "idle", cache.life = "live", cache.fin, reconcileNormal(cache)
  PROVE  LivesInv' /\ NamesInv' /\ DeleteInv'
  <1>0. LivesInv /\ NamesInv /\ DeleteInv /\ TypeOK /\ WellFormed(cache)
    BY DEF ObjectInv, RefinementInv, StageInv, StatusInv
  <1>1. /\ \E w : (\E res : Return(w, res)) /\ Shown(w, seen) /\ KeepsNames(cache, w)
        /\ UNCHANGED seen
        /\ \/ UNCHANGED objs
           \/ \E o : NextObject(cache, o) /\ objs' \in {objs, objs \cup {o}}
    BY <1>0, ReconcileNormalCreates DEF NamesInv
  <1>2. PICK w : (\E res : Return(w, res)) /\ Shown(w, seen) /\ KeepsNames(cache, w)
    BY <1>1
  <1>3. /\ pc' = "commit" /\ base' = cache /\ work' = w /\ UNCHANGED <<plan, cache, todo, seen>>
    BY <1>1, <1>2 DEF Return
  <1>4. plan.life \in {"live", "deleting"} /\ plan.fin
    BY <1>0 DEF LivesInv
  <1>5. LivesInv'
    BY <1>0, <1>2, <1>3, <1>4, ObjectPrimed DEF LivesInv
  <1>6. DeleteInv'
    BY <1>3, <1>4 DEF DeleteInv
  <1>7. CASE UNCHANGED objs
    <2>1. NamesInv'
      BY <1>0, <1>2, <1>3, <1>7, ObjectPrimed DEF NamesInv
    <2>2. QED
      BY <1>5, <1>6, <2>1
  <1>8. ASSUME NEW o, NextObject(cache, o), objs' = objs \cup {o}
        PROVE  NamesInv'
    <2>1. objs' \ seen' \subseteq {o}
      BY <1>3, <1>8, NextObjectUnique
    <2>2. /\ Observed(cache) /\ o \in OwnObjects(cache) /\ After(o, seen)
          /\ o \in K8sObjects(cache) => OSObjects(cache) \subseteq seen
      BY <1>8 DEF NextObject
    <2>3. QED
      BY <1>0, <1>2, <1>3, <1>8, <2>1, <2>2, ObjectPrimed DEF NamesInv
  <1>9. QED
    BY <1>1, <1>5, <1>6, <1>7, <1>8

\* A deletion reads the object cache, or the finalizer is added, or there is
\* nothing to do.
LEMMA ReconcileObjects ==
  ASSUME ObjectInv, Reconcile
  PROVE  LivesInv' /\ NamesInv' /\ DeleteInv'
  <1>0. /\ LivesInv /\ NamesInv /\ DeleteInv /\ pc = "idle"
        /\ plan \in PlanObject /\ cache \in PlanObject
    BY DEF ObjectInv, RefinementInv, StageInv, TypeOK, Reconcile
  <1>1. CASE UNCHANGED <<plan, cache, seen, localVars, clusterVars>>
    BY <1>1, CacheStepObjects DEF localVars, clusterVars, sucVars
  <1>2. CASE cache.life = "deleting" /\ listPlans(cache)
    <2>1. /\ pc' = "deletePlans" /\ UNCHANGED <<plan, cache, seen, objs>>
          /\ todo' = {o \in seen : ~IsSecret(o)}
      BY <1>2 DEF listPlans, ListedPlans, clusterVars, sucVars
    <2>2. plan.life \in {"deleting", "gone"}
      BY <1>0, <1>2 DEF LivesInv
    <2>3. LivesInv'
      BY <1>0, <1>2, <2>1, ObjectPrimed DEF LivesInv
    <2>4. NamesInv'
      BY <1>0, <1>2, <2>1, ObjectPrimed DEF NamesInv
    <2>5. Leftover' \subseteq objs \ seen
      BY <2>1 DEF Leftover, IsSecret
    <2>6. DeleteInv'
      BY <1>0, <2>1, <2>5 DEF DeleteInv, NamesInv
    <2>7. QED
      BY <2>3, <2>4, <2>6
  <1>3. CASE cache.life = "live" /\ AddFinalizer(cache)
    <2>1. /\ UNCHANGED <<cache, base, work, pc, seen, objs, todo>>
          /\ plan' = plan \/ (cache = plan /\ plan' = [plan EXCEPT !.fin = TRUE])
      BY <1>3 DEF AddFinalizer, localVars, clusterVars, sucVars
    <2>2. CASE plan' = plan
      BY <2>1, <2>2, CacheStepObjects
    <2>3. CASE cache = plan /\ plan' = [plan EXCEPT !.fin = TRUE]
      <3>1. /\ plan'.life = plan.life /\ plan'.rel = plan.rel /\ plan'.sfx = plan.sfx
            /\ plan'.obs = plan.obs /\ plan'.gen = plan.gen /\ plan'.cond = plan.cond
            /\ plan'.fin = TRUE
        BY <1>0, <2>3 DEF PlanObject
      <3>2. LivesInv'
        BY <1>0, <1>3, <2>1, <2>3, <3>1, ObjectPrimed DEF LivesInv
      <3>3. Shown(plan', seen)
        BY <1>0, <3>1, SameNames DEF NamesInv, Shown, Observed
      <3>4. Observed(cache) => InStep(cache, plan', seen)
        BY <1>0, <3>1 DEF NamesInv, InStep
      <3>5. NamesInv'
        BY <1>0, <2>1, <3>3, <3>4, ObjectPrimed DEF NamesInv
      <3>6. DeleteInv'
        BY <1>0, <1>3, <2>1, <2>3, <3>1 DEF DeleteInv
      <3>7. QED
        BY <3>2, <3>5, <3>6
    <2>4. QED
      BY <2>1, <2>2, <2>3
  <1>4. QED
    BY <1>0, <1>1, <1>2, <1>3, ReconcileNormalObjects DEF Reconcile

\* The status update: the stage it may report has shown its objects.
LEMMA CommitObjects ==
  ASSUME ObjectInv, Commit
  PROVE  LivesInv' /\ NamesInv' /\ DeleteInv'
  <1>0. /\ LivesInv /\ NamesInv /\ DeleteInv /\ StatusInv /\ pc = "commit"
        /\ pc' = "idle" /\ UNCHANGED <<cache, seen, objs>>
    BY DEF ObjectInv, RefinementInv, Commit, Finish, clusterVars, sucVars
  <1>1. plan' = plan \/ (base = plan /\ plan' = work)
    BY DEF Commit
  <1>2. CASE plan' = plan
    <2>1. LivesInv'
      BY <1>0, <1>2, ObjectPrimed DEF LivesInv
    <2>2. NamesInv'
      BY <1>0, <1>2, ObjectPrimed DEF NamesInv
    <2>3. DeleteInv'
      BY <1>0, <1>2 DEF DeleteInv
    <2>4. QED
      BY <2>1, <2>2, <2>3
  <1>3. CASE base = plan /\ plan' = work
    <2>1. /\ plan.life = "live" /\ plan'.life = "live" /\ plan'.rel = plan.rel
          /\ KeepsNames(plan, plan') /\ Shown(plan', seen)
      BY <1>0, <1>3 DEF StatusInv, StatusStep, LivesInv, NamesInv
    <2>2. LivesInv'
      BY <1>0, <2>1, ObjectPrimed DEF LivesInv, KeepsNames, Exists
    <2>3. ASSUME Observed(cache)
          PROVE  InStep(cache, plan', seen)
      <3>1. CASE OwnObjects(cache) \subseteq seen
        BY <3>1 DEF InStep
      <3>2. CASE ~(OwnObjects(cache) \subseteq seen)
        <4>1. /\ plan'.rel = cache.rel /\ plan'.sfx = cache.sfx /\ plan'.sfx # NoSuffix
              /\ plan'.obs = plan'.gen
          BY <1>0, <2>1, <2>3, <3>2 DEF NamesInv, InStep, KeepsNames
        <4>2. OSObjects(plan') = OSObjects(cache) /\ K8sObjects(plan') = K8sObjects(cache)
          BY <4>1, SameNames
        <4>3. QED
          BY <2>1, <4>1, <4>2 DEF InStep, Shown, Observed
      <3>3. QED
        BY <3>1, <3>2
    <2>4. NamesInv'
      BY <1>0, <2>1, <2>3, ObjectPrimed DEF NamesInv
    <2>5. DeleteInv'
      BY <1>0, <2>1 DEF DeleteInv
    <2>6. QED
      BY <2>2, <2>4, <2>5
  <1>4. QED
    BY <1>1, <1>2, <1>3

\* While a deletion is under way objects can only disappear.
LEMMA DeletionShrinks ==
  ASSUME ObjectInv, pc \in {"deletePlans", "deleteSecrets"}, pc' # "commit",
         UNCHANGED <<cache, seen>>, objs' \subseteq objs,
         plan' = plan \/ (plan'.life = "gone" /\ plan'.cond = plan.cond /\ plan'.sfx = plan.sfx)
  PROVE  LivesInv' /\ NamesInv'
  <1>0. LivesInv /\ NamesInv /\ cache.life \in {"deleting", "gone"} /\ plan.life \in {"deleting", "gone"}
    BY DEF ObjectInv, LivesInv
  <1>1. plan'.life \in {"deleting", "gone"} /\ (plan.life = "gone" => plan'.life = "gone")
    BY <1>0
  <1>2. ~Observed(cache) /\ ~Observed(plan')
    BY <1>0, <1>1 DEF Observed
  <1>3. Shown(plan', seen)
    BY <1>0, <1>2 DEF NamesInv, Shown
  <1>4. LivesInv'
    BY <1>0, <1>1, ObjectPrimed DEF LivesInv, Exists
  <1>5. NamesInv'
    BY <1>0, <1>2, <1>3, ObjectPrimed DEF NamesInv
  <1>6. QED
    BY <1>4, <1>5

\* The deletion loop.
LEMMA DeletionObjects ==
  ASSUME ObjectInv, deletePlans \/ deleteSecrets \/ RemoveFinalizer
  PROVE  LivesInv' /\ NamesInv' /\ DeleteInv'
  <1>0. /\ DeleteInv /\ StatusInv /\ pc \in {"deletePlans", "deleteSecrets"} /\ UNCHANGED <<cache, seen>>
        /\ plan \in PlanObject
    BY DEF ObjectInv, RefinementInv, StageInv, TypeOK, deletePlans, deleteSecrets, RemoveFinalizer
  <1>1. ASSUME NEW o, o \in todo, deleteListed(o)
        PROVE  \/ pc' = "idle" /\ objs' \subseteq objs
               \/ pc' = pc /\ objs' = objs \ {o} /\ todo' = todo \ {o}
    BY <1>1 DEF deleteListed, Finish, RemoveObject, clusterVars, sucVars
  <1>2. CASE deletePlans
    <2>1. \/ pc' = "idle" /\ objs' \subseteq objs
          \/ \E o : pc' = pc /\ objs' = objs \ {o} /\ todo' = todo \ {o}
          \/ todo = {} /\ pc' = "deleteSecrets" /\ todo' = {o \in seen : IsSecret(o)} /\ UNCHANGED objs
      BY <1>1, <1>2 DEF deletePlans, Finish, clusterVars, sucVars
    <2>2. pc = "deletePlans" /\ UNCHANGED plan
      BY <1>2 DEF deletePlans
    <2>3. LivesInv' /\ NamesInv'
      BY <1>0, <2>1, <2>2, DeletionShrinks
    <2>4. objs' \subseteq objs
      BY <2>1
    <2>5. pc' = "deletePlans" => Leftover' \subseteq Leftover
      BY <1>0, <2>1, <2>2 DEF Leftover, IsSecret
    <2>6. pc' = "deleteSecrets" => objs' \ todo' \subseteq Leftover
      BY <1>0, <2>1, <2>2 DEF Leftover, IsSecret
    <2>7. DeleteInv'
      BY <1>0, <2>2, <2>4, <2>5, <2>6 DEF DeleteInv
    <2>8. QED
      BY <2>3, <2>7
  <1>3. CASE deleteSecrets
    <2>1. \/ pc' = "idle" /\ objs' \subseteq objs
          \/ \E o : pc' = pc /\ objs' = objs \ {o} /\ todo' = todo \ {o}
      BY <1>1, <1>3 DEF deleteSecrets
    <2>2. pc = "deleteSecrets" /\ UNCHANGED plan
      BY <1>3 DEF deleteSecrets
    <2>3. LivesInv' /\ NamesInv'
      BY <1>0, <2>1, <2>2, DeletionShrinks
    <2>4. objs' \subseteq objs /\ (pc' = "deleteSecrets" => objs' \ todo' \subseteq objs \ todo)
      BY <2>1, <2>2
    <2>5. DeleteInv'
      BY <1>0, <2>1, <2>2, <2>4 DEF DeleteInv
    <2>6. QED
      BY <2>3, <2>5
  <1>4. CASE RemoveFinalizer
    <2>1. /\ pc = "deleteSecrets" /\ todo = {} /\ pc' = "idle" /\ UNCHANGED objs
          /\ plan' = plan \/ (base = plan /\ plan' = [[work EXCEPT !.fin = FALSE] EXCEPT !.life = "gone"])
      BY <1>4 DEF RemoveFinalizer, Finish, clusterVars, sucVars
    <2>2. plan' = plan \/ (plan'.life = "gone" /\ plan'.cond = plan.cond /\ plan'.sfx = plan.sfx)
      <3>1. plan' = plan \/ plan' = [[plan EXCEPT !.fin = FALSE] EXCEPT !.life = "gone"]
        BY <1>0, <2>1 DEF StatusInv
      <3>2. [[plan EXCEPT !.fin = FALSE] EXCEPT !.life = "gone"].sfx = plan.sfx
        BY <1>0 DEF PlanObject
      <3>3. [[plan EXCEPT !.fin = FALSE] EXCEPT !.life = "gone"].cond = plan.cond
        BY <1>0 DEF PlanObject
      <3>4. [[plan EXCEPT !.fin = FALSE] EXCEPT !.life = "gone"].life = "gone"
        BY <1>0 DEF PlanObject
      <3>5. QED
        BY <3>1, <3>2, <3>3, <3>4
    <2>3. LivesInv' /\ NamesInv'
      BY <1>0, <2>1, <2>2, DeletionShrinks
    <2>4. DeleteInv'
      BY <1>0, <2>1 DEF DeleteInv
    <2>5. QED
      BY <2>3, <2>4
  <1>5. QED
    BY <1>2, <1>3, <1>4

\* SUC, jobs, informers and timers.
LEMMA OtherObjects ==
  ASSUME ObjectInv, SUCStep \/ JobStep \/ Informer \/ RequeueAfterElapses \/ UNCHANGED vars
  PROVE  LivesInv' /\ NamesInv' /\ DeleteInv'
  <1>1. CASE SUCStep
    <2>1. UNCHANGED <<plan, cache, base, work, pc, objs, todo>>
      BY <1>1 DEF SUCStep, StartNodeJob, UpgradeNode, FinishNodeJob, sucVars, localVars
    <2>2. seen \subseteq seen' /\ seen' \subseteq seen \cup objs
      BY <1>1 DEF SUCStep
    <2>3. QED
      BY <2>1, <2>2, CacheStepObjects
  <1>2. CASE JobStep
    <2>1. UNCHANGED objs
      BY <1>2 DEF JobStep, ManifestJobSucceeds, ManifestJobFails, ManifestJobExpires, RemoveHelmJob,
                  StartHelmJob, HelmJobSucceeds, HelmJobFails, UpgradeCore, sucVars
    <2>2. UNCHANGED <<plan, cache, base, work, pc, todo, seen>>
      BY <1>2 DEF JobStep, localVars
    <2>3. QED
      BY <2>1, <2>2, CacheStepObjects
  <1>3. CASE SyncPlan
    BY <1>3, SyncPlanObjects DEF SyncPlan, localVars, clusterVars, sucVars
  <1>4. ASSUME NEW o \in objs \cup seen, SyncObject(o)
        PROVE  LivesInv' /\ NamesInv' /\ DeleteInv'
    <2>1. UNCHANGED <<plan, cache, base, work, pc, objs, todo>>
      BY <1>4 DEF SyncObject, localVars, clusterVars, sucVars
    <2>2. \/ seen \subseteq seen' /\ seen' \subseteq seen \cup objs
          \/ \E x \in seen \ objs : seen' = seen \ {x}
      BY <1>4 DEF SyncObject
    <2>3. QED
      BY <2>1, <2>2, CacheStepObjects
  <1>5. CASE ResyncSecret \/ RequeueAfterElapses \/ UNCHANGED vars
    <2>1. UNCHANGED <<plan, cache, base, work, pc, objs, todo, seen>>
      BY <1>5 DEF ResyncSecret, RequeueAfterElapses, vars, localVars, clusterVars, sucVars
    <2>2. QED
      BY <2>1, CacheStepObjects
  <1>6. QED
    BY <1>1, <1>2, <1>3, <1>4, <1>5 DEF Informer

\* The invariant is inductive.
LEMMA InitObjects == Init => ObjectInv
  <1> SUFFICES ASSUME Init PROVE ObjectInv
    OBVIOUS
  <1>1. RefinementInv
    BY InitRefines
  <1>2. plan = NoPlan /\ cache = NoPlan /\ objs = {} /\ seen = {} /\ pc = "idle"
    BY DEF Init, ClusterInit
  <1>3. LivesInv
    BY <1>2 DEF LivesInv, NoPlan
  <1>4. NamesInv
    BY <1>2, NoPlanShown DEF NamesInv, NoPlan, Observed
  <1>5. DeleteInv
    BY <1>2 DEF DeleteInv
  <1>6. QED
    BY <1>1, <1>3, <1>4, <1>5 DEF ObjectInv

\* Every step keeps it.
LEMMA NextObjects == ObjectInv /\ [Next]_vars => ObjectInv'
  <1> SUFFICES ASSUME ObjectInv, [Next]_vars PROVE ObjectInv'
    OBVIOUS
  <1>1. RefinementInv'
    BY NextRefines DEF ObjectInv
  <1>2. LivesInv' /\ NamesInv' /\ DeleteInv'
    BY UserObjects, OtherObjects, ReconcileObjects, CommitObjects, DeletionObjects, RestartObjects
       DEF Next, Controller
  <1>3. QED
    BY <1>1, <1>2 DEF ObjectInv

\* It holds throughout.
LEMMA ObjectsInvariant == Spec => []ObjectInv
  BY InitObjects, NextObjects, PTL DEF Spec
-----------------------------------------------------------------------------
(***************************************************************************)
(* The theorems.                                                           *)
(***************************************************************************)

\* An object that a step adds is the next one for the cached plan.
LEMMA CreatedIsNext ==
  ASSUME ObjectInv, [Next]_vars, NEW o \in objs' \ objs
  PROVE  cache.life = "live" /\ cache.fin /\ NextObject(cache, o)
  <1>1. ~(User \/ Informer \/ RequeueAfterElapses \/ Restart \/ Commit \/ UNCHANGED vars)
    BY DEF User, DeletePlan, CreatePlan, EditPlan, Informer, SyncPlan, SyncObject, ResyncSecret,
           RequeueAfterElapses, Restart, Commit, vars, clusterVars, sucVars
  <1>2. ~SUCStep
    BY DEF SUCStep, StartNodeJob, UpgradeNode, FinishNodeJob, sucVars
  <1>3. ~JobStep
    BY DEF JobStep, ManifestJobSucceeds, ManifestJobFails, ManifestJobExpires, RemoveHelmJob,
           StartHelmJob, HelmJobSucceeds, HelmJobFails, UpgradeCore, sucVars
  <1>4. ~(deletePlans \/ deleteSecrets \/ RemoveFinalizer)
    BY DEF deletePlans, deleteSecrets, RemoveFinalizer, deleteListed, RemoveObject, clusterVars, sucVars
  <1>5. Reconcile
    BY <1>1, <1>2, <1>3, <1>4 DEF Next, Controller
  <1>6. cache.life = "live" /\ cache.fin /\ reconcileNormal(cache)
    BY <1>5 DEF Reconcile, listPlans, AddFinalizer, clusterVars, sucVars
  <1>7. TypeOK /\ WellFormed(cache) /\ Shown(cache, seen)
    BY DEF ObjectInv, RefinementInv, StageInv, StatusInv, NamesInv
  <1>8. \/ UNCHANGED objs
        \/ \E x : NextObject(cache, x) /\ objs' \in {objs, objs \cup {x}}
    BY <1>6, <1>7, ReconcileNormalCreates
  <1>9. QED
    BY <1>6, <1>8

\* A Secret or SUC plan is created for the release and with the suffix that are
\* stored at that moment, although the plan the reconciler decides on and the
\* objects it looks for are read from caches of any age.
THEOREM WritesForStoredPlanCorrect == Spec => WritesForStoredPlan
  <1>1. ASSUME ObjectInv, [Next]_vars, NEW o \in objs' \ objs
        PROVE  /\ Exists(plan) /\ o.sfx = plan.sfx
               /\ o.ver = IF o.kind \in OSKind \cup {"secret"} THEN OSVersion[plan.rel]
                                                               ELSE KubeVersion[plan.rel]
    <2>1. /\ cache.life = "live" /\ cache.fin /\ Observed(cache)
          /\ o \in OwnObjects(cache) /\ o \notin seen
      BY <1>1, CreatedIsNext DEF NextObject
    <2>2. plan.rel = cache.rel /\ plan.sfx = cache.sfx
      BY <1>1, <2>1 DEF ObjectInv, NamesInv, InStep
    <2>3. Exists(plan)
      BY <1>1, <2>1 DEF ObjectInv, LivesInv, Exists
    <2>4. \/ /\ o.kind \in {"secret", "osControlPlane", "osWorker"}
             /\ o.ver = OSVersion[cache.rel] /\ o.sfx = cache.sfx
          \/ /\ o.kind \in {"k8sControlPlane", "k8sWorker"}
             /\ o.ver = KubeVersion[cache.rel] /\ o.sfx = cache.sfx
      BY <2>1 DEF OwnObjects, OSObjects, K8sObjects, OSObject, K8sObject
    <2>5. QED
      BY <2>2, <2>3, <2>4 DEF OSKind
  <1>2. ObjectInv /\ [Next]_vars =>
          [\A o \in objs' \ objs :
             /\ Exists(plan)
             /\ o.sfx = plan.sfx
             /\ o.ver = IF o.kind \in OSKind \cup {"secret"} THEN OSVersion[plan.rel]
                                                             ELSE KubeVersion[plan.rel]]_vars
    BY <1>1
  <1>3. QED
    BY <1>2, ObjectsInvariant, PTL DEF Spec, WritesForStoredPlan

\* A set without two different elements has at most one.
LEMMA OneElement ==
  ASSUME NEW S, \A x, y \in S : x = y
  PROVE  Cardinality(S) <= 1
  <1>1. CASE S = {}
    BY <1>1, FS_EmptySet
  <1>2. CASE S # {}
    <2>1. PICK x \in S : S = {x}
      BY <1>2
    <2>2. Cardinality({x}) = 1
      BY FS_Singleton
    <2>3. QED
      BY <2>1, <2>2
  <1>3. QED
    BY <1>1, <1>2

\* At most one object is missing from the informer caches.
THEOREM OneUnseenObjectCorrect == Spec => []OneUnseenObject
  <1>1. ObjectInv => OneUnseenObject
    BY OneElement DEF ObjectInv, NamesInv, OneUnseenObject
  <1>2. QED
    BY <1>1, ObjectsInvariant, PTL

\* A deletion that lists from these caches leaves at most one object behind.
THEOREM AtMostOneOrphanCorrect == Spec => []AtMostOneOrphan
  <1>1. ObjectInv => AtMostOneOrphan
    BY OneElement DEF ObjectInv, DeleteInv, AtMostOneOrphan
  <1>2. QED
    BY <1>1, ObjectsInvariant, PTL

\* Everything that is created belongs to a release that supports every node.
THEOREM ArchitectureRespectedCorrect == Spec => []ArchitectureRespected
  <1>1. Init => ArchitectureRespected
    BY DEF Init, ClusterInit, ArchitectureRespected
  <1>2. ASSUME ObjectInv, [Next]_vars, NEW o \in objs' \ objs
        PROVE  \E r \in Release :
                 /\ o.ver \in {OSVersion[r], KubeVersion[r]}
                 /\ \A n \in Node : \E a \in SupportedArchs[r] : NodeArchitecture[n] \in {a, Short(a)}
    <2>1. cache.rel \in Release /\ findUnsupportedNodes(cache.rel) = {} /\ o \in OwnObjects(cache)
      BY <1>2, CreatedIsNext DEF NextObject
    <2>2. o.ver \in {OSVersion[cache.rel], KubeVersion[cache.rel]}
      BY <2>1 DEF OwnObjects, OSObjects, K8sObjects, OSObject, K8sObject
    <2>3. \A n \in Node : \E a \in SupportedArchs[cache.rel] : NodeArchitecture[n] \in {a, Short(a)}
      BY <2>1 DEF findUnsupportedNodes, SupportedArchitectures
    <2>4. QED
      BY <2>1, <2>2, <2>3
  <1>3. ArchitectureRespected /\ ObjectInv /\ [Next]_vars => ArchitectureRespected'
    BY <1>2 DEF ArchitectureRespected
  <1>4. QED
    BY <1>1, <1>3, ObjectsInvariant, PTL DEF Spec
=============================================================================
