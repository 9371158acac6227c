------------------------- MODULE UpgradeNodes_proofs -------------------------
(***************************************************************************)
(* One node at a time.                                                     *)
(*                                                                         *)
(* SUC upgrades one node at a time for each of its plans; that it does so  *)
(* for all of them together depends on the reconciler, which creates a SUC *)
(* plan only when those before it are through. It concludes that from the  *)
(* nodes: they are in service and have the version. The conclusion is      *)
(* right only if a node can get the version from that SUC plan alone,      *)
(* which is so if every release raises both versions (RaisesVersions) and  *)
(* every edit raises the release (RaisingEdits). The controller checks     *)
(* neither, and without either of them the property is false: a release    *)
(* that keeps the OS image passes the OS stage at once, and so does an     *)
(* edit to the release that has just been installed.                       *)
(***************************************************************************)
EXTENDS UpgradeObjects_proofs

\* Every release raises both versions, above those the nodes start with too.
RaisesVersions ==
    /\ \A r, s \in Release : r < s => OSVersion[r] < OSVersion[s] /\ KubeVersion[r] < KubeVersion[s]
    /\ \A r \in Release : /\ \A v \in InitialOS : v < OSVersion[r]
                          /\ \A v \in InitialKube : v < KubeVersion[r]

\* Every edit of a plan that is not being deleted raises the release.
RaisingEdits ==
    [][plan.life = "live" /\ plan'.life = "live" /\ plan'.gen # plan.gen
         => plan'.rel > plan.rel]_vars

\* The SUC plans among the objects s.
SUCPlans(s) == {o \in s : ~IsSecret(o)}

\* SUC has processed every node that o selects, d being the pairs it has.
Complete(o, d) == \A n \in Selected(o) : <<o, n>> \in d

\* The version that o is about, of a node in clusters with versions a and k.
VersionIn(o, n, a, k) == IF o.kind \in OSKind THEN a[n] ELSE k[n]

\* SUC's jobs: one at a time, of the one SUC plan that is not complete; a node
\* has its version from that plan; the nodes out of service are those being
\* upgraded, unless a SUC plan was deleted while it was being applied.
JobsInv ==
    /\ \A x \in applying : x[1] \in SUCPlans(objs) /\ x[2] \in Selected(x[1]) /\ x \notin done
    /\ \A x, y \in applying : x = y
    /\ \A x \in done : VersionIn(x[1], x[2], os, kube) >= x[1].ver
    /\ \A x, y \in SUCPlans(objs) : Complete(x, done) \/ Complete(y, done) \/ x = y
    /\ \A o \in SUCPlans(objs) : \A n \in Selected(o) :
          VersionIn(o, n, os, kube) >= o.ver => <<o, n>> \in done \cup applying
    /\ \/ cordoned = {x[2] : x \in applying}
       \/ /\ applying = {} /\ \A n, m \in cordoned : n = m
          /\ \A o \in SUCPlans(objs) : Complete(o, done)
          /\ cache.life \in {"deleting", "gone"}

\* The SUC plans among s of other generations than that of p are complete.
Past(p, s, d) ==
    p.life = "live" => \A o \in SUCPlans(s) : Complete(o, d) \/ (Observed(p) /\ o \in OwnObjects(p))

\* No node has the version of an object of p that is not among s yet, and the
\* objects of the second stage come after those of the first.
Future(p, s, a, k) ==
    Observed(p) =>
        /\ \A o \in SUCPlans(OwnObjects(p)) \ s : \A n \in Selected(o) : VersionIn(o, n, a, k) < o.ver
        /\ \A o \in K8sObjects(p) \cap s : OSObjects(p) \subseteq s

\* A stage of p that has succeeded is complete.
Through(p, d) ==
    Observed(p) =>
        /\ p.cond["OS"] = "Succeeded" => \A o \in SUCPlans(OSObjects(p)) : Complete(o, d)
        /\ p.cond["K8s"] = "Succeeded" => \A o \in SUCPlans(K8sObjects(p)) : Complete(o, d)

CopiesInv ==
    /\ Past(plan, objs, done) /\ Past(cache, objs, done)
    /\ Future(plan, objs, os, kube) /\ Future(cache, objs, os, kube)
    /\ Through(plan, done) /\ Through(cache, done)
    /\ pc = "commit" => Through(work, done)

\* The nodes have no higher versions than those of the plan's release, and lower
\* ones before its upgrade has begun.
Below(p, a, k) ==
    /\ p.life = "absent" => a \in [Node -> InitialOS] /\ k \in [Node -> InitialKube]
    /\ p.life = "live" =>
         \A n \in Node :
            /\ a[n] <= OSVersion[p.rel] /\ k[n] <= KubeVersion[p.rel]
            /\ p.obs # p.gen => a[n] < OSVersion[p.rel] /\ k[n] < KubeVersion[p.rel]

\* The inductive invariant.
NodeInv == ObjectInv /\ RaisesVersions /\ JobsInv /\ CopiesInv /\ Below(plan, os, kube)
-----------------------------------------------------------------------------
(***************************************************************************)
(* SUC.                                                                    *)
(***************************************************************************)

\* What types the proofs below need.
LEMMA NodeTypes ==
  ASSUME TypeOK
  PROVE  /\ os \in [Node -> Nat] /\ kube \in [Node -> Nat]
         /\ objs \subseteq Object /\ \A o \in Object : o.ver \in Nat /\ o.kind \in SUCPlanKind \cup {"secret"}
         /\ applying \subseteq Object \X Node /\ done \subseteq Object \X Node
         /\ plan \in PlanObject /\ cache \in PlanObject /\ cordoned \subseteq Node
  BY DEF TypeOK, ClusterTypeOK, Object

\* The parts of the invariant after a step, over the values after it.
LEMMA NodePrimed ==
  /\ Past(plan, objs, done)' = Past(plan', objs', done')
  /\ Past(cache, objs, done)' = Past(cache', objs', done')
  /\ Future(plan, objs, os, kube)' = Future(plan', objs', os', kube')
  /\ Future(cache, objs, os, kube)' = Future(cache', objs', os', kube')
  /\ Through(plan, done)' = Through(plan', done')
  /\ Through(cache, done)' = Through(cache', done')
  /\ Through(work, done)' = Through(work', done')
  /\ Below(plan, os, kube)' = Below(plan', os', kube')
  /\ RaisesVersions' = RaisesVersions
  BY DEF Past, Future, Through, Below, RaisesVersions, SUCPlans, IsSecret, Complete, Selected, VersionIn,
         Observed, OwnObjects, OSObjects, K8sObjects, OSObject, K8sObject, controlPlaneOnlyCluster, Node

\* What is complete stays so.
LEMMA CompleteGrows ==
  ASSUME NEW d, NEW e, d \subseteq e
  PROVE  /\ \A o : Complete(o, d) => Complete(o, e)
         /\ \A p, s : Past(p, s, d) => Past(p, s, e)
         /\ \A p : Through(p, d) => Through(p, e)
  BY DEF Complete, Past, Through

\* A SUC plan that is being applied to a node, or can be, is the only one that
\* is not complete.
LEMMA OnlyIncomplete ==
  ASSUME TypeOK, JobsInv, NEW o \in SUCPlans(objs), NEW n \in Selected(o), <<o, n>> \notin done
  PROVE  /\ \A x \in SUCPlans(objs) : x # o => Complete(x, done)
         /\ \A x \in applying : x[1] = o
         /\ cordoned = {x[2] : x \in applying}
  <1>1. ~Complete(o, done)
    BY DEF Complete
  <1>2. \A x \in SUCPlans(objs) : x # o => Complete(x, done)
    BY <1>1 DEF JobsInv
  <1>3. ASSUME NEW x \in applying
        PROVE  x[1] = o
    <2>1. x[1] \in SUCPlans(objs) /\ x[2] \in Selected(x[1]) /\ x \notin done
      BY DEF JobsInv
    <2>2. x = <<x[1], x[2]>>
      BY NodeTypes
    <2>3. QED
      BY <1>2, <2>1, <2>2 DEF Complete
  <1>4. cordoned = {x[2] : x \in applying}
    BY <1>1 DEF JobsInv
  <1>5. QED
    BY <1>2, <1>3, <1>4

\* SUC starts a job: no other was under way.
LEMMA StartNodes ==
  ASSUME TypeOK, JobsInv, NEW o \in objs, NEW n \in Node, StartNodeJob(o, n), UNCHANGED cache
  PROVE  JobsInv' /\ UNCHANGED <<done, os, kube>>
  <1>1. /\ UNCHANGED <<objs, done, os, kube>> /\ o \in SUCPlans(objs) /\ n \in Selected(o)
        /\ <<o, n>> \notin done /\ Applying(o, applying) = {}
        /\ applying' = applying \cup {<<o, n>>} /\ cordoned' = cordoned \cup {n}
    BY DEF StartNodeJob, Applicable, SUCPlans
  <1>2. applying = {}
    <2> SUFFICES ASSUME NEW x \in applying PROVE FALSE
      OBVIOUS
    <2>1. x = <<x[1], x[2]>> /\ x[2] \in Node
      BY NodeTypes
    <2>2. x[1] = o
      BY <1>1, OnlyIncomplete
    <2>3. QED
      BY <1>1, <2>1, <2>2 DEF Applying
  <1>3. cordoned = {}
    BY <1>1, <1>2, OnlyIncomplete
  <1>4. applying' = {<<o, n>>} /\ cordoned' = {n}
    BY <1>1, <1>2, <1>3
  <1>5. cordoned' = {x[2] : x \in applying'}
    BY <1>4
  <1>6. QED
    BY <1>1, <1>4, <1>5 DEF JobsInv, SUCPlans, IsSecret, Complete, VersionIn, Selected

\* The node of the one job gets the version of its SUC plan.
LEMMA UpgradeNodes ==
  ASSUME TypeOK, JobsInv, NEW o \in objs, NEW n \in Node, UpgradeNode(o, n), UNCHANGED cache
  PROVE  /\ JobsInv' /\ UNCHANGED <<objs, done>>
         /\ o \in SUCPlans(objs) /\ n \in Selected(o) /\ ~Complete(o, done)
         /\ os' = IF o.kind \in OSKind THEN [os EXCEPT ![n] = o.ver] ELSE os
         /\ kube' = IF o.kind \in OSKind THEN kube ELSE [kube EXCEPT ![n] = o.ver]
  <1>1. /\ UNCHANGED <<objs, done, applying, cordoned>> /\ <<o, n>> \in applying
        /\ VersionIn(o, n, os, kube) < o.ver
        /\ os' = IF o.kind \in OSKind THEN [os EXCEPT ![n] = o.ver] ELSE os
        /\ kube' = IF o.kind \in OSKind THEN kube ELSE [kube EXCEPT ![n] = o.ver]
    BY DEF UpgradeNode, Version, VersionIn, sucVars
  <1>2. o \in SUCPlans(objs) /\ n \in Selected(o) /\ <<o, n>> \notin done
    BY <1>1 DEF JobsInv
  <1>3. \A x \in SUCPlans(objs) : x # o => Complete(x, done)
    BY <1>2, OnlyIncomplete
  <1>4. os \in [Node -> Nat] /\ kube \in [Node -> Nat] /\ o.ver \in Nat
    BY NodeTypes
  <1>5. ASSUME NEW x, NEW m \in Node
        PROVE  /\ VersionIn(x, m, os', kube') >= VersionIn(x, m, os, kube)
               /\ m # n => VersionIn(x, m, os', kube') = VersionIn(x, m, os, kube)
    BY <1>1, <1>4 DEF VersionIn
  <1>6. \A x \in done : VersionIn(x[1], x[2], os', kube') >= x[1].ver
    <2> SUFFICES ASSUME NEW x \in done PROVE VersionIn(x[1], x[2], os', kube') >= x[1].ver
      OBVIOUS
    <2>1. x[1].ver \in Nat /\ x[2] \in Node
      BY NodeTypes
    <2>2. VersionIn(x[1], x[2], os', kube') \in Nat /\ VersionIn(x[1], x[2], os, kube) \in Nat
      BY <1>1, <1>4, <2>1 DEF VersionIn
    <2>3. VersionIn(x[1], x[2], os, kube) >= x[1].ver
      BY DEF JobsInv
    <2>4. QED
      BY <1>5, <2>1, <2>2, <2>3
  <1>7. ASSUME NEW x \in SUCPlans(objs), NEW m \in Selected(x), VersionIn(x, m, os', kube') >= x.ver
        PROVE  <<x, m>> \in done \cup applying
    <2>1. CASE x # o
      BY <1>3, <2>1 DEF Complete
    <2>2. CASE x = o /\ m = n
      BY <1>1, <2>2
    <2>3. CASE x = o /\ m # n
      <3>1. m \in Node
        BY DEF Selected, Node
      <3>2. QED
        BY <1>5, <1>7, <2>3, <3>1 DEF JobsInv
    <2>4. QED
      BY <2>1, <2>2, <2>3
  <1>8. JobsInv'
    BY <1>1, <1>6, <1>7 DEF JobsInv, SUCPlans, IsSecret, Complete, VersionIn, Selected
  <1>9. QED
    BY <1>1, <1>2, <1>8 DEF Complete

\* The job completes, and the next one starts or none.
LEMMA FinishNodes ==
  ASSUME TypeOK, JobsInv, NEW o \in objs, NEW n \in Node, FinishNodeJob(o, n), UNCHANGED cache
  PROVE  JobsInv' /\ done \subseteq done' /\ UNCHANGED <<objs, os, kube>>
  <1>1. /\ UNCHANGED <<objs, os, kube>> /\ <<o, n>> \in applying /\ done' = done \cup {<<o, n>>}
        /\ VersionIn(o, n, os, kube) >= o.ver
        /\ \/ applying' = applying \ {<<o, n>>} /\ cordoned' = cordoned \ {n}
           \/ \E m \in Node \ {n} :
                /\ Applicable(o, m)
                /\ applying' = (applying \ {<<o, n>>}) \cup {<<o, m>>}
                /\ cordoned' = (cordoned \ {n}) \cup {m}
    BY DEF FinishNodeJob, Version, VersionIn
  <1>2. o \in SUCPlans(objs) /\ n \in Selected(o) /\ <<o, n>> \notin done
    BY <1>1 DEF JobsInv
  <1>3. cordoned = {x[2] : x \in applying}
    BY <1>2, OnlyIncomplete
  <1>4. applying = {<<o, n>>} /\ cordoned = {n}
    <2>1. applying = {<<o, n>>}
      BY <1>1 DEF JobsInv
    <2>2. QED
      BY <1>3, <2>1
  <1>5. \A x \in done' : VersionIn(x[1], x[2], os, kube) >= x[1].ver
    BY <1>1 DEF JobsInv
  <1>6. \A x : Complete(x, done) => Complete(x, done')
    BY <1>1, CompleteGrows
  <1>7. \A x, y \in SUCPlans(objs) : Complete(x, done') \/ Complete(y, done') \/ x = y
    BY <1>6 DEF JobsInv
  <1>8. \A x \in SUCPlans(objs) : \A m \in Selected(x) :
           VersionIn(x, m, os, kube) >= x.ver => <<x, m>> \in done' \cup applying'
    BY <1>1, <1>4 DEF JobsInv
  <1>9. CASE applying' = applying \ {<<o, n>>} /\ cordoned' = cordoned \ {n}
    <2>1. applying' = {} /\ cordoned' = {}
      BY <1>4, <1>9
    <2>2. cordoned' = {x[2] : x \in applying'}
      BY <2>1
    <2>3. JobsInv'
      BY <1>1, <1>5, <1>7, <1>8, <2>1, <2>2 DEF JobsInv, SUCPlans, IsSecret, Complete, VersionIn, Selected
    <2>4. QED
      BY <1>1, <2>3
  <1>10. ASSUME NEW m \in Node \ {n}, Applicable(o, m),
                applying' = (applying \ {<<o, n>>}) \cup {<<o, m>>},
                cordoned' = (cordoned \ {n}) \cup {m}
         PROVE  JobsInv'
    <2>1. applying' = {<<o, m>>} /\ cordoned' = {m}
      BY <1>4, <1>10
    <2>2. cordoned' = {x[2] : x \in applying'}
      BY <2>1
    <2>3. m \in Selected(o) /\ <<o, m>> \notin done'
      BY <1>1, <1>10 DEF Applicable
    <2>4. QED
      BY <1>1, <1>2, <1>5, <1>7, <1>8, <2>1, <2>2, <2>3
         DEF JobsInv, SUCPlans, IsSecret, Complete, VersionIn, Selected
  <1>11. QED
    BY <1>1, <1>9, <1>10

\* Two SUC plans of one generation differ in the version they are about, or
\* select different nodes.
LEMMA ObjectsDiffer ==
  ASSUME NEW p, NEW x \in OwnObjects(p), NEW y \in OwnObjects(p), ~IsSecret(x), ~IsSecret(y), x # y,
         x.kind \in OSKind <=> y.kind \in OSKind
  PROVE  Selected(x) \cap Selected(y) = {}
  BY NodeAssumption DEF OwnObjects, OSObjects, K8sObjects, OSObject, K8sObject, IsSecret, OSKind, Selected

\* The version an object of p is about.
LEMMA ObjectVersion ==
  ASSUME NEW p, NEW o \in OwnObjects(p)
  PROVE  /\ o.ver = IF o \in OSObjects(p) THEN OSVersion[p.rel] ELSE KubeVersion[p.rel]
         /\ ~IsSecret(o) => (o \in OSObjects(p) <=> o.kind \in OSKind)
         /\ o.kind \in OSKind => o \in OSObjects(p)
  BY DEF OwnObjects, OSObjects, K8sObjects, OSObject, K8sObject, IsSecret, OSKind

\* A node that is upgraded gets no version that a later object waits for.
LEMMA UpgradeFuture ==
  ASSUME TypeOK, JobsInv, NEW o \in objs, NEW n \in Node, UpgradeNode(o, n), UNCHANGED cache,
         NEW p, Past(p, objs, done), Future(p, objs, os, kube)
  PROVE  Future(p, objs', os', kube')
  <1>1. /\ UNCHANGED objs
        /\ o \in SUCPlans(objs) /\ n \in Selected(o) /\ ~Complete(o, done)
        /\ os' = IF o.kind \in OSKind THEN [os EXCEPT ![n] = o.ver] ELSE os
        /\ kube' = IF o.kind \in OSKind THEN kube ELSE [kube EXCEPT ![n] = o.ver]
    BY UpgradeNodes
  <1>2. os \in [Node -> Nat] /\ kube \in [Node -> Nat]
    BY NodeTypes
  <1>3. ASSUME Observed(p), NEW x \in SUCPlans(OwnObjects(p)) \ objs, NEW m \in Selected(x)
        PROVE  VersionIn(x, m, os', kube') < x.ver
    <2>1. o \in OwnObjects(p) /\ ~IsSecret(o) /\ x \in OwnObjects(p) /\ ~IsSecret(x) /\ x # o
      BY <1>1, <1>3 DEF Past, Observed, SUCPlans
    <2>2. VersionIn(x, m, os, kube) < x.ver
      BY <1>3 DEF Future
    <2>3. (x.kind \in OSKind <=> o.kind \in OSKind) => m # n
      BY <1>1, <2>1, ObjectsDiffer
    <2>4. m \in Node
      BY DEF Selected, Node
    <2>5. VersionIn(x, m, os', kube') = VersionIn(x, m, os, kube)
      BY <1>1, <1>2, <2>3, <2>4 DEF VersionIn
    <2>6. QED
      BY <2>2, <2>5
  <1>4. QED
    BY <1>1, <1>3 DEF Future

\* Nor a version above that of the plan.
LEMMA UpgradeBelow ==
  ASSUME NodeInv, NEW o \in objs, NEW n \in Node, UpgradeNode(o, n), UNCHANGED <<plan, cache>>
  PROVE  Below(plan, os', kube')
  <1>0. TypeOK /\ JobsInv /\ WellFormed(plan) /\ Past(plan, objs, done) /\ Below(plan, os, kube) /\ LivesInv
    BY DEF NodeInv, ObjectInv, RefinementInv, StageInv, StatusInv, CopiesInv
  <1>1. /\ o \in SUCPlans(objs) /\ ~Complete(o, done)
        /\ os' = IF o.kind \in OSKind THEN [os EXCEPT ![n] = o.ver] ELSE os
        /\ kube' = IF o.kind \in OSKind THEN kube ELSE [kube EXCEPT ![n] = o.ver]
    BY <1>0, UpgradeNodes
  <1>2. os \in [Node -> Nat] /\ kube \in [Node -> Nat] /\ o.ver \in Nat
        /\ cache.life \in {"absent", "live", "deleting", "gone"}
    BY <1>0, NodeTypes DEF PlanObject
  <1>3. plan.life # "absent"
    BY <1>0, <1>2 DEF LivesInv
  <1>4. ASSUME plan.life = "live", NEW m \in Node
        PROVE  /\ os'[m] <= OSVersion[plan.rel] /\ kube'[m] <= KubeVersion[plan.rel]
               /\ plan.obs = plan.gen
    <2>1. Observed(plan) /\ o \in OwnObjects(plan) /\ ~IsSecret(o)
      BY <1>0, <1>1, <1>4 DEF Past, SUCPlans
    <2>2. o.ver = IF o.kind \in OSKind THEN OSVersion[plan.rel] ELSE KubeVersion[plan.rel]
      BY <2>1, ObjectVersion
    <2>3. plan.rel \in Release /\ OSVersion[plan.rel] \in Nat /\ KubeVersion[plan.rel] \in Nat
      BY <1>0, <1>4, VersionAssumption DEF WellFormed
    <2>4. os[m] <= OSVersion[plan.rel] /\ kube[m] <= KubeVersion[plan.rel]
      BY <1>0, <1>4 DEF Below
    <2>5. QED
      BY <1>1, <1>2, <2>1, <2>2, <2>3, <2>4 DEF Observed
  <1>5. QED
    BY <1>3, <1>4 DEF Below

\* A step of SUC keeps the invariant.
LEMMA SUCStepNodes ==
  ASSUME NodeInv, SUCStep
  PROVE  JobsInv' /\ CopiesInv' /\ Below(plan, os, kube)'
  <1>0. TypeOK /\ JobsInv /\ CopiesInv /\ Below(plan, os, kube)
    BY DEF NodeInv, ObjectInv, RefinementInv, StageInv
  <1>1. UNCHANGED <<plan, cache, work, pc>>
    BY DEF SUCStep, localVars
  <1>2. PICK o \in objs, n \in Node : StartNodeJob(o, n) \/ UpgradeNode(o, n) \/ FinishNodeJob(o, n)
    BY DEF SUCStep
  <1>3. CASE StartNodeJob(o, n)
    <2>1. JobsInv' /\ UNCHANGED <<objs, done, os, kube>>
      BY <1>0, <1>1, <1>3, StartNodes DEF StartNodeJob
    <2>2. QED
      BY <1>0, <1>1, <2>1, NodePrimed DEF CopiesInv
  <1>4. CASE UpgradeNode(o, n)
    <2>1. JobsInv' /\ UNCHANGED <<objs, done>>
      BY <1>0, <1>1, <1>4, UpgradeNodes
    <2>2. Future(plan, objs', os', kube') /\ Future(cache, objs', os', kube')
      BY <1>0, <1>1, <1>4, UpgradeFuture DEF CopiesInv
    <2>3. Below(plan, os', kube')
      BY <1>1, <1>4, UpgradeBelow
    <2>4. QED
      BY <1>0, <1>1, <2>1, <2>2, <2>3, NodePrimed DEF CopiesInv
  <1>5. CASE FinishNodeJob(o, n)
    <2>1. JobsInv' /\ done \subseteq done' /\ UNCHANGED <<objs, os, kube>>
      BY <1>0, <1>1, <1>5, FinishNodes
    <2>2. /\ Past(plan, objs, done') /\ Past(cache, objs, done')
          /\ Through(plan, done') /\ Through(cache, done') /\ (pc = "commit" => Through(work, done'))
      BY <1>0, <2>1, CompleteGrows DEF CopiesInv
    <2>3. QED
      BY <1>0, <1>1, <2>1, <2>2, NodePrimed DEF CopiesInv
  <1>6. QED
    BY <1>2, <1>3, <1>4, <1>5
-----------------------------------------------------------------------------
(***************************************************************************)
(* The reconciler.                                                         *)
(***************************************************************************)

\* What the nodes and the status say when o is created for p.
Ready(p, o) ==
    /\ o.kind = "osWorker" => isOSUpgraded(ControlPlane, p.rel)
    /\ o.kind = "k8sWorker" => isKubernetesUpgraded(ControlPlane, p.rel)
    /\ o.kind \in {"k8sControlPlane", "k8sWorker"} => p.cond["OS"] = "Succeeded"

\* An object that reconcileNormal creates is ready.
LEMMA CreatedIsReady ==
  ASSUME reconcileNormal(cache), NEW o \in objs' \ objs
  PROVE  Ready(cache, o)
  <1>1. ASSUME NEW w, NEW res PROVE ~Report(w, res)
    BY DEF Report, clusterVars, sucVars
  <1>2. ASSUME NEW x, NEW w, createObject(x, w) PROVE x = o
    BY <1>2 DEF createObject
  <1>3. ~createReleaseManifest(cache) /\ ~ReconcileError(cache)
    BY DEF createReleaseManifest, ReconcileError, clusterVars, sucVars
  <1>4. ~rejectUnsupportedNodes(cache) /\ ~observeGeneration(cache)
    BY <1>1 DEF rejectUnsupportedNodes, observeGeneration
  <1>5. ASSUME NEW h, NEW w, NEW res PROVE ~writeHelmChart(h, cache, w, res)
    BY DEF writeHelmChart, sucVars
  <1>6. ~reconcileWorkloads(cache)
    BY <1>1, <1>5 DEF reconcileWorkloads, reconcileHelmChart, jobNameMissing, clusterVars, sucVars
  <1>7. CASE reconcileOS(cache)
    <2>1. \/ o = OSObject("secret", cache) \/ o = OSObject("osControlPlane", cache)
          \/ o = OSObject("osWorker", cache) /\ isOSUpgraded(ControlPlane, cache.rel)
      BY <1>1, <1>2, <1>7 DEF reconcileOS
    <2>2. QED
      BY <2>1 DEF Ready, OSObject
  <1>8. CASE OSUpgraded(cache) /\ reconcileKubernetes(cache)
    <2>1. \/ o = K8sObject("k8sControlPlane", cache)
          \/ o = K8sObject("k8sWorker", cache) /\ isKubernetesUpgraded(ControlPlane, cache.rel)
      BY <1>1, <1>2, <1>8 DEF reconcileKubernetes
    <2>2. QED
      BY <1>8, <2>1 DEF Ready, K8sObject, OSUpgraded, IsStatusConditionTrue
  <1>9. QED
    BY <1>3, <1>4, <1>6, <1>7, <1>8 DEF reconcileNormal

\* reconcileNormal leaves SUC's jobs and the nodes alone.
LEMMA ReconcileNormalJobs ==
  ASSUME reconcileNormal(cache)
  PROVE  UNCHANGED <<applying, done, nodeVars>>
  <1>1. ASSUME NEW w, NEW res, Report(w, res)
        PROVE  UNCHANGED <<applying, done, nodeVars>>
    BY <1>1 DEF Report, clusterVars, sucVars
  <1>2. ASSUME NEW o, NEW w, createObject(o, w)
        PROVE  UNCHANGED <<applying, done, nodeVars>>
    BY <1>2 DEF createObject
  <1>3. ASSUME NEW h, NEW w, NEW res, writeHelmChart(h, cache, w, res)
        PROVE  UNCHANGED <<applying, done, nodeVars>>
    BY <1>3 DEF writeHelmChart, sucVars
  <1>4. CASE createReleaseManifest(cache) \/ ReconcileError(cache)
    BY <1>4 DEF createReleaseManifest, ReconcileError, clusterVars, sucVars
  <1>5. CASE rejectUnsupportedNodes(cache) \/ observeGeneration(cache)
    BY <1>1, <1>5 DEF rejectUnsupportedNodes, observeGeneration
  <1>6. CASE reconcileOS(cache)
    BY <1>1, <1>2, <1>6 DEF reconcileOS
  <1>7. CASE reconcileKubernetes(cache)
    BY <1>1, <1>2, <1>7 DEF reconcileKubernetes
  <1>8. CASE reconcileWorkloads(cache)
    BY <1>1, <1>3, <1>8
    DEF reconcileWorkloads, reconcileHelmChart, jobNameMissing, clusterVars, sucVars
  <1>9. QED
    BY <1>4, <1>5, <1>6, <1>7, <1>8 DEF reconcileNormal

\* A SUC plan is complete when the nodes it selects are in service and have its
\* version.
LEMMA UpgradedIsComplete ==
  ASSUME TypeOK, JobsInv, NEW o \in SUCPlans(objs),
         \A n \in Selected(o) : n \notin cordoned /\ VersionIn(o, n, os, kube) >= o.ver
  PROVE  Complete(o, done)
  <1> SUFFICES ASSUME NEW n \in Selected(o) PROVE <<o, n>> \in done
    BY DEF Complete
  <1>1. <<o, n>> \in done \cup applying /\ n \notin cordoned
    BY DEF JobsInv
  <1>2. \A x \in applying : x[2] \in cordoned
    BY DEF JobsInv
  <1>3. QED
    BY <1>1, <1>2

\* So is a SUC plan of the OS stage of p for nodes that isOSUpgraded accepts, and
\* one of the Kubernetes stage for nodes that isKubernetesUpgraded accepts.
LEMMA StagePlanComplete ==
  ASSUME TypeOK, JobsInv, NEW p, p.rel \in Release, NEW o \in SUCPlans(OwnObjects(p)), o \in objs,
         IF o.kind \in OSKind THEN isOSUpgraded(Selected(o), p.rel)
                              ELSE isKubernetesUpgraded(Selected(o), p.rel)
  PROVE  Complete(o, done)
  <1>1. o.ver = IF o.kind \in OSKind THEN OSVersion[p.rel] ELSE KubeVersion[p.rel]
    BY ObjectVersion DEF SUCPlans
  <1>2. OSVersion[p.rel] \in Nat /\ KubeVersion[p.rel] \in Nat
    BY VersionAssumption
  <1>3. \A n \in Selected(o) : n \notin cordoned /\ VersionIn(o, n, os, kube) >= o.ver
    BY <1>1, <1>2 DEF isOSUpgraded, isKubernetesUpgraded, VersionIn
  <1>4. QED
    BY <1>3, UpgradedIsComplete DEF SUCPlans

\* A status that keeps names and conditions claims no more.
LEMMA ThroughSame ==
  ASSUME NEW p, NEW w, NEW d, Through(p, d), w.rel = p.rel, w.sfx = p.sfx, w.life = p.life,
         w.obs = p.obs, w.gen = p.gen,
         w.cond["OS"] = p.cond["OS"], w.cond["K8s"] = p.cond["K8s"]
  PROVE  Through(w, d)
  <1>1. OSObjects(w) = OSObjects(p) /\ K8sObjects(w) = K8sObjects(p)
    BY SameNames
  <1>2. QED
    BY <1>1 DEF Through, Observed

\* Setting the condition of a stage claims that it is complete at most.
LEMMA ThroughStage ==
  ASSUME NEW p, NEW w, NEW d, NEW t \in {"OS", "K8s"}, NEW x \in {"InProgress", "Succeeded"},
         Through(p, d), Sets(p, w, t, x), Observed(p),
         x = "Succeeded" =>
            \A o \in SUCPlans(IF t = "OS" THEN OSObjects(p) ELSE K8sObjects(p)) : Complete(o, d)
  PROVE  Through(w, d)
  <1>1. /\ w.rel = p.rel /\ w.sfx = p.sfx /\ w.life = p.life /\ w.obs = p.obs /\ w.gen = p.gen
        /\ w.cond["OS"] = IF t = "OS" THEN x ELSE p.cond["OS"]
        /\ w.cond["K8s"] = IF t = "K8s" THEN x ELSE p.cond["K8s"]
    BY DEF Sets, ConditionType
  <1>2. OSObjects(w) = OSObjects(p) /\ K8sObjects(w) = K8sObjects(p)
    BY <1>1, SameNames
  <1>3. QED
    BY <1>1, <1>2 DEF Through, Observed

\* reconcileOS finds the stage complete when it reports that it has succeeded.
LEMMA OSStageComplete ==
  ASSUME TypeOK, JobsInv, NEW p, p.rel \in Release, OSObjects(p) \subseteq objs,
         isOSUpgraded(ControlPlane, p.rel), isOSUpgraded(Worker, p.rel) \/ controlPlaneOnlyCluster
  PROVE  \A o \in SUCPlans(OSObjects(p)) : Complete(o, done)
  <1> SUFFICES ASSUME NEW o \in SUCPlans(OSObjects(p)) PROVE Complete(o, done)
    OBVIOUS
  <1>1. /\ o \in OwnObjects(p) /\ o.kind \in OSKind /\ Selected(o) \in {ControlPlane, Worker}
        /\ o.kind = "osControlPlane" \/ ~controlPlaneOnlyCluster
    BY DEF SUCPlans, OwnObjects, OSObjects, OSObject, IsSecret, OSKind, Selected
  <1>2. isOSUpgraded(Selected(o), p.rel)
    BY <1>1 DEF Selected
  <1>3. QED
    BY <1>1, <1>2, StagePlanComplete DEF SUCPlans

\* So does reconcileKubernetes.
LEMMA K8sStageComplete ==
  ASSUME TypeOK, JobsInv, NEW p, p.rel \in Release, K8sObjects(p) \subseteq objs,
         isKubernetesUpgraded(ControlPlane, p.rel),
         isKubernetesUpgraded(Worker, p.rel) \/ controlPlaneOnlyCluster
  PROVE  \A o \in SUCPlans(K8sObjects(p)) : Complete(o, done)
  <1> SUFFICES ASSUME NEW o \in SUCPlans(K8sObjects(p)) PROVE Complete(o, done)
    OBVIOUS
  <1>1. /\ o \in OwnObjects(p) /\ o.kind \notin OSKind /\ Selected(o) \in {ControlPlane, Worker}
        /\ o.kind = "k8sControlPlane" \/ ~controlPlaneOnlyCluster
    BY DEF SUCPlans, OwnObjects, K8sObjects, K8sObject, OSKind, Selected
  <1>2. isKubernetesUpgraded(Selected(o), p.rel)
    BY <1>1 DEF Selected
  <1>3. QED
    BY <1>1, <1>2, StagePlanComplete DEF SUCPlans

\* The status that reconcileNormal returns claims a stage only if it is complete.
LEMMA ReconcileNormalThrough ==
  ASSUME TypeOK, WellFormed(cache), cache.life = "live", seen \subseteq objs, JobsInv,
         Through(cache, done), reconcileNormal(cache)
  PROVE  pc' = "commit" /\ Through(work', done) /\ UNCHANGED <<plan, cache>>
  <1> DEFINE p == cache
             Returned == \E w : (\E res : Return(w, res)) /\ Through(w, done)
  <1> SUFFICES Returned
    BY DEF Return
  <1>0. p \in PlanObject /\ p.rel \in Release /\ "OS" \in ConditionType /\ "K8s" \in ConditionType
    BY DEF TypeOK, WellFormed, ConditionType
  <1>1. CASE createReleaseManifest(p) \/ ReconcileError(p)
    BY <1>1 DEF createReleaseManifest, ReconcileError
  <1>2. ASSUME NEW w, NEW res, Report(w, res), Through(w, done)
        PROVE  Returned
    BY <1>2 DEF Report
  <1>3. CASE rejectUnsupportedNodes(p)
    <2> DEFINE w == [p EXCEPT !.invalid = TRUE]
    <2>1. /\ w.rel = p.rel /\ w.sfx = p.sfx /\ w.life = p.life /\ w.obs = p.obs
          /\ w.gen = p.gen /\ w.cond = p.cond
      BY <1>0 DEF PlanObject
    <2>2. Through(w, done)
      BY <2>1, ThroughSame
    <2>3. QED
      BY <1>2, <1>3, <2>2 DEF rejectUnsupportedNodes
  <1>4. CASE observeGeneration(p)
    <2>1. PICK s \in Suffix :
             \/ Report(p, "requeue")
             \/ Report(setPendingConditions([p EXCEPT !.sfx = s, !.obs = p.gen],
                                            PendingConditions(p.rel)), "requeue")
      BY <1>4 DEF observeGeneration
    <2> DEFINE w == setPendingConditions([p EXCEPT !.sfx = s, !.obs = p.gen],
                                         PendingConditions(p.rel))
    <2>2. {"OS", "K8s"} \subseteq PendingConditions(p.rel)
      BY DEF PendingConditions
    <2>3. w.cond["OS"] = "Pending" /\ w.cond["K8s"] = "Pending"
      BY <1>0, <2>2, PendingType
    <2> HIDE DEF w
    <2>4. Through(w, done)
      BY <2>3 DEF Through
    <2>5. QED
      BY <1>2, <2>1, <2>4 DEF w
  <1>5. CASE p.obs = p.gen /\ reconcileOS(p)
    <2>1. Observed(p)
      BY <1>5 DEF Observed
    <2>2. Through(setInProgressCondition(p, "OS"), done)
      BY <1>0, <2>1, SettersSet, ThroughStage
    <2>3. (\A o \in SUCPlans(OSObjects(p)) : Complete(o, done)) =>
            Through(setSuccessfulCondition(p, "OS"), done)
      BY <1>0, <2>1, SettersSet, ThroughStage
    <2>4. \/ \E res : Return(p, res)
          \/ \E res : Return(setInProgressCondition(p, "OS"), res)
          \/ /\ OSObjects(p) \subseteq seen
             /\ isOSUpgraded(ControlPlane, p.rel)
             /\ isOSUpgraded(Worker, p.rel) \/ controlPlaneOnlyCluster
             /\ \E res : Return(setSuccessfulCondition(p, "OS"), res)
      BY <1>5 DEF reconcileOS, createObject, Report, Found, OSObjects
    <2>5. QED
      BY <1>0, <2>2, <2>3, <2>4, OSStageComplete
  <1>6. CASE p.obs = p.gen /\ reconcileKubernetes(p)
    <2>1. Observed(p)
      BY <1>6 DEF Observed
    <2>2. Through(setInProgressCondition(p, "K8s"), done)
      BY <1>0, <2>1, SettersSet, ThroughStage
    <2>3. (\A o \in SUCPlans(K8sObjects(p)) : Complete(o, done)) =>
            Through(setSuccessfulCondition(p, "K8s"), done)
      BY <1>0, <2>1, SettersSet, ThroughStage
    <2>4. \/ \E res : Return(setInProgressCondition(p, "K8s"), res)
          \/ /\ K8sObjects(p) \subseteq seen
             /\ isKubernetesUpgraded(ControlPlane, p.rel)
             /\ isKubernetesUpgraded(Worker, p.rel) \/ controlPlaneOnlyCluster
             /\ \E res : Return(setSuccessfulCondition(p, "K8s"), res)
      BY <1>6 DEF reconcileKubernetes, createObject, Report, Found, K8sObjects
    <2>5. QED
      BY <1>0, <2>2, <2>3, <2>4, K8sStageComplete
  <1>7. CASE reconcileWorkloads(p)
    <2>1. ASSUME NEW i \in DOMAIN Workloads[p.rel], reconcileHelmChart(p, Workloads[p.rel][i])
          PROVE  Returned
      <3>1. /\ Workloads[p.rel][i] \in Chart
            /\ Workloads[p.rel][i] # "OS" /\ Workloads[p.rel][i] # "K8s"
        BY <1>0, ComponentTypes
      <3>2. PICK w : /\ \E res : Return(w, res)
                     /\ w = p \/ \E x : Sets(p, w, Workloads[p.rel][i], x)
        BY <1>0, <2>1, <3>1, ReconcileHelmChartSets
      <3>3. Through(w, done)
        BY <1>0, <3>1, <3>2, ThroughSame DEF Sets
      <3>4. QED
        BY <3>2, <3>3
    <2>2. CASE Report([p EXCEPT !.last = p.rel], "done")
      <3> DEFINE w == [p EXCEPT !.last = p.rel]
      <3>1. /\ w.rel = p.rel /\ w.sfx = p.sfx /\ w.life = p.life /\ w.obs = p.obs
            /\ w.gen = p.gen /\ w.cond = p.cond
        BY <1>0 DEF PlanObject
      <3>2. Through(w, done)
        BY <3>1, ThroughSame
      <3>3. QED
        BY <1>2, <2>2, <3>2
    <2>3. QED
      BY <1>7, <2>1, <2>2 DEF reconcileWorkloads
  <1>8. QED
    BY <1>1, <1>3, <1>4, <1>5, <1>6, <1>7 DEF reconcileNormal

\* When a SUC plan is created, those that exist are complete.
LEMMA CreatedAfterComplete ==
  ASSUME TypeOK, JobsInv, WellFormed(cache), cache.life = "live", seen \subseteq objs,
         \A x \in objs : After(x, seen),
         Past(cache, objs, done), Future(cache, objs, os, kube), Through(cache, done),
         NEW o, o \notin objs, ~IsSecret(o), NextObject(cache, o), Ready(cache, o)
  PROVE  \A x \in SUCPlans(objs) : Complete(x, done)
  <1> DEFINE p == cache
  <1>0. /\ Observed(p) /\ p.rel \in Release /\ o \in OwnObjects(p)
        /\ o \in K8sObjects(p) => OSObjects(p) \subseteq seen
    BY DEF NextObject
  <1> SUFFICES ASSUME NEW x \in SUCPlans(objs), x \in OwnObjects(p)
               PROVE  Complete(x, done)
    BY DEF Past
  <1>1. x \in objs /\ ~IsSecret(x) /\ x # o /\ After(x, seen)
    BY DEF SUCPlans
  <1>2. x \in K8sObjects(p) => OSObjects(p) \subseteq objs
    BY <1>0, <1>1 DEF Future
  <1>3. CASE o \in OSObjects(p) /\ x \in K8sObjects(p)
    BY <1>2, <1>3
  <1>4. CASE o \in OSObjects(p) /\ x \in OSObjects(p)
    <2>1. o.kind \in OSKind /\ x.kind \in OSKind
      BY <1>1, <1>4 DEF OSObjects, OSObject, IsSecret, OSKind
    <2>2. CASE x.kind = "osWorker"
      <3>1. o = [x EXCEPT !.kind = "osControlPlane"]
        BY <1>1, <1>4, <2>1, <2>2 DEF OSObjects, OSObject, OSKind
      <3>2. QED
        BY <1>1, <2>2, <3>1 DEF After
    <2>3. CASE x.kind = "osControlPlane"
      <3>1. o.kind = "osWorker" /\ Selected(x) = ControlPlane
        BY <1>1, <1>4, <2>1, <2>3 DEF OSObjects, OSObject, OSKind, Selected
      <3>2. isOSUpgraded(Selected(x), p.rel)
        BY <3>1 DEF Ready
      <3>3. QED
        BY <1>0, <1>1, <2>1, <3>2, StagePlanComplete DEF SUCPlans
    <2>4. QED
      BY <2>1, <2>2, <2>3 DEF OSKind
  <1>5. CASE o \in K8sObjects(p)
    <2>1. o.kind \in {"k8sControlPlane", "k8sWorker"}
      BY <1>5 DEF K8sObjects, K8sObject
    <2>2. p.cond["OS"] = "Succeeded"
      BY <2>1 DEF Ready
    <2>3. CASE x \in OSObjects(p)
      BY <1>0, <1>1, <2>2, <2>3 DEF Through, SUCPlans
    <2>4. CASE x \in K8sObjects(p) /\ x.kind = "k8sWorker"
      <3>1. o = [x EXCEPT !.kind = "k8sControlPlane"]
        BY <1>1, <1>5, <2>1, <2>4 DEF K8sObjects, K8sObject
      <3>2. QED
        BY <1>1, <2>4, <3>1 DEF After
    <2>5. CASE x \in K8sObjects(p) /\ x.kind # "k8sWorker"
      <3>1. o.kind = "k8sWorker" /\ Selected(x) = ControlPlane /\ x.kind \notin OSKind
        BY <1>1, <1>5, <2>1, <2>5 DEF K8sObjects, K8sObject, OSKind, Selected
      <3>2. isKubernetesUpgraded(Selected(x), p.rel)
        BY <3>1 DEF Ready
      <3>3. QED
        BY <1>0, <1>1, <3>1, <3>2, StagePlanComplete DEF SUCPlans
    <2>6. QED
      BY <2>3, <2>4, <2>5 DEF OwnObjects
  <1>6. QED
    BY <1>0, <1>3, <1>4, <1>5 DEF OwnObjects

\* A step that leaves objects, jobs and nodes alone.
LEMMA JobsKept ==
  ASSUME JobsInv, UNCHANGED <<objs, applying, done, os, kube, cordoned>>,
         cache.life \in {"deleting", "gone"} => cache'.life \in {"deleting", "gone"}
  PROVE  JobsInv'
  BY DEF JobsInv, SUCPlans, IsSecret, Complete, VersionIn, Selected

\* Such a step keeps what is said of the copies if these stay as they are; work
\* counts when the status update is next.
LEMMA NodesKept ==
  ASSUME JobsInv, CopiesInv, Below(plan, os, kube),
         UNCHANGED <<plan, cache, objs, applying, done, os, kube, cordoned>>,
         pc' # "commit" \/ UNCHANGED <<pc, work>>
  PROVE  JobsInv' /\ CopiesInv' /\ Below(plan, os, kube)'
  BY JobsKept, NodePrimed DEF CopiesInv

\* reconcileNormal.
LEMMA ReconcileNormalNodes ==
  ASSUME NodeInv, [Next]_vars, cache.life = "live", cache.fin, reconcileNormal(cache)
  PROVE  JobsInv' /\ CopiesInv' /\ Below(plan, os, kube)'
  <1>0. /\ TypeOK /\ JobsInv /\ CopiesInv /\ Below(plan, os, kube) /\ ObjectInv
        /\ WellFormed(cache) /\ seen \subseteq objs /\ \A x \in objs : After(x, seen)
        /\ Shown(cache, seen)
        /\ Observed(cache) => InStep(cache, plan, seen)
    BY DEF NodeInv, ObjectInv, RefinementInv, StageInv, StatusInv, NamesInv
  <1>1. UNCHANGED <<applying, done, os, kube, cordoned>>
    BY ReconcileNormalJobs DEF nodeVars
  <1>2. pc' = "commit" /\ Through(work', done) /\ UNCHANGED <<plan, cache>>
    BY <1>0, ReconcileNormalThrough DEF CopiesInv
  <1>3. cordoned = {x[2] : x \in applying}
    BY <1>0 DEF JobsInv
  <1>4. CASE UNCHANGED objs
    BY <1>0, <1>1, <1>2, <1>4, JobsKept, NodePrimed DEF CopiesInv
  <1>5. ASSUME NEW o, o \notin objs, objs' = objs \cup {o}
        PROVE  JobsInv' /\ CopiesInv' /\ Below(plan, os, kube)'
    <2>1. NextObject(cache, o) /\ Ready(cache, o)
      BY <1>0, <1>5, CreatedIsNext, CreatedIsReady
    <2>2. /\ Observed(cache) /\ o \in OwnObjects(cache) /\ o \notin seen
          /\ o \in K8sObjects(cache) => OSObjects(cache) \subseteq seen
      BY <2>1 DEF NextObject
    <2>3. plan.life = "live" =>
            /\ Observed(plan)
            /\ OwnObjects(plan) = OwnObjects(cache) /\ OSObjects(plan) = OSObjects(cache)
            /\ K8sObjects(plan) = K8sObjects(cache)
      BY <1>0, <2>2, SameNames DEF InStep, Observed
    <2>4. /\ Past(cache, objs, done) /\ Past(plan, objs, done) /\ Through(cache, done)
          /\ Future(cache, objs, os, kube) /\ Future(plan, objs, os, kube)
      BY <1>0 DEF CopiesInv
    <2>5. Past(cache, objs', done) /\ Past(plan, objs', done)
      BY <1>5, <2>2, <2>3, <2>4 DEF Past, SUCPlans
    <2>6. Future(cache, objs', os, kube)
      BY <1>0, <1>5, <2>2, <2>4 DEF Future
    <2>7. Future(plan, objs', os, kube)
      BY <1>0, <1>5, <2>2, <2>3, <2>4 DEF Future, Observed
    <2>8. CopiesInv' /\ Below(plan, os, kube)'
      BY <1>0, <1>1, <1>2, <2>5, <2>6, <2>7, NodePrimed DEF CopiesInv
    <2>9. CASE IsSecret(o)
      <3>1. SUCPlans(objs') = SUCPlans(objs)
        BY <1>5, <2>9 DEF SUCPlans
      <3>2. JobsInv'
        BY <1>0, <1>1, <1>3, <3>1 DEF JobsInv, SUCPlans, IsSecret, Complete, VersionIn, Selected
      <3>3. QED
        BY <2>8, <3>2
    <2>10. CASE ~IsSecret(o)
      <3>1. \A x \in SUCPlans(objs) : Complete(x, done)
        BY <1>0, <1>5, <2>1, <2>4, <2>10, CreatedAfterComplete
      <3>2. SUCPlans(objs') = SUCPlans(objs) \cup {o}
        BY <1>5, <2>10 DEF SUCPlans
      <3>3. \A n \in Selected(o) : VersionIn(o, n, os, kube) < o.ver
        BY <1>5, <2>2, <2>4, <2>10 DEF Future, SUCPlans
      <3>4. o.ver \in Nat /\ \A n \in Selected(o) : VersionIn(o, n, os, kube) \in Nat
        <4>1. cache.rel \in Release
          BY <1>0 DEF WellFormed
        <4>2. o.ver \in Nat
          BY <2>2, <4>1, ObjectVersion, VersionAssumption
        <4>3. QED
          BY <1>0, <4>2, NodeTypes DEF VersionIn, Selected, Node
      <3>5. \A n \in Selected(o) : ~(VersionIn(o, n, os, kube) >= o.ver)
        BY <3>3, <3>4
      <3>6. \A x, y \in SUCPlans(objs') : Complete(x, done) \/ Complete(y, done) \/ x = y
        BY <3>1, <3>2
      <3>7. \A x \in SUCPlans(objs') : \A n \in Selected(x) :
               VersionIn(x, n, os, kube) >= x.ver => <<x, n>> \in done \cup applying
        BY <1>0, <3>2, <3>5 DEF JobsInv
      <3>8. \A x \in applying : x[1] \in SUCPlans(objs')
        BY <1>0, <3>2 DEF JobsInv
      <3>9. JobsInv'
        BY <1>0, <1>1, <1>3, <3>6, <3>7, <3>8
           DEF JobsInv, SUCPlans, IsSecret, Complete, VersionIn, Selected
      <3>10. QED
        BY <2>8, <3>9
    <2>11. QED
      BY <2>9, <2>10
  <1>6. \/ UNCHANGED objs
        \/ \E o : objs' = objs \cup {o}
    BY <1>0, ReconcileNormalCreates
  <1>7. QED
    BY <1>4, <1>5, <1>6

\* A copy with the same names, generations and conditions.
LEMMA SameCopy ==
  ASSUME NEW p, NEW w, NEW s, NEW d, NEW a, NEW k, w.rel = p.rel, w.sfx = p.sfx, w.life = p.life,
         w.obs = p.obs, w.gen = p.gen
  PROVE  /\ Past(p, s, d) => Past(w, s, d)
         /\ Future(p, s, a, k) => Future(w, s, a, k)
         /\ Below(p, a, k) => Below(w, a, k)
  <1>1. OSObjects(w) = OSObjects(p) /\ K8sObjects(w) = K8sObjects(p) /\ OwnObjects(w) = OwnObjects(p)
    BY SameNames
  <1>2. QED
    BY <1>1 DEF Past, Future, Below, Observed

\* Every reconciliation.
LEMMA ReconcileNodes ==
  ASSUME NodeInv, [Next]_vars, Reconcile
  PROVE  JobsInv' /\ CopiesInv' /\ Below(plan, os, kube)'
  <1>0. JobsInv /\ CopiesInv /\ Below(plan, os, kube) /\ plan \in PlanObject /\ pc = "idle"
    BY DEF NodeInv, ObjectInv, RefinementInv, StageInv, TypeOK, Reconcile
  <1>1. CASE UNCHANGED <<plan, cache, localVars, clusterVars>>
    BY <1>0, <1>1, NodesKept DEF localVars, clusterVars, sucVars, nodeVars
  <1>2. CASE listPlans(cache)
    BY <1>0, <1>2, NodesKept DEF listPlans, clusterVars, sucVars, nodeVars
  <1>3. CASE AddFinalizer(cache)
    <2>1. /\ UNCHANGED <<cache, pc, work, objs, applying, done, os, kube, cordoned>>
          /\ plan' = plan \/ plan' = [plan EXCEPT !.fin = TRUE]
      BY <1>3 DEF AddFinalizer, localVars, clusterVars, sucVars, nodeVars
    <2>2. /\ plan'.rel = plan.rel /\ plan'.sfx = plan.sfx /\ plan'.life = plan.life
          /\ plan'.obs = plan.obs /\ plan'.gen = plan.gen /\ plan'.cond = plan.cond
      BY <1>0, <2>1 DEF PlanObject
    <2>3. Past(plan', objs, done) /\ Future(plan', objs, os, kube) /\ Below(plan', os, kube)
      BY <1>0, <2>2, SameCopy DEF CopiesInv
    <2>4. Through(plan', done)
      BY <1>0, <2>2, ThroughSame DEF CopiesInv
    <2>5. QED
      BY <1>0, <2>1, <2>3, <2>4, JobsKept, NodePrimed DEF CopiesInv
  <1>4. QED
    BY <1>1, <1>2, <1>3, ReconcileNormalNodes DEF Reconcile

\* The status update.
LEMMA CommitNodes ==
  ASSUME NodeInv, Commit
  PROVE  JobsInv' /\ CopiesInv' /\ Below(plan, os, kube)'
  <1>0. /\ TypeOK /\ JobsInv /\ CopiesInv /\ Below(plan, os, kube) /\ StatusInv /\ LivesInv
        /\ pc = "commit" /\ pc' = "idle"
        /\ UNCHANGED <<cache, objs, applying, done, os, kube, cordoned>>
    BY DEF NodeInv, ObjectInv, RefinementInv, StageInv, Commit, Finish, clusterVars, sucVars, nodeVars
  <1>1. plan' = plan \/ (base = plan /\ plan' = work)
    BY DEF Commit
  <1>2. CASE plan' = plan
    BY <1>0, <1>2, NodesKept
  <1>3. CASE base = plan /\ plan' = work
    <2>1. /\ plan.life = "live" /\ plan'.life = "live" /\ plan'.rel = plan.rel /\ plan.rel \in Release
          /\ KeepsNames(plan, plan') /\ Through(plan', done)
      BY <1>0, <1>3 DEF StatusInv, StatusStep, LivesInv, CopiesInv, WellFormed
    <2>2. CASE plan.obs = plan.gen
      <3>1. Past(plan', objs, done) /\ Future(plan', objs, os, kube) /\ Below(plan', os, kube)
        BY <1>0, <2>1, <2>2, SameCopy DEF CopiesInv, KeepsNames
      <3>2. QED
        BY <1>0, <2>1, <3>1, JobsKept, NodePrimed DEF CopiesInv
    <2>3. CASE plan.obs # plan.gen
      <3>1. \A o \in SUCPlans(objs) : Complete(o, done)
        BY <1>0, <2>1, <2>3 DEF CopiesInv, Past, Observed
      <3>2. \A n \in Node : os[n] < OSVersion[plan.rel] /\ kube[n] < KubeVersion[plan.rel]
        BY <1>0, <2>1, <2>3 DEF Below
      <3>3. /\ os \in [Node -> Nat] /\ kube \in [Node -> Nat]
            /\ OSVersion[plan.rel] \in Nat /\ KubeVersion[plan.rel] \in Nat
        BY <1>0, <2>1, NodeTypes, VersionAssumption
      <3>4. ASSUME NEW o \in SUCPlans(OwnObjects(plan')), NEW n \in Selected(o)
            PROVE  VersionIn(o, n, os, kube) < o.ver /\ ~(VersionIn(o, n, os, kube) >= o.ver)
        <4>1. o.ver = IF o.kind \in OSKind THEN OSVersion[plan.rel] ELSE KubeVersion[plan.rel]
          BY <2>1, ObjectVersion DEF SUCPlans
        <4>2. n \in Node
          BY DEF Selected, Node
        <4>3. QED
          BY <3>2, <3>3, <4>1, <4>2 DEF VersionIn
      <3>5. ASSUME NEW o \in K8sObjects(plan') \cap objs
            PROVE  FALSE
        <4>1. o \in SUCPlans(OwnObjects(plan')) /\ o \in SUCPlans(objs) /\ Selected(o) # {}
          BY <3>5, NodeAssumption
             DEF SUCPlans, OwnObjects, K8sObjects, K8sObject, IsSecret, Selected, controlPlaneOnlyCluster
        <4>2. PICK n \in Selected(o) : <<o, n>> \in done
          BY <3>1, <4>1 DEF Complete
        <4>3. QED
          BY <1>0, <3>4, <4>1, <4>2 DEF JobsInv
      <3>6. Past(plan', objs, done)
        BY <3>1 DEF Past
      <3>7. Future(plan', objs, os, kube)
        BY <3>4, <3>5 DEF Future
      <3>8. Below(plan', os, kube)
        BY <2>1, <3>2, <3>3 DEF Below
      <3>9. QED
        BY <1>0, <2>1, <3>6, <3>7, <3>8, JobsKept, NodePrimed DEF CopiesInv
    <2>4. QED
      BY <2>2, <2>3
  <1>4. QED
    BY <1>1, <1>2, <1>3

\* The deletion loop. When it deletes a SUC plan that is being applied to a
\* node, that node stays out of service and nothing else can start.
LEMMA DeletionNodes ==
  ASSUME NodeInv, deletePlans \/ deleteSecrets \/ RemoveFinalizer
  PROVE  JobsInv' /\ CopiesInv' /\ Below(plan, os, kube)'
  <1>0. TypeOK /\ JobsInv /\ LivesInv /\ StatusInv /\ plan \in PlanObject
    BY DEF NodeInv, ObjectInv, RefinementInv, StageInv, TypeOK
  <1>1. /\ pc \in {"deletePlans", "deleteSecrets"} /\ pc' # "commit" /\ UNCHANGED cache
        /\ UNCHANGED <<done, os, kube, cordoned>>
        /\ \/ UNCHANGED <<objs, applying>>
           \/ \E o : objs' = objs \ {o} /\ applying' = {x \in applying : x[1] # o}
    BY DEF deletePlans, deleteSecrets, RemoveFinalizer, deleteListed, Finish, RemoveObject,
           clusterVars, sucVars, nodeVars
  <1>2. cache.life \in {"deleting", "gone"} /\ plan.life \in {"deleting", "gone"}
    BY <1>0, <1>1 DEF LivesInv
  <1>3. plan'.life \in {"deleting", "gone"}
    <2>1. plan' = plan \/ plan' = [[work EXCEPT !.fin = FALSE] EXCEPT !.life = "gone"]
      BY DEF deletePlans, deleteSecrets, RemoveFinalizer
    <2>2. work \in PlanObject
      BY <1>0 DEF TypeOK
    <2>3. QED
      BY <1>2, <2>1, <2>2 DEF PlanObject
  <1>4. CopiesInv' /\ Below(plan, os, kube)'
    BY <1>1, <1>2, <1>3, NodePrimed DEF CopiesInv, Past, Future, Through, Observed, Below
  <1>5. CASE UNCHANGED <<objs, applying>>
    BY <1>0, <1>1, <1>2, <1>4, <1>5, JobsKept
  <1>6. ASSUME NEW o, objs' = objs \ {o}, applying' = {x \in applying : x[1] # o}
        PROVE  JobsInv'
    <2>1. SUCPlans(objs') = SUCPlans(objs) \ {o}
      BY <1>6 DEF SUCPlans
    <2>2. CASE applying' = applying
      BY <1>0, <1>1, <1>6, <2>1, <2>2 DEF JobsInv, SUCPlans, IsSecret, Complete, VersionIn, Selected
    <2>3. CASE applying' # applying
      <3>1. PICK x \in applying : x[1] = o
        BY <1>6, <2>3
      <3>2. x = <<o, x[2]>> /\ o \in SUCPlans(objs) /\ x[2] \in Selected(o) /\ <<o, x[2]>> \notin done
        BY <1>0, <3>1, NodeTypes DEF JobsInv
      <3>3. applying' = {}
        BY <1>0, <1>6, <3>1 DEF JobsInv
      <3>4. \A y \in SUCPlans(objs') : Complete(y, done)
        BY <1>0, <2>1, <3>2, OnlyIncomplete
      <3>5. cordoned = {y[2] : y \in applying}
        BY <1>0, <3>2, OnlyIncomplete
      <3>6. \A n, m \in cordoned : n = m
        BY <1>0, <3>5 DEF JobsInv
      <3>7. QED
        BY <1>0, <1>1, <1>2, <3>3, <3>4, <3>6
           DEF JobsInv, SUCPlans, IsSecret, Complete, VersionIn, Selected
    <2>4. QED
      BY <2>2, <2>3
  <1>7. QED
    BY <1>1, <1>4, <1>5, <1>6
-----------------------------------------------------------------------------
(***************************************************************************)
(* Users, informers and jobs.                                              *)
(***************************************************************************)

\* An edit begins when everything that has been created is complete, and raises
\* the release above what the nodes have.
LEMMA EditNodes ==
  ASSUME NodeInv, NEW r \in Release \cup {0}, EditPlan(r), plan.life = "live",
         plan'.rel > plan.rel
  PROVE  /\ plan'.life = "live" /\ ~Observed(plan')
         /\ Past(plan', objs, done) /\ Below(plan', os, kube)
  <1>0. /\ TypeOK /\ ObjectInv /\ CopiesInv /\ Below(plan, os, kube) /\ RaisesVersions
        /\ WellFormed(plan) /\ plan \in PlanObject /\ Shown(plan, seen)
    BY DEF NodeInv, ObjectInv, RefinementInv, StageInv, StatusInv, TypeOK, NamesInv
  <1>1. /\ plan'.life = plan.life /\ plan'.obs = plan.obs /\ plan'.gen = plan.gen + 1
        /\ plan'.sfx = plan.sfx /\ plan'.cond = plan.cond /\ plan'.rel = r
    BY <1>0 DEF EditPlan, PlanObject
  <1>2. plan.obs \in Nat /\ plan.gen \in Nat /\ plan.obs <= plan.gen
    BY <1>0 DEF PlanObject, WellFormed
  <1>3. plan'.obs # plan'.gen
    BY <1>1, <1>2
  <1>4. \A o \in SUCPlans(objs) : Complete(o, done)
    <2>1. CASE ~Observed(plan)
      BY <1>0, <2>1 DEF CopiesInv, Past
    <2>2. CASE Observed(plan)
      <3>1. plan.cond["OS"] = "Succeeded" /\ plan.cond["K8s"] = "Succeeded"
        BY <1>0, <2>2, EditedAfterStages DEF Shown
      <3>2. QED
        BY <1>0, <2>2, <3>1 DEF CopiesInv, Past, Through, OwnObjects, SUCPlans
    <2>3. QED
      BY <2>1, <2>2
  <1>5. plan.rel \in Release /\ plan'.rel \in Release
    <2>1. WellFormed(plan')
      BY <1>0, EditRefines DEF ObjectInv
    <2>2. QED
      BY <1>0, <1>1, <2>1 DEF WellFormed
  <1>6. /\ plan.rel < plan'.rel
        /\ OSVersion[plan.rel] \in Nat /\ KubeVersion[plan.rel] \in Nat
        /\ OSVersion[plan'.rel] \in Nat /\ KubeVersion[plan'.rel] \in Nat
    BY <1>5, ReleaseAssumption, VersionAssumption
  <1>7. OSVersion[plan.rel] < OSVersion[plan'.rel] /\ KubeVersion[plan.rel] < KubeVersion[plan'.rel]
    BY <1>0, <1>5, <1>6 DEF RaisesVersions
  <1>8. \A n \in Node : os[n] < OSVersion[plan'.rel] /\ kube[n] < KubeVersion[plan'.rel]
    BY <1>0, <1>6, <1>7, NodeTypes DEF Below
  <1>9. Below(plan', os, kube)
    BY <1>0, <1>1, <1>6, <1>8, NodeTypes DEF Below
  <1>10. QED
    BY <1>1, <1>3, <1>4, <1>9 DEF Past, Observed

\* The created plan asks for more than the nodes have.
LEMMA CreateNodes ==
  ASSUME NodeInv, NEW r \in Release \cup {0}, CreatePlan(r)
  PROVE  ~Observed(plan') /\ Past(plan', objs, done) /\ Below(plan', os, kube)
  <1>0. TypeOK /\ Below(plan, os, kube) /\ RaisesVersions /\ LivesInv /\ cache \in PlanObject
    BY DEF NodeInv, ObjectInv, RefinementInv, StageInv, TypeOK
  <1>1. plan.life = "absent" /\ plan'.life = "live" /\ plan'.obs = 0 /\ plan'.gen = 1
    BY DEF CreatePlan, NoPlan
  <1>2. objs = {}
    BY <1>0, <1>1 DEF LivesInv, PlanObject
  <1>3. plan'.rel \in Release
    <2>1. WellFormed(plan')
      BY CreateRefines DEF NodeInv, ObjectInv
    <2>2. QED
      BY <1>1, <2>1 DEF WellFormed
  <1>4. \A n \in Node : os[n] < OSVersion[plan'.rel] /\ kube[n] < KubeVersion[plan'.rel]
    BY <1>0, <1>1, <1>3 DEF Below, RaisesVersions
  <1>5. OSVersion[plan'.rel] \in Nat /\ KubeVersion[plan'.rel] \in Nat
    BY <1>3, VersionAssumption
  <1>6. Below(plan', os, kube)
    BY <1>0, <1>1, <1>4, <1>5, NodeTypes DEF Below
  <1>7. QED
    BY <1>1, <1>2, <1>6 DEF Past, Observed, SUCPlans

\* Users.
LEMMA UserNodes ==
  ASSUME NodeInv, User,
         plan.life = "live" /\ plan'.life = "live" /\ plan'.gen # plan.gen => plan'.rel > plan.rel
  PROVE  JobsInv' /\ CopiesInv' /\ Below(plan, os, kube)'
  <1>0. JobsInv /\ CopiesInv /\ plan \in PlanObject
    BY DEF NodeInv, ObjectInv, RefinementInv, StageInv, TypeOK
  <1>1. UNCHANGED <<cache, work, pc, objs, applying, done, os, kube, cordoned>>
    BY DEF User, DeletePlan, CreatePlan, EditPlan, localVars, clusterVars, sucVars, nodeVars
  <1>2. ASSUME ~Observed(plan'), Past(plan', objs, done), Below(plan', os, kube)
        PROVE  JobsInv' /\ CopiesInv' /\ Below(plan, os, kube)'
    <2>1. Future(plan', objs, os, kube) /\ Through(plan', done)
      BY <1>2 DEF Future, Through
    <2>2. QED
      BY <1>0, <1>1, <1>2, <2>1, JobsKept, NodePrimed DEF CopiesInv
  <1>3. ASSUME plan'.life \in {"deleting", "gone"}
        PROVE  ~Observed(plan') /\ Past(plan', objs, done) /\ Below(plan', os, kube)
    BY <1>3 DEF Observed, Past, Below
  <1>4. CASE DeletePlan
    <2>1. plan'.life \in {"deleting", "gone"}
      BY <1>0, <1>4 DEF DeletePlan, PlanObject
    <2>2. QED
      BY <1>2, <1>3, <2>1
  <1>5. ASSUME NEW r \in Release \cup {0}, CreatePlan(r)
        PROVE  JobsInv' /\ CopiesInv' /\ Below(plan, os, kube)'
    BY <1>2, <1>5, CreateNodes
  <1>6. ASSUME NEW r \in Release \cup {0}, EditPlan(r)
        PROVE  JobsInv' /\ CopiesInv' /\ Below(plan, os, kube)'
    <2>1. plan'.life = plan.life /\ plan'.gen = plan.gen + 1 /\ plan.gen \in Nat
          /\ plan.life \in {"live", "deleting"}
      BY <1>0, <1>6 DEF EditPlan, PlanObject
    <2>2. CASE plan.life = "live"
      BY <1>2, <1>6, <2>1, <2>2, EditNodes
    <2>3. CASE plan.life = "deleting"
      BY <1>2, <1>3, <2>1, <2>3
    <2>4. QED
      BY <2>1, <2>2, <2>3
  <1>7. QED
    BY <1>4, <1>5, <1>6 DEF User

\* The cached plan becomes the stored one; jobs and timers touch nothing here.
LEMMA OtherNodes ==
  ASSUME NodeInv, JobStep \/ Informer \/ RequeueAfterElapses \/ Restart \/ UNCHANGED vars
  PROVE  JobsInv' /\ CopiesInv' /\ Below(plan, os, kube)'
  <1>0. JobsInv /\ CopiesInv /\ Below(plan, os, kube) /\ LivesInv
    BY DEF NodeInv, ObjectInv
  <1>1. CASE JobStep
    <2>1. UNCHANGED <<objs, applying, done, os, kube, cordoned>>
      BY <1>1 DEF JobStep, ManifestJobSucceeds, ManifestJobFails, ManifestJobExpires, RemoveHelmJob,
                  StartHelmJob, HelmJobSucceeds, HelmJobFails, UpgradeCore, sucVars, nodeVars
    <2>2. UNCHANGED <<plan, cache, work, pc>>
      BY <1>1 DEF JobStep, localVars
    <2>3. QED
      BY <1>0, <2>1, <2>2, NodesKept
  <1>2. CASE SyncPlan \/ Restart
    <2>1. /\ cache' = plan /\ UNCHANGED <<plan, objs, applying, done, os, kube, cordoned>>
          /\ pc' # "commit" \/ UNCHANGED <<pc, work>>
      BY <1>2 DEF SyncPlan, Restart, localVars, clusterVars, sucVars, nodeVars
    <2>2. cache.life \in {"deleting", "gone"} => cache'.life \in {"deleting", "gone"}
      BY <1>0, <2>1 DEF LivesInv
    <2>3. QED
      BY <1>0, <2>1, <2>2, JobsKept, NodePrimed DEF CopiesInv
  <1>3. CASE ResyncSecret \/ (\E o \in objs \cup seen : SyncObject(o)) \/ RequeueAfterElapses \/ UNCHANGED vars
    <2>1. UNCHANGED <<plan, cache, work, pc, objs, applying, done, os, kube, cordoned>>
      BY <1>3 DEF ResyncSecret, SyncObject, RequeueAfterElapses, vars, localVars, clusterVars,
                  sucVars, nodeVars
    <2>2. QED
      BY <1>0, <2>1, NodesKept
  <1>4. QED
    BY <1>1, <1>2, <1>3 DEF Informer
-----------------------------------------------------------------------------
(***************************************************************************)
(* The theorems.                                                           *)
(***************************************************************************)

\* The invariant holds initially.
LEMMA InitNodes == Init /\ RaisesVersions => NodeInv
  <1> SUFFICES ASSUME Init, RaisesVersions PROVE NodeInv
    OBVIOUS
  <1>1. ObjectInv
    BY InitObjects
  <1>2. /\ objs = {} /\ applying = {} /\ done = {} /\ cordoned = {} /\ pc = "idle"
        /\ plan = NoPlan /\ cache = NoPlan
        /\ os \in [Node -> InitialOS] /\ kube \in [Node -> InitialKube]
    BY DEF Init, ClusterInit
  <1>3. cordoned = {x[2] : x \in applying}
    BY <1>2
  <1>4. JobsInv
    BY <1>2, <1>3 DEF JobsInv, SUCPlans
  <1>5. CopiesInv
    BY <1>2 DEF CopiesInv, Past, Future, Through, Observed, NoPlan
  <1>6. Below(plan, os, kube)
    BY <1>2 DEF Below, NoPlan
  <1>7. QED
    BY <1>1, <1>4, <1>5, <1>6 DEF NodeInv

\* Every step keeps it, as long as edits raise the release.
LEMMA NextNodes ==
  NodeInv /\ [Next]_vars
    /\ [plan.life = "live" /\ plan'.life = "live" /\ plan'.gen # plan.gen => plan'.rel > plan.rel]_vars
  => NodeInv'
  <1> SUFFICES ASSUME NodeInv, [Next]_vars,
                      [plan.life = "live" /\ plan'.life = "live" /\ plan'.gen # plan.gen
                         => plan'.rel > plan.rel]_vars
               PROVE  NodeInv'
    OBVIOUS
  <1>1. ObjectInv'
    BY NextObjects DEF NodeInv
  <1>2. plan.life = "live" /\ plan'.life = "live" /\ plan'.gen # plan.gen => plan'.rel > plan.rel
    BY DEF vars
  <1>3. RaisesVersions'
    BY NodePrimed DEF NodeInv
  <1>4. JobsInv' /\ CopiesInv' /\ Below(plan, os, kube)'
    BY <1>1, <1>2, UserNodes, SUCStepNodes, OtherNodes, ReconcileNodes, CommitNodes, DeletionNodes
       DEF Next, Controller
  <1>5. QED
    BY <1>1, <1>3, <1>4 DEF NodeInv

\* It holds throughout.
LEMMA NodesInvariant == Spec /\ RaisesVersions /\ RaisingEdits => []NodeInv
  BY InitNodes, NextNodes, PTL DEF Spec, RaisingEdits

\* At no time is more than one node out of service, if releases raise versions
\* and edits raise the release: the SUC plans of the two stages and of the two
\* roles, and those of different generations, are never applied side by side,
\* however stale the reads that led to them are. A SUC plan that is deleted while
\* it is being applied leaves its node out of service, and that one only.
THEOREM OneNodeAtATimeCorrect == Spec /\ RaisesVersions /\ RaisingEdits => []OneNodeAtATime
  <1>1. NodeInv => OneNodeAtATime
    <2> SUFFICES ASSUME NodeInv PROVE OneNodeAtATime
      OBVIOUS
    <2>1. \A n, m \in cordoned : n = m
      BY DEF NodeInv, JobsInv
    <2>2. QED
      BY <2>1, OneElement DEF OneNodeAtATime
  <1>2. QED
    BY <1>1, NodesInvariant, PTL

\* parseDrainOptions lets a role be drained only if it has at least two nodes.
LEMMA DrainNeedsTwo ==
  ASSUME NEW cp \in Nat \ {0}, NEW wk \in Nat, NEW disable \in DrainOptions
  PROVE  /\ parseDrainOptions(cp, wk, disable).controlPlane => cp > 1
         /\ parseDrainOptions(cp, wk, disable).worker => wk > 1
  <1>1. CASE cp > 1 /\ wk <= 1
    BY <1>1 DEF parseDrainOptions
  <1>2. CASE cp = 1 /\ wk > 1
    BY <1>2 DEF parseDrainOptions
  <1>3. CASE cp <= 1 /\ wk <= 1
    BY <1>3 DEF parseDrainOptions
  <1>4. CASE cp > 1 /\ wk > 1
    BY <1>4
  <1>5. QED
    BY <1>1, <1>2, <1>3, <1>4

\* A node is drained only if another one of its role is in service: the role has
\* at least two nodes (parseDrainOptions), and only one is out of service.
THEOREM DrainLeavesNodeCorrect == Spec /\ RaisesVersions /\ RaisingEdits => []DrainLeavesNode
  <1>1. NodeInv => DrainLeavesNode
    <2> SUFFICES ASSUME NodeInv, NEW x \in applying, NEW disable \in DrainOptions, Drains(x[1], disable)
                 PROVE  \E m \in Selected(x[1]) : m # x[2] /\ m \notin cordoned
      BY DEF DrainLeavesNode
    <2>1. \A m \in cordoned : m = x[2]
      BY DEF NodeInv, JobsInv
    <2> SUFFICES ASSUME \A m \in Selected(x[1]) : m = x[2] PROVE FALSE
      BY <2>1
    <2>2. Cardinality(Selected(x[1])) <= 1
      BY OneElement
    <2>3. IsFiniteSet(ControlPlane) /\ IsFiniteSet(Worker)
      BY NodeAssumption, FS_Subset DEF Node
    <2>4. Cardinality(ControlPlane) \in Nat /\ Cardinality(Worker) \in Nat /\ Cardinality(ControlPlane) # 0
      BY <2>3, NodeAssumption, FS_CardinalityType, FS_EmptySet
    <2>5. \/ Selected(x[1]) = ControlPlane
          \/ Selected(x[1]) = Worker /\ Selected(x[1]) # ControlPlane
      BY DEF Selected
    <2>6. CASE Selected(x[1]) = ControlPlane
      BY <2>2, <2>4, <2>6, DrainNeedsTwo DEF Drains
    <2>7. CASE Selected(x[1]) = Worker /\ Selected(x[1]) # ControlPlane
      BY <2>2, <2>4, <2>7, DrainNeedsTwo DEF Drains
    <2>8. QED
      BY <2>5, <2>6, <2>7
  <1>2. QED
    BY <1>1, NodesInvariant, PTL
=============================================================================
