---------------------- MODULE UpgradeRefinement_proofs -----------------------
(***************************************************************************)
(* UpgradeController implements StagedUpgrade, and                         *)
(* lastSuccessfulReleaseVersion never decreases.                           *)
(*                                                                         *)
(* A status update replaces the stored plan by the reconciler's copy, so   *)
(* the copy may not lag behind what it was read from, and the release that *)
(* becomes the last successful one may not be older than the one before:   *)
(* that is what the webhook enforces on edits (NotOlder).                  *)
(*                                                                         *)
(* The stored plan moves when a reconciliation that read it some time ago  *)
(* commits the status it computed then. The step is therefore decided when *)
(* reconcileNormal returns: the copy it works on is one step of the staged *)
(* upgrade ahead of the copy it was read from (StatusStep), and the commit *)
(* succeeds only if that copy is still the stored one. For the step to be  *)
(* one of StagedUpgrade the conditions must go together (WellFormed): a    *)
(* stage that has succeeded has those before it behind it, and the         *)
(* components that are finished are the first ones of the list.            *)
(***************************************************************************)
EXTENDS UpgradeStages_proofs

\* A plan names a release that is not older than the last successful one.
NotOlder(p) == p.last <= p.rel /\ (p.life = "absent" => p.last = 0)

\* The inductive invariant.
LastInv ==
    /\ TypeOK
    /\ NotOlder(plan) /\ NotOlder(cache) /\ NotOlder(base) /\ NotOlder(work)
    /\ base.last <= work.last

\* Plans that agree on the stages agree on their versions.
LEMMA NotOlderSame ==
  ASSUME NEW p, NEW w, SameStages(p, w), NotOlder(p)
  PROVE  NotOlder(w)
  BY DEF SameStages, NotOlder

\* Versions are natural numbers.
LEMMA PlanVersions ==
  ASSUME NEW p \in PlanObject
  PROVE  p.rel \in Nat /\ p.last \in Nat /\ p.gen \in Nat
  <1>1. \A r \in Release \cup {0} : r \in Nat
    BY ReleaseAssumption
  <1>2. p.rel \in Release \cup {0} /\ p.last \in Release \cup {0} /\ p.gen \in Nat
    BY DEF PlanObject
  <1>3. QED
    BY <1>1, <1>2

\* The empty plan names no release and has no last version.
LEMMA NoPlanNotOlder == NotOlder(NoPlan)
  BY DEF NotOlder, NoPlan

\* The setters of the two stages keep the last version.
LEMMA SetStageKeeps ==
  ASSUME NEW p \in PlanObject, NEW t \in {"OS", "K8s"}
  PROVE  /\ setInProgressCondition(p, t).life = p.life
         /\ setInProgressCondition(p, t).rel = p.rel
         /\ setInProgressCondition(p, t).last = p.last
         /\ setSuccessfulCondition(p, t).life = p.life
         /\ setSuccessfulCondition(p, t).rel = p.rel
         /\ setSuccessfulCondition(p, t).last = p.last
  BY DEF PlanObject, setInProgressCondition, setSuccessfulCondition

\* What reconcileNormal makes of the plan p: it keeps the release, and the last
\* version stays or becomes the release.
Advances(p, w) ==
    /\ w.rel = p.rel /\ w.last \in {p.last, p.rel}
    /\ w.life = "absent" => p.life = "absent"

\* Every way through reconcileNormal returns such a plan.
LEMMA ReconcileNormalAdvances ==
  ASSUME TypeOK, reconcileNormal(cache)
  PROVE  \E w : (\E res : Return(w, res)) /\ Advances(cache, w)
  <1> DEFINE p == cache
  <1>0. p \in PlanObject /\ Advances(p, p)
    BY DEF TypeOK, Advances
  <1>1. CASE createReleaseManifest(p) \/ ReconcileError(p)
    BY <1>0, <1>1 DEF createReleaseManifest, ReconcileError
  <1>2. CASE rejectUnsupportedNodes(p)
    <2>1. Advances(p, [p EXCEPT !.invalid = TRUE])
      BY <1>0 DEF PlanObject, Advances
    <2>2. QED
      BY <1>2, <2>1 DEF rejectUnsupportedNodes, Report
  <1>3. CASE observeGeneration(p)
    <2>1. {"OS", "K8s"} \subseteq PendingConditions(p.rel)
      BY DEF PendingConditions
    <2>2. \A s \in Suffix :
             Advances(p, setPendingConditions([p EXCEPT !.sfx = s, !.obs = p.gen],
                                              PendingConditions(p.rel)))
      BY <1>0, <2>1, PendingType DEF Advances
    <2>3. QED
      BY <1>0, <1>3, <2>2 DEF observeGeneration, Report
  <1>4. CASE reconcileOS(p)
    <2>1. /\ Advances(p, setInProgressCondition(p, "OS"))
          /\ Advances(p, setSuccessfulCondition(p, "OS"))
      BY <1>0, SetStageKeeps DEF Advances
    <2>2. \E w \in {p, setInProgressCondition(p, "OS"), setSuccessfulCondition(p, "OS")} :
             \E res : Return(w, res)
      BY <1>4 DEF reconcileOS, createObject, Report
    <2>3. QED
      BY <1>0, <2>1, <2>2
  <1>5. CASE reconcileKubernetes(p)
    <2>1. /\ Advances(p, setInProgressCondition(p, "K8s"))
          /\ Advances(p, setSuccessfulCondition(p, "K8s"))
      BY <1>0, SetStageKeeps DEF Advances
    <2>2. \E w \in {setInProgressCondition(p, "K8s"), setSuccessfulCondition(p, "K8s")} :
             \E res : Return(w, res)
      BY <1>5 DEF reconcileKubernetes, createObject, Report
    <2>3. QED
      BY <2>1, <2>2
  <1>6. CASE p.rel \in manifests /\ reconcileWorkloads(p)
    <2>1. p.rel \in Release
      BY <1>6 DEF TypeOK, ClusterTypeOK
    <2>2. CASE \E w \in PlanObject, res \in {"done", "requeue"} :
                 /\ SameStages(p, w)
                 /\ \/ Report(w, res) \/ ReportMissed(w, res)
                    \/ \E h \in Chart : writeHelmChart(h, p, w, res)
      BY <2>2 DEF SameStages, Advances, Report, ReportMissed, writeHelmChart
    <2>3. CASE Report([p EXCEPT !.last = p.rel], "done")
      <3>1. Advances(p, [p EXCEPT !.last = p.rel])
        BY <1>0 DEF PlanObject, Advances
      <3>2. QED
        BY <2>3, <3>1 DEF Report
    <2>4. QED
      BY <1>0, <1>6, <2>1, <2>2, <2>3, ReconcileWorkloadsShape
  <1>7. QED
    BY <1>1, <1>2, <1>3, <1>4, <1>5, <1>6 DEF reconcileNormal

\* An accepted edit keeps the finalizer, so the webhook's version rule applies.
LEMMA EditNotOlder ==
  ASSUME LastInv, NEW r \in Release \cup {0}, EditPlan(r)
  PROVE  NotOlder(plan') /\ plan'.last = plan.last
  <1>1. plan \in PlanObject /\ plan.rel \in Nat /\ plan.last \in Nat /\ r \in Nat
    BY PlanVersions, ReleaseAssumption DEF LastInv, TypeOK
  <1> DEFINE new == [plan EXCEPT !.rel = r, !.gen = @ + 1]
  <1>2. new.rel = r /\ new.last = plan.last /\ new.life = plan.life /\ new.fin = plan.fin
    BY <1>1 DEF PlanObject
  <1>3. plan' = new /\ ValidateUpdate(plan, new) /\ plan.life # "absent"
    BY DEF EditPlan
  <1> HIDE DEF new
  <1>4. plan.last # 0 => r > plan.last
    BY <1>2, <1>3 DEF ValidateUpdate, FinalizerRemoved, ReleaseIncremented
  <1>5. QED
    BY <1>1, <1>2, <1>3, <1>4 DEF NotOlder

\* A step after which every copy of the plan is one that was there before, with
\* its stages, keeps the invariant when the reconciler's copies go together.
LEMMA CopyStepLast ==
  ASSUME LastInv, TypeOK',
         \A y \in {plan', cache', base', work'} :
            \E x \in {plan, cache, base, work, NoPlan} : SameStages(x, y),
         base'.last <= work'.last
  PROVE  LastInv'
  <1>1. \A x \in {plan, cache, base, work, NoPlan} : NotOlder(x)
    BY NoPlanNotOlder DEF LastInv
  <1>2. \A y \in {plan', cache', base', work'} : NotOlder(y)
    BY <1>1, NotOlderSame
  <1>3. QED
    BY <1>2 DEF LastInv, NotOlder

\* Users keep the invariant and the last version.
LEMMA UserLast ==
  ASSUME LastInv, User
  PROVE  LastInv' /\ plan'.last >= plan.last
  <1>1. TypeOK' /\ plan \in PlanObject /\ plan' \in PlanObject /\ plan.last \in Nat /\ plan'.last \in Nat
    BY UserType, PlanVersions DEF LastInv, TypeOK
  <1>2. UNCHANGED <<cache, base, work>>
    BY DEF User, DeletePlan, CreatePlan, EditPlan, localVars
  <1>3. NotOlder(plan') /\ plan'.last = plan.last
    <2>1. CASE DeletePlan
      <3>1. plan'.rel = plan.rel /\ plan'.last = plan.last /\ plan'.life # "absent"
        BY <1>1, <2>1 DEF DeletePlan, PlanObject
      <3>2. QED
        BY <3>1 DEF LastInv, NotOlder
    <2>2. ASSUME NEW r \in Release \cup {0}, CreatePlan(r)
          PROVE  NotOlder(plan') /\ plan'.last = plan.last
      <3>1. plan'.life = "live" /\ plan'.last = 0 /\ plan'.rel \in Nat
        BY <1>1, <2>2, PlanVersions DEF CreatePlan, NoPlan
      <3>2. plan.last = 0
        BY <2>2 DEF CreatePlan, LastInv, NotOlder
      <3>3. QED
        BY <3>1, <3>2 DEF NotOlder
    <2>3. ASSUME NEW r \in Release \cup {0}, EditPlan(r)
          PROVE  NotOlder(plan') /\ plan'.last = plan.last
      BY <2>3, EditNotOlder
    <2>4. QED
      BY <2>1, <2>2, <2>3 DEF User
  <1>4. QED
    BY <1>1, <1>2, <1>3 DEF LastInv, NotOlder

\* A reconciliation leaves the stored last version alone.
LEMMA ReconcileLast ==
  ASSUME LastInv, TypeOK', Reconcile
  PROVE  LastInv' /\ plan'.last >= plan.last
  <1>0. /\ TypeOK /\ plan \in PlanObject /\ cache \in PlanObject
        /\ plan.last \in Nat /\ cache.last \in Nat /\ cache.rel \in Nat
    BY PlanVersions DEF LastInv, TypeOK
  <1>1. CASE UNCHANGED <<plan, cache, localVars>>
    <2>1. UNCHANGED <<plan, cache, base, work>>
      BY <1>1 DEF localVars
    <2>2. QED
      BY <1>0, <2>1, CopySame, CopyStepLast DEF LastInv
  <1>2. CASE listPlans(cache)
    <2>1. UNCHANGED <<plan, cache>> /\ base' = cache /\ work' = cache
      BY <1>2 DEF listPlans
    <2>2. QED
      BY <1>0, <2>1, CopySame, CopyStepLast
  <1>3. CASE AddFinalizer(cache)
    <2>1. UNCHANGED <<cache, base, work>>
      BY <1>3 DEF AddFinalizer, localVars
    <2>2. plan' = plan \/ (plan = cache /\ plan' = [cache EXCEPT !.fin = TRUE])
      BY <1>3 DEF AddFinalizer
    <2>3. SameStages(cache, [cache EXCEPT !.fin = TRUE])
      BY <1>0 DEF PlanObject, SameStages
    <2>4. plan'.last = plan.last
      BY <2>2, <2>3 DEF SameStages
    <2>5. base'.last <= work'.last
      BY <2>1 DEF LastInv
    <2>6. \A y \in {plan', cache', base', work'} :
             \E x \in {plan, cache, base, work, NoPlan} : SameStages(x, y)
      BY <1>0, <2>1, <2>2, <2>3, CopySame
    <2>7. QED
      BY <1>0, <2>4, <2>5, <2>6, CopyStepLast
  <1>4. CASE cache.life = "live" /\ reconcileNormal(cache)
    <2>1. PICK w : (\E res : Return(w, res)) /\ Advances(cache, w)
      BY <1>0, <1>4, ReconcileNormalAdvances
    <2>2. UNCHANGED <<plan, cache>> /\ base' = cache /\ work' = w
      BY <2>1 DEF Return
    <2>3. NotOlder(cache)
      BY DEF LastInv
    <2>4. NotOlder(w) /\ cache.last <= w.last
      BY <1>0, <1>4, <2>1, <2>3 DEF Advances, NotOlder
    <2>5. QED
      BY <1>0, <2>2, <2>3, <2>4 DEF LastInv
  <1>5. QED
    BY <1>1, <1>2, <1>3, <1>4 DEF Reconcile

\* The deferred status update never lowers the last version.
LEMMA CommitLast ==
  ASSUME LastInv, TypeOK', Commit
  PROVE  LastInv' /\ plan'.last >= plan.last
  <1>1. TypeOK /\ plan.last \in Nat /\ UNCHANGED cache /\ base' = NoPlan /\ work' = NoPlan
    BY PlanVersions DEF LastInv, TypeOK, Commit, Finish
  <1>2. plan' = plan \/ (base = plan /\ plan' = work)
    BY DEF Commit
  <1>3. plan'.last >= plan.last
    <2>1. work.last \in Nat
      BY PlanVersions DEF LastInv, TypeOK
    <2>2. QED
      BY <1>1, <1>2, <2>1 DEF LastInv
  <1>4. LastInv'
    BY <1>1, <1>2, NoPlanNotOlder DEF LastInv, NoPlan
  <1>5. QED
    BY <1>3, <1>4

\* Neither does the deletion of the plan.
LEMMA DeleteLast ==
  ASSUME LastInv, TypeOK', deletePlans \/ deleteSecrets \/ RemoveFinalizer
  PROVE  LastInv' /\ plan'.last >= plan.last
  <1>0. TypeOK /\ work \in PlanObject /\ plan.last \in Nat /\ work.last \in Nat
    BY PlanVersions DEF LastInv, TypeOK
  <1>1. UNCHANGED cache
    BY DEF deletePlans, deleteSecrets, RemoveFinalizer
  <1>2. UNCHANGED <<base, work>> \/ (base' = NoPlan /\ work' = NoPlan)
    BY DEF deletePlans, deleteSecrets, RemoveFinalizer, deleteListed, Finish
  <1>3. \/ plan' = plan
        \/ base = plan /\ plan' = [[work EXCEPT !.fin = FALSE] EXCEPT !.life = "gone"]
    BY DEF deletePlans, deleteSecrets, RemoveFinalizer
  <1>4. SameStages(work, [[work EXCEPT !.fin = FALSE] EXCEPT !.life = "gone"])
    BY <1>0 DEF PlanObject, SameStages
  <1>5. plan'.last >= plan.last
    <2>1. [[work EXCEPT !.fin = FALSE] EXCEPT !.life = "gone"].last = work.last
      BY <1>4 DEF SameStages
    <2>2. base.last <= work.last
      BY DEF LastInv
    <2>3. plan'.last = plan.last \/ (base.last = plan.last /\ plan'.last = work.last)
      BY <1>3, <2>1
    <2>4. QED
      BY <1>0, <2>2, <2>3
  <1>6. base'.last <= work'.last
    BY <1>2 DEF LastInv, NoPlan
  <1>7. QED
    BY <1>0, <1>1, <1>2, <1>3, <1>4, <1>5, <1>6, CopySame, CopyStepLast

\* The invariant holds initially.
LEMMA InitLast == Init => LastInv
  BY InitType, NoPlanNotOlder DEF Init, LastInv, NoPlan

\* The invariant is inductive, and no step lowers the last version.
LEMMA NextLast == LastInv /\ [Next]_vars => LastInv' /\ plan'.last >= plan.last
  <1> SUFFICES ASSUME LastInv, [Next]_vars PROVE LastInv' /\ plan'.last >= plan.last
    OBVIOUS
  <1>0. TypeOK /\ TypeOK' /\ plan.last \in Nat
    BY NextType, PlanVersions DEF LastInv, TypeOK
  <1>1. CASE User
    BY <1>1, UserLast
  <1>2. CASE SUCStep \/ JobStep
    <2>1. UNCHANGED <<plan, cache, base, work>>
      BY <1>2 DEF SUCStep, JobStep, localVars
    <2>2. QED
      BY <1>0, <2>1, CopySame, CopyStepLast DEF LastInv
  <1>3. CASE Controller
    BY <1>0, <1>3, ReconcileLast, CommitLast, DeleteLast DEF Controller
  <1>4. CASE Informer \/ RequeueAfterElapses \/ Restart \/ UNCHANGED vars
    <2>1. /\ UNCHANGED plan /\ cache' \in {plan, cache}
          /\ UNCHANGED <<base, work>> \/ (base' = NoPlan /\ work' = NoPlan)
      BY <1>4
      DEF Informer, SyncPlan, ResyncSecret, SyncObject, RequeueAfterElapses, Restart, vars, localVars
    <2>2. base'.last <= work'.last
      BY <2>1 DEF LastInv, NoPlan
    <2>3. QED
      BY <1>0, <2>1, <2>2, CopySame, CopyStepLast
  <1>5. QED
    BY <1>1, <1>2, <1>3, <1>4 DEF Next

\* lastSuccessfulReleaseVersion never decreases, whatever the interleaving of
\* edits, restarts, stale reads and status updates.
THEOREM LastVersionMonotoneCorrect == Spec => LastVersionMonotone
  <1>1. Spec => []LastInv
    BY InitLast, NextLast, PTL DEF Spec
  <1>2. LastInv /\ [Next]_vars => [plan'.last >= plan.last]_vars
    BY NextLast
  <1>3. QED
    BY <1>1, <1>2, PTL DEF Spec, LastVersionMonotone
-----------------------------------------------------------------------------
(***************************************************************************)
(* Steps of the staged upgrade.                                            *)
(***************************************************************************)

\* The conditions of a copy p of the plan go together.
WellFormed(p) ==
    /\ p.obs <= p.gen
    /\ p.cond["OS"] \in {"None", "Pending", "InProgress", "Succeeded"}
    /\ p.cond["K8s"] \in {"None", "Pending", "InProgress", "Succeeded"}
    /\ p.life # "absent" => p.rel \in Release
    /\ p.life # "absent" /\ p.obs = p.gen =>
         /\ \A t \in PendingConditions(p.rel) : p.cond[t] # "None"
         /\ p.cond["K8s"] = "Succeeded" => p.cond["OS"] = "Succeeded"
         /\ \A k \in DOMAIN Workloads[p.rel] :
              isHelmUpgradeFinished(p, Workloads[p.rel][k]) =>
                /\ p.cond["K8s"] = "Succeeded"
                /\ \E m \in DOMAIN Workloads[p.rel] :
                     /\ Workloads[p.rel][m] = Workloads[p.rel][k]
                     /\ \A j \in 1 .. m : isHelmUpgradeFinished(p, Workloads[p.rel][j])

\* The status w is that of p or one step of the staged upgrade further.
StatusStep(p, w) ==
    /\ w.life = p.life /\ w.rel = p.rel
    /\ \/ w.last = p.last /\ StageOf(w) = StageOf(p) /\ FinishedOf(w) = FinishedOf(p)
       \/ w.last = p.last /\ StageOf(p) = "idle" /\ StageOf(w) = "os"
       \/ w.last = p.last /\ StageOf(p) = "os" /\ StageOf(w) = "kubernetes"
       \/ /\ w.last = p.last /\ StageOf(p) = "kubernetes" /\ StageOf(w) = "workloads"
          /\ FinishedOf(w) = {}
       \/ /\ w.last = p.last /\ StageOf(p) = "workloads" /\ StageOf(w) = "workloads"
          /\ \E i \in DOMAIN Workloads[p.rel] :
               /\ FinishedOf(p) = {Workloads[p.rel][j] : j \in 1 .. (i - 1)}
               /\ FinishedOf(w) = FinishedOf(p) \cup {Workloads[p.rel][i]}
       \/ /\ w.last = p.rel /\ StageOf(p) = "workloads" /\ StageOf(w) = "workloads"
          /\ FinishedOf(p) = Components(p.rel) /\ FinishedOf(w) = Components(p.rel)

\* What the copies are to each other.
StatusInv ==
    /\ WellFormed(plan) /\ WellFormed(cache) /\ WellFormed(base) /\ WellFormed(work)
    /\ pc = "commit" => base.life = "live" /\ StatusStep(base, work)
    /\ pc \in {"deletePlans", "deleteSecrets"} => base.life = "deleting" /\ work = base

\* The inductive invariant.
RefinementInv == StageInv /\ LastInv /\ StatusInv

\* A step of the staged upgrade, or none.
StagedStep == [Staged!StagedNext]_<<Staged!planVars, Staged!nodeVars>>
-----------------------------------------------------------------------------
(***************************************************************************)
(* Copies of the plan.                                                     *)
(***************************************************************************)

\* The empty plan is well formed.
LEMMA NoPlanWellFormed == WellFormed(NoPlan)
  BY DEF WellFormed, NoPlan, ConditionType

\* w has the spec, the generations and the conditions of p.
SameStatus(p, w) ==
    /\ w.rel = p.rel /\ w.gen = p.gen /\ w.obs = p.obs /\ w.cond = p.cond
    /\ w.life = "absent" <=> p.life = "absent"

\* Such a copy is well formed if p is, and in the same stage if it lives as p does.
LEMMA SameStatusWellFormed ==
  ASSUME NEW p, NEW w, SameStatus(p, w), WellFormed(p)
  PROVE  /\ WellFormed(w)
         /\ w.life = p.life => StageOf(w) = StageOf(p) /\ FinishedOf(w) = FinishedOf(p)
  <1>1. WellFormed(w)
    BY DEF SameStatus, WellFormed, isHelmUpgradeFinished, IsStatusConditionTrue
  <1>2. ASSUME w.life = p.life
        PROVE  StageOf(w) = StageOf(p) /\ FinishedOf(w) = FinishedOf(p)
    <2>1. StageOf(w) = StageOf(p)
      BY <1>2 DEF SameStatus, StageOf, OSUpgraded, KubernetesUpgraded, IsStatusConditionTrue
    <2>2. QED
      BY <2>1 DEF SameStatus, FinishedOf, isHelmUpgradeFinished, IsStatusConditionTrue
  <1>3. QED
    BY <1>1, <1>2

\* A new generation is well formed and has not begun.
LEMMA NewGeneration ==
  ASSUME NEW p \in PlanObject, NEW w, WellFormed(p),
         w.obs = p.obs, w.gen = p.gen + 1, w.cond = p.cond, w.rel \in Release
  PROVE  WellFormed(w) /\ StageOf(w) = "idle" /\ FinishedOf(w) = {}
  <1>1. p.obs \in Nat /\ p.gen \in Nat /\ p.obs <= p.gen
    BY DEF PlanObject, WellFormed
  <1>2. w.obs <= w.gen /\ w.obs # w.gen
    BY <1>1
  <1>3. WellFormed(w)
    BY <1>2 DEF WellFormed
  <1>4. StageOf(w) = "idle"
    BY <1>2 DEF StageOf
  <1>5. QED
    BY <1>3, <1>4 DEF FinishedOf

\* w is p with the condition t set to x.
Sets(p, w, t, x) ==
    /\ w.life = p.life /\ w.rel = p.rel /\ w.gen = p.gen /\ w.obs = p.obs /\ w.last = p.last
    /\ w.fin = p.fin /\ w.sfx = p.sfx
    /\ \A u \in ConditionType : w.cond[u] = IF u = t THEN x ELSE p.cond[u]

\* This is what the condition setters return.
LEMMA SettersSet ==
  ASSUME NEW p \in PlanObject, NEW t \in ConditionType
  PROVE  /\ Sets(p, setInProgressCondition(p, t), t, "InProgress")
         /\ Sets(p, setSuccessfulCondition(p, t), t, "Succeeded")
         /\ Sets(p, setFailedCondition(p, t), t, "Failed")
         /\ Sets(p, setSkippedCondition(p, t), t, "Skipped")
         /\ Sets(p, setErrorCondition(p, t), t, "Error")
  <1>1. ASSUME NEW x
        PROVE  Sets(p, [p EXCEPT !.cond[t] = x], t, x)
    <2>1. p.cond \in [ConditionType -> Reason]
      BY DEF PlanObject
    <2>2. QED
      BY <2>1 DEF PlanObject, Sets
  <1>2. QED
    BY <1>1 DEF setInProgressCondition, setSuccessfulCondition, setFailedCondition,
                setSkippedCondition, setErrorCondition

\* The stage of a plan whose generation has been observed.
LEMMA StageOfObserved ==
  ASSUME NEW p, p.life = "live", p.obs = p.gen
  PROVE  /\ p.cond["OS"] # "Succeeded" => StageOf(p) = "os"
         /\ p.cond["OS"] = "Succeeded" /\ p.cond["K8s"] # "Succeeded" => StageOf(p) = "kubernetes"
         /\ p.cond["OS"] = "Succeeded" /\ p.cond["K8s"] = "Succeeded" =>
              /\ StageOf(p) = "workloads"
              /\ FinishedOf(p) = {c \in Components(p.rel) : isHelmUpgradeFinished(p, c)}
         /\ StageOf(p) # "workloads" => FinishedOf(p) = {}
  BY DEF StageOf, FinishedOf, OSUpgraded, KubernetesUpgraded, IsStatusConditionTrue
-----------------------------------------------------------------------------
(***************************************************************************)
(* What reconcileNormal makes of the plan.                                 *)
(***************************************************************************)

\* Components are charts, and charts are not stages.
LEMMA ComponentTypes ==
  ASSUME NEW r \in Release
  PROVE  /\ \A i \in DOMAIN Workloads[r] : /\ Workloads[r][i] \in Chart
                                           /\ Workloads[r][i] \in ConditionType
                                           /\ Workloads[r][i] # "OS" /\ Workloads[r][i] # "K8s"
         /\ "OS" \in ConditionType /\ "K8s" \in ConditionType
         /\ PendingConditions(r) = {"OS", "K8s"} \cup Components(r)
         /\ PendingConditions(r) \subseteq ConditionType
         /\ DOMAIN Workloads[r] = 1 .. Len(Workloads[r]) /\ Len(Workloads[r]) \in Nat
  <1>1. Workloads[r] \in Seq(Chart)
    BY WorkloadAssumption
  <1>2. \A i \in DOMAIN Workloads[r] : Workloads[r][i] \in Chart
    BY <1>1
  <1>3. QED
    BY <1>1, <1>2, ConditionAssumption DEF ConditionType, PendingConditions, Components

\* Returning the plan as it is is no step.
LEMMA StatusSame ==
  ASSUME NEW p, NEW w, SameStatus(p, w), WellFormed(p), w.life = p.life, w.last = p.last
  PROVE  WellFormed(w) /\ StatusStep(p, w)
  BY SameStatusWellFormed DEF StatusStep, SameStatus

\* Observing a generation begins the upgrade.
LEMMA StatusBegin ==
  ASSUME NEW p \in PlanObject, p.rel \in Release, p.life = "live", p.obs # p.gen, NEW s \in Suffix
  PROVE  LET w == setPendingConditions([p EXCEPT !.sfx = s, !.obs = p.gen],
                                       PendingConditions(p.rel))
         IN  WellFormed(w) /\ StatusStep(p, w)
  <1> DEFINE T == PendingConditions(p.rel)
             w == setPendingConditions([p EXCEPT !.sfx = s, !.obs = p.gen], T)
  <1>1. {"OS", "K8s"} \subseteq T /\ T \subseteq ConditionType
    BY ComponentTypes
  <1>2. /\ w.life = p.life /\ w.rel = p.rel /\ w.gen = p.gen /\ w.obs = p.gen /\ w.last = p.last
        /\ w.cond["OS"] = "Pending" /\ w.cond["K8s"] = "Pending"
    BY <1>1, PendingType
  <1>3. \A t \in T : w.cond[t] = "Pending"
    BY <1>1 DEF setPendingConditions, PlanObject
  <1>4. p.gen \in Nat
    BY DEF PlanObject
  <1> HIDE DEF w, T
  <1>5. \A k \in DOMAIN Workloads[p.rel] : w.cond[Workloads[p.rel][k]] = "Pending"
    BY <1>3, ComponentTypes DEF T, Components
  <1>6. WellFormed(w)
    BY <1>2, <1>3, <1>4, <1>5 DEF WellFormed, T, isHelmUpgradeFinished, IsStatusConditionTrue
  <1>7. StageOf(p) = "idle" /\ StageOf(w) = "os"
    <2>1. StageOf(w) = "os"
      BY <1>2, StageOfObserved
    <2>2. StageOf(p) = "idle"
      BY DEF StageOf
    <2>3. QED
      BY <2>1, <2>2
  <1>8. QED
    BY <1>2, <1>6, <1>7 DEF StatusStep, w, T

\* A condition of a stage that has not succeeded is set: to InProgress, which is
\* no step, or to Succeeded, which leaves the stage.
LEMMA StatusStage ==
  ASSUME NEW p \in PlanObject, WellFormed(p), p.life = "live", p.obs = p.gen,
         NEW t \in {"OS", "K8s"}, p.cond[t] # "Succeeded",
         t = "K8s" => p.cond["OS"] = "Succeeded",
         NEW x \in {"InProgress", "Succeeded"}, NEW w, Sets(p, w, t, x)
  PROVE  WellFormed(w) /\ StatusStep(p, w)
  <1>1. p.rel \in Release /\ p.cond["K8s"] # "Succeeded"
    BY DEF WellFormed
  <1>2. /\ w.life = "live" /\ w.rel = p.rel /\ w.gen = p.gen /\ w.obs = w.gen /\ w.last = p.last
        /\ w.cond["OS"] = IF t = "OS" THEN x ELSE p.cond["OS"]
        /\ w.cond["K8s"] = IF t = "K8s" THEN x ELSE p.cond["K8s"]
        /\ \A i \in DOMAIN Workloads[p.rel] :
              w.cond[Workloads[p.rel][i]] = p.cond[Workloads[p.rel][i]]
    BY <1>1, ComponentTypes DEF Sets
  <1>3. \A i \in DOMAIN Workloads[p.rel] :
           /\ ~isHelmUpgradeFinished(p, Workloads[p.rel][i])
           /\ ~isHelmUpgradeFinished(w, Workloads[p.rel][i])
    BY <1>1, <1>2 DEF WellFormed, isHelmUpgradeFinished, IsStatusConditionTrue
  <1>4. WellFormed(w)
    <2>1. \A u \in PendingConditions(p.rel) : w.cond[u] # "None"
      BY <1>1, <1>2, ComponentTypes DEF WellFormed, Components
    <2>2. QED
      BY <1>1, <1>2, <1>3, <2>1 DEF WellFormed
  <1>5. \A c \in Components(p.rel) : ~isHelmUpgradeFinished(w, c)
    BY <1>3 DEF Components
  <1>6. StatusStep(p, w)
    <2>1. CASE t = "OS"
      BY <1>1, <1>2, <2>1, StageOfObserved DEF StatusStep
    <2>2. CASE t = "K8s"
      BY <1>1, <1>2, <1>5, <2>2, StageOfObserved DEF StatusStep
    <2>3. QED
      BY <2>1, <2>2
  <1>7. QED
    BY <1>4, <1>6

\* The condition of the first component that is not finished is set: to a final
\* one, which finishes the component, or to another, which is no step.
LEMMA StatusComponent ==
  ASSUME NEW p \in PlanObject, WellFormed(p), p.life = "live", p.obs = p.gen,
         p.cond["OS"] = "Succeeded", p.cond["K8s"] = "Succeeded",
         NEW i \in DOMAIN Workloads[p.rel], NextComponent(p, i),
         NEW x \in {"InProgress", "Succeeded", "Failed", "Skipped", "Error"},
         NEW w, Sets(p, w, Workloads[p.rel][i], x)
  PROVE  WellFormed(w) /\ StatusStep(p, w)
  <1> DEFINE W == Workloads[p.rel]
             c == W[i]
  <1>1. p.rel \in Release
    BY DEF WellFormed
  <1>2. /\ w.life = "live" /\ w.rel = p.rel /\ w.gen = p.gen /\ w.obs = w.gen /\ w.last = p.last
        /\ w.cond["OS"] = "Succeeded" /\ w.cond["K8s"] = "Succeeded"
        /\ \A k \in DOMAIN W : w.cond[W[k]] = IF W[k] = c THEN x ELSE p.cond[W[k]]
    BY <1>1, ComponentTypes DEF Sets
  <1>3. DOMAIN W = 1 .. Len(W) /\ Len(W) \in Nat /\ i \in Nat
    BY <1>1, ComponentTypes
  <1>4. /\ ~isHelmUpgradeFinished(p, c)
        /\ \A j \in 1 .. (i - 1) : isHelmUpgradeFinished(p, W[j])
    BY DEF NextComponent
  <1>5. \A k \in DOMAIN W :
           isHelmUpgradeFinished(w, W[k]) <=>
              \/ isHelmUpgradeFinished(p, W[k])
              \/ W[k] = c /\ x \in {"Succeeded", "Failed", "Skipped"}
    BY <1>2, <1>4 DEF isHelmUpgradeFinished, IsStatusConditionTrue
  <1>6. WellFormed(w)
    <2>1. \A u \in PendingConditions(p.rel) : w.cond[u] # "None"
      BY <1>1, <1>2, ComponentTypes DEF WellFormed, Components
    <2>2. ASSUME NEW k \in DOMAIN W, isHelmUpgradeFinished(w, W[k])
          PROVE  \E m \in DOMAIN W : /\ W[m] = W[k]
                                     /\ \A j \in 1 .. m : isHelmUpgradeFinished(w, W[j])
      <3>1. CASE isHelmUpgradeFinished(p, W[k])
        <4>1. PICK m \in DOMAIN W : /\ W[m] = W[k]
                                    /\ \A j \in 1 .. m : isHelmUpgradeFinished(p, W[j])
          BY <3>1 DEF WellFormed
        <4>2. QED
          BY <1>3, <1>5, <4>1
      <3>2. CASE W[k] = c /\ x \in {"Succeeded", "Failed", "Skipped"}
        <4>1. \A j \in 1 .. i : isHelmUpgradeFinished(w, W[j])
          BY <1>3, <1>4, <1>5, <3>2
        <4>2. QED
          BY <3>2, <4>1
      <3>3. QED
        BY <1>5, <2>2, <3>1, <3>2
    <2>3. QED
      BY <1>1, <1>2, <2>1, <2>2 DEF WellFormed
  <1>7. FinishedOf(p) = {W[j] : j \in 1 .. (i - 1)}
    <2>1. FinishedOf(p) = {d \in Components(p.rel) : isHelmUpgradeFinished(p, d)}
      BY StageOfObserved
    <2>2. ASSUME NEW k \in DOMAIN W, isHelmUpgradeFinished(p, W[k])
          PROVE  \E j \in 1 .. (i - 1) : W[k] = W[j]
      <3>1. PICK m \in DOMAIN W : /\ W[m] = W[k]
                                  /\ \A j \in 1 .. m : isHelmUpgradeFinished(p, W[j])
        BY <2>2 DEF WellFormed
      <3>2. m < i
        BY <1>3, <1>4, <3>1
      <3>3. QED
        BY <1>3, <3>1, <3>2
    <2>3. QED
      BY <1>3, <1>4, <2>1, <2>2 DEF Components
  <1>8. FinishedOf(w) = {d \in Components(p.rel) : isHelmUpgradeFinished(w, d)}
    BY <1>2, StageOfObserved
  <1>9. FinishedOf(p) = {d \in Components(p.rel) : isHelmUpgradeFinished(p, d)}
    BY StageOfObserved
  <1>10. StageOf(p) = "workloads" /\ StageOf(w) = "workloads"
    BY <1>2, StageOfObserved
  <1>11. CASE x \in {"Succeeded", "Failed", "Skipped"}
    <2>1. FinishedOf(w) = FinishedOf(p) \cup {c}
      BY <1>5, <1>8, <1>9, <1>11 DEF Components
    <2>2. QED
      BY <1>2, <1>6, <1>7, <1>10, <2>1 DEF StatusStep
  <1>12. CASE x \notin {"Succeeded", "Failed", "Skipped"}
    <2>1. FinishedOf(w) = FinishedOf(p)
      BY <1>5, <1>8, <1>9, <1>12 DEF Components
    <2>2. QED
      BY <1>2, <1>6, <1>10, <2>1 DEF StatusStep
  <1>13. QED
    BY <1>11, <1>12

\* The release is recorded when every component is finished.
LEMMA StatusRecord ==
  ASSUME NEW p \in PlanObject, WellFormed(p), p.life = "live", p.obs = p.gen,
         p.cond["OS"] = "Succeeded", p.cond["K8s"] = "Succeeded",
         \A i \in DOMAIN Workloads[p.rel] : isHelmUpgradeFinished(p, Workloads[p.rel][i])
  PROVE  LET w == [p EXCEPT !.last = p.rel] IN WellFormed(w) /\ StatusStep(p, w)
  <1> DEFINE w == [p EXCEPT !.last = p.rel]
  <1>1. SameStatus(p, w) /\ w.life = p.life /\ w.last = p.rel
    BY DEF PlanObject, SameStatus
  <1> HIDE DEF w
  <1>2. WellFormed(w) /\ StageOf(w) = StageOf(p) /\ FinishedOf(w) = FinishedOf(p)
    BY <1>1, SameStatusWellFormed
  <1>3. \A c \in Components(p.rel) : isHelmUpgradeFinished(p, c)
    BY DEF Components
  <1>4. StageOf(p) = "workloads" /\ FinishedOf(p) = Components(p.rel)
    BY <1>3, StageOfObserved
  <1>5. QED
    BY <1>1, <1>2, <1>4 DEF StatusStep, SameStatus, w

\* evaluateHelmChartState sets the component's condition to one of five reasons.
LEMMA EvaluateSets ==
  ASSUME NEW p \in PlanObject, NEW c \in Chart, NEW state
  PROVE  \E x \in {"InProgress", "Succeeded", "Failed", "Skipped", "Error"} :
            Sets(p, evaluateHelmChartState(p, c, state), c, x)
  <1>1. c \in ConditionType
    BY DEF ConditionType
  <1>2. evaluateHelmChartState(p, c, state) \in
           {setSkippedCondition(p, c), setInProgressCondition(p, c), setSuccessfulCondition(p, c),
            setFailedCondition(p, c), setErrorCondition(p, c)}
    BY DEF evaluateHelmChartState
  <1>3. QED
    BY <1>1, <1>2, SettersSet

\* So does reconcileHelmChart, unless it returns the plan as it is.
LEMMA ReconcileHelmChartSets ==
  ASSUME NEW p \in PlanObject, NEW c \in Chart, reconcileHelmChart(p, c)
  PROVE  \E w : /\ \E res : Return(w, res)
                /\ \/ w = p
                   \/ \E x \in {"InProgress", "Succeeded", "Failed", "Skipped", "Error"} :
                         Sets(p, w, c, x)
  <1> DEFINE Set(w) == \E x \in {"InProgress", "Succeeded", "Failed", "Skipped", "Error"} :
                          Sets(p, w, c, x)
  <1>1. Set(setFailedCondition(p, c))
    BY SettersSet DEF ConditionType
  <1>2. Set(CompletedPlan(p, c))
    BY EvaluateSets DEF CompletedPlan
  <1>3. ASSUME NEW i
        PROVE  StoppedPlan(p, c, i) = p \/ Set(StoppedPlan(p, c, i))
    BY <1>1, EvaluateSets DEF StoppedPlan
  <1>4. CASE Report(CompletedPlan(p, c), "requeue")
    BY <1>2, <1>4 DEF Report
  <1>5. CASE \E i \in DOMAIN Walk(c) :
               \/ writeHelmChart(Walk(c)[i], p, StoppedPlan(p, c, i), StoppedResult(p, c, i))
               \/ Report(StoppedPlan(p, c, i), StoppedResult(p, c, i))
    <2>1. PICK i \in DOMAIN Walk(c) :
               \/ writeHelmChart(Walk(c)[i], p, StoppedPlan(p, c, i), StoppedResult(p, c, i))
               \/ Report(StoppedPlan(p, c, i), StoppedResult(p, c, i))
      BY <1>5
    <2>2. \E w \in {p, StoppedPlan(p, c, i)} : \E res : Return(w, res)
      BY <2>1 DEF writeHelmChart, Report
    <2>3. QED
      BY <1>3, <2>2
  <1>6. CASE jobNameMissing(p, c)
    BY <1>6, EvaluateSets, JobNameMissingReports DEF ReportMissed
  <1>7. QED
    BY <1>4, <1>5, <1>6 DEF reconcileHelmChart

\* Every way through reconcileNormal returns a well formed plan that is at most
\* one step ahead.
LEMMA ReconcileNormalStatus ==
  ASSUME TypeOK, WellFormed(cache), cache.life = "live", reconcileNormal(cache)
  PROVE  \E w : (\E res : Return(w, res)) /\ WellFormed(w) /\ StatusStep(cache, w)
  <1> DEFINE p == cache
             Good(w) == WellFormed(w) /\ StatusStep(p, w)
  <1>0. p \in PlanObject /\ p.rel \in Release
    BY DEF TypeOK, WellFormed
  <1>1. Good(p)
    BY StatusSame DEF SameStatus
  <1>2. CASE createReleaseManifest(p) \/ ReconcileError(p)
    BY <1>1, <1>2 DEF createReleaseManifest, ReconcileError
  <1>3. CASE rejectUnsupportedNodes(p)
    <2>1. /\ SameStatus(p, [p EXCEPT !.invalid = TRUE])
          /\ [p EXCEPT !.invalid = TRUE].life = p.life /\ [p EXCEPT !.invalid = TRUE].last = p.last
      BY <1>0 DEF PlanObject, SameStatus
    <2>2. Good([p EXCEPT !.invalid = TRUE])
      BY <2>1, StatusSame
    <2>3. QED
      BY <1>3, <2>2 DEF rejectUnsupportedNodes, Report
  <1>4. CASE observeGeneration(p)
    <2>1. PICK s \in Suffix :
             \/ Report(p, "requeue")
             \/ Report(setPendingConditions([p EXCEPT !.sfx = s, !.obs = p.gen],
                                            PendingConditions(p.rel)), "requeue")
      BY <1>4 DEF observeGeneration
    <2>2. Good(setPendingConditions([p EXCEPT !.sfx = s, !.obs = p.gen], PendingConditions(p.rel)))
      BY <1>0, <1>4, StatusBegin DEF observeGeneration
    <2>3. QED
      BY <1>1, <2>1, <2>2 DEF Report
  <1>5. CASE p.obs = p.gen /\ ~OSUpgraded(p) /\ reconcileOS(p)
    <2>1. "OS" \in ConditionType
      BY DEF ConditionType
    <2>2. Good(setInProgressCondition(p, "OS")) /\ Good(setSuccessfulCondition(p, "OS"))
      BY <1>0, <1>5, <2>1, SettersSet, StatusStage DEF OSUpgraded, IsStatusConditionTrue
    <2>3. \E w \in {p, setInProgressCondition(p, "OS"), setSuccessfulCondition(p, "OS")} :
             \E res : Return(w, res)
      BY <1>5 DEF reconcileOS, createObject, Report
    <2>4. QED
      BY <1>1, <2>2, <2>3
  <1>6. CASE p.obs = p.gen /\ OSUpgraded(p) /\ ~KubernetesUpgraded(p) /\ reconcileKubernetes(p)
    <2>1. "K8s" \in ConditionType
      BY DEF ConditionType
    <2>2. Good(setInProgressCondition(p, "K8s")) /\ Good(setSuccessfulCondition(p, "K8s"))
      BY <1>0, <1>6, <2>1, SettersSet, StatusStage
      DEF OSUpgraded, KubernetesUpgraded, IsStatusConditionTrue
    <2>3. \E w \in {setInProgressCondition(p, "K8s"), setSuccessfulCondition(p, "K8s")} :
             \E res : Return(w, res)
      BY <1>6 DEF reconcileKubernetes, createObject, Report
    <2>4. QED
      BY <2>2, <2>3
  <1>7. CASE p.obs = p.gen /\ OSUpgraded(p) /\ KubernetesUpgraded(p) /\ reconcileWorkloads(p)
    <2>1. p.cond["OS"] = "Succeeded" /\ p.cond["K8s"] = "Succeeded"
      BY <1>7 DEF OSUpgraded, KubernetesUpgraded, IsStatusConditionTrue
    <2>2. ASSUME NEW i \in DOMAIN Workloads[p.rel], NextComponent(p, i),
                 reconcileHelmChart(p, Workloads[p.rel][i])
          PROVE  \E w : (\E res : Return(w, res)) /\ Good(w)
      <3>1. Workloads[p.rel][i] \in Chart
        BY <1>0, ComponentTypes
      <3>2. PICK w : /\ \E res : Return(w, res)
                     /\ \/ w = p
                        \/ \E x \in {"InProgress", "Succeeded", "Failed", "Skipped", "Error"} :
                              Sets(p, w, Workloads[p.rel][i], x)
        BY <1>0, <2>2, <3>1, ReconcileHelmChartSets
      <3>3. Good(w)
        BY <1>0, <1>1, <1>7, <2>1, <2>2, <3>2, StatusComponent
      <3>4. QED
        BY <3>2, <3>3
    <2>3. CASE /\ \A i \in DOMAIN Workloads[p.rel] : isHelmUpgradeFinished(p, Workloads[p.rel][i])
               /\ Report([p EXCEPT !.last = p.rel], "done")
      <3>1. Good([p EXCEPT !.last = p.rel])
        BY <1>0, <1>7, <2>1, <2>3, StatusRecord
      <3>2. QED
        BY <2>3, <3>1 DEF Report
    <2>4. QED
      BY <1>7, <2>2, <2>3 DEF reconcileWorkloads
  <1>8. QED
    BY <1>2, <1>3, <1>4, <1>5, <1>6, <1>7 DEF reconcileNormal
-----------------------------------------------------------------------------
(***************************************************************************)
(* Every step keeps the invariant and is a step of the staged upgrade.     *)
(***************************************************************************)

\* The stage of the stored plan after a step is the stage of what is stored.
LEMMA StagePrimed ==
  /\ StageOf(plan)' = StageOf(plan')
  /\ FinishedOf(plan)' = FinishedOf(plan')
  BY DEF StageOf, FinishedOf, OSUpgraded, KubernetesUpgraded, isHelmUpgradeFinished,
         IsStatusConditionTrue, Components

\* The invariant after a step is one of the copies after the step.
LEMMA StatusInvPrimed ==
  ASSUME WellFormed(plan'), WellFormed(cache'), WellFormed(base'), WellFormed(work'),
         pc' = "commit" => base'.life = "live" /\ StatusStep(base', work'),
         pc' \in {"deletePlans", "deleteSecrets"} => base'.life = "deleting" /\ work' = base'
  PROVE  StatusInv'
  <1>1. WellFormed(plan)' /\ WellFormed(cache)' /\ WellFormed(base)' /\ WellFormed(work)'
    BY DEF WellFormed, PendingConditions, isHelmUpgradeFinished, IsStatusConditionTrue
  <1>2. StatusStep(base, work)' = StatusStep(base', work')
    BY DEF StatusStep, StageOf, FinishedOf, OSUpgraded, KubernetesUpgraded,
           isHelmUpgradeFinished, IsStatusConditionTrue, Components
  <1>3. QED
    BY <1>1, <1>2 DEF StatusInv

\* A step that leaves the stage of the stored plan and the nodes alone.
LEMMA StutterStaged ==
  ASSUME plan'.life = plan.life, plan'.rel = plan.rel, plan'.last = plan.last,
         StageOf(plan') = StageOf(plan), FinishedOf(plan') = FinishedOf(plan),
         UNCHANGED <<os, kube>>
  PROVE  StagedStep
  BY StagePrimed DEF StagedStep, Staged!planVars, Staged!nodeVars

\* Storing a status that is one step ahead, once the nodes are there.
LEMMA StatusStepStaged ==
  ASSUME StageInv, WellFormed(plan), plan.life = "live", StatusStep(plan, work),
         plan' = work, WellFormed(work), UNCHANGED <<os, kube>>
  PROVE  StagedStep
  <1>0. work.life = "live" /\ work.rel = plan.rel /\ plan.rel \in Release /\ plan.rel # 0
    BY ReleaseAssumption DEF StatusStep, WellFormed
  <1>1. /\ StageOf(plan) # "workloads" => FinishedOf(plan) = {}
        /\ StageOf(work) # "workloads" => FinishedOf(work) = {}
    BY DEF FinishedOf
  <1>2. CASE plan'.last = plan.last /\ StageOf(work) = StageOf(plan) /\ FinishedOf(work) = FinishedOf(plan)
    BY <1>0, <1>2, StutterStaged
  <1>3. CASE plan'.last = plan.last /\ StageOf(plan) = "idle" /\ StageOf(work) = "os"
    <2>1. Staged!Begin
      BY <1>0, <1>1, <1>3, StagePrimed DEF Staged!Begin, Staged!nodeVars
    <2>2. QED
      BY <2>1 DEF StagedStep, Staged!StagedNext
  <1>4. CASE plan'.last = plan.last /\ StageOf(plan) = "os" /\ StageOf(work) = "kubernetes"
    <2>1. work.obs = work.gen /\ work.cond["OS"] = "Succeeded"
      BY <1>4 DEF StageOf, OSUpgraded, IsStatusConditionTrue
    <2>2. \A n \in Node : os[n] >= OSVersion[plan.rel]
      BY <1>0, <2>1 DEF StageInv, CopiesTruthful, StatusClaim
    <2>3. Staged!FinishOS
      BY <1>0, <1>1, <1>4, <2>2, StagePrimed DEF Staged!FinishOS, Staged!nodeVars
    <2>4. QED
      BY <2>3 DEF StagedStep, Staged!StagedNext
  <1>5. CASE /\ plan'.last = plan.last /\ StageOf(plan) = "kubernetes"
             /\ StageOf(work) = "workloads" /\ FinishedOf(work) = {}
    <2>1. work.obs = work.gen /\ work.cond["K8s"] = "Succeeded"
      BY <1>0, <1>5 DEF StageOf, OSUpgraded, KubernetesUpgraded, IsStatusConditionTrue
    <2>2. \A n \in Node : kube[n] >= KubeVersion[plan.rel]
      BY <1>0, <2>1 DEF StageInv, CopiesTruthful, StatusClaim
    <2>3. Staged!FinishKubernetes
      BY <1>0, <1>1, <1>5, <2>2, StagePrimed DEF Staged!FinishKubernetes, Staged!nodeVars
    <2>4. QED
      BY <2>3 DEF StagedStep, Staged!StagedNext
  <1>6. ASSUME plan'.last = plan.last, StageOf(plan) = "workloads", StageOf(work) = "workloads",
               NEW i \in DOMAIN Workloads[plan.rel],
               FinishedOf(plan) = {Workloads[plan.rel][j] : j \in 1 .. (i - 1)},
               FinishedOf(work) = FinishedOf(plan) \cup {Workloads[plan.rel][i]}
        PROVE  StagedStep
    <2>1. Staged!FinishComponent(i)
      BY <1>0, <1>6, StagePrimed DEF Staged!FinishComponent, Staged!nodeVars
    <2>2. QED
      BY <2>1 DEF StagedStep, Staged!StagedNext
  <1>7. CASE /\ plan'.last = plan.rel /\ StageOf(plan) = "workloads" /\ StageOf(work) = "workloads"
             /\ FinishedOf(plan) = Components(plan.rel) /\ FinishedOf(work) = Components(plan.rel)
    <2>1. Staged!Complete
      BY <1>7 DEF Staged!Complete, Staged!Component, Components
    <2>2. Staged!Record
      BY <1>0, <1>7, <2>1, StagePrimed DEF Staged!Record, Staged!nodeVars
    <2>3. QED
      BY <2>2 DEF StagedStep, Staged!StagedNext
  <1>8. QED
    BY <1>2, <1>3, <1>4, <1>5, <1>6, <1>7 DEF StatusStep

\* A plan is submitted.
LEMMA CreateRefines ==
  ASSUME RefinementInv, NEW r \in Release \cup {0}, CreatePlan(r)
  PROVE  WellFormed(plan') /\ StagedStep
  <1>1. /\ plan' = [NoPlan EXCEPT !.life = "live", !.rel = r, !.gen = 1]
        /\ plan.life = "absent" /\ UNCHANGED <<os, kube>>
    BY DEF CreatePlan, clusterVars, nodeVars
  <1>2. r \in Release
    BY DEF CreatePlan, ValidateCreate, validateReleaseVersion, NoPlan
  <1>3. /\ plan'.life = "live" /\ plan'.rel = r /\ plan'.gen = NoPlan.gen + 1
        /\ plan'.obs = NoPlan.obs /\ plan'.last = 0 /\ plan'.cond = NoPlan.cond
    BY <1>1 DEF NoPlan
  <1>4. WellFormed(plan') /\ StageOf(plan') = "idle" /\ FinishedOf(plan') = {}
    BY <1>2, <1>3, NoPlanType, NoPlanWellFormed, NewGeneration
  <1>5. plan.last = 0 /\ StageOf(plan) = "idle" /\ FinishedOf(plan) = {}
    BY <1>1 DEF RefinementInv, LastInv, NotOlder, StageOf, FinishedOf
  <1>6. Staged!Submit
    BY <1>1, <1>2, <1>3, <1>4, <1>5, StagePrimed DEF Staged!Submit, Staged!nodeVars
  <1>7. QED
    BY <1>4, <1>6 DEF StagedStep, Staged!StagedNext

\* The webhook accepts an edit only before an upgrade has begun or after it has
\* ended: no condition is Pending, InProgress or Error, so all of them are final.
LEMMA EditRefines ==
  ASSUME RefinementInv, NEW r \in Release \cup {0}, EditPlan(r)
  PROVE  WellFormed(plan') /\ StagedStep
  <1> DEFINE new == [plan EXCEPT !.rel = r, !.gen = @ + 1]
  <1>0. plan \in PlanObject /\ WellFormed(plan)
    BY DEF RefinementInv, StageInv, StatusInv, TypeOK
  <1>1. /\ new.life = plan.life /\ new.rel = r /\ new.gen = plan.gen + 1 /\ new.obs = plan.obs
        /\ new.last = plan.last /\ new.cond = plan.cond /\ new.fin = plan.fin
    BY <1>0 DEF PlanObject
  <1>2. /\ plan' = new /\ ValidateUpdate(plan, new) /\ plan.life \in {"live", "deleting"}
        /\ UNCHANGED <<os, kube>>
    BY DEF EditPlan, clusterVars, nodeVars
  <1> HIDE DEF new
  <1>3. /\ \A t \in ConditionType : plan.cond[t] \notin {"InProgress", "Pending", "Error"}
        /\ r \in Release /\ (plan.last # 0 => r > plan.last)
    BY <1>1, <1>2 DEF ValidateUpdate, FinalizerRemoved, DisallowingUpdateStates,
                      validateReleaseVersion, ReleaseIncremented
  <1>4. WellFormed(plan') /\ StageOf(plan') = "idle" /\ FinishedOf(plan') = {}
    BY <1>0, <1>1, <1>2, <1>3, NewGeneration
  <1>5. StageOf(plan) = "idle" \/ Staged!Complete
    <2>1. CASE plan.life = "live" /\ plan.obs = plan.gen
      <3>1. plan.rel \in Release /\ \A t \in PendingConditions(plan.rel) : plan.cond[t] # "None"
        BY <1>0, <2>1 DEF WellFormed
      <3>2. plan.cond["OS"] = "Succeeded" /\ plan.cond["K8s"] = "Succeeded"
        BY <1>0, <1>3, <3>1, ComponentTypes DEF WellFormed
      <3>3. \A c \in Components(plan.rel) : isHelmUpgradeFinished(plan, c)
        <4> SUFFICES ASSUME NEW c \in Components(plan.rel)
                     PROVE  isHelmUpgradeFinished(plan, c)
          OBVIOUS
        <4>1. c \in ConditionType /\ c \in PendingConditions(plan.rel)
          BY <3>1, ComponentTypes
        <4>2. plan.cond[c] \in Reason
          BY <1>0, <4>1 DEF PlanObject
        <4>3. QED
          BY <1>3, <3>1, <4>1, <4>2 DEF Reason, isHelmUpgradeFinished, IsStatusConditionTrue
      <3>4. StageOf(plan) = "workloads" /\ FinishedOf(plan) = Components(plan.rel)
        BY <2>1, <3>2, <3>3, StageOfObserved
      <3>5. QED
        BY <3>4 DEF Staged!Complete, Staged!Component, Components
    <2>2. CASE ~(plan.life = "live" /\ plan.obs = plan.gen)
      BY <2>2 DEF StageOf
    <2>3. QED
      BY <2>1, <2>2
  <1>6. Staged!Edit
    BY <1>1, <1>2, <1>3, <1>4, <1>5, StagePrimed DEF Staged!Edit, Staged!nodeVars
  <1>7. QED
    BY <1>4, <1>6 DEF StagedStep, Staged!StagedNext

\* A plan is deleted.
LEMMA DeleteRefines ==
  ASSUME RefinementInv, DeletePlan
  PROVE  WellFormed(plan') /\ StagedStep
  <1>0. plan \in PlanObject /\ WellFormed(plan) /\ plan.life = "live" /\ UNCHANGED <<os, kube>>
    BY DEF RefinementInv, StageInv, StatusInv, TypeOK, DeletePlan, clusterVars, nodeVars
  <1>1. /\ plan'.rel = plan.rel /\ plan'.last = plan.last /\ plan'.obs = plan.obs
        /\ plan'.cond = plan.cond /\ plan'.life \in {"deleting", "gone"}
        /\ plan'.life = "gone" => plan'.gen = plan.gen
        /\ plan'.life = "deleting" => plan'.gen = plan.gen + 1
    BY <1>0 DEF DeletePlan, PlanObject
  <1>2. WellFormed(plan')
    <2>1. CASE plan'.life = "gone"
      BY <1>0, <1>1, <2>1, SameStatusWellFormed DEF SameStatus
    <2>2. CASE plan'.life = "deleting"
      BY <1>0, <1>1, <2>2, NewGeneration DEF WellFormed
    <2>3. QED
      BY <1>1, <2>1, <2>2
  <1>3. StageOf(plan') = "idle" /\ FinishedOf(plan') = {}
    BY <1>1 DEF StageOf, FinishedOf
  <1>4. Staged!Delete
    BY <1>0, <1>1, <1>3, StagePrimed DEF Staged!Delete, Staged!nodeVars
  <1>5. QED
    BY <1>2, <1>4 DEF StagedStep, Staged!StagedNext

\* Users take steps of the staged upgrade.
LEMMA UserRefines ==
  ASSUME RefinementInv, User
  PROVE  StatusInv' /\ StagedStep
  <1>1. UNCHANGED <<cache, base, work, pc>>
    BY DEF User, DeletePlan, CreatePlan, EditPlan, localVars
  <1>2. WellFormed(plan') /\ StagedStep
    BY CreateRefines, EditRefines, DeleteRefines DEF User
  <1>3. QED
    BY <1>1, <1>2, StatusInvPrimed DEF RefinementInv, StatusInv

\* SUC moves nodes forward.
LEMMA SUCStepRefines ==
  ASSUME RefinementInv, TypeOK', SUCStep
  PROVE  StatusInv' /\ StagedStep
  <1>1. UNCHANGED <<plan, cache, base, work, pc>>
    BY DEF SUCStep, localVars
  <1>2. StatusInv'
    BY <1>1, StatusInvPrimed DEF RefinementInv, StatusInv
  <1>3. Grows
    BY SUCStepGrows DEF RefinementInv, StageInv
  <1>4. os' \in [Node -> Nat] /\ kube' \in [Node -> Nat]
    BY DEF TypeOK, ClusterTypeOK
  <1>5. Staged!UpgradeNodes
    BY <1>1, <1>3, <1>4, StagePrimed DEF Grows, Staged!UpgradeNodes, Staged!planVars
  <1>6. QED
    BY <1>2, <1>5 DEF StagedStep, Staged!StagedNext

\* Steps that leave the stored plan and the nodes alone and move no copy but to
\* another that is there already.
LEMMA CopiesRefine ==
  ASSUME RefinementInv,
         \/ JobStep
         \/ Informer \/ RequeueAfterElapses \/ Restart \/ UNCHANGED vars
  PROVE  StatusInv' /\ StagedStep
  <1>1. /\ UNCHANGED <<plan, os, kube>> /\ cache' \in {plan, cache}
        /\ \/ UNCHANGED <<base, work, pc>>
           \/ base' = NoPlan /\ work' = NoPlan /\ pc' = "idle"
    BY DEF JobStep, ManifestJobSucceeds, ManifestJobFails, ManifestJobExpires, RemoveHelmJob,
           StartHelmJob, HelmJobSucceeds, HelmJobFails, UpgradeCore, Informer, SyncPlan,
           ResyncSecret, SyncObject, RequeueAfterElapses, Restart, vars, localVars, clusterVars,
           sucVars, nodeVars, helmVars
  <1>2. StatusInv'
    BY <1>1, NoPlanWellFormed, StatusInvPrimed DEF RefinementInv, StatusInv
  <1>3. StagedStep
    BY <1>1, StutterStaged
  <1>4. QED
    BY <1>2, <1>3

\* A reconciliation leaves the cached plan and the nodes alone.
LEMMA ReconcileKeeps ==
  ASSUME Reconcile
  PROVE  UNCHANGED <<cache, nodeVars>>
  <1>1. CASE cache.life = "live" /\ cache.fin /\ reconcileNormal(cache)
    <2>1. ASSUME NEW w, NEW res, Report(w, res)
          PROVE  UNCHANGED <<cache, nodeVars>>
      BY <2>1 DEF Report, Return, clusterVars
    <2>2. ASSUME NEW o, NEW w, createObject(o, w)
          PROVE  UNCHANGED <<cache, nodeVars>>
      BY <2>2 DEF createObject, Return
    <2>3. ASSUME NEW h, NEW w, NEW res, writeHelmChart(h, cache, w, res)
          PROVE  UNCHANGED <<cache, nodeVars>>
      BY <2>3 DEF writeHelmChart, Return
    <2>4. CASE createReleaseManifest(cache) \/ ReconcileError(cache)
      BY <2>4 DEF createReleaseManifest, ReconcileError, Return, clusterVars
    <2>5. CASE rejectUnsupportedNodes(cache) \/ observeGeneration(cache)
      BY <2>1, <2>5 DEF rejectUnsupportedNodes, observeGeneration
    <2>6. CASE reconcileOS(cache)
      BY <2>1, <2>2, <2>6 DEF reconcileOS
    <2>7. CASE reconcileKubernetes(cache)
      BY <2>1, <2>2, <2>7 DEF reconcileKubernetes
    <2>8. ASSUME NEW c, jobNameMissing(cache, c)
          PROVE  UNCHANGED <<cache, nodeVars>>
      BY <2>8, JobNameMissingReports DEF ReportMissed, Return, clusterVars
    <2>9. CASE reconcileWorkloads(cache)
      BY <2>1, <2>3, <2>8, <2>9 DEF reconcileWorkloads, reconcileHelmChart
    <2>10. QED
      BY <1>1, <2>4, <2>5, <2>6, <2>7, <2>9 DEF reconcileNormal
  <1>2. CASE ~(cache.life = "live" /\ cache.fin /\ reconcileNormal(cache))
    BY <1>2 DEF Reconcile, listPlans, AddFinalizer, clusterVars
  <1>3. QED
    BY <1>1, <1>2

\* A reconciliation changes the stored plan by its finalizer at most.
LEMMA ReconcileRefines ==
  ASSUME RefinementInv, Reconcile
  PROVE  StatusInv' /\ StagedStep
  <1>0. TypeOK /\ plan \in PlanObject /\ WellFormed(plan) /\ WellFormed(cache) /\ StatusInv
    BY DEF RefinementInv, StageInv, TypeOK, StatusInv
  <1>1. UNCHANGED <<cache, os, kube>>
    BY ReconcileKeeps DEF nodeVars
  <1>2. CASE UNCHANGED <<plan, cache, localVars>>
    BY <1>0, <1>1, <1>2, StutterStaged, StatusInvPrimed DEF StatusInv, localVars
  <1>3. CASE cache.life = "deleting" /\ listPlans(cache)
    BY <1>0, <1>1, <1>3, StutterStaged, StatusInvPrimed DEF listPlans, StatusInv
  <1>4. CASE AddFinalizer(cache)
    <2>1. UNCHANGED <<base, work, pc>> /\ plan' \in {plan, [plan EXCEPT !.fin = TRUE]}
      BY <1>4 DEF AddFinalizer, localVars
    <2>2. SameStatus(plan, plan') /\ plan'.life = plan.life /\ plan'.last = plan.last
      BY <1>0, <2>1 DEF SameStatus, PlanObject
    <2>3. /\ WellFormed(plan') /\ plan'.rel = plan.rel
          /\ StageOf(plan') = StageOf(plan) /\ FinishedOf(plan') = FinishedOf(plan)
      BY <1>0, <2>2, SameStatusWellFormed DEF SameStatus
    <2>4. QED
      BY <1>0, <1>1, <2>1, <2>2, <2>3, StutterStaged, StatusInvPrimed DEF StatusInv
  <1>5. CASE cache.life = "live" /\ reconcileNormal(cache)
    <2>1. PICK w : (\E res : Return(w, res)) /\ WellFormed(w) /\ StatusStep(cache, w)
      BY <1>0, <1>5, ReconcileNormalStatus
    <2>2. UNCHANGED plan /\ base' = cache /\ work' = w /\ pc' = "commit"
      BY <2>1 DEF Return
    <2>3. QED
      BY <1>0, <1>1, <1>5, <2>1, <2>2, StutterStaged, StatusInvPrimed
  <1>6. QED
    BY <1>2, <1>3, <1>4, <1>5 DEF Reconcile

\* The deferred status update takes the step that the reconciliation decided on.
LEMMA CommitRefines ==
  ASSUME RefinementInv, Commit
  PROVE  StatusInv' /\ StagedStep
  <1>0. StageInv /\ StatusInv /\ pc = "commit" /\ UNCHANGED <<cache, os, kube>>
    BY DEF RefinementInv, Commit, clusterVars, nodeVars
  <1>1. base' = NoPlan /\ work' = NoPlan /\ pc' = "idle"
    BY DEF Commit, Finish
  <1>2. plan' = plan \/ (base = plan /\ plan' = work)
    BY DEF Commit
  <1>3. StatusInv'
    BY <1>0, <1>1, <1>2, NoPlanWellFormed, StatusInvPrimed DEF StatusInv
  <1>4. CASE plan' = plan
    BY <1>0, <1>3, <1>4, StutterStaged
  <1>5. CASE base = plan /\ plan' = work
    BY <1>0, <1>3, <1>5, StatusStepStaged DEF StatusInv
  <1>6. QED
    BY <1>2, <1>4, <1>5

\* Removing the finalizer ends a deletion; the steps before leave the plan alone.
LEMMA DeletionRefines ==
  ASSUME RefinementInv, deletePlans \/ deleteSecrets \/ RemoveFinalizer
  PROVE  StatusInv' /\ StagedStep
  <1>0. StatusInv /\ TypeOK /\ plan \in PlanObject /\ WellFormed(plan)
    BY DEF RefinementInv, StageInv, TypeOK, StatusInv
  <1>1. UNCHANGED <<cache, os, kube>>
    BY DEF deletePlans, deleteSecrets, RemoveFinalizer, deleteListed, RemoveObject,
           clusterVars, nodeVars
  <1>2. \/ /\ UNCHANGED <<base, work>>
           /\ pc \in {"deletePlans", "deleteSecrets"} /\ pc' \in {"deletePlans", "deleteSecrets"}
        \/ base' = NoPlan /\ work' = NoPlan /\ pc' = "idle"
    BY DEF deletePlans, deleteSecrets, RemoveFinalizer, deleteListed, Finish
  <1>3. plan' = plan \/ (pc = "deleteSecrets" /\ base = plan
                         /\ plan' = [[work EXCEPT !.fin = FALSE] EXCEPT !.life = "gone"])
    BY DEF deletePlans, deleteSecrets, RemoveFinalizer
  <1>4. CASE plan' = plan
    BY <1>0, <1>1, <1>2, <1>4, NoPlanWellFormed, StutterStaged, StatusInvPrimed DEF StatusInv
  <1>5. CASE /\ pc = "deleteSecrets" /\ base = plan
             /\ plan' = [[work EXCEPT !.fin = FALSE] EXCEPT !.life = "gone"]
    <2>1. work = plan /\ plan.life = "deleting"
      BY <1>0, <1>5 DEF StatusInv
    <2>2. SameStatus(plan, plan') /\ plan'.life = "gone" /\ plan'.last = plan.last /\ plan'.rel = plan.rel
      BY <1>0, <1>5, <2>1 DEF PlanObject, SameStatus
    <2>3. StageOf(plan') = "idle" /\ FinishedOf(plan') = {}
      BY <2>2 DEF StageOf, FinishedOf
    <2>4. Staged!Delete
      BY <1>1, <2>1, <2>2, <2>3, StagePrimed DEF Staged!Delete, Staged!nodeVars
    <2>5. WellFormed(plan')
      BY <1>0, <2>2, SameStatusWellFormed
    <2>6. StatusInv'
      BY <1>0, <1>1, <1>2, <2>5, NoPlanWellFormed, StatusInvPrimed DEF StatusInv
    <2>7. QED
      BY <2>4, <2>6 DEF StagedStep, Staged!StagedNext
  <1>6. QED
    BY <1>3, <1>4, <1>5

\* The invariant is inductive, and every step is one of the staged upgrade.
LEMMA NextRefines == RefinementInv /\ [Next]_vars => RefinementInv' /\ StagedStep
  <1> SUFFICES ASSUME RefinementInv, [Next]_vars PROVE RefinementInv' /\ StagedStep
    OBVIOUS
  <1>1. StageInv' /\ LastInv' /\ TypeOK'
    BY NextStages, NextLast DEF RefinementInv, StageInv
  <1>2. StatusInv' /\ StagedStep
    BY <1>1, UserRefines, SUCStepRefines, CopiesRefine, ReconcileRefines, CommitRefines,
       DeletionRefines DEF Next, Controller
  <1>3. QED
    BY <1>1, <1>2 DEF RefinementInv

\* Initially there is no plan.
LEMMA InitRefines == Init => RefinementInv /\ Staged!StagedInit
  <1> SUFFICES ASSUME Init PROVE RefinementInv /\ Staged!StagedInit
    OBVIOUS
  <1>1. StageInv /\ LastInv
    BY InitStages, InitLast
  <1>2. StatusInv
    BY NoPlanWellFormed DEF Init, StatusInv
  <1>3. os \in [Node -> Nat] /\ kube \in [Node -> Nat]
    BY <1>1 DEF StageInv, TypeOK, ClusterTypeOK
  <1>4. plan = NoPlan /\ StageOf(plan) = "idle" /\ FinishedOf(plan) = {}
    BY DEF Init, NoPlan, StageOf, FinishedOf
  <1>5. Staged!StagedInit
    BY <1>3, <1>4 DEF NoPlan, Staged!StagedInit
  <1>6. QED
    BY <1>1, <1>2, <1>5 DEF RefinementInv

\* The reconciler implements the staged upgrade: seen through the stored plan,
\* stages are left one by one, in order and not before the nodes are there,
\* components are finished in the order of the release, the release is recorded
\* last, and no edit is let through while an upgrade is under way. It holds for
\* every interleaving of stale reads, conflicts, failed calls, restarts, edits
\* and deletions, for every set of nodes, releases and charts.
THEOREM UpgradesInStagesCorrect == Spec => UpgradesInStages
  <1>1. Spec => []RefinementInv
    BY InitRefines, NextRefines, PTL DEF Spec
  <1>2. RefinementInv /\ [Next]_vars => [Staged!StagedNext]_<<Staged!planVars, Staged!nodeVars>>
    BY NextRefines DEF StagedStep
  <1>3. QED
    BY <1>1, <1>2, InitRefines, PTL DEF Spec, UpgradesInStages, Staged!StagedSpec
=============================================================================
