----------------------------- MODULE UpgradePlan -----------------------------
(***************************************************************************)
(* The UpgradePlan custom resource (api/v1alpha1): its spec, its status    *)
(* and conditions, the condition setters of the controller, and the        *)
(* validating admission webhook that guards creations and edits.           *)
(*                                                                         *)
(* A condition's Status is a function of its Reason, because every setter  *)
(* writes a fixed pair; a condition is therefore modelled by its reason.   *)
(* spec.disableDrain and spec.helm decide nothing here (parseDrainOptions  *)
(* and ComponentReads have them); an edit of them is one that keeps the    *)
(* release version.                                                        *)
(***************************************************************************)
EXTENDS ReleaseManifest

CONSTANT Suffix    \* the values GenerateSuffix can return

NoSuffix == "none"

ASSUME SuffixAssumption == NoSuffix \notin Suffix

\* Condition types: OSUpgraded, KubernetesUpgraded and, per chart,
\* GetChartConditionType(prettyName).
ConditionType == {"OS", "K8s"} \cup Chart

\* Condition reasons; "None" is a condition that has never been set.
Reason == {"None", "Pending", "InProgress", "Succeeded", "Failed", "Skipped",
           "Error"}

\* life:    absent (never created), live, deleting (deletionTimestamp), gone
\* fin:     the controller's finalizer is present
\* rel:     spec.releaseVersion          gen: metadata.generation
\* obs:     status.observedGeneration    sfx: status.sucNameSuffix
\* last:    status.lastSuccessfulReleaseVersion
\* invalid: the ValidationFailed condition is True
\* cond:    the upgrade conditions
PlanObject ==
    [life: {"absent", "live", "deleting", "gone"}, fin: BOOLEAN,
     rel: Release \cup {0}, gen: Nat, obs: Nat, sfx: Suffix \cup {NoSuffix},
     last: Release \cup {0}, invalid: BOOLEAN,
     cond: [ConditionType -> Reason]]

\* No object at all: what a read returns before creation, and the value of
\* the reconciler's locals between two reconciliations.
NoPlan ==
    [life |-> "absent", fin |-> FALSE, rel |-> 0, gen |-> 0, obs |-> 0,
     sfx |-> NoSuffix, last |-> 0, invalid |-> FALSE,
     cond |-> [t \in ConditionType |-> "None"]]
-----------------------------------------------------------------------------
(* The condition setters of upgradeplan_controller.go.                     *)

\* Defect: a condition that is already final is kept.
setPendingConditions_KeepFinal(p, types) ==
    [p EXCEPT !.cond = [t \in ConditionType |->
                            IF t \in types /\ p.cond[t] = "None" THEN "Pending" ELSE p.cond[t]]]

\* Defect: the whole status is reset.
setPendingConditions_ResetStatus(p, types) ==
    [p EXCEPT !.last = 0,
              !.cond = [t \in ConditionType |->
                            IF t \in types THEN "Pending" ELSE p.cond[t]]]

setPendingConditions(p, types) ==
    [p EXCEPT !.cond = [t \in ConditionType |->
                            IF t \in types THEN "Pending" ELSE p.cond[t]]]

setInProgressCondition(p, t) == [p EXCEPT !.cond[t] = "InProgress"]

setSuccessfulCondition(p, t) == [p EXCEPT !.cond[t] = "Succeeded"]

setFailedCondition(p, t) == [p EXCEPT !.cond[t] = "Failed"]

setSkippedCondition(p, t) == [p EXCEPT !.cond[t] = "Skipped"]

\* Defect: the status is written in place of the reason.
setErrorCondition_Status(p, t) == [p EXCEPT !.cond[t] = "Unknown"]

setErrorCondition(p, t) == [p EXCEPT !.cond[t] = "Error"]

\* meta.IsStatusConditionTrue: only Succeeded is written with Status True.
IsStatusConditionTrue(p, t) == p.cond[t] = "Succeeded"

\* Defect: an upgrade that has started counts as finished.
isHelmUpgradeFinished_Started(p, t) == p.cond[t] \notin {"None", "Pending"}

isHelmUpgradeFinished(p, t) ==
    IsStatusConditionTrue(p, t) \/ p.cond[t] \in {"Skipped", "Failed"}
-----------------------------------------------------------------------------
(* The validating webhook.                                                 *)

validateReleaseVersion(rel) == rel # 0

ValidateCreate(new) == validateReleaseVersion(new.rel)

\* Defect: a plan can be edited before its upgrade has begun.
DisallowingUpdateStates_NotPending == {"InProgress", "Error"}

DisallowingUpdateStates == {"InProgress", "Pending", "Error"}

FinalizerRemoved(old, new) == new.life = "deleting" /\ old.fin /\ ~new.fin

\* The release version must grow once a release has been applied.
ReleaseIncremented(old, new) == old.last # 0 => new.rel > old.last

ValidateUpdate(old, new) ==
    \/ FinalizerRemoved(old, new)
    \/ /\ \A t \in ConditionType : new.cond[t] \notin DisallowingUpdateStates
       /\ validateReleaseVersion(new.rel)
       /\ ReleaseIncremented(old, new)
=============================================================================
