----------------------------- MODULE HelmUpgrade -----------------------------
(***************************************************************************)
(* The Helm part of the reconciler (internal/controller/helm.go and        *)
(* reconcile_helm.go): the state of one chart as upgradeHelmChart reports  *)
(* it, and what reconcileHelmChart makes of the states of a component's    *)
(* dependencies, of the component itself and of its add-ons.               *)
(*                                                                         *)
(* A component is reconciled by walking the charts of Walk(c) in order     *)
(* until one of them stops the walk. Only a chart whose state is           *)
(* InProgress is ever written, and such a chart always stops the walk, so  *)
(* one reconciliation writes at most one HelmChart.                        *)
(***************************************************************************)
EXTENDS Cluster

\* The job finished with the JobComplete or with the JobFailed condition.
JobFinished(j) == j.st \in {"complete", "failed"}

\* upgradeHelmChart creates or updates the HelmChart resource of chart h.
writesHelmChart(h, rel) ==
    /\ installed[h] # 0
    /\ hc[h].ver # ChartVersion[rel][h]
    /\ hc[h].ver = 0 => installed[h] # ChartVersion[rel][h]

\* The state upgradeHelmChart returns. A HelmChart of the wanted version that
\* carries another release's annotation counts as already installed.
upgradeHelmChart(h, rel) ==
    CASE installed[h] = 0 -> "NotInstalled"
      [] installed[h] # 0 /\ writesHelmChart(h, rel) -> "InProgress"
      [] installed[h] # 0 /\ ~writesHelmChart(h, rel) /\ hc[h].ann # rel ->
             "VersionAlreadyInstalled"
      [] OTHER ->
             CASE job[h].st = "none"     -> "Unknown"
               [] job[h].st = "running"  -> "InProgress"
               [] job[h].st = "complete" -> "Succeeded"
               [] job[h].st = "failed"   -> "Failed"

\* updateHelmChart and createHelmChart: the chart as written.
HelmChartFor(h, rel) == [ver |-> ChartVersion[rel][h], ann |-> rel]

\* Defect: a chart that is skipped is reported as upgraded.
evaluateHelmChartState_SkippedSucceeds(p, t, state) ==
    CASE state = "InProgress" -> setInProgressCondition(p, t)
      [] state = "Failed"     -> setFailedCondition(p, t)
      [] state = "Unknown"    -> setErrorCondition(p, t)
      [] OTHER                -> setSuccessfulCondition(p, t)

\* evaluateHelmChartState: the condition to set on plan p ...
evaluateHelmChartState(p, t, state) ==
    CASE state \in {"NotInstalled", "VersionAlreadyInstalled"} -> setSkippedCondition(p, t)
      [] state = "InProgress" -> setInProgressCondition(p, t)
      [] state = "Succeeded"  -> setSuccessfulCondition(p, t)
      [] state = "Failed"     -> setFailedCondition(p, t)
      [] OTHER                -> setErrorCondition(p, t)

\* ... and whether to requeue.
evaluateRequeue(state) ==
    IF state \in {"InProgress", "Unknown"} THEN "done" ELSE "requeue"
-----------------------------------------------------------------------------
(* reconcileHelmChart.                                                     *)

\* Dependencies first, then the component, then its add-ons.
Walk(c) == Dependencies[c] \o <<c>> \o Addons[c]

CoreIndex(c) == Len(Dependencies[c]) + 1

\* Defect: a chart whose job has finished counts as upgraded, even if it failed.
Upgraded_Finished(state) ==
    state \in {"Succeeded", "VersionAlreadyInstalled", "Failed"}

Upgraded(state) == state \in {"Succeeded", "VersionAlreadyInstalled"}

\* The i-th chart of the walk ends this reconciliation: a dependency or the
\* component that is not upgraded, an add-on that is still being upgraded.
Stops(c, i, rel) ==
    LET state == upgradeHelmChart(Walk(c)[i], rel)
    IN  IF i <= CoreIndex(c) THEN ~Upgraded(state)
                             ELSE state \in {"InProgress", "Unknown"}

StopsFirst(c, i, rel) ==
    /\ Stops(c, i, rel)
    /\ \A j \in 1 .. (i - 1) : ~Stops(c, j, rel)

\* The plan and the result when the i-th chart stops the walk.
StoppedPlan(p, c, i) ==
    LET state == upgradeHelmChart(Walk(c)[i], p.rel)
    IN  CASE i = CoreIndex(c) /\ state = "NotInstalled" /\ Dependencies[c] # <<>> ->
                setFailedCondition(p, c)
          [] i > CoreIndex(c) /\ state = "Unknown" -> p
          [] OTHER -> evaluateHelmChartState(p, c, state)

StoppedResult(p, c, i) ==
    LET state == upgradeHelmChart(Walk(c)[i], p.rel)
    IN  IF i > CoreIndex(c) /\ state = "InProgress" THEN "requeue"
                                                    ELSE evaluateRequeue(state)

\* The condition when no chart stops the walk is the component's own.
CompletedPlan(p, c) == evaluateHelmChartState(p, c, upgradeHelmChart(c, p.rel))
=============================================================================
