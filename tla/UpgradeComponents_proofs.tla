---------------------- MODULE UpgradeComponents_proofs -----------------------
(***************************************************************************)
(* The Helm stage: order of components and dependencies, and what is       *)
(* reported about them.                                                    *)
(*                                                                         *)
(* The reconciler writes HelmCharts for a cached plan. The argument: the   *)
(* cache lags behind the stored plan, but a generation is observed only by *)
(* a reconciliation of it, so a cached plan that has been observed has all *)
(* that is finished in common with the stored one, and when the stored one *)
(* has been observed too, they are of the same release (OrderInv).         *)
(* Jobs and HelmCharts are changed only by the Helm Controller and by such *)
(* writes; what a copy reports as successful has been installed by the job *)
(* of the HelmChart that the release asks for, and nothing changes either  *)
(* for as long as the copy is the latest of its generation (Settled).      *)
(* Releases may ask for the same version of a chart, and then a HelmChart  *)
(* of another release counts as installed; its job is over by then, since  *)
(* a job that is not blocks the edits that change the release (OpenInv).   *)
(***************************************************************************)
EXTENDS UpgradeRefinement_proofs

\* No chart is listed twice in a release, as a component, dependency or add-on.
ChartsListedOnce ==
    \A r \in Release : \A i, j \in DOMAIN Workloads[r] :
        \A a \in DOMAIN Walk(Workloads[r][i]), b \in DOMAIN Walk(Workloads[r][j]) :
            Walk(Workloads[r][i])[a] = Walk(Workloads[r][j])[b] => i = j /\ a = b

\* The Helm Controller has removed every job of an earlier version of its chart.
NoStaleJob == \A h \in Chart : job[h].st = "none" \/ job[h].ver = hc[h].ver

\* The Helm Controller is prompt: it has done so whenever a plan is reconciled.
PromptHelmController == [][pc = "idle" /\ pc' = "commit" => NoStaleJob]_vars
-----------------------------------------------------------------------------
\* Everything that is finished in p is finished in q.
FinishedIn(p, q) == \A t \in Chart : isHelmUpgradeFinished(p, t) => isHelmUpgradeFinished(q, t)

\* The status w continues that of p, unless it begins a generation.
Continues(p, w) ==
    /\ w.gen = p.gen
    /\ p.obs = p.gen => w.obs = p.obs /\ FinishedIn(p, w)

\* How far the stored plan can be ahead of the cached one.
OrderInv ==
    /\ plan.life = "absent" => plan = NoPlan
    /\ cache.gen <= plan.gen
    /\ plan.obs <= cache.gen
    /\ cache.gen = plan.gen => cache.rel = plan.rel
    /\ cache.obs = cache.gen => FinishedIn(cache, plan)
    /\ pc = "commit" => base.gen <= cache.gen /\ Continues(base, work)
    /\ pc = "commit" /\ base = plan => cache = plan

\* Chart c has been installed by the job of the HelmChart of release r.
InstalledFor(c, r) ==
    /\ hc[c] = HelmChartFor(c, r)
    /\ job[c] = [st |-> "complete", ver |-> ChartVersion[r][c]]
    /\ installed[c] = ChartVersion[r][c]

InstalledCharts == {x \in Chart \X Release : InstalledFor(x[1], x[2])}

\* What the copy p reports as successful is in the set d.
Settled(p, d) ==
    p.life # "absent" /\ p.obs = p.gen =>
        \A c \in Components(p.rel) : p.cond[c] = "Succeeded" => <<c, p.rel>> \in d

SettledInv ==
    /\ Settled(plan, InstalledCharts) /\ Settled(cache, InstalledCharts)
    /\ Settled(base, InstalledCharts) /\ Settled(work, InstalledCharts)

\* HelmCharts and jobs.
HelmInv ==
    \A h \in Chart :
        /\ hc[h].ann # 0 => hc[h] = HelmChartFor(h, hc[h].ann)
        /\ hc[h].ann = 0 /\ hc[h].ver # 0 =>
             job[h] = [st |-> "complete", ver |-> hc[h].ver] /\ installed[h] = hc[h].ver
        /\ job[h].st = "complete" => installed[h] = job[h].ver

\* The Helm Controller has jobs for existing HelmCharts of installed charts only.
JobInv ==
    \A h \in Chart :
        /\ hc[h].ver # 0 => installed[h] # 0
        /\ hc[h].ver = 0 => job[h].st = "none"
        /\ job[h].st # "none" => job[h].ver # 0

\* The job of a HelmChart that the controller has written is not over.
Open(h) == hc[h].ann # 0 /\ ~(JobFinished(job[h]) /\ job[h].ver = hc[h].ver)

\* The charts of which this is so, with the releases they are written for.
OpenCharts == {x \in Chart \X Release : hc[x[1]].ann = x[2] /\ Open(x[1])}

\* Nothing that is under way stops the walk of component c.
Rests(c, r) ==
    \A i \in DOMAIN Walk(c) :
        StopsFirst(c, i, r) => upgradeHelmChart(Walk(c)[i], r) \notin {"InProgress", "Unknown"}

Resting == {x \in Chart \X Release : Rests(x[1], x[2])}

\* The walk of component c gets to its i-th chart, and leaves no open one behind.
Reaches(c, r, i) == \A j \in 1 .. (i - 1) : ~Stops(c, j, r) /\ ~Open(Walk(c)[j])

Reached ==
    {x \in Chart \X Release \X Nat : x[3] \in DOMAIN Walk(x[1]) /\ Reaches(x[1], x[2], x[3])}

\* Every open chart is of the plan's release, and the walk of a component that
\* the plan reports as unfinished has got to it.
Pursued(p, open, reached) ==
    \A x \in open :
        /\ x[2] = p.rel
        /\ \E k \in DOMAIN Workloads[p.rel] :
             /\ p.cond[Workloads[p.rel][k]] \in DisallowingUpdateStates
             /\ \E i \in DOMAIN Walk(Workloads[p.rel][k]) :
                  /\ x[1] = Walk(Workloads[p.rel][k])[i]
                  /\ <<Workloads[p.rel][k], p.rel, i>> \in reached

\* Every component of an observed plan p has a condition in q, and the walk of one
\* that is finished in q is at rest.
Covers(p, q, resting) ==
    p.life # "absent" /\ p.obs = p.gen =>
        \A k \in DOMAIN Workloads[p.rel] :
            /\ q.cond[Workloads[p.rel][k]] # "None"
            /\ isHelmUpgradeFinished(q, Workloads[p.rel][k]) =>
                 <<Workloads[p.rel][k], p.rel>> \in resting

\* The webhook rejects edits.
Blocked(p) == \E t \in ConditionType : p.cond[t] \in DisallowingUpdateStates

OpenInv ==
    /\ Pursued(plan, OpenCharts, Reached)
    /\ Covers(plan, plan, Resting) /\ Covers(cache, plan, Resting)
    /\ pc = "commit" /\ base = plan =>
         Pursued(work, OpenCharts, Reached) /\ Covers(work, work, Resting)
    /\ cache.rel # plan.rel => ~Blocked(plan)

\* The inductive invariants: without a prompt Helm Controller and, with one, of
\* what is reported and of what is under way.
ComponentInv == RefinementInv /\ OrderInv /\ HelmInv
OutcomeInv == ComponentInv /\ SettledInv
WalkInv == ComponentInv /\ JobInv /\ OpenInv
-----------------------------------------------------------------------------
(***************************************************************************)
(* What reconcileNormal returns and writes.                                *)
(***************************************************************************)

\* The reasons that reconcileHelmChart sets, and those that end an upgrade.
FinalReason == {"Succeeded", "Skipped", "Failed"}
HelmReason == FinalReason \cup {"InProgress", "Error"}

\* evaluateHelmChartState reports success for the state Succeeded only, and ends
\* the upgrade of a component for no state that is under way.
LEMMA EvaluateSucceeds ==
  ASSUME NEW p \in PlanObject, NEW c \in Chart, NEW state
  PROVE  \E x \in HelmReason :
            /\ Sets(p, evaluateHelmChartState(p, c, state), c, x)
            /\ x = "Succeeded" => state = "Succeeded"
            /\ x \in FinalReason => state \notin {"InProgress", "Unknown"}
  <1>1. c \in ConditionType
    BY DEF ConditionType
  <1>2. CASE state = "Succeeded"
    <2>1. evaluateHelmChartState(p, c, state) = setSuccessfulCondition(p, c)
      BY <1>2 DEF evaluateHelmChartState
    <2>2. QED
      BY <1>1, <1>2, <2>1, SettersSet DEF HelmReason, FinalReason
  <1>3. CASE state \in {"InProgress", "Unknown"}
    <2>1. evaluateHelmChartState(p, c, state) \in
             {setInProgressCondition(p, c), setErrorCondition(p, c)}
      BY <1>3 DEF evaluateHelmChartState
    <2>2. QED
      BY <1>1, <2>1, SettersSet DEF HelmReason, FinalReason
  <1>4. CASE state \notin {"Succeeded", "InProgress", "Unknown"}
    <2>1. evaluateHelmChartState(p, c, state) \in
             {setSkippedCondition(p, c), setFailedCondition(p, c), setErrorCondition(p, c)}
      BY <1>4 DEF evaluateHelmChartState
    <2>2. QED
      BY <1>1, <1>4, <2>1, SettersSet DEF HelmReason, FinalReason
  <1>5. QED
    BY <1>2, <1>3, <1>4

\* upgradeHelmChart has to write: the chart is under way.
LEMMA WritesInProgress ==
  ASSUME NEW h, NEW r, writesHelmChart(h, r)
  PROVE  upgradeHelmChart(h, r) = "InProgress"
  <1>1. installed[h] # 0
    BY DEF writesHelmChart
  <1>2. QED
    BY <1>1 DEF upgradeHelmChart

\* The charts of a component's walk are charts.
LEMMA WalkTypes ==
  ASSUME NEW c \in Chart
  PROVE  /\ \A i \in DOMAIN Walk(c) : Walk(c)[i] \in Chart
         /\ Walk(c) \in Seq(Chart) /\ DOMAIN Walk(c) = 1 .. Len(Walk(c))
         /\ CoreIndex(c) \in Nat
  <1>1. Dependencies[c] \in Seq(Chart) /\ Addons[c] \in Seq(Chart)
    BY WorkloadAssumption
  <1>2. <<c>> \in Seq(Chart)
    OBVIOUS
  <1>3. Dependencies[c] \o <<c>> \in Seq(Chart)
    BY <1>1, <1>2
  <1>4. Walk(c) \in Seq(Chart)
    BY <1>1, <1>3 DEF Walk
  <1>5. QED
    BY <1>1, <1>4 DEF CoreIndex

\* The condition of component c is set, to Succeeded only when c has been found
\* so, and to a final reason only when its walk rests and nothing is written.
Outcome(p, w, c) ==
    \E x \in HelmReason :
        /\ Sets(p, w, c, x)
        /\ x = "Succeeded" => upgradeHelmChart(c, p.rel) = "Succeeded"
        /\ x \in FinalReason => Rests(c, p.rel) /\ UNCHANGED helmVars

\* reconcileHelmChart does so or returns the plan as it is.
LEMMA HelmChartOutcome ==
  ASSUME NEW p \in PlanObject, NEW c \in Chart, reconcileHelmChart(p, c)
  PROVE  \E w : (\E res : Return(w, res)) /\ (w = p \/ Outcome(p, w, c))
  <1>1. CASE /\ \A i \in DOMAIN Walk(c) : ~Stops(c, i, p.rel)
             /\ Report(CompletedPlan(p, c), "requeue")
    <2>1. UNCHANGED helmVars /\ Return(CompletedPlan(p, c), "requeue")
      BY <1>1 DEF Report, clusterVars
    <2>2. Rests(c, p.rel)
      BY <1>1 DEF Rests, StopsFirst
    <2>3. QED
      BY <2>1, <2>2, EvaluateSucceeds DEF CompletedPlan, Outcome
  <1>2. ASSUME NEW i \in DOMAIN Walk(c), Stops(c, i, p.rel)
        PROVE  \/ StoppedPlan(p, c, i) = p
               \/ \E x \in HelmReason :
                     /\ Sets(p, StoppedPlan(p, c, i), c, x) /\ x # "Succeeded"
                     /\ x \in FinalReason =>
                          upgradeHelmChart(Walk(c)[i], p.rel) \notin {"InProgress", "Unknown"}
    <2> DEFINE state == upgradeHelmChart(Walk(c)[i], p.rel)
    <2>1. state # "Succeeded"
      BY <1>2 DEF Stops, Upgraded
    <2>2. \E x \in HelmReason :
             /\ Sets(p, evaluateHelmChartState(p, c, state), c, x) /\ x # "Succeeded"
             /\ x \in FinalReason => state \notin {"InProgress", "Unknown"}
      BY <2>1, EvaluateSucceeds
    <2>3. Sets(p, setFailedCondition(p, c), c, "Failed")
      BY SettersSet DEF ConditionType
    <2>4. \/ StoppedPlan(p, c, i) = p
          \/ StoppedPlan(p, c, i) = setFailedCondition(p, c) /\ state = "NotInstalled"
          \/ StoppedPlan(p, c, i) = evaluateHelmChartState(p, c, state)
      BY DEF StoppedPlan
    <2>5. QED
      BY <2>2, <2>3, <2>4 DEF HelmReason, FinalReason
  <1>3. CASE \E i \in DOMAIN Walk(c) :
               /\ StopsFirst(c, i, p.rel)
               /\ \/ /\ writesHelmChart(Walk(c)[i], p.rel)
                     /\ writeHelmChart(Walk(c)[i], p, StoppedPlan(p, c, i), StoppedResult(p, c, i))
                  \/ Report(StoppedPlan(p, c, i), StoppedResult(p, c, i))
    <2>1. PICK i \in DOMAIN Walk(c) :
               /\ StopsFirst(c, i, p.rel)
               /\ \/ /\ writesHelmChart(Walk(c)[i], p.rel)
                     /\ writeHelmChart(Walk(c)[i], p, StoppedPlan(p, c, i), StoppedResult(p, c, i))
                  \/ Report(StoppedPlan(p, c, i), StoppedResult(p, c, i))
      BY <1>3
    <2>2. writesHelmChart(Walk(c)[i], p.rel) \/ UNCHANGED helmVars
      BY <2>1 DEF Report, clusterVars
    <2>3. upgradeHelmChart(Walk(c)[i], p.rel) \notin {"InProgress", "Unknown"} => Rests(c, p.rel)
      <3>1. \A j \in DOMAIN Walk(c) : StopsFirst(c, j, p.rel) => j = i
        <4>1. \A j \in DOMAIN Walk(c) : j \in Nat /\ j >= 1
          BY WalkTypes
        <4>2. QED
          BY <2>1, <4>1 DEF StopsFirst
      <3>2. QED
        BY <3>1 DEF Rests
    <2>4. StoppedPlan(p, c, i) = p \/ Outcome(p, StoppedPlan(p, c, i), c)
      <3>1. Stops(c, i, p.rel)
        BY <2>1 DEF StopsFirst
      <3>2. QED
        BY <1>2, <2>2, <2>3, <3>1, WritesInProgress DEF Outcome
    <2>5. \E w \in {p, StoppedPlan(p, c, i)} : \E res : Return(w, res)
      BY <2>1 DEF writeHelmChart, Report
    <2>6. QED
      BY <2>4, <2>5
  <1>4. CASE jobNameMissing(p, c)
    <2>1. Outcome(p, evaluateHelmChartState(p, c, "Unknown"), c)
      <3>1. PICK x \in HelmReason :
               /\ Sets(p, evaluateHelmChartState(p, c, "Unknown"), c, x)
               /\ x \in FinalReason => "Unknown" \notin {"InProgress", "Unknown"}
        BY EvaluateSucceeds
      <3>2. QED
        BY <3>1 DEF Outcome, FinalReason
    <2>2. QED
      BY <1>4, <2>1, JobNameMissingReports DEF ReportMissed
  <1>5. QED
    BY <1>1, <1>3, <1>4 DEF reconcileHelmChart

\* The ways in which reconcileNormal can change the status.
ReturnsStatus(p, w) ==
    \/ SameStatus(p, w)
    \/ /\ p.obs # p.gen
       /\ w.life = p.life /\ w.rel = p.rel /\ w.gen = p.gen
       /\ \A t \in Components(p.rel) : w.cond[t] = "Pending"
    \/ p.obs = p.gen /\ \E t \in {"OS", "K8s"} : \E x : Sets(p, w, t, x)
    \/ /\ p.obs = p.gen
       /\ \E i \in DOMAIN Workloads[p.rel] :
            NextComponent(p, i) /\ Outcome(p, w, Workloads[p.rel][i])

\* Every way through reconcileNormal returns such a status.
LEMMA ReconcileNormalReturns ==
  ASSUME TypeOK, WellFormed(cache), cache.life = "live", reconcileNormal(cache)
  PROVE  \E w : (\E res : Return(w, res)) /\ ReturnsStatus(cache, w)
  <1> DEFINE p == cache
  <1>0. p \in PlanObject /\ p.rel \in Release
    BY DEF TypeOK, WellFormed
  <1>1. ReturnsStatus(p, p)
    BY DEF ReturnsStatus, SameStatus
  <1>2. CASE createReleaseManifest(p) \/ ReconcileError(p)
    BY <1>1, <1>2 DEF createReleaseManifest, ReconcileError
  <1>3. CASE rejectUnsupportedNodes(p)
    <2>1. SameStatus(p, [p EXCEPT !.invalid = TRUE])
      BY <1>0 DEF PlanObject, SameStatus
    <2>2. QED
      BY <1>3, <2>1 DEF rejectUnsupportedNodes, Report, ReturnsStatus
  <1>4. CASE observeGeneration(p)
    <2>1. PICK s \in Suffix :
             \/ Report(p, "requeue")
             \/ Report(setPendingConditions([p EXCEPT !.sfx = s, !.obs = p.gen],
                                            PendingConditions(p.rel)), "requeue")
      BY <1>4 DEF observeGeneration
    <2> DEFINE q == [p EXCEPT !.sfx = s, !.obs = p.gen]
               w == setPendingConditions(q, PendingConditions(p.rel))
    <2>2. /\ w.life = p.life /\ w.rel = p.rel /\ w.gen = p.gen
          /\ w.cond = [t \in ConditionType |->
                          IF t \in PendingConditions(p.rel) THEN "Pending" ELSE q.cond[t]]
      BY <1>0 DEF setPendingConditions, PlanObject
    <2>3. \A t \in Components(p.rel) : t \in ConditionType /\ t \in PendingConditions(p.rel)
      BY <1>0, ComponentTypes DEF Components, PendingConditions, ConditionType
    <2>4. ReturnsStatus(p, w)
      BY <1>4, <2>2, <2>3 DEF ReturnsStatus, observeGeneration
    <2>5. QED
      BY <1>1, <2>1, <2>4 DEF Report
  <1>5. CASE p.obs = p.gen /\ ~OSUpgraded(p) /\ reconcileOS(p)
    <2>1. "OS" \in ConditionType
      BY DEF ConditionType
    <2>2. \A w \in {setInProgressCondition(p, "OS"), setSuccessfulCondition(p, "OS")} :
             ReturnsStatus(p, w)
      BY <1>0, <1>5, <2>1, SettersSet DEF ReturnsStatus
    <2>3. \E w \in {p, setInProgressCondition(p, "OS"), setSuccessfulCondition(p, "OS")} :
             \E res : Return(w, res)
      BY <1>5 DEF reconcileOS, createObject, Report
    <2>4. QED
      BY <1>1, <2>2, <2>3
  <1>6. CASE p.obs = p.gen /\ OSUpgraded(p) /\ ~KubernetesUpgraded(p) /\ reconcileKubernetes(p)
    <2>1. "K8s" \in ConditionType
      BY DEF ConditionType
    <2>2. \A w \in {setInProgressCondition(p, "K8s"), setSuccessfulCondition(p, "K8s")} :
             ReturnsStatus(p, w)
      BY <1>0, <1>6, <2>1, SettersSet DEF ReturnsStatus
    <2>3. \E w \in {setInProgressCondition(p, "K8s"), setSuccessfulCondition(p, "K8s")} :
             \E res : Return(w, res)
      BY <1>6 DEF reconcileKubernetes, createObject, Report
    <2>4. QED
      BY <2>2, <2>3
  <1>7. CASE p.obs = p.gen /\ reconcileWorkloads(p)
    <2>1. ASSUME NEW i \in DOMAIN Workloads[p.rel], NextComponent(p, i),
                 reconcileHelmChart(p, Workloads[p.rel][i])
          PROVE  \E w : (\E res : Return(w, res)) /\ ReturnsStatus(p, w)
      <3>1. Workloads[p.rel][i] \in Chart
        BY <1>0, ComponentTypes
      <3>2. PICK w : (\E res : Return(w, res)) /\ (w = p \/ Outcome(p, w, Workloads[p.rel][i]))
        BY <1>0, <2>1, <3>1, HelmChartOutcome
      <3>3. ReturnsStatus(p, w)
        BY <1>1, <1>7, <2>1, <3>2 DEF ReturnsStatus
      <3>4. QED
        BY <3>2, <3>3
    <2>2. CASE Report([p EXCEPT !.last = p.rel], "done")
      <3>1. SameStatus(p, [p EXCEPT !.last = p.rel])
        BY <1>0 DEF PlanObject, SameStatus
      <3>2. QED
        BY <2>2, <3>1 DEF Report, ReturnsStatus
    <2>3. QED
      BY <1>7, <2>1, <2>2 DEF reconcileWorkloads
  <1>8. QED
    BY <1>2, <1>3, <1>4, <1>5, <1>6, <1>7 DEF reconcileNormal

\* The HelmChart of chart h is written for the plan p: h is the first chart in
\* the walk of the first unfinished component that is to be upgraded.
WritesFor(p, h) ==
    /\ p.obs = p.gen
    /\ \E k \in DOMAIN Workloads[p.rel] :
         /\ NextComponent(p, k)
         /\ \E i \in DOMAIN Walk(Workloads[p.rel][k]) :
              h = Walk(Workloads[p.rel][k])[i] /\ StopsFirst(Workloads[p.rel][k], i, p.rel)
    /\ writesHelmChart(h, p.rel)
    /\ hc' = [hc EXCEPT ![h] = HelmChartFor(h, p.rel)]

\* A reconciliation writes one HelmChart at most, and leaves jobs alone.
LEMMA ReconcileWrites ==
  ASSUME Reconcile
  PROVE  /\ UNCHANGED <<installed, job>>
         /\ \/ UNCHANGED hc
            \/ pc = "idle" /\ pc' = "commit" /\ cache.life = "live" /\ \E h : WritesFor(cache, h)
  <1> DEFINE Same == UNCHANGED <<installed, job, hc>>
  <1>1. ASSUME NEW w, NEW res, Report(w, res)
        PROVE  Same
    BY <1>1 DEF Report, clusterVars, helmVars
  <1>2. ASSUME NEW o, NEW w, createObject(o, w)
        PROVE  Same
    BY <1>2 DEF createObject, helmVars
  <1>3. CASE createReleaseManifest(cache) \/ ReconcileError(cache)
    BY <1>3 DEF createReleaseManifest, ReconcileError, clusterVars, helmVars
  <1>4. CASE rejectUnsupportedNodes(cache) \/ observeGeneration(cache)
    BY <1>1, <1>4 DEF rejectUnsupportedNodes, observeGeneration
  <1>5. CASE reconcileOS(cache)
    BY <1>1, <1>2, <1>5 DEF reconcileOS
  <1>6. CASE reconcileKubernetes(cache)
    BY <1>1, <1>2, <1>6 DEF reconcileKubernetes
  <1>7. CASE cache.life = "live" /\ cache.obs = cache.gen /\ reconcileWorkloads(cache)
    <2>1. CASE \E w, res : Report(w, res)
      BY <1>1, <2>1
    <2>2. ASSUME NEW k \in DOMAIN Workloads[cache.rel], NextComponent(cache, k),
                 NEW i \in DOMAIN Walk(Workloads[cache.rel][k]),
                 StopsFirst(Workloads[cache.rel][k], i, cache.rel),
                 writesHelmChart(Walk(Workloads[cache.rel][k])[i], cache.rel),
                 NEW w, NEW res, writeHelmChart(Walk(Workloads[cache.rel][k])[i], cache, w, res)
          PROVE  /\ UNCHANGED <<installed, job>>
                 /\ pc' = "commit" /\ WritesFor(cache, Walk(Workloads[cache.rel][k])[i])
      <3>1. /\ UNCHANGED <<installed, job>> /\ pc' = "commit"
            /\ hc' = [hc EXCEPT ![Walk(Workloads[cache.rel][k])[i]] =
                         HelmChartFor(Walk(Workloads[cache.rel][k])[i], cache.rel)]
        BY <2>2 DEF writeHelmChart, Return
      <3>2. QED
        BY <1>7, <2>2, <3>1 DEF WritesFor
    <2>3. pc = "idle"
      BY DEF Reconcile
    <2>4. ASSUME NEW c, jobNameMissing(cache, c)
          PROVE  Same
      BY <2>4 DEF jobNameMissing, clusterVars, helmVars
    <2>5. QED
      BY <1>7, <2>1, <2>2, <2>3, <2>4 DEF reconcileWorkloads, reconcileHelmChart
  <1>8. CASE ~(cache.life = "live" /\ cache.fin /\ reconcileNormal(cache))
    BY <1>8 DEF Reconcile, listPlans, AddFinalizer, clusterVars, helmVars
  <1>9. QED
    BY <1>3, <1>4, <1>5, <1>6, <1>7, <1>8 DEF reconcileNormal

\* Every other step of the controller, of users and of SUC leaves them alone too.
LEMMA OthersWriteNothing ==
  ASSUME \/ User \/ Informer \/ RequeueAfterElapses \/ SUCStep \/ Commit \/ deletePlans
         \/ deleteSecrets \/ RemoveFinalizer \/ Restart \/ UNCHANGED vars
  PROVE  UNCHANGED <<installed, job, hc>>
  BY DEF User, CreatePlan, EditPlan, DeletePlan, Informer, SyncPlan, ResyncSecret, SyncObject,
         RequeueAfterElapses, SUCStep, StartNodeJob, UpgradeNode, FinishNodeJob, Commit, deletePlans,
         deleteSecrets, deleteListed, RemoveObject, RemoveFinalizer, Restart, vars, clusterVars,
         helmVars

\* Jobs and HelmCharts go together.
LEMMA JobsHelm ==
  ASSUME TypeOK, HelmInv, JobStep
  PROVE  HelmInv' /\ InstalledCharts \subseteq InstalledCharts' /\ UNCHANGED hc
  <1>0. /\ job \in [Chart -> JobObject] /\ installed \in [Chart -> Nat]
        /\ hc \in [Chart -> HelmChartObject]
    BY DEF TypeOK, ClusterTypeOK
  <1>1. UNCHANGED hc
    BY DEF JobStep, ManifestJobSucceeds, ManifestJobFails, ManifestJobExpires, RemoveHelmJob,
           StartHelmJob, HelmJobSucceeds, HelmJobFails, UpgradeCore, helmVars
  <1>2. \/ UNCHANGED <<installed, job>>
        \/ \E h \in Chart : RemoveHelmJob(h) \/ StartHelmJob(h) \/ HelmJobSucceeds(h) \/ HelmJobFails(h)
    BY DEF JobStep, ManifestJobSucceeds, ManifestJobFails, ManifestJobExpires, UpgradeCore, helmVars
  <1>3. ASSUME NEW h \in Chart,
               RemoveHelmJob(h) \/ StartHelmJob(h) \/ HelmJobSucceeds(h) \/ HelmJobFails(h)
        PROVE  /\ \A g \in Chart \ {h} : job'[g] = job[g] /\ installed'[g] = installed[g]
               /\ job[h].st # "complete" \/ job[h].ver # hc[h].ver
               /\ job'[h].st = "complete" => installed'[h] = job'[h].ver
    <2>1. CASE RemoveHelmJob(h)
      BY <1>0, <2>1 DEF RemoveHelmJob, NoJob, JobObject
    <2>2. CASE StartHelmJob(h)
      BY <1>0, <2>2 DEF StartHelmJob, JobObject
    <2>3. CASE HelmJobSucceeds(h)
      BY <1>0, <2>3 DEF HelmJobSucceeds, JobObject
    <2>4. CASE HelmJobFails(h)
      BY <1>0, <2>4 DEF HelmJobFails, JobObject
    <2>5. QED
      BY <1>3, <2>1, <2>2, <2>3, <2>4
  <1>4. HelmInv'
    BY <1>1, <1>2, <1>3 DEF HelmInv, HelmChartFor
  <1>5. InstalledCharts \subseteq InstalledCharts'
    BY <1>1, <1>2, <1>3 DEF InstalledCharts, InstalledFor, HelmChartFor
  <1>6. QED
    BY <1>1, <1>4, <1>5
-----------------------------------------------------------------------------
(***************************************************************************)
(* The cached and the stored plan.                                         *)
(***************************************************************************)

\* What reconcileNormal returns continues the status it has read.
LEMMA ReturnsContinue ==
  ASSUME NEW p \in PlanObject, NEW w, p.rel \in Release, ReturnsStatus(p, w)
  PROVE  Continues(p, w)
  <1>1. CASE SameStatus(p, w)
    BY <1>1 DEF SameStatus, Continues, FinishedIn, isHelmUpgradeFinished, IsStatusConditionTrue
  <1>2. CASE p.obs # p.gen /\ w.gen = p.gen
    BY <1>2 DEF Continues
  <1>3. ASSUME NEW t \in ConditionType, NEW x, Sets(p, w, t, x),
               t \in Chart => ~isHelmUpgradeFinished(p, t)
        PROVE  Continues(p, w)
    <2>1. \A u \in Chart : u \in ConditionType
      BY DEF ConditionType
    <2>2. FinishedIn(p, w)
      BY <1>3, <2>1 DEF Sets, FinishedIn, isHelmUpgradeFinished, IsStatusConditionTrue
    <2>3. QED
      BY <1>3, <2>2 DEF Sets, Continues
  <1>4. CASE \E t \in {"OS", "K8s"} : \E x : Sets(p, w, t, x)
    BY <1>3, <1>4, ConditionAssumption DEF ConditionType
  <1>5. ASSUME NEW i \in DOMAIN Workloads[p.rel], NextComponent(p, i),
               Outcome(p, w, Workloads[p.rel][i])
        PROVE  Continues(p, w)
    BY <1>3, <1>5, ComponentTypes DEF Outcome, NextComponent
  <1>6. QED
    BY <1>1, <1>2, <1>4, <1>5 DEF ReturnsStatus

\* The invariant after a step is one of the copies after the step.
LEMMA OrderPrimed ==
  ASSUME plan'.life = "absent" => plan' = NoPlan,
         cache'.gen <= plan'.gen,
         plan'.obs <= cache'.gen,
         cache'.gen = plan'.gen => cache'.rel = plan'.rel,
         cache'.obs = cache'.gen => FinishedIn(cache', plan'),
         pc' = "commit" => base'.gen <= cache'.gen /\ Continues(base', work'),
         pc' = "commit" /\ base' = plan' => cache' = plan'
  PROVE  OrderInv'
  BY DEF OrderInv, FinishedIn, Continues, isHelmUpgradeFinished, IsStatusConditionTrue, NoPlan,
         ConditionType

\* Generations are numbers, and a status is not ahead of its generation.
LEMMA Generations ==
  ASSUME RefinementInv
  PROVE  /\ plan.gen \in Nat /\ plan.obs \in Nat /\ cache.gen \in Nat /\ cache.obs \in Nat
         /\ base.gen \in Nat /\ base.obs \in Nat /\ work.gen \in Nat /\ work.obs \in Nat
         /\ plan.obs <= plan.gen /\ cache.obs <= cache.gen
         /\ base.obs <= base.gen /\ work.obs <= work.gen
  <1>1. plan \in PlanObject /\ cache \in PlanObject /\ base \in PlanObject /\ work \in PlanObject
    BY DEF RefinementInv, StageInv, TypeOK
  <1>2. QED
    BY <1>1 DEF PlanObject, RefinementInv, StatusInv, WellFormed

\* A plan has the finished components that it has.
LEMMA FinishedSame ==
  ASSUME NEW p, NEW q, NEW w, w.cond = q.cond, FinishedIn(p, q)
  PROVE  FinishedIn(p, w)
  BY DEF FinishedIn, isHelmUpgradeFinished, IsStatusConditionTrue

\* Nothing is finished in the empty plan.
LEMMA NothingFinished ==
  ASSUME NEW p, NEW q, FinishedIn(p, NoPlan)
  PROVE  FinishedIn(p, q)
  BY DEF FinishedIn, isHelmUpgradeFinished, IsStatusConditionTrue, NoPlan, ConditionType

\* Users raise the generation, or end the life of the plan.
LEMMA UserOrder ==
  ASSUME RefinementInv, OrderInv, User
  PROVE  OrderInv'
  <1>0. UNCHANGED <<cache, base, work, pc>> /\ plan \in PlanObject
    BY DEF User, CreatePlan, EditPlan, DeletePlan, localVars, RefinementInv, StageInv, TypeOK
  <1>1. pc = "commit" => base.life = "live" /\ base.gen <= plan.gen
    BY Generations DEF RefinementInv, StatusInv, OrderInv
  <1>2. ASSUME NEW r, CreatePlan(r)
        PROVE  OrderInv'
    <2>1. plan = NoPlan /\ plan'.life = "live" /\ plan'.gen = 1 /\ plan'.obs = 0
      BY <1>2 DEF CreatePlan, NoPlan, OrderInv
    <2>2. plan.gen = 0 /\ plan.obs = 0
      BY <2>1 DEF NoPlan
    <2>3. cache.gen = 0
      BY <2>2, Generations DEF OrderInv
    <2>4. cache.obs = cache.gen => FinishedIn(cache, plan')
      BY <2>1, NothingFinished DEF OrderInv
    <2>5. pc = "commit" => base # plan'
      BY <1>1, <2>1, <2>2, Generations
    <2>6. QED
      BY <1>0, <2>1, <2>3, <2>4, <2>5, OrderPrimed DEF OrderInv
  <1>3. CASE plan'.gen = plan.gen + 1 /\ plan'.obs = plan.obs /\ plan'.cond = plan.cond
             /\ plan'.life # "absent"
    <2>1. cache.gen < plan'.gen /\ plan'.obs <= cache.gen
      BY <1>3, Generations DEF OrderInv
    <2>2. pc = "commit" => base # plan'
      BY <1>1, <1>3, Generations
    <2>3. cache.obs = cache.gen => FinishedIn(cache, plan')
      BY <1>3, FinishedSame DEF OrderInv
    <2>4. QED
      BY <1>0, <1>3, <2>1, <2>2, <2>3, Generations, OrderPrimed DEF OrderInv
  <1>4. CASE plan' = [plan EXCEPT !.life = "gone"]
    <2>1. plan'.gen = plan.gen /\ plan'.obs = plan.obs /\ plan'.cond = plan.cond
          /\ plan'.life = "gone" /\ plan'.rel = plan.rel
      BY <1>0, <1>4 DEF PlanObject
    <2>2. pc = "commit" => base # plan'
      BY <1>1, <2>1
    <2>3. cache.obs = cache.gen => FinishedIn(cache, plan')
      BY <2>1, FinishedSame DEF OrderInv
    <2>4. QED
      BY <1>0, <2>1, <2>2, <2>3, OrderPrimed DEF OrderInv
  <1>5. ASSUME NEW r, EditPlan(r)
        PROVE  plan'.gen = plan.gen + 1 /\ plan'.obs = plan.obs /\ plan'.cond = plan.cond
               /\ plan'.life # "absent"
    BY <1>0, <1>5 DEF EditPlan, PlanObject
  <1>6. CASE DeletePlan
    <2>1. CASE plan.fin
      BY <1>0, <1>3, <1>6, <2>1 DEF DeletePlan, PlanObject
    <2>2. QED
      BY <1>4, <1>6, <2>1 DEF DeletePlan
  <1>7. QED
    BY <1>2, <1>3, <1>5, <1>6 DEF User

\* The cache catches up, or no copy changes.
LEMMA CopiesOrder ==
  ASSUME RefinementInv, OrderInv,
         \/ SUCStep \/ JobStep
         \/ Informer \/ RequeueAfterElapses \/ Restart \/ UNCHANGED vars
  PROVE  OrderInv'
  <1>1. /\ UNCHANGED plan /\ cache' \in {plan, cache}
        /\ \/ UNCHANGED <<base, work, pc>>
           \/ pc' = "idle"
    BY DEF SUCStep, JobStep, Informer, SyncPlan, ResyncSecret, SyncObject, RequeueAfterElapses,
           Restart, vars, localVars
  <1>2. FinishedIn(plan, plan)
    BY DEF FinishedIn
  <1>3. pc = "commit" => base.gen <= plan.gen
    BY Generations DEF OrderInv
  <1>4. QED
    BY <1>1, <1>2, <1>3, Generations, OrderPrimed DEF OrderInv

\* A reconciliation works on the cached plan; it changes no more than the
\* finalizer of the stored one.
LEMMA ReconcileOrder ==
  ASSUME RefinementInv, OrderInv, Reconcile
  PROVE  OrderInv'
  <1>0. /\ TypeOK /\ plan \in PlanObject /\ cache \in PlanObject /\ WellFormed(cache)
        /\ UNCHANGED cache /\ pc = "idle"
    BY ReconcileKeeps DEF RefinementInv, StageInv, TypeOK, StatusInv, Reconcile
  <1>1. CASE UNCHANGED plan /\ pc' # "commit"
    BY <1>0, <1>1, OrderPrimed DEF OrderInv
  <1>2. CASE cache.life = "live" /\ AddFinalizer(cache)
    <2>1. pc' = "idle" /\ plan' \in {plan, [plan EXCEPT !.fin = TRUE]}
      BY <1>0, <1>2 DEF AddFinalizer, localVars
    <2>2. CASE plan' = [plan EXCEPT !.fin = TRUE] /\ cache.life = "live" /\ cache = plan
      <3>1. plan'.gen = plan.gen /\ plan'.obs = plan.obs /\ plan'.cond = plan.cond
            /\ plan'.life = plan.life /\ plan'.rel = plan.rel
        BY <1>0, <2>2 DEF PlanObject
      <3>2. cache.obs = cache.gen => FinishedIn(cache, plan')
        BY <3>1, FinishedSame DEF OrderInv
      <3>3. QED
        BY <1>0, <2>1, <2>2, <3>1, <3>2, OrderPrimed DEF OrderInv
    <2>3. QED
      BY <1>0, <1>1, <1>2, <2>1, <2>2 DEF AddFinalizer
  <1>3. CASE cache.life = "live" /\ reconcileNormal(cache)
    <2>1. PICK w : (\E res : Return(w, res)) /\ ReturnsStatus(cache, w)
      BY <1>0, <1>3, ReconcileNormalReturns
    <2>2. UNCHANGED plan /\ base' = cache /\ work' = w /\ pc' = "commit"
      BY <2>1 DEF Return
    <2>3. Continues(base', work')
      BY <1>0, <1>3, <2>1, <2>2, ReturnsContinue DEF WellFormed
    <2>4. QED
      BY <1>0, <2>2, <2>3, Generations, OrderPrimed DEF OrderInv
  <1>4. CASE listPlans(cache)
    BY <1>1, <1>4 DEF listPlans
  <1>5. CASE UNCHANGED <<plan, localVars>>
    BY <1>0, <1>1, <1>5 DEF localVars
  <1>6. QED
    BY <1>2, <1>3, <1>4, <1>5 DEF Reconcile

\* The status that is stored continues the one that is cached.
LEMMA CommitOrder ==
  ASSUME RefinementInv, OrderInv, Commit
  PROVE  OrderInv'
  <1>0. UNCHANGED cache /\ pc = "commit" /\ pc' = "idle" /\ StatusInv
    BY DEF Commit, Finish, RefinementInv
  <1>1. CASE UNCHANGED plan
    BY <1>0, <1>1, OrderPrimed DEF OrderInv
  <1>2. CASE base = plan /\ plan' = work
    <2>1. cache = base /\ work.gen = base.gen /\ work.rel = base.rel /\ work.life = "live"
      BY <1>0, <1>2 DEF OrderInv, Continues, StatusInv, StatusStep
    <2>2. work.obs <= cache.gen /\ cache.gen <= work.gen
      BY <2>1, Generations
    <2>3. cache.obs = cache.gen => FinishedIn(cache, work)
      BY <1>0, <2>1 DEF OrderInv, Continues
    <2>4. QED
      BY <1>0, <1>2, <2>1, <2>2, <2>3, OrderPrimed
  <1>3. QED
    BY <1>1, <1>2 DEF Commit

\* Deletion ends the life of the plan and changes nothing else in it.
LEMMA DeletionOrder ==
  ASSUME RefinementInv, OrderInv, deletePlans \/ deleteSecrets \/ RemoveFinalizer
  PROVE  OrderInv'
  <1>0. /\ UNCHANGED cache /\ pc \in {"deletePlans", "deleteSecrets"} /\ pc' # "commit" /\ StatusInv
        /\ plan \in PlanObject
    BY DEF deletePlans, deleteSecrets, RemoveFinalizer, deleteListed, Finish, RefinementInv,
           StageInv, TypeOK
  <1>1. CASE UNCHANGED plan
    BY <1>0, <1>1, OrderPrimed DEF OrderInv
  <1>2. CASE base = plan /\ plan' = [[work EXCEPT !.fin = FALSE] EXCEPT !.life = "gone"]
    <2>1. work = plan
      BY <1>0, <1>2 DEF StatusInv
    <2>2. plan'.gen = plan.gen /\ plan'.obs = plan.obs /\ plan'.cond = plan.cond
          /\ plan'.life = "gone" /\ plan'.rel = plan.rel
      BY <1>0, <1>2, <2>1 DEF PlanObject
    <2>3. cache.obs = cache.gen => FinishedIn(cache, plan')
      BY <2>2, FinishedSame DEF OrderInv
    <2>4. QED
      BY <1>0, <2>2, <2>3, OrderPrimed DEF OrderInv
  <1>3. QED
    BY <1>1, <1>2 DEF deletePlans, deleteSecrets, RemoveFinalizer
-----------------------------------------------------------------------------
(***************************************************************************)
(* Order of the components.                                                *)
(***************************************************************************)

\* A chart that is written is a chart, and the release is one.
LEMMA WrittenChart ==
  ASSUME RefinementInv, cache.life = "live", NEW h, WritesFor(cache, h)
  PROVE  /\ h \in Chart /\ cache.rel \in Release
         /\ hc' = [hc EXCEPT ![h] = HelmChartFor(h, cache.rel)]
         /\ hc[h].ver # ChartVersion[cache.rel][h]
  <1>1. cache.rel \in Release
    BY DEF RefinementInv, StatusInv, WellFormed
  <1>2. QED
    BY <1>1, ComponentTypes, WalkTypes DEF WritesFor, writesHelmChart

\* HelmCharts of a release have the release's version.
LEMMA ReconcileHelm ==
  ASSUME RefinementInv, HelmInv, Reconcile
  PROVE  HelmInv'
  <1>1. UNCHANGED <<installed, job>>
    BY ReconcileWrites
  <1>2. CASE UNCHANGED hc
    BY <1>1, <1>2 DEF HelmInv, HelmChartFor
  <1>3. ASSUME cache.life = "live", NEW h, WritesFor(cache, h)
        PROVE  HelmInv'
    <2>1. /\ h \in Chart /\ cache.rel \in Release
          /\ hc' = [hc EXCEPT ![h] = HelmChartFor(h, cache.rel)]
      BY <1>3, WrittenChart
    <2>2. hc \in [Chart -> HelmChartObject]
      BY DEF RefinementInv, StageInv, TypeOK, ClusterTypeOK
    <2>3. /\ hc'[h] = HelmChartFor(h, cache.rel)
          /\ \A g \in Chart \ {h} : hc'[g] = hc[g]
      BY <2>1, <2>2
    <2>4. HelmChartFor(h, cache.rel).ann = cache.rel /\ cache.rel # 0
      BY <2>1, ReleaseAssumption DEF HelmChartFor
    <2> SUFFICES ASSUME NEW g \in Chart
                 PROVE  /\ hc'[g].ann # 0 => hc'[g] = HelmChartFor(g, hc'[g].ann)
                        /\ hc'[g].ann = 0 /\ hc'[g].ver # 0 =>
                             /\ job'[g] = [st |-> "complete", ver |-> hc'[g].ver]
                             /\ installed'[g] = hc'[g].ver
                        /\ job'[g].st = "complete" => installed'[g] = job'[g].ver
      BY DEF HelmInv, HelmChartFor
    <2>5. CASE g = h
      BY <1>1, <2>3, <2>4, <2>5 DEF HelmInv
    <2>6. CASE g # h
      BY <1>1, <2>3, <2>6 DEF HelmInv
    <2>7. QED
      BY <2>5, <2>6
  <1>4. QED
    BY <1>2, <1>3, ReconcileWrites

\* The invariant holds initially,
LEMMA InitComponents == Init => ComponentInv
  <1> SUFFICES ASSUME Init PROVE ComponentInv
    OBVIOUS
  <1>1. RefinementInv
    BY InitRefines
  <1>2. OrderInv
    <2>1. FinishedIn(NoPlan, NoPlan)
      BY DEF FinishedIn
    <2>2. NoPlan.gen <= NoPlan.gen /\ NoPlan.obs <= NoPlan.gen
      BY DEF NoPlan
    <2>3. plan = NoPlan /\ cache = NoPlan /\ pc # "commit"
      BY DEF Init
    <2>4. QED
      BY <2>1, <2>2, <2>3 DEF OrderInv
  <1>3. HelmInv
    BY DEF Init, ClusterInit, HelmInv, NoJob
  <1>4. QED
    BY <1>1, <1>2, <1>3 DEF ComponentInv

\* every step keeps it,
LEMMA NextComponents == ComponentInv /\ [Next]_vars => ComponentInv'
  <1> SUFFICES ASSUME ComponentInv, [Next]_vars PROVE ComponentInv'
    OBVIOUS
  <1>0. RefinementInv /\ OrderInv /\ HelmInv /\ TypeOK
    BY DEF ComponentInv, RefinementInv, StageInv
  <1>1. RefinementInv'
    BY <1>0, NextRefines
  <1>2. OrderInv'
    BY <1>0, UserOrder, CopiesOrder, ReconcileOrder, CommitOrder, DeletionOrder
    DEF Next, Controller
  <1>3. ASSUME UNCHANGED <<installed, job, hc>>
        PROVE  HelmInv'
    BY <1>0, <1>3 DEF HelmInv, HelmChartFor
  <1>4. HelmInv'
    BY <1>0, <1>3, JobsHelm, ReconcileHelm, OthersWriteNothing DEF Next, Controller
  <1>5. QED
    BY <1>1, <1>2, <1>4 DEF ComponentInv

\* and so it holds throughout.
LEMMA ComponentsInvariant == Spec => []ComponentInv
  BY InitComponents, NextComponents, PTL DEF Spec

\* Only a reconciliation writes HelmCharts.
LEMMA WriterReconciles ==
  ASSUME ComponentInv, [Next]_vars, hc' # hc
  PROVE  Reconcile
  <1>1. ~JobStep
    BY JobsHelm DEF ComponentInv, RefinementInv, StageInv
  <1>2. QED
    BY <1>1, OthersWriteNothing DEF Next, Controller

\* README, stage 3: the components follow the order of the release. When the
\* HelmChart of a component, a dependency or an add-on is written, the stored
\* status, not only the cached one the reconciler looks at, reports every
\* component before it as finished, provided that no chart is listed twice.
THEOREM ComponentOrderCorrect == ASSUME ChartsListedOnce PROVE Spec => ComponentOrder
  <1> DEFINE Ordered ==
               \A r \in Release : \A k \in DOMAIN Workloads[r] :
                 (\E i \in DOMAIN Walk(Workloads[r][k]) :
                     LET h == Walk(Workloads[r][k])[i] IN hc'[h] # hc[h] /\ hc'[h].ann = r)
                 => \A j \in 1 .. (k - 1) :
                        plan.cond[Workloads[r][j]] \in {"Succeeded", "Skipped", "Failed"}
  <1>1. ASSUME ComponentInv, [Next]_vars
        PROVE  Ordered
    <2> SUFFICES ASSUME NEW r \in Release, NEW k \in DOMAIN Workloads[r],
                        NEW i \in DOMAIN Walk(Workloads[r][k]),
                        hc'[Walk(Workloads[r][k])[i]] # hc[Walk(Workloads[r][k])[i]],
                        hc'[Walk(Workloads[r][k])[i]].ann = r,
                        NEW j \in 1 .. (k - 1)
                 PROVE  plan.cond[Workloads[r][j]] \in {"Succeeded", "Skipped", "Failed"}
      OBVIOUS
    <2> DEFINE g == Walk(Workloads[r][k])[i]
    <2>0. RefinementInv /\ OrderInv /\ hc \in [Chart -> HelmChartObject]
      BY <1>1 DEF ComponentInv, RefinementInv, StageInv, TypeOK, ClusterTypeOK
    <2>1. Reconcile
      BY <1>1, WriterReconciles
    <2>2. PICK h : cache.life = "live" /\ WritesFor(cache, h)
      BY <2>1, ReconcileWrites
    <2>3. /\ h \in Chart /\ cache.rel \in Release
          /\ hc' = [hc EXCEPT ![h] = HelmChartFor(h, cache.rel)]
      BY <2>0, <2>2, WrittenChart
    <2>4. g \in Chart
      BY ComponentTypes, WalkTypes
    <2>5. g = h /\ cache.rel = r
      BY <2>0, <2>3, <2>4 DEF HelmChartFor
    <2>6. PICK m \in DOMAIN Workloads[r] :
             /\ NextComponent(cache, m)
             /\ \E a \in DOMAIN Walk(Workloads[r][m]) : h = Walk(Workloads[r][m])[a]
      BY <2>2, <2>5 DEF WritesFor
    <2>7. m = k
      BY <2>5, <2>6 DEF ChartsListedOnce
    <2>8. isHelmUpgradeFinished(cache, Workloads[r][j])
      BY <2>5, <2>6, <2>7 DEF NextComponent
    <2>9. Workloads[r][j] \in Chart
      <3>1. DOMAIN Workloads[r] = 1 .. Len(Workloads[r]) /\ Len(Workloads[r]) \in Nat
        BY ComponentTypes
      <3>2. j \in DOMAIN Workloads[r]
        BY <3>1
      <3>3. QED
        BY <3>2, ComponentTypes
    <2>10. isHelmUpgradeFinished(plan, Workloads[r][j])
      BY <2>0, <2>2, <2>8, <2>9 DEF OrderInv, WritesFor, FinishedIn
    <2>11. QED
      BY <2>10 DEF isHelmUpgradeFinished, IsStatusConditionTrue
  <1>2. ComponentInv /\ [Next]_vars => [Ordered]_vars
    BY <1>1
  <1>3. QED
    BY <1>2, ComponentsInvariant, PTL DEF Spec, ComponentOrder
-----------------------------------------------------------------------------
(***************************************************************************)
(* The state of a chart as upgradeHelmChart reports it.                    *)
(***************************************************************************)

\* A chart that is reported as upgraded has a HelmChart of the release and a
\* complete job, or counts as installed already.
LEMMA ReportedState ==
  ASSUME TypeOK, NEW g \in Chart, NEW r \in Release
  PROVE  /\ upgradeHelmChart(g, r) = "Succeeded" => hc[g].ann = r /\ job[g].st = "complete"
         /\ upgradeHelmChart(g, r) = "VersionAlreadyInstalled" =>
              ~writesHelmChart(g, r) /\ installed[g] # 0 /\ hc[g].ann # r
  <1>0. job[g].st \in {"none", "running", "complete", "failed"}
    BY DEF TypeOK, ClusterTypeOK, JobObject
  <1>1. CASE installed[g] = 0
    BY <1>1 DEF upgradeHelmChart
  <1>2. CASE installed[g] # 0 /\ writesHelmChart(g, r)
    BY <1>2 DEF upgradeHelmChart
  <1>3. CASE installed[g] # 0 /\ ~writesHelmChart(g, r) /\ hc[g].ann # r
    BY <1>3 DEF upgradeHelmChart
  <1>4. CASE installed[g] # 0 /\ ~writesHelmChart(g, r) /\ hc[g].ann = r
    BY <1>0, <1>4 DEF upgradeHelmChart
  <1>5. QED
    BY <1>1, <1>2, <1>3, <1>4

\* A chart that is reported as upgraded by the release is installed in its
\* version, if its job is not a stale one.
LEMMA SucceededInstalled ==
  ASSUME TypeOK, HelmInv, NoStaleJob, NEW g \in Chart, NEW r \in Release,
         upgradeHelmChart(g, r) = "Succeeded"
  PROVE  InstalledFor(g, r)
  <1>0. job \in [Chart -> JobObject] /\ r # 0
    BY ReleaseAssumption DEF TypeOK, ClusterTypeOK
  <1>1. hc[g].ann = r /\ job[g].st = "complete"
    BY ReportedState
  <1>2. hc[g] = HelmChartFor(g, r)
    BY <1>0, <1>1 DEF HelmInv
  <1>3. hc[g].ver = ChartVersion[r][g]
    BY <1>2 DEF HelmChartFor
  <1>4. job[g].ver = ChartVersion[r][g] /\ installed[g] = job[g].ver
    BY <1>1, <1>3 DEF NoStaleJob, HelmInv
  <1>5. job[g] = [st |-> "complete", ver |-> ChartVersion[r][g]]
    BY <1>0, <1>1, <1>4 DEF JobObject
  <1>6. QED
    BY <1>2, <1>4, <1>5 DEF InstalledFor
-----------------------------------------------------------------------------
(***************************************************************************)
(* Jobs that are under way. An open chart blocks edits until the condition *)
(* of its component is final, and by then the walk of the component rests: *)
(* no stale copy of the plan makes the controller write its charts again.  *)
(***************************************************************************)

\* What does not change in a chart does not change its state,
LEMMA StateKept ==
  ASSUME NEW h, NEW r, hc'[h] = hc[h], job'[h] = job[h], installed'[h] = installed[h]
  PROVE  /\ upgradeHelmChart(h, r)' = upgradeHelmChart(h, r)
         /\ Open(h)' <=> Open(h)
  BY DEF upgradeHelmChart, writesHelmChart, Open, JobFinished

\* nor whether it stops the walk of its component.
LEMMA StopsKept ==
  ASSUME NEW c, NEW r, NEW i, hc'[Walk(c)[i]] = hc[Walk(c)[i]],
         job'[Walk(c)[i]] = job[Walk(c)[i]], installed'[Walk(c)[i]] = installed[Walk(c)[i]]
  PROVE  /\ Stops(c, i, r)' <=> Stops(c, i, r)
         /\ upgradeHelmChart(Walk(c)[i], r)' = upgradeHelmChart(Walk(c)[i], r)
         /\ Open(Walk(c)[i])' <=> Open(Walk(c)[i])
  <1> DEFINE h == Walk(c)[i]
  <1>1. /\ upgradeHelmChart(h, r)' = upgradeHelmChart(h, r)
        /\ Open(h)' <=> Open(h)
    BY StateKept
  <1>2. QED
    BY <1>1 DEF Stops

\* A walk gets as far as before if the charts that it has passed are the same,
LEMMA ReachedKept ==
  ASSUME NEW c \in Chart, NEW r \in Release, NEW i \in DOMAIN Walk(c), Reaches(c, r, i),
         \A j \in 1 .. (i - 1) : /\ hc'[Walk(c)[j]] = hc[Walk(c)[j]]
                                 /\ job'[Walk(c)[j]] = job[Walk(c)[j]]
                                 /\ installed'[Walk(c)[j]] = installed[Walk(c)[j]]
  PROVE  <<c, r, i>> \in Reached'
  <1>1. i \in Nat
    BY WalkTypes
  <1>2. \A j \in 1 .. (i - 1) : ~Stops(c, j, r)' /\ ~Open(Walk(c)[j])'
    BY StopsKept DEF Reaches
  <1>3. QED
    BY <1>1, <1>2 DEF Reached, Reaches

\* and rests as before if all its charts are.
LEMMA RestingKept ==
  ASSUME NEW c \in Chart, NEW r \in Release, Rests(c, r),
         \A j \in DOMAIN Walk(c) : /\ hc'[Walk(c)[j]] = hc[Walk(c)[j]]
                                   /\ job'[Walk(c)[j]] = job[Walk(c)[j]]
                                   /\ installed'[Walk(c)[j]] = installed[Walk(c)[j]]
  PROVE  <<c, r>> \in Resting'
  <1>1. \A i \in DOMAIN Walk(c) : 1 .. (i - 1) \subseteq DOMAIN Walk(c)
    BY WalkTypes
  <1>2. \A j \in DOMAIN Walk(c) : /\ Stops(c, j, r)' <=> Stops(c, j, r)
                                  /\ upgradeHelmChart(Walk(c)[j], r)' = upgradeHelmChart(Walk(c)[j], r)
    BY StopsKept
  <1>3. \A i \in DOMAIN Walk(c) : StopsFirst(c, i, r)' => StopsFirst(c, i, r)
    BY <1>1, <1>2 DEF StopsFirst
  <1>4. Rests(c, r)'
    BY <1>2, <1>3 DEF Rests
  <1>5. QED
    BY <1>4 DEF Resting

\* Steps that leave charts and jobs alone.
LEMMA WalksKept ==
  ASSUME UNCHANGED <<installed, job, hc>>
  PROVE  OpenCharts' = OpenCharts /\ Reached' = Reached /\ Resting' = Resting
  BY DEF OpenCharts, Reached, Resting, Reaches, Rests, StopsFirst, Stops, upgradeHelmChart,
         writesHelmChart, Open, JobFinished

\* An open chart is under way and stops the walk, if its job is not a stale one.
LEMMA OpenStops ==
  ASSUME TypeOK, HelmInv, JobInv, NoStaleJob, NEW c \in Chart, NEW r \in Release,
         NEW i \in DOMAIN Walk(c), <<Walk(c)[i], r>> \in OpenCharts
  PROVE  upgradeHelmChart(Walk(c)[i], r) \in {"InProgress", "Unknown"} /\ Stops(c, i, r)
  <1> DEFINE h == Walk(c)[i]
  <1>1. h \in Chart /\ hc[h].ann = r /\ r # 0 /\ Open(h)
    BY WalkTypes, ReleaseAssumption DEF OpenCharts
  <1>2. hc[h] = HelmChartFor(h, r)
    BY <1>1 DEF HelmInv
  <1>3. hc[h].ver = ChartVersion[r][h] /\ ChartVersion[r][h] # 0
    BY <1>1, <1>2, VersionAssumption DEF HelmChartFor
  <1>4. installed[h] # 0 /\ ~writesHelmChart(h, r)
    BY <1>1, <1>3 DEF JobInv, writesHelmChart
  <1>5. job[h].st \in {"none", "running", "complete", "failed"}
    BY <1>1 DEF TypeOK, ClusterTypeOK, JobObject
  <1>6. job[h].st \in {"none", "running"}
    BY <1>1, <1>5 DEF Open, JobFinished, NoStaleJob
  <1>7. upgradeHelmChart(h, r) \in {"InProgress", "Unknown"}
    BY <1>1, <1>4, <1>6 DEF upgradeHelmChart
  <1>8. QED
    BY <1>7 DEF Stops, Upgraded

\* The walk of a component that has got to an open chart does not rest.
LEMMA OpenRestless ==
  ASSUME TypeOK, HelmInv, JobInv, NoStaleJob, NEW c \in Chart, NEW r \in Release,
         NEW i \in DOMAIN Walk(c), <<Walk(c)[i], r>> \in OpenCharts, <<c, r, i>> \in Reached
  PROVE  ~Rests(c, r)
  BY OpenStops DEF Rests, StopsFirst, Reached, Reaches

\* An open chart, with the release that it is written for.
LEMMA OpenChart ==
  ASSUME TypeOK, NEW h \in Chart, Open(h)
  PROVE  <<h, hc[h].ann>> \in OpenCharts
  <1>1. hc[h].ann \in Release \cup {0}
    BY DEF TypeOK, ClusterTypeOK, HelmChartObject
  <1>2. QED
    BY <1>1 DEF OpenCharts, Open

\* The Helm Controller works on open charts only.
LEMMA JobsWorkOnOpen ==
  ASSUME TypeOK, HelmInv, JobInv, JobStep
  PROVE  /\ JobInv' /\ UNCHANGED hc
         /\ \A h \in Chart : Open(h) \/ (job'[h] = job[h] /\ installed'[h] = installed[h])
  <1>0. /\ job \in [Chart -> JobObject] /\ installed \in [Chart -> Nat]
        /\ hc \in [Chart -> HelmChartObject]
    BY DEF TypeOK, ClusterTypeOK
  <1>1. UNCHANGED hc
    BY JobsHelm
  <1>2. \/ UNCHANGED <<installed, job>>
        \/ \E h \in Chart : RemoveHelmJob(h) \/ StartHelmJob(h) \/ HelmJobSucceeds(h) \/ HelmJobFails(h)
    BY DEF JobStep, ManifestJobSucceeds, ManifestJobFails, ManifestJobExpires, UpgradeCore, helmVars
  <1>3. ASSUME NEW h \in Chart,
               RemoveHelmJob(h) \/ StartHelmJob(h) \/ HelmJobSucceeds(h) \/ HelmJobFails(h)
        PROVE  /\ \A g \in Chart \ {h} : job'[g] = job[g] /\ installed'[g] = installed[g]
               /\ hc[h].ver # 0 /\ Open(h)
               /\ installed[h] # 0 => installed'[h] # 0
               /\ job'[h].st # "none" => job'[h].ver # 0
    <2>0. job[h] \in JobObject /\ hc[h] \in HelmChartObject
      BY <1>0
    <2>1. hc[h].ver # 0
      BY <1>3 DEF RemoveHelmJob, StartHelmJob, HelmJobSucceeds, HelmJobFails, JobInv
    <2>2. ~(JobFinished(job[h]) /\ job[h].ver = hc[h].ver)
      BY <1>3 DEF RemoveHelmJob, StartHelmJob, HelmJobSucceeds, HelmJobFails, JobFinished
    <2>3. hc[h].ann # 0
      <3>1. hc[h].ann = 0 => job[h] = [st |-> "complete", ver |-> hc[h].ver]
        BY <2>1 DEF HelmInv
      <3>2. hc[h].ann = 0 => job[h].st = "complete" /\ job[h].ver = hc[h].ver
        BY <3>1
      <3>3. QED
        BY <2>2, <3>2 DEF JobFinished
    <2>4. \A g \in Chart \ {h} : job'[g] = job[g] /\ installed'[g] = installed[g]
      BY <1>0, <1>3 DEF RemoveHelmJob, StartHelmJob, HelmJobSucceeds, HelmJobFails
    <2>5. CASE RemoveHelmJob(h)
      BY <1>0, <2>1, <2>2, <2>3, <2>4, <2>5 DEF RemoveHelmJob, NoJob, JobObject, Open
    <2>6. CASE StartHelmJob(h)
      BY <1>0, <2>1, <2>2, <2>3, <2>4, <2>6 DEF StartHelmJob, JobObject, Open
    <2>7. CASE HelmJobSucceeds(h)
      BY <1>0, <2>0, <2>1, <2>2, <2>3, <2>4, <2>7 DEF HelmJobSucceeds, JobObject, Open, JobInv
    <2>8. CASE HelmJobFails(h)
      BY <1>0, <2>0, <2>1, <2>2, <2>3, <2>4, <2>8 DEF HelmJobFails, JobObject, Open, JobInv
    <2>9. QED
      BY <1>3, <2>5, <2>6, <2>7, <2>8
  <1>4. JobInv'
    BY <1>1, <1>2, <1>3 DEF JobInv
  <1>5. QED
    BY <1>1, <1>2, <1>3, <1>4

\* So it opens none, and disturbs no walk that has passed none.
LEMMA JobsKeepWalks ==
  ASSUME TypeOK, HelmInv, JobInv, JobStep
  PROVE  /\ OpenCharts' \subseteq OpenCharts /\ Reached \subseteq Reached'
         /\ \A c \in Chart, r \in Release :
               <<c, r>> \in Resting /\ (\A i \in DOMAIN Walk(c) : ~Open(Walk(c)[i]))
               => <<c, r>> \in Resting'
  <1>1. /\ UNCHANGED hc
        /\ \A h \in Chart : Open(h) \/ (job'[h] = job[h] /\ installed'[h] = installed[h])
    BY JobsWorkOnOpen
  <1>2. \A h \in Chart : Open(h)' => Open(h)
    BY <1>1, StateKept DEF Open
  <1>3. OpenCharts' \subseteq OpenCharts
    BY <1>1, <1>2 DEF OpenCharts
  <1>4. ASSUME NEW c \in Chart, NEW r \in Release, NEW i \in Nat, <<c, r, i>> \in Reached
        PROVE  <<c, r, i>> \in Reached'
    <2>1. i \in DOMAIN Walk(c) /\ Reaches(c, r, i)
      BY <1>4 DEF Reached
    <2>2. \A j \in 1 .. (i - 1) : Walk(c)[j] \in Chart
      BY <2>1, WalkTypes
    <2>3. QED
      BY <1>1, <2>1, <2>2, ReachedKept DEF Reaches
  <1>5. Reached \subseteq Reached'
    BY <1>4 DEF Reached
  <1>6. ASSUME NEW c \in Chart, NEW r \in Release, <<c, r>> \in Resting,
               \A i \in DOMAIN Walk(c) : ~Open(Walk(c)[i])
        PROVE  <<c, r>> \in Resting'
    <2>1. \A j \in DOMAIN Walk(c) : Walk(c)[j] \in Chart
      BY WalkTypes
    <2>2. Rests(c, r)
      BY <1>6 DEF Resting
    <2>3. QED
      BY <1>1, <1>6, <2>1, <2>2, RestingKept
  <1>7. QED
    BY <1>3, <1>5, <1>6

\* A write opens one chart and disturbs no walk but that of its component.
LEMMA WriteKeepsWalks ==
  ASSUME TypeOK, ChartsListedOnce, NEW r \in Release, NEW k \in DOMAIN Workloads[r],
         NEW i \in DOMAIN Walk(Workloads[r][k]), StopsFirst(Workloads[r][k], i, r),
         hc' = [hc EXCEPT ![Walk(Workloads[r][k])[i]] =
                   HelmChartFor(Walk(Workloads[r][k])[i], r)],
         UNCHANGED <<installed, job>>
  PROVE  /\ OpenCharts' \subseteq OpenCharts \cup {<<Walk(Workloads[r][k])[i], r>>}
         /\ \A m \in DOMAIN Workloads[r] : \A a \in DOMAIN Walk(Workloads[r][m]) :
               <<Workloads[r][m], r, a>> \in Reached => <<Workloads[r][m], r, a>> \in Reached'
         /\ \A m \in DOMAIN Workloads[r] \ {k} :
               <<Workloads[r][m], r>> \in Resting => <<Workloads[r][m], r>> \in Resting'
         /\ (\A j \in 1 .. (i - 1) : ~Open(Walk(Workloads[r][k])[j]))
               => <<Workloads[r][k], r, i>> \in Reached'
  <1> DEFINE c == Workloads[r][k]
             h == Walk(c)[i]
  <1>0. h \in Chart /\ hc \in [Chart -> HelmChartObject]
    BY ComponentTypes, WalkTypes DEF TypeOK, ClusterTypeOK
  <1>1. /\ hc'[h].ann = r
        /\ \A g \in Chart \ {h} : hc'[g] = hc[g] /\ job'[g] = job[g] /\ installed'[g] = installed[g]
    BY <1>0 DEF HelmChartFor
  <1> HIDE DEF h
  <1>2. OpenCharts' \subseteq OpenCharts \cup {<<h, r>>}
    <2>1. \A g \in Chart \ {h} : Open(g)' <=> Open(g)
      BY <1>1, StateKept
    <2>2. \A g \in Chart, s \in Release : <<g, s>> \in OpenCharts' => hc'[g].ann = s /\ Open(g)'
      BY DEF OpenCharts
    <2>3. \A g \in Chart \ {h}, s \in Release : <<g, s>> \in OpenCharts' => <<g, s>> \in OpenCharts
      BY <1>1, <2>1, <2>2 DEF OpenCharts
    <2>4. \A x \in OpenCharts' : \E g \in Chart, s \in Release : x = <<g, s>>
      BY DEF OpenCharts
    <2>5. QED
      BY <1>1, <2>2, <2>3, <2>4
  <1>3. ASSUME NEW m \in DOMAIN Workloads[r], NEW a \in DOMAIN Walk(Workloads[r][m]),
               m # k \/ a # i
        PROVE  Walk(Workloads[r][m])[a] \in Chart \ {h}
    <2>1. Walk(Workloads[r][m])[a] \in Chart
      BY ComponentTypes, WalkTypes
    <2>2. QED
      BY <1>3, <2>1 DEF ChartsListedOnce, h
  <1>4. ASSUME NEW m \in DOMAIN Workloads[r], NEW a \in DOMAIN Walk(Workloads[r][m]),
               Reaches(Workloads[r][m], r, a)
        PROVE  <<Workloads[r][m], r, a>> \in Reached'
    <2>1. 1 .. (a - 1) \subseteq DOMAIN Walk(Workloads[r][m])
      BY ComponentTypes, WalkTypes
    <2>2. \A j \in 1 .. (a - 1) : m # k \/ j # i
      BY <1>4 DEF StopsFirst, Reaches
    <2>3. \A j \in 1 .. (a - 1) : Walk(Workloads[r][m])[j] \in Chart \ {h}
      BY <1>3, <2>1, <2>2
    <2>4. Workloads[r][m] \in Chart
      BY ComponentTypes
    <2>5. QED
      BY <1>1, <1>4, <2>3, <2>4, ReachedKept
  <1>5. ASSUME NEW m \in DOMAIN Workloads[r] \ {k}, <<Workloads[r][m], r>> \in Resting
        PROVE  <<Workloads[r][m], r>> \in Resting'
    <2>1. Workloads[r][m] \in Chart /\ Rests(Workloads[r][m], r)
      BY <1>5, ComponentTypes DEF Resting
    <2>2. \A j \in DOMAIN Walk(Workloads[r][m]) : Walk(Workloads[r][m])[j] \in Chart \ {h}
      BY <1>3, <1>5
    <2>3. QED
      BY <1>1, <2>1, <2>2, RestingKept
  <1>6. (\A j \in 1 .. (i - 1) : ~Open(Walk(c)[j])) => <<c, r, i>> \in Reached'
    BY <1>4 DEF StopsFirst, Reaches
  <1>7. \A m \in DOMAIN Workloads[r] : \A a \in DOMAIN Walk(Workloads[r][m]) :
           <<Workloads[r][m], r, a>> \in Reached => <<Workloads[r][m], r, a>> \in Reached'
    BY <1>4 DEF Reached
  <1>8. QED
    BY <1>2, <1>5, <1>6, <1>7 DEF h

\* The invariant after a step is one of the copies and sets after the step.
LEMMA OpenPrimed ==
  ASSUME Pursued(plan', OpenCharts', Reached'),
         Covers(plan', plan', Resting'), Covers(cache', plan', Resting'),
         pc' = "commit" /\ base' = plan' =>
            Pursued(work', OpenCharts', Reached') /\ Covers(work', work', Resting'),
         cache'.rel # plan'.rel => ~Blocked(plan')
  PROVE  OpenInv'
  BY DEF OpenInv, Pursued, Covers, Blocked, isHelmUpgradeFinished, IsStatusConditionTrue,
         DisallowingUpdateStates, ConditionType

\* Only the release and the conditions count,
LEMMA PursuedSame ==
  ASSUME NEW p, NEW w, NEW O, NEW R, w.rel = p.rel, w.cond = p.cond, Pursued(p, O, R)
  PROVE  Pursued(w, O, R)
  BY DEF Pursued

LEMMA CoversSame ==
  ASSUME NEW p, NEW q, NEW w, NEW S, w.cond = q.cond, Covers(p, q, S)
  PROVE  Covers(p, w, S)
  BY DEF Covers, isHelmUpgradeFinished, IsStatusConditionTrue

LEMMA CoversStatus ==
  ASSUME NEW p, NEW w, NEW S, SameStatus(p, w), Covers(p, p, S)
  PROVE  Covers(w, w, S)
  BY DEF SameStatus, Covers, isHelmUpgradeFinished, IsStatusConditionTrue

\* and the generation has to be observed.
LEMMA CoversUnobserved ==
  ASSUME NEW p, NEW q, NEW S, p.life = "absent" \/ p.obs # p.gen
  PROVE  Covers(p, q, S)
  BY DEF Covers

\* Fewer open charts and longer walks,
LEMMA PursuedMore ==
  ASSUME NEW p, NEW O, NEW R, NEW P, NEW Q, P \subseteq O, R \subseteq Q, Pursued(p, O, R)
  PROVE  Pursued(p, P, Q)
  BY DEF Pursued

\* and none at all.
LEMMA NoneOpen ==
  ASSUME NEW p, Pursued(p, OpenCharts, Reached), ~Blocked(p) \/ p.rel \notin Release
  PROVE  OpenCharts = {}
  <1> SUFFICES ASSUME NEW x \in OpenCharts PROVE FALSE
    OBVIOUS
  <1>1. x[2] \in Release
    BY DEF OpenCharts
  <1>2. p.rel \in Release
    BY <1>1 DEF Pursued
  <1>3. QED
    BY <1>2, ComponentTypes DEF Pursued, Blocked

LEMMA NonePursued ==
  ASSUME NEW p, NEW R
  PROVE  Pursued(p, {}, R)
  BY DEF Pursued

\* Jobs disturb no component that is finished: the open charts belong to others.
LEMMA JobsOpen ==
  ASSUME ChartsListedOnce, WalkInv, JobStep
  PROVE  OpenInv'
  <1>0. /\ TypeOK /\ HelmInv /\ JobInv /\ OpenInv /\ WellFormed(plan) /\ WellFormed(cache)
        /\ WellFormed(work) /\ UNCHANGED <<plan, cache, pc, base, work>>
    BY DEF WalkInv, ComponentInv, RefinementInv, StageInv, StatusInv, JobStep, localVars
  <1>1. /\ OpenCharts' \subseteq OpenCharts /\ Reached \subseteq Reached'
        /\ \A c \in Chart, r \in Release :
              <<c, r>> \in Resting /\ (\A i \in DOMAIN Walk(c) : ~Open(Walk(c)[i]))
              => <<c, r>> \in Resting'
    BY <1>0, JobsKeepWalks
  <1>2. ASSUME NEW p, NEW q, WellFormed(p), Covers(p, q, Resting),
               OpenCharts # {} => p.rel = q.rel /\ Pursued(q, OpenCharts, Reached)
        PROVE  Covers(p, q, Resting')
    <2> SUFFICES ASSUME p.life # "absent", p.obs = p.gen, NEW k \in DOMAIN Workloads[p.rel],
                        isHelmUpgradeFinished(q, Workloads[p.rel][k])
                 PROVE  <<Workloads[p.rel][k], p.rel>> \in Resting'
      BY <1>2 DEF Covers
    <2> DEFINE c == Workloads[p.rel][k]
    <2>1. p.rel \in Release /\ <<c, p.rel>> \in Resting
      BY <1>2 DEF WellFormed, Covers
    <2>2. c \in Chart
      BY <2>1, ComponentTypes
    <2>3. ASSUME NEW a \in DOMAIN Walk(c), Open(Walk(c)[a])
          PROVE  FALSE
      <3>1. Walk(c)[a] \in Chart
        BY <2>2, WalkTypes
      <3>2. <<Walk(c)[a], hc[Walk(c)[a]].ann>> \in OpenCharts
        BY <1>0, <2>3, <3>1, OpenChart
      <3> DEFINE x == <<Walk(c)[a], hc[Walk(c)[a]].ann>>
      <3>6. p.rel = q.rel /\ Pursued(q, OpenCharts, Reached)
        BY <1>2, <3>2
      <3>7. \E m \in DOMAIN Workloads[q.rel] :
               /\ q.cond[Workloads[q.rel][m]] \in DisallowingUpdateStates
               /\ \E i \in DOMAIN Walk(Workloads[q.rel][m]) :
                     x[1] = Walk(Workloads[q.rel][m])[i]
        <4> HIDE DEF x, c
        <4>1. x \in OpenCharts
          BY <3>2 DEF x
        <4>2. QED
          BY <3>6, <4>1 DEF Pursued
      <3>8. x[1] = Walk(c)[a]
        OBVIOUS
      <3>3. PICK m \in DOMAIN Workloads[p.rel] :
               /\ q.cond[Workloads[p.rel][m]] \in DisallowingUpdateStates
               /\ \E i \in DOMAIN Walk(Workloads[p.rel][m]) :
                     Walk(c)[a] = Walk(Workloads[p.rel][m])[i]
        BY <3>6, <3>7, <3>8
      <3>4. m = k
        BY <2>1, <3>3 DEF ChartsListedOnce
      <3>5. QED
        BY <3>3, <3>4 DEF isHelmUpgradeFinished, IsStatusConditionTrue, DisallowingUpdateStates
    <2>4. QED
      BY <1>1, <2>1, <2>2, <2>3
  <1>3. OpenCharts # {} => cache.rel = plan.rel
    BY <1>0, NoneOpen DEF OpenInv
  <1>4. Covers(plan, plan, Resting') /\ Covers(cache, plan, Resting')
    BY <1>0, <1>2, <1>3 DEF OpenInv
  <1>5. Pursued(plan, OpenCharts', Reached')
    BY <1>0, <1>1, PursuedMore DEF OpenInv
  <1>6. pc = "commit" /\ base = plan =>
           Pursued(work, OpenCharts', Reached') /\ Covers(work, work, Resting')
    BY <1>0, <1>1, <1>2, PursuedMore DEF OpenInv
  <1>7. cache.rel # plan.rel => ~Blocked(plan)
    BY <1>0 DEF OpenInv
  <1>8. QED
    BY <1>0, <1>4, <1>5, <1>6, <1>7, OpenPrimed

\* Users change a plan only when nothing is open.
LEMMA UserOpen ==
  ASSUME WalkInv, User
  PROVE  OpenInv'
  <1>0. /\ RefinementInv /\ OrderInv /\ OpenInv /\ UNCHANGED <<cache, base, work, pc>>
        /\ plan \in PlanObject
    BY DEF WalkInv, ComponentInv, RefinementInv, StageInv, TypeOK, User, CreatePlan, EditPlan,
           DeletePlan, localVars
  <1>1. OpenCharts' = OpenCharts /\ Reached' = Reached /\ Resting' = Resting
    BY OthersWriteNothing, WalksKept
  <1>2. Covers(plan, plan, Resting) /\ Covers(cache, plan, Resting)
        /\ Pursued(plan, OpenCharts, Reached) /\ (cache.rel # plan.rel => ~Blocked(plan))
    BY <1>0 DEF OpenInv
  <1>3. pc = "commit" => base.life = "live" /\ base.gen <= plan.gen
    BY <1>0, Generations DEF RefinementInv, StatusInv, OrderInv
  <1>4. ASSUME NEW r, CreatePlan(r)
        PROVE  OpenInv'
    <2>1. /\ plan = NoPlan /\ plan.rel = 0 /\ plan.gen = 0 /\ plan'.gen = 1 /\ plan'.obs = 0
          /\ plan'.cond = NoPlan.cond
      BY <1>0, <1>4 DEF CreatePlan, NoPlan, OrderInv
    <2>2. OpenCharts = {}
      BY <1>2, <2>1, NoneOpen, ReleaseAssumption
    <2>3. cache.rel = 0
      BY <1>0, <2>1, Generations DEF OrderInv
    <2>4. cache.life = "absent"
      BY <1>0, <2>3, ReleaseAssumption DEF RefinementInv, StatusInv, WellFormed
    <2>5. ~Blocked(plan')
      BY <2>1 DEF Blocked, NoPlan, DisallowingUpdateStates
    <2>6. pc = "commit" => base # plan'
      BY <1>0, <1>3, <2>1, Generations
    <2>7. QED
      BY <1>0, <1>1, <2>1, <2>2, <2>4, <2>5, <2>6, OpenPrimed, NonePursued, CoversUnobserved
  <1>5. CASE plan'.gen = plan.gen + 1 /\ plan'.obs = plan.obs /\ plan'.cond = plan.cond
             /\ (plan'.rel = plan.rel \/ ~Blocked(plan))
    <2>1. plan'.obs # plan'.gen
      BY <1>0, <1>5, Generations
    <2>2. pc = "commit" => base # plan'
      BY <1>0, <1>3, <1>5, Generations
    <2>3. Pursued(plan', OpenCharts, Reached)
      BY <1>2, <1>5, PursuedSame, NoneOpen, NonePursued
    <2>4. Covers(cache, plan', Resting) /\ Covers(plan', plan', Resting)
      BY <1>2, <1>5, <2>1, CoversSame, CoversUnobserved
    <2>5. cache.rel # plan'.rel => ~Blocked(plan')
      BY <1>2, <1>5 DEF Blocked
    <2>6. QED
      BY <1>0, <1>1, <2>2, <2>3, <2>4, <2>5, OpenPrimed
  <1>6. CASE plan.life = "live" /\ plan' = [plan EXCEPT !.life = "gone"]
    <2>1. SameStatus(plan, plan') /\ plan'.life = "gone"
      BY <1>0, <1>6 DEF PlanObject, SameStatus
    <2>2. Pursued(plan', OpenCharts, Reached)
      BY <1>2, <2>1, PursuedSame DEF SameStatus
    <2>3. Covers(cache, plan', Resting) /\ Covers(plan', plan', Resting)
      BY <1>2, <2>1, CoversSame, CoversStatus DEF SameStatus
    <2>4. cache.rel # plan'.rel => ~Blocked(plan')
      BY <1>2, <2>1 DEF Blocked, SameStatus
    <2>5. QED
      BY <1>0, <1>1, <1>3, <2>1, <2>2, <2>3, <2>4, OpenPrimed
  <1>7. ASSUME NEW r, EditPlan(r)
        PROVE  plan'.gen = plan.gen + 1 /\ plan'.obs = plan.obs /\ plan'.cond = plan.cond
               /\ ~Blocked(plan)
    <2>1. plan' = [plan EXCEPT !.rel = r, !.gen = @ + 1] /\ ValidateUpdate(plan, plan')
      BY <1>7 DEF EditPlan
    <2>2. plan'.gen = plan.gen + 1 /\ plan'.obs = plan.obs /\ plan'.cond = plan.cond
          /\ plan'.fin = plan.fin
      BY <1>0, <2>1 DEF PlanObject
    <2>3. QED
      BY <2>1, <2>2 DEF ValidateUpdate, FinalizerRemoved, Blocked
  <1>8. CASE DeletePlan
    <2>1. CASE plan.fin
      BY <1>0, <1>5, <1>8, <2>1 DEF DeletePlan, PlanObject
    <2>2. QED
      BY <1>6, <1>8, <2>1 DEF DeletePlan
  <1>9. QED
    BY <1>4, <1>5, <1>7, <1>8 DEF User

\* The cache catches up, or no copy changes.
LEMMA CopiesOpen ==
  ASSUME WalkInv, SUCStep \/ Informer \/ RequeueAfterElapses \/ Restart \/ UNCHANGED vars
  PROVE  OpenInv'
  <1>1. OpenCharts' = OpenCharts /\ Reached' = Reached /\ Resting' = Resting
    BY OthersWriteNothing, WalksKept
  <1>2. /\ UNCHANGED plan /\ cache' \in {plan, cache}
        /\ \/ UNCHANGED <<base, work, pc>>
           \/ pc' = "idle"
    BY DEF SUCStep, Informer, SyncPlan, ResyncSecret, SyncObject, RequeueAfterElapses, Restart,
           vars, localVars
  <1>3. QED
    BY <1>1, <1>2, OpenPrimed DEF WalkInv, OpenInv

\* The status that is stored covers what the status that is cached does.
LEMMA CommitOpen ==
  ASSUME WalkInv, Commit
  PROVE  OpenInv'
  <1>0. /\ RefinementInv /\ OrderInv /\ OpenInv /\ UNCHANGED cache /\ pc = "commit"
        /\ pc' = "idle" /\ StatusInv
    BY DEF WalkInv, ComponentInv, RefinementInv, Commit, Finish
  <1>1. OpenCharts' = OpenCharts /\ Reached' = Reached /\ Resting' = Resting
    BY OthersWriteNothing, WalksKept
  <1>2. CASE UNCHANGED plan
    BY <1>0, <1>1, <1>2, OpenPrimed DEF OpenInv
  <1>3. CASE base = plan /\ plan' = work
    <2>1. /\ cache = base /\ work.gen = base.gen /\ work.rel = base.rel /\ work.life = "live"
          /\ base.obs = base.gen => work.obs = base.obs
      BY <1>0, <1>3 DEF OrderInv, Continues, StatusInv, StatusStep
    <2>2. Pursued(work, OpenCharts, Reached) /\ Covers(work, work, Resting)
      BY <1>0, <1>3 DEF OpenInv
    <2>3. Covers(cache, work, Resting)
      BY <2>1, <2>2 DEF Covers
    <2>4. QED
      BY <1>0, <1>1, <1>3, <2>1, <2>2, <2>3, OpenPrimed
  <1>4. QED
    BY <1>2, <1>3 DEF Commit

\* Deletion ends the life of the plan and changes nothing else in it.
LEMMA DeletionOpen ==
  ASSUME WalkInv, deletePlans \/ deleteSecrets \/ RemoveFinalizer
  PROVE  OpenInv'
  <1>0. /\ OpenInv /\ StatusInv /\ UNCHANGED cache /\ pc' # "commit" /\ plan \in PlanObject
        /\ pc \in {"deletePlans", "deleteSecrets"}
    BY DEF WalkInv, ComponentInv, RefinementInv, StageInv, TypeOK, deletePlans, deleteSecrets,
           RemoveFinalizer, deleteListed, Finish
  <1>1. OpenCharts' = OpenCharts /\ Reached' = Reached /\ Resting' = Resting
    BY OthersWriteNothing, WalksKept
  <1>2. \/ UNCHANGED plan
        \/ base = plan /\ plan' = [[work EXCEPT !.fin = FALSE] EXCEPT !.life = "gone"]
    BY DEF deletePlans, deleteSecrets, RemoveFinalizer
  <1>3. plan' = plan \/ plan' = [[plan EXCEPT !.fin = FALSE] EXCEPT !.life = "gone"]
    BY <1>0, <1>2 DEF StatusInv
  <1>4. CASE plan' = plan
    BY <1>0, <1>1, <1>4, OpenPrimed DEF OpenInv
  <1>5. CASE plan' = [[plan EXCEPT !.fin = FALSE] EXCEPT !.life = "gone"]
    <2>1. CASE plan.life # "absent"
      <3>1. SameStatus(plan, plan')
        BY <1>0, <1>5, <2>1 DEF PlanObject, SameStatus
      <3>2. QED
        BY <1>0, <1>1, <3>1, PursuedSame, CoversSame, CoversStatus, OpenPrimed
        DEF OpenInv, SameStatus, Blocked
    <2>2. CASE plan.life = "absent"
      BY <1>0, <1>2, <2>2, <1>4 DEF StatusInv
    <2>3. QED
      BY <2>1, <2>2
  <1>6. QED
    BY <1>3, <1>4, <1>5

\* A status that reconcileNormal returns pursues and covers what the plan does: a
\* component is finished only if its walk rests.
LEMMA ReturnsCovered ==
  ASSUME NEW p \in PlanObject, NEW w, NEW O \in SUBSET (Chart \X Release), NEW R, NEW S,
         p.rel \in Release, p.life # "absent", ReturnsStatus(p, w),
         Pursued(p, O, R), Covers(p, p, S),
         \A k \in DOMAIN Workloads[p.rel] :
            Rests(Workloads[p.rel][k], p.rel) /\ UNCHANGED helmVars =>
               /\ <<Workloads[p.rel][k], p.rel>> \in S
               /\ \A i \in DOMAIN Walk(Workloads[p.rel][k]) :
                     <<Workloads[p.rel][k], p.rel, i>> \in R =>
                        <<Walk(Workloads[p.rel][k])[i], p.rel>> \notin O
  PROVE  Pursued(w, O, R) /\ Covers(w, w, S)
  <1>0. \A k \in DOMAIN Workloads[p.rel] :
           Workloads[p.rel][k] \in ConditionType /\ Workloads[p.rel][k] \notin {"OS", "K8s"}
    BY ComponentTypes
  <1>1. CASE SameStatus(p, w)
    BY <1>1, PursuedSame, CoversStatus DEF SameStatus
  <1>2. CASE w.rel = p.rel /\ \A t \in Components(p.rel) : w.cond[t] = "Pending"
    <2>1. \A k \in DOMAIN Workloads[p.rel] : w.cond[Workloads[p.rel][k]] = "Pending"
      BY <1>2 DEF Components
    <2>2. Pursued(w, O, R)
      <3>1. \A k \in DOMAIN Workloads[p.rel] :
               w.cond[Workloads[p.rel][k]] \in DisallowingUpdateStates
        BY <2>1 DEF DisallowingUpdateStates
      <3>2. QED
        BY <1>2, <3>1 DEF Pursued
    <2>3. Covers(w, w, S)
      BY <1>2, <2>1 DEF Covers, isHelmUpgradeFinished, IsStatusConditionTrue
    <2>4. QED
      BY <2>2, <2>3
  <1>3. CASE p.obs = p.gen /\ \E t \in {"OS", "K8s"} : \E x : Sets(p, w, t, x)
    <2>1. w.rel = p.rel /\ \A k \in DOMAIN Workloads[p.rel] :
             w.cond[Workloads[p.rel][k]] = p.cond[Workloads[p.rel][k]]
      BY <1>0, <1>3 DEF Sets
    <2>2. Pursued(w, O, R)
      BY <2>1 DEF Pursued
    <2>3. Covers(w, w, S)
      BY <1>3, <2>1 DEF Covers, isHelmUpgradeFinished, IsStatusConditionTrue
    <2>4. QED
      BY <2>2, <2>3
  <1>4. ASSUME p.obs = p.gen, NEW m \in DOMAIN Workloads[p.rel], Outcome(p, w, Workloads[p.rel][m])
        PROVE  Pursued(w, O, R) /\ Covers(w, w, S)
    <2> DEFINE c == Workloads[p.rel][m]
    <2>1. PICK x \in HelmReason :
             /\ Sets(p, w, c, x)
             /\ x \in FinalReason => Rests(c, p.rel) /\ UNCHANGED helmVars
      BY <1>4 DEF Outcome
    <2>2. /\ w.rel = p.rel /\ w.cond[c] = x
          /\ \A k \in DOMAIN Workloads[p.rel] : Workloads[p.rel][k] # c =>
                w.cond[Workloads[p.rel][k]] = p.cond[Workloads[p.rel][k]]
      BY <1>0, <2>1 DEF Sets
    <2>3. x \in FinalReason =>
             /\ <<c, p.rel>> \in S
             /\ \A i \in DOMAIN Walk(c) : <<c, p.rel, i>> \in R => <<Walk(c)[i], p.rel>> \notin O
      BY <2>1
    <2>4. x \notin FinalReason => x \in DisallowingUpdateStates
      BY DEF HelmReason, DisallowingUpdateStates
    <2>5. Pursued(w, O, R)
      <3> SUFFICES ASSUME NEW y \in O
                   PROVE  /\ y[2] = w.rel
                          /\ \E k \in DOMAIN Workloads[w.rel] :
                               /\ w.cond[Workloads[w.rel][k]] \in DisallowingUpdateStates
                               /\ \E i \in DOMAIN Walk(Workloads[w.rel][k]) :
                                    /\ y[1] = Walk(Workloads[w.rel][k])[i]
                                    /\ <<Workloads[w.rel][k], w.rel, i>> \in R
        BY DEF Pursued
      <3>1. y[2] = p.rel /\ y = <<y[1], y[2]>>
        BY DEF Pursued
      <3>5. PICK k \in DOMAIN Workloads[p.rel] :
               /\ p.cond[Workloads[p.rel][k]] \in DisallowingUpdateStates
               /\ \E i \in DOMAIN Walk(Workloads[p.rel][k]) :
                    /\ y[1] = Walk(Workloads[p.rel][k])[i]
                    /\ <<Workloads[p.rel][k], p.rel, i>> \in R
        BY DEF Pursued
      <3>2. PICK i \in DOMAIN Walk(Workloads[p.rel][k]) :
               /\ y[1] = Walk(Workloads[p.rel][k])[i]
               /\ <<Workloads[p.rel][k], p.rel, i>> \in R
        BY <3>5
      <3>3. w.cond[Workloads[p.rel][k]] \in DisallowingUpdateStates
        BY <2>2, <2>3, <2>4, <3>1, <3>2, <3>5
      <3>4. QED
        BY <2>2, <3>1, <3>2, <3>3
    <2>6. Covers(w, w, S)
      <3>1. ASSUME NEW k \in DOMAIN Workloads[p.rel]
            PROVE  /\ w.cond[Workloads[p.rel][k]] # "None"
                   /\ isHelmUpgradeFinished(w, Workloads[p.rel][k]) =>
                        <<Workloads[p.rel][k], p.rel>> \in S
        <4>1. CASE Workloads[p.rel][k] = c
          <5>1. x # "None"
            BY DEF HelmReason, FinalReason
          <5>2. isHelmUpgradeFinished(w, c) => x \in FinalReason
            BY <2>2 DEF isHelmUpgradeFinished, IsStatusConditionTrue, FinalReason
          <5>3. QED
            BY <2>2, <2>3, <4>1, <5>1, <5>2
        <4>2. CASE Workloads[p.rel][k] # c
          BY <1>4, <2>2, <4>2 DEF Covers, isHelmUpgradeFinished, IsStatusConditionTrue
        <4>3. QED
          BY <4>1, <4>2
      <3>2. QED
        BY <2>2, <3>1 DEF Covers
    <2>7. QED
      BY <2>5, <2>6
  <1>5. QED
    BY <1>1, <1>2, <1>3, <1>4 DEF ReturnsStatus

\* A write is one for the stored plan too, and for a component that it reports as
\* unfinished: the walk of a finished one has nothing to write.
LEMMA WriteOpen ==
  ASSUME ChartsListedOnce, WalkInv, NoStaleJob, cache.life = "live", NEW h, WritesFor(cache, h),
         UNCHANGED <<installed, job>>
  PROVE  /\ Pursued(plan, OpenCharts', Reached')
         /\ Covers(plan, plan, Resting') /\ Covers(cache, plan, Resting')
  <1>0. /\ TypeOK /\ HelmInv /\ JobInv /\ OpenInv /\ RefinementInv /\ WellFormed(plan)
        /\ plan.cond \in [ConditionType -> Reason]
    BY DEF WalkInv, ComponentInv, RefinementInv, StageInv, StatusInv, TypeOK, PlanObject
  <1> DEFINE r == cache.rel
  <1>1. PICK k \in DOMAIN Workloads[r] : \E i \in DOMAIN Walk(Workloads[r][k]) :
            h = Walk(Workloads[r][k])[i] /\ StopsFirst(Workloads[r][k], i, r)
    BY DEF WritesFor
  <1>2. PICK i \in DOMAIN Walk(Workloads[r][k]) :
           h = Walk(Workloads[r][k])[i] /\ StopsFirst(Workloads[r][k], i, r)
    BY <1>1
  <1>3. /\ h \in Chart /\ r \in Release /\ hc' = [hc EXCEPT ![h] = HelmChartFor(h, r)]
        /\ upgradeHelmChart(h, r) = "InProgress" /\ cache.obs = cache.gen
    BY <1>0, WrittenChart, WritesInProgress DEF WritesFor
  <1> DEFINE c == Workloads[r][k]
  <1>4. c \in Chart /\ c \in ConditionType
    BY <1>3, ComponentTypes
  <1>5. ~isHelmUpgradeFinished(plan, c) /\ plan.cond[c] # "None"
    <2>1. <<c, r>> \notin Resting
      BY <1>2, <1>3 DEF Resting, Rests
    <2>2. QED
      BY <1>0, <1>3, <2>1 DEF OpenInv, Covers
  <1>6. plan.cond[c] \in DisallowingUpdateStates
    BY <1>0, <1>4, <1>5
    DEF Reason, isHelmUpgradeFinished, IsStatusConditionTrue, DisallowingUpdateStates
  <1>7. plan.rel = r
    BY <1>0, <1>4, <1>6 DEF OpenInv, Blocked
  <1>8. ASSUME NEW j \in 1 .. (i - 1)
        PROVE  ~Open(Walk(c)[j])
    <2> SUFFICES ASSUME Open(Walk(c)[j]) PROVE FALSE
      OBVIOUS
    <2>1. j \in DOMAIN Walk(c) /\ Walk(c)[j] \in Chart
      BY <1>4, WalkTypes
    <2> DEFINE x == <<Walk(c)[j], hc[Walk(c)[j]].ann>>
    <2>2. x \in OpenCharts /\ x[2] = hc[Walk(c)[j]].ann
      BY <1>0, <2>1, OpenChart
    <2>3. x[2] = plan.rel
      <3> HIDE DEF x
      <3>1. QED
        BY <1>0, <2>2 DEF OpenInv, Pursued
    <2>4. <<Walk(c)[j], r>> \in OpenCharts
      BY <1>7, <2>2, <2>3
    <2>5. Stops(c, j, r)
      BY <1>0, <1>3, <1>4, <2>1, <2>4, OpenStops
    <2>6. QED
      BY <1>2, <2>5 DEF StopsFirst
  <1>9. /\ OpenCharts' \subseteq OpenCharts \cup {<<h, r>>}
        /\ \A m \in DOMAIN Workloads[r] : \A a \in DOMAIN Walk(Workloads[r][m]) :
              <<Workloads[r][m], r, a>> \in Reached => <<Workloads[r][m], r, a>> \in Reached'
        /\ \A m \in DOMAIN Workloads[r] \ {k} :
              <<Workloads[r][m], r>> \in Resting => <<Workloads[r][m], r>> \in Resting'
        /\ <<c, r, i>> \in Reached'
    BY <1>0, <1>2, <1>3, <1>8, WriteKeepsWalks
  <1>10. Pursued(plan, OpenCharts', Reached')
    <2> SUFFICES ASSUME NEW x \in OpenCharts'
                 PROVE  /\ x[2] = r
                        /\ \E m \in DOMAIN Workloads[r] :
                             /\ plan.cond[Workloads[r][m]] \in DisallowingUpdateStates
                             /\ \E a \in DOMAIN Walk(Workloads[r][m]) :
                                  /\ x[1] = Walk(Workloads[r][m])[a]
                                  /\ <<Workloads[r][m], r, a>> \in Reached'
      BY <1>7 DEF Pursued
    <2>1. CASE x \in OpenCharts
      <3>1. PICK m \in DOMAIN Workloads[r] :
               /\ plan.cond[Workloads[r][m]] \in DisallowingUpdateStates
               /\ \E a \in DOMAIN Walk(Workloads[r][m]) :
                    /\ x[1] = Walk(Workloads[r][m])[a]
                    /\ <<Workloads[r][m], r, a>> \in Reached
        BY <1>0, <1>7, <2>1 DEF OpenInv, Pursued
      <3>2. \E a \in DOMAIN Walk(Workloads[r][m]) :
               x[1] = Walk(Workloads[r][m])[a] /\ <<Workloads[r][m], r, a>> \in Reached'
        BY <1>9, <3>1
      <3>3. x[2] = r
        BY <1>0, <1>7, <2>1 DEF OpenInv, Pursued
      <3>4. QED
        BY <3>1, <3>2, <3>3
    <2>2. CASE x = <<h, r>>
      BY <1>2, <1>6, <1>9, <2>2
    <2>3. QED
      BY <1>9, <2>1, <2>2
  <1>11. ASSUME NEW p \in {plan, cache}
         PROVE  Covers(p, plan, Resting')
    <2>1. p.rel = r /\ Covers(p, plan, Resting)
      BY <1>0, <1>7 DEF OpenInv
    <2>2. QED
      BY <1>5, <1>9, <2>1 DEF Covers
  <1>12. QED
    BY <1>10, <1>11

\* A reconciliation that meets no stale job.
LEMMA ReconcileOpen ==
  ASSUME ChartsListedOnce, WalkInv, Reconcile, pc' = "commit" => NoStaleJob
  PROVE  OpenInv'
  <1>0. /\ TypeOK /\ HelmInv /\ JobInv /\ OpenInv /\ WellFormed(cache) /\ cache \in PlanObject
        /\ plan \in PlanObject /\ UNCHANGED <<cache, installed, job>> /\ pc = "idle"
    BY ReconcileKeeps, ReconcileWrites
    DEF WalkInv, ComponentInv, RefinementInv, StageInv, StatusInv, TypeOK, Reconcile
  <1>1. UNCHANGED hc => OpenCharts' = OpenCharts /\ Reached' = Reached /\ Resting' = Resting
    BY <1>0, WalksKept
  <1>2. /\ Pursued(plan, OpenCharts', Reached')
        /\ Covers(plan, plan, Resting') /\ Covers(cache, plan, Resting')
    <2>1. CASE UNCHANGED hc
      BY <1>0, <1>1, <2>1 DEF OpenInv
    <2>2. CASE pc' = "commit" /\ cache.life = "live" /\ \E h : WritesFor(cache, h)
      BY <1>0, <2>2, WriteOpen
    <2>3. QED
      BY <2>1, <2>2, ReconcileWrites
  <1>3. CASE cache.life = "live" /\ reconcileNormal(cache)
    <2>1. PICK w : (\E res : Return(w, res)) /\ ReturnsStatus(cache, w)
      BY <1>0, <1>3, ReconcileNormalReturns
    <2>2. UNCHANGED plan /\ base' = cache /\ work' = w /\ pc' = "commit"
      BY <2>1 DEF Return
    <2>3. cache.rel \in Release
      BY <1>0, <1>3 DEF WellFormed
    <2>4. ASSUME NEW k \in DOMAIN Workloads[cache.rel], UNCHANGED helmVars,
                 Rests(Workloads[cache.rel][k], cache.rel)
          PROVE  /\ <<Workloads[cache.rel][k], cache.rel>> \in Resting'
                 /\ \A i \in DOMAIN Walk(Workloads[cache.rel][k]) :
                       <<Workloads[cache.rel][k], cache.rel, i>> \in Reached' =>
                          <<Walk(Workloads[cache.rel][k])[i], cache.rel>> \notin OpenCharts'
      <3>1. OpenCharts' = OpenCharts /\ Reached' = Reached /\ Resting' = Resting
        BY <1>1, <2>4 DEF helmVars
      <3>2. Workloads[cache.rel][k] \in Chart
        BY <2>3, ComponentTypes
      <3>3. <<Workloads[cache.rel][k], cache.rel>> \in Resting
        BY <2>3, <2>4, <3>2 DEF Resting
      <3>4. QED
        BY <1>0, <2>2, <2>3, <2>4, <3>1, <3>2, <3>3, OpenRestless
    <2>5. OpenCharts' \subseteq Chart \X Release
      BY DEF OpenCharts
    <2>6. base' = plan' => Pursued(w, OpenCharts', Reached') /\ Covers(w, w, Resting')
      BY <1>0, <1>2, <1>3, <2>1, <2>2, <2>3, <2>4, <2>5, ReturnsCovered
    <2>7. cache.rel # plan.rel => ~Blocked(plan)
      BY <1>0 DEF OpenInv
    <2>8. QED
      BY <1>0, <1>2, <2>2, <2>6, <2>7, OpenPrimed
  <1>4. CASE ~(cache.life = "live" /\ cache.fin /\ reconcileNormal(cache))
    <2>1. pc' # "commit" /\ plan' \in {plan, [plan EXCEPT !.fin = TRUE]}
      BY <1>0, <1>4 DEF Reconcile, listPlans, AddFinalizer, localVars
    <2>2. SameStatus(plan, plan')
      BY <1>0, <2>1 DEF PlanObject, SameStatus
    <2>3. QED
      BY <1>0, <1>2, <2>1, <2>2, PursuedSame, CoversSame, CoversStatus, OpenPrimed
      DEF OpenInv, SameStatus, Blocked
  <1>5. QED
    BY <1>3, <1>4

\* A HelmChart is written for an installed chart only.
LEMMA ReconcileJobs ==
  ASSUME WalkInv, Reconcile
  PROVE  JobInv'
  <1>0. RefinementInv /\ JobInv /\ hc \in [Chart -> HelmChartObject] /\ UNCHANGED <<installed, job>>
    BY ReconcileWrites
    DEF WalkInv, ComponentInv, RefinementInv, StageInv, TypeOK, ClusterTypeOK
  <1>1. CASE UNCHANGED hc
    BY <1>0, <1>1 DEF JobInv
  <1>2. ASSUME cache.life = "live", NEW h, WritesFor(cache, h)
        PROVE  JobInv'
    <2>1. /\ h \in Chart /\ cache.rel \in Release /\ installed[h] # 0
          /\ hc' = [hc EXCEPT ![h] = HelmChartFor(h, cache.rel)]
      BY <1>0, <1>2, WrittenChart DEF WritesFor, writesHelmChart
    <2>2. hc'[h].ver # 0 /\ \A g \in Chart \ {h} : hc'[g] = hc[g]
      BY <1>0, <2>1, VersionAssumption DEF HelmChartFor
    <2>3. QED
      BY <1>0, <2>1, <2>2 DEF JobInv
  <1>3. QED
    BY <1>1, <1>2, ReconcileWrites

\* The invariant holds initially,
LEMMA InitWalks == Init => WalkInv
  <1> SUFFICES ASSUME Init PROVE WalkInv
    OBVIOUS
  <1>1. plan = NoPlan /\ cache = NoPlan /\ pc # "commit"
    BY DEF Init
  <1>2. JobInv
    BY VersionAssumption DEF JobInv, Init, ClusterInit, NoJob
  <1>3. OpenCharts = {}
    BY ReleaseAssumption DEF OpenCharts, Init, ClusterInit
  <1>4. NoPlan.life = "absent" /\ NoPlan.rel = 0
    BY DEF NoPlan
  <1>5. OpenInv
    BY <1>1, <1>3, <1>4, NonePursued, CoversUnobserved DEF OpenInv
  <1>6. QED
    BY <1>2, <1>5, InitComponents DEF WalkInv

\* and every step keeps it that meets no stale job.
LEMMA NextWalks ==
  ASSUME ChartsListedOnce, WalkInv, [Next]_vars,
         pc = "idle" /\ pc' = "commit" => NoStaleJob
  PROVE  WalkInv'
  <1>0. ComponentInv /\ TypeOK /\ HelmInv /\ JobInv
    BY DEF WalkInv, ComponentInv, RefinementInv, StageInv
  <1>1. ComponentInv'
    BY <1>0, NextComponents
  <1>2. Reconcile => (pc' = "commit" => NoStaleJob)
    BY DEF Reconcile
  <1>3. OpenInv'
    BY <1>2, JobsOpen, UserOpen, CopiesOpen, CommitOpen, DeletionOpen, ReconcileOpen
    DEF Next, Controller
  <1>4. UNCHANGED <<installed, job, hc>> => JobInv'
    BY <1>0 DEF JobInv
  <1>5. JobInv'
    BY <1>0, <1>4, JobsWorkOnOpen, ReconcileJobs, OthersWriteNothing DEF Next, Controller
  <1>6. QED
    BY <1>1, <1>3, <1>5 DEF WalkInv

\* A chart that counts as upgraded is installed in the version of the release, or
\* another release has failed to install that version.
LEMMA UpgradedInstalled ==
  ASSUME WalkInv, NoStaleJob, NEW g \in Chart, cache.rel \in Release,
         Upgraded(upgradeHelmChart(g, cache.rel))
  PROVE  installed[g] = ChartVersion[cache.rel][g] \/ FailedBefore(g, cache.rel)
  <1> DEFINE r == cache.rel
  <1>0. TypeOK /\ HelmInv /\ OpenInv
    BY DEF WalkInv, ComponentInv, RefinementInv, StageInv
  <1>1. CASE upgradeHelmChart(g, r) = "Succeeded"
    BY <1>0, <1>1, SucceededInstalled DEF InstalledFor
  <1>2. CASE upgradeHelmChart(g, r) = "VersionAlreadyInstalled"
    <2>1. ~writesHelmChart(g, r) /\ installed[g] # 0 /\ hc[g].ann # r
      BY <1>0, <1>2, ReportedState
    <2>2. hc[g].ver = ChartVersion[r][g] \/ installed[g] = ChartVersion[r][g]
      BY <2>1 DEF writesHelmChart
    <2>3. CASE hc[g].ver = ChartVersion[r][g] /\ hc[g].ann = 0
      <3>1. ChartVersion[r][g] # 0
        BY VersionAssumption
      <3>2. QED
        BY <1>0, <2>3, <3>1 DEF HelmInv
    <2>4. CASE hc[g].ver = ChartVersion[r][g] /\ hc[g].ann # 0
      <3>1. ~Open(g)
        <4> SUFFICES ASSUME Open(g) PROVE FALSE
          OBVIOUS
        <4> DEFINE x == <<g, hc[g].ann>>
        <4>1. x \in OpenCharts /\ x[2] = hc[g].ann
          BY <1>0, OpenChart
        <4>2. x[2] = plan.rel
          <5> HIDE DEF x
          <5>1. QED
            BY <1>0, <4>1 DEF OpenInv, Pursued
        <4>3. plan.rel = r
          BY <1>0, <4>1, NoneOpen DEF OpenInv
        <4>4. QED
          BY <2>1, <4>1, <4>2, <4>3
      <3>2. job[g].st \in {"complete", "failed"} /\ job[g].ver = hc[g].ver
        BY <2>4, <3>1 DEF Open, JobFinished
      <3>3. QED
        BY <1>0, <2>1, <2>4, <3>2 DEF HelmInv, FailedBefore
    <2>5. QED
      BY <2>2, <2>3, <2>4
  <1>3. QED
    BY <1>1, <1>2 DEF Upgraded

\* Dependencies are upgraded before the component, and the component before its
\* add-ons: if no chart is listed twice and the Helm Controller has removed the
\* jobs of earlier versions whenever a plan is reconciled, then the charts that a
\* written HelmChart comes after are installed in the version of the release, or
\* another release has asked for that version and its job has failed. In
\* particular no job for them is under way, although releases may share versions
\* and plans are edited while the controller looks at older copies.
THEOREM DependenciesFirstCorrect ==
  ASSUME ChartsListedOnce
  PROVE  Spec /\ PromptHelmController => DependenciesFirst
  <1> DEFINE Prompt == pc = "idle" /\ pc' = "commit" => NoStaleJob
             Ordered ==
               \A r \in Release : \A c \in Components(r) : \A i \in DOMAIN Walk(c) :
                 LET h == Walk(c)[i]
                 IN  hc'[h] # hc[h] /\ hc'[h].ann = r =>
                        \A j \in 1 .. (i - 1) : j <= CoreIndex(c) =>
                            \/ installed[Walk(c)[j]] = ChartVersion[r][Walk(c)[j]]
                            \/ FailedBefore(Walk(c)[j], r)
  <1>1. ASSUME WalkInv, [Next]_vars, [Prompt]_vars
        PROVE  Ordered
    <2> SUFFICES ASSUME NEW r \in Release, NEW k \in DOMAIN Workloads[r],
                        NEW i \in DOMAIN Walk(Workloads[r][k]),
                        hc'[Walk(Workloads[r][k])[i]] # hc[Walk(Workloads[r][k])[i]],
                        hc'[Walk(Workloads[r][k])[i]].ann = r,
                        NEW j \in 1 .. (i - 1), j <= CoreIndex(Workloads[r][k])
                 PROVE  \/ installed[Walk(Workloads[r][k])[j]]
                              = ChartVersion[r][Walk(Workloads[r][k])[j]]
                        \/ FailedBefore(Walk(Workloads[r][k])[j], r)
      BY DEF Components
    <2> DEFINE c == Workloads[r][k]
               g == Walk(c)[i]
    <2>0. ComponentInv /\ RefinementInv /\ hc \in [Chart -> HelmChartObject]
      BY <1>1 DEF WalkInv, ComponentInv, RefinementInv, StageInv, TypeOK, ClusterTypeOK
    <2>1. Reconcile
      BY <1>1, <2>0, WriterReconciles
    <2>2. PICK h : cache.life = "live" /\ WritesFor(cache, h) /\ pc = "idle" /\ pc' = "commit"
      BY <2>1, ReconcileWrites
    <2>3. /\ h \in Chart /\ cache.rel \in Release
          /\ hc' = [hc EXCEPT ![h] = HelmChartFor(h, cache.rel)]
      BY <2>0, <2>2, WrittenChart
    <2>4. c \in Chart /\ g \in Chart
      BY ComponentTypes, WalkTypes
    <2>5. g = h /\ cache.rel = r
      BY <2>0, <2>3, <2>4 DEF HelmChartFor
    <2>6. PICK m \in DOMAIN Workloads[r] :
             \E a \in DOMAIN Walk(Workloads[r][m]) :
                h = Walk(Workloads[r][m])[a] /\ StopsFirst(Workloads[r][m], a, r)
      BY <2>2, <2>5 DEF WritesFor
    <2>7. StopsFirst(c, i, r)
      <3>1. PICK a \in DOMAIN Walk(Workloads[r][m]) :
               h = Walk(Workloads[r][m])[a] /\ StopsFirst(Workloads[r][m], a, r)
        BY <2>6
      <3>2. m = k /\ a = i
        BY <2>5, <3>1 DEF ChartsListedOnce
      <3>3. QED
        BY <3>1, <3>2
    <2>8. Upgraded(upgradeHelmChart(Walk(c)[j], r))
      BY <2>7 DEF StopsFirst, Stops
    <2>9. Walk(c)[j] \in Chart
      BY <2>4, WalkTypes
    <2>10. NoStaleJob
      BY <1>1, <2>2 DEF vars, localVars
    <2>11. QED
      BY <1>1, <2>3, <2>5, <2>8, <2>9, <2>10, UpgradedInstalled
  <1>2. WalkInv /\ [Next]_vars /\ [Prompt]_vars => WalkInv'
    <2> SUFFICES ASSUME WalkInv, [Next]_vars, [Prompt]_vars PROVE WalkInv'
      OBVIOUS
    <2>1. pc = "idle" /\ pc' = "commit" => NoStaleJob
      BY DEF vars, localVars
    <2>2. QED
      BY <2>1, NextWalks
  <1>3. WalkInv /\ [Next]_vars /\ [Prompt]_vars => [Ordered]_vars
    BY <1>1
  <1>4. QED
    BY <1>2, <1>3, InitWalks, PTL DEF Spec, DependenciesFirst, PromptHelmController
-----------------------------------------------------------------------------
(***************************************************************************)
(* What is reported as successful.                                         *)
(***************************************************************************)

\* It is the status that counts,
LEMMA SettledSame ==
  ASSUME NEW p, NEW w, NEW d, SameStatus(p, w), Settled(p, d)
  PROVE  Settled(w, d)
  BY DEF SameStatus, Settled

\* charts that have been installed since do not matter,
LEMMA SettledGrows ==
  ASSUME NEW p, NEW d, NEW e, d \subseteq e, Settled(p, d)
  PROVE  Settled(p, e)
  BY DEF Settled

\* and a generation that has not been observed reports nothing.
LEMMA SettledUnobserved ==
  ASSUME NEW p, NEW d, p.life = "absent" \/ p.obs # p.gen
  PROVE  Settled(p, d)
  BY DEF Settled

\* The invariant after a step is one of the copies after the step.
LEMMA SettledPrimed ==
  ASSUME Settled(plan', InstalledCharts'), Settled(cache', InstalledCharts'),
         Settled(base', InstalledCharts'), Settled(work', InstalledCharts')
  PROVE  SettledInv'
  BY DEF SettledInv, Settled, Components

\* What reconcileNormal returns reports a component as successful only when the
\* plan did or upgradeHelmChart found it so.
LEMMA ReturnsSettled ==
  ASSUME NEW p \in PlanObject, NEW w, NEW d, p.rel \in Release, p.life # "absent",
         ReturnsStatus(p, w), Settled(p, d),
         \A c \in Components(p.rel) :
            upgradeHelmChart(c, p.rel) = "Succeeded" /\ UNCHANGED helmVars => <<c, p.rel>> \in d
  PROVE  Settled(w, d)
  <1>1. CASE SameStatus(p, w)
    BY <1>1, SettledSame
  <1>2. CASE w.rel = p.rel /\ \A t \in Components(p.rel) : w.cond[t] = "Pending"
    BY <1>2 DEF Settled
  <1>3. \A c \in Components(p.rel) : c \in ConditionType /\ c \notin {"OS", "K8s"}
    BY ComponentTypes DEF Components
  <1>4. ASSUME p.obs = p.gen, NEW t, NEW x, Sets(p, w, t, x),
               t \in Components(p.rel) /\ x = "Succeeded" => <<t, p.rel>> \in d
        PROVE  Settled(w, d)
    BY <1>3, <1>4 DEF Sets, Settled
  <1>5. CASE p.obs = p.gen /\ \E t \in {"OS", "K8s"} : \E x : Sets(p, w, t, x)
    BY <1>3, <1>4, <1>5
  <1>6. ASSUME p.obs = p.gen, NEW i \in DOMAIN Workloads[p.rel], Outcome(p, w, Workloads[p.rel][i])
        PROVE  Settled(w, d)
    BY <1>4, <1>6 DEF Outcome, FinalReason, Components
  <1>7. QED
    BY <1>1, <1>2, <1>5, <1>6 DEF ReturnsStatus

\* A write replaces no chart that the cached or the stored plan reports as
\* successful.
LEMMA WritesSpareSettled ==
  ASSUME ComponentInv, SettledInv, cache.life = "live", NEW h, WritesFor(cache, h),
         UNCHANGED <<installed, job>>, NEW p \in {plan, cache}
  PROVE  Settled(p, InstalledCharts')
  <1>0. RefinementInv /\ OrderInv /\ hc \in [Chart -> HelmChartObject] /\ p \in PlanObject
        /\ WellFormed(p)
    BY DEF ComponentInv, RefinementInv, StageInv, TypeOK, ClusterTypeOK, StatusInv
  <1>1. /\ h \in Chart /\ cache.rel \in Release
        /\ hc' = [hc EXCEPT ![h] = HelmChartFor(h, cache.rel)]
        /\ hc[h].ver # ChartVersion[cache.rel][h]
    BY <1>0, WrittenChart
  <1>2. \A g \in Chart \ {h} : hc'[g] = hc[g]
    BY <1>0, <1>1
  <1> SUFFICES ASSUME p.life # "absent", p.obs = p.gen, NEW c \in Components(p.rel),
                      p.cond[c] = "Succeeded"
               PROVE  <<c, p.rel>> \in InstalledCharts'
    BY DEF Settled, Components
  <1>3. p.rel = cache.rel
    BY <1>0, Generations DEF OrderInv
  <1>4. <<c, p.rel>> \in InstalledCharts
    BY DEF SettledInv, Settled
  <1>5. c \in Chart /\ p.rel \in Release /\ InstalledFor(c, p.rel)
    BY <1>4 DEF InstalledCharts
  <1>6. c # h
    BY <1>1, <1>3, <1>5 DEF InstalledFor, HelmChartFor
  <1>7. InstalledFor(c, p.rel)'
    BY <1>2, <1>5, <1>6 DEF InstalledFor, HelmChartFor
  <1>8. QED
    BY <1>5, <1>7 DEF InstalledCharts

\* A reconciliation that meets no stale job.
LEMMA ReconcileSettled ==
  ASSUME ComponentInv, SettledInv, Reconcile, pc' = "commit" => NoStaleJob
  PROVE  SettledInv'
  <1>0. /\ RefinementInv /\ TypeOK /\ HelmInv /\ plan \in PlanObject /\ cache \in PlanObject
        /\ WellFormed(cache) /\ UNCHANGED <<cache, installed, job>>
    BY ReconcileKeeps, ReconcileWrites
    DEF ComponentInv, RefinementInv, StageInv, TypeOK, StatusInv, Reconcile
  <1>1. UNCHANGED hc => InstalledCharts' = InstalledCharts
    BY <1>0 DEF InstalledCharts, InstalledFor, HelmChartFor
  <1>2. Settled(plan, InstalledCharts') /\ Settled(cache, InstalledCharts')
    <2>1. CASE UNCHANGED hc
      BY <1>1, <2>1 DEF SettledInv
    <2>2. CASE cache.life = "live" /\ \E h : WritesFor(cache, h)
      BY <1>0, <2>2, WritesSpareSettled
    <2>3. QED
      BY <2>1, <2>2, ReconcileWrites
  <1>3. CASE cache.life = "live" /\ reconcileNormal(cache)
    <2>1. PICK w : (\E res : Return(w, res)) /\ ReturnsStatus(cache, w)
      BY <1>0, <1>3, ReconcileNormalReturns
    <2>2. UNCHANGED plan /\ base' = cache /\ work' = w /\ pc' = "commit"
      BY <2>1 DEF Return
    <2>3. cache.rel \in Release
      BY <1>0, <1>3 DEF WellFormed
    <2>4. ASSUME NEW c \in Components(cache.rel), upgradeHelmChart(c, cache.rel) = "Succeeded",
                 UNCHANGED helmVars
          PROVE  <<c, cache.rel>> \in InstalledCharts'
      <3>1. c \in Chart
        BY <2>3, ComponentTypes DEF Components
      <3>2. InstalledFor(c, cache.rel)
        BY <1>0, <2>2, <2>3, <2>4, <3>1, SucceededInstalled
      <3>3. InstalledCharts' = InstalledCharts
        BY <1>1, <2>4 DEF helmVars
      <3>4. QED
        BY <2>3, <3>1, <3>2, <3>3 DEF InstalledCharts
    <2>5. Settled(w, InstalledCharts')
      BY <1>0, <1>2, <1>3, <2>1, <2>3, <2>4, ReturnsSettled
    <2>6. QED
      BY <1>0, <1>2, <2>2, <2>5, SettledPrimed
  <1>4. CASE ~(cache.life = "live" /\ cache.fin /\ reconcileNormal(cache))
    <2>1. UNCHANGED hc
      BY <1>4 DEF Reconcile, listPlans, AddFinalizer, clusterVars, helmVars
    <2>2. Settled(base, InstalledCharts') /\ Settled(work, InstalledCharts')
      BY <1>1, <2>1 DEF SettledInv
    <2>3. base' \in {base, cache} /\ work' \in {work, cache}
      BY <1>4 DEF Reconcile, listPlans, AddFinalizer, localVars
    <2>4. plan' \in {plan, [plan EXCEPT !.fin = TRUE]}
      BY <1>4 DEF Reconcile, listPlans, AddFinalizer
    <2>5. SameStatus(plan, plan')
      BY <1>0, <2>4 DEF PlanObject, SameStatus
    <2>6. Settled(plan', InstalledCharts')
      BY <1>2, <2>5, SettledSame
    <2>7. QED
      BY <1>0, <1>2, <2>2, <2>3, <2>6, SettledPrimed
  <1>5. QED
    BY <1>3, <1>4

\* Every other step.
LEMMA OthersSettled ==
  ASSUME ComponentInv, SettledInv, [Next]_vars, ~Reconcile
  PROVE  SettledInv'
  <1>0. RefinementInv /\ TypeOK /\ HelmInv /\ StatusInv /\ plan \in PlanObject
    BY DEF ComponentInv, RefinementInv, StageInv, TypeOK
  <1>1. InstalledCharts \subseteq InstalledCharts'
    <2>1. CASE JobStep
      BY <1>0, <2>1, JobsHelm
    <2>2. CASE UNCHANGED <<installed, job, hc>>
      BY <2>2 DEF InstalledCharts, InstalledFor, HelmChartFor
    <2>3. QED
      BY <2>1, <2>2, OthersWriteNothing DEF Next, Controller
  <1>2. /\ Settled(plan, InstalledCharts') /\ Settled(cache, InstalledCharts')
        /\ Settled(base, InstalledCharts') /\ Settled(work, InstalledCharts')
        /\ Settled(NoPlan, InstalledCharts')
    BY <1>1, SettledGrows, SettledUnobserved DEF SettledInv, NoPlan
  <1>3. CASE \/ SUCStep \/ JobStep \/ Informer \/ RequeueAfterElapses \/ Restart \/ UNCHANGED vars
    <2>1. /\ UNCHANGED plan /\ cache' \in {plan, cache}
          /\ base' \in {base, NoPlan} /\ work' \in {work, NoPlan}
      BY <1>3 DEF SUCStep, JobStep, Informer, SyncPlan, ResyncSecret, SyncObject,
                  RequeueAfterElapses, Restart, vars, localVars
    <2>2. QED
      BY <1>2, <2>1, SettledPrimed
  <1>4. CASE User
    <2>1. UNCHANGED <<cache, base, work>>
      BY <1>4 DEF User, CreatePlan, EditPlan, DeletePlan, localVars
    <2>2. CASE plan'.gen = plan.gen + 1 /\ plan'.obs = plan.obs
      <3>1. plan'.obs # plan'.gen
        BY <1>0, <2>2, Generations
      <3>2. QED
        BY <1>2, <2>1, <3>1, SettledUnobserved, SettledPrimed
    <2>3. CASE plan.life = "live" /\ plan' = [plan EXCEPT !.life = "gone"]
      <3>1. SameStatus(plan, plan')
        BY <1>0, <2>3 DEF PlanObject, SameStatus
      <3>2. QED
        BY <1>2, <2>1, <3>1, SettledSame, SettledPrimed
    <2>4. ASSUME NEW r, CreatePlan(r)
          PROVE  plan'.gen = plan.gen + 1 /\ plan'.obs = plan.obs
      <3>1. plan = NoPlan
        BY <2>4 DEF CreatePlan, ComponentInv, OrderInv
      <3>2. QED
        BY <2>4, <3>1 DEF CreatePlan, NoPlan
    <2>5. ASSUME NEW r, EditPlan(r)
          PROVE  plan'.gen = plan.gen + 1 /\ plan'.obs = plan.obs
      BY <1>0, <2>5 DEF EditPlan, PlanObject
    <2>6. CASE DeletePlan
      <3>1. CASE plan.fin
        BY <1>0, <2>2, <2>6, <3>1 DEF DeletePlan, PlanObject
      <3>2. QED
        BY <2>3, <2>6, <3>1 DEF DeletePlan
    <2>7. QED
      BY <1>4, <2>2, <2>4, <2>5, <2>6 DEF User
  <1>5. CASE Commit
    <2>1. UNCHANGED cache /\ base' = NoPlan /\ work' = NoPlan /\ plan' \in {plan, work}
      BY <1>5 DEF Commit, Finish
    <2>2. QED
      BY <1>2, <2>1, SettledPrimed
  <1>6. CASE deletePlans \/ deleteSecrets \/ RemoveFinalizer
    <2>1. UNCHANGED cache /\ base' \in {base, NoPlan} /\ work' \in {work, NoPlan}
      BY <1>6 DEF deletePlans, deleteSecrets, RemoveFinalizer, deleteListed, Finish
    <2>2. plan' = plan \/ (pc = "deleteSecrets" /\ base = plan
                           /\ plan' = [[work EXCEPT !.fin = FALSE] EXCEPT !.life = "gone"])
      BY <1>6 DEF deletePlans, deleteSecrets, RemoveFinalizer
    <2>3. SameStatus(plan, plan')
      <3>1. CASE plan' = plan
        BY <3>1 DEF SameStatus
      <3>2. CASE /\ pc = "deleteSecrets" /\ base = plan
                 /\ plan' = [[work EXCEPT !.fin = FALSE] EXCEPT !.life = "gone"]
        BY <1>0, <3>2 DEF SameStatus, StatusInv, PlanObject
      <3>3. QED
        BY <2>2, <3>1, <3>2
    <2>4. QED
      BY <1>2, <2>1, <2>3, SettledSame, SettledPrimed
  <1>7. QED
    BY <1>3, <1>4, <1>5, <1>6 DEF Next, Controller

\* upgradeplan_types.go: UpgradeSucceeded "indicates that the upgrade process has
\* been successful". The job that was read is the only thing that can make it
\* untrue: if the Helm Controller has removed the jobs of earlier versions
\* whenever a plan is reconciled, a component that the stored status reports as
\* Succeeded is installed in the version of the release, through all edits,
\* restarts, failures and late status updates.
THEOREM SucceededMeansInstalledCorrect ==
  Spec /\ PromptHelmController => []SucceededMeansInstalled
  <1> DEFINE Prompt == pc = "idle" /\ pc' = "commit" => NoStaleJob
  <1>1. Init => OutcomeInv
    <2> SUFFICES ASSUME Init PROVE OutcomeInv
      OBVIOUS
    <2>1. plan = NoPlan /\ cache = NoPlan /\ base = NoPlan /\ work = NoPlan
      BY DEF Init
    <2>2. Settled(NoPlan, InstalledCharts)
      BY SettledUnobserved DEF NoPlan
    <2>3. QED
      BY <2>1, <2>2, InitComponents DEF OutcomeInv, SettledInv
  <1>2. OutcomeInv /\ [Next]_vars /\ [Prompt]_vars => OutcomeInv'
    <2> SUFFICES ASSUME OutcomeInv, [Next]_vars, [Prompt]_vars PROVE OutcomeInv'
      OBVIOUS
    <2>1. ComponentInv /\ SettledInv /\ ComponentInv'
      BY NextComponents DEF OutcomeInv
    <2>2. Reconcile => (pc' = "commit" => NoStaleJob)
      BY DEF Reconcile, vars, localVars
    <2>3. SettledInv'
      BY <2>1, <2>2, ReconcileSettled, OthersSettled
    <2>4. QED
      BY <2>1, <2>3 DEF OutcomeInv
  <1>3. OutcomeInv => SucceededMeansInstalled
    BY DEF OutcomeInv, SettledInv, Settled, SucceededMeansInstalled, Current, Exists,
           InstalledCharts, InstalledFor
  <1>4. QED
    BY <1>1, <1>2, <1>3, PTL DEF Spec, PromptHelmController
=============================================================================
