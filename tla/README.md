# Formal model of the SUSE Edge Upgrade Controller

The Upgrade Controller is a Kubernetes controller that upgrades a cluster from
one platform release to the next: the operating system of every node, then
Kubernetes, then the Helm charts of the platform. This directory holds TLA+
modules that model it, TLC configurations that check small instances, and
proofs, checked by TLAPS, that hold for every instance.

## 1. The system

### Parts, their state and their operations

| Part | Code | State | Operations |
|---|---|---|---|
| UpgradePlan API | `api/v1alpha1/upgradeplan_types.go`, setters in `upgradeplan_controller.go` | spec (release version), generation, status (conditions, observed generation, name suffix, last successful release), finalizer, deletion mark | condition setters, `isHelmUpgradeFinished` |
| Webhook | `upgradeplan_webhook.go` | none | `ValidateCreate`, `ValidateUpdate`, `ValidateDelete` |
| ReleaseManifest API | `releasemanifest_types.go` | versions of OS, Kubernetes, charts; supported architectures | `Short`, `SupportedArchitectures` |
| Reconciler core | `internal/controller/upgradeplan_controller.go` | none of its own: locals of one reconciliation, informer caches, the work queue | `Reconcile`, `reconcileNormal`, `reconcileDelete`, `createObject` |
| OS stage | `reconcile_os.go` | (cluster) | `reconcileOS`, `isOSUpgraded`, `findUnsupportedNodes` |
| Kubernetes stage | `reconcile_kubernetes.go` | (cluster) | `reconcileKubernetes`, `isKubernetesUpgraded` |
| Core component checks | `reconcile_kubernetes.go`, `internal/upgrade/container.go` | (cluster) | `getK8sCoreComponentsUpgradeStatus`, `isK8sCoreComponentUpgraded`, `ContainsContainerImages` |
| Helm stage | `reconcile_helm.go`, `helm.go` | (cluster) | `reconcileHelmChart`, `upgradeHelmChart`, `evaluateHelmChartState`, `mergeHelmValues`, `mergeMaps` |
| Release manifest retrieval | `release_manifest.go` | (cluster) | `retrieveReleaseManifest`, `createReleaseManifest` |
| SUC objects | `internal/upgrade/*.go` | none | builders of Secrets, SUC plans and the manifest job |
| Drain options | `upgradeplan_controller.go` | none | `parseDrainOptions` |
| OS upgrade script | `internal/upgrade/templates/os-upgrade.sh.tpl` | a placeholder file and a service on the node | prepare, reboot and confirm an upgrade; run by SUC on every node |
| Watches | `SetupWithManager` | the queue | predicates on plans, SUC plans, jobs, Secrets |

### How they interact

Users write UpgradePlans; the webhook admits or rejects each write. The
informers deliver plans, Secrets, SUC plans and jobs to the controller's caches
and, where a predicate holds, put the plan into the work queue. One worker takes
the plan from the queue, reads the *cached* plan, looks at the cluster, performs
at most one write and then updates the plan's status. The System Upgrade
Controller (SUC) executes the SUC plans node by node, the Helm Controller
executes the HelmCharts in jobs, a job installs a missing ReleaseManifest. The
controller learns of their progress only from watch events and timers.

### What is hard

The controller keeps no state, so everything rests on the order in which it
writes and reads shared objects: stale caches, a status update that arrives
after an edit, a restart between a write and the status update that records it,
edge-triggered events without a requeue, checks on copies that are outdated when
they are acted on, and the rules of the webhook that are supposed to keep edits
away from a running upgrade. On the nodes, the upgrade script is started anew
after kills, failures and reboots and has only two files to tell where it is.
`PROJECT.json` lists these hazards at their lines, with the properties that would
catch each.

### What makes each part correct

* Stages: control plane before workers, OS before Kubernetes before Helm, one
  node at a time.
* Status: conditions and the last successful release describe the cluster.
* Plan and objects: nothing is created for an outdated spec, for an unsupported
  architecture, or left behind without bound.
* Helm: order of components and dependencies; an outcome that is reported is
  the outcome.
* Values: what is written into a chart is what it has, overlaid with the values
  of the release and of the plan, and no edit is lost.
* Script: a node is believed to be upgraded only when it is, it is not rebooted
  in vain, and every job completes.
* Progress: an upgrade and a deletion come to an end; while something is left to
  do, something will wake the controller up.

## 2. The modules

```
ReleaseManifest <- UpgradePlan <- Cluster <- HelmUpgrade <- UpgradeController
                                                                  ^
      StagedUpgrade <..instance.. UpgradeProperties --------------+
                                ^          ^
               MCUpgradeController        UpgradeStages_proofs
                                           ^
                                 UpgradeRefinement_proofs
                                    ^               ^
           UpgradeComponents_proofs               UpgradeObjects_proofs
                          ^                        ^        ^
                          +- UpgradeWakeUps_proofs +    UpgradeNodes_proofs

NodeUpgrade <..instance.. OSUpgradeScript <- MCOSUpgradeScript
                                          <- OSUpgradeScript_proofs

ComponentReads <- ComponentReads_proofs
               <- MCComponentReads -> HelmValues
```

An arrow points to the module that is EXTENDed; a dotted one to an abstract
specification that is instantiated. The three groups model the same system at
different distances: `UpgradeController` takes a node's upgrade job as three
steps, the core components as one version and a chart without its values;
`OSUpgradeScript` looks into the job, `ComponentReads` into the reads and writes
of core components and charts.

* **ReleaseManifest** – constants that describe the releases, and the
  architecture tables. A version is a natural number (the controller compares
  versions for equality, the webhook for order); 0 is "none".
* **UpgradePlan** – the resource as a record (`PlanObject`), the condition
  setters, the webhook's decision. A condition is its reason, because every
  setter writes a fixed pair of status and reason.
* **Cluster** – the objects the controller creates and the external programs
  that act on them: SUC (`StartNodeJob`, `UpgradeNode`, `FinishNodeJob`), core
  components, the manifest job with failure and TTL, the Helm Controller
  (`RemoveHelmJob`, `StartHelmJob`, `HelmJobSucceeds`, `HelmJobFails`). These
  programs are not part of the repository; they are modelled from how it uses
  them: concurrency 1, cordon, prepare container, mounted secret, backoff limit.
  Objects are identified by what their names are put together from: kind,
  version, suffix.
* **HelmUpgrade** – the state of a chart as `upgradeHelmChart` computes it and
  the walk of `reconcileHelmChart` over dependencies, component and add-ons.
* **UpgradeController** – the composition.

| Variable | Code |
|---|---|
| `plan`, `cache` | the UpgradePlan in the API server and in the informer cache |
| `seen` | Secrets and SUC plans in the informer caches |
| `queued`, `timer` | the work queue and `RequeueAfter` |
| `pc`, `base`, `work`, `result` | the running reconciliation: the plan as read, the local copy with its new status, the returned result |
| `todo`, `busy` | the lists of `reconcileDelete` and the `Applying` statuses read with them |
| `objs`, `applying`, `done`, `os`, `kube`, `cordoned`, `core`, `manifests`, `mjob`, `installed`, `hc`, `job` | the cluster |

| Action | Code |
|---|---|
| `CreatePlan`, `EditPlan`, `DeletePlan` | users, through the webhook |
| `SyncPlan`, `SyncObject`, `ResyncSecret` | informers with the predicates of `SetupWithManager` |
| `RequeueAfterElapses` | the one-minute polls |
| `SUCStep`, `JobStep` | external programs and the events they cause |
| `Reconcile` | `Reconcile` up to and including its single write: `AddFinalizer`, `listPlans`, or `reconcileNormal` |
| `Commit` | the deferred `Status().Update` and the requeue that the result asks for |
| `deletePlans`, `deleteSecrets`, `RemoveFinalizer` | the loops of `reconcileDelete`, one call per step |
| `Restart` | the process stops anywhere and starts again with filled caches |

All reads go through informer caches. The cached plan, Secrets and SUC plans are
variables. A cached HelmChart that lags behind shows in three ways, each bounded
like a fault: a write that fails (`Fault`), the event of a finished job that finds
no plan (`DropJobEvent`), and a HelmChart that does not name its job yet, so that
the job is not found and the reconciliation ends with an Error condition and
without a requeue (`jobNameMissing`).

Every API call can fail before or after it took effect (`Fault`, bounded by
`MaxFaults`). An update of an outdated object is rejected; the resource version
is represented by the contents, which do not recur while a plan lives.

`parseDrainOptions` is an operator of this module. It decides whether SUC plans
carry a drain specification (`Drains`); no other decision depends on it, so it
is not part of the state.

* **UpgradeProperties** – properties, fairness, `FairSpec`, and the refinement
  mapping to StagedUpgrade.
* **StagedUpgrade** – what a plan promises to its author, without reconcilers,
  caches, queues and faults: it is idle, in the OS stage, in the Kubernetes stage,
  or in the Helm stage with a set of finished components; stages are left in
  order and only when the nodes have the release's versions; edits happen before
  an upgrade has begun or after it has ended. The mapping (`StageOf`,
  `FinishedOf`) reads the stage from the stored conditions, which count only for
  the observed generation.
* **OSUpgradeScript** – the script of the OS upgrade jobs. `pc` is the place of
  the pod in the script; `placeholder`, `service`, `needed` (`/run/reboot-needed`)
  and the systems the node runs (`booted`) and boots next (`snapshot`) are what
  it works with.

| Action | Lines of `os-upgrade.sh.tpl` |
|---|---|
| `CheckPlaceholder` | 5-15 |
| `StartService` | 55-83: writing the unit, starting it in the background |
| `Update`, `Migrate` | 41-53: the commands of the unit; `Migrates` is the comparison of the CPEs, which does not change while a node runs |
| `ServiceEnds`, `AfterService` | 82-92: `wait` and the exit code |
| `CheckReboot`, `Reboot` | 94-102 |
| `Exit` | 17-31, 59: the trap, and the end of the pod |
| `KillPod`, `ServiceFails`, `LosePower`, `Boot`, `StartPod`, `NextJob` | the environment |

  `EarlyExit` says whether the exit of a script that has called `reboot` can be
  reported before the node is down.
* **NodeUpgrade** – its abstract specification: a job may change what the node
  boots next while it is active, completes only when that is its target, and
  between two jobs nothing changes.
* **HelmValues** – `mergeMaps` and a reference definition: the values as a set of
  paths, and which of them stay visible under an overlay.
* **ComponentReads** – core components and one chart, call by call: `getHelmChart`,
  `getJob`, `compareChartReleaseWithVersion`, `getDeployment`, then
  `retrieveHelmRelease`, `getWorkload`, `writeHelmChart`; between any two of them
  the distribution, the Helm Controller and an administrator may act. The write
  fails on an object that has changed (`Outdated`), and may fail after it has
  taken effect. `mergeHelmValues` overlays with a parameter, `Merge`: which values
  are merged is a question of this module, what their merge is one of HelmValues.
  MCComponentReads takes `mergeMaps` for it and states `ValuesMerged` about both.
* **MCUpgradeController**, **MCOSUpgradeScript**, **MCComponentReads** – the tables
  and the symmetry of the runs.
* **\*_proofs** – theorems, section 4.

Operators introduced by a comment `Defect:` (named `X_<Slip>`, next to an
operator `X`) are wrong variants of `X` that a plausible slip in the code would
produce; put in the place of `X`, each makes TLC report the property that is
meant to catch it. They are not used by the specification.

## 3. The runs

Deadlock is not checked: a cluster whose plan is finished or gone rests.

| Run | Instance | Properties and what it shows |
|---|---|---|
| `upgrade` | 1+1 nodes, a component with dependency and add-on, every job outcome, deletion any time | `TypeOK`, `WorkloadsLast`: the whole path, Helm after the node stages; `UpgradeCompletes`, `DeletionCompletes`: no wake-up is lost along it |
| `nodes` | 2+1 nodes (symmetric), one fault anywhere, one failed manifest job, deletion any time | `ControlPlaneFirst`, `OSBeforeKubernetes`, `OneNodeAtATime`: the node stages; `DrainLeavesNode`: a drained node leaves another of its role in service, for every `disableDrain`; `TruthfulStatus`, `OneUnseenObject`, `AtMostOneOrphan`: status, caches and deletion; `NoLostWakeUp`: an idle controller that has something to do has a wake-up ahead, also after a fault and during a deletion |
| `edit` | three releases, the second one for another architecture; one edit, two suffixes (symmetric) | `TruthfulStatus`, `ArchitectureRespected`, `WritesForStoredPlan` (Secrets and SUC plans), `LastVersionMonotone`; `UpgradesInStages`: the refinement of StagedUpgrade under edits |
| `charts` | two components, one with a dependency; every chart missing, outdated or current | `SucceededMeansInstalled`, `ComponentOrder`, `DependenciesFirst`; `NoLostWakeUp` through the Helm stage; `UpgradesInStages`: the refinement through the Helm stage |
| `live_faults` | one control plane node, the Helm stage, one restart, failed call, lost job event or HelmChart read without its job name, one failed manifest job | `UpgradeCompletes`, `DeletionCompletes`: the upgrade and the deletion come to an end all the same; `NoLostWakeUp`: a wake-up is ahead of every idle state on the way, if need be the resynchronisation of the Secret |
| `script` | three jobs (migration, package update, migration), five faults | `PlaceholderMeansUpgraded`, `RebootsAreUseful`, `UpgradesNode` (refinement of NodeUpgrade), `JobCompletes` |
| `components` | a core chart, a core Deployment, a chart whose values, and those of release and plan, are absent, a leaf, an empty map or a map; one edit or removal, one failed write | `CoreReportSound`: the report that ends the Kubernetes stage; `CurrentValuesMerged`: the write merges into the current values; `ValuesMerged`: the merge is the reference's; `ComponentsTriggered` |

Five runs show a disagreement between the code and what its documentation,
comments or messages say; `PROJECT.json` quotes the lines.

| Run | Violated | What happens |
|---|---|---|
| `package_update` | `OneNodeAtATime` | the OS image does not change, so the worker plan is created at once and SUC takes two nodes |
| `edit_window` | `EditsIncrementRelease` | an edit between the last condition and the recording of the release need not raise the release |
| `stale_job` | `SucceededMeansInstalled` | the completed job of the chart's old version passes for the new one's |
| `shared_version` | `SkippedMeansInstalled` | the job of a chart fails in one release; the next release asks for the same version, and the chart is skipped as "already installed" |
| `placeholder` | `PlaceholderMeansUpgraded` | the exit of the script is reported before the node goes down; the job is complete, the placeholder stays, and the next upgrade of the node ends at once with nothing upgraded |

One more needs no run: a failed component counts as finished
(`isHelmUpgradeFinished`), so `reconcileWorkloads` records a release with failed
charts as the last *successful* one, against the comment at
`upgradeplan_types.go:98`. `UpgradeCompletes` counts on it.

`OneNodeAtATime`, `SucceededMeansInstalled` and `PlaceholderMeansUpgraded`
therefore hold under a condition that the passing runs make explicit: `nodes`
raises the versions and has no edit, `charts` starts without HelmChart resources
(`Managed = {}`), `script` lets no exit be reported by a node that is going down
(`EarlyExit = FALSE`).

### Bounds

`MaxGeneration` bounds edits (2: one edit of a created plan; a deletion is not
bounded by it), `MaxFaults` restarts, failed calls and lost events (1: the code
has no memory of earlier faults other than the state they leave),
`MaxManifestFailures` failed manifest jobs. Two nodes of a role are enough to distinguish one node at a time
from all of them, and one worker to have a role that must not be drained; one
release goes through all stages, three make an older, an unsupported and a newer
spec; two suffixes to tell the generations apart, three charts
for dependency, component and a neighbour.

In `script`, three jobs (`MaxJobs`) have a migration and a package update each
follow the other, and five faults (`MaxFaults`) let every pod of a job be
disturbed. In `components`, values are trees of depth two, which is where maps
meet maps, leaves and nothing; `MaxEdits` and `MaxFaults` of 1 put a change or a
failure between any two calls.

The theorems of section 4 do not
depend on any of these bounds.

### Fairness

`FairSpec` assumes weak fairness of the controller's worker, of the informers, of
timers, of SUC, and of jobs and the Helm Controller: each runs for as long as its
process does, and controller-runtime retries after errors. Users and faults are
not fair. The periodic resynchronisation of the informers is assumed to happen
only after a job event has been lost: nothing else brings the plan back then, and
nothing else may rely on it. A job may fail; SUC retries until a node is
upgraded, as its jobs do.

`OSUpgradeScript` assumes weak fairness of the script, the service, the job
controller that starts pods, and a node that comes up again; `ComponentReads` of
the reconciler (it polls every minute and retries after errors), the
distribution and the Helm Controller. Kills, failures, power losses and
administrators are free.

## 4. The proofs

TLAPS proves, from the assumptions that the modules state about their constants
(types of the tables, disjoint roles, condition names that differ from chart
names) and for all nodes, releases, charts and bounds:

* `TypeCorrect`: `Spec => []TypeOK`. `TypeOK` is inductive; the lemmas show that
  condition setters, the walk over charts and every stage return plan objects.
* `ControlPlaneFirstCorrect`, `OSBeforeKubernetesCorrect`, `WorkloadsLastCorrect`,
  `TruthfulStatusCorrect`, from `StageInvariant`. None of these is inductive: the
  stored status is overwritten by the reconciler's copy, which was made from the
  cached plan. `StageInv` therefore says of all four copies (`plan`, `cache`,
  `base`, `work`) what `TruthfulStatus` says of the stored one, and that the
  observed generation never exceeds the generation, so that an edit or deletion
  invalidates the status (`ClaimEdited`). Nodes only move forward (`Grows`), so
  claims survive SUC's steps; objects and HelmCharts are created only from a copy
  whose claims hold (`CreateStages`, `WriteHelmChartStages`).
* `LastVersionMonotoneCorrect`: `Spec => LastVersionMonotone`. `LastInv` says that
  no copy names a release older than its last successful one, which the webhook
  ensures for edits (`EditNotOlder`) and every way through `reconcileNormal`
  preserves (`ReconcileNormalAdvances`), and that the copy to be written is not
  behind the one that was read.
* `UpgradesInStagesCorrect`: `Spec => UpgradesInStages`, the refinement of
  StagedUpgrade. The stored plan moves when a reconciliation that has read it some
  time ago commits; the abstract step is therefore decided when `reconcileNormal`
  returns. `RefinementInv` adds `StatusInv` to the invariants above: the copy to
  be committed is at most one step of StagedUpgrade ahead of the copy that was
  read (`StatusStep`), and the conditions of every copy go together
  (`WellFormed`): a stage that has succeeded has those before it behind it, and the
  finished components are the first ones of the list. A lemma per action maps it to
  a step of StagedUpgrade or to a stutter.
* `WritesForStoredPlanCorrect`, `OneUnseenObjectCorrect`, `AtMostOneOrphanCorrect`,
  `ArchitectureRespectedCorrect`, from `ObjectInv`. How far may the caches lag? A
  stage is reported as successful only when its objects have shown in the cache
  (`Shown`), the webhook accepts an edit only when both stages have succeeded, so
  while an object of the cached generation has not shown the stored plan has the
  release and the suffix of the cached one (`InStep`). Objects come in order
  (`After`), so at most one has not shown; the deletion loop leaves at most that
  one (`DeleteInv`). `LivesInv` relates the lives and finalizers of the copies.
* `OneNodeAtATimeCorrect`, `DrainLeavesNodeCorrect`, from `NodeInv`, under two
  hypotheses: every release raises the OS and the Kubernetes version
  (`RaisesVersions`) and every edit of a live plan raises the release
  (`RaisingEdits`). The reconciler concludes from the nodes' versions that SUC is
  through with a plan; that is right only if a node can have got the version from
  that plan alone. Neither hypothesis can be dropped: `package_update` violates the
  first, and an edit as in `edit_window`, which keeps the release, has both stages
  run again on nodes that look upgraded already (TLC finds two nodes out of service
  on the instance of `edit_window` with a worker). The invariant says which SUC plans are complete when a copy
  claims a stage (`Past`, `Through`) and that no node has a version of a plan still
  to come (`Future`, `Below`); at most one SUC plan is then incomplete.
  `DrainLeavesNode` also needs that the set of nodes is finite
  (`NodeAssumption`), since the code counts them.
* `ComponentOrderCorrect`, `DependenciesFirstCorrect`,
  `SucceededMeansInstalledCorrect`, from `ComponentInv`, `WalkInv` and `OutcomeInv`. A
  generation is observed only by a reconciliation of it, so an observed cached plan
  has nothing finished that the stored one has not, and an observed stored plan is
  of the cached release (`OrderInv`): components follow their order. What a copy
  reports as Succeeded was installed by a job of the release's HelmChart
  (`Settled`); a write never replaces such a chart (`WritesSpareSettled`). The
  hypotheses are what the code leaves to others: no chart is listed twice in a
  release (`ChartsListedOnce`: order of components and dependencies), and the Helm
  Controller has removed the jobs of earlier versions whenever a plan is reconciled
  (`PromptHelmController`: outcome and dependencies; `stale_job` shows the property
  false without it).
  Releases may ask for the same version of a chart. `upgradeHelmChart` then takes
  the HelmChart that another release has written for installed and does not look at
  its job, so `DependenciesFirst` needs more: that the job is over. `WalkInv` adds
  `OpenInv` for it. A chart whose job is not over (`Open`) belongs to the release of
  the stored plan and to a component whose condition still blocks edits, and the
  walk of that component has got to it (`Pursued`); a component becomes final only
  when nothing under way stops its walk (`Resting`), and no copy of the plan that
  the cache may still show makes the reconciler write one of its charts again
  (`Covers`). So no edit passes while a job is open, and what a later release takes
  for installed either is or has failed (`FailedBefore`), which is the exception in
  `DependenciesFirst` and what `shared_version` shows.
* `NoLostWakeUpCorrect`: `Spec /\ PromptHelmController => []NoLostWakeUp`. The
  reconciler returns without a requeue after most of its writes and counts on a
  watch. `WakeInv` adds to `ObjectInv` and `ComponentInv` why that is right:
  a write that is not followed by a requeue leaves work to a program, and from the
  write on, while the status update is still outstanding, that program has a step
  to take or its last one has already put the plan into the queue (`WaitInv`); what
  it works on is still there as long as the plan is in use, and a Secret is in the
  cache to be resynchronised once a job event can have been lost (`SuppliesInv`). A
  deletion gives up on an SUC plan that it has read as applying some time ago;
  either it still applies or its end has queued the plan. The hypothesis is needed:
  with releases that take a chart back to an earlier version whose job is still
  there and complete, TLC finds a HelmChart for which no job will run and a plan
  that nothing wakes up.
* `CoreReportSoundCorrect`, `CurrentValuesMergedCorrect`: for any list of core
  components, any containers (finitely many of them, since the code compares
  lengths), values and merge. `ReadsInv` relates what was read to what is there
  now: versions reach a Helm release through its resource and its job and are not
  taken back (`Flow`), so a component that the poll has left behind stays upgraded
  (`ChartsInv`, `DeploymentsInv`); revisions of a resource only grow, so one that
  has the revision that was read is the one that was read (`RevisionInv`), and a
  write based on another one is rejected.
* `PlaceholderCorrect`, `RebootsUseful`, `ScriptUpgradesNode`: for any number of
  jobs, products, packages and faults, from the assumptions that releases do not
  take products or packages back (`GrowthAssumption`) and `~EarlyExit`. The
  invariant `ScriptInv` relates the running system, the next one, the two files
  and the place in the script: the next system never exceeds the target of the
  job (`Bounded`), `/run/reboot-needed` is there exactly when the next system
  differs from the running one (`NeededInv`), a placeholder, a shutdown or a
  script past its service means that the target is prepared and no service runs
  (`StagedInv`), the placeholder is there only between the request for a reboot
  and the start of the next pod (`PlaceholderInv`), a migration finds the packages
  of the job (`MigrationInv`), and only an active job has a pod or a service
  (`ActiveInv`). The refinement follows step by step from it.

Each inductive invariant was model-checked on instances with edits, faults and
both roles before it was proved.

Only model-checked:

* `UpgradeCompletes`, `DeletionCompletes`, `JobCompletes`, `ComponentsTriggered`:
  fairness and ENABLED are out of the prover's reach. What the first two rest on,
  that a wake-up is always ahead, is `NoLostWakeUp` and proved (under
  `PromptHelmController`).
* `ValuesMerged`: what `mergeMaps` computes is a recursion over data, for which the
  prover has no induction. The part that is about the controller's reads and writes
  is `CurrentValuesMerged` and proved.
* `EditsIncrementRelease`, `SkippedMeansInstalled`: false, and shown to be so.

## 5. What is not modelled

* A second UpgradePlan, and creating a plan anew after its deletion.
* Nodes that join, leave or change their architecture during an upgrade.
* The window between the end of an OS job and the reboot of the node in
  `UpgradeController`, whose nodes run the new system when their job ends.
  `OSUpgradeScript` shows that a pod killed between the placeholder and the reboot
  lets the job end before the node has been rebooted; the reconciler, which looks
  at the nodes' OS image, then waits.
* The choice between k3s and RKE2 (`targetKubernetesDistribution`), registries of
  container images, unknown component types: configuration that does not change.
* Whether a Deployment that is Available has finished its rollout: the code asks
  for the condition and the images in the specification only, and so does the
  model.
* Stale reads of nodes, manifests and jobs: they delay what the next read finds. Of
  the stale reads of HelmCharts, one: a HelmChart that is still missing from the
  cache when its job has finished, so that the Helm release alone makes the chart
  count as already installed.
* In `ComponentReads`, `CoreReportSound` excepts a core component whose job the Helm
  Controller has replaced after the reconciler has read it as complete: a pending
  revision of the wanted version then ends the Kubernetes stage early.
* What becomes of a deletion that waits for a node whose job waits in turn:
  `NoLostWakeUp` promises that a node is being upgraded, not that its job ends. A
  worker's job waits in its prepare container for the SUC plan of the control plane;
  if that one is deleted before SUC has taken it up, whether the job goes on is a
  matter of SUC. `DeletionCompletes` is checked on instances where it does.
* Release versions as strings, with or without a leading `v`.
* Flags, metrics, TLS, leader election, generated code.

## 6. Plan

Done: the core and its theorems (types, stage order, truthful status, monotone
last version), the abstract staged upgrade and the proof of its refinement, objects
and caches, one node at a time, the order and outcome of the Helm stage, wake-ups,
the upgrade script with its refinement and theorems, drain options, values and core
components with their theorems.

Left: two plans that share HelmCharts; release version names with a leading `v`;
joining nodes.
