------------------------------- MODULE Cluster -------------------------------
(***************************************************************************)
(* The cluster the Upgrade Controller drives: the API server's objects     *)
(* that it creates or reads, and the external programs that act on them.   *)
(* None of these programs is part of the repository; each is modelled from *)
(* the way the controller uses it:                                         *)
(*                                                                         *)
(*   - the System Upgrade Controller (SUC) runs one job at a time per SUC  *)
(*     plan (concurrency 1), cordons the node, upgrades it (never to an    *)
(*     older version) and uncordons it;                                    *)
(*   - Kubernetes upgrades its core components after the control plane;    *)
(*   - the Helm Controller replaces the job of a HelmChart whose version   *)
(*     changed, and the job installs the chart or fails;                   *)
(*   - the release manifest job installs a ReleaseManifest or fails, and   *)
(*     is removed by its TTL.                                              *)
(*                                                                         *)
(* The set of nodes does not change during an upgrade.                     *)
(***************************************************************************)
EXTENDS UpgradePlan

CONSTANTS
    ControlPlane,      \* nodes labelled node-role.kubernetes.io/control-plane
    Worker,            \* all other nodes
    NodeArchitecture,  \* [Node -> NodeArch]: status.nodeInfo.architecture
    InitialOS,         \* OS versions nodes may start with
    InitialKube,       \* Kubernetes versions nodes may start with
    InitialChart,      \* chart versions that may be installed; 0: missing
    Managed,           \* charts that have a HelmChart resource from the start
    InitialManifests,  \* releases whose manifest is already in the cluster
    MaxManifestFailures \* bound: how often a release manifest job may fail

Node == ControlPlane \cup Worker

ASSUME NodeAssumption ==
    /\ IsFiniteSet(Node)
    /\ ControlPlane # {}
    /\ ControlPlane \cap Worker = {}
    /\ NodeArchitecture \in [Node -> NodeArch]

ASSUME InitialAssumption ==
    /\ InitialOS \subseteq Nat
    /\ InitialKube \subseteq Nat
    /\ InitialChart \subseteq Nat
    /\ Managed \subseteq Chart
    /\ InitialManifests \subseteq Release
    /\ MaxManifestFailures \in Nat

VARIABLES
    objs,       \* Secrets and SUC plans in the SUC namespace
    applying,   \* <<SUC plan, node>>: status.applying of the SUC plans
    done,       \* <<SUC plan, node>>: nodes SUC has labelled as processed
    os,         \* [Node -> version]: status.nodeInfo.osImage
    kube,       \* [Node -> version]: status.nodeInfo.kubeletVersion
    cordoned,   \* nodes that are unschedulable or not ready
    core,       \* version of the Kubernetes core components
    manifests,  \* ReleaseManifests in the cluster
    mjob,       \* [Release -> state of the release manifest job]
    mfailures,  \* how often a release manifest job has failed
    installed,  \* [Chart -> version of the latest Helm revision; 0: none]
    hc,         \* [Chart -> HelmChart resource; ver 0: none]
    job         \* [Chart -> the HelmChart's install job]

sucVars == <<objs, applying, done>>
nodeVars == <<os, kube, cordoned, core>>
manifestVars == <<manifests, mjob, mfailures>>
helmVars == <<installed, hc, job>>
clusterVars == <<sucVars, nodeVars, manifestVars, helmVars>>

\* Objects are identified by their names: osSecretName, osPlanName and
\* kubernetesPlanName put together a kind, the target version and the suffix.
SUCPlanKind == {"osControlPlane", "osWorker", "k8sControlPlane", "k8sWorker"}
OSKind == {"osControlPlane", "osWorker"}
Object == [kind: SUCPlanKind \cup {"secret"}, ver: Nat, sfx: Suffix \cup {NoSuffix}]

IsSecret(o) == o.kind = "secret"

\* ann: the release annotation (0: none); the plan labels are written with it.
HelmChartObject == [ver: Nat, ann: Release \cup {0}]
JobObject == [st: {"none", "running", "complete", "failed"}, ver: Nat]

ClusterTypeOK ==
    /\ objs \subseteq Object
    /\ applying \subseteq Object \X Node
    /\ done \subseteq Object \X Node
    /\ os \in [Node -> Nat]
    /\ kube \in [Node -> Nat]
    /\ cordoned \subseteq Node
    /\ core \in Nat
    /\ manifests \subseteq Release
    /\ mjob \in [Release -> {"none", "running", "finished"}]
    /\ mfailures \in Nat
    /\ installed \in [Chart -> Nat]
    /\ hc \in [Chart -> HelmChartObject]
    /\ job \in [Chart -> JobObject]

NoJob == [st |-> "none", ver |-> 0]

\* A chart with a HelmChart resource was installed through it.
ClusterInit ==
    /\ objs = {} /\ applying = {} /\ done = {}
    /\ os \in [Node -> InitialOS]
    /\ kube \in [Node -> InitialKube]
    /\ cordoned = {}
    /\ core \in InitialKube
    /\ manifests = InitialManifests
    /\ mjob = [r \in Release |-> "none"]
    /\ mfailures = 0
    /\ installed \in [Chart -> InitialChart]
    /\ hc = [h \in Chart |->
                [ver |-> IF h \in Managed THEN installed[h] ELSE 0, ann |-> 0]]
    /\ job = [h \in Chart |->
                 IF hc[h].ver = 0 THEN NoJob
                                  ELSE [st |-> "complete", ver |-> hc[h].ver]]
-----------------------------------------------------------------------------
(* System Upgrade Controller.                                              *)

\* spec.nodeSelector of the SUC plans.
Selected(o) == IF o.kind \in {"osControlPlane", "k8sControlPlane"}
               THEN ControlPlane ELSE Worker

Applying(o, pairs) == {n \in Node : <<o, n>> \in pairs}

Version(o, n) == IF o.kind \in OSKind THEN os[n] ELSE kube[n]

\* The plan can be applied to the node: OS plans mount their secret.
Applicable(o, n) ==
    /\ n \in Selected(o)
    /\ <<o, n>> \notin done
    /\ o.kind \in OSKind => [o EXCEPT !.kind = "secret"] \in objs

\* The prepare container of a Kubernetes worker job waits for the control
\* plane plan of the same version and suffix.
Prepared(o) ==
    o.kind = "k8sWorker" =>
        \A n \in ControlPlane : <<[o EXCEPT !.kind = "k8sControlPlane"], n>> \in done

StartNodeJob(o, n) ==
    /\ o \in objs /\ ~IsSecret(o)
    /\ Applicable(o, n)
    /\ Applying(o, applying) = {}
    /\ applying' = applying \cup {<<o, n>>}
    /\ cordoned' = cordoned \cup {n}
    /\ UNCHANGED <<objs, done, os, kube, core, manifestVars, helmVars>>

UpgradeNode(o, n) ==
    /\ <<o, n>> \in applying
    /\ Prepared(o)
    /\ Version(o, n) < o.ver
    /\ os' = IF o.kind \in OSKind THEN [os EXCEPT ![n] = o.ver] ELSE os
    /\ kube' = IF o.kind \in OSKind THEN kube ELSE [kube EXCEPT ![n] = o.ver]
    /\ UNCHANGED <<sucVars, cordoned, core, manifestVars, helmVars>>

\* The node's job completes; SUC goes on with the next node in the same
\* status update, or leaves the plan without a node being applied.
FinishNodeJob(o, n) ==
    /\ <<o, n>> \in applying
    /\ Prepared(o)
    /\ Version(o, n) >= o.ver
    /\ done' = done \cup {<<o, n>>}
    /\ \/ /\ applying' = applying \ {<<o, n>>}
          /\ cordoned' = cordoned \ {n}
       \/ \E m \in Node \ {n} :
            /\ Applicable(o, m)
            /\ applying' = (applying \ {<<o, n>>}) \cup {<<o, m>>}
            /\ cordoned' = (cordoned \ {n}) \cup {m}
    /\ UNCHANGED <<objs, os, kube, core, manifestVars, helmVars>>

\* Deleting an object also removes the jobs that belong to it; a node that
\* was being upgraded stays cordoned.
RemoveObject(o) ==
    /\ objs' = objs \ {o}
    /\ applying' = {x \in applying : x[1] # o}
    /\ UNCHANGED <<done, nodeVars, manifestVars, helmVars>>
-----------------------------------------------------------------------------
(* Kubernetes core components.                                             *)

UpgradeCore ==
    /\ \E n \in ControlPlane : kube[n] > core /\ core' = kube[n]
    /\ UNCHANGED <<sucVars, os, kube, cordoned, manifestVars, helmVars>>
-----------------------------------------------------------------------------
(* The release manifest job.                                               *)

ManifestJobSucceeds(r) ==
    /\ mjob[r] = "running"
    /\ mjob' = [mjob EXCEPT ![r] = "finished"]
    /\ manifests' = manifests \cup {r}
    /\ UNCHANGED <<mfailures, sucVars, nodeVars, helmVars>>

ManifestJobFails(r) ==
    /\ mjob[r] = "running"
    /\ mfailures < MaxManifestFailures
    /\ mfailures' = mfailures + 1
    /\ mjob' = [mjob EXCEPT ![r] = "finished"]
    /\ UNCHANGED <<manifests, sucVars, nodeVars, helmVars>>

ManifestJobExpires(r) ==
    /\ mjob[r] = "finished"
    /\ mjob' = [mjob EXCEPT ![r] = "none"]
    /\ UNCHANGED <<manifests, mfailures, sucVars, nodeVars, helmVars>>
-----------------------------------------------------------------------------
(* Helm Controller.                                                        *)

\* The job of an older version of the HelmChart is deleted ...
RemoveHelmJob(h) ==
    /\ job[h].st # "none" /\ job[h].ver # hc[h].ver
    /\ job' = [job EXCEPT ![h] = NoJob]
    /\ UNCHANGED <<installed, hc, sucVars, nodeVars, manifestVars>>

\* ... and a new one is created.
StartHelmJob(h) ==
    /\ hc[h].ver # 0 /\ job[h].st = "none"
    /\ job' = [job EXCEPT ![h] = [st |-> "running", ver |-> hc[h].ver]]
    /\ UNCHANGED <<installed, hc, sucVars, nodeVars, manifestVars>>

HelmJobSucceeds(h) ==
    /\ job[h].st = "running"
    /\ job' = [job EXCEPT ![h].st = "complete"]
    /\ installed' = [installed EXCEPT ![h] = job[h].ver]
    /\ UNCHANGED <<hc, sucVars, nodeVars, manifestVars>>

\* The backoff limit is exhausted. Helm may have recorded the failed revision.
HelmJobFails(h) ==
    /\ job[h].st = "running"
    /\ job' = [job EXCEPT ![h].st = "failed"]
    /\ \E v \in {installed[h], job[h].ver} : installed' = [installed EXCEPT ![h] = v]
    /\ UNCHANGED <<hc, sucVars, nodeVars, manifestVars>>
=============================================================================
