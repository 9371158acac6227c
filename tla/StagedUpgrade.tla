---------------------------- MODULE StagedUpgrade ----------------------------
(***************************************************************************)
(* What an UpgradePlan promises to whoever submits it, without reconcilers,*)
(* caches, queues or faults: an upgrade to a release goes through the      *)
(* operating system, Kubernetes and the components of the release in their *)
(* order, a stage is left only when the cluster is where the release wants *)
(* it, and the plan is not edited while an upgrade is under way.           *)
(* UpgradeController implements it (UpgradeProperties!UpgradesInStages).   *)
(***************************************************************************)
EXTENDS Naturals, Sequences

CONSTANTS Release, Chart, Node, OSVersion, KubeVersion, Workloads

VARIABLES
    life,       \* of the plan: absent, live, deleting or gone
    rel,        \* the release it asks for; 0: none
    last,       \* the last release it has reported as successful; 0: none
    stage,      \* idle (no upgrade begun), os, kubernetes or workloads
    finished,   \* components that are finished in stage workloads
    os, kube    \* [Node -> version]

planVars == <<life, rel, last, stage, finished>>
nodeVars == <<os, kube>>

Component(r) == {Workloads[r][i] : i \in DOMAIN Workloads[r]}
Complete == stage = "workloads" /\ finished = Component(rel)

StagedInit ==
    /\ life = "absent" /\ rel = 0 /\ last = 0
    /\ stage = "idle" /\ finished = {}
    /\ os \in [Node -> Nat] /\ kube \in [Node -> Nat]

Submit ==
    /\ life = "absent" /\ life' = "live"
    /\ rel' \in Release
    /\ UNCHANGED <<last, stage, finished, nodeVars>>

\* Only before an upgrade has begun or after it has ended; never to a release
\* that is not newer than the last successful one.
Edit ==
    /\ life \in {"live", "deleting"}
    /\ stage = "idle" \/ Complete
    /\ rel' \in Release /\ (last # 0 => rel' > last)
    /\ stage' = "idle" /\ finished' = {}
    /\ UNCHANGED <<life, last, nodeVars>>

Begin ==
    /\ life = "live" /\ stage = "idle" /\ stage' = "os"
    /\ UNCHANGED <<life, rel, last, finished, nodeVars>>

FinishOS ==
    /\ stage = "os" /\ stage' = "kubernetes"
    /\ \A n \in Node : os[n] >= OSVersion[rel]
    /\ UNCHANGED <<life, rel, last, finished, nodeVars>>

FinishKubernetes ==
    /\ stage = "kubernetes" /\ stage' = "workloads"
    /\ \A n \in Node : kube[n] >= KubeVersion[rel]
    /\ UNCHANGED <<life, rel, last, finished, nodeVars>>

FinishComponent(i) ==
    /\ stage = "workloads"
    /\ finished = {Workloads[rel][j] : j \in 1 .. (i - 1)}
    /\ finished' = finished \cup {Workloads[rel][i]}
    /\ UNCHANGED <<life, rel, last, stage, nodeVars>>

Record ==
    /\ life = "live" /\ Complete
    /\ last' = rel
    /\ UNCHANGED <<life, rel, stage, finished, nodeVars>>

\* At any time; a plan that is being deleted goes no further.
Delete ==
    /\ \/ life = "live" /\ life' \in {"deleting", "gone"}
       \/ life = "deleting" /\ life' = "gone"
    /\ stage' = "idle" /\ finished' = {}
    /\ UNCHANGED <<rel, last, nodeVars>>

\* Nodes are upgraded at any time and never downgraded.
UpgradeNodes ==
    /\ os' \in [Node -> Nat] /\ kube' \in [Node -> Nat]
    /\ \A n \in Node : os'[n] >= os[n] /\ kube'[n] >= kube[n]
    /\ UNCHANGED planVars

StagedNext ==
    \/ Submit \/ Edit \/ Begin \/ FinishOS \/ FinishKubernetes
    \/ \E i \in DOMAIN Workloads[rel] : FinishComponent(i)
    \/ Record \/ Delete \/ UpgradeNodes

StagedSpec == StagedInit /\ [][StagedNext]_<<planVars, nodeVars>>
=============================================================================
