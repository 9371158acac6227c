--------------------------- MODULE OSUpgradeScript ---------------------------
(***************************************************************************)
(* The script that the OS upgrade jobs run on a node                       *)
(* (internal/upgrade/templates/os-upgrade.sh.tpl), and what it deals with: *)
(* systemd, transactional-update, the restarts of the node and of the pod. *)
(*                                                                         *)
(* An upgrade goes through the script at least twice: the first pod        *)
(* prepares a new snapshot of the system, leaves a placeholder in /etc and *)
(* reboots; the pod that is started after the reboot finds the placeholder,*)
(* removes it and ends the job. Pods may be killed, with or without their  *)
(* exit trap, the service may fail and the node may lose power anywhere in *)
(* between. The unit file is written before every start and is not         *)
(* tracked.                                                                *)
(***************************************************************************)
EXTENDS Naturals

CONSTANTS
    MaxJobs,      \* bound: upgrades of the node, one job each
    CPE,          \* [1 .. MaxJobs -> Nat]: {{.CPEScheme}} of the job's release
    Packages,     \* [1 .. MaxJobs -> Nat]: packages its repositories offer
    InitialCPE,   \* what the node starts with
    InitialPackages,
    EarlyExit,    \* whether an exit may be reported by a node that is going down
    MaxFaults     \* bound: kills, failures of the service and power losses

ASSUME JobAssumption ==
    /\ MaxJobs \in Nat \ {0}
    /\ CPE \in [1 .. MaxJobs -> Nat] /\ Packages \in [1 .. MaxJobs -> Nat]
    /\ InitialCPE \in Nat /\ InitialPackages \in Nat
    /\ EarlyExit \in BOOLEAN /\ MaxFaults \in Nat

\* Releases do not take products or packages back.
ASSUME GrowthAssumption ==
    /\ InitialCPE <= CPE[1] /\ InitialPackages <= Packages[1]
    /\ \A j \in 1 .. MaxJobs : j + 1 \in 1 .. MaxJobs =>
           CPE[j] <= CPE[j + 1] /\ Packages[j] <= Packages[j + 1]

VARIABLES
    job,          \* the number of the current job
    jobst,        \* its state: active or complete
    pc,           \* where the script of the job's pod is; none: no pod
    placeholder,  \* /etc/os-upgrade-successful exists
    service,      \* what the oneshot service executes, if it runs
    booted,       \* the system the node runs
    snapshot,     \* the system it boots next
    needed,       \* /run/reboot-needed exists; /run is empty after a boot
    shutdown,     \* the node is going down
    faults        \* kills, failures and power losses so far

nodeVars == <<booted, snapshot, needed, shutdown>>
vars == <<job, jobst, pc, placeholder, service, nodeVars, faults>>

System == [cpe: Nat, pkgs: Nat]
Target(j) == [cpe |-> CPE[j], pkgs |-> Packages[j]]

TypeOK ==
    /\ job \in 1 .. MaxJobs
    /\ jobst \in {"active", "complete"}
    /\ pc \in {"none", "start", "execute", "wait", "check", "reboot", "success", "failure"}
    /\ placeholder \in BOOLEAN /\ needed \in BOOLEAN /\ shutdown \in BOOLEAN
    /\ service \in {"inactive", "update", "migration"}
    /\ booted \in System /\ snapshot \in System
    /\ faults \in Nat

Init ==
    /\ job = 1 /\ jobst = "active" /\ pc = "none"
    /\ placeholder = FALSE /\ service = "inactive"
    /\ booted = [cpe |-> InitialCPE, pkgs |-> InitialPackages] /\ snapshot = booted
    /\ needed = FALSE /\ shutdown = FALSE
    /\ faults = 0
-----------------------------------------------------------------------------
(* The script.                                                             *)

\* Defect: the placeholder is left in place.
CheckPlaceholder_Keep ==
    /\ pc = "start"
    /\ pc' = IF placeholder THEN "success" ELSE "execute"
    /\ UNCHANGED <<job, jobst, placeholder, service, nodeVars, faults>>

\* An upgrade that was finished by a reboot: remove the placeholder and exit.
CheckPlaceholder ==
    /\ pc = "start"
    /\ placeholder' = FALSE
    /\ pc' = IF placeholder THEN "success" ELSE "execute"
    /\ UNCHANGED <<job, jobst, service, nodeVars, faults>>

\* Starting a service that an earlier pod has left running joins it.
StartService ==
    /\ pc = "execute"
    /\ pc' = "wait"
    /\ service' = IF service = "inactive" THEN "update" ELSE service
    /\ UNCHANGED <<job, jobst, placeholder, nodeVars, faults>>

\* Defect: the exit code of the service is not looked at.
AfterService_IgnoreExit(ok) == "check"

\* Defect: the script goes on following the log.
AfterService_Blocked(ok) == IF ok THEN "check" ELSE "wait"

\* wait: the script goes on when the service has ended.
AfterService(ok) == IF ok THEN "check" ELSE "failure"

\* Defect: the node is rebooted after every upgrade.
RebootNeeded_Always == TRUE

RebootNeeded == needed

CheckReboot ==
    /\ pc = "check"
    /\ pc' = IF RebootNeeded THEN "reboot" ELSE "success"
    /\ placeholder' = (placeholder \/ RebootNeeded)
    /\ UNCHANGED <<job, jobst, service, nodeVars, faults>>

\* reboot returns before the node goes down.
Reboot ==
    /\ pc = "reboot"
    /\ shutdown' = TRUE /\ pc' = "success"
    /\ UNCHANGED <<job, jobst, placeholder, service, booted, snapshot, needed, faults>>

\* The trap on EXIT: cleanupService stops the service (there is none when the
\* placeholder was found). The exit code is reported, and a failed pod is
\* replaced by a new one.
Exit ==
    /\ pc \in {"success", "failure"}
    /\ shutdown => EarlyExit
    /\ pc' = "none" /\ service' = "inactive"
    /\ jobst' = IF pc = "success" THEN "complete" ELSE jobst
    /\ UNCHANGED <<job, placeholder, nodeVars, faults>>

Script == CheckPlaceholder \/ StartService \/ CheckReboot \/ Reboot \/ Exit
-----------------------------------------------------------------------------
(* The service: transactional-update starts from the running system, and   *)
(* with --continue from the latest snapshot.                               *)

\* os-migration.service rather than os-pkg-update.service.
Migrates == booted.cpe # CPE[job]

ServiceEnds(ok) ==
    /\ service' = "inactive"
    /\ pc' = IF pc = "wait" THEN AfterService(ok) ELSE pc

\* transactional-update cleanup up
Update ==
    /\ service = "update" /\ ~shutdown
    /\ IF booted.pkgs = Packages[job]
       THEN UNCHANGED <<snapshot, needed>>
       ELSE snapshot' = [booted EXCEPT !.pkgs = Packages[job]] /\ needed' = TRUE
    /\ IF Migrates THEN service' = "migration" /\ UNCHANGED pc ELSE ServiceEnds(TRUE)
    /\ UNCHANGED <<job, jobst, placeholder, booted, shutdown, faults>>

\* transactional-update --continue migration
Migrate ==
    /\ service = "migration" /\ ~shutdown
    /\ snapshot' = [snapshot EXCEPT !.cpe = CPE[job]]
    /\ needed' = TRUE
    /\ ServiceEnds(TRUE)
    /\ UNCHANGED <<job, jobst, placeholder, booted, shutdown, faults>>

Service == Update \/ Migrate
-----------------------------------------------------------------------------
(* The node, the pod and the job.                                          *)

Fault == faults < MaxFaults /\ faults' = faults + 1

\* The start of the service fails, or systemd starts it again
\* (Restart=on-failure).
ServiceFails ==
    /\ service # "inactive" /\ Fault
    /\ \/ ServiceEnds(FALSE)
       \/ service' = "update" /\ UNCHANGED pc
    /\ UNCHANGED <<job, jobst, placeholder, nodeVars>>

\* The pod is killed; the shell may or may not get to run its trap.
KillPod ==
    /\ pc # "none" /\ Fault
    /\ pc' = "none"
    /\ service' \in {service, "inactive"}
    /\ UNCHANGED <<job, jobst, placeholder, nodeVars>>

\* The node comes up again, from the snapshot.
Restarted ==
    /\ pc' = "none" /\ service' = "inactive"
    /\ booted' = snapshot
    /\ needed' = FALSE /\ shutdown' = FALSE
    /\ UNCHANGED <<job, jobst, placeholder, snapshot>>

Boot == shutdown /\ Restarted /\ UNCHANGED faults

LosePower == Fault /\ Restarted

StartPod ==
    /\ jobst = "active" /\ pc = "none" /\ ~shutdown
    /\ pc' = "start"
    /\ UNCHANGED <<job, jobst, placeholder, service, nodeVars, faults>>

NextJob ==
    /\ jobst = "complete" /\ job < MaxJobs
    /\ job' = job + 1 /\ jobst' = "active"
    /\ UNCHANGED <<pc, placeholder, service, nodeVars, faults>>

Next ==
    \/ Script \/ Service \/ StartPod \/ Boot
    \/ ServiceFails \/ KillPod \/ LosePower
    \/ NextJob

Spec == Init /\ [][Next]_vars

\* systemd, the kubelet and the job controller go on with what they have to do.
FairSpec ==
    Spec /\ WF_vars(Script) /\ WF_vars(Service) /\ WF_vars(StartPod) /\ WF_vars(Boot)
-----------------------------------------------------------------------------
\* The comment in the script: the placeholder "will only be present on the
\* system if a successful upgrade of the OS has taken place". A pod that finds
\* the placeholder belongs to a job whose upgrade has been prepared completely.
PlaceholderMeansUpgraded ==
    pc = "start" /\ placeholder => snapshot = Target(job)

\* A node that is going down will come up with something new: kills, failures
\* and repeated runs of the script never lead to a needless reboot, and
\* therefore not to a loop of reboots.
RebootsAreUseful == shutdown => snapshot # booted

\* A job completes only when the node is prepared, and afterwards the node is
\* left alone until the next job: no service that a killed pod has left behind
\* goes on changing it.
NodeUpgraded == INSTANCE NodeUpgrade
UpgradesNode == NodeUpgraded!NodeSpec

\* Whatever fails, the job of an upgrade completes in the end.
JobCompletes == jobst = "active" ~> jobst = "complete"
=============================================================================
