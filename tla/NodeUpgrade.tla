----------------------------- MODULE NodeUpgrade -----------------------------
(***************************************************************************)
(* What a sequence of OS upgrade jobs promises about one node: a job may   *)
(* change what the node boots next for as long as it is active, and it     *)
(* completes only when that is what the job was created for. Between two   *)
(* jobs the node is left alone. OSUpgradeScript implements it.             *)
(***************************************************************************)
EXTENDS Naturals

CONSTANTS
    MaxJobs,      \* bound: upgrades of the node, one job each
    CPE,          \* [1 .. MaxJobs -> Nat]: product of the job's release
    Packages      \* [1 .. MaxJobs -> Nat]: packages its repositories offer

Target(j) == [cpe |-> CPE[j], pkgs |-> Packages[j]]

VARIABLES
    job,          \* the number of the current job
    jobst,        \* its state: active or complete
    snapshot      \* what the node boots next

Prepare ==
    /\ jobst = "active"
    /\ snapshot' \in [cpe: Nat, pkgs: Nat]
    /\ snapshot'.cpe <= CPE[job] /\ snapshot'.pkgs <= Packages[job]
    /\ UNCHANGED <<job, jobst>>

Complete ==
    /\ jobst = "active" /\ snapshot = Target(job)
    /\ jobst' = "complete"
    /\ UNCHANGED <<job, snapshot>>

NextJob ==
    /\ jobst = "complete" /\ job < MaxJobs
    /\ job' = job + 1 /\ jobst' = "active"
    /\ UNCHANGED snapshot

NodeNext == Prepare \/ Complete \/ NextJob

NodeSpec ==
    /\ job = 1 /\ jobst = "active"
    /\ snapshot \in [cpe: Nat, pkgs: Nat]
    /\ [][NodeNext]_<<job, jobst, snapshot>>
=============================================================================
