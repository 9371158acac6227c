-------------------------- MODULE MCOSUpgradeScript --------------------------
(***************************************************************************)
(* Instances of OSUpgradeScript for TLC.                                   *)
(***************************************************************************)
EXTENDS OSUpgradeScript

\* Migrations (jobs 1 and 3) with a package update in between.
MCCPE == [j \in 1 .. MaxJobs |-> (j + 1) \div 2]
MCPackages == [j \in 1 .. MaxJobs |-> j]
=============================================================================
