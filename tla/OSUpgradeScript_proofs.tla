------------------------ MODULE OSUpgradeScript_proofs ------------------------
(***************************************************************************)
(* Proofs about the OS upgrade script, for any number of jobs, releases    *)
(* and faults, provided that a node which is going down does not report    *)
(* the exit of the script any more.                                        *)
(***************************************************************************)
EXTENDS OSUpgradeScript, TLAPS

\* The system only moves forward, and never past the target of the job.
Bounded ==
    /\ booted.cpe <= snapshot.cpe /\ snapshot.cpe <= CPE[job]
    /\ booted.pkgs <= snapshot.pkgs /\ snapshot.pkgs <= Packages[job]

\* /run/reboot-needed tells whether a reboot changes anything, and the node
\* goes down only then.
NeededInv ==
    /\ needed <=> snapshot # booted
    /\ pc = "reboot" \/ shutdown => needed

\* A job runs its pod or service only for as long as it is active, and a node
\* that is going down starts nothing.
ActiveInv ==
    /\ jobst = "complete" => pc = "none" /\ ~placeholder
    /\ shutdown => pc \in {"none", "success"}
    /\ shutdown \/ service # "inactive" => jobst = "active"

\* From the end of the service on, the next boot is the target, and nothing
\* changes it any more.
StagedInv ==
    placeholder \/ shutdown \/ jobst = "complete" \/ pc \in {"check", "reboot", "success"} =>
        snapshot = Target(job) /\ service = "inactive"

\* The second command of the migration service runs after the first.
MigrationInv ==
    service = "migration" => snapshot.pkgs = Packages[job] /\ booted.cpe # CPE[job]

\* The placeholder is seen only by a reboot and by the start of a pod.
PlaceholderInv ==
    placeholder => pc \in {"none", "start", "reboot"} \/ (pc = "success" /\ shutdown)

ScriptInv ==
    /\ TypeOK /\ Bounded /\ NeededInv /\ ActiveInv
    /\ StagedInv /\ MigrationInv /\ PlaceholderInv
-----------------------------------------------------------------------------
\* A node without an upgrade under way satisfies the invariant.
LEMMA InitScript == Init => ScriptInv
  <1> SUFFICES ASSUME Init PROVE ScriptInv
    OBVIOUS
  <1>1. booted \in System /\ snapshot = booted /\ job = 1 /\ job \in 1 .. MaxJobs
    BY JobAssumption DEF Init, System
  <1>2. Bounded
    BY <1>1, JobAssumption, GrowthAssumption DEF Init, Bounded, System
  <1>3. QED
    BY <1>1, <1>2
    DEF Init, ScriptInv, TypeOK, NeededInv, ActiveInv, StagedInv, MigrationInv, PlaceholderInv

\* The steps of the script itself leave the system alone.
LEMMA ScriptStep ==
  ASSUME ScriptInv, ~EarlyExit, Script
  PROVE  ScriptInv'
  <1> USE DEF ScriptInv, TypeOK, Bounded, NeededInv, ActiveInv, StagedInv, MigrationInv,
              PlaceholderInv, Target, nodeVars
  <1>1. CASE CheckPlaceholder
    BY <1>1 DEF CheckPlaceholder
  <1>2. CASE StartService
    BY <1>2 DEF StartService
  <1>3. CASE CheckReboot
    BY <1>3 DEF CheckReboot, RebootNeeded
  <1>4. CASE Reboot
    BY <1>4 DEF Reboot
  <1>5. CASE Exit
    BY <1>5 DEF Exit
  <1>6. QED
    BY <1>1, <1>2, <1>3, <1>4, <1>5 DEF Script

\* transactional-update takes the next boot from the running system to the target.
LEMMA ServiceStep ==
  ASSUME ScriptInv, Service
  PROVE  ScriptInv'
  <1> USE DEF ScriptInv, TypeOK, NeededInv, ActiveInv, StagedInv, MigrationInv,
              PlaceholderInv, ServiceEnds, AfterService
  <1>0. booted \in System /\ snapshot \in System /\ CPE[job] \in Nat /\ Packages[job] \in Nat
    BY JobAssumption
  <1>1. CASE Update
    <2>1. snapshot' \in System /\ snapshot'.pkgs = Packages[job]
          /\ (snapshot' # booted <=> needed')
      BY <1>0, <1>1 DEF Update, Bounded, System
    <2>2. Bounded'
      BY <1>0, <1>1 DEF Update, Bounded, System
    <2>3. ~Migrates => snapshot' = Target(job)
      BY <1>0, <1>1, <2>1, <2>2 DEF Update, Bounded, Migrates, System, Target
    <2>4. QED
      BY <1>1, <2>1, <2>2, <2>3 DEF Update, Migrates, Target
  <1>2. CASE Migrate
    <2>1. snapshot' \in System /\ snapshot' = Target(job) /\ snapshot' # booted
      BY <1>0, <1>2 DEF Migrate, Target, System
    <2>2. Bounded'
      BY <1>0, <1>2 DEF Migrate, Bounded, System
    <2>3. QED
      BY <1>2, <2>1, <2>2 DEF Migrate, Target
  <1>3. QED
    BY <1>1, <1>2 DEF Service

\* Restarts of the node and of the pod, failures, and the next job.
LEMMA EnvironmentStep ==
  ASSUME ScriptInv,
         StartPod \/ Boot \/ ServiceFails \/ KillPod \/ LosePower \/ NextJob
  PROVE  ScriptInv'
  <1> USE DEF ScriptInv, TypeOK, NeededInv, ActiveInv, StagedInv, MigrationInv, PlaceholderInv
  <1>1. CASE StartPod
    BY <1>1 DEF StartPod, Bounded, Target, nodeVars
  <1>2. CASE Restarted /\ (Fault \/ UNCHANGED faults)
    <2>1. Bounded'
      BY <1>2 DEF Restarted, Bounded, System
    <2>2. TypeOK'
      <3>1. faults' \in Nat
        BY <1>2 DEF Fault
      <3>2. QED
        BY <1>2, <3>1 DEF Restarted
    <2>3. NeededInv' /\ ActiveInv' /\ MigrationInv' /\ PlaceholderInv'
      BY <1>2 DEF Restarted
    <2>4. StagedInv'
      BY <1>2 DEF Restarted, Target
    <2>5. QED
      BY <2>1, <2>2, <2>3, <2>4
  <1>3. CASE ServiceFails
    BY <1>3 DEF ServiceFails, ServiceEnds, AfterService, Fault, Bounded, Target, nodeVars
  <1>4. CASE KillPod
    BY <1>4 DEF KillPod, Fault, Bounded, Target, nodeVars
  <1>5. CASE NextJob
    <2>1. job' \in 1 .. MaxJobs /\ CPE[job] <= CPE[job'] /\ Packages[job] <= Packages[job']
          /\ {CPE[job], CPE[job'], Packages[job], Packages[job']} \subseteq Nat
      BY <1>5, JobAssumption, GrowthAssumption DEF NextJob
    <2>2. Bounded'
      BY <1>5, <2>1 DEF NextJob, Bounded, System, nodeVars
    <2>3. QED
      BY <1>5, <2>1, <2>2 DEF NextJob, nodeVars
  <1>6. QED
    BY <1>1, <1>2, <1>3, <1>4, <1>5 DEF Boot, LosePower

\* The invariant is inductive.
LEMMA NextScript == ~EarlyExit /\ ScriptInv /\ [Next]_vars => ScriptInv'
  <1> SUFFICES ASSUME ~EarlyExit, ScriptInv, [Next]_vars
               PROVE  ScriptInv'
    OBVIOUS
  <1>1. CASE Next
    BY <1>1, ScriptStep, ServiceStep, EnvironmentStep DEF Next
  <1>2. CASE UNCHANGED vars
    BY <1>2
    DEF ScriptInv, TypeOK, Bounded, NeededInv, ActiveInv, StagedInv, MigrationInv,
        PlaceholderInv, Target, vars, nodeVars
  <1>3. QED
    BY <1>1, <1>2

\* The invariant holds through every sequence of jobs, kills, failures and
\* power losses, if a node that is going down reports no exit.
LEMMA ScriptInvariant ==
  ASSUME ~EarlyExit
  PROVE  Spec => []ScriptInv
  BY InitScript, NextScript, PTL DEF Spec

\* The placeholder the script looks for at its start belongs to an upgrade
\* that has been prepared completely, for the release of the current job.
THEOREM PlaceholderCorrect ==
  ASSUME ~EarlyExit
  PROVE  Spec => []PlaceholderMeansUpgraded
  <1>1. ScriptInv => PlaceholderMeansUpgraded
    BY DEF ScriptInv, StagedInv, PlaceholderMeansUpgraded
  <1>2. QED
    BY <1>1, ScriptInvariant, PTL

\* No reboot is in vain: /run/reboot-needed, which the script tests before it
\* calls reboot, tells the truth across repeated and interrupted runs.
THEOREM RebootsUseful ==
  ASSUME ~EarlyExit
  PROVE  Spec => []RebootsAreUseful
  <1>1. ScriptInv => RebootsAreUseful
    BY DEF ScriptInv, NeededInv, RebootsAreUseful
  <1>2. QED
    BY <1>1, ScriptInvariant, PTL

\* The script implements NodeUpgrade: a job completes only when the node is
\* prepared for its release, and the node is left alone between two jobs.
THEOREM ScriptUpgradesNode ==
  ASSUME ~EarlyExit
  PROVE  Spec => UpgradesNode
  <1> DEFINE abstract == <<job, jobst, snapshot>>
  <1>1. Init => job = 1 /\ jobst = "active" /\ snapshot \in [cpe: Nat, pkgs: Nat]
    BY JobAssumption DEF Init
  <1>2. ScriptInv /\ ScriptInv' /\ [Next]_vars => [NodeUpgraded!NodeNext]_abstract
    <2> SUFFICES ASSUME ScriptInv, ScriptInv', [Next]_vars
                 PROVE  [NodeUpgraded!NodeNext]_abstract
      OBVIOUS
    <2>1. CASE Exit
      BY <2>1
      DEF Exit, ScriptInv, ActiveInv, StagedInv, TypeOK, Target, nodeVars,
          NodeUpgraded!NodeNext, NodeUpgraded!Complete, NodeUpgraded!Target
    <2>2. CASE Update \/ Migrate
      <3>1. jobst = "active" /\ UNCHANGED <<job, jobst>>
        BY <2>2 DEF Update, Migrate, ScriptInv, ActiveInv
      <3>2. snapshot' \in [cpe: Nat, pkgs: Nat]
            /\ snapshot'.cpe <= CPE[job] /\ snapshot'.pkgs <= Packages[job]
        BY <3>1 DEF ScriptInv, TypeOK, System, Bounded
      <3>3. QED
        BY <3>1, <3>2 DEF NodeUpgraded!NodeNext, NodeUpgraded!Prepare
    <2>3. CASE NextJob
      BY <2>3 DEF NextJob, nodeVars, NodeUpgraded!NodeNext, NodeUpgraded!NextJob
    <2>4. CASE UNCHANGED abstract
      BY <2>4
    <2>5. CASE CheckPlaceholder \/ StartService \/ CheckReboot \/ Reboot \/ StartPod
               \/ Boot \/ ServiceFails \/ KillPod \/ LosePower \/ UNCHANGED vars
      BY <2>5
      DEF CheckPlaceholder, StartService, CheckReboot, Reboot, StartPod, Boot, ServiceFails,
          KillPod, LosePower, Restarted, vars, nodeVars
    <2>6. QED
      BY <2>1, <2>2, <2>3, <2>4, <2>5 DEF Next, Script, Service
  <1>3. QED
    BY <1>1, <1>2, ScriptInvariant, PTL DEF Spec, UpgradesNode, NodeUpgraded!NodeSpec
=============================================================================
