------------------------ MODULE ComponentReads_proofs ------------------------
(***************************************************************************)
(* Theorems about ComponentReads, for any core components, containers,     *)
(* values and merge of values: the report at the end of the Kubernetes     *)
(* stage is sound although the objects are read one after the other, and   *)
(* values are merged into those the HelmChart has when it is written.      *)
(***************************************************************************)
EXTENDS ComponentReads, FiniteSetTheorems, TLAPS

(***************************************************************************)
(* The inductive invariant.                                                *)
(***************************************************************************)

IsResource(r) == r \in [ver : {0, 1, 2}, rev : Nat, vals : {r.vals}]

IsJob(j) == j \in [st : {"none", "running", "complete"}, ver : {0, 1, 2}, vals : {j.vals}]

IsRelease(r) == r \in [ver : {0, 1, 2}, st : {r.st}, vals : {r.vals}]

IsDeployment(d) ==
    /\ d \in [st : {d.st}, image : [DOMAIN d.image -> {1, 2}]]
    /\ DOMAIN d.image \subseteq Container

\* Values are not typed: nothing depends on what they are.
ObjectsInv ==
    /\ hc = [c \in Chart |-> hc[c]] /\ \A c \in Chart : IsResource(hc[c])
    /\ job = [c \in Chart |-> job[c]] /\ \A c \in Chart : IsJob(job[c])
    /\ helm = [c \in Chart |-> helm[c]] /\ \A c \in Chart : IsRelease(helm[c])
    /\ dep = [d \in Deployment |-> dep[d]] /\ \A d \in Deployment : IsDeployment(dep[d])
    /\ got \in [hc : {got.hc}, helm : {got.helm}]

\* Where the reconciler is: at a component of the list, or behind the last one.
PlaceInv ==
    /\ pc \in {"poll", "job", "version", "reported", "release", "write", "triggered"}
    /\ i \in 1..(Len(CoreComponents) + 1)
    /\ pc \in {"job", "version"} => i \in 1..Len(CoreComponents) /\ Component \in CoreChart
    /\ pc \notin {"poll", "job", "version"} => i = Len(CoreComponents) + 1

\* Versions reach the Helm release of c through its resource and its job, and
\* are never taken back; a job that is complete has deployed its revision.
Flow(c) ==
    /\ job[c].st = "none" => job[c].ver = 0
    /\ hc[c].ver = 0 => job[c].st = "none"
    /\ job[c].ver = 2 => hc[c].ver = 2
    /\ helm[c].ver = 2 => hc[c].ver = 2 /\ (job[c].st = "none" \/ job[c].ver = 2)
    /\ job[c].st = "complete" => helm[c].st = "deployed"

\* The components that the poll has left behind and has found.
Found(c) ==
    c \notin absent /\ \E n \in 1..Len(CoreComponents) : n < i /\ CoreComponents[n] = c

\* Since the job of c was read it has not changed, or has been replaced.
JobSeen(c) == job[c].st = "complete" \/ c \in replaced

ChartSeen(c) ==
    /\ Flow(c)
    /\ Found(c) /\ hc[c].ver # 0 => helm[c].ver = 2 /\ JobSeen(c)
    /\ pc = "version" /\ c = Component /\ hc[c].ver # 0 => JobSeen(c)

ChartsInv == \A c \in CoreChart : ChartSeen(c)

DeploymentsInv == \A d \in Deployment : Found(d) => HasImages(d)

\* Revisions only grow, so that a revision tells what was read.
RevisionInv ==
    pc = "write" =>
        /\ got.hc.rev \in Nat /\ got.hc.rev <= hc[Workload].rev
        /\ got.hc.rev = hc[Workload].rev => got.hc = hc[Workload]

ReadsInv == ObjectsInv /\ PlaceInv /\ ChartsInv /\ DeploymentsInv /\ RevisionInv

-----------------------------------------------------------------------------
(***************************************************************************)
(* The initial states.                                                     *)
(***************************************************************************)

\* The list of the release manifest names core components only,
LEMMA ComponentListed ==
    ASSUME NEW n \in 1..Len(CoreComponents)
    PROVE  CoreComponents[n] \in CoreChart \cup Deployment
BY ComponentAssumption

\* and is finite.
LEMMA LengthIsNat == Len(CoreComponents) \in Nat
BY ComponentAssumption

\* Before the first poll nothing has been found, and what is installed was
\* deployed by its job.
LEMMA InitReads == Init => ReadsInv
<1> SUFFICES ASSUME Init PROVE ReadsInv
    OBVIOUS
<1> USE LengthIsNat
<1>1. PICK installed \in Values, exists \in SUBSET (Chart \cup Deployment) :
        /\ hc = [c \in Chart |->
                    IF c \in exists THEN [ver |-> 1, rev |-> 1, vals |-> installed]
                                    ELSE NoResource]
        /\ job = [c \in Chart |->
                    IF c \in exists THEN [st |-> "complete", ver |-> 1, vals |-> installed]
                                    ELSE NoJob]
        /\ helm = [c \in Chart |->
                    IF c \in exists \cup {Workload}
                    THEN [ver |-> 1, st |-> "deployed", vals |-> installed]
                    ELSE Nothing.helm]
        /\ dep = [d \in Deployment |-> [st |-> IF d \in exists THEN "available" ELSE "absent",
                                        image |-> [x \in Installed[d] |-> 1]]]
    BY DEF Init
<1>2. /\ pc = IF CoreComponents = <<>> THEN "reported" ELSE "poll"
      /\ i = 1 /\ got = Nothing /\ absent = {} /\ replaced = {}
    BY DEF Init
<1>3. ObjectsInv
  <2>1. hc = [c \in Chart |-> hc[c]] /\ \A c \in Chart : IsResource(hc[c])
      BY <1>1 DEF IsResource, NoResource
  <2>2. job = [c \in Chart |-> job[c]] /\ \A c \in Chart : IsJob(job[c])
      BY <1>1 DEF IsJob, NoJob
  <2>3. helm = [c \in Chart |-> helm[c]] /\ \A c \in Chart : IsRelease(helm[c])
      BY <1>1 DEF IsRelease, Nothing
  <2>4. dep = [d \in Deployment |-> dep[d]] /\ \A d \in Deployment : IsDeployment(dep[d])
      BY <1>1, ComponentAssumption DEF IsDeployment
  <2>5. got \in [hc : {got.hc}, helm : {got.helm}]
      BY <1>2 DEF Nothing
  <2>6. QED
      BY <2>1, <2>2, <2>3, <2>4, <2>5 DEF ObjectsInv
<1>4. CoreComponents = <<>> => Len(CoreComponents) = 0
    OBVIOUS
<1>5. PlaceInv
    BY <1>2, <1>4 DEF PlaceInv
<1>6. \A c : ~Found(c)
    BY <1>2 DEF Found
<1>7. ChartsInv
    BY <1>1, <1>2, <1>6 DEF ChartsInv, ChartSeen, Flow, NoResource, NoJob, Nothing, Chart
<1>8. DeploymentsInv /\ RevisionInv
    BY <1>2, <1>6 DEF DeploymentsInv, RevisionInv
<1>9. QED
    BY <1>3, <1>5, <1>7, <1>8 DEF ReadsInv
-----------------------------------------------------------------------------
(***************************************************************************)
(* The distribution, the Helm Controller and administrators. The place of  *)
(* the reconciler and what it has found do not change.                     *)
(***************************************************************************)

\* What has been found depends on the place in the list only,
LEMMA FoundUnchanged ==
    ASSUME UNCHANGED <<i, absent>>, NEW c
    PROVE  Found(c)' <=> Found(c)
BY DEF Found

\* and the place changes only with the reconciler.
LEMMA PlaceUnchanged ==
    ASSUME PlaceInv, UNCHANGED <<pc, i>>
    PROVE  PlaceInv'
BY DEF PlaceInv, Component

RaiseVersion(r) == [[r EXCEPT !.ver = 2] EXCEPT !.rev = @ + 1]

\* A resource in a new version is one of a later revision.
LEMMA RaiseVersionResource ==
    ASSUME NEW r, IsResource(r)
    PROVE  RaiseVersion(r) = [ver |-> 2, rev |-> r.rev + 1, vals |-> r.vals]
<1> DEFINE s == [r EXCEPT !.ver = 2]
<1>1. s = [ver |-> 2, rev |-> r.rev, vals |-> r.vals]
    BY DEF IsResource
<1>2. [s EXCEPT !.rev = @ + 1] = [ver |-> 2, rev |-> r.rev + 1, vals |-> r.vals]
  <2> HIDE DEF s
  <2> QED
      BY <1>1
<1>3. QED
    BY <1>2 DEF RaiseVersion

\* The distribution only raises versions: what was found stays upgraded.
LEMMA DistributionReads == ReadsInv /\ Distribution => ReadsInv'
<1> SUFFICES ASSUME ReadsInv, Distribution PROVE ReadsInv'
    OBVIOUS
<1>0. /\ UNCHANGED <<job, helm, pc, i, got, absent, replaced>>
    BY DEF Distribution, localVars
<1>1. PlaceInv'
    BY <1>0, PlaceUnchanged DEF ReadsInv
<1>2. CASE /\ UNCHANGED dep
           /\ \E c \in CoreChart :
                 hc[c].ver = 1 /\ hc' = [hc EXCEPT ![c].ver = 2, ![c].rev = @ + 1]
  <2>1. PICK c \in CoreChart :
                 hc[c].ver = 1 /\ hc' = [hc EXCEPT ![c].ver = 2, ![c].rev = @ + 1]
      BY <1>2
  <2>2. c \in Chart /\ c # Workload
      BY ComponentAssumption DEF Chart
  <2>3. hc[c] = [ver |-> 1, rev |-> hc[c].rev, vals |-> hc[c].vals] /\ hc[c].rev \in Nat
      BY <2>1, <2>2 DEF ReadsInv, ObjectsInv, IsResource
  <2>4. hc' = [x \in Chart |->
                 IF x = c THEN [ver |-> 2, rev |-> hc[c].rev + 1, vals |-> hc[c].vals]
                          ELSE hc[x]]
    <3>1. [hc EXCEPT ![c].ver = 2, ![c].rev = @ + 1]
             = [x \in Chart |-> IF x = c THEN RaiseVersion(hc[c]) ELSE hc[x]]
      <4>1. hc = [x \in Chart |-> hc[x]]
          BY DEF ReadsInv, ObjectsInv
      <4>2. QED
          BY <2>2, <4>1 DEF RaiseVersion
    <3>2. IsResource(hc[c])
        BY <2>2 DEF ReadsInv, ObjectsInv
    <3>3. QED
        BY <2>1, <3>1, <3>2, RaiseVersionResource
  <2>5. \A x \in Chart : IsResource(hc[x])
      BY DEF ReadsInv, ObjectsInv
  <2>6. hc' = [x \in Chart |-> hc'[x]] /\ \A x \in Chart : IsResource(hc'[x])
      BY <2>3, <2>4, <2>5 DEF IsResource
  <2>7. ObjectsInv'
      BY <2>6, <1>0, <1>2 DEF ReadsInv, ObjectsInv
  <2>8. ChartsInv'
    <3> SUFFICES ASSUME NEW x \in CoreChart PROVE ChartSeen(x)'
        BY DEF ChartsInv
    <3>1. ChartSeen(x) /\ x \in Chart
        BY DEF ReadsInv, ChartsInv, Chart
    <3>2. hc'[x].ver = hc[x].ver \/ (hc[x].ver = 1 /\ hc'[x].ver = 2)
        BY <2>1, <2>4, <3>1
    <3>3. QED
        BY <3>1, <3>2, <1>0, FoundUnchanged DEF ChartSeen, Flow, JobSeen, Component
  <2>9. DeploymentsInv'
      BY <1>0, <1>2, FoundUnchanged DEF ReadsInv, DeploymentsInv, HasImages
  <2>10. RevisionInv'
    <3>1. hc'[Workload] = hc[Workload]
        BY <2>2, <2>4 DEF Chart
    <3>2. QED
        BY <3>1, <1>0 DEF ReadsInv, RevisionInv
  <2>11. QED
      BY <1>1, <2>7, <2>8, <2>9, <2>10 DEF ReadsInv
<1>3. CASE /\ UNCHANGED hc
           /\ \E d \in Deployment :
                 \/ \E st \in {"rolling", "available"} :
                       dep' = [dep EXCEPT ![d] = [st |-> st, image |-> NewImage(d)]]
                 \/ dep' = [dep EXCEPT ![d].st = "available"]
  <2>1. PICK d \in Deployment :
                 \/ \E st \in {"rolling", "available"} :
                       dep' = [dep EXCEPT ![d] = [st |-> st, image |-> NewImage(d)]]
                 \/ dep' = [dep EXCEPT ![d].st = "available"]
      BY <1>3
  <2>2. /\ dep = [x \in Deployment |-> dep[x]]
        /\ \A x \in Deployment : IsDeployment(dep[x])
      BY DEF ReadsInv, ObjectsInv
  <2>3. PICK st : \/ dep' = [dep EXCEPT ![d] = [st |-> st, image |-> NewImage(d)]]
                  \/ dep' = [dep EXCEPT ![d] = [st |-> st, image |-> dep[d].image]]
      BY <2>1, <2>2 DEF IsDeployment
  <2>4. \E image \in {NewImage(d), dep[d].image} :
            dep' = [x \in Deployment |-> IF x = d THEN [st |-> st, image |-> image] ELSE dep[x]]
      BY <2>2, <2>3
  <2>5. PICK image \in {NewImage(d), dep[d].image} :
            dep' = [x \in Deployment |-> IF x = d THEN [st |-> st, image |-> image] ELSE dep[x]]
      BY <2>4
  <2>6. /\ image \in [DOMAIN image -> {1, 2}]
        /\ DOMAIN image \subseteq Container
        /\ HasImages(d) => \A x \in Containers[d] : x \in DOMAIN image /\ image[x] = 2
      BY <2>2, <2>5, ComponentAssumption DEF NewImage, IsDeployment, HasImages
  <2>7. dep' = [x \in Deployment |-> dep'[x]] /\ \A x \in Deployment : IsDeployment(dep'[x])
      BY <2>2, <2>5, <2>6 DEF IsDeployment
  <2>8. ObjectsInv'
      BY <2>7, <1>0, <1>3 DEF ReadsInv, ObjectsInv
  <2>9. \A x \in Deployment : HasImages(x) => HasImages(x)'
      BY <2>5, <2>6 DEF HasImages
  <2>10. DeploymentsInv'
      BY <2>9, <1>0, FoundUnchanged DEF ReadsInv, DeploymentsInv
  <2>11. ChartsInv' /\ RevisionInv'
      BY <1>0, <1>3, FoundUnchanged
      DEF ReadsInv, ChartsInv, ChartSeen, Flow, JobSeen, RevisionInv, Component
  <2>12. QED
      BY <1>1, <2>8, <2>10, <2>11 DEF ReadsInv
<1>4. QED
    BY <1>2, <1>3 DEF Distribution

\* What a step of the Helm Controller may do to the job and the release of a chart.
LEMMA HelmControllerStep ==
    ASSUME ReadsInv, NEW c \in Chart, HelmController(c)
    PROVE  \E j, r :
             /\ job' = [x \in Chart |-> IF x = c THEN j ELSE job[x]] /\ IsJob(j)
             /\ helm' = [x \in Chart |-> IF x = c THEN r ELSE helm[x]] /\ IsRelease(r)
             /\ \/ j = NoJob /\ r = helm[c]
                \/ /\ job[c].st = "none" /\ hc[c].ver # 0
                   /\ j = [st |-> "running", ver |-> hc[c].ver, vals |-> hc[c].vals]
                   /\ r = helm[c]
                \/ job[c].st = "running" /\ j = job[c] /\ r = Pending(c)
                \/ /\ job[c].st = "running" /\ helm[c] = Pending(c)
                   /\ j = [st |-> "complete", ver |-> job[c].ver, vals |-> job[c].vals]
                   /\ r = [ver |-> helm[c].ver, st |-> "deployed", vals |-> helm[c].vals]
<1>0. /\ job = [x \in Chart |-> job[x]] /\ helm = [x \in Chart |-> helm[x]]
      /\ IsJob(job[c]) /\ IsRelease(helm[c]) /\ IsResource(hc[c])
    BY DEF ReadsInv, ObjectsInv
<1>1. CASE job' = [job EXCEPT ![c] = NoJob] /\ UNCHANGED helm
  <2>1. IsJob(NoJob)
      BY DEF IsJob, NoJob
  <2>2. QED
      BY <1>0, <1>1, <2>1
<1>2. CASE /\ job[c].st = "none" /\ hc[c].ver # 0
           /\ job' = [job EXCEPT ![c] = [st |-> "running", ver |-> hc[c].ver, vals |-> hc[c].vals]]
           /\ UNCHANGED helm
  <2>1. IsJob([st |-> "running", ver |-> hc[c].ver, vals |-> hc[c].vals])
      BY <1>0 DEF IsJob, IsResource
  <2>2. QED
      BY <1>0, <1>2, <2>1
<1>3. CASE /\ job[c].st = "running"
           /\ helm' = [helm EXCEPT ![c] = Pending(c)]
           /\ UNCHANGED job
  <2>1. IsRelease(Pending(c))
      BY <1>0 DEF IsRelease, IsJob, Pending
  <2>2. QED
      BY <1>0, <1>3, <2>1
<1>4. CASE /\ job[c].st = "running" /\ helm[c] = Pending(c)
           /\ helm' = [helm EXCEPT ![c].st = "deployed"]
           /\ job' = [job EXCEPT ![c].st = "complete"]
  <2> DEFINE j == [st |-> "complete", ver |-> job[c].ver, vals |-> job[c].vals]
             r == [ver |-> helm[c].ver, st |-> "deployed", vals |-> helm[c].vals]
  <2>1. [job[c] EXCEPT !.st = "complete"] = j /\ IsJob(j)
      BY <1>0 DEF IsJob
  <2>2. [helm[c] EXCEPT !.st = "deployed"] = r /\ IsRelease(r)
      BY <1>0 DEF IsRelease
  <2>3. /\ job' = [x \in Chart |-> IF x = c THEN [job[c] EXCEPT !.st = "complete"] ELSE job[x]]
        /\ helm' = [x \in Chart |-> IF x = c THEN [helm[c] EXCEPT !.st = "deployed"] ELSE helm[x]]
      BY <1>0, <1>4
  <2> HIDE DEF j, r
  <2>4. /\ job' = [x \in Chart |-> IF x = c THEN j ELSE job[x]]
        /\ helm' = [x \in Chart |-> IF x = c THEN r ELSE helm[x]]
      BY <2>1, <2>2, <2>3
  <2>5. QED
      BY <1>4, <2>1, <2>2, <2>4 DEF j, r
<1>5. QED
    BY <1>1, <1>2, <1>3, <1>4 DEF HelmController

\* The Helm Controller may take a job that has been read away, which is recorded;
\* versions still flow from resource to job to release.
LEMMA HelmControllerReads ==
    ASSUME ReadsInv, NEW c \in Chart, HelmController(c)
    PROVE  ReadsInv'
<1>0. /\ UNCHANGED <<hc, dep, pc, i, got, absent>>
      /\ replaced' = replaced \cup {x \in {c} \cap CoreChart : job'[c].st = "none"}
    BY DEF HelmController
<1>1. PICK j, r :
        /\ job' = [x \in Chart |-> IF x = c THEN j ELSE job[x]] /\ IsJob(j)
        /\ helm' = [x \in Chart |-> IF x = c THEN r ELSE helm[x]] /\ IsRelease(r)
        /\ \/ j = NoJob /\ r = helm[c]
           \/ /\ job[c].st = "none" /\ hc[c].ver # 0
              /\ j = [st |-> "running", ver |-> hc[c].ver, vals |-> hc[c].vals]
              /\ r = helm[c]
           \/ job[c].st = "running" /\ j = job[c] /\ r = Pending(c)
           \/ /\ job[c].st = "running" /\ helm[c] = Pending(c)
              /\ j = [st |-> "complete", ver |-> job[c].ver, vals |-> job[c].vals]
              /\ r = [ver |-> helm[c].ver, st |-> "deployed", vals |-> helm[c].vals]
    BY HelmControllerStep
<1>2. ObjectsInv'
    BY <1>0, <1>1 DEF ReadsInv, ObjectsInv
<1>3. PlaceInv' /\ DeploymentsInv' /\ RevisionInv'
    BY <1>0, PlaceUnchanged, FoundUnchanged
    DEF ReadsInv, DeploymentsInv, HasImages, RevisionInv
<1>4. ChartsInv'
  <2> SUFFICES ASSUME NEW x \in CoreChart PROVE ChartSeen(x)'
      BY DEF ChartsInv
  <2>1. ChartSeen(x) /\ x \in Chart /\ IsJob(job[x]) /\ IsResource(hc[x])
      BY DEF ReadsInv, ObjectsInv, ChartsInv, Chart
  <2>2. CASE x # c
      BY <1>0, <1>1, <2>1, <2>2, FoundUnchanged DEF ChartSeen, Flow, JobSeen, Component
  <2>3. CASE x = c
    <3>1. job'[x] = j /\ helm'[x] = r /\ (j.st = "none" => x \in replaced')
        BY <1>0, <1>1, <2>1, <2>3
    <3>2. Flow(x)'
        BY <1>0, <1>1, <2>1, <2>3, <3>1
        DEF ChartSeen, Flow, Pending, NoJob, IsJob, IsResource
    <3>3. hc[x].ver # 0 /\ helm[x].ver = 2 => helm'[x].ver = 2
        BY <1>1, <2>1, <2>3, <3>1 DEF ChartSeen, Flow, Pending, IsJob
    <3>4. hc[x].ver # 0 /\ JobSeen(x) => JobSeen(x)'
        BY <1>0, <1>1, <2>1, <2>3, <3>1 DEF ChartSeen, Flow, JobSeen, NoJob
    <3>5. QED
        BY <1>0, <2>1, <3>2, <3>3, <3>4, FoundUnchanged DEF ChartSeen, Component
  <2>4. QED
      BY <2>2, <2>3
<1>5. QED
    BY <1>2, <1>3, <1>4 DEF ReadsInv

EditValues(r, v) == [[r EXCEPT !.vals = Merge(@, v)] EXCEPT !.rev = @ + 1]

\* A resource with edited values is one of a later revision.
LEMMA EditValuesResource ==
    ASSUME NEW r, IsResource(r), NEW v
    PROVE  EditValues(r, v) = [ver |-> r.ver, rev |-> r.rev + 1, vals |-> Merge(r.vals, v)]
<1> DEFINE s == [r EXCEPT !.vals = Merge(@, v)]
<1>1. s = [ver |-> r.ver, rev |-> r.rev, vals |-> Merge(r.vals, v)]
    BY DEF IsResource
<1>2. [s EXCEPT !.rev = @ + 1] = [ver |-> r.ver, rev |-> r.rev + 1, vals |-> Merge(r.vals, v)]
  <2> HIDE DEF s
  <2> QED
      BY <1>1
<1>3. QED
    BY <1>2 DEF EditValues

\* Removed components are no longer asked for, and an edit gives the resource a
\* revision that has not been read.
LEMMA AdministratorReads == ReadsInv /\ Administrator => ReadsInv'
<1> SUFFICES ASSUME ReadsInv, Administrator PROVE ReadsInv'
    OBVIOUS
<1>0. UNCHANGED <<dep, pc, i, got, absent, replaced>>
    BY DEF Administrator, localVars
<1>1. PlaceInv' /\ DeploymentsInv'
    BY <1>0, PlaceUnchanged, FoundUnchanged DEF ReadsInv, DeploymentsInv, HasImages
<1>2. /\ Workload \in Chart /\ CoreChart \subseteq Chart /\ Workload \notin CoreChart
      /\ hc = [x \in Chart |-> hc[x]] /\ job = [x \in Chart |-> job[x]]
      /\ helm = [x \in Chart |-> helm[x]]
      /\ \A x \in Chart : IsResource(hc[x]) /\ IsRelease(helm[x]) /\ IsJob(job[x])
    BY ComponentAssumption DEF Chart, ReadsInv, ObjectsInv
<1>3. CASE \E v \in AdminValues :
              /\ hc' = [hc EXCEPT ![Workload].vals = Merge(@, v), ![Workload].rev = @ + 1]
              /\ UNCHANGED <<job, helm>>
  <2>1. PICK v \in AdminValues :
              hc' = [hc EXCEPT ![Workload].vals = Merge(@, v), ![Workload].rev = @ + 1]
      BY <1>3
  <2>2. hc' = [x \in Chart |-> IF x = Workload THEN EditValues(hc[x], v) ELSE hc[x]]
      BY <1>2, <2>1 DEF EditValues
  <2>3. /\ hc'[Workload] = [ver |-> hc[Workload].ver, rev |-> hc[Workload].rev + 1,
                            vals |-> Merge(hc[Workload].vals, v)]
        /\ \A x \in CoreChart : hc'[x] = hc[x]
      BY <1>2, <2>2, EditValuesResource
  <2>4. hc' = [x \in Chart |-> hc'[x]] /\ \A x \in Chart : IsResource(hc'[x])
      BY <1>2, <2>2, <2>3 DEF IsResource
  <2>5. ObjectsInv'
      BY <1>0, <1>3, <2>4 DEF ReadsInv, ObjectsInv
  <2>6. ChartsInv'
      BY <1>0, <1>3, <2>3, FoundUnchanged
      DEF ReadsInv, ChartsInv, ChartSeen, Flow, JobSeen, Component
  <2>7. RevisionInv'
      BY <1>0, <1>2, <2>3 DEF ReadsInv, RevisionInv, IsResource
  <2>8. QED
      BY <1>1, <2>5, <2>6, <2>7 DEF ReadsInv
<1>4. CASE \E v \in AdminValues :
              /\ helm' = [helm EXCEPT ![Workload].vals = Merge(@, v)]
              /\ UNCHANGED <<hc, job>>
  <2>1. PICK v \in AdminValues : helm' = [helm EXCEPT ![Workload].vals = Merge(@, v)]
      BY <1>4
  <2> DEFINE r == [helm[Workload] EXCEPT !.vals = Merge(@, v)]
  <2>2. helm' = [x \in Chart |-> IF x = Workload THEN r ELSE helm[x]]
      BY <1>2, <2>1
  <2>3. IsRelease(r)
    <3>1. r = [ver |-> helm[Workload].ver, st |-> helm[Workload].st,
               vals |-> Merge(helm[Workload].vals, v)]
        BY <1>2 DEF IsRelease
    <3>2. QED
        BY <1>2, <3>1 DEF IsRelease
  <2> HIDE DEF r
  <2>4. ObjectsInv'
      BY <1>0, <1>2, <1>4, <2>2, <2>3 DEF ReadsInv, ObjectsInv
  <2>5. \A x \in CoreChart : helm'[x] = helm[x]
      BY <1>2, <2>2
  <2>6. ChartsInv' /\ RevisionInv'
      BY <1>0, <1>4, <2>5, FoundUnchanged
      DEF ReadsInv, ChartsInv, ChartSeen, Flow, JobSeen, Component, RevisionInv
  <2>7. QED
      BY <1>1, <2>4, <2>6 DEF ReadsInv
<1>5. CASE \E c \in CoreChart :
              /\ hc' = [hc EXCEPT ![c] = NoResource]
              /\ job' = [job EXCEPT ![c] = NoJob]
              /\ helm' = [helm EXCEPT ![c] = Nothing.helm]
  <2>1. PICK c \in CoreChart :
              /\ hc' = [x \in Chart |-> IF x = c THEN NoResource ELSE hc[x]]
              /\ job' = [x \in Chart |-> IF x = c THEN NoJob ELSE job[x]]
              /\ helm' = [x \in Chart |-> IF x = c THEN Nothing.helm ELSE helm[x]]
      BY <1>2, <1>5
  <2>2. IsResource(NoResource) /\ IsJob(NoJob) /\ IsRelease(Nothing.helm)
      BY DEF NoResource, NoJob, Nothing, IsResource, IsJob, IsRelease
  <2>3. ObjectsInv'
      BY <1>0, <1>2, <2>1, <2>2 DEF ReadsInv, ObjectsInv
  <2>4. ChartsInv'
    <3> SUFFICES ASSUME NEW x \in CoreChart PROVE ChartSeen(x)'
        BY DEF ChartsInv
    <3>1. CASE x = c
        BY <1>2, <2>1, <3>1
        DEF ChartSeen, Flow, NoResource, NoJob, Nothing
    <3>2. CASE x # c
        BY <1>0, <1>2, <2>1, <3>2, FoundUnchanged
        DEF ReadsInv, ChartsInv, ChartSeen, Flow, JobSeen, Component
    <3>3. QED
        BY <3>1, <3>2
  <2>5. RevisionInv'
      BY <1>0, <1>2, <2>1 DEF ReadsInv, RevisionInv
  <2>6. QED
      BY <1>1, <2>3, <2>4, <2>5 DEF ReadsInv
<1>6. QED
    BY <1>3, <1>4, <1>5 DEF Administrator
-----------------------------------------------------------------------------
(***************************************************************************)
(* The reconciler: reads of core components.                               *)
(***************************************************************************)

\* A step of the reconciler alone leaves the objects as they are,
LEMMA ObjectsLocal ==
    ASSUME ObjectsInv, UNCHANGED clusterVars, got' = got \/ got' = Nothing
    PROVE  ObjectsInv'
BY DEF ObjectsInv, clusterVars, Nothing

\* and the flow of versions with them.
LEMMA FlowLocal ==
    ASSUME UNCHANGED clusterVars, NEW c, Flow(c)
    PROVE  Flow(c)'
BY DEF Flow, clusterVars

\* A repeated poll starts with nothing found.
LEMMA WaitReads ==
    ASSUME ReadsInv, Wait
    PROVE  ReadsInv'
<1>0. /\ UNCHANGED clusterVars /\ pc' = "poll" /\ i' = 1 /\ got' = Nothing
    BY DEF Wait, Local
<1>1. \A c : ~Found(c)'
    BY <1>0, LengthIsNat DEF Found
<1>2. ObjectsInv'
    BY <1>0, ObjectsLocal DEF ReadsInv
<1>3. PlaceInv' /\ RevisionInv'
    BY <1>0, LengthIsNat DEF PlaceInv, RevisionInv
<1>4. ChartsInv'
    BY <1>0, <1>1, FlowLocal DEF ReadsInv, ChartsInv, ChartSeen
<1>5. DeploymentsInv'
    BY <1>1 DEF DeploymentsInv
<1>6. QED
    BY <1>2, <1>3, <1>4, <1>5 DEF ReadsInv

\* A component is left behind: as not found, or with what the report says of it.
LEMMA ContinueReads ==
    ASSUME ReadsInv, i \in 1..Len(CoreComponents),
           NEW found \in BOOLEAN, Continue(found),
           found /\ Component \in CoreChart =>
               (hc[Component].ver # 0 => helm[Component].ver = 2 /\ JobSeen(Component)),
           found /\ Component \in Deployment => HasImages(Component)
    PROVE  ReadsInv'
<1> USE LengthIsNat
<1>0. /\ UNCHANGED clusterVars /\ UNCHANGED replaced
      /\ pc' = IF i < Len(CoreComponents) THEN "poll" ELSE "reported"
      /\ i' = i + 1 /\ got' = Nothing
      /\ absent' = IF found THEN absent ELSE absent \cup {Component}
    BY DEF Continue, Local
<1>1. \A c : Found(c)' => Found(c) \/ (found /\ c = Component)
  <2> SUFFICES ASSUME NEW c, Found(c)' PROVE Found(c) \/ (found /\ c = Component)
      OBVIOUS
  <2>1. PICK n \in 1..Len(CoreComponents) : n < i + 1 /\ CoreComponents[n] = c
      BY <1>0 DEF Found
  <2>2. c \notin absent /\ (found \/ c # Component)
      BY <1>0 DEF Found
  <2>3. CASE n < i
      BY <2>1, <2>2, <2>3 DEF Found
  <2>4. CASE n = i
      BY <2>1, <2>2, <2>4 DEF Component
  <2>5. QED
      BY <2>1, <2>3, <2>4
<1>2. ObjectsInv'
    BY <1>0, ObjectsLocal DEF ReadsInv
<1>3. PlaceInv' /\ RevisionInv'
    BY <1>0 DEF PlaceInv, RevisionInv
<1>4. ChartsInv'
  <2> SUFFICES ASSUME NEW c \in CoreChart PROVE ChartSeen(c)'
      BY DEF ChartsInv
  <2>1. ChartSeen(c)
      BY DEF ReadsInv, ChartsInv
  <2>2. Flow(c)'
      BY <1>0, <2>1, FlowLocal DEF ChartSeen
  <2>3. Found(c)' /\ hc[c].ver # 0 => helm[c].ver = 2 /\ JobSeen(c)
      BY <1>1, <2>1 DEF ChartSeen
  <2>4. hc' = hc /\ helm' = helm /\ job' = job /\ pc' # "version"
      BY <1>0 DEF clusterVars
  <2>5. QED
      BY <1>0, <2>2, <2>3, <2>4 DEF ChartSeen, JobSeen
<1>5. DeploymentsInv'
  <2>1. \A d : HasImages(d) <=> HasImages(d)'
      BY <1>0 DEF HasImages, clusterVars
  <2>2. QED
      BY <1>1, <2>1 DEF ReadsInv, DeploymentsInv
<1>6. QED
    BY <1>2, <1>3, <1>4, <1>5 DEF ReadsInv

\* Images of all containers that are found, and as many as the release names:
\* none is missing.
LEMMA ImagesComplete ==
    ASSUME NEW d \in Deployment, IsDeployment(dep[d]),
           ContainsContainerImages(dep[d].image, Containers[d])
    PROVE  HasImages(d)
<1> DEFINE found == {x \in DOMAIN dep[d].image : x \in Containers[d]}
<1>1. IsFiniteSet(Containers[d])
    BY ComponentAssumption, FS_Subset
<1>2. found \subseteq Containers[d] /\ Cardinality(found) = Cardinality(Containers[d])
    BY DEF ContainsContainerImages
<1>3. found = Containers[d]
    BY <1>1, <1>2, FS_Subset
<1>4. QED
    BY <1>3 DEF ContainsContainerImages, HasImages

\* A component that is not on the cluster is counted as absent.
LEMMA NotFoundReads ==
    ASSUME ReadsInv, i \in 1..Len(CoreComponents), NotFound
    PROVE  ReadsInv'
BY ContinueReads DEF NotFound

\* A Deployment is found upgraded with as many containers as the release names,
\* all of the release's version: it has every one of them.
LEMMA GetDeploymentReads == ReadsInv /\ getDeployment => ReadsInv'
<1> SUFFICES ASSUME ReadsInv, getDeployment PROVE ReadsInv'
    OBVIOUS
<1>0. i \in 1..Len(CoreComponents) /\ Component \in Deployment /\ Component \notin CoreChart
    BY ComponentAssumption DEF getDeployment
<1>1. CASE NotFound
    BY <1>0, <1>1, NotFoundReads
<1>2. CASE Wait
    BY <1>2, WaitReads
<1>3. CASE /\ ContainsContainerImages(dep[Component].image, Containers[Component])
           /\ Continue(TRUE)
  <2>1. HasImages(Component)
      BY <1>0, <1>3, ImagesComplete DEF ReadsInv, ObjectsInv
  <2>2. QED
      BY <1>0, <1>3, <2>1, ContinueReads
<1>4. QED
    BY <1>1, <1>2, <1>3 DEF getDeployment

\* The resource of a chart tells nothing yet.
LEMMA GetHelmChartReads == ReadsInv /\ getHelmChart => ReadsInv'
<1> SUFFICES ASSUME ReadsInv, getHelmChart PROVE ReadsInv'
    OBVIOUS
<1>0. i \in 1..Len(CoreComponents) /\ Component \in CoreChart
    BY ComponentAssumption DEF getHelmChart
<1>1. CASE NotFound
    BY <1>0, <1>1, NotFoundReads
<1>2. CASE Local("job") /\ UNCHANGED localVars
  <2>0. UNCHANGED clusterVars /\ pc' = "job" /\ UNCHANGED <<i, got, absent, replaced>>
      BY <1>2 DEF Local, localVars
  <2>1. ObjectsInv'
      BY <2>0, ObjectsLocal DEF ReadsInv
  <2>2. PlaceInv' /\ RevisionInv'
      BY <1>0, <2>0, LengthIsNat DEF PlaceInv, RevisionInv, Component
  <2>3. ChartsInv' /\ DeploymentsInv'
      BY <2>0, FoundUnchanged
      DEF ReadsInv, ChartsInv, ChartSeen, Flow, JobSeen, DeploymentsInv, HasImages, clusterVars
  <2>4. QED
      BY <2>1, <2>2, <2>3 DEF ReadsInv
<1>3. QED
    BY <1>1, <1>2 DEF getHelmChart

\* A complete job has deployed its revision; it has not been replaced so far.
LEMMA GetJobReads == ReadsInv /\ getJob => ReadsInv'
<1> SUFFICES ASSUME ReadsInv, getJob PROVE ReadsInv'
    OBVIOUS
<1>0. i \in 1..Len(CoreComponents) /\ Component \in CoreChart
    BY DEF getJob, ReadsInv, PlaceInv
<1>1. CASE Wait
    BY <1>1, WaitReads
<1>2. CASE /\ isJobComplete(job[Component])
           /\ Local("version") /\ replaced' = replaced \ {Component} /\ UNCHANGED <<i, got, absent>>
  <2>0. UNCHANGED clusterVars /\ pc' = "version" /\ job[Component].st = "complete"
      BY <1>2 DEF Local, isJobComplete
  <2>1. ObjectsInv'
      BY <1>2, <2>0, ObjectsLocal DEF ReadsInv
  <2>2. PlaceInv' /\ RevisionInv'
      BY <1>0, <1>2, <2>0, LengthIsNat DEF PlaceInv, RevisionInv, Component
  <2>3. ChartsInv'
    <3> SUFFICES ASSUME NEW c \in CoreChart PROVE ChartSeen(c)'
        BY DEF ChartsInv
    <3>1. ChartSeen(c) /\ (Found(c)' <=> Found(c)) /\ Component' = Component
        BY <1>2, FoundUnchanged DEF ReadsInv, ChartsInv, Component
    <3>2. JobSeen(c) => JobSeen(c)'
        BY <1>2, <2>0 DEF JobSeen, clusterVars
    <3>3. c = Component => JobSeen(c)'
        BY <2>0 DEF JobSeen, clusterVars
    <3>4. Flow(c)' /\ hc' = hc /\ helm' = helm
        BY <2>0, <3>1, FlowLocal DEF ChartSeen, clusterVars
    <3>5. QED
        BY <3>1, <3>2, <3>3, <3>4 DEF ChartSeen
  <2>4. DeploymentsInv'
      BY <1>2, <2>0, FoundUnchanged DEF ReadsInv, DeploymentsInv, HasImages, clusterVars
  <2>5. QED
      BY <2>1, <2>2, <2>3, <2>4 DEF ReadsInv
<1>3. QED
    BY <1>1, <1>2 DEF getJob

\* A Helm release in the wanted version came from the job that was read, or from
\* one that has replaced it.
LEMMA CompareReads == ReadsInv /\ compareChartReleaseWithVersion => ReadsInv'
<1> SUFFICES ASSUME ReadsInv, compareChartReleaseWithVersion PROVE ReadsInv'
    OBVIOUS
<1>0. pc = "version" /\ i \in 1..Len(CoreComponents) /\ Component \in CoreChart
    BY DEF compareChartReleaseWithVersion, ReadsInv, PlaceInv
<1>1. CASE Wait
    BY <1>1, WaitReads
<1>2. CASE helm[Component].ver = 2 /\ Continue(TRUE)
  <2>1. hc[Component].ver # 0 => JobSeen(Component)
      BY <1>0 DEF ReadsInv, ChartsInv, ChartSeen
  <2>2. Component \notin Deployment
      BY <1>0, ComponentAssumption
  <2>3. QED
      BY <1>0, <1>2, <2>1, <2>2, ContinueReads
<1>3. QED
    BY <1>1, <1>2 DEF compareChartReleaseWithVersion
-----------------------------------------------------------------------------
(***************************************************************************)
(* The reconciler: the chart of a workload.                                *)
(***************************************************************************)

\* Steps after the report touch no core component.
LEMMA ReportKept ==
    ASSUME ReadsInv, pc' \notin {"job", "version"}, UNCHANGED <<job, helm, dep, i, absent, replaced>>,
           \A c \in CoreChart : hc'[c] = hc[c]
    PROVE  ChartsInv' /\ DeploymentsInv'
<1>1. ChartsInv'
    BY FoundUnchanged DEF ReadsInv, ChartsInv, ChartSeen, Flow, JobSeen
<1>2. DeploymentsInv'
    BY FoundUnchanged DEF ReadsInv, DeploymentsInv, HasImages
<1>3. QED
    BY <1>1, <1>2

\* The reads of the workload leave the report alone,
LEMMA RetrieveReads == ReadsInv /\ retrieveHelmRelease => ReadsInv'
<1> SUFFICES ASSUME ReadsInv, retrieveHelmRelease PROVE ReadsInv'
    OBVIOUS
<1>0. /\ pc = "reported" /\ pc' = "release" /\ UNCHANGED <<hc, job, helm, dep, i, absent, replaced>>
      /\ got' = [got EXCEPT !.helm = helm[Workload]]
    BY DEF retrieveHelmRelease, Local, clusterVars
<1>1. got' \in [hc : {got'.hc}, helm : {got'.helm}]
    BY <1>0 DEF ReadsInv, ObjectsInv
<1>2. ObjectsInv'
    BY <1>0, <1>1 DEF ReadsInv, ObjectsInv
<1>3. PlaceInv' /\ RevisionInv'
    BY <1>0 DEF ReadsInv, PlaceInv, RevisionInv
<1>4. QED
    BY <1>0, <1>2, <1>3, ReportKept DEF ReadsInv

\* the second one with the revision that the write will compare,
LEMMA GetWorkloadReads == ReadsInv /\ getWorkload => ReadsInv'
<1> SUFFICES ASSUME ReadsInv, getWorkload PROVE ReadsInv'
    OBVIOUS
<1>0. /\ pc = "release" /\ pc' \in {"triggered", "write"}
      /\ UNCHANGED <<hc, job, helm, dep, i, absent, replaced>>
      /\ got' = [got EXCEPT !.hc = hc[Workload]]
    BY DEF getWorkload, Local, clusterVars
<1>1. got' \in [hc : {got'.hc}, helm : {got'.helm}] /\ got'.hc = hc[Workload]
    BY <1>0 DEF ReadsInv, ObjectsInv
<1>2. ObjectsInv'
    BY <1>0, <1>1 DEF ReadsInv, ObjectsInv
<1>3. hc[Workload].rev \in Nat
    BY DEF ReadsInv, ObjectsInv, IsResource, Chart
<1>4. RevisionInv'
    BY <1>0, <1>1, <1>3 DEF RevisionInv
<1>5. PlaceInv'
    BY <1>0 DEF ReadsInv, PlaceInv
<1>6. QED
    BY <1>0, <1>2, <1>4, <1>5, ReportKept DEF ReadsInv

\* and so does the write.
LEMMA WriteReads == ReadsInv /\ writeHelmChart => ReadsInv'
<1> SUFFICES ASSUME ReadsInv, writeHelmChart PROVE ReadsInv'
    OBVIOUS
<1>0. /\ pc = "write" /\ pc' \in {"reported", "triggered"} /\ got' = Nothing
      /\ UNCHANGED <<job, helm, dep, i, absent, replaced>>
    BY DEF writeHelmChart, Retry
<1>1. /\ hc = [x \in Chart |-> hc[x]] /\ Workload \in Chart
      /\ IsResource(hc[Workload])
    BY DEF ReadsInv, ObjectsInv, Chart
<1>2. \E r : IsResource(r) /\ hc' = [x \in Chart |-> IF x = Workload THEN r ELSE hc[x]]
  <2>1. CASE UNCHANGED hc
      BY <1>1, <2>1
  <2>2. CASE \E v : hc' = [hc EXCEPT ![Workload] = [ver |-> 2, rev |-> @.rev + 1, vals |-> v]]
    <3>1. PICK v :
            hc' = [hc EXCEPT ![Workload] = [ver |-> 2, rev |-> @.rev + 1, vals |-> v]]
        BY <2>2
    <3> DEFINE r == [ver |-> 2, rev |-> hc[Workload].rev + 1, vals |-> v]
    <3>2. IsResource(r)
        BY <1>1 DEF IsResource
    <3>3. hc' = [x \in Chart |-> IF x = Workload THEN r ELSE hc[x]]
        BY <1>1, <3>1
    <3>4. QED
        BY <3>2, <3>3
  <2>3. QED
      BY <2>1, <2>2 DEF writeHelmChart
<1>3. PICK r : IsResource(r) /\ hc' = [x \in Chart |-> IF x = Workload THEN r ELSE hc[x]]
    BY <1>2
<1>4. \A c \in CoreChart : hc'[c] = hc[c]
    BY <1>3, ComponentAssumption DEF Chart
<1>5. ObjectsInv'
    BY <1>0, <1>3 DEF ReadsInv, ObjectsInv, Nothing
<1>6. PlaceInv' /\ RevisionInv'
    BY <1>0 DEF ReadsInv, PlaceInv, RevisionInv
<1>7. QED
    BY <1>0, <1>4, <1>5, <1>6, ReportKept DEF ReadsInv
-----------------------------------------------------------------------------
(***************************************************************************)
(* The theorems.                                                           *)
(***************************************************************************)

\* The invariant holds in every reachable state: what was read of a component
\* stays true of it while the others are read, and revisions tell what was read.
THEOREM ReadsInvariant == Spec => []ReadsInv
<1>1. ReadsInv /\ [Next]_vars => ReadsInv'
  <2> SUFFICES ASSUME ReadsInv, [Next]_vars PROVE ReadsInv'
      OBVIOUS
  <2>1. CASE Reconciler
      BY <2>1, GetDeploymentReads, GetHelmChartReads, GetJobReads, CompareReads,
         RetrieveReads, GetWorkloadReads, WriteReads DEF Reconciler
  <2>2. CASE Distribution
      BY <2>2, DistributionReads
  <2>3. CASE Administrator
      BY <2>3, AdministratorReads
  <2>4. CASE \E c \in Chart : HelmController(c)
      BY <2>4, HelmControllerReads
  <2>5. CASE UNCHANGED vars
    <3>1. UNCHANGED <<hc, job, helm, dep, pc, i, got, absent, replaced>>
        BY <2>5 DEF vars, clusterVars, localVars
    <3>2. ObjectsInv' /\ PlaceInv' /\ RevisionInv'
        BY <3>1, PlaceUnchanged DEF ReadsInv, ObjectsInv, RevisionInv
    <3>3. ChartsInv' /\ DeploymentsInv'
        BY <3>1, FoundUnchanged
        DEF ReadsInv, ChartsInv, ChartSeen, Flow, JobSeen, Component, DeploymentsInv, HasImages
    <3>4. QED
        BY <3>2, <3>3 DEF ReadsInv
  <2>6. QED
      BY <2>1, <2>2, <2>3, <2>4, <2>5 DEF Next
<1>2. QED
    BY InitReads, <1>1, PTL DEF Spec

\* getK8sCoreComponentsUpgradeStatus reports success only when all the core
\* components it has found are in the version of the release, whatever the
\* distribution, the Helm Controller and administrators do between its reads.
THEOREM CoreReportSoundCorrect == Spec => []CoreReportSound
<1>1. ReadsInv => CoreReportSound
  <2> SUFFICES ASSUME ReadsInv, pc \notin {"poll", "job", "version"}
               PROVE  /\ \A c \in CoreChart \ absent : hc[c].ver # 0 =>
                            helm[c].ver = 2 /\ (helm[c].st = "deployed" \/ c \in replaced)
                      /\ \A d \in Deployment \ absent : HasImages(d)
      BY DEF CoreReportSound
  <2>1. \A c \in (CoreChart \cup Deployment) \ absent : Found(c)
    <3> SUFFICES ASSUME NEW c \in (CoreChart \cup Deployment) \ absent PROVE Found(c)
        OBVIOUS
    <3>1. PICK n \in 1..Len(CoreComponents) : CoreComponents[n] = c
        BY ComponentAssumption
    <3>2. n < i
        BY LengthIsNat DEF ReadsInv, PlaceInv
    <3>3. QED
        BY <3>1, <3>2 DEF Found
  <2>2. ASSUME NEW c \in CoreChart \ absent, hc[c].ver # 0
        PROVE  helm[c].ver = 2 /\ (helm[c].st = "deployed" \/ c \in replaced)
      BY <2>1, <2>2 DEF ReadsInv, ChartsInv, ChartSeen, JobSeen, Flow
  <2>3. ASSUME NEW d \in Deployment \ absent
        PROVE  HasImages(d)
      BY <2>1 DEF ReadsInv, DeploymentsInv
  <2>4. QED
      BY <2>2, <2>3
<1>2. QED
    BY ReadsInvariant, <1>1, PTL

\* updateHelmChart and createHelmChart merge into the values that the HelmChart
\* has at the time of the write, for any merge of values: a copy that is not the
\* current one has an older revision, and its write is rejected.
THEOREM CurrentValuesMergedCorrect == Spec => CurrentValuesMerged
<1> DEFINE Merges ==
        pc = "write" /\ hc'[Workload] # hc[Workload] /\ pc' # pc =>
            hc'[Workload].vals =
               mergeHelmValues(IF hc[Workload].ver = 0 THEN got.helm.vals
                                                       ELSE hc[Workload].vals)
<1>1. ReadsInv /\ [Next]_vars => [Merges]_vars
  <2> SUFFICES ASSUME ReadsInv, Next, pc = "write", pc' # pc, hc'[Workload] # hc[Workload]
               PROVE  hc'[Workload].vals =
                        mergeHelmValues(IF hc[Workload].ver = 0 THEN got.helm.vals
                                                                ELSE hc[Workload].vals)
      OBVIOUS
  <2>1. writeHelmChart
      BY DEF Next, Reconciler, getDeployment, getHelmChart, getJob,
             compareChartReleaseWithVersion, retrieveHelmRelease, getWorkload,
             Distribution, Administrator, HelmController
  <2>2. /\ ~Outdated
        /\ hc' = [hc EXCEPT ![Workload] =
                    [ver  |-> 2, rev |-> @.rev + 1,
                     vals |-> mergeHelmValues(IF got.hc.ver = 0 THEN got.helm.vals
                                                                ELSE got.hc.vals)]]
      BY <2>1 DEF writeHelmChart
  <2>3. got.hc = hc[Workload]
      BY <2>2 DEF ReadsInv, RevisionInv, Outdated
  <2>4. Workload \in Chart /\ hc = [x \in Chart |-> hc[x]]
      BY DEF Chart, ReadsInv, ObjectsInv
  <2>5. hc'[Workload].vals = mergeHelmValues(IF got.hc.ver = 0 THEN got.helm.vals
                                                               ELSE got.hc.vals)
      BY <2>2, <2>4
  <2>6. QED
      BY <2>3, <2>5
<1>2. QED
    BY ReadsInvariant, <1>1, PTL DEF Spec, CurrentValuesMerged
=============================================================================
