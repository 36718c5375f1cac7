-------------------------- MODULE RecoveryProofs --------------------------
(***************************************************************************)
(* Proofs about Recovery, for every set of jobs, archives and contents:    *)
(* IndInv is inductive, and the safety properties follow from it.  Each of *)
(* its five parts is one lemma about the steps of a job and one about the  *)
(* steps of everything else.                                               *)
(***************************************************************************)
EXTENDS Recovery, TLAPS

LEMMA Locations ==
    /\ RecoveryWork \cup Stray \subseteq Location
    /\ {"idle", "probe", "probing", "start", "lock", "unlink", "unlinked"} \subseteq Location
    /\ Payload \subseteq Draft
    /\ Nothing \in Draft
  BY DEF Location, RecoveryWork, Payload, Draft, Nothing

-----------------------------------------------------------------------------
(* A step of one job leaves every other job where it is, or ends it. *)

Same(i) == /\ pc'[i] = pc[i] /\ staged'[i] = staged[i] /\ saved'[i] = saved[i]
           /\ i \in mixed => i \in mixed'

LEMMA FinishOthers ==
  ASSUME TypeOK, NEW j \in Job, Finish(j)
  PROVE  /\ pc'[j] = "idle"
         /\ \A i \in Job : i # j => Same(i)
         /\ holder = j => holder' = Nobody
         /\ holder # j => holder' = holder
  BY RecoveryAssumption DEF TypeOK, Finish, Gone, Vanish, Forget, Release, Same

LEMMA StopOthers ==
  ASSUME TypeOK, NEW j \in Job, StopStack(j)
  PROVE  /\ pc'[j] = "wipeProject" /\ staged'[j] = staged[j] /\ saved'[j] = saved[j]
         /\ \A i \in Job : i # j => Same(i) \/ pc'[i] = "idle"
         /\ \A i \in Job : pc[i] \in RecoveryWork \/ pc[i] = "probing" => i = j \/ Same(i)
  BY DEF TypeOK, StopStack, Vanish, Forget, Release, Same, InBackend, RecoveryWork, BackupWork,
         RestoreWork, Preflight, SafetyWork, Replacing

LEMMA Others ==
  ASSUME TypeOK, NEW j \in Job, JobStep(j), NEW i \in Job, i # j
  PROVE  Same(i) \/ pc'[i] = "idle"
<1>1. CASE Finish(j)
  BY <1>1, FinishOthers
<1>2. CASE StopStack(j)
  BY <1>2, StopOthers
<1>3. CASE ~Finish(j) /\ ~StopStack(j)
  <2>1. CASE Probe(j)
    BY <1>3, <2>1 DEF TypeOK, Same, Probe, ProbeBusy, ProbeTakes, ProbeReleases, Goto
  <2>2. CASE Acquire(j)
    BY <1>3, <2>2 DEF TypeOK, Same, Acquire, CheckArgument, LockRefused, LockTaken, Goto
  <2>3. CASE Backup(j)
    BY <1>3, <2>3 DEF TypeOK, Same, Backup, CopyProject, CopyVolumes, WriteArchive,
                      ArchiveAccepted, ArchiveRejected, Goto
  <2>4. CASE Restore(j)
    BY <1>3, <2>4 DEF TypeOK, Same, Restore, Extract, PreflightPassed, PreflightRejected,
                      SaveProject, SaveVolumes, SealSafety, WipeProject, CopyInProject,
                      WipeVolumes, CopyInVolumes, Render, RestoreDone, RestoreFails, Goto
  <2>5. CASE Delete(j) \/ Validated(j)
    BY <1>3, <2>5 DEF TypeOK, Same, Delete, Unlink, UnlinkMissing, DeleteDone, Validated, Goto
  <2>. QED  BY <2>1, <2>2, <2>3, <2>4, <2>5 DEF JobStep
<1>. QED  BY <1>1, <1>2, <1>3

-----------------------------------------------------------------------------
(* TypeOK and WorkInv, which need each other: an archive takes its content  *)
(* from a work directory.                                                   *)

LEMMA FinishType ==
  ASSUME TypeOK, WorkInv, NEW j \in Job, Finish(j)
  PROVE  /\ pc' \in [Job -> Location] /\ kind' \in [Job -> Kind]
         /\ via' \in [Job -> {"api", "cli"}]
         /\ target' \in [Job -> Archive \cup {None}]
         /\ staged' \in [Job -> Draft] /\ saved' \in [Job -> Draft]
         /\ mixed' \in SUBSET Job
         /\ holder' \in Job \cup {Nobody} /\ pause' \in BOOLEAN
         /\ WorkInv'
<1>1. WorkInv'
  BY FinishOthers DEF WorkInv, Same, SafetyWork, Replacing, Stray
<1>. QED  BY <1>1, Locations DEF TypeOK, Finish, Gone, Vanish, Forget, Release, Kind

LEMMA InitType == Init => TypeOK /\ WorkInv
<1>. SUFFICES ASSUME Init PROVE TypeOK /\ WorkInv
  OBVIOUS
<1>1. archive \in [Archive -> Payload \cup {Absent, Partial}]
  <2>1. [project : Content, volumes : {None}] \subseteq Payload
    BY DEF Payload, Tree, Volumes
  <2>. QED  BY <2>1 DEF Init
<1>2. status \in [operation : {"none", "backup", "restore", "delete"},
                  state : {"idle", "running", "success", "error"}]
  BY DEF Init
<1>. QED  BY <1>1, <1>2, Locations
          DEF Init, TypeOK, Kind, Tree, Volumes, WorkInv, SafetyWork, Replacing, Stray

LEMMA BeginType ==
  ASSUME TypeOK, WorkInv, NEW j \in Job, NEW k \in Kind, NEW v \in {"api", "cli"},
         NEW a \in Archive, Begin(j, k, v, a)
  PROVE  TypeOK' /\ WorkInv'
<1>1. TypeOK'
  BY Locations DEF TypeOK, Begin, Goto, diskVars
<1>2. WorkInv'
  BY DEF TypeOK, WorkInv, Begin, Goto, SafetyWork, Replacing, Stray
<1>. QED  BY <1>1, <1>2

LEMMA ProbeType ==
  ASSUME TypeOK, WorkInv, NEW j \in Job, Probe(j)
  PROVE  TypeOK' /\ WorkInv'
<1>1. CASE ProbeBusy(j)
  BY <1>1, FinishType DEF TypeOK, ProbeBusy, diskVars
<1>2. CASE ProbeTakes(j)
  <2>1. TypeOK'
    BY <1>2, Locations DEF TypeOK, ProbeTakes, Goto, diskVars
  <2>. QED  BY <1>2, <2>1 DEF TypeOK, WorkInv, ProbeTakes, Goto, SafetyWork, Replacing, Stray
<1>3. CASE ProbeReleases(j)
  <2>1. TypeOK'
    BY <1>3, Locations DEF TypeOK, ProbeReleases, Goto, Report, diskVars
  <2>. QED  BY <1>3, <2>1 DEF TypeOK, WorkInv, ProbeReleases, Goto, SafetyWork, Replacing, Stray
<1>. QED  BY <1>1, <1>2, <1>3 DEF Probe

LEMMA AcquireType ==
  ASSUME TypeOK, WorkInv, NEW j \in Job, Acquire(j)
  PROVE  TypeOK' /\ WorkInv'
<1>1. CASE CheckArgument(j)
  <2>1. CASE Finish(j)
    BY <1>1, <2>1, FinishType DEF TypeOK, CheckArgument, diskVars
  <2>2. CASE ~Finish(j)
    <3>1. TypeOK'
      BY <1>1, <2>2, Locations DEF TypeOK, CheckArgument, Goto, diskVars
    <3>. QED  BY <1>1, <2>2, <3>1 DEF TypeOK, WorkInv, CheckArgument, Goto, SafetyWork, Replacing, Stray
  <2>. QED  BY <2>1, <2>2
<1>2. CASE LockRefused(j)
  BY <1>2, FinishType DEF TypeOK, LockRefused, diskVars
<1>3. CASE LockTaken(j)
  <2>1. pc' \in [Job -> Location]
    BY <1>3 DEF TypeOK, LockTaken, Goto, Location, RecoveryWork, BackupWork, RestoreWork, Preflight, Kind
  <2>2. status' \in [operation : {"none", "backup", "restore", "delete"},
                     state : {"idle", "running", "success", "error"}]
    BY <1>3 DEF TypeOK, LockTaken, Report, Kind
  <2>3. TypeOK'
    BY <1>3, <2>1, <2>2 DEF TypeOK, LockTaken, diskVars
  <2>. QED  BY <1>3, <2>3 DEF TypeOK, WorkInv, LockTaken, Goto, SafetyWork, Replacing, Stray, Kind
<1>. QED  BY <1>1, <1>2, <1>3 DEF Acquire

LEMMA ReportType ==
  ASSUME NEW op \in {"backup", "restore", "delete"},
         NEW st \in {"running", "success", "error"}, Report(op, st)
  PROVE  status' \in [operation : {"none", "backup", "restore", "delete"},
                      state : {"idle", "running", "success", "error"}]
  BY DEF Report

LEMMA BackupType ==
  ASSUME TypeOK, WorkInv, NEW j \in Job, Backup(j)
  PROVE  TypeOK' /\ WorkInv'
<1>1. CASE CopyProject(j)
  <2>1. TypeOK'
    BY <1>1, Locations DEF TypeOK, CopyProject, Goto, diskVars, Draft, Tree,
                           RecoveryWork, BackupWork
  <2>. QED
    BY <1>1, <2>1 DEF TypeOK, WorkInv, CopyProject, Goto, SafetyWork, Replacing, Stray, Tree
<1>2. CASE CopyVolumes(j)
  <2>1. CASE Finish(j)
    BY <1>2, <2>1, FinishType DEF TypeOK, CopyVolumes, diskVars
  <2>2. CASE ~Finish(j)
    <3>1. PICK v \in Volumes :
              staged' = [staged EXCEPT
                            ![j] = [project |-> staged[j].project, volumes |-> v]]
      BY <1>2, <2>2 DEF CopyVolumes, TypeOK, Volumes
    <3>2. staged[j].project \in Tree
      BY <1>2 DEF CopyVolumes, WorkInv
    <3>3. [project |-> staged[j].project, volumes |-> v] \in Payload
      BY <3>2 DEF Payload
    <3>4. TypeOK'
      BY <1>2, <2>2, <3>1, <3>3, Locations
         DEF TypeOK, CopyVolumes, Goto, diskVars, RecoveryWork, BackupWork
    <3>. QED
      BY <1>2, <2>2, <3>1, <3>3, <3>4 DEF TypeOK, WorkInv, CopyVolumes, Goto, SafetyWork, Replacing, Stray
  <2>. QED  BY <2>1, <2>2
<1>3. CASE WriteArchive(j)
  <2>1. TypeOK'
    BY <1>3, Locations DEF TypeOK, WriteArchive, Goto, RecoveryWork, BackupWork
  <2>. QED
    BY <1>3, <2>1 DEF TypeOK, WorkInv, WriteArchive, Goto, SafetyWork, Replacing, Stray
<1>4. CASE ArchiveAccepted(j)
  <2>1. staged[j] \in Payload
    BY <1>4 DEF ArchiveAccepted, WorkInv
  <2>. QED  BY <1>4, <2>1, FinishType, ReportType DEF TypeOK, ArchiveAccepted
<1>5. CASE ArchiveRejected(j)
  BY <1>5, FinishType, ReportType DEF TypeOK, ArchiveRejected, diskVars
<1>. QED  BY <1>1, <1>2, <1>3, <1>4, <1>5 DEF Backup

LEMMA PreflightType ==
  ASSUME TypeOK, WorkInv, NEW j \in Job,
         Extract(j) \/ PreflightPassed(j) \/ PreflightRejected(j)
  PROVE  TypeOK' /\ WorkInv'
<1>1. CASE Extract(j)
  <2>1. TypeOK'
    BY <1>1, Locations DEF TypeOK, Extract, Goto, diskVars, RecoveryWork, RestoreWork, Preflight
  <2>. QED
    BY <1>1, <2>1 DEF TypeOK, WorkInv, Extract, Goto, SafetyWork, Replacing, Stray
<1>2. CASE PreflightPassed(j)
  <2>1. TypeOK'
    BY <1>2, Locations DEF TypeOK, PreflightPassed, Goto, diskVars, RecoveryWork,
                           RestoreWork, SafetyWork
  <2>. QED
    BY <1>2, <2>1 DEF TypeOK, WorkInv, PreflightPassed, Goto, SafetyWork, Replacing, Stray
<1>3. CASE PreflightRejected(j)
  BY <1>3, FinishType, ReportType DEF TypeOK, PreflightRejected, diskVars
<1>. QED  BY <1>1, <1>2, <1>3

LEMMA SafetyType ==
  ASSUME TypeOK, WorkInv, NEW j \in Job,
         SaveProject(j) \/ SaveVolumes(j) \/ SealSafety(j)
  PROVE  TypeOK' /\ WorkInv'
<1>. USE DEF Replacing, SafetyWork, Stray, BeforeCopy
<1>1. CASE SaveProject(j)
  <2>1. TypeOK'
    BY <1>1, Locations DEF TypeOK, SaveProject, Goto, diskVars, Draft, RecoveryWork, RestoreWork
  <2>. QED  BY <1>1, <2>1 DEF TypeOK, WorkInv, SaveProject, Goto
<1>2. CASE SaveVolumes(j)
  <2>1. [project |-> saved[j].project, volumes |-> volumes] \in Payload
    BY <1>2 DEF TypeOK, SaveVolumes, WorkInv, Payload
  <2>2. TypeOK'
    BY <1>2, <2>1, Locations DEF TypeOK, SaveVolumes, Goto, diskVars, RecoveryWork, RestoreWork
  <2>. QED  BY <1>2, <2>1, <2>2 DEF TypeOK, WorkInv, SaveVolumes, Goto
<1>3. CASE SealSafety(j)
  <2>1. saved[j] \in Payload
    BY <1>3 DEF SealSafety, WorkInv
  <2>2. TypeOK'
    BY <1>3, <2>1, Locations DEF TypeOK, SealSafety, Goto, RecoveryWork, RestoreWork
  <2>. QED  BY <1>3, <2>2 DEF TypeOK, WorkInv, SealSafety, Goto
<1>. QED  BY <1>1, <1>2, <1>3

LEMMA ReplaceType ==
  ASSUME TypeOK, WorkInv, NEW j \in Job,
         \/ StopStack(j) \/ WipeProject(j) \/ CopyInProject(j) \/ WipeVolumes(j)
         \/ CopyInVolumes(j) \/ Render(j) \/ RestoreDone(j) \/ RestoreFails(j)
  PROVE  TypeOK' /\ WorkInv'
<1>. USE DEF Replacing, SafetyWork, Stray, BeforeCopy
<1>0. Replacing \subseteq Location
  BY DEF RestoreWork, RecoveryWork, Location
<1>1. CASE StopStack(j)
  <2>1. TypeOK'
    BY <1>0, <1>1, Locations DEF TypeOK, StopStack, Vanish, Forget, Release, diskVars, Kind
  <2>2. WorkInv'
    <3>1. saved[j] \in Payload /\ staged[j] \in Payload
      BY <1>1 DEF StopStack, WorkInv
    <3>. QED  BY <1>1, <3>1, StopOthers DEF WorkInv, Same
  <2>. QED  BY <2>1, <2>2
<1>. DEFINE Saved == saved[j].project \in Tree
<1>2. CASE WipeProject(j)
  <2>0. Saved
    BY <1>2 DEF WipeProject, WorkInv, Payload
  <2>1. undo' \in Tree \cup {None}
    BY <1>2, <2>0 DEF TypeOK, WipeProject, Remember
  <2>2. TypeOK'
    BY <1>0, <1>2, <2>1 DEF TypeOK, WipeProject, Goto, Tree
  <2>. QED  BY <1>2, <2>2 DEF TypeOK, WorkInv, WipeProject, Goto
<1>3. CASE CopyInProject(j)
  <2>1. staged[j] \in Payload /\ Saved
    BY <1>3 DEF CopyInProject, WorkInv, Payload
  <2>2. undo' \in Tree \cup {None}
    BY <1>3, <2>1 DEF TypeOK, CopyInProject, Remember
  <2>3. TypeOK'
    BY <1>0, <1>3, <2>1, <2>2 DEF TypeOK, CopyInProject, Goto, Payload
  <2>. QED  BY <1>3, <2>3 DEF TypeOK, WorkInv, CopyInProject, Goto
<1>4. CASE WipeVolumes(j)
  <2>1. TypeOK'
    BY <1>0, <1>4 DEF TypeOK, WipeVolumes, Goto, Volumes
  <2>. QED  BY <1>4, <2>1 DEF TypeOK, WorkInv, WipeVolumes, Goto
<1>5. CASE CopyInVolumes(j)
  <2>1. staged[j] \in Payload /\ staged[j].volumes # None
    BY <1>5 DEF CopyInVolumes, WorkInv
  <2>2. TypeOK'
    BY <1>0, <1>5, <2>1 DEF TypeOK, CopyInVolumes, Goto, Payload, Volumes
  <2>. QED  BY <1>5, <2>2 DEF TypeOK, WorkInv, CopyInVolumes, Goto
<1>6. CASE Render(j)
  <2>1. TypeOK'
    BY <1>0, <1>6 DEF TypeOK, Render, Goto, diskVars
  <2>. QED  BY <1>6, <2>1 DEF TypeOK, WorkInv, Render, Goto
<1>7. CASE RestoreDone(j)
  BY <1>7, FinishType, ReportType DEF TypeOK, RestoreDone, diskVars
<1>8. CASE RestoreFails(j)
  BY <1>8, FinishType DEF TypeOK, RestoreFails, diskVars
<1>. QED  BY <1>1, <1>2, <1>3, <1>4, <1>5, <1>6, <1>7, <1>8

LEMMA DeleteType ==
  ASSUME TypeOK, WorkInv, NEW j \in Job, Delete(j) \/ Validated(j)
  PROVE  TypeOK' /\ WorkInv'
<1>1. CASE Unlink(j)
  <2>1. TypeOK'
    BY <1>1, Locations DEF TypeOK, Unlink, Goto
  <2>. QED  BY <1>1, <2>1 DEF TypeOK, WorkInv, Unlink, Goto, SafetyWork, Replacing, Stray
<1>2. CASE UnlinkMissing(j)
  BY <1>2, FinishType, ReportType DEF TypeOK, UnlinkMissing, diskVars
<1>3. CASE DeleteDone(j)
  BY <1>3, FinishType, ReportType DEF TypeOK, DeleteDone, diskVars
<1>4. CASE Validated(j)
  BY <1>4, FinishType DEF TypeOK, Validated, diskVars
<1>. QED  BY <1>1, <1>2, <1>3, <1>4 DEF Delete

LEMMA StrayType ==
  ASSUME TypeOK, WorkInv, NEW j \in Job, KillLeavesHelper(j) \/ StrayStep(j)
  PROVE  TypeOK' /\ WorkInv'
<1>. USE DEF SafetyWork, Replacing, Stray
<1>1. CASE KillLeavesHelper(j)
  <2>1. TypeOK'
    BY <1>1, Locations DEF TypeOK, KillLeavesHelper, Forget, Release, Goto, Kind, diskVars
  <2>2. saved[j] \in Payload /\ staged[j] \in Payload /\ staged[j].volumes # None
    BY <1>1 DEF KillLeavesHelper, WorkInv
  <2>. QED  BY <1>1, <2>1, <2>2 DEF TypeOK, WorkInv, KillLeavesHelper, Goto
<1>2. CASE StrayEmpties(j)
  <2>1. TypeOK'
    BY <1>2, Locations DEF TypeOK, StrayEmpties, Intrude, Goto, Volumes
  <2>. QED  BY <1>2, <2>1 DEF TypeOK, WorkInv, StrayEmpties, Goto
<1>3. CASE StrayFills(j)
  <2>1. volumes' \in Volumes
    BY <1>3 DEF StrayFills, WorkInv, Payload, Volumes
  <2>2. TypeOK'
    BY <1>3, <2>1, Locations DEF TypeOK, StrayFills, Intrude, Goto
  <2>. QED  BY <1>3, <2>2 DEF TypeOK, WorkInv, StrayFills, Goto
<1>. QED  BY <1>1, <1>2, <1>3 DEF StrayStep

LEMMA RestType ==
  ASSUME TypeOK, WorkInv,
         \/ \E j \in Job : KillJob(j) \/ KillLeavesHelper(j) \/ StrayStep(j)
         \/ HostCrash \/ ConfigWrite \/ ServiceWrite \/ StackStarted
         \/ UNCHANGED vars
  PROVE  TypeOK' /\ WorkInv'
<1>. USE DEF SafetyWork, Replacing, Stray
<1>1. ASSUME NEW S \in SUBSET Job, Gone(S), UNCHANGED <<diskVars, pause, status>>,
             stack' \in {"up", "partial", "down"}
      PROVE  TypeOK' /\ WorkInv'
  <2>1. TypeOK'
    BY <1>1, Locations DEF TypeOK, Gone, Vanish, Forget, Release, Kind, diskVars
  <2>. QED  BY <1>1, <2>1 DEF TypeOK, WorkInv, Gone, Vanish, Forget, Release
<1>2. CASE \E j \in Job : KillJob(j) \/ KillLeavesHelper(j) \/ StrayStep(j)
  BY <1>1, <1>2, StrayType DEF KillJob, TypeOK
<1>3. CASE HostCrash
  BY <1>1, <1>3 DEF HostCrash, TypeOK
<1>4. CASE ConfigWrite \/ ServiceWrite \/ StackStarted
  BY <1>4 DEF ConfigWrite, ServiceWrite, StackStarted, TypeOK, WorkInv, jobVars, diskVars,
              Tree, Volumes
<1>5. CASE UNCHANGED vars
  BY <1>5 DEF vars, TypeOK, WorkInv, jobVars, diskVars
<1>. QED  BY <1>2, <1>3, <1>4, <1>5

LEMMA StepType ==
  ASSUME TypeOK, WorkInv, [Next]_vars
  PROVE  TypeOK' /\ WorkInv'
<1>1. ASSUME NEW j \in Job, JobStep(j) PROVE TypeOK' /\ WorkInv'
  BY <1>1, ProbeType, AcquireType, BackupType, PreflightType, SafetyType, ReplaceType,
     DeleteType DEF JobStep, Restore
<1>. QED  BY <1>1, BeginType, RestType DEF Next

-----------------------------------------------------------------------------
(* LockInv and the exclusion of recovery jobs. *)

LEMMA LockStep ==
  ASSUME TypeOK, LockInv, [Next]_vars
  PROVE  LockInv'
<1>. USE RecoveryAssumption DEF LockInv
<1>1. ASSUME NEW j \in Job, NEW k \in Kind, NEW v \in {"api", "cli"}, NEW a \in Archive,
             Begin(j, k, v, a)
      PROVE  LockInv'
  BY <1>1 DEF TypeOK, Begin, Goto, RecoveryWork, BackupWork, RestoreWork, Preflight,
              SafetyWork, Replacing
<1>2. ASSUME NEW j \in Job, JobStep(j) PROVE LockInv'
  <2>1. CASE Finish(j)
    BY <2>1, FinishOthers DEF Same, RecoveryWork, BackupWork, RestoreWork, Preflight,
                              SafetyWork, Replacing
  <2>2. CASE StopStack(j)
    <3>1. holder = j /\ holder' = j
      BY <2>2 DEF StopStack, Vanish, Forget, Release, RecoveryWork, RestoreWork, Replacing
    <3>2. ASSUME NEW i \in Job, i # j PROVE pc'[i] \notin RecoveryWork \cup {"probing"}
      BY <2>2, <3>1, <3>2, StopOthers DEF Same, RecoveryWork, BackupWork, RestoreWork,
                                          Preflight, SafetyWork, Replacing
    <3>. QED  BY <3>1, <3>2
  <2>3. CASE ~Finish(j) /\ ~StopStack(j)
    <3>1. \A i \in Job : i # j => pc'[i] = pc[i] \/ pc'[i] = "idle"
      BY <1>2, Others DEF Same
    <3>. USE <3>1 DEF RecoveryWork, BackupWork, RestoreWork, Preflight, SafetyWork, Replacing
    <3>2. CASE Probe(j)
      BY <2>3, <3>2 DEF TypeOK, Probe, ProbeBusy, ProbeTakes, ProbeReleases, Goto
    <3>3. CASE Acquire(j)
      BY <2>3, <3>3 DEF TypeOK, Acquire, CheckArgument, LockRefused, LockTaken, Goto
    <3>4. CASE Backup(j)
      BY <2>3, <3>4 DEF Backup, CopyProject, CopyVolumes, WriteArchive, ArchiveAccepted,
                        ArchiveRejected
    <3>5. CASE Restore(j)
      BY <2>3, <3>5 DEF Restore, Extract, PreflightPassed, PreflightRejected, SaveProject,
                        SaveVolumes, SealSafety, WipeProject, CopyInProject, WipeVolumes,
                        CopyInVolumes, Render, RestoreDone, RestoreFails
    <3>6. CASE Delete(j) \/ Validated(j)
      BY <2>3, <3>6 DEF TypeOK, Delete, Unlink, UnlinkMissing, DeleteDone, Validated, Goto
    <3>. QED  BY <1>2, <3>2, <3>3, <3>4, <3>5, <3>6 DEF JobStep
  <2>. QED  BY <2>1, <2>2, <2>3
<1>3. ASSUME NEW S \in SUBSET Job, Gone(S) PROVE LockInv'
  BY <1>3 DEF TypeOK, Gone, Vanish, Forget, Release, RecoveryWork, BackupWork, RestoreWork, Preflight,
              SafetyWork, Replacing
<1>4. CASE (\E j \in Job : KillJob(j)) \/ HostCrash
  BY <1>3, <1>4 DEF KillJob, HostCrash
<1>6. ASSUME NEW j \in Job, KillLeavesHelper(j) \/ StrayStep(j) PROVE LockInv'
  BY <1>6 DEF TypeOK, KillLeavesHelper, Release, StrayStep, StrayEmpties, StrayFills, Goto,
              RecoveryWork, BackupWork, RestoreWork, Preflight, SafetyWork, Replacing
<1>5. CASE ConfigWrite \/ ServiceWrite \/ StackStarted \/ UNCHANGED vars
  BY <1>5 DEF ConfigWrite, ServiceWrite, StackStarted, vars, jobVars
<1>. QED  BY <1>1, <1>2, <1>4, <1>5, <1>6 DEF Next

LEMMA LockExcludes == ASSUME LockInv PROVE ExclusiveRecovery
  BY DEF LockInv, ExclusiveRecovery

-----------------------------------------------------------------------------
(* SafetyInv: whatever the installation has lost, restore-safety/ has. *)

\* The copy that can undo what a restore has done to the tree.
HasUndo == undo \in Content /\ \E s \in safety : s.project = undo

\* What SafetyInv says of one job.
SafetyOf(i) ==
    /\ pc[i] \in BeforeCopy => saved[i].project \in Content \/ project = Torn
    /\ pc[i] = "safetyArchive" => saved[i].volumes \in Data \/ HasVolumes
    /\ pc[i] \in Replacing \cup Stray => saved[i] \in safety /\ HasVolumes

LEMMA SafetyParts ==
    SafetyInv <=> /\ project = Torn => HasUndo
                  /\ volumes = Torn => HasVolumes
                  /\ \A i \in Job : SafetyOf(i)
  BY DEF SafetyInv, TornIsRecoverable, SafetyOf, HasUndo, HasVolumes

LEMMA SafetyPartsNext ==
    SafetyInv' <=> /\ project' = Torn => HasUndo'
                   /\ volumes' = Torn => HasVolumes'
                   /\ \A i \in Job : SafetyOf(i)'
  BY DEF SafetyInv, TornIsRecoverable, SafetyOf, HasUndo, HasVolumes

\* restore-safety/ only grows, so a job that stays where it is keeps its part.
LEMMA SafetyGrows ==
  ASSUME safety \subseteq safety'
  PROVE  /\ HasUndo /\ undo' = undo => HasUndo'
         /\ HasVolumes => HasVolumes'
         /\ \A i \in Job : SafetyOf(i) /\ Same(i) /\ (project = Torn => project' = Torn) => SafetyOf(i)'
         /\ \A i \in Job : pc'[i] \notin BeforeCopy \cup Replacing \cup Stray => SafetyOf(i)'
  BY DEF HasUndo, HasVolumes, SafetyOf, Same, Replacing, BeforeCopy, Stray

\* Only a restore in its critical section stops the stack, or changes the tree
\* or the volumes.
LEMMA QuietJob ==
  ASSUME NEW j \in Job, JobStep(j), pc[j] \notin RestoreWork
  PROVE  UNCHANGED <<project, undo, volumes, stack>>
  BY DEF JobStep, Probe, ProbeBusy, ProbeTakes, ProbeReleases,
         Acquire, CheckArgument, LockRefused, LockTaken,
         Backup, CopyProject, CopyVolumes, WriteArchive, ArchiveAccepted, ArchiveRejected,
         Restore, Extract, PreflightPassed, PreflightRejected, SaveProject, SaveVolumes,
         SealSafety, StopStack, WipeProject, CopyInProject, WipeVolumes, CopyInVolumes,
         Render, RestoreDone, RestoreFails,
         Delete, Unlink, UnlinkMissing, DeleteDone, Validated, diskVars,
         RestoreWork, Preflight, SafetyWork, Replacing

LEMMA JobSafety ==
  ASSUME TypeOK, WorkInv, LockInv, SafetyInv, NEW j \in Job, JobStep(j)
  PROVE  SafetyInv'
<1>. USE SafetyParts
<1>1. safety \subseteq safety'
  BY DEF JobStep, Probe, ProbeBusy, ProbeTakes, ProbeReleases,
         Acquire, CheckArgument, LockRefused, LockTaken,
         Backup, CopyProject, CopyVolumes, WriteArchive, ArchiveAccepted, ArchiveRejected,
         Restore, Extract, PreflightPassed, PreflightRejected, SaveProject, SaveVolumes,
         SealSafety, StopStack, WipeProject, CopyInProject, WipeVolumes, CopyInVolumes,
         Render, RestoreDone, RestoreFails,
         Delete, Unlink, UnlinkMissing, DeleteDone, Validated, diskVars
<1>2. volumes' = Torn => volumes = Torn \/ pc[j] \in Replacing
  BY DEF JobStep, Probe, ProbeBusy, ProbeTakes, ProbeReleases,
         Acquire, CheckArgument, LockRefused, LockTaken,
         Backup, CopyProject, CopyVolumes, WriteArchive, ArchiveAccepted, ArchiveRejected,
         Restore, Extract, PreflightPassed, PreflightRejected, SaveProject, SaveVolumes,
         SealSafety, StopStack, WipeProject, CopyInProject, WipeVolumes, CopyInVolumes,
         Render, RestoreDone, RestoreFails,
         Delete, Unlink, UnlinkMissing, DeleteDone, Validated, diskVars, Replacing
<1>3. project' = Torn => HasUndo'
  <2>1. CASE WipeProject(j) \/ CopyInProject(j)
    <3>1. Remember(j) /\ saved[j] \in safety /\ (saved[j].project \in Content \/ project = Torn)
      BY <2>1 DEF WipeProject, CopyInProject, SafetyOf, Replacing, BeforeCopy
    <3>2. project' = Torn => \/ undo' = undo /\ project = Torn
                             \/ undo' = saved[j].project /\ project # Torn
      BY <3>1 DEF Remember
    <3>. QED  BY <1>1, <3>1, <3>2 DEF HasUndo
  <2>2. CASE ~WipeProject(j) /\ ~CopyInProject(j)
    <3>1. UNCHANGED <<project, undo>>
      BY <2>2 DEF JobStep, Probe, ProbeBusy, ProbeTakes, ProbeReleases,
         Acquire, CheckArgument, LockRefused, LockTaken,
         Backup, CopyProject, CopyVolumes, WriteArchive, ArchiveAccepted, ArchiveRejected,
         Restore, Extract, PreflightPassed, PreflightRejected, SaveProject, SaveVolumes,
         SealSafety, StopStack, WipeVolumes, CopyInVolumes,
         Render, RestoreDone, RestoreFails,
         Delete, Unlink, UnlinkMissing, DeleteDone, Validated, diskVars
    <3>. QED  BY <1>1, <3>1, SafetyGrows
  <2>. QED  BY <2>1, <2>2
<1>4. SafetyOf(j)'
  <2>1. CASE Finish(j)
    BY <1>1, <2>1, FinishOthers, SafetyGrows DEF BeforeCopy, Replacing, Stray
  <2>2. CASE SaveProject(j)
    <3>1. pc'[j] = "safetyVolumes" /\ saved'[j].project = project /\ project' = project
      BY <2>2 DEF TypeOK, SaveProject, Goto, diskVars
    <3>2. project \in Content \/ project = Torn
      BY DEF TypeOK, Tree
    <3>. QED  BY <3>1, <3>2 DEF SafetyOf, Replacing, Stray
  <2>3. CASE SaveVolumes(j)
    <3>1. /\ pc'[j] = "safetyArchive" /\ project' = project
          /\ saved'[j].project = saved[j].project /\ saved'[j].volumes = volumes
      BY <2>3 DEF TypeOK, SaveVolumes, Goto, diskVars
    <3>2. volumes \in Data \/ HasVolumes
      BY DEF TypeOK, Volumes
    <3>3. saved[j].project \in Content \/ project = Torn
      BY <2>3 DEF SaveVolumes, SafetyOf, BeforeCopy
    <3>. QED  BY <1>1, <3>1, <3>2, <3>3, SafetyGrows DEF SafetyOf, Replacing, Stray
  <2>4. CASE SealSafety(j)
    <3>1. pc'[j] = "down" /\ saved'[j] = saved[j] /\ saved[j] \in safety' /\ project' = project
      BY <2>4 DEF TypeOK, SealSafety, Goto
    <3>2. /\ saved[j].project \in Content \/ project = Torn
          /\ saved[j].volumes \in Data \/ HasVolumes
      BY <2>4 DEF SealSafety, SafetyOf, BeforeCopy
    <3>3. HasVolumes'
      BY <1>1, <3>1, <3>2, SafetyGrows DEF HasVolumes
    <3>. QED  BY <3>1, <3>2, <3>3 DEF SafetyOf
  <2>5. CASE pc[j] \in Replacing /\ saved'[j] = saved[j] /\ pc'[j] \in Replacing
    <3>1. saved'[j] \in safety' /\ HasVolumes'
      BY <1>1, <2>5, SafetyGrows DEF SafetyOf
    <3>2. pc'[j] \in BeforeCopy => \/ project' = Torn
                                   \/ pc[j] \in BeforeCopy /\ project' = project
      <4>1. CASE StopStack(j)
        BY <2>5, <4>1 DEF StopStack, BeforeCopy, diskVars
      <4>2. CASE ~StopStack(j)
        BY <2>5, <4>2 DEF TypeOK, Finish, Gone, Goto, BeforeCopy, Kind, JobStep, Probe, ProbeBusy, ProbeTakes, ProbeReleases,
         Acquire, CheckArgument, LockRefused, LockTaken,
         Backup, CopyProject, CopyVolumes, WriteArchive, ArchiveAccepted, ArchiveRejected,
         Restore, Extract, PreflightPassed, PreflightRejected, SaveProject, SaveVolumes,
         SealSafety, WipeProject, CopyInProject, WipeVolumes, CopyInVolumes,
         Render, RestoreDone, RestoreFails,
         Delete, Unlink, UnlinkMissing, DeleteDone, Validated, diskVars, Replacing
      <4>. QED  BY <4>1, <4>2
    <3>. QED  BY <2>5, <3>1, <3>2 DEF SafetyOf, Replacing, BeforeCopy
  <2>6. CASE pc'[j] \notin BeforeCopy \cup Replacing \cup Stray
    BY <1>1, <2>6, SafetyGrows
  <2>7. \/ Finish(j) \/ SaveProject(j) \/ SaveVolumes(j) \/ SealSafety(j)
        \/ pc[j] \in Replacing /\ saved'[j] = saved[j] /\ pc'[j] \in Replacing
        \/ pc'[j] \notin BeforeCopy \cup Replacing \cup Stray
    <3>1. CASE StopStack(j)
      BY <3>1, StopOthers DEF StopStack, Replacing
    <3>2. CASE ~StopStack(j)
      BY <3>2 DEF TypeOK, Kind, Goto, BeforeCopy, Stray, JobStep, Probe, ProbeBusy, ProbeTakes, ProbeReleases,
         Acquire, CheckArgument, LockRefused, LockTaken,
         Backup, CopyProject, CopyVolumes, WriteArchive, ArchiveAccepted, ArchiveRejected,
         Restore, Extract, PreflightPassed, PreflightRejected,
         WipeProject, CopyInProject, WipeVolumes, CopyInVolumes,
         Render, RestoreDone, RestoreFails,
         Delete, Unlink, UnlinkMissing, DeleteDone, Validated, diskVars, Replacing
    <3>. QED  BY <3>1, <3>2
  <2>. QED  BY <2>1, <2>2, <2>3, <2>4, <2>5, <2>6, <2>7
<1>5. ASSUME NEW i \in Job, i # j PROVE SafetyOf(i)'
  <2>1. CASE pc'[i] \in BeforeCopy
    <3>1. Same(i)
      BY <1>5, <2>1, Others DEF BeforeCopy
    <3>2. holder = i
      BY <2>1, <3>1 DEF Same, LockInv, BeforeCopy, RecoveryWork, RestoreWork, SafetyWork, Replacing
    <3>3. pc[j] \notin RestoreWork
      BY <1>5, <3>2 DEF LockInv, RecoveryWork
    <3>. QED  BY <1>1, <3>1, <3>3, QuietJob, SafetyGrows
  <2>2. CASE pc'[i] \notin BeforeCopy
    BY <1>1, <1>5, <2>2, Others, SafetyGrows DEF SafetyOf, Same, Replacing, Stray
  <2>. QED  BY <2>1, <2>2
<1>6. volumes' = Torn => HasVolumes'
  BY <1>1, <1>2, SafetyGrows DEF SafetyOf
<1>. QED  BY <1>3, <1>4, <1>5, <1>6, SafetyPartsNext

LEMMA SafetyStep ==
  ASSUME TypeOK, WorkInv, LockInv, SafetyInv, [Next]_vars
  PROVE  SafetyInv'
<1>. USE RecoveryAssumption, SafetyParts
<1>1. ASSUME safety' = safety, undo' = undo,
             (project' = Torn) <=> (project = Torn),
             volumes' = Torn => volumes = Torn \/ HasVolumes,
             \A i \in Job : Same(i) \/ pc'[i] \in {"idle", "start", "probe"}
      PROVE  SafetyInv'
  <2>1. \A i \in Job : pc'[i] \in {"idle", "start", "probe"} => SafetyOf(i)'
    BY <1>1, SafetyGrows DEF BeforeCopy, Replacing, Stray
  <2>2. \A i \in Job : SafetyOf(i)'
    BY <1>1, <2>1, SafetyGrows
  <2>. QED  BY <1>1, <2>2, SafetyGrows, SafetyPartsNext
<1>2. ASSUME NEW j \in Job, NEW k \in Kind, NEW v \in {"api", "cli"}, NEW a \in Archive,
             Begin(j, k, v, a)
      PROVE  SafetyInv'
  BY <1>1, <1>2 DEF TypeOK, Begin, Goto, Same, diskVars
<1>3. CASE (\E j \in Job : KillJob(j)) \/ HostCrash
  BY <1>1, <1>3 DEF TypeOK, KillJob, HostCrash, Gone, Vanish, Forget, Release, Same, diskVars
<1>4. CASE ConfigWrite \/ ServiceWrite \/ StackStarted \/ UNCHANGED vars
  BY <1>1, <1>4 DEF ConfigWrite, ServiceWrite, StackStarted, vars, jobVars, diskVars, Same
<1>5. ASSUME NEW j \in Job, KillLeavesHelper(j) \/ StrayEmpties(j)
      PROVE  SafetyInv'
  <2>1. /\ safety' = safety /\ undo' = undo /\ project' = project
        /\ pc'[j] \in Stray /\ saved'[j] = saved[j] /\ pc[j] \in Replacing \cup Stray
        /\ \A i \in Job : i # j => Same(i)
    BY <1>5 DEF TypeOK, KillLeavesHelper, StrayEmpties, Intrude, Forget, Goto, Same, diskVars,
                Replacing, Stray
  <2>2. HasVolumes' /\ SafetyOf(j)'
    BY <2>1, SafetyGrows DEF SafetyOf, BeforeCopy, Stray
  <2>. QED  BY <2>1, <2>2, SafetyGrows, SafetyPartsNext
<1>6. ASSUME NEW j \in Job, StrayFills(j) PROVE SafetyInv'
  <2>1. HasVolumes
    BY <1>6 DEF StrayFills, SafetyOf, Stray
  <2>. QED  BY <1>1, <1>6, <2>1 DEF TypeOK, StrayFills, Intrude, Goto, Same
<1>. QED  BY <1>2, <1>3, <1>4, <1>5, <1>6, JobSafety DEF Next, StrayStep

-----------------------------------------------------------------------------
(* DownInv: nobody else touches the installation between 90-down.sh and the *)
(* restart.                                                                 *)

\* What DownInv says of one job.
DownOf(i) ==
    /\ pc[i] \in AfterDown => stack = "down"
    /\ pc[i] \in {"wipeVolumes", "copyInVolumes", "render", "restart"} =>
           project = staged[i].project
    /\ pc[i] \in {"render", "restart"} /\ staged[i].volumes # None /\ i \notin mixed =>
           volumes = staged[i].volumes

LEMMA DownParts ==
    /\ DownInv <=> \A i \in Job : DownOf(i)
    /\ DownInv' <=> \A i \in Job : DownOf(i)'
  BY DEF DownInv, DownOf, InstalledMatchesStaged

LEMMA DownSame ==
  ASSUME NEW i \in Job
  PROVE  /\ pc'[i] \notin AfterDown => DownOf(i)'
         /\ DownOf(i) /\ Same(i) /\ UNCHANGED <<project, volumes, stack>> => DownOf(i)'
  BY DEF DownOf, Same, AfterDown, Replacing

LEMMA JobDown ==
  ASSUME TypeOK, WorkInv, LockInv, DownInv, NEW j \in Job, JobStep(j)
  PROVE  DownInv'
<1>. USE DownParts DEF AfterDown, Replacing
<1>1. ASSUME NEW i \in Job, i # j PROVE DownOf(i)'
  <2>1. CASE pc'[i] \in AfterDown
    <3>1. Same(i)
      BY <1>1, <2>1, Others
    <3>2. holder = i
      BY <2>1, <3>1 DEF Same, LockInv, RecoveryWork, RestoreWork
    <3>3. pc[j] \notin RestoreWork
      BY <1>1, <3>2 DEF LockInv, RecoveryWork
    <3>. QED  BY <3>1, <3>3, QuietJob, DownSame
  <2>. QED  BY <2>1, DownSame
<1>2. DownOf(j)'
  <2>1. CASE Finish(j)
    BY <2>1, FinishOthers, DownSame
  <2>2. CASE StopStack(j)
    BY <2>2, StopOthers DEF StopStack, DownOf
  <2>3. CASE WipeProject(j)
    BY <2>3 DEF TypeOK, WipeProject, Goto, DownOf
  <2>4. CASE CopyInProject(j)
    BY <2>4 DEF TypeOK, CopyInProject, Goto, DownOf
  <2>5. CASE WipeVolumes(j)
    BY <2>5 DEF TypeOK, WipeVolumes, Goto, DownOf
  <2>6. CASE CopyInVolumes(j)
    BY <2>6 DEF TypeOK, CopyInVolumes, Goto, DownOf
  <2>7. CASE Render(j)
    BY <2>7 DEF TypeOK, Render, Goto, DownOf, diskVars
  <2>8. CASE /\ ~Finish(j) /\ ~StopStack(j) /\ ~WipeProject(j) /\ ~CopyInProject(j)
             /\ ~WipeVolumes(j) /\ ~CopyInVolumes(j) /\ ~Render(j)
    <3>1. pc'[j] \notin AfterDown
      BY <2>8 DEF TypeOK, Kind, Goto, JobStep, Probe, ProbeBusy, ProbeTakes, ProbeReleases,
         Acquire, CheckArgument, LockRefused, LockTaken,
         Backup, CopyProject, CopyVolumes, WriteArchive, ArchiveAccepted, ArchiveRejected,
         Restore, Extract, PreflightPassed, PreflightRejected, SaveProject, SaveVolumes,
         SealSafety, RestoreDone, RestoreFails,
         Delete, Unlink, UnlinkMissing, DeleteDone, Validated
    <3>. QED  BY <3>1, DownSame
  <2>. QED  BY <2>1, <2>2, <2>3, <2>4, <2>5, <2>6, <2>7, <2>8
<1>. QED  BY <1>1, <1>2

LEMMA DownStep ==
  ASSUME TypeOK, WorkInv, LockInv, DownInv, [Next]_vars
  PROVE  DownInv'
<1>. USE RecoveryAssumption, DownParts DEF AfterDown, Replacing
<1>1. ASSUME NEW j \in Job, NEW k \in Kind, NEW v \in {"api", "cli"}, NEW a \in Archive,
             Begin(j, k, v, a)
      PROVE  DownInv'
  BY <1>1 DEF TypeOK, Begin, Goto, DownOf, diskVars
<1>2. ASSUME NEW j \in Job, KillJob(j) PROVE DownInv'
  BY <1>2 DEF TypeOK, KillJob, Gone, Vanish, Forget, Release, DownOf, diskVars
<1>3. CASE HostCrash
  BY <1>3 DEF TypeOK, HostCrash, Gone, DownOf
<1>4. CASE ConfigWrite \/ ServiceWrite
  BY <1>4 DEF ConfigWrite, ServiceWrite, DownOf, jobVars
<1>5. CASE StackStarted
  <2>1. \A i \in Job : pc[i] \notin AfterDown
    BY <1>5 DEF StackStarted, LockInv, RecoveryWork, RestoreWork
  <2>. QED  BY <1>5, <2>1 DEF StackStarted, jobVars, DownOf
<1>6. CASE UNCHANGED vars
  BY <1>6 DEF vars, jobVars, diskVars, DownOf
<1>7. ASSUME NEW j \in Job, KillLeavesHelper(j) PROVE DownInv'
  BY <1>7 DEF TypeOK, KillLeavesHelper, Forget, Goto, DownOf, diskVars
<1>8. ASSUME NEW j \in Job, StrayStep(j) PROVE DownInv'
  BY <1>8 DEF TypeOK, StrayStep, StrayEmpties, StrayFills, Intrude, Goto, DownOf
<1>. QED  BY <1>1, <1>2, <1>3, <1>4, <1>5, <1>6, <1>7, <1>8, JobDown DEF Next

-----------------------------------------------------------------------------
(* The theorems *)

LEMMA IndInvInit == Init => IndInv
<1>. SUFFICES ASSUME Init PROVE IndInv
  OBVIOUS
<1>1. /\ \A i \in Job : pc[i] = "idle"
      /\ project # Torn /\ volumes # Torn
  BY RecoveryAssumption DEF Init
<1>2. LockInv
  BY <1>1 DEF LockInv, RecoveryWork, BackupWork, RestoreWork, Preflight, SafetyWork, Replacing
<1>3. SafetyInv
  BY <1>1, SafetyParts DEF SafetyOf, Replacing, BeforeCopy, Stray
<1>4. DownInv
  BY <1>1, DownParts DEF DownOf, AfterDown, Replacing
<1>. QED  BY <1>2, <1>3, <1>4, InitType DEF IndInv

LEMMA IndInvStep == IndInv /\ [Next]_vars => IndInv'
  BY StepType, LockStep, SafetyStep, DownStep DEF IndInv

LEMMA Inductive == Spec => []IndInv
  BY IndInvInit, IndInvStep, PTL DEF Spec

\* The variables keep their types, for any constants: in particular a file that
\* passed validate_archive_safety has a project tree, and what is restored is a
\* tree and, unless the archive is a legacy one, volumes (backup_to_archive).
THEOREM TypeCorrect == Spec => []TypeOK
<1>1. IndInv => TypeOK
  BY DEF IndInv
<1>. QED  BY <1>1, Inductive, PTL

\* For any number of jobs, requests and scripts alike, and any kills, at most one
\* living backup, restore or validation is at work (the flock of
\* _recovery.sh:63-70 and server.py:3035-3049).
THEOREM Exclusive == Spec => []ExclusiveRecovery
<1>1. IndInv => ExclusiveRecovery
  BY LockExcludes DEF IndInv
<1>. QED  BY <1>1, Inductive, PTL

\* While the tree is torn, by restores killed at whatever step and repeated any
\* number of times, restore-safety/ holds the copy that the one which tore it took
\* of it; and some intact volumes, while volumes are torn (60-restore.sh:75-86).
THEOREM Recoverable == Spec => []TornIsRecoverable
<1>1. IndInv => TornIsRecoverable
  BY DEF IndInv, SafetyInv
<1>. QED  BY <1>1, Inductive, PTL

\* What a restore renders and restarts is the payload that passed its preflight,
\* but for volumes that a stray helper has written to (60-restore.sh:50-98).
THEOREM MatchesStaged == Spec => []InstalledMatchesStaged
<1>1. IndInv => InstalledMatchesStaged
  BY DEF IndInv, DownInv
<1>. QED  BY <1>1, Inductive, PTL

\* j may replace the installation; the helper of a killed one may fill volumes.
Replaces(j) == Checked(j) /\ pc[j] \in Replacing /\ holder = j
StrayOf(j)  == Checked(j) /\ pc[j] \in Stray

Disturbed ==
    /\ (stack # "down" /\ stack' = "down") \/ (project # Torn /\ project' = Torn) =>
           \E j \in Job : Replaces(j)
    /\ volumes # Torn /\ volumes' = Torn => \E j \in Job : Replaces(j) \/ StrayOf(j)

LEMMA DisturbStep ==
  ASSUME IndInv, Next
  PROVE  Disturbed
<1>. USE RecoveryAssumption
<1>1. ASSUME NEW j \in Job, pc[j] \in Replacing PROVE Replaces(j)
  BY <1>1 DEF IndInv, Replaces, Checked, WorkInv, LockInv, SafetyInv, TornIsRecoverable,
              RecoveryWork, RestoreWork
<1>2. ASSUME NEW j \in Job, pc[j] \in Stray PROVE StrayOf(j)
  BY <1>2 DEF IndInv, StrayOf, Checked, WorkInv, SafetyInv
<1>3. ASSUME NEW j \in Job, JobStep(j)
      PROVE  \/ pc[j] \in Replacing
             \/ /\ ~(stack # "down" /\ stack' = "down")
                /\ ~(project # Torn /\ project' = Torn)
                /\ ~(volumes # Torn /\ volumes' = Torn)
  BY <1>3 DEF JobStep, Probe, ProbeBusy, ProbeTakes, ProbeReleases,
         Acquire, CheckArgument, LockRefused, LockTaken,
         Backup, CopyProject, CopyVolumes, WriteArchive, ArchiveAccepted, ArchiveRejected,
         Restore, Extract, PreflightPassed, PreflightRejected, SaveProject, SaveVolumes,
         SealSafety, StopStack, WipeProject, CopyInProject, WipeVolumes, CopyInVolumes,
         Render, RestoreDone, RestoreFails,
         Delete, Unlink, UnlinkMissing, DeleteDone, Validated, diskVars, Replacing
<1>4. ASSUME NEW j \in Job, StrayStep(j)
      PROVE  pc[j] \in Stray /\ UNCHANGED <<project, stack>>
  BY <1>4 DEF StrayStep, StrayEmpties, StrayFills, Stray
<1>5. CASE \E j \in Job : JobStep(j)
  BY <1>1, <1>3, <1>5 DEF Disturbed
<1>6. CASE \E j \in Job : StrayStep(j)
  BY <1>2, <1>4, <1>6 DEF Disturbed
<1>7. CASE ~(\E j \in Job : JobStep(j)) /\ ~(\E j \in Job : StrayStep(j))
  BY <1>7 DEF Disturbed, Next, Begin, KillJob, KillLeavesHelper, HostCrash, ConfigWrite,
              ServiceWrite, StackStarted, diskVars
<1>. QED  BY <1>5, <1>6, <1>7

\* Nothing but a restore that has passed its preflight and sealed its safety
\* archive stops the stack or tears the installation, and nothing but the helper
\* of such a restore goes on after its end (60-restore.sh:54,75-80).
THEOREM CheckedRestoreDisturbs == Spec => OnlyCheckedRestoreDisturbs
<1>1. IndInv /\ [Next]_vars => [Disturbed]_vars
  BY DisturbStep
<1>2. [Disturbed]_vars =>
      [ /\ (stack # "down" /\ stack' = "down") \/ (project # Torn /\ project' = Torn) =>
               \E j \in Job : Checked(j) /\ pc[j] \in Replacing /\ holder = j
        /\ volumes # Torn /\ volumes' = Torn =>
               \E j \in Job : /\ Checked(j)
                              /\ (pc[j] \in Replacing /\ holder = j) \/ pc[j] \in Stray ]_vars
  BY DEF Disturbed, Replaces, StrayOf
<1>. QED  BY <1>1, <1>2, Inductive, PTL DEF Spec, OnlyCheckedRestoreDisturbs

=============================================================================
